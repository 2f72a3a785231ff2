------------------------------ MODULE Release -------------------------------
(***************************************************************************)
(* The workflows together: a merge of Sync is the push to main that starts *)
(* a run of Tag.                                                           *)
(***************************************************************************)
EXTENDS Sync

CONSTANTS MaxMinor   \* bound on the minor versions pushed by hand

ASSUME MinorAssumption == MaxMinor \in Nat

VARIABLES tags, jobs, crowded

T == INSTANCE Tag WITH head <- Len(log)

vars == <<syncVars, tags, jobs, crowded>>

Init == SyncInit /\ T!TagInit

Next ==
    \/ SyncNext /\ IF log' = log THEN UNCHANGED <<tags, jobs, crowded>> ELSE T!Trigger(Len(log'))
    \/ UNCHANGED syncVars /\ ((\E k \in DOMAIN jobs : T!Job(k)) \/ T!TagByHand)

Spec == Init /\ [][Next]_vars

----------------------------------------------------------------------------
(* Properties.                                                             *)

\* The type invariant.
TypeOK == SyncTypeOK /\ T!TypeOK

\* Whatever release a consumer pins, its data passed the validation gate:
\* every published model has a price in it.
ReleasesPassGate == \A v \in DOMAIN tags : log[tags[v]].data \in Passes

\* To tag.yml the sync is the pushes to main it makes, one commit at a time:
\* a merge is squashed (sync.yml:168), so every one of its commits has a run.
ImplementsTag == T!Spec

\* What a consumer pinned stays what it is: no tag moves and none is lost,
\* whatever the runs of tag.yml do at once.
ReleasedStays == T!ReleasedStays

\* "Every merge auto-tags a patch release" (sync.yml:21), as long as no two
\* runs of tag.yml overlap.
SpacedMergesAreReleased == T!SpacedMergesAreReleased
=============================================================================
