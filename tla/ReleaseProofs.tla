---------------------------- MODULE ReleaseProofs ----------------------------
(***************************************************************************)
(* The workflows together: what is proved of Sync and of Tag, carried over *)
(* to their composition.                                                   *)
(***************************************************************************)
EXTENDS Release, SyncProofs

TP == INSTANCE TagProofs WITH head <- Len(log)

\* A step of the sync pushes at most one commit to main.
LEMMA OneMergeAtATime ==
    ASSUME SyncInv, SyncNext, log' # log
    PROVE  Len(log') = Len(log) + 1
<1>1. PICK by \in {"auto", "human"} : Merge(by)
  BY DEF SyncNext, UpstreamCommit, Start, Advance, Fetch, Push, OpenPR, View, Apply, End,
     Fail, Local, Write, CI, CIFails, AutoMerge, HumanMerge
<1>2. log \in Seq(Merges)
  BY DEF SyncInv, SyncTypeOK, Merges
<1> QED BY <1>1, <1>2 DEF Merge

LEMMA SyncPart == Spec => SyncSpec
<1>1. Init => SyncInit
  BY DEF Init
<1>2. [Next]_vars => [SyncNext]_syncVars
  BY DEF Next, vars
<1> QED BY <1>1, <1>2, PTL DEF Spec, SyncSpec

\* To the tags, the sync is nothing but pushes of one commit to main.
THEOREM SyncPushesToMain == Spec => ImplementsTag
<1>1. Init => T!Init
  BY DEF Init, SyncInit, T!Init
<1>2. SyncInv /\ [Next]_vars => [T!Next]_(T!vars)
  <2> SUFFICES ASSUME SyncInv, [Next]_vars PROVE [T!Next]_(T!vars)
    OBVIOUS
  <2>1. CASE SyncNext /\ log' = log /\ UNCHANGED <<tags, jobs, crowded>>
    BY <2>1 DEF T!vars
  <2>2. CASE SyncNext /\ log' # log /\ T!Trigger(Len(log'))
    <3>1. Len(log') = Len(log) + 1
      BY <2>2, OneMergeAtATime
    <3>2. T!PushToMain
      BY <2>2, <3>1 DEF T!PushToMain
    <3> QED BY <3>2 DEF T!Next
  <2>3. CASE UNCHANGED syncVars /\ ((\E k \in DOMAIN jobs : T!Job(k)) \/ T!TagByHand)
    BY <2>3 DEF T!Next
  <2>4. CASE UNCHANGED vars
    BY <2>4 DEF vars, syncVars, T!vars
  <2> QED BY <2>1, <2>2, <2>3, <2>4 DEF Next
<1>3. Spec => []SyncInv
  BY SyncPart, SyncInvariance, PTL
<1> QED BY <1>1, <1>2, <1>3, PTL DEF Spec, ImplementsTag, T!Spec

\* What is proved of Tag holds of the tags here.
LEMMA TagPart == Spec => TP!Spec
<1>1. T!Init => TP!Init
  BY DEF T!Init, TP!Init, T!TagInit, TP!TagInit
<1>2. [T!Next]_(T!vars) => [TP!Next]_(TP!vars)
  BY Zenon DEF T!Next, TP!Next, T!vars, TP!vars, T!PushToMain, TP!PushToMain, T!Trigger,
     TP!Trigger, T!Job, TP!Job, T!TagByHand, TP!TagByHand, T!Checkout, TP!Checkout,
     T!PushTag, TP!PushTag, T!Lose, TP!Lose, T!With, TP!With, T!next, TP!next, T!latest, TP!latest,
     T!Older, TP!Older, T!NoVersion, TP!NoVersion, T!Active, TP!Active
<1>3. T!Spec => TP!Spec
  BY <1>1, <1>2, PTL DEF T!Spec, TP!Spec
<1> QED BY <1>3, SyncPushesToMain, PTL DEF ImplementsTag

LEMMA TagTypes == Spec => []T!TypeOK
<1>1. TP!TypeOK => T!TypeOK
  BY Zenon DEF TP!TypeOK, T!TypeOK
<1> QED BY <1>1, TagPart, TP!TypeCorrect, PTL

\* No tag moves or is lost, whatever the sync and the runs of tag.yml do.
THEOREM ReleasesStayThroughSync == Spec => ReleasedStays
<1>1. TP!ReleasedStays => ReleasedStays
  BY PTL DEF ReleasedStays, T!ReleasedStays, TP!ReleasedStays
<1> QED BY <1>1, TagPart, TP!ReleasesStay, PTL

\* Without overlap the tag of no merge of the sync is refused, and the tags
\* are in the order of the merges.
THEOREM SyncIsReleased == Spec => []SpacedMergesAreReleased
<1>1. TP!SpacedMergesAreReleased => SpacedMergesAreReleased
  BY Zenon DEF SpacedMergesAreReleased, T!SpacedMergesAreReleased, TP!SpacedMergesAreReleased,
     T!EveryMergeIsReleased, TP!EveryMergeIsReleased,
     T!Older, TP!Older, T!Active, TP!Active
<1> QED BY <1>1, TagPart, TP!MergesAreReleased, PTL

\* Types, for every number of merges.
THEOREM ReleaseTypeCorrect == Spec => []TypeOK
<1>2. Spec => []SyncTypeOK
  BY SyncPart, SyncTypeCorrect, PTL
<1>3. SyncTypeOK /\ T!TypeOK => TypeOK
  BY DEF TypeOK
<1> QED BY <1>2, <1>3, TagTypes, PTL

\* Whatever release a consumer pins, its data passed the gate.
THEOREM ReleasesAreGated == Spec => []ReleasesPassGate
<1>1. SyncInv /\ T!TypeOK => ReleasesPassGate
  <2> SUFFICES ASSUME SyncInv, T!TypeOK, NEW v \in DOMAIN tags
               PROVE  log[tags[v]].data \in Passes
    BY DEF ReleasesPassGate
  <2>1. tags[v] \in 1 .. Len(log)
    BY DEF T!TypeOK
  <2>2. tags[v] \in DOMAIN log
    BY <2>1 DEF SyncInv, SyncTypeOK
  <2> QED BY <2>2 DEF SyncInv, GateInv
<1>2. Spec => []SyncInv
  BY SyncPart, SyncInvariance, PTL
<1> QED BY <1>1, <1>2, TagTypes, PTL
=============================================================================
