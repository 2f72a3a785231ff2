-------------------------------- MODULE Tag ---------------------------------
(***************************************************************************)
(* .github/workflows/tag.yml: every push to main starts a run that tags    *)
(* its commit with the next patch version.  A commit is its position in    *)
(* the history of main, a version a pair <<minor, patch>>; consumers pin   *)
(* tags.  Runs for different pushes overlap, and any may be lost.          *)
(***************************************************************************)
EXTENDS Integers

CONSTANTS MaxMinor   \* bound on the minor versions pushed by hand

VARIABLES head,     \* the last commit of main
          tags,     \* the remote's tags
          jobs,     \* the run of each pushed commit
          crowded   \* TRUE once two of them, or a tag pushed by hand, overlapped

tagVars == <<tags, jobs, crowded>>
vars == <<head, tags, jobs, crowded>>

NoVersion == <<0, 0>>
Older(v, w) == v[1] < w[1] \/ (v[1] = w[1] /\ v[2] < w[2])
\* The last of git tag --list --sort=v:refname, if there is a tag.
latest(ts) == IF ts = {} THEN NoVersion
              ELSE CHOOSE v \in ts : \A w \in ts \ {v} : Older(w, v)

\* Faulty variant: a shallow clone has no tags.
nextShallow(ts) == <<1, 0>>

next(ts) == LET v == latest(ts) IN IF ts = {} THEN <<1, 0>> ELSE <<v[1], v[2] + 1>>

Active == {k \in DOMAIN jobs : jobs[k].pc \in {"checkout", "push"}}

TagInit == tags = <<>> /\ jobs = <<>> /\ crowded = FALSE
Init == head = 1 /\ TagInit

\* Faulty variant: a push cancels the runs of earlier ones.
TriggerAlone(commit) ==
    /\ jobs' = [k \in {commit} |-> [pc |-> "checkout", version |-> NoVersion]]
    /\ crowded' = (crowded \/ Active # {})
    /\ UNCHANGED tags

\* A push to main triggers a run for its commit.
Trigger(commit) ==
    /\ jobs' = [k \in DOMAIN jobs \cup {commit} |->
                  IF k = commit THEN [pc |-> "checkout", version |-> NoVersion] ELSE jobs[k]]
    /\ crowded' = (crowded \/ Active # {})
    /\ UNCHANGED tags
PushToMain == head' = head + 1 /\ Trigger(head + 1)

\* Checkout with every tag, and the next version.
Checkout(k) ==
    /\ jobs[k].pc = "checkout"
    /\ jobs' = [jobs EXCEPT ![k] = [pc |-> "push", version |-> next(DOMAIN tags)]]
    /\ UNCHANGED <<head, tags, crowded>>

With(v, commit) == [w \in DOMAIN tags \cup {v} |-> IF w = v THEN commit ELSE tags[w]]

\* Faulty variant: the tag is forced.
PushTagForced(k) ==
    /\ jobs[k].pc = "push"
    /\ tags' = With(jobs[k].version, k)
    /\ jobs' = [jobs EXCEPT ![k].pc = "tagged"]
    /\ UNCHANGED <<head, crowded>>

\* git push origin: the remote refuses a tag it has.
PushTag(k) ==
    /\ jobs[k].pc = "push"
    /\ IF jobs[k].version \in DOMAIN tags
       THEN tags' = tags /\ jobs' = [jobs EXCEPT ![k].pc = "refused"]
       ELSE tags' = With(jobs[k].version, k) /\ jobs' = [jobs EXCEPT ![k].pc = "tagged"]
    /\ UNCHANGED <<head, crowded>>

\* The run fails otherwise: no runner, no checkout, no connection, no right
\* to push.
Lose(k) ==
    /\ k \in Active
    /\ jobs' = [jobs EXCEPT ![k].pc = "failed"]
    /\ UNCHANGED <<head, tags, crowded>>

\* Somebody tags the head of main with a new minor version.
TagByHand ==
    LET v == <<latest(DOMAIN tags)[1] + 1, 0>>
    IN /\ v[1] <= MaxMinor
       /\ tags' = With(v, head)
       /\ crowded' = (crowded \/ Active # {})
       /\ UNCHANGED <<head, jobs>>

Job(k) == Checkout(k) \/ PushTag(k) \/ Lose(k)
Next == PushToMain \/ (\E k \in DOMAIN jobs : Job(k)) \/ TagByHand
Spec == Init /\ [][Next]_vars

----------------------------------------------------------------------------
(* Properties.                                                             *)

\* The type invariant.
TypeOK ==
    /\ head \in Nat \ {0}
    /\ DOMAIN tags \subseteq Nat \X Nat /\ \A v \in DOMAIN tags : tags[v] \in 1 .. head
    /\ DOMAIN jobs = 2 .. head
    /\ \A k \in DOMAIN jobs : jobs[k] \in 
          [pc: {"checkout", "push", "tagged", "refused", "failed"}, version: Nat \X Nat]
    /\ crowded \in BOOLEAN

\* What a consumer pinned stays what it is: no tag moves and none is lost,
\* whatever the runs of tag.yml do at once.
ReleasedStays ==
    [][\A v \in DOMAIN tags : v \in DOMAIN tags' /\ tags'[v] = tags[v]]_tags

\* "Every merge auto-tags a patch release" (sync.yml:21): a run that was not
\* lost on the way has tagged its commit.
EveryMergeIsReleased ==
    \A k \in DOMAIN jobs \ Active :
       jobs[k].pc = "failed" \/ \E v \in DOMAIN tags : tags[v] = k

\* So it is as long as no two runs overlapped, and a newer version is no
\* older commit: the newest release is then the last merge that has one.
SpacedMergesAreReleased ==
    ~ crowded =>
       /\ EveryMergeIsReleased
       /\ \A v, w \in DOMAIN tags : Older(v, w) => tags[v] <= tags[w]

----------------------------------------------------------------------------
(* The inductive invariant the proofs rest on.                             *)

HasLatest(ts) == ts # {} => \E v \in ts : \A w \in ts \ {v} : Older(w, v)

\* Without overlap there is at most one run, that of the last commit, and no
\* tag is pushed after it has read them.
SpacedInv ==
    ~ crowded => \A k \in Active :
                    k = head /\ (jobs[k].pc = "push" => jobs[k].version = next(DOMAIN tags))

Inv == TypeOK /\ HasLatest(DOMAIN tags) /\ SpacedInv /\ SpacedMergesAreReleased
=============================================================================
