-------------------------------- MODULE Sync --------------------------------
(***************************************************************************)
(* .github/workflows/sync.yml and ci.yml: the vendored data on main, the   *)
(* sync branch with its pull request, and the runs of the daily workflow.  *)
(* Runs overlap (a schedule, and workflow_dispatch, with no concurrency    *)
(* group) and any step that calls GitHub may fail, as may the checks of    *)
(* CI.  A version stands for the content of the vendored file; the         *)
(* curation never changes.  GitHub, its auto-merge and the humans who      *)
(* approve are external.                                                   *)
(***************************************************************************)
EXTENDS PriceDiff

CONSTANTS Versions,        \* versions of LiteLLM's file
          SnapshotOf(_),   \* what Parse makes of one; Nil if it panics
          Canaries(_),     \* it passes the other data tests of go test
          Curation,        \* the published models and the overrides
          Initial,         \* the version vendored at first
          Usages,          \* responses at a base inference geo
          Daily,           \* the scheduled run, of which there is one at a time
          Dispatched,      \* the runs somebody starts by hand, each once
          MaxCommits, MaxFailures   \* bounds: changes upstream, failed steps and checks

ASSUME VersionAssumption == Initial \in Versions /\ Usages \subseteq Usage
ASSUME RunAssumption == Daily \notin Dispatched
ASSUME SyncBoundAssumption == MaxCommits \in Nat /\ MaxFailures \in Nat

VARIABLES upstream,   \* the version LiteLLM's main has
          commits,    \* how often it changed
          log,        \* the merges to main: the data, and who merged it
          branch,     \* sync/litellm-prices: its data, and the data it is based on
          pr,         \* the open pull request
          ci,         \* what CI says of the branch
          runs,       \* the runs
          failures,   \* steps, and checks of good data, that failed
          settled     \* TRUE when the last run to write to the branch or the pull
                      \* request applied its policy, and no other wrote meanwhile

syncVars == <<upstream, commits, log, branch, pr, ci, runs, failures, settled>>

L == INSTANCE Billing WITH phase <- Nil, table <- Nil, call <- Nil, reply <- Nil,
        Snapshots <- {}, Configs <- {}, Models <- {}

----------------------------------------------------------------------------
(* What a checkout of a version computes.                                  *)

\* Its price book can be built.
Builds(v) == /\ SnapshotOf(v) # Nil /\ ~ Miscurated(Curation)
             /\ L!Sound(SnapshotOf(v), Config(Curation))
BookOf(v) == newBook(SnapshotOf(v), Curation)

\* What the Go types say of the curation and of what Parse returns.
ASSUME DataAssumption ==
    /\ IsCuration(Curation)
    /\ \A v \in Versions : SnapshotOf(v) # Nil =>
          \A key \in DOMAIN SnapshotOf(v) :
             /\ DOMAIN SnapshotOf(v)[key] \subseteq ServiceTiers
             /\ \A s \in DOMAIN SnapshotOf(v)[key] : IsRates(SnapshotOf(v)[key][s])

\* What go test asserts of the data besides: TestTableInvariants of the
\* snapshot, and TestBook that a model has one rate per tier, speed, context
\* tier and component.
SameRate(x, y) ==
    /\ x.Model = y.Model /\ x.Tier = y.Tier /\ x.Fast = y.Fast
    /\ x.AbovePromptTokens = y.AbovePromptTokens /\ x.Component = y.Component
ASSUME CanaryAssumption ==
    \A v \in Versions : Builds(v) /\ Canaries(v) =>
       /\ \A key \in DOMAIN SnapshotOf(v) :
             /\ "standard" \in DOMAIN SnapshotOf(v)[key]
             /\ \A s \in DOMAIN SnapshotOf(v)[key] : ValidRates(SnapshotOf(v)[key][s])
       /\ \A x, y \in rates(BookOf(v)) : SameRate(x, y) => x = y

\* No response names a geo or a region that any version prices apart.
ASSUME BaseGeoAssumption ==
    \A u \in Usages :
       /\ ~ Pinned(u)
       /\ \A v \in Versions : Builds(v) =>
             \A x \in BookOf(v).published : \A s \in TiersOf(BookOf(v), x.id) :
                ~ Uplifted(u, RatesFor(BookOf(v), x.id, s))

\* go test ./..., with TestPublishedPriceable spelled out.
Gate(v) ==
    /\ Builds(v) /\ Canaries(v)
    /\ LET b == BookOf(v)
       IN \A x \in b.published :
             /\ "standard" \in TiersOf(b, x.id)
             /\ x.key \notin DOMAIN b.overrides => x.key \in ModelsOf(b, x.provider)

\* The class of a change, and the merge policy: what is blocked, and what a
\* human approves, once for all pairs of versions.
Class(p) == class(diff(rates(BookOf(p[1])), rates(BookOf(p[2]))))
Blocked == {p \in Versions \X Versions :
              ~ Gate(p[2]) \/ ~ Builds(p[1]) \/ Class(p) = "published-removed"}
Repriced == {p \in (Versions \X Versions) \ Blocked : Class(p) = "published-price-change"}

\* Faulty variant: the class is taken for the policy.
PolicyOfClass(base, v) == IF <<base, v>> \in Repriced THEN "published-price-change" ELSE "auto"

Policy(base, v) == IF <<base, v>> \in Blocked THEN "blocked"
                   ELSE IF <<base, v>> \in Repriced THEN "human" ELSE "auto"
Passes == {v \in Versions : Gate(v)}

\* The tests of the first version are green.
ASSUME GateAssumption == Initial \in Passes

----------------------------------------------------------------------------
main == log[Len(log)].data

Runs == {Daily} \cup Dispatched
Idle == [pc |-> "idle", base |-> Initial, data |-> Initial, merge |-> "auto", pr |-> 0,
         todo |-> <<>>, sole |-> TRUE]
Over(r) == IF r = Daily THEN Idle ELSE [Idle EXCEPT !.pc = "over"]
NoPR == [n |-> 0, draft |-> FALSE, auto |-> FALSE, body |-> "auto"]

SyncInit ==
    /\ upstream = Initial /\ commits = 0
    /\ log = <<[data |-> Initial, by |-> "human"]>>
    /\ branch = [data |-> Initial, base |-> Initial]
    /\ pr = NoPR /\ ci = "none"
    /\ runs = [r \in Runs |-> Idle]
    /\ failures = 0 /\ settled = TRUE

\* LiteLLM changes the file.
UpstreamCommit(v) ==
    /\ v # upstream /\ commits < MaxCommits
    /\ upstream' = v /\ commits' = commits + 1
    /\ UNCHANGED <<log, branch, pr, ci, runs, failures, settled>>

\* A run moves on, without a write to the branch or the pull request ...
Local(r, to) == /\ runs' = [runs EXCEPT ![r] = to]
                /\ UNCHANGED <<upstream, commits, log, branch, pr, ci, failures, settled>>

\* ... and with one, after which no other run is the sole writer.
Write(r, to) ==
    /\ runs' = [x \in Runs |-> IF x = r THEN to ELSE [runs[x] EXCEPT !.sole = FALSE]]
    /\ settled' = FALSE
    /\ UNCHANGED <<upstream, commits, log, failures>>

----------------------------------------------------------------------------
(* The steps of a run.                                                     *)

\* Checkout, and the dump of its price book.
Start(r) == /\ runs[r].pc = "idle"
            /\ Local(r, [Idle EXCEPT !.pc = "fetch", !.base = main])

\* The fetch, and if the file changed the gate, the class and the policy.
Fetch(r) ==
    /\ runs[r].pc = "fetch"
    /\ IF upstream = runs[r].base
       THEN Local(r, Over(r))
       ELSE Local(r, [runs[r] EXCEPT !.pc = "push", !.data = upstream,
                                     !.merge = Policy(runs[r].base, upstream)])

\* create-pull-request pushes the branch, unless it is the same already: the
\* same file may be pinned at a later commit of upstream ...
Push(r) ==
    /\ runs[r].pc = "push"
    /\ LET head == [data |-> runs[r].data, base |-> runs[r].base]
       IN /\ branch' = head
          /\ ci' \in IF branch = head THEN {ci, "none"} ELSE {"none"}
    /\ pr' = pr
    /\ Write(r, [runs[r] EXCEPT !.pc = "open", !.sole = TRUE])

\* ... then creates the pull request, or rewrites the body of the open one.
\* A pull request is numbered by the merges before it.
OpenPR(r) ==
    /\ runs[r].pc = "open"
    /\ pr' = IF pr = NoPR
             THEN [n |-> Len(log), draft |-> runs[r].merge = "blocked", auto |-> FALSE,
                   body |-> runs[r].merge]
             ELSE [pr EXCEPT !.body = runs[r].merge]
    /\ UNCHANGED <<branch, ci>>
    /\ Write(r, [runs[r] EXCEPT !.pc = "view", !.pr = pr'.n])

\* Faulty variant: an earlier day's auto-merge stays on.
TodoKeepsAuto(merge, draft, auto) ==
    IF merge = "blocked" THEN (IF draft THEN <<>> ELSE <<"undo">>)
    ELSE (IF draft THEN <<"ready">> ELSE <<>>) \o (IF merge = "auto" THEN <<"auto">> ELSE <<>>)

\* Faulty variant: a draft stays a draft.
TodoKeepsDraft(merge, draft, auto) ==
    (IF merge # "auto" /\ auto THEN <<"disable">> ELSE <<>>)
      \o (IF merge = "blocked" /\ ~ draft THEN <<"undo">> ELSE <<>>)
      \o (IF merge = "auto" THEN <<"auto">> ELSE <<>>)

\* The commands that reconcile a pull request, seen as it was, with a policy.
Todo(merge, draft, auto) ==
    (IF merge # "auto" /\ auto THEN <<"disable">> ELSE <<>>)
      \o IF merge = "blocked" THEN (IF draft THEN <<>> ELSE <<"undo">>)
         ELSE (IF draft THEN <<"ready">> ELSE <<>>)
                \o (IF merge = "auto" THEN <<"auto">> ELSE <<>>)

\* gh pr view. A pull request merged meanwhile is no draft and not to merge.
View(r) ==
    /\ runs[r].pc = "view"
    /\ LET seen == IF pr.n = runs[r].pr THEN pr ELSE NoPR
       IN Local(r, [runs[r] EXCEPT !.pc = "apply",
                                   !.todo = Todo(runs[r].merge, seen.draft, seen.auto)])

\* The next command; it does nothing to a pull request merged meanwhile. A
\* draft that becomes ready is checked once more (ready_for_review).
Apply(r) ==
    /\ runs[r].pc = "apply" /\ runs[r].todo # <<>>
    /\ LET command == Head(runs[r].todo)
       IN /\ pr' = IF pr.n # runs[r].pr THEN pr
                   ELSE [pr EXCEPT !.draft = IF command \in {"undo", "ready"} THEN command = "undo" ELSE @,
                                   !.auto = IF command \in {"disable", "auto"} THEN command = "auto" ELSE @]
          /\ ci' = IF pr.draft /\ ~ pr'.draft THEN "none" ELSE ci
    /\ branch' = branch
    /\ Write(r, [runs[r] EXCEPT !.todo = Tail(@)])

End(r) == /\ runs[r].pc = "apply" /\ runs[r].todo = <<>>
          /\ runs' = [runs EXCEPT ![r] = Over(r)]
          /\ settled' = runs[r].sole
          /\ UNCHANGED <<upstream, commits, log, branch, pr, ci, failures>>

\* A step that calls GitHub fails, and the run with it.
Fail(r) == /\ runs[r].pc \in {"fetch", "push", "open", "view", "apply"}
           /\ failures < MaxFailures
           /\ failures' = failures + 1
           /\ runs' = [runs EXCEPT ![r] = Over(r)]
           /\ UNCHANGED <<upstream, commits, log, branch, pr, ci, settled>>

Advance(r) == Fetch(r) \/ Push(r) \/ OpenPR(r) \/ View(r) \/ Apply(r) \/ End(r)

----------------------------------------------------------------------------
(* GitHub and the humans.                                                  *)

\* Faulty variant: CI does not run the tests.
CIUntested == pr # NoPR /\ ci = "none" /\ ci' = "pass"
                /\ UNCHANGED <<upstream, commits, log, branch, pr, runs, failures, settled>>

\* ci.yml on the head of the pull request: go test decides.
CI == /\ pr # NoPR /\ ci = "none"
      /\ ci' = IF branch.data \in Passes THEN "pass" ELSE "fail"
      /\ UNCHANGED <<upstream, commits, log, branch, pr, runs, failures, settled>>

\* Another check is red whatever the data: a new staticcheck, an install or
\* the comparison with upstream, which call the network.
CIFails == /\ pr # NoPR /\ ci = "none" /\ failures < MaxFailures
           /\ ci' = "fail" /\ failures' = failures + 1
           /\ UNCHANGED <<upstream, commits, log, branch, pr, runs, settled>>

\* Merging needs CI, no draft, and no conflict with what main vendors now.
Mergeable == pr # NoPR /\ ~ pr.draft /\ ci = "pass" /\ main \in {branch.base, branch.data}

\* Faulty variant: every commit of the branch is pushed, here two.
MergeUnsquashed(by) == /\ Mergeable
                       /\ log' = log \o [i \in 1 .. 2 |-> [data |-> branch.data, by |-> by]]
                       /\ pr' = NoPR /\ ci' = "none"
                       /\ UNCHANGED <<upstream, commits, branch, runs, failures, settled>>

Merge(by) == /\ Mergeable
             /\ log' = Append(log, [data |-> branch.data, by |-> by])
             /\ pr' = NoPR /\ ci' = "none"
             /\ UNCHANGED <<upstream, commits, branch, runs, failures, settled>>
AutoMerge == pr.auto /\ Merge("auto")
HumanMerge == pr.body = "human" /\ Merge("human")

SyncNext ==
    \/ \E v \in Versions : UpstreamCommit(v)
    \/ \E r \in Runs : Start(r) \/ Advance(r) \/ Fail(r)
    \/ CI \/ CIFails
    \/ AutoMerge \/ HumanMerge

\* The schedule starts a run whenever it has none, a runner finishes it, and
\* GitHub gets round to CI. It merges what it was told to once the checks
\* pass: a push that has them run again, a day later, does not go before it
\* for ever. Nobody is obliged to approve a price change.
SyncFairness ==
    /\ WF_syncVars(Start(Daily)) /\ \A r \in Runs : WF_syncVars(Advance(r))
    /\ WF_syncVars(CI) /\ SF_syncVars(AutoMerge)

SyncSpec == SyncInit /\ [][SyncNext]_syncVars
SyncFairSpec == SyncSpec /\ SyncFairness

----------------------------------------------------------------------------
(* Properties.                                                             *)

Policies == {"auto", "human", "blocked"}
RunState == [pc: {"idle", "fetch", "push", "open", "view", "apply", "over"},
             base: Versions, data: Versions, merge: Policies, pr: Nat,
             todo: Seq({"disable", "undo", "ready", "auto"}), sole: BOOLEAN]

\* The type invariant.
SyncTypeOK ==
    /\ upstream \in Versions /\ commits \in 0 .. MaxCommits
    /\ log \in Seq([data: Versions, by: {"auto", "human"}]) /\ log # <<>>
    /\ branch \in [data: Versions, base: Versions]
    /\ pr \in [n: Nat, draft: BOOLEAN, auto: BOOLEAN, body: Policies]
    /\ ci \in {"none", "pass", "fail"}
    /\ runs \in [Runs -> RunState]
    /\ failures \in 0 .. MaxFailures /\ settled \in BOOLEAN

\* Main always passes the validation gate: whatever upstream ships, and
\* however the runs interleave, every published model keeps a price.
MainPassesGate == main \in Passes

\* "A sync that lands on an already-open sync PR re-applies the policy"
\* (sync.yml:22-24): once a run has applied its policy alone, the pull
\* request is a draft, merges by itself, or says that a human approves, just
\* as the class of the branch's own data demands.
PolicyIsApplied ==
    settled /\ pr # NoPR =>
       LET merge == Policy(branch.base, branch.data)
       IN /\ pr.draft <=> merge = "blocked"
          /\ pr.auto <=> merge = "auto"
          /\ pr.body = merge

\* What a call may be charged under a version's book.
Due(v, x, u) == {a \in [kind: {"ok"}, nls: 0 .. MaxInt] \cup [kind: {"refused", "panic"}, nls: {0}] :
                   L!Due(BookOf(v), x.id, u, a)}
Kept == {p \in Passes \X Passes :
           \A x \in BookOf(p[1]).published, u \in Usages : Due(p[1], x, u) = Due(p[2], x, u)}

\* "No published list price moves, so this PR auto-merges" (sync.yml:111): a
\* merge under a settled policy that no human approved changes the charge of
\* no response of a published model at a base inference geo. (The gate
\* leaves no published model without its first rates.)
UnattendedKeepsCharges ==
    [][log' # log /\ settled /\ log'[Len(log')].by = "auto" => <<main, main'>> \in Kept]_log

\* "A later published price change revokes an earlier day's auto-merge"
\* (sync.yml:23-24): what merges unattended never moved a published rate.
UnattendedIsAuto ==
    [][log' # log /\ log'[Len(log')].by = "auto" => Policy(main, main') = "auto"]_log

\* Once upstream stays as it is (MaxCommits sees to that), main comes to
\* vendor it, or a pull request with it waits for a human: to approve or to
\* fix it, or to look at a check that is red on good data, which nothing
\* runs again while the head stays. No failed step and no overlap of runs
\* leaves the sync in any other state for ever.
Converged == \/ main = upstream
             \/ /\ pr # NoPR /\ branch.data = upstream
                /\ Policy(main, upstream) # "auto" \/ ci = "fail"
SyncConverges == <>[]Converged

----------------------------------------------------------------------------
(* The inductive invariant the proofs rest on.                             *)

GateInv == /\ \A i \in DOMAIN log : log[i].data \in Passes
           /\ ci = "pass" => branch.data \in Passes

\* The commands still to come bring a pull request to its policy.
Leads(todo, merge, draft, auto) ==
    \/ todo = <<>> /\ (draft <=> merge = "blocked") /\ (auto <=> merge = "auto")
    \/ todo = <<"disable">> /\ (draft <=> merge = "blocked") /\ merge # "auto"
    \/ todo = <<"undo">> /\ merge = "blocked" /\ ~ auto
    \/ todo = <<"disable", "undo">> /\ merge = "blocked"
    \/ todo = <<"ready">> /\ merge # "blocked" /\ (auto <=> merge = "auto")
    \/ todo = <<"disable", "ready">> /\ merge = "human"
    \/ todo = <<"auto">> /\ ~ draft /\ merge = "auto"
    \/ todo = <<"ready", "auto">> /\ merge = "auto"

\* A run that writes alone finds its own data on the branch, and unless it
\* was merged meanwhile, its own pull request.
Writes(x) == x.sole /\ x.pc \in {"open", "view", "apply"}
RunInv(x) ==
    /\ x.pc \in {"push", "open", "view", "apply"} => x.merge = Policy(x.base, x.data)
    /\ x.pc \in {"view", "apply"} => x.pr > 0
    /\ Writes(x) => branch.data = x.data /\ branch.base = x.base
    /\ Writes(x) /\ pr # NoPR =>
          /\ x.pc \in {"view", "apply"} => pr.n = x.pr /\ pr.body = x.merge
          /\ x.pc = "apply" => Leads(x.todo, x.merge, pr.draft, pr.auto)
PolicyInv == /\ pr # NoPR => pr.n > 0
             /\ \A r \in Runs : RunInv(runs[r])
             /\ PolicyIsApplied

SyncInv == SyncTypeOK /\ GateInv /\ PolicyInv
=============================================================================
