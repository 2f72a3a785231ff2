----------------------------- MODULE SyncProofs -----------------------------
(***************************************************************************)
(* What holds of the sync for every history of upstream, every number of   *)
(* overlapping runs and every step that fails.                             *)
(***************************************************************************)
EXTENDS Sync, SequenceTheorems, TLAPS

Commands == {"disable", "undo", "ready", "auto"}
Places == {"idle", "fetch", "push", "open", "view", "apply", "over"}

\* A policy is one of three, whatever the versions.
LEMMA PolicyType ==
    ASSUME NEW base, NEW v
    PROVE  Policy(base, v) \in Policies
BY DEF Policy, Policies

\* A run whose place changes keeps the rest of its state.
LEMMA Moves ==
    ASSUME NEW x \in RunState, NEW pc \in Places
    PROVE  LET y == [x EXCEPT !.pc = pc]
           IN /\ y \in RunState /\ y.pc = pc /\ y.base = x.base /\ y.data = x.data
              /\ y.merge = x.merge /\ y.pr = x.pr /\ y.todo = x.todo /\ y.sole = x.sole
BY DEF RunState, Places

LEMMA StartMoves ==
    ASSUME NEW x \in RunState, NEW base \in Versions
    PROVE  LET y == [x EXCEPT !.pc = "fetch", !.base = base]
           IN y \in RunState /\ y.pc = "fetch"
BY DEF RunState

LEMMA PushMoves ==
    ASSUME NEW x \in RunState
    PROVE  LET y == [x EXCEPT !.pc = "open", !.sole = TRUE]
           IN /\ y \in RunState /\ y.pc = "open" /\ y.base = x.base /\ y.data = x.data
              /\ y.merge = x.merge
BY DEF RunState

LEMMA OpenMoves ==
    ASSUME NEW x \in RunState, NEW n \in Nat
    PROVE  LET y == [x EXCEPT !.pc = "view", !.pr = n]
           IN /\ y \in RunState /\ y.pc = "view" /\ y.base = x.base /\ y.data = x.data
              /\ y.merge = x.merge /\ y.pr = n /\ y.sole = x.sole
BY DEF RunState

LEMMA ViewMoves ==
    ASSUME NEW x \in RunState, NEW todo \in Seq(Commands)
    PROVE  LET y == [x EXCEPT !.pc = "apply", !.todo = todo]
           IN /\ y \in RunState /\ y.pc = "apply" /\ y.base = x.base /\ y.data = x.data
              /\ y.merge = x.merge /\ y.pr = x.pr /\ y.todo = todo /\ y.sole = x.sole
BY DEF RunState, Commands

LEMMA ApplyMoves ==
    ASSUME NEW x \in RunState, x.todo # <<>>
    PROVE  LET y == [x EXCEPT !.todo = Tail(@)]
           IN /\ y \in RunState /\ y.pc = x.pc /\ y.base = x.base /\ y.data = x.data
              /\ y.merge = x.merge /\ y.pr = x.pr /\ y.todo = Tail(x.todo) /\ y.sole = x.sole
              /\ Head(x.todo) \in Commands
<1>1. x.todo \in Seq(Commands)
  BY DEF RunState, Commands
<1>2. Tail(x.todo) \in Seq(Commands) /\ Head(x.todo) \in Commands
  BY <1>1
<1> QED BY <1>2 DEF RunState, Commands

\* A run that another one has written beside is not the sole writer.
LEMMA Disturbed ==
    ASSUME NEW x \in RunState
    PROVE  LET y == [x EXCEPT !.sole = FALSE]
           IN /\ y \in RunState /\ y.pc = x.pc /\ y.base = x.base /\ y.data = x.data
              /\ y.merge = x.merge /\ y.pr = x.pr /\ ~ y.sole
BY DEF RunState

LEMMA IdleType == Idle \in RunState /\ Idle.pc = "idle"
BY VersionAssumption DEF Idle, RunState, Policies

LEMMA OverType ==
    ASSUME NEW r
    PROVE  Over(r) \in RunState /\ Over(r).pc \in {"idle", "over"}
BY IdleType, Moves DEF Over, Places

LEMMA PairOfTwo ==
    ASSUME NEW C, NEW a \in C, NEW b \in C
    PROVE  <<a>> \o <<b>> = <<a, b>>
<1> DEFINE s == <<a>>
           t == <<b>>
           u == <<a, b>>
<1>1. s \in Seq(C) /\ t \in Seq(C) /\ Len(s) = 1 /\ Len(t) = 1 /\ s[1] = a /\ t[1] = b
  OBVIOUS
<1>2. u \in Seq(C) /\ Len(u) = 2 /\ u[1] = a /\ u[2] = b
  OBVIOUS
<1> HIDE DEF s, t, u
<1> DEFINE c == s \o t
<1>3. /\ c \in Seq(C)
      /\ Len(c) = Len(s) + Len(t)
      /\ \A i \in 1 .. Len(s) + Len(t) : c[i] = IF i <= Len(s) THEN s[i] ELSE t[i - Len(s)]
  BY <1>1, ConcatProperties, Zenon
<1> HIDE DEF c
<1>4. Len(c) = 2 /\ c[1] = a /\ c[2] = b
  <2>1. Len(c) = 2 /\ 1 \in 1 .. Len(s) + Len(t) /\ 2 \in 1 .. Len(s) + Len(t) /\ 1 <= Len(s) /\ ~ (2 <= Len(s)) /\ 2 - Len(s) = 1
    BY <1>1, <1>3
  <2> QED BY <1>1, <1>3, <2>1
<1>5. Len(c) = Len(u) /\ \A i \in 1 .. Len(c) : c[i] = u[i]
  BY <1>2, <1>4
<1>6. c = u
  BY <1>2, <1>3, <1>5, SeqEqual, Zenon
<1> QED BY <1>6 DEF c, s, t, u

LEMMA Concatenations ==
    ASSUME NEW a \in Commands, NEW b \in Commands
    PROVE  /\ <<>> \o <<>> = <<>> /\ <<a>> \o <<>> = <<a>> /\ <<>> \o <<a>> = <<a>>
           /\ <<a>> \o <<b>> = <<a, b>>
           /\ <<>> \in Seq(Commands) /\ <<a>> \in Seq(Commands) /\ <<a, b>> \in Seq(Commands)
<1>1. <<>> \in Seq(Commands) /\ <<a>> \in Seq(Commands) /\ <<a, b>> \in Seq(Commands)
  OBVIOUS
<1>2. <<>> \o <<>> = <<>> /\ <<a>> \o <<>> = <<a>> /\ <<>> \o <<a>> = <<a>>
  BY <1>1, ConcatEmptySeq, Zenon
<1>3. <<a>> \o <<b>> = <<a, b>>
  BY PairOfTwo, Zenon
<1> QED BY <1>1, <1>2, <1>3, Zenon

\* The commands lead any pull request to the policy.
LEMMA TodoLeads ==
    ASSUME NEW merge \in Policies, NEW draft \in BOOLEAN, NEW auto \in BOOLEAN
    PROVE  /\ Leads(Todo(merge, draft, auto), merge, draft, auto)
           /\ Todo(merge, draft, auto) \in Seq(Commands)
<1> DEFINE todo == Todo(merge, draft, auto)
<1> SUFFICES Leads(todo, merge, draft, auto) /\ todo \in Seq(Commands)
  OBVIOUS
<1>0. "disable" \in Commands /\ "undo" \in Commands /\ "ready" \in Commands /\ "auto" \in Commands
  BY DEF Commands
<1>1. CASE merge = "blocked"
  <2>1. CASE auto /\ draft
    <3>1. todo = <<"disable">> \o <<>>
      BY <1>1, <2>1 DEF Todo
    <3>2. todo = <<"disable">> /\ todo \in Seq(Commands)
      BY <1>0, <3>1, Concatenations
    <3> HIDE DEF todo
    <3> QED BY <1>1, <2>1, <3>2, Zenon DEF Leads
  <2>2. CASE auto /\ ~ draft
    <3>1. todo = <<"disable">> \o <<"undo">>
      BY <1>1, <2>2 DEF Todo
    <3>2. todo = <<"disable", "undo">> /\ todo \in Seq(Commands)
      BY <1>0, <3>1, Concatenations
    <3> HIDE DEF todo
    <3> QED BY <1>1, <2>2, <3>2, Zenon DEF Leads
  <2>3. CASE ~ auto /\ draft
    <3>1. todo = <<>> \o <<>>
      BY <1>1, <2>3 DEF Todo
    <3>2. todo = <<>> /\ todo \in Seq(Commands)
      BY <1>0, <3>1, Concatenations
    <3>3. merge # "auto"
      BY <1>1
    <3> HIDE DEF todo
    <3> QED BY <1>1, <2>3, <3>2, <3>3, Zenon DEF Leads
  <2>4. CASE ~ auto /\ ~ draft
    <3>1. todo = <<>> \o <<"undo">>
      BY <1>1, <2>4 DEF Todo
    <3>2. todo = <<"undo">> /\ todo \in Seq(Commands)
      BY <1>0, <3>1, Concatenations
    <3> HIDE DEF todo
    <3> QED BY <1>1, <2>4, <3>2, Zenon DEF Leads
  <2> QED BY <2>1, <2>2, <2>3, <2>4, Zenon
<1>2. CASE merge = "human"
  <2>0. merge # "blocked" /\ merge # "auto"
    BY <1>2
  <2>1. CASE auto /\ draft
    <3>1. todo = <<"disable">> \o (<<"ready">> \o <<>>)
      BY <1>2, <2>1 DEF Todo
    <3>2. todo = <<"disable", "ready">> /\ todo \in Seq(Commands)
      BY <1>0, <3>1, Concatenations
    <3> HIDE DEF todo
    <3> QED BY <1>2, <2>1, <3>2, Zenon DEF Leads
  <2>2. CASE auto /\ ~ draft
    <3>1. todo = <<"disable">> \o (<<>> \o <<>>)
      BY <1>2, <2>2 DEF Todo
    <3>2. todo = <<"disable">> /\ todo \in Seq(Commands)
      BY <1>0, <3>1, Concatenations
    <3> HIDE DEF todo
    <3> QED BY <2>0, <2>2, <3>2, Zenon DEF Leads
  <2>3. CASE ~ auto /\ draft
    <3>1. todo = <<>> \o (<<"ready">> \o <<>>)
      BY <1>2, <2>3 DEF Todo
    <3>2. todo = <<"ready">> /\ todo \in Seq(Commands)
      BY <1>0, <3>1, Concatenations
    <3> HIDE DEF todo
    <3> QED BY <2>0, <2>3, <3>2, Zenon DEF Leads
  <2>4. CASE ~ auto /\ ~ draft
    <3>1. todo = <<>> \o (<<>> \o <<>>)
      BY <1>2, <2>4 DEF Todo
    <3>2. todo = <<>> /\ todo \in Seq(Commands)
      BY <1>0, <3>1, Concatenations
    <3> HIDE DEF todo
    <3> QED BY <2>0, <2>4, <3>2, Zenon DEF Leads
  <2> QED BY <2>1, <2>2, <2>3, <2>4, Zenon
<1>3. CASE merge = "auto"
  <2>1. CASE draft
    <3>1. todo = <<>> \o (<<"ready">> \o <<"auto">>)
      BY <1>3, <2>1 DEF Todo
    <3>2. <<"ready">> \o <<"auto">> = <<"ready", "auto">> /\ <<"ready", "auto">> \in Seq(Commands)
      BY <1>0, Concatenations
    <3>3. todo = <<"ready", "auto">> /\ todo \in Seq(Commands)
      BY <3>1, <3>2, ConcatEmptySeq, Zenon
    <3> HIDE DEF todo
    <3> QED BY <1>3, <2>1, <3>3, Zenon DEF Leads
  <2>2. CASE ~ draft
    <3>1. todo = <<>> \o (<<>> \o <<"auto">>)
      BY <1>3, <2>2 DEF Todo
    <3>2. todo = <<"auto">> /\ todo \in Seq(Commands)
      BY <1>0, <3>1, Concatenations
    <3> HIDE DEF todo
    <3> QED BY <1>3, <2>2, <3>2, Zenon DEF Leads
  <2> QED BY <2>1, <2>2, Zenon
<1> QED BY <1>1, <1>2, <1>3 DEF Policies

----------------------------------------------------------------------------
(* The two kinds of step of a run.                                         *)

PullRequests == [n: Nat, draft: BOOLEAN, auto: BOOLEAN, body: Policies]
Merges == [data: Versions, by: {"auto", "human"}]

LEMMA NoPRType == NoPR \in PullRequests /\ NoPR.n = 0
BY DEF NoPR, PullRequests, Policies

\* A run that has not begun or is over owes nothing.
LEMMA QuietRun ==
    ASSUME NEW x, x.pc \in {"idle", "fetch", "over"}
    PROVE  RunInv(x) /\ RunInv(x)'
BY DEF RunInv, Writes

LEMMA LocalKeeps ==
    ASSUME SyncInv, NEW r \in Runs, NEW to \in RunState, RunInv(to), Local(r, to)
    PROVE  SyncInv'
<1>1. /\ runs' = [runs EXCEPT ![r] = to]
      /\ UNCHANGED <<upstream, commits, log, branch, pr, ci, failures, settled>>
  BY DEF Local
<1>2. runs \in [Runs -> RunState]
  BY DEF SyncInv, SyncTypeOK
<1>3. SyncTypeOK'
  BY <1>1, <1>2 DEF SyncInv, SyncTypeOK
<1>4. GateInv'
  BY <1>1 DEF SyncInv, GateInv
<1>5. \A x \in Runs : RunInv(runs[x])'
  <2> SUFFICES ASSUME NEW x \in Runs PROVE RunInv(runs[x])'
    OBVIOUS
  <2>1. RunInv(runs[x])
    BY DEF SyncInv, PolicyInv
  <2>2. runs'[x] = IF x = r THEN to ELSE runs[x]
    BY <1>1, <1>2
  <2>3. RunInv(runs'[x])
    BY <2>1, <2>2
  <2> QED BY <1>1, <2>3 DEF RunInv, Writes
<1>6. PolicyIsApplied' /\ (pr # NoPR => pr.n > 0)'
  BY <1>1 DEF SyncInv, PolicyInv, PolicyIsApplied
<1> QED BY <1>3, <1>4, <1>5, <1>6 DEF SyncInv, PolicyInv

LEMMA WriteKeeps ==
    ASSUME SyncInv, NEW r \in Runs, NEW to \in RunState, Write(r, to),
           branch' \in [data: Versions, base: Versions],
           pr' \in PullRequests, pr' # NoPR => pr'.n > 0,
           ci' \in {"none", "pass", "fail"}, ci' = "pass" => branch'.data \in Passes,
           RunInv(to)'
    PROVE  SyncInv'
<1>1. /\ runs' = [x \in Runs |-> IF x = r THEN to ELSE [runs[x] EXCEPT !.sole = FALSE]]
      /\ settled' = FALSE
      /\ UNCHANGED <<upstream, commits, log, failures>>
  BY DEF Write
<1>2. runs \in [Runs -> RunState]
  BY DEF SyncInv, SyncTypeOK
<1>3. \A x \in Runs : runs'[x] \in RunState /\ RunInv(runs[x])'
  <2> SUFFICES ASSUME NEW x \in Runs PROVE runs'[x] \in RunState /\ RunInv(runs[x])'
    OBVIOUS
  <2>1. CASE x = r
    <3>1. runs'[x] = to
      BY <1>1, <2>1
    <3> QED BY <3>1 DEF RunInv, Writes
  <2>2. CASE x # r
    <3> DEFINE y == [runs[x] EXCEPT !.sole = FALSE]
    <3>1. runs'[x] = y
      BY <1>1, <2>2
    <3>2. /\ y \in RunState /\ y.pc = runs[x].pc /\ y.base = runs[x].base
          /\ y.data = runs[x].data /\ y.merge = runs[x].merge /\ y.pr = runs[x].pr
          /\ ~ y.sole
      BY <1>2, Disturbed
    <3> HIDE DEF y
    <3>3. RunInv(runs[x])
      BY DEF SyncInv, PolicyInv
    <3>4. ~ Writes(runs[x])'
      BY <3>1, <3>2, Zenon DEF Writes
    <3>5. /\ runs'[x].pc \in {"push", "open", "view", "apply"}
               => runs'[x].merge = Policy(runs'[x].base, runs'[x].data)
          /\ runs'[x].pc \in {"view", "apply"} => runs'[x].pr > 0
      BY <3>1, <3>2, <3>3 DEF RunInv
    <3> QED BY <3>1, <3>2, <3>4, <3>5, Zenon DEF RunInv
  <2> QED BY <2>1, <2>2
<1>4. SyncTypeOK'
  <2>1. runs' \in [Runs -> RunState]
    BY <1>1, <1>3
  <2>2. settled' \in BOOLEAN
    BY <1>1
  <2> QED BY <1>1, <2>1, <2>2 DEF SyncInv, SyncTypeOK, PullRequests
<1>5. GateInv'
  BY <1>1 DEF SyncInv, GateInv
<1>6. PolicyIsApplied'
  BY <1>1 DEF PolicyIsApplied
<1> QED BY <1>3, <1>4, <1>5, <1>6 DEF SyncInv, PolicyInv
----------------------------------------------------------------------------
(* The steps of a run keep the invariant.                                  *)

LEMMA StartKeeps ==
    ASSUME SyncInv, NEW r \in Runs, Start(r)
    PROVE  SyncInv'
<1>1. main \in Versions
  <2>1. log \in Seq(Merges) /\ log # <<>>
    BY DEF SyncInv, SyncTypeOK, Merges
  <2>2. log[Len(log)] \in Merges
    BY <2>1
  <2> QED BY <2>2 DEF main, Merges
<1> DEFINE to == [Idle EXCEPT !.pc = "fetch", !.base = main]
<1>2. to \in RunState /\ to.pc = "fetch"
  BY <1>1, IdleType, StartMoves
<1>3. Local(r, to)
  BY DEF Start
<1> HIDE DEF to
<1>4. RunInv(to)
  BY <1>2, QuietRun
<1> QED BY <1>2, <1>3, <1>4, LocalKeeps

LEMMA FetchKeeps ==
    ASSUME SyncInv, NEW r \in Runs, Fetch(r)
    PROVE  SyncInv'
<1>1. runs[r] \in RunState /\ upstream \in Versions
  BY DEF SyncInv, SyncTypeOK
<1>2. CASE upstream = runs[r].base
  <2>1. Local(r, Over(r))
    BY <1>2 DEF Fetch
  <2>2. Over(r) \in RunState /\ RunInv(Over(r))
    BY OverType, QuietRun
  <2> QED BY <2>1, <2>2, LocalKeeps
<1>3. CASE upstream # runs[r].base
  <2>0. PICK merge : merge = Policy(runs[r].base, upstream)
    OBVIOUS
  <2> DEFINE to == [runs[r] EXCEPT !.pc = "push", !.data = upstream, !.merge = merge]
  <2>1. Local(r, to)
    BY <1>3, <2>0 DEF Fetch
  <2>2. merge \in Policies
    BY <2>0, PolicyType
  <2>3. /\ to \in RunState /\ to.pc = "push" /\ to.base = runs[r].base
        /\ to.data = upstream /\ to.merge = merge
    BY <1>1, <2>2 DEF RunState
  <2>4. to.merge = Policy(to.base, to.data)
    BY <2>0, <2>3
  <2> HIDE DEF to
  <2>5. RunInv(to)
    <3>1. to.pc \notin {"open", "view", "apply"} /\ to.pc \notin {"view", "apply"}
      BY <2>3
    <3> QED BY <2>4, <3>1, Zenon DEF RunInv, Writes
  <2> QED BY <2>1, <2>3, <2>5, LocalKeeps
<1> QED BY <1>2, <1>3

LEMMA PushKeeps ==
    ASSUME SyncInv, NEW r \in Runs, Push(r)
    PROVE  SyncInv'
<1>1. runs[r] \in RunState /\ runs[r].pc = "push"
  BY DEF SyncInv, SyncTypeOK, Push
<1> DEFINE head == [data |-> runs[r].data, base |-> runs[r].base]
<1>2. PICK to : to = [runs[r] EXCEPT !.pc = "open", !.sole = TRUE]
  OBVIOUS
<1>3. /\ to \in RunState /\ to.pc = "open" /\ to.base = runs[r].base
      /\ to.data = runs[r].data /\ to.merge = runs[r].merge
  BY <1>1, <1>2, PushMoves
<1>4. /\ branch' = head /\ ci' \in (IF branch = head THEN {ci, "none"} ELSE {"none"})
      /\ pr' = pr /\ Write(r, to)
  BY <1>2 DEF Push
<1>5. head \in [data: Versions, base: Versions]
  BY <1>1 DEF RunState
<1>6. /\ pr \in PullRequests /\ (pr # NoPR => pr.n > 0)
      /\ ci \in {"none", "pass", "fail"} /\ (ci = "pass" => branch.data \in Passes)
      /\ RunInv(runs[r])
  BY DEF SyncInv, SyncTypeOK, GateInv, PolicyInv, PullRequests
<1>7. branch'.data = to.data /\ branch'.base = to.base
  BY <1>3, <1>4
<1>8. to.merge = Policy(to.base, to.data)
  BY <1>1, <1>3, <1>6 DEF RunInv
<1> HIDE DEF head
<1>9. RunInv(to)'
  BY <1>3, <1>7, <1>8 DEF RunInv, Writes
<1>10. ci' \in {"none", "pass", "fail"} /\ (ci' = "pass" => branch'.data \in Passes)
  BY <1>4, <1>6
<1> QED BY <1>3, <1>4, <1>5, <1>6, <1>9, <1>10, WriteKeeps

LEMMA OpenKeeps ==
    ASSUME SyncInv, NEW r \in Runs, OpenPR(r)
    PROVE  SyncInv'
<1>1. runs[r] \in RunState /\ runs[r].pc = "open" /\ runs[r].merge \in Policies
  BY DEF SyncInv, SyncTypeOK, OpenPR, RunState
<1>2. /\ pr \in PullRequests /\ (pr # NoPR => pr.n > 0)
      /\ ci \in {"none", "pass", "fail"} /\ (ci = "pass" => branch.data \in Passes)
      /\ branch \in [data: Versions, base: Versions]
      /\ RunInv(runs[r])
  BY DEF SyncInv, SyncTypeOK, GateInv, PolicyInv, PullRequests
<1>3. Len(log) \in Nat /\ Len(log) > 0
  BY DEF SyncInv, SyncTypeOK
<1>4. pr' \in PullRequests /\ pr'.n > 0 /\ pr'.body = runs[r].merge
  <2>1. CASE pr = NoPR
    <3> DEFINE draft == runs[r].merge = "blocked"
    <3>1. draft \in BOOLEAN
      BY Zenon
    <3> HIDE DEF draft
    <3>2. pr' = [n |-> Len(log), draft |-> draft, auto |-> FALSE, body |-> runs[r].merge]
      BY <2>1, Zenon DEF OpenPR, draft
    <3> QED BY <1>1, <1>3, <3>1, <3>2 DEF PullRequests
  <2>2. CASE pr # NoPR
    <3>1. pr' = [pr EXCEPT !.body = runs[r].merge]
      BY <2>2 DEF OpenPR
    <3> QED BY <1>1, <1>2, <2>2, <3>1 DEF PullRequests
  <2> QED BY <2>1, <2>2
<1>5. PICK to : to = [runs[r] EXCEPT !.pc = "view", !.pr = pr'.n]
  OBVIOUS
<1>6. pr'.n \in Nat
  BY <1>4 DEF PullRequests
<1>7. /\ to \in RunState /\ to.pc = "view" /\ to.base = runs[r].base /\ to.data = runs[r].data
      /\ to.merge = runs[r].merge /\ to.pr = pr'.n /\ to.sole = runs[r].sole
  BY <1>1, <1>5, <1>6, OpenMoves
<1>8. UNCHANGED <<branch, ci>> /\ Write(r, to)
  BY <1>5 DEF OpenPR
<1>9. to.merge = Policy(to.base, to.data)
  BY <1>1, <1>2, <1>7 DEF RunInv
<1>10. Writes(to) => branch'.data = to.data /\ branch'.base = to.base
  <2>1. Writes(to) => Writes(runs[r])
    BY <1>1, <1>7 DEF Writes
  <2> QED BY <1>2, <1>7, <1>8, <2>1 DEF RunInv
<1>11. RunInv(to)'
  BY <1>4, <1>7, <1>9, <1>10, Zenon DEF RunInv, Writes
<1>12. ci' \in {"none", "pass", "fail"} /\ (ci' = "pass" => branch'.data \in Passes)
       /\ branch' \in [data: Versions, base: Versions]
  BY <1>2, <1>8
<1> QED BY <1>4, <1>7, <1>8, <1>11, <1>12, WriteKeeps

LEMMA ViewKeeps ==
    ASSUME SyncInv, NEW r \in Runs, View(r)
    PROVE  SyncInv'
<1>1. runs[r] \in RunState /\ runs[r].pc = "view" /\ runs[r].merge \in Policies
  BY DEF SyncInv, SyncTypeOK, View, RunState
<1>2. pr \in PullRequests /\ RunInv(runs[r])
  BY DEF SyncInv, SyncTypeOK, PolicyInv, PullRequests
<1> DEFINE seen == IF pr.n = runs[r].pr THEN pr ELSE NoPR
           todo == Todo(runs[r].merge, seen.draft, seen.auto)
           to == [runs[r] EXCEPT !.pc = "apply", !.todo = todo]
<1>3. Local(r, to)
  BY DEF View
<1>4. seen \in PullRequests
  BY <1>2, NoPRType
<1>5. seen.draft \in BOOLEAN /\ seen.auto \in BOOLEAN
  BY <1>4 DEF PullRequests
<1>6. Leads(todo, runs[r].merge, seen.draft, seen.auto) /\ todo \in Seq(Commands)
  BY <1>1, <1>5, TodoLeads, Zenon
<1> HIDE DEF todo
<1>7. /\ to \in RunState /\ to.pc = "apply" /\ to.base = runs[r].base
      /\ to.data = runs[r].data /\ to.merge = runs[r].merge /\ to.pr = runs[r].pr
      /\ to.todo = todo /\ to.sole = runs[r].sole
  BY <1>1, <1>6, ViewMoves
<1> HIDE DEF to
<1>8. Writes(to) => Writes(runs[r])
  BY <1>1, <1>7 DEF Writes
<1>9. Writes(to) /\ pr # NoPR => /\ pr.n = to.pr /\ pr.body = to.merge
                                 /\ Leads(to.todo, to.merge, pr.draft, pr.auto)
  <2> SUFFICES ASSUME Writes(to), pr # NoPR
               PROVE  /\ pr.n = to.pr /\ pr.body = to.merge
                      /\ Leads(to.todo, to.merge, pr.draft, pr.auto)
    OBVIOUS
  <2>1. pr.n = runs[r].pr /\ pr.body = runs[r].merge
    BY <1>1, <1>2, <1>8 DEF RunInv
  <2>2. seen = pr
    BY <2>1
  <2> HIDE DEF seen
  <2> QED BY <1>6, <1>7, <2>1, <2>2, Zenon
<1>10. /\ to.merge = Policy(to.base, to.data) /\ to.pr > 0
       /\ Writes(to) => branch.data = to.data /\ branch.base = to.base
  BY <1>1, <1>2, <1>7, <1>8 DEF RunInv
<1>11. RunInv(to)
  BY <1>7, <1>9, <1>10, Zenon DEF RunInv
<1> QED BY <1>3, <1>7, <1>11, LocalKeeps
\* What a command makes of a pull request.
Drafted(command, draft) == IF command \in {"undo", "ready"} THEN command = "undo" ELSE draft
Merging(command, auto) == IF command \in {"disable", "auto"} THEN command = "auto" ELSE auto

\* Each command leaves fewer to come.
LEMMA LeadsOn ==
    ASSUME NEW todo \in Seq(Commands), todo # <<>>, NEW merge, NEW draft \in BOOLEAN,
           NEW auto \in BOOLEAN, Leads(todo, merge, draft, auto)
    PROVE  Leads(Tail(todo), merge, Drafted(Head(todo), draft), Merging(Head(todo), auto))
<1> DEFINE d == Drafted(Head(todo), draft)
           a == Merging(Head(todo), auto)
<1>d. /\ Head(todo) \in {"undo", "ready"} => (d <=> Head(todo) = "undo")
      /\ Head(todo) \notin {"undo", "ready"} => (d <=> draft)
  BY Zenon DEF Drafted
<1>a. /\ Head(todo) \in {"disable", "auto"} => (a <=> Head(todo) = "auto")
      /\ Head(todo) \notin {"disable", "auto"} => (a <=> auto)
  BY Zenon DEF Merging
<1> HIDE DEF d, a
<1> SUFFICES Leads(Tail(todo), merge, d, a)
  BY DEF d, a
<1>0. /\ <<"disable">> # <<>> /\ <<"undo">> # <<>> /\ <<"disable", "undo">> # <<>>
      /\ <<"ready">> # <<>> /\ <<"disable", "ready">> # <<>> /\ <<"auto">> # <<>>
      /\ <<"ready", "auto">> # <<>>
  OBVIOUS
<1>1. CASE todo = <<"disable">> /\ (draft <=> merge = "blocked") /\ merge # "auto"
  <2>1. Head(todo) = "disable" /\ Tail(todo) = <<>>
    BY <1>1
  <2>2. Head(todo) \notin {"undo", "ready"} /\ Head(todo) \in {"disable", "auto"} /\ Head(todo) # "auto"
    BY <2>1
  <2>3. (d <=> draft) /\ ~ a
    BY <1>a, <1>d, <2>2, Zenon
  <2> QED BY <1>1, <2>1, <2>3, Zenon DEF Leads
<1>2. CASE todo = <<"undo">> /\ merge = "blocked" /\ ~ auto
  <2>1. Head(todo) = "undo" /\ Tail(todo) = <<>> /\ merge # "auto"
    BY <1>2
  <2>2. Head(todo) \in {"undo", "ready"} /\ Head(todo) \notin {"disable", "auto"}
    BY <2>1
  <2>3. d /\ (a <=> auto)
    BY <1>a, <1>d, <2>1, <2>2, Zenon
  <2> QED BY <1>2, <2>1, <2>3, Zenon DEF Leads
<1>3. CASE todo = <<"disable", "undo">> /\ merge = "blocked"
  <2>1. Head(todo) = "disable" /\ Tail(todo) = <<"undo">>
    BY <1>3
  <2>2. Head(todo) \in {"disable", "auto"} /\ Head(todo) # "auto"
    BY <2>1
  <2>3. ~ a
    BY <1>a, <1>d, <2>2, Zenon
  <2> QED BY <1>3, <2>1, <2>3, Zenon DEF Leads
<1>4. CASE todo = <<"ready">> /\ merge # "blocked" /\ (auto <=> merge = "auto")
  <2>1. Head(todo) = "ready" /\ Tail(todo) = <<>>
    BY <1>4
  <2>2. Head(todo) \in {"undo", "ready"} /\ Head(todo) \notin {"disable", "auto"} /\ Head(todo) # "undo"
    BY <2>1
  <2>3. ~ d /\ (a <=> auto)
    BY <1>a, <1>d, <2>2, Zenon
  <2> QED BY <1>4, <2>1, <2>3, Zenon DEF Leads
<1>5. CASE todo = <<"disable", "ready">> /\ merge = "human"
  <2>1. Head(todo) = "disable" /\ Tail(todo) = <<"ready">> /\ merge # "blocked" /\ merge # "auto"
    BY <1>5
  <2>2. Head(todo) \in {"disable", "auto"} /\ Head(todo) # "auto"
    BY <2>1
  <2>3. ~ a
    BY <1>a, <1>d, <2>2, Zenon
  <2> QED BY <2>1, <2>3, Zenon DEF Leads
<1>6. CASE todo = <<"auto">> /\ ~ draft /\ merge = "auto"
  <2>1. Head(todo) = "auto" /\ Tail(todo) = <<>> /\ merge # "blocked"
    BY <1>6
  <2>2. Head(todo) \notin {"undo", "ready"} /\ Head(todo) \in {"disable", "auto"}
    BY <2>1
  <2>3. (d <=> draft) /\ a
    BY <1>a, <1>d, <2>1, <2>2, Zenon
  <2> QED BY <1>6, <2>1, <2>3, Zenon DEF Leads
<1>7. CASE todo = <<"ready", "auto">> /\ merge = "auto"
  <2>1. Head(todo) = "ready" /\ Tail(todo) = <<"auto">>
    BY <1>7
  <2>2. Head(todo) \in {"undo", "ready"} /\ Head(todo) # "undo"
    BY <2>1
  <2>3. ~ d
    BY <1>a, <1>d, <2>2, Zenon
  <2> QED BY <1>7, <2>1, <2>3, Zenon DEF Leads
<1> QED BY <1>1, <1>2, <1>3, <1>4, <1>5, <1>6, <1>7, Zenon DEF Leads

LEMMA ApplyKeeps ==
    ASSUME SyncInv, NEW r \in Runs, Apply(r)
    PROVE  SyncInv'
<1>1. /\ runs[r] \in RunState /\ runs[r].pc = "apply" /\ runs[r].todo # <<>>
      /\ runs[r].todo \in Seq(Commands)
  BY DEF SyncInv, SyncTypeOK, Apply, RunState, Commands
<1>2. /\ pr \in PullRequests /\ (pr # NoPR => pr.n > 0)
      /\ ci \in {"none", "pass", "fail"} /\ (ci = "pass" => branch.data \in Passes)
      /\ branch \in [data: Versions, base: Versions]
      /\ RunInv(runs[r])
  BY DEF SyncInv, SyncTypeOK, GateInv, PolicyInv, PullRequests
<1>3. PICK to : to = [runs[r] EXCEPT !.todo = Tail(@)]
  OBVIOUS
<1>4. /\ to \in RunState /\ to.pc = "apply" /\ to.base = runs[r].base
      /\ to.data = runs[r].data /\ to.merge = runs[r].merge /\ to.pr = runs[r].pr
      /\ to.todo = Tail(runs[r].todo) /\ to.sole = runs[r].sole
  BY <1>1, <1>3, ApplyMoves
<1>5. branch' = branch /\ ci' \in {ci, "none"} /\ Write(r, to)
  BY <1>3 DEF Apply
<1>6. /\ to.merge = Policy(to.base, to.data) /\ to.pr > 0
      /\ Writes(to) => Writes(runs[r])
      /\ Writes(to) => branch'.data = to.data /\ branch'.base = to.base
  BY <1>1, <1>2, <1>4, <1>5 DEF RunInv, Writes
<1>7. CASE pr.n # runs[r].pr
  <2>1. pr' = pr
    BY <1>7 DEF Apply
  <2>2. Writes(to) => pr = NoPR
    BY <1>1, <1>2, <1>6, <1>7 DEF RunInv
  <2>3. RunInv(to)'
    BY <1>4, <1>6, <2>1, <2>2, Zenon DEF RunInv, Writes
  <2>4. ci' \in {"none", "pass", "fail"} /\ (ci' = "pass" => branch'.data \in Passes)
        /\ branch' \in [data: Versions, base: Versions]
        /\ pr' \in PullRequests /\ (pr' # NoPR => pr'.n > 0)
    BY <1>2, <1>5, <2>1
  <2> QED BY <1>4, <1>5, <2>3, <2>4, WriteKeeps
<1>8. CASE pr.n = runs[r].pr
  <2>1. pr # NoPR
    BY <1>4, <1>6, <1>8, NoPRType
  <2> DEFINE command == Head(runs[r].todo)
             d == Drafted(command, pr.draft)
             a == Merging(command, pr.auto)
  <2>2. pr' = [pr EXCEPT !.draft = d, !.auto = a]
    BY <1>8 DEF Apply, Drafted, Merging
  <2>3. pr.draft \in BOOLEAN /\ pr.auto \in BOOLEAN
    BY <1>2 DEF PullRequests
  <2>4. d \in BOOLEAN /\ a \in BOOLEAN
    BY <2>3, Zenon DEF Drafted, Merging
  <2>5. Leads(runs[r].todo, runs[r].merge, pr.draft, pr.auto)
          => Leads(to.todo, to.merge, d, a)
    BY <1>1, <1>4, <2>3, LeadsOn, Zenon
  <2> HIDE DEF d, a
  <2>6. /\ pr' \in PullRequests /\ pr'.n = pr.n /\ pr'.body = pr.body
        /\ pr'.draft = d /\ pr'.auto = a
    BY <1>2, <2>2, <2>4 DEF PullRequests
  <2>7. Writes(to) => /\ pr'.n = to.pr /\ pr'.body = to.merge
                      /\ Leads(runs[r].todo, runs[r].merge, pr.draft, pr.auto)
    BY <1>1, <1>2, <1>4, <1>6, <2>1, <2>6 DEF RunInv
  <2>8. Writes(to) => Leads(to.todo, to.merge, pr'.draft, pr'.auto)
    BY <2>5, <2>6, <2>7, Zenon
  <2>9. RunInv(to)'
    BY <1>4, <1>6, <2>7, <2>8, Zenon DEF RunInv, Writes
  <2>10. ci' \in {"none", "pass", "fail"} /\ (ci' = "pass" => branch'.data \in Passes)
         /\ branch' \in [data: Versions, base: Versions] /\ pr'.n > 0
    BY <1>2, <1>5, <2>1, <2>6
  <2> QED BY <1>4, <1>5, <2>6, <2>9, <2>10, WriteKeeps
<1> QED BY <1>7, <1>8
\* A run that is over leaves the rest of the invariant as it is.
LEMMA RunOver ==
    ASSUME SyncInv, NEW r \in Runs, runs' = [runs EXCEPT ![r] = Over(r)],
           UNCHANGED <<branch, pr>>
    PROVE  runs' \in [Runs -> RunState] /\ \A x \in Runs : RunInv(runs[x])'
<1>1. runs \in [Runs -> RunState] /\ \A x \in Runs : RunInv(runs[x])
  BY DEF SyncInv, SyncTypeOK, PolicyInv
<1>2. Over(r) \in RunState /\ Over(r).pc \in {"idle", "over"}
  BY OverType
<1>3. runs' \in [Runs -> RunState]
  BY <1>1, <1>2
<1>4. ASSUME NEW x \in Runs PROVE RunInv(runs[x])'
  <2>1. runs'[x] = IF x = r THEN Over(r) ELSE runs[x]
    BY <1>1
  <2>2. CASE x = r
    <3>1. runs'[x].pc \in {"idle", "over"}
      BY <1>2, <2>1, <2>2
    <3> QED BY <3>1 DEF RunInv, Writes
  <2>3. CASE x # r
    <3>1. runs'[x] = runs[x] /\ RunInv(runs[x])
      BY <1>1, <2>1, <2>3
    <3> QED BY <3>1 DEF RunInv, Writes
  <2> QED BY <2>2, <2>3
<1> QED BY <1>3, <1>4

LEMMA EndKeeps ==
    ASSUME SyncInv, NEW r \in Runs, End(r)
    PROVE  SyncInv'
<1>1. /\ runs[r].pc = "apply" /\ runs[r].todo = <<>>
      /\ runs' = [runs EXCEPT ![r] = Over(r)] /\ settled' = runs[r].sole
      /\ UNCHANGED <<upstream, commits, log, branch, pr, ci, failures>>
  BY DEF End
<1>2. runs' \in [Runs -> RunState] /\ \A x \in Runs : RunInv(runs[x])'
  BY <1>1, RunOver
<1>3. runs[r] \in RunState /\ RunInv(runs[r])
  BY DEF SyncInv, SyncTypeOK, PolicyInv
<1>4. runs[r].sole \in BOOLEAN
  BY <1>3 DEF RunState
<1>5. SyncTypeOK'
  BY <1>1, <1>2, <1>4 DEF SyncInv, SyncTypeOK
<1>6. PolicyIsApplied'
  <2> SUFFICES ASSUME settled', pr # NoPR
               PROVE  LET merge == Policy(branch.base, branch.data)
                      IN /\ pr.draft <=> merge = "blocked"
                         /\ pr.auto <=> merge = "auto"
                         /\ pr.body = merge
    BY <1>1 DEF PolicyIsApplied
  <2>1. Writes(runs[r])
    BY <1>1 DEF Writes
  <2>2. /\ runs[r].merge = Policy(branch.base, branch.data) /\ pr.body = runs[r].merge
        /\ Leads(<<>>, runs[r].merge, pr.draft, pr.auto)
    BY <1>1, <1>3, <2>1 DEF RunInv
  <2>3. /\ <<"disable">> # <<>> /\ <<"undo">> # <<>> /\ <<"disable", "undo">> # <<>>
        /\ <<"ready">> # <<>> /\ <<"disable", "ready">> # <<>> /\ <<"auto">> # <<>>
        /\ <<"ready", "auto">> # <<>>
    OBVIOUS
  <2>4. (pr.draft <=> runs[r].merge = "blocked") /\ (pr.auto <=> runs[r].merge = "auto")
    BY <2>2, <2>3, Zenon DEF Leads
  <2> QED BY <2>2, <2>4, Zenon
<1>7. GateInv' /\ (pr # NoPR => pr.n > 0)'
  BY <1>1 DEF SyncInv, GateInv, PolicyInv
<1> QED BY <1>2, <1>5, <1>6, <1>7 DEF SyncInv, PolicyInv

LEMMA FailKeeps ==
    ASSUME SyncInv, NEW r \in Runs, Fail(r)
    PROVE  SyncInv'
<1>1. /\ runs' = [runs EXCEPT ![r] = Over(r)]
      /\ failures < MaxFailures /\ failures' = failures + 1
      /\ UNCHANGED <<upstream, commits, log, branch, pr, ci, settled>>
  BY DEF Fail
<1>2. runs' \in [Runs -> RunState] /\ \A x \in Runs : RunInv(runs[x])'
  BY <1>1, RunOver
<1>3. failures' \in 0 .. MaxFailures
  BY <1>1, SyncBoundAssumption DEF SyncInv, SyncTypeOK
<1>4. SyncTypeOK'
  BY <1>1, <1>2, <1>3 DEF SyncInv, SyncTypeOK
<1>5. GateInv' /\ PolicyIsApplied' /\ (pr # NoPR => pr.n > 0)'
  BY <1>1 DEF SyncInv, GateInv, PolicyInv, PolicyIsApplied
<1> QED BY <1>2, <1>4, <1>5 DEF SyncInv, PolicyInv

----------------------------------------------------------------------------
(* So do upstream, CI and the merges.                                      *)

LEMMA UpstreamKeeps ==
    ASSUME SyncInv, NEW v \in Versions, UpstreamCommit(v)
    PROVE  SyncInv'
<1>1. /\ upstream' = v /\ commits < MaxCommits /\ commits' = commits + 1
      /\ UNCHANGED <<log, branch, pr, ci, runs, failures, settled>>
  BY DEF UpstreamCommit
<1>2. commits' \in 0 .. MaxCommits
  BY <1>1, SyncBoundAssumption DEF SyncInv, SyncTypeOK
<1>3. SyncTypeOK' /\ GateInv'
  BY <1>1, <1>2 DEF SyncInv, SyncTypeOK, GateInv
<1>4. PolicyInv'
  BY <1>1 DEF SyncInv, PolicyInv, PolicyIsApplied, RunInv, Writes
<1> QED BY <1>3, <1>4 DEF SyncInv

LEMMA CIKeeps ==
    ASSUME SyncInv, CI
    PROVE  SyncInv'
<1>1. /\ ci' = IF branch.data \in Passes THEN "pass" ELSE "fail"
      /\ UNCHANGED <<upstream, commits, log, branch, pr, runs, failures, settled>>
  BY DEF CI
<1>2. ci' \in {"none", "pass", "fail"} /\ (ci' = "pass" => branch.data \in Passes)
  BY <1>1
<1>3. SyncTypeOK' /\ GateInv'
  BY <1>1, <1>2 DEF SyncInv, SyncTypeOK, GateInv
<1>4. PolicyInv'
  BY <1>1 DEF SyncInv, PolicyInv, PolicyIsApplied, RunInv, Writes
<1> QED BY <1>3, <1>4 DEF SyncInv

LEMMA CIFailsKeeps ==
    ASSUME SyncInv, CIFails
    PROVE  SyncInv'
<1>1. /\ ci' = "fail" /\ failures < MaxFailures /\ failures' = failures + 1
      /\ UNCHANGED <<upstream, commits, log, branch, pr, runs, settled>>
  BY DEF CIFails
<1>2. failures' \in 0 .. MaxFailures
  BY <1>1, SyncBoundAssumption DEF SyncInv, SyncTypeOK
<1>3. SyncTypeOK' /\ GateInv'
  BY <1>1, <1>2 DEF SyncInv, SyncTypeOK, GateInv
<1>4. PolicyInv'
  BY <1>1 DEF SyncInv, PolicyInv, PolicyIsApplied, RunInv, Writes
<1> QED BY <1>3, <1>4 DEF SyncInv

LEMMA MergeKeeps ==
    ASSUME SyncInv, NEW by \in {"auto", "human"}, Merge(by)
    PROVE  SyncInv'
<1>1. /\ log' = Append(log, [data |-> branch.data, by |-> by]) /\ pr' = NoPR /\ ci' = "none"
      /\ ci = "pass"
      /\ UNCHANGED <<upstream, commits, branch, runs, failures, settled>>
  BY DEF Merge, Mergeable
<1>2. /\ log \in Seq(Merges) /\ log # <<>> /\ branch.data \in Passes
      /\ [data |-> branch.data, by |-> by] \in Merges
      /\ \A i \in DOMAIN log : log[i].data \in Passes
  BY <1>1 DEF SyncInv, SyncTypeOK, GateInv, Merges
<1>3. /\ log' \in Seq(Merges) /\ log' # <<>>
      /\ \A i \in DOMAIN log' : log'[i] = IF i \in DOMAIN log THEN log[i]
                                          ELSE [data |-> branch.data, by |-> by]
  BY <1>1, <1>2
<1>4. GateInv'
  BY <1>1, <1>2, <1>3 DEF GateInv
<1>5. SyncTypeOK'
  BY <1>1, <1>3, NoPRType DEF SyncInv, SyncTypeOK, Merges, PullRequests
<1>6. PolicyInv'
  BY <1>1 DEF SyncInv, PolicyInv, PolicyIsApplied, RunInv, Writes
<1> QED BY <1>4, <1>5, <1>6 DEF SyncInv

----------------------------------------------------------------------------
(* The theorems.                                                           *)

LEMMA InvInit == SyncInit => SyncInv
<1> SUFFICES ASSUME SyncInit PROVE SyncInv
  OBVIOUS
<1>1. /\ upstream = Initial /\ commits = 0 /\ log = <<[data |-> Initial, by |-> "human"]>>
      /\ branch = [data |-> Initial, base |-> Initial] /\ pr = NoPR /\ ci = "none"
      /\ runs = [r \in Runs |-> Idle] /\ failures = 0 /\ settled = TRUE
  BY DEF SyncInit
<1>2. Initial \in Versions /\ MaxCommits \in Nat /\ MaxFailures \in Nat
  BY VersionAssumption, SyncBoundAssumption
<1>3. SyncTypeOK
  BY <1>1, <1>2, IdleType, NoPRType DEF SyncTypeOK, PullRequests
<1>4. GateInv
  BY <1>1, GateAssumption DEF GateInv
<1>5. PolicyInv
  BY <1>1, IdleType, QuietRun DEF PolicyInv, PolicyIsApplied
<1> QED BY <1>3, <1>4, <1>5 DEF SyncInv

LEMMA InvStep == SyncInv /\ [SyncNext]_syncVars => SyncInv'
<1> SUFFICES ASSUME SyncInv, [SyncNext]_syncVars PROVE SyncInv'
  OBVIOUS
<1>1. ASSUME NEW v \in Versions, UpstreamCommit(v) PROVE SyncInv'
  BY <1>1, UpstreamKeeps
<1>2. ASSUME NEW r \in Runs, Start(r) \/ Advance(r) \/ Fail(r) PROVE SyncInv'
  BY <1>2, StartKeeps, FetchKeeps, PushKeeps, OpenKeeps, ViewKeeps, ApplyKeeps, EndKeeps,
     FailKeeps DEF Advance
<1>3. CASE CI \/ CIFails
  BY <1>3, CIKeeps, CIFailsKeeps
<1>4. CASE AutoMerge \/ HumanMerge
  BY <1>4, MergeKeeps DEF AutoMerge, HumanMerge
<1>5. CASE UNCHANGED syncVars
  <2>1. UNCHANGED <<upstream, commits, log, branch, pr, ci, runs, failures, settled>>
    BY <1>5 DEF syncVars
  <2>2. SyncTypeOK' /\ GateInv'
    BY <2>1 DEF SyncInv, SyncTypeOK, GateInv
  <2>3. PolicyInv'
    BY <2>1 DEF SyncInv, PolicyInv, PolicyIsApplied, RunInv, Writes
  <2> QED BY <2>2, <2>3 DEF SyncInv
<1> QED BY <1>1, <1>2, <1>3, <1>4, <1>5 DEF SyncNext

\* The inductive invariant holds of every behaviour of the sync.
THEOREM SyncInvariance == SyncSpec => []SyncInv
BY InvInit, InvStep, PTL DEF SyncSpec

\* Main, the branch, the pull request and the runs stay within their types.
THEOREM SyncTypeCorrect == SyncSpec => []SyncTypeOK
<1>1. SyncInv => SyncTypeOK
  BY DEF SyncInv
<1> QED BY <1>1, SyncInvariance, PTL

\* No data reach main but those that pass the gate, whatever upstream ships.
THEOREM GateHolds == SyncSpec => []MainPassesGate
<1>1. SyncInv => MainPassesGate
  <2> SUFFICES ASSUME SyncInv PROVE log[Len(log)].data \in Passes
    BY DEF MainPassesGate, main
  <2>1. Len(log) \in DOMAIN log
    BY DEF SyncInv, SyncTypeOK
  <2> QED BY <2>1 DEF SyncInv, GateInv
<1> QED BY <1>1, SyncInvariance, PTL

\* A run that applied its policy alone left the pull request as the class of
\* the branch's own data demands, and so it stays until the next run writes.
THEOREM PolicyHolds == SyncSpec => []PolicyIsApplied
<1>1. SyncInv => PolicyIsApplied
  BY DEF SyncInv, PolicyInv
<1> QED BY <1>1, SyncInvariance, PTL

USE NilAssumption, IntAssumption, UnitAssumption

----------------------------------------------------------------------------
(* The books of two versions.                                              *)

\* What the gate leaves of a version.
LEMMA GatedBook ==
    ASSUME NEW v \in Passes
    PROVE  /\ v \in Versions /\ Builds(v) /\ Canaries(v)
           /\ BookOf(v).models = SnapshotOf(v)
           /\ BookOf(v).aliases = Config(Curation).Aliases
           /\ BookOf(v).overrides = Config(Curation).Overrides
           /\ BookOf(v).published = {Curation.published[i] : i \in DOMAIN Curation.published}
           /\ \A x \in BookOf(v).published : "standard" \in TiersOf(BookOf(v), x.id)
<1>1. v \in Versions /\ Gate(v)
  BY DEF Passes
<1>2. /\ BookOf(v).models = SnapshotOf(v)
      /\ BookOf(v).aliases = Config(Curation).Aliases
      /\ BookOf(v).overrides = Config(Curation).Overrides
      /\ BookOf(v).published = {Curation.published[i] : i \in DOMAIN Curation.published}
  BY DEF BookOf, newBook
<1> QED BY <1>1, <1>2 DEF Gate

\* The published models, under any version: an id is published once, by a
\* provider that prices, and an alias leads in one step to its key.
LEMMA PublishedIds ==
    ASSUME NEW v \in Passes, NEW x \in BookOf(v).published
    PROVE  /\ x.provider \in pricers
           /\ resolve(BookOf(v), x.id) = x.key /\ resolve(BookOf(v), x.key) = x.key
           /\ \A y \in BookOf(v).published : x.id = y.id => x = y
<1> DEFINE pub == Curation.published
           A == Config(Curation).Aliases
           b == BookOf(v)
<1>1. b.published = {pub[i] : i \in DOMAIN pub} /\ b.aliases = A /\ Builds(v)
  BY GatedBook
<1>2. ~ Miscurated(Curation) /\ L!Sound(SnapshotOf(v), Config(Curation))
  BY <1>1 DEF Builds
<1>3. /\ \A i, j \in DOMAIN pub : pub[i].id = pub[j].id => i = j
      /\ \A i \in DOMAIN pub : pub[i].provider \in pricers
  BY <1>2 DEF Miscurated
<1>4. A = [a \in {pub[i].id : i \in Aliased(Curation)} |->
              pub[CHOOSE i \in Aliased(Curation) : pub[i].id = a].key]
  BY DEF Config
<1>5. \A i : i \in Aliased(Curation) <=> i \in DOMAIN pub /\ pub[i].id # pub[i].key
  BY DEF Aliased
<1>6. \A a \in DOMAIN A : A[a] \notin DOMAIN A
  BY <1>2 DEF L!Sound
<1> HIDE DEF pub, A, b
<1>7. \A a : a \in DOMAIN A <=> \E i \in Aliased(Curation) : pub[i].id = a
  BY <1>4
<1>8. PICK i \in DOMAIN pub : x = pub[i]
  BY <1>1 DEF b
<1>9. resolve(b, x.id) = x.key /\ resolve(b, x.key) = x.key
  <2>1. CASE i \in Aliased(Curation)
    <3>1. (CHOOSE j \in Aliased(Curation) : pub[j].id = pub[i].id) = i
      BY <1>3, <1>5, <2>1
    <3>2. pub[i].id \in DOMAIN A /\ A[pub[i].id] = pub[i].key
      BY <1>4, <1>7, <2>1, <3>1
    <3> QED BY <1>1, <1>6, <1>8, <3>2 DEF resolve
  <2>2. CASE i \notin Aliased(Curation)
    <3>1. pub[i].id = pub[i].key /\ pub[i].id \notin DOMAIN A
      BY <1>3, <1>5, <1>7, <2>2
    <3> QED BY <1>1, <1>8, <3>1 DEF resolve
  <2> QED BY <2>1, <2>2
<1>10. \A y \in b.published : x.id = y.id => x = y
  BY <1>1, <1>3, <1>8
<1> QED BY <1>3, <1>8, <1>9, <1>10 DEF b

\* Every rate of a gated version is sound, and a key has standard ones.
LEMMA GatedRates ==
    ASSUME NEW v \in Passes, NEW model, NEW s \in TiersOf(BookOf(v), model)
    PROVE  /\ IsRates(RatesFor(BookOf(v), model, s)) /\ ValidRates(RatesFor(BookOf(v), model, s))
           /\ "standard" \in TiersOf(BookOf(v), model)
<1> DEFINE b == BookOf(v)
           key == resolve(b, model)
           snap == SnapshotOf(v)
<1>1. /\ v \in Versions /\ Builds(v) /\ Canaries(v)
      /\ b.models = snap /\ b.overrides = Config(Curation).Overrides
  BY GatedBook
<1>2. CASE key \in DOMAIN b.overrides
  <2>1. key \in DOMAIN Curation.overrides /\ b.overrides[key] = Curation.overrides[key].rates
    BY <1>1, <1>2 DEF Config
  <2>2. b.overrides[key] # Nil /\ IsRates(b.overrides[key])
    BY <2>1, DataAssumption DEF IsCuration
  <2>3. L!ValidRates(b.overrides[key])
    BY <1>1, <1>2, <2>2 DEF Builds, L!Sound
  <2>4. ValidRates(b.overrides[key])
    BY <2>3 DEF L!ValidRates, ValidRates, L!priceable, priceable, L!TokenParts, TokenParts,
                L!Parts, Parts
  <2>5. RatesFor(b, model, s) = b.overrides[key]
    BY <1>2 DEF RatesFor
  <2>6. "standard" \in TiersOf(b, model)
    BY <1>2 DEF TiersOf
  <2> QED BY <2>2, <2>4, <2>5, <2>6
<1>3. CASE key \notin DOMAIN b.overrides
  <2>1. key \in DOMAIN snap /\ s \in DOMAIN snap[key]
    BY <1>1, <1>3 DEF TiersOf
  <2>2. SnapshotOf(v) # Nil
    BY <1>1 DEF Builds
  <2>3. IsRates(snap[key][s])
    BY <1>1, <2>1, <2>2, DataAssumption
  <2>4. ValidRates(snap[key][s]) /\ "standard" \in DOMAIN snap[key]
    BY <1>1, <2>1, CanaryAssumption
  <2>5. RatesFor(b, model, s) = snap[key][s]
    BY <1>1, <1>3 DEF RatesFor
  <2>6. TiersOf(b, model) = DOMAIN snap[key]
    BY <1>1, <1>3, <2>1 DEF TiersOf
  <2> QED BY <2>3, <2>4, <2>5, <2>6
<1> QED BY <1>2, <1>3

----------------------------------------------------------------------------
(* The rows of a book.                                                     *)

\* The entry of a published model.
Sold(x) == Entry(x.id, x.key, x.provider, "published")

LEMMA SoldFields ==
    ASSUME NEW x
    PROVE  Sold(x).id = x.id /\ Sold(x).key = x.key /\ Sold(x).listing = "published"
BY DEF Sold, Entry

LEMMA SoldEntries ==
    ASSUME NEW b
    PROVE  /\ \A e \in entries(b) : e.listing = "published" => \E x \in b.published : e = Sold(x)
           /\ \A x \in b.published : x.provider \in pricers => Sold(x) \in entries(b)
<1> DEFINE mine(p) == {x \in b.published : x.provider = p}
           covered(p) == {x.key : x \in mine(p)}
           owned(p) == {k \in DOMAIN b.owner : b.owner[k] = p}
           listed(p) == {Entry(x.id, x.key, p, "published") : x \in mine(p)}
           others(p) == {Entry(k, k, p, "billed") : k \in ModelsOf(b, p) \ covered(p)}
                        \cup {Entry(k, k, p, "override") :
                                 k \in (owned(p) \ ModelsOf(b, p)) \ covered(p)}
<1>1. entries(b) = UNION {listed(p) \cup others(p) : p \in pricers}
  BY DEF entries
<1>2. \A p, e : e \in listed(p) => \E x \in b.published : e = Sold(x)
  BY DEF Sold
<1>3. \A p, e : e \in others(p) => e.listing # "published"
  BY DEF Entry
<1>4. \A x \in b.published : Sold(x) \in listed(x.provider)
  BY DEF Sold
<1> HIDE DEF listed, others
<1>5. \A e \in entries(b) : \E p \in pricers : e \in listed(p) \/ e \in others(p)
  BY <1>1
<1>6. \A p \in pricers : \A e : e \in listed(p) => e \in entries(b)
  BY <1>1
<1>7. \A e \in entries(b) : e.listing = "published" => \E x \in b.published : e = Sold(x)
  BY <1>2, <1>3, <1>5
<1>8. \A x \in b.published : x.provider \in pricers => Sold(x) \in entries(b)
  BY <1>4, <1>6
<1> QED BY <1>7, <1>8

\* A cost, by its fields.
Cost(s, fast, n, c, cost) ==
    [Tier |-> s, Fast |-> fast, AbovePromptTokens |-> n, Component |-> c, Cost |-> cost]

LEMMA RowFields ==
    ASSUME NEW e, NEW c
    PROVE  LET x == Row(e, c)
           IN /\ x.Model = e.id /\ x.Listing = e.listing /\ (x.Published <=> e.listing = "published")
              /\ x.PricedBy = e.provider
              /\ x.Tier = c.Tier /\ x.Fast = c.Fast /\ x.Component = c.Component
              /\ x.AbovePromptTokens = c.AbovePromptTokens /\ x.Cost = c.Cost
BY DEF Row

\* The costs a key prices, one by one.
LEMMA PricedAre ==
    ASSUME NEW b, NEW key, NEW x
    PROVE  x \in priced(b, key) <=>
              \E s \in TiersOf(b, key) : \E fast \in Speeds(RatesFor(b, key, s)) :
                 \E t \in Contexts(RatesFor(b, key, s)) : \E c \in Parts :
                    /\ t.TierRates[c] # Nil
                    /\ x = Cost(s, fast, t.AbovePromptTokens, c,
                                t.TierRates[c] * scaled(RatesFor(b, key, s), fast, c) * MultUnit)
<1> DEFINE R(s) == RatesFor(b, key, s)
           costs(s, fast, t) ==
              {[Tier |-> s, Fast |-> fast, AbovePromptTokens |-> t.AbovePromptTokens,
                Component |-> c, Cost |-> t.TierRates[c] * scaled(R(s), fast, c) * MultUnit] :
                  c \in {c \in Parts : t.TierRates[c] # Nil}}
           modes(s) == UNION {costs(s, fast, t) : fast \in Speeds(R(s)), t \in Contexts(R(s))}
<1>1. priced(b, key) = UNION {modes(s) : s \in TiersOf(b, key)}
  BY DEF priced
<1>2. \A s : modes(s) = UNION {costs(s, fast, t) : fast \in Speeds(R(s)), t \in Contexts(R(s))}
  OBVIOUS
<1>3. \A s, fast, t : x \in costs(s, fast, t) <=>
         \E c \in Parts : /\ t.TierRates[c] # Nil
                          /\ x = Cost(s, fast, t.AbovePromptTokens, c,
                                      t.TierRates[c] * scaled(R(s), fast, c) * MultUnit)
  BY DEF Cost
<1> HIDE DEF costs
<1>4. \A s : x \in modes(s) <=>
         \E fast \in Speeds(R(s)), t \in Contexts(R(s)) : x \in costs(s, fast, t)
  BY <1>2
<1> HIDE DEF modes
<1>5. x \in priced(b, key) <=> \E s \in TiersOf(b, key) : x \in modes(s)
  BY <1>1
<1> QED BY <1>3, <1>4, <1>5

LEMMA RatesHaveRows ==
    ASSUME NEW b
    PROVE  /\ \A e \in entries(b) : \A c \in priced(b, e.key) : Row(e, c) \in rates(b)
           /\ \A y \in rates(b) : \E e \in entries(b) : \E c \in priced(b, e.key) : y = Row(e, c)
<1> DEFINE rows(e) == {Row(e, c) : c \in priced(b, e.key)}
<1>1. rates(b) = UNION {rows(e) : e \in entries(b)}
  BY DEF rates
<1>2. \A e, y : y \in rows(e) <=> \E c \in priced(b, e.key) : y = Row(e, c)
  OBVIOUS
<1> HIDE DEF rows
<1>3. \A y : y \in rates(b) <=> \E e \in entries(b) : y \in rows(e)
  BY <1>1
<1> QED BY <1>2, <1>3

\* What has a rate at all has one for ordinary input.
LEMMA InputIsPriced ==
    ASSUME NEW v \in Passes, NEW key, NEW s \in TiersOf(BookOf(v), key)
    PROVE  \E cost : Cost("standard", FALSE, 0, "input", cost) \in priced(BookOf(v), key)
<1> DEFINE b == BookOf(v)
           r == RatesFor(b, key, "standard")
           t == [AbovePromptTokens |-> 0, TierRates |-> r.Base]
<1>1. "standard" \in TiersOf(b, key) /\ ValidRates(r)
  BY GatedRates
<1>2. FALSE \in Speeds(r) /\ t \in Contexts(r) /\ "input" \in Parts
  BY DEF Speeds, Contexts, Parts
<1>3. t.AbovePromptTokens = 0 /\ t.TierRates = r.Base
  OBVIOUS
<1>4. t.TierRates["input"] # Nil
  BY <1>1, <1>3 DEF ValidRates, priceable, TokenParts
<1>5. PICK x : x = Cost("standard", FALSE, 0, "input",
                        t.TierRates["input"] * scaled(r, FALSE, "input") * MultUnit)
  OBVIOUS
<1>6. x \in priced(b, key)
  <2> HIDE DEF t
  <2> QED BY <1>1, <1>2, <1>3, <1>4, <1>5, PricedAre
<1> QED BY <1>5, <1>6

\* The rows under a published id are those of its entry: TestBook lets no
\* other entry have rows there.
LEMMA OwnRows ==
    ASSUME NEW v \in Passes, NEW x \in BookOf(v).published,
           NEW y \in rates(BookOf(v)), y.Model = x.id
    PROVE  \E c \in priced(BookOf(v), x.key) : y = Row(Sold(x), c)
<1> DEFINE b == BookOf(v)
<1>1. PICK e \in entries(b) : \E c \in priced(b, e.key) : y = Row(e, c)
  BY RatesHaveRows
<1>2. PICK c \in priced(b, e.key) : y = Row(e, c)
  BY <1>1
<1>3. e.id = x.id
  BY <1>2, RowFields
<1>4. PICK i : Cost("standard", FALSE, 0, "input", i) \in priced(b, e.key)
  <2>1. \E s : s \in TiersOf(b, e.key)
    BY <1>2, PricedAre
  <2> QED BY <2>1, InputIsPriced
<1>5. PICK j : Cost("standard", FALSE, 0, "input", j) \in priced(b, x.key)
  <2>1. "standard" \in TiersOf(b, x.id)
    BY GatedBook
  <2>2. resolve(b, x.key) = resolve(b, x.id)
    BY PublishedIds
  <2>3. "standard" \in TiersOf(b, x.key)
    BY <2>1, <2>2 DEF TiersOf
  <2> QED BY <2>3, InputIsPriced
<1>6. Sold(x) \in entries(b) /\ Sold(x).id = x.id /\ Sold(x).key = x.key
  <2>1. x.provider \in pricers
    BY PublishedIds
  <2> QED BY <2>1, SoldEntries, SoldFields
<1>7. PICK p, q : /\ p = Row(e, Cost("standard", FALSE, 0, "input", i))
                  /\ q = Row(Sold(x), Cost("standard", FALSE, 0, "input", j))
  OBVIOUS
<1>8. p \in rates(b) /\ q \in rates(b)
  BY <1>4, <1>5, <1>6, <1>7, RatesHaveRows
<1>9. SameRate(p, q) /\ p.Listing = e.listing /\ q.Listing = Sold(x).listing
  BY <1>3, <1>6, <1>7 DEF SameRate, Row, Cost
<1>10. p = q
  <2>1. \A f, g \in rates(b) : SameRate(f, g) => f = g
    BY GatedBook, CanaryAssumption
  <2> QED BY <1>8, <1>9, <2>1
<1>11. e.listing = "published"
  BY <1>9, <1>10, SoldFields
<1>12. PICK z \in b.published : e = Sold(z)
  BY <1>11, SoldEntries
<1>13. z = x
  <2>1. x.id = z.id
    BY <1>3, <1>12, SoldFields
  <2> QED BY <2>1, PublishedIds
<1> QED BY <1>2, <1>6, <1>12, <1>13

\* Costs whose fields agree are equal.
LEMMA CostFields ==
    ASSUME NEW b, NEW key, NEW c \in priced(b, key)
    PROVE  c = Cost(c.Tier, c.Fast, c.AbovePromptTokens, c.Component, c.Cost)
<1>1. \E s, f, n, p, k : c = Cost(s, f, n, p, k)
  BY PricedAre
<1> QED BY <1>1 DEF Cost

\* No published rate appears, leaves or moves from version v to version w.
Unmoved(v, w) ==
    LET d == diff(rates(BookOf(v)), rates(BookOf(w)))
    IN d.removed = {} /\ d.repriced = {}

\* Then the two versions price a published model alike.
LEMMA PricedAlike ==
    ASSUME NEW v \in Passes, NEW w \in Passes, Unmoved(v, w), NEW x \in BookOf(v).published,
           NEW c
    PROVE  c \in priced(BookOf(v), x.key) <=> c \in priced(BookOf(w), x.key)
<1> DEFINE b == BookOf(v)
           h == BookOf(w)
           base == rates(b)
           head == rates(h)
<1>1. x \in h.published
  BY GatedBook
<1>2. \A z \in base : z.Published = TRUE => KeyOf(z) \in index(head) /\ ~ Moved(z, head)
  <2>1. \A z \in base : KeyOf(z) \notin index(head) /\ z.Published => FALSE
    BY DEF Unmoved, diff
  <2>2. \A z \in base : Moved(z, head) /\ z.Published => FALSE
    BY DEF Unmoved, diff
  <2> QED BY <2>1, <2>2
<1>3. \A z \in head : z.Published = TRUE /\ z.Model \in Priced(base) => KeyOf(z) \in index(base)
  BY DEF Unmoved, diff
<1>4. \A y, z : KeyOf(y) = KeyOf(z) =>
         /\ y.Model = z.Model /\ y.Tier = z.Tier /\ y.Component = z.Component
         /\ y.Fast = z.Fast /\ y.AbovePromptTokens = z.AbovePromptTokens
  BY DEF KeyOf
<1>5. \A rows, y : KeyOf(y) \in index(rows) => \E z \in rows : KeyOf(z) = KeyOf(y)
  BY DEF index
<1> HIDE DEF base, head
<1>6. Sold(x) \in entries(b) /\ Sold(x) \in entries(h)
  <2>1. x.provider \in pricers
    BY PublishedIds
  <2> QED BY <1>1, <2>1, SoldEntries
<1>7. \A i \in priced(b, x.key) : Row(Sold(x), i) \in base
  <2>1. PICK e \in entries(b) : e = Sold(x) /\ e.key = x.key
    BY <1>6, SoldFields
  <2>2. \A i \in priced(b, e.key) : Row(e, i) \in rates(b)
    BY RatesHaveRows
  <2> QED BY <2>1, <2>2 DEF base
<1>8. \A i \in priced(h, x.key) : Row(Sold(x), i) \in head
  <2>1. PICK e \in entries(h) : e = Sold(x) /\ e.key = x.key
    BY <1>6, SoldFields
  <2>2. \A i \in priced(h, e.key) : Row(e, i) \in rates(h)
    BY RatesHaveRows
  <2> QED BY <2>1, <2>2 DEF head
<1>9. \A i : Row(Sold(x), i).Published = TRUE /\ Row(Sold(x), i).Model = x.id
  BY SoldFields DEF Row
<1>10. ASSUME NEW i \in priced(b, x.key), NEW j \in priced(h, x.key),
             KeyOf(Row(Sold(x), i)) = KeyOf(Row(Sold(x), j))
      PROVE  i = j
  <2>1. PICK y, z : y = Row(Sold(x), i) /\ z = Row(Sold(x), j)
    OBVIOUS
  <2>2. y \in base /\ z \in head /\ y.Published = TRUE
    BY <1>7, <1>8, <1>9, <2>1
  <2>3. y.Cost = z.Cost
    <3>1. ~ Moved(y, head) /\ KeyOf(z) = KeyOf(y)
      BY <1>2, <1>10, <2>1, <2>2
    <3> QED BY <2>2, <3>1 DEF Moved
  <2>4. /\ y.Tier = z.Tier /\ y.Component = z.Component
        /\ y.Fast = z.Fast /\ y.AbovePromptTokens = z.AbovePromptTokens
    BY <1>4, <1>10, <2>1
  <2>5. /\ i.Tier = j.Tier /\ i.Component = j.Component /\ i.Cost = j.Cost
        /\ i.Fast = j.Fast /\ i.AbovePromptTokens = j.AbovePromptTokens
    BY <2>1, <2>3, <2>4, RowFields
  <2> QED BY <2>5, CostFields
<1>11. ASSUME c \in priced(b, x.key) PROVE c \in priced(h, x.key)
  <2>1. PICK y : y = Row(Sold(x), c)
    OBVIOUS
  <2>2. y \in base /\ y.Published = TRUE /\ y.Model = x.id
    BY <1>11, <1>7, <1>9, <2>1
  <2>3. PICK z \in head : KeyOf(z) = KeyOf(y)
    BY <1>2, <1>5, <2>2
  <2>4. z.Model = x.id
    BY <1>4, <2>2, <2>3
  <2>5. PICK j \in priced(h, x.key) : z = Row(Sold(x), j)
    BY <1>1, <2>4, OwnRows DEF head
  <2>6. c = j
    BY <1>10, <1>11, <2>1, <2>3, <2>5
  <2> QED BY <2>5, <2>6
<1>12. ASSUME c \in priced(h, x.key) PROVE c \in priced(b, x.key)
  <2>1. PICK y : y = Row(Sold(x), c)
    OBVIOUS
  <2>2. y \in head /\ y.Published = TRUE /\ y.Model = x.id
    BY <1>12, <1>8, <1>9, <2>1
  <2>3. y.Model \in Priced(base)
    <3>1. "standard" \in TiersOf(b, x.key)
      <4>1. "standard" \in TiersOf(b, x.id)
        BY GatedBook
      <4>2. resolve(b, x.key) = resolve(b, x.id)
        BY PublishedIds
      <4> QED BY <4>1, <4>2 DEF TiersOf
    <3>2. PICK i : i \in priced(b, x.key)
      BY <3>1, InputIsPriced
    <3>3. Row(Sold(x), i) \in base /\ Row(Sold(x), i).Model = x.id
      BY <1>7, <1>9, <3>2
    <3> QED BY <2>2, <3>3 DEF Priced
  <2>4. PICK z \in base : KeyOf(z) = KeyOf(y)
    BY <1>3, <1>5, <2>2, <2>3
  <2>5. z.Model = x.id
    BY <1>4, <2>2, <2>4
  <2>6. PICK i \in priced(b, x.key) : z = Row(Sold(x), i)
    BY <2>5, OwnRows DEF base
  <2>7. i = c
    BY <1>10, <1>12, <2>1, <2>4, <2>6
  <2> QED BY <2>6, <2>7
<1> QED BY <1>11, <1>12

----------------------------------------------------------------------------
(* Rates that price alike.                                                 *)

\* A context of sound rates has a price for input, and no other context has
\* its threshold, which is 0 for the base alone.
LEMMA ContextIsOne ==
    ASSUME NEW r, IsRates(r), ValidRates(r), NEW t \in Contexts(r)
    PROVE  /\ t = [AbovePromptTokens |-> t.AbovePromptTokens, TierRates |-> t.TierRates]
           /\ t.TierRates \in TierRates
           /\ t.TierRates["input"] \in Int /\ t.TierRates["input"] > 0
           /\ t.AbovePromptTokens \in Int
           /\ \A x \in Contexts(r) : x.AbovePromptTokens = t.AbovePromptTokens => x = t
<1> DEFINE D == DOMAIN r.Tiers
           N(i) == r.Tiers[i].AbovePromptTokens
           base == [AbovePromptTokens |-> 0, TierRates |-> r.Base]
<1>1. \A i \in D : i \in Nat \ {0} /\ r.Tiers[i] \in Tier
  <2>1. r.Tiers \in Seq(Tier)
    BY DEF IsRates
  <2> QED BY <2>1
<1>2. \A i \in D : N(i) \in Int /\ N(i) > 0
  <2>1. Int64 \subseteq Int
    BY DEF Int64
  <2>2. \A i \in D : N(i) \in Int64
    BY <1>1 DEF Tier
  <2> QED BY <2>1, <2>2 DEF ValidRates
<1>3. \A i, j \in D : j \in 1 .. i - 1 => N(j) < N(i)
  BY DEF ValidRates
<1>4. \A x : x \in Contexts(r) <=> x = base \/ \E i \in D : x = r.Tiers[i]
  BY DEF Contexts
<1>5. ASSUME NEW i \in D, NEW j \in D, N(i) = N(j) PROVE i = j
  <2>1. i < j => i \in 1 .. j - 1
    BY <1>1
  <2>2. j < i => j \in 1 .. i - 1
    BY <1>1
  <2>3. ~ N(i) < N(j) /\ ~ N(j) < N(i)
    BY <1>2, <1>5
  <2> QED BY <1>1, <1>3, <2>1, <2>2, <2>3
<1>6. \A f : f \in TierRates /\ priceable(f) => f["input"] \in Int /\ f["input"] > 0
  BY DEF TierRates, priceable, TokenParts, Parts
<1>7. CASE t = base
  <2>1. /\ t.AbovePromptTokens = 0 /\ t.TierRates = r.Base
        /\ t = [AbovePromptTokens |-> t.AbovePromptTokens, TierRates |-> t.TierRates]
    BY <1>7
  <2>2. r.Base \in TierRates /\ priceable(r.Base)
    BY DEF IsRates, ValidRates
  <2>3. ASSUME NEW x \in Contexts(r), x.AbovePromptTokens = t.AbovePromptTokens PROVE x = t
    <3>1. \A i \in D : x # r.Tiers[i]
      BY <1>2, <2>1, <2>3
    <3> QED BY <1>4, <1>7, <3>1
  <2> HIDE DEF base
  <2> QED BY <1>6, <2>1, <2>2, <2>3
<1>8. ASSUME NEW i \in D, t = r.Tiers[i]
      PROVE  /\ t = [AbovePromptTokens |-> t.AbovePromptTokens, TierRates |-> t.TierRates]
             /\ t.TierRates \in TierRates
             /\ t.TierRates["input"] \in Int /\ t.TierRates["input"] > 0
             /\ t.AbovePromptTokens \in Int
             /\ \A x \in Contexts(r) : x.AbovePromptTokens = t.AbovePromptTokens => x = t
  <2>1. t \in Tier
    BY <1>1, <1>8
  <2>2. /\ t = [AbovePromptTokens |-> t.AbovePromptTokens, TierRates |-> t.TierRates]
        /\ t.TierRates \in TierRates
    BY <2>1 DEF Tier
  <2>3. priceable(t.TierRates)
    BY <1>8 DEF ValidRates
  <2>4. t.AbovePromptTokens \in Int
    BY <1>2, <1>8
  <2>5. ASSUME NEW x \in Contexts(r), x.AbovePromptTokens = t.AbovePromptTokens PROVE x = t
    <3>1. x # base
      <4>1. base.AbovePromptTokens = 0
        OBVIOUS
      <4>2. t.AbovePromptTokens # 0
        BY <1>2, <1>8
      <4> HIDE DEF base
      <4> QED BY <2>5, <4>1, <4>2
    <3>2. PICK j \in D : x = r.Tiers[j]
      BY <1>4, <3>1
    <3>3. N(j) = N(i)
      BY <1>8, <2>5, <3>2
    <3> QED BY <1>5, <1>8, <3>2, <3>3
  <2> QED BY <1>6, <2>2, <2>3, <2>4, <2>5
<1> QED BY <1>4, <1>7, <1>8

\* What a positive factor scales, it tells apart.
LEMMA Cancel ==
    ASSUME NEW x \in Int, NEW y \in Int, NEW k \in Int, k > 0
    PROVE  /\ x * k = y * k => x = y
           /\ k * x = k * y => x = y
OBVIOUS

\* Every rate of a book for a key is sound.
SoundAt(b, key) == \A s \in TiersOf(b, key) :
                      IsRates(RatesFor(b, key, s)) /\ ValidRates(RatesFor(b, key, s))
SamePriced(b, h, key) == \A c : c \in priced(b, key) <=> c \in priced(h, key)

LEMMA CostHas ==
    ASSUME NEW s, NEW f, NEW n, NEW c, NEW k, NEW x, x = Cost(s, f, n, c, k)
    PROVE  /\ x.Tier = s /\ x.Fast = f /\ x.AbovePromptTokens = n /\ x.Component = c
           /\ x.Cost = k
BY DEF Cost

\* The rates of two books that price a key alike: where one has a rate, the
\* other has the same.
LEMMA CostsOfContext ==
    ASSUME NEW b, NEW h, NEW key, SoundAt(b, key), SoundAt(h, key), SamePriced(b, h, key),
           NEW s \in TiersOf(b, key), NEW t \in Contexts(RatesFor(b, key, s)),
           NEW c \in Parts, t.TierRates[c] # Nil
    PROVE  /\ s \in TiersOf(h, key)
           /\ \E x \in Contexts(RatesFor(h, key, s)) :
                 /\ x.AbovePromptTokens = t.AbovePromptTokens
                 /\ x.TierRates[c] = t.TierRates[c]
<1> DEFINE R == RatesFor(b, key, s)
           Q == RatesFor(h, key, s)
           n == t.AbovePromptTokens
<1>1. PICK y : y = Cost(s, FALSE, n, c, t.TierRates[c] * scaled(R, FALSE, c) * MultUnit)
  OBVIOUS
<1>2. y \in priced(b, key)
  <2>1. FALSE \in Speeds(R)
    BY DEF Speeds
  <2> QED BY <1>1, <2>1, PricedAre
<1>3. PICK z \in TiersOf(h, key) : \E fast \in Speeds(RatesFor(h, key, z)) :
                 \E x \in Contexts(RatesFor(h, key, z)) : \E d \in Parts :
                    /\ x.TierRates[d] # Nil
                    /\ y = Cost(z, fast, x.AbovePromptTokens, d,
                                x.TierRates[d] * scaled(RatesFor(h, key, z), fast, d) * MultUnit)
  BY <1>2, PricedAre DEF SamePriced
<1>4. PICK fast \in Speeds(RatesFor(h, key, z)) :
                 \E x \in Contexts(RatesFor(h, key, z)) : \E d \in Parts :
                    /\ x.TierRates[d] # Nil
                    /\ y = Cost(z, fast, x.AbovePromptTokens, d,
                                x.TierRates[d] * scaled(RatesFor(h, key, z), fast, d) * MultUnit)
  BY <1>3
<1>5. PICK x \in Contexts(RatesFor(h, key, z)) : \E d \in Parts :
                    /\ x.TierRates[d] # Nil
                    /\ y = Cost(z, fast, x.AbovePromptTokens, d,
                                x.TierRates[d] * scaled(RatesFor(h, key, z), fast, d) * MultUnit)
  BY <1>4
<1>6. PICK d \in Parts :
                    /\ x.TierRates[d] # Nil
                    /\ y = Cost(z, fast, x.AbovePromptTokens, d,
                                x.TierRates[d] * scaled(RatesFor(h, key, z), fast, d) * MultUnit)
  BY <1>5
<1>7. /\ z = s /\ fast = FALSE /\ d = c /\ x.AbovePromptTokens = n
      /\ t.TierRates[c] * scaled(R, FALSE, c) * MultUnit
            = x.TierRates[d] * scaled(RatesFor(h, key, z), fast, d) * MultUnit
  <2>1. PICK k, l : /\ k = t.TierRates[c] * scaled(R, FALSE, c) * MultUnit
                    /\ l = x.TierRates[d] * scaled(RatesFor(h, key, z), fast, d) * MultUnit
    OBVIOUS
  <2>2. /\ y.Tier = s /\ y.Fast = FALSE /\ y.AbovePromptTokens = n /\ y.Component = c
        /\ y.Cost = k
    BY <1>1, <2>1 DEF Cost
  <2>3. /\ y.Tier = z /\ y.Fast = fast /\ y.AbovePromptTokens = x.AbovePromptTokens
        /\ y.Component = d /\ y.Cost = l
    BY <1>6, <2>1, CostHas
  <2> QED BY <2>1, <2>2, <2>3
<1>8. /\ scaled(R, FALSE, c) = MultUnit /\ scaled(RatesFor(h, key, z), fast, d) = MultUnit
  BY <1>7 DEF scaled
<1>9. t.TierRates[c] \in Int /\ x.TierRates[c] \in Int
  <2>1. IsRates(R) /\ ValidRates(R) /\ IsRates(Q) /\ ValidRates(Q)
    BY <1>3, <1>7 DEF SoundAt
  <2>2. t.TierRates \in TierRates /\ x.TierRates \in TierRates
    BY <1>5, <1>7, <2>1, ContextIsOne
  <2>3. x.TierRates[c] # Nil
    BY <1>6, <1>7
  <2> QED BY <2>2, <2>3 DEF TierRates
<1>10. t.TierRates[c] = x.TierRates[c]
  <2> DEFINE i == t.TierRates[c]
             j == x.TierRates[c]
  <2>1. i * MultUnit * MultUnit = j * MultUnit * MultUnit
    BY <1>7, <1>8
  <2>2. i \in Int /\ j \in Int /\ MultUnit \in Int /\ MultUnit > 0
    BY <1>9
  <2> HIDE DEF i, j
  <2>3. i * MultUnit \in Int /\ j * MultUnit \in Int
    BY <2>2
  <2>4. i * MultUnit = j * MultUnit
    BY <2>1, <2>2, <2>3, Cancel
  <2>5. i = j
    BY <2>2, <2>4, Cancel
  <2> QED BY <2>5 DEF i, j
<1> QED BY <1>3, <1>5, <1>7, <1>10

LEMMA SymPriced ==
    ASSUME NEW b, NEW h, NEW key, SamePriced(b, h, key)
    PROVE  SamePriced(h, b, key)
BY DEF SamePriced

LEMMA ContextsKept ==
    ASSUME NEW b, NEW h, NEW key, SoundAt(b, key), SoundAt(h, key), SamePriced(b, h, key),
           NEW s \in TiersOf(b, key)
    PROVE  /\ s \in TiersOf(h, key)
           /\ Contexts(RatesFor(b, key, s)) \subseteq Contexts(RatesFor(h, key, s))
<1> DEFINE R == RatesFor(b, key, s)
           Q == RatesFor(h, key, s)
<1>1. "input" \in Parts
  BY DEF Parts
<1>2. IsRates(R) /\ ValidRates(R)
  BY DEF SoundAt
<1>3. \A t \in Contexts(R) : t.TierRates["input"] # Nil
  BY <1>2, ContextIsOne, NilAssumption
<1>4. s \in TiersOf(h, key)
  <2>1. PICK t \in Contexts(R) : TRUE
    BY DEF Contexts
  <2> QED BY <1>1, <1>3, <2>1, CostsOfContext
<1>5. IsRates(Q) /\ ValidRates(Q)
  BY <1>4 DEF SoundAt
<1>6. ASSUME NEW t \in Contexts(R) PROVE t \in Contexts(Q)
  <2>1. PICK x \in Contexts(Q) : x.AbovePromptTokens = t.AbovePromptTokens
    BY <1>1, <1>3, CostsOfContext
  <2>2. ASSUME NEW c \in Parts PROVE x.TierRates[c] = t.TierRates[c]
    <3>1. CASE t.TierRates[c] # Nil
      <4>1. PICK y \in Contexts(Q) : /\ y.AbovePromptTokens = t.AbovePromptTokens
                                     /\ y.TierRates[c] = t.TierRates[c]
        BY <3>1, CostsOfContext
      <4>2. y = x
        BY <1>5, <2>1, <4>1, ContextIsOne
      <4> QED BY <4>1, <4>2
    <3>2. CASE t.TierRates[c] = Nil /\ x.TierRates[c] # Nil
      <4>1. PICK y \in Contexts(R) : /\ y.AbovePromptTokens = x.AbovePromptTokens
                                     /\ y.TierRates[c] = x.TierRates[c]
        BY <1>4, <3>2, SymPriced, CostsOfContext
      <4>2. y = t
        BY <1>2, <2>1, <4>1, ContextIsOne
      <4> QED BY <4>1, <4>2
    <3> QED BY <3>1, <3>2
  <2>3. t.TierRates \in TierRates /\ x.TierRates \in TierRates
    BY <1>2, <1>5, ContextIsOne
  <2>4. t.TierRates = x.TierRates
    BY <2>2, <2>3 DEF TierRates
  <2>5. t = [AbovePromptTokens |-> t.AbovePromptTokens, TierRates |-> t.TierRates]
    BY <1>2, ContextIsOne
  <2>6. x = [AbovePromptTokens |-> x.AbovePromptTokens, TierRates |-> x.TierRates]
    BY <1>5, ContextIsOne
  <2> QED BY <2>1, <2>4, <2>5, <2>6
<1> QED BY <1>4, <1>6

LEMMA FastKept ==
    ASSUME NEW b, NEW h, NEW key, SoundAt(b, key), SoundAt(h, key), SamePriced(b, h, key),
           NEW s \in TiersOf(b, key), RatesFor(b, key, s).Fast # Nil
    PROVE  RatesFor(h, key, s).Fast = RatesFor(b, key, s).Fast
<1> DEFINE R == RatesFor(b, key, s)
           Q == RatesFor(h, key, s)
           t == [AbovePromptTokens |-> 0, TierRates |-> R.Base]
<1>1. /\ s \in TiersOf(h, key)
      /\ Contexts(R) \subseteq Contexts(Q)
  BY ContextsKept
<1>2. IsRates(R) /\ ValidRates(R) /\ IsRates(Q) /\ ValidRates(Q)
  BY <1>1 DEF SoundAt
<1>3. t \in Contexts(R) /\ t.AbovePromptTokens = 0
  BY DEF Contexts
<1>4. "input" \in Parts /\ "input" \in TokenParts
  BY DEF Parts, TokenParts
<1> HIDE DEF t
<1>5. /\ t \in Contexts(Q) /\ t.TierRates["input"] \in Int
      /\ t.TierRates["input"] > 0 /\ t.TierRates["input"] # Nil
  BY <1>1, <1>2, <1>3, ContextIsOne, NilAssumption
<1>6. PICK y : y = Cost(s, TRUE, 0, "input", t.TierRates["input"] * R.Fast * MultUnit)
  OBVIOUS
<1>7. y \in priced(b, key)
  <2>1. TRUE \in Speeds(R)
    BY DEF Speeds
  <2>2. scaled(R, TRUE, "input") = R.Fast
    BY <1>4 DEF scaled
  <2>3. y = Cost(s, TRUE, t.AbovePromptTokens, "input",
                 t.TierRates["input"] * scaled(R, TRUE, "input") * MultUnit)
    BY <1>3, <1>6, <2>2
  <2>4. PICK fast \in Speeds(R) :
           y = Cost(s, fast, t.AbovePromptTokens, "input",
                    t.TierRates["input"] * scaled(R, fast, "input") * MultUnit)
    BY <2>1, <2>3
  <2> QED BY <1>3, <1>4, <1>5, <2>4, PricedAre
<1>8. PICK z \in TiersOf(h, key) : \E fast \in Speeds(RatesFor(h, key, z)) :
                 \E x \in Contexts(RatesFor(h, key, z)) : \E d \in Parts :
                    /\ x.TierRates[d] # Nil
                    /\ y = Cost(z, fast, x.AbovePromptTokens, d,
                                x.TierRates[d] * scaled(RatesFor(h, key, z), fast, d) * MultUnit)
  BY <1>7, PricedAre DEF SamePriced
<1>9. PICK fast \in Speeds(RatesFor(h, key, z)) :
                 \E x \in Contexts(RatesFor(h, key, z)) : \E d \in Parts :
                    /\ x.TierRates[d] # Nil
                    /\ y = Cost(z, fast, x.AbovePromptTokens, d,
                                x.TierRates[d] * scaled(RatesFor(h, key, z), fast, d) * MultUnit)
  BY <1>8
<1>10. PICK x \in Contexts(RatesFor(h, key, z)) : \E d \in Parts :
                    /\ x.TierRates[d] # Nil
                    /\ y = Cost(z, fast, x.AbovePromptTokens, d,
                                x.TierRates[d] * scaled(RatesFor(h, key, z), fast, d) * MultUnit)
  BY <1>9
<1>11. PICK d \in Parts :
                    /\ x.TierRates[d] # Nil
                    /\ y = Cost(z, fast, x.AbovePromptTokens, d,
                                x.TierRates[d] * scaled(RatesFor(h, key, z), fast, d) * MultUnit)
  BY <1>10
<1>12. /\ z = s /\ fast = TRUE /\ d = "input" /\ x.AbovePromptTokens = 0
       /\ t.TierRates["input"] * R.Fast * MultUnit
             = x.TierRates[d] * scaled(RatesFor(h, key, z), fast, d) * MultUnit
  <2>1. PICK k, l : /\ k = t.TierRates["input"] * R.Fast * MultUnit
                    /\ l = x.TierRates[d] * scaled(RatesFor(h, key, z), fast, d) * MultUnit
    OBVIOUS
  <2>2. /\ y.Tier = s /\ y.Fast = TRUE /\ y.AbovePromptTokens = 0 /\ y.Component = "input"
        /\ y.Cost = k
    BY <1>6, <2>1 DEF Cost
  <2>3. /\ y.Tier = z /\ y.Fast = fast /\ y.AbovePromptTokens = x.AbovePromptTokens
        /\ y.Component = d /\ y.Cost = l
    BY <1>11, <2>1, CostHas
  <2> QED BY <2>1, <2>2, <2>3
<1>13. scaled(Q, TRUE, "input") = Q.Fast
  BY <1>4 DEF scaled
<1>14. Q.Fast # Nil
  BY <1>9, <1>12 DEF Speeds
<1>15. x = t
  BY <1>2, <1>3, <1>5, <1>10, <1>12, ContextIsOne
<1>16. R.Fast \in Int /\ Q.Fast \in Int
  BY <1>2, <1>14 DEF IsRates, Multiplier
<1>17. R.Fast = Q.Fast
  <2> DEFINE i == R.Fast
             j == Q.Fast
             k == t.TierRates["input"]
  <2>1. k * i * MultUnit = k * j * MultUnit
    BY <1>12, <1>13, <1>15
  <2>2. /\ i \in Int /\ j \in Int /\ k \in Int /\ k > 0
        /\ MultUnit \in Int /\ MultUnit > 0
    BY <1>5, <1>16
  <2> HIDE DEF i, j, k
  <2>3. k * i \in Int /\ k * j \in Int
    BY <2>2
  <2>4. k * i = k * j
    BY <2>1, <2>2, <2>3, Cancel
  <2>5. i = j
    BY <2>2, <2>4, Cancel
  <2> QED BY <2>5 DEF i, j
<1> QED BY <1>17

\* So two books that price a key alike have the same tiers, contexts and fast
\* mode for it.
LEMMA SameRates ==
    ASSUME NEW b, NEW h, NEW key, SoundAt(b, key), SoundAt(h, key), SamePriced(b, h, key),
           NEW s
    PROVE  /\ s \in TiersOf(b, key) <=> s \in TiersOf(h, key)
           /\ s \in TiersOf(b, key) =>
                 /\ Contexts(RatesFor(b, key, s)) = Contexts(RatesFor(h, key, s))
                 /\ RatesFor(b, key, s).Fast = RatesFor(h, key, s).Fast
<1>1. SamePriced(h, b, key)
  BY SymPriced
<1>2. s \in TiersOf(b, key) <=> s \in TiersOf(h, key)
  BY <1>1, ContextsKept
<1>3. ASSUME s \in TiersOf(b, key)
      PROVE  Contexts(RatesFor(b, key, s)) = Contexts(RatesFor(h, key, s))
  <2>1. Contexts(RatesFor(b, key, s)) \subseteq Contexts(RatesFor(h, key, s))
    BY <1>3, ContextsKept
  <2>2. Contexts(RatesFor(h, key, s)) \subseteq Contexts(RatesFor(b, key, s))
    BY <1>1, <1>2, <1>3, ContextsKept
  <2> QED BY <2>1, <2>2
<1>4. ASSUME s \in TiersOf(b, key)
      PROVE  RatesFor(b, key, s).Fast = RatesFor(h, key, s).Fast
  BY <1>1, <1>2, <1>4, FastKept
<1> QED BY <1>2, <1>3, <1>4

----------------------------------------------------------------------------
(* What a call is charged.                                                 *)

\* The rates that govern a prompt, read off the contexts.
GovernedBy(X, prompt, t) ==
    \E x \in X : /\ t = x.TierRates
                 /\ x.AbovePromptTokens = 0 \/ x.AbovePromptTokens < prompt
                 /\ \A y \in X : /\ y.AbovePromptTokens # 0
                                 /\ y.AbovePromptTokens < prompt
                                 => /\ x.AbovePromptTokens # 0
                                    /\ y.AbovePromptTokens <= x.AbovePromptTokens

LEMMA GovernsByContext ==
    ASSUME NEW r, IsRates(r), ValidRates(r), NEW prompt \in Int, NEW t
    PROVE  /\ L!Governs(r, prompt, t) <=> GovernedBy(Contexts(r), prompt, t)
           /\ L!Governs(r, prompt, t) => t \in {r.Base} \cup {r.Tiers[i].TierRates : i \in DOMAIN r.Tiers}
<1> DEFINE N(i) == r.Tiers[i].AbovePromptTokens
           D == DOMAIN r.Tiers
           base == [AbovePromptTokens |-> 0, TierRates |-> r.Base]
           X == Contexts(r)
           Low == (\A i \in D : prompt <= N(i)) /\ t = r.Base
           Top(i) == /\ N(i) < prompt
                     /\ \A j \in D : N(j) < prompt => N(j) <= N(i)
                     /\ t = r.Tiers[i].TierRates
           Holds(x) == /\ t = x.TierRates
                       /\ x.AbovePromptTokens = 0 \/ x.AbovePromptTokens < prompt
                       /\ \A y \in X : /\ y.AbovePromptTokens # 0
                                       /\ y.AbovePromptTokens < prompt
                                       => /\ x.AbovePromptTokens # 0
                                          /\ y.AbovePromptTokens <= x.AbovePromptTokens
<1>1. \A i \in D : N(i) \in Int /\ N(i) > 0
  <2>1. Int64 \subseteq Int
    BY DEF Int64
  <2>2. r.Tiers \in Seq(Tier)
    BY DEF IsRates
  <2>3. \A i \in D : r.Tiers[i] \in Tier
    BY <2>2
  <2>4. \A i \in D : N(i) \in Int
    BY <2>1, <2>3 DEF Tier
  <2> QED BY <2>4 DEF ValidRates
<1>2. \A x : x \in X <=> x = base \/ \E i \in D : x = r.Tiers[i]
  BY DEF Contexts
<1>3. base.AbovePromptTokens = 0 /\ base.TierRates = r.Base
  OBVIOUS
<1>4. L!Governs(r, prompt, t) <=> Low \/ \E i \in D : Top(i)
  BY Zenon DEF L!Governs
<1>5. GovernedBy(X, prompt, t) <=> \E x \in X : Holds(x)
  BY DEF GovernedBy
<1> HIDE DEF D, base, X
<1>6. Low <=> Holds(base)
  <2>1. (\A i \in D : prompt <= N(i)) <=> \A i \in D : ~ (N(i) < prompt)
    BY <1>1
  <2>2. (\A y \in X : y.AbovePromptTokens # 0 => ~ (y.AbovePromptTokens < prompt))
           <=> \A i \in D : ~ (N(i) < prompt)
    <3>1. \A i \in D : r.Tiers[i] \in X /\ r.Tiers[i].AbovePromptTokens # 0
      BY <1>1, <1>2
    <3>2. \A y \in X : y.AbovePromptTokens # 0 => \E i \in D : y = r.Tiers[i]
      BY <1>2, <1>3
    <3> QED BY <3>1, <3>2
  <2> HIDE DEF N
  <2> QED BY <1>3, <2>1, <2>2
<1>7. ASSUME NEW i \in D PROVE Top(i) <=> Holds(r.Tiers[i])
  <2>1. N(i) # 0
    BY <1>1
  <2>2. (\A y \in X : y.AbovePromptTokens # 0 /\ y.AbovePromptTokens < prompt =>
                         y.AbovePromptTokens <= N(i))
           <=> \A j \in D : N(j) < prompt => N(j) <= N(i)
    <3>1. \A j \in D : r.Tiers[j] \in X /\ r.Tiers[j].AbovePromptTokens # 0
      BY <1>1, <1>2
    <3>2. \A y \in X : y.AbovePromptTokens # 0 => \E j \in D : y = r.Tiers[j]
      BY <1>2, <1>3
    <3> QED BY <3>1, <3>2
  <2> QED BY <2>1, <2>2
<1> HIDE DEF Low, Top, Holds
<1>8. L!Governs(r, prompt, t) <=> GovernedBy(X, prompt, t)
  BY <1>2, <1>4, <1>5, <1>6, <1>7
<1>9. Low => t = r.Base
  BY DEF Low
<1>10. \A i \in D : Top(i) => t = r.Tiers[i].TierRates
  BY DEF Top
<1> QED BY <1>4, <1>8, <1>9, <1>10 DEF X, D

LEMMA PromptInt ==
    ASSUME NEW u \in Usage
    PROVE  L!Prompt(u) \in Int
BY DEF L!Prompt, Usage, ClaudeUsage, OpenAIUsage, FireworksUsage, Int64

\* Rates with the same contexts and the same fast mode lead to the same reply
\* where no geo or region is priced apart.
LEMMA PricedTheSame ==
    ASSUME NEW r, NEW q, IsRates(r), ValidRates(r), IsRates(q), ValidRates(q),
           Contexts(r) = Contexts(q), r.Fast = q.Fast,
           NEW u \in Usage, ~ Pinned(u), ~ Uplifted(u, r), ~ Uplifted(u, q), NEW a
    PROVE  /\ L!PricedAt(u, r, a) <=> L!PricedAt(u, q, a)
           /\ L!PremiumOk(u, r) <=> L!PremiumOk(u, q)
<1> DEFINE Outcome(total, t) ==
              \/ L!Unpriced(u, t) /\ a = L!Reply("refused", 0)
              \/ /\ ~ L!Unpriced(u, t)
                 /\ \/ /\ a.kind = "ok" /\ a.nls \in 0 .. MaxInt
                       /\ L!Covers(a.nls, total)
                    \/ total > MaxInt * L!Quantum /\ a = L!Reply("panic", 0)
           of(z) == {z.Base} \cup {z.Tiers[i].TierRates : i \in DOMAIN z.Tiers}
<1>1. ~ L!Pinned(u) /\ ~ L!Uplifted(u, r) /\ ~ L!Uplifted(u, q)
  BY DEF L!Pinned, Pinned, L!Uplifted, Uplifted
<1>2. \A c : L!FastFactor(u, r, c) = L!FastFactor(u, q, c)
  BY DEF L!FastFactor
<1>3. L!RegionFactor(u, r) = MultUnit /\ L!RegionFactor(u, q) = MultUnit
  BY <1>1 DEF L!RegionFactor
<1>4. \A t, c : L!Charge(u, r, t, c) = L!Charge(u, q, t, c)
  BY <1>2, <1>3 DEF L!Charge
<1>5. \A t : L!Total(u, r, t) = L!Total(u, q, t)
  BY <1>4 DEF L!Total
<1>6. L!Prompt(u) \in Int
  BY PromptInt
<1>7. \A t : L!Governs(r, L!Prompt(u), t) <=> L!Governs(q, L!Prompt(u), t)
  BY <1>6, GovernsByContext
<1>8. \A t : /\ L!Governs(r, L!Prompt(u), t) => t \in of(r)
             /\ L!Governs(q, L!Prompt(u), t) => t \in of(q)
  BY <1>6, GovernsByContext
<1>9. /\ L!PricedAt(u, r, a) <=> \E t \in of(r) : /\ L!Governs(r, L!Prompt(u), t)
                                                 /\ Outcome(L!Total(u, r, t), t)
      /\ L!PricedAt(u, q, a) <=> \E t \in of(q) : /\ L!Governs(q, L!Prompt(u), t)
                                                 /\ Outcome(L!Total(u, q, t), t)
  BY Zenon DEF L!PricedAt
<1>10. L!PremiumOk(u, r) <=> L!PremiumOk(u, q)
  BY <1>1 DEF L!PremiumOk
<1> HIDE DEF Outcome, of
<1>11. L!PricedAt(u, r, a) <=> L!PricedAt(u, q, a)
  BY <1>5, <1>7, <1>8, <1>9
<1> QED BY <1>10, <1>11

\* What a gated version sells of a published model.
LEMMA ForSaleIsTier ==
    ASSUME NEW v \in Passes, NEW x \in BookOf(v).published, NEW s
    PROVE  /\ L!Meant(BookOf(v), x.id) = x.key
           /\ L!ForSale(BookOf(v), x.key, s) <=> s \in TiersOf(BookOf(v), x.key)
           /\ L!ListPrice(BookOf(v), x.key, s) = RatesFor(BookOf(v), x.key, s)
           /\ TiersOf(BookOf(v), x.id) = TiersOf(BookOf(v), x.key)
           /\ RatesFor(BookOf(v), x.id, s) = RatesFor(BookOf(v), x.key, s)
           /\ SoundAt(BookOf(v), x.key)
<1> DEFINE b == BookOf(v)
<1>1. resolve(b, x.id) = x.key /\ resolve(b, x.key) = x.key
  BY PublishedIds
<1>2. L!Meant(b, x.id) = x.key
  BY <1>1 DEF L!Meant, resolve
<1>3. x.key \in DOMAIN b.overrides => b.overrides[x.key] # Nil
  <2>1. b.overrides = Config(Curation).Overrides
    BY GatedBook
  <2>2. ASSUME x.key \in DOMAIN b.overrides
        PROVE  x.key \in DOMAIN Curation.overrides /\ b.overrides[x.key] = Curation.overrides[x.key].rates
    BY <2>1, <2>2 DEF Config
  <2> QED BY <2>2, DataAssumption DEF IsCuration
<1> HIDE DEF b
<1>4. L!ForSale(b, x.key, s) <=> s \in TiersOf(b, x.key)
  BY <1>1, <1>3 DEF L!ForSale, TiersOf
<1>5. L!ListPrice(b, x.key, s) = RatesFor(b, x.key, s)
  BY <1>1 DEF L!ListPrice, RatesFor
<1>6. TiersOf(b, x.id) = TiersOf(b, x.key) /\ RatesFor(b, x.id, s) = RatesFor(b, x.key, s)
  BY <1>1 DEF TiersOf, RatesFor
<1>7. SoundAt(b, x.key)
  BY GatedRates DEF SoundAt, b
<1> QED BY <1>2, <1>4, <1>5, <1>6, <1>7 DEF b

\* Two versions that price a published model alike charge for it alike.
LEMMA DueTheSame ==
    ASSUME NEW v \in Passes, NEW w \in Passes, NEW x \in BookOf(v).published,
           SamePriced(BookOf(v), BookOf(w), x.key), NEW u \in Usages, NEW a
    PROVE  L!Due(BookOf(v), x.id, u, a) <=> L!Due(BookOf(w), x.id, u, a)
<1> DEFINE b == BookOf(v)
           h == BookOf(w)
           s == L!Named(u)
           r == RatesFor(b, x.key, s)
           q == RatesFor(h, x.key, s)
<1>1. x \in h.published
  BY GatedBook
<1>2. v \in Versions /\ Builds(v) /\ w \in Versions /\ Builds(w)
  BY GatedBook
<1>3. /\ L!Meant(b, x.id) = x.key /\ L!Meant(h, x.id) = x.key
      /\ L!ForSale(b, x.key, s) <=> s \in TiersOf(b, x.key)
      /\ L!ForSale(h, x.key, s) <=> s \in TiersOf(h, x.key)
      /\ L!ListPrice(b, x.key, s) = r /\ L!ListPrice(h, x.key, s) = q
      /\ SoundAt(b, x.key) /\ SoundAt(h, x.key)
  BY <1>1, ForSaleIsTier
<1>4. /\ s \in TiersOf(b, x.key) => ~ Uplifted(u, r)
      /\ s \in TiersOf(h, x.key) => ~ Uplifted(u, q)
  BY <1>1, <1>2, ForSaleIsTier, BaseGeoAssumption
<1>5. u \in Usage /\ ~ Pinned(u)
  BY VersionAssumption, BaseGeoAssumption
<1>6. s \in TiersOf(b, x.key) <=> s \in TiersOf(h, x.key)
  BY <1>3, SameRates
<1>7. ASSUME s \in TiersOf(b, x.key)
      PROVE  /\ L!PricedAt(u, r, a) <=> L!PricedAt(u, q, a)
             /\ L!PremiumOk(u, r) <=> L!PremiumOk(u, q)
  <2>1. IsRates(r) /\ ValidRates(r) /\ IsRates(q) /\ ValidRates(q)
    BY <1>3, <1>6, <1>7 DEF SoundAt
  <2>2. Contexts(r) = Contexts(q) /\ r.Fast = q.Fast
    BY <1>3, <1>7, SameRates
  <2> HIDE DEF r, q
  <2> QED BY <1>4, <1>5, <1>6, <1>7, <2>1, <2>2, PricedTheSame
<1> HIDE DEF b, h, r, q
<1>8. L!Due(b, x.id, u, a) <=>
         \/ ~ L!Countable(u)
         \/ L!Impossible(u) /\ a = L!Reply("panic", 0)
         \/ ~ L!Impossible(u) /\ IF s \in L!ServiceTiers /\ s \in TiersOf(b, x.key) /\ L!PremiumOk(u, r)
                                 THEN L!PricedAt(u, r, a) ELSE a = L!Reply("refused", 0)
  BY <1>3, Zenon DEF L!Due
<1>9. L!Due(h, x.id, u, a) <=>
         \/ ~ L!Countable(u)
         \/ L!Impossible(u) /\ a = L!Reply("panic", 0)
         \/ ~ L!Impossible(u) /\ IF s \in L!ServiceTiers /\ s \in TiersOf(h, x.key) /\ L!PremiumOk(u, q)
                                 THEN L!PricedAt(u, q, a) ELSE a = L!Reply("refused", 0)
  BY <1>3, Zenon DEF L!Due
<1>10. L!Due(b, x.id, u, a) <=> L!Due(h, x.id, u, a)
  <2> HIDE DEF s
  <2>1. CASE s \in TiersOf(b, x.key)
    BY <1>6, <1>7, <1>8, <1>9, <2>1
  <2>2. CASE s \notin TiersOf(b, x.key)
    BY <1>6, <1>8, <1>9, <2>2
  <2> QED BY <2>1, <2>2
<1> QED BY <1>10 DEF b, h

\* Versions between which no published rate moves charge every response of a
\* published model alike.
LEMMA UnmovedIsKept ==
    ASSUME NEW v \in Passes, NEW w \in Passes, Unmoved(v, w)
    PROVE  <<v, w>> \in Kept
<1>1. ASSUME NEW x \in BookOf(v).published, NEW u \in Usages PROVE Due(v, x, u) = Due(w, x, u)
  <2>1. SamePriced(BookOf(v), BookOf(w), x.key)
    BY PricedAlike DEF SamePriced
  <2>2. \A a : L!Due(BookOf(v), x.id, u, a) <=> L!Due(BookOf(w), x.id, u, a)
    BY <2>1, DueTheSame
  <2> QED BY <2>2 DEF Due
<1>2. \A p \in Passes \X Passes :
         (\A x \in BookOf(p[1]).published, u \in Usages : Due(p[1], x, u) = Due(p[2], x, u))
            => p \in Kept
  BY DEF Kept
<1> QED BY <1>1, <1>2

\* The policy merges by itself what moves no published rate.
LEMMA AutoIsUnmoved ==
    ASSUME NEW v \in Passes, NEW w \in Passes, Policy(v, w) = "auto"
    PROVE  Unmoved(v, w)
<1> DEFINE p == <<v, w>>
           d == diff(rates(BookOf(v)), rates(BookOf(w)))
<1>1. v \in Versions /\ Builds(v) /\ w \in Versions /\ Gate(w)
  BY GatedBook DEF Passes
<1>2. p \in Versions \X Versions /\ p[1] = v /\ p[2] = w
  BY <1>1
<1>3. p \notin Blocked /\ p \notin Repriced
  BY DEF Policy
<1>4. Class(p) = class(d)
  BY <1>2 DEF Class
<1> HIDE DEF p, d
<1>5. Class(p) # "published-removed" /\ Class(p) # "published-price-change"
  BY <1>1, <1>2, <1>3 DEF Blocked, Repriced
<1>6. d.removed = {} /\ d.repriced = {}
  BY <1>4, <1>5 DEF class
<1> QED BY <1>6 DEF Unmoved, d

\* A merge that no human approves, while the policy is settled.
LEMMA MergeKeepsCharges ==
    ASSUME SyncInv, [SyncNext]_syncVars, log' # log, settled, log'[Len(log')].by = "auto"
    PROVE  <<main, main'>> \in Kept
<1>1. log \in Seq([data: Versions, by: {"auto", "human"}]) /\ log # <<>>
  BY DEF SyncInv, SyncTypeOK
<1>2. PICK by \in {"auto", "human"} :
         /\ Mergeable /\ log' = Append(log, [data |-> branch.data, by |-> by])
         /\ by = "auto" => pr.auto
  <2>1. AutoMerge \/ HumanMerge
    BY DEF SyncNext, syncVars, UpstreamCommit, Start, Local, Advance, Fetch, Push, Write, OpenPR,
           View, Apply, End, Fail, CI, CIFails
  <2> QED BY <2>1 DEF AutoMerge, HumanMerge, Merge
<1>3. PICK e : e = [data |-> branch.data, by |-> by]
  OBVIOUS
<1>4. log'[Len(log')] = e
  BY <1>1, <1>2, <1>3
<1>5. by = "auto" /\ main' = branch.data
  BY <1>3, <1>4 DEF main
<1>6. main \in Passes
  <2>1. Len(log) \in DOMAIN log
    BY <1>1
  <2> QED BY <2>1 DEF SyncInv, GateInv, main
<1>7. branch.data \in Passes /\ pr # NoPR /\ main \in {branch.base, branch.data}
  BY <1>2 DEF Mergeable, SyncInv, GateInv
<1>8. CASE main = branch.base
  <2>1. Policy(branch.base, branch.data) = "auto"
    BY <1>2, <1>5, <1>7 DEF SyncInv, PolicyInv, PolicyIsApplied
  <2> QED BY <1>5, <1>6, <1>7, <1>8, <2>1, AutoIsUnmoved, UnmovedIsKept
<1>9. CASE main = branch.data
  <2>1. \A w \in Passes : <<w, w>> \in Kept
    BY DEF Kept
  <2> QED BY <1>5, <1>7, <1>9, <2>1
<1> QED BY <1>7, <1>8, <1>9

\* "No published list price moves, so this PR auto-merges": under a settled
\* policy a merge that no human approved changes no charge.
THEOREM ChargesAreKept == SyncSpec => UnattendedKeepsCharges
<1>1. SyncInv /\ [SyncNext]_syncVars =>
         [log' # log /\ settled /\ log'[Len(log')].by = "auto" => <<main, main'>> \in Kept]_log
  BY MergeKeepsCharges
<1> QED BY <1>1, SyncInvariance, PTL DEF SyncSpec, UnattendedKeepsCharges
=============================================================================
