------------------------------ MODULE TagProofs ------------------------------
(***************************************************************************)
(* What holds of the tags for every history of main, every number of       *)
(* overlapping runs of tag.yml and any tags pushed by hand.                *)
(***************************************************************************)
EXTENDS Tag, TLAPS

\* What TypeOK says of a run.
JobState == [pc: {"checkout", "push", "tagged", "refused", "failed"}, version: Nat \X Nat]

\* Versions are totally ordered.
LEMMA Order ==
    ASSUME NEW u \in Nat \X Nat, NEW v \in Nat \X Nat, NEW w \in Nat \X Nat
    PROVE  /\ ~ Older(u, u)
           /\ Older(u, v) /\ Older(v, w) => Older(u, w)
           /\ u = v \/ Older(u, v) \/ Older(v, u)
<1>1. u = <<u[1], u[2]>> /\ u[1] \in Nat /\ u[2] \in Nat
  OBVIOUS
<1>2. v = <<v[1], v[2]>> /\ v[1] \in Nat /\ v[2] \in Nat
  OBVIOUS
<1>3. w[1] \in Nat /\ w[2] \in Nat
  OBVIOUS
<1> QED BY <1>1, <1>2, <1>3 DEF Older

\* latest is the last version, where there is one.
LEMMA LatestIsLast ==
    ASSUME NEW ts, ts # {}, HasLatest(ts)
    PROVE  latest(ts) \in ts /\ \A w \in ts \ {latest(ts)} : Older(w, latest(ts))
<1>1. \E v \in ts : \A w \in ts \ {v} : Older(w, v)
  BY DEF HasLatest
<1> QED BY <1>1, Zenon DEF latest

\* The next patch version is newer than every tag.
LEMMA NextIsNewer ==
    ASSUME NEW ts \in SUBSET (Nat \X Nat), HasLatest(ts)
    PROVE  next(ts) \in Nat \X Nat /\ \A w \in ts : Older(w, next(ts))
<1>1. CASE ts = {}
  BY <1>1 DEF next
<1>2. CASE ts # {}
  <2> DEFINE l == latest(ts)
  <2>1. l \in ts /\ \A w \in ts \ {l} : Older(w, l)
    BY <1>2, LatestIsLast
  <2>2. l \in Nat \X Nat /\ l[1] \in Nat /\ l[2] \in Nat
    BY <2>1
  <2>3. next(ts) = <<l[1], l[2] + 1>>
    BY <1>2 DEF next
  <2>4. next(ts) \in Nat \X Nat /\ Older(l, next(ts))
    BY <2>2, <2>3 DEF Older
  <2> HIDE DEF l
  <2>5. ASSUME NEW w \in ts PROVE Older(w, next(ts))
    BY <2>1, <2>2, <2>4, Order
  <2> QED BY <2>4, <2>5
<1> QED BY <1>1, <1>2

\* So is a new minor version.
LEMMA MinorIsNewer ==
    ASSUME NEW ts \in SUBSET (Nat \X Nat), HasLatest(ts)
    PROVE  /\ <<latest(ts)[1] + 1, 0>> \in Nat \X Nat
           /\ \A w \in ts : Older(w, <<latest(ts)[1] + 1, 0>>)
<1>1. CASE ts = {}
  BY <1>1 DEF latest, NoVersion
<1>2. CASE ts # {}
  <2> DEFINE l == latest(ts)
  <2>1. l \in ts /\ \A w \in ts \ {l} : Older(w, l)
    BY <1>2, LatestIsLast
  <2>2. l \in Nat \X Nat /\ l[1] \in Nat
    BY <2>1
  <2> DEFINE n == <<l[1] + 1, 0>>
  <2>3. n \in Nat \X Nat /\ Older(l, n)
    BY <2>2 DEF Older
  <2> HIDE DEF l, n
  <2>4. ASSUME NEW w \in ts PROVE Older(w, n)
    BY <2>1, <2>2, <2>3, Order
  <2> QED BY <2>3, <2>4 DEF l, n
<1> QED BY <1>1, <1>2

\* With one more tag there is still a last one.
LEMMA LatestOfMore ==
    ASSUME NEW ts \in SUBSET (Nat \X Nat), HasLatest(ts), NEW n \in Nat \X Nat
    PROVE  HasLatest(ts \cup {n})
<1>1. CASE ts = {}
  BY <1>1 DEF HasLatest
<1>2. CASE ts # {}
  <2>1. PICK v \in ts : \A w \in ts \ {v} : Older(w, v)
    BY <1>2 DEF HasLatest
  <2>2. v \in Nat \X Nat
    BY <2>1
  <2>3. CASE Older(v, n)
    <3>1. \A w \in (ts \cup {n}) \ {n} : Older(w, n)
      BY <2>1, <2>2, <2>3, Order
    <3> QED BY <3>1 DEF HasLatest
  <2>4. CASE n = v \/ Older(n, v)
    <3>1. \A w \in (ts \cup {n}) \ {v} : Older(w, v)
      BY <2>1, <2>4
    <3> QED BY <2>1, <3>1 DEF HasLatest
  <2> QED BY <2>2, <2>3, <2>4, Order
<1> QED BY <1>1, <1>2

\* At first there is no tag.
LEMMA Initially ==
    ASSUME Init
    PROVE  Inv
<1>1. head = 1 /\ DOMAIN tags = {} /\ DOMAIN jobs = {} /\ crowded = FALSE
  BY DEF Init, TagInit
<1>2. DOMAIN jobs = 2 .. head
  BY <1>1
<1>3. Active = {}
  BY <1>1 DEF Active
<1>4. TypeOK
  <2>1. head \in Nat \ {0}
    BY <1>1
  <2>4. crowded \in BOOLEAN
    BY <1>1, Zenon
  <2>2. DOMAIN tags \subseteq Nat \X Nat /\ \A v \in DOMAIN tags : tags[v] \in 1 .. head
    BY <1>1
  <2>3. \A k \in DOMAIN jobs : 
         jobs[k] \in [pc: {"checkout", "push", "tagged", "refused", "failed"}, version: Nat \X Nat]
    BY <1>1
  <2> QED BY <1>2, <2>1, <2>2, <2>3, <2>4, Zenon DEF TypeOK
<1> QED BY <1>1, <1>3, <1>4, Zenon DEF Inv, HasLatest, SpacedInv, SpacedMergesAreReleased, EveryMergeIsReleased

\* A push to main.
LEMMA PushKeeps ==
    ASSUME Inv, PushToMain
    PROVE  Inv'
<1> USE DEF Inv
<1>1. head' = head + 1 /\ tags' = tags /\ crowded' = (crowded \/ Active # {})
  BY DEF PushToMain, Trigger
<1>2. /\ DOMAIN jobs' = 2 .. head'
      /\ jobs'[head'] = [pc |-> "checkout", version |-> NoVersion]
      /\ \A k \in DOMAIN jobs : k # head' /\ jobs'[k] = jobs[k]
  BY <1>1 DEF PushToMain, Trigger, TypeOK
<1>3. TypeOK'
  BY <1>1, <1>2 DEF TypeOK, NoVersion
<1>0. ~ crowded' => ~ crowded /\ Active = {}
  BY <1>1, Zenon
<1>4. Active = {} => Active' = {head'}
  <2>1. \A k \in DOMAIN jobs' : k = head' \/ k \in DOMAIN jobs
    BY <1>1, <1>2 DEF TypeOK
  <2>2. head' \in DOMAIN jobs'
    BY <1>1, <1>2 DEF TypeOK
  <2>3. \A k \in DOMAIN jobs : k \in Active' => k \in Active
    BY <1>2 DEF Active
  <2>4. head' \in Active'
    BY <1>2, <2>2 DEF Active
  <2> QED BY <2>1, <2>3, <2>4 DEF Active
<1>5. SpacedInv'
  BY <1>0, <1>2, <1>4 DEF SpacedInv
<1>6. SpacedMergesAreReleased'
  <2>1. Active = {} => \A k \in DOMAIN jobs' \ Active' : k \in DOMAIN jobs \ Active
    BY <1>1, <1>2, <1>4 DEF TypeOK
  <2>3. ASSUME ~ crowded'
        PROVE  /\ \A k \in DOMAIN jobs' \ Active' :
                     jobs'[k].pc = "failed" \/ \E v \in DOMAIN tags' : tags'[v] = k
               /\ \A v, w \in DOMAIN tags' : Older(v, w) => tags'[v] <= tags'[w]
    BY <1>0, <1>1, <1>2, <2>1, <2>3 DEF SpacedMergesAreReleased, EveryMergeIsReleased
  <2> QED BY <2>3 DEF SpacedMergesAreReleased, EveryMergeIsReleased
<1>7. HasLatest(DOMAIN tags)'
  BY <1>1 DEF HasLatest
<1> QED BY <1>3, <1>5, <1>6, <1>7

\* A run reads the tags.
LEMMA CheckoutKeeps ==
    ASSUME Inv, NEW k \in DOMAIN jobs, Checkout(k)
    PROVE  Inv'
<1> USE DEF Inv
<1>1. head' = head /\ tags' = tags /\ crowded' = crowded /\ k \in Active
  BY DEF Checkout, Active
<1>2. next(DOMAIN tags) \in Nat \X Nat
  BY NextIsNewer DEF TypeOK
<1>3. /\ DOMAIN jobs' = DOMAIN jobs
      /\ jobs'[k] = [pc |-> "push", version |-> next(DOMAIN tags)]
      /\ \A x \in DOMAIN jobs \ {k} : jobs'[x] = jobs[x]
  BY DEF Checkout
<1>4. TypeOK'
  <2>1. \A x \in DOMAIN jobs' : jobs'[x] \in JobState
    BY <1>2, <1>3 DEF TypeOK, JobState
  <2> QED BY <1>1, <1>3, <2>1 DEF TypeOK, JobState
<1>5. Active' = Active
  BY <1>1, <1>3 DEF Active
<1>6. SpacedInv'
  BY <1>1, <1>3, <1>5 DEF SpacedInv
<1>7. SpacedMergesAreReleased'
  BY <1>1, <1>3, <1>5 DEF SpacedMergesAreReleased, EveryMergeIsReleased
<1> QED BY <1>1, <1>4, <1>6, <1>7

\* A new tag for the head of main, when no other run is under way, is the
\* newest of all.
LEMMA TagsStayInOrder ==
    ASSUME Inv, NEW n \in Nat \X Nat, \A w \in DOMAIN tags : Older(w, n),
           tags' = With(n, head), head' = head
    PROVE  \A v, w \in DOMAIN tags' :
              (\A x, y \in DOMAIN tags : Older(x, y) => tags[x] <= tags[y])
                => (Older(v, w) => tags'[v] <= tags'[w])
<1>1. n \notin DOMAIN tags
  BY Order
<1>2. DOMAIN tags' = DOMAIN tags \cup {n} /\ tags'[n] = head
      /\ \A w \in DOMAIN tags : tags'[w] = tags[w]
  BY <1>1 DEF With
<1>3. \A w \in DOMAIN tags : tags[w] <= head /\ tags[w] \in Nat /\ w \in Nat \X Nat
  BY DEF Inv, TypeOK
<1>4. \A w \in DOMAIN tags : ~ Older(n, w)
  BY <1>3, Order
<1>5. ~ Older(n, n) /\ head \in Nat
  BY Order DEF Inv, TypeOK
<1> QED BY <1>2, <1>3, <1>4, <1>5

\* A run pushes its tag, or is refused.
LEMMA PushTagKeeps ==
    ASSUME Inv, NEW k \in DOMAIN jobs, PushTag(k)
    PROVE  Inv'
<1> USE DEF Inv
<1> DEFINE n == jobs[k].version
<1>1. head' = head /\ crowded' = crowded /\ k \in Active /\ jobs[k].pc = "push"
  BY DEF PushTag, Active
<1>2. n \in Nat \X Nat /\ k \in 2 .. head /\ head \in Nat
  BY DEF TypeOK
<1>3. /\ DOMAIN jobs' = DOMAIN jobs /\ jobs'[k].version = n
      /\ jobs'[k] \in [pc: {"tagged", "refused"}, version: Nat \X Nat]
      /\ \A x \in DOMAIN jobs \ {k} : jobs'[x] = jobs[x]
  BY <1>2 DEF PushTag, TypeOK
<1>4. Active' = Active \ {k}
  BY <1>1, <1>3 DEF Active
<1>5. CASE n \in DOMAIN tags
  <2>1. tags' = tags
    BY <1>5 DEF PushTag
  <2>2. crowded
    BY <1>1, <1>5, <1>2, NextIsNewer, Order DEF SpacedInv, TypeOK
  <2>3. TypeOK'
    BY <1>1, <1>3, <2>1 DEF TypeOK
  <2> QED BY <1>1, <2>1, <2>2, <2>3 DEF SpacedInv, SpacedMergesAreReleased, EveryMergeIsReleased
<1>6. CASE n \notin DOMAIN tags
  <2>1. /\ tags' = With(n, k)
        /\ DOMAIN tags' = DOMAIN tags \cup {n} /\ tags'[n] = k
        /\ \A w \in DOMAIN tags : tags'[w] = tags[w]
    BY <1>6 DEF PushTag, With
  <2>2. TypeOK'
    <3>1. \A x \in DOMAIN jobs' : jobs'[x] \in JobState
      BY <1>3 DEF TypeOK, JobState
    <3>2. \A w \in DOMAIN tags' : w \in Nat \X Nat /\ tags'[w] \in 1 .. head
      BY <1>2, <2>1 DEF TypeOK
    <3> QED BY <1>1, <1>3, <3>1, <3>2 DEF TypeOK, JobState
  <2>3. HasLatest(DOMAIN tags')
    <3>1. DOMAIN tags \in SUBSET (Nat \X Nat) /\ HasLatest(DOMAIN tags)
      BY DEF TypeOK
    <3> HIDE DEF n
    <3> QED BY <1>2, <2>1, <3>1, LatestOfMore
  <2>4. ~ crowded' => k = head /\ n = next(DOMAIN tags) /\ Active' = {}
    BY <1>1, <1>4 DEF SpacedInv
  <2>5. SpacedInv'
    BY <2>4 DEF SpacedInv
  <2>6. ASSUME ~ crowded' PROVE \A v, w \in DOMAIN tags' : Older(v, w) => tags'[v] <= tags'[w]
    <3>1. \A w \in DOMAIN tags : Older(w, n)
      BY <2>4, <2>6, NextIsNewer DEF TypeOK
    <3>2. tags' = With(n, head)
      BY <2>1, <2>4, <2>6
    <3>3. \A x, y \in DOMAIN tags : Older(x, y) => tags[x] <= tags[y]
      BY <1>1, <2>6 DEF SpacedMergesAreReleased, EveryMergeIsReleased
    <3> HIDE DEF n
    <3> QED BY <1>1, <1>2, <3>1, <3>2, <3>3, TagsStayInOrder
  <2>7. ASSUME ~ crowded', NEW x \in DOMAIN jobs'
        PROVE  jobs'[x].pc = "failed" \/ \E v \in DOMAIN tags' : tags'[v] = x
    BY <1>1, <1>3, <1>4, <2>1, <2>4, <2>7 DEF SpacedMergesAreReleased, EveryMergeIsReleased
  <2>8. SpacedMergesAreReleased'
    BY <2>6, <2>7 DEF SpacedMergesAreReleased, EveryMergeIsReleased
  <2> QED BY <2>2, <2>3, <2>5, <2>8
<1> QED BY <1>5, <1>6

\* A run is lost.
LEMMA LoseKeeps ==
    ASSUME Inv, NEW k \in DOMAIN jobs, Lose(k)
    PROVE  Inv'
<1> USE DEF Inv
<1>1. head' = head /\ tags' = tags /\ crowded' = crowded /\ k \in Active
  BY DEF Lose
<1>2. /\ DOMAIN jobs' = DOMAIN jobs /\ jobs'[k].pc = "failed"
      /\ jobs'[k] \in [pc: {"failed"}, version: Nat \X Nat]
      /\ \A x \in DOMAIN jobs \ {k} : jobs'[x] = jobs[x]
  BY DEF Lose, TypeOK
<1>3. Active' = Active \ {k}
  BY <1>1, <1>2 DEF Active
<1>4. TypeOK'
  BY <1>1, <1>2 DEF TypeOK
<1>5. SpacedInv'
  BY <1>1, <1>2, <1>3 DEF SpacedInv
<1>6. SpacedMergesAreReleased'
  BY <1>1, <1>2, <1>3 DEF SpacedMergesAreReleased, EveryMergeIsReleased
<1> QED BY <1>1, <1>4, <1>5, <1>6

\* A tag is pushed by hand.
LEMMA TagByHandKeeps ==
    ASSUME Inv, TagByHand
    PROVE  Inv'
<1> USE DEF Inv
<1> DEFINE n == <<latest(DOMAIN tags)[1] + 1, 0>>
<1>1. head' = head /\ jobs' = jobs /\ crowded' = (crowded \/ Active # {}) /\ tags' = With(n, head)
  BY DEF TagByHand
<1>2. n \in Nat \X Nat /\ \A w \in DOMAIN tags : Older(w, n)
  BY MinorIsNewer DEF TypeOK
<1> HIDE DEF n
<1>3. n \notin DOMAIN tags
  BY <1>2, Order
<1>4. /\ DOMAIN tags' = DOMAIN tags \cup {n} /\ tags'[n] = head
      /\ \A w \in DOMAIN tags : tags'[w] = tags[w]
  BY <1>1, <1>3 DEF With
<1>5. TypeOK'
  BY <1>1, <1>2, <1>4 DEF TypeOK
<1>6. HasLatest(DOMAIN tags')
  BY <1>2, <1>4, LatestOfMore DEF TypeOK
<1>7. Active' = Active /\ (~ crowded' => ~ crowded /\ Active = {})
  BY <1>1 DEF Active
<1>8. SpacedInv'
  BY <1>7 DEF SpacedInv
<1>9. SpacedMergesAreReleased'
  BY <1>1, <1>2, <1>4, <1>7, TagsStayInOrder DEF SpacedMergesAreReleased, EveryMergeIsReleased
<1> QED BY <1>5, <1>6, <1>8, <1>9

LEMMA Invariance == Spec => []Inv
<1>1. Init => Inv
  BY Initially
<1>2. Inv /\ [Next]_vars => Inv'
  <2> SUFFICES ASSUME Inv, [Next]_vars PROVE Inv'
    OBVIOUS
  <2>1. CASE PushToMain
    BY <2>1, PushKeeps
  <2>2. CASE \E k \in DOMAIN jobs : Job(k)
    BY <2>2, CheckoutKeeps, PushTagKeeps, LoseKeeps DEF Job
  <2>3. CASE TagByHand
    BY <2>3, TagByHandKeeps
  <2>4. CASE UNCHANGED vars
    BY <2>4 DEF Inv, TypeOK, HasLatest, SpacedInv, SpacedMergesAreReleased, EveryMergeIsReleased, Active, next,
                latest, vars
  <2> QED BY <2>1, <2>2, <2>3, <2>4 DEF Next
<1> QED BY <1>1, <1>2, PTL DEF Spec

\* Runs and tags belong to commits of main.
THEOREM TypeCorrect == Spec => []TypeOK
<1>1. Inv => TypeOK
  BY DEF Inv
<1> QED BY <1>1, Invariance, PTL

\* No tag ever moves or is lost, however many runs of tag.yml overlap.
THEOREM ReleasesStay == Spec => ReleasedStays
<1>1. Inv /\ [Next]_vars =>
        [\A v \in DOMAIN tags : v \in DOMAIN tags' /\ tags'[v] = tags[v]]_tags
  <2> SUFFICES ASSUME Inv, Next, tags' # tags
               PROVE  \A v \in DOMAIN tags : v \in DOMAIN tags' /\ tags'[v] = tags[v]
    BY DEF vars
  <2>1. CASE \E k \in DOMAIN jobs : PushTag(k)
    BY <2>1 DEF PushTag, With
  <2>2. CASE TagByHand
    <3> DEFINE n == <<latest(DOMAIN tags)[1] + 1, 0>>
    <3>1. \A w \in DOMAIN tags : Older(w, n) /\ w \in Nat \X Nat
      BY MinorIsNewer DEF Inv, TypeOK
    <3>2. n \notin DOMAIN tags
      BY <3>1, Order
    <3>3. tags' = With(n, head)
      BY <2>2 DEF TagByHand
    <3> HIDE DEF n
    <3> QED BY <3>2, <3>3 DEF With
  <2> QED BY <2>1, <2>2 DEF Next, Job, Checkout, Lose, PushToMain, Trigger
<1> QED BY <1>1, Invariance, PTL DEF Spec, ReleasedStays

\* Without overlap the tag of no merge is refused, and no newer version has
\* older data.
THEOREM MergesAreReleased == Spec => []SpacedMergesAreReleased
<1>1. Inv => SpacedMergesAreReleased
  BY DEF Inv
<1> QED BY <1>1, Invariance, PTL
=============================================================================
