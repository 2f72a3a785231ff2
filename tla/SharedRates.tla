---------------------------- MODULE SharedRates -----------------------------
(***************************************************************************)
(* The memory behind a Table.  A Rates value is references: to a cell for  *)
(* each of its big.Rat, which any method of big.Rat may write, and to the  *)
(* boxes that hold more of them (the array of Tiers, the maps Geo and      *)
(* RegionalUplift).  Goroutines price from one table, write whatever they  *)
(* like to the Rates they are given, and so does whoever declared the      *)
(* overrides.  A cell is named by the clone it was allocated for and its   *)
(* place in there, so a clone's cells are new.                             *)
(***************************************************************************)
EXTENDS Integers, Sequences

CONSTANTS Nil,          \* the nil pointer
          Fields,       \* the *big.Rat fields: Base.Input ... Fast
          Boxes,        \* Tiers, Geo, RegionalUplift
          Entries,      \* models at a service tier
          Snapshot,     \* the Rates Parse made of them
          Overrides,    \* the Rates a caller declared for some of them
          Cells, Contents,   \* what all these refer to: [address -> number], [address -> [key -> address]]
          Goroutines,
          Requests,     \* [entry, embedded, parts: <<[at, tokens], ...>>, mult]
          Numbers       \* what callers write

\* A reference is nil or goes to a cell or a box of an owner.
IsRef(r, addresses, owners) == r = Nil \/ (r \in addresses /\ r[1] \in owners)
IsRates(R, cells, boxes, owners) == /\ \A f \in Fields : IsRef(R.rat[f], cells, owners)
                                    /\ \A b \in Boxes : IsRef(R.box[b], boxes, owners)

\* What a request prices from, and that a place of it, <<field, "">> or
\* <<box, key>>, has a rate.
Source(e, embedded) == IF ~ embedded /\ e \in DOMAIN Overrides THEN Overrides[e] ELSE Snapshot[e]
IsPriced(R, at) ==
    \/ at[2] = "" /\ at[1] \in Fields /\ R.rat[at[1]] # Nil
    \/ /\ at[2] # "" /\ at[1] \in Boxes /\ R.box[at[1]] # Nil
       /\ at[2] \in DOMAIN Contents[R.box[at[1]]] /\ Contents[R.box[at[1]]][at[2]] # Nil

\* The snapshot and the overrides refer to their own cells, within a snapshot
\* also to one another's: a context tier shares the base rates it keeps, an
\* Azure entry those of its OpenAI twin.
ASSUME MemoryAssumption ==
    /\ "snapshot" \notin Entries \cup Goroutines /\ "config" \notin Entries \cup Goroutines
    /\ Entries \cap Goroutines = {} /\ Fields \cap Boxes = {}
    /\ DOMAIN Snapshot = Entries /\ DOMAIN Overrides \subseteq Entries
    /\ \A e \in Entries : IsRates(Snapshot[e], DOMAIN Cells, DOMAIN Contents, {"snapshot"})
    /\ \A e \in DOMAIN Overrides : IsRates(Overrides[e], DOMAIN Cells, DOMAIN Contents, {"config"})
    /\ \A a \in DOMAIN Contents : \A k \in DOMAIN Contents[a] :
          IsRef(Contents[a][k], DOMAIN Cells, {a[1]})

\* A cell is at a field or in a box, and a sum at neither; no address is nil.
ASSUME AddressAssumption ==
    /\ \A a \in DOMAIN Cells \cup DOMAIN Contents :
          a[1] \in {"snapshot", "config"} /\ a[2] \in Fields \cup Boxes
    /\ \A x \in Fields \cup Boxes : x # "usd" /\ x # "total"
    /\ \A o \in Entries \cup Goroutines, x \in Fields \cup Boxes :
          /\ Nil # <<o, x, "">>
          /\ \A a \in DOMAIN Contents : \A k \in DOMAIN Contents[a] : Nil # <<o, x, k>>

\* A part without a rate is refused before it is multiplied.
ASSUME RequestAssumption ==
    \A q \in Requests :
       /\ q.entry \in Entries /\ q.parts \in Seq({q.parts[i] : i \in DOMAIN q.parts})
       /\ \A i \in DOMAIN q.parts : IsPriced(Source(q.entry, q.embedded), q.parts[i].at)
       /\ q.mult # <<>> => IsPriced(Source(q.entry, q.embedded), q.mult)

VARIABLES rat,       \* the numbers in the cells
          box,       \* the references in the boxes
          table,     \* the Rates of each entry, after NewFrom
          pc,        \* of each goroutine; "new" for all before NewFrom
          held,      \* the Rates it was given, or prices from
          job,       \* the request it prices, and the parts still to sum
          answers    \* the answers so far

vars == <<rat, box, table, pc, held, job, answers>>

NoRates == [rat |-> [f \in Fields |-> Nil], box |-> [b \in Boxes |-> Nil]]
NoJob == [request |-> Nil, todo |-> <<>>]

Init == /\ rat = Cells /\ box = Contents /\ table = Snapshot
        /\ pc = [g \in Goroutines |-> "new"]
        /\ held = [g \in Goroutines |-> NoRates]
        /\ job = [g \in Goroutines |-> NoJob]
        /\ answers = {}

----------------------------------------------------------------------------
(* clone.                                                                  *)

\* Faulty variants: a rat, and a map, that the copy shares.
cpRatShared(r, a) == r
cloneBoxShared(r, a) == r

\* cpRat, and clone's slices.Clone and cloneRatMap: the new cell, or the new box, in place of r.
cpRat(r, a) == IF r = Nil THEN Nil ELSE a
cloneBox(r, a) == IF r = Nil THEN Nil ELSE a

clone(R, o) == [rat |-> [f \in Fields |-> cpRat(R.rat[f], <<o, f, "">>)],
                box |-> [b \in Boxes |-> cloneBox(R.box[b], <<o, b, "">>)]]

\* The boxes and the cells a clone of R for o allocates.
Keys(R, b) == IF R.box[b] = Nil THEN {} ELSE DOMAIN box[R.box[b]]
NewBoxes(R, o) ==
    [a \in {<<o, b, "">> : b \in {b \in Boxes : R.box[b] # Nil}} |->
       [k \in Keys(R, a[2]) |-> cpRat(box[R.box[a[2]]][k], <<o, a[2], k>>)]]

\* What a rat of the clone is copied from; the cells for those that are not nil.
RefAt(R, a) == IF a[2] \in Fields THEN R.rat[a[2]] ELSE box[R.box[a[2]]][a[3]]
Allocated(R, o) ==
    {a \in {<<o, f, "">> : f \in Fields} \cup UNION {{<<o, b, k>> : k \in Keys(R, b)} : b \in Boxes} :
       RefAt(R, a) # Nil}
NewRats(R, o) == [a \in Allocated(R, o) |-> rat[RefAt(R, a)]]
Over(f, h) == [a \in DOMAIN f \cup DOMAIN h |-> IF a \in DOMAIN h THEN h[a] ELSE f[a]]

\* What the collector leaves of the memory when g is done with its own.
Collected(f, g) == [a \in {a \in DOMAIN f : a[1] # g} |-> f[a]]

----------------------------------------------------------------------------
(* NewFrom, and what a program does with the table.                        *)

NewFrom ==
    /\ \A g \in Goroutines : pc[g] = "new"
    /\ table' = [e \in Entries |-> IF e \in DOMAIN Overrides THEN clone(Overrides[e], e)
                                   ELSE Snapshot[e]]
    /\ rat' = [a \in DOMAIN rat \cup UNION {DOMAIN NewRats(Overrides[e], e) : e \in DOMAIN Overrides} |->
                 IF a \in DOMAIN rat THEN rat[a] ELSE NewRats(Overrides[a[1]], a[1])[a]]
    /\ box' = [a \in DOMAIN box \cup UNION {DOMAIN NewBoxes(Overrides[e], e) : e \in DOMAIN Overrides} |->
                 IF a \in DOMAIN box THEN box[a] ELSE NewBoxes(Overrides[a[1]], a[1])[a]]
    /\ pc' = [g \in Goroutines |-> "idle"]
    /\ UNCHANGED <<held, job, answers>>

\* RatesFor: the goroutine holds a clone.
RatesFor(g, e) ==
    /\ pc[g] = "idle"
    /\ held' = [held EXCEPT ![g] = clone(table[e], g)]
    /\ rat' = Over(rat, NewRats(table[e], g)) /\ box' = Over(box, NewBoxes(table[e], g))
    /\ pc' = [pc EXCEPT ![g] = "holding"]
    /\ UNCHANGED <<table, job, answers>>

\* The boxes a Rates value refers to, and the cells, through them too.
BoxesOf(R) == {R.box[b] : b \in Boxes} \ {Nil}
RatsOf(R) == ({R.rat[f] : f \in Fields}
                \cup UNION {{box[a][k] : k \in DOMAIN box[a]} : a \in BoxesOf(R)}) \ {Nil}

\* The caller writes to a rat, or to a tier or a map, of what it holds or
\* what it declared.
Scribble(R) ==
    \/ \E a \in RatsOf(R), n \in Numbers : rat' = [rat EXCEPT ![a] = n] /\ UNCHANGED box
    \/ \E a \in BoxesOf(R) : \E k \in DOMAIN box[a] :
          box' = [box EXCEPT ![a][k] = Nil] /\ UNCHANGED rat
Write(g) == /\ pc[g] = "holding"
            /\ Scribble(held[g])
            /\ UNCHANGED <<table, pc, held, job, answers>>
WriteConfig(e) == /\ \A g \in Goroutines : pc[g] # "new"
                  /\ Scribble(Overrides[e])
                  /\ UNCHANGED <<table, pc, held, job, answers>>
Drop(g) == /\ pc[g] = "holding"
           /\ pc' = [pc EXCEPT ![g] = "idle"]
           /\ held' = [held EXCEPT ![g] = NoRates]
           /\ rat' = Collected(rat, g) /\ box' = Collected(box, g)
           /\ UNCHANGED <<table, job, answers>>

----------------------------------------------------------------------------
(* Cost: over a clone for a Table, over the snapshot's own rates for the   *)
(* package (q.embedded).                                                   *)

usd(g) == <<g, "usd", "">>
total(g) == <<g, "total", "">>
Set(f, a, n) == Over(f, [x \in {a} |-> n])

Cost(g, q) ==
    /\ pc[g] = "idle"
    /\ LET R == IF q.embedded THEN Snapshot[q.entry] ELSE table[q.entry]
       IN IF q.embedded
          THEN held' = [held EXCEPT ![g] = R] /\ rat' = Set(rat, total(g), 0) /\ box' = box
          ELSE /\ held' = [held EXCEPT ![g] = clone(R, g)]
               /\ rat' = Set(Over(rat, NewRats(R, g)), total(g), 0)
               /\ box' = Over(box, NewBoxes(R, g))
    /\ job' = [job EXCEPT ![g] = [request |-> q, todo |-> q.parts]]
    /\ pc' = [pc EXCEPT ![g] = "rate"]
    /\ UNCHANGED <<table, answers>>

\* The cell of a place in the held Rates.
At(g, at) == IF at[2] = "" THEN held[g].rat[at[1]] ELSE box[held[g].box[at[1]]][at[2]]

\* Faulty variant: Mul's receiver is the rate.
MulInto(g) == At(g, Head(job[g].todo).at)

\* The receiver of the first Mul: a new rat.
Receiver(g) == usd(g)

\* usd = rate * tokens ...
Rate(g) ==
    /\ pc[g] = "rate" /\ job[g].todo # <<>>
    /\ LET part == Head(job[g].todo)
           n == rat[At(g, part.at)] * part.tokens
       IN rat' = Set(Set(rat, Receiver(g), n), usd(g), n)
    /\ pc' = [pc EXCEPT ![g] = "scale"]
    /\ UNCHANGED <<box, table, held, job, answers>>

\* ... times the multiplier, if there is one, and added to the total.
Scale(g) ==
    /\ pc[g] = "scale"
    /\ LET mult == job[g].request.mult
           n == IF mult = <<>> THEN rat[usd(g)] ELSE rat[usd(g)] * rat[At(g, mult)]
       IN rat' = Set(Set(rat, usd(g), n), total(g), rat[total(g)] + n)
    /\ job' = [job EXCEPT ![g].todo = Tail(@)]
    /\ pc' = [pc EXCEPT ![g] = "rate"]
    /\ UNCHANGED <<box, table, held, answers>>

\* The total is the answer: ceilNls scales it in its cell (usd.Mul(usd, ...)),
\* which is the call's own and goes with the call, and rounds it out of there.
Return(g) ==
    /\ pc[g] = "rate" /\ job[g].todo = <<>>
    /\ answers' = answers \cup {<<job[g].request, rat[total(g)]>>}
    /\ pc' = [pc EXCEPT ![g] = "idle"]
    /\ held' = [held EXCEPT ![g] = NoRates]
    /\ job' = [job EXCEPT ![g] = NoJob]
    /\ rat' = Collected(rat, g) /\ box' = Collected(box, g)
    /\ UNCHANGED table

Next == \/ NewFrom
        \/ \E e \in DOMAIN Overrides : WriteConfig(e)
        \/ \E g \in Goroutines :
              \/ \E e \in Entries : RatesFor(g, e)
              \/ Write(g) \/ Drop(g)
              \/ \E q \in Requests : Cost(g, q)
              \/ Rate(g) \/ Scale(g) \/ Return(g)

Spec == Init /\ [][Next]_vars

----------------------------------------------------------------------------
(* Properties.                                                             *)

TableOwners == {"snapshot"} \cup Entries

\* "The returned rats are copies" (table.go:234), "it is immutable after
\* construction" (table.go:41): once NewFrom has returned, no step of any
\* goroutine writes to a rat, a tier or a map that the table refers to.
TableNeverWritten ==
    [][(\A g \in Goroutines : pc[g] # "new") =>
          \A e \in Entries : /\ \A a \in RatsOf(table[e]) : rat'[a] = rat[a]
                             /\ \A a \in BoxesOf(table[e]) : box'[a] = box[a]]_vars

\* The same request has the same answer, whoever else prices, writes or is
\* half way through, for the configured table and the embedded one.
AnswersAgree == \A x, y \in answers : x[1] = y[1] => x[2] = y[2]

----------------------------------------------------------------------------
(* The inductive invariant the proofs rest on.                             *)

\* What the table refers to is its own or the snapshot's, what a goroutine
\* may write to is its own, and a box holds cells of its owner.
Refers(R, owners) == IsRates(R, DOMAIN rat, DOMAIN box, owners)
OwnInv ==
    /\ pc \in [Goroutines -> {"new", "idle", "holding", "rate", "scale"}]
    /\ held = [g \in Goroutines |-> held[g]]
    /\ \A a \in DOMAIN box : \A k \in DOMAIN box[a] : IsRef(box[a][k], DOMAIN rat, {a[1]})
    /\ \A e \in Entries : Refers(table[e], TableOwners) /\ Refers(Snapshot[e], {"snapshot"})
    /\ \A e \in DOMAIN Overrides : Refers(Overrides[e], {"config"})
    /\ \A g \in Goroutines : /\ Refers(held[g], {g, "snapshot"})
                             /\ pc[g] = "holding" => Refers(held[g], {g})
=============================================================================
