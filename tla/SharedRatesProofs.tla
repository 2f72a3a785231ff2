------------------------- MODULE SharedRatesProofs --------------------------
(***************************************************************************)
(* The table is immutable, and a request has one answer, for every shape   *)
(* of the rates, every number of goroutines and whatever they write.       *)
(***************************************************************************)
EXTENDS SharedRates, SequenceTheorems, WellFoundedInduction, TLAPS

\* The memory of these owners is still there.
Stays(owners) == /\ \A a \in DOMAIN rat : a[1] \in owners => a \in DOMAIN rat'
                 /\ \A a \in DOMAIN box : a[1] \in owners => a \in DOMAIN box'
\* So are the numbers and the references in it.
Untouched(owners) ==
    /\ Stays(owners)
    /\ \A a \in DOMAIN rat : a[1] \in owners => rat'[a] = rat[a]
    /\ \A a \in DOMAIN box : a[1] \in owners => box'[a] = box[a]
BoxesSound == \A a \in DOMAIN box : \A k \in DOMAIN box[a] :
                 IsRef(box[a][k], DOMAIN rat, {a[1]})

\* References stay good as long as what they go to does.
LEMMA StillRefers ==
    ASSUME NEW R, NEW owners, Refers(R, owners), Stays(owners)
    PROVE  Refers(R, owners)'
BY DEF Refers, IsRates, IsRef, Stays

LEMMA RefersMore ==
    ASSUME NEW R, NEW cells, NEW boxes, NEW owners, NEW more, owners \subseteq more,
           IsRates(R, cells, boxes, owners)
    PROVE  IsRates(R, cells, boxes, more)
BY DEF IsRates, IsRef

\* Everything a Rates value reaches is there, and belongs to its owners.
LEMMA Reaches ==
    ASSUME NEW R, NEW owners, Refers(R, owners), BoxesSound
    PROVE  /\ \A a \in BoxesOf(R) : a \in DOMAIN box /\ a[1] \in owners
           /\ \A a \in RatsOf(R) : a \in DOMAIN rat /\ a[1] \in owners
<1>1. \A a \in BoxesOf(R) : a \in DOMAIN box /\ a[1] \in owners
  BY DEF BoxesOf, Refers, IsRates, IsRef
<1>2. ASSUME NEW a \in RatsOf(R) PROVE a \in DOMAIN rat /\ a[1] \in owners
  <2>1. CASE \E f \in Fields : a = R.rat[f]
    BY <2>1 DEF RatsOf, Refers, IsRates, IsRef
  <2>2. CASE \E b \in BoxesOf(R) : \E k \in DOMAIN box[b] : a = box[b][k]
    <3>1. PICK b \in BoxesOf(R) : \E k \in DOMAIN box[b] : a = box[b][k]
      BY <2>2
    <3>2. b \in DOMAIN box /\ b[1] \in owners /\ IsRef(a, DOMAIN rat, {b[1]})
      BY <1>1, <3>1 DEF BoxesSound
    <3>3. a # Nil
      BY DEF RatsOf
    <3> QED BY <3>2, <3>3 DEF IsRef
  <2> QED BY <2>1, <2>2 DEF RatsOf
<1> QED BY <1>1, <1>2

\* Nothing the table reaches is written while its owners' memory is not.
LEMMA TableUntouched ==
    ASSUME OwnInv, Untouched(TableOwners)
    PROVE  \A e \in Entries : /\ \A a \in RatsOf(table[e]) : rat'[a] = rat[a]
                              /\ \A a \in BoxesOf(table[e]) : box'[a] = box[a]
<1> TAKE e \in Entries
<1>1. Refers(table[e], TableOwners) /\ BoxesSound
  BY DEF OwnInv, BoxesSound
<1> QED BY <1>1, Reaches DEF Untouched

\* Nobody but the table's owners is one of them.
LEMMA Strangers ==
    /\ "config" \notin TableOwners
    /\ \A g \in Goroutines : g \notin TableOwners /\ g # "config" /\ g # "snapshot"
BY MemoryAssumption DEF TableOwners

----------------------------------------------------------------------------
(* Clones.                                                                 *)

\* The cells and the boxes of a clone: each its owner's, one for each that
\* is not nil.
LEMMA CloneCells ==
    ASSUME NEW R, NEW o
    PROVE  /\ DOMAIN NewRats(R, o) = Allocated(R, o)
           /\ \A a \in Allocated(R, o) : a[1] = o
           /\ \A f \in Fields : R.rat[f] # Nil => <<o, f, "">> \in Allocated(R, o)
           /\ \A b \in Boxes : \A k \in Keys(R, b) :
                 box[R.box[b]][k] # Nil => <<o, b, k>> \in Allocated(R, o)
<1>1. DOMAIN NewRats(R, o) = Allocated(R, o)
  BY DEF NewRats
<1>2. ASSUME NEW a \in Allocated(R, o) PROVE a[1] = o
  <2>1. a \in {<<o, f, "">> : f \in Fields} \/ \E b \in Boxes : a \in {<<o, b, k>> : k \in Keys(R, b)}
    BY Zenon DEF Allocated
  <2>2. (\E f \in Fields : a = <<o, f, "">>) \/ \E b \in Boxes : \E k \in Keys(R, b) : a = <<o, b, k>>
    BY <2>1, Zenon
  <2>3. CASE \E f \in Fields : a = <<o, f, "">>
    <3>1. PICK f \in Fields : a = <<o, f, "">>
      BY <2>3
    <3> QED BY <3>1
  <2>4. CASE \E b \in Boxes : \E k \in Keys(R, b) : a = <<o, b, k>>
    BY <2>4
  <2> QED BY <2>2, <2>3, <2>4
<1>3. ASSUME NEW f \in Fields, R.rat[f] # Nil PROVE <<o, f, "">> \in Allocated(R, o)
  <2>1. <<o, f, "">>[2] = f
    OBVIOUS
  <2>2. RefAt(R, <<o, f, "">>) # Nil
    BY <1>3, <2>1, Zenon DEF RefAt
  <2> QED BY <2>2, Zenon DEF Allocated
<1>4. ASSUME NEW b \in Boxes, NEW k \in Keys(R, b), box[R.box[b]][k] # Nil
      PROVE  <<o, b, k>> \in Allocated(R, o)
  <2>1. <<o, b, k>>[2] = b /\ <<o, b, k>>[3] = k /\ b \notin Fields
    BY MemoryAssumption
  <2>2. RefAt(R, <<o, b, k>>) # Nil
    BY <1>4, <2>1, Zenon DEF RefAt
  <2>3. <<o, b, k>> \in UNION {{<<o, c, x>> : x \in Keys(R, c)} : c \in Boxes}
    <3>1. <<o, b, k>> \in {<<o, b, x>> : x \in Keys(R, b)}
      BY Zenon
    <3>2. {<<o, b, x>> : x \in Keys(R, b)} \in {{<<o, c, x>> : x \in Keys(R, c)} : c \in Boxes}
      BY Zenon
    <3> QED BY <3>1, <3>2, Zenon
  <2> QED BY <2>2, <2>3, Zenon DEF Allocated
<1> QED BY <1>1, <1>2, <1>3, <1>4, Zenon

LEMMA CloneBoxDomain ==
    ASSUME NEW R, NEW o
    PROVE  /\ \A a \in DOMAIN NewBoxes(R, o) : \E b \in Boxes : a = <<o, b, "">> /\ R.box[b] # Nil
           /\ \A b \in Boxes : R.box[b] # Nil => <<o, b, "">> \in DOMAIN NewBoxes(R, o)
<1> DEFINE D == {<<o, b, "">> : b \in {b \in Boxes : R.box[b] # Nil}}
<1>1. DOMAIN NewBoxes(R, o) = D
  BY DEF NewBoxes
<1>2. \A a \in D : \E b \in Boxes : a = <<o, b, "">> /\ R.box[b] # Nil
  BY Zenon
<1>3. \A b \in Boxes : R.box[b] # Nil => <<o, b, "">> \in D
  BY Zenon
<1> HIDE DEF D
<1> QED BY <1>1, <1>2, <1>3, Zenon

\* A clone refers to the memory allocated for it.
LEMMA CloneRefers ==
    ASSUME NEW R, NEW o, Allocated(R, o) \subseteq DOMAIN rat',
           DOMAIN NewBoxes(R, o) \subseteq DOMAIN box'
    PROVE  Refers(clone(R, o), {o})'
<1> DEFINE C == clone(R, o)
<1>1. ASSUME NEW f \in Fields PROVE IsRef(C.rat[f], DOMAIN rat', {o})
  <2>1. C.rat[f] = cpRat(R.rat[f], <<o, f, "">>)
    BY DEF clone
  <2>2. R.rat[f] # Nil => <<o, f, "">> \in Allocated(R, o)
    BY CloneCells
  <2>3. <<o, f, "">>[1] = o
    OBVIOUS
  <2> QED BY <2>1, <2>2, <2>3, Zenon DEF cpRat, IsRef
<1>2. ASSUME NEW b \in Boxes PROVE IsRef(C.box[b], DOMAIN box', {o})
  <2>1. C.box[b] = cloneBox(R.box[b], <<o, b, "">>)
    BY DEF clone
  <2>2. R.box[b] # Nil => <<o, b, "">> \in DOMAIN NewBoxes(R, o)
    BY CloneBoxDomain
  <2>3. <<o, b, "">>[1] = o
    OBVIOUS
  <2> QED BY <2>1, <2>2, <2>3, Zenon DEF cloneBox, IsRef
<1> HIDE DEF C
<1> QED BY <1>1, <1>2 DEF Refers, IsRates, C

\* A box of a clone holds new cells of the same owner.
LEMMA CloneBoxes ==
    ASSUME NEW R, NEW o, NEW a \in DOMAIN NewBoxes(R, o),
           NEW k \in DOMAIN NewBoxes(R, o)[a]
    PROVE  a[1] = o /\ IsRef(NewBoxes(R, o)[a][k], Allocated(R, o), {o})
<1>1. PICK b \in Boxes : a = <<o, b, "">> /\ R.box[b] # Nil
  BY CloneBoxDomain
<1>2. a[1] = o /\ a[2] = b
  BY <1>1
<1>3. NewBoxes(R, o)[a] = [x \in Keys(R, a[2]) |-> cpRat(box[R.box[a[2]]][x], <<o, a[2], x>>)]
  BY DEF NewBoxes
<1>4. k \in Keys(R, b) /\ NewBoxes(R, o)[a][k] = cpRat(box[R.box[b]][k], <<o, b, k>>)
  BY <1>2, <1>3
<1>5. box[R.box[b]][k] # Nil => <<o, b, k>> \in Allocated(R, o)
  BY <1>4, CloneCells
<1>6. <<o, b, k>>[1] = o
  OBVIOUS
<1> QED BY <1>2, <1>4, <1>5, <1>6, Zenon DEF cpRat, IsRef

\* All that is allocated for a clone is its owner's.
LEMMA CloneOwns ==
    ASSUME NEW R, NEW o
    PROVE  \A a \in DOMAIN NewBoxes(R, o) : a[1] = o
<1> TAKE a \in DOMAIN NewBoxes(R, o)
<1>1. PICK b \in Boxes : a = <<o, b, "">>
  BY CloneBoxDomain
<1> QED BY <1>1

----------------------------------------------------------------------------
(* The steps.                                                              *)

\* A goroutine, or a caller, that writes to what it owns.
LEMMA ScribbleKeeps ==
    ASSUME OwnInv, NEW R, NEW o, o \notin TableOwners, Refers(R, {o}), Scribble(R)
    PROVE  /\ Untouched(TableOwners)
           /\ DOMAIN rat' = DOMAIN rat /\ DOMAIN box' = DOMAIN box
           /\ BoxesSound'
<1>1. BoxesSound
  BY DEF OwnInv, BoxesSound
<1>2. /\ \A a \in BoxesOf(R) : a \in DOMAIN box /\ a[1] = o
      /\ \A a \in RatsOf(R) : a \in DOMAIN rat /\ a[1] = o
  BY <1>1, Reaches
<1>3. CASE \E a \in RatsOf(R), n \in Numbers : rat' = [rat EXCEPT ![a] = n] /\ UNCHANGED box
  <2>1. PICK a \in RatsOf(R), n \in Numbers : rat' = [rat EXCEPT ![a] = n] /\ UNCHANGED box
    BY <1>3
  <2>2. DOMAIN rat' = DOMAIN rat /\ \A x \in DOMAIN rat : x[1] \in TableOwners => rat'[x] = rat[x]
    BY <1>2, <2>1
  <2>3. BoxesSound'
    BY <1>1, <2>1, <2>2 DEF BoxesSound
  <2> QED BY <2>1, <2>2, <2>3 DEF Untouched, Stays
<1>4. CASE \E a \in BoxesOf(R) : \E k \in DOMAIN box[a] :
              box' = [box EXCEPT ![a][k] = Nil] /\ UNCHANGED rat
  <2>1. PICK a \in BoxesOf(R) : \E k \in DOMAIN box[a] :
              box' = [box EXCEPT ![a][k] = Nil] /\ UNCHANGED rat
    BY <1>4
  <2>2. PICK k \in DOMAIN box[a] : box' = [box EXCEPT ![a][k] = Nil] /\ UNCHANGED rat
    BY <2>1
  <2>3. DOMAIN box' = DOMAIN box /\ \A x \in DOMAIN box : x # a => box'[x] = box[x]
    BY <2>2
  <2>4. box'[a] = [box[a] EXCEPT ![k] = Nil]
    BY <1>2, <2>2
  <2>5. Untouched(TableOwners)
    BY <1>2, <2>2, <2>3 DEF Untouched, Stays
  <2>6. ASSUME NEW x \in DOMAIN box', NEW y \in DOMAIN box'[x]
        PROVE  IsRef(box'[x][y], DOMAIN rat', {x[1]})
    <3>1. CASE x = a
      <4>1. y \in DOMAIN box[a] /\ box'[x][y] = IF y = k THEN Nil ELSE box[a][y]
        BY <2>4, <2>6, <3>1
      <4> QED BY <1>1, <1>2, <2>2, <3>1, <4>1 DEF BoxesSound, IsRef
    <3>2. CASE x # a
      <4>1. box'[x] = box[x] /\ x \in DOMAIN box
        BY <2>3, <3>2
      <4> QED BY <1>1, <2>2, <2>6, <4>1 DEF BoxesSound
    <3> QED BY <3>1, <3>2
  <2>7. BoxesSound'
    BY <2>6 DEF BoxesSound
  <2> QED BY <2>2, <2>3, <2>5, <2>7
<1> QED BY <1>3, <1>4 DEF Scribble

\* Cells that are added, or written by their goroutine.
LEMMA CellsAdded ==
    ASSUME OwnInv, NEW g \in Goroutines, NEW h, \A a \in DOMAIN h : a[1] = g,
           NEW more, \A a \in DOMAIN more : a[1] = g,
           rat' = Over(Over(rat, h), more), box' = box
    PROVE  Untouched(TableOwners) /\ Stays({"snapshot", "config"} \cup Goroutines) /\ BoxesSound'
<1>1. /\ DOMAIN rat' = DOMAIN rat \cup DOMAIN h \cup DOMAIN more
      /\ \A a \in DOMAIN rat : a \notin DOMAIN h \cup DOMAIN more => rat'[a] = rat[a]
  BY DEF Over
<1>2. BoxesSound
  BY DEF OwnInv, BoxesSound
<1>3. BoxesSound'
  BY <1>1, <1>2 DEF BoxesSound, IsRef
<1>4. g \notin TableOwners
  BY Strangers
<1>5. \A a \in DOMAIN rat : a[1] \in TableOwners => rat'[a] = rat[a]
  BY <1>1, <1>4
<1> QED BY <1>1, <1>3, <1>5 DEF Untouched, Stays

\* A clone is allocated.
LEMMA CloneAdded ==
    ASSUME OwnInv, NEW R, NEW g \in Goroutines,
           NEW h, DOMAIN h = Allocated(R, g),
           NEW more, \A a \in DOMAIN more : a[1] = g,
           rat' = Over(Over(rat, h), more), box' = Over(box, NewBoxes(R, g))
    PROVE  /\ Untouched(TableOwners) /\ Stays({"snapshot", "config"} \cup Goroutines)
           /\ BoxesSound' /\ Refers(clone(R, g), {g})'
<1>1. /\ DOMAIN rat' = DOMAIN rat \cup Allocated(R, g) \cup DOMAIN more
      /\ \A a \in DOMAIN rat : a \notin Allocated(R, g) \cup DOMAIN more => rat'[a] = rat[a]
  BY DEF Over
<1>2. /\ DOMAIN box' = DOMAIN box \cup DOMAIN NewBoxes(R, g)
      /\ \A a \in DOMAIN box' : box'[a] = IF a \in DOMAIN NewBoxes(R, g) THEN NewBoxes(R, g)[a] ELSE box[a]
  BY DEF Over
<1>3. BoxesSound
  BY DEF OwnInv, BoxesSound
<1>4. ASSUME NEW a \in DOMAIN box', NEW k \in DOMAIN box'[a]
      PROVE  IsRef(box'[a][k], DOMAIN rat', {a[1]})
  <2>1. CASE a \in DOMAIN NewBoxes(R, g)
    <3>1. box'[a] = NewBoxes(R, g)[a]
      BY <1>2, <2>1
    <3>2. a[1] = g /\ IsRef(box'[a][k], Allocated(R, g), {g})
      BY <1>4, <2>1, <3>1, CloneBoxes
    <3> QED BY <1>1, <3>2 DEF IsRef
  <2>2. CASE a \notin DOMAIN NewBoxes(R, g)
    <3>1. box'[a] = box[a] /\ a \in DOMAIN box
      BY <1>2, <2>2
    <3>2. IsRef(box'[a][k], DOMAIN rat, {a[1]})
      BY <1>3, <1>4, <3>1 DEF BoxesSound
    <3> QED BY <1>1, <3>2 DEF IsRef
  <2> QED BY <2>1, <2>2
<1>5. BoxesSound'
  BY <1>4 DEF BoxesSound
<1>6. Refers(clone(R, g), {g})'
  BY <1>1, <1>2, CloneRefers
<1>7. g \notin TableOwners
  BY Strangers
<1>8. \A a \in DOMAIN rat : a[1] \in TableOwners => rat'[a] = rat[a]
  BY <1>1, <1>7, CloneCells
<1>9. \A a \in DOMAIN box : a[1] \in TableOwners => box'[a] = box[a]
  BY <1>2, <1>7, CloneOwns
<1> QED BY <1>1, <1>2, <1>5, <1>6, <1>8, <1>9 DEF Untouched, Stays

\* What a goroutine leaves goes.
LEMMA Collects ==
    ASSUME OwnInv, NEW g \in Goroutines, rat' = Collected(rat, g), box' = Collected(box, g)
    PROVE  /\ Untouched(TableOwners) /\ BoxesSound'
           /\ \A o : o # g => Stays({o, "snapshot", "config"})
<1>1. /\ DOMAIN rat' = {a \in DOMAIN rat : a[1] # g} /\ \A a \in DOMAIN rat' : rat'[a] = rat[a]
      /\ DOMAIN box' = {a \in DOMAIN box : a[1] # g} /\ \A a \in DOMAIN box' : box'[a] = box[a]
  BY DEF Collected
<1>2. BoxesSound
  BY DEF OwnInv, BoxesSound
<1>3. BoxesSound'
  BY <1>1, <1>2 DEF BoxesSound, IsRef
<1>4. g \notin TableOwners /\ g # "config" /\ g # "snapshot"
  BY Strangers
<1>5. Untouched(TableOwners)
  BY <1>1, <1>4 DEF Untouched, Stays
<1>6. ASSUME NEW o, o # g PROVE Stays({o, "snapshot", "config"})
  BY <1>1, <1>4, <1>6 DEF Stays
<1> QED BY <1>3, <1>5, <1>6

\* What g held it still holds, if the memory stays.
LEMMA StillHolds ==
    ASSUME OwnInv, NEW g \in Goroutines, held'[g] = held[g], pc'[g] = "holding" => pc[g] = "holding",
           Stays({g, "snapshot"})
    PROVE  /\ Refers(held[g], {g, "snapshot"})'
           /\ pc'[g] = "holding" => Refers(held[g], {g})'
<1>1. PICK R : R = held[g]
  OBVIOUS
<1>2. Refers(R, {g, "snapshot"}) /\ (pc[g] = "holding" => Refers(R, {g}))
  BY <1>1 DEF OwnInv
<1>3. Refers(R, {g, "snapshot"})'
  BY <1>2, StillRefers
<1>4. pc[g] = "holding" => Refers(R, {g})'
  <2>1. Stays({g})
    BY DEF Stays
  <2> QED BY <1>2, <2>1, StillRefers
<1>5. held'[g] = R
  BY <1>1
<1> QED BY <1>3, <1>4, <1>5

\* The invariant of a step that leaves the table as it is.
LEMMA Assembled ==
    ASSUME OwnInv, BoxesSound', Untouched(TableOwners), Stays({"snapshot", "config"}),
           UNCHANGED table,
           pc' \in [Goroutines -> {"new", "idle", "holding", "rate", "scale"}],
           held' = [x \in Goroutines |-> held'[x]],
           \A g \in Goroutines : /\ Refers(held[g], {g, "snapshot"})'
                                 /\ pc'[g] = "holding" => Refers(held[g], {g})'
    PROVE  OwnInv'
<1>1. ASSUME NEW e \in Entries
      PROVE  Refers(table[e], TableOwners)' /\ Refers(Snapshot[e], {"snapshot"})'
  <2>1. PICK R : R = table[e]
    OBVIOUS
  <2>2. Refers(R, TableOwners) /\ Refers(Snapshot[e], {"snapshot"})
    BY <2>1 DEF OwnInv
  <2>3. Stays(TableOwners) /\ Stays({"snapshot"})
    BY DEF Untouched, Stays
  <2>4. Refers(R, TableOwners)' /\ Refers(Snapshot[e], {"snapshot"})'
    BY <2>2, <2>3, StillRefers
  <2>5. table'[e] = R
    BY <2>1
  <2> QED BY <2>4, <2>5
<1>2. ASSUME NEW e \in DOMAIN Overrides PROVE Refers(Overrides[e], {"config"})'
  <2>1. Refers(Overrides[e], {"config"}) /\ Stays({"config"})
    BY DEF OwnInv, Stays
  <2> QED BY <2>1, StillRefers
<1> QED BY <1>1, <1>2 DEF OwnInv, BoxesSound

LEMMA NothingHeld == ASSUME NEW owners PROVE Refers(NoRates, owners) /\ Refers(NoRates, owners)'
BY DEF Refers, IsRates, IsRef, NoRates

\* The invariant of a goroutine's step.
LEMMA OneMoves ==
    ASSUME OwnInv, NEW g \in Goroutines, NEW R,
           NEW to \in {"new", "idle", "holding", "rate", "scale"},
           held' = [held EXCEPT ![g] = R], pc' = [pc EXCEPT ![g] = to], UNCHANGED table,
           Untouched(TableOwners), BoxesSound', Stays({"snapshot", "config"}),
           \A o \in Goroutines : o # g => Stays({o, "snapshot"}),
           Refers(R, {g, "snapshot"})', to = "holding" => Refers(R, {g})'
    PROVE  OwnInv' /\ Untouched(TableOwners)
<1>1. pc' \in [Goroutines -> {"new", "idle", "holding", "rate", "scale"}] /\ held' = [x \in Goroutines |-> held'[x]]
  BY DEF OwnInv
<1>2. ASSUME NEW x \in Goroutines
      PROVE  Refers(held[x], {x, "snapshot"})' /\ (pc'[x] = "holding" => Refers(held[x], {x})')
  <2>1. CASE x = g
    <3>1. held'[x] = R /\ pc'[x] = to
      BY <2>1 DEF OwnInv
    <3> QED BY <2>1, <3>1
  <2>2. CASE x # g
    <3>1. held'[x] = held[x] /\ pc'[x] = pc[x]
      BY <2>2 DEF OwnInv
    <3> QED BY <2>2, <3>1, StillHolds
  <2> QED BY <2>1, <2>2
<1> QED BY <1>1, <1>2, Assembled

----------------------------------------------------------------------------
(* Every action keeps the invariant, and leaves the table's memory alone.  *)

None == [a \in {} |-> 0]
LEMMA AddNone == DOMAIN None = {}
BY DEF None

LEMMA RatesForStep ==
    ASSUME OwnInv, NEW g \in Goroutines, NEW e \in Entries, RatesFor(g, e)
    PROVE  OwnInv' /\ Untouched(TableOwners)
<1>1. PICK R : R = table[e]
  OBVIOUS
<1>2. PICK C : C = clone(R, g)
  OBVIOUS
<1>3. /\ held' = [held EXCEPT ![g] = C] /\ pc' = [pc EXCEPT ![g] = "holding"]
      /\ rat' = Over(rat, NewRats(R, g)) /\ box' = Over(box, NewBoxes(R, g)) /\ UNCHANGED table
  BY <1>1, <1>2 DEF RatesFor
<1>4. DOMAIN NewRats(R, g) = Allocated(R, g) /\ \A a \in DOMAIN None : a[1] = g
  BY CloneCells, AddNone
<1>5. rat' = Over(Over(rat, NewRats(R, g)), None)
  BY <1>3 DEF Over, None
<1>6. /\ Untouched(TableOwners) /\ Stays({"snapshot", "config"} \cup Goroutines)
      /\ BoxesSound' /\ Refers(C, {g})'
  BY <1>2, <1>3, <1>4, <1>5, CloneAdded
<1>7. Refers(C, {g, "snapshot"})'
  BY <1>6, RefersMore DEF Refers
<1>8. Stays({"snapshot", "config"}) /\ \A o \in Goroutines : Stays({o, "snapshot"})
  BY <1>6 DEF Stays
<1> QED BY <1>3, <1>6, <1>7, <1>8, OneMoves

LEMMA CostStep ==
    ASSUME OwnInv, NEW g \in Goroutines, NEW q \in Requests, q.entry \in Entries, Cost(g, q)
    PROVE  OwnInv' /\ Untouched(TableOwners)
<1> DEFINE sum == [x \in {total(g)} |-> 0]
<1>1. \A a \in DOMAIN sum : a[1] = g
  <2>1. total(g)[1] = g
    BY DEF total
  <2> QED BY <2>1
<1>2. pc' = [pc EXCEPT ![g] = "rate"] /\ UNCHANGED table
  BY DEF Cost
<1>3. CASE q.embedded
  <2>1. PICK R : R = Snapshot[q.entry]
    OBVIOUS
  <2>2. held' = [held EXCEPT ![g] = R] /\ rat' = Over(rat, sum) /\ box' = box
    BY <1>3, <2>1 DEF Cost, Set
  <2>3. rat' = Over(Over(rat, None), sum) /\ \A a \in DOMAIN None : a[1] = g
    BY <2>2 DEF Over, None
  <2> HIDE DEF sum
  <2>4. /\ Untouched(TableOwners) /\ Stays({"snapshot", "config"} \cup Goroutines)
        /\ BoxesSound'
    BY <1>1, <2>2, <2>3, CellsAdded
  <2>5. Stays({"snapshot", "config"}) /\ Stays({"snapshot"})
        /\ \A o \in Goroutines : Stays({o, "snapshot"})
    BY <2>4 DEF Stays
  <2>6. Refers(R, {"snapshot"})
    BY <2>1 DEF OwnInv
  <2>7. Refers(R, {g, "snapshot"})'
    BY <2>5, <2>6, StillRefers, RefersMore DEF Refers
  <2> QED BY <1>2, <2>2, <2>4, <2>5, <2>7, OneMoves
<1>4. CASE ~ q.embedded
  <2>1. PICK R : R = table[q.entry]
    OBVIOUS
  <2>2. PICK C : C = clone(R, g)
    OBVIOUS
  <2>3. /\ held' = [held EXCEPT ![g] = C]
        /\ rat' = Over(Over(rat, NewRats(R, g)), sum) /\ box' = Over(box, NewBoxes(R, g))
    BY <1>4, <2>1, <2>2 DEF Cost, Set
  <2>4. DOMAIN NewRats(R, g) = Allocated(R, g)
    BY CloneCells
  <2> HIDE DEF sum
  <2>5. /\ Untouched(TableOwners) /\ Stays({"snapshot", "config"} \cup Goroutines)
        /\ BoxesSound' /\ Refers(C, {g})'
    BY <1>1, <2>2, <2>3, <2>4, CloneAdded
  <2>6. Refers(C, {g, "snapshot"})'
    BY <2>5, RefersMore DEF Refers
  <2>7. Stays({"snapshot", "config"}) /\ \A o \in Goroutines : Stays({o, "snapshot"})
    BY <2>5 DEF Stays
  <2> QED BY <1>2, <2>3, <2>5, <2>6, <2>7, OneMoves
<1> QED BY <1>3, <1>4

LEMMA WriteStep ==
    ASSUME OwnInv, NEW g \in Goroutines, Write(g)
    PROVE  OwnInv' /\ Untouched(TableOwners)
<1>1. PICK R : R = held[g]
  OBVIOUS
<1>2. pc[g] = "holding" /\ Scribble(R) /\ UNCHANGED <<table, pc, held>>
  BY <1>1 DEF Write
<1>3. Refers(R, {g}) /\ Refers(R, {g, "snapshot"}) /\ g \notin TableOwners
  BY <1>1, <1>2, Strangers DEF OwnInv
<1>4. /\ Untouched(TableOwners) /\ BoxesSound'
      /\ DOMAIN rat' = DOMAIN rat /\ DOMAIN box' = DOMAIN box
  BY <1>2, <1>3, ScribbleKeeps
<1>5. \A owners : Stays(owners)
  BY <1>4 DEF Stays
<1>6. Refers(R, {g})' /\ Refers(R, {g, "snapshot"})'
  BY <1>3, <1>5, StillRefers
<1>7. held' = [held EXCEPT ![g] = R] /\ pc' = [pc EXCEPT ![g] = "holding"]
  BY <1>1, <1>2 DEF OwnInv
<1> QED BY <1>2, <1>4, <1>5, <1>6, <1>7, OneMoves

LEMMA WriteConfigStep ==
    ASSUME OwnInv, NEW e \in DOMAIN Overrides, WriteConfig(e)
    PROVE  OwnInv' /\ Untouched(TableOwners)
<1>1. Scribble(Overrides[e]) /\ UNCHANGED <<table, pc, held>>
  BY DEF WriteConfig
<1>2. Refers(Overrides[e], {"config"}) /\ "config" \notin TableOwners
  BY Strangers DEF OwnInv
<1>3. /\ Untouched(TableOwners) /\ BoxesSound'
      /\ DOMAIN rat' = DOMAIN rat /\ DOMAIN box' = DOMAIN box
  BY <1>1, <1>2, ScribbleKeeps
<1>4. \A owners : Stays(owners)
  BY <1>3 DEF Stays
<1>5. \A g \in Goroutines : /\ Refers(held[g], {g, "snapshot"})'
                            /\ pc'[g] = "holding" => Refers(held[g], {g})'
  BY <1>1, <1>4, StillHolds
<1>6. pc' \in [Goroutines -> {"new", "idle", "holding", "rate", "scale"}] /\ held' = [x \in Goroutines |-> held'[x]]
  BY <1>1 DEF OwnInv
<1> QED BY <1>1, <1>3, <1>4, <1>5, <1>6, Assembled

\* A goroutine that is done, with rates or with a request.
LEMMA DoneStep ==
    ASSUME OwnInv, NEW g \in Goroutines, Drop(g) \/ Return(g)
    PROVE  OwnInv' /\ Untouched(TableOwners)
<1>1. PICK R : R = NoRates
  OBVIOUS
<1>2. /\ held' = [held EXCEPT ![g] = R] /\ pc' = [pc EXCEPT ![g] = "idle"]
      /\ rat' = Collected(rat, g) /\ box' = Collected(box, g) /\ UNCHANGED table
  BY <1>1 DEF Drop, Return
<1>3. /\ Untouched(TableOwners) /\ BoxesSound'
      /\ \A o : o # g => Stays({o, "snapshot", "config"})
  BY <1>2, Collects
<1>4. Refers(R, {g, "snapshot"})'
  BY <1>1, NothingHeld
<1>5. Stays({"snapshot", "config"}) /\ \A o \in Goroutines : o # g => Stays({o, "snapshot"})
  BY <1>3, Strangers DEF Stays
<1> QED BY <1>2, <1>3, <1>4, <1>5, OneMoves

\* A goroutine that computes.
LEMMA ComputeStep ==
    ASSUME OwnInv, NEW g \in Goroutines, Rate(g) \/ Scale(g)
    PROVE  OwnInv' /\ Untouched(TableOwners)
<1>1. PICK R : R = held[g]
  OBVIOUS
<1>2. \E h, more : /\ rat' = Over(Over(rat, h), more)
                   /\ \A a \in DOMAIN h \cup DOMAIN more : a[1] = g
  <2>1. usd(g)[1] = g /\ total(g)[1] = g /\ Receiver(g)[1] = g
    BY DEF usd, total, Receiver
  <2>2. CASE Rate(g)
    <3> DEFINE n == rat[At(g, Head(job[g].todo).at)] * Head(job[g].todo).tokens
               h == [x \in {Receiver(g)} |-> n]
               more == [x \in {usd(g)} |-> n]
    <3>1. rat' = Over(Over(rat, h), more)
      BY <2>2 DEF Rate, Set
    <3>2. \A a \in DOMAIN h \cup DOMAIN more : a[1] = g
      BY <2>1
    <3> HIDE DEF h, more
    <3> QED BY <3>1, <3>2
  <2>3. CASE Scale(g)
    <3> DEFINE mult == job[g].request.mult
               n == IF mult = <<>> THEN rat[usd(g)] ELSE rat[usd(g)] * rat[At(g, mult)]
               h == [x \in {usd(g)} |-> n]
               more == [x \in {total(g)} |-> rat[total(g)] + n]
    <3>1. rat' = Over(Over(rat, h), more)
      BY <2>3 DEF Scale, Set
    <3>2. \A a \in DOMAIN h \cup DOMAIN more : a[1] = g
      BY <2>1
    <3> HIDE DEF h, more
    <3> QED BY <3>1, <3>2
  <2> QED BY <2>2, <2>3
<1>3. PICK h, more : /\ rat' = Over(Over(rat, h), more)
                     /\ \A a \in DOMAIN h \cup DOMAIN more : a[1] = g
  BY <1>2
<1>4. box' = box /\ UNCHANGED <<table, held>> /\ pc[g] \in {"rate", "scale"}
      /\ \E to \in {"rate", "scale"} : pc' = [pc EXCEPT ![g] = to]
  BY DEF Rate, Scale
<1>5. PICK to \in {"rate", "scale"} : pc' = [pc EXCEPT ![g] = to]
  BY <1>4
<1>6. /\ Untouched(TableOwners) /\ Stays({"snapshot", "config"} \cup Goroutines)
      /\ BoxesSound'
  <2>1. (\A a \in DOMAIN h : a[1] = g) /\ \A a \in DOMAIN more : a[1] = g
    BY <1>3
  <2> QED BY <1>3, <1>4, <2>1, CellsAdded, Zenon
<1>7. Stays({"snapshot", "config"}) /\ \A o \in Goroutines : Stays({o, "snapshot"})
  BY <1>6 DEF Stays
<1>8. Refers(R, {g, "snapshot"})
  BY <1>1 DEF OwnInv
<1>9. Refers(R, {g, "snapshot"})'
  BY <1>7, <1>8, StillRefers
<1>10. held' = [held EXCEPT ![g] = R]
  BY <1>1, <1>4 DEF OwnInv
<1> QED BY <1>4, <1>5, <1>6, <1>7, <1>9, <1>10, OneMoves

\* NewFrom adds the clones of the overrides, and nothing else.
LEMMA NewFromStep ==
    ASSUME OwnInv, NewFrom
    PROVE  OwnInv' /\ Untouched(TableOwners)
<1> DEFINE cells == UNION {DOMAIN NewRats(Overrides[e], e) : e \in DOMAIN Overrides}
           boxes == UNION {DOMAIN NewBoxes(Overrides[e], e) : e \in DOMAIN Overrides}
<1>1. /\ DOMAIN rat' = DOMAIN rat \cup cells
      /\ \A a \in DOMAIN rat : rat'[a] = rat[a]
      /\ DOMAIN box' = DOMAIN box \cup boxes
      /\ \A a \in DOMAIN box : box'[a] = box[a]
      /\ \A a \in boxes : a \notin DOMAIN box => box'[a] = NewBoxes(Overrides[a[1]], a[1])[a]
  BY DEF NewFrom
<1>2. \A e \in DOMAIN Overrides : Allocated(Overrides[e], e) \subseteq cells
  <2> TAKE e \in DOMAIN Overrides
  <2>1. DOMAIN NewRats(Overrides[e], e) = Allocated(Overrides[e], e)
    BY CloneCells
  <2>2. DOMAIN NewRats(Overrides[e], e) \subseteq cells
    OBVIOUS
  <2> QED BY <2>1, <2>2, Zenon
<1>3. \A e \in DOMAIN Overrides : DOMAIN NewBoxes(Overrides[e], e) \subseteq boxes
  OBVIOUS
<1>4. \A a \in boxes : \E e \in DOMAIN Overrides : a \in DOMAIN NewBoxes(Overrides[e], e)
  OBVIOUS
<1> HIDE DEF cells, boxes
<1>5. Untouched(TableOwners) /\ \A owners : Stays(owners)
  BY <1>1 DEF Untouched, Stays
<1>6. BoxesSound'
  <2>1. BoxesSound
    BY DEF OwnInv, BoxesSound
  <2>2. ASSUME NEW a \in DOMAIN box', NEW k \in DOMAIN box'[a]
        PROVE  IsRef(box'[a][k], DOMAIN rat', {a[1]})
    <3>1. CASE a \in DOMAIN box
      <4>1. IsRef(box'[a][k], DOMAIN rat, {a[1]})
        BY <1>1, <2>1, <2>2, <3>1 DEF BoxesSound
      <4> QED BY <1>1, <4>1 DEF IsRef
    <3>2. CASE a \notin DOMAIN box
      <4>1. PICK e \in DOMAIN Overrides : a \in DOMAIN NewBoxes(Overrides[e], e)
        BY <1>1, <1>4, <3>2
      <4>2. a[1] = e
        BY <4>1, CloneOwns
      <4>3. box'[a] = NewBoxes(Overrides[e], e)[a]
        BY <1>1, <3>2, <4>2
      <4>4. IsRef(box'[a][k], Allocated(Overrides[e], e), {e})
        BY <2>2, <4>1, <4>3, CloneBoxes
      <4> QED BY <1>1, <1>2, <4>2, <4>4 DEF IsRef
    <3> QED BY <3>1, <3>2
  <2> QED BY <2>2 DEF BoxesSound
<1>7. ASSUME NEW e \in Entries
      PROVE  Refers(table[e], TableOwners)' /\ Refers(Snapshot[e], {"snapshot"})'
  <2>1. Refers(Snapshot[e], {"snapshot"})'
    BY <1>5, StillRefers DEF OwnInv
  <2>2. CASE e \in DOMAIN Overrides
    <3>1. table'[e] = clone(Overrides[e], e)
      BY <2>2 DEF NewFrom
    <3>2. Refers(clone(Overrides[e], e), {e})'
      BY <1>1, <1>2, <1>3, <2>2, CloneRefers
    <3>3. {e} \subseteq TableOwners
      BY DEF TableOwners
    <3> QED BY <2>1, <3>1, <3>2, <3>3, RefersMore DEF Refers
  <2>3. CASE e \notin DOMAIN Overrides
    <3>1. table'[e] = Snapshot[e]
      BY <2>3 DEF NewFrom
    <3>2. {"snapshot"} \subseteq TableOwners
      BY DEF TableOwners
    <3> QED BY <2>1, <3>1, <3>2, RefersMore DEF Refers
  <2> QED BY <2>2, <2>3
<1>8. \A e \in DOMAIN Overrides : Refers(Overrides[e], {"config"})'
  BY <1>5, StillRefers DEF OwnInv
<1>9. \A g \in Goroutines : /\ Refers(held[g], {g, "snapshot"})'
                            /\ pc'[g] = "holding" => Refers(held[g], {g})'
  <2> TAKE g \in Goroutines
  <2>1. held'[g] = held[g] /\ pc'[g] = "idle"
    BY DEF NewFrom
  <2> QED BY <1>5, <2>1, StillHolds
<1>10. /\ pc' \in [Goroutines -> {"new", "idle", "holding", "rate", "scale"}]
       /\ held' = [x \in Goroutines |-> held'[x]]
  BY DEF NewFrom, OwnInv
<1> QED BY <1>5, <1>6, <1>7, <1>8, <1>9, <1>10 DEF OwnInv, BoxesSound

----------------------------------------------------------------------------
(* The theorems.                                                           *)

LEMMA OwnInit == Init => OwnInv
<1> SUFFICES ASSUME Init PROVE OwnInv
  OBVIOUS
<1>1. /\ rat = Cells /\ box = Contents /\ table = Snapshot
      /\ pc = [g \in Goroutines |-> "new"] /\ held = [g \in Goroutines |-> NoRates]
  BY DEF Init
<1>2. ASSUME NEW e \in Entries
      PROVE  Refers(table[e], TableOwners) /\ Refers(Snapshot[e], {"snapshot"})
  <2>1. Refers(Snapshot[e], {"snapshot"})
    BY <1>1, MemoryAssumption DEF Refers
  <2>2. {"snapshot"} \subseteq TableOwners
    BY DEF TableOwners
  <2> QED BY <1>1, <2>1, <2>2, RefersMore DEF Refers
<1>3. \A e \in DOMAIN Overrides : Refers(Overrides[e], {"config"})
  BY <1>1, MemoryAssumption DEF Refers
<1>4. \A a \in DOMAIN box : \A k \in DOMAIN box[a] : IsRef(box[a][k], DOMAIN rat, {a[1]})
  BY <1>1, MemoryAssumption
<1> QED BY <1>1, <1>2, <1>3, <1>4, NothingHeld DEF OwnInv

LEMMA OwnStep == OwnInv /\ [Next]_vars => OwnInv' /\ (Next => Untouched(TableOwners))
<1> SUFFICES ASSUME OwnInv, [Next]_vars PROVE OwnInv' /\ (Next => Untouched(TableOwners))
  OBVIOUS
<1>1. CASE NewFrom
  BY <1>1, NewFromStep
<1>2. CASE \E e \in DOMAIN Overrides : WriteConfig(e)
  BY <1>2, WriteConfigStep
<1>3. ASSUME NEW g \in Goroutines,
             \/ \E e \in Entries : RatesFor(g, e)
             \/ Write(g) \/ Drop(g)
             \/ \E q \in Requests : Cost(g, q)
             \/ Rate(g) \/ Scale(g) \/ Return(g)
      PROVE  OwnInv' /\ Untouched(TableOwners)
  BY <1>3, RatesForStep, WriteStep, DoneStep, CostStep, ComputeStep, RequestAssumption
<1>4. CASE UNCHANGED vars
  <2>1. /\ UNCHANGED <<rat, box, table, pc, held>>
    BY <1>4 DEF vars
  <2>2. OwnInv'
    BY <2>1 DEF OwnInv, Refers, TableOwners
  <2>3. Untouched(TableOwners)
    BY <2>1 DEF Untouched, Stays
  <2> QED BY <2>2, <2>3
<1> QED BY <1>1, <1>2, <1>3, <1>4 DEF Next

\* What the table, a goroutine and the overrides refer to is never dangling,
\* and never another one's to write.
THEOREM OwnersApart == Spec => []OwnInv
BY OwnInit, OwnStep, PTL DEF Spec

\* The table is immutable, whatever its callers write, for every shape of
\* its rates and of the overrides, and any number of goroutines.
THEOREM TableIsImmutable == Spec => TableNeverWritten
<1>1. OwnInv /\ [Next]_vars =>
        [(\A g \in Goroutines : pc[g] # "new") =>
           \A e \in Entries : /\ \A a \in RatsOf(table[e]) : rat'[a] = rat[a]
                              /\ \A a \in BoxesOf(table[e]) : box'[a] = box[a]]_vars
  BY OwnStep, TableUntouched
<1> QED BY <1>1, OwnersApart, PTL DEF Spec, TableNeverWritten

----------------------------------------------------------------------------
(* A step writes to the memory of one owner only.                          *)

\* All that is not o's is as it was.
OnlyOf(o) == /\ \A a \in DOMAIN rat : a[1] # o => a \in DOMAIN rat' /\ rat'[a] = rat[a]
             /\ \A a \in DOMAIN box : a[1] # o => a \in DOMAIN box' /\ box'[a] = box[a]

LEMMA ScribbleAlone ==
    ASSUME BoxesSound, NEW R, NEW o, Refers(R, {o}), Scribble(R)
    PROVE  OnlyOf(o)
<1>1. /\ \A a \in BoxesOf(R) : a \in DOMAIN box /\ a[1] = o
      /\ \A a \in RatsOf(R) : a \in DOMAIN rat /\ a[1] = o
  BY Reaches
<1>2. CASE \E a \in RatsOf(R), n \in Numbers : rat' = [rat EXCEPT ![a] = n] /\ UNCHANGED box
  BY <1>1, <1>2 DEF OnlyOf
<1>3. CASE \E a \in BoxesOf(R) : \E k \in DOMAIN box[a] :
              box' = [box EXCEPT ![a][k] = Nil] /\ UNCHANGED rat
  BY <1>1, <1>3 DEF OnlyOf
<1> QED BY <1>2, <1>3 DEF Scribble

LEMMA CloneOwnsCells == ASSUME NEW R, NEW o PROVE \A a \in DOMAIN NewRats(R, o) : a[1] = o
<1>1. DOMAIN NewRats(R, o) = Allocated(R, o) /\ \A a \in Allocated(R, o) : a[1] = o
  BY CloneCells
<1> QED BY <1>1, Zenon

\* The memory of a goroutine's action is its own.
LEMMA Alone ==
    ASSUME OwnInv, NEW g \in Goroutines,
           \/ \E e \in Entries : RatesFor(g, e)
           \/ Write(g) \/ Drop(g)
           \/ \E q \in Requests : Cost(g, q)
           \/ Rate(g) \/ Scale(g) \/ Return(g)
    PROVE  OnlyOf(g)
<1>0. usd(g)[1] = g /\ total(g)[1] = g /\ Receiver(g)[1] = g
  BY DEF usd, total, Receiver
<1>1. CASE \E e \in Entries : RatesFor(g, e)
  <2>1. PICK e \in Entries : RatesFor(g, e)
    BY <1>1
  <2>2. PICK R : R = table[e]
    OBVIOUS
  <2>3. rat' = Over(rat, NewRats(R, g)) /\ box' = Over(box, NewBoxes(R, g))
    BY <2>1, <2>2 DEF RatesFor
  <2>4. /\ \A a \in DOMAIN NewRats(R, g) : a[1] = g
        /\ \A a \in DOMAIN NewBoxes(R, g) : a[1] = g
    BY CloneOwnsCells, CloneOwns
  <2> QED BY <2>3, <2>4 DEF OnlyOf, Over
<1>2. CASE Write(g)
  <2>1. PICK R : R = held[g]
    OBVIOUS
  <2>2. Refers(R, {g}) /\ Scribble(R) /\ BoxesSound
    BY <1>2, <2>1 DEF Write, OwnInv, BoxesSound
  <2> QED BY <2>2, ScribbleAlone
<1>3. CASE Drop(g) \/ Return(g)
  <2>1. rat' = Collected(rat, g) /\ box' = Collected(box, g)
    BY <1>3 DEF Drop, Return
  <2> QED BY <2>1 DEF Collected, OnlyOf
<1>4. CASE \E q \in Requests : Cost(g, q)
  <2>1. PICK q \in Requests : Cost(g, q)
    BY <1>4
  <2> DEFINE sum == [x \in {total(g)} |-> 0]
  <2>2. \A a \in DOMAIN sum : a[1] = g
    BY <1>0
  <2>3. PICK R : R = table[q.entry]
    OBVIOUS
  <2>4. \/ rat' = Over(rat, sum) /\ box' = box
        \/ rat' = Over(Over(rat, NewRats(R, g)), sum) /\ box' = Over(box, NewBoxes(R, g))
    BY <2>1, <2>3 DEF Cost, Set
  <2>5. /\ \A a \in DOMAIN NewRats(R, g) : a[1] = g
        /\ \A a \in DOMAIN NewBoxes(R, g) : a[1] = g
    BY CloneOwnsCells, CloneOwns
  <2> HIDE DEF sum
  <2> QED BY <2>2, <2>4, <2>5 DEF OnlyOf, Over
<1>5. CASE Rate(g)
  <2> DEFINE n == rat[At(g, Head(job[g].todo).at)] * Head(job[g].todo).tokens
             h == [x \in {Receiver(g)} |-> n]
             more == [x \in {usd(g)} |-> n]
  <2>1. rat' = Over(Over(rat, h), more) /\ box' = box
    BY <1>5 DEF Rate, Set
  <2>2. \A a \in DOMAIN h \cup DOMAIN more : a[1] = g
    BY <1>0
  <2> HIDE DEF h, more
  <2> QED BY <2>1, <2>2 DEF OnlyOf, Over
<1>6. CASE Scale(g)
  <2> DEFINE mult == job[g].request.mult
             n == IF mult = <<>> THEN rat[usd(g)] ELSE rat[usd(g)] * rat[At(g, mult)]
             h == [x \in {usd(g)} |-> n]
             more == [x \in {total(g)} |-> rat[total(g)] + n]
  <2>1. rat' = Over(Over(rat, h), more) /\ box' = box
    BY <1>6 DEF Scale, Set
  <2>2. \A a \in DOMAIN h \cup DOMAIN more : a[1] = g
    BY <1>0
  <2> HIDE DEF h, more
  <2> QED BY <2>1, <2>2 DEF OnlyOf, Over
<1> QED BY <1>1, <1>2, <1>3, <1>4, <1>5, <1>6

----------------------------------------------------------------------------
(* What a Rates value is worth.                                            *)

\* R has the numbers that S had at first, in cells that no sum is kept in.
Worth(cell, ref) == /\ cell # Nil /\ cell \in DOMAIN rat /\ rat[cell] = Cells[ref]
                    /\ cell[2] \in Fields \cup Boxes
IsWorth(R, S) ==
    /\ \A f \in Fields : S.rat[f] # Nil => Worth(R.rat[f], S.rat[f])
    /\ \A b \in Boxes : S.box[b] # Nil =>
          /\ R.box[b] # Nil
          /\ \A k \in DOMAIN Contents[S.box[b]] : Contents[S.box[b]][k] # Nil =>
                /\ k \in DOMAIN box[R.box[b]]
                /\ Worth(box[R.box[b]][k], Contents[S.box[b]][k])
Declared(S) == IsRates(S, DOMAIN Cells, DOMAIN Contents, {"snapshot", "config"})

LEMMA SourcesDeclared ==
    ASSUME NEW e \in Entries, NEW embedded
    PROVE  Declared(Source(e, embedded)) /\ Declared(Snapshot[e])
<1>1. Declared(Snapshot[e])
  BY MemoryAssumption, RefersMore DEF Declared
<1>2. e \in DOMAIN Overrides => Declared(Overrides[e])
  BY MemoryAssumption, RefersMore DEF Declared
<1> QED BY <1>1, <1>2 DEF Source

\* At first every declared Rates is worth itself.
LEMMA WorthItself ==
    ASSUME NEW S, Declared(S), rat = Cells, box = Contents
    PROVE  IsWorth(S, S)
<1>1. ASSUME NEW f \in Fields, S.rat[f] # Nil PROVE Worth(S.rat[f], S.rat[f])
  BY <1>1, AddressAssumption DEF Declared, IsRates, IsRef, Worth
<1>2. ASSUME NEW b \in Boxes, S.box[b] # Nil,
             NEW k \in DOMAIN Contents[S.box[b]], Contents[S.box[b]][k] # Nil
      PROVE  Worth(box[S.box[b]][k], Contents[S.box[b]][k])
  <2>1. S.box[b] \in DOMAIN Contents
    BY <1>2 DEF Declared, IsRates, IsRef
  <2>2. Contents[S.box[b]][k] \in DOMAIN Cells
    BY <1>2, <2>1, MemoryAssumption DEF IsRef
  <2> QED BY <1>2, <2>2, AddressAssumption DEF Worth
<1> QED BY <1>1, <1>2 DEF IsWorth

\* It keeps its worth in the steps of those who do not own it.
LEMMA WorthKept ==
    ASSUME BoxesSound, NEW R, NEW S, NEW o, NEW owners, IsWorth(R, S), Refers(R, owners),
           o \notin owners, OnlyOf(o)
    PROVE  IsWorth(R, S)'
<1>1. ASSUME NEW f \in Fields, S.rat[f] # Nil PROVE Worth(R.rat[f], S.rat[f])'
  BY <1>1 DEF IsWorth, Worth, Refers, IsRates, IsRef, OnlyOf
<1>2. ASSUME NEW b \in Boxes, S.box[b] # Nil
      PROVE  /\ R.box[b] # Nil
             /\ \A k \in DOMAIN Contents[S.box[b]] : Contents[S.box[b]][k] # Nil =>
                   /\ k \in DOMAIN box'[R.box[b]]
                   /\ Worth(box[R.box[b]][k], Contents[S.box[b]][k])'
  <2>1. PICK a : a = R.box[b]
    OBVIOUS
  <2>2. a # Nil /\ a \in DOMAIN box /\ a[1] # o /\ box'[a] = box[a]
    BY <1>2, <2>1 DEF IsWorth, Refers, IsRates, IsRef, OnlyOf
  <2>3. ASSUME NEW k \in DOMAIN Contents[S.box[b]], Contents[S.box[b]][k] # Nil
        PROVE  k \in DOMAIN box[a] /\ Worth(box[a][k], Contents[S.box[b]][k])'
    <3>1. k \in DOMAIN box[a] /\ Worth(box[a][k], Contents[S.box[b]][k])
      BY <1>2, <2>1, <2>3 DEF IsWorth
    <3>2. IsRef(box[a][k], DOMAIN rat, {a[1]})
      BY <2>2, <3>1 DEF BoxesSound
    <3> QED BY <2>2, <3>1, <3>2 DEF Worth, IsRef, OnlyOf
  <2> QED BY <2>1, <2>2, <2>3
<1> QED BY <1>1, <1>2 DEF IsWorth

\* A clone is worth what it is a copy of.
LEMMA CloneWorth ==
    ASSUME NEW R, NEW S, NEW o \in Entries \cup Goroutines, IsWorth(R, S), Declared(S),
           \A a \in Allocated(R, o) : a \in DOMAIN rat' /\ rat'[a] = NewRats(R, o)[a],
           \A a \in DOMAIN NewBoxes(R, o) : a \in DOMAIN box' /\ box'[a] = NewBoxes(R, o)[a]
    PROVE  IsWorth(clone(R, o), S)'
<1> DEFINE C == clone(R, o)
<1>1. ASSUME NEW f \in Fields, S.rat[f] # Nil PROVE Worth(C.rat[f], S.rat[f])'
  <2>1. Worth(R.rat[f], S.rat[f])
    BY <1>1 DEF IsWorth
  <2>2. C.rat[f] = <<o, f, "">>
    BY <2>1 DEF clone, cpRat, Worth
  <2>3. <<o, f, "">> \in Allocated(R, o) /\ <<o, f, "">>[2] = f
    BY <2>1, CloneCells DEF Worth
  <2>4. NewRats(R, o)[<<o, f, "">>] = rat[R.rat[f]]
    BY <2>3 DEF NewRats, RefAt
  <2>5. <<o, f, "">> # Nil
    BY AddressAssumption
  <2> HIDE DEF C
  <2> QED BY <2>1, <2>2, <2>3, <2>4, <2>5 DEF Worth
<1>2. ASSUME NEW b \in Boxes, S.box[b] # Nil
      PROVE  /\ C.box[b] # Nil
             /\ \A k \in DOMAIN Contents[S.box[b]] : Contents[S.box[b]][k] # Nil =>
                   /\ k \in DOMAIN box'[C.box[b]]
                   /\ Worth(box[C.box[b]][k], Contents[S.box[b]][k])'
  <2>1. PICK a : a = <<o, b, "">>
    OBVIOUS
  <2>2. R.box[b] # Nil /\ a # Nil /\ a[2] = b /\ b \notin Fields
    BY <1>2, <2>1, MemoryAssumption, AddressAssumption DEF IsWorth
  <2>3. C.box[b] = a
    BY <2>1, <2>2 DEF clone, cloneBox
  <2>4. a \in DOMAIN NewBoxes(R, o)
    BY <2>1, <2>2, CloneBoxDomain
  <2>5. box'[a] = [k \in Keys(R, b) |-> cpRat(box[R.box[b]][k], <<o, b, k>>)]
    BY <2>2, <2>4 DEF NewBoxes
  <2> HIDE DEF C
  <2>6. ASSUME NEW k \in DOMAIN Contents[S.box[b]], Contents[S.box[b]][k] # Nil
        PROVE  k \in DOMAIN box'[a] /\ Worth(box[a][k], Contents[S.box[b]][k])'
    <3>1. k \in DOMAIN box[R.box[b]] /\ Worth(box[R.box[b]][k], Contents[S.box[b]][k])
      BY <1>2, <2>6 DEF IsWorth
    <3>2. k \in Keys(R, b) /\ box[R.box[b]][k] # Nil
      BY <2>2, <3>1 DEF Keys, Worth
    <3>3. box'[a][k] = <<o, b, k>> /\ k \in DOMAIN box'[a]
      BY <2>5, <3>2 DEF cpRat
    <3>4. <<o, b, k>> \in Allocated(R, o) /\ <<o, b, k>>[2] = b /\ <<o, b, k>>[3] = k
      BY <3>2, CloneCells
    <3>5. NewRats(R, o)[<<o, b, k>>] = rat[box[R.box[b]][k]]
      BY <2>2, <3>4 DEF NewRats, RefAt
    <3>6. <<o, b, k>> # Nil
      <4>1. S.box[b] \in DOMAIN Contents
        BY <1>2 DEF Declared, IsRates, IsRef
      <4> QED BY <2>6, <4>1, AddressAssumption
    <3> QED BY <3>1, <3>3, <3>4, <3>5, <3>6 DEF Worth
  <2> QED BY <2>2, <2>3, <2>6
<1> HIDE DEF C
<1>3. IsWorth(C, S)'
  BY <1>1, <1>2 DEF IsWorth
<1> QED BY <1>3 DEF C

\* The sums are kept in no cell that is worth something.
LEMMA SumsApart ==
    ASSUME NEW R, NEW S, IsWorth(R, S), box' = box,
           \A a \in DOMAIN rat : a \in DOMAIN rat' /\ (a[2] \in Fields \cup Boxes => rat'[a] = rat[a])
    PROVE  IsWorth(R, S)'
<1>1. ASSUME NEW f \in Fields, S.rat[f] # Nil PROVE Worth(R.rat[f], S.rat[f])'
  BY <1>1 DEF IsWorth, Worth
<1>2. ASSUME NEW b \in Boxes, S.box[b] # Nil
      PROVE  /\ R.box[b] # Nil
             /\ \A k \in DOMAIN Contents[S.box[b]] : Contents[S.box[b]][k] # Nil =>
                   /\ k \in DOMAIN box'[R.box[b]]
                   /\ Worth(box[R.box[b]][k], Contents[S.box[b]][k])'
  <2>1. R.box[b] # Nil
    BY <1>2 DEF IsWorth
  <2>2. ASSUME NEW k \in DOMAIN Contents[S.box[b]], Contents[S.box[b]][k] # Nil
        PROVE  k \in DOMAIN box'[R.box[b]] /\ Worth(box[R.box[b]][k], Contents[S.box[b]][k])'
    <3>1. k \in DOMAIN box[R.box[b]] /\ Worth(box[R.box[b]][k], Contents[S.box[b]][k])
      BY <1>2, <2>2 DEF IsWorth
    <3> QED BY <3>1 DEF Worth
  <2> QED BY <2>1, <2>2
<1> QED BY <1>1, <1>2 DEF IsWorth

LEMMA AllocatedPlaces == ASSUME NEW R, NEW o PROVE \A a \in Allocated(R, o) : a[2] \in Fields \cup Boxes
<1> TAKE a \in Allocated(R, o)
<1>1. a \in {<<o, f, "">> : f \in Fields} \/ \E b \in Boxes : a \in {<<o, b, k>> : k \in Keys(R, b)}
  BY Zenon DEF Allocated
<1>2. (\E f \in Fields : a = <<o, f, "">>) \/ \E b \in Boxes : \E k \in Keys(R, b) : a = <<o, b, k>>
  BY <1>1, Zenon
<1>3. CASE \E f \in Fields : a = <<o, f, "">>
  <2>1. PICK f \in Fields : a = <<o, f, "">>
    BY <1>3
  <2> QED BY <2>1
<1>4. CASE \E b \in Boxes : \E k \in Keys(R, b) : a = <<o, b, k>>
  BY <1>4
<1> QED BY <1>2, <1>3, <1>4

----------------------------------------------------------------------------
(* The table keeps its worth.                                              *)

\* Before NewFrom the memory is as it was; after it the table is worth what
\* was declared.
WorthInv ==
    /\ (\E g \in Goroutines : pc[g] = "new") =>
          (\A g \in Goroutines : pc[g] = "new") /\ rat = Cells /\ box = Contents
    /\ \A e \in Entries : IsWorth(Snapshot[e], Snapshot[e])
    /\ (\E g \in Goroutines : pc[g] # "new") =>
          \A e \in Entries : IsWorth(table[e], Source(e, FALSE))

LEMMA WorthInit == Init => WorthInv
<1> SUFFICES ASSUME Init PROVE WorthInv
  OBVIOUS
<1>1. rat = Cells /\ box = Contents /\ pc = [g \in Goroutines |-> "new"]
  BY DEF Init
<1>2. \A e \in Entries : Declared(Snapshot[e])
  BY SourcesDeclared
<1>3. \A e \in Entries : IsWorth(Snapshot[e], Snapshot[e])
  BY <1>1, <1>2, WorthItself
<1> QED BY <1>1, <1>3 DEF WorthInv

\* A step of a goroutine, or of who declared the overrides.
LEMMA WorthStays ==
    ASSUME OwnInv, WorthInv, NEW o, o \notin TableOwners, OnlyOf(o), UNCHANGED table,
           \A g \in Goroutines : pc'[g] # "new",
           Goroutines # {} => \E g \in Goroutines : pc[g] # "new"
    PROVE  WorthInv'
<1>1. BoxesSound /\ "snapshot" \in TableOwners
  BY DEF OwnInv, BoxesSound, TableOwners
<1>2. ASSUME NEW e \in Entries PROVE IsWorth(Snapshot[e], Snapshot[e])'
  <2>1. IsWorth(Snapshot[e], Snapshot[e]) /\ Refers(Snapshot[e], {"snapshot"}) /\ o \notin {"snapshot"}
    BY <1>1 DEF OwnInv, WorthInv
  <2> QED BY <1>1, <2>1, WorthKept
<1>3. ASSUME NEW e \in Entries, NEW g \in Goroutines PROVE IsWorth(table[e], Source(e, FALSE))'
  <2>1. PICK R : R = table[e]
    OBVIOUS
  <2>2. PICK S : S = Source(e, FALSE)
    OBVIOUS
  <2>3. IsWorth(R, S) /\ Refers(R, TableOwners)
    BY <2>1, <2>2 DEF OwnInv, WorthInv
  <2>4. IsWorth(R, S)'
    BY <1>1, <2>3, WorthKept
  <2> QED BY <2>1, <2>2, <2>4
<1> QED BY <1>2, <1>3 DEF WorthInv

LEMMA WorthNewFrom == ASSUME OwnInv, WorthInv, NewFrom PROVE WorthInv'
<1>1. BoxesSound
  BY DEF OwnInv, BoxesSound
<1>2. ASSUME NEW o PROVE OnlyOf(o)
  BY DEF NewFrom, OnlyOf
<1>3. ASSUME NEW R, NEW S, NEW owners, IsWorth(R, S), Refers(R, owners), \E o : o \notin owners
      PROVE  IsWorth(R, S)'
  BY <1>1, <1>2, <1>3, WorthKept
<1>4. ASSUME NEW e \in Entries
      PROVE  IsWorth(Snapshot[e], Snapshot[e])' /\ IsWorth(Snapshot[e], Snapshot[e])
  <2>1. IsWorth(Snapshot[e], Snapshot[e]) /\ Refers(Snapshot[e], {"snapshot"}) /\ "config" \notin {"snapshot"}
    BY DEF OwnInv, WorthInv
  <2> QED BY <1>3, <2>1
<1>5. ASSUME NEW e \in Entries, NEW g \in Goroutines PROVE IsWorth(table[e], Source(e, FALSE))'
  <2>1. CASE e \notin DOMAIN Overrides
    <3>1. PICK S : S = Snapshot[e]
      OBVIOUS
    <3>2. table'[e] = S /\ Source(e, FALSE) = S
      BY <2>1, <3>1 DEF NewFrom, Source
    <3>3. IsWorth(S, S)'
      BY <1>4, <3>1
    <3> QED BY <3>2, <3>3
  <2>2. CASE e \in DOMAIN Overrides
    <3>1. PICK S : S = Overrides[e]
      OBVIOUS
    <3>2. table'[e] = clone(S, e) /\ Source(e, FALSE) = S
      BY <2>2, <3>1 DEF NewFrom, Source
    <3>3. rat = Cells /\ box = Contents
      BY DEF WorthInv, NewFrom
    <3>4. Declared(S)
      BY <3>2, SourcesDeclared
    <3>5. IsWorth(S, S)
      BY <3>3, <3>4, WorthItself
    <3>6. \A a \in DOMAIN rat \cup DOMAIN box : a[1] # e
      BY <3>3, MemoryAssumption, AddressAssumption
    <3>7. ASSUME NEW a \in Allocated(S, e)
          PROVE  a \in DOMAIN rat' /\ rat'[a] = NewRats(S, e)[a]
      <4>1. a \in DOMAIN NewRats(Overrides[e], e) /\ a[1] = e
        BY <3>1, CloneCells
      <4>2. a \in UNION {DOMAIN NewRats(Overrides[x], x) : x \in DOMAIN Overrides}
        BY <2>2, <4>1
      <4> QED BY <3>1, <3>6, <4>1, <4>2 DEF NewFrom
    <3>8. ASSUME NEW a \in DOMAIN NewBoxes(S, e)
          PROVE  a \in DOMAIN box' /\ box'[a] = NewBoxes(S, e)[a]
      <4>1. a \in DOMAIN NewBoxes(Overrides[e], e) /\ a[1] = e
        BY <3>1, CloneOwns
      <4>2. a \in UNION {DOMAIN NewBoxes(Overrides[x], x) : x \in DOMAIN Overrides}
        BY <2>2, <4>1
      <4> QED BY <3>1, <3>6, <4>1, <4>2 DEF NewFrom
    <3>9. IsWorth(clone(S, e), S)'
      BY <3>4, <3>5, <3>7, <3>8, CloneWorth
    <3>10. PICK C : C = clone(S, e)
      OBVIOUS
    <3>11. IsWorth(C, S)' /\ table'[e] = C
      BY <3>2, <3>9, <3>10
    <3> QED BY <3>2, <3>11
  <2> QED BY <2>1, <2>2
<1>6. \A g \in Goroutines : pc'[g] = "idle"
  BY DEF NewFrom
<1>7. ~ \E g \in Goroutines : pc'[g] = "new"
  BY <1>6
<1> QED BY <1>4, <1>5, <1>7 DEF WorthInv

----------------------------------------------------------------------------
(* The sum of a request.                                                   *)

\* The first price of a place, what a part costs, and what it adds.
Place(S, at) == IF at[2] = "" THEN S.rat[at[1]] ELSE Contents[S.box[at[1]]][at[2]]
Price(q, at) == Cells[Place(Source(q.entry, q.embedded), at)]
Rated(q, i) == Price(q, q.parts[i].at) * q.parts[i].tokens
Charge(q, i) == IF q.mult = <<>> THEN Rated(q, i) ELSE Rated(q, i) * Price(q, q.mult)

\* s[i] is the sum of the first i parts, for i up to n.
Sums(q, n, s) == s[0] = 0 /\ \A i \in 1..n : s[i] = s[i - 1] + Charge(q, i)

\* A set of natural numbers that has a member has a least one.
LEMMA LeastElement ==
    ASSUME NEW T, T \subseteq Nat, T # {}
    PROVE  \E j \in T : \A i \in T : j <= i
<1> DEFINE less == OpToRel(<, Nat)
<1>1. \A i, j \in Nat : i < j => <<i, j>> \in less
  BY DEF OpToRel
<1>2. IsWellFoundedOn(less, Nat)
  BY NatLessThanWellFounded
<1> HIDE DEF less
<1>3. PICK j \in T : \A i \in T : ~ (<<i, j>> \in less)
  BY <1>2, WFMin
<1>4. \A i \in T : ~ (i < j)
  BY <1>1, <1>3
<1> QED BY <1>4

\* There is one sum.
LEMMA OneSum ==
    ASSUME NEW q, NEW n \in Nat, NEW s, NEW t, Sums(q, n, s), Sums(q, n, t)
    PROVE  s[n] = t[n]
<1> DEFINE apart == {i \in 0..n : s[i] # t[i]}
<1> SUFFICES ASSUME apart # {} PROVE FALSE
  OBVIOUS
<1>1. PICK j \in apart : \A i \in apart : j <= i
  <2>1. apart \subseteq Nat
    OBVIOUS
  <2> HIDE DEF apart
  <2> QED BY <2>1, LeastElement
<1>2. j \in 1..n /\ j - 1 \in 0..n
  BY <1>1 DEF Sums
<1>3. s[j - 1] = t[j - 1]
  BY <1>1, <1>2
<1>4. s[j] = s[j - 1] + Charge(q, j) /\ t[j] = t[j - 1] + Charge(q, j)
  BY <1>2 DEF Sums
<1> QED BY <1>1, <1>3, <1>4

\* It has one more part.
LEMMA NextSum ==
    ASSUME NEW q, NEW n \in Nat, NEW s, Sums(q, n, s)
    PROVE  \E t : Sums(q, n + 1, t) /\ t[n + 1] = s[n] + Charge(q, n + 1)
<1> DEFINE t == [i \in 0..(n + 1) |-> IF i <= n THEN s[i] ELSE s[n] + Charge(q, n + 1)]
<1>1. \A i \in 0..n : t[i] = s[i]
  OBVIOUS
<1>2. t[n + 1] = s[n] + Charge(q, n + 1)
  OBVIOUS
<1> HIDE DEF t
<1>3. ASSUME NEW i \in 1..(n + 1) PROVE t[i] = t[i - 1] + Charge(q, i)
  <2>1. CASE i = n + 1
    <3>1. t[i - 1] = s[n]
      BY <1>1, <2>1
    <3> QED BY <1>2, <2>1, <3>1
  <2>2. CASE i \in 1..n
    <3>1. t[i] = s[i] /\ t[i - 1] = s[i - 1]
      BY <1>1, <2>2
    <3> QED BY <2>2, <3>1 DEF Sums
  <2> QED BY <2>1, <2>2
<1>4. t[0] = 0
  BY <1>1 DEF Sums
<1> QED BY <1>2, <1>3, <1>4 DEF Sums

----------------------------------------------------------------------------
(* A goroutine that prices.                                                *)

\* g prices q from R, and has the sum s[n] of its first n parts.
Pricing(g, q, R, n, s) ==
    /\ q \in Requests /\ n \in 0..Len(q.parts) /\ Sums(q, n, s)
    /\ job[g] = [request |-> q, todo |-> SubSeq(q.parts, n + 1, Len(q.parts))]
    /\ held[g] = R /\ IsWorth(R, Source(q.entry, q.embedded))
    /\ total(g) \in DOMAIN rat /\ rat[total(g)] = s[n]
    /\ pc[g] = "scale" => /\ n < Len(q.parts) /\ usd(g) \in DOMAIN rat
                          /\ rat[usd(g)] = Rated(q, n + 1)

\* Each sum is on its way to the one its request has, and each answer is it.
SumInv ==
    /\ job = [g \in Goroutines |-> job[g]]
    /\ \A g \in Goroutines : pc[g] \in {"rate", "scale"} =>
          \E q, R, n, s : Pricing(g, q, R, n, s)
    /\ \A x \in answers : /\ x[1] \in Requests
                          /\ \E s : Sums(x[1], Len(x[1].parts), s) /\ x[2] = s[Len(x[1].parts)]

\* A part is priced at what was declared for it.
LEMMA AtWorth ==
    ASSUME NEW g, NEW S, NEW at, IsWorth(held[g], S), IsPriced(S, at)
    PROVE  /\ At(g, at) \in DOMAIN rat /\ rat[At(g, at)] = Cells[Place(S, at)]
           /\ At(g, at)[2] \in Fields \cup Boxes
<1>1. CASE at[2] = "" /\ at[1] \in Fields /\ S.rat[at[1]] # Nil
  BY <1>1 DEF IsWorth, Worth, At, Place
<1>2. CASE /\ at[2] # "" /\ at[1] \in Boxes /\ S.box[at[1]] # Nil
           /\ at[2] \in DOMAIN Contents[S.box[at[1]]] /\ Contents[S.box[at[1]]][at[2]] # Nil
  BY <1>2 DEF IsWorth, Worth, At, Place
<1> QED BY <1>1, <1>2 DEF IsPriced

LEMMA SumCells ==
    /\ \A g : usd(g) = <<g, "usd", "">> /\ total(g) = <<g, "total", "">> /\ usd(g) # total(g)
    /\ \A g : usd(g)[2] \notin Fields \cup Boxes /\ total(g)[2] \notin Fields \cup Boxes
    /\ \A g : usd(g)[1] = g /\ total(g)[1] = g
BY AddressAssumption DEF usd, total

\* Others do not disturb it.
LEMMA PricingKept ==
    ASSUME OwnInv, NEW g \in Goroutines, NEW o, o # g, o # "snapshot", OnlyOf(o),
           pc'[g] = pc[g], job'[g] = job[g], held'[g] = held[g],
           NEW q, NEW R, NEW n, NEW s, Pricing(g, q, R, n, s)
    PROVE  Pricing(g, q, R, n, s)'
<1>1. PICK S : S = Source(q.entry, q.embedded)
  OBVIOUS
<1>2. IsWorth(R, S) /\ Refers(R, {g, "snapshot"}) /\ BoxesSound
  BY <1>1 DEF Pricing, OwnInv, BoxesSound
<1>3. IsWorth(R, S)'
  BY <1>2, WorthKept
<1>4. /\ total(g) \in DOMAIN rat' /\ rat'[total(g)] = rat[total(g)]
      /\ usd(g) \in DOMAIN rat => usd(g) \in DOMAIN rat' /\ rat'[usd(g)] = rat[usd(g)]
  BY SumCells DEF Pricing, OnlyOf
<1> QED BY <1>1, <1>3, <1>4 DEF Pricing

\* The memory keeps what it was worth when a goroutine only sums.
LEMMA SumsWrite ==
    ASSUME NEW g, NEW R, NEW S, IsWorth(R, S), box' = box, NEW h, NEW more,
           rat' = Over(Over(rat, h), more),
           \A a \in DOMAIN h \cup DOMAIN more : a \in {usd(g), total(g)}
    PROVE  IsWorth(R, S)'
<1>1. \A a \in DOMAIN rat : /\ a \in DOMAIN rat'
                            /\ a \notin DOMAIN h \cup DOMAIN more => rat'[a] = rat[a]
  BY DEF Over
<1>2. \A a \in DOMAIN h \cup DOMAIN more : a[2] \notin Fields \cup Boxes
  BY SumCells, Zenon
<1> QED BY <1>1, <1>2, SumsApart

LEMMA CostSums ==
    ASSUME OwnInv, WorthInv, WorthInv', SumInv, NEW g \in Goroutines, NEW q \in Requests, Cost(g, q)
    PROVE  \E R, s : Pricing(g, q, R, 0, s)'
<1>1. q.entry \in Entries /\ q.parts \in Seq({q.parts[i] : i \in DOMAIN q.parts})
  BY RequestAssumption
<1>2. PICK s : s = [i \in {0} |-> 0]
  OBVIOUS
<1>3. Sums(q, 0, s) /\ s[0] = 0
  BY <1>2 DEF Sums
<1>4. 0 \in 0..Len(q.parts) /\ SubSeq(q.parts, 1, Len(q.parts)) = q.parts
  BY <1>1
<1>5. job'[g] = [request |-> q, todo |-> q.parts] /\ pc'[g] = "rate"
  BY DEF Cost, SumInv, OwnInv
<1>6. PICK S : S = Source(q.entry, q.embedded)
  OBVIOUS
<1> DEFINE sum == [x \in {total(g)} |-> 0]
<1>7. DOMAIN sum = {total(g)} /\ sum[total(g)] = 0
  OBVIOUS
<1>8. CASE q.embedded
  <2>1. rat' = Over(rat, sum) /\ held'[g] = S
    BY <1>6, <1>8 DEF Cost, Set, OwnInv, Source
  <2>2. S = Snapshot[q.entry]
    BY <1>6, <1>8 DEF Source
  <2>3. IsWorth(S, S)'
    <3>1. IsWorth(Snapshot[q.entry], Snapshot[q.entry])'
      BY <1>1 DEF WorthInv
    <3> QED BY <2>2, <3>1
  <2> HIDE DEF sum
  <2>4. total(g) \in DOMAIN rat' /\ rat'[total(g)] = 0
    BY <1>7, <2>1 DEF Over
  <2>5. Pricing(g, q, S, 0, s)'
    BY <1>3, <1>4, <1>5, <1>6, <2>1, <2>3, <2>4 DEF Pricing
  <2> QED BY <2>5
<1>9. CASE ~ q.embedded
  <2>1. PICK R : R = table[q.entry]
    OBVIOUS
  <2>2. PICK C : C = clone(R, g)
    OBVIOUS
  <2>3. /\ held'[g] = C
        /\ rat' = Over(Over(rat, NewRats(R, g)), sum) /\ box' = Over(box, NewBoxes(R, g))
    BY <1>9, <2>1, <2>2 DEF Cost, Set, OwnInv
  <2>4. S = Source(q.entry, FALSE)
    BY <1>6, <1>9 DEF Source
  <2>5. IsWorth(R, S)
    BY <1>1, <2>1, <2>4 DEF WorthInv, Cost
  <2>6. Declared(S)
    BY <1>1, <1>6, SourcesDeclared
  <2> HIDE DEF sum
  <2>7. total(g) \in DOMAIN rat' /\ rat'[total(g)] = 0
    BY <1>7, <2>3 DEF Over
  <2>8. ASSUME NEW a \in Allocated(R, g)
        PROVE  a \in DOMAIN rat' /\ rat'[a] = NewRats(R, g)[a]
    <3>1. a \in DOMAIN NewRats(R, g)
      BY CloneCells
    <3>2. a # total(g)
      BY AllocatedPlaces, SumCells
    <3> QED BY <1>7, <2>3, <3>1, <3>2 DEF Over
  <2>9. \A a \in DOMAIN NewBoxes(R, g) : a \in DOMAIN box' /\ box'[a] = NewBoxes(R, g)[a]
    BY <2>3 DEF Over
  <2>10. IsWorth(clone(R, g), S)'
    BY <2>5, <2>6, <2>8, <2>9, CloneWorth
  <2>11. IsWorth(C, S)'
    BY <2>2, <2>10
  <2>12. Pricing(g, q, C, 0, s)'
    BY <1>3, <1>4, <1>5, <1>6, <2>3, <2>7, <2>11 DEF Pricing
  <2> QED BY <2>12
<1> QED BY <1>8, <1>9

\* The part that is next.
LEMMA NextPart ==
    ASSUME NEW q \in Requests, NEW n \in 0..Len(q.parts), NEW todo,
           todo = SubSeq(q.parts, n + 1, Len(q.parts))
    PROVE  /\ Len(q.parts) \in Nat
           /\ todo = <<>> <=> n = Len(q.parts)
           /\ n < Len(q.parts) =>
                 /\ n + 1 \in DOMAIN q.parts /\ Head(todo) = q.parts[n + 1]
                 /\ Tail(todo) = SubSeq(q.parts, n + 2, Len(q.parts))
<1>1. PICK P, parts : P = {q.parts[i] : i \in DOMAIN q.parts} /\ parts = q.parts
  OBVIOUS
<1>2. parts \in Seq(P) /\ n \in 0..Len(parts) /\ todo = SubSeq(parts, n + 1, Len(parts))
  BY <1>1, RequestAssumption
<1>3. Len(parts) \in Nat /\ DOMAIN parts = 1..Len(parts)
  BY <1>2
<1> DEFINE m == Len(parts)
<1>m. m \in Nat /\ n \in 0..m
  BY <1>2, <1>3
<1> HIDE DEF m
<1>n. n \in Nat /\ (n = m \/ n < m) /\ (n + 1) + 1 = n + 2 /\ (n < m => n # m /\ m - (n + 1) + 1 > 0)
  BY <1>m
<1>4. CASE n = m
  <2>1. todo = <<>>
    <3>1. todo = SubSeq(parts, m + 1, m) /\ m + 1 \in Int /\ m \in Int /\ m < m + 1
      BY <1>2, <1>4, <1>m DEF m
    <3> QED BY <3>1, SubSeqEmpty
  <2> QED BY <1>1, <1>4, <1>m, <2>1 DEF m
<1>5. CASE n < m
  <2>1. n + 1 \in 1..Len(parts) /\ Len(parts) \in (n + 1)..Len(parts)
    BY <1>m, <1>5 DEF m
  <2>2. Head(todo) = parts[n + 1] /\ Tail(todo) = SubSeq(parts, (n + 1) + 1, Len(parts))
    BY <1>2, <2>1, HeadTailOfSubSeq
  <2>3. todo # <<>>
    <3>1. \A i \in (n + 1)..m : parts[i] \in P
      <4>1. \A i \in 1..m : parts[i] \in P
        BY <1>1, <1>3 DEF m
      <4> QED BY <1>n, <4>1
    <3>2. n + 1 \in Int /\ m \in Int /\ n + 1 <= m
      BY <1>m, <1>5
    <3>3. todo = SubSeq(parts, n + 1, m)
      BY <1>2 DEF m
    <3>4. Len(todo) = m - (n + 1) + 1
      BY <3>1, <3>2, <3>3, SubSeqProperties
    <3>5. Len(todo) # 0
      BY <1>n, <1>5, <3>4
    <3> QED BY <3>5
  <2>4. Tail(todo) = SubSeq(parts, n + 2, m) /\ n # m /\ n + 1 \in DOMAIN parts
    BY <1>3, <1>5, <1>n, <2>1, <2>2 DEF m
  <2> QED BY <1>1, <1>m, <1>5, <2>2, <2>3, <2>4 DEF m
<1> QED BY <1>4, <1>5, <1>n

\* rate * tokens.
LEMMA RateSums ==
    ASSUME SumInv, NEW g \in Goroutines, OwnInv, NEW q, NEW R, NEW n, NEW s,
           Pricing(g, q, R, n, s), Rate(g)
    PROVE  Pricing(g, q, R, n, s)' /\ pc' = [pc EXCEPT ![g] = "scale"] /\ job' = job
<1>1. PICK S, todo : S = Source(q.entry, q.embedded) /\ todo = SubSeq(q.parts, n + 1, Len(q.parts))
  OBVIOUS
<1>2. /\ q \in Requests /\ n \in 0..Len(q.parts) /\ IsWorth(R, S) /\ held[g] = R
      /\ job[g] = [request |-> q, todo |-> todo]
      /\ total(g) \in DOMAIN rat /\ rat[total(g)] = s[n]
  BY <1>1 DEF Pricing
<1>3. todo # <<>> /\ Len(q.parts) \in Nat
  BY <1>1, <1>2, NextPart DEF Rate
<1>4. n < Len(q.parts) /\ n + 1 \in DOMAIN q.parts /\ Head(todo) = q.parts[n + 1]
  <2>1. n # Len(q.parts)
    BY <1>1, <1>2, <1>3, NextPart
  <2>2. n < Len(q.parts)
    BY <1>2, <1>3, <2>1
  <2> QED BY <1>1, <1>2, <2>2, NextPart
<1>5. IsPriced(S, q.parts[n + 1].at)
  BY <1>1, <1>2, <1>4, RequestAssumption
<1>6. PICK r : r = Rated(q, n + 1)
  OBVIOUS
<1>7. rat[At(g, Head(job[g].todo).at)] * Head(job[g].todo).tokens = r
  <2>1. job[g].todo = todo
    BY <1>2
  <2>2. rat[At(g, q.parts[n + 1].at)] = Price(q, q.parts[n + 1].at)
    BY <1>1, <1>2, <1>5, AtWorth DEF Price
  <2> QED BY <1>4, <1>6, <2>1, <2>2 DEF Rated
<1> DEFINE h == [x \in {usd(g)} |-> r]
<1>8. rat' = Over(Over(rat, h), h) /\ box' = box
  BY <1>7 DEF Rate, Set, Receiver
<1>9. DOMAIN h = {usd(g)} /\ h[usd(g)] = r
  OBVIOUS
<1> HIDE DEF h
<1>10. IsWorth(R, S)'
  BY <1>2, <1>8, <1>9, SumsWrite
<1>11. usd(g) # total(g)
  BY SumCells
<1>12. /\ usd(g) \in DOMAIN rat' /\ rat'[usd(g)] = r
       /\ total(g) \in DOMAIN rat' /\ rat'[total(g)] = s[n]
  BY <1>2, <1>8, <1>9, <1>11 DEF Over
<1>13. pc' = [pc EXCEPT ![g] = "scale"] /\ job' = job /\ held' = held
  BY DEF Rate
<1> QED BY <1>1, <1>4, <1>6, <1>10, <1>12, <1>13 DEF Pricing

\* Times the multiplier, and added.
LEMMA ScaleSums ==
    ASSUME SumInv, NEW g \in Goroutines, OwnInv, NEW q, NEW R, NEW n, NEW s,
           Pricing(g, q, R, n, s), Scale(g)
    PROVE  \E t : Pricing(g, q, R, n + 1, t)'
<1>1. PICK S, todo : S = Source(q.entry, q.embedded) /\ todo = SubSeq(q.parts, n + 1, Len(q.parts))
  OBVIOUS
<1>2. /\ q \in Requests /\ n \in 0..Len(q.parts) /\ IsWorth(R, S) /\ held[g] = R
      /\ job[g] = [request |-> q, todo |-> todo] /\ Sums(q, n, s)
      /\ total(g) \in DOMAIN rat /\ rat[total(g)] = s[n]
      /\ n < Len(q.parts) /\ usd(g) \in DOMAIN rat /\ rat[usd(g)] = Rated(q, n + 1)
  BY <1>1 DEF Pricing, Scale
<1>3. /\ Len(q.parts) \in Nat /\ Tail(todo) = SubSeq(q.parts, n + 2, Len(q.parts))
  BY <1>1, <1>2, NextPart
<1>4. n \in Nat /\ n + 1 \in 0..Len(q.parts) /\ (n + 1) + 1 = n + 2
  BY <1>2, <1>3
<1>5. PICK t : Sums(q, n + 1, t) /\ t[n + 1] = s[n] + Charge(q, n + 1)
  BY <1>2, <1>4, NextSum
<1>6. PICK c : c = Charge(q, n + 1)
  OBVIOUS
<1>7. (IF job[g].request.mult = <<>> THEN rat[usd(g)] ELSE rat[usd(g)] * rat[At(g, job[g].request.mult)]) = c
  <2>1. job[g].request = q
    BY <1>2
  <2>2. CASE q.mult = <<>>
    BY <1>2, <1>6, <2>1, <2>2 DEF Charge
  <2>3. CASE q.mult # <<>>
    <3>1. IsPriced(S, q.mult)
      BY <1>1, <1>2, <2>3, RequestAssumption
    <3>2. rat[At(g, q.mult)] = Price(q, q.mult)
      BY <1>1, <1>2, <3>1, AtWorth DEF Price
    <3> QED BY <1>2, <1>6, <2>1, <2>3, <3>2 DEF Charge
  <2> QED BY <2>2, <2>3
<1>8. PICK v : v = rat[total(g)] + c
  OBVIOUS
<1> DEFINE h == [x \in {usd(g)} |-> c]
           more == [x \in {total(g)} |-> v]
<1>9. rat' = Over(Over(rat, h), more) /\ box' = box
  BY <1>7, <1>8 DEF Scale, Set
<1>10. DOMAIN h = {usd(g)} /\ DOMAIN more = {total(g)} /\ more[total(g)] = v
  OBVIOUS
<1> HIDE DEF h, more
<1>11. IsWorth(R, S)'
  BY <1>2, <1>9, <1>10, SumsWrite
<1>12. total(g) \in DOMAIN rat' /\ rat'[total(g)] = v
  BY <1>9, <1>10 DEF Over
<1>13. v = t[n + 1]
  BY <1>2, <1>5, <1>6, <1>8
<1>14. pc'[g] = "rate" /\ held'[g] = R
  BY <1>2 DEF Scale, OwnInv
<1>15. job'[g] = [request |-> q, todo |-> Tail(todo)]
  <2>1. job' = [job EXCEPT ![g].todo = Tail(@)] /\ g \in DOMAIN job
    BY DEF Scale, SumInv
  <2>2. job'[g] = [job[g] EXCEPT !.todo = Tail(job[g].todo)]
    BY <2>1
  <2>3. job[g].todo = todo
    BY <1>2
  <2>4. PICK rest : rest = Tail(todo)
    OBVIOUS
  <2>5. [[request |-> q, todo |-> todo] EXCEPT !.todo = rest] = [request |-> q, todo |-> rest]
    OBVIOUS
  <2> QED BY <1>2, <2>2, <2>3, <2>4, <2>5
<1>16. Pricing(g, q, R, n + 1, t)'
  BY <1>1, <1>2, <1>3, <1>4, <1>5, <1>11, <1>12, <1>13, <1>14, <1>15 DEF Pricing
<1> QED BY <1>16

\* The answer is the sum of all.
LEMMA ReturnSums ==
    ASSUME SumInv, NEW g \in Goroutines, Return(g)
    PROVE  \A x \in answers' : /\ x[1] \in Requests
                               /\ \E s : Sums(x[1], Len(x[1].parts), s) /\ x[2] = s[Len(x[1].parts)]
<1>1. PICK q, R, n, s : Pricing(g, q, R, n, s)
  BY DEF SumInv, Return
<1>2. PICK todo : todo = SubSeq(q.parts, n + 1, Len(q.parts))
  OBVIOUS
<1>3. /\ q \in Requests /\ n \in 0..Len(q.parts) /\ Sums(q, n, s)
      /\ job[g] = [request |-> q, todo |-> todo] /\ rat[total(g)] = s[n]
  BY <1>1, <1>2 DEF Pricing
<1>4. todo = <<>> /\ job[g].request = q
  BY <1>3 DEF Return
<1>5. n = Len(q.parts)
  BY <1>2, <1>3, <1>4, NextPart
<1>6. PICK v : v = s[n]
  OBVIOUS
<1>7. answers' = answers \cup {<<q, v>>}
  BY <1>3, <1>4, <1>6 DEF Return
<1>8. <<q, v>>[1] = q /\ <<q, v>>[2] = v
  OBVIOUS
<1>9. q \in Requests /\ \E t : Sums(q, Len(q.parts), t) /\ v = t[Len(q.parts)]
  BY <1>3, <1>5, <1>6
<1> TAKE x \in answers'
<1>10. CASE x \in answers
  BY <1>10 DEF SumInv
<1>11. CASE x = <<q, v>>
  BY <1>8, <1>9, <1>11
<1> QED BY <1>7, <1>10, <1>11

----------------------------------------------------------------------------
(* Every action keeps the sums.                                            *)

Acts(g) == \/ \E e \in Entries : RatesFor(g, e)
           \/ Write(g) \/ Drop(g)
           \/ \E q \in Requests : Cost(g, q)
           \/ Rate(g) \/ Scale(g) \/ Return(g)

\* The others' sums, and the answers there are.
LEMMA OthersSum ==
    ASSUME OwnInv, SumInv, NEW g \in Goroutines, Acts(g), NEW x \in Goroutines, x # g,
           pc'[x] \in {"rate", "scale"}
    PROVE  \E q, R, n, s : Pricing(x, q, R, n, s)'
<1>1. pc'[x] = pc[x] /\ held'[x] = held[x] /\ job'[x] = job[x]
  BY DEF Acts, RatesFor, Write, Drop, Cost, Rate, Scale, Return, OwnInv, SumInv
<1>2. PICK q, R, n, s : Pricing(x, q, R, n, s)
  BY <1>1 DEF SumInv
<1>3. OnlyOf(g) /\ g # "snapshot"
  BY Alone, Strangers DEF Acts
<1>4. Pricing(x, q, R, n, s)'
  BY <1>1, <1>2, <1>3, PricingKept
<1> QED BY <1>4

LEMMA OwnSum ==
    ASSUME OwnInv, WorthInv, WorthInv', SumInv, NEW g \in Goroutines, Acts(g),
           pc'[g] \in {"rate", "scale"}
    PROVE  \E q, R, n, s : Pricing(g, q, R, n, s)'
<1>1. CASE \E e \in Entries : RatesFor(g, e)
  BY <1>1 DEF RatesFor, OwnInv
<1>2. CASE Write(g) \/ Drop(g) \/ Return(g)
  BY <1>2 DEF Write, Drop, Return, OwnInv
<1>3. CASE \E q \in Requests : Cost(g, q)
  BY <1>3, CostSums
<1>4. CASE Rate(g)
  <2>1. PICK q, R, n, s : Pricing(g, q, R, n, s)
    BY <1>4 DEF SumInv, Rate
  <2>2. Pricing(g, q, R, n, s)'
    BY <1>4, <2>1, RateSums
  <2> QED BY <2>2
<1>5. CASE Scale(g)
  <2>1. PICK q, R, n, s : Pricing(g, q, R, n, s)
    BY <1>5 DEF SumInv, Scale
  <2>2. \E t : Pricing(g, q, R, n + 1, t)'
    BY <1>5, <2>1, ScaleSums
  <2>3. PICK m : m = n + 1
    OBVIOUS
  <2> QED BY <2>2, <2>3
<1> QED BY <1>1, <1>2, <1>3, <1>4, <1>5 DEF Acts

LEMMA ActsSum ==
    ASSUME OwnInv, WorthInv, SumInv, NEW g \in Goroutines, Acts(g)
    PROVE  WorthInv' /\ SumInv'
<1>1. OnlyOf(g) /\ g \notin TableOwners
  BY Alone, Strangers DEF Acts
<1>2. UNCHANGED table /\ pc[g] # "new" /\ \A x \in Goroutines : pc'[x] = pc[x] \/ pc'[x] # "new"
  BY DEF Acts, RatesFor, Write, Drop, Cost, Rate, Scale, Return, OwnInv
<1>3. \A x \in Goroutines : pc[x] # "new"
  BY <1>2 DEF WorthInv
<1>4. \A x \in Goroutines : pc'[x] # "new"
  BY <1>2, <1>3
<1>5. WorthInv'
  BY <1>1, <1>2, <1>4, WorthStays
<1>6. job' = [x \in Goroutines |-> job'[x]]
  BY DEF Acts, RatesFor, Write, Drop, Cost, Rate, Scale, Return, SumInv
<1>7. \A x \in Goroutines : pc'[x] \in {"rate", "scale"} => \E q, R, n, s : Pricing(x, q, R, n, s)'
  BY <1>5, OthersSum, OwnSum
<1>8. \A x \in answers' : /\ x[1] \in Requests
                          /\ \E s : Sums(x[1], Len(x[1].parts), s) /\ x[2] = s[Len(x[1].parts)]
  <2>1. CASE Return(g)
    BY <2>1, ReturnSums
  <2>2. CASE ~ Return(g)
    <3>1. answers' = answers
      BY <2>2 DEF Acts, RatesFor, Write, Drop, Cost, Rate, Scale
    <3> QED BY <3>1 DEF SumInv
  <2> QED BY <2>1, <2>2
<1>9. SumInv'
  BY <1>6, <1>7, <1>8 DEF SumInv
<1> QED BY <1>5, <1>9

LEMMA ConfigSums ==
    ASSUME OwnInv, WorthInv, SumInv, NEW e \in DOMAIN Overrides, WriteConfig(e)
    PROVE  WorthInv' /\ SumInv'
<1>1. /\ UNCHANGED <<table, pc, held, job, answers>> /\ Scribble(Overrides[e])
      /\ \A g \in Goroutines : pc[g] # "new"
  BY DEF WriteConfig
<1>2. OnlyOf("config")
  <2>1. Refers(Overrides[e], {"config"}) /\ BoxesSound
    BY DEF OwnInv, BoxesSound
  <2> QED BY <1>1, <2>1, ScribbleAlone
<1>3. WorthInv'
  <2>1. Goroutines # {} => \E g \in Goroutines : pc[g] # "new"
    BY <1>1
  <2> QED BY <1>1, <1>2, <2>1, Strangers, WorthStays
<1>4. ASSUME NEW g \in Goroutines, pc'[g] \in {"rate", "scale"}
      PROVE  \E q, R, n, s : Pricing(g, q, R, n, s)'
  <2>1. PICK q, R, n, s : Pricing(g, q, R, n, s)
    BY <1>1, <1>4 DEF SumInv
  <2>2. "config" # g /\ "config" # "snapshot"
    BY Strangers
  <2>3. Pricing(g, q, R, n, s)'
    BY <1>1, <1>2, <2>1, <2>2, PricingKept
  <2> QED BY <2>3
<1>5. SumInv'
  BY <1>1, <1>4 DEF SumInv
<1> QED BY <1>3, <1>5

LEMMA SumsInit == Init => SumInv
<1> SUFFICES ASSUME Init PROVE SumInv
  OBVIOUS
<1>1. /\ pc = [g \in Goroutines |-> "new"] /\ job = [g \in Goroutines |-> NoJob]
      /\ answers = {}
  BY DEF Init
<1> QED BY <1>1 DEF SumInv

LEMMA SumStep == OwnInv /\ WorthInv /\ SumInv /\ [Next]_vars => WorthInv' /\ SumInv'
<1> SUFFICES ASSUME OwnInv, WorthInv, SumInv, [Next]_vars PROVE WorthInv' /\ SumInv'
  OBVIOUS
<1>1. CASE NewFrom
  <2>1. \A g \in Goroutines : pc'[g] \notin {"rate", "scale"}
    BY <1>1 DEF NewFrom
  <2>2. UNCHANGED <<job, answers>>
    BY <1>1 DEF NewFrom
  <2>3. SumInv'
    BY <2>1, <2>2 DEF SumInv
  <2> QED BY <1>1, <2>3, WorthNewFrom
<1>2. CASE \E e \in DOMAIN Overrides : WriteConfig(e)
  BY <1>2, ConfigSums
<1>3. CASE \E g \in Goroutines : Acts(g)
  BY <1>3, ActsSum
<1>4. CASE UNCHANGED vars
  <2>1. UNCHANGED <<rat, box, table, pc, held, job, answers>>
    BY <1>4 DEF vars
  <2>2. ASSUME NEW R, NEW S, IsWorth(R, S) PROVE IsWorth(R, S)'
    BY <2>1, <2>2 DEF IsWorth, Worth
  <2>3. WorthInv'
    <3>1. \A e \in Entries : IsWorth(Snapshot[e], Snapshot[e])'
      BY <2>2 DEF WorthInv
    <3>2. ASSUME NEW e \in Entries, NEW g \in Goroutines, pc'[g] # "new"
          PROVE  IsWorth(table[e], Source(e, FALSE))'
      <4>1. PICK R, S : R = table[e] /\ S = Source(e, FALSE)
        OBVIOUS
      <4>2. IsWorth(R, S)
        BY <2>1, <3>2, <4>1 DEF WorthInv
      <4>3. IsWorth(R, S)' /\ table'[e] = R
        BY <2>1, <2>2, <4>1, <4>2
      <4> QED BY <4>1, <4>3
    <3> QED BY <2>1, <3>1, <3>2 DEF WorthInv
  <2>4. ASSUME NEW g \in Goroutines, pc'[g] \in {"rate", "scale"}
        PROVE  \E q, R, n, s : Pricing(g, q, R, n, s)'
    <3>1. PICK q, R, n, s : Pricing(g, q, R, n, s)
      BY <2>1, <2>4 DEF SumInv
    <3>2. IsWorth(R, Source(q.entry, q.embedded))'
      BY <2>2, <3>1 DEF Pricing
    <3>3. Pricing(g, q, R, n, s)'
      BY <2>1, <3>1, <3>2 DEF Pricing
    <3> QED BY <3>3
  <2>5. SumInv'
    BY <2>1, <2>4 DEF SumInv
  <2> QED BY <2>3, <2>5
<1> QED BY <1>1, <1>2, <1>3, <1>4 DEF Next, Acts

\* The same request has the same answer, whoever else prices, writes or is
\* half way through, for every table, every number of goroutines and every
\* request whose parts have rates: it is the sum, from the numbers that were
\* declared, which no step has written to.
THEOREM SameAnswers == Spec => []AnswersAgree
<1>1. Init => OwnInv /\ WorthInv /\ SumInv
  BY OwnInit, WorthInit, SumsInit
<1>2. (OwnInv /\ WorthInv /\ SumInv) /\ [Next]_vars => (OwnInv /\ WorthInv /\ SumInv)'
  BY OwnStep, SumStep
<1>3. SumInv => AnswersAgree
  <2> SUFFICES ASSUME SumInv, NEW x \in answers, NEW y \in answers, x[1] = y[1]
               PROVE  x[2] = y[2]
    BY DEF AnswersAgree
  <2>1. PICK q, n : q = x[1] /\ n = Len(q.parts)
    OBVIOUS
  <2>2. q \in Requests /\ n \in Nat
    BY <2>1, RequestAssumption DEF SumInv
  <2>3. PICK s : Sums(q, n, s) /\ x[2] = s[n]
    BY <2>1 DEF SumInv
  <2>4. PICK t : Sums(q, n, t) /\ y[2] = t[n]
    BY <2>1 DEF SumInv
  <2> QED BY <2>2, <2>3, <2>4, OneSum
<1> QED BY <1>1, <1>2, <1>3, PTL DEF Spec
=============================================================================
