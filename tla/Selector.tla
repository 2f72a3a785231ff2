------------------------------ MODULE Selector ------------------------------
(***************************************************************************)
(* selector.go as it runs: ModelSelector.Key called by any number of       *)
(* goroutines, and the canonical-name index the first of them to need it   *)
(* builds (sync.OnceValue) while the others wait.  Both loops range over a *)
(* Go map, whose order is any order: the index takes the keys one by one   *)
(* as they come, and Key meets the dated variants of a name likewise.  A   *)
(* process may end and a new one, with a new order, answer the same        *)
(* selector again; answers is what all of them have said so far.           *)
(***************************************************************************)
EXTENDS KeyGrammar, FiniteSets

CONSTANTS Table,        \* pricing key -> litellm_provider, for the keys with standard rates
          Selectors,    \* the selectors callers hold
          Callers,      \* goroutines
          NoKey,        \* ok = false
          MaxRestarts   \* bound on process restarts

Keys == DOMAIN Table

ASSUME NoKeyAssumption == NoKey \notin Keys
ASSUME BoundAssumption == MaxRestarts \in Nat

VARIABLES once,      \* "unbuilt", "building" or "built": the OnceValue of canonicalIndexes
          pending,   \* keys the building loop has yet to meet
          best,      \* name -> the key that holds it
          dead,      \* the names dropped
          sel,       \* the selector that is asked for
          at,        \* caller -> where it is in Key
          refs,      \* caller -> names the loop of Key has yet to meet
          match,     \* caller -> the dated variant it has found, or NoKey
          answers,   \* the keys Key has returned, NoKey for a failure
          restarts

index == <<once, pending, best, dead>>
callers == <<at, refs, match>>
vars == <<index, sel, callers, answers, restarts>>

----------------------------------------------------------------------------
(* What a key claims.                                                      *)

CanonicalKeys == {k \in Keys : canonicalize(k, Table[k]) # {}}
claims == [k \in CanonicalKeys |-> CHOOSE x \in canonicalize(k, Table[k]) : TRUE]
prio(k) == claims[k].prio
refOf == [k \in CanonicalKeys |-> [provider |-> claims[k].provider, name |-> claims[k].name,
                                   region |-> claims[k].region]]
ref(k) == refOf[k]

Refs == {ref(k) : k \in CanonicalKeys}
Claimants(n) == {k \in CanonicalKeys : ref(k) = n}

\* The name a selector spells, and the names of its provider and region.
Wanted(s) == [provider |-> s.Provider, name |-> s.Model, region |-> Lower(s.Region)]
Dated(s) == {n \in Refs : /\ n.provider = s.Provider /\ n.region = Lower(s.Region)
                          /\ isDatedVariantOf(n.name, s.Model)}

----------------------------------------------------------------------------
Init == /\ once = "unbuilt" /\ pending = Keys /\ best = <<>> /\ dead = {}
        /\ at = [g \in Callers |-> "idle"]
        /\ refs = [g \in Callers |-> {}]
        /\ match = [g \in Callers |-> NoKey]
        /\ sel \in Selectors
        /\ answers = {}
        /\ restarts = 0

(* canonicalIndexes, run once by the first caller that needs it.           *)

Without(f, n) == [x \in DOMAIN f \ {n} |-> f[x]]
With(f, n, v) == [x \in DOMAIN f \cup {n} |-> IF x = n THEN v ELSE f[x]]

\* Faulty variants of the loop body: a name without its region, a tie that is
\* not remembered, and the worse spelling preferred.
AdmitSansRegion(k) ==
    /\ once = "building" /\ k \in pending
    /\ pending' = pending \ {k}
    /\ best' = IF k \in CanonicalKeys THEN With(best, [ref(k) EXCEPT !.region = ""], k) ELSE best
    /\ UNCHANGED <<dead, once, sel, callers, answers, restarts>>
AdmitForgetful(k) ==
    /\ once = "building" /\ k \in pending
    /\ pending' = pending \ {k}
    /\ best' = IF k \notin CanonicalKeys THEN best
               ELSE IF ref(k) \notin DOMAIN best \/ prio(k) < prio(best[ref(k)])
               THEN With(best, ref(k), k)
               ELSE IF prio(k) = prio(best[ref(k)]) THEN Without(best, ref(k)) ELSE best
    /\ UNCHANGED <<dead, once, sel, callers, answers, restarts>>
AdmitWorst(k) ==
    /\ once = "building" /\ k \in pending
    /\ pending' = pending \ {k}
    /\ IF k \in CanonicalKeys /\ (ref(k) \in DOMAIN best => prio(k) > prio(best[ref(k)]))
       THEN best' = With(best, ref(k), k)
       ELSE UNCHANGED best
    /\ UNCHANGED <<dead, once, sel, callers, answers, restarts>>

\* The loop body for one key.
Admit(k) ==
    /\ once = "building" /\ k \in pending
    /\ pending' = pending \ {k}
    /\ IF k \notin CanonicalKeys \/ ref(k) \in dead
       THEN UNCHANGED <<best, dead>>
       ELSE IF ref(k) \notin DOMAIN best \/ prio(k) < prio(best[ref(k)])
       THEN best' = With(best, ref(k), k) /\ UNCHANGED dead
       ELSE IF prio(k) = prio(best[ref(k)])
       THEN best' = Without(best, ref(k)) /\ dead' = dead \cup {ref(k)}
       ELSE UNCHANGED <<best, dead>>
    /\ UNCHANGED <<once, sel, callers, answers, restarts>>

\* Faulty variant: the index is built and not remembered.
PublishForgotten == /\ once = "building" /\ pending = {}
                    /\ once' = "unbuilt"
                    /\ UNCHANGED <<pending, best, dead, sel, callers, answers, restarts>>

Publish == /\ once = "building" /\ pending = {}
           /\ once' = "built"
           /\ UNCHANGED <<pending, best, dead, sel, callers, answers, restarts>>

----------------------------------------------------------------------------
(* ModelSelector.Key.                                                      *)

Goto(g, l) == at' = [at EXCEPT ![g] = l]
Return(g, k) == /\ Goto(g, "idle")
                /\ answers' = answers \cup {k}
                /\ refs' = [refs EXCEPT ![g] = {}]
                /\ match' = [match EXCEPT ![g] = NoKey]
                /\ UNCHANGED <<index, sel, restarts>>

\* Faulty variants: no ownership check, and the index asked for the key.
HeldByAnyone(s, ids) == ids \cap Keys
HeldInIndex(s, ids) == {k \in ids : \E n \in DOMAIN best : best[n] = k}

\* nativeKey: a key the table holds and the provider owns.
Held(s, ids) == {k \in ids : k \in Keys /\ owns(s.Provider, Table[k])}
nativeKey(s) == IF Held(s, NativeIds(s)) # {} THEN Held(s, NativeIds(s))
                ELSE Held(s, MantleIds(s))

Key(g) == /\ at[g] = "idle"
          /\ IF nativeKey(sel) # {}
             THEN \E k \in nativeKey(sel) : Return(g, k)
             ELSE Goto(g, "index") /\ UNCHANGED <<index, sel, refs, match, answers, restarts>>

\* The first to call canonicalIndexes builds; every other waits for "built".
StartBuild(g) == /\ at[g] = "index" /\ once = "unbuilt"
                 /\ once' = "building"
                 /\ UNCHANGED <<pending, best, dead, sel, callers, answers, restarts>>

\* The exact name, else the loop over the provider's names begins.
Exact(g) == /\ at[g] = "index" /\ once = "built"
            /\ IF Wanted(sel) \in DOMAIN best
               THEN Return(g, best[Wanted(sel)])
               ELSE /\ Goto(g, "scan")
                    /\ refs' = [refs EXCEPT ![g] = DOMAIN best \cap Dated(sel)]
                    /\ UNCHANGED <<index, sel, match, answers, restarts>>

\* Faulty variant: the first dated variant is the answer.
ScanFirst(g, n) == at[g] = "scan" /\ n \in refs[g] /\ Return(g, best[n])

\* The loop meets the next dated variant, in any order; a second one fails.
Scan(g, n) == /\ at[g] = "scan" /\ n \in refs[g]
              /\ IF match[g] # NoKey
                 THEN Return(g, NoKey)
                 ELSE /\ match' = [match EXCEPT ![g] = best[n]]
                      /\ refs' = [refs EXCEPT ![g] = @ \ {n}]
                      /\ UNCHANGED <<index, sel, at, answers, restarts>>

EndScan(g) == /\ at[g] = "scan" /\ refs[g] = {}
              /\ Return(g, match[g])

----------------------------------------------------------------------------
\* The process ends, at any moment, and a new one starts.
Restart == /\ restarts < MaxRestarts
           /\ restarts' = restarts + 1
           /\ once' = "unbuilt" /\ pending' = Keys /\ best' = <<>> /\ dead' = {}
           /\ at' = [g \in Callers |-> "idle"]
           /\ refs' = [g \in Callers |-> {}]
           /\ match' = [g \in Callers |-> NoKey]
           /\ UNCHANGED <<sel, answers>>

Build == Publish \/ \E k \in Keys : Admit(k)
Run(g) == Key(g) \/ StartBuild(g) \/ Exact(g) \/ EndScan(g) \/ \E n \in Refs : Scan(g, n)

Next == \/ Build
        \/ \E g \in Callers : Run(g)
        \/ Restart

Spec == Init /\ [][Next]_vars

\* The goroutine that builds and the callers it unblocks are runnable, and a
\* runnable goroutine is eventually run.
FairSpec == Spec /\ WF_vars(Build) /\ \A g \in Callers : WF_vars(Run(g))

----------------------------------------------------------------------------
(* Properties.                                                             *)

TypeOK ==
    /\ once \in {"unbuilt", "building", "built"}
    /\ pending \subseteq Keys
    /\ DOMAIN best \subseteq Refs /\ \A n \in DOMAIN best : best[n] \in Claimants(n)
    /\ dead \subseteq Refs
    /\ sel \in Selectors
    /\ at \in [Callers -> {"idle", "index", "scan"}]
    /\ refs \in [Callers -> SUBSET Refs]
    /\ match \in [Callers -> Keys \cup {NoKey}]
    /\ answers \subseteq Keys \cup {NoKey}
    /\ restarts \in 0 .. MaxRestarts

\* k is the one standard spelling of its name: every other claimant has a
\* strictly worse priority.
Standard(k) == \A x \in Claimants(ref(k)) \ {k} : prio(k) < prio(x)

\* Fail closed: whatever order the keys come in, a key that holds a name in
\* the finished index is the unique best of all the keys that claim it.
WinnerIsUniqueBest ==
    once = "built" => \A n \in DOMAIN best : Standard(best[n])

\* "the standard form wins by canonicalize's priority order".
StandardFormWins ==
    once = "built" => \A k \in CanonicalKeys : Standard(k) =>
       ref(k) \in DOMAIN best /\ best[ref(k)] = k

\* No two rivals tie below the standard form of their name.
NoOutrankedTie ==
    \A x, y, k \in CanonicalKeys :
       x # y /\ ref(x) = ref(y) /\ prio(x) = prio(y) /\ ref(k) = ref(x) => ~ Standard(k)

\* A selector is never answered with another provider's key, nor with a key
\* of another region or another model: a native answer is the id itself, a
\* canonical one claims the very name, or a dated variant of it, in the very
\* region.
Asked(k) ==
    /\ owns(sel.Provider, Table[k])
    /\ \/ k \in NativeIds(sel) \cup MantleIds(sel)
       \/ k \in CanonicalKeys /\ ref(k) \in {Wanted(sel)} \cup Dated(sel)
AnswerIsWhatWasAsked == \A k \in answers \ {NoKey} : Asked(k)

\* Key is deterministic: the same selector over the same table has one
\* answer, for every goroutine, every map order and every process.
Deterministic == Cardinality(answers) <= 1

\* Every call returns: nobody waits for ever on the index, and the loops end.
EveryCallReturns == \A g \in Callers : at[g] # "idle" ~> at[g] = "idle"

\* "Resolves to the provider's dated variant when exactly one exists and FAILS
\* when several do - never guessing which date the caller meant" (selector.go
\* :73-75).  Not so where a spelling tie drops all the other dates.
UndatedOfManyFails ==
    \A k \in answers \ {NoKey} :
       k \notin NativeIds(sel) \cup MantleIds(sel) /\ ref(k) \in Dated(sel)
         => Dated(sel) = {ref(k)}

\* And so it is where no tie has dropped a date from the index.
UndatedNeverGuessed ==
    (\A n \in Dated(sel) : \E k \in Claimants(n) : Standard(k)) => UndatedOfManyFails

\* "Dropped or outranked spellings remain reachable via their native ids"
\* (selector.go:380).  Not so of a Vertex key without the prefix, which no
\* native id spells (selector.go:225).
DroppedStaysReachable ==
    once = "built" => \A k \in CanonicalKeys :
       (ref(k) \notin DOMAIN best \/ best[ref(k)] # k) =>
          \/ ref(k).provider = "vertex_ai" /\ k.prefix = ""
          \/ \E m \in {k, [k EXCEPT !.prefix = ""], [k EXCEPT !.prefix = "", !.path = <<>>]},
                region \in {""} \cup {k.path[i] : i \in DOMAIN k.path} :
                k \in nativeKey([Provider |-> ref(k).provider, Model |-> m, Region |-> region])

----------------------------------------------------------------------------
(* The invariant the proofs rest on.                                       *)

\* Of the claimants met so far, the holder of a name is strictly the best; a
\* name without a holder is dead, two of them having tied, or not yet met.
IndexInv ==
    /\ once = "built" => pending = {}
    /\ \A n \in DOMAIN best :
          /\ best[n] \in Claimants(n) \ pending
          /\ \A x \in Claimants(n) \ (pending \cup {best[n]}) : prio(best[n]) < prio(x)
    /\ \A k \in CanonicalKeys \ pending : ref(k) \in DOMAIN best \cup dead
    /\ DOMAIN best \cap dead = {}
    /\ \A n \in dead : \E x, y \in Claimants(n) : x # y /\ prio(x) = prio(y)

\* A caller scans a finished index for dated variants of what it asked for.
ScanInv ==
    \A g \in Callers :
       /\ IF at[g] = "scan" THEN once = "built" ELSE refs[g] = {}
       /\ refs[g] \subseteq DOMAIN best \cap Dated(sel)
       /\ match[g] # NoKey => match[g] \in CanonicalKeys /\ ref(match[g]) \in Dated(sel)

\* What the finished index holds where no outranked spellings tie, and the one
\* answer it then leads to.
Listed == {k \in CanonicalKeys : Standard(k)}
Variants == {k \in Listed : ref(k) \in Dated(sel)}
Owed(k) ==
    IF nativeKey(sel) # {} THEN k \in nativeKey(sel)
    ELSE IF \E x \in Listed : ref(x) = Wanted(sel) THEN k \in Listed /\ ref(k) = Wanted(sel)
    ELSE IF \E x \in Variants : Variants = {x} THEN Variants = {k}
    ELSE k = NoKey

\* Between its match and the names it has yet to meet, a scan misses no dated
\* variant and counts none twice.
OwedInv ==
    /\ \A k \in answers : Owed(k)
    /\ \A g \in Callers :
          /\ at[g] # "idle" => nativeKey(sel) = {}
          /\ at[g] # "scan" => match[g] = NoKey
          /\ at[g] = "scan" => Wanted(sel) \notin DOMAIN best
          /\ at[g] = "scan" /\ match[g] = NoKey => refs[g] = DOMAIN best \cap Dated(sel)
          /\ match[g] # NoKey =>
                /\ ref(match[g]) \in DOMAIN best \ refs[g]
                /\ match[g] = best[ref(match[g])]
                /\ DOMAIN best \cap Dated(sel) = refs[g] \cup {ref(match[g])}

Inv == TypeOK /\ IndexInv /\ ScanInv /\ AnswerIsWhatWasAsked
=============================================================================
