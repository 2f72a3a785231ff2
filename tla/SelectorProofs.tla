--------------------------- MODULE SelectorProofs ---------------------------
(***************************************************************************)
(* What holds of the canonical-name index and of ModelSelector.Key for     *)
(* every table, every selector and every number of goroutines: the index   *)
(* is fail-closed in any map order, the standard form wins where no two    *)
(* outranked spellings tie, and no answer names another provider's key.    *)
(***************************************************************************)
EXTENDS Selector, FiniteSetTheorems, TLAPS

\* A claim carries the provider and the priority it was made with.
LEMMA ClaimFields ==
    ASSUME NEW provider, NEW name, NEW region, NEW i, NEW x \in Claim(provider, name, region, i)
    PROVE  x.provider = provider /\ x.prio = i
BY DEF Claim

\* A claim's priority is a number, and its provider owns the key.
LEMMA ClaimSound ==
    ASSUME NEW id, NEW lp, NEW x \in canonicalize(id, lp)
    PROVE  x.prio \in 0 .. 2 /\ owns(x.provider, lp)
<1>1. CASE owns("bedrock", lp)
  <2>1. x \in BedrockClaim(id)
    BY <1>1 DEF canonicalize
  <2>2. \E name, region, i : i \in {0, 1, 2} /\ x \in Claim("bedrock", name, region, i)
    BY <2>1, Zenon DEF BedrockClaim
  <2>3. x.provider = "bedrock" /\ x.prio \in 0 .. 2
    BY <2>2, ClaimFields
  <2> QED BY <1>1, <2>3 DEF owns
<1>2. CASE ~ owns("bedrock", lp) /\ owns("vertex_ai", lp)
  <2>1. x \in VertexClaim(id)
    BY <1>2 DEF canonicalize
  <2>2. \E name, region, i : i \in {0, 1, 2} /\ x \in Claim("vertex_ai", name, region, i)
    BY <2>1, Zenon DEF VertexClaim
  <2>3. x.provider = "vertex_ai" /\ x.prio \in 0 .. 2
    BY <2>2, ClaimFields
  <2> QED BY <1>2, <2>3 DEF owns
<1>3. CASE /\ ~ owns("bedrock", lp) /\ ~ owns("vertex_ai", lp)
           /\ owns("azure", lp) \/ owns("azure_ai", lp)
  <2>1. PICK provider \in {"azure", "azure_ai"} :
           owns(provider, lp) /\ x \in AzureClaim(provider, id)
    BY <1>3 DEF canonicalize
  <2>2. \E name, region, i : i \in {0, 1, 2} /\ x \in Claim(provider, name, region, i)
    BY <2>1, Zenon DEF AzureClaim
  <2>3. x.provider = provider /\ x.prio \in 0 .. 2
    BY <2>2, ClaimFields
  <2> QED BY <2>1, <2>3 DEF owns
<1> QED BY <1>1, <1>2, <1>3 DEF canonicalize

\* So of every key that has a claim.
LEMMA KeyClaims ==
    ASSUME NEW k \in CanonicalKeys
    PROVE  /\ prio(k) \in 0 .. 2
           /\ owns(ref(k).provider, Table[k])
           /\ k \in Keys
           /\ ref(k) \in Refs
           /\ k \in Claimants(ref(k))
<1>1. k \in Keys /\ canonicalize(k, Table[k]) # {}
  BY DEF CanonicalKeys
<1>2. claims[k] \in canonicalize(k, Table[k])
  BY <1>1 DEF claims
<1>3. prio(k) \in 0 .. 2 /\ owns(claims[k].provider, Table[k])
  BY <1>2, ClaimSound DEF prio
<1>4. ref(k).provider = claims[k].provider
  BY DEF ref, refOf
<1> QED BY <1>1, <1>3, <1>4 DEF Refs, Claimants

----------------------------------------------------------------------------
\* The inductive invariant holds at the start of the process.
LEMMA InitInv == Init => Inv
<1> SUFFICES ASSUME Init PROVE Inv
  OBVIOUS
<1>1. DOMAIN best = {}
  BY DEF Init
<1>2. TypeOK
  BY <1>1, BoundAssumption DEF Init, TypeOK
<1>3. IndexInv /\ ScanInv /\ AnswerIsWhatWasAsked
  BY <1>1 DEF Init, IndexInv, ScanInv, AnswerIsWhatWasAsked, CanonicalKeys
<1> QED BY <1>2, <1>3 DEF Inv

\* One key more, and the holder of a name is still strictly the best of those
\* met: it is a new name's only claimant, or it beats the holder before it.
LEMMA AdmitIndex ==
    ASSUME Inv, NEW k \in Keys, Admit(k)
    PROVE  /\ IndexInv'
           /\ DOMAIN best' \subseteq Refs /\ \A n \in DOMAIN best' : best'[n] \in Claimants(n)
           /\ dead' \subseteq Refs
<1> DEFINE Holds(n) == /\ best'[n] \in Claimants(n) \ pending'
                       /\ \A x \in Claimants(n) \ (pending' \cup {best'[n]}) :
                             prio(best'[n]) < prio(x)
<1> DEFINE Met == \A x \in CanonicalKeys \ pending' : ref(x) \in DOMAIN best' \cup dead'
<1> DEFINE Tied == \A n \in dead' : \E x, y \in Claimants(n) : x # y /\ prio(x) = prio(y)
<1>1. once = "building" /\ once' = once /\ k \in pending /\ pending' = pending \ {k}
  BY DEF Admit
<1>2. /\ \A n \in DOMAIN best :
             /\ best[n] \in Claimants(n) \ pending
             /\ \A x \in Claimants(n) \ (pending \cup {best[n]}) : prio(best[n]) < prio(x)
      /\ \A x \in CanonicalKeys \ pending : ref(x) \in DOMAIN best \cup dead
      /\ \A n \in dead : \E x, y \in Claimants(n) : x # y /\ prio(x) = prio(y)
      /\ DOMAIN best \subseteq Refs /\ dead \subseteq Refs
      /\ DOMAIN best \cap dead = {}
  BY DEF Inv, IndexInv, TypeOK
<1>3. \A n : \A x \in Claimants(n) : x \in CanonicalKeys /\ ref(x) = n /\ prio(x) \in Nat
  BY KeyClaims DEF Claimants
<1>4. SUFFICES /\ DOMAIN best' \subseteq Refs /\ dead' \subseteq Refs
               /\ \A n \in DOMAIN best' : Holds(n)
               /\ Met /\ Tied /\ DOMAIN best' \cap dead' = {}
  BY <1>1 DEF IndexInv
<1>5. CASE k \notin CanonicalKeys \/ ref(k) \in dead
  <2>1. best' = best /\ dead' = dead
    BY <1>5 DEF Admit
  <2>2. ASSUME NEW n \in DOMAIN best' PROVE Holds(n)
    <3>1. CASE k \notin Claimants(n)
      BY <1>1, <1>2, <2>1, <3>1
    <3>2. CASE k \in Claimants(n)
      BY <1>1, <1>2, <1>3, <1>5, <2>1, <3>2
    <3> QED BY <3>1, <3>2
  <2> QED BY <1>1, <1>2, <1>5, <2>1, <2>2
<1>6. CASE /\ k \in CanonicalKeys /\ ref(k) \notin dead
           /\ ref(k) \notin DOMAIN best \/ prio(k) < prio(best[ref(k)])
  <2>1. best' = With(best, ref(k), k) /\ dead' = dead
    BY <1>6 DEF Admit
  <2>2. /\ DOMAIN best' = DOMAIN best \cup {ref(k)}
        /\ best'[ref(k)] = k
        /\ \A n \in DOMAIN best \ {ref(k)} : best'[n] = best[n]
    BY <2>1 DEF With
  <2>3. ref(k) \in Refs /\ k \in Claimants(ref(k))
    BY <1>6, KeyClaims
  <2>4. Holds(ref(k))
    <3>1. ASSUME NEW x \in Claimants(ref(k)) \ (pending' \cup {k})
          PROVE  prio(k) < prio(x)
      <4>1. ref(k) \in DOMAIN best
        BY <1>1, <1>2, <1>3, <1>6, <3>1
      <4>2. prio(k) < prio(best[ref(k)]) /\ best[ref(k)] \in Claimants(ref(k))
        BY <1>2, <1>6, <4>1
      <4>3. x = best[ref(k)] \/ prio(best[ref(k)]) < prio(x)
        BY <1>1, <1>2, <4>1
      <4> QED BY <1>3, <2>3, <4>2, <4>3
    <3> QED BY <1>1, <2>2, <2>3, <3>1
  <2>5. ASSUME NEW n \in DOMAIN best \ {ref(k)} PROVE Holds(n)
    BY <1>1, <1>2, <1>3, <2>2
  <2> QED BY <1>1, <1>2, <1>6, <2>1, <2>2, <2>3, <2>4, <2>5
<1>7. CASE /\ k \in CanonicalKeys /\ ref(k) \notin dead
           /\ ref(k) \in DOMAIN best /\ prio(k) = prio(best[ref(k)])
  <2>1. best' = Without(best, ref(k)) /\ dead' = dead \cup {ref(k)}
    BY <1>2, <1>3, <1>7 DEF Admit
  <2>2. /\ DOMAIN best' = DOMAIN best \ {ref(k)}
        /\ \A n \in DOMAIN best' : best'[n] = best[n]
    BY <2>1 DEF Without
  <2>3. k \in Claimants(ref(k)) /\ best[ref(k)] \in Claimants(ref(k)) /\ k # best[ref(k)]
    BY <1>1, <1>2, <1>7, KeyClaims
  <2>4. Tied
    BY <1>2, <1>7, <2>1, <2>3
  <2>5. ASSUME NEW n \in DOMAIN best' PROVE Holds(n)
    BY <1>1, <1>2, <1>3, <2>2
  <2>6. ref(k) \in Refs
    BY <1>2, <1>7
  <2> QED BY <1>1, <1>2, <2>1, <2>2, <2>4, <2>5, <2>6
<1>8. CASE /\ k \in CanonicalKeys /\ ref(k) \notin dead
           /\ ref(k) \in DOMAIN best /\ prio(k) > prio(best[ref(k)])
  <2>1. best' = best /\ dead' = dead
    BY <1>2, <1>3, <1>8, KeyClaims DEF Admit
  <2>2. ASSUME NEW n \in DOMAIN best' PROVE Holds(n)
    BY <1>1, <1>2, <1>3, <1>8, <2>1
  <2> QED BY <1>1, <1>2, <1>8, <2>1, <2>2
<1>9. ref(k) \in DOMAIN best /\ k \in CanonicalKeys =>
         prio(k) \in Nat /\ prio(best[ref(k)]) \in Nat
  BY <1>2, <1>3, KeyClaims
<1> QED BY <1>5, <1>6, <1>7, <1>8, <1>9

\* Meeting one more key keeps the invariant: the key becomes the holder, kills the
\* name, or changes nothing.
LEMMA AdmitInv ==
    ASSUME Inv, NEW k \in Keys, Admit(k)
    PROVE  Inv'
<1>1. once = "building" /\ once' = once /\ pending' = pending \ {k}
      /\ UNCHANGED <<sel, at, refs, match, answers, restarts>>
  BY DEF Admit, callers
<1>2. TypeOK'
  BY <1>1, AdmitIndex DEF Inv, TypeOK
<1>3. /\ \A g \in Callers : at[g] # "scan" /\ refs[g] = {}
      /\ \A g \in Callers : match[g] # NoKey =>
            match[g] \in CanonicalKeys /\ ref(match[g]) \in Dated(sel)
  BY <1>1 DEF Inv, ScanInv
<1>4. ScanInv'
  BY <1>1, <1>3 DEF ScanInv
<1>5. AnswerIsWhatWasAsked'
  BY <1>1 DEF Inv, AnswerIsWhatWasAsked, Asked
<1> QED BY <1>2, <1>4, <1>5, AdmitIndex DEF Inv

\* Publishing the index changes no holder.
LEMMA PublishInv == ASSUME Inv, Publish PROVE Inv'
BY DEF Publish, callers, Inv, TypeOK, IndexInv, ScanInv, AnswerIsWhatWasAsked, Asked

\* A restart empties the index and keeps the answers.
LEMMA RestartInv == ASSUME Inv, Restart PROVE Inv'
<1>1. DOMAIN best' = {}
  BY DEF Restart
<1>2. TypeOK'
  BY <1>1, BoundAssumption DEF Restart, Inv, TypeOK
<1>3. IndexInv' /\ ScanInv' /\ AnswerIsWhatWasAsked'
  BY <1>1 DEF Restart, Inv, IndexInv, ScanInv, CanonicalKeys, AnswerIsWhatWasAsked, Asked
<1> QED BY <1>2, <1>3 DEF Inv

----------------------------------------------------------------------------
\* Key may return any key that was asked for, and no other.
LEMMA ReturnInv ==
    ASSUME Inv, NEW g \in Callers, NEW k \in Keys \cup {NoKey}, Return(g, k),
           k # NoKey => Asked(k)
    PROVE  Inv'
<1>1. TypeOK'
  BY DEF Inv, TypeOK, Return, Goto, index
<1>2. IndexInv'
  BY DEF Inv, IndexInv, Return, index
<1>3. ScanInv'
  BY DEF Inv, ScanInv, TypeOK, Return, Goto, index
<1>4. AnswerIsWhatWasAsked'
  BY DEF Inv, AnswerIsWhatWasAsked, Asked, Return
<1> QED BY <1>1, <1>2, <1>3, <1>4 DEF Inv

\* One goroutine takes the builder's part.
LEMMA StartBuildInv == ASSUME Inv, NEW g \in Callers, StartBuild(g) PROVE Inv'
BY DEF StartBuild, callers, Inv, TypeOK, IndexInv, ScanInv, AnswerIsWhatWasAsked, Asked

\* A native answer is the id the caller spelled, and the provider owns it.
LEMMA KeyInv == ASSUME Inv, NEW g \in Callers, Key(g) PROVE Inv'
<1>1. CASE nativeKey(sel) # {}
  <2>1. PICK k \in nativeKey(sel) : Return(g, k)
    BY <1>1 DEF Key
  <2>2. k \in NativeIds(sel) \cup MantleIds(sel) /\ k \in Keys /\ owns(sel.Provider, Table[k])
    BY DEF nativeKey, Held
  <2> QED BY <2>1, <2>2, ReturnInv DEF Asked
<1>2. CASE nativeKey(sel) = {}
  <2>1. at[g] = "idle" /\ at' = [at EXCEPT ![g] = "index"]
        /\ UNCHANGED <<index, sel, refs, match, answers, restarts>>
    BY <1>2 DEF Key, Goto
  <2>2. TypeOK'
    BY <2>1 DEF Inv, TypeOK, index
  <2>3. IndexInv'
    BY <2>1 DEF Inv, IndexInv, index
  <2>4. ScanInv'
    BY <2>1 DEF Inv, ScanInv, TypeOK, index
  <2>5. AnswerIsWhatWasAsked'
    BY <2>1 DEF Inv, AnswerIsWhatWasAsked, Asked
  <2> QED BY <2>2, <2>3, <2>4, <2>5 DEF Inv
<1> QED BY <1>1, <1>2

\* The exact answer claims the name the caller spelled.
LEMMA ExactInv == ASSUME Inv, NEW g \in Callers, Exact(g) PROVE Inv'
<1>1. CASE Wanted(sel) \in DOMAIN best
  <2>1. Return(g, best[Wanted(sel)]) /\ best[Wanted(sel)] \in Claimants(Wanted(sel))
    BY <1>1 DEF Exact, Inv, TypeOK
  <2>2. best[Wanted(sel)] \in CanonicalKeys /\ ref(best[Wanted(sel)]) = Wanted(sel)
    BY <2>1 DEF Claimants
  <2>3. Wanted(sel).provider = sel.Provider
    BY DEF Wanted
  <2>4. Asked(best[Wanted(sel)]) /\ best[Wanted(sel)] \in Keys
    BY <2>2, <2>3, KeyClaims DEF Asked
  <2> QED BY <2>1, <2>4, ReturnInv
<1>2. CASE Wanted(sel) \notin DOMAIN best
  <2>1. /\ once = "built" /\ at' = [at EXCEPT ![g] = "scan"]
        /\ refs' = [refs EXCEPT ![g] = DOMAIN best \cap Dated(sel)]
        /\ UNCHANGED <<index, sel, match, answers, restarts>>
    BY <1>2 DEF Exact, Goto
  <2>2. TypeOK'
    BY <2>1 DEF Inv, TypeOK, index
  <2>3. IndexInv'
    BY <2>1 DEF Inv, IndexInv, index
  <2>4. ScanInv'
    BY <2>1 DEF Inv, ScanInv, TypeOK, index
  <2>5. AnswerIsWhatWasAsked'
    BY <2>1 DEF Inv, AnswerIsWhatWasAsked, Asked
  <2> QED BY <2>2, <2>3, <2>4, <2>5 DEF Inv
<1> QED BY <1>1, <1>2

\* Every match is a dated variant of the name the caller spelled.
LEMMA ScanStepInv == ASSUME Inv, NEW g \in Callers, NEW n \in Refs, Scan(g, n) PROVE Inv'
<1>1. CASE match[g] # NoKey
  BY <1>1, ReturnInv DEF Scan
<1>2. CASE match[g] = NoKey
  <2>1. /\ at[g] = "scan" /\ n \in refs[g]
        /\ match' = [match EXCEPT ![g] = best[n]]
        /\ refs' = [refs EXCEPT ![g] = refs[g] \ {n}]
        /\ UNCHANGED <<index, sel, at, answers, restarts>>
    BY <1>2 DEF Scan
  <2>2. n \in DOMAIN best /\ n \in Dated(sel) /\ best[n] \in Claimants(n)
    BY <2>1 DEF Inv, ScanInv, TypeOK
  <2>3. best[n] \in Keys /\ best[n] \in CanonicalKeys /\ ref(best[n]) \in Dated(sel)
    BY <2>2 DEF Claimants, CanonicalKeys
  <2>4. TypeOK'
    BY <2>1, <2>3 DEF Inv, TypeOK, index
  <2>5. IndexInv'
    BY <2>1 DEF Inv, IndexInv, index
  <2>6. ScanInv'
    BY <2>1, <2>3 DEF Inv, ScanInv, TypeOK, index
  <2>7. AnswerIsWhatWasAsked'
    BY <2>1 DEF Inv, AnswerIsWhatWasAsked, Asked
  <2> QED BY <2>4, <2>5, <2>6, <2>7 DEF Inv
<1> QED BY <1>1, <1>2

\* The end of a scan answers with the one match, or fails.
LEMMA EndScanInv == ASSUME Inv, NEW g \in Callers, EndScan(g) PROVE Inv'
<1>1. Return(g, match[g]) /\ match[g] \in Keys \cup {NoKey}
  BY DEF EndScan, Inv, TypeOK
<1>2. ASSUME match[g] # NoKey PROVE Asked(match[g])
  <2>1. match[g] \in CanonicalKeys /\ ref(match[g]) \in Dated(sel)
    BY <1>2 DEF Inv, ScanInv
  <2>2. ref(match[g]).provider = sel.Provider
    BY <2>1 DEF Dated
  <2> QED BY <2>1, <2>2, KeyClaims DEF Asked
<1> QED BY <1>1, <1>2, ReturnInv

----------------------------------------------------------------------------
\* The invariant holds in every reachable state.
LEMMA Invariance == Spec => []Inv
<1>1. ASSUME Inv, [Next]_vars PROVE Inv'
  <2>1. CASE Next
    BY <1>1, <2>1, AdmitInv, PublishInv, RestartInv, KeyInv, StartBuildInv, ExactInv,
       ScanStepInv, EndScanInv DEF Next, Build, Run
  <2>2. CASE UNCHANGED vars
    BY <1>1, <2>2 DEF vars, index, callers, Inv, TypeOK, IndexInv, ScanInv,
       AnswerIsWhatWasAsked, Asked
  <2> QED BY <1>1, <2>1, <2>2
<1> QED BY <1>1, InitInv, PTL DEF Spec

\* The type invariant: in particular the index never holds a key that does
\* not claim the name it is filed under.
THEOREM TypeCorrect == Spec => []TypeOK
<1>1. Inv => TypeOK
  BY DEF Inv
<1> QED BY <1>1, Invariance, PTL

\* Fail closed, for every table and every map order: a name of the finished
\* index is held by the unique best of all the keys that claim it.
THEOREM HoldersAreUnique == Spec => []WinnerIsUniqueBest
<1>1. ASSUME Inv PROVE WinnerIsUniqueBest
  <2> SUFFICES ASSUME once = "built", NEW n \in DOMAIN best
               PROVE  Standard(best[n])
    BY DEF WinnerIsUniqueBest
  <2>1. pending = {} /\ best[n] \in Claimants(n)
    BY <1>1 DEF Inv, IndexInv
  <2>2. ref(best[n]) = n
    BY <2>1 DEF Claimants
  <2> QED BY <1>1, <2>1, <2>2 DEF Inv, IndexInv, Standard
<1> QED BY <1>1, Invariance, PTL

\* The finished index, where no two spellings tie below the standard one.
LEMMA FinishedIndex ==
    ASSUME NoOutrankedTie, Inv, once = "built"
    PROVE  /\ \A k \in Listed : ref(k) \in DOMAIN best /\ best[ref(k)] = k
           /\ \A n \in DOMAIN best : best[n] \in Listed /\ ref(best[n]) = n
<1>1. ASSUME NEW k \in CanonicalKeys, Standard(k)
      PROVE  ref(k) \in DOMAIN best /\ best[ref(k)] = k
  <2>1. pending = {} /\ k \in Claimants(ref(k))
    BY KeyClaims DEF Inv, IndexInv
  <2>2. ref(k) \notin dead
    BY <1>1 DEF Inv, IndexInv, NoOutrankedTie, Claimants
  <2>3. ref(k) \in DOMAIN best
    BY <2>1, <2>2 DEF Inv, IndexInv
  <2>4. best[ref(k)] \in Claimants(ref(k)) /\ prio(best[ref(k)]) \in Nat /\ prio(k) \in Nat
    BY <2>3, KeyClaims DEF Inv, TypeOK, Claimants
  <2>5. k # best[ref(k)] => prio(best[ref(k)]) < prio(k) /\ prio(k) < prio(best[ref(k)])
    BY <1>1, <2>1, <2>3, <2>4 DEF Inv, IndexInv, Standard
  <2> QED BY <2>3, <2>4, <2>5
<1>2. ASSUME NEW n \in DOMAIN best PROVE best[n] \in Listed /\ ref(best[n]) = n
  <2>1. pending = {} /\ best[n] \in Claimants(n)
    BY DEF Inv, IndexInv
  <2>2. ref(best[n]) = n /\ best[n] \in CanonicalKeys
    BY <2>1 DEF Claimants
  <2> QED BY <2>1, <2>2 DEF Inv, IndexInv, Listed, Standard
<1> QED BY <1>1, <1>2 DEF Listed

\* Where no two spellings tie below the standard one, the standard form wins
\* whatever the map order; with such a tie it may not (see the README).
THEOREM StandardWins ==
    ASSUME NoOutrankedTie
    PROVE  Spec => []StandardFormWins
<1>1. Inv => StandardFormWins
  BY FinishedIndex DEF StandardFormWins, Listed
<1> QED BY <1>1, Invariance, PTL

\* No selector is ever answered with another provider's key, another region's
\* or another model's.
THEOREM AnswersAreAsked == Spec => []AnswerIsWhatWasAsked
<1>1. Inv => AnswerIsWhatWasAsked
  BY DEF Inv
<1> QED BY <1>1, Invariance, PTL

----------------------------------------------------------------------------
(* Determinism: the one answer every call owes.                            *)

\* A selector has at most one native id.
LEMMA NativeIdsUnique ==
    ASSUME NEW s, NEW j \in NativeIds(s), NEW k \in NativeIds(s)
    PROVE  j = k
<1>1. ASSUME NEW prefix, NEW path, NEW m,
             NEW x \in Prefixed(prefix, path, m), NEW y \in Prefixed(prefix, path, m)
      PROVE  x = y
  BY Zenon DEF Prefixed
<1>2. \E prefix, path, m : \/ NativeIds(s) \in {{}, {m}}
                           \/ NativeIds(s) = Prefixed(prefix, path, m)
  BY Zenon DEF NativeIds
<1> QED BY <1>1, <1>2

\* The native spellings of a selector meet one key of the table at most.
LEMMA NativeKeyUnique ==
    ASSUME NEW s, NEW j \in nativeKey(s), NEW k \in nativeKey(s)
    PROVE  j = k
<1>1. ASSUME NEW x \in MantleIds(s), NEW y \in MantleIds(s) PROVE x = y
  <2>1. PICK a \in NativeIds(s), b \in NativeIds(s) :
           x \in Prefixed("bedrock_mantle", <<>>, a) /\ y \in Prefixed("bedrock_mantle", <<>>, b)
    BY Zenon DEF MantleIds
  <2>2. a = b
    BY NativeIdsUnique
  <2> QED BY <2>1, <2>2, Zenon DEF Prefixed
<1> QED BY <1>1, NativeIdsUnique DEF nativeKey, Held

\* A name has at most one standard spelling.
LEMMA ListedUnique ==
    ASSUME NEW j \in Listed, NEW k \in Listed, ref(j) = ref(k)
    PROVE  j = k
<1>1. j \in Claimants(ref(k)) /\ k \in Claimants(ref(j)) /\ prio(j) \in Nat /\ prio(k) \in Nat
  BY KeyClaims DEF Listed
<1> QED BY <1>1 DEF Listed, Standard

\* A selector is owed one answer.
LEMMA OwedUnique ==
    ASSUME NEW j, NEW k, Owed(j), Owed(k)
    PROVE  j = k
<1>1. CASE nativeKey(sel) # {}
  BY <1>1, NativeKeyUnique DEF Owed
<1>2. CASE nativeKey(sel) = {} /\ \E x \in Listed : ref(x) = Wanted(sel)
  BY <1>2, ListedUnique DEF Owed
<1>3. CASE nativeKey(sel) = {} /\ ~ \E x \in Listed : ref(x) = Wanted(sel)
  BY <1>3 DEF Owed
<1> QED BY <1>1, <1>2, <1>3

\* A caller that comes to the end of a scan owes what it then returns.
LEMMA ScannedOwed ==
    ASSUME NoOutrankedTie, Inv, OwedInv, NEW g \in Callers, at[g] = "scan"
    PROVE  /\ match[g] # NoKey /\ refs[g] # {} => Owed(NoKey)
           /\ refs[g] = {} => Owed(match[g])
<1>1. once = "built" /\ nativeKey(sel) = {} /\ Wanted(sel) \notin DOMAIN best
  BY DEF Inv, ScanInv, OwedInv
<1>2. /\ \A k \in Listed : ref(k) \in DOMAIN best /\ best[ref(k)] = k
      /\ \A n \in DOMAIN best : best[n] \in Listed /\ ref(best[n]) = n
  BY <1>1, FinishedIndex
<1>3. ~ \E x \in Listed : ref(x) = Wanted(sel)
  BY <1>1, <1>2
<1>4. \A k : k \in Variants <=> k \in Listed /\ ref(k) \in DOMAIN best \cap Dated(sel)
  BY <1>2 DEF Variants
<1>5. CASE match[g] = NoKey
  <2>1. refs[g] = DOMAIN best \cap Dated(sel)
    BY <1>5 DEF OwedInv
  <2>2. refs[g] = {} => Variants = {}
    BY <1>4, <2>1
  <2> QED BY <1>1, <1>3, <1>5, <2>2 DEF Owed
<1>6. CASE match[g] # NoKey
  <2>1. /\ ref(match[g]) \in DOMAIN best \ refs[g]
        /\ match[g] = best[ref(match[g])]
        /\ DOMAIN best \cap Dated(sel) = refs[g] \cup {ref(match[g])}
    BY <1>6 DEF OwedInv
  <2>2. match[g] \in Variants
    BY <1>2, <1>4, <2>1
  <2>3. ASSUME refs[g] = {} PROVE Variants = {match[g]}
    BY <1>2, <1>4, <2>1, <2>2, <2>3
  <2>4. ASSUME NEW n \in refs[g] PROVE ~ \E x \in Variants : Variants = {x}
    <3>1. best[n] \in Variants /\ ref(best[n]) = n /\ n # ref(match[g])
      BY <1>2, <1>4, <2>1
    <3> QED BY <2>2, <3>1
  <2>5. refs[g] = {} => Owed(match[g])
    BY <1>1, <1>3, <2>2, <2>3 DEF Owed
  <2>6. refs[g] # {} => Owed(NoKey)
    BY <1>1, <1>3, <2>4 DEF Owed
  <2> QED BY <2>5, <2>6
<1> QED BY <1>5, <1>6

\* A reply that is owed keeps the record of answers as owed.
LEMMA ReturnOwed ==
    ASSUME Inv, OwedInv, NEW g \in Callers, NEW k, Return(g, k), Owed(k)
    PROVE  OwedInv'
BY DEF OwedInv, Owed, Variants, Return, Goto, index, Inv, TypeOK

\* While the index is being built nobody scans it.
LEMMA BuildOwed ==
    ASSUME Inv, OwedInv, Build
    PROVE  OwedInv'
<1>1. once = "building" /\ UNCHANGED <<sel, at, refs, match, answers>>
  BY DEF Build, Admit, Publish, callers
<1>2. \A g \in Callers : at[g] # "scan" /\ match[g] = NoKey
  BY <1>1 DEF Inv, ScanInv, OwedInv
<1> QED BY <1>1, <1>2 DEF OwedInv, Owed, Variants

\* A restart gives no answer.
LEMMA RestartOwed == ASSUME Inv, OwedInv, Restart PROVE OwedInv'
BY DEF Restart, OwedInv, Owed, Variants

\* Building gives no answer.
LEMMA StartBuildOwed == ASSUME Inv, OwedInv, NEW g \in Callers, StartBuild(g) PROVE OwedInv'
BY DEF StartBuild, callers, OwedInv, Owed, Variants

\* A native key is answered at once, and is the one owed.
LEMMA KeyOwed == ASSUME Inv, OwedInv, NEW g \in Callers, Key(g) PROVE OwedInv'
<1>1. CASE nativeKey(sel) # {}
  BY <1>1, ReturnOwed DEF Key, Owed
<1>2. CASE nativeKey(sel) = {}
  <2>1. at[g] = "idle" /\ at' = [at EXCEPT ![g] = "index"]
        /\ UNCHANGED <<index, sel, refs, match, answers, restarts>>
    BY <1>2 DEF Key, Goto
  <2> QED BY <1>2, <2>1 DEF OwedInv, Owed, Variants, index, Inv, TypeOK
<1> QED BY <1>1, <1>2

\* An exact match in the index is the answer owed.
LEMMA ExactOwed ==
    ASSUME NoOutrankedTie, Inv, OwedInv, NEW g \in Callers, Exact(g)
    PROVE  OwedInv'
<1>1. once = "built" /\ at[g] = "index" /\ nativeKey(sel) = {} /\ match[g] = NoKey
  BY DEF Exact, OwedInv
<1>2. CASE Wanted(sel) \in DOMAIN best
  <2>1. Return(g, best[Wanted(sel)])
    BY <1>2 DEF Exact
  <2>2. best[Wanted(sel)] \in Listed /\ ref(best[Wanted(sel)]) = Wanted(sel)
    BY <1>1, <1>2, FinishedIndex
  <2>3. Owed(best[Wanted(sel)])
    BY <1>1, <2>2 DEF Owed
  <2> QED BY <2>1, <2>3, ReturnOwed
<1>3. CASE Wanted(sel) \notin DOMAIN best
  <2>1. /\ at' = [at EXCEPT ![g] = "scan"]
        /\ refs' = [refs EXCEPT ![g] = DOMAIN best \cap Dated(sel)]
        /\ UNCHANGED <<index, sel, match, answers, restarts>>
    BY <1>3 DEF Exact, Goto
  <2> QED BY <1>1, <1>3, <2>1 DEF OwedInv, Owed, Variants, index, Inv, TypeOK
<1> QED BY <1>2, <1>3

\* A scan meets the dated variants one by one and keeps the match so far.
LEMMA ScanOwed ==
    ASSUME NoOutrankedTie, Inv, OwedInv, NEW g \in Callers, NEW n \in Refs, Scan(g, n)
    PROVE  OwedInv'
<1>1. at[g] = "scan" /\ n \in refs[g]
  BY DEF Scan
<1>2. CASE match[g] # NoKey
  <2>1. Return(g, NoKey)
    BY <1>2 DEF Scan
  <2> QED BY <1>1, <1>2, <2>1, ScannedOwed, ReturnOwed
<1>3. CASE match[g] = NoKey
  <2>1. /\ match' = [match EXCEPT ![g] = best[n]]
        /\ refs' = [refs EXCEPT ![g] = refs[g] \ {n}]
        /\ UNCHANGED <<index, sel, at, answers, restarts>>
    BY <1>3 DEF Scan
  <2>2. refs[g] = DOMAIN best \cap Dated(sel) /\ once = "built"
    BY <1>1, <1>3 DEF OwedInv, Inv, ScanInv
  <2>3. n \in DOMAIN best /\ ref(best[n]) = n
    BY <1>1, <2>2, FinishedIndex
  <2>4. /\ at' = at /\ best' = best /\ sel' = sel /\ answers' = answers
        /\ match'[g] = best[n] /\ refs'[g] = refs[g] \ {n}
        /\ \A h \in Callers \ {g} : match'[h] = match[h] /\ refs'[h] = refs[h]
    BY <2>1 DEF index, Inv, TypeOK
  <2>5. \A h \in Callers : at'[h] # "scan" => match'[h] = NoKey
    BY <1>1, <2>4 DEF OwedInv
  <2>6. ref(match'[g]) \in DOMAIN best \ refs'[g] /\ match'[g] = best[ref(match'[g])]
        /\ DOMAIN best \cap Dated(sel) = refs'[g] \cup {ref(match'[g])}
    BY <1>1, <2>2, <2>3, <2>4
  <2>7. match'[g] # NoKey
    BY <2>3, <2>4, KeyClaims, NoKeyAssumption DEF Inv, TypeOK, Claimants
  <2> QED BY <2>4, <2>5, <2>6, <2>7 DEF OwedInv, Owed, Variants
<1> QED BY <1>2, <1>3

\* The answer at the end of a scan is the one owed.
LEMMA EndScanOwed ==
    ASSUME NoOutrankedTie, Inv, OwedInv, NEW g \in Callers, EndScan(g)
    PROVE  OwedInv'
BY ScannedOwed, ReturnOwed DEF EndScan

\* Whatever the map order, the goroutine and the process, every answer given
\* is the one owed.
LEMMA OwedInvariance ==
    ASSUME NoOutrankedTie
    PROVE  Spec => []OwedInv
<1>1. Init => OwedInv
  BY DEF Init, OwedInv
<1>2. ASSUME Inv, OwedInv, [Next]_vars PROVE OwedInv'
  <2>1. CASE Next
    BY <1>2, <2>1, BuildOwed, RestartOwed, KeyOwed, StartBuildOwed, ExactOwed, ScanOwed,
       EndScanOwed DEF Next, Run
  <2>2. CASE UNCHANGED vars
    BY <1>2, <2>2 DEF vars, index, callers, OwedInv, Owed, Variants
  <2> QED BY <1>2, <2>1, <2>2
<1> QED BY <1>1, <1>2, Invariance, PTL DEF Spec

\* ModelSelector.Key is deterministic, for every table in which no two
\* spellings tie below the standard one: whatever the map order, the
\* goroutine and the process, a selector has one answer.
THEOREM AnswersAreDetermined ==
    ASSUME NoOutrankedTie
    PROVE  Spec => []Deterministic
<1>1. ASSUME OwedInv PROVE Deterministic
  <2>1. CASE answers = {}
    BY <2>1, FS_EmptySet DEF Deterministic
  <2>2. CASE answers # {}
    <3>1. PICK k \in answers : answers = {k}
      BY <1>1, <2>2, OwedUnique DEF OwedInv
    <3> QED BY <3>1, FS_Singleton DEF Deterministic
  <2> QED BY <2>1, <2>2
<1> QED BY <1>1, OwedInvariance, PTL

----------------------------------------------------------------------------
(* An undated name resolves only where one dated variant exists.           *)

\* A claim names a model by the parts the grammar tells apart, and no such
\* name is a dated variant of itself.
Named(n) == n.sep = "-" => n # [n EXCEPT !.sep = "", !.date = ""]

LEMMA IdNamed ==
    ASSUME NEW prefix, NEW path, NEW profile, NEW vendor, NEW base, NEW sep, NEW date, NEW ver
    PROVE  Named(Id(prefix, path, profile, vendor, base, sep, date, ver))
BY DEF Named, Id

LEMMA ClaimNames ==
    ASSUME NEW id, NEW lp, NEW x \in canonicalize(id, lp)
    PROVE  Named(x.name)
<1>1. \E provider, name, region, i : Named(name) /\ x \in Claim(provider, name, region, i)
  <2>1. CASE x \in BedrockClaim(id)
    BY <2>1, IdNamed, Zenon DEF BedrockClaim
  <2>2. CASE x \in VertexClaim(id)
    BY <2>2, IdNamed, Zenon DEF VertexClaim, Plain
  <2>3. CASE \E provider \in {"azure", "azure_ai"} : x \in AzureClaim(provider, id)
    BY <2>3, IdNamed, Zenon DEF AzureClaim, Plain
  <2> QED BY <2>1, <2>2, <2>3 DEF canonicalize
<1> QED BY <1>1 DEF Claim

\* No name a key claims is a dated variant of itself: the name a selector
\* spells is never among the variants the loop of Key looks for.
LEMMA WantedIsUndated ==
    ASSUME NEW k \in CanonicalKeys, ref(k) = Wanted(sel)
    PROVE  ref(k) \notin Dated(sel)
<1>1. claims[k] \in canonicalize(k, Table[k])
  BY DEF CanonicalKeys, claims
<1>2. ref(k).name = claims[k].name
  BY DEF ref, refOf
<1>3. Named(ref(k).name)
  BY <1>1, <1>2, ClaimNames
<1>4. ref(k).name = sel.Model
  BY DEF Wanted
<1> QED BY <1>3, <1>4 DEF Named, Dated, isDatedVariantOf

\* "resolves to the provider's dated variant when exactly one exists and FAILS
\* when several do" (selector.go:73-75): for every table in which no two
\* spellings tie below the standard one, no answer is a guess among several
\* dated variants, whatever order the scans of any number of goroutines meet
\* them in.
THEOREM UndatedIsNeverGuessed ==
    ASSUME NoOutrankedTie
    PROVE  Spec => []UndatedNeverGuessed
<1>1. ASSUME OwedInv PROVE UndatedNeverGuessed
  <2> SUFFICES ASSUME \A n \in Dated(sel) : \E x \in Claimants(n) : Standard(x),
                      NEW k \in answers \ {NoKey},
                      k \notin NativeIds(sel) \cup MantleIds(sel), ref(k) \in Dated(sel)
               PROVE  Dated(sel) = {ref(k)}
    BY DEF UndatedNeverGuessed, UndatedOfManyFails
  <2>1. Owed(k) /\ nativeKey(sel) = {}
    BY <1>1 DEF OwedInv, Owed, nativeKey, Held
  <2>2. ~ \E x \in Listed : ref(x) = Wanted(sel)
    BY <2>1, WantedIsUndated DEF Owed, Listed
  <2>3. Variants = {k}
    BY <2>1, <2>2 DEF Owed
  <2>4. ASSUME NEW n \in Dated(sel) PROVE n = ref(k)
    <3>1. PICK x \in Claimants(n) : Standard(x)
      BY <2>4
    <3>2. x \in Variants /\ ref(x) = n
      BY <3>1 DEF Variants, Listed, Claimants
    <3> QED BY <2>3, <3>2
  <2> QED BY <2>4
<1> QED BY <1>1, OwedInvariance, PTL
=============================================================================
