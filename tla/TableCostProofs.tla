-------------------------- MODULE TableCostProofs --------------------------
(***************************************************************************)
(* Proofs about TableCost, for every snapshot, config, usage and bound.    *)
(***************************************************************************)
EXTENDS TableCost, WellFoundedInduction, TLAPS

USE NilAssumption, IntAssumption, UnitAssumption

----------------------------------------------------------------------------
(* Lemmas about the operators of Rates.                                    *)

\* int64 addition and subtraction stay in range, and are exact when the
\* exact result is in range.
LEMMA Arithmetic ==
    ASSUME NEW a \in Int64, NEW b \in Int64
    PROVE  /\ Add(a, b) \in Int64
           /\ Sub(a, b) \in Int64
           /\ a + b \in Int64 => Add(a, b) = a + b
           /\ a - b \in Int64 => Sub(a, b) = a - b
BY DEF Add, Sub, Wrap, Int64

\* The sum that decides whether an OpenAI usage is impossible wraps to a
\* negative number when no int64 can hold it, and then never exceeds the input.
LEMMA WrappedSum ==
    ASSUME NEW a \in Int64, NEW b \in Int64, a + b > MaxInt
    PROVE  Add(a, b) < 0
BY DEF Add, Wrap, Int64

\* components() is the function of the five parts it is given.
LEMMA Components ==
    ASSUME NEW i \in Int64, NEW cr \in Int64, NEW cc \in Int64, NEW c1 \in Int64, NEW o \in Int64
    PROVE  /\ components(i, cr, cc, c1, o) \in [Parts -> Int64]
           /\ components(i, cr, cc, c1, o)["input"] = i
           /\ components(i, cr, cc, c1, o)["cacheRead"] = cr
           /\ components(i, cr, cc, c1, o)["cacheCreation"] = cc
           /\ components(i, cr, cc, c1, o)["cacheCreation1h"] = c1
           /\ components(i, cr, cc, c1, o)["output"] = o
BY DEF components, Parts

\* The components of any usage are int64 values.
LEMMA DisjointType ==
    ASSUME NEW u \in Usage
    PROVE  disjoint(u) \in [Parts -> Int64]
<1>0. 0 \in Int64
  BY DEF Int64
<1>1. CASE u \in ClaudeUsage
  <2>1. Sub(u.CacheCreationInputTokens, u.CacheCreation1hInputTokens) \in Int64
    BY <1>1, Arithmetic DEF ClaudeUsage
  <2> QED
    BY <1>1, <2>1, Components DEF disjoint, ClaudeUsage
<1>2. CASE u \in OpenAIUsage
  <2>1. Sub(u.InputTokens, u.CachedInputTokens) \in Int64
    BY <1>2, Arithmetic DEF OpenAIUsage
  <2>2. Sub(Sub(u.InputTokens, u.CachedInputTokens), u.CacheWriteTokens) \in Int64
    BY <1>2, <2>1, Arithmetic DEF OpenAIUsage
  <2> QED
    BY <1>0, <1>2, <2>2, Components DEF disjoint, OpenAIUsage
<1>3. CASE u \in FireworksUsage
  <2>1. Sub(u.InputTokens, u.CachedTokens) \in Int64
    BY <1>3, Arithmetic DEF FireworksUsage
  <2> QED
    BY <1>0, <1>3, <2>1, Components DEF disjoint, FireworksUsage
<1> QED
  BY <1>1, <1>2, <1>3 DEF Usage

\* ceilNls is the least number of nls that covers the total.
LEMMA Ceiling ==
    ASSUME NEW n \in Int
    PROVE  /\ ceilNls(n) \in Int
           /\ (ceilNls(n) - 1) * Quantum < n
           /\ n <= ceilNls(n) * Quantum
<1>1. Quantum \in Nat \ {0}
  BY DEF Quantum
<1> DEFINE q == Quantum
           d == n \div q
           e == n % q
<1>2. d \in Int /\ e \in Int /\ 0 <= e /\ e < q /\ n = q * d + e
  BY <1>1
<1>3. (d - 1) * q = q * d - q /\ (d + 1) * q = q * d + q /\ d * q = q * d
  BY <1>1, <1>2
<1>4. CASE e > 0
  BY <1>1, <1>2, <1>3, <1>4 DEF ceilNls
<1>5. CASE e = 0
  BY <1>1, <1>2, <1>3, <1>5 DEF ceilNls
<1> QED
  BY <1>2, <1>4, <1>5

----------------------------------------------------------------------------
(* Lemmas that read a usage as the documents do.                           *)

\* On a countable usage disjoint() panics exactly on the impossible counts.
LEMMA PanicsIffImpossible ==
    ASSUME NEW u \in Usage, B!Countable(u)
    PROVE  Panics(u) <=> B!Impossible(u)
<1>1. CASE u \in ClaudeUsage
  BY <1>1 DEF Panics, B!Impossible, ClaudeUsage
<1>2. CASE u \in OpenAIUsage
  <2>1. u.kind = "openai"
    BY <1>2 DEF OpenAIUsage
  <2>2. /\ u.InputTokens \in Int64 /\ u.CachedInputTokens \in Int64
        /\ u.CacheWriteTokens \in Int64 /\ u.OutputTokens \in Int64
    BY <1>2 DEF OpenAIUsage
  <2>3. u.CachedInputTokens + u.CacheWriteTokens <= MaxInt
    BY <2>1 DEF B!Countable
  <2>4. u.CachedInputTokens >= 0 /\ u.CacheWriteTokens >= 0 =>
           Add(u.CachedInputTokens, u.CacheWriteTokens) = u.CachedInputTokens + u.CacheWriteTokens
    BY <2>2, <2>3 DEF Add, Wrap, Int64
  <2>5. B!Impossible(u) <=>
           \/ u.InputTokens < 0 \/ u.CachedInputTokens < 0 \/ u.CacheWriteTokens < 0
           \/ u.OutputTokens < 0
           \/ u.CachedInputTokens + u.CacheWriteTokens > u.InputTokens
    BY <2>1 DEF B!Impossible
  <2> QED
    BY <2>1, <2>2, <2>4, <2>5 DEF Panics, Int64
<1>3. CASE u \in FireworksUsage
  BY <1>3 DEF Panics, B!Impossible, FireworksUsage
<1> QED
  BY <1>1, <1>2, <1>3 DEF Usage

\* The components of a countable usage that does not panic are the tokens
\* billed; none is negative and the prompt is the sum of the four input parts.
LEMMA DisjointIsBilled ==
    ASSUME NEW u \in Usage, B!Countable(u), ~ B!Impossible(u)
    PROVE  /\ \A x \in Parts : disjoint(u)[x] = B!Billed(u, x) /\ disjoint(u)[x] >= 0
           /\ disjoint(u)["input"] + disjoint(u)["cacheRead"] + disjoint(u)["cacheCreation"]
                + disjoint(u)["cacheCreation1h"] = B!Prompt(u)
           /\ disjoint(u)["output"] = u.OutputTokens
           /\ promptTokens(disjoint(u)) = B!Prompt(u)
<1> DEFINE d == disjoint(u)
<1>1. CASE u \in ClaudeUsage
  <2>1. /\ u.kind = "claude"
        /\ u.InputTokens \in Int64 /\ u.CacheReadInputTokens \in Int64
        /\ u.CacheCreationInputTokens \in Int64 /\ u.CacheCreation1hInputTokens \in Int64
        /\ u.OutputTokens \in Int64
    BY <1>1 DEF ClaudeUsage
  <2>2. /\ u.InputTokens >= 0 /\ u.CacheReadInputTokens >= 0 /\ u.CacheCreationInputTokens >= 0
        /\ u.CacheCreation1hInputTokens >= 0 /\ u.OutputTokens >= 0
        /\ u.CacheCreation1hInputTokens <= u.CacheCreationInputTokens
    BY <2>1 DEF B!Impossible, Int64
  <2>3. /\ Sub(u.CacheCreationInputTokens, u.CacheCreation1hInputTokens)
             = u.CacheCreationInputTokens - u.CacheCreation1hInputTokens
        /\ Sub(u.CacheCreationInputTokens, u.CacheCreation1hInputTokens) \in Int64
    BY <2>1, <2>2 DEF Sub, Wrap, Int64
  <2>3a. d = components(u.InputTokens, u.CacheReadInputTokens,
                        Sub(u.CacheCreationInputTokens, u.CacheCreation1hInputTokens),
                        u.CacheCreation1hInputTokens, u.OutputTokens)
    BY <2>1 DEF disjoint
  <2> HIDE DEF d
  <2>3b. /\ d["input"] = u.InputTokens /\ d["cacheRead"] = u.CacheReadInputTokens
         /\ d["cacheCreation"] = Sub(u.CacheCreationInputTokens, u.CacheCreation1hInputTokens)
         /\ d["cacheCreation1h"] = u.CacheCreation1hInputTokens /\ d["output"] = u.OutputTokens
    BY <2>3a DEF components, Parts
  <2>4. /\ d["input"] = u.InputTokens /\ d["cacheRead"] = u.CacheReadInputTokens
        /\ d["cacheCreation"] = u.CacheCreationInputTokens - u.CacheCreation1hInputTokens
        /\ d["cacheCreation1h"] = u.CacheCreation1hInputTokens /\ d["output"] = u.OutputTokens
    BY <2>3, <2>3b
  <2>5. B!Prompt(u) = u.InputTokens + u.CacheReadInputTokens + u.CacheCreationInputTokens
    BY <2>1 DEF B!Prompt
  <2>6. B!Prompt(u) <= MaxInt
    BY DEF B!Countable
  <2>7. promptTokens(d) = d["input"] + d["cacheRead"] + d["cacheCreation"] + d["cacheCreation1h"]
    BY <2>1, <2>2, <2>4, <2>5, <2>6 DEF promptTokens, Add, Wrap, Int64
  <2>8. /\ d["input"] = B!Billed(u, "input") /\ d["cacheRead"] = B!Billed(u, "cacheRead")
        /\ d["cacheCreation"] = B!Billed(u, "cacheCreation")
        /\ d["cacheCreation1h"] = B!Billed(u, "cacheCreation1h")
        /\ d["output"] = B!Billed(u, "output")
    BY <2>1, <2>4 DEF B!Billed
  <2>9. /\ d["input"] + d["cacheRead"] + d["cacheCreation"] + d["cacheCreation1h"] = B!Prompt(u)
        /\ \A x \in Parts : d[x] >= 0
    BY <2>1, <2>2, <2>4, <2>5 DEF Parts, Int64
  <2> QED
    BY <2>4, <2>7, <2>8, <2>9 DEF d, Parts
<1>2. CASE u \in OpenAIUsage
  <2>1. /\ u.kind = "openai"
        /\ u.InputTokens \in Int64 /\ u.CachedInputTokens \in Int64
        /\ u.CacheWriteTokens \in Int64 /\ u.OutputTokens \in Int64
    BY <1>2 DEF OpenAIUsage
  <2>2. /\ u.InputTokens >= 0 /\ u.CachedInputTokens >= 0 /\ u.CacheWriteTokens >= 0
        /\ u.OutputTokens >= 0 /\ u.CachedInputTokens + u.CacheWriteTokens <= u.InputTokens
    BY <2>1 DEF B!Impossible, Int64
  <2>3. Sub(Sub(u.InputTokens, u.CachedInputTokens), u.CacheWriteTokens)
          = u.InputTokens - (u.CachedInputTokens + u.CacheWriteTokens)
    BY <2>1, <2>2 DEF Sub, Wrap, Int64
  <2>3a. d = components(Sub(Sub(u.InputTokens, u.CachedInputTokens), u.CacheWriteTokens),
                        u.CachedInputTokens, u.CacheWriteTokens, 0, u.OutputTokens)
    BY <2>1 DEF disjoint
  <2> HIDE DEF d
  <2>3b. /\ d["input"] = Sub(Sub(u.InputTokens, u.CachedInputTokens), u.CacheWriteTokens)
         /\ d["cacheRead"] = u.CachedInputTokens /\ d["cacheCreation"] = u.CacheWriteTokens
         /\ d["cacheCreation1h"] = 0 /\ d["output"] = u.OutputTokens
    BY <2>3a DEF components, Parts
  <2>4. /\ d["input"] = u.InputTokens - (u.CachedInputTokens + u.CacheWriteTokens)
        /\ d["cacheRead"] = u.CachedInputTokens /\ d["cacheCreation"] = u.CacheWriteTokens
        /\ d["cacheCreation1h"] = 0 /\ d["output"] = u.OutputTokens
    BY <2>3, <2>3b
  <2>5. B!Prompt(u) = u.InputTokens
    BY <2>1 DEF B!Prompt
  <2>7. promptTokens(d) = u.InputTokens
    BY <2>1, <2>2, <2>4 DEF promptTokens, Add, Wrap, Int64
  <2>8. /\ d["input"] = B!Billed(u, "input") /\ d["cacheRead"] = B!Billed(u, "cacheRead")
        /\ d["cacheCreation"] = B!Billed(u, "cacheCreation")
        /\ d["cacheCreation1h"] = B!Billed(u, "cacheCreation1h")
        /\ d["output"] = B!Billed(u, "output")
    BY <2>1, <2>4 DEF B!Billed
  <2>9. /\ d["input"] + d["cacheRead"] + d["cacheCreation"] + d["cacheCreation1h"] = B!Prompt(u)
        /\ \A x \in Parts : d[x] >= 0
    BY <2>1, <2>2, <2>4, <2>5 DEF Parts, Int64
  <2> QED
    BY <2>4, <2>5, <2>7, <2>8, <2>9 DEF d, Parts
<1>3. CASE u \in FireworksUsage
  <2>1. /\ u.kind = "fireworks"
        /\ u.InputTokens \in Int64 /\ u.CachedTokens \in Int64 /\ u.OutputTokens \in Int64
    BY <1>3 DEF FireworksUsage
  <2>2. /\ u.InputTokens >= 0 /\ u.CachedTokens >= 0
        /\ u.OutputTokens >= 0 /\ u.CachedTokens <= u.InputTokens
    BY <2>1 DEF B!Impossible, Int64
  <2>3. /\ Sub(u.InputTokens, u.CachedTokens) = u.InputTokens - u.CachedTokens
        /\ Sub(u.InputTokens, u.CachedTokens) \in Int64
    BY <2>1, <2>2 DEF Sub, Wrap, Int64
  <2>3a. d = components(Sub(u.InputTokens, u.CachedTokens), u.CachedTokens, 0, 0,
                        u.OutputTokens)
    BY <2>1 DEF disjoint
  <2> HIDE DEF d
  <2>3b. /\ d["input"] = Sub(u.InputTokens, u.CachedTokens)
         /\ d["cacheRead"] = u.CachedTokens /\ d["cacheCreation"] = 0
         /\ d["cacheCreation1h"] = 0 /\ d["output"] = u.OutputTokens
    BY <2>3a DEF components, Parts
  <2>4. /\ d["input"] = u.InputTokens - u.CachedTokens
        /\ d["cacheRead"] = u.CachedTokens /\ d["cacheCreation"] = 0
        /\ d["cacheCreation1h"] = 0 /\ d["output"] = u.OutputTokens
    BY <2>3, <2>3b
  <2>5. B!Prompt(u) = u.InputTokens
    BY <2>1 DEF B!Prompt
  <2>7. promptTokens(d) = u.InputTokens
    BY <2>1, <2>2, <2>4 DEF promptTokens, Add, Wrap, Int64
  <2>8. /\ d["input"] = B!Billed(u, "input") /\ d["cacheRead"] = B!Billed(u, "cacheRead")
        /\ d["cacheCreation"] = B!Billed(u, "cacheCreation")
        /\ d["cacheCreation1h"] = B!Billed(u, "cacheCreation1h")
        /\ d["output"] = B!Billed(u, "output")
    BY <2>1, <2>4 DEF B!Billed
  <2>9. /\ d["input"] + d["cacheRead"] + d["cacheCreation"] + d["cacheCreation1h"] = B!Prompt(u)
        /\ \A x \in Parts : d[x] >= 0
    BY <2>1, <2>2, <2>4, <2>5 DEF Parts, Int64
  <2> QED
    BY <2>4, <2>5, <2>7, <2>8, <2>9 DEF d, Parts
<1> QED
  BY <1>1, <1>2, <1>3 DEF Usage

----------------------------------------------------------------------------
(* What validateOverrideRates lets through.                                *)

\* Where every threshold exceeds the one before it, it exceeds all that come
\* before it: the first that did not would not exceed the one before it.
LEMMA AscendingPairwise ==
    ASSUME NEW tiers \in Seq(Tier), AscendingThresholds(tiers)
    PROVE  \A i \in DOMAIN tiers : \A j \in 1 .. i - 1 :
              tiers[j].AbovePromptTokens < tiers[i].AbovePromptTokens
<1> DEFINE n(i) == tiers[i].AbovePromptTokens
           Bad == {i \in DOMAIN tiers : \E j \in 1 .. i - 1 : ~ n(j) < n(i)}
           less == OpToRel(<, Nat)
<1>1. DOMAIN tiers = 1 .. Len(tiers) /\ Len(tiers) \in Nat
  OBVIOUS
<1>2. \A i \in DOMAIN tiers : n(i) \in Int
  <2>1. \A i \in DOMAIN tiers : tiers[i] \in Tier
    BY <1>1
  <2>2. \A x \in Tier : x.AbovePromptTokens \in Int
    BY DEF Tier, Int64
  <2> QED BY <2>1, <2>2
<1>3. \A i \in DOMAIN tiers : i > 1 => n(i) > n(i - 1)
  BY DEF AscendingThresholds
<1> HIDE DEF n
<1>4. SUFFICES ASSUME Bad # {} PROVE FALSE
  BY DEF n
<1>5. PICK i \in Bad : \A j \in Bad : ~ j < i
  <2>1. Bad \subseteq Nat
    BY <1>1
  <2>2. IsWellFoundedOn(less, Nat)
    BY NatLessThanWellFounded
  <2>3. \A j, k \in Nat : j < k => <<j, k>> \in less
    BY DEF OpToRel
  <2> HIDE DEF Bad, less
  <2>4. PICK i \in Bad : \A j \in Bad : ~ (<<j, i>> \in less)
    BY <1>4, <2>1, <2>2, WFMin
  <2> QED BY <2>1, <2>3, <2>4
<1>6. i \in DOMAIN tiers /\ i \in Nat
  BY <1>1
<1>7. PICK j \in 1 .. i - 1 : ~ n(j) < n(i)
  BY <1>5
<1>8. i - 1 \in DOMAIN tiers /\ i - 1 < i /\ j \in DOMAIN tiers /\ i > 1
  BY <1>1, <1>6, <1>7
<1>9. n(i) > n(i - 1) /\ n(i) \in Int /\ n(i - 1) \in Int /\ n(j) \in Int
  BY <1>2, <1>3, <1>6, <1>8
<1>10. j # i - 1
  BY <1>7, <1>9
<1>11. j \in 1 .. (i - 1) - 1
  BY <1>6, <1>7, <1>10
<1>12. ~ n(j) < n(i - 1)
  BY <1>7, <1>9
<1>13. i - 1 \in Bad
  BY <1>8, <1>11, <1>12
<1> QED BY <1>5, <1>8, <1>13

\* The comparison of neighbours is enough.
LEMMA ValidatedIsValid ==
    ASSUME NEW x, IsRates(x)
    PROVE  validateOverrideRates(x) <=> ValidRates(x)
<1>1. x.Tiers \in Seq(Tier)
  BY DEF IsRates
<1>2. ASSUME AscendingThresholds(x.Tiers)
      PROVE  \A i \in DOMAIN x.Tiers : \A j \in 1 .. i - 1 :
                x.Tiers[j].AbovePromptTokens < x.Tiers[i].AbovePromptTokens
  BY <1>1, <1>2, AscendingPairwise
<1>3. ValidRates(x) => AscendingThresholds(x.Tiers)
  BY <1>1 DEF ValidRates, AscendingThresholds
<1> QED BY <1>2, <1>3 DEF ValidRates, validateOverrideRates, AscendingThresholds

----------------------------------------------------------------------------
(* Lemmas about rates and multipliers.                                     *)

\* Billing and the calculator mean the same by sound rates and modes.
LEMMA SameReading ==
    ASSUME NEW u, NEW rr
    PROVE  /\ B!ValidRates(rr) <=> ValidRates(rr)
           /\ B!Pinned(u) <=> Pinned(u)
           /\ B!Uplifted(u, rr) <=> Uplifted(u, rr)
           /\ B!PremiumOk(u, rr) <=> PremiumOk(u, rr)
           /\ B!Quantum = Quantum /\ B!ServiceTiers = ServiceTiers /\ B!Parts = Parts
BY DEF B!ValidRates, ValidRates, B!priceable, priceable, B!Pinned, Pinned, B!Uplifted, Uplifted,
       B!PremiumOk, PremiumOk, B!Quantum, Quantum, B!ServiceTiers, ServiceTiers,
       B!Parts, Parts, B!TokenParts, TokenParts

\* A resolved premium is positive, and its factor on a component is the
\* product of the factors of the modes that scale the component.
LEMMA PremiumFactors ==
    ASSUME NEW u \in Usage, NEW rr, IsRates(rr), ValidRates(rr), PremiumOk(u, rr)
    PROVE  /\ premium(u, rr) \in [tokens: Nat \ {0}, cache: Nat \ {0}]
           /\ \A x \in Parts :
                 /\ B!FastFactor(u, rr, x) \in Nat \ {0}
                 /\ B!RegionFactor(u, rr) \in Nat \ {0}
                 /\ factor(premium(u, rr), x) = B!FastFactor(u, rr, x) * B!RegionFactor(u, rr)
<1> DEFINE Pos == Nat \ {0}
           fast == IF u.kind = "claude" /\ u.Speed = "fast" THEN rr.Fast ELSE MultUnit
           geo == IF Pinned(u) THEN rr.Geo[Lower(u.InferenceGeo)] ELSE MultUnit
           uplift == IF Uplifted(u, rr) THEN rr.RegionalUplift[Lower(u.DataResidency)]
                     ELSE MultUnit
<1>1. fast \in Pos
  <2>1. rr.Fast \in Multiplier /\ (rr.Fast # Nil => rr.Fast > 0)
    BY DEF IsRates, ValidRates
  <2>2. u.kind = "claude" /\ u.Speed = "fast" => rr.Fast # Nil
    BY DEF PremiumOk
  <2> QED
    BY <2>1, <2>2 DEF Multiplier
<1>2. geo \in Pos
  <2>1. Pinned(u) => Lower(u.InferenceGeo) \in DOMAIN rr.Geo
    BY DEF PremiumOk, Pinned
  <2>2. \A g \in DOMAIN rr.Geo : rr.Geo[g] \in Multiplier /\ rr.Geo[g] # Nil /\ rr.Geo[g] > 0
    BY DEF IsRates, IsMultiplierMap, ValidRates
  <2> QED
    BY <2>1, <2>2 DEF Multiplier
<1>3. uplift \in Pos
  BY DEF IsRates, IsMultiplierMap, ValidRates, Multiplier, Uplifted
<1>4. MultUnit \in Pos
  OBVIOUS
<1>5. premium(u, rr) = [tokens |-> IF u.kind = "claude" THEN fast * geo ELSE uplift * MultUnit,
                        cache |-> IF u.kind = "claude" THEN geo * MultUnit ELSE uplift * MultUnit]
  BY DEF premium
<1>6. \A x \in Parts : B!FastFactor(u, rr, x) = IF x \in TokenParts THEN fast ELSE MultUnit
  BY DEF B!FastFactor, B!TokenParts, TokenParts
<1>7. B!RegionFactor(u, rr) = IF u.kind = "claude" THEN geo ELSE uplift
  BY SameReading DEF B!RegionFactor, Pinned, Uplifted
<1>8. u.kind # "claude" => fast = MultUnit
  OBVIOUS
<1> HIDE DEF fast, geo, uplift
<1>9. /\ fast * geo \in Pos /\ geo * MultUnit \in Pos /\ uplift * MultUnit \in Pos
      /\ geo * MultUnit = MultUnit * geo /\ uplift * MultUnit = MultUnit * uplift
  BY <1>1, <1>2, <1>3, <1>4
<1> QED
  BY <1>1, <1>2, <1>3, <1>4, <1>5, <1>6, <1>7, <1>8, <1>9 DEF factor

----------------------------------------------------------------------------
(* Lemmas about the lookup.                                                *)

LEMMA TierNamed ==
    ASSUME NEW u \in Usage
    PROVE  /\ tier(u) = B!Named(u)
           /\ TierOk(u) <=> B!Named(u) \in ServiceTiers
BY DEF tier, TierOk, B!Named, ServiceTiers

\* What Table.rates finds is what the table offers for sale.
LEMMA LookUpIsListed ==
    ASSUME NEW m, NEW s \in ServiceTiers
    PROVE  /\ resolve(m) = B!Meant(table, m)
           /\ Found(m, s) <=> B!ForSale(table, m, s)
           /\ rates(m, s) = B!ListPrice(table, m, s)
BY DEF resolve, B!Meant, Found, B!ForSale, rates, B!ListPrice

----------------------------------------------------------------------------
(* Lemmas about the state in which cost sums and rounds.                   *)

\* The rates chosen are those of the highest threshold the prompt exceeds.
LEMMA ChosenRatesGovern ==
    ASSUME Inv, pc = "sum", B!Countable(call.usage)
    PROVE  /\ B!Governs(r, B!Prompt(call.usage), t)
           /\ t \in {r.Base} \cup {r.Tiers[i].TierRates : i \in DOMAIN r.Tiers}
           /\ t \in TierRates /\ priceable(t)
<1> DEFINE u == call.usage
           n == B!Prompt(u)
<1>1. u \in Usage /\ ~ B!Impossible(u) /\ c = disjoint(u)
  BY PanicsIffImpossible DEF Inv, DisjointInv
<1>2. promptTokens(c) = n
  BY <1>1, DisjointIsBilled
<1>3. /\ r.Tiers \in Seq(Tier) /\ DOMAIN r.Tiers = 1 .. Len(r.Tiers) /\ Len(r.Tiers) \in Nat
      /\ \A i \in DOMAIN r.Tiers : r.Tiers[i].AbovePromptTokens \in Int
  <2>1. r.Tiers \in Seq(Tier)
    BY DEF Inv, TypeOK, IsRates
  <2>2. \A i \in DOMAIN r.Tiers : r.Tiers[i] \in Tier
    BY <2>1
  <2> QED
    BY <2>1, <2>2 DEF Tier, Int64
<1>4. n \in Int
  BY <1>1 DEF B!Prompt, Usage, ClaudeUsage, OpenAIUsage, FireworksUsage, Int64
<1>5. /\ \A j \in at + 1 .. Len(r.Tiers) : n <= r.Tiers[j].AbovePromptTokens
      /\ \/ at = 0 /\ t = r.Base
         \/ at > 0 /\ n > r.Tiers[at].AbovePromptTokens /\ t = r.Tiers[at].TierRates
      /\ at \in 0 .. Len(r.Tiers)
  BY <1>2, <1>3, <1>4 DEF Inv, TypeOK, ScanInv, Exceeds
<1>6. /\ priceable(r.Base)
      /\ \A i \in DOMAIN r.Tiers :
            /\ \A j \in 1 .. i - 1 : r.Tiers[j].AbovePromptTokens < r.Tiers[i].AbovePromptTokens
            /\ priceable(r.Tiers[i].TierRates)
  BY DEF Inv, RatesInv, ValidRates
<1> HIDE DEF n
<1>7. CASE at = 0 /\ t = r.Base
  <2>1. B!Governs(r, n, t)
    BY <1>3, <1>5, <1>7 DEF B!Governs
  <2> QED
    BY <1>6, <1>7, <2>1 DEF n, Inv, TypeOK
<1>8. CASE at > 0 /\ n > r.Tiers[at].AbovePromptTokens /\ t = r.Tiers[at].TierRates
  <2>1. at \in DOMAIN r.Tiers
    BY <1>3, <1>5, <1>8
  <2>2. ASSUME NEW j \in DOMAIN r.Tiers, r.Tiers[j].AbovePromptTokens < n
        PROVE  r.Tiers[j].AbovePromptTokens <= r.Tiers[at].AbovePromptTokens
    <3>1. j <= at
      BY <1>3, <1>4, <1>5, <2>2
    <3> QED
      BY <1>3, <1>6, <2>1, <3>1
  <2>3. B!Governs(r, n, t)
    BY <1>3, <1>4, <1>8, <2>1, <2>2 DEF B!Governs
  <2> QED
    BY <1>6, <1>8, <2>1, <2>3 DEF n, Inv, TypeOK
<1> QED
  BY <1>5, <1>7, <1>8

\* A part's amount is what Billing charges for it, and is never negative.
LEMMA AmountIsCharge ==
    ASSUME Inv, pc = "sum", B!Countable(call.usage), NEW x \in Parts
    PROVE  /\ Amount(x) = B!Charge(call.usage, r, t, x)
           /\ c[x] = B!Billed(call.usage, x) /\ c[x] \in Nat
           /\ (c[x] # 0 /\ t[x] # Nil) => Amount(x) \in Nat
           /\ c[x] = 0 => Amount(x) = 0
<1> DEFINE u == call.usage
           f == B!FastFactor(u, r, x)
           g == B!RegionFactor(u, r)
<1>1. u \in Usage /\ ~ B!Impossible(u) /\ c = disjoint(u)
  BY PanicsIffImpossible DEF Inv, DisjointInv
<1>2. c[x] = B!Billed(u, x) /\ c[x] \in Nat
  <2>1. c[x] = B!Billed(u, x) /\ c[x] >= 0
    BY <1>1, DisjointIsBilled
  <2>2. c[x] \in Int64
    BY DEF Inv, TypeOK
  <2> QED
    BY <2>1, <2>2 DEF Int64
<1>3. f \in Nat \ {0} /\ g \in Nat \ {0} /\ factor(p, x) = f * g
  BY <1>1, PremiumFactors DEF Inv, TypeOK, RatesInv, PremiumInv
<1> HIDE DEF f, g
<1>4. usd(x) = t[x] * c[x] * (f * g)
  BY <1>3 DEF usd
<1>5. B!Charge(u, r, t, x) = IF c[x] = 0 THEN 0 ELSE t[x] * c[x] * (f * g)
  BY <1>2 DEF B!Charge, f, g
<1>6. t[x] # Nil => t[x] \in Nat
  BY ChosenRatesGovern DEF priceable, TierRates, Parts, TokenParts
<1>7. f * g \in Nat
  BY <1>3
<1>8. t[x] # Nil => t[x] * c[x] \in Nat
  BY <1>2, <1>6
<1>9. t[x] # Nil => t[x] * c[x] * (f * g) \in Nat
  BY <1>7, <1>8
<1> QED
  BY <1>2, <1>4, <1>5, <1>9 DEF Amount

\* When every part is summed, the total is Billing's.
LEMMA TotalIsBilled ==
    ASSUME Inv, pc = "sum", next > Len(Part), B!Countable(call.usage)
    PROVE  /\ total = B!Total(call.usage, r, t) /\ total \in Nat
           /\ ~ B!Unpriced(call.usage, t)
<1>1. Len(Part) = 5 /\ next = 6
  BY DEF Inv, TypeOK, Part
<1>2. \A k \in 1 .. 5 : c[Part[k]] # 0 => t[Part[k]] # Nil
  BY <1>1 DEF Inv, SumInv
<1>3. \A x \in Parts : c[x] # 0 => t[x] # Nil
  <2>1. \A x \in Parts : \E k \in 1 .. 5 : x = Part[k]
    <3>1. /\ Part[1] = "input" /\ Part[2] = "cacheRead" /\ Part[3] = "cacheCreation"
          /\ Part[4] = "cacheCreation1h" /\ Part[5] = "output"
      BY DEF Part
    <3> QED
      BY <3>1 DEF Parts
  <2> QED
    BY <1>2, <2>1
<1>4. \A x \in Parts : Amount(x) = B!Charge(call.usage, r, t, x) /\ Amount(x) \in Nat
  BY <1>3, AmountIsCharge
<1>5. total = Amount("input") + Amount("cacheRead") + Amount("cacheCreation")
                + Amount("cacheCreation1h") + Amount("output")
  BY <1>1, <1>4 DEF Inv, SumInv, Summed, Parts
<1>6. total = B!Total(call.usage, r, t) /\ total \in Nat
  BY <1>4, <1>5 DEF B!Total, Parts
<1>7. ~ B!Unpriced(call.usage, t)
  BY <1>3, AmountIsCharge, SameReading DEF B!Unpriced
<1> QED
  BY <1>6, <1>7

----------------------------------------------------------------------------
(* Each way of returning gives a reply that is due.                        *)

LEMMA PanicIsDue ==
    ASSUME Inv, Panics(call.usage)
    PROVE  B!Due(table, call.model, call.usage, Reply("panic", 0))
BY PanicsIffImpossible DEF Inv, B!Due, B!Reply, Reply

\* A usage that names no tier, or a model with no rates at it, is refused.
LEMMA UnlistedIsDue ==
    ASSUME Inv, pc = "rates",
           ~ (TierOk(call.usage) /\ Found(resolve(call.model), tier(call.usage)))
    PROVE  B!Due(table, call.model, call.usage, Reply("refused", 0))
<1> DEFINE u == call.usage
           key == B!Meant(table, call.model)
           s == B!Named(u)
<1>1. CASE ~ B!Countable(u)
  BY <1>1 DEF B!Due
<1>2. CASE B!Countable(u)
  <2>1. u \in Usage /\ ~ B!Impossible(u)
    BY <1>2, PanicsIffImpossible DEF Inv, DisjointInv
  <2>2. s = tier(u) /\ (TierOk(u) <=> s \in ServiceTiers)
    BY <2>1, TierNamed
  <2>3. ~ (s \in ServiceTiers /\ B!ForSale(table, key, s))
    BY <2>2, LookUpIsListed
  <2> QED
    BY <2>1, <2>3, SameReading DEF B!Due, B!Reply, Reply
<1> QED
  BY <1>1, <1>2

\* Past the lookup, the rates in hand are those Billing lists.
LEMMA RatesAreListed ==
    ASSUME Inv, pc \in {"premium", "tier", "sum"}, B!Countable(call.usage)
    PROVE  LET key == B!Meant(table, call.model)
               s == B!Named(call.usage)
           IN /\ ~ B!Impossible(call.usage)
              /\ s \in ServiceTiers /\ B!ForSale(table, key, s)
              /\ r = B!ListPrice(table, key, s)
<1>1. call.usage \in Usage /\ ~ B!Impossible(call.usage)
  BY PanicsIffImpossible DEF Inv, DisjointInv
<1>2. /\ tier(call.usage) = B!Named(call.usage) /\ B!Named(call.usage) \in ServiceTiers
      /\ Found(resolve(call.model), tier(call.usage))
      /\ r = rates(resolve(call.model), tier(call.usage))
  BY <1>1, TierNamed DEF Inv, RatesInv
<1> QED
  BY <1>1, <1>2, LookUpIsListed

\* A mode the model has no factor for is refused.
LEMMA UnpricedModeIsDue ==
    ASSUME Inv, pc = "premium", ~ PremiumOk(call.usage, r)
    PROVE  B!Due(table, call.model, call.usage, Reply("refused", 0))
<1>1. CASE ~ B!Countable(call.usage)
  BY <1>1 DEF B!Due
<1>2. CASE B!Countable(call.usage)
  BY <1>2, RatesAreListed, SameReading DEF B!Due, B!Reply, Reply
<1> QED
  BY <1>1, <1>2

\* What remains to be shown of a priced request.
LEMMA PricedIsDue ==
    ASSUME Inv, pc = "sum", NEW a,
           B!Countable(call.usage) => B!PricedAt(call.usage, r, a)
    PROVE  B!Due(table, call.model, call.usage, a)
<1>1. CASE ~ B!Countable(call.usage)
  BY <1>1 DEF B!Due
<1>2. CASE B!Countable(call.usage)
  <2>1. PremiumOk(call.usage, r)
    BY DEF Inv, PremiumInv
  <2> QED
    BY <1>2, <2>1, RatesAreListed, SameReading DEF B!Due
<1> QED
  BY <1>1, <1>2

\* Used tokens of a component without a rate are refused.
LEMMA UnpricedPartIsDue ==
    ASSUME Inv, pc = "sum", next <= Len(Part), c[Part[next]] # 0, t[Part[next]] = Nil
    PROVE  B!Due(table, call.model, call.usage, Reply("refused", 0))
<1> SUFFICES ASSUME B!Countable(call.usage)
             PROVE  B!PricedAt(call.usage, r, Reply("refused", 0))
  BY PricedIsDue
<1>1. Part[next] \in Parts
  BY DEF Inv, TypeOK, Part, Parts
<1>2. B!Billed(call.usage, Part[next]) > 0
  BY <1>1, AmountIsCharge
<1>3. B!Unpriced(call.usage, t)
  BY <1>1, <1>2, SameReading DEF B!Unpriced
<1> QED
  BY <1>3, ChosenRatesGovern DEF B!PricedAt, B!Reply, Reply

\* A rounded total is the price, or overflows as the exact total does.
LEMMA RoundedIsDue ==
    ASSUME Inv, pc = "sum", next > Len(Part)
    PROVE  /\ ceilNls(total) \in Int64 =>
                B!Due(table, call.model, call.usage, Reply("ok", ceilNls(total)))
           /\ ceilNls(total) \notin Int64 =>
                B!Due(table, call.model, call.usage, Reply("panic", 0))
<1> DEFINE u == call.usage
           n == ceilNls(total)
<1>1. CASE ~ B!Countable(u)
  BY <1>1 DEF B!Due
<1>2. CASE B!Countable(u)
  <2>1. /\ total = B!Total(u, r, t) /\ total \in Nat /\ ~ B!Unpriced(u, t)
        /\ B!Governs(r, B!Prompt(u), t)
        /\ t \in {r.Base} \cup {r.Tiers[i].TierRates : i \in DOMAIN r.Tiers}
    BY <1>2, TotalIsBilled, ChosenRatesGovern
  <2>2. n \in Int /\ (n - 1) * Quantum < total /\ total <= n * Quantum
    BY <2>1, Ceiling
  <2> HIDE DEF n
  <2>3. Quantum \in Nat \ {0}
    BY DEF Quantum
  <2>4. n >= 0
    <3>1. SUFFICES ASSUME n <= -1 PROVE FALSE
      BY <2>2
    <3>2. n * Quantum <= -1
      BY <2>2, <2>3, <3>1
    <3>3. n * Quantum \in Int
      BY <2>2, <2>3
    <3> QED
      BY <2>1, <2>2, <3>2, <3>3
  <2>5. CASE n \in Int64
    <3>1. n \in 0 .. MaxInt
      BY <2>4, <2>5 DEF Int64
    <3>2. B!Covers(n, total)
      BY <2>2, SameReading DEF B!Covers
    <3>3. B!PricedAt(u, r, Reply("ok", n))
      BY <2>1, <3>1, <3>2 DEF B!PricedAt, Reply
    <3> QED
      BY <2>5, <3>3, PricedIsDue DEF n
  <2>6. CASE n \notin Int64
    <3>1. n - 1 >= MaxInt
      BY <2>2, <2>4, <2>6 DEF Int64
    <3>2. (n - 1) * Quantum >= MaxInt * Quantum
      BY <2>2, <2>3, <3>1
    <3>3. (n - 1) * Quantum \in Int /\ MaxInt * Quantum \in Int
      BY <2>2, <2>3
    <3>4. total > MaxInt * Quantum
      BY <2>1, <2>2, <3>2, <3>3
    <3>5. B!PricedAt(u, r, Reply("panic", 0))
      BY <2>1, <3>4, SameReading DEF B!PricedAt, B!Reply, Reply
    <3> QED
      BY <2>6, <3>5, PricedIsDue DEF n
  <2> QED
    BY <2>5, <2>6 DEF n
<1> QED
  BY <1>1, <1>2

----------------------------------------------------------------------------
(* The invariant.                                                          *)

LEMMA NoRatesType == IsRates(NoRates) /\ NoRates.Base \in TierRates /\ Len(NoRates.Tiers) = 0
BY DEF NoRates, IsRates, TierRates, Multiplier, IsMultiplierMap

\* The locals of a call that has not begun have their types.
LEMMA EmptyLocals ==
    /\ NoComponents \in [Parts -> Int64]
    /\ [tokens |-> Unscaled, cache |-> Unscaled] \in [tokens: Int, cache: Int]
BY DEF NoComponents, Int64, Unscaled

\* The inductive invariant holds before a table is built.
LEMMA InitInv == Init => Inv
<1> SUFFICES ASSUME Init PROVE Inv
  OBVIOUS
<1>1. TypeOK
  BY NoRatesType, EmptyLocals
     DEF Init, InitLocals, TypeOK, Statements, Reply, Int64
<1>2. call.usage \in Usage
  <2>1. call.usage = [kind |-> "fireworks", InputTokens |-> 0, CachedTokens |-> 0,
                      OutputTokens |-> 0]
    BY DEF Init, B!NoCall
  <2>2. 0 \in Int64
    BY DEF Int64
  <2> QED
    BY <2>1, <2>2 DEF Usage, FireworksUsage
<1>3. TableInv
  BY DEF Init, B!NoTable, TableInv
<1>4. pc = "new" /\ at = 0 /\ next = 1 /\ total = 0 /\ reply.kind = "idle"
  BY DEF Init, InitLocals, Reply
<1> QED
  BY <1>1, <1>2, <1>3, <1>4 DEF Inv, LocalsInv, DisjointInv, RatesInv, PremiumInv, ScanInv,
     SumInv, ReplyInv, Computing

\* A return with a due reply keeps the invariant.
LEMMA ReturnInv ==
    ASSUME Inv, NEW k \in {"ok", "refused", "panic"}, NEW n \in Int64, Return(k, n),
           B!Due(table, call.model, call.usage, Reply(k, n))
    PROVE  Inv'
<1>1. TypeOK'
  BY NoRatesType, EmptyLocals DEF Return, TypeOK, Statements, Reply
<1>2. call.usage' \in Usage /\ TableInv'
  BY DEF Inv, Return, TableInv
<1>3. ReplyInv'
  BY DEF Return, ReplyInv, Computing, Reply
<1> QED
  BY <1>1, <1>2, <1>3 DEF Return, Inv, LocalsInv, DisjointInv, RatesInv, PremiumInv, ScanInv, SumInv

\* Every step keeps the inductive invariant.
LEMMA StepInv == Inv /\ [Next]_vars => Inv'
<1> SUFFICES ASSUME Inv, [Next]_vars PROVE Inv'
  OBVIOUS
<1>0. 0 \in Int64
  BY DEF Int64
<1>1. ASSUME NEW snap \in Snapshots, NEW cfg \in Configs, NewFrom(snap, cfg)
      PROVE  Inv'
  <2>1. TypeOK' /\ call.usage' \in Usage
    BY <1>1 DEF Inv, NewFrom, locals, TypeOK, Statements
  <2>2. TableInv'
    <3>1. CASE Malformed(snap, cfg)
      BY <1>1, <3>1 DEF Inv, NewFrom, TableInv
    <3>2. CASE ~ Malformed(snap, cfg)
      <4>1. table' = [models |-> snap, aliases |-> cfg.Aliases, overrides |-> cfg.Overrides]
        BY <1>1, <3>2 DEF NewFrom
      <4>2. \A m \in DOMAIN snap : \A s \in DOMAIN snap[m] :
               IsRates(snap[m][s]) /\ ValidRates(snap[m][s])
        BY <3>2, SnapshotAssumption DEF Malformed
      <4>3. \A m \in DOMAIN cfg.Overrides : cfg.Overrides[m] # Nil =>
               IsRates(cfg.Overrides[m]) /\ ValidRates(cfg.Overrides[m])
        BY <3>2, ConfigAssumption, ValidatedIsValid DEF Malformed
      <4> QED
        BY <4>1, <4>2, <4>3 DEF TableInv
    <3> QED
      BY <3>1, <3>2
  <2> QED
    BY <1>1, <2>1, <2>2 DEF Inv, NewFrom, locals, LocalsInv, DisjointInv, RatesInv, PremiumInv, ScanInv,
       SumInv, ReplyInv, Computing
<1>2. ASSUME NEW m \in Models, NEW u \in Usages, Cost(m, u)
      PROVE  Inv'
  <2>1. TypeOK' /\ TableInv'
    BY <1>0, <1>2 DEF Inv, Cost, locals, TypeOK, Statements, TableInv, Reply
  <2>2. call.usage' \in Usage
    BY <1>2, UsageAssumption DEF Cost
  <2> QED
    BY <1>2, <2>1, <2>2 DEF Inv, Cost, locals, LocalsInv, DisjointInv, RatesInv, PremiumInv, ScanInv,
       SumInv, ReplyInv, Computing, Reply
<1>3. CASE Continue
  <2>1. TypeOK' /\ TableInv'
    BY <1>0, <1>3 DEF Inv, Continue, locals, TypeOK, Statements, TableInv, Reply
  <2>2. call.usage' \in Usage
    BY <1>0, <1>3 DEF Continue, B!NoCall, Usage, FireworksUsage
  <2> QED
    BY <1>3, <2>1, <2>2 DEF Inv, Continue, locals, LocalsInv, DisjointInv, RatesInv, PremiumInv, ScanInv,
       SumInv, ReplyInv, Computing, Reply
<1>4. CASE Disjoint
  <2>1. CASE Panics(call.usage)
    BY <1>0, <1>4, <2>1, PanicIsDue, ReturnInv DEF Disjoint
  <2>2. CASE ~ Panics(call.usage)
    <3>1. c' \in [Parts -> Int64]
      BY <1>4, <2>2, DisjointType DEF Disjoint, Inv
    <3>2. TypeOK'
      BY <1>4, <2>2, <3>1 DEF Inv, Disjoint, TypeOK, Statements
    <3> QED
      BY <1>4, <2>2, <3>2 DEF Inv, Disjoint, TableInv, LocalsInv, DisjointInv, RatesInv, PremiumInv,
         ScanInv, SumInv, ReplyInv, Computing
  <2> QED
    BY <2>1, <2>2
<1>5. CASE LookUp
  <2> DEFINE m == resolve(call.model)
             s == tier(call.usage)
  <2>1. CASE ~ (TierOk(call.usage) /\ Found(m, s))
    <3>1. Refuse
      BY <1>5, <2>1 DEF LookUp
    <3> QED
      BY <1>0, <1>5, <2>1, <3>1, UnlistedIsDue, ReturnInv DEF LookUp, Refuse
  <2>2. CASE TierOk(call.usage) /\ Found(m, s)
    <3>1. /\ r' = rates(m, s) /\ pc' = "premium"
          /\ UNCHANGED <<table, call, c, p, at, t, next, total, reply>>
      BY <1>5, <2>2 DEF LookUp
    <3>2. IsRates(rates(m, s)) /\ ValidRates(rates(m, s))
      BY <2>2 DEF Inv, TableInv, Found, rates
    <3>3. at = 0
      BY <1>5 DEF LookUp, Inv, LocalsInv
    <3>4. Len(r'.Tiers) \in Nat
      BY <3>1, <3>2 DEF IsRates
    <3>5. TypeOK'
      BY <3>1, <3>2, <3>3, <3>4 DEF Inv, TypeOK, Statements
    <3>6. RatesInv'
      BY <2>2, <3>1, <3>2 DEF RatesInv, Found, resolve, rates
    <3> QED
      BY <1>5, <3>1, <3>5, <3>6 DEF LookUp, Inv, TableInv, LocalsInv, DisjointInv, PremiumInv,
         ScanInv, SumInv, ReplyInv, Computing
  <2> QED
    BY <2>1, <2>2
<1>6. CASE Premium
  <2>1. CASE ~ PremiumOk(call.usage, r)
    BY <1>0, <1>6, <2>1, UnpricedModeIsDue, ReturnInv DEF Premium, Refuse
  <2>2. CASE PremiumOk(call.usage, r)
    <3>1. /\ p' = premium(call.usage, r) /\ at' = Len(r.Tiers) /\ pc' = "tier"
          /\ UNCHANGED <<table, call, c, r, t, next, total, reply>>
      BY <1>6, <2>2 DEF Premium
    <3>2. premium(call.usage, r) \in [tokens: Int, cache: Int]
      BY <1>6, <2>2, PremiumFactors DEF Premium, Inv, TypeOK, RatesInv
    <3>3. Len(r.Tiers) \in Nat
      BY DEF Inv, TypeOK, IsRates
    <3>4. TypeOK'
      BY <3>1, <3>2, <3>3 DEF Inv, TypeOK, Statements
    <3>5. RatesInv' /\ PremiumInv' /\ DisjointInv'
      BY <1>6, <2>2, <3>1 DEF Premium, Inv, RatesInv, PremiumInv, LocalsInv, DisjointInv, Found, resolve, rates
    <3>6. ScanInv'
      BY <3>1, <3>3 DEF ScanInv
    <3> QED
      BY <1>6, <3>1, <3>4, <3>5, <3>6 DEF Premium, Inv, TableInv, LocalsInv, SumInv, ReplyInv, Computing
  <2> QED
    BY <2>1, <2>2
<1>7. CASE ScanTier
  <2>1. /\ at' = at - 1 /\ at > 0 /\ ~ Exceeds(at) /\ pc = "tier"
        /\ UNCHANGED <<pc, table, call, c, r, p, t, next, total, reply>>
    BY <1>7 DEF ScanTier
  <2>2. Len(r.Tiers) \in Nat
    BY DEF Inv, TypeOK, IsRates
  <2>3. TypeOK'
    BY <2>1, <2>2 DEF Inv, TypeOK
  <2>4. RatesInv' /\ PremiumInv' /\ DisjointInv'
    BY <2>1 DEF Inv, RatesInv, PremiumInv, LocalsInv, DisjointInv, Found, resolve, rates
  <2>5. ScanInv'
    BY <2>1, <2>2 DEF Inv, TypeOK, ScanInv, Exceeds
  <2> QED
    BY <2>1, <2>3, <2>4, <2>5 DEF Inv, TableInv, LocalsInv, SumInv, ReplyInv, Computing
<1>8. CASE PickTier
  <2>1. /\ t' = IF at = 0 THEN r.Base ELSE r.Tiers[at].TierRates
        /\ at > 0 => Exceeds(at)
        /\ pc = "tier" /\ pc' = "sum"
        /\ UNCHANGED <<table, call, c, r, p, at, next, total, reply>>
    BY <1>8 DEF PickTier
  <2>2. t' \in TierRates
    <3>1. CASE at = 0
      BY <2>1, <3>1 DEF Inv, TypeOK, IsRates
    <3>2. CASE at # 0
      <4>1. r.Tiers \in Seq(Tier) /\ at \in 1 .. Len(r.Tiers)
        BY <3>2 DEF Inv, TypeOK, IsRates
      <4>2. r.Tiers[at] \in Tier
        BY <4>1
      <4> QED
        BY <2>1, <3>2, <4>2 DEF Tier
    <3> QED
      BY <3>1, <3>2
  <2>3. TypeOK'
    BY <2>1, <2>2 DEF Inv, TypeOK, Statements
  <2>4. RatesInv' /\ PremiumInv' /\ DisjointInv'
    BY <2>1 DEF Inv, RatesInv, PremiumInv, LocalsInv, DisjointInv, Found, resolve, rates
  <2>5. ScanInv'
    BY <2>1 DEF Inv, TypeOK, ScanInv, Exceeds
  <2>6. next = 1 /\ total = 0
    BY <2>1 DEF Inv, LocalsInv
  <2>7. SumInv'
    BY <2>1, <2>6 DEF SumInv, Summed
  <2> QED
    BY <2>1, <2>3, <2>4, <2>5, <2>7 DEF Inv, TableInv, LocalsInv, ReplyInv, Computing
<1>9. CASE SumPart
  <2>1. CASE c[Part[next]] # 0 /\ t[Part[next]] = Nil
    BY <1>0, <1>9, <2>1, UnpricedPartIsDue, ReturnInv DEF SumPart, Refuse
  <2>2. CASE ~ (c[Part[next]] # 0 /\ t[Part[next]] = Nil)
    <3>1. /\ total' = IF c[Part[next]] = 0 THEN total ELSE total + usd(Part[next])
          /\ next' = next + 1 /\ pc = "sum" /\ next <= Len(Part)
          /\ UNCHANGED <<pc, table, call, c, r, p, at, t, reply>>
      BY <1>9, <2>2 DEF SumPart
    <3>2. next \in 1 .. 5 /\ Part[next] \in Parts
      BY <3>1 DEF Inv, TypeOK, Part, Parts
    <3>3. ASSUME NEW x \in Parts, c[x] # 0, t[x] # Nil
          PROVE  usd(x) \in Int
      <4>1. t[x] \in Int /\ c[x] \in Int
        BY <3>3 DEF Inv, TypeOK, TierRates, Int64
      <4>2. factor(p, x) \in Int
        BY DEF Inv, TypeOK, factor
      <4>3. t[x] * c[x] \in Int
        BY <4>1
      <4> QED
        BY <4>2, <4>3 DEF usd
    <3>4. total' = total + Amount(Part[next]) /\ total' \in Int
      BY <2>2, <3>1, <3>2, <3>3 DEF Amount, Inv, TypeOK
    <3>5. TypeOK'
      BY <3>1, <3>2, <3>4 DEF Inv, TypeOK
    <3>6. RatesInv' /\ PremiumInv' /\ DisjointInv' /\ ScanInv'
      BY <3>1 DEF Inv, RatesInv, PremiumInv, DisjointInv, ScanInv, Exceeds, Found, resolve, rates
    <3>7. \A k \in 1 .. next : c[Part[k]] # 0 => t[Part[k]] # Nil
      BY <2>2, <3>1, <3>2 DEF Inv, SumInv
    <3>8. \A x \in Parts : Amount(x)' = Amount(x)
      BY <3>1 DEF Amount, usd, factor
    <3>9. Summed(next)' = Summed(next) + Amount(Part[next])
      <4>1. \A k \in 1 .. next : Amount(Part[k]) \in Int
        <5> SUFFICES ASSUME NEW k \in 1 .. next PROVE Amount(Part[k]) \in Int
          OBVIOUS
        <5>1. Part[k] \in Parts
          BY <3>2 DEF Part, Parts
        <5> QED
          BY <3>3, <3>7, <5>1 DEF Amount
      <4>2. /\ Part[1] = "input" /\ Part[2] = "cacheRead" /\ Part[3] = "cacheCreation"
            /\ Part[4] = "cacheCreation1h" /\ Part[5] = "output"
        BY DEF Part
      <4>3. Summed(next)' = Summed(next + 1)
        BY <3>1, <3>8 DEF Summed, Parts
      <4>4. CASE next = 1
        BY <4>1, <4>2, <4>3, <4>4 DEF Summed
      <4>5. CASE next = 2
        BY <4>1, <4>2, <4>3, <4>5 DEF Summed
      <4>6. CASE next = 3
        BY <4>1, <4>2, <4>3, <4>6 DEF Summed
      <4>7. CASE next = 4
        BY <4>1, <4>2, <4>3, <4>7 DEF Summed
      <4>8. CASE next = 5
        BY <4>1, <4>2, <4>3, <4>8 DEF Summed
      <4> QED
        BY <3>2, <4>4, <4>5, <4>6, <4>7, <4>8
    <3>10. SumInv'
      BY <3>1, <3>2, <3>4, <3>7, <3>9 DEF Inv, SumInv
    <3> QED
      BY <3>1, <3>5, <3>6, <3>10 DEF Inv, TableInv, LocalsInv, ReplyInv, Computing
  <2> QED
    BY <2>1, <2>2
<1>10. CASE Round
  BY <1>0, <1>10, RoundedIsDue, ReturnInv DEF Round
<1>11. CASE UNCHANGED vars
  BY <1>11 DEF vars, locals, Inv, TypeOK, TableInv, LocalsInv, DisjointInv, RatesInv, PremiumInv,
     ScanInv, SumInv, ReplyInv, Computing, Exceeds, Summed, Amount, usd, Found, resolve, rates
<1> QED
  BY <1>1, <1>2, <1>3, <1>4, <1>5, <1>6, <1>7, <1>8, <1>9, <1>10, <1>11 DEF Next, Step

\* The invariant holds in every reachable state.
LEMMA Invariance == Spec => []Inv
BY InitInv, StepInv, PTL DEF Spec

----------------------------------------------------------------------------
(* The theorems.                                                           *)

\* The locals of Cost always hold what their Go types hold: every count the
\* arithmetic of disjoint() and promptTokens() works with is an int64.
THEOREM TypeCorrect == Spec => []TypeOK
<1>1. Inv => TypeOK
  BY DEF Inv
<1> QED
  BY <1>1, Invariance, PTL

\* The disjoint components of every countable usage partition the tokens the
\* response reported, for each of the three reporting conventions.
THEOREM TokensBilledOnce == Spec => []EveryTokenBilledOnce
<1>1. Inv => EveryTokenBilledOnce
  <2> SUFFICES ASSUME Inv, pc \in {"rates", "premium", "tier", "sum"}, B!Countable(call.usage)
               PROVE  /\ \A x \in Parts : c[x] >= 0
                      /\ c["input"] + c["cacheRead"] + c["cacheCreation"] + c["cacheCreation1h"]
                           = B!Prompt(call.usage)
                      /\ c["output"] = call.usage.OutputTokens
    BY DEF EveryTokenBilledOnce
  <2>1. call.usage \in Usage /\ ~ B!Impossible(call.usage) /\ c = disjoint(call.usage)
    BY PanicsIffImpossible DEF Inv, DisjointInv
  <2> QED
    BY <2>1, DisjointIsBilled
<1> QED
  BY <1>1, Invariance, PTL

\* A charge on tokens used is positive when the rate is.
LEMMA PositiveCharge ==
    ASSUME NEW u \in Usage, ~ B!Impossible(u), B!Countable(u),
           NEW rr, IsRates(rr), ValidRates(rr), PremiumOk(u, rr),
           NEW tt \in TierRates, priceable(tt), ~ B!Unpriced(u, tt), NEW x \in Parts
    PROVE  /\ B!Charge(u, rr, tt, x) \in Nat
           /\ x \in TokenParts /\ B!Billed(u, x) > 0 => B!Charge(u, rr, tt, x) > 0
<1> DEFINE f == B!FastFactor(u, rr, x)
           g == B!RegionFactor(u, rr)
           b == B!Billed(u, x)
<1>1. f \in Nat \ {0} /\ g \in Nat \ {0}
  BY PremiumFactors
<1>2. b \in Nat
  <2>1. b = disjoint(u)[x] /\ disjoint(u)[x] >= 0 /\ disjoint(u)[x] \in Int64
    BY DisjointIsBilled, DisjointType
  <2> QED
    BY <2>1 DEF Int64
<1>3. b > 0 => tt[x] \in Nat /\ (x \in TokenParts => tt[x] > 0)
  BY SameReading DEF B!Unpriced, priceable, TierRates, TokenParts
<1>4. B!Charge(u, rr, tt, x) = IF b = 0 THEN 0 ELSE tt[x] * b * (f * g)
  BY DEF B!Charge
<1> HIDE DEF f, g, b
<1>5. f * g \in Nat \ {0}
  BY <1>1
<1>6. CASE b = 0
  BY <1>4, <1>6 DEF b
<1>7. CASE b > 0
  <2>1. tt[x] * b \in Nat /\ (x \in TokenParts => tt[x] * b > 0)
    BY <1>2, <1>3, <1>7
  <2>2. tt[x] * b * (f * g) \in Nat /\ (x \in TokenParts => tt[x] * b * (f * g) > 0)
    BY <1>5, <2>1
  <2> QED
    BY <1>4, <1>7, <2>2
<1> QED
  BY <1>2, <1>6, <1>7

\* No request that used uncached input or output is ever billed at zero nls.
THEOREM UseCosts == Spec => []UseIsNeverFree
<1>1. Inv => UseIsNeverFree
  <2> DEFINE u == call.usage
             key == B!Meant(table, call.model)
             s == B!Named(u)
             rr == B!ListPrice(table, key, s)
  <2> SUFFICES ASSUME Inv, reply.kind = "ok", B!Countable(u),
                      NEW x \in TokenParts, B!Billed(u, x) > 0
               PROVE  reply.nls >= 1
    BY DEF UseIsNeverFree
  <2>1. pc = "returned"
    BY DEF Inv, TypeOK, Statements, ReplyInv, Computing
  <2>2. /\ ~ B!Impossible(u) /\ s \in ServiceTiers /\ B!ForSale(table, key, s)
        /\ PremiumOk(u, rr) /\ B!PricedAt(u, rr, reply)
    <3>1. B!Due(table, call.model, u, reply)
      BY <2>1 DEF Inv, ReplyInv
    <3>2. reply # Reply("panic", 0) /\ reply # Reply("refused", 0)
      BY DEF Reply
    <3> QED
      BY <3>1, <3>2, SameReading DEF B!Due, B!Reply, Reply
  <2>3. IsRates(rr) /\ ValidRates(rr)
    BY <2>2 DEF Inv, TableInv, B!ForSale, B!ListPrice
  <2>4. PICK tt \in {rr.Base} \cup {rr.Tiers[i].TierRates : i \in DOMAIN rr.Tiers} :
           /\ ~ B!Unpriced(u, tt) /\ reply.nls \in 0 .. MaxInt
           /\ B!Covers(reply.nls, B!Total(u, rr, tt))
    BY <2>2 DEF B!PricedAt, B!Reply
  <2>5. tt \in TierRates /\ priceable(tt)
    <3>1. \A i \in DOMAIN rr.Tiers : rr.Tiers[i] \in Tier
      <4>1. rr.Tiers \in Seq(Tier)
        BY <2>3 DEF IsRates
      <4> QED
        BY <4>1
    <3> QED
      BY <2>3, <2>4, <3>1 DEF IsRates, ValidRates, Tier
  <2>6. \A y \in Parts : /\ B!Charge(u, rr, tt, y) \in Nat
                         /\ y \in TokenParts /\ B!Billed(u, y) > 0 => B!Charge(u, rr, tt, y) > 0
    BY <2>2, <2>3, <2>4, <2>5, PositiveCharge DEF Inv
  <2>7. B!Total(u, rr, tt) > 0
    BY <2>6 DEF B!Total, Parts, TokenParts
  <2>8. B!Total(u, rr, tt) <= reply.nls * Quantum
    BY <2>4, SameReading DEF B!Covers
  <2>9. CASE reply.nls = 0
    <3>1. reply.nls * Quantum = 0
      BY <2>9 DEF Quantum
    <3> QED
      BY <2>6, <2>7, <2>8, <3>1 DEF B!Total, Parts
  <2> QED
    BY <2>4, <2>9
<1> QED
  BY <1>1, Invariance, PTL

----------------------------------------------------------------------------
(* TableCost implements Billing.                                           *)

LEMMA SameSoundness ==
    ASSUME NEW snap, NEW cfg \in Configs
    PROVE  Malformed(snap, cfg) <=> ~ B!Sound(snap, cfg)
<1>1. \A m \in DOMAIN cfg.Overrides : cfg.Overrides[m] # Nil =>
         (validateOverrideRates(cfg.Overrides[m]) <=> B!ValidRates(cfg.Overrides[m]))
  BY ConfigAssumption, SameReading, ValidatedIsValid
<1> QED BY <1>1 DEF Malformed, B!Sound

\* A return with a due reply is an answer.
LEMMA ReturnAnswers ==
    ASSUME Inv, pc \in Computing, NEW k \in {"ok", "refused", "panic"}, NEW n, Return(k, n),
           B!Due(table, call.model, call.usage, Reply(k, n))
    PROVE  B!Answer
BY DEF Inv, ReplyInv, Computing, Return, Reply, B!Answer

\* Every step is a step of the abstract specification, or a stutter.
LEMMA StepRefines == Inv /\ [Next]_vars => [B!Next]_B!vars
<1> SUFFICES ASSUME Inv, [Next]_vars PROVE [B!Next]_B!vars
  OBVIOUS
<1>1. ASSUME NEW snap \in Snapshots, NEW cfg \in Configs, NewFrom(snap, cfg)
      PROVE  B!Next
  <2>1. B!Configure(snap, cfg)
    BY <1>1, SameSoundness DEF NewFrom, B!Configure
  <2> QED
    BY <2>1 DEF B!Next
<1>2. ASSUME NEW m \in Models, NEW u \in Usages, Cost(m, u)
      PROVE  B!Next
  <2>1. B!Ask(m, u)
    BY <1>2 DEF Inv, ReplyInv, Cost, B!Ask, B!Reply, Reply
  <2> QED
    BY <2>1 DEF B!Next
<1>3. CASE Continue
  BY <1>3 DEF Inv, ReplyInv, Continue, B!Continue, B!Reply, Reply, B!Next
<1>4. CASE Disjoint
  <2>1. CASE Panics(call.usage)
    BY <1>4, <2>1, PanicIsDue, ReturnAnswers DEF Disjoint, Computing, B!Next
  <2>2. CASE ~ Panics(call.usage)
    BY <1>4, <2>2 DEF Disjoint, B!vars
  <2> QED
    BY <2>1, <2>2
<1>5. CASE LookUp
  <2>1. CASE TierOk(call.usage) /\ Found(resolve(call.model), tier(call.usage))
    BY <1>5, <2>1 DEF LookUp, B!vars
  <2>2. CASE ~ (TierOk(call.usage) /\ Found(resolve(call.model), tier(call.usage)))
    BY <1>5, <2>2, UnlistedIsDue, ReturnAnswers DEF LookUp, Refuse, Computing, B!Next
  <2> QED
    BY <2>1, <2>2
<1>6. CASE Premium
  <2>1. CASE PremiumOk(call.usage, r)
    BY <1>6, <2>1 DEF Premium, B!vars
  <2>2. CASE ~ PremiumOk(call.usage, r)
    BY <1>6, <2>2, UnpricedModeIsDue, ReturnAnswers DEF Premium, Refuse, Computing, B!Next
  <2> QED
    BY <2>1, <2>2
<1>7. CASE ScanTier
  BY <1>7 DEF ScanTier, B!vars
<1>8. CASE PickTier
  BY <1>8 DEF PickTier, B!vars
<1>9. CASE SumPart
  <2>1. CASE c[Part[next]] # 0 /\ t[Part[next]] = Nil
    BY <1>9, <2>1, UnpricedPartIsDue, ReturnAnswers DEF SumPart, Refuse, Computing, B!Next
  <2>2. CASE ~ (c[Part[next]] # 0 /\ t[Part[next]] = Nil)
    BY <1>9, <2>2 DEF SumPart, B!vars
  <2> QED
    BY <2>1, <2>2
<1>10. CASE Round
  BY <1>10, RoundedIsDue, ReturnAnswers DEF Round, Computing, B!Next
<1>11. CASE UNCHANGED vars
  BY <1>11 DEF vars, B!vars
<1> QED
  BY <1>1, <1>2, <1>3, <1>4, <1>5, <1>6, <1>7, <1>8, <1>9, <1>10, <1>11 DEF Next, Step

\* Whatever the snapshot, the config, the request and the width of int64,
\* Table.Cost replies as its documents promise.
THEOREM Refinement == Spec => ImplementsBilling
<1>1. Init => B!Init
  BY DEF Init, B!Init, Reply, B!Reply
<1>2. Inv /\ [Next]_vars => [B!Next]_B!vars
  BY StepRefines
<1> QED
  BY <1>1, <1>2, Invariance, PTL DEF Spec, B!Spec, ImplementsBilling
=============================================================================
