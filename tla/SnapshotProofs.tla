--------------------------- MODULE SnapshotProofs ---------------------------
(***************************************************************************)
(* Theorems about Snapshot: whatever the price map and the order of the    *)
(* loops, Parse builds well-typed, valid rates, never gives one up, and    *)
(* ends with the table the price map publishes.                            *)
(***************************************************************************)
EXTENDS Snapshot, FiniteSetTheorems, WellFoundedInduction, TLAPS

(* Thresholds.                                                             *)

\* The remainder by a positive number is below it, and changes nothing below it.
LEMMA Remainder ==
    ASSUME NEW a \in Int, NEW d \in Nat \ {0}
    PROVE  a % d \in 0 .. d - 1 /\ (a \in 0 .. d - 1 => a % d = a)
  OBVIOUS

\* A product of int64 values is an int64, and is exact when it fits.
LEMMA MulIsInt64 ==
    ASSUME NEW a \in Int, NEW b \in Int
    PROVE  Mul(a, b) \in Int64 /\ (a * b \in 0 .. MaxInt => Mul(a, b) = a * b)
<1> DEFINE d == 2 * (MaxInt + 1)
           n == a * b + MaxInt + 1
<1>1. MaxInt \in Nat /\ d \in Nat \ {0} /\ a * b \in Int /\ n \in Int
  BY IntAssumption
<1>2. n % d \in 0 .. d - 1 /\ (n \in 0 .. d - 1 => n % d = n)
  BY <1>1, Remainder
<1>3. Mul(a, b) = (n % d) - (MaxInt + 1)
  BY DEF Mul
<1> QED
  BY <1>1, <1>2, <1>3 DEF Int64

\* A legible context has an int64 threshold; where k keeps it in int64, the
\* threshold is the tokens it spells, and positive.
LEMMA ThresholdFacts ==
    ASSUME NEW ctx \in ContextName, Legible(ctx)
    PROVE  /\ Threshold(ctx) \in Int64
           /\ Tokens(ctx) <= MaxInt => Threshold(ctx) = Tokens(ctx) /\ Threshold(ctx) > 0
<1>1. ctx.n \in 1 .. MaxInt /\ ctx.k \in BOOLEAN /\ MaxInt \in Nat /\ Kilo \in Nat \ {0}
  BY IntAssumption, KiloAssumption DEF Legible, ContextName
<1>2. Mul(ctx.n, Kilo) \in Int64
      /\ (ctx.n * Kilo \in 0 .. MaxInt => Mul(ctx.n, Kilo) = ctx.n * Kilo)
  BY <1>1, MulIsInt64
<1>3. ctx.n * Kilo \in Nat /\ ctx.n * Kilo > 0
  BY <1>1
<1>4. CASE ctx.k
  BY <1>1, <1>2, <1>3, <1>4 DEF Threshold, Tokens
<1>5. CASE ~ ctx.k
  BY <1>1, <1>5 DEF Threshold, Tokens, Int64
<1> QED
  BY <1>4, <1>5

----------------------------------------------------------------------------
(* Reading an entry.                                                       *)

\* An entry of the price map is one, and its contexts are names of contexts.
LEMMA EntryFacts ==
    ASSUME NEW d \in Docs \ {Nil}, NEW key \in DOMAIN d, d[key] # Nil
    PROVE  /\ IsEntry(d[key])
           /\ \A s : Contexts(d[key], s) \subseteq ContextName
<1>1. IsEntry(d[key])
  BY DocAssumption
<1> QED
  BY <1>1 DEF IsEntry, Contexts, CostField

\* The rates of a context are rates when those it falls back on are.
LEMMA RatesType ==
    ASSUME NEW e, IsEntry(e), NEW ctx, NEW s, NEW base \in TierRates
    PROVE  rates(e, ctx, s, base) \in TierRates
  BY DEF IsEntry, rates, ratField, TierRates

\* The rates read from an entry are integers, or Nil where it has no number.
LEMMA EntryRatesType ==
    ASSUME NEW e, IsEntry(e), NEW s
    PROVE  /\ BaseRates(e, s) \in TierRates
           /\ \A ctx : ContextRates(e, ctx, s) \in TierRates
<1>1. NoRate \in TierRates
  BY DEF NoRate, TierRates
<1>2. BaseRates(e, s) \in TierRates
  BY <1>1, RatesType DEF BaseRates
<1> QED
  BY <1>2, RatesType DEF ContextRates

\* A new member of a map of multipliers, or of positive ones.
LEMMA WithFacts ==
    ASSUME NEW f, NEW g, NEW v
    PROVE  /\ IsMultiplierMap(f) /\ v \in Multiplier => IsMultiplierMap(With(f, g, v))
           /\ PositiveMap(f) /\ v # Nil /\ v > 0 => PositiveMap(With(f, g, v))
<1> DEFINE w == With(f, g, v)
<1>1. DOMAIN w = DOMAIN f \cup {g} /\ \A x \in DOMAIN w : w[x] = IF x = g THEN v ELSE f[x]
  BY DEF With
<1>2. \A x \in DOMAIN w : x = g \/ (x \in DOMAIN f /\ w[x] = f[x])
  BY <1>1
<1>3. w[g] = v
  BY <1>1
<1> QED
  BY <1>2, <1>3 DEF IsMultiplierMap, PositiveMap

\* A sorted sequence holds what the unsorted one holds, in ascending order.
LEMMA SortedFacts ==
    ASSUME NEW s \in Seq(Tier), NEW q \in Sorted(s)
    PROVE  /\ q \in Seq(Tier) /\ DOMAIN q = DOMAIN s
           /\ \A i \in DOMAIN q : \E j \in DOMAIN s : q[i] = s[j]
           /\ (\A i, j \in DOMAIN s : i # j => s[i].AbovePromptTokens # s[j].AbovePromptTokens)
              => \A i, j \in DOMAIN q : i < j => q[i].AbovePromptTokens < q[j].AbovePromptTokens
<1>1. PICK f \in [1 .. Len(s) -> 1 .. Len(s)] :
         /\ \A i, j \in 1 .. Len(s) :
               i < j => /\ f[i] # f[j]
                        /\ s[f[i]].AbovePromptTokens <= s[f[j]].AbovePromptTokens
         /\ q = [i \in 1 .. Len(s) |-> s[f[i]]]
  BY DEF Sorted
<1>2. DOMAIN s = 1 .. Len(s) /\ Len(s) \in Nat
  OBVIOUS
<1>3. q \in [1 .. Len(s) -> Tier]
  BY <1>1, <1>2
<1>4. q \in Seq(Tier) /\ DOMAIN q = DOMAIN s
  BY <1>2, <1>3
<1>5. \A i \in DOMAIN q : q[i] = s[f[i]] /\ f[i] \in DOMAIN s
  BY <1>1, <1>2
<1>6. \A i \in DOMAIN s : s[i].AbovePromptTokens \in Int
  <2>1. \A i \in DOMAIN s : s[i] \in Tier
    BY <1>2
  <2>2. Int64 \subseteq Int
    BY IntAssumption DEF Int64
  <2> QED
    BY <2>1, <2>2 DEF Tier
<1>7. ASSUME \A i, j \in DOMAIN s : i # j => s[i].AbovePromptTokens # s[j].AbovePromptTokens,
             NEW i \in DOMAIN q, NEW j \in DOMAIN q, i < j
      PROVE  q[i].AbovePromptTokens < q[j].AbovePromptTokens
  <2>1. q[i].AbovePromptTokens <= q[j].AbovePromptTokens /\ f[i] # f[j]
    BY <1>1, <1>2, <1>4, <1>5, <1>7
  <2> QED
    BY <2>1, <1>5, <1>6, <1>7
<1> QED
  BY <1>4, <1>5, <1>7

----------------------------------------------------------------------------
(* The backfill.                                                           *)

\* Filling gaps keeps what is there, and keeps rates that can bill.
LEMMA FillFacts ==
    ASSUME NEW dst \in TierRates, NEW src \in TierRates
    PROVE  /\ backfillTierRates(dst, src) \in TierRates
           /\ \A x \in Parts : dst[x] # Nil => backfillTierRates(dst, src)[x] = dst[x]
           /\ priceable(dst) /\ priceable(src) => priceable(backfillTierRates(dst, src))
  BY DEF backfillTierRates, TierRates, priceable, Parts, TokenParts

\* A set of natural numbers that has a member has a least one.
LEMMA LeastElement ==
    ASSUME NEW S, S \subseteq Nat, S # {}
    PROVE  \E j \in S : \A i \in S : j <= i
<1> DEFINE less == OpToRel(<, Nat)
<1>1. \A i, j \in Nat : i < j => <<i, j>> \in less
  BY DEF OpToRel
<1>2. IsWellFoundedOn(less, Nat)
  BY NatLessThanWellFounded
<1> HIDE DEF less
<1>3. PICK j \in S : \A i \in S : ~ (<<i, j>> \in less)
  BY <1>2, WFMin
<1>4. \A i \in S : ~ (i < j)
  BY <1>1, <1>3
<1> QED
  BY <1>4

\* A context keeps its threshold and its rates, and gains sound ones only.
LEMMA ContextFacts ==
    ASSUME NEW ct \in Tier, NEW tiers \in Seq(Tier)
    PROVE  /\ backfillContext(ct, tiers) \in Tier
           /\ backfillContext(ct, tiers).AbovePromptTokens = ct.AbovePromptTokens
           /\ \A x \in Parts : ct.TierRates[x] # Nil =>
                 backfillContext(ct, tiers).TierRates[x] = ct.TierRates[x]
           /\ priceable(ct.TierRates) /\ (\A j \in DOMAIN tiers : priceable(tiers[j].TierRates))
              => priceable(backfillContext(ct, tiers).TierRates)
<1> DEFINE same == {j \in DOMAIN tiers : tiers[j].AbovePromptTokens = ct.AbovePromptTokens}
           first == CHOOSE j \in same : \A i \in same : j <= i
<1>1. CASE same = {}
  BY <1>1 DEF backfillContext
<1>2. CASE same # {}
  <2>1. same \subseteq Nat
    OBVIOUS
  <2>2. \E j \in same : \A i \in same : j <= i
    BY <1>2, <2>1, LeastElement
  <2>3. first \in DOMAIN tiers /\ tiers[first] \in Tier
    BY <2>2
  <2>4. backfillContext(ct, tiers)
          = [ct EXCEPT !.TierRates = backfillTierRates(@, tiers[first].TierRates)]
    BY <1>2 DEF backfillContext
  <2>5. ct.TierRates \in TierRates /\ tiers[first].TierRates \in TierRates
    BY <2>3 DEF Tier
  <2>6. /\ backfillContext(ct, tiers) \in Tier
        /\ backfillContext(ct, tiers).AbovePromptTokens = ct.AbovePromptTokens
        /\ backfillContext(ct, tiers).TierRates
             = backfillTierRates(ct.TierRates, tiers[first].TierRates)
    BY <2>4, <2>5, FillFacts DEF Tier
  <2> QED
    <3> DEFINE src == tiers[first].TierRates
               b == backfillTierRates(ct.TierRates, src)
    <3>1. /\ \A x \in Parts : ct.TierRates[x] # Nil => b[x] = ct.TierRates[x]
          /\ priceable(ct.TierRates) /\ priceable(src) => priceable(b)
      BY <2>5, FillFacts
    <3> HIDE DEF b, first, same
    <3> QED
      BY <3>1, <2>3, <2>6 DEF b
<1> QED
  BY <1>1, <1>2

\* What EXCEPT makes of a shaped record.
LEMMA Reshape ==
    ASSUME NEW x, Shaped(x), NEW v
    PROVE  /\ [x EXCEPT !.Base = v]
                = [Base |-> v, Tiers |-> x.Tiers, Fast |-> x.Fast, Geo |-> x.Geo,
                   RegionalUplift |-> x.RegionalUplift, litellmProvider |-> x.litellmProvider]
           /\ [x EXCEPT !.Tiers = v]
                = [Base |-> x.Base, Tiers |-> v, Fast |-> x.Fast, Geo |-> x.Geo,
                   RegionalUplift |-> x.RegionalUplift, litellmProvider |-> x.litellmProvider]
           /\ [x EXCEPT !.Fast = v]
                = [Base |-> x.Base, Tiers |-> x.Tiers, Fast |-> v, Geo |-> x.Geo,
                   RegionalUplift |-> x.RegionalUplift, litellmProvider |-> x.litellmProvider]
           /\ [x EXCEPT !.Geo = v]
                = [Base |-> x.Base, Tiers |-> x.Tiers, Fast |-> x.Fast, Geo |-> v,
                   RegionalUplift |-> x.RegionalUplift, litellmProvider |-> x.litellmProvider]
           /\ [x EXCEPT !.RegionalUplift = v]
                = [Base |-> x.Base, Tiers |-> x.Tiers, Fast |-> x.Fast, Geo |-> x.Geo,
                   RegionalUplift |-> v, litellmProvider |-> x.litellmProvider]
<1>1. PICK b, t, f, g, u, l :
         x = [Base |-> b, Tiers |-> t, Fast |-> f, Geo |-> g, RegionalUplift |-> u,
              litellmProvider |-> l]
  BY DEF Shaped
<1>2. /\ x.Base = b /\ x.Tiers = t /\ x.Fast = f /\ x.Geo = g /\ x.RegionalUplift = u
      /\ x.litellmProvider = l
  BY <1>1
<1>3. [x EXCEPT !.Base = v]
        = [Base |-> v, Tiers |-> t, Fast |-> f, Geo |-> g, RegionalUplift |-> u,
           litellmProvider |-> l]
  BY <1>1
<1>4. [x EXCEPT !.Tiers = v]
        = [Base |-> b, Tiers |-> v, Fast |-> f, Geo |-> g, RegionalUplift |-> u,
           litellmProvider |-> l]
  BY <1>1
<1>5. [x EXCEPT !.Fast = v]
        = [Base |-> b, Tiers |-> t, Fast |-> v, Geo |-> g, RegionalUplift |-> u,
           litellmProvider |-> l]
  BY <1>1
<1>6. [x EXCEPT !.Geo = v]
        = [Base |-> b, Tiers |-> t, Fast |-> f, Geo |-> v, RegionalUplift |-> u,
           litellmProvider |-> l]
  BY <1>1
<1>7. [x EXCEPT !.RegionalUplift = v]
        = [Base |-> b, Tiers |-> t, Fast |-> f, Geo |-> g, RegionalUplift |-> v,
           litellmProvider |-> l]
  BY <1>1
<1> QED
  BY <1>2, <1>3, <1>4, <1>5, <1>6, <1>7

\* The backfill writes the base and the contexts, and nothing else.
LEMMA BackfillIs ==
    ASSUME NEW own, NEW twin, Shaped(own)
    PROVE  /\ Shaped(backfillRates(own, twin))
           /\ backfillRates(own, twin).Base = backfillTierRates(own.Base, twin.Base)
           /\ backfillRates(own, twin).Tiers
                = [i \in DOMAIN own.Tiers |-> backfillContext(own.Tiers[i], twin.Tiers)]
           /\ backfillRates(own, twin).Fast = own.Fast
           /\ backfillRates(own, twin).Geo = own.Geo
           /\ backfillRates(own, twin).RegionalUplift = own.RegionalUplift
           /\ backfillRates(own, twin).litellmProvider = own.litellmProvider
<1> DEFINE b == backfillRates(own, twin)
           base == backfillTierRates(own.Base, twin.Base)
           ts == [i \in DOMAIN own.Tiers |-> backfillContext(own.Tiers[i], twin.Tiers)]
           filled == [own EXCEPT !.Base = base]
<1>1. filled = [Base |-> base, Tiers |-> own.Tiers, Fast |-> own.Fast, Geo |-> own.Geo,
                RegionalUplift |-> own.RegionalUplift, litellmProvider |-> own.litellmProvider]
  BY Reshape
<1>2. Shaped(filled) /\ filled.Tiers = own.Tiers
  BY <1>1 DEF Shaped
<1>3. b = [filled EXCEPT !.Tiers = ts]
  BY <1>2 DEF backfillRates
<1> HIDE DEF filled, ts, base, b
<1>4. b = [Base |-> filled.Base, Tiers |-> ts, Fast |-> filled.Fast, Geo |-> filled.Geo,
           RegionalUplift |-> filled.RegionalUplift, litellmProvider |-> filled.litellmProvider]
  BY <1>2, <1>3, Reshape
<1>5. /\ filled.Base = base /\ filled.Fast = own.Fast /\ filled.Geo = own.Geo
      /\ filled.RegionalUplift = own.RegionalUplift
      /\ filled.litellmProvider = own.litellmProvider
  BY <1>1
<1>6. /\ b.Base = base /\ b.Tiers = ts /\ b.Fast = own.Fast /\ b.Geo = own.Geo
      /\ b.RegionalUplift = own.RegionalUplift /\ b.litellmProvider = own.litellmProvider
      /\ Shaped(b)
  BY <1>4, <1>5 DEF Shaped
<1> QED BY <1>6 DEF b, base, ts

\* The backfill leaves rates well-typed, valid where both sides are, and with
\* every rate and threshold they had.
LEMMA BackfillFacts ==
    ASSUME NEW own, NEW twin, Shaped(own), IsRates(own), IsRates(twin)
    PROVE  LET b == backfillRates(own, twin)
           IN /\ Shaped(b) /\ IsRates(b)
              /\ ValidRates(own) /\ ValidRates(twin) => ValidRates(b)
              /\ KeepsRates(own, b)
<1> DEFINE b == backfillRates(own, twin)
           ts == [i \in DOMAIN own.Tiers |-> backfillContext(own.Tiers[i], twin.Tiers)]
<1>1. /\ own.Base \in TierRates /\ twin.Base \in TierRates
      /\ own.Tiers \in Seq(Tier) /\ twin.Tiers \in Seq(Tier)
  BY DEF IsRates
<1>2. /\ Shaped(b) /\ b.Base = backfillTierRates(own.Base, twin.Base) /\ b.Tiers = ts
      /\ b.Fast = own.Fast /\ b.Geo = own.Geo /\ b.RegionalUplift = own.RegionalUplift
  BY BackfillIs
<1>3. \A i \in DOMAIN own.Tiers : own.Tiers[i] \in Tier /\ ts[i] = backfillContext(own.Tiers[i], twin.Tiers)
  BY <1>1
<1>4. \A i \in DOMAIN own.Tiers :
         /\ ts[i] \in Tier
         /\ ts[i].AbovePromptTokens = own.Tiers[i].AbovePromptTokens
         /\ \A x \in Parts : own.Tiers[i].TierRates[x] # Nil =>
               ts[i].TierRates[x] = own.Tiers[i].TierRates[x]
         /\ priceable(own.Tiers[i].TierRates)
              /\ (\A j \in DOMAIN twin.Tiers : priceable(twin.Tiers[j].TierRates))
            => priceable(ts[i].TierRates)
  BY <1>1, <1>3, ContextFacts
<1>5. DOMAIN ts = DOMAIN own.Tiers /\ ts \in Seq(Tier)
  <2>1. DOMAIN own.Tiers = 1 .. Len(own.Tiers) /\ Len(own.Tiers) \in Nat
    BY <1>1
  <2>2. ts \in [1 .. Len(own.Tiers) -> Tier]
    BY <2>1, <1>4
  <2> QED
    BY <2>1, <2>2
<1> HIDE DEF ts, b
<1>6. /\ backfillTierRates(own.Base, twin.Base) \in TierRates
      /\ \A x \in Parts : own.Base[x] # Nil =>
            backfillTierRates(own.Base, twin.Base)[x] = own.Base[x]
      /\ priceable(own.Base) /\ priceable(twin.Base)
           => priceable(backfillTierRates(own.Base, twin.Base))
  BY <1>1, FillFacts
<1>7. IsRates(b)
  BY <1>2, <1>5, <1>6 DEF IsRates
<1>8. ASSUME ValidRates(own), ValidRates(twin)
      PROVE  ValidRates(b)
  <2>1. priceable(b.Base)
    BY <1>2, <1>6, <1>8 DEF ValidRates
  <2>2. \A j \in DOMAIN twin.Tiers : priceable(twin.Tiers[j].TierRates)
    BY <1>8 DEF ValidRates
  <2>3. \A i \in DOMAIN own.Tiers :
           /\ own.Tiers[i].AbovePromptTokens > 0
           /\ \A j \in 1 .. i - 1 :
                 own.Tiers[j].AbovePromptTokens < own.Tiers[i].AbovePromptTokens
           /\ priceable(own.Tiers[i].TierRates)
    BY <1>8 DEF ValidRates
  <2>4. \A i \in DOMAIN own.Tiers : \A j \in 1 .. i - 1 : j \in DOMAIN own.Tiers
    <3>1. DOMAIN own.Tiers = 1 .. Len(own.Tiers) /\ Len(own.Tiers) \in Nat
      BY <1>1
    <3> QED
      BY <3>1
  <2>5. \A i \in DOMAIN ts :
           /\ ts[i].AbovePromptTokens > 0
           /\ \A j \in 1 .. i - 1 : ts[j].AbovePromptTokens < ts[i].AbovePromptTokens
           /\ priceable(ts[i].TierRates)
    BY <2>2, <2>3, <2>4, <1>4, <1>5
  <2>6. /\ own.Fast # Nil => own.Fast > 0
        /\ \A g \in DOMAIN own.Geo : own.Geo[g] # Nil /\ own.Geo[g] > 0
        /\ \A g \in DOMAIN own.RegionalUplift :
              own.RegionalUplift[g] # Nil /\ own.RegionalUplift[g] > 0
    BY <1>8 DEF ValidRates
  <2> QED
    BY <2>1, <2>5, <2>6, <1>2 DEF ValidRates
<1>9. KeepsRates(own, b)
  BY <1>2, <1>4, <1>5, <1>6 DEF KeepsRates, KeepsTier
<1> QED
  BY <1>2, <1>7, <1>8, <1>9 DEF b

----------------------------------------------------------------------------
(* The invariant.                                                          *)

\* The record Rates starts from is well-typed.
LEMMA NoRatesFacts ==
    /\ Shaped(NoRates) /\ IsRates(NoRates) /\ NoRate \in TierRates
    /\ NoRates.Tiers = <<>> /\ NoRates.Fast = Nil
    /\ PositiveMap(NoRates.Geo) /\ PositiveMap(NoRates.RegionalUplift)
<1>1. DOMAIN <<>> = {} /\ <<>> \in Seq(Tier)
  OBVIOUS
<1>2. IsMultiplierMap(<<>>) /\ PositiveMap(<<>>)
  BY <1>1 DEF IsMultiplierMap, PositiveMap
<1>3. NoRate \in TierRates
  BY DEF NoRate, TierRates
<1>4. /\ NoRates.Base = NoRate /\ NoRates.Tiers = <<>> /\ NoRates.Fast = Nil
      /\ NoRates.Geo = <<>> /\ NoRates.RegionalUplift = <<>>
  BY DEF NoRates
<1>5. Shaped(NoRates)
  BY DEF Shaped, NoRates
<1>6. IsRates(NoRates)
  BY <1>1, <1>2, <1>3, <1>4 DEF IsRates, Multiplier
<1> QED
  BY <1>2, <1>3, <1>4, <1>5, <1>6

\* No price map has been read yet.
LEMMA InitInv == Init => Inv
<1> SUFFICES ASSUME Init
             PROVE  Inv
  OBVIOUS
<1>1. DocInv
  BY DEF Init, DocInv, Loops, Parsing
<1>2. OnceInv
  BY DEF Init, OnceInv, Parsing
<1>3. MapsInv
  BY DEF Init, MapsInv, ServiceTiers
<1>4. GatheredInv
  BY DEF Init, GatheredInv
<1>5. RatesInv
  <2>1. r = NoRates /\ phase = "start"
    BY DEF Init
  <2> QED
    BY <2>1, NoRatesFacts DEF RatesInv
<1> QED
  BY <1>1, <1>2, <1>3, <1>4, <1>5 DEF Inv

\* Reading begins.
LEMMA ParseInv == ASSUME Inv, NEW d \in Docs, Parse(d) PROVE Inv'
<1>1. phase = "start" /\ models = <<>> /\ m = <<>> /\ doc' = d /\ UNCHANGED <<models, locals>>
  BY DEF Inv, DocInv, Parse
<1>2. phase' = "failed" \/ (phase' = "models" /\ d # Nil /\ todo' = DOMAIN d)
  BY DEF Parse
<1>3. DocInv'
  BY <1>1, <1>2 DEF DocInv, Loops, Parsing
<1>4. OnceInv'
  BY <1>1, <1>2 DEF OnceInv, Parsing
<1>5. MapsInv'
  BY <1>1 DEF Inv, MapsInv, locals
<1>6. GatheredInv'
  BY <1>2 DEF GatheredInv
<1>7. RatesInv'
  BY <1>1, <1>2 DEF Inv, RatesInv, locals
<1> QED
  BY <1>3, <1>4, <1>5, <1>6, <1>7 DEF Inv

\* parseTier starts from its base rates alone.
LEMMA StartTierFacts ==
    ASSUME NEW e, IsEntry(e), NEW s, CanBill(e, s), StartTier(e, s)
    PROVE  /\ phase' = "entries" /\ svc' = s /\ left' = DOMAIN e.entry /\ r'.Tiers = <<>>
           /\ RatesInv'
<1>1. BaseRates(e, s) \in TierRates /\ priceable(BaseRates(e, s))
  BY EntryRatesType DEF CanBill
<1>2. r' = [Base |-> BaseRates(e, s), Tiers |-> <<>>, Fast |-> Nil, Geo |-> <<>>,
            RegionalUplift |-> <<>>, litellmProvider |-> e.litellm_provider]
  BY DEF StartTier, NoRates
<1>3. DOMAIN <<>> = {} /\ <<>> \in Seq(Tier)
  OBVIOUS
<1>4. phase' = "entries" /\ svc' = s /\ left' = DOMAIN e.entry
  BY DEF StartTier
<1>5. /\ r'.Base = BaseRates(e, s) /\ r'.Tiers = <<>> /\ r'.Fast = Nil /\ r'.Geo = <<>>
      /\ r'.RegionalUplift = <<>>
  BY <1>2
<1>6. Shaped(r')
  BY <1>2 DEF Shaped
<1>7. IsMultiplierMap(<<>>) /\ PositiveMap(<<>>)
  BY <1>3 DEF IsMultiplierMap, PositiveMap
<1>8. IsRates(r')
  BY <1>1, <1>3, <1>5, <1>7 DEF IsRates, Multiplier
<1> QED
  BY <1>1, <1>4, <1>5, <1>6, <1>7, <1>8 DEF RatesInv

\* A model is skipped, or parsed at the standard tier first.
LEMMA ParseModelInv == ASSUME Inv, NEW key \in todo, ParseModel(key) PROVE Inv'
<1>1. /\ phase = "models" /\ todo' = todo \ {key} /\ UNCHANGED <<doc, models>>
      /\ doc \in Docs \ {Nil} /\ todo \subseteq DOMAIN doc /\ todo \cap DOMAIN models = {}
  BY DEF Inv, DocInv, OnceInv, Loops, ParseModel
<1>2. CASE doc[key] # Nil /\ CanBill(doc[key], "standard")
  <2>1. /\ cur' = key /\ svcs' = ServiceTiers \ {"standard"} /\ UNCHANGED m
        /\ StartTier(doc[key], "standard")
    BY <1>2 DEF ParseModel
  <2>2. IsEntry(doc[key])
    BY <1>1, <1>2, EntryFacts
  <2>3. /\ phase' = "entries" /\ svc' = "standard" /\ left' = DOMAIN doc[key].entry
        /\ r'.Tiers = <<>> /\ RatesInv'
    BY <1>2, <2>1, <2>2, StartTierFacts
  <2>4. DocInv'
    BY <1>1, <1>2, <2>1, <2>3 DEF DocInv, Loops, Parsing
  <2>5. OnceInv'
    BY <1>1, <2>1, <2>3 DEF OnceInv, Parsing
  <2>6. MapsInv'
    BY <1>1, <2>1, <2>3 DEF Inv, MapsInv, ServiceTiers
  <2>7. GatheredInv'
    BY <1>1, <2>1, <2>3 DEF GatheredInv
  <2> QED
    BY <2>3, <2>4, <2>5, <2>6, <2>7 DEF Inv
<1>3. CASE ~ (doc[key] # Nil /\ CanBill(doc[key], "standard"))
  <2>1. UNCHANGED <<phase, locals>>
    BY <1>3 DEF ParseModel
  <2>2. DocInv'
    BY <1>1, <2>1 DEF Inv, DocInv, Loops, Parsing, locals
  <2>3. OnceInv'
    BY <1>1, <2>1 DEF OnceInv, Parsing, locals
  <2>4. MapsInv'
    BY <1>1, <2>1 DEF Inv, MapsInv, locals
  <2>5. GatheredInv' /\ RatesInv'
    BY <1>1, <2>1 DEF Inv, GatheredInv, RatesInv, locals
  <2> QED
    BY <2>2, <2>3, <2>4, <2>5 DEF Inv
<1> QED
  BY <1>2, <1>3

\* The next service tier is parsed, or left out.
LEMMA ServiceInv == ASSUME Inv, NEW s \in svcs, Service(s) PROVE Inv'
<1>1. /\ phase = "services" /\ svcs' = svcs \ {s} /\ UNCHANGED <<doc, todo, models, cur, m>>
      /\ doc \in Docs \ {Nil} /\ cur \in DOMAIN doc /\ doc[cur] # Nil
      /\ s \in ServiceTiers
  BY DEF Inv, DocInv, MapsInv, Loops, Parsing, Service
<1>2. CASE CanBill(doc[cur], s)
  <2>1. StartTier(doc[cur], s) /\ IsEntry(doc[cur])
    BY <1>1, <1>2, EntryFacts DEF Service
  <2>2. /\ phase' = "entries" /\ svc' = s /\ left' = DOMAIN doc[cur].entry
        /\ r'.Tiers = <<>> /\ RatesInv'
    BY <1>2, <2>1, StartTierFacts
  <2>3. DocInv'
    BY <1>1, <2>2 DEF DocInv, Loops, Parsing
  <2>4. OnceInv'
    BY <1>1, <2>2 DEF Inv, OnceInv, Parsing
  <2>5. MapsInv'
    BY <1>1, <2>2 DEF Inv, MapsInv
  <2>6. GatheredInv'
    BY <1>1, <2>2 DEF GatheredInv
  <2> QED
    BY <2>2, <2>3, <2>4, <2>5, <2>6 DEF Inv
<1>3. CASE ~ CanBill(doc[cur], s)
  <2>1. UNCHANGED <<phase, svc, left, r>>
    BY <1>3 DEF Service
  <2>2. DocInv' /\ OnceInv'
    BY <1>1, <2>1 DEF Inv, DocInv, OnceInv, Loops, Parsing
  <2>3. MapsInv'
    BY <1>1, <2>1 DEF Inv, MapsInv
  <2>4. GatheredInv' /\ RatesInv'
    BY <1>1, <2>1 DEF Inv, GatheredInv, RatesInv
  <2> QED
    BY <2>2, <2>3, <2>4 DEF Inv
<1> QED
  BY <1>2, <1>3

\* The model enters the table, in which it was not.
LEMMA EndModelInv == ASSUME Inv, EndModel PROVE Inv'
<1>1. /\ phase = "services" /\ phase' = "models" /\ models' = With(models, cur, m)
      /\ m' = <<>> /\ UNCHANGED <<doc, todo, svcs, svc, left, r>>
      /\ cur \notin todo \cup DOMAIN models
  BY DEF Inv, OnceInv, Parsing, EndModel
<1>2. /\ DOMAIN models' = DOMAIN models \cup {cur} /\ models'[cur] = m
      /\ \A key \in DOMAIN models : models'[key] = models[key]
  BY <1>1 DEF With
<1>3. DocInv'
  BY <1>1 DEF Inv, DocInv, Loops, Parsing
<1>4. OnceInv'
  BY <1>1, <1>2 DEF Inv, OnceInv, Parsing
<1>5. MapsInv'
  <2>1. DOMAIN m' = {}
    BY <1>1
  <2>2. \A key \in DOMAIN models' :
          /\ DOMAIN models'[key] \subseteq ServiceTiers
          /\ \A s \in DOMAIN models'[key] : Settled(doc', models'[key][s])
    BY <1>1, <1>2 DEF Inv, MapsInv
  <2> QED
    BY <1>1, <2>1, <2>2 DEF Inv, MapsInv
<1>6. GatheredInv' /\ RatesInv'
  BY <1>1 DEF Inv, GatheredInv, RatesInv
<1> QED
  BY <1>3, <1>4, <1>5, <1>6 DEF Inv

\* One multiplier is read, or dropped.
LEMMA FactorFacts ==
    ASSUME RatesInv, NEW f \in Multiplier, ~ (f = Nil \/ f <= 0), NEW g
    PROVE  /\ r' = [r EXCEPT !.Fast = f] /\ UNCHANGED phase => RatesInv' /\ r'.Tiers = r.Tiers
           /\ r' = [r EXCEPT !.Geo = With(@, g, f)] /\ UNCHANGED phase
                => RatesInv' /\ r'.Tiers = r.Tiers
           /\ r' = [r EXCEPT !.RegionalUplift = With(@, g, f)] /\ UNCHANGED phase
                => RatesInv' /\ r'.Tiers = r.Tiers
<1>1. f \in Int /\ f # Nil /\ f > 0
  BY NilAssumption DEF Multiplier
<1>2. /\ Shaped(r) /\ IsMultiplierMap(r.Geo) /\ PositiveMap(r.Geo)
      /\ IsMultiplierMap(r.RegionalUplift) /\ PositiveMap(r.RegionalUplift)
  BY DEF RatesInv, IsRates
<1>3. ASSUME r' = [r EXCEPT !.Fast = f], UNCHANGED phase
      PROVE  RatesInv' /\ r'.Tiers = r.Tiers
  <2>1. r' = [Base |-> r.Base, Tiers |-> r.Tiers, Fast |-> f, Geo |-> r.Geo,
              RegionalUplift |-> r.RegionalUplift, litellmProvider |-> r.litellmProvider]
    BY <1>2, <1>3, Reshape
  <2>2. /\ r'.Base = r.Base /\ r'.Tiers = r.Tiers /\ r'.Fast = f /\ r'.Geo = r.Geo
        /\ r'.RegionalUplift = r.RegionalUplift
    BY <2>1
  <2>3. Shaped(r')
    BY <2>1 DEF Shaped
  <2>4. IsRates(r')
    BY <2>2 DEF RatesInv, IsRates
  <2> QED
    BY <1>1, <1>3, <2>2, <2>3, <2>4 DEF RatesInv
<1>4. ASSUME r' = [r EXCEPT !.Geo = With(@, g, f)], UNCHANGED phase
      PROVE  RatesInv' /\ r'.Tiers = r.Tiers
  <2> DEFINE w == With(r.Geo, g, f)
  <2>1. r' = [Base |-> r.Base, Tiers |-> r.Tiers, Fast |-> r.Fast, Geo |-> w,
              RegionalUplift |-> r.RegionalUplift, litellmProvider |-> r.litellmProvider]
    BY <1>2, <1>4, Reshape
  <2>2. IsMultiplierMap(w) /\ PositiveMap(w)
    BY <1>1, <1>2, WithFacts
  <2> HIDE DEF w
  <2>3. /\ r'.Base = r.Base /\ r'.Tiers = r.Tiers /\ r'.Fast = r.Fast /\ r'.Geo = w
        /\ r'.RegionalUplift = r.RegionalUplift
    BY <2>1
  <2>4. Shaped(r')
    BY <2>1 DEF Shaped
  <2>5. IsRates(r')
    BY <2>2, <2>3 DEF RatesInv, IsRates
  <2> QED
    BY <1>4, <2>2, <2>3, <2>4, <2>5 DEF RatesInv
<1>5. ASSUME r' = [r EXCEPT !.RegionalUplift = With(@, g, f)], UNCHANGED phase
      PROVE  RatesInv' /\ r'.Tiers = r.Tiers
  <2> DEFINE w == With(r.RegionalUplift, g, f)
  <2>1. r' = [Base |-> r.Base, Tiers |-> r.Tiers, Fast |-> r.Fast, Geo |-> r.Geo,
              RegionalUplift |-> w, litellmProvider |-> r.litellmProvider]
    BY <1>2, <1>5, Reshape
  <2>2. IsMultiplierMap(w) /\ PositiveMap(w)
    BY <1>1, <1>2, WithFacts
  <2> HIDE DEF w
  <2>3. /\ r'.Base = r.Base /\ r'.Tiers = r.Tiers /\ r'.Fast = r.Fast /\ r'.Geo = r.Geo
        /\ r'.RegionalUplift = w
    BY <2>1
  <2>4. Shaped(r')
    BY <2>1 DEF Shaped
  <2>5. IsRates(r')
    BY <2>2, <2>3 DEF RatesInv, IsRates
  <2> QED
    BY <1>5, <2>2, <2>3, <2>4, <2>5 DEF RatesInv
<1> QED
  BY <1>3, <1>4, <1>5

\* A member of provider_specific_entry.
LEMMA EntryInv == ASSUME Inv, phase = "entries", NEW g \in left, Entry(g) PROVE Inv'
<1> DEFINE f == doc[cur].entry[g]
<1>1. /\ left' = left \ {g} /\ UNCHANGED <<phase, doc, todo, models, cur, m, svcs, svc>>
      /\ doc \in Docs \ {Nil} /\ cur \in DOMAIN doc /\ doc[cur] # Nil
      /\ left \subseteq DOMAIN doc[cur].entry /\ r.Tiers = <<>> /\ RatesInv
  BY DEF Inv, DocInv, GatheredInv, Loops, Parsing, Entry
<1>2. f \in Multiplier
  BY <1>1, EntryFacts DEF IsEntry, IsMultiplierMap
<1>3. \/ r' = r
      \/ /\ ~ (f = Nil \/ f <= 0)
         /\ r' = [r EXCEPT !.Fast = f] \/ r' = [r EXCEPT !.Geo = With(@, Lower(g), f)]
  BY DEF Entry
<1>4. RatesInv' /\ r'.Tiers = r.Tiers
  <2>1. CASE r' = r
    BY <1>1, <2>1 DEF RatesInv
  <2>2. CASE r' # r
    <3> HIDE DEF f
    <3> QED
      BY <1>1, <1>2, <1>3, <2>2, FactorFacts
  <2> QED
    BY <2>1, <2>2
<1>5. DocInv' /\ OnceInv'
  BY <1>1 DEF Inv, DocInv, OnceInv
<1>6. MapsInv'
  BY <1>1 DEF Inv, MapsInv
<1>7. GatheredInv'
  BY <1>1, <1>4 DEF GatheredInv
<1> QED
  BY <1>4, <1>5, <1>6, <1>7 DEF Inv

\* The loop over the fields begins, with no context met.
LEMMA EndEntriesInv == ASSUME Inv, EndEntries PROVE Inv'
<1>1. /\ phase = "entries" /\ phase' = "fields"
      /\ UNCHANGED <<doc, todo, models, cur, m, svcs, svc, r>>
      /\ r.Tiers = <<>>
  BY DEF Inv, GatheredInv, EndEntries
<1>2. DocInv' /\ OnceInv'
  BY <1>1 DEF Inv, DocInv, OnceInv, Loops, Parsing
<1>3. MapsInv'
  BY <1>1 DEF Inv, MapsInv
<1>4. DOMAIN r'.Tiers = {}
  BY <1>1
<1>5. GatheredInv' /\ RatesInv'
  BY <1>1, <1>4 DEF Inv, GatheredInv, RatesInv
<1> QED
  BY <1>2, <1>3, <1>5 DEF Inv

\* A regional uplift.
LEMMA UpliftInv ==
    ASSUME Inv, phase = "fields", NEW g \in DOMAIN doc[cur].uplift, Uplift(g)
    PROVE  Inv'
<1> DEFINE f == doc[cur].uplift[g]
<1>1. /\ left' = left \ {<<"uplift", g>>}
      /\ UNCHANGED <<phase, doc, todo, models, cur, m, svcs, svc>>
      /\ doc \in Docs \ {Nil} /\ cur \in DOMAIN doc /\ doc[cur] # Nil /\ RatesInv
  BY DEF Inv, DocInv, Loops, Parsing, Uplift
<1>2. f \in Multiplier
  BY <1>1, EntryFacts DEF IsEntry, IsMultiplierMap
<1>3. \/ r' = r
      \/ ~ (f = Nil \/ f <= 0) /\ r' = [r EXCEPT !.RegionalUplift = With(@, Lower(g), f)]
  BY DEF Uplift
<1>4. RatesInv' /\ r'.Tiers = r.Tiers
  <2>1. CASE r' = r
    BY <1>1, <2>1 DEF RatesInv
  <2>2. CASE r' # r
    <3> HIDE DEF f
    <3> QED
      BY <1>1, <1>2, <1>3, <2>2, FactorFacts
  <2> QED
    BY <2>1, <2>2
<1>5. DocInv' /\ OnceInv'
  BY <1>1 DEF Inv, DocInv, OnceInv
<1>6. MapsInv'
  BY <1>1 DEF Inv, MapsInv
<1>7. GatheredInv'
  BY <1>1, <1>4 DEF Inv, GatheredInv
<1> QED
  BY <1>4, <1>5, <1>6, <1>7 DEF Inv

\* In a plain price map, two legible contexts of a service tier differ in
\* their thresholds, which are positive.
LEMMA PlainThresholds ==
    ASSUME NEW d \in Docs \ {Nil}, Plain(d), NEW key \in DOMAIN d, d[key] # Nil,
           NEW s \in ServiceTiers, NEW b \in Contexts(d[key], s), Legible(b)
    PROVE  /\ Threshold(b) > 0
           /\ \A c \in Contexts(d[key], s) :
                 Legible(c) /\ c # b => Threshold(c) # Threshold(b)
<1>1. PlainContexts(d[key], s) /\ Contexts(d[key], s) \subseteq ContextName
  BY EntryFacts DEF Plain
<1>2. \A c \in Contexts(d[key], s) :
         Legible(c) => Tokens(c) <= MaxInt /\ Threshold(c) = Tokens(c) /\ Threshold(c) > 0
  <2> SUFFICES ASSUME NEW c \in Contexts(d[key], s), Legible(c)
               PROVE  Tokens(c) <= MaxInt /\ Threshold(c) = Tokens(c) /\ Threshold(c) > 0
    OBVIOUS
  <2>1. c \in ContextName /\ c.n <= MaxInt
    BY <1>1, IntAssumption DEF Legible
  <2>2. Tokens(c) <= MaxInt
    BY <1>1, <2>1 DEF PlainContexts
  <2> QED
    BY <2>1, <2>2, ThresholdFacts
<1> QED
  BY <1>1, <1>2 DEF PlainContexts

\* A context joins the tiers, or is dropped.
LEMMA ContextInv ==
    ASSUME Inv, phase = "fields", NEW ctx \in Contexts(doc[cur], svc), Context(ctx)
    PROVE  Inv'
<1> DEFINE new == ContextTier(ctx)
<1>1. /\ <<"above", ctx>> \in left /\ left' = left \ {<<"above", ctx>>}
      /\ UNCHANGED <<phase, doc, todo, models, cur, m, svcs, svc>>
      /\ doc \in Docs \ {Nil} /\ cur \in DOMAIN doc /\ doc[cur] # Nil
      /\ svc \in ServiceTiers
  BY DEF Inv, DocInv, MapsInv, Loops, Parsing, Context
<1>2. DocInv' /\ OnceInv' /\ MapsInv'
  BY <1>1 DEF Inv, DocInv, OnceInv, MapsInv
<1>3. CASE Legible(ctx) /\ priceable(new.TierRates)
  <2>1. r' = [r EXCEPT !.Tiers = Append(@, new)]
    BY <1>3 DEF Context
  <2>2. Shaped(r) /\ r.Tiers \in Seq(Tier)
    BY DEF Inv, RatesInv, IsRates
  <2>3. new \in Tier /\ new.AbovePromptTokens = Threshold(ctx)
    <3>1. ctx \in ContextName /\ IsEntry(doc[cur])
      BY <1>1, EntryFacts
    <3>2. Threshold(ctx) \in Int64 /\ ContextRates(doc[cur], ctx, svc) \in TierRates
      BY <1>3, <3>1, ThresholdFacts, EntryRatesType
    <3> QED
      BY <3>2 DEF ContextTier, Tier
  <2> DEFINE ts == Append(r.Tiers, new)
  <2> HIDE DEF new
  <2>4. /\ ts \in Seq(Tier) /\ Len(r.Tiers) \in Nat
        /\ DOMAIN r.Tiers = 1 .. Len(r.Tiers) /\ DOMAIN ts = 1 .. Len(r.Tiers) + 1
        /\ ts[Len(r.Tiers) + 1] = new /\ \A i \in DOMAIN r.Tiers : ts[i] = r.Tiers[i]
    BY <2>2, <2>3
  <2> HIDE DEF ts
  <2>5. r' = [Base |-> r.Base, Tiers |-> ts, Fast |-> r.Fast, Geo |-> r.Geo,
              RegionalUplift |-> r.RegionalUplift, litellmProvider |-> r.litellmProvider]
    BY <2>1, <2>2, Reshape DEF ts
  <2>6. /\ r'.Base = r.Base /\ r'.Tiers = ts /\ r'.Fast = r.Fast /\ r'.Geo = r.Geo
        /\ r'.RegionalUplift = r.RegionalUplift
    BY <2>5
  <2>7. RatesInv'
    <3>1. Shaped(r')
      BY <2>5 DEF Shaped
    <3>2. IsRates(r')
      BY <2>4, <2>6 DEF Inv, RatesInv, IsRates
    <3> QED
      BY <1>1, <2>6, <3>1, <3>2 DEF Inv, RatesInv
  <2>8. \A i \in DOMAIN ts : i \in DOMAIN r.Tiers \/ i = Len(r.Tiers) + 1
    BY <2>4
  <2>9. \A i \in DOMAIN r.Tiers :
          /\ priceable(r.Tiers[i].TierRates)
          /\ \E c \in Contexts(doc[cur], svc) :
                /\ Legible(c) /\ <<"above", c>> \notin left
                /\ r.Tiers[i].AbovePromptTokens = Threshold(c)
    BY DEF Inv, GatheredInv
  <2>10. \A i \in DOMAIN ts :
          /\ priceable(ts[i].TierRates)
          /\ \E c \in Contexts(doc[cur], svc) :
                /\ Legible(c) /\ <<"above", c>> \notin left'
                /\ ts[i].AbovePromptTokens = Threshold(c)
    <3> SUFFICES ASSUME NEW i \in DOMAIN ts
                 PROVE  /\ priceable(ts[i].TierRates)
                        /\ \E c \in Contexts(doc[cur], svc) :
                              /\ Legible(c) /\ <<"above", c>> \notin left'
                              /\ ts[i].AbovePromptTokens = Threshold(c)
      OBVIOUS
    <3>1. CASE i \in DOMAIN r.Tiers
      BY <1>1, <2>4, <2>9, <3>1
    <3>2. CASE i = Len(r.Tiers) + 1
      BY <1>1, <1>3, <2>3, <2>4, <3>2 DEF new
    <3> QED
      BY <2>8, <3>1, <3>2
  <2>11. ASSUME Plain(doc)
         PROVE  \A i, j \in DOMAIN ts : i # j => ts[i].AbovePromptTokens # ts[j].AbovePromptTokens
    <3>1. \A c \in Contexts(doc[cur], svc) : Legible(c) /\ c # ctx => Threshold(c) # Threshold(ctx)
      BY <1>1, <1>3, <2>11, PlainThresholds
    <3>2. \A i \in DOMAIN r.Tiers : r.Tiers[i].AbovePromptTokens # new.AbovePromptTokens
      BY <1>1, <2>3, <2>9, <3>1
    <3>3. \A i, j \in DOMAIN r.Tiers :
             i # j => r.Tiers[i].AbovePromptTokens # r.Tiers[j].AbovePromptTokens
      BY <2>11 DEF Inv, GatheredInv
    <3> QED
      BY <2>4, <2>8, <3>2, <3>3
  <2>12. GatheredInv'
    <3>1. phase' = "fields" /\ doc' = doc /\ cur' = cur /\ svc' = svc
      BY <1>1
    <3> QED
      BY <3>1, <2>6, <2>10, <2>11 DEF GatheredInv
  <2> QED
    BY <1>2, <2>7, <2>12 DEF Inv
<1>4. CASE ~ (Legible(ctx) /\ priceable(new.TierRates))
  <2>1. r' = r
    BY <1>4 DEF Context
  <2>2. GatheredInv' /\ RatesInv'
    BY <1>1, <2>1 DEF Inv, GatheredInv, RatesInv
  <2> QED
    BY <1>2, <2>2 DEF Inv
<1> QED
  BY <1>3, <1>4

\* The contexts are sorted, and the service tier is settled.
LEMMA EndFieldsInv == ASSUME Inv, EndFields PROVE Inv'
<1>1. PICK q \in Sorted(r.Tiers) : m' = With(m, svc, [r EXCEPT !.Tiers = q])
  BY DEF EndFields
<1>2. /\ phase = "fields" /\ phase' = "services" /\ r' = NoRates /\ svc' = "standard"
      /\ UNCHANGED <<doc, todo, models, cur, svcs, left>>
      /\ doc \in Docs \ {Nil} /\ cur \in DOMAIN doc /\ doc[cur] # Nil
      /\ svc \in ServiceTiers /\ svcs \subseteq ServiceTiers
  BY DEF Inv, DocInv, MapsInv, Loops, Parsing, EndFields
<1>3. /\ Shaped(r) /\ r.Tiers \in Seq(Tier) /\ IsRates(r) /\ priceable(r.Base)
      /\ r.Fast # Nil => r.Fast > 0
      /\ PositiveMap(r.Geo) /\ PositiveMap(r.RegionalUplift)
  BY <1>2 DEF Inv, RatesInv, IsRates
<1>4. /\ q \in Seq(Tier) /\ DOMAIN q = DOMAIN r.Tiers
      /\ \A i \in DOMAIN q : \E j \in DOMAIN r.Tiers : q[i] = r.Tiers[j]
      /\ (\A i, j \in DOMAIN r.Tiers :
             i # j => r.Tiers[i].AbovePromptTokens # r.Tiers[j].AbovePromptTokens)
         => \A i, j \in DOMAIN q : i < j => q[i].AbovePromptTokens < q[j].AbovePromptTokens
  BY <1>3, SortedFacts
<1> DEFINE x == [r EXCEPT !.Tiers = q]
<1>5. x = [Base |-> r.Base, Tiers |-> q, Fast |-> r.Fast, Geo |-> r.Geo,
           RegionalUplift |-> r.RegionalUplift, litellmProvider |-> r.litellmProvider]
  BY <1>3, Reshape
<1> HIDE DEF x
<1>6. /\ x.Base = r.Base /\ x.Tiers = q /\ x.Fast = r.Fast /\ x.Geo = r.Geo
      /\ x.RegionalUplift = r.RegionalUplift /\ Shaped(x)
  BY <1>5 DEF Shaped
<1>7. IsRates(x)
  BY <1>3, <1>4, <1>6 DEF IsRates
<1>8. ASSUME Plain(doc)
      PROVE  ValidRates(x)
  <2>1. \A i \in DOMAIN r.Tiers :
           /\ priceable(r.Tiers[i].TierRates)
           /\ \E c \in Contexts(doc[cur], svc) :
                 Legible(c) /\ r.Tiers[i].AbovePromptTokens = Threshold(c)
    BY <1>2 DEF Inv, GatheredInv
  <2>2. \A c \in Contexts(doc[cur], svc) : Legible(c) => Threshold(c) > 0
    BY <1>2, <1>8, PlainThresholds
  <2>3. \A i, j \in DOMAIN q : i < j => q[i].AbovePromptTokens < q[j].AbovePromptTokens
    BY <1>2, <1>4, <1>8 DEF Inv, GatheredInv
  <2>4. DOMAIN q = 1 .. Len(q) /\ Len(q) \in Nat
    BY <1>4
  <2>5. \A i \in DOMAIN q : \A j \in 1 .. i - 1 : j \in DOMAIN q /\ j < i
    BY <2>4
  <2>6. \A i \in DOMAIN q :
           /\ q[i].AbovePromptTokens > 0
           /\ \A j \in 1 .. i - 1 : q[j].AbovePromptTokens < q[i].AbovePromptTokens
           /\ priceable(q[i].TierRates)
    BY <1>4, <2>1, <2>2, <2>3, <2>5
  <2> QED
    BY <1>3, <1>6, <2>6 DEF ValidRates, PositiveMap
<1>9. Settled(doc, x)
  BY <1>6, <1>7, <1>8 DEF Settled
<1>10. /\ DOMAIN m' = DOMAIN m \cup {svc}
       /\ \A s \in DOMAIN m' : IF s = svc THEN m'[s] = x ELSE s \in DOMAIN m /\ m'[s] = m[s]
  BY <1>1 DEF With, x
<1>11. MapsInv'
  <2>1. \A s \in DOMAIN m' : Settled(doc', m'[s])
    BY <1>2, <1>9, <1>10 DEF Inv, MapsInv
  <2>2. DOMAIN m' \subseteq ServiceTiers /\ svc' \in ServiceTiers
    BY <1>2, <1>10 DEF Inv, MapsInv, ServiceTiers
  <2> QED
    BY <1>2, <2>1, <2>2 DEF Inv, MapsInv
<1>12. DocInv' /\ OnceInv'
  BY <1>2 DEF Inv, DocInv, OnceInv, Loops, Parsing
<1>13. GatheredInv'
  BY <1>2 DEF GatheredInv
<1>14. RatesInv'
  BY <1>2, NoRatesFacts DEF RatesInv
<1> QED
  BY <1>11, <1>12, <1>13, <1>14 DEF Inv

\* The backfill begins, or there is nothing to sell.
LEMMA EndModelsInv == ASSUME Inv, EndModels PROVE Inv'
<1>1. /\ phase = "models" /\ UNCHANGED <<doc, models, locals>>
      /\ \/ phase' = "failed"
         \/ phase' = "backfill" /\ todo' = DOMAIN models
  BY DEF EndModels
<1>2. DocInv' /\ OnceInv'
  BY <1>1 DEF Inv, DocInv, OnceInv, Loops, Parsing, locals
<1>3. MapsInv'
  BY <1>1 DEF Inv, MapsInv, locals
<1>4. GatheredInv' /\ RatesInv'
  BY <1>1 DEF Inv, GatheredInv, RatesInv, locals
<1> QED
  BY <1>2, <1>3, <1>4 DEF Inv

\* What the backfill of one model does to the table.
LEMMA BackfillStep ==
    ASSUME Inv, NEW key \in todo, Backfill(key)
    PROVE  /\ phase = "backfill" /\ todo' = todo \ {key} /\ UNCHANGED <<phase, doc, locals>>
           /\ DOMAIN models' = DOMAIN models
           /\ \A k \in DOMAIN models :
                 /\ DOMAIN models'[k] = DOMAIN models[k]
                 /\ \A s \in DOMAIN models[k] :
                       \/ models'[k][s] = models[k][s]
                       \/ \E t \in DOMAIN models :
                             /\ s \in DOMAIN models[t]
                             /\ models'[k][s] = backfillRates(models[k][s], models[t][s])
<1> DEFINE t == azureOpenAITwin(key)
           filled == [s \in DOMAIN models[key] |->
                        IF s \in DOMAIN models[t] THEN backfillRates(models[key][s], models[t][s])
                                                  ELSE models[key][s]]
<1>1. /\ phase = "backfill" /\ todo' = todo \ {key} /\ UNCHANGED <<phase, doc, locals>>
      /\ key \in DOMAIN models
  BY DEF Inv, OnceInv, Backfill
<1>2. \/ models' = models
      \/ t \in DOMAIN models /\ models' = [models EXCEPT ![key] = filled]
  BY DEF Backfill, HasTwin
<1>3. /\ DOMAIN filled = DOMAIN models[key]
      /\ \A s \in DOMAIN models[key] :
            \/ filled[s] = models[key][s]
            \/ s \in DOMAIN models[t] /\ filled[s] = backfillRates(models[key][s], models[t][s])
  OBVIOUS
<1> HIDE DEF t, filled
<1>4. CASE models' = models
  BY <1>1, <1>4
<1>5. CASE t \in DOMAIN models /\ models' = [models EXCEPT ![key] = filled]
  <2>1. /\ DOMAIN models' = DOMAIN models /\ models'[key] = filled
        /\ \A k \in DOMAIN models : k # key => models'[k] = models[k]
    BY <1>1, <1>5
  <2> QED
    BY <1>1, <1>3, <1>5, <2>1
<1> QED
  BY <1>2, <1>4, <1>5

\* The backfill of one model leaves settled rates settled.
LEMMA BackfillInv == ASSUME Inv, NEW key \in todo, Backfill(key) PROVE Inv'
<1>1. /\ phase = "backfill" /\ todo' = todo \ {key} /\ UNCHANGED <<phase, doc, locals>>
      /\ DOMAIN models' = DOMAIN models
  BY BackfillStep
<1>2. \A k \in DOMAIN models' :
         /\ DOMAIN models'[k] \subseteq ServiceTiers
         /\ \A s \in DOMAIN models'[k] : Settled(doc', models'[k][s])
  <2> SUFFICES ASSUME NEW k \in DOMAIN models
               PROVE  /\ DOMAIN models'[k] \subseteq ServiceTiers
                      /\ \A s \in DOMAIN models'[k] : Settled(doc, models'[k][s])
    BY <1>1
  <2>1. DOMAIN models'[k] = DOMAIN models[k] /\ DOMAIN models[k] \subseteq ServiceTiers
    BY BackfillStep DEF Inv, MapsInv
  <2>2. ASSUME NEW s \in DOMAIN models[k]
        PROVE  Settled(doc, models'[k][s])
    <3>1. Settled(doc, models[k][s])
      BY DEF Inv, MapsInv
    <3>2. CASE models'[k][s] = models[k][s]
      BY <3>1, <3>2
    <3>3. CASE models'[k][s] # models[k][s]
      <4>1. PICK t \in DOMAIN models :
               /\ s \in DOMAIN models[t]
               /\ models'[k][s] = backfillRates(models[k][s], models[t][s])
        BY <3>3, BackfillStep
      <4>2. Settled(doc, models[t][s])
        BY <4>1 DEF Inv, MapsInv
      <4> QED
        BY <3>1, <4>1, <4>2, BackfillFacts DEF Settled
    <3> QED
      BY <3>2, <3>3
  <2> QED
    BY <2>1, <2>2
<1>3. DocInv' /\ OnceInv'
  BY <1>1 DEF Inv, DocInv, OnceInv, Parsing, locals
<1>4. MapsInv'
  BY <1>1, <1>2 DEF Inv, MapsInv, locals
<1>5. GatheredInv' /\ RatesInv'
  BY <1>1 DEF Inv, GatheredInv, RatesInv, locals
<1> QED
  BY <1>3, <1>4, <1>5 DEF Inv

\* The table is handed over.
LEMMA EndBackfillInv == ASSUME Inv, EndBackfill PROVE Inv'
<1>1. phase = "backfill" /\ phase' = "done" /\ UNCHANGED <<doc, todo, models, locals>>
  BY DEF EndBackfill
<1>2. DocInv' /\ OnceInv'
  BY <1>1 DEF Inv, DocInv, OnceInv, Loops, Parsing, locals
<1>3. MapsInv'
  BY <1>1 DEF Inv, MapsInv, locals
<1>4. GatheredInv' /\ RatesInv'
  BY <1>1 DEF Inv, GatheredInv, RatesInv, locals
<1> QED
  BY <1>2, <1>3, <1>4 DEF Inv

\* Nothing happens.
LEMMA StutterInv == ASSUME Inv, UNCHANGED vars PROVE Inv'
<1>1. UNCHANGED <<phase, doc, todo, models, cur, m, svcs, svc, left, r>>
  BY DEF vars, locals
<1> QED
  BY <1>1 DEF Inv, DocInv, OnceInv, MapsInv, GatheredInv, RatesInv

\* The invariant is inductive.
THEOREM Invariance == Spec => []Inv
<1>1. Inv /\ [Next]_vars => Inv'
  <2> SUFFICES ASSUME Inv, [Next]_vars
               PROVE  Inv'
    OBVIOUS
  <2>1. ASSUME NEW d \in Docs, Parse(d) PROVE Inv'
    BY <2>1, ParseInv
  <2>2. ASSUME NEW key \in todo, ParseModel(key) PROVE Inv'
    BY <2>2, ParseModelInv
  <2>3. ASSUME NEW key \in todo, Backfill(key) PROVE Inv'
    BY <2>3, BackfillInv
  <2>4. ASSUME NEW s \in svcs, Service(s) PROVE Inv'
    BY <2>4, ServiceInv
  <2>5. CASE EndModel
    BY <2>5, EndModelInv
  <2>6. CASE EndModels
    BY <2>6, EndModelsInv
  <2>7. CASE EndEntries
    BY <2>7, EndEntriesInv
  <2>8. CASE EndFields
    BY <2>8, EndFieldsInv
  <2>9. CASE EndBackfill
    BY <2>9, EndBackfillInv
  <2>10. ASSUME phase = "entries", NEW g \in left, Entry(g) PROVE Inv'
    BY <2>10, EntryInv
  <2>11. ASSUME phase = "fields", NEW g \in DOMAIN doc[cur].uplift, Uplift(g) PROVE Inv'
    BY <2>11, UpliftInv
  <2>12. ASSUME phase = "fields", NEW ctx \in Contexts(doc[cur], svc), Context(ctx) PROVE Inv'
    BY <2>12, ContextInv
  <2>13. CASE UNCHANGED vars
    BY <2>13, StutterInv
  <2> QED
    BY <2>1, <2>2, <2>3, <2>4, <2>5, <2>6, <2>7, <2>8, <2>9, <2>10, <2>11, <2>12, <2>13
    DEF Next, Step
<1> QED
  BY <1>1, InitInv, PTL DEF Spec

\* What NewFrom is given, backfilled or not, is valid: of every plain price
\* map, whatever the order in which its maps are walked.
THEOREM TablesAreValid == Spec => []ParsedRatesAreValid
<1>1. Inv => ParsedRatesAreValid
  BY DEF Inv, MapsInv, Settled, ParsedRatesAreValid
<1> QED
  BY <1>1, Invariance, PTL

\* No step of Parse takes a model, a service tier, a threshold or a rate out
\* of the table, or changes one that is there.
THEOREM RatesStand == Spec => PublishedRateStands
<1> DEFINE Kept ==
       \A key \in DOMAIN models :
          /\ key \in DOMAIN models'
          /\ DOMAIN models'[key] = DOMAIN models[key]
          /\ \A s \in DOMAIN models[key] : KeepsRates(models[key][s], models'[key][s])
<1>1. ASSUME Inv, [Next]_vars
      PROVE  Kept
  <2>1. \A x : KeepsRates(x, x)
    BY DEF KeepsRates, KeepsTier
  <2>2. CASE UNCHANGED models
    BY <2>1, <2>2
  <2>3. CASE EndModel
    <3>1. models' = With(models, cur, m) /\ cur \notin DOMAIN models
      BY <1>1, <2>3 DEF Inv, OnceInv, Parsing, EndModel
    <3>2. \A key \in DOMAIN models : key \in DOMAIN models' /\ models'[key] = models[key]
      BY <3>1 DEF With
    <3> QED
      BY <2>1, <3>2
  <2>4. ASSUME NEW key \in todo, Backfill(key)
        PROVE  Kept
    <3>1. ASSUME NEW k \in DOMAIN models, NEW s \in DOMAIN models[k]
          PROVE  KeepsRates(models[k][s], models'[k][s])
      <4>1. CASE models'[k][s] = models[k][s]
        BY <2>1, <4>1
      <4>2. CASE models'[k][s] # models[k][s]
        <5>1. PICK t \in DOMAIN models :
                 /\ s \in DOMAIN models[t]
                 /\ models'[k][s] = backfillRates(models[k][s], models[t][s])
          BY <1>1, <2>4, <4>2, BackfillStep
        <5>2. Settled(doc, models[k][s]) /\ Settled(doc, models[t][s])
          BY <1>1, <5>1 DEF Inv, MapsInv
        <5> QED
          BY <5>1, <5>2, BackfillFacts DEF Settled
      <4> QED
        BY <4>1, <4>2
    <3>2. /\ DOMAIN models' = DOMAIN models
          /\ \A k \in DOMAIN models : DOMAIN models'[k] = DOMAIN models[k]
      BY <1>1, <2>4, BackfillStep
    <3> QED
      BY <3>1, <3>2
  <2> QED
    BY <1>1, <2>2, <2>3, <2>4
    DEF Next, Step, vars, locals, Parse, ParseModel, Service, Entry, EndEntries, Uplift, Context,
        EndFields, EndModels, EndBackfill
<1> QED
  BY <1>1, Invariance, PTL DEF Spec, PublishedRateStands

----------------------------------------------------------------------------
(* The table is what the price map publishes: the data.                    *)

\* Reading an entry field by field gives what it publishes.
LEMMA ReadsEntry ==
    ASSUME NEW e, NEW s
    PROVE  /\ BaseRates(e, s) = Published(e, s)
           /\ \A c : ContextRates(e, c, s) = PublishedIn(e, c, s)
           /\ CanBill(e, s) <=> priceable(Published(e, s))
<1>1. \A x \in Parts : NoRate[x] = Nil
  BY DEF NoRate
<1>2. BaseRates(e, s) = Published(e, s)
  <2>1. \A x \in Parts : (IF ratField(e, x, Nil, s) # Nil THEN ratField(e, x, Nil, s) ELSE NoRate[x])
                            = ratField(e, x, Nil, s)
    BY <1>1
  <2> QED BY <2>1, Zenon DEF BaseRates, rates, Published
<1>3. \A c : ContextRates(e, c, s) = PublishedIn(e, c, s)
  <2> SUFFICES ASSUME NEW c PROVE ContextRates(e, c, s) = PublishedIn(e, c, s)
    OBVIOUS
  <2>1. \A x \in Parts : Published(e, s)[x] = ratField(e, x, Nil, s)
    BY DEF Published
  <2>2. ContextRates(e, c, s) = rates(e, c, s, Published(e, s))
    BY <1>2 DEF ContextRates
  <2>3. \A x \in Parts :
           (IF ratField(e, x, c, s) # Nil THEN ratField(e, x, c, s) ELSE Published(e, s)[x])
              = IF ratField(e, x, c, s) = Nil THEN ratField(e, x, Nil, s) ELSE ratField(e, x, c, s)
    BY <2>1
  <2> QED BY <2>2, <2>3, Zenon DEF rates, PublishedIn
<1> QED BY <1>2, <1>3 DEF CanBill

\* What a model is sold at, and which models are.
LEMMA SoldAt ==
    ASSUME NEW d, NEW key
    PROVE  /\ \A s : s \in Sold(d, key) <=>
                 /\ s \in ServiceTiers /\ d[key] # Nil
                 /\ CanBill(d[key], "standard") /\ CanBill(d[key], s)
           /\ key \in SoldModels(d) <=>
                 key \in DOMAIN d /\ d[key] # Nil /\ CanBill(d[key], "standard")
<1>1. \A s : s \in Sold(d, key) <=>
                 /\ s \in ServiceTiers /\ d[key] # Nil
                 /\ CanBill(d[key], "standard") /\ CanBill(d[key], s)
  BY ReadsEntry DEF Sold
<1>2. "standard" \in ServiceTiers
  BY DEF ServiceTiers
<1> QED BY <1>1, <1>2 DEF SoldModels

\* The good factors of raw names that differ when lowered.
Good(f, skip) == {g \in DOMAIN f \ skip : f[g] # Nil /\ f[g] > 0}

LEMMA FactorsAre ==
    ASSUME NEW f, PlainNames(f), NEW skip
    PROVE  /\ Factors(f, skip) = [n \in {Lower(g) : g \in Good(f, skip)} |-> Factors(f, skip)[n]]
           /\ DOMAIN Factors(f, skip) = {Lower(g) : g \in Good(f, skip)}
           /\ \A g \in Good(f, skip) : Factors(f, skip)[Lower(g)] = f[g]
<1> DEFINE good == Good(f, skip)
<1>1. Factors(f, skip) = [n \in {Lower(g) : g \in good} |-> f[CHOOSE g \in good : Lower(g) = n]]
  BY DEF Factors, Good
<1>2. \A g \in good : g \in DOMAIN f
  BY DEF Good
<1> HIDE DEF good
<1>3. ASSUME NEW g \in good PROVE (CHOOSE h \in good : Lower(h) = Lower(g)) = g
  <2>1. \A h \in good : Lower(h) = Lower(g) => h = g
    BY <1>2 DEF PlainNames
  <2> QED BY <2>1
<1>4. DOMAIN Factors(f, skip) = {Lower(g) : g \in good}
  BY <1>1
<1>5. \A g \in good : Factors(f, skip)[Lower(g)] = f[g]
  BY <1>1, <1>3
<1>6. Factors(f, skip) = [n \in DOMAIN Factors(f, skip) |-> Factors(f, skip)[n]]
  BY <1>1
<1> QED BY <1>4, <1>5, <1>6 DEF good

LEMMA FactorsSame ==
    ASSUME NEW f, NEW skip, NEW less, Good(f, less) = Good(f, skip)
    PROVE  Factors(f, less) = Factors(f, skip)
<1>1. /\ Factors(f, less) = [n \in {Lower(g) : g \in Good(f, less)} |->
                                f[CHOOSE g \in Good(f, less) : Lower(g) = n]]
      /\ Factors(f, skip) = [n \in {Lower(g) : g \in Good(f, skip)} |->
                                f[CHOOSE g \in Good(f, skip) : Lower(g) = n]]
  BY DEF Factors, Good
<1> QED BY <1>1

\* A function is what it maps its domain to.
LEMMA WithIs ==
    ASSUME NEW f, NEW g, NEW k, NEW v, f = [x \in DOMAIN f |-> f[x]],
           DOMAIN f = DOMAIN g \cup {k}, f[k] = v,
           \A x \in DOMAIN g : x # k => f[x] = g[x]
    PROVE  f = With(g, k, v)
<1>1. \A x \in DOMAIN g \cup {k} : f[x] = IF x = k THEN v ELSE g[x]
  OBVIOUS
<1> QED BY <1>1 DEF With

\* One more name met.
LEMMA FactorsGrow ==
    ASSUME NEW f, PlainNames(f), IsMultiplierMap(f), NEW skip, NEW less, NEW g \in DOMAIN f,
           g \in skip, \A h \in DOMAIN f : h \notin less <=> h \notin skip \/ h = g
    PROVE  Factors(f, less) = IF f[g] = Nil \/ f[g] <= 0 THEN Factors(f, skip)
                              ELSE With(Factors(f, skip), Lower(g), f[g])
<1>1. \A h : h \in Good(f, less) <=> h \in DOMAIN f /\ h \notin less /\ f[h] # Nil /\ f[h] > 0
  BY DEF Good
<1>2. \A h : h \in Good(f, skip) <=> h \in DOMAIN f /\ h \notin skip /\ f[h] # Nil /\ f[h] > 0
  BY DEF Good
<1>3. f[g] \in Int \cup {Nil}
  BY DEF IsMultiplierMap, Multiplier
<1>4. CASE f[g] = Nil \/ f[g] <= 0
  <2>1. ~ (f[g] # Nil /\ f[g] > 0)
    BY <1>3, <1>4
  <2>2. Good(f, less) = Good(f, skip)
    BY <1>1, <1>2, <2>1
  <2>3. Factors(f, less) = Factors(f, skip)
    BY <2>2, FactorsSame
  <2> QED BY <1>4, <2>3
<1>5. CASE ~ (f[g] = Nil \/ f[g] <= 0)
  <2> DEFINE new == Factors(f, less)
             old == Factors(f, skip)
  <2>1. f[g] # Nil /\ f[g] > 0
    BY <1>3, <1>5
  <2>2. /\ g \in Good(f, less) /\ g \notin Good(f, skip)
        /\ \A h : h \in Good(f, less) <=> h \in Good(f, skip) \/ h = g
    BY <1>1, <1>2, <2>1
  <2>3. /\ new = [n \in DOMAIN new |-> new[n]]
        /\ DOMAIN new = {Lower(h) : h \in Good(f, less)}
        /\ DOMAIN old = {Lower(h) : h \in Good(f, skip)}
        /\ \A h \in Good(f, less) : new[Lower(h)] = f[h]
        /\ \A h \in Good(f, skip) : old[Lower(h)] = f[h]
    BY FactorsAre
  <2> HIDE DEF new, old
  <2>4. DOMAIN new = DOMAIN old \cup {Lower(g)}
    BY <2>2, <2>3
  <2>5. new[Lower(g)] = f[g]
    BY <2>2, <2>3
  <2>6. \A x \in DOMAIN old : new[x] = old[x]
    <3> SUFFICES ASSUME NEW x \in DOMAIN old PROVE new[x] = old[x]
      OBVIOUS
    <3>1. PICK h \in Good(f, skip) : x = Lower(h)
      BY <2>3
    <3> QED BY <2>2, <2>3, <3>1
  <2>7. new = With(old, Lower(g), f[g])
    BY <2>3, <2>4, <2>5, <2>6, WithIs
  <2> QED BY <1>5, <2>7 DEF new, old
<1> QED BY <1>4, <1>5

\* Sorting keeps what there is.
LEMMA SortedKeeps ==
    ASSUME NEW s \in Seq(Tier), NEW q \in Sorted(s)
    PROVE  {q[i] : i \in DOMAIN q} = {s[i] : i \in DOMAIN s}
<1> DEFINE D == 1 .. Len(s)
<1>1. PICK f \in [D -> D] :
         /\ \A i, j \in D : i < j => f[i] # f[j]
         /\ q = [i \in D |-> s[f[i]]]
  BY DEF Sorted
<1>2. Len(s) \in Nat /\ DOMAIN s = D
  OBVIOUS
<1>3. \A i, j \in D : i # j => i < j \/ j < i
  BY <1>2
<1>4. DOMAIN q = D /\ \A i \in D : q[i] = s[f[i]]
  BY <1>1
<1>5. IsFiniteSet(D)
  <2>1. 1 \in Int /\ Len(s) \in Int
    BY <1>2
  <2> QED BY <2>1, FS_Interval
<1> HIDE DEF D
<1>6. f \in Injection(D, D)
  BY <1>1, <1>3 DEF Injection, IsInjective
<1>7. f \in Surjection(D, D)
  BY <1>5, <1>6, FS_Injection
<1>8. \A i \in D : \E j \in D : f[j] = i
  BY <1>7 DEF Surjection
<1> QED BY <1>1, <1>2, <1>4, <1>8

\* What has no twin is left as it is.
LEMMA OwnIsFilled ==
    ASSUME NEW d, NEW key, NEW s, NEW x, Lenders(d, key, s) = {}
    PROVE  IsOwn(d, key, s, x) <=> IsFilled(d, key, s, x)
<1> DEFINE e == d[key]
<1>1. SettledBase(d, key, s) = Published(e, s)
  <2>1. \A y \in Parts : {Published(d[t], s)[y] : t \in Lenders(d, key, s)} = {}
    OBVIOUS
  <2>2. \A y \in Parts : OwnOrLent(Published(e, s)[y], {Published(d[t], s)[y] : t \in Lenders(d, key, s)})
                            = Published(e, s)[y]
    BY <2>1 DEF OwnOrLent
  <2>3. SettledBase(d, key, s) = [y \in Parts |-> Published(e, s)[y]]
    BY <2>2, Zenon DEF SettledBase
  <2> QED BY <2>3 DEF Published
<1>2. \A c : FilledContext(d, key, s, c) = OwnContext(e, s, c)
  <2> SUFFICES ASSUME NEW c PROVE FilledContext(d, key, s, c) = OwnContext(e, s, c)
    OBVIOUS
  <2> DEFINE lent(y) == UNION {{PublishedIn(d[t], b, s)[y] :
                            b \in {b \in SoldContexts(d[t], s) : Tokens(b) = Tokens(c)}} :
                         t \in Lenders(d, key, s)}
             own == [y \in Parts |-> OwnOrLent(PublishedIn(e, c, s)[y], lent(y))]
  <2>1. \A y \in Parts : lent(y) = {}
    OBVIOUS
  <2>2. FilledContext(d, key, s, c) = [AbovePromptTokens |-> Tokens(c), TierRates |-> own]
    BY DEF FilledContext, FilledRates
  <2> HIDE DEF lent
  <2>3. \A y \in Parts : OwnOrLent(PublishedIn(e, c, s)[y], lent(y)) = PublishedIn(e, c, s)[y]
    BY <2>1 DEF OwnOrLent
  <2>4. own = [y \in Parts |-> PublishedIn(e, c, s)[y]]
    BY <2>3
  <2>5. own = PublishedIn(e, c, s)
    BY <2>4 DEF PublishedIn
  <2> QED BY <2>2, <2>5 DEF OwnContext
<1>3. {FilledContext(d, key, s, c) : c \in SoldContexts(e, s)}
        = {OwnContext(e, s, c) : c \in SoldContexts(e, s)}
  BY <1>2
<1>4. x.Fast = FastOf(e.entry, {}) <=>
         x.Fast = IF "fast" \in DOMAIN e.entry /\ e.entry["fast"] # Nil /\ e.entry["fast"] > 0
                  THEN e.entry["fast"] ELSE Nil
  BY DEF FastOf
<1> QED BY <1>1, <1>3, <1>4 DEF IsOwn, IsFilled, HasRates, TiersIn

\* The contexts of a plain price map, by what they stand for.
LEMMA PlainTokens ==
    ASSUME NEW d, Plain(d), NEW key \in DOMAIN d, d[key] # Nil, NEW s \in ServiceTiers,
           NEW b \in SoldContexts(d[key], s), NEW c \in SoldContexts(d[key], s),
           Tokens(b) = Tokens(c)
    PROVE  b = c
BY DEF Plain, PlainContexts, SoldContexts

\* What has a twin has its gaps filled, context by context.
LEMMA BackfillFills ==
    ASSUME NEW d \in Docs \ {Nil}, Plain(d), NEW key \in DOMAIN d, d[key] # Nil,
           NEW s \in ServiceTiers, NEW t \in DOMAIN d, d[t] # Nil, Lenders(d, key, s) = {t},
           NEW own, Shaped(own), IsRates(own), IsOwn(d, key, s, own),
           NEW twin, IsRates(twin), IsOwn(d, t, s, twin)
    PROVE  IsFilled(d, key, s, backfillRates(own, twin))
<1> DEFINE e == d[key]
           b == backfillRates(own, twin)
           lent(c, y) == UNION {{PublishedIn(d[z], a, s)[y] :
                            a \in {a \in SoldContexts(d[z], s) : Tokens(a) = Tokens(c)}} :
                         z \in Lenders(d, key, s)}
           settled(c) == [y \in Parts |-> OwnOrLent(PublishedIn(e, c, s)[y], lent(c, y))]
<1>1. SettledBase(d, key, s) = backfillTierRates(own.Base, twin.Base)
  <2>1. own.Base = Published(e, s) /\ twin.Base = Published(d[t], s)
    BY DEF IsOwn
  <2>2. \A y \in Parts : {Published(d[z], s)[y] : z \in Lenders(d, key, s)} = {Published(d[t], s)[y]}
    OBVIOUS
  <2>3. \A y \in Parts : OwnOrLent(Published(e, s)[y], {Published(d[z], s)[y] : z \in Lenders(d, key, s)})
              = IF own.Base[y] = Nil THEN twin.Base[y] ELSE own.Base[y]
    BY <2>1, <2>2 DEF OwnOrLent
  <2> QED BY <2>3, Zenon DEF SettledBase, backfillTierRates
<1>2. \A c : FilledContext(d, key, s, c) = [AbovePromptTokens |-> Tokens(c), TierRates |-> settled(c)]
  BY DEF FilledContext, FilledRates
<1>3. \A c, y : \A z : z \in lent(c, y) <=> \E a \in SoldContexts(d[t], s) :
                          Tokens(a) = Tokens(c) /\ z = PublishedIn(d[t], a, s)[y]
  <2> SUFFICES ASSUME NEW c, NEW y
               PROVE  lent(c, y) = {PublishedIn(d[t], a, s)[y] :
                            a \in {a \in SoldContexts(d[t], s) : Tokens(a) = Tokens(c)}}
    OBVIOUS
  <2> QED OBVIOUS
<1> HIDE DEF lent
<1>4. ASSUME NEW c, NEW ct, ct = OwnContext(e, s, c)
      PROVE  backfillContext(ct, twin.Tiers) = FilledContext(d, key, s, c)
  <2> DEFINE same == {j \in DOMAIN twin.Tiers : twin.Tiers[j].AbovePromptTokens = ct.AbovePromptTokens}
             first == CHOOSE j \in same : \A i \in same : j <= i
  <2>1. /\ ct.AbovePromptTokens = Tokens(c) /\ ct.TierRates = PublishedIn(e, c, s)
        /\ ct = [AbovePromptTokens |-> Tokens(c), TierRates |-> PublishedIn(e, c, s)]
    BY <1>4 DEF OwnContext
  <2>2. TiersIn(twin) = {OwnContext(d[t], s, a) : a \in SoldContexts(d[t], s)}
    BY DEF IsOwn
  <2>3. \A a : OwnContext(d[t], s, a).AbovePromptTokens = Tokens(a)
    BY DEF OwnContext
  <2>4. CASE same = {}
    <3>1. \A a \in SoldContexts(d[t], s) : Tokens(a) # Tokens(c)
      <4> SUFFICES ASSUME NEW a \in SoldContexts(d[t], s), Tokens(a) = Tokens(c) PROVE FALSE
        OBVIOUS
      <4>1. OwnContext(d[t], s, a) \in TiersIn(twin)
        BY <2>2
      <4>2. PICK j \in DOMAIN twin.Tiers : twin.Tiers[j] = OwnContext(d[t], s, a)
        BY <4>1 DEF TiersIn
      <4> QED BY <2>1, <2>3, <2>4, <4>2
    <3>2. \A y : lent(c, y) = {}
      BY <1>3, <3>1
    <3>3. \A y \in Parts : OwnOrLent(PublishedIn(e, c, s)[y], lent(c, y)) = PublishedIn(e, c, s)[y]
      BY <3>2 DEF OwnOrLent
    <3>4. settled(c) = PublishedIn(e, c, s)
      <4>1. settled(c) = [y \in Parts |-> PublishedIn(e, c, s)[y]]
        BY <3>3
      <4> QED BY <4>1 DEF PublishedIn
    <3>5. backfillContext(ct, twin.Tiers) = ct
      BY <2>4 DEF backfillContext
    <3> QED BY <1>2, <2>1, <3>4, <3>5
  <2>5. CASE same # {}
    <3>1. same \subseteq Nat
      BY DEF IsRates
    <3>2. \E j \in same : \A i \in same : j <= i
      BY <2>5, <3>1, LeastElement
    <3>3. first \in same
      BY <3>2
    <3>4. backfillContext(ct, twin.Tiers)
            = [ct EXCEPT !.TierRates = backfillTierRates(@, twin.Tiers[first].TierRates)]
      BY <2>5 DEF backfillContext
    <3>5. first \in DOMAIN twin.Tiers /\ twin.Tiers[first].AbovePromptTokens = Tokens(c)
      BY <2>1, <3>3
    <3> HIDE DEF same, first
    <3>6. twin.Tiers[first] \in TiersIn(twin)
      BY <3>5 DEF TiersIn
    <3>7. PICK a \in SoldContexts(d[t], s) : twin.Tiers[first] = OwnContext(d[t], s, a)
      BY <2>2, <3>6
    <3>8. /\ Tokens(a) = Tokens(c)
          /\ twin.Tiers[first].TierRates = PublishedIn(d[t], a, s)
      BY <3>5, <3>7 DEF OwnContext
    <3>9. \A y : lent(c, y) = {PublishedIn(d[t], a, s)[y]}
      <4>1. \A x \in SoldContexts(d[t], s) : Tokens(x) = Tokens(c) => x = a
        BY <3>8, PlainTokens
      <4>2. \A y, z : z \in lent(c, y) <=> z = PublishedIn(d[t], a, s)[y]
        BY <1>3, <3>8, <4>1
      <4> QED BY <4>2
    <3>10. \A y \in Parts : OwnOrLent(PublishedIn(e, c, s)[y], lent(c, y))
               = IF PublishedIn(e, c, s)[y] = Nil THEN PublishedIn(d[t], a, s)[y]
                                                  ELSE PublishedIn(e, c, s)[y]
      BY <3>9 DEF OwnOrLent
    <3>11. settled(c) = backfillTierRates(PublishedIn(e, c, s), PublishedIn(d[t], a, s))
      BY <3>10, Zenon DEF backfillTierRates
    <3>12. backfillContext(ct, twin.Tiers) = [AbovePromptTokens |-> Tokens(c), TierRates |-> settled(c)]
      BY <2>1, <3>4, <3>8, <3>11
    <3> QED BY <1>2, <3>12
  <2> QED BY <2>4, <2>5
<1>5. TiersIn(b) = {FilledContext(d, key, s, c) : c \in SoldContexts(e, s)}
  <2> DEFINE ts == [i \in DOMAIN own.Tiers |-> backfillContext(own.Tiers[i], twin.Tiers)]
  <2>1. b.Tiers = ts
    BY BackfillIs
  <2>2. TiersIn(own) = {OwnContext(e, s, c) : c \in SoldContexts(e, s)}
    BY DEF IsOwn
  <2>3. DOMAIN ts = DOMAIN own.Tiers
        /\ \A i \in DOMAIN own.Tiers : ts[i] = backfillContext(own.Tiers[i], twin.Tiers)
    OBVIOUS
  <2> HIDE DEF ts, b
  <2>4. ASSUME NEW i \in DOMAIN ts
        PROVE  \E c \in SoldContexts(e, s) : ts[i] = FilledContext(d, key, s, c)
    <3>1. own.Tiers[i] \in TiersIn(own)
      BY <2>3 DEF TiersIn
    <3>2. PICK c \in SoldContexts(e, s) : own.Tiers[i] = OwnContext(e, s, c)
      BY <2>2, <3>1
    <3> QED BY <1>4, <2>3, <3>2
  <2>5. ASSUME NEW c \in SoldContexts(e, s)
        PROVE  \E i \in DOMAIN ts : ts[i] = FilledContext(d, key, s, c)
    <3>1. OwnContext(e, s, c) \in TiersIn(own)
      BY <2>2
    <3>2. PICK i \in DOMAIN own.Tiers : own.Tiers[i] = OwnContext(e, s, c)
      BY <3>1 DEF TiersIn
    <3> QED BY <1>4, <2>3, <3>2
  <2> QED BY <2>1, <2>4, <2>5 DEF TiersIn
<1>6. /\ b.Base = SettledBase(d, key, s) /\ b.Fast = own.Fast /\ b.Geo = own.Geo
      /\ b.RegionalUplift = own.RegionalUplift /\ b.litellmProvider = own.litellmProvider
  BY <1>1, BackfillIs
<1> HIDE DEF b
<1>7. /\ own.Fast = FastOf(e.entry, {}) /\ own.Geo = Factors(e.entry, {"fast"})
      /\ own.RegionalUplift = Factors(e.uplift, {}) /\ own.litellmProvider = e.litellm_provider
  BY DEF IsOwn
<1>8. b.Fast = IF "fast" \in DOMAIN e.entry /\ e.entry["fast"] # Nil /\ e.entry["fast"] > 0
               THEN e.entry["fast"] ELSE Nil
  BY <1>6, <1>7 DEF FastOf
<1>9. IsFilled(d, key, s, b)
  BY <1>5, <1>6, <1>7, <1>8 DEF IsFilled, HasRates
<1> QED BY <1>9 DEF b

----------------------------------------------------------------------------
(* What each loop has built is what the fields it has met publish.         *)

\* Nothing is read of a table of which everything is left.
LEMMA FactorsNone ==
    ASSUME NEW f, NEW skip, DOMAIN f \subseteq skip
    PROVE  Factors(f, skip) = <<>>
<1>1. Good(f, skip) = {}
  BY DEF Good
<1>2. Factors(f, skip) = [n \in {Lower(g) : g \in Good(f, skip)} |->
                            f[CHOOSE g \in Good(f, skip) : Lower(g) = n]]
  BY DEF Factors, Good
<1>3. {Lower(g) : g \in Good(f, skip)} = {}
  BY <1>1
<1> DEFINE V(n) == f[CHOOSE g \in Good(f, skip) : Lower(g) = n]
<1>4. Factors(f, skip) = [n \in {} |-> V(n)]
  BY <1>2, <1>3
<1> HIDE DEF V
<1> QED
  BY <1>4

\* parseTier starts from what is published without a field of its loops.
LEMMA StartTierFaith ==
    ASSUME NEW e, NEW s, StartTier(e, s), doc'[cur'] = e
    PROVE  FieldsInv' /\ phase' = "entries" /\ svc' = s
<1>1. r' = [Base |-> BaseRates(e, s), Tiers |-> <<>>, Fast |-> Nil, Geo |-> <<>>,
            RegionalUplift |-> <<>>, litellmProvider |-> e.litellm_provider]
  BY DEF StartTier, NoRates
<1>2. phase' = "entries" /\ svc' = s /\ left' = DOMAIN e.entry
  BY DEF StartTier
<1>3. /\ r'.Base = BaseRates(e, s) /\ r'.Fast = Nil /\ r'.Geo = <<>> /\ r'.RegionalUplift = <<>>
      /\ r'.litellmProvider = e.litellm_provider
  BY <1>1
<1>4. r'.Base = Published(e, s)
  BY <1>3, ReadsEntry
<1>5. FastOf(e.entry, left') = Nil
  BY <1>2 DEF FastOf
<1>6. Factors(e.entry, {"fast"} \cup left') = <<>>
  BY <1>2, FactorsNone
<1> QED
  BY <1>2, <1>3, <1>4, <1>5, <1>6 DEF FieldsInv

\* What the invariants say of the price map being read.
LEMMA ReadingFacts ==
    ASSUME Inv, FaithInv, Plain(doc), phase \in Loops
    PROVE  /\ doc \in Docs \ {Nil} /\ FieldsInv /\ ServicesInv /\ TableInv
           /\ phase \in Parsing =>
                /\ cur \in DOMAIN doc /\ doc[cur] # Nil /\ IsEntry(doc[cur])
                /\ PlainNames(doc[cur].entry) /\ PlainNames(doc[cur].uplift)
<1>1. doc \in Docs \ {Nil} /\ (phase \in Parsing => cur \in DOMAIN doc /\ doc[cur] # Nil)
  BY DEF Inv, DocInv
<1>2. FieldsInv /\ ServicesInv /\ TableInv
  BY DEF FaithInv, Loops
<1>3. phase \in Parsing => IsEntry(doc[cur])
  BY <1>1, EntryFacts
<1>4. phase \in Parsing => PlainNames(doc[cur].entry) /\ PlainNames(doc[cur].uplift)
  BY <1>1 DEF Plain
<1> QED
  BY <1>1, <1>2, <1>3, <1>4

\* Nothing has been read.
LEMMA InitFaith == ASSUME Init PROVE FaithInv
<1>1. phase = "start" /\ DOMAIN m = {} /\ DOMAIN models = {}
  BY DEF Init
<1> QED
  BY <1>1 DEF FaithInv, FieldsInv, ServicesInv, TableInv, Parsing

\* Reading begins, with every model ahead.
LEMMA ParseFaith == ASSUME Inv, NEW d \in Docs, Parse(d) PROVE FaithInv'
<1>1. phase = "start" /\ models = <<>> /\ m = <<>> /\ doc' = d /\ UNCHANGED <<models, locals>>
  BY DEF Inv, DocInv, Parse
<1>2. phase' = "failed" \/ (phase' = "models" /\ todo' = DOMAIN d)
  BY DEF Parse
<1>3. CASE phase' = "failed"
  BY <1>3 DEF FaithInv
<1>4. CASE phase' = "models" /\ todo' = DOMAIN d
  <2>1. DOMAIN models' = {} /\ DOMAIN m' = {}
    BY <1>1 DEF locals
  <2>2. SoldModels(doc') \ todo' = {}
    BY <1>1, <1>4 DEF SoldModels
  <2> QED
    BY <1>4, <2>1, <2>2 DEF FaithInv, FieldsInv, ServicesInv, TableInv, Parsing
<1> QED
  BY <1>2, <1>3, <1>4

\* A model is skipped exactly when it is not for sale.
LEMMA ParseModelFaith ==
    ASSUME Inv, FaithInv, Plain(doc), NEW key \in todo, ParseModel(key)
    PROVE  FaithInv'
<1>1. /\ phase = "models" /\ todo' = todo \ {key} /\ UNCHANGED <<doc, models>>
      /\ todo \subseteq DOMAIN doc
  BY DEF Inv, OnceInv, ParseModel
<1>2. ServicesInv /\ TableInv
  BY <1>1, ReadingFacts DEF Loops
<1>3. /\ DOMAIN m = {} /\ DOMAIN models = SoldModels(doc) \ todo
      /\ \A k \in DOMAIN models :
            /\ DOMAIN models[k] = Sold(doc, k)
            /\ \A s \in DOMAIN models[k] : IsOwn(doc, k, s, models[k][s])
  BY <1>1, <1>2 DEF ServicesInv, TableInv
<1>4. key \in SoldModels(doc) <=> doc[key] # Nil /\ CanBill(doc[key], "standard")
  BY <1>1, SoldAt
<1>5. CASE doc[key] # Nil /\ CanBill(doc[key], "standard")
  <2>1. /\ cur' = key /\ svcs' = ServiceTiers \ {"standard"} /\ m' = m
        /\ StartTier(doc[key], "standard")
    BY <1>5 DEF ParseModel
  <2>2. FieldsInv' /\ phase' = "entries" /\ svc' = "standard"
    BY <1>1, <2>1, StartTierFaith
  <2>3. "standard" \in Sold(doc, key) /\ Sold(doc, key) \subseteq ServiceTiers
    BY <1>4, <1>5 DEF SoldModels, Sold
  <2>4. ServicesInv'
    BY <1>1, <1>3, <1>4, <1>5, <2>1, <2>2, <2>3 DEF ServicesInv, Parsing
  <2>5. TableInv'
    BY <1>1, <1>3, <2>1, <2>2 DEF TableInv, Parsing
  <2> QED
    BY <2>2, <2>4, <2>5 DEF FaithInv
<1>6. CASE ~ (doc[key] # Nil /\ CanBill(doc[key], "standard"))
  <2>1. phase' = phase /\ m' = m
    BY <1>6 DEF ParseModel, locals
  <2>2. SoldModels(doc) \ todo' = SoldModels(doc) \ todo
    BY <1>1, <1>4, <1>6
  <2>3. ServicesInv' /\ FieldsInv'
    BY <1>1, <1>3, <2>1 DEF ServicesInv, FieldsInv, Parsing
  <2>4. TableInv'
    BY <1>1, <1>3, <2>1, <2>2 DEF TableInv, Parsing
  <2> QED
    BY <2>3, <2>4 DEF FaithInv
<1> QED
  BY <1>5, <1>6

\* A service tier is left out exactly when the model is not for sale at it.
LEMMA ServiceFaith ==
    ASSUME Inv, FaithInv, Plain(doc), NEW s \in svcs, Service(s)
    PROVE  FaithInv'
<1>1. /\ phase = "services" /\ svcs' = svcs \ {s} /\ UNCHANGED <<doc, todo, models, cur, m>>
      /\ s \in ServiceTiers
  BY DEF Inv, MapsInv, Service
<1>2. /\ ServicesInv /\ TableInv /\ doc[cur] # Nil /\ cur \in DOMAIN doc
  BY <1>1, ReadingFacts DEF Loops, Parsing
<1>3. /\ cur \in SoldModels(doc) /\ DOMAIN m = Sold(doc, cur) \ svcs
      /\ \A t \in DOMAIN m : IsOwn(doc, cur, t, m[t])
  BY <1>1, <1>2 DEF ServicesInv, Parsing
<1>4. s \in Sold(doc, cur) <=> CanBill(doc[cur], s)
  BY <1>1, <1>2, <1>3, SoldAt
<1>5. CASE CanBill(doc[cur], s)
  <2>1. StartTier(doc[cur], s)
    BY <1>5 DEF Service
  <2>2. FieldsInv' /\ phase' = "entries" /\ svc' = s
    BY <1>1, <2>1, StartTierFaith
  <2>3. ServicesInv'
    BY <1>1, <1>3, <1>4, <1>5, <2>2 DEF ServicesInv, Parsing
  <2>4. TableInv'
    BY <1>1, <1>2, <2>2 DEF TableInv, Parsing
  <2> QED
    BY <2>2, <2>3, <2>4 DEF FaithInv
<1>6. CASE ~ CanBill(doc[cur], s)
  <2>1. phase' = phase
    BY <1>6 DEF Service
  <2>2. ServicesInv' /\ FieldsInv'
    BY <1>1, <1>3, <1>4, <1>6, <2>1 DEF ServicesInv, FieldsInv, Parsing
  <2>3. TableInv'
    BY <1>1, <1>2, <2>1 DEF TableInv, Parsing
  <2> QED
    BY <2>2, <2>3 DEF FaithInv
<1> QED
  BY <1>5, <1>6

\* A member of provider_specific_entry is met.
LEMMA EntryFaith ==
    ASSUME Inv, FaithInv, Plain(doc), phase = "entries", NEW g \in left, Entry(g)
    PROVE  FaithInv'
<1> DEFINE t == doc[cur].entry
           f == t[g]
           good == ~ (f = Nil \/ f <= 0)
<1>1. /\ left' = left \ {g} /\ UNCHANGED <<phase, doc, todo, models, cur, m, svcs, svc>>
      /\ left \subseteq DOMAIN t
  BY DEF Inv, GatheredInv, Entry
<1>2. FieldsInv /\ ServicesInv /\ TableInv /\ IsEntry(doc[cur]) /\ PlainNames(t)
  BY ReadingFacts DEF Loops, Parsing
<1>3. IsMultiplierMap(t) /\ f \in Multiplier
  BY <1>1, <1>2 DEF IsEntry, IsMultiplierMap
<1>4. /\ r.Base = Published(doc[cur], svc) /\ r.litellmProvider = doc[cur].litellm_provider
      /\ r.Fast = FastOf(t, left) /\ r.Geo = Factors(t, {"fast"} \cup left)
      /\ r.RegionalUplift = <<>>
  BY <1>2 DEF FieldsInv
<1>5. Shaped(r)
  BY DEF Inv, RatesInv
<1>6. /\ ~ good => r' = r
      /\ good /\ g = "fast" => r' = [r EXCEPT !.Fast = f]
      /\ good /\ g # "fast" => r' = [r EXCEPT !.Geo = With(@, Lower(g), f)]
  BY DEF Entry
<1>7. good <=> f # Nil /\ f > 0
  BY <1>3, NilAssumption DEF Multiplier
<1> HIDE DEF good
<1>8. /\ r'.Base = r.Base /\ r'.litellmProvider = r.litellmProvider
      /\ r'.RegionalUplift = r.RegionalUplift
      /\ r'.Fast = (IF good /\ g = "fast" THEN f ELSE r.Fast)
      /\ r'.Geo = (IF good /\ g # "fast" THEN With(r.Geo, Lower(g), f) ELSE r.Geo)
  <2>1. CASE ~ good
    BY <1>6, <2>1
  <2>2. CASE good /\ g = "fast"
    <3>1. r' = [Base |-> r.Base, Tiers |-> r.Tiers, Fast |-> f, Geo |-> r.Geo,
                RegionalUplift |-> r.RegionalUplift, litellmProvider |-> r.litellmProvider]
      BY <1>5, <1>6, <2>2, Reshape
    <3> HIDE DEF f
    <3> QED
      BY <2>2, <3>1
  <2>3. CASE good /\ g # "fast"
    <3> DEFINE w == With(r.Geo, Lower(g), f)
    <3>1. r' = [Base |-> r.Base, Tiers |-> r.Tiers, Fast |-> r.Fast, Geo |-> w,
                RegionalUplift |-> r.RegionalUplift, litellmProvider |-> r.litellmProvider]
      BY <1>5, <1>6, <2>3, Reshape
    <3> HIDE DEF w
    <3>2. /\ r'.Base = r.Base /\ r'.litellmProvider = r.litellmProvider
          /\ r'.RegionalUplift = r.RegionalUplift /\ r'.Fast = r.Fast /\ r'.Geo = w
      BY <3>1
    <3> QED
      BY <2>3, <3>2 DEF w
  <2> QED
    BY <2>1, <2>2, <2>3
<1>9. r'.Fast = FastOf(t, left')
  <2>1. CASE g = "fast"
    <3>1. FastOf(t, left) = Nil
      BY <2>1 DEF FastOf
    <3>2. FastOf(t, left') = IF f # Nil /\ f > 0 THEN f ELSE Nil
      BY <1>1, <2>1 DEF FastOf
    <3> QED
      BY <1>4, <1>7, <1>8, <2>1, <3>1, <3>2
  <2>2. CASE g # "fast"
    <3>1. FastOf(t, left') = FastOf(t, left)
      BY <1>1, <2>2 DEF FastOf
    <3> QED
      BY <1>4, <1>8, <2>2, <3>1
  <2> QED
    BY <2>1, <2>2
<1>10. r'.Geo = Factors(t, {"fast"} \cup left')
  <2>1. CASE g = "fast"
    <3>1. {"fast"} \cup left' = {"fast"} \cup left
      BY <1>1, <2>1
    <3> QED
      BY <1>4, <1>8, <2>1, <3>1
  <2>2. CASE g # "fast"
    <3> DEFINE skip == {"fast"} \cup left
               less == {"fast"} \cup left'
    <3>1. g \in DOMAIN t /\ g \in skip /\ \A h \in DOMAIN t : h \notin less <=> h \notin skip \/ h = g
      BY <1>1, <2>2
    <3> HIDE DEF skip, less
    <3>2. Factors(t, less) = IF f = Nil \/ f <= 0 THEN Factors(t, skip)
                             ELSE With(Factors(t, skip), Lower(g), f)
      BY <1>2, <1>3, <3>1, FactorsGrow
    <3>3. Factors(t, less) = IF good THEN With(Factors(t, skip), Lower(g), f)
                             ELSE Factors(t, skip)
      BY <3>2 DEF good
    <3> QED
      BY <1>4, <1>8, <2>2, <3>3 DEF skip, less
  <2> QED
    BY <2>1, <2>2
<1>11. FieldsInv'
  <2>1. phase' = "entries" /\ doc' = doc /\ cur' = cur /\ svc' = svc
    BY <1>1
  <2> QED
    BY <1>4, <1>8, <1>9, <1>10, <2>1 DEF FieldsInv
<1>12. ServicesInv' /\ TableInv'
  BY <1>1, <1>2 DEF ServicesInv, TableInv
<1> QED
  BY <1>11, <1>12 DEF FaithInv

\* Every member has been met, and no field yet.
LEMMA EndEntriesFaith ==
    ASSUME Inv, FaithInv, Plain(doc), EndEntries
    PROVE  FaithInv'
<1> DEFINE e == doc[cur]
<1>1. /\ phase = "entries" /\ phase' = "fields" /\ left = {}
      /\ UNCHANGED <<doc, todo, models, cur, m, svcs, svc, r>>
      /\ r.Tiers = <<>>
  BY DEF Inv, GatheredInv, EndEntries
<1>2. FieldsInv /\ ServicesInv /\ TableInv
  BY <1>1, ReadingFacts DEF Loops
<1>3. /\ r.Base = Published(e, svc) /\ r.litellmProvider = e.litellm_provider
      /\ r.Fast = FastOf(e.entry, {}) /\ r.Geo = Factors(e.entry, {"fast"} \cup left)
      /\ r.RegionalUplift = <<>>
  BY <1>1, <1>2 DEF FieldsInv
<1>4. r.Geo = Factors(e.entry, {"fast"})
  <2>1. {"fast"} \cup left = {"fast"}
    BY <1>1
  <2> QED
    BY <1>3, <2>1
<1>5. \A g \in DOMAIN e.uplift : <<"uplift", g>> \in left'
  BY DEF EndEntries
<1>6. \A c \in Contexts(e, svc) : <<"above", c>> \in left'
  BY DEF EndEntries
<1>7. Factors(e.uplift, {g \in DOMAIN e.uplift : <<"uplift", g>> \in left'}) = <<>>
  <2> DEFINE skip == {g \in DOMAIN e.uplift : <<"uplift", g>> \in left'}
  <2>1. DOMAIN e.uplift \subseteq skip
    BY <1>5
  <2> HIDE DEF skip
  <2>2. Factors(e.uplift, skip) = <<>>
    BY <2>1, FactorsNone
  <2> QED
    BY <2>2 DEF skip
<1>8. TiersIn(r) = {OwnContext(e, svc, c) :
                      c \in {c \in SoldContexts(e, svc) : <<"above", c>> \notin left'}}
  <2>1. TiersIn(r) = {}
    BY <1>1 DEF TiersIn
  <2>2. {c \in SoldContexts(e, svc) : <<"above", c>> \notin left'} = {}
    BY <1>6 DEF SoldContexts
  <2> QED
    BY <2>1, <2>2
<1>9. FieldsInv'
  <2> HIDE DEF e
  <2>1. phase' = "fields" /\ doc' = doc /\ cur' = cur /\ svc' = svc /\ r' = r
    BY <1>1
  <2> QED
    BY <1>3, <1>4, <1>7, <1>8, <2>1 DEF FieldsInv, e
<1>10. ServicesInv' /\ TableInv'
  BY <1>1, <1>2 DEF ServicesInv, TableInv, Parsing
<1> QED
  BY <1>9, <1>10 DEF FaithInv

\* A regional uplift is met.
LEMMA UpliftFaith ==
    ASSUME Inv, FaithInv, Plain(doc), phase = "fields", NEW g \in DOMAIN doc[cur].uplift, Uplift(g)
    PROVE  FaithInv'
<1> DEFINE e == doc[cur]
           t == e.uplift
           f == t[g]
           skip == {h \in DOMAIN t : <<"uplift", h>> \in left}
           less == {h \in DOMAIN t : <<"uplift", h>> \in left'}
           open == {c \in SoldContexts(e, svc) : <<"above", c>> \notin left}
           open2 == {c \in SoldContexts(e, svc) : <<"above", c>> \notin left'}
<1>1. /\ <<"uplift", g>> \in left /\ left' = left \ {<<"uplift", g>>}
      /\ UNCHANGED <<phase, doc, todo, models, cur, m, svcs, svc>>
  BY DEF Uplift
<1>2. FieldsInv /\ ServicesInv /\ TableInv /\ IsEntry(e) /\ PlainNames(t)
  BY ReadingFacts DEF Loops, Parsing
<1>3. IsMultiplierMap(t)
  BY <1>2 DEF IsEntry
<1>4. /\ r.Base = Published(e, svc) /\ r.litellmProvider = e.litellm_provider
      /\ r.Fast = FastOf(e.entry, {}) /\ r.Geo = Factors(e.entry, {"fast"})
      /\ r.RegionalUplift = Factors(t, skip)
      /\ TiersIn(r) = {OwnContext(e, svc, c) : c \in open}
  BY <1>2 DEF FieldsInv
<1>5. Shaped(r)
  BY DEF Inv, RatesInv
<1>6. r' = IF f = Nil \/ f <= 0 THEN r ELSE [r EXCEPT !.RegionalUplift = With(@, Lower(g), f)]
  BY DEF Uplift
<1>7. g \in skip /\ \A h \in DOMAIN t : h \notin less <=> h \notin skip \/ h = g
  BY <1>1
<1>8. open2 = open
  BY <1>1
<1> HIDE DEF skip, less, open, open2
<1>9. Factors(t, less) = IF f = Nil \/ f <= 0 THEN Factors(t, skip)
                         ELSE With(Factors(t, skip), Lower(g), f)
  BY <1>2, <1>3, <1>7, FactorsGrow
<1>10. /\ r'.Base = r.Base /\ r'.litellmProvider = r.litellmProvider
       /\ r'.Tiers = r.Tiers /\ r'.Fast = r.Fast /\ r'.Geo = r.Geo
       /\ r'.RegionalUplift = Factors(t, less)
  <2>1. CASE f = Nil \/ f <= 0
    BY <1>4, <1>6, <1>9, <2>1
  <2>2. CASE ~ (f = Nil \/ f <= 0)
    <3> DEFINE w == With(r.RegionalUplift, Lower(g), f)
    <3>1. r' = [Base |-> r.Base, Tiers |-> r.Tiers, Fast |-> r.Fast, Geo |-> r.Geo,
                RegionalUplift |-> w, litellmProvider |-> r.litellmProvider]
      BY <1>5, <1>6, <2>2, Reshape
    <3>2. w = Factors(t, less)
      BY <1>4, <1>9, <2>2
    <3> HIDE DEF w
    <3> QED
      BY <3>1, <3>2
  <2> QED
    BY <2>1, <2>2
<1>11. FieldsInv'
  <2>1. phase' = "fields" /\ doc' = doc /\ cur' = cur /\ svc' = svc
    BY <1>1
  <2>2. TiersIn(r') = {OwnContext(e, svc, c) : c \in open2}
    BY <1>4, <1>8, <1>10 DEF TiersIn
  <2> QED
    BY <1>4, <1>10, <2>1, <2>2 DEF FieldsInv, less, open2
<1>12. ServicesInv' /\ TableInv'
  BY <1>1, <1>2 DEF ServicesInv, TableInv, Parsing
<1> QED
  BY <1>11, <1>12 DEF FaithInv

\* A context is met: it joins the tiers exactly when it is for sale.
LEMMA ContextFaith ==
    ASSUME Inv, FaithInv, Plain(doc), phase = "fields", NEW ctx \in Contexts(doc[cur], svc),
           Context(ctx)
    PROVE  FaithInv'
<1> DEFINE e == doc[cur]
           new == ContextTier(ctx)
           skip == {h \in DOMAIN e.uplift : <<"uplift", h>> \in left}
           less == {h \in DOMAIN e.uplift : <<"uplift", h>> \in left'}
           open == {c \in SoldContexts(e, svc) : <<"above", c>> \notin left}
           open2 == {c \in SoldContexts(e, svc) : <<"above", c>> \notin left'}
<1>1. /\ <<"above", ctx>> \in left /\ left' = left \ {<<"above", ctx>>}
      /\ UNCHANGED <<phase, doc, todo, models, cur, m, svcs, svc>>
      /\ svc \in ServiceTiers
  BY DEF Inv, MapsInv, Context
<1>2. /\ FieldsInv /\ ServicesInv /\ TableInv
      /\ doc \in Docs \ {Nil} /\ cur \in DOMAIN doc /\ doc[cur] # Nil
  BY ReadingFacts DEF Loops, Parsing
<1>3. /\ r.Base = Published(e, svc) /\ r.litellmProvider = e.litellm_provider
      /\ r.Fast = FastOf(e.entry, {}) /\ r.Geo = Factors(e.entry, {"fast"})
      /\ r.RegionalUplift = Factors(e.uplift, skip)
      /\ TiersIn(r) = {OwnContext(e, svc, c) : c \in open}
  BY <1>2 DEF FieldsInv
<1>4. Shaped(r) /\ r.Tiers \in Seq(Tier)
  BY DEF Inv, RatesInv, IsRates
<1>5. less = skip
  BY <1>1
<1>6. /\ ctx \in SoldContexts(e, svc) => open2 = open \cup {ctx}
      /\ ctx \notin SoldContexts(e, svc) => open2 = open
  BY <1>1
<1>7. new = [AbovePromptTokens |-> Threshold(ctx), TierRates |-> PublishedIn(e, ctx, svc)]
  BY ReadsEntry DEF ContextTier
<1>8. Legible(ctx) /\ priceable(new.TierRates) <=> ctx \in SoldContexts(e, svc)
  BY <1>7 DEF Legible, SoldContexts
<1>9. Legible(ctx) => Threshold(ctx) = Tokens(ctx)
  <2> SUFFICES ASSUME Legible(ctx)
               PROVE  Threshold(ctx) = Tokens(ctx)
    OBVIOUS
  <2>1. ctx \in ContextName /\ PlainContexts(e, svc)
    BY <1>1, <1>2, EntryFacts DEF Plain
  <2>2. Tokens(ctx) <= MaxInt
    BY <2>1, IntAssumption DEF PlainContexts, Legible
  <2> QED
    BY <2>1, <2>2, ThresholdFacts
<1>10. r' = IF ctx \in SoldContexts(e, svc) THEN [r EXCEPT !.Tiers = Append(@, new)] ELSE r
  BY <1>8 DEF Context
<1> HIDE DEF new, skip, less, open, open2
<1>11. /\ r'.Base = r.Base /\ r'.litellmProvider = r.litellmProvider
       /\ r'.Fast = r.Fast /\ r'.Geo = r.Geo /\ r'.RegionalUplift = r.RegionalUplift
       /\ TiersIn(r') = {OwnContext(e, svc, c) : c \in open2}
  <2>1. CASE ctx \notin SoldContexts(e, svc)
    BY <1>3, <1>6, <1>10, <2>1
  <2>2. CASE ctx \in SoldContexts(e, svc)
    <3> DEFINE ts == Append(r.Tiers, new)
    <3>1. r' = [Base |-> r.Base, Tiers |-> ts, Fast |-> r.Fast, Geo |-> r.Geo,
                RegionalUplift |-> r.RegionalUplift, litellmProvider |-> r.litellmProvider]
      BY <1>4, <1>10, <2>2, Reshape
    <3>2. /\ Len(r.Tiers) \in Nat /\ DOMAIN r.Tiers = 1 .. Len(r.Tiers)
          /\ DOMAIN ts = 1 .. Len(r.Tiers) + 1
          /\ ts[Len(r.Tiers) + 1] = new /\ \A i \in DOMAIN r.Tiers : ts[i] = r.Tiers[i]
      BY <1>4
    <3> HIDE DEF ts
    <3>3. DOMAIN ts = DOMAIN r.Tiers \cup {Len(r.Tiers) + 1}
      BY <3>2
    <3>4. {ts[i] : i \in DOMAIN ts} = {r.Tiers[i] : i \in DOMAIN r.Tiers} \cup {new}
      BY <3>2, <3>3
    <3>5. TiersIn(r') = TiersIn(r) \cup {new}
      BY <3>1, <3>4 DEF TiersIn
    <3>6. new = OwnContext(e, svc, ctx)
      BY <1>7, <1>8, <1>9, <2>2 DEF OwnContext
    <3>7. TiersIn(r') = {OwnContext(e, svc, c) : c \in open2}
      BY <1>3, <1>6, <2>2, <3>5, <3>6
    <3> QED
      BY <3>1, <3>7
  <2> QED
    BY <2>1, <2>2
<1>12. FieldsInv'
  <2>1. phase' = "fields" /\ doc' = doc /\ cur' = cur /\ svc' = svc
    BY <1>1
  <2> QED
    BY <1>3, <1>5, <1>11, <2>1 DEF FieldsInv, less, open2
<1>13. ServicesInv' /\ TableInv'
  BY <1>1, <1>2 DEF ServicesInv, TableInv, Parsing
<1> QED
  BY <1>12, <1>13 DEF FaithInv

\* Every field has been met: the service tier is as published.
LEMMA EndFieldsFaith ==
    ASSUME Inv, FaithInv, Plain(doc), EndFields
    PROVE  FaithInv'
<1> DEFINE e == doc[cur]
<1>1. PICK q \in Sorted(r.Tiers) : m' = With(m, svc, [r EXCEPT !.Tiers = q])
  BY DEF EndFields
<1>2. /\ phase = "fields" /\ phase' = "services" /\ left = {}
      /\ UNCHANGED <<doc, todo, models, cur, svcs>>
  BY DEF EndFields
<1>3. FieldsInv /\ ServicesInv /\ TableInv
  BY <1>2, ReadingFacts DEF Loops
<1>4. /\ r.Base = Published(e, svc) /\ r.litellmProvider = e.litellm_provider
      /\ r.Fast = FastOf(e.entry, {}) /\ r.Geo = Factors(e.entry, {"fast"})
      /\ r.RegionalUplift = Factors(e.uplift, {g \in DOMAIN e.uplift : <<"uplift", g>> \in left})
      /\ TiersIn(r) = {OwnContext(e, svc, c) :
                         c \in {c \in SoldContexts(e, svc) : <<"above", c>> \notin left}}
  BY <1>2, <1>3 DEF FieldsInv
<1>5. /\ {g \in DOMAIN e.uplift : <<"uplift", g>> \in left} = {}
      /\ {c \in SoldContexts(e, svc) : <<"above", c>> \notin left} = SoldContexts(e, svc)
  BY <1>2
<1>6. Shaped(r) /\ r.Tiers \in Seq(Tier)
  BY DEF Inv, RatesInv, IsRates
<1>7. {q[i] : i \in DOMAIN q} = {r.Tiers[i] : i \in DOMAIN r.Tiers}
  BY <1>6, SortedKeeps
<1> DEFINE x == [r EXCEPT !.Tiers = q]
<1>8. x = [Base |-> r.Base, Tiers |-> q, Fast |-> r.Fast, Geo |-> r.Geo,
           RegionalUplift |-> r.RegionalUplift, litellmProvider |-> r.litellmProvider]
  BY <1>6, Reshape
<1>9. m' = With(m, svc, x)
  BY <1>1
<1> HIDE DEF x
<1>10. IsOwn(doc, cur, svc, x)
  <2>1. /\ x.Base = r.Base /\ x.Tiers = q /\ x.Fast = r.Fast /\ x.Geo = r.Geo
        /\ x.RegionalUplift = r.RegionalUplift /\ x.litellmProvider = r.litellmProvider
    BY <1>8
  <2>2. TiersIn(x) = TiersIn(r)
    BY <1>7, <2>1 DEF TiersIn
  <2>3. /\ TiersIn(x) = {OwnContext(e, svc, c) : c \in SoldContexts(e, svc)}
        /\ x.RegionalUplift = Factors(e.uplift, {})
    BY <1>4, <1>5, <2>1, <2>2
  <2> QED
    BY <1>4, <2>1, <2>3 DEF IsOwn
<1>11. /\ DOMAIN m' = DOMAIN m \cup {svc}
       /\ \A s \in DOMAIN m' : IF s = svc THEN m'[s] = x ELSE s \in DOMAIN m /\ m'[s] = m[s]
  BY <1>9 DEF With
<1>12. /\ svc \in Sold(doc, cur) \ svcs /\ DOMAIN m = Sold(doc, cur) \ (svcs \cup {svc})
       /\ cur \in SoldModels(doc) /\ \A s \in DOMAIN m : IsOwn(doc, cur, s, m[s])
  BY <1>2, <1>3 DEF ServicesInv, Parsing
<1>13. /\ DOMAIN m' = Sold(doc, cur) \ svcs
       /\ \A s \in DOMAIN m' : IsOwn(doc, cur, s, m'[s])
  BY <1>10, <1>11, <1>12
<1>14. ServicesInv' /\ FieldsInv'
  BY <1>2, <1>12, <1>13 DEF ServicesInv, FieldsInv, Parsing
<1>15. TableInv'
  BY <1>2, <1>3 DEF TableInv, Parsing
<1> QED
  BY <1>14, <1>15 DEF FaithInv

\* Every service tier has been met: the model enters the table as published.
LEMMA EndModelFaith ==
    ASSUME Inv, FaithInv, Plain(doc), EndModel
    PROVE  FaithInv'
<1>1. /\ phase = "services" /\ phase' = "models" /\ models' = With(models, cur, m)
      /\ m' = <<>> /\ svcs = {} /\ UNCHANGED <<doc, todo>> /\ cur \notin todo \cup DOMAIN models
  BY DEF Inv, OnceInv, Parsing, EndModel
<1>2. ServicesInv /\ TableInv
  BY <1>1, ReadingFacts DEF Loops
<1>3. /\ cur \in SoldModels(doc) /\ DOMAIN m = Sold(doc, cur)
      /\ \A s \in DOMAIN m : IsOwn(doc, cur, s, m[s])
  BY <1>1, <1>2 DEF ServicesInv, Parsing
<1>4. /\ DOMAIN models = SoldModels(doc) \ (todo \cup {cur})
      /\ \A key \in DOMAIN models :
            /\ DOMAIN models[key] = Sold(doc, key)
            /\ \A s \in DOMAIN models[key] : IsOwn(doc, key, s, models[key][s])
  BY <1>1, <1>2 DEF TableInv, Parsing
<1>5. /\ DOMAIN models' = DOMAIN models \cup {cur} /\ models'[cur] = m
      /\ \A key \in DOMAIN models : models'[key] = models[key]
  BY <1>1 DEF With
<1>6. /\ DOMAIN models' = SoldModels(doc) \ todo
      /\ \A key \in DOMAIN models' :
            /\ DOMAIN models'[key] = Sold(doc, key)
            /\ \A s \in DOMAIN models'[key] : IsOwn(doc, key, s, models'[key][s])
  BY <1>1, <1>3, <1>4, <1>5
<1>7. DOMAIN m' = {}
  BY <1>1
<1>8. ServicesInv' /\ FieldsInv'
  BY <1>1, <1>7 DEF ServicesInv, FieldsInv, Parsing
<1>9. TableInv'
  BY <1>1, <1>6 DEF TableInv, Parsing
<1> QED
  BY <1>8, <1>9 DEF FaithInv

\* Every model has been met, and every gap is still open.
LEMMA EndModelsFaith ==
    ASSUME Inv, FaithInv, Plain(doc), EndModels
    PROVE  FaithInv'
<1>1. /\ phase = "models" /\ todo = {} /\ UNCHANGED <<doc, models>>
      /\ \/ phase' = "failed"
         \/ phase' = "backfill" /\ todo' = DOMAIN models
  BY DEF EndModels
<1>2. TableInv
  BY <1>1, ReadingFacts DEF Loops
<1>3. CASE phase' = "failed"
  BY <1>3 DEF FaithInv
<1>4. CASE phase' = "backfill" /\ todo' = DOMAIN models
  <2>1. /\ DOMAIN models = SoldModels(doc)
        /\ \A key \in DOMAIN models :
              /\ DOMAIN models[key] = Sold(doc, key)
              /\ \A s \in DOMAIN models[key] : IsOwn(doc, key, s, models[key][s])
    BY <1>1, <1>2 DEF TableInv
  <2>2. ServicesInv' /\ FieldsInv'
    BY <1>4 DEF ServicesInv, FieldsInv, Parsing
  <2>3. TableInv'
    BY <1>1, <1>4, <2>1 DEF TableInv, Parsing
  <2> QED
    BY <2>2, <2>3 DEF FaithInv
<1> QED
  BY <1>1, <1>3, <1>4

\* Every gap has been filled.
LEMMA EndBackfillFaith ==
    ASSUME Inv, FaithInv, Plain(doc), EndBackfill
    PROVE  FaithInv'
<1>1. phase = "backfill" /\ todo = {} /\ phase' = "done" /\ UNCHANGED <<doc, models>>
  BY DEF EndBackfill
<1>2. TableInv
  BY <1>1, ReadingFacts DEF Loops
<1>3. ServicesInv' /\ FieldsInv'
  BY <1>1 DEF ServicesInv, FieldsInv, Parsing
<1>4. TableInv'
  BY <1>1, <1>2 DEF TableInv, Parsing
<1> QED
  BY <1>3, <1>4 DEF FaithInv

\* What has a twin is no twin's twin: a twin's own gaps stay open.
LEMMA TwinHasNoTwin ==
    ASSUME NEW d \in Docs \ {Nil}, NEW key \in DOMAIN d, azureOpenAITwin(key) # <<>>, NEW s
    PROVE  Lenders(d, azureOpenAITwin(key), s) = {}
<1>1. key \in Seq(STRING)
  BY DocAssumption
<1>2. azureOpenAITwin(key) = <<key[Len(key)]>>
  BY DEF azureOpenAITwin
<1>3. Len(azureOpenAITwin(key)) = 1
  BY <1>2
<1>4. azureOpenAITwin(azureOpenAITwin(key)) = <<>>
  BY <1>3 DEF azureOpenAITwin
<1> HIDE DEF azureOpenAITwin
<1> QED
  BY <1>4 DEF Lenders

\* The gaps of one model are filled, or it has no twin to fill them.
LEMMA BackfillFaith ==
    ASSUME Inv, FaithInv, Plain(doc), NEW key \in todo, Backfill(key)
    PROVE  FaithInv'
<1> DEFINE t == azureOpenAITwin(key)
<1>1. /\ phase = "backfill" /\ phase' = "backfill" /\ todo' = todo \ {key} /\ doc' = doc
      /\ DOMAIN models' = DOMAIN models /\ key \in DOMAIN models
      /\ \A k \in DOMAIN models : DOMAIN models'[k] = DOMAIN models[k]
  <2>1. phase = "backfill" /\ todo' = todo \ {key} /\ UNCHANGED <<phase, doc>>
    BY DEF Backfill
  <2>2. key \in DOMAIN models
    BY <2>1 DEF Inv, OnceInv
  <2> QED
    BY <2>1, <2>2, BackfillStep
<1>2. doc \in Docs \ {Nil} /\ TableInv
  BY <1>1, ReadingFacts DEF Loops
<1>3. /\ DOMAIN models = SoldModels(doc)
      /\ \A k \in DOMAIN models :
            /\ DOMAIN models[k] = Sold(doc, k)
            /\ \A s \in DOMAIN models[k] :
                  IF k \notin todo THEN IsFilled(doc, k, s, models[k][s])
                                   ELSE IsOwn(doc, k, s, models[k][s])
  BY <1>1, <1>2 DEF TableInv
<1>4. \A k \in DOMAIN models : k \in DOMAIN doc /\ "standard" \in Sold(doc, k) /\ doc[k] # Nil
  BY <1>3 DEF SoldModels, Sold
<1>5. \A k \in DOMAIN models :
         models[k]["standard"].litellmProvider = doc[k].litellm_provider
  BY <1>3, <1>4 DEF IsOwn, IsFilled, HasRates
<1>6. HasTwin(key) <=> /\ OwnedByAzure(doc[key].litellm_provider) /\ t # <<>>
                       /\ t \in SoldModels(doc) /\ OwnedByOpenAI(doc[t].litellm_provider)
  BY <1>1, <1>3, <1>5 DEF HasTwin
<1>7. /\ ~ HasTwin(key) => models' = models
      /\ HasTwin(key) =>
           models' = [models EXCEPT ![key] =
                        [s \in DOMAIN models[key] |->
                           IF s \in DOMAIN models[t]
                           THEN backfillRates(models[key][s], models[t][s])
                           ELSE models[key][s]]]
  BY DEF Backfill
<1>8. ASSUME NEW k \in DOMAIN models, k # key
      PROVE  models'[k] = models[k]
  BY <1>7, <1>8
<1>9. ASSUME NEW s \in DOMAIN models[key]
      PROVE  models'[key][s] = IF HasTwin(key) /\ s \in DOMAIN models[t]
                               THEN backfillRates(models[key][s], models[t][s])
                               ELSE models[key][s]
  BY <1>1, <1>7
<1> HIDE DEF t
<1>10. ASSUME NEW s \in DOMAIN models[key]
       PROVE  IsFilled(doc, key, s, models'[key][s])
  <2>1. IsOwn(doc, key, s, models[key][s]) /\ s \in ServiceTiers
    BY <1>1, <1>3 DEF Sold
  <2>2. Settled(doc, models[key][s])
    BY <1>1 DEF Inv, MapsInv
  <2>3. CASE HasTwin(key) /\ s \in DOMAIN models[t]
    <3>1. t # <<>> /\ t \in SoldModels(doc) /\ t \in DOMAIN models /\ t \in DOMAIN doc /\ doc[t] # Nil
      BY <1>3, <1>4, <1>6, <2>3
    <3>2. Lenders(doc, key, s) = {t}
      BY <1>3, <1>6, <2>3, <3>1 DEF Lenders, t
    <3>3. Lenders(doc, t, s) = {}
      BY <1>1, <1>2, <1>4, <3>1, TwinHasNoTwin DEF t
    <3>4. IsOwn(doc, t, s, models[t][s])
      BY <1>3, <2>3, <3>1, <3>3, OwnIsFilled
    <3>5. Settled(doc, models[t][s])
      BY <2>3, <3>1 DEF Inv, MapsInv
    <3>6. IsFilled(doc, key, s, backfillRates(models[key][s], models[t][s]))
      BY <1>1, <1>2, <1>4, <2>1, <2>2, <3>1, <3>2, <3>4, <3>5, BackfillFills DEF Settled
    <3> QED
      BY <1>9, <2>3, <3>6
  <2>4. CASE ~ (HasTwin(key) /\ s \in DOMAIN models[t])
    <3>1. Lenders(doc, key, s) = {}
      BY <1>3, <1>6, <2>4 DEF Lenders, t
    <3>2. IsFilled(doc, key, s, models[key][s])
      BY <2>1, <3>1, OwnIsFilled
    <3> QED
      BY <1>9, <2>4, <3>2
  <2> QED
    BY <2>3, <2>4
<1>11. TableInv'
  <2>1. \A k \in DOMAIN models' :
           /\ DOMAIN models'[k] = Sold(doc, k)
           /\ \A s \in DOMAIN models'[k] :
                 IF k \notin todo' THEN IsFilled(doc, k, s, models'[k][s])
                                   ELSE IsOwn(doc, k, s, models'[k][s])
    <3> SUFFICES ASSUME NEW k \in DOMAIN models
                 PROVE  /\ DOMAIN models'[k] = Sold(doc, k)
                        /\ \A s \in DOMAIN models'[k] :
                              IF k \notin todo' THEN IsFilled(doc, k, s, models'[k][s])
                                                ELSE IsOwn(doc, k, s, models'[k][s])
      BY <1>1
    <3>1. CASE k = key
      BY <1>1, <1>3, <1>10, <3>1
    <3>2. CASE k # key
      <4>1. models'[k] = models[k] /\ (k \in todo' <=> k \in todo)
        BY <1>1, <1>8, <3>2
      <4> QED
        BY <1>3, <4>1
    <3> QED
      BY <3>1, <3>2
  <2> QED
    BY <1>1, <1>3, <2>1 DEF TableInv, Parsing
<1>12. ServicesInv' /\ FieldsInv'
  BY <1>1 DEF ServicesInv, FieldsInv, Parsing
<1> QED
  BY <1>11, <1>12 DEF FaithInv

\* Nothing happens.
LEMMA StutterFaith == ASSUME FaithInv, UNCHANGED vars PROVE FaithInv'
<1>1. UNCHANGED <<phase, doc, todo, models, cur, m, svcs, svc, left, r>>
  BY DEF vars, locals
<1>2. FieldsInv' <=> FieldsInv
  BY <1>1 DEF FieldsInv
<1>3. ServicesInv' <=> ServicesInv
  BY <1>1 DEF ServicesInv
<1>4. TableInv' <=> TableInv
  BY <1>1 DEF TableInv
<1> QED
  BY <1>1, <1>2, <1>3, <1>4 DEF FaithInv

\* Where no context leans on the base rates of a twin without it, nothing that
\* the backfill leaves out of a context is a rate its base has.
LEMMA FilledIsSettled ==
    ASSUME NEW d, TwinsMatch(d), NEW key \in SoldModels(d), NEW s \in Sold(d, key),
           NEW c \in SoldContexts(d[key], s)
    PROVE  SettledContext(d, key, s, c) = FilledContext(d, key, s, c)
<1> DEFINE filled == FilledRates(d, key, s, c)
           lent(x) == UNION {{PublishedIn(d[t], b, s)[x] :
                            b \in {b \in SoldContexts(d[t], s) : Tokens(b) = Tokens(c)}} :
                         t \in Lenders(d, key, s)}
<1>1. \A x \in Parts : filled[x] = OwnOrLent(PublishedIn(d[key], c, s)[x], lent(x))
  BY DEF FilledRates
<1>2. \A x : \A z : z \in lent(x) <=>
         \E t \in Lenders(d, key, s) : \E b \in SoldContexts(d[t], s) :
            Tokens(b) = Tokens(c) /\ z = PublishedIn(d[t], b, s)[x]
  OBVIOUS
<1>3. filled = [x \in Parts |-> filled[x]]
  BY DEF FilledRates
<1> HIDE DEF filled, lent
<1>4. ASSUME NEW x \in Parts, filled[x] = Nil PROVE SettledBase(d, key, s)[x] = Nil
  <2>1. PublishedIn(d[key], c, s)[x] = Nil
    BY <1>1, <1>4 DEF OwnOrLent
  <2>2. Published(d[key], s)[x] = Nil
    BY <2>1 DEF Published, PublishedIn
  <2>3. ASSUME NEW t \in Lenders(d, key, s), Published(d[t], s)[x] # Nil PROVE FALSE
    <3>1. PICK b \in SoldContexts(d[t], s) : Tokens(b) = Tokens(c)
      BY <2>1, <2>3 DEF TwinsMatch
    <3>2. PublishedIn(d[t], b, s)[x] \in lent(x)
      BY <1>2, <3>1
    <3>3. filled[x] \in lent(x)
      BY <1>1, <2>1, <3>2 DEF OwnOrLent
    <3>4. PICK z \in Lenders(d, key, s) : \E a \in SoldContexts(d[z], s) :
             Nil = PublishedIn(d[z], a, s)[x]
      BY <1>2, <1>4, <3>3
    <3>5. z = t
      BY DEF Lenders
    <3> QED BY <2>3, <3>4, <3>5 DEF Published, PublishedIn
  <2>4. \A z \in {Published(d[t], s)[x] : t \in Lenders(d, key, s)} : z = Nil
    BY <2>3
  <2>5. SettledBase(d, key, s)[x]
          = OwnOrLent(Nil, {Published(d[t], s)[x] : t \in Lenders(d, key, s)})
    BY <2>2 DEF SettledBase
  <2> QED BY <2>4, <2>5 DEF OwnOrLent
<1>5. \A x \in Parts : (IF filled[x] # Nil THEN filled[x] ELSE SettledBase(d, key, s)[x]) = filled[x]
  BY <1>4
<1>6. [x \in Parts |-> IF filled[x] # Nil THEN filled[x] ELSE SettledBase(d, key, s)[x]]
        = [x \in Parts |-> filled[x]]
  BY <1>5, Zenon
<1> QED BY <1>3, <1>6 DEF SettledContext, FilledContext, filled

\* Every order of every loop of Parse gives the table that the price map
\* publishes, whatever the price map, as long as it spells no name or threshold
\* in two ways or beyond int64 and no context leans on the base rates of a twin
\* without that context.
THEOREM TableIsAsPublished == Spec => []ReadsAsPublished
<1>1. Init => FaithInv
  BY InitFaith
<1>2. Inv /\ FaithInv /\ [Next]_vars => FaithInv'
  <2> SUFFICES ASSUME Inv, FaithInv, [Next]_vars
               PROVE  FaithInv'
    OBVIOUS
  <2>1. ASSUME NEW d \in Docs, Parse(d) PROVE FaithInv'
    BY <2>1, ParseFaith
  <2>2. CASE UNCHANGED vars
    BY <2>2, StutterFaith
  <2>3. ASSUME Step, doc' = doc, Plain(doc) PROVE FaithInv'
    <3>1. ASSUME NEW key \in todo, ParseModel(key) PROVE FaithInv'
      BY <2>3, <3>1, ParseModelFaith
    <3>2. ASSUME NEW key \in todo, Backfill(key) PROVE FaithInv'
      BY <2>3, <3>2, BackfillFaith
    <3>3. ASSUME NEW s \in svcs, Service(s) PROVE FaithInv'
      BY <2>3, <3>3, ServiceFaith
    <3>4. CASE EndModel
      BY <2>3, <3>4, EndModelFaith
    <3>5. CASE EndModels
      BY <2>3, <3>5, EndModelsFaith
    <3>6. CASE EndEntries
      BY <2>3, <3>6, EndEntriesFaith
    <3>7. CASE EndFields
      BY <2>3, <3>7, EndFieldsFaith
    <3>8. CASE EndBackfill
      BY <2>3, <3>8, EndBackfillFaith
    <3>9. ASSUME phase = "entries", NEW g \in left, Entry(g) PROVE FaithInv'
      BY <2>3, <3>9, EntryFaith
    <3>10. ASSUME phase = "fields", NEW g \in DOMAIN doc[cur].uplift, Uplift(g) PROVE FaithInv'
      BY <2>3, <3>10, UpliftFaith
    <3>11. ASSUME phase = "fields", NEW ctx \in Contexts(doc[cur], svc), Context(ctx)
           PROVE  FaithInv'
      BY <2>3, <3>11, ContextFaith
    <3> QED
      BY <2>3, <3>1, <3>2, <3>3, <3>4, <3>5, <3>6, <3>7, <3>8, <3>9, <3>10, <3>11 DEF Step
  <2>4. Step => doc' = doc
    BY DEF Step, ParseModel, Backfill, Service, EndModel, EndModels, EndEntries, EndFields,
           EndBackfill, Entry, Uplift, Context
  <2>5. ASSUME doc' = doc, ~ Plain(doc) PROVE FaithInv'
    BY <2>5 DEF FaithInv
  <2> QED
    BY <2>1, <2>2, <2>3, <2>4, <2>5 DEF Next
<1>3. FaithInv => ReadsAsPublished
  <2> SUFFICES ASSUME FaithInv, phase = "done", Plain(doc), TwinsMatch(doc)
               PROVE  /\ DOMAIN models = SoldModels(doc)
                      /\ \A key \in DOMAIN models :
                            /\ DOMAIN models[key] = Sold(doc, key)
                            /\ \A s \in DOMAIN models[key] :
                                  IsPublished(doc, key, s, models[key][s])
    BY DEF ReadsAsPublished
  <2>1. /\ DOMAIN models = SoldModels(doc)
        /\ \A key \in DOMAIN models :
              /\ DOMAIN models[key] = Sold(doc, key)
              /\ \A s \in DOMAIN models[key] : IsFilled(doc, key, s, models[key][s])
    BY DEF FaithInv, TableInv
  <2>2. ASSUME NEW key \in DOMAIN models, NEW s \in DOMAIN models[key]
        PROVE  IsPublished(doc, key, s, models[key][s])
    <3>1. {SettledContext(doc, key, s, c) : c \in SoldContexts(doc[key], s)}
            = {FilledContext(doc, key, s, c) : c \in SoldContexts(doc[key], s)}
      BY <2>1, FilledIsSettled
    <3> QED BY <2>1, <3>1 DEF IsFilled, IsPublished
  <2> QED BY <2>1, <2>2
<1> QED
  BY <1>1, <1>2, <1>3, Invariance, PTL DEF Spec
=============================================================================
