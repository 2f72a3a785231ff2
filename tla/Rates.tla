------------------------------- MODULE Rates -------------------------------
(***************************************************************************)
(* The data the calculator of llmcost.go works on: int64 token counts, the *)
(* five billable components, a model's rates and the three raw usage       *)
(* types, with the methods of the sealed Usage interface.                  *)
(*                                                                         *)
(* Money is exact (big.Rat in the code), so it is counted here in integer  *)
(* quanta: a rate is an integer number of 1/RateUnit nls, a multiplier an  *)
(* integer number of 1/MultUnit, and one nls is Quantum quanta.            *)
(***************************************************************************)
EXTENDS Integers, Sequences

CONSTANTS Nil,        \* the nil *big.Rat (and the nil *Rates)
          MaxInt,     \* math.MaxInt64, small in a checked instance
          RateUnit,   \* rate units in one nls
          MultUnit,   \* multiplier units in 1x
          Lower(_)    \* strings.ToLower

ASSUME NilAssumption == Nil \notin Int
ASSUME IntAssumption == MaxInt \in Nat \ {0}
ASSUME UnitAssumption == RateUnit \in Nat \ {0} /\ MultUnit \in Nat \ {0}

Quantum == RateUnit * MultUnit * MultUnit
Unscaled == MultUnit * MultUnit

(***************************************************************************)
(* int64 arithmetic.  One addition of two int64 values leaves the range by *)
(* at most one lap.                                                        *)
(***************************************************************************)
Int64 == -(MaxInt + 1) .. MaxInt

Wrap(n) == IF n > MaxInt THEN n - 2 * (MaxInt + 1)
           ELSE IF n < -(MaxInt + 1) THEN n + 2 * (MaxInt + 1)
           ELSE n

Add(a, b) == Wrap(a + b)
Sub(a, b) == Wrap(a - b)

----------------------------------------------------------------------------
(* Rates.                                                                  *)

\* The components in the order the loop of cost() visits them.
Part == <<"input", "cacheRead", "cacheCreation", "cacheCreation1h", "output">>
Parts == {"input", "cacheRead", "cacheCreation", "cacheCreation1h", "output"}
TokenParts == {"input", "output"}

ServiceTiers == {"standard", "flex", "priority"}

TierRates == [Parts -> Int \cup {Nil}]
Tier == [AbovePromptTokens: Int64, TierRates: TierRates]
Multiplier == Int \cup {Nil}
IsMultiplierMap(f) == \A g \in DOMAIN f : f[g] \in Multiplier
IsRates(r) == /\ r.Base \in TierRates
              /\ r.Tiers \in Seq(Tier)
              /\ r.Fast \in Multiplier
              /\ IsMultiplierMap(r.Geo)
              /\ IsMultiplierMap(r.RegionalUplift)

priceable(t) ==
    /\ \A c \in TokenParts : t[c] # Nil /\ t[c] > 0
    /\ \A c \in Parts \ TokenParts : t[c] # Nil => t[c] >= 0

\* Sound rates, as the doc of NewFrom lists it, and what TestTableInvariants
\* asserts of every snapshot entry: no threshold is as low as an earlier one.
ValidRates(r) ==
    /\ priceable(r.Base)
    /\ \A i \in DOMAIN r.Tiers :
          /\ r.Tiers[i].AbovePromptTokens > 0
          /\ \A j \in 1 .. i - 1 : r.Tiers[j].AbovePromptTokens < r.Tiers[i].AbovePromptTokens
          /\ priceable(r.Tiers[i].TierRates)
    /\ r.Fast # Nil => r.Fast > 0
    /\ \A g \in DOMAIN r.Geo : r.Geo[g] # Nil /\ r.Geo[g] > 0
    /\ \A g \in DOMAIN r.RegionalUplift : r.RegionalUplift[g] # Nil /\ r.RegionalUplift[g] > 0

----------------------------------------------------------------------------
(* Usage: the raw counts of a response, one record type per provider.      *)

ClaudeUsage == [kind: {"claude"}, InputTokens: Int64, CacheReadInputTokens: Int64,
                CacheCreationInputTokens: Int64, CacheCreation1hInputTokens: Int64,
                OutputTokens: Int64, Speed: STRING, InferenceGeo: STRING]
OpenAIUsage == [kind: {"openai"}, InputTokens: Int64, CachedInputTokens: Int64,
                CacheWriteTokens: Int64, OutputTokens: Int64,
                ServiceTier: STRING, DataResidency: STRING]
FireworksUsage == [kind: {"fireworks"}, InputTokens: Int64, CachedTokens: Int64,
                   OutputTokens: Int64]
Usage == ClaudeUsage \cup OpenAIUsage \cup FireworksUsage

\* disjoint() panics.
Panics(u) ==
    \/ /\ u.kind = "claude"
       /\ \/ u.InputTokens < 0 \/ u.CacheReadInputTokens < 0 \/ u.CacheCreationInputTokens < 0
          \/ u.CacheCreation1hInputTokens < 0 \/ u.OutputTokens < 0
          \/ u.CacheCreation1hInputTokens > u.CacheCreationInputTokens
    \/ /\ u.kind = "openai"
       /\ \/ u.InputTokens < 0 \/ u.CachedInputTokens < 0 \/ u.CacheWriteTokens < 0
          \/ u.OutputTokens < 0
          \/ Add(u.CachedInputTokens, u.CacheWriteTokens) > u.InputTokens
    \/ /\ u.kind = "fireworks"
       /\ \/ u.InputTokens < 0 \/ u.CachedTokens < 0 \/ u.OutputTokens < 0
          \/ u.CachedTokens > u.InputTokens

components(input, cacheRead, cacheCreation, cacheCreation1h, output) ==
    [c \in Parts |-> CASE c = "input" -> input
                       [] c = "cacheRead" -> cacheRead
                       [] c = "cacheCreation" -> cacheCreation
                       [] c = "cacheCreation1h" -> cacheCreation1h
                       [] c = "output" -> output]

\* Faulty variant: the cache writes of an OpenAI response stay in its input.
disjointKeepsWrites(u) ==
    IF u.kind = "openai"
    THEN components(Sub(u.InputTokens, u.CachedInputTokens), u.CachedInputTokens,
                    u.CacheWriteTokens, 0, u.OutputTokens)
    ELSE components(u.InputTokens, 0, 0, 0, u.OutputTokens)

\* The components disjoint() returns when it does not panic.
disjoint(u) ==
    CASE u.kind = "claude" ->
           components(u.InputTokens, u.CacheReadInputTokens,
                      Sub(u.CacheCreationInputTokens, u.CacheCreation1hInputTokens),
                      u.CacheCreation1hInputTokens, u.OutputTokens)
      [] u.kind = "openai" ->
           components(Sub(Sub(u.InputTokens, u.CachedInputTokens), u.CacheWriteTokens),
                      u.CachedInputTokens, u.CacheWriteTokens, 0, u.OutputTokens)
      [] u.kind = "fireworks" ->
           components(Sub(u.InputTokens, u.CachedTokens), u.CachedTokens, 0, 0,
                      u.OutputTokens)

promptTokens(c) ==
    Add(Add(Add(c["input"], c["cacheRead"]), c["cacheCreation"]), c["cacheCreation1h"])

\* tier(): the service tier a usage bills at, and whether it names one.
TierOk(u) == u.kind = "openai" => u.ServiceTier \in ServiceTiers \cup {""}
tier(u) == IF u.kind = "openai" /\ u.ServiceTier # "" THEN u.ServiceTier ELSE "standard"

\* premium(): ok unless a Claude response reports a mode r has no factor for.
Pinned(u) == u.kind = "claude" /\ Lower(u.InferenceGeo) \notin {"", "global", "not_available"}
PremiumOk(u, r) ==
    u.kind = "claude" =>
       /\ \/ u.Speed \in {"", "standard"}
          \/ u.Speed = "fast" /\ r.Fast # Nil
       /\ Pinned(u) => Lower(u.InferenceGeo) \in DOMAIN r.Geo

Uplifted(u, r) == u.kind = "openai" /\ Lower(u.DataResidency) \in DOMAIN r.RegionalUplift

\* The multipliers premium() resolves, in units of 1/Unscaled; an unscaled
\* component has the factor Unscaled (nil in the code).
premium(u, r) ==
    LET fast == IF u.kind = "claude" /\ u.Speed = "fast" THEN r.Fast ELSE MultUnit
        geo == IF Pinned(u) THEN r.Geo[Lower(u.InferenceGeo)] ELSE MultUnit
        uplift == IF Uplifted(u, r) THEN r.RegionalUplift[Lower(u.DataResidency)]
                  ELSE MultUnit
    IN [tokens |-> IF u.kind = "claude" THEN fast * geo ELSE uplift * MultUnit,
        cache |-> IF u.kind = "claude" THEN geo * MultUnit ELSE uplift * MultUnit]

factor(p, c) == IF c \in TokenParts THEN p.tokens ELSE p.cache

\* Faulty variant: truncation.
truncateNls(total) == total \div Quantum

\* ceilNls: the whole quanta of a total, rounded up (QuoRem truncates, and a
\* positive remainder adds one; for a negative total truncation rounds up).
ceilNls(total) ==
    (total \div Quantum) + (IF total % Quantum > 0 THEN 1 ELSE 0)
=============================================================================
