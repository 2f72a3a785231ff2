------------------------------ MODULE Billing ------------------------------
(***************************************************************************)
(* What Table.Cost promises, without saying how it is computed: the doc    *)
(* comments of Cost, ClaudeUsage, OpenAIUsage, FireworksUsage, Tier and    *)
(* Config read as one relation, Due, between a request and its reply.      *)
(* Counts are mathematical integers here and the price is characterised,   *)
(* not computed.  A usage with a documented sum that no int64 can hold     *)
(* (~Countable) is outside the promise, and any reply is allowed.          *)
(***************************************************************************)
EXTENDS Rates

CONSTANTS Snapshots,  \* the price maps NewFrom may be given; Nil for none
          Configs,    \* the Configs it may be given
          Models,     \* the model names callers ask for
          Usages      \* the usages they report

VARIABLES phase,      \* "new", "ready" or "rejected" (NewFrom panicked)
          table,      \* the Table built
          call,       \* the request being priced, or priced last
          reply       \* its reply

vars == <<phase, table, call, reply>>

NoTable == [models |-> <<>>, aliases |-> <<>>, overrides |-> <<>>]
NoCall == [model |-> "", usage |-> [kind |-> "fireworks", InputTokens |-> 0,
                                    CachedTokens |-> 0, OutputTokens |-> 0]]
Reply(kind, nls) == [kind |-> kind, nls |-> nls]

\* A config NewFrom accepts: aliases that lead in one step to a model that is
\* for sale or overridden, and overrides as sound as a snapshot entry.
Sound(snap, cfg) ==
    /\ snap # Nil
    /\ \A a \in DOMAIN cfg.Aliases :
          /\ cfg.Aliases[a] # ""
          /\ cfg.Aliases[a] \notin DOMAIN cfg.Aliases
          /\ cfg.Aliases[a] \in DOMAIN snap \cup DOMAIN cfg.Overrides
    /\ \A m \in DOMAIN cfg.Overrides :
          cfg.Overrides[m] # Nil => ValidRates(cfg.Overrides[m])

----------------------------------------------------------------------------
(* The reading of a usage.                                                 *)

Impossible(u) ==
    CASE u.kind = "claude" ->
           \/ u.InputTokens < 0 \/ u.CacheReadInputTokens < 0 \/ u.CacheCreationInputTokens < 0
           \/ u.CacheCreation1hInputTokens < 0 \/ u.OutputTokens < 0
           \/ u.CacheCreation1hInputTokens > u.CacheCreationInputTokens
      [] u.kind = "openai" ->
           \/ u.InputTokens < 0 \/ u.CachedInputTokens < 0 \/ u.CacheWriteTokens < 0
           \/ u.OutputTokens < 0
           \/ u.CachedInputTokens + u.CacheWriteTokens > u.InputTokens
      [] u.kind = "fireworks" ->
           \/ u.InputTokens < 0 \/ u.CachedTokens < 0 \/ u.OutputTokens < 0
           \/ u.CachedTokens > u.InputTokens

\* The total prompt size, on which context-window tiers are decided.
Prompt(u) ==
    IF u.kind = "claude"
    THEN u.InputTokens + u.CacheReadInputTokens + u.CacheCreationInputTokens
    ELSE u.InputTokens

\* Every sum the documents speak of is an int64.
Countable(u) ==
    /\ Prompt(u) <= MaxInt
    /\ u.kind = "openai" => u.CachedInputTokens + u.CacheWriteTokens <= MaxInt

\* The tokens billed as each component.
Billed(u, c) ==
    CASE c = "input" /\ u.kind = "claude" -> u.InputTokens
      [] c = "input" /\ u.kind = "openai" ->
           u.InputTokens - (u.CachedInputTokens + u.CacheWriteTokens)
      [] c = "input" /\ u.kind = "fireworks" -> u.InputTokens - u.CachedTokens
      [] c = "cacheRead" /\ u.kind = "claude" -> u.CacheReadInputTokens
      [] c = "cacheRead" /\ u.kind = "openai" -> u.CachedInputTokens
      [] c = "cacheRead" /\ u.kind = "fireworks" -> u.CachedTokens
      [] c = "cacheCreation" /\ u.kind = "claude" ->
           u.CacheCreationInputTokens - u.CacheCreation1hInputTokens
      [] c = "cacheCreation" /\ u.kind = "openai" -> u.CacheWriteTokens
      [] c = "cacheCreation1h" /\ u.kind = "claude" -> u.CacheCreation1hInputTokens
      [] c = "output" -> u.OutputTokens
      [] OTHER -> 0

\* The service tier a usage names; "" is the ordinary one.
Named(u) == IF u.kind # "openai" \/ u.ServiceTier = "" THEN "standard" ELSE u.ServiceTier

\* The factor a price mode puts on a component, in units of 1/MultUnit.
FastFactor(u, r, c) ==
    IF u.kind = "claude" /\ u.Speed = "fast" /\ c \in TokenParts THEN r.Fast ELSE MultUnit
RegionFactor(u, r) ==
    IF Pinned(u) THEN r.Geo[Lower(u.InferenceGeo)]
    ELSE IF Uplifted(u, r) THEN r.RegionalUplift[Lower(u.DataResidency)]
    ELSE MultUnit

----------------------------------------------------------------------------
(* The price list and the price.                                           *)

\* The pricing key a model name stands for.
Meant(tab, model) ==
    IF model \in DOMAIN tab.aliases THEN tab.aliases[model] ELSE model

\* A key is for sale at a service tier, and at which rates: an override
\* hides the snapshot's entry at every tier and sells at standard alone.
ForSale(tab, key, s) ==
    \/ key \in DOMAIN tab.overrides /\ tab.overrides[key] # Nil /\ s = "standard"
    \/ /\ key \in DOMAIN tab.models \ DOMAIN tab.overrides
       /\ s \in DOMAIN tab.models[key]
ListPrice(tab, key, s) ==
    IF key \in DOMAIN tab.overrides THEN tab.overrides[key] ELSE tab.models[key][s]

\* t are the rates the ENTIRE request bills at: those of the highest
\* threshold the prompt strictly exceeds, the base rates below them all.
Governs(r, prompt, t) ==
    \/ /\ \A i \in DOMAIN r.Tiers : prompt <= r.Tiers[i].AbovePromptTokens
       /\ t = r.Base
    \/ \E i \in DOMAIN r.Tiers :
          /\ r.Tiers[i].AbovePromptTokens < prompt
          /\ \A j \in DOMAIN r.Tiers :
                r.Tiers[j].AbovePromptTokens < prompt =>
                   r.Tiers[j].AbovePromptTokens <= r.Tiers[i].AbovePromptTokens
          /\ t = r.Tiers[i].TierRates

Unpriced(u, t) == \E c \in Parts : Billed(u, c) > 0 /\ t[c] = Nil

Charge(u, r, t, c) ==
    IF Billed(u, c) = 0 THEN 0
    ELSE t[c] * Billed(u, c) * (FastFactor(u, r, c) * RegionFactor(u, r))

Total(u, r, t) ==
    Charge(u, r, t, "input") + Charge(u, r, t, "cacheRead") + Charge(u, r, t, "cacheCreation")
      + Charge(u, r, t, "cacheCreation1h") + Charge(u, r, t, "output")

\* nls is the least number of whole nls that covers the total.
Covers(nls, total) == (nls - 1) * Quantum < total /\ total <= nls * Quantum

\* The reply a listed price leads to.
PricedAt(u, r, a) ==
    \E t \in {r.Base} \cup {r.Tiers[i].TierRates : i \in DOMAIN r.Tiers} :
       /\ Governs(r, Prompt(u), t)
       /\ \/ Unpriced(u, t) /\ a = Reply("refused", 0)
          \/ /\ ~ Unpriced(u, t)
             /\ \/ /\ a.kind = "ok" /\ a.nls \in 0 .. MaxInt
                   /\ Covers(a.nls, Total(u, r, t))
                \/ Total(u, r, t) > MaxInt * Quantum /\ a = Reply("panic", 0)

\* a is a reply the documents allow to a request.
Due(tab, model, u, a) ==
    LET key == Meant(tab, model)
        s == Named(u)
        r == ListPrice(tab, key, s)
    IN \/ ~ Countable(u)
       \/ Impossible(u) /\ a = Reply("panic", 0)
       \/ ~ Impossible(u) /\ IF s \in ServiceTiers /\ ForSale(tab, key, s) /\ PremiumOk(u, r)
                             THEN PricedAt(u, r, a)
                             ELSE a = Reply("refused", 0)

----------------------------------------------------------------------------
Init == /\ phase = "new"
        /\ table = NoTable
        /\ call = NoCall
        /\ reply = Reply("idle", 0)

Configure(snap, cfg) ==
    /\ phase = "new"
    /\ IF Sound(snap, cfg)
       THEN /\ phase' = "ready"
            /\ table' = [models |-> snap, aliases |-> cfg.Aliases, overrides |-> cfg.Overrides]
       ELSE phase' = "rejected" /\ UNCHANGED table
    /\ UNCHANGED <<call, reply>>

Ask(m, u) == /\ phase = "ready" /\ reply.kind = "idle"
             /\ call' = [model |-> m, usage |-> u]
             /\ reply' = Reply("pending", 0)
             /\ UNCHANGED <<phase, table>>

Answer == /\ phase = "ready" /\ reply.kind = "pending"
          /\ reply'.kind \in {"ok", "refused", "panic"}
          /\ Due(table, call.model, call.usage, reply')
          /\ UNCHANGED <<phase, table, call>>

Continue == /\ reply.kind \in {"ok", "refused", "panic"}
            /\ call' = NoCall
            /\ reply' = Reply("idle", 0)
            /\ UNCHANGED <<phase, table>>

Next == \/ \E snap \in Snapshots, cfg \in Configs : Configure(snap, cfg)
        \/ \E m \in Models, u \in Usages : Ask(m, u)
        \/ Answer
        \/ Continue

Spec == Init /\ [][Next]_vars
=============================================================================
