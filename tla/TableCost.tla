----------------------------- MODULE TableCost -----------------------------
(***************************************************************************)
(* table.go and the calculator of llmcost.go as they run: NewFrom builds a *)
(* Table or panics, and Table.Cost prices one request after another.       *)
(* The locals of Cost and cost are variables and pc says which statement   *)
(* comes next; package-level Cost is the same code over a Table with no    *)
(* aliases and no overrides.  The actions follow the order of the code,    *)
(* which decides what a request with several defects gets: a panic on its  *)
(* counts comes before any lookup, a refusal before any arithmetic.        *)
(***************************************************************************)
EXTENDS Rates

CONSTANTS Snapshots, Configs, Models, Usages

\* Every snapshot comes from Parse (or is nil), and its entries are as sound
\* as TestTableInvariants finds the embedded ones.
ASSUME SnapshotAssumption ==
    \A snap \in Snapshots \ {Nil} : \A m \in DOMAIN snap :
       \A s \in DOMAIN snap[m] : IsRates(snap[m][s]) /\ ValidRates(snap[m][s])
ASSUME ConfigAssumption ==
    \A cfg \in Configs : \A m \in DOMAIN cfg.Overrides :
       cfg.Overrides[m] # Nil => IsRates(cfg.Overrides[m])
ASSUME UsageAssumption == Usages \subseteq Usage

VARIABLES pc,      \* the next statement
          table,   \* the Table
          call,    \* the arguments of Table.Cost
          c,       \* components
          r,       \* Rates of the model at the service tier of the usage
          p,       \* premium
          at,      \* tiers still to be scanned, from the highest threshold down
          t,       \* TierRates the request bills at
          next,    \* the part the summing loop is at
          total,   \* quanta summed so far
          reply    \* what Cost returned, or that it panicked

locals == <<c, r, p, at, t, next, total>>
vars == <<pc, table, call, locals, reply>>

B == INSTANCE Billing WITH
        phase <- IF pc \in {"new", "rejected"} THEN pc ELSE "ready"

Reply(kind, nls) == [kind |-> kind, nls |-> nls]
NoComponents == [x \in Parts |-> 0]
NoRates == [Base |-> [x \in Parts |-> Nil], Tiers |-> <<>>, Fast |-> Nil,
            Geo |-> <<>>, RegionalUplift |-> <<>>]

InitLocals == /\ c = NoComponents
              /\ r = NoRates
              /\ p = [tokens |-> Unscaled, cache |-> Unscaled]
              /\ at = 0
              /\ t = NoRates.Base
              /\ next = 1
              /\ total = 0

Init == /\ pc = "new"
        /\ table = B!NoTable
        /\ call = B!NoCall
        /\ InitLocals
        /\ reply = Reply("idle", 0)

----------------------------------------------------------------------------
(* Construction.                                                           *)

\* Faulty variant: a threshold is not compared with the one before it.
PositiveThresholds(tiers) == \A i \in DOMAIN tiers : tiers[i].AbovePromptTokens > 0

\* Thresholds are positive and each exceeds the one before it.
AscendingThresholds(tiers) ==
    \A i \in DOMAIN tiers :
       /\ tiers[i].AbovePromptTokens > 0
       /\ i > 1 => tiers[i].AbovePromptTokens > tiers[i - 1].AbovePromptTokens

\* validateOverrideRates does not panic.
validateOverrideRates(x) ==
    /\ priceable(x.Base)
    /\ AscendingThresholds(x.Tiers)
    /\ \A i \in DOMAIN x.Tiers : priceable(x.Tiers[i].TierRates)
    /\ x.Fast # Nil => x.Fast > 0
    /\ \A g \in DOMAIN x.Geo : x.Geo[g] # Nil /\ x.Geo[g] > 0
    /\ \A g \in DOMAIN x.RegionalUplift : x.RegionalUplift[g] # Nil /\ x.RegionalUplift[g] > 0

Malformed(snap, cfg) ==
    \/ snap = Nil
    \/ \E k \in DOMAIN cfg.Aliases :
          LET v == cfg.Aliases[k]
          IN \/ v = ""
             \/ v \in DOMAIN cfg.Aliases
             \/ v \notin DOMAIN snap /\ v \notin DOMAIN cfg.Overrides
    \/ \E m \in DOMAIN cfg.Overrides :
          cfg.Overrides[m] # Nil /\ ~ validateOverrideRates(cfg.Overrides[m])

NewFrom(snap, cfg) ==
    /\ pc = "new"
    /\ IF Malformed(snap, cfg)
       THEN pc' = "rejected" /\ UNCHANGED table
       ELSE /\ table' = [models |-> snap, aliases |-> cfg.Aliases, overrides |-> cfg.Overrides]
            /\ pc' = "idle"
    /\ UNCHANGED <<call, locals, reply>>

----------------------------------------------------------------------------
(* Table.Cost.                                                             *)

\* The caller: one request at a time.
Cost(model, u) ==
    /\ pc = "idle"
    /\ call' = [model |-> model, usage |-> u]
    /\ reply' = Reply("pending", 0)
    /\ pc' = "disjoint"
    /\ UNCHANGED <<table, locals>>

\* Cost returns, or panics, and its locals are gone.
Return(kind, nls) ==
    /\ reply' = Reply(kind, nls)
    /\ pc' = "returned"
    /\ c' = NoComponents /\ r' = NoRates /\ t' = NoRates.Base
    /\ p' = [tokens |-> Unscaled, cache |-> Unscaled]
    /\ at' = 0 /\ next' = 1 /\ total' = 0
    /\ UNCHANGED <<table, call>>

Refuse == Return("refused", 0)

\* The caller goes on with the reply.
Continue == /\ pc = "returned"
            /\ pc' = "idle"
            /\ call' = B!NoCall
            /\ reply' = Reply("idle", 0)
            /\ UNCHANGED <<table, locals>>

Disjoint ==
    /\ pc = "disjoint"
    /\ IF Panics(call.usage)
       THEN Return("panic", 0)
       ELSE /\ c' = disjoint(call.usage)
            /\ pc' = "rates"
            /\ UNCHANGED <<table, call, r, p, at, t, next, total, reply>>

resolve(model) ==
    IF model \in DOMAIN table.aliases THEN table.aliases[model] ELSE model

\* Table.rates: whether it finds rates for a resolved model, and which.
Found(model, s) ==
    IF model \in DOMAIN table.overrides
    THEN table.overrides[model] # Nil /\ s = "standard"
    ELSE model \in DOMAIN table.models /\ s \in DOMAIN table.models[model]
rates(model, s) ==
    IF model \in DOMAIN table.overrides THEN table.overrides[model]
    ELSE table.models[model][s]

\* The service tier, then the lookup.
LookUp ==
    /\ pc = "rates"
    /\ LET model == resolve(call.model)
           s == tier(call.usage)
       IN IF TierOk(call.usage) /\ Found(model, s)
          THEN /\ r' = rates(model, s)
               /\ pc' = "premium"
               /\ UNCHANGED <<table, call, c, p, at, t, next, total, reply>>
          ELSE Refuse

Premium ==
    /\ pc = "premium"
    /\ IF PremiumOk(call.usage, r)
       THEN /\ p' = premium(call.usage, r)
            /\ at' = Len(r.Tiers)
            /\ pc' = "tier"
            /\ UNCHANGED <<table, call, c, r, t, next, total, reply>>
       ELSE Refuse

----------------------------------------------------------------------------
(* cost: Rates.tier scans backward, then the parts are summed.             *)

\* Faulty variant: a threshold is reached, not exceeded.
Reaches(i) == promptTokens(c) >= r.Tiers[i].AbovePromptTokens

Exceeds(i) == promptTokens(c) > r.Tiers[i].AbovePromptTokens

ScanTier ==
    /\ pc = "tier"
    /\ at > 0 /\ ~ Exceeds(at)
    /\ at' = at - 1
    /\ UNCHANGED <<pc, table, call, c, r, p, t, next, total, reply>>

PickTier ==
    /\ pc = "tier"
    /\ at > 0 => Exceeds(at)
    /\ t' = IF at = 0 THEN r.Base ELSE r.Tiers[at].TierRates
    /\ pc' = "sum"
    /\ UNCHANGED <<table, call, c, r, p, at, next, total, reply>>

\* The exact charge of a part.
usd(x) == t[x] * c[x] * factor(p, x)

SumPart ==
    /\ pc = "sum" /\ next <= Len(Part)
    /\ IF c[Part[next]] # 0 /\ t[Part[next]] = Nil
       THEN Refuse
       ELSE /\ total' = IF c[Part[next]] = 0 THEN total ELSE total + usd(Part[next])
            /\ next' = next + 1
            /\ UNCHANGED <<pc, table, call, c, r, p, at, t, reply>>

\* Faulty variant: the total is taken to fit an int64.
RoundUnchecked == pc = "sum" /\ next > Len(Part) /\ Return("ok", ceilNls(total))

Round ==
    /\ pc = "sum" /\ next > Len(Part)
    /\ IF ceilNls(total) \in Int64 THEN Return("ok", ceilNls(total))
                                   ELSE Return("panic", 0)

Step == Disjoint \/ LookUp \/ Premium \/ ScanTier \/ PickTier \/ SumPart \/ Round

Next == \/ \E snap \in Snapshots, cfg \in Configs : NewFrom(snap, cfg)
        \/ \E m \in Models, u \in Usages : Cost(m, u)
        \/ Continue
        \/ Step

Spec == Init /\ [][Next]_vars

----------------------------------------------------------------------------
(* Properties.                                                             *)

Statements == {"new", "rejected", "idle", "disjoint", "rates", "premium", "tier", "sum",
               "returned"}

\* The type invariant: the locals of Cost hold what their Go types hold; in
\* particular every token count it works with is an int64.
TypeOK ==
    /\ pc \in Statements
    /\ c \in [Parts -> Int64]
    /\ IsRates(r)
    /\ p \in [tokens: Int, cache: Int]
    /\ at \in 0 .. Len(r.Tiers)
    /\ t \in TierRates
    /\ next \in 1 .. 6
    /\ total \in Int
    /\ reply \in [kind: {"idle", "pending", "ok", "refused", "panic"}, nls: Int64]

\* Cost keeps the promise of its documents: every reply is the one Billing
\* allows, whatever the table, the aliases, the overrides and the usage.
ImplementsBilling == B!Spec

\* No token is billed twice and none is lost: the disjoint components add up
\* to the tokens the response reported, whatever the overlap of its counts.
EveryTokenBilledOnce ==
    pc \in {"rates", "premium", "tier", "sum"} /\ B!Countable(call.usage) =>
       /\ \A x \in Parts : c[x] >= 0
       /\ c["input"] + c["cacheRead"] + c["cacheCreation"] + c["cacheCreation1h"]
            = B!Prompt(call.usage)
       /\ c["output"] = call.usage.OutputTokens

\* No request that used uncached input or output is free, however small its
\* exact cost: rounding is up, after the sum, and no multiplier is zero.
UseIsNeverFree ==
    reply.kind = "ok" /\ B!Countable(call.usage)
      /\ (\E x \in TokenParts : B!Billed(call.usage, x) > 0)
    => reply.nls >= 1

\* "CachedInputTokens and CacheWriteTokens are DISJOINT subsets of
\* InputTokens; their sum exceeding InputTokens is impossible in a real
\* response and panics" (llmcost.go:109-111).
ImpossibleCountsPanic == reply.kind = "ok" => ~ B!Impossible(call.usage)

----------------------------------------------------------------------------
(* The inductive invariant the proofs rest on: how far Cost has come, and  *)
(* what its locals then hold.                                              *)

Computing == {"disjoint", "rates", "premium", "tier", "sum"}

TableInv ==
    /\ \A m \in DOMAIN table.models : \A s \in DOMAIN table.models[m] :
          IsRates(table.models[m][s]) /\ ValidRates(table.models[m][s])
    /\ \A m \in DOMAIN table.overrides : table.overrides[m] # Nil =>
          IsRates(table.overrides[m]) /\ ValidRates(table.overrides[m])

\* The scan and the sum start from fresh locals.
LocalsInv == /\ pc \notin {"tier", "sum"} => at = 0
             /\ pc # "sum" => next = 1 /\ total = 0

DisjointInv ==
    pc \in {"rates", "premium", "tier", "sum"} =>
       ~ Panics(call.usage) /\ c = disjoint(call.usage)

RatesInv ==
    pc \in {"premium", "tier", "sum"} =>
       /\ TierOk(call.usage) /\ Found(resolve(call.model), tier(call.usage))
       /\ r = rates(resolve(call.model), tier(call.usage))
       /\ ValidRates(r)

PremiumInv ==
    pc \in {"tier", "sum"} => PremiumOk(call.usage, r) /\ p = premium(call.usage, r)

\* No threshold already passed over is exceeded; the one chosen is.
ScanInv ==
    /\ pc \in {"tier", "sum"} => \A j \in at + 1 .. Len(r.Tiers) : ~ Exceeds(j)
    /\ pc = "sum" => \/ at = 0 /\ t = r.Base
                     \/ at > 0 /\ Exceeds(at) /\ t = r.Tiers[at].TierRates

Amount(x) == IF c[x] = 0 THEN 0 ELSE usd(x)
Summed(n) == (IF n > 1 THEN Amount("input") ELSE 0)
               + (IF n > 2 THEN Amount("cacheRead") ELSE 0)
               + (IF n > 3 THEN Amount("cacheCreation") ELSE 0)
               + (IF n > 4 THEN Amount("cacheCreation1h") ELSE 0)
               + (IF n > 5 THEN Amount("output") ELSE 0)
SumInv ==
    pc = "sum" =>
       /\ \A k \in 1 .. next - 1 : c[Part[k]] # 0 => t[Part[k]] # Nil
       /\ total = Summed(next)

ReplyInv ==
    /\ pc \in {"new", "rejected", "idle"} => reply.kind = "idle"
    /\ pc \in Computing => reply.kind = "pending"
    /\ pc = "returned" => /\ reply.kind \in {"ok", "refused", "panic"}
                          /\ B!Due(table, call.model, call.usage, reply)

Inv == /\ TypeOK /\ call.usage \in Usage
       /\ TableInv /\ LocalsInv /\ DisjointInv /\ RatesInv /\ PremiumInv /\ ScanInv /\ SumInv /\ ReplyInv
=============================================================================
