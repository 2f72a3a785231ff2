------------------------------ MODULE Snapshot ------------------------------
(***************************************************************************)
(* Parse of llmcost.go as it runs: from LiteLLM's JSON price map to the    *)
(* rates of every model at every service tier, and then the backfill of    *)
(* the Azure entries.  Each loop ranges over a Go map, whose order is any  *)
(* order: the models, the service tiers, the members of                    *)
(* provider_specific_entry, the fields, and the models once more.          *)
(*                                                                         *)
(* A pricing key is the sequence of its segments (azure/us/gpt is          *)
(* <<"azure", "us", "gpt">>).  An entry of the map is a record of          *)
(*   litellm_provider   the string, "" when it is absent or not one        *)
(*   cost               the rate fields, by component, context and service *)
(*                      suffix; Nil is a value that is not a number        *)
(*   entry, uplift      the members of provider_specific_entry, and the    *)
(*                      regional_processing_uplift_multiplier_* fields     *)
(* and Nil when it is not an object.  A context is the _above_200k_tokens  *)
(* of a field, [n |-> 200, k |-> TRUE]; Nil is the field without one.      *)
(***************************************************************************)
EXTENDS Rates

CONSTANTS Docs,  \* the price maps Parse is given; Nil is malformed JSON
          Kilo   \* what the k of a threshold stands for, 1000

ContextName == [n: Nat, k: BOOLEAN]
CostField == [part: Parts, ctx: ContextName \cup {Nil}, svc: ServiceTiers]
IsEntry(e) ==
    /\ e.litellm_provider \in STRING
    /\ DOMAIN e.cost \subseteq CostField
    /\ \A f \in DOMAIN e.cost : e.cost[f] \in Int \cup {Nil}
    /\ IsMultiplierMap(e.entry)
    /\ IsMultiplierMap(e.uplift)

ASSUME KiloAssumption == Kilo \in Nat \ {0}
ASSUME DocAssumption ==
    \A d \in Docs \ {Nil} : \A key \in DOMAIN d :
       key \in Seq(STRING) /\ (d[key] # Nil => IsEntry(d[key]))

VARIABLES phase,   \* "start", the loop Parse is in, "done" or "failed"
          doc,     \* the price map
          todo,    \* the models the current loop over them has yet to meet
          models,  \* model -> service tier -> Rates
          cur,     \* the model parseModel is at
          m,       \* its service tiers so far
          svcs,    \* those it has yet to meet
          svc,     \* the service tier parseTier is at
          left,    \* what the current loop of parseTier has yet to meet
          r        \* its Rates so far

locals == <<cur, m, svcs, svc, left, r>>
vars == <<phase, doc, todo, models, locals>>

NoRate == [x \in Parts |-> Nil]
NoRates == [Base |-> NoRate, Tiers |-> <<>>, Fast |-> Nil, Geo |-> <<>>,
            RegionalUplift |-> <<>>, litellmProvider |-> ""]

Init == /\ phase = "start" /\ doc = <<>> /\ todo = {} /\ models = <<>>
        /\ cur = <<>> /\ m = <<>> /\ svcs = {} /\ svc = "standard" /\ left = {} /\ r = NoRates

With(f, k, v) == [x \in DOMAIN f \cup {k} |-> IF x = k THEN v ELSE f[x]]

----------------------------------------------------------------------------
(* Reading an entry.                                                       *)

ratField(e, part, ctx, s) ==
    LET f == [part |-> part, ctx |-> ctx, svc |-> s]
    IN IF f \in DOMAIN e.cost THEN e.cost[f] ELSE Nil

\* Faulty variant: a context inherits the ordinary rates of its model.
ratesOfStandard(e, ctx, s, base) ==
    [x \in Parts |-> IF ratField(e, x, ctx, s) # Nil THEN ratField(e, x, ctx, s)
                     ELSE IF ctx = Nil THEN base[x]
                     ELSE ratField(e, x, Nil, "standard")]

\* The rates of a context at a service tier: its own fields, else base.
rates(e, ctx, s, base) ==
    [x \in Parts |-> IF ratField(e, x, ctx, s) # Nil THEN ratField(e, x, ctx, s) ELSE base[x]]
BaseRates(e, s) == rates(e, Nil, s, NoRate)
ContextRates(e, ctx, s) == rates(e, ctx, s, BaseRates(e, s))

\* The fields tierKey matches with the suffix of service tier s.
Contexts(e, s) ==
    {f.ctx : f \in {g \in DOMAIN e.cost : g.part = "input" /\ g.ctx # Nil /\ g.svc = s}}

\* int64 multiplication, of which any number of laps may be lost.
Mul(a, b) == ((a * b + MaxInt + 1) % (2 * (MaxInt + 1))) - (MaxInt + 1)

\* ParseInt fails beyond int64, and a threshold that is not positive is
\* skipped, before the k is applied.
Legible(ctx) == ctx.n \in 1 .. MaxInt
Threshold(ctx) == IF ctx.k THEN Mul(ctx.n, Kilo) ELSE ctx.n

CanBill(e, s) == priceable(BaseRates(e, s))

----------------------------------------------------------------------------
(* The loop over the models, and parseModel.                               *)

Parse(d) ==
    /\ phase = "start"
    /\ doc' = d
    /\ IF d = Nil THEN phase' = "failed" /\ UNCHANGED todo
                  ELSE phase' = "models" /\ todo' = DOMAIN d
    /\ UNCHANGED <<models, locals>>

\* parseTier, up to its first loop.
StartTier(e, s) ==
    /\ svc' = s
    /\ r' = [NoRates EXCEPT !.Base = BaseRates(e, s), !.litellmProvider = e.litellm_provider]
    /\ left' = DOMAIN e.entry
    /\ phase' = "entries"

ParseModel(key) ==
    /\ phase = "models" /\ key \in todo
    /\ todo' = todo \ {key}
    /\ IF doc[key] # Nil /\ CanBill(doc[key], "standard")
       THEN /\ cur' = key
            /\ svcs' = ServiceTiers \ {"standard"}
            /\ StartTier(doc[key], "standard")
            /\ UNCHANGED m
       ELSE UNCHANGED <<phase, locals>>
    /\ UNCHANGED <<doc, models>>

\* The next of serviceSuffixes.
Service(s) ==
    /\ phase = "services" /\ s \in svcs
    /\ svcs' = svcs \ {s}
    /\ IF CanBill(doc[cur], s) THEN StartTier(doc[cur], s)
                               ELSE UNCHANGED <<phase, svc, left, r>>
    /\ UNCHANGED <<doc, todo, models, cur, m>>

EndModel ==
    /\ phase = "services" /\ svcs = {}
    /\ models' = With(models, cur, m)
    /\ cur' = <<>> /\ m' = <<>>
    /\ phase' = "models"
    /\ UNCHANGED <<doc, todo, svcs, svc, left, r>>

----------------------------------------------------------------------------
(* The loops of parseTier.                                                 *)

\* parseProviderMultipliers, for one member.
Entry(g) ==
    /\ phase = "entries" /\ g \in left
    /\ left' = left \ {g}
    /\ LET f == doc[cur].entry[g]
       IN r' = IF f = Nil \/ f <= 0 THEN r
               ELSE IF g = "fast" THEN [r EXCEPT !.Fast = f]
               ELSE [r EXCEPT !.Geo = With(@, Lower(g), f)]
    /\ UNCHANGED <<phase, doc, todo, models, cur, m, svcs, svc>>

EndEntries ==
    /\ phase = "entries" /\ left = {}
    /\ left' = {<<"uplift", g>> : g \in DOMAIN doc[cur].uplift}
               \cup {<<"above", ctx>> : ctx \in Contexts(doc[cur], svc)}
    /\ phase' = "fields"
    /\ UNCHANGED <<doc, todo, models, cur, m, svcs, svc, r>>

Uplift(g) ==
    /\ phase = "fields" /\ <<"uplift", g>> \in left
    /\ left' = left \ {<<"uplift", g>>}
    /\ LET f == doc[cur].uplift[g]
       IN r' = IF f = Nil \/ f <= 0 THEN r
               ELSE [r EXCEPT !.RegionalUplift = With(@, Lower(g), f)]
    /\ UNCHANGED <<phase, doc, todo, models, cur, m, svcs, svc>>

ContextTier(ctx) == [AbovePromptTokens |-> Threshold(ctx),
                     TierRates |-> ContextRates(doc[cur], ctx, svc)]

Context(ctx) ==
    /\ phase = "fields" /\ <<"above", ctx>> \in left
    /\ left' = left \ {<<"above", ctx>>}
    /\ r' = IF Legible(ctx) /\ priceable(ContextTier(ctx).TierRates)
            THEN [r EXCEPT !.Tiers = Append(@, ContextTier(ctx))]
            ELSE r
    /\ UNCHANGED <<phase, doc, todo, models, cur, m, svcs, svc>>

\* Faulty variant: the contexts stay in the order of the map.
Unsorted(s) == {s}

\* slices.SortFunc, which is not stable: any ascending rearrangement.
Sorted(s) ==
    {[i \in 1 .. Len(s) |-> s[f[i]]] :
        f \in {g \in [1 .. Len(s) -> 1 .. Len(s)] :
                 \A i, j \in 1 .. Len(s) :
                    i < j => /\ g[i] # g[j]
                             /\ s[g[i]].AbovePromptTokens <= s[g[j]].AbovePromptTokens}}

EndFields ==
    /\ phase = "fields" /\ left = {}
    /\ \E s \in Sorted(r.Tiers) : m' = With(m, svc, [r EXCEPT !.Tiers = s])
    /\ r' = NoRates /\ svc' = "standard"
    /\ phase' = "services"
    /\ UNCHANGED <<doc, todo, models, cur, svcs, left>>

----------------------------------------------------------------------------
(* backfillAzureRates.                                                     *)

EndModels ==
    /\ phase = "models" /\ todo = {}
    /\ IF DOMAIN models = {}
       THEN phase' = "failed" /\ UNCHANGED todo
       ELSE phase' = "backfill" /\ todo' = DOMAIN models
    /\ UNCHANGED <<doc, models, locals>>

OwnedByAzure(lp) == lp \in {"azure", "azure_text"}
OwnedByOpenAI(lp) == lp \in {"openai", "text-completion-openai"}

\* azure/{model} or azure/{zone}/{model}; <<>> stands for "".
azureOpenAITwin(key) ==
    IF Len(key) \in {2, 3} /\ key[1] = "azure" THEN <<key[Len(key)]>> ELSE <<>>

\* Faulty variant: the twin's rates take precedence.
backfillOverwrites(dst, src) == [x \in Parts |-> IF src[x] = Nil THEN dst[x] ELSE src[x]]

backfillTierRates(dst, src) == [x \in Parts |-> IF dst[x] = Nil THEN src[x] ELSE dst[x]]

\* The first context of the twin with the same threshold gives its rates.
backfillContext(ct, tiers) ==
    LET same == {j \in DOMAIN tiers : tiers[j].AbovePromptTokens = ct.AbovePromptTokens}
    IN IF same = {} THEN ct
       ELSE LET first == CHOOSE j \in same : \A i \in same : j <= i
            IN [ct EXCEPT !.TierRates = backfillTierRates(@, tiers[first].TierRates)]

backfillRates(own, twin) ==
    LET filled == [own EXCEPT !.Base = backfillTierRates(@, twin.Base)]
    IN [filled EXCEPT !.Tiers = [i \in DOMAIN @ |-> backfillContext(@[i], twin.Tiers)]]

HasTwin(key) ==
    /\ OwnedByAzure(models[key]["standard"].litellmProvider)
    /\ azureOpenAITwin(key) # <<>>
    /\ azureOpenAITwin(key) \in DOMAIN models
    /\ OwnedByOpenAI(models[azureOpenAITwin(key)]["standard"].litellmProvider)

Backfill(key) ==
    /\ phase = "backfill" /\ key \in todo
    /\ todo' = todo \ {key}
    /\ LET twin == models[azureOpenAITwin(key)]
       IN models' = IF ~ HasTwin(key) THEN models
                    ELSE [models EXCEPT ![key] =
                            [s \in DOMAIN models[key] |->
                               IF s \in DOMAIN twin THEN backfillRates(models[key][s], twin[s])
                                                    ELSE models[key][s]]]
    /\ UNCHANGED <<phase, doc, locals>>

EndBackfill ==
    /\ phase = "backfill" /\ todo = {}
    /\ phase' = "done"
    /\ UNCHANGED <<doc, todo, models, locals>>

----------------------------------------------------------------------------
Step == \/ \E key \in todo : ParseModel(key) \/ Backfill(key)
        \/ \E s \in svcs : Service(s)
        \/ EndModel \/ EndModels \/ EndEntries \/ EndFields \/ EndBackfill
        \/ /\ phase = "entries"
           /\ \E g \in left : Entry(g)
        \/ /\ phase = "fields"
           /\ \/ \E g \in DOMAIN doc[cur].uplift : Uplift(g)
              \/ \E ctx \in Contexts(doc[cur], svc) : Context(ctx)

Next == (\E d \in Docs : Parse(d)) \/ Step

Spec == Init /\ [][Next]_vars

----------------------------------------------------------------------------
(* The price map read as a whole, without a loop.                          *)

\* No two spellings of a threshold or of a region mean the same, and no
\* threshold is beyond int64.
Tokens(c) == IF c.k THEN c.n * Kilo ELSE c.n
PlainContexts(e, s) ==
    \A c, d \in Contexts(e, s) :
       (c # d => Tokens(c) # Tokens(d)) /\ (c.n <= MaxInt => Tokens(c) <= MaxInt)
PlainNames(f) == \A g, h \in DOMAIN f : Lower(g) = Lower(h) => g = h
Plain(d) ==
    \A key \in DOMAIN d : d[key] # Nil =>
       /\ \A s \in ServiceTiers : PlainContexts(d[key], s)
       /\ PlainNames(d[key].entry) /\ PlainNames(d[key].uplift)

\* A component's rate at a service tier, and in a context there: the field
\* for it, else the field of the same service tier without a context.
Published(e, s) == [x \in Parts |-> ratField(e, x, Nil, s)]
PublishedIn(e, c, s) ==
    [x \in Parts |-> IF ratField(e, x, c, s) = Nil THEN ratField(e, x, Nil, s)
                                                   ELSE ratField(e, x, c, s)]

\* The service tiers a model is for sale at, and its contexts there.
Sold(d, key) ==
    {s \in ServiceTiers : /\ d[key] # Nil
                          /\ \A needed \in {"standard", s} : priceable(Published(d[key], needed))}
SoldModels(d) == {key \in DOMAIN d : "standard" \in Sold(d, key)}
SoldContexts(e, s) ==
    {c \in Contexts(e, s) : c.n \in 1 .. MaxInt /\ priceable(PublishedIn(e, c, s))}

\* Where the gaps of key at s are filled from: the OpenAI twin, or nowhere.
Lenders(d, key, s) ==
    {t \in SoldModels(d) : /\ OwnedByAzure(d[key].litellm_provider)
                           /\ t = azureOpenAITwin(key) /\ t # <<>>
                           /\ OwnedByOpenAI(d[t].litellm_provider)
                           /\ s \in Sold(d, t)}
OwnOrLent(own, lent) == IF own # Nil \/ lent = {} THEN own ELSE CHOOSE x \in lent : TRUE

SettledBase(d, key, s) ==
    [x \in Parts |-> OwnOrLent(Published(d[key], s)[x],
                               {Published(d[t], s)[x] : t \in Lenders(d, key, s)})]
FilledRates(d, key, s, c) ==
    [x \in Parts |->
        OwnOrLent(PublishedIn(d[key], c, s)[x],
                  UNION {{PublishedIn(d[t], b, s)[x] :
                            b \in {b \in SoldContexts(d[t], s) : Tokens(b) = Tokens(c)}} :
                         t \in Lenders(d, key, s)})]
SettledContext(d, key, s, c) ==
    [AbovePromptTokens |-> Tokens(c),
     TierRates |-> [x \in Parts |->
        IF FilledRates(d, key, s, c)[x] # Nil THEN FilledRates(d, key, s, c)[x]
                                              ELSE SettledBase(d, key, s)[x]]]

\* A context that leans on the base rates of a twin is one the twin has.
TwinsMatch(d) ==
    \A key \in SoldModels(d) : \A s \in Sold(d, key) :
       \A c \in SoldContexts(d[key], s), t \in Lenders(d, key, s) :
          (\E x \in Parts : PublishedIn(d[key], c, s)[x] = Nil /\ Published(d[t], s)[x] # Nil)
             => \E b \in SoldContexts(d[t], s) : Tokens(b) = Tokens(c)

\* The multipliers a table of raw names stands for.
Factors(f, skip) ==
    LET good == {g \in DOMAIN f \ skip : f[g] # Nil /\ f[g] > 0}
    IN [n \in {Lower(g) : g \in good} |-> f[CHOOSE g \in good : Lower(g) = n]]

TiersIn(x) == {x.Tiers[i] : i \in DOMAIN x.Tiers}

\* x are the rates of key at s, with these context tiers.
HasRates(d, key, s, x, tiers) ==
    /\ x.Base = SettledBase(d, key, s)
    /\ TiersIn(x) = tiers
    /\ x.Fast = IF "fast" \in DOMAIN d[key].entry /\ d[key].entry["fast"] # Nil
                     /\ d[key].entry["fast"] > 0
                THEN d[key].entry["fast"] ELSE Nil
    /\ x.Geo = Factors(d[key].entry, {"fast"})
    /\ x.RegionalUplift = Factors(d[key].uplift, {})
    /\ x.litellmProvider = d[key].litellm_provider
IsPublished(d, key, s, x) ==
    HasRates(d, key, s, x, {SettledContext(d, key, s, c) : c \in SoldContexts(d[key], s)})

----------------------------------------------------------------------------
(* Properties.                                                             *)

\* Every order of every loop gives the one table the price map publishes: a
\* base rate is the model's own at that service tier, or else the one its
\* OpenAI twin publishes; a context's rate is its own, or else that of the
\* twin's context, or else the base rate; and a model is listed exactly at
\* the service tiers it can bill (llmcost.go:542-546).  TwinsMatch leaves out
\* the price maps of ContextsInheritBase below.
ReadsAsPublished ==
    phase = "done" /\ Plain(doc) /\ TwinsMatch(doc) =>
       /\ DOMAIN models = SoldModels(doc)
       /\ \A key \in DOMAIN models :
             /\ DOMAIN models[key] = Sold(doc, key)
             /\ \A s \in DOMAIN models[key] : IsPublished(doc, key, s, models[key][s])

\* What NewFrom is given keeps the invariants of TestTableInvariants, which
\* the calculator relies on: positive rates, ascending positive thresholds,
\* positive multipliers.  The backfill, which writes unchecked, keeps them.
ParsedRatesAreValid ==
    \A key \in DOMAIN models : \A s \in DOMAIN models[key] :
       Plain(doc) => ValidRates(models[key][s])

\* Rates y have every threshold and every rate of rates x.
KeepsTier(x, y) == \A c \in Parts : x[c] # Nil => y[c] = x[c]
KeepsRates(x, y) ==
    /\ KeepsTier(x.Base, y.Base)
    /\ DOMAIN y.Tiers = DOMAIN x.Tiers
    /\ \A i \in DOMAIN x.Tiers :
          /\ y.Tiers[i].AbovePromptTokens = x.Tiers[i].AbovePromptTokens
          /\ KeepsTier(x.Tiers[i].TierRates, y.Tiers[i].TierRates)

\* "Rates the Azure entry publishes are therefore never overwritten"
\* (llmcost.go:588), and no entry, once in the table, leaves it or gives up a
\* rate: the backfill only fills gaps.
PublishedRateStands ==
    [][\A key \in DOMAIN models :
          /\ key \in DOMAIN models'
          /\ DOMAIN models'[key] = DOMAIN models[key]
          /\ \A s \in DOMAIN models[key] : KeepsRates(models[key][s], models'[key][s])]_vars

\* What the documentation says of every context tier of the table.
OfEveryRates(P(_)) == \A key \in DOMAIN models : \A s \in DOMAIN models[key] : P(models[key][s])

\* "A component upstream leaves untiered inherits the base rate" (llmcost.go
\* :198): a context has a rate wherever its base has one.  Not so where the
\* backfill gives the base its rate after the context has been read.
ContextsInheritBase ==
    LET Inherits(x) == \A i \in DOMAIN x.Tiers, c \in Parts :
                          x.Base[c] # Nil => x.Tiers[i].TierRates[c] # Nil
    IN phase = "done" => OfEveryRates(Inherits)

\* "The same invariants the snapshot parser enforces ...: non-positive or
\* non-ascending thresholds" are rejected (table.go:79-83).  Not so of one
\* threshold spelt in two ways, nor of one whose k takes it beyond int64.
ThresholdsAscend ==
    LET Ascend(x) == \A i \in DOMAIN x.Tiers :
           /\ x.Tiers[i].AbovePromptTokens > 0
           /\ i > 1 => x.Tiers[i - 1].AbovePromptTokens < x.Tiers[i].AbovePromptTokens
    IN phase = "done" => OfEveryRates(Ascend)

----------------------------------------------------------------------------
(* The inductive invariant the proofs rest on: what each loop has left to  *)
(* meet, and what has become of what it has met.                           *)

Loops == {"models", "services", "entries", "fields", "backfill"}
Parsing == {"services", "entries", "fields"}

Shaped(x) == x = [Base |-> x.Base, Tiers |-> x.Tiers, Fast |-> x.Fast, Geo |-> x.Geo,
                  RegionalUplift |-> x.RegionalUplift, litellmProvider |-> x.litellmProvider]
PositiveMap(f) == \A g \in DOMAIN f : f[g] # Nil /\ f[g] > 0

\* Rates of the price map d that parseTier has finished with.
Settled(d, x) == Shaped(x) /\ IsRates(x) /\ (Plain(d) => ValidRates(x))

DocInv ==
    /\ phase \in {"start", "done", "failed"} \cup Loops
    /\ phase \in Loops => doc \in Docs \ {Nil}
    /\ phase = "start" => models = <<>> /\ m = <<>>
    /\ phase \in Parsing => cur \in DOMAIN doc /\ doc[cur] # Nil

\* No model is met twice: it is ahead, or being parsed, or in the table.
OnceInv ==
    /\ phase \in Parsing \cup {"models"} => todo \subseteq DOMAIN doc /\ todo \cap DOMAIN models = {}
    /\ phase \in Parsing => cur \notin todo \cup DOMAIN models
    /\ phase = "backfill" => todo \subseteq DOMAIN models

MapsInv ==
    /\ svcs \subseteq ServiceTiers /\ svc \in ServiceTiers
    /\ DOMAIN m \subseteq ServiceTiers /\ \A s \in DOMAIN m : Settled(doc, m[s])
    /\ \A key \in DOMAIN models :
          /\ DOMAIN models[key] \subseteq ServiceTiers
          /\ \A s \in DOMAIN models[key] : Settled(doc, models[key][s])

\* The context tiers gathered so far come from contexts already met.
GatheredInv ==
    /\ phase = "entries" => left \subseteq DOMAIN doc[cur].entry /\ r.Tiers = <<>>
    /\ phase = "fields" =>
         /\ \A i \in DOMAIN r.Tiers :
               /\ priceable(r.Tiers[i].TierRates)
               /\ \E c \in Contexts(doc[cur], svc) :
                     /\ Legible(c) /\ <<"above", c>> \notin left
                     /\ r.Tiers[i].AbovePromptTokens = Threshold(c)
         /\ Plain(doc) => \A i, j \in DOMAIN r.Tiers :
               i # j => r.Tiers[i].AbovePromptTokens # r.Tiers[j].AbovePromptTokens

RatesInv ==
    /\ Shaped(r) /\ IsRates(r)
    /\ phase \in {"entries", "fields"} => priceable(r.Base)
    /\ r.Fast # Nil => r.Fast > 0
    /\ PositiveMap(r.Geo) /\ PositiveMap(r.RegionalUplift)

Inv == DocInv /\ OnceInv /\ MapsInv /\ GatheredInv /\ RatesInv

----------------------------------------------------------------------------
(* What more is needed to read the table off the price map as a whole:     *)
(* what each loop has built is what the fields it has met publish.         *)

FastOf(f, skip) ==
    IF "fast" \in DOMAIN f \ skip /\ f["fast"] # Nil /\ f["fast"] > 0 THEN f["fast"] ELSE Nil
OwnContext(e, s, c) == [AbovePromptTokens |-> Tokens(c), TierRates |-> PublishedIn(e, c, s)]
\* x are the rates of key at s, the backfill aside.
IsOwn(d, key, s, x) ==
    /\ x.Base = Published(d[key], s)
    /\ TiersIn(x) = {OwnContext(d[key], s, c) : c \in SoldContexts(d[key], s)}
    /\ x.Fast = FastOf(d[key].entry, {})
    /\ x.Geo = Factors(d[key].entry, {"fast"})
    /\ x.RegionalUplift = Factors(d[key].uplift, {})
    /\ x.litellmProvider = d[key].litellm_provider

\* x are the rates of key at s as the backfill leaves them, in which a context
\* inherits nothing of a base rate that was filled after it was read.
FilledContext(d, key, s, c) ==
    [AbovePromptTokens |-> Tokens(c), TierRates |-> FilledRates(d, key, s, c)]
IsFilled(d, key, s, x) ==
    HasRates(d, key, s, x, {FilledContext(d, key, s, c) : c \in SoldContexts(d[key], s)})

FieldsInv ==
    LET e == doc[cur]
    IN /\ phase \in {"entries", "fields"} =>
             r.Base = Published(e, svc) /\ r.litellmProvider = e.litellm_provider
       /\ phase = "entries" =>
             /\ r.Fast = FastOf(e.entry, left)
             /\ r.Geo = Factors(e.entry, {"fast"} \cup left)
             /\ r.RegionalUplift = <<>>
       /\ phase = "fields" =>
             /\ r.Fast = FastOf(e.entry, {})
             /\ r.Geo = Factors(e.entry, {"fast"})
             /\ r.RegionalUplift
                  = Factors(e.uplift, {g \in DOMAIN e.uplift : <<"uplift", g>> \in left})
             /\ TiersIn(r) = {OwnContext(e, svc, c) :
                                c \in {c \in SoldContexts(e, svc) : <<"above", c>> \notin left}}

ServicesInv ==
    /\ phase \in {"start", "models"} => DOMAIN m = {}
    /\ phase \in Parsing => /\ cur \in SoldModels(doc)
                            /\ \A s \in DOMAIN m : IsOwn(doc, cur, s, m[s])
    /\ phase = "services" => DOMAIN m = Sold(doc, cur) \ svcs
    /\ phase \in {"entries", "fields"} =>
          /\ svc \in Sold(doc, cur) \ svcs
          /\ DOMAIN m = Sold(doc, cur) \ (svcs \cup {svc})

TableInv ==
    /\ phase = "models" => DOMAIN models = SoldModels(doc) \ todo
    /\ phase \in Parsing => DOMAIN models = SoldModels(doc) \ (todo \cup {cur})
    /\ phase \in {"backfill", "done"} => DOMAIN models = SoldModels(doc)
    /\ phase # "failed" =>
          \A key \in DOMAIN models :
             /\ DOMAIN models[key] = Sold(doc, key)
             /\ \A s \in DOMAIN models[key] :
                   IF phase = "done" \/ (phase = "backfill" /\ key \notin todo)
                   THEN IsFilled(doc, key, s, models[key][s])
                   ELSE IsOwn(doc, key, s, models[key][s])

FaithInv == phase # "failed" /\ Plain(doc) => FieldsInv /\ ServicesInv /\ TableInv
=============================================================================
