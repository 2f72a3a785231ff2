-------------------------------- MODULE Book --------------------------------
(***************************************************************************)
(* The price book of listprice: what newBook makes of a curation (the      *)
(* published models and the overrides) over a snapshot, and the rows Book  *)
(* enumerates from it.  Nothing here has a state; ListPrice charges calls  *)
(* with a book and PriceDiff compares the rows of two.                     *)
(***************************************************************************)
EXTENDS Rates

CONSTANTS OwnedBy(_, _)   \* Provider.owns: provider, litellm_provider

\* The providers whose models the book prices.
pricers == {"anthropic", "openai"}

IsPublished(m) == /\ m.id \in STRING /\ m.key \in STRING /\ m.provider \in STRING
IsCuration(cur) ==
    /\ \A i \in DOMAIN cur.published : IsPublished(cur.published[i])
    /\ \A k \in DOMAIN cur.overrides :
          /\ cur.overrides[k].provider \in STRING
          /\ cur.overrides[k].rates # Nil /\ IsRates(cur.overrides[k].rates)

----------------------------------------------------------------------------
(* newBook.                                                                *)

Aliased(cur) == {i \in DOMAIN cur.published : cur.published[i].id # cur.published[i].key}

\* The Config given to llmcost.New: a later alias of an id would overwrite
\* an earlier one, but ids are published once.
Config(cur) ==
    [Aliases |-> [a \in {cur.published[i].id : i \in Aliased(cur)} |->
                    cur.published[CHOOSE i \in Aliased(cur) : cur.published[i].id = a].key],
     Overrides |-> [k \in DOMAIN cur.overrides |-> cur.overrides[k].rates]]

\* newBook panics by itself, before New does.
Miscurated(cur) ==
    \/ \E i, j \in DOMAIN cur.published : i # j /\ cur.published[i].id = cur.published[j].id
    \/ \E i \in DOMAIN cur.published : cur.published[i].provider \notin pricers

newBook(snap, cur) ==
    [models |-> snap, aliases |-> Config(cur).Aliases, overrides |-> Config(cur).Overrides,
     published |-> {cur.published[i] : i \in DOMAIN cur.published},
     owner |-> [k \in DOMAIN cur.overrides |-> cur.overrides[k].provider]]

----------------------------------------------------------------------------
(* Table.RatesFor, and llmcost.Models of the snapshot.                     *)

resolve(b, model) == IF model \in DOMAIN b.aliases THEN b.aliases[model] ELSE model

\* The service tiers a key has rates at, and its rates there.
TiersOf(b, model) ==
    LET key == resolve(b, model)
    IN IF key \in DOMAIN b.overrides THEN {"standard"}
       ELSE IF key \in DOMAIN b.models THEN DOMAIN b.models[key] ELSE {}
RatesFor(b, model, s) ==
    LET key == resolve(b, model)
    IN IF key \in DOMAIN b.overrides THEN b.overrides[key] ELSE b.models[key][s]

ModelsOf(b, p) ==
    {k \in DOMAIN b.models : OwnedBy(p, b.models[k]["standard"].litellmProvider)}

----------------------------------------------------------------------------
(* entries and rates.                                                      *)

\* The entries and the rows of the code are slices, where an element may occur
\* twice. "listing" is the append that an entry comes from ("published",
\* "billed" by the provider, "override"): one append lists an id once, so
\* that two equal elements of a slice are two members of the sets here.
Entry(id, key, p, listing) == [id |-> id, key |-> key, provider |-> p, listing |-> listing]

\* Faulty variant: what an override prices is listed whether or not the
\* snapshot has the key too.
entriesTwice(b) ==
    UNION {LET mine == {x \in b.published : x.provider = p}
               covered == {x.key : x \in mine}
               owned == {k \in DOMAIN b.owner : b.owner[k] = p}
           IN {Entry(x.id, x.key, p, "published") : x \in mine}
              \cup {Entry(k, k, p, "billed") : k \in ModelsOf(b, p) \ covered}
              \cup {Entry(k, k, p, "override") : k \in owned \ covered} :
           p \in pricers}

\* The published models of each pricing provider, then every other key that
\* it bills, or that an override gives it and it does not bill.
entries(b) ==
    UNION {LET mine == {x \in b.published : x.provider = p}
               covered == {x.key : x \in mine}
               owned == {k \in DOMAIN b.owner : b.owner[k] = p}
           IN {Entry(x.id, x.key, p, "published") : x \in mine}
              \cup {Entry(k, k, p, "billed") : k \in ModelsOf(b, p) \ covered}
              \cup {Entry(k, k, p, "override") : k \in (owned \ ModelsOf(b, p)) \ covered} :
           p \in pricers}

Contexts(r) ==
    {[AbovePromptTokens |-> 0, TierRates |-> r.Base]} \cup {r.Tiers[i] : i \in DOMAIN r.Tiers}
Speeds(r) == IF r.Fast = Nil THEN {FALSE} ELSE {FALSE, TRUE}

\* Faulty variant: fast mode scales the cache too.
scaledAll(r, fast, c) == IF fast THEN r.Fast ELSE MultUnit

\* The fast multiplier of a row, which input and output carry alone.
scaled(r, fast, c) == IF fast /\ c \in TokenParts THEN r.Fast ELSE MultUnit

\* The costs a key prices: one per service tier, speed, context and part.
\* Costs are per token here, in quanta, and not per million.
priced(b, key) ==
    UNION {LET r == RatesFor(b, key, s)
           IN UNION {{[Tier |-> s, Fast |-> fast, AbovePromptTokens |-> t.AbovePromptTokens,
                       Component |-> c,
                       Cost |-> t.TierRates[c] * scaled(r, fast, c) * MultUnit] :
                        c \in {c \in Parts : t.TierRates[c] # Nil}} :
                     fast \in Speeds(r), t \in Contexts(r)} :
           s \in TiersOf(b, key)}

\* A row, and the listing of its entry, which tells it from its duplicates.
Row(e, c) == [Model |-> e.id, Published |-> e.listing = "published", PricedBy |-> e.provider,
              Listing |-> e.listing, Tier |-> c.Tier, Fast |-> c.Fast, AbovePromptTokens |-> c.AbovePromptTokens,
              Component |-> c.Component, Cost |-> c.Cost]
rates(b) == UNION {{Row(e, c) : c \in priced(b, e.key)} : e \in entries(b)}
=============================================================================
