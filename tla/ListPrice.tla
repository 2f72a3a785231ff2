----------------------------- MODULE ListPrice ------------------------------
(***************************************************************************)
(* listprice as it is called.  newBook builds the book or panics at init.  *)
(* A caller asks Priceable before it makes a call, makes the call whatever *)
(* the answer, and has Of price the response: exactly, or else with the    *)
(* dimensions dropped that only a response reports.  What llmcost costs a  *)
(* usage at is what Billing promises of it: any reply that is Due.         *)
(***************************************************************************)
EXTENDS Book, FiniteSets

CONSTANTS Snapshots, Curations,     \* what newBook may find
          Requests,                 \* [model, tier, speed]
          Usages,                   \* what responses may report
          Scale,                    \* 10_000
          MarkupBasisPoints

ASSUME MarkupAssumption ==
    /\ Scale \in Nat \ {0} /\ MarkupBasisPoints \in Nat
    /\ Scale * (MarkupBasisPoints + 1) <= MaxInt /\ MarkupBasisPoints <= Scale
ASSUME CurationAssumption == \A cur \in Curations : IsCuration(cur)
ASSUME BookSnapshotAssumption ==
    \A snap \in Snapshots : \A k \in DOMAIN snap :
       /\ "standard" \in DOMAIN snap[k] /\ DOMAIN snap[k] \subseteq ServiceTiers
       /\ \A s \in DOMAIN snap[k] : IsRates(snap[k][s]) /\ ValidRates(snap[k][s])
\* No litellm_provider is owned by two of the providers that price the book.
ASSUME OwnerAssumption ==
    \A snap \in Snapshots : \A k \in DOMAIN snap :
       LET name == snap[k]["standard"].litellmProvider
       IN \A p, q \in pricers : OwnedBy(p, name) /\ OwnedBy(q, name) => p = q
ASSUME ResponseAssumption == Usages \subseteq Usage
ASSUME LowerAssumption == Lower("") = ""

VARIABLES pc,        \* "new", "rejected", "idle", "asked", "of", "returned"
          book,      \* the book in force
          request,   \* what Priceable was asked
          accepted,  \* and what it answered
          usage,     \* what the response reported
          tries,     \* the usages Of has yet to have costed
          reply      \* what Of returned

vars == <<pc, book, request, accepted, usage, tries, reply>>

L == INSTANCE Billing WITH phase <- pc, table <- book, call <- request,
        Configs <- {}, Models <- {}

NoBook == [models |-> <<>>, aliases |-> <<>>, overrides |-> <<>>, published |-> {}, owner |-> <<>>]
NoRequest == [model |-> "", tier |-> "", speed |-> ""]
NoUsage == L!NoCall.usage
Reply(kind, cost, price, source) ==
    [kind |-> kind, cost |-> cost, price |-> price, source |-> source]
NoReply == Reply("idle", 0, 0, "")

Init == /\ pc = "new" /\ book = NoBook /\ request = NoRequest /\ accepted = FALSE
        /\ usage = NoUsage /\ tries = <<>> /\ reply = NoReply

NewBook(snap, cur) ==
    /\ pc = "new"
    /\ IF Miscurated(cur) \/ ~ L!Sound(snap, Config(cur))
       THEN pc' = "rejected" /\ UNCHANGED book
       ELSE pc' = "idle" /\ book' = newBook(snap, cur)
    /\ UNCHANGED <<request, accepted, usage, tries, reply>>

----------------------------------------------------------------------------
(* Before the call: Priceable.                                             *)

\* Faulty variant: any speed of a model that has rates.
AcceptsAnySpeed(q) == q.tier \in TiersOf(book, q.model)

Accepts(q) ==
    /\ q.tier \in TiersOf(book, q.model)
    /\ \/ q.speed \in {"", "standard"}
       \/ q.speed = "fast" /\ RatesFor(book, q.model, q.tier).Fast # Nil

Ask(q) == /\ pc = "idle"
          /\ pc' = "asked"
          /\ request' = q
          /\ accepted' = Accepts(q)
          /\ UNCHANGED <<book, usage, tries, reply>>

----------------------------------------------------------------------------
(* The call: the response bills at the tier and the speed that were asked  *)
(* for ("standard" is the speed nobody names); the rest of it is foreseen  *)
(* by nobody.                                                              *)

Ordinary(speed) == speed \in {"", "standard"}
Answers(u, q) ==
    /\ L!Named(u) = q.tier
    /\ IF u.kind = "claude"
       THEN u.Speed = q.speed \/ (Ordinary(u.Speed) /\ Ordinary(q.speed))
       ELSE Ordinary(q.speed)

Of(u) == /\ pc = "asked"
         /\ Answers(u, request)
         /\ pc' = "exact"
         /\ usage' = u
         /\ UNCHANGED <<book, request, accepted, tries, reply>>

----------------------------------------------------------------------------
(* Of.                                                                     *)

\* Faulty variant: the markup is truncated.
markupDown(cost) == (cost * MarkupBasisPoints) \div Scale

\* The markup of a cost: whole scales and the remainder separately.
markup(cost) ==
    (cost \div Scale) * MarkupBasisPoints
      + ((cost % Scale) * MarkupBasisPoints + (Scale - 1)) \div Scale
Markup(cost) == cost + markup(cost)

\* Faulty variant: the sum is taken to fit an int64.
HasMarkupUnchecked(cost) == cost >= 0

HasMarkup(cost) == cost >= 0 /\ ~ markup(cost) > MaxInt - cost

source(b, model) ==
    IF resolve(b, model) \in DOMAIN b.overrides THEN "override" ELSE "llmcost"

\* Faulty variant: the most lossy re-pricing is tried first.
degradedMost(u) ==
    IF u.kind = "claude"
    THEN <<[u EXCEPT !.InferenceGeo = "", !.CacheCreation1hInputTokens = 0]>>
    ELSE <<>>

\* Faulty variant: the speed is dropped with the geo.
degradedSpeed(u) == IF u.kind = "claude" THEN <<[u EXCEPT !.InferenceGeo = "", !.Speed = ""]>> ELSE <<>>

\* The re-pricings of a usage, least lossy first.
degraded(u) ==
    LET noGeo == [u EXCEPT !.InferenceGeo = ""]
        no1h == [u EXCEPT !.CacheCreation1hInputTokens = 0]
        neither == [noGeo EXCEPT !.CacheCreation1hInputTokens = 0]
    IN IF u.kind = "claude" THEN <<noGeo, no1h, neither>> ELSE <<>>

\* The usages Of has costed before it refuses.
Pricings(u) == {u} \cup {degraded(u)[i] : i \in DOMAIN degraded(u)}

\* What Table.Cost may answer for a usage.
Answer == [kind: {"ok"}, nls: 0 .. MaxInt] \cup [kind: {"refused", "panic"}, nls: {0}]
Costed(u, a) == L!Due(book, request.model, u, a)

Return(a) == /\ pc' = "returned"
             /\ reply' = a
             /\ tries' = <<>>
             /\ UNCHANGED <<book, request, accepted, usage>>
Panic == Return(Reply("panic", 0, 0, ""))
Sell(cost, from) ==
    IF HasMarkup(cost) THEN Return(Reply("ok", cost, Markup(cost), from)) ELSE Panic

OfExact(a) ==
    /\ pc = "exact"
    /\ Costed(usage, a)
    /\ \/ a.kind = "ok" /\ Sell(a.nls, source(book, request.model))
       \/ a.kind = "panic" /\ Panic
       \/ /\ a.kind = "refused"
          /\ pc' = "degrading"
          /\ tries' = degraded(usage)
          /\ UNCHANGED <<book, request, accepted, usage, reply>>

OfDegraded(a) ==
    /\ pc = "degrading" /\ tries # <<>>
    /\ Costed(Head(tries), a)
    /\ \/ a.kind = "ok" /\ Sell(a.nls, "degraded")
       \/ a.kind = "panic" /\ Panic
       \/ /\ a.kind = "refused"
          /\ tries' = Tail(tries)
          /\ UNCHANGED <<pc, book, request, accepted, usage, reply>>

NoPrice == pc = "degrading" /\ tries = <<>> /\ Return(Reply("refused", 0, 0, ""))

\* The caller goes on with the price.
Continue == /\ pc = "returned"
            /\ pc' = "idle"
            /\ request' = NoRequest /\ accepted' = FALSE /\ usage' = NoUsage
            /\ reply' = NoReply
            /\ UNCHANGED <<book, tries>>

Step == \/ \E a \in Answer : OfExact(a) \/ OfDegraded(a)
        \/ NoPrice

Next == \/ \E snap \in Snapshots, cur \in Curations : NewBook(snap, cur)
        \/ \E q \in Requests : Ask(q)
        \/ \E u \in Usages : Of(u)
        \/ Step
        \/ Continue

Spec == Init /\ [][Next]_vars

----------------------------------------------------------------------------
(* Properties.                                                             *)

\* The type invariant.
TypeOK ==
    /\ pc \in {"new", "rejected", "idle", "asked", "exact", "degrading", "returned"}
    /\ request \in Requests \cup {NoRequest}
    /\ accepted \in BOOLEAN
    /\ usage \in Usages \cup {NoUsage}
    /\ tries \in Seq(Pricings(usage))
    /\ reply \in [kind: {"idle", "ok", "refused", "panic"}, cost: Int64, price: Int64,
                  source: {"", "llmcost", "override", "degraded"}]

\* Covering(price, cost): the least whole price that covers cost and markup.
Covering(price, cost) ==
    /\ cost * (Scale + MarkupBasisPoints) <= price * Scale
    /\ (price - 1) * Scale < cost * (Scale + MarkupBasisPoints)

\* "The list price of cost: cost plus MarkupBasisPoints, rounded up to a
\* whole nls" (listprice.go:51-52), and Of panics for no other reason than
\* counts that are impossible or a price beyond int64.
PriceIsCeiling ==
    /\ reply.kind = "ok" => Covering(reply.price, reply.cost)
    /\ reply.kind = "panic" =>
          \E d \in Pricings(usage) :
             \/ L!Due(book, request.model, d, L!Reply("panic", 0))
             \/ \E n \in 0 .. MaxInt :
                   /\ L!Due(book, request.model, d, L!Reply("ok", n))
                   /\ n * (Scale + MarkupBasisPoints) > MaxInt * Scale

\* "A request it rejects would have no published price"
\* (listprice.go:80): whatever a response to it reports, and whatever of
\* that is dropped to price it.
RejectedHasNoPrice == reply.kind = "ok" => accepted

\* The listed rates a usage bills at, found without the steps of Of.
GoverningRates(u) == L!ListPrice(book, L!Meant(book, request.model), L!Named(u))
Governing(u) ==
    LET r == GoverningRates(u)
    IN CHOOSE t \in {r.Base} \cup {r.Tiers[i].TierRates : i \in DOMAIN r.Tiers} :
          L!Governs(r, L!Prompt(u), t)

\* The dimensions only a response reports that a usage's rates cannot price.
Unratable(u) ==
    {d \in {"geo", "1h"} :
       CASE d = "geo" -> Pinned(u) /\ Lower(u.InferenceGeo) \notin DOMAIN GoverningRates(u).Geo
         [] d = "1h" -> /\ u.kind = "claude" /\ u.CacheCreation1hInputTokens > 0
                        /\ Governing(u)["cacheCreation1h"] = Nil}
Without(u, dims) ==
    IF u.kind # "claude" THEN u
    ELSE [u EXCEPT !.InferenceGeo = IF "geo" \in dims THEN "" ELSE @,
                   !.CacheCreation1hInputTokens = IF "1h" \in dims THEN 0 ELSE @]

\* A request that Priceable accepted has a list price when it was made,
\* unless its response used a cache its model has no rate for: every other
\* reason to refuse is foreseen, and what cannot be foreseen is dropped.
AcceptedIsPriced ==
    accepted /\ reply.kind = "refused" =>
       \E c \in Parts \ TokenParts :
          /\ L!Billed(Without(usage, {"geo", "1h"}), c) > 0
          /\ Governing(usage)[c] = Nil

\* "With that dimension dropped" (listprice.go:26-28), and no other: a
\* degraded price is the exact price of the response without exactly the
\* dimensions its model has no rate for, and a price that is not degraded is
\* that of the response as it is.
DegradesLeast ==
    reply.kind = "ok" =>
       /\ L!Due(book, request.model, Without(usage, Unratable(usage)), L!Reply("ok", reply.cost))
       /\ reply.source = "degraded" <=> Unratable(usage) # {}

\* A curation whose ids and overrides collide with no other key of the book.
Plain(b) ==
    /\ \A x \in b.published : \A p \in pricers :
          /\ x.id # x.key => x.id \notin ModelsOf(b, p) \cup DOMAIN b.owner
          /\ x.key \in ModelsOf(b, p) => p = x.provider
          /\ x.key \in DOMAIN b.owner => b.owner[x.key] = x.provider
    /\ \A k \in DOMAIN b.owner : \A p \in pricers : k \in ModelsOf(b, p) => p = b.owner[k]

RowsFor(u) ==
    {row \in rates(book) :
       /\ row.Model = request.model /\ row.Tier = L!Named(u)
       /\ row.Fast = (u.kind = "claude" /\ u.Speed = "fast")
       /\ row.AbovePromptTokens < L!Prompt(u) \/ row.AbovePromptTokens = 0
       /\ \A i \in DOMAIN GoverningRates(u).Tiers :
             LET n == GoverningRates(u).Tiers[i].AbovePromptTokens
             IN n < L!Prompt(u) => n <= row.AbovePromptTokens}

\* The book is what is charged: the rows of a listed model, read as their
\* documents say (tier, speed, the context tier the prompt exceeds), add up
\* to the cost of every response priced exactly at a base inference geo, and
\* no two of them price the same component.
BookExplainsCharge ==
    LET row(c) == {x \in RowsFor(usage) : x.Component = c}
        cost(c) == IF L!Billed(usage, c) = 0 THEN 0
                   ELSE (CHOOSE x \in row(c) : TRUE).Cost * L!Billed(usage, c)
    IN /\ Plain(book) /\ reply.kind = "ok" /\ reply.source # "degraded"
       /\ ~ Pinned(usage) /\ ~ Uplifted(usage, GoverningRates(usage))
       /\ \E e \in entries(book) : e.id = request.model
       => /\ \A c \in Parts : L!Billed(usage, c) > 0 => Cardinality(row(c)) = 1
          /\ L!Covers(reply.cost, cost("input") + cost("cacheRead") + cost("cacheCreation")
                                    + cost("cacheCreation1h") + cost("output"))

----------------------------------------------------------------------------
(* The inductive invariant the proofs rest on.                             *)

\* The documented sums of every response are int64.
Countable == \A u \in Usages : L!Countable(u)

\* Of prices the response, or one of its re-pricings, and nothing else; the
\* response is one that may answer the request, and the answer to the
\* request is not out of date.
OfInv ==
    /\ pc \in {"exact", "degrading", "returned"} => usage \in Usages /\ Answers(usage, request)
    /\ pc \in {"asked", "exact", "degrading", "returned"} => (accepted <=> Accepts(request))
    /\ pc # "degrading" => tries = <<>>
    /\ pc # "returned" => reply = NoReply
    /\ reply.kind = "ok" =>
          \E d \in Pricings(usage) : L!Due(book, request.model, d, L!Reply("ok", reply.cost))
PriceInv == TypeOK /\ OfInv /\ PriceIsCeiling

\* The book in force is one that newBook made of a sound curation.
InForce(b) ==
    \E snap \in Snapshots, cur \in Curations :
       ~ Miscurated(cur) /\ L!Sound(snap, Config(cur)) /\ b = newBook(snap, cur)

\* Of has been refused the response and the first n of its re-pricings.
Refused(d) == Costed(d, L!Reply("refused", 0))
RefusedUpTo(n) == Refused(usage) /\ \A i \in 1 .. n : Refused(degraded(usage)[i])

\* Of goes through the re-pricings in their order, and a price is that of the
\* first it was not refused.
TrialInv ==
    /\ pc \notin {"new", "rejected"} => InForce(book)
    /\ pc = "degrading" =>
          \E n \in 0 .. Len(degraded(usage)) :
             RefusedUpTo(n) /\ tries = SubSeq(degraded(usage), n + 1, Len(degraded(usage)))
    /\ reply.kind = "refused" => RefusedUpTo(Len(degraded(usage)))
    /\ reply.kind = "ok" =>
          \/ reply.source # "degraded" /\ Costed(usage, L!Reply("ok", reply.cost))
          \/ /\ reply.source = "degraded"
             /\ \E n \in DOMAIN degraded(usage) :
                   RefusedUpTo(n - 1) /\ Costed(degraded(usage)[n], L!Reply("ok", reply.cost))
=============================================================================
