-------------------------- MODULE ListPriceProofs ---------------------------
(***************************************************************************)
(* The list price for every cost, every markup and every int64: it is the  *)
(* ceiling, nothing on the way to it overflows, a request that Priceable   *)
(* rejects never has one, one that it accepts has one, no more of a        *)
(* response is dropped than its model has no rate for, and the rows of the *)
(* book add up to it.                                                      *)
(***************************************************************************)
EXTENDS ListPrice, TLAPS, SequenceTheorems, FiniteSetTheorems

USE NilAssumption, IntAssumption, UnitAssumption

----------------------------------------------------------------------------
(* The arithmetic of the markup.                                           *)

LEMMA Distributes ==
    ASSUME NEW a \in Int, NEW b \in Int, NEW d \in Int
    PROVE  /\ a * b \in Int /\ a * b = b * a
           /\ (a + b) * d = a * d + b * d /\ (a - b) * d = a * d - b * d
  OBVIOUS

LEMMA NotNegative ==
    ASSUME NEW m \in Int, NEW d \in Nat \ {0}, m * d > -d
    PROVE  m \in Nat
<1> SUFFICES ASSUME m < 0 PROVE FALSE
  OBVIOUS
<1> DEFINE k == -1 - m
<1>1. k \in Nat /\ m = -1 - k
  OBVIOUS
<1> HIDE DEF k
<1>2. k * d \in Nat
  BY <1>1
<1>3. m * d = -d - k * d
  BY <1>1
<1> QED BY <1>2, <1>3

LEMMA Quotient ==
    ASSUME NEW n \in Nat, NEW d \in Nat \ {0}
    PROVE  /\ n \div d \in Nat /\ n % d \in 0 .. d - 1
           /\ n = (n \div d) * d + (n % d)
<1>1. n \div d \in Int /\ n % d \in 0 .. d - 1 /\ n = (n \div d) * d + (n % d)
  OBVIOUS
<1> DEFINE q == n \div d
           r == n % d
<1> HIDE DEF q, r
<1>2. q \in Int /\ r \in 0 .. d - 1 /\ n = q * d + r
  BY <1>1 DEF q, r
<1>3. q * d > -d
  BY <1>2, Distributes
<1>4. q \in Nat
  BY <1>2, <1>3, NotNegative
<1> QED BY <1>1, <1>4 DEF q

\* Rounding up: the least multiple of d that covers n.
LEMMA RoundUp ==
    ASSUME NEW n \in Nat, NEW d \in Nat \ {0}
    PROVE  LET m == (n + (d - 1)) \div d
           IN m \in Nat /\ n <= m * d /\ (m - 1) * d < n
<1> DEFINE m == (n + (d - 1)) \div d
           r == (n + (d - 1)) % d
<1>1. n + (d - 1) \in Nat
  OBVIOUS
<1>2. m \in Nat /\ r \in 0 .. d - 1 /\ n + (d - 1) = m * d + r
  BY <1>1, Quotient
<1> HIDE DEF m, r
<1>3. m * d \in Int /\ (m - 1) * d = m * d - d
  BY <1>2, Distributes
<1>4. n <= m * d /\ (m - 1) * d < n
  BY <1>2, <1>3
<1> QED BY <1>2, <1>4 DEF m

\* The markup is the ceiling, though it is computed in two parts.
LEMMA MarkupIsCeiling ==
    ASSUME NEW cost \in Nat
    PROVE  markup(cost) \in Nat /\ Covering(Markup(cost), cost)
<1> DEFINE B == MarkupBasisPoints
           q == cost \div Scale
           r == cost % Scale
           P == r * B
           m == (P + (Scale - 1)) \div Scale
           u == q * B
<1>1. Scale \in Nat \ {0} /\ B \in Nat
  BY MarkupAssumption
<1>2. q \in Nat /\ r \in Nat /\ cost = q * Scale + r
  BY <1>1, Quotient
<1>3. P \in Nat /\ u \in Nat
  <2> HIDE DEF q, r
  <2> QED BY <1>1, <1>2
<1>4. markup(cost) = u + m
  BY DEF markup
<1> HIDE DEF P
<1>5. m \in Nat /\ P <= m * Scale /\ (m - 1) * Scale < P
  BY <1>1, <1>3, RoundUp
<1> HIDE DEF q, r, B, m
<1>6. cost * B = u * Scale + P
  <2>1. (q * Scale + r) * B = (q * Scale) * B + r * B
    BY <1>1, <1>2, Distributes
  <2>2. (q * Scale) * B = (q * B) * Scale
    BY <1>1, <1>2
  <2> QED BY <1>2, <2>1, <2>2 DEF P
<1> HIDE DEF u
<1> DEFINE C == cost * Scale
           U == u * Scale
           y == m * Scale
           z == (m - 1) * Scale
<1>7. C \in Int /\ U \in Int /\ y \in Int /\ z \in Int
  BY <1>1, <1>3, <1>5
<1>8. cost * (Scale + B) = C + U + P
  <2>1. cost * (Scale + B) = cost * Scale + cost * B
    BY <1>1, Distributes
  <2> QED BY <1>1, <1>3, <1>6, <1>7, <2>1
<1>9. Markup(cost) = (cost + u) + m /\ Markup(cost) - 1 = (cost + u) + (m - 1)
  BY <1>3, <1>4, <1>5 DEF Markup
<1>10. ((cost + u) + m) * Scale = C + U + y
  BY <1>1, <1>3, <1>5, Distributes
<1>11. ((cost + u) + (m - 1)) * Scale = C + U + z
  BY <1>1, <1>3, <1>5, Distributes
<1>12. P <= y /\ z < P
  BY <1>5
<1> HIDE DEF C, U, y, z
<1>13. C + U + P <= C + U + y /\ C + U + z < C + U + P
  BY <1>3, <1>7, <1>12
<1>14. /\ cost * (Scale + B) <= Markup(cost) * Scale
       /\ (Markup(cost) - 1) * Scale < cost * (Scale + B)
  BY <1>8, <1>9, <1>10, <1>11, <1>13
<1> QED BY <1>3, <1>4, <1>5, <1>14 DEF Covering, B

\* Of panics over a cost exactly when no int64 covers it with its markup.
LEMMA HasMarkupFits ==
    ASSUME NEW cost \in 0 .. MaxInt
    PROVE  /\ HasMarkup(cost) <=> cost * (Scale + MarkupBasisPoints) <= MaxInt * Scale
           /\ HasMarkup(cost) => Markup(cost) \in 0 .. MaxInt /\ Covering(Markup(cost), cost)
<1> DEFINE M == Markup(cost)
           K == cost * (Scale + MarkupBasisPoints)
<1>1. Scale \in Nat \ {0} /\ MarkupBasisPoints \in Nat /\ MaxInt \in Nat /\ cost \in Nat
  BY MarkupAssumption
<1>2. markup(cost) \in Nat /\ Covering(M, cost)
  BY <1>1, MarkupIsCeiling
<1>3. M = cost + markup(cost)
  BY DEF Markup
<1>4. M \in Nat /\ (HasMarkup(cost) <=> M <= MaxInt)
  BY <1>1, <1>2, <1>3 DEF HasMarkup
<1>5. K \in Int
  BY <1>1
<1>6. K <= M * Scale /\ (M - 1) * Scale < K
  BY <1>2 DEF Covering
<1> HIDE DEF M, K
<1>7. ASSUME M <= MaxInt PROVE K <= MaxInt * Scale
  <2>1. (MaxInt - M) * Scale \in Nat /\ (MaxInt - M) * Scale = MaxInt * Scale - M * Scale
    BY <1>1, <1>4, <1>7, Distributes
  <2>2. MaxInt * Scale \in Int /\ M * Scale \in Int
    BY <1>1, <1>4
  <2> QED BY <1>5, <1>6, <2>1, <2>2
<1>8. ASSUME M > MaxInt PROVE K > MaxInt * Scale
  <2>1. /\ (M - 1 - MaxInt) * Scale \in Nat
        /\ (M - 1 - MaxInt) * Scale = (M - 1) * Scale - MaxInt * Scale
    BY <1>1, <1>4, <1>8, Distributes
  <2>2. MaxInt * Scale \in Int /\ (M - 1) * Scale \in Int
    BY <1>1, <1>4
  <2> QED BY <1>5, <1>6, <2>1, <2>2
<1>9. HasMarkup(cost) <=> K <= MaxInt * Scale
  <2>1. K <= MaxInt * Scale \/ K > MaxInt * Scale
    BY <1>1, <1>5
  <2>2. MaxInt * Scale \in Int
    BY <1>1
  <2> QED BY <1>1, <1>4, <1>5, <1>7, <1>8, <2>1, <2>2
<1> QED BY <1>2, <1>4, <1>9 DEF K, M

\* No step of the markup leaves int64, whatever the cost; that is why it is
\* computed in two parts (listprice.go:55-60).
THEOREM MarkupNeverOverflows ==
    ASSUME NEW cost \in 0 .. MaxInt
    PROVE  /\ (cost \div Scale) * MarkupBasisPoints \in 0 .. MaxInt
           /\ (cost % Scale) * MarkupBasisPoints + (Scale - 1) \in 0 .. MaxInt
           /\ markup(cost) \in 0 .. MaxInt
<1> DEFINE B == MarkupBasisPoints
           q == cost \div Scale
           r == cost % Scale
           P == r * B
           m == (P + (Scale - 1)) \div Scale
<1>1. /\ Scale \in Nat \ {0} /\ B \in Nat /\ MaxInt \in Nat /\ cost \in Nat /\ cost <= MaxInt
      /\ B <= Scale /\ Scale * (B + 1) <= MaxInt
  BY MarkupAssumption
<1>2. q \in Nat /\ r \in 0 .. Scale - 1 /\ cost = q * Scale + r
  BY <1>1, Quotient
<1>3. markup(cost) = q * B + m
  BY DEF markup
<1> HIDE DEF q, r, B
<1>4. q * B \in Nat /\ q * Scale \in Nat /\ q * B <= q * Scale
  <2>1. q * (Scale - B) \in Nat /\ q * (Scale - B) = q * Scale - q * B
    BY <1>1, <1>2, Distributes
  <2> QED BY <1>1, <1>2, <2>1
<1>5. P \in Nat /\ P <= r * Scale /\ P <= (Scale - 1) * B
  <2>1. r * (Scale - B) \in Nat /\ r * (Scale - B) = r * Scale - r * B
    BY <1>1, <1>2, Distributes
  <2>2. (Scale - 1 - r) * B \in Nat /\ (Scale - 1 - r) * B = (Scale - 1) * B - r * B
    BY <1>1, <1>2, Distributes
  <2>3. r * B \in Nat /\ r * Scale \in Int /\ (Scale - 1) * B \in Int
    BY <1>1, <1>2
  <2> QED BY <2>1, <2>2, <2>3
<1> HIDE DEF P
<1>6. P + (Scale - 1) \in 0 .. MaxInt
  <2>1. (Scale - 1) * B = Scale * B - B /\ Scale * (B + 1) = Scale * B + Scale
    BY <1>1, Distributes
  <2>2. Scale * B \in Nat
    BY <1>1
  <2> QED BY <1>1, <1>5, <2>1, <2>2
<1>7. m \in Nat /\ (m - 1) * Scale < P
  BY <1>1, <1>5, RoundUp
<1> HIDE DEF m
<1>8. m <= r
  <2>1. SUFFICES ASSUME m > r PROVE FALSE
    BY <1>2, <1>7
  <2>2. (m - 1 - r) * Scale \in Nat /\ (m - 1 - r) * Scale = (m - 1) * Scale - r * Scale
    BY <1>1, <1>2, <1>7, <2>1, Distributes
  <2>3. (m - 1) * Scale \in Int /\ r * Scale \in Int
    BY <1>1, <1>2, <1>7
  <2> QED BY <1>5, <1>7, <2>2, <2>3
<1>9. q * B \in 0 .. MaxInt /\ q * B + m \in 0 .. MaxInt
  BY <1>1, <1>2, <1>4, <1>7, <1>8
<1> QED BY <1>3, <1>6, <1>9 DEF q, r, B, P

----------------------------------------------------------------------------
(* The steps of Of.                                                        *)

\* Only these replies come from the calculator.
LEMMA AnswerKinds ==
    ASSUME NEW a \in Answer
    PROVE  /\ a.kind \in {"ok", "refused", "panic"}
           /\ a.kind = "ok" => a.nls \in 0 .. MaxInt /\ a = L!Reply("ok", a.nls)
           /\ a.kind # "ok" => a = L!Reply(a.kind, 0)
BY DEF Answer, L!Reply

\* The replies of the calculator are apart.
LEMMA RepliesApart ==
    ASSUME NEW n
    PROVE  /\ L!Reply("ok", n) # L!Reply("panic", 0)
           /\ L!Reply("ok", n) # L!Reply("refused", 0)
BY DEF L!Reply

LEMMA WithoutGeo ==
    ASSUME NEW u, u.kind = "claude", u \in Usage, NEW geo
    PROVE  LET d == [u EXCEPT !.InferenceGeo = geo]
           IN /\ d.kind = "claude" /\ d.Speed = u.Speed
              /\ L!Prompt(d) = L!Prompt(u) /\ L!Named(d) = L!Named(u)
BY DEF Usage, ClaudeUsage, OpenAIUsage, FireworksUsage, L!Prompt, L!Named

LEMMA Without1h ==
    ASSUME NEW u, u.kind = "claude", u \in Usage, NEW geo
    PROVE  LET d == [u EXCEPT !.CacheCreation1hInputTokens = 0]
               e == [[u EXCEPT !.InferenceGeo = geo] EXCEPT !.CacheCreation1hInputTokens = 0]
           IN /\ d.kind = "claude" /\ d.Speed = u.Speed
              /\ L!Prompt(d) = L!Prompt(u) /\ L!Named(d) = L!Named(u)
              /\ e.kind = "claude" /\ e.Speed = u.Speed
              /\ L!Prompt(e) = L!Prompt(u) /\ L!Named(e) = L!Named(u)
BY DEF Usage, ClaudeUsage, OpenAIUsage, FireworksUsage, L!Prompt, L!Named

\* A re-pricing is of the same prompt, service tier and speed.
LEMMA PricedUsages ==
    ASSUME NEW u \in Usage, NEW d \in Pricings(u)
    PROVE  /\ d = u \/ (u.kind = "claude" /\ d.kind = "claude" /\ d.Speed = u.Speed)
           /\ L!Prompt(d) = L!Prompt(u) /\ L!Named(d) = L!Named(u) /\ d.kind = u.kind
           /\ L!Countable(u) => L!Countable(d)
<1>1. CASE u.kind = "claude"
  <2> DEFINE noGeo == [u EXCEPT !.InferenceGeo = ""]
             no1h == [u EXCEPT !.CacheCreation1hInputTokens = 0]
             neither == [noGeo EXCEPT !.CacheCreation1hInputTokens = 0]
  <2>1. degraded(u) = <<noGeo, no1h, neither>>
    BY <1>1 DEF degraded
  <2>2. /\ noGeo.kind = "claude" /\ noGeo.Speed = u.Speed
        /\ L!Prompt(noGeo) = L!Prompt(u) /\ L!Named(noGeo) = L!Named(u)
    BY <1>1, WithoutGeo
  <2>3. /\ no1h.kind = "claude" /\ no1h.Speed = u.Speed
        /\ L!Prompt(no1h) = L!Prompt(u) /\ L!Named(no1h) = L!Named(u)
        /\ neither.kind = "claude" /\ neither.Speed = u.Speed
        /\ L!Prompt(neither) = L!Prompt(u) /\ L!Named(neither) = L!Named(u)
    BY <1>1, Without1h
  <2> HIDE DEF noGeo, no1h, neither
  <2>4. Pricings(u) = {u, noGeo, no1h, neither}
    BY <2>1 DEF Pricings
  <2>5. d = u \/ d = noGeo \/ d = no1h \/ d = neither
    BY <2>4
  <2>6. /\ d = u \/ (d.kind = "claude" /\ d.Speed = u.Speed)
        /\ L!Prompt(d) = L!Prompt(u) /\ L!Named(d) = L!Named(u) /\ d.kind = "claude"
    BY <1>1, <2>2, <2>3, <2>5
  <2> QED BY <1>1, <2>6 DEF L!Countable
<1>2. CASE u.kind # "claude"
  BY <1>2 DEF degraded, Pricings
<1> QED BY <1>1, <1>2

----------------------------------------------------------------------------
(* A price is only ever that of a listed tier and speed.                   *)

\* The calculator's names for the rates are the book's.
LEMMA OneCalculator ==
    /\ L!ServiceTiers = ServiceTiers
    /\ \A u, r : L!PremiumOk(u, r) <=> PremiumOk(u, r)
BY DEF L!ServiceTiers, ServiceTiers, L!PremiumOk, PremiumOk, L!Pinned, Pinned

\* What is priced is for sale, in a mode that has a factor.
LEMMA PricedIsForSale ==
    ASSUME NEW b, NEW model, NEW d, NEW n, L!Countable(d), L!Due(b, model, d, L!Reply("ok", n))
    PROVE  /\ L!ForSale(b, L!Meant(b, model), L!Named(d))
           /\ PremiumOk(d, L!ListPrice(b, L!Meant(b, model), L!Named(d)))
<1> DEFINE key == L!Meant(b, model)
           s == L!Named(d)
           r == L!ListPrice(b, key, s)
           a == L!Reply("ok", n)
           C == s \in L!ServiceTiers /\ L!ForSale(b, key, s) /\ L!PremiumOk(d, r)
<1>1. /\ L!Impossible(d) => a = L!Reply("panic", 0)
      /\ ~ L!Impossible(d) /\ ~ C => a = L!Reply("refused", 0)
  <2> HIDE DEF a
  <2>1. L!Due(b, model, d, a)
    BY DEF a
  <2> QED BY <2>1 DEF L!Due
<1>2. C
  <2> HIDE DEF C
  <2> QED BY <1>1, RepliesApart
<1> QED BY <1>2, OneCalculator

LEMMA PricedIsAccepted ==
    ASSUME NEW u \in Usages, NEW d \in Pricings(u), NEW n, NEW q, L!Countable(u),
           Answers(u, q), L!Due(book, q.model, d, L!Reply("ok", n))
    PROVE  Accepts(q)
<1> DEFINE key == L!Meant(book, q.model)
           r == L!ListPrice(book, key, q.tier)
<1>1. u \in Usage
  BY ResponseAssumption
<1>2. /\ d = u \/ (u.kind = "claude" /\ d.kind = "claude" /\ d.Speed = u.Speed)
      /\ L!Named(d) = L!Named(u) /\ d.kind = u.kind /\ L!Countable(d)
  BY <1>1, PricedUsages
<1>3. L!Named(d) = q.tier
  BY <1>2 DEF Answers
<1>4. L!ForSale(book, key, q.tier) /\ PremiumOk(d, r)
  BY <1>2, <1>3, PricedIsForSale
<1>5. key = resolve(book, q.model)
  BY DEF L!Meant, resolve
<1>6. q.tier \in TiersOf(book, q.model)
  BY <1>4, <1>5 DEF L!ForSale, TiersOf
<1>7. RatesFor(book, q.model, q.tier) = r
  BY <1>5 DEF RatesFor, L!ListPrice
<1>8. q.speed \in {"", "standard"} \/ (q.speed = "fast" /\ r.Fast # Nil)
  BY <1>2, <1>4 DEF Answers, Ordinary, PremiumOk
<1> QED BY <1>6, <1>7, <1>8 DEF Accepts

----------------------------------------------------------------------------
(* The invariant.                                                          *)

Replies == [kind: {"idle", "ok", "refused", "panic"}, cost: Int64, price: Int64,
            source: {"", "llmcost", "override", "degraded"}]

LEMMA ReplyType ==
    ASSUME NEW kind \in {"idle", "ok", "refused", "panic"}, NEW cost \in Int64, NEW price \in Int64,
           NEW from \in {"", "llmcost", "override", "degraded"}
    PROVE  Reply(kind, cost, price, from) \in Replies
BY DEF Reply, Replies

LEMMA NoReplyType == NoReply \in Replies /\ NoReply.kind = "idle"
<1>1. 0 \in Int64
  BY IntAssumption DEF Int64
<1>2. Reply("idle", 0, 0, "").kind = "idle"
  BY DEF Reply
<1>3. Reply("idle", 0, 0, "") \in Replies
  BY <1>1, ReplyType
<1> QED BY <1>2, <1>3 DEF NoReply

LEMMA InitInv == Init => PriceInv
<1> SUFFICES ASSUME Init PROVE PriceInv
  OBVIOUS
<1>1. reply \in Replies /\ reply.kind = "idle" /\ reply = NoReply
  BY NoReplyType DEF Init
<1>2. accepted \in BOOLEAN
  BY Zenon DEF Init
<1>3. TypeOK
  <2>1. pc = "new" /\ request = NoRequest /\ usage = NoUsage /\ tries = <<>>
    BY DEF Init
  <2>2. tries \in Seq(Pricings(usage))
    BY <2>1
  <2> QED BY <1>1, <1>2, <2>1, <2>2 DEF TypeOK, Replies
<1>4. OfInv /\ PriceIsCeiling
  BY <1>1 DEF Init, OfInv, PriceIsCeiling
<1> QED BY <1>3, <1>4 DEF PriceInv

\* The steps of a caller leave no price behind.
LEMMA CallerKeepsInv ==
    ASSUME PriceInv, NEW snap, NEW cur, NEW q, NEW u,
           \/ NewBook(snap, cur) \/ Continue
           \/ q \in Requests /\ Ask(q)
           \/ u \in Usages /\ Of(u)
    PROVE  PriceInv'
<1> USE DEF PriceInv
<1>1. reply' = NoReply
  BY DEF OfInv, NewBook, Ask, Of, Continue
<1>2. reply'.kind = "idle" /\ reply' \in Replies
  BY <1>1, NoReplyType
<1>3. tries' = <<>>
  BY DEF OfInv, NewBook, Ask, Of, Continue
<1>4. TypeOK'
  <2>1. tries' \in Seq(Pricings(usage'))
    BY <1>3
  <2>2. accepted' \in BOOLEAN
    BY Zenon DEF TypeOK, NewBook, Ask, Accepts, Of, Continue
  <2>3. /\ pc' \in {"new", "rejected", "idle", "asked", "exact", "degrading", "returned"}
        /\ request' \in Requests \cup {NoRequest} /\ usage' \in Usages \cup {NoUsage}
    BY DEF TypeOK, NewBook, Ask, Of, Continue
  <2> QED BY <1>2, <2>1, <2>2, <2>3 DEF TypeOK, Replies
<1>5. OfInv'
  <2>1. /\ pc' \in {"exact", "degrading", "returned"} => usage' \in Usages /\ Answers(usage', request')
        /\ pc' # "degrading" => tries' = <<>>
    BY <1>3 DEF OfInv, NewBook, Ask, Of, Continue
  <2>2. pc' \in {"asked", "exact", "degrading", "returned"} => (accepted' <=> Accepts(request)')
    <3>1. CASE NewBook(snap, cur)
      BY <3>1 DEF NewBook
    <3>2. CASE Ask(q)
      BY <3>2 DEF Ask, Accepts
    <3>3. CASE Of(u)
      BY <3>3 DEF Of, Accepts, OfInv
    <3>4. CASE Continue
      BY <3>4 DEF Continue
    <3> QED BY <3>1, <3>2, <3>3, <3>4
  <2> QED BY <1>1, <1>2, <2>1, <2>2 DEF OfInv
<1>6. PriceIsCeiling'
  BY <1>2 DEF PriceIsCeiling
<1> QED BY <1>4, <1>5, <1>6

\* Of returns the ceiling of a cost, or panics over one that has none.
LEMMA ReturnKeepsInv ==
    ASSUME PriceInv, pc \in {"exact", "degrading"},
           NEW d \in Pricings(usage), NEW a \in Answer, Costed(d, a), NEW from \in {"llmcost", "override", "degraded"},
           (a.kind = "ok" /\ Sell(a.nls, from)) \/ (a.kind = "panic" /\ Panic)
    PROVE  PriceInv'
<1> USE DEF PriceInv
<1>1. /\ pc' = "returned" /\ tries' = <<>>
      /\ UNCHANGED <<book, request, accepted, usage>>
  BY DEF Sell, Panic, Return
<1>2. a.kind = "ok" => a.nls \in 0 .. MaxInt /\ a = L!Reply("ok", a.nls)
  BY AnswerKinds
<1>3. a.kind = "panic" => a = L!Reply("panic", 0)
  BY AnswerKinds
<1>4. L!Due(book, request.model, d, a)
  BY DEF Costed
<1>5. \/ /\ a.kind = "ok" /\ HasMarkup(a.nls)
         /\ reply' = Reply("ok", a.nls, Markup(a.nls), from)
      \/ /\ a.kind = "panic" \/ (a.kind = "ok" /\ ~ HasMarkup(a.nls))
         /\ reply' = Reply("panic", 0, 0, "")
  BY DEF Sell, Panic, Return
<1>6. a.kind = "ok" =>
         /\ HasMarkup(a.nls) <=> a.nls * (Scale + MarkupBasisPoints) <= MaxInt * Scale
         /\ HasMarkup(a.nls) => Markup(a.nls) \in 0 .. MaxInt /\ Covering(Markup(a.nls), a.nls)
  BY <1>2, HasMarkupFits
<1> DEFINE yes == Reply("ok", a.nls, Markup(a.nls), from)
           no == Reply("panic", 0, 0, "")
<1>51. /\ yes.kind = "ok" /\ yes.cost = a.nls /\ yes.price = Markup(a.nls)
       /\ no.kind = "panic"
  BY DEF Reply
<1>7. reply' \in Replies
  <2>1. 0 .. MaxInt \subseteq Int64 /\ 0 \in Int64
    BY DEF Int64
  <2>2. Reply("panic", 0, 0, "") \in Replies
    BY <2>1, ReplyType
  <2>3. a.kind = "ok" /\ HasMarkup(a.nls) => Reply("ok", a.nls, Markup(a.nls), from) \in Replies
    BY <1>2, <1>6, <2>1, ReplyType
  <2> QED BY <1>5, <2>2, <2>3
<1>8. TypeOK'
  <2>1. accepted' \in BOOLEAN
    BY <1>1, Zenon DEF TypeOK
  <2>2. request' \in Requests \cup {NoRequest} /\ usage' \in Usages \cup {NoUsage}
    BY <1>1 DEF TypeOK
  <2>3. tries' \in Seq(Pricings(usage'))
    BY <1>1
  <2> QED BY <1>1, <1>7, <2>1, <2>2, <2>3 DEF TypeOK, Replies
<1>9. reply'.kind = "ok" => /\ reply'.cost = a.nls /\ reply'.price = Markup(a.nls)
                            /\ a.kind = "ok" /\ HasMarkup(a.nls)
  BY <1>5, <1>51
<1>10. reply'.kind = "panic" => a.kind = "panic" \/ (a.kind = "ok" /\ ~ HasMarkup(a.nls))
  BY <1>5, <1>51
<1>11. OfInv'
  <2>1. usage' \in Usages /\ Answers(usage', request')
    BY <1>1 DEF OfInv
  <2>2. accepted' <=> Accepts(request)'
    BY <1>1 DEF OfInv, Accepts
  <2>3. reply'.kind = "ok" =>
           \E e \in Pricings(usage') : L!Due(book', request'.model, e, L!Reply("ok", reply'.cost))
    BY <1>1, <1>2, <1>4, <1>9
  <2> QED BY <1>1, <2>1, <2>2, <2>3 DEF OfInv
<1>12. PriceIsCeiling'
  <2>1. reply'.kind = "ok" => Covering(reply'.price, reply'.cost)
    BY <1>6, <1>9
  <2>2. a.kind = "panic" =>
           \E e \in Pricings(usage') : L!Due(book', request'.model, e, L!Reply("panic", 0))
    BY <1>1, <1>3, <1>4
  <2>3. a.kind = "ok" /\ ~ HasMarkup(a.nls) =>
           a.nls * (Scale + MarkupBasisPoints) > MaxInt * Scale
    BY <1>2, <1>6, MarkupAssumption
  <2>4. a.kind = "ok" /\ ~ HasMarkup(a.nls) =>
           \E e \in Pricings(usage') : \E n \in 0 .. MaxInt :
              /\ L!Due(book', request'.model, e, L!Reply("ok", n))
              /\ n * (Scale + MarkupBasisPoints) > MaxInt * Scale
    BY <1>1, <1>2, <1>4, <2>3
  <2> QED BY <1>10, <2>1, <2>2, <2>4 DEF PriceIsCeiling
<1> QED BY <1>8, <1>11, <1>12

\* While Of is at work there is no reply, and the next usage is a re-pricing.
LEMMA TriesArePricings ==
    ASSUME PriceInv, pc = "degrading", tries # <<>>
    PROVE  /\ Head(tries) \in Pricings(usage) /\ Tail(tries) \in Seq(Pricings(usage))
<1> DEFINE P == Pricings(usage)
<1>1. tries \in Seq(P)
  BY DEF PriceInv, TypeOK
<1> HIDE DEF P
<1>2. Head(tries) \in P /\ Tail(tries) \in Seq(P)
  BY <1>1
<1> QED BY <1>2 DEF P

\* The usages that are left are those of the response.
LEMMA RefusalKeepsInv ==
    ASSUME PriceInv, pc \in {"exact", "degrading"}, pc' = "degrading",
           tries' \in Seq(Pricings(usage)),
           UNCHANGED <<book, request, accepted, usage, reply>>
    PROVE  PriceInv'
<1> USE DEF PriceInv
<1>1. reply' = NoReply /\ reply' \in Replies /\ reply'.kind = "idle"
  BY NoReplyType DEF OfInv
<1>2. TypeOK'
  <2>1. accepted' \in BOOLEAN
    BY Zenon DEF TypeOK
  <2>2. request' \in Requests \cup {NoRequest} /\ usage' \in Usages \cup {NoUsage}
    BY DEF TypeOK
  <2> QED BY <1>1, <2>1, <2>2 DEF TypeOK, Replies
<1>3. OfInv'
  <2>1. usage' \in Usages /\ Answers(usage', request')
    BY DEF OfInv
  <2>2. accepted' <=> Accepts(request)'
    BY DEF OfInv, Accepts
  <2> QED BY <1>1, <2>1, <2>2 DEF OfInv
<1>4. PriceIsCeiling'
  BY <1>1 DEF PriceIsCeiling
<1> QED BY <1>2, <1>3, <1>4

\* A refusal is no price.
LEMMA NoPriceKeepsInv ==
    ASSUME PriceInv, NoPrice
    PROVE  PriceInv'
<1> USE DEF PriceInv
<1>1. /\ pc = "degrading" /\ pc' = "returned" /\ tries' = <<>>
      /\ UNCHANGED <<book, request, accepted, usage>>
      /\ reply' = Reply("refused", 0, 0, "")
  BY DEF NoPrice, Return
<1>2. Reply("refused", 0, 0, "").kind = "refused"
  BY DEF Reply
<1>3. Reply("refused", 0, 0, "") \in Replies
  <2>1. 0 \in Int64
    BY DEF Int64
  <2> QED BY <2>1, ReplyType
<1>4. reply'.kind = "refused" /\ reply' \in Replies
  BY <1>1, <1>2, <1>3
<1>5. TypeOK'
  <2>1. accepted' \in BOOLEAN
    BY <1>1, Zenon DEF TypeOK
  <2>2. request' \in Requests \cup {NoRequest} /\ usage' \in Usages \cup {NoUsage}
    BY <1>1 DEF TypeOK
  <2>3. tries' \in Seq(Pricings(usage'))
    <3>1. tries' = <<>>
      BY <1>1
    <3>2. <<>> \in Seq(Pricings(usage'))
      OBVIOUS
    <3> QED BY <3>1, <3>2
  <2> QED BY <1>1, <1>4, <2>1, <2>2, <2>3 DEF TypeOK, Replies
<1>6. OfInv'
  <2>1. usage' \in Usages /\ Answers(usage', request')
    BY <1>1 DEF OfInv
  <2>2. accepted' <=> Accepts(request)'
    BY <1>1 DEF OfInv, Accepts
  <2> QED BY <1>1, <1>4, <2>1, <2>2 DEF OfInv
<1>7. PriceIsCeiling'
  BY <1>4 DEF PriceIsCeiling
<1> QED BY <1>5, <1>6, <1>7

LEMMA StepKeepsInv ==
    ASSUME PriceInv, NEW a \in Answer, OfExact(a) \/ OfDegraded(a)
    PROVE  PriceInv'
<1>1. CASE OfExact(a)
  <2>1. pc = "exact" /\ Costed(usage, a) /\ usage \in Pricings(usage)
    BY <1>1 DEF OfExact, Pricings
  <2>2. CASE a.kind = "refused"
    <3>1. degraded(usage) \in Seq(Pricings(usage))
      <4> DEFINE P == Pricings(usage)
      <4>1. \A i \in DOMAIN degraded(usage) : degraded(usage)[i] \in P
        BY DEF Pricings
      <4>2. degraded(usage) = <<>> \/ \E a1, a2, a3 : degraded(usage) = <<a1, a2, a3>>
        BY DEF degraded
      <4> HIDE DEF P
      <4>3. ASSUME NEW a1, NEW a2, NEW a3, degraded(usage) = <<a1, a2, a3>>
            PROVE  degraded(usage) \in Seq(P)
        BY <4>1, <4>3
      <4>4. <<>> \in Seq(P)
        OBVIOUS
      <4>5. degraded(usage) \in Seq(P)
        BY <4>2, <4>3, <4>4
      <4> QED BY <4>5 DEF P
    <3> QED BY <1>1, <2>1, <2>2, <3>1, RefusalKeepsInv DEF OfExact
  <2>3. CASE a.kind # "refused"
    <3>1. source(book, request.model) \in {"llmcost", "override", "degraded"}
      BY DEF source
    <3>2. \/ a.kind = "ok" /\ Sell(a.nls, source(book, request.model))
          \/ a.kind = "panic" /\ Panic
      BY <1>1, <2>3 DEF OfExact
    <3>3. PICK from \in {"llmcost", "override", "degraded"} : from = source(book, request.model)
      BY <3>1
    <3>4. (a.kind = "ok" /\ Sell(a.nls, from)) \/ (a.kind = "panic" /\ Panic)
      BY <3>2, <3>3 DEF Sell, Return
    <3>5. PICK d \in Pricings(usage) : d = usage
      BY <2>1
    <3> QED BY <2>1, <3>4, <3>5, ReturnKeepsInv
  <2> QED BY <2>2, <2>3
<1>2. CASE OfDegraded(a)
  <2>1. /\ pc = "degrading" /\ Costed(Head(tries), a)
        /\ Head(tries) \in Pricings(usage) /\ Tail(tries) \in Seq(Pricings(usage))
    BY <1>2, TriesArePricings DEF OfDegraded
  <2>2. CASE a.kind = "refused"
    BY <1>2, <2>1, <2>2, RefusalKeepsInv DEF OfDegraded
  <2>3. CASE a.kind # "refused"
    <3>1. (a.kind = "ok" /\ Sell(a.nls, "degraded")) \/ (a.kind = "panic" /\ Panic)
      BY <1>2, <2>3 DEF OfDegraded
    <3>2. PICK d \in Pricings(usage) : d = Head(tries)
      BY <2>1
    <3> QED BY <2>1, <3>1, <3>2, ReturnKeepsInv
  <2> QED BY <2>2, <2>3
<1> QED BY <1>1, <1>2

LEMMA NextInv == PriceInv /\ [Next]_vars => PriceInv'
<1> SUFFICES ASSUME PriceInv, [Next]_vars PROVE PriceInv'
  OBVIOUS
<1>1. ASSUME NEW snap \in Snapshots, NEW cur \in Curations, NewBook(snap, cur) PROVE PriceInv'
  BY <1>1, CallerKeepsInv
<1>2. ASSUME NEW q \in Requests, Ask(q) PROVE PriceInv'
  BY <1>2, CallerKeepsInv
<1>3. ASSUME NEW u \in Usages, Of(u) PROVE PriceInv'
  BY <1>3, CallerKeepsInv
<1>4. CASE Step
  BY <1>4, StepKeepsInv, NoPriceKeepsInv DEF Step
<1>5. CASE Continue
  BY <1>5, CallerKeepsInv
<1>6. CASE UNCHANGED vars
  <2>1. /\ UNCHANGED <<pc, book, request, accepted, usage>>
        /\ UNCHANGED <<tries, reply>>
    BY <1>6 DEF vars
  <2>2. TypeOK'
    BY <2>1, Zenon DEF PriceInv, TypeOK
  <2>3. PriceIsCeiling'
    BY <2>1 DEF PriceInv, PriceIsCeiling
  <2>4. OfInv'
    BY <2>1 DEF PriceInv, OfInv, Accepts
  <2> QED BY <2>2, <2>3, <2>4 DEF PriceInv
<1> QED BY <1>1, <1>2, <1>3, <1>4, <1>5, <1>6 DEF Next

LEMMA PriceInvariance == Spec => []PriceInv
<1>1. Init => PriceInv
  BY InitInv
<1>2. PriceInv /\ [Next]_vars => PriceInv'
  BY NextInv
<1> QED BY <1>1, <1>2, PTL DEF Spec

----------------------------------------------------------------------------
(* The theorems.                                                           *)

\* Of always works on a re-pricing of the response it was given, and no
\* price leaves int64 (listprice.go:51-63, table.go:73-83).
THEOREM TypeCorrect == Spec => []TypeOK
<1>1. PriceInv => TypeOK
  BY DEF PriceInv
<1> QED BY <1>1, PriceInvariance, PTL

\* The list price is the ceiling of cost and markup, for every markup and
\* width of int64, and Of panics only over impossible counts or a price
\* that no int64 holds (listprice.go:51-63).
THEOREM PricesAreCeilings == Spec => []PriceIsCeiling
<1>1. PriceInv => PriceIsCeiling
  BY DEF PriceInv
<1> QED BY <1>1, PriceInvariance, PTL

\* A request Priceable rejects has no list price whatever its response
\* reports and whatever of that is dropped (listprice.go:78-83,
\* table.go:85-109), while the counts of the response add up in int64.
THEOREM RejectedIsNeverPriced == Countable => (Spec => []RejectedHasNoPrice)
<1> SUFFICES ASSUME Countable PROVE Spec => []RejectedHasNoPrice
  OBVIOUS
<1>1. PriceInv => RejectedHasNoPrice
  <2> SUFFICES ASSUME PriceInv, reply.kind = "ok" PROVE accepted
    BY DEF RejectedHasNoPrice
  <2>1. pc = "returned"
    BY NoReplyType DEF PriceInv, OfInv
  <2>2. usage \in Usages /\ Answers(usage, request) /\ (accepted <=> Accepts(request))
    BY <2>1 DEF PriceInv, OfInv
  <2>3. PICK d \in Pricings(usage) : L!Due(book, request.model, d, L!Reply("ok", reply.cost))
    BY DEF PriceInv, OfInv
  <2>4. L!Countable(usage)
    BY <2>2 DEF Countable
  <2>5. Accepts(request)
    BY <2>2, <2>3, <2>4, PricedIsAccepted
  <2> QED BY <2>2, <2>5
<1> QED BY <1>1, PriceInvariance, PTL

----------------------------------------------------------------------------
(* The re-pricings are tried in their order, and only after a refusal.     *)

LEMMA DegradedIsSeq ==
    ASSUME NEW u
    PROVE  degraded(u) \in Seq(Pricings(u))
<1> DEFINE P == Pricings(u)
<1>1. \A i \in DOMAIN degraded(u) : degraded(u)[i] \in P
  BY DEF Pricings
<1>2. degraded(u) = <<>> \/ \E a1, a2, a3 : degraded(u) = <<a1, a2, a3>>
  BY DEF degraded
<1> HIDE DEF P
<1>3. ASSUME NEW a1, NEW a2, NEW a3, degraded(u) = <<a1, a2, a3>>
      PROVE  degraded(u) \in Seq(P)
  BY <1>1, <1>3
<1>4. <<>> \in Seq(P)
  OBVIOUS
<1>5. degraded(u) \in Seq(P)
  BY <1>2, <1>3, <1>4
<1> QED BY <1>5 DEF P

\* What is left of a sequence after n of its members.
LEMMA Remaining ==
    ASSUME NEW P, NEW s \in Seq(P), NEW n \in 0 .. Len(s)
    PROVE  /\ Len(s) \in Nat /\ DOMAIN s = 1 .. Len(s)
           /\ SubSeq(s, n + 1, Len(s)) = <<>> <=> n = Len(s)
           /\ n # Len(s) => /\ Head(SubSeq(s, n + 1, Len(s))) = s[n + 1]
                            /\ Tail(SubSeq(s, n + 1, Len(s))) = SubSeq(s, n + 2, Len(s))
           /\ SubSeq(s, 1, Len(s)) = s
<1>0. DOMAIN s = 1 .. Len(s)
  OBVIOUS
<1>1. Len(s) \in Nat /\ n \in Nat /\ n <= Len(s)
  OBVIOUS
<1>2. n = Len(s) => SubSeq(s, n + 1, Len(s)) = <<>>
  BY <1>1, SubSeqEmpty
<1>3. ASSUME n # Len(s)
      PROVE  /\ SubSeq(s, n + 1, Len(s)) # <<>>
             /\ Head(SubSeq(s, n + 1, Len(s))) = s[n + 1]
             /\ Tail(SubSeq(s, n + 1, Len(s))) = SubSeq(s, n + 2, Len(s))
  <2>1. n + 1 \in 1 .. Len(s) /\ Len(s) \in n + 1 .. Len(s) /\ n + 1 \in Int /\ Len(s) \in Int
    BY <1>1, <1>3
  <2>2. \A i \in n + 1 .. Len(s) : s[i] \in P
    BY <1>1, <2>1
  <2>3. Len(SubSeq(s, n + 1, Len(s))) = Len(s) - (n + 1) + 1
    BY <2>1, <2>2, SubSeqProperties
  <2>4. Len(SubSeq(s, n + 1, Len(s))) # 0
    BY <1>1, <1>3, <2>3
  <2>5. SubSeq(s, n + 1, Len(s)) # <<>>
    <3>1. Len(<<>>) = 0
      OBVIOUS
    <3> QED BY <2>4, <3>1
  <2>6. /\ Head(SubSeq(s, n + 1, Len(s))) = s[n + 1]
        /\ Tail(SubSeq(s, n + 1, Len(s))) = SubSeq(s, (n + 1) + 1, Len(s))
    BY <2>1, HeadTailOfSubSeq
  <2>7. (n + 1) + 1 = n + 2
    BY <1>1
  <2> QED BY <2>5, <2>6, <2>7
<1>4. SubSeq(s, 1, Len(s)) = s
  BY SubSeqFull
<1> QED BY <1>0, <1>1, <1>2, <1>3, <1>4

LEMMA InitTrial == Init => TrialInv
BY NoReplyType DEF Init, TrialInv

\* The steps of a caller: the book is built once, and nothing is on trial.
LEMMA CallerKeepsTrial ==
    ASSUME PriceInv, TrialInv,
           \/ \E snap \in Snapshots, cur \in Curations : NewBook(snap, cur)
           \/ \E q \in Requests : Ask(q)
           \/ \E u \in Usages : Of(u)
           \/ Continue
    PROVE  TrialInv'
<1>1. reply' = NoReply
  BY Zenon DEF PriceInv, OfInv, NewBook, Ask, Of, Continue
<1>2. reply'.kind = "idle" /\ pc' # "degrading"
  BY <1>1, NoReplyType DEF NewBook, Ask, Of, Continue
<1>3. pc' \notin {"new", "rejected"} => InForce(book')
  <2>1. CASE \E snap \in Snapshots, cur \in Curations : NewBook(snap, cur)
    <3>1. PICK snap \in Snapshots, cur \in Curations : NewBook(snap, cur)
      BY <2>1
    <3> QED BY <3>1 DEF NewBook, InForce
  <2>2. CASE ~ \E snap \in Snapshots, cur \in Curations : NewBook(snap, cur)
    <3>1. book' = book /\ pc \notin {"new", "rejected"}
      BY <2>2 DEF Ask, Of, Continue
    <3> QED BY <3>1 DEF TrialInv
  <2> QED BY <2>1, <2>2
<1> QED BY <1>2, <1>3 DEF TrialInv

\* A sale's record names what was priced, and a panic's names nothing.
LEMMA SoldRecord ==
    ASSUME NEW cost, NEW from, Sell(cost, from)
    PROVE  /\ pc' = "returned" /\ UNCHANGED <<book, request, usage>>
           /\ \/ reply'.kind = "ok" /\ reply'.cost = cost /\ reply'.source = from
              \/ reply'.kind = "panic"
<1>1. CASE HasMarkup(cost)
  <2>1. Return(Reply("ok", cost, Markup(cost), from))
    BY <1>1 DEF Sell
  <2>2. /\ Reply("ok", cost, Markup(cost), from).kind = "ok"
        /\ Reply("ok", cost, Markup(cost), from).cost = cost
        /\ Reply("ok", cost, Markup(cost), from).source = from
    BY DEF Reply
  <2> QED BY <2>1, <2>2 DEF Return
<1>2. CASE ~ HasMarkup(cost)
  <2>1. Return(Reply("panic", 0, 0, ""))
    BY <1>2 DEF Sell, Panic
  <2>2. Reply("panic", 0, 0, "").kind = "panic"
    BY DEF Reply
  <2> QED BY <2>1, <2>2 DEF Return
<1> QED BY <1>1, <1>2

\* The first refusal puts every re-pricing on trial.
LEMMA ExactKeepsTrial ==
    ASSUME PriceInv, TrialInv, NEW a \in Answer, OfExact(a)
    PROVE  TrialInv'
<1>1. pc = "exact" /\ Costed(usage, a) /\ InForce(book)
  BY DEF OfExact, TrialInv
<1>2. reply = NoReply /\ reply.kind = "idle"
  BY <1>1, NoReplyType DEF PriceInv, OfInv
<1>3. CASE a.kind = "ok"
  <2>1. Sell(a.nls, source(book, request.model)) /\ a = L!Reply("ok", a.nls)
    BY <1>3, AnswerKinds DEF OfExact
  <2>2. source(book, request.model) # "degraded"
    BY DEF source
  <2>3. /\ pc' = "returned" /\ UNCHANGED <<book, request, usage>>
        /\ \/ reply'.kind = "ok" /\ reply'.cost = a.nls /\ reply'.source # "degraded"
           \/ reply'.kind = "panic"
    BY <2>1, <2>2, SoldRecord
  <2> QED BY <1>1, <2>1, <2>3 DEF TrialInv, Costed
<1>4. CASE a.kind = "panic"
  <2>1. Panic
    BY <1>4 DEF OfExact
  <2>2. pc' = "returned" /\ book' = book /\ reply'.kind = "panic"
    BY <2>1 DEF Panic, Return, Reply
  <2> QED BY <1>1, <2>2 DEF TrialInv
<1>5. CASE a.kind = "refused"
  <2>1. /\ pc' = "degrading" /\ tries' = degraded(usage)
        /\ UNCHANGED <<book, request, usage, reply>> /\ a = L!Reply("refused", 0)
    BY <1>5, AnswerKinds DEF OfExact
  <2>2. Refused(usage) /\ RefusedUpTo(0)
    BY <1>1, <2>1 DEF Refused, RefusedUpTo
  <2>3. 0 \in 0 .. Len(degraded(usage))
    BY DegradedIsSeq
  <2>4. degraded(usage) = SubSeq(degraded(usage), 0 + 1, Len(degraded(usage)))
    BY <2>3, DegradedIsSeq, Remaining
  <2>5. RefusedUpTo(0)' /\ degraded(usage)' = degraded(usage)
    BY <2>1, <2>2 DEF RefusedUpTo, Refused, Costed
  <2>6. \E n \in 0 .. Len(degraded(usage))' :
           RefusedUpTo(n)' /\ tries' = SubSeq(degraded(usage)', n + 1, Len(degraded(usage)'))
    BY <2>1, <2>3, <2>4, <2>5
  <2> QED BY <1>1, <1>2, <2>1, <2>6 DEF TrialInv
<1> QED BY <1>3, <1>4, <1>5, AnswerKinds

\* A re-pricing is sold, or is one more that was refused.
LEMMA DegradedKeepsTrial ==
    ASSUME PriceInv, TrialInv, NEW a \in Answer, OfDegraded(a)
    PROVE  TrialInv'
<1>1. pc = "degrading" /\ tries # <<>> /\ Costed(Head(tries), a) /\ InForce(book)
  BY DEF OfDegraded, TrialInv
<1>2. reply = NoReply /\ reply.kind = "idle"
  BY <1>1, NoReplyType DEF PriceInv, OfInv
<1>3. PICK n \in 0 .. Len(degraded(usage)) :
         RefusedUpTo(n) /\ tries = SubSeq(degraded(usage), n + 1, Len(degraded(usage)))
  BY <1>1 DEF TrialInv
<1>4. /\ n + 1 \in DOMAIN degraded(usage) /\ n + 1 \in 0 .. Len(degraded(usage))
      /\ Head(tries) = degraded(usage)[n + 1]
      /\ Tail(tries) = SubSeq(degraded(usage), n + 2, Len(degraded(usage)))
  BY <1>1, <1>3, DegradedIsSeq, Remaining
<1>5. CASE a.kind = "ok"
  <2>1. Sell(a.nls, "degraded") /\ a = L!Reply("ok", a.nls)
    BY <1>5, AnswerKinds DEF OfDegraded
  <2>2. /\ pc' = "returned" /\ UNCHANGED <<book, request, usage>>
        /\ \/ reply'.kind = "ok" /\ reply'.cost = a.nls /\ reply'.source = "degraded"
           \/ reply'.kind = "panic"
    BY <2>1, SoldRecord
  <2>3. RefusedUpTo(n)' /\ degraded(usage)' = degraded(usage)
    BY <1>3, <2>2 DEF RefusedUpTo, Refused, Costed
  <2>4. Costed(degraded(usage)[n + 1], L!Reply("ok", a.nls))'
    BY <1>1, <1>4, <2>1, <2>2 DEF Costed
  <2>5. RefusedUpTo((n + 1) - 1)'
    <3>1. (n + 1) - 1 = n
      OBVIOUS
    <3> QED BY <2>3, <3>1
  <2>6. reply'.kind = "ok" =>
           /\ reply'.source = "degraded"
           /\ \E m \in DOMAIN degraded(usage)' :
                 RefusedUpTo(m - 1)' /\ Costed(degraded(usage)[m], L!Reply("ok", reply.cost))'
    BY <1>4, <2>1, <2>2, <2>3, <2>4, <2>5
  <2>7. reply'.kind # "refused" /\ pc' # "degrading" /\ book' = book
    BY <2>2
  <2> QED BY <1>1, <2>6, <2>7 DEF TrialInv
<1>6. CASE a.kind = "panic"
  <2>1. Panic
    BY <1>6 DEF OfDegraded
  <2>2. pc' = "returned" /\ book' = book /\ reply'.kind = "panic"
    BY <2>1 DEF Panic, Return, Reply
  <2> QED BY <1>1, <2>2 DEF TrialInv
<1>7. CASE a.kind = "refused"
  <2>1. /\ tries' = Tail(tries) /\ UNCHANGED <<pc, book, request, usage, reply>>
        /\ a = L!Reply("refused", 0)
    BY <1>7, AnswerKinds DEF OfDegraded
  <2>2. Refused(degraded(usage)[n + 1])
    BY <1>1, <1>4, <2>1 DEF Refused
  <2>3. RefusedUpTo(n + 1)
    BY <1>3, <2>2 DEF RefusedUpTo
  <2>4. RefusedUpTo(n + 1)' /\ degraded(usage)' = degraded(usage)
    BY <2>1, <2>3 DEF RefusedUpTo, Refused, Costed
  <2>5. n + 2 = (n + 1) + 1
    OBVIOUS
  <2>6. \E m \in 0 .. Len(degraded(usage))' :
           RefusedUpTo(m)' /\ tries' = SubSeq(degraded(usage)', m + 1, Len(degraded(usage)'))
    BY <1>4, <2>1, <2>4, <2>5
  <2> QED BY <1>1, <1>2, <2>1, <2>6 DEF TrialInv
<1> QED BY <1>5, <1>6, <1>7, AnswerKinds

\* Of refuses when every re-pricing was.
LEMMA NoPriceKeepsTrial ==
    ASSUME PriceInv, TrialInv, NoPrice
    PROVE  TrialInv'
<1>1. /\ pc = "degrading" /\ tries = <<>> /\ pc' = "returned"
      /\ UNCHANGED <<book, request, usage>> /\ reply' = Reply("refused", 0, 0, "")
  BY DEF NoPrice, Return
<1>2. PICK n \in 0 .. Len(degraded(usage)) :
         RefusedUpTo(n) /\ tries = SubSeq(degraded(usage), n + 1, Len(degraded(usage)))
  BY <1>1 DEF TrialInv
<1>3. RefusedUpTo(Len(degraded(usage)))
  BY <1>1, <1>2, DegradedIsSeq, Remaining
<1>4. RefusedUpTo(Len(degraded(usage)))'
  BY <1>1, <1>3 DEF RefusedUpTo, Refused, Costed
<1>5. reply'.kind = "refused"
  BY <1>1 DEF Reply
<1> QED BY <1>1, <1>4, <1>5 DEF TrialInv

\* Both invariants hold in every reachable state.
LEMMA TrialInvariance == Spec => [](PriceInv /\ TrialInv)
<1>1. Init => TrialInv
  BY InitTrial
<1>2. PriceInv /\ TrialInv /\ [Next]_vars => TrialInv'
  <2> SUFFICES ASSUME PriceInv, TrialInv, [Next]_vars PROVE TrialInv'
    OBVIOUS
  <2>1. CASE Next
    BY <2>1, CallerKeepsTrial, ExactKeepsTrial, DegradedKeepsTrial, NoPriceKeepsTrial
       DEF Next, Step
  <2>2. CASE UNCHANGED vars
    <3>1. UNCHANGED <<pc, book, request, usage>> /\ UNCHANGED <<tries, reply>>
      BY <2>2 DEF vars
    <3>2. TrialInv'
      BY <3>1 DEF TrialInv, RefusedUpTo, Refused, Costed
    <3> QED BY <3>2
  <2> QED BY <2>1, <2>2
<1> QED BY <1>1, <1>2, PriceInvariance, PTL DEF Spec

----------------------------------------------------------------------------
(* What a reply says of the rates.                                         *)

\* The rates a prompt can bill at.
ContextRates(r) == {r.Base} \cup {r.Tiers[i].TierRates : i \in DOMAIN r.Tiers}

\* What an exact reply of the calculator means: a price is that of listed
\* rates that cover every component, and a refusal has one of the documented
\* reasons.
LEMMA RepliesMean ==
    ASSUME NEW b, NEW model, NEW d, L!Countable(d)
    PROVE  LET r == L!ListPrice(b, L!Meant(b, model), L!Named(d))
               listed == L!Named(d) \in ServiceTiers /\ L!ForSale(b, L!Meant(b, model), L!Named(d))
           IN /\ L!Due(b, model, d, L!Reply("refused", 0)) =>
                    /\ ~ L!Impossible(d)
                    /\ listed /\ PremiumOk(d, r) =>
                          \E t \in ContextRates(r) : L!Governs(r, L!Prompt(d), t) /\ L!Unpriced(d, t)
              /\ \A n : L!Due(b, model, d, L!Reply("ok", n)) =>
                    /\ ~ L!Impossible(d) /\ listed /\ PremiumOk(d, r)
                    /\ \E t \in ContextRates(r) :
                          /\ L!Governs(r, L!Prompt(d), t) /\ ~ L!Unpriced(d, t)
                          /\ L!Covers(n, L!Total(d, r, t))
<1> DEFINE key == L!Meant(b, model)
           s == L!Named(d)
           r == L!ListPrice(b, key, s)
           C == s \in L!ServiceTiers /\ L!ForSale(b, key, s) /\ L!PremiumOk(d, r)
<1>1. C <=> s \in ServiceTiers /\ L!ForSale(b, key, s) /\ PremiumOk(d, r)
  BY OneCalculator
<1>2. ASSUME NEW a, L!Due(b, model, d, a), a # L!Reply("panic", 0)
      PROVE  /\ ~ L!Impossible(d)
             /\ C => L!PricedAt(d, r, a)
             /\ ~ C => a = L!Reply("refused", 0)
  BY <1>2 DEF L!Due
<1>3. ASSUME NEW a, L!PricedAt(d, r, a)
      PROVE  \E t \in ContextRates(r) :
                /\ L!Governs(r, L!Prompt(d), t)
                /\ \/ L!Unpriced(d, t) /\ a = L!Reply("refused", 0)
                   \/ /\ ~ L!Unpriced(d, t) /\ a.kind = "ok"
                      /\ L!Covers(a.nls, L!Total(d, r, t))
                   \/ a = L!Reply("panic", 0)
  BY <1>3, Zenon DEF L!PricedAt, ContextRates
<1> HIDE DEF C, r, s, key
<1>4. ASSUME L!Due(b, model, d, L!Reply("refused", 0))
      PROVE  /\ ~ L!Impossible(d)
             /\ C => \E t \in ContextRates(r) : L!Governs(r, L!Prompt(d), t) /\ L!Unpriced(d, t)
  <2>1. L!Reply("refused", 0).kind = "refused" /\ L!Reply("refused", 0) # L!Reply("panic", 0)
    BY DEF L!Reply
  <2>2. ~ L!Impossible(d) /\ (C => L!PricedAt(d, r, L!Reply("refused", 0)))
    BY <1>2, <1>4, <2>1
  <2> QED BY <1>3, <2>1, <2>2
<1>5. ASSUME NEW n, L!Due(b, model, d, L!Reply("ok", n))
      PROVE  /\ ~ L!Impossible(d) /\ C
             /\ \E t \in ContextRates(r) :
                   /\ L!Governs(r, L!Prompt(d), t) /\ ~ L!Unpriced(d, t)
                   /\ L!Covers(n, L!Total(d, r, t))
  <2>1. /\ L!Reply("ok", n).nls = n /\ L!Reply("ok", n) # L!Reply("panic", 0)
        /\ L!Reply("ok", n) # L!Reply("refused", 0)
    BY DEF L!Reply
  <2>2. ~ L!Impossible(d) /\ C /\ L!PricedAt(d, r, L!Reply("ok", n))
    BY <1>2, <1>5, <2>1
  <2> QED BY <1>3, <2>1, <2>2
<1> QED BY <1>1, <1>4, <1>5 DEF r, s, key

\* Thresholds in ascending order leave one context tier for every prompt.
LEMMA OneGoverns ==
    ASSUME NEW r, IsRates(r), ValidRates(r), NEW prompt \in Int, NEW t, NEW x,
           L!Governs(r, prompt, t), L!Governs(r, prompt, x)
    PROVE  t = x
<1> DEFINE N(i) == r.Tiers[i].AbovePromptTokens
           D == DOMAIN r.Tiers
           Top(i) == /\ i \in D /\ N(i) < prompt
                     /\ \A j \in D : N(j) < prompt => N(j) <= N(i)
<1>1. \A i \in D : i \in Int /\ N(i) \in Int
  <2>1. Int64 \subseteq Int
    BY DEF Int64
  <2>2. \A i \in D : i \in Int /\ r.Tiers[i] \in Tier
    <3>1. r.Tiers \in Seq(Tier)
      BY DEF IsRates
    <3> QED BY <3>1
  <2> QED BY <2>1, <2>2 DEF Tier
<1>2. \A i, j \in D : j \in 1 .. i - 1 => N(j) < N(i)
  BY DEF ValidRates
<1>3. \A i \in D : i \in Nat \ {0}
  BY DEF IsRates
<1>4. ASSUME NEW y, L!Governs(r, prompt, y)
      PROVE  \/ (\A i \in D : prompt <= N(i)) /\ y = r.Base
             \/ \E i : Top(i) /\ y = r.Tiers[i].TierRates
  BY <1>4, Zenon DEF L!Governs
<1> HIDE DEF N, D
<1>5. ASSUME NEW i, NEW j, Top(i), Top(j) PROVE i = j
  <2>1. i \in D /\ j \in D /\ N(i) = N(j)
    BY <1>1, <1>5
  <2>2. i < j => i \in 1 .. j - 1
    BY <1>3, <2>1
  <2>3. j < i => j \in 1 .. i - 1
    BY <1>3, <2>1
  <2>4. ~ N(i) < N(j) /\ ~ N(j) < N(i)
    BY <1>1, <2>1
  <2> QED BY <1>2, <1>3, <2>1, <2>2, <2>3, <2>4
<1>6. (\A i \in D : prompt <= N(i)) => \A i : ~ Top(i)
  BY <1>1
<1> HIDE DEF Top
<1> QED BY <1>4, <1>5, <1>6

\* Every rate the book in force sells at is sound, whoever restated it.
LEMMA BookIsSound ==
    ASSUME NEW b, InForce(b), NEW key, NEW s, L!ForSale(b, key, s)
    PROVE  /\ IsRates(L!ListPrice(b, key, s)) /\ ValidRates(L!ListPrice(b, key, s))
           /\ s \in ServiceTiers
<1>1. PICK snap \in Snapshots, cur \in Curations :
         ~ Miscurated(cur) /\ L!Sound(snap, Config(cur)) /\ b = newBook(snap, cur)
  BY DEF InForce
<1>2. b.models = snap /\ b.overrides = Config(cur).Overrides
  BY <1>1 DEF newBook
<1>3. CASE key \in DOMAIN b.overrides
  <2>1. /\ key \in DOMAIN cur.overrides
        /\ b.overrides[key] = cur.overrides[key].rates
    BY <1>2, <1>3 DEF Config
  <2>2. cur.overrides[key].rates # Nil /\ IsRates(cur.overrides[key].rates)
    BY <2>1, CurationAssumption DEF IsCuration
  <2>3. L!ValidRates(b.overrides[key])
    BY <1>1, <1>2, <1>3, <2>1, <2>2 DEF L!Sound
  <2>4. ValidRates(b.overrides[key])
    BY <2>3 DEF L!ValidRates, ValidRates, L!priceable, priceable, L!TokenParts, TokenParts,
                L!Parts, Parts
  <2>5. s = "standard"
    BY <1>3 DEF L!ForSale
  <2> QED BY <1>3, <2>1, <2>2, <2>4, <2>5 DEF L!ListPrice, ServiceTiers
<1>4. CASE key \notin DOMAIN b.overrides
  <2>1. key \in DOMAIN snap /\ s \in DOMAIN snap[key]
    BY <1>2, <1>4 DEF L!ForSale
  <2>2. IsRates(snap[key][s]) /\ ValidRates(snap[key][s]) /\ s \in ServiceTiers
    BY <2>1, BookSnapshotAssumption
  <2> QED BY <1>2, <1>4, <2>2 DEF L!ListPrice
<1> QED BY <1>3, <1>4

\* The context rates of sound rates price the tokens everybody uses.
LEMMA ContextIsPriceable ==
    ASSUME NEW r, ValidRates(r), NEW t \in ContextRates(r)
    PROVE  \A c \in TokenParts : t[c] # Nil
BY DEF ValidRates, priceable, ContextRates

\* A prompt is a number.
LEMMA PromptIsInt ==
    ASSUME NEW u \in Usage
    PROVE  L!Prompt(u) \in Int
BY DEF Usage, ClaudeUsage, OpenAIUsage, FireworksUsage, L!Prompt, Int64

----------------------------------------------------------------------------
(* The dimensions a re-pricing drops.                                      *)

Speedy(u, r) == u.Speed \in {"", "standard"} \/ (u.Speed = "fast" /\ r.Fast # Nil)
Unlocated(u, r) == Pinned(u) /\ Lower(u.InferenceGeo) \notin DOMAIN r.Geo
Unheld(u, t) == u.CacheCreation1hInputTokens > 0 /\ t["cacheCreation1h"] = Nil
Rest(u, t) == \E c \in Parts \ {"cacheCreation1h"} : L!Billed(u, c) > 0 /\ t[c] = Nil

LEMMA WithoutKeeps ==
    ASSUME NEW u \in ClaudeUsage, NEW dims
    PROVE  /\ Without(u, dims).kind = "claude" /\ Without(u, dims).Speed = u.Speed
           /\ Without(u, dims).InputTokens = u.InputTokens
           /\ Without(u, dims).CacheReadInputTokens = u.CacheReadInputTokens
           /\ Without(u, dims).CacheCreationInputTokens = u.CacheCreationInputTokens
           /\ Without(u, dims).OutputTokens = u.OutputTokens
BY DEF ClaudeUsage, Without

LEMMA WithoutDrops ==
    ASSUME NEW u \in ClaudeUsage, NEW dims
    PROVE  /\ Without(u, dims).InferenceGeo = IF "geo" \in dims THEN "" ELSE u.InferenceGeo
           /\ Without(u, dims).CacheCreation1hInputTokens =
                 IF "1h" \in dims THEN 0 ELSE u.CacheCreation1hInputTokens
BY DEF ClaudeUsage, Without

\* The re-pricings of a Claude response, named by what they drop.
LEMMA DegradedAre ==
    ASSUME NEW u \in ClaudeUsage
    PROVE  /\ degraded(u) = <<Without(u, {"geo"}), Without(u, {"1h"}), Without(u, {"geo", "1h"})>>
           /\ Without(u, {}) = u
<1>1. u.kind = "claude"
  BY DEF ClaudeUsage
<1>2. Without(u, {}) = u
  BY <1>1 DEF ClaudeUsage, Without
<1>3. Without(u, {"geo"}) = [u EXCEPT !.InferenceGeo = ""]
  BY <1>1 DEF ClaudeUsage, Without
<1>4. Without(u, {"1h"}) = [u EXCEPT !.CacheCreation1hInputTokens = 0]
  BY <1>1 DEF ClaudeUsage, Without
<1>5. Without(u, {"geo", "1h"}) =
         [[u EXCEPT !.InferenceGeo = ""] EXCEPT !.CacheCreation1hInputTokens = 0]
  BY <1>1 DEF ClaudeUsage, Without
<1> QED BY <1>1, <1>2, <1>3, <1>4, <1>5 DEF degraded

\* A dropped dimension is out of the way of the price, and only it is.  The
\* hour's cache writes are billed as ordinary ones, never fewer of them.
LEMMA Dimensions ==
    ASSUME NEW u \in ClaudeUsage, ~ L!Impossible(u), NEW dims, NEW r, NEW t
    PROVE  LET d == Without(u, dims)
           IN /\ L!Prompt(d) = L!Prompt(u) /\ L!Named(d) = L!Named(u)
              /\ PremiumOk(d, r) <=> Speedy(u, r) /\ ("geo" \in dims \/ ~ Unlocated(u, r))
              /\ "1h" \in dims => (L!Unpriced(d, t) <=> Rest(Without(u, {"1h"}), t))
              /\ "1h" \in dims => \A c \in Parts :
                    L!Billed(d, c) = L!Billed(Without(u, {"1h"}), c)
              /\ "1h" \notin dims => (L!Unpriced(d, t) <=> Unheld(u, t) \/ Rest(u, t))
              /\ Rest(u, t) => Rest(Without(u, {"1h"}), t)
<1> DEFINE d == Without(u, dims)
           e == Without(u, {"1h"})
<1>1. /\ d.kind = "claude" /\ d.Speed = u.Speed /\ u.kind = "claude" /\ e.kind = "claude"
      /\ d.InputTokens = u.InputTokens /\ e.InputTokens = u.InputTokens
      /\ d.CacheReadInputTokens = u.CacheReadInputTokens
      /\ e.CacheReadInputTokens = u.CacheReadInputTokens
      /\ d.CacheCreationInputTokens = u.CacheCreationInputTokens
      /\ e.CacheCreationInputTokens = u.CacheCreationInputTokens
      /\ d.OutputTokens = u.OutputTokens /\ e.OutputTokens = u.OutputTokens
      /\ e.CacheCreation1hInputTokens = 0
  <2>1. u.kind = "claude"
    BY DEF ClaudeUsage
  <2>2. /\ d.kind = "claude" /\ d.Speed = u.Speed /\ d.InputTokens = u.InputTokens
        /\ d.CacheReadInputTokens = u.CacheReadInputTokens
        /\ d.CacheCreationInputTokens = u.CacheCreationInputTokens
        /\ d.OutputTokens = u.OutputTokens
    BY WithoutKeeps
  <2>3. /\ e.kind = "claude" /\ e.InputTokens = u.InputTokens
        /\ e.CacheReadInputTokens = u.CacheReadInputTokens
        /\ e.CacheCreationInputTokens = u.CacheCreationInputTokens
        /\ e.OutputTokens = u.OutputTokens
    BY WithoutKeeps
  <2>4. e.CacheCreation1hInputTokens = 0
    BY WithoutDrops
  <2> HIDE DEF d, e
  <2> QED BY <2>1, <2>2, <2>3, <2>4
<1>2. d.InferenceGeo = IF "geo" \in dims THEN "" ELSE u.InferenceGeo
  BY WithoutDrops
<1>3. d.CacheCreation1hInputTokens = IF "1h" \in dims THEN 0 ELSE u.CacheCreation1hInputTokens
  BY WithoutDrops
<1>4. /\ u.CacheCreationInputTokens \in Int /\ u.CacheCreation1hInputTokens \in Int
      /\ u.CacheCreation1hInputTokens >= 0
  BY <1>1 DEF ClaudeUsage, Int64, L!Impossible
<1> HIDE DEF d, e
<1>5. L!Prompt(d) = L!Prompt(u) /\ L!Named(d) = L!Named(u)
  BY <1>1 DEF L!Prompt, L!Named
<1>6. PremiumOk(d, r) <=> Speedy(u, r) /\ ("geo" \in dims \/ ~ Unlocated(u, r))
  BY <1>1, <1>2, LowerAssumption DEF PremiumOk, Speedy, Unlocated, Pinned
<1> DEFINE plain(x) ==
       /\ L!Billed(x, "input") = x.InputTokens
       /\ L!Billed(x, "cacheRead") = x.CacheReadInputTokens
       /\ L!Billed(x, "cacheCreation") =
             x.CacheCreationInputTokens - x.CacheCreation1hInputTokens
       /\ L!Billed(x, "cacheCreation1h") = x.CacheCreation1hInputTokens
       /\ L!Billed(x, "output") = x.OutputTokens
<1>7. plain(u) /\ plain(d) /\ plain(e)
  BY <1>1 DEF L!Billed
<1>8. \A c \in Parts : c \in {"input", "cacheRead", "cacheCreation", "cacheCreation1h", "output"}
  BY DEF Parts
<1>9. "1h" \in dims => \A c \in Parts : L!Billed(d, c) = L!Billed(e, c)
  BY <1>1, <1>3, <1>7, <1>8
<1>10. "1h" \notin dims => \A c \in Parts : L!Billed(d, c) = L!Billed(u, c)
  BY <1>1, <1>3, <1>7, <1>8
<1>11. L!Unpriced(u, t) <=> Unheld(u, t) \/ Rest(u, t)
  BY <1>7 DEF L!Unpriced, Unheld, Rest, L!Parts, Parts
<1>12. L!Unpriced(e, t) <=> Rest(e, t)
  BY <1>1, <1>7 DEF L!Unpriced, Rest, L!Parts, Parts
<1>13. L!Parts = Parts
  BY DEF L!Parts, Parts
<1>14. "1h" \in dims => (L!Unpriced(d, t) <=> Rest(e, t))
  BY <1>9, <1>12, <1>13 DEF L!Unpriced
<1>15. "1h" \notin dims => (L!Unpriced(d, t) <=> Unheld(u, t) \/ Rest(u, t))
  BY <1>10, <1>11, <1>13 DEF L!Unpriced
<1>16. Rest(u, t) => Rest(e, t)
  <2> SUFFICES ASSUME NEW c \in Parts \ {"cacheCreation1h"}, L!Billed(u, c) > 0, t[c] = Nil
               PROVE  L!Billed(e, c) > 0
    BY DEF Rest
  <2>1. CASE c = "cacheCreation"
    BY <1>1, <1>4, <1>7, <2>1
  <2>2. CASE c # "cacheCreation"
    BY <1>1, <1>7, <1>8, <2>2
  <2> QED BY <2>1, <2>2
<1> QED BY <1>5, <1>6, <1>9, <1>14, <1>15, <1>16 DEF d, e

----------------------------------------------------------------------------
(* What Of answers, read off the rates.                                    *)

\* A tier the book has rates at is for sale.
LEMMA ListedIsForSale ==
    ASSUME NEW b, InForce(b), NEW model, NEW s \in TiersOf(b, model)
    PROVE  L!ForSale(b, L!Meant(b, model), s)
<1>1. PICK snap \in Snapshots, cur \in Curations :
         ~ Miscurated(cur) /\ L!Sound(snap, Config(cur)) /\ b = newBook(snap, cur)
  BY DEF InForce
<1>2. L!Meant(b, model) = resolve(b, model)
  BY DEF L!Meant, resolve
<1>3. CASE resolve(b, model) \in DOMAIN b.overrides
  <2>1. b.overrides = Config(cur).Overrides
    BY <1>1 DEF newBook
  <2>2. \A k \in DOMAIN b.overrides : b.overrides[k] # Nil
    BY <2>1, CurationAssumption DEF Config, IsCuration
  <2> QED BY <1>2, <1>3, <2>2 DEF TiersOf, L!ForSale
<1>4. CASE resolve(b, model) \notin DOMAIN b.overrides
  BY <1>2, <1>4 DEF TiersOf, L!ForSale
<1> QED BY <1>3, <1>4

\* The context rates a usage bills at are the ones that govern its prompt.
LEMMA GoverningIs ==
    ASSUME NEW u \in Usage, IsRates(GoverningRates(u)), ValidRates(GoverningRates(u)),
           NEW t \in ContextRates(GoverningRates(u)),
           L!Governs(GoverningRates(u), L!Prompt(u), t)
    PROVE  Governing(u) = t
<1> DEFINE r == GoverningRates(u)
           p == L!Prompt(u)
<1>1. p \in Int
  BY PromptIsInt
<1>2. Governing(u) = CHOOSE x \in ContextRates(r) : L!Governs(r, p, x)
  BY DEF Governing, ContextRates
<1> HIDE DEF r, p
<1>3. t \in ContextRates(r) /\ L!Governs(r, p, t) /\ IsRates(r) /\ ValidRates(r)
  BY DEF r, p
<1>4. \A x \in ContextRates(r) : L!Governs(r, p, x) => x = t
  BY <1>1, <1>3, OneGoverns
<1> QED BY <1>2, <1>3, <1>4

\* What Of has done when it returns.
LEMMA Returned ==
    ASSUME Countable, PriceInv, TrialInv, reply.kind \in {"ok", "refused"}
    PROVE  /\ InForce(book) /\ usage \in Usage /\ Answers(usage, request)
           /\ accepted <=> Accepts(request)
           /\ \A d \in Pricings(usage) : L!Countable(d)
<1>1. pc = "returned"
  BY NoReplyType DEF PriceInv, OfInv
<1>2. usage \in Usages /\ Answers(usage, request) /\ (accepted <=> Accepts(request))
  BY <1>1 DEF PriceInv, OfInv
<1>3. usage \in Usage /\ L!Countable(usage)
  BY <1>2, ResponseAssumption DEF Countable
<1>4. InForce(book)
  BY <1>1 DEF TrialInv
<1> QED BY <1>2, <1>3, <1>4, PricedUsages

\* The replies to the re-pricings of the response, in the terms of its rates.
LEMMA TrialsMean ==
    ASSUME Countable, PriceInv, TrialInv, reply.kind \in {"ok", "refused"},
           NEW d \in Pricings(usage)
    PROVE  LET r == GoverningRates(usage)
               listed == L!ForSale(book, L!Meant(book, request.model), L!Named(usage))
           IN /\ Refused(d) =>
                    /\ ~ L!Impossible(d)
                    /\ listed /\ PremiumOk(d, r) =>
                          /\ Governing(usage) \in ContextRates(r)
                          /\ ValidRates(r) /\ L!Unpriced(d, Governing(usage))
              /\ \A n : Costed(d, L!Reply("ok", n)) =>
                    /\ ~ L!Impossible(d) /\ listed /\ PremiumOk(d, r)
                    /\ IsRates(r) /\ ValidRates(r)
                    /\ Governing(usage) \in ContextRates(r)
                    /\ L!Governs(r, L!Prompt(usage), Governing(usage))
                    /\ ~ L!Unpriced(d, Governing(usage))
                    /\ L!Covers(n, L!Total(d, r, Governing(usage)))
<1> DEFINE key == L!Meant(book, request.model)
           s == L!Named(usage)
           r == GoverningRates(usage)
           p == L!Prompt(usage)
           listed == L!ForSale(book, key, s)
<1>1. usage \in Usage /\ L!Countable(d) /\ InForce(book)
  BY Returned
<1>2. L!Named(d) = s /\ L!Prompt(d) = p
  BY <1>1, PricedUsages
<1>3. r = L!ListPrice(book, key, s)
  BY DEF GoverningRates
<1>4. listed => IsRates(r) /\ ValidRates(r) /\ s \in ServiceTiers
  BY <1>1, <1>3, BookIsSound
<1>5. ASSUME listed, NEW t \in ContextRates(r), L!Governs(r, p, t)
      PROVE  Governing(usage) = t
  BY <1>1, <1>4, <1>5, GoverningIs
<1> HIDE DEF listed, r, p, s, key
<1>6. /\ L!Due(book, request.model, d, L!Reply("refused", 0)) =>
            /\ ~ L!Impossible(d)
            /\ s \in ServiceTiers /\ listed /\ PremiumOk(d, r) =>
                  \E t \in ContextRates(r) : L!Governs(r, p, t) /\ L!Unpriced(d, t)
      /\ \A n : L!Due(book, request.model, d, L!Reply("ok", n)) =>
            /\ ~ L!Impossible(d) /\ s \in ServiceTiers /\ listed /\ PremiumOk(d, r)
            /\ \E t \in ContextRates(r) :
                  /\ L!Governs(r, p, t) /\ ~ L!Unpriced(d, t)
                  /\ L!Covers(n, L!Total(d, r, t))
  <2>1. /\ L!Named(d) = s /\ L!Prompt(d) = p /\ L!ListPrice(book, key, L!Named(d)) = r
        /\ L!ForSale(book, key, L!Named(d)) <=> listed
    BY <1>2, <1>3 DEF listed
  <2> QED BY <1>1, <2>1, RepliesMean DEF key
<1>7. Refused(d) =>
         /\ ~ L!Impossible(d)
         /\ listed /\ PremiumOk(d, r) =>
               /\ Governing(usage) \in ContextRates(r)
               /\ ValidRates(r) /\ L!Unpriced(d, Governing(usage))
  BY <1>4, <1>5, <1>6 DEF Refused, Costed
<1>8. ASSUME NEW n, Costed(d, L!Reply("ok", n))
      PROVE  /\ ~ L!Impossible(d) /\ listed /\ PremiumOk(d, r)
             /\ IsRates(r) /\ ValidRates(r)
             /\ Governing(usage) \in ContextRates(r)
             /\ L!Governs(r, p, Governing(usage))
             /\ ~ L!Unpriced(d, Governing(usage))
             /\ L!Covers(n, L!Total(d, r, Governing(usage)))
  BY <1>4, <1>5, <1>6, <1>8 DEF Costed
<1> QED BY <1>7, <1>8 DEF listed, r, p, s, key

\* The re-pricings of a Claude response, with what each drops.
LEMMA ClaudePricings ==
    ASSUME NEW u \in Usage, u.kind = "claude"
    PROVE  /\ u \in ClaudeUsage /\ u \in Pricings(u)
           /\ DOMAIN degraded(u) = 1 .. 3 /\ Len(degraded(u)) = 3
           /\ degraded(u)[1] = Without(u, {"geo"}) /\ Without(u, {"geo"}) \in Pricings(u)
           /\ degraded(u)[2] = Without(u, {"1h"}) /\ Without(u, {"1h"}) \in Pricings(u)
           /\ degraded(u)[3] = Without(u, {"geo", "1h"})
           /\ Without(u, {"geo", "1h"}) \in Pricings(u)
<1>1. u \in ClaudeUsage
  BY DEF Usage, ClaudeUsage, OpenAIUsage, FireworksUsage
<1>2. PICK a, b, c : /\ a = Without(u, {"geo"}) /\ b = Without(u, {"1h"})
                     /\ c = Without(u, {"geo", "1h"})
  OBVIOUS
<1>3. degraded(u) = <<a, b, c>>
  BY <1>1, <1>2, DegradedAre
<1>4. DOMAIN degraded(u) = 1 .. 3 /\ Len(degraded(u)) = 3
  BY <1>3
<1>5. degraded(u)[1] = a /\ degraded(u)[2] = b /\ degraded(u)[3] = c
  BY <1>3
<1>6. 1 \in DOMAIN degraded(u) /\ 2 \in DOMAIN degraded(u) /\ 3 \in DOMAIN degraded(u)
  BY <1>4
<1> QED BY <1>1, <1>2, <1>4, <1>5, <1>6 DEF Pricings

\* The reasons to refuse that Priceable cannot rule out.
LEMMA AcceptedHolds ==
    ASSUME Countable, PriceInv, TrialInv, accepted, reply.kind = "refused"
    PROVE  \E c \in Parts \ TokenParts :
              /\ L!Billed(Without(usage, {"geo", "1h"}), c) > 0
              /\ Governing(usage)[c] = Nil
<1> DEFINE last == Without(usage, {"geo", "1h"})
           r == GoverningRates(usage)
           t == Governing(usage)
<1>1. /\ InForce(book) /\ usage \in Usage /\ Answers(usage, request) /\ Accepts(request)
  BY Returned
<1>2. RefusedUpTo(Len(degraded(usage)))
  BY DEF TrialInv
<1>3. L!ForSale(book, L!Meant(book, request.model), L!Named(usage))
  BY <1>1, ListedIsForSale DEF Accepts, Answers
<1>4. /\ request.speed \in {"", "standard"}
         \/ (request.speed = "fast" /\ r.Fast # Nil)
  <2>1. RatesFor(book, request.model, request.tier) = r
    BY <1>1 DEF RatesFor, GoverningRates, L!ListPrice, L!Meant, resolve, Answers
  <2> QED BY <1>1, <2>1 DEF Accepts
<1>5. ASSUME last \in Pricings(usage), Refused(last), PremiumOk(last, r)
      PROVE  \E c \in Parts \ TokenParts : L!Billed(last, c) > 0 /\ t[c] = Nil
  <2>1. t \in ContextRates(r) /\ ValidRates(r) /\ L!Unpriced(last, t)
    BY <1>3, <1>5, TrialsMean
  <2> HIDE DEF last, t, r
  <2>2. PICK c \in Parts : L!Billed(last, c) > 0 /\ t[c] = Nil
    BY <2>1 DEF L!Unpriced, L!Parts, Parts
  <2>3. c \notin TokenParts
    BY <2>1, <2>2, ContextIsPriceable
  <2> QED BY <2>2, <2>3
<1>6. CASE usage.kind = "claude"
  <2>1. /\ usage \in ClaudeUsage /\ usage \in Pricings(usage) /\ last \in Pricings(usage)
        /\ last = degraded(usage)[3] /\ Len(degraded(usage)) = 3
    BY <1>1, <1>6, ClaudePricings
  <2>2. Refused(usage) /\ Refused(last)
    BY <1>2, <2>1 DEF RefusedUpTo
  <2>3. ~ L!Impossible(usage)
    BY <2>1, <2>2, TrialsMean
  <2>4. Speedy(usage, r)
    BY <1>1, <1>4, <1>6 DEF Speedy, Answers, Ordinary
  <2>5. PremiumOk(last, r)
    <3>1. \A dims : "geo" \in dims => PremiumOk(Without(usage, dims), r)
      BY <2>1, <2>3, <2>4, Dimensions
    <3> QED BY <3>1
  <2> QED BY <1>5, <2>1, <2>2, <2>5
<1>7. CASE usage.kind # "claude"
  <2>1. last = usage /\ usage \in Pricings(usage)
    BY <1>7 DEF Without, Pricings
  <2>2. Refused(usage)
    BY <1>2 DEF RefusedUpTo
  <2>3. PremiumOk(usage, r)
    BY <1>7 DEF PremiumOk
  <2> QED BY <1>5, <2>1, <2>2, <2>3
<1> QED BY <1>6, <1>7

LEMMA UnratableAre ==
    ASSUME NEW u
    PROVE  /\ Unratable(u) \subseteq {"geo", "1h"}
           /\ "geo" \in Unratable(u) <=> Unlocated(u, GoverningRates(u))
           /\ "1h" \in Unratable(u) <=> u.kind = "claude" /\ Unheld(u, Governing(u))
<1>1. "geo" # "1h"
  OBVIOUS
<1> QED BY <1>1, Zenon DEF Unratable, Unlocated, Unheld

\* A price that is not degraded drops nothing, a degraded one exactly what
\* its model has no rate for.
LEMMA DropsExactly ==
    ASSUME Countable, PriceInv, TrialInv, reply.kind = "ok"
    PROVE  /\ Costed(Without(usage, Unratable(usage)), L!Reply("ok", reply.cost))
           /\ reply.source = "degraded" <=> Unratable(usage) # {}
<1> DEFINE r == GoverningRates(usage)
           t == Governing(usage)
           paid == L!Reply("ok", reply.cost)
           U == Unratable(usage)
<1>1. usage \in Usage /\ usage \in Pricings(usage)
  BY Returned DEF Pricings
<1>2. \/ reply.source # "degraded" /\ Costed(usage, paid)
      \/ /\ reply.source = "degraded"
         /\ \E n \in DOMAIN degraded(usage) : RefusedUpTo(n - 1) /\ Costed(degraded(usage)[n], paid)
  BY DEF TrialInv
<1>3. CASE usage.kind # "claude"
  <2>1. degraded(usage) = <<>> /\ Without(usage, U) = usage
    BY <1>3 DEF degraded, Without
  <2>2. ~ Pinned(usage)
    BY <1>3 DEF Pinned
  <2>3. U = {}
    BY <1>3, <2>2, UnratableAre DEF Unlocated
  <2>4. DOMAIN degraded(usage) = {}
    BY <2>1
  <2> QED BY <1>2, <2>1, <2>3, <2>4
<1>4. CASE usage.kind = "claude"
  <2> DEFINE noGeo == Without(usage, {"geo"})
             no1h == Without(usage, {"1h"})
             neither == Without(usage, {"geo", "1h"})
  <2>1. /\ usage \in ClaudeUsage /\ Without(usage, {}) = usage
        /\ noGeo \in Pricings(usage) /\ no1h \in Pricings(usage) /\ neither \in Pricings(usage)
        /\ DOMAIN degraded(usage) = 1 .. 3
        /\ degraded(usage)[1] = noGeo /\ degraded(usage)[2] = no1h
        /\ degraded(usage)[3] = neither
    BY <1>1, <1>4, ClaudePricings, DegradedAre
  <2>2. /\ U \subseteq {"geo", "1h"}
        /\ "geo" \in U <=> Unlocated(usage, r)
        /\ "1h" \in U <=> Unheld(usage, t)
    BY <1>4, UnratableAre
  <2> DEFINE listed == L!ForSale(book, L!Meant(book, request.model), L!Named(usage))
             geo == Unlocated(usage, r)
             held == Unheld(usage, t)
             rest == Rest(usage, t)
             rest1h == Rest(no1h, t)
             fast == Speedy(usage, r)
  <2>3. ASSUME ~ L!Impossible(usage), NEW d, NEW dims, d = Without(usage, dims)
        PROVE  /\ PremiumOk(d, r) <=> fast /\ ("geo" \in dims \/ ~ geo)
               /\ "1h" \in dims => (L!Unpriced(d, t) <=> rest1h)
               /\ "1h" \notin dims => (L!Unpriced(d, t) <=> held \/ rest)
               /\ rest => rest1h
    BY <2>1, <2>3, Dimensions
  <2>4. ASSUME NEW d \in Pricings(usage), Refused(d)
        PROVE  ~ L!Impossible(d) /\ (listed /\ PremiumOk(d, r) => L!Unpriced(d, t))
    BY <2>4, TrialsMean
  <2>5. ASSUME NEW d \in Pricings(usage), Costed(d, paid)
        PROVE  ~ L!Impossible(d) /\ listed /\ PremiumOk(d, r) /\ ~ L!Unpriced(d, t)
    BY <2>5, TrialsMean
  <2> HIDE DEF r, t, paid, U, noGeo, no1h, neither
  <2>6. CASE Costed(usage, paid) /\ reply.source # "degraded"
    <3>1. ~ L!Impossible(usage) /\ PremiumOk(usage, r) /\ ~ L!Unpriced(usage, t)
      BY <1>1, <2>5, <2>6
    <3>2. ~ geo /\ ~ held
      BY <2>1, <2>3, <3>1
    <3>3. U = {}
      BY <2>2, <3>2
    <3> QED BY <2>1, <2>6, <3>3 DEF paid, U
  <2>7. ASSUME NEW n \in 1 .. 3, RefusedUpTo(n - 1), Costed(degraded(usage)[n], paid),
               reply.source = "degraded"
        PROVE  Costed(Without(usage, U), paid) /\ U # {}
    <3>1. Refused(usage) /\ \A i \in 1 .. n - 1 : Refused(degraded(usage)[i])
      BY <2>7 DEF RefusedUpTo
    <3>2. ~ L!Impossible(usage) /\ (listed /\ PremiumOk(usage, r) => L!Unpriced(usage, t))
      BY <1>1, <2>4, <3>1
    <3>3. /\ PremiumOk(usage, r) <=> fast /\ ~ geo
          /\ L!Unpriced(usage, t) <=> held \/ rest
          /\ PremiumOk(noGeo, r) <=> fast
          /\ L!Unpriced(noGeo, t) <=> held \/ rest
          /\ PremiumOk(no1h, r) <=> fast /\ ~ geo
          /\ L!Unpriced(no1h, t) <=> rest1h
          /\ PremiumOk(neither, r) <=> fast
          /\ L!Unpriced(neither, t) <=> rest1h
          /\ rest => rest1h
      BY <2>1, <2>3, <3>2 DEF noGeo, no1h, neither
    <3> HIDE DEF listed, geo, held, rest, rest1h, fast
    <3>4. CASE n = 1
      <4>1. Costed(noGeo, paid)
        BY <2>1, <2>7, <3>4
      <4>2. listed /\ PremiumOk(noGeo, r) /\ ~ L!Unpriced(noGeo, t)
        BY <2>1, <2>5, <4>1
      <4>3. geo /\ ~ held
        BY <3>2, <3>3, <4>2
      <4>4. U = {"geo"}
        BY <2>2, <4>3 DEF geo, held
      <4> QED BY <4>1, <4>4 DEF noGeo
    <3>5. CASE n = 2
      <4>1. Costed(no1h, paid)
        BY <2>1, <2>7, <3>5
      <4>2. listed /\ PremiumOk(no1h, r) /\ ~ L!Unpriced(no1h, t)
        BY <2>1, <2>5, <4>1
      <4>3. ~ geo /\ held
        BY <3>2, <3>3, <4>2
      <4>4. U = {"1h"}
        BY <2>2, <4>3 DEF geo, held
      <4> QED BY <4>1, <4>4 DEF no1h
    <3>6. CASE n = 3
      <4>1. Costed(neither, paid)
        BY <2>1, <2>7, <3>6
      <4>2. listed /\ PremiumOk(neither, r) /\ ~ L!Unpriced(neither, t)
        BY <2>1, <2>5, <4>1
      <4>3. Refused(noGeo) /\ Refused(no1h)
        <5>1. 1 \in 1 .. n - 1 /\ 2 \in 1 .. n - 1
          BY <3>6
        <5> QED BY <2>1, <3>1, <5>1
      <4>4. /\ listed /\ PremiumOk(noGeo, r) => L!Unpriced(noGeo, t)
            /\ listed /\ PremiumOk(no1h, r) => L!Unpriced(no1h, t)
        BY <2>1, <2>4, <4>3
      <4>5. geo /\ held
        BY <3>3, <4>2, <4>4
      <4>6. U = {"geo", "1h"}
        BY <2>2, <4>5 DEF geo, held
      <4> QED BY <4>1, <4>6 DEF neither
    <3> QED BY <2>7, <3>4, <3>5, <3>6
  <2>8. \/ Costed(usage, paid) /\ reply.source # "degraded"
        \/ /\ reply.source = "degraded"
           /\ \E n \in 1 .. 3 : RefusedUpTo(n - 1) /\ Costed(degraded(usage)[n], paid)
    BY <1>2, <2>1 DEF paid
  <2>9. /\ Costed(Without(usage, U), paid)
        /\ reply.source = "degraded" <=> U # {}
    <3>1. CASE Costed(usage, paid) /\ reply.source # "degraded"
      BY <2>6, <3>1 DEF paid, U
    <3>2. CASE ~ (Costed(usage, paid) /\ reply.source # "degraded")
      BY <2>7, <2>8, <3>2
    <3> QED BY <3>1, <3>2
  <2> QED BY <2>9 DEF paid, U
<1> QED BY <1>3, <1>4

----------------------------------------------------------------------------
\* What Priceable answers can be relied on before the call is made
\* (listprice.go:78-83): a request it accepts is refused a list price only
\* over a cache that the response used and its model has no rate for.
THEOREM AcceptedHasAPrice == Countable => (Spec => []AcceptedIsPriced)
<1> SUFFICES ASSUME Countable PROVE Spec => []AcceptedIsPriced
  OBVIOUS
<1>1. PriceInv /\ TrialInv => AcceptedIsPriced
  BY AcceptedHolds DEF AcceptedIsPriced
<1> QED BY <1>1, TrialInvariance, PTL

\* "With that dimension dropped" (listprice.go:26-28), and no other: a
\* degraded price is the exact price of the response without exactly the
\* dimensions its model has no rate for, and Of drops nothing of a response
\* it can price as it is, for any book, rates and response.
THEOREM DegradesAsLittle == Countable => (Spec => []DegradesLeast)
<1> SUFFICES ASSUME Countable PROVE Spec => []DegradesLeast
  OBVIOUS
<1>1. PriceInv /\ TrialInv => DegradesLeast
  BY DropsExactly DEF DegradesLeast, Costed
<1> QED BY <1>1, TrialInvariance, PTL

----------------------------------------------------------------------------
(* The book is what is charged.                                            *)

\* What newBook makes of the published models: ids are published once, by a
\* provider that prices, and an alias leads in one step to its key.
LEMMA Published ==
    ASSUME NEW b, InForce(b)
    PROVE  /\ \A x, y \in b.published : x.id = y.id => x = y
           /\ \A x \in b.published :
                 /\ x.provider \in pricers
                 /\ resolve(b, x.id) = x.key /\ resolve(b, x.key) = x.key
           /\ \A a \in DOMAIN b.aliases : \E x \in b.published : x.id = a /\ x.id # x.key
           /\ \A p, q \in pricers : \A k : k \in ModelsOf(b, p) /\ k \in ModelsOf(b, q) => p = q
<1>1. PICK snap \in Snapshots, cur \in Curations :
         ~ Miscurated(cur) /\ L!Sound(snap, Config(cur)) /\ b = newBook(snap, cur)
  BY DEF InForce
<1> DEFINE pub == cur.published
           A == Config(cur).Aliases
<1>2. b.published = {pub[i] : i \in DOMAIN pub} /\ b.aliases = A /\ b.models = snap
  BY <1>1 DEF newBook
<1>3. /\ \A i, j \in DOMAIN pub : pub[i].id = pub[j].id => i = j
      /\ \A i \in DOMAIN pub : pub[i].provider \in pricers
  BY <1>1 DEF Miscurated
<1>4. A = [a \in {pub[i].id : i \in Aliased(cur)} |->
              pub[CHOOSE i \in Aliased(cur) : pub[i].id = a].key]
  BY DEF Config
<1>5. \A i : i \in Aliased(cur) <=> i \in DOMAIN pub /\ pub[i].id # pub[i].key
  BY DEF Aliased
<1>6. \A a \in DOMAIN A : A[a] \notin DOMAIN A
  BY <1>1 DEF L!Sound
<1> HIDE DEF pub, A
<1>7. \A a : a \in DOMAIN A <=> \E i \in Aliased(cur) : pub[i].id = a
  BY <1>4
<1>8. ASSUME NEW i \in Aliased(cur) PROVE pub[i].id \in DOMAIN A /\ A[pub[i].id] = pub[i].key
  <2>1. (CHOOSE j \in Aliased(cur) : pub[j].id = pub[i].id) = i
    BY <1>3, <1>5
  <2> QED BY <1>4, <1>7, <2>1
<1>9. ASSUME NEW i \in DOMAIN pub
      PROVE  resolve(b, pub[i].id) = pub[i].key /\ resolve(b, pub[i].key) = pub[i].key
  <2>1. CASE i \in Aliased(cur)
    BY <1>2, <1>6, <1>8, <2>1 DEF resolve
  <2>2. CASE i \notin Aliased(cur)
    <3>1. pub[i].id = pub[i].key /\ pub[i].id \notin DOMAIN A
      BY <1>3, <1>5, <1>7, <2>2
    <3> QED BY <1>2, <3>1 DEF resolve
  <2> QED BY <2>1, <2>2
<1>10. \A p, q \in pricers : \A k : k \in ModelsOf(b, p) /\ k \in ModelsOf(b, q) => p = q
  BY <1>2, OwnerAssumption DEF ModelsOf
<1>11. \A x \in b.published : \E i \in DOMAIN pub : x = pub[i]
  BY <1>2
<1>12. \A i \in DOMAIN pub : pub[i] \in b.published
  BY <1>2
<1> QED BY <1>2, <1>3, <1>5, <1>7, <1>9, <1>10, <1>11, <1>12

\* An entry lists a published model, or another key its provider bills.
IsPub(b, x, e) == x \in b.published /\ e = Entry(x.id, x.key, x.provider, "published")
Bills(b, k, p) == k \in ModelsOf(b, p) \/ (k \in DOMAIN b.owner /\ b.owner[k] = p)
IsOther(b, k, p, e) ==
    /\ p \in pricers /\ Bills(b, k, p)
    /\ e = Entry(k, k, p, IF k \in ModelsOf(b, p) THEN "billed" ELSE "override")
    /\ \A x \in b.published : x.provider = p => x.key # k

LEMMA EntriesAre ==
    ASSUME NEW b, NEW e \in entries(b)
    PROVE  (\E x : IsPub(b, x, e)) \/ (\E k, p : IsOther(b, k, p, e))
<1> DEFINE mine(p) == {x \in b.published : x.provider = p}
           covered(p) == {x.key : x \in mine(p)}
           owned(p) == {k \in DOMAIN b.owner : b.owner[k] = p}
           listed(p) == {Entry(x.id, x.key, p, "published") : x \in mine(p)}
           billed(p) == {Entry(k, k, p, "billed") : k \in ModelsOf(b, p) \ covered(p)}
           given(p) == {Entry(k, k, p, "override") :
                           k \in (owned(p) \ ModelsOf(b, p)) \ covered(p)}
<1>1. entries(b) = UNION {listed(p) \cup billed(p) \cup given(p) : p \in pricers}
  BY DEF entries
<1> HIDE DEF listed, billed, given
<1>2. PICK p \in pricers : e \in listed(p) \/ e \in billed(p) \/ e \in given(p)
  BY <1>1
<1>3. CASE e \in listed(p)
  <2>1. PICK x \in mine(p) : e = Entry(x.id, x.key, p, "published")
    BY <1>3 DEF listed
  <2> QED BY <2>1 DEF IsPub
<1>4. CASE e \in billed(p)
  <2>1. PICK k \in ModelsOf(b, p) \ covered(p) : e = Entry(k, k, p, "billed")
    BY <1>4 DEF billed
  <2> QED BY <2>1 DEF IsOther, Bills
<1>5. CASE e \in given(p)
  <2>1. PICK k \in (owned(p) \ ModelsOf(b, p)) \ covered(p) : e = Entry(k, k, p, "override")
    BY <1>5 DEF given
  <2> QED BY <2>1 DEF IsOther, Bills
<1> QED BY <1>2, <1>3, <1>4, <1>5

LEMMA EntryFields ==
    ASSUME NEW b, NEW e
    PROVE  /\ \A x : IsPub(b, x, e) => e.id = x.id /\ e.key = x.key
           /\ \A k, p : IsOther(b, k, p, e) => e.id = k /\ e.key = k
BY DEF Entry, IsPub, IsOther

\* In a book without collisions no two entries have one id.
LEMMA OneEntry ==
    ASSUME NEW b, InForce(b), Plain(b), NEW e \in entries(b), NEW f \in entries(b), e.id = f.id
    PROVE  e = f
<1>1. ASSUME NEW x, NEW y, IsPub(b, x, e), IsPub(b, y, f) PROVE e = f
  <2>1. x.id = e.id /\ y.id = f.id
    BY <1>1, EntryFields
  <2>2. x = y
    <3>1. \A u, w \in b.published : u.id = w.id => u = w
      BY Published
    <3> QED BY <1>1, <2>1, <3>1 DEF IsPub
  <2> QED BY <1>1, <2>2 DEF IsPub
<1>2. ASSUME NEW x \in b.published, NEW k, NEW p \in pricers, Bills(b, k, p), x.id = k
      PROVE  x.key = k /\ x.provider = p
  <2>1. k \in ModelsOf(b, p) \cup DOMAIN b.owner
    BY <1>2 DEF Bills
  <2>2. x.id = x.key
    BY <1>2, <2>1 DEF Plain
  <2>3. CASE k \in ModelsOf(b, p)
    BY <1>2, <2>2, <2>3 DEF Plain
  <2>4. CASE k \in DOMAIN b.owner /\ b.owner[k] = p
    BY <1>2, <2>2, <2>4 DEF Plain
  <2> QED BY <1>2, <2>2, <2>3, <2>4 DEF Bills
<1>3. ASSUME NEW g, NEW h, NEW x, NEW k, NEW p, IsPub(b, x, g), IsOther(b, k, p, h), g.id = h.id
      PROVE  FALSE
  <2>1. x.id = k
    BY <1>3, EntryFields
  <2>2. x \in b.published /\ p \in pricers /\ Bills(b, k, p)
    BY <1>3 DEF IsPub, IsOther
  <2>3. x.key = k /\ x.provider = p
    BY <1>2, <2>1, <2>2
  <2> QED BY <1>3, <2>2, <2>3 DEF IsOther
<1>4. ASSUME NEW k, NEW p, NEW j, NEW q, IsOther(b, k, p, e), IsOther(b, j, q, f) PROVE e = f
  <2>1. j = k
    BY <1>4, EntryFields
  <2>2. p \in pricers /\ q \in pricers /\ Bills(b, k, p) /\ Bills(b, k, q)
    BY <1>4, <2>1 DEF IsOther
  <2>3. \A r, s \in pricers : k \in ModelsOf(b, r) /\ k \in ModelsOf(b, s) => r = s
    BY Published
  <2>4. k \in DOMAIN b.owner => \A r \in pricers : k \in ModelsOf(b, r) => r = b.owner[k]
    BY DEF Plain
  <2>5. p = q
    BY <2>2, <2>3, <2>4 DEF Bills
  <2> QED BY <1>4, <2>1, <2>5 DEF IsOther
<1> QED BY <1>1, <1>3, <1>4, EntriesAre

\* An entry is priced by the rates its id is charged at.
LEMMA EntryIsCharged ==
    ASSUME NEW b, InForce(b), Plain(b), NEW e \in entries(b), NEW s
    PROVE  /\ resolve(b, e.key) = resolve(b, e.id)
           /\ RatesFor(b, e.key, s) = L!ListPrice(b, L!Meant(b, e.id), s)
           /\ TiersOf(b, e.key) = TiersOf(b, e.id)
<1>1. resolve(b, e.key) = resolve(b, e.id)
  <2>1. ASSUME NEW x, IsPub(b, x, e) PROVE resolve(b, e.key) = resolve(b, e.id)
    <3>1. e.id = x.id /\ e.key = x.key
      BY <2>1, EntryFields
    <3>2. \A y \in b.published : resolve(b, y.id) = y.key /\ resolve(b, y.key) = y.key
      BY Published
    <3>3. x \in b.published
      BY <2>1 DEF IsPub
    <3> QED BY <3>1, <3>2, <3>3
  <2>2. ASSUME NEW k, NEW p, IsOther(b, k, p, e) PROVE resolve(b, e.key) = resolve(b, e.id)
    BY <2>2, EntryFields
  <2> QED BY <2>1, <2>2, EntriesAre
<1>2. L!Meant(b, e.id) = resolve(b, e.id)
  BY DEF L!Meant, resolve
<1> QED BY <1>1, <1>2 DEF RatesFor, L!ListPrice, TiersOf

Cost(s, fast, n, c, cost) ==
    [Tier |-> s, Fast |-> fast, AbovePromptTokens |-> n, Component |-> c, Cost |-> cost]

\* The costs a key prices, one by one.
LEMMA PricedAre ==
    ASSUME NEW b, NEW key, NEW x
    PROVE  x \in priced(b, key) <=>
              \E s \in TiersOf(b, key) : \E fast \in Speeds(RatesFor(b, key, s)) :
                 \E t \in Contexts(RatesFor(b, key, s)) : \E c \in Parts :
                    /\ t.TierRates[c] # Nil
                    /\ x = Cost(s, fast, t.AbovePromptTokens, c,
                                t.TierRates[c] * scaled(RatesFor(b, key, s), fast, c) * MultUnit)
<1> DEFINE R(s) == RatesFor(b, key, s)
           costs(s, fast, t) ==
              {[Tier |-> s, Fast |-> fast, AbovePromptTokens |-> t.AbovePromptTokens,
                Component |-> c, Cost |-> t.TierRates[c] * scaled(R(s), fast, c) * MultUnit] :
                  c \in {c \in Parts : t.TierRates[c] # Nil}}
           modes(s) == UNION {costs(s, fast, t) : fast \in Speeds(R(s)), t \in Contexts(R(s))}
<1>1. priced(b, key) = UNION {modes(s) : s \in TiersOf(b, key)}
  BY DEF priced
<1>2. \A s : modes(s) = UNION {costs(s, fast, t) : fast \in Speeds(R(s)), t \in Contexts(R(s))}
  OBVIOUS
<1>3. \A s, fast, t : x \in costs(s, fast, t) <=>
         \E c \in Parts : /\ t.TierRates[c] # Nil
                          /\ x = Cost(s, fast, t.AbovePromptTokens, c,
                                      t.TierRates[c] * scaled(R(s), fast, c) * MultUnit)
  BY DEF Cost
<1> HIDE DEF costs
<1>4. \A s : x \in modes(s) <=>
         \E fast \in Speeds(R(s)), t \in Contexts(R(s)) : x \in costs(s, fast, t)
  BY <1>2
<1> HIDE DEF modes
<1>5. x \in priced(b, key) <=> \E s \in TiersOf(b, key) : x \in modes(s)
  BY <1>1
<1> QED BY <1>3, <1>4, <1>5

----------------------------------------------------------------------------
(* The rows a usage reads.                                                 *)

\* The context a prompt falls in, as the rows tell it.
Applies(r, prompt, n) ==
    /\ n < prompt \/ n = 0
    /\ \A i \in DOMAIN r.Tiers :
          r.Tiers[i].AbovePromptTokens < prompt => r.Tiers[i].AbovePromptTokens <= n

\* One context of sound rates applies to a prompt, and its rates govern.
LEMMA OneContext ==
    ASSUME NEW r, IsRates(r), ValidRates(r), NEW prompt \in Int, NEW governing,
           L!Governs(r, prompt, governing)
    PROVE  \E t \in Contexts(r) :
              /\ t.TierRates = governing
              /\ \A x \in Contexts(r) : Applies(r, prompt, x.AbovePromptTokens) <=> x = t
<1> DEFINE N(i) == r.Tiers[i].AbovePromptTokens
           D == DOMAIN r.Tiers
           base == [AbovePromptTokens |-> 0, TierRates |-> r.Base]
<1>1. \A i \in D : i \in Nat \ {0} /\ N(i) \in Int
  <2>1. Int64 \subseteq Int
    BY DEF Int64
  <2>2. r.Tiers \in Seq(Tier)
    BY DEF IsRates
  <2>3. \A i \in D : i \in Nat \ {0} /\ r.Tiers[i] \in Tier
    BY <2>2
  <2> QED BY <2>1, <2>3 DEF Tier
<1>2. \A i, j \in D : j \in 1 .. i - 1 => N(j) < N(i)
  BY DEF ValidRates
<1>3. \A i \in D : N(i) > 0
  BY DEF ValidRates
<1>4. \A x : x \in Contexts(r) <=> x = base \/ \E i \in D : x = r.Tiers[i]
  BY DEF Contexts
<1>5. base.AbovePromptTokens = 0 /\ base.TierRates = r.Base
  OBVIOUS
<1>6. \A n : Applies(r, prompt, n) <=>
                (n < prompt \/ n = 0) /\ \A i \in D : N(i) < prompt => N(i) <= n
  BY DEF Applies
<1>7. \/ (\A i \in D : prompt <= N(i)) /\ governing = r.Base
      \/ \E i \in D : /\ N(i) < prompt /\ governing = r.Tiers[i].TierRates
                      /\ \A j \in D : N(j) < prompt => N(j) <= N(i)
  BY Zenon DEF L!Governs
<1> HIDE DEF D, base
<1>8. CASE (\A i \in D : prompt <= N(i)) /\ governing = r.Base
  <2>1. ASSUME NEW i \in D PROVE ~ Applies(r, prompt, N(i))
    <3>1. ~ (N(i) < prompt) /\ N(i) # 0
      BY <1>1, <1>3, <1>8
    <3> QED BY <1>6, <3>1
  <2>2. Applies(r, prompt, 0)
    <3>1. \A i \in D : ~ (N(i) < prompt)
      BY <1>1, <1>8
    <3> QED BY <1>6, <3>1
  <2> QED BY <1>4, <1>5, <1>8, <2>1, <2>2
<1>9. ASSUME NEW i \in D, N(i) < prompt, governing = r.Tiers[i].TierRates,
             \A j \in D : N(j) < prompt => N(j) <= N(i)
      PROVE  \E t \in Contexts(r) :
                /\ t.TierRates = governing
                /\ \A x \in Contexts(r) : Applies(r, prompt, x.AbovePromptTokens) <=> x = t
  <2>1. Applies(r, prompt, N(i))
    BY <1>6, <1>9
  <2>2. ~ Applies(r, prompt, 0)
    <3>1. ~ (N(i) <= 0)
      BY <1>1, <1>3
    <3> QED BY <1>6, <1>9, <3>1
  <2>3. ASSUME NEW j \in D, Applies(r, prompt, N(j)) PROVE j = i
    <3>1. N(j) < prompt /\ N(i) <= N(j)
      <4>1. N(j) # 0
        BY <1>1, <1>3
      <4> QED BY <1>6, <1>9, <2>3, <4>1
    <3>2. N(j) = N(i)
      BY <1>1, <1>9, <3>1
    <3>3. i < j => i \in 1 .. j - 1
      BY <1>1
    <3>4. j < i => j \in 1 .. i - 1
      BY <1>1
    <3>5. ~ N(i) < N(j) /\ ~ N(j) < N(i)
      BY <1>1, <3>2
    <3> QED BY <1>1, <1>2, <3>3, <3>4, <3>5
  <2> HIDE DEF N
  <2>4. r.Tiers[i] \in Contexts(r)
    BY <1>4
  <2>5. ASSUME NEW x \in Contexts(r)
        PROVE  Applies(r, prompt, x.AbovePromptTokens) <=> x = r.Tiers[i]
    <3>1. CASE x = base
      <4>1. ~ Applies(r, prompt, x.AbovePromptTokens)
        BY <1>5, <2>2, <3>1
      <4>2. x # r.Tiers[i]
        BY <2>1, <4>1 DEF N
      <4> QED BY <4>1, <4>2
    <3>2. ASSUME NEW j \in D, x = r.Tiers[j]
          PROVE  Applies(r, prompt, x.AbovePromptTokens) <=> x = r.Tiers[i]
      BY <2>1, <2>3, <3>2 DEF N
    <3> QED BY <1>4, <3>1, <3>2
  <2> QED BY <1>9, <2>4, <2>5
<1> QED BY <1>7, <1>8, <1>9

LEMMA RowFields ==
    ASSUME NEW e, NEW s, NEW fast, NEW n, NEW c, NEW cost
    PROVE  LET x == Row(e, Cost(s, fast, n, c, cost))
           IN /\ x.Model = e.id /\ x.Tier = s /\ x.Fast = fast
              /\ x.AbovePromptTokens = n /\ x.Component = c /\ x.Cost = cost
BY DEF Row, Cost

\* The rows of an entry's id are its own.
LEMMA RowsAre ==
    ASSUME NEW b, InForce(b), Plain(b), NEW e \in entries(b), NEW x
    PROVE  x \in rates(b) /\ x.Model = e.id <=>
              \E s \in TiersOf(b, e.key) : \E fast \in Speeds(RatesFor(b, e.key, s)) :
                 \E t \in Contexts(RatesFor(b, e.key, s)) : \E c \in Parts :
                    /\ t.TierRates[c] # Nil
                    /\ x = Row(e, Cost(s, fast, t.AbovePromptTokens, c,
                               t.TierRates[c] * scaled(RatesFor(b, e.key, s), fast, c) * MultUnit))
<1> DEFINE rows(f) == {Row(f, c) : c \in priced(b, f.key)}
<1>1. rates(b) = UNION {rows(f) : f \in entries(b)}
  BY DEF rates
<1>2. \A f : x \in rows(f) => x.Model = f.id
  BY DEF Row
<1>3. x \in rows(e) <=> \E y \in priced(b, e.key) : x = Row(e, y)
  OBVIOUS
<1> HIDE DEF rows
<1>4. x \in rates(b) /\ x.Model = e.id <=> x \in rows(e)
  BY <1>1, <1>2, OneEntry
<1> QED BY <1>3, <1>4, PricedAre

\* What is for sale has rates in the book, at the tier that a usage names.
LEMMA ForSaleIsListed ==
    ASSUME NEW b, NEW model, NEW s, L!ForSale(b, L!Meant(b, model), s)
    PROVE  s \in TiersOf(b, model)
BY DEF L!ForSale, L!Meant, TiersOf, resolve

\* A usage reads one row of a component that its rates price, and the row
\* is at the rate the component bills at.
LEMMA RowIsRate ==
    ASSUME InForce(book), Plain(book), NEW e \in entries(book), e.id = request.model,
           NEW u \in Usage, PremiumOk(u, GoverningRates(u)),
           L!ForSale(book, L!Meant(book, request.model), L!Named(u)),
           IsRates(GoverningRates(u)), ValidRates(GoverningRates(u)),
           NEW governing, L!Governs(GoverningRates(u), L!Prompt(u), governing),
           NEW c \in Parts, governing[c] # Nil
    PROVE  \E x : /\ {y \in RowsFor(u) : y.Component = c} = {x}
                  /\ x.Cost = governing[c] * L!FastFactor(u, GoverningRates(u), c) * MultUnit
<1> DEFINE r == GoverningRates(u)
           s == L!Named(u)
           fast == u.kind = "claude" /\ u.Speed = "fast"
           prompt == L!Prompt(u)
           cost(f, t, d) == t.TierRates[d] * scaled(r, f, d) * MultUnit
           row(f, t, d) == Row(e, Cost(s, f, t.AbovePromptTokens, d, cost(f, t, d)))
<1>1. prompt \in Int
  BY PromptIsInt
<1>2. PICK t \in Contexts(r) :
         /\ t.TierRates = governing
         /\ \A x \in Contexts(r) : Applies(r, prompt, x.AbovePromptTokens) <=> x = t
  BY <1>1, OneContext
<1>3. s \in TiersOf(book, e.key) /\ RatesFor(book, e.key, s) = r
  <2>1. s \in TiersOf(book, e.id)
    BY ForSaleIsListed
  <2>2. TiersOf(book, e.key) = TiersOf(book, e.id)
    BY EntryIsCharged
  <2>3. RatesFor(book, e.key, s) = L!ListPrice(book, L!Meant(book, e.id), s)
    BY EntryIsCharged
  <2> QED BY <2>1, <2>2, <2>3 DEF GoverningRates
<1>4. fast \in Speeds(r) /\ fast \in BOOLEAN
  <2>1. fast => r.Fast # Nil
    BY DEF PremiumOk
  <2>2. Speeds(r) = IF r.Fast = Nil THEN {FALSE} ELSE {FALSE, TRUE}
    BY DEF Speeds
  <2>3. fast \in BOOLEAN
    OBVIOUS
  <2> HIDE DEF r, fast
  <2> QED BY <2>1, <2>2, <2>3
<1>5. scaled(r, fast, c) = L!FastFactor(u, r, c)
  BY DEF scaled, L!FastFactor, TokenParts, L!TokenParts
<1>6. \A y : y \in RowsFor(u) <=>
               /\ y \in rates(book) /\ y.Model = e.id
               /\ y.Tier = s /\ y.Fast = fast /\ Applies(r, prompt, y.AbovePromptTokens)
  <2> USE DEF Applies
  <2> QED BY DEF RowsFor
<1>7. \A f, d, x : LET y == row(f, x, d)
                   IN /\ y.Model = e.id /\ y.Tier = s /\ y.Fast = f /\ y.Component = d
                      /\ y.AbovePromptTokens = x.AbovePromptTokens /\ y.Cost = cost(f, x, d)
  BY RowFields
<1> HIDE DEF fast, prompt, cost
<1>8. ASSUME NEW y \in RowsFor(u), y.Component = c PROVE y = row(fast, t, c)
  <2>1. /\ y \in rates(book) /\ y.Model = e.id
        /\ y.Tier = s /\ y.Fast = fast /\ Applies(r, prompt, y.AbovePromptTokens)
    BY <1>6, <1>8
  <2>2. PICK a \in TiersOf(book, e.key) : \E f \in Speeds(RatesFor(book, e.key, a)) :
           \E x \in Contexts(RatesFor(book, e.key, a)) : \E d \in Parts :
              y = Row(e, Cost(a, f, x.AbovePromptTokens, d,
                    x.TierRates[d] * scaled(RatesFor(book, e.key, a), f, d) * MultUnit))
    BY <2>1, RowsAre
  <2>3. a = s
    BY <2>1, <2>2, RowFields
  <2>4. PICK f, x, d : x \in Contexts(r) /\ y = row(f, x, d)
    <3>1. PICK f \in Speeds(RatesFor(book, e.key, s)) :
             \E x \in Contexts(RatesFor(book, e.key, s)) : \E d \in Parts :
                y = Row(e, Cost(s, f, x.AbovePromptTokens, d,
                      x.TierRates[d] * scaled(RatesFor(book, e.key, s), f, d) * MultUnit))
      BY <2>2, <2>3
    <3> QED BY <1>3, <3>1 DEF cost
  <2> HIDE DEF r, s, row
  <2>5. f = fast /\ d = c /\ y.AbovePromptTokens = x.AbovePromptTokens
    BY <1>7, <1>8, <2>1, <2>4
  <2>6. x = t
    BY <1>2, <2>1, <2>4, <2>5
  <2> QED BY <2>4, <2>5, <2>6
<1>9. row(fast, t, c) \in RowsFor(u)
  <2>1. row(fast, t, c) \in rates(book) /\ row(fast, t, c).Model = e.id
    <3>1. t.TierRates[c] # Nil
      BY <1>2
    <3>2. \E a \in TiersOf(book, e.key) : \E f \in Speeds(RatesFor(book, e.key, a)) :
             \E x \in Contexts(RatesFor(book, e.key, a)) : \E d \in Parts :
                /\ x.TierRates[d] # Nil
                /\ row(fast, t, c) = Row(e, Cost(a, f, x.AbovePromptTokens, d,
                      x.TierRates[d] * scaled(RatesFor(book, e.key, a), f, d) * MultUnit))
      BY <1>3, <1>4, <3>1 DEF cost
    <3> HIDE DEF row
    <3> QED BY <3>2, RowsAre
  <2>2. Applies(r, prompt, t.AbovePromptTokens)
    BY <1>2
  <2> HIDE DEF r, s, row
  <2> QED BY <1>6, <1>7, <2>1, <2>2
<1>10. {y \in RowsFor(u) : y.Component = c} = {row(fast, t, c)}
  <2>1. row(fast, t, c).Component = c
    BY <1>7
  <2> HIDE DEF row
  <2> QED BY <1>8, <1>9, <2>1
<1>11. row(fast, t, c).Cost = governing[c] * L!FastFactor(u, r, c) * MultUnit
  <2>1. row(fast, t, c).Cost = cost(fast, t, c)
    BY <1>7
  <2> QED BY <1>2, <1>5, <2>1 DEF cost
<1> QED BY <1>10, <1>11

\* An unlocated charge is the cost of a row times the tokens it bills.
LEMMA RowsAddUp ==
    ASSUME NEW a \in Int, NEW f \in Int, NEW n \in Int
    PROVE  (a * f * MultUnit) * n = a * n * (f * MultUnit)
<1>1. MultUnit \in Int
  OBVIOUS
<1> QED BY <1>1

\* What is billed of a response is not negative.
LEMMA BilledIsNat ==
    ASSUME NEW u \in Usage, ~ L!Impossible(u), NEW c \in Parts
    PROVE  L!Billed(u, c) \in Nat
<1>1. \A n \in Int64 : n \in Int
  BY DEF Int64
<1>2. CASE u \in ClaudeUsage
  <2>1. /\ u.kind = "claude" /\ u.InputTokens \in Int /\ u.CacheReadInputTokens \in Int
        /\ u.CacheCreationInputTokens \in Int /\ u.CacheCreation1hInputTokens \in Int
        /\ u.OutputTokens \in Int
    BY <1>1, <1>2 DEF ClaudeUsage
  <2> QED BY <2>1 DEF L!Impossible, L!Billed, Parts
<1>3. CASE u \in OpenAIUsage
  <2>1. /\ u.kind = "openai" /\ u.InputTokens \in Int /\ u.CachedInputTokens \in Int
        /\ u.CacheWriteTokens \in Int /\ u.OutputTokens \in Int
    BY <1>1, <1>3 DEF OpenAIUsage
  <2> QED BY <2>1 DEF L!Impossible, L!Billed, Parts
<1>4. CASE u \in FireworksUsage
  <2>1. /\ u.kind = "fireworks" /\ u.InputTokens \in Int /\ u.CachedTokens \in Int
        /\ u.OutputTokens \in Int
    BY <1>1, <1>4 DEF FireworksUsage
  <2> QED BY <2>1 DEF L!Impossible, L!Billed, Parts
<1> QED BY <1>2, <1>3, <1>4 DEF Usage

LEMMA BookCharges ==
    ASSUME Countable, PriceInv, TrialInv
    PROVE  BookExplainsCharge
<1> DEFINE r == GoverningRates(usage)
           t == Governing(usage)
           row(c) == {x \in RowsFor(usage) : x.Component = c}
           billed(c) == L!Billed(usage, c)
           cost(c) == IF billed(c) = 0 THEN 0 ELSE (CHOOSE x \in row(c) : TRUE).Cost * billed(c)
           charge(c) == L!Charge(usage, r, t, c)
           Exact == /\ Plain(book) /\ reply.kind = "ok" /\ reply.source # "degraded"
                    /\ ~ Pinned(usage) /\ ~ Uplifted(usage, GoverningRates(usage))
                    /\ \E e \in entries(book) : e.id = request.model
           Explained == /\ \A c \in Parts : billed(c) > 0 => Cardinality(row(c)) = 1
                        /\ L!Covers(reply.cost, cost("input") + cost("cacheRead")
                              + cost("cacheCreation") + cost("cacheCreation1h") + cost("output"))
<1> SUFFICES ASSUME Exact PROVE Explained
  BY DEF BookExplainsCharge
<1>1. PICK e \in entries(book) : e.id = request.model
  OBVIOUS
<1>2. InForce(book) /\ usage \in Usage
  BY Returned
<1>3. usage \in Pricings(usage)
  BY DEF Pricings
<1>4. Costed(usage, L!Reply("ok", reply.cost))
  BY DEF TrialInv
<1>5. /\ ~ L!Impossible(usage)
      /\ L!ForSale(book, L!Meant(book, request.model), L!Named(usage))
      /\ PremiumOk(usage, r) /\ IsRates(r) /\ ValidRates(r)
      /\ t \in ContextRates(r) /\ L!Governs(r, L!Prompt(usage), t)
      /\ ~ L!Unpriced(usage, t)
      /\ L!Covers(reply.cost, L!Total(usage, r, t))
  BY <1>3, <1>4, TrialsMean
<1>6. ASSUME NEW c \in Parts
      PROVE  /\ billed(c) \in Nat
             /\ billed(c) > 0 => t[c] # Nil
  BY <1>2, <1>5, <1>6, BilledIsNat DEF L!Unpriced, L!Parts, Parts
<1>7. ASSUME NEW c \in Parts, billed(c) > 0
      PROVE  \E x : row(c) = {x} /\ x.Cost = t[c] * L!FastFactor(usage, r, c) * MultUnit
  BY <1>1, <1>2, <1>5, <1>6, <1>7, RowIsRate
<1>8. ASSUME NEW c \in Parts PROVE t[c] \in Int \cup {Nil}
  <2>1. t \in TierRates
    <3>1. r.Base \in TierRates /\ \A i \in DOMAIN r.Tiers : r.Tiers[i] \in Tier
      BY <1>5 DEF IsRates
    <3> QED BY <1>5, <3>1 DEF ContextRates, Tier
  <2> QED BY <2>1 DEF TierRates
<1>9. ASSUME NEW c PROVE L!FastFactor(usage, r, c) \in Int
  <2>1. usage.kind = "claude" /\ usage.Speed = "fast" => r.Fast # Nil
    BY <1>5 DEF PremiumOk
  <2>2. r.Fast \in Int \cup {Nil}
    BY <1>5 DEF IsRates, Multiplier
  <2> HIDE DEF r
  <2> QED BY <2>1, <2>2 DEF L!FastFactor
<1>10. ASSUME NEW c \in Parts
       PROVE  charge(c) = IF billed(c) = 0 THEN 0
                          ELSE t[c] * billed(c) * (L!FastFactor(usage, r, c) * MultUnit)
  BY DEF L!Charge, L!RegionFactor, L!Pinned, Pinned, L!Uplifted, Uplifted
<1>11. L!Total(usage, r, t) = charge("input") + charge("cacheRead") + charge("cacheCreation")
                                + charge("cacheCreation1h") + charge("output")
  BY DEF L!Total
<1> HIDE DEF row, billed, r, t, charge
<1>12. ASSUME NEW c \in Parts, billed(c) > 0 PROVE Cardinality(row(c)) = 1
  BY <1>7, <1>12, FS_Singleton
<1>13. ASSUME NEW c \in Parts PROVE cost(c) = charge(c)
  <2>1. CASE billed(c) = 0
    BY <1>10, <2>1
  <2>2. CASE billed(c) > 0
    <3>1. PICK x : row(c) = {x} /\ x.Cost = t[c] * L!FastFactor(usage, r, c) * MultUnit
      BY <1>7, <2>2
    <3>2. (CHOOSE y \in row(c) : TRUE) = x
      BY <3>1
    <3>3. t[c] \in Int /\ L!FastFactor(usage, r, c) \in Int /\ billed(c) \in Int
      BY <1>6, <1>8, <1>9, <2>2
    <3>4. x.Cost * billed(c) = t[c] * billed(c) * (L!FastFactor(usage, r, c) * MultUnit)
      BY <3>1, <3>3, RowsAddUp
    <3>5. billed(c) # 0
      BY <2>2
    <3> QED BY <1>10, <3>2, <3>4, <3>5
  <2> QED BY <1>6, <2>1, <2>2
<1> HIDE DEF cost
<1>14. L!Covers(reply.cost, cost("input") + cost("cacheRead") + cost("cacheCreation")
                              + cost("cacheCreation1h") + cost("output"))
  <2>1. /\ cost("input") = charge("input") /\ cost("cacheRead") = charge("cacheRead")
        /\ cost("cacheCreation") = charge("cacheCreation")
        /\ cost("cacheCreation1h") = charge("cacheCreation1h")
        /\ cost("output") = charge("output")
    BY <1>13 DEF Parts
  <2>2. L!Covers(reply.cost, L!Total(usage, r, t))
    BY <1>5 DEF r, t
  <2> QED BY <1>11, <2>1, <2>2
<1> QED BY <1>12, <1>14

\* "One list price" is what is charged (book.go:40-43): in a book whose
\* keys do not collide, the rows that a response reads are one for each
\* component it bills, and add up to the cost its price is marked up from.
THEOREM BookIsCharged == Countable => (Spec => []BookExplainsCharge)
<1> SUFFICES ASSUME Countable PROVE Spec => []BookExplainsCharge
  OBVIOUS
<1>1. PriceInv /\ TrialInv => BookExplainsCharge
  BY BookCharges
<1> QED BY <1>1, TrialInvariance, PTL
=============================================================================
