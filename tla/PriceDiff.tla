----------------------------- MODULE PriceDiff ------------------------------
(***************************************************************************)
(* cmd/pricediff: how the rows of one price book differ from those of      *)
(* another.  No two rows of a book have the same key here, so the index of *)
(* a book is a function of its rows; what a report looks like is left out. *)
(***************************************************************************)
EXTENDS Book

\* key: what names a rate.
KeyOf(x) == [provider |-> x.PricedBy, model |-> x.Model, tier |-> x.Tier,
             component |-> x.Component, fast |-> x.Fast, above |-> x.AbovePromptTokens]
index(rows) == {KeyOf(x) : x \in rows}
Moved(x, rows) == \E y \in rows : KeyOf(y) = KeyOf(x) /\ y.Cost # x.Cost
Priced(rows) == {x.Model : x \in rows}

\* Faulty variant: a rate that appears is an addition, whatever its model
\* had before.
diffAdds(base, head) ==
    [removed |-> {x \in base : x.Published /\ KeyOf(x) \notin index(head)},
     repriced |-> {x \in base : x.Published /\ Moved(x, head)},
     added |-> {x \in head : x.Published /\ KeyOf(x) \notin index(base)},
     unpublished |-> {x \in base \cup head : ~ x.Published}]

diff(base, head) ==
    LET gone == {x \in base : KeyOf(x) \notin index(head)}
        moved == {x \in base : Moved(x, head)}
        new == {x \in head : KeyOf(x) \notin index(base)}
        beside == {x \in new : x.Model \in Priced(base)}
    IN [removed |-> {x \in gone : x.Published},
        repriced |-> {x \in moved \cup beside : x.Published},
        added |-> {x \in new \ beside : x.Published},
        unpublished |-> {x \in gone \cup moved \cup new : ~ x.Published}]

class(d) == CASE d.removed # {} -> "published-removed"
              [] d.removed = {} /\ d.repriced # {} -> "published-price-change"
              [] d.removed = {} /\ d.repriced = {} /\ d.added # {} -> "published-added"
              [] OTHER -> IF d.unpublished # {} THEN "unpublished-only" ELSE "none"
=============================================================================
