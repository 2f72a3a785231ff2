------------------------------- MODULE MCData --------------------------------
(* Five versions of the vendored data: gpt is published, mini is not.      *)
EXTENDS Rates, TLC

MCLower(s) == s
MCOwnedBy(p, name) == name = p

rate(i, o) == [x \in Parts |-> CASE x = "input" -> i [] x = "output" -> o [] OTHER -> Nil]
Above(n, tr) == [AbovePromptTokens |-> n, TierRates |-> tr]
model(base, tiers) == [Base |-> base, Tiers |-> tiers, Fast |-> Nil, Geo |-> <<>>,
                       RegionalUplift |-> <<>>, litellmProvider |-> "openai"]
Sells(gpt, mini) == "gpt" :> ("standard" :> gpt) @@ "mini" :> ("standard" :> mini)

Flat == model(rate(2, 3), <<>>)
Long == model(rate(2, 3), <<Above(1, rate(4, 3))>>)
Dear == model(rate(4, 6), <<>>)

MCSnapshotOf(v) ==
    CASE v = "old" -> Sells(Flat, Flat)
      [] v = "mini" -> Sells(Flat, Dear)      \* an unpublished price moved
      [] v = "long" -> Sells(Long, Flat)      \* a published rate appeared
      [] v = "gone" -> "mini" :> ("standard" :> Flat)
      [] v = "broken" -> Nil
MCVersions == {"old", "mini", "long", "gone", "broken"}
MCCanaries(v) == TRUE
MCCuration == [published |-> <<[id |-> "gpt", key |-> "gpt", provider |-> "openai"]>>,
               overrides |-> <<>>]
MCUsages == [kind: {"openai"}, InputTokens: {1, 2}, CachedInputTokens: {0},
             CacheWriteTokens: {0}, OutputTokens: {0, 1}, ServiceTier: {"", "flex"},
             DataResidency: {""}]
MCDispatched == {"manual"}
=============================================================================
