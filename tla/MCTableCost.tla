---------------------------- MODULE MCTableCost ----------------------------
(* TableCost on a small world: int64 is -8..7, one nls is eight quanta.     *)
EXTENDS TableCost, TLC

\* strings.ToLower on the names in use.
MCLower(s) == CASE s = "US" -> "us" [] s = "Global" -> "global" [] OTHER -> s

\* Rates in half nls, multipliers in halves: "fast" is 3/2, "us" is 2x (Geo)
\* or 3/2 (RegionalUplift).
rate(i, cr, cc, cc1h, o) ==
    [x \in Parts |-> CASE x = "input" -> i [] x = "cacheRead" -> cr
                       [] x = "cacheCreation" -> cc [] x = "cacheCreation1h" -> cc1h
                       [] x = "output" -> o]
Above(n, tr) == [AbovePromptTokens |-> n, TierRates |-> tr]
model(base, tiers, fast, geo, uplift) ==
    [Base |-> base, Tiers |-> tiers, Fast |-> fast, Geo |-> geo, RegionalUplift |-> uplift]

Claude == model(rate(2, 1, 3, 4, 5), <<Above(2, rate(4, 2, 6, 8, 7)), Above(4, rate(6, Nil, 9, 12, 8))>>,
                3, "us" :> 4, <<>>)
Cheap == model(rate(1, 0, Nil, Nil, 1), <<>>, Nil, <<>>, "us" :> 3)
CheapFlex == model(rate(1, 0, 0, Nil, 2), <<Above(1, rate(2, 0, 0, Nil, 1))>>, Nil, <<>>, <<>>)

Snapshot == "claude" :> ("standard" :> Claude)
              @@ "gpt" :> ("standard" :> Cheap @@ "flex" :> CheapFlex)

Config(aliases, overrides) == [Aliases |-> aliases, Overrides |-> overrides]
Flat == model(rate(3, 1, 1, 1, 3), <<>>, Nil, <<>>, <<>>)
Descending == [Claude EXCEPT !.Tiers = <<Above(4, Flat.Base), Above(2, Claude.Base)>>]
Repeating == [Claude EXCEPT !.Tiers = <<Above(4, Flat.Base), Above(4, Claude.Base)>>]

MCSnapshots == {Nil, Snapshot}
MCConfigs ==
    { Config(<<>>, <<>>),
      Config("alias" :> "claude", "gpt" :> Flat),
      Config("alias" :> "gpt", "gpt" :> Nil @@ "new" :> Claude),
      Config("gpt" :> "claude" @@ "alias" :> "new", "new" :> Flat),
      Config("alias" :> "", <<>>),
      Config("alias" :> "gpt" @@ "gpt" :> "claude", <<>>),
      Config("alias" :> "new", <<>>),
      Config(<<>>, "gpt" :> Descending),
      Config("alias" :> "gpt", "gpt" :> Repeating),
      Config(<<>>, "gpt" :> [Flat EXCEPT !.Geo = "us" :> Nil]) }
MCModels == {"claude", "gpt", "alias", "new"}

MCUsages ==
    [kind: {"claude"}, InputTokens: {-1, 0, 1, 3}, CacheReadInputTokens: {0, 2},
     CacheCreationInputTokens: {0, 2, 7}, CacheCreation1hInputTokens: {0, 1, 3},
     OutputTokens: {0, 1}, Speed: {"", "fast"}, InferenceGeo: {"Global", "US"}]
    \cup [kind: {"claude"}, InputTokens: {1}, CacheReadInputTokens: {0},
          CacheCreationInputTokens: {0}, CacheCreation1hInputTokens: {0}, OutputTokens: {1},
          Speed: {"standard", "turbo"}, InferenceGeo: {"", "not_available", "eu"}]
    \cup [kind: {"openai"}, InputTokens: {0, 1, 2, 7}, CachedInputTokens: {0, 1, 7},
          CacheWriteTokens: {0, 1, 7}, OutputTokens: {-1, 0, 1},
          ServiceTier: {"", "flex", "batch"}, DataResidency: {"", "US"}]
    \cup [kind: {"fireworks"}, InputTokens: {0, 2, 3}, CachedTokens: {0, 2, 3},
          OutputTokens: {0, 7}]
=============================================================================
