---------------------------- MODULE MCListPrice ----------------------------
(* ListPrice on a small world: int64 is -32..31, the markup is a quarter.  *)
EXTENDS ListPrice, TLC

MCLower(s) == CASE s = "US" -> "us" [] OTHER -> s
MCOwnedBy(p, name) == name = p

rate(i, cr, cc, cc1h, o) ==
    [x \in Parts |-> CASE x = "input" -> i [] x = "cacheRead" -> cr
                       [] x = "cacheCreation" -> cc [] x = "cacheCreation1h" -> cc1h
                       [] x = "output" -> o]
Above(n, tr) == [AbovePromptTokens |-> n, TierRates |-> tr]
model(provider, base, tiers, fast, geo, uplift) ==
    [Base |-> base, Tiers |-> tiers, Fast |-> fast, Geo |-> geo, RegionalUplift |-> uplift,
     litellmProvider |-> provider]

\* Rates are in half nls, multipliers in halves. Above three prompt tokens,
\* Claude has no rate for an hour's cache.
Claude == model("anthropic", rate(2, 1, 3, 4, 5),
                <<Above(1, rate(4, 2, 6, 8, 7)), Above(3, rate(6, 2, 9, Nil, 8))>>,
                3, "us" :> 4, <<>>)
Haiku == model("anthropic", rate(1, 1, Nil, Nil, 2), <<>>, Nil, <<>>, <<>>)
GPT == model("openai", rate(1, 0, Nil, Nil, 3), <<>>, Nil, <<>>, "us" :> 3)
Flex == model("openai", rate(1, 0, Nil, Nil, 1), <<Above(2, rate(2, 1, Nil, Nil, 1))>>, Nil, <<>>, <<>>)
Azure == model("azure", rate(2, 1, 1, 1, 2), <<>>, Nil, <<>>, <<>>)
Flat == model("", rate(3, 1, 1, 1, 3), <<>>, Nil, <<>>, <<>>)

MCSnapshot == "claude" :> ("standard" :> Claude) @@ "haiku" :> ("standard" :> Haiku)
              @@ "gpt" :> ("standard" :> GPT @@ "flex" :> Flex)
              @@ "azure/gpt" :> ("standard" :> Azure)
MCSnapshots == {MCSnapshot}

Sold(id, key, p) == [id |-> id, key |-> key, provider |-> p]
Curation(published, overrides) == [published |-> published, overrides |-> overrides]
Override(p, r) == [provider |-> p, rates |-> r]
MCCurations ==
    { Curation(<<Sold("claude", "claude", "anthropic"), Sold("sonnet", "claude", "anthropic")>>,
               "haiku" :> Override("anthropic", Flat)),
      Curation(<<Sold("gpt", "gpt", "openai")>>, "gpt" :> Override("openai", Flat)),
      Curation(<<Sold("new", "new", "anthropic")>>, "new" :> Override("anthropic", Claude)),
      Curation(<<Sold("haiku", "claude", "anthropic")>>, <<>>),
      Curation(<<Sold("claude", "claude", "anthropic"), Sold("claude", "gpt", "openai")>>, <<>>),
      Curation(<<Sold("azure/gpt", "azure/gpt", "azure")>>, <<>>),
      Curation(<<Sold("claude", "sonnet", "anthropic")>>, <<>>),
      Curation(<<>>, "gpt" :> Override("openai", [Flat EXCEPT !.Base["input"] = 0])) }
MCRequests == [model: {"claude", "haiku", "sonnet", "gpt", "azure/gpt", "new"},
               tier: {"standard"}, speed: {"", "fast", "turbo"}]
              \cup [model: {"gpt", "new"}, tier: {"flex", "batch"}, speed: {"standard"}]

MCUsages ==
    [kind: {"claude"}, InputTokens: {0, 1, 3}, CacheReadInputTokens: {0, 1},
     CacheCreationInputTokens: {0, 1, 2}, CacheCreation1hInputTokens: {0, 1},
     OutputTokens: {0, 2}, Speed: {"", "fast"}, InferenceGeo: {"", "US", "eu"}]
    \cup [kind: {"claude"}, InputTokens: {-1, 1}, CacheReadInputTokens: {0},
          CacheCreationInputTokens: {0}, CacheCreation1hInputTokens: {0}, OutputTokens: {9},
          Speed: {"standard", "turbo"}, InferenceGeo: {""}]
    \cup [kind: {"openai"}, InputTokens: {0, 1, 3}, CachedInputTokens: {0, 1},
          CacheWriteTokens: {0, 1}, OutputTokens: {0, 2, 20},
          ServiceTier: {"", "flex"}, DataResidency: {"", "US"}]
    \cup [kind: {"fireworks"}, InputTokens: {2}, CachedTokens: {0, 1}, OutputTokens: {0}]
=============================================================================
