----------------------------- MODULE MCSnapshot -----------------------------
(* Snapshot on small price maps: int64 is -16..15 and k stands for 2.       *)
EXTENDS Snapshot, TLC

MCLower(s) == CASE s = "US" -> "us" [] s = "EU" -> "eu" [] OTHER -> s

Field(part, ctx, s) == [part |-> part, ctx |-> ctx, svc |-> s]
k(n) == [n |-> n, k |-> TRUE]
tokens(n) == [n |-> n, k |-> FALSE]

\* The input and output rates of a context at a service tier.
Sell(ctx, s, i, o) == Field("input", ctx, s) :> i @@ Field("output", ctx, s) :> o
Cache(ctx, s, x) == Field("cacheRead", ctx, s) :> x
Write(ctx, s, x) == Field("cacheCreation", ctx, s) :> x

Model(lp, cost, entry, uplift) ==
    [litellm_provider |-> lp, cost |-> cost, entry |-> entry, uplift |-> uplift]

GPT == Model("openai",
             Sell(Nil, "standard", 4, 6) @@ Cache(Nil, "standard", 1) @@ Write(Nil, "standard", 5)
               @@ Sell(k(2), "standard", 8, 9) @@ Write(k(2), "standard", 7)
               @@ Sell(Nil, "flex", 2, 3) @@ Cache(Nil, "flex", 0),
             <<>>, "EU" :> 3)
\* Publishes no cache rate but that of one context, and a context of its own.
Azure == Model("azure",
               Sell(Nil, "standard", 5, 7) @@ Sell(tokens(4), "standard", 9, 9)
                 @@ Cache(tokens(4), "standard", 2) @@ Sell(Nil, "flex", 3, 3)
                 @@ Sell(Nil, "priority", 9, 9) @@ Field("input", k(3), "flex") :> Nil,
               <<>>, <<>>)
Zone == Model("azure_text", Sell(Nil, "standard", 6, 6) @@ Write(Nil, "standard", 0), <<>>, <<>>)
AzureAI == Model("azure_ai", Sell(Nil, "standard", 6, 6), <<>>, <<>>)
\* An Azure entry with a context its twin does not have.
Wider == Model("azure", Sell(Nil, "standard", 5, 7) @@ Sell(k(4), "standard", 9, 9), <<>>, <<>>)
Claude == Model("anthropic",
                Sell(Nil, "standard", 4, 6) @@ Cache(Nil, "standard", 1)
                  @@ Field("input", k(2), "standard") :> 8 @@ Field("input", k(3), "standard") :> 9
                  @@ Field("input", tokens(1), "standard") :> 0
                  @@ Field("input", tokens(0), "standard") :> 5
                  @@ Field("input", tokens(16), "standard") :> 5,
                "fast" :> 3 @@ "US" :> 2 @@ "eu" :> 0 @@ "bedrock" :> Nil,
                "us" :> -1)
\* Cannot bill at standard: no output, a negative cache rate.
Free == Model("openai", Sell(Nil, "flex", 2, 3) @@ Field("input", Nil, "standard") :> 0, <<>>, <<>>)
Negative == Model("openai", Sell(Nil, "standard", 2, 3) @@ Cache(Nil, "standard", -1), <<>>, <<>>)

\* A threshold beyond int64 once the k is applied.
Beyond == Model("azure", Sell(Nil, "standard", 5, 7) @@ Sell(k(15), "standard", 9, 9), <<>>, <<>>)

\* One threshold spelt in two ways, at two prices.
Twice == Model("openai", Sell(Nil, "standard", 5, 7) @@ Sell(k(2), "standard", 9, 9)
                           @@ Sell(tokens(4), "standard", 8, 8), <<>>, <<>>)

\* An OpenAI model, its Azure entry and that of a data zone, or what may be
\* found in their places.
Triple(twin, azure, zone) ==
    <<"gpt">> :> twin @@ <<"azure", "gpt">> :> azure @@ <<"azure", "us", "gpt">> :> zone

MCDocs ==
    {Nil}
    \cup {Triple(twin, azure, zone) : twin \in {GPT, Negative, AzureAI, Nil},
             azure \in {Azure, Wider, Beyond, GPT}, zone \in {Zone, Azure, Free}}
    \cup { <<"sample_spec">> :> Nil @@ <<"free">> :> Free @@ <<"negative">> :> Negative, <<"twice">> :> Twice,
           <<"gpt">> :> GPT @@ <<"azure", "us", "hd", "gpt">> :> Zone
             @@ <<"azure_ai", "gpt">> :> AzureAI,
           <<"claude">> :> Claude @@ <<"free">> :> Free @@ <<"sample_spec">> :> Nil }

=============================================================================
