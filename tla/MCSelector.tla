----------------------------- MODULE MCSelector -----------------------------
(* Selector over small tables with the collisions the vendored one has.     *)
EXTENDS Selector, TLC

MCLower(s) == CASE s = "US" -> "us" [] s = "EU" -> "eu" [] OTHER -> s
MCRespell(b) == IF b = "gpt-35" THEN "gpt-3.5" ELSE b
MCDates == {"20241022", "20250929"}

\* AWS ids: [profile.]anthropic.base-date-vN, and the other forms.
Aws(profile, base, date, ver) ==
    Id("", <<>>, profile, TRUE, base, IF date = "" THEN "" ELSE "-", date, ver)
AwsAt(base, date) == Id("", <<>>, "", TRUE, base, "@", date, "")
On(prefix, path, id) == [id EXCEPT !.prefix = prefix, !.path = path]

Sonnet == Aws("", "sonnet", "20250929", "-v1:0")
SonnetAt == AwsAt("sonnet", "20250929")
SonnetBare == On("bedrock", <<>>, Aws("", "sonnet", "20250929", ""))
SonnetUS == Aws("us", "sonnet", "20250929", "-v1:0")
Opus1 == Aws("", "opus", "20241022", "-v1:0")
Opus2 == Aws("", "opus", "20250929", "-v1:0")
OpusGov == On("bedrock", <<"us-gov">>, Opus1)
Gpt35 == On("azure", <<>>, Plain(<<>>, "gpt-35", "", ""))
Gemini == Plain(<<>>, "gemini", "20241022", "")
GeminiAt == Id("", <<>>, "", FALSE, "gemini", "@", "20241022", "")
GeminiVertex == On("vertex_ai", <<>>, GeminiAt)

All(keys, lp) == [k \in keys |-> lp]

\* Rivals with a standard form, three rivals without one, two dates of one
\* model, and regions by profile and by path.
MCTable == All({Sonnet, SonnetAt, SonnetUS, Opus1, Opus2}, "bedrock_converse")
             @@ All({Gpt35}, "azure") @@ All({OpusGov}, "bedrock")
             @@ All({Gemini, GeminiAt}, "vertex_ai-language-models") @@ All({GeminiVertex}, "vertex_ai")

\* Two outranked spellings of equal priority beside the standard one.
TieTable == All({Sonnet, SonnetAt, SonnetBare}, "bedrock")

Select(provider, m, region) == [Provider |-> provider, Model |-> m, Region |-> region]
Name(base, date) == Plain(<<>>, base, date, "")

MCSelectors ==
    { Select("bedrock", Sonnet, ""), Select("bedrock", Name("sonnet", "20250929"), ""),
      Select("bedrock", Name("sonnet", ""), "US"), Select("bedrock", Name("opus", ""), ""),
      Select("vertex_ai", Name("gemini", "20241022"), ""), Select("vertex_ai", GeminiAt, ""),
      Select("bedrock", Name("opus", ""), "us-gov"), Select("bedrock", Opus2, ""),
      Select("azure", Name("gpt-3.5", ""), ""), Select("azure", Name("gpt-3.5", ""), "EU"),
      Select("openai", Sonnet, ""), Select("openai", Sonnet, "us") }
=============================================================================
