----------------------------- MODULE KeyGrammar -----------------------------
(***************************************************************************)
(* The pure part of selector.go: which provider owns a pricing key, how a  *)
(* native id is spelled as a key, and the canonical vendor name a key of a *)
(* renaming cloud stands for.                                              *)
(*                                                                         *)
(* A model string is a record of the parts the grammar tells apart, so two *)
(* strings are equal exactly when the records are:                         *)
(*    prefix/path[1]/.../profile.vendor.base{sep}{date}{ver}               *)
(* e.g. us.anthropic.claude-sonnet-4-5-20250929-v1:0 has profile "us",     *)
(* a vendor, base "claude-sonnet-4-5", sep "-", date "20250929" and ver    *)
(* "-v1:0"; the 8-digit dates are the members of Dates.                    *)
(***************************************************************************)
EXTENDS Sequences, Naturals

CONSTANTS Lower(_),         \* strings.ToLower
          Respell(_),       \* "gpt-35..." to "gpt-3.5...", else unchanged
          Dates,            \* the 8-digit date suffixes
          ArtifactVersions, \* the suffixes bedrockArtifactVersion and bedrockBareArtifact match
          LegacyModels,     \* "claude" and "claude-instant"
          VertexVariants    \* the litellm_provider values that begin with vertex_ai

Id(prefix, path, profile, vendor, base, sep, date, ver) ==
    [prefix |-> prefix, path |-> path, profile |-> profile, vendor |-> vendor,
     base |-> base, sep |-> sep, date |-> date, ver |-> ver]

\* A vendor's own model name: no prefix, no vendor segment, "-" before a date.
Plain(path, base, date, ver) ==
    Id("", path, "", FALSE, base, IF date = "" THEN "" ELSE "-", date, ver)

Empty == Plain(<<>>, "", "", "")

owns(provider, lp) ==
    \/ provider = "openai" /\ lp \in {"openai", "text-completion-openai"}
    \/ provider = "anthropic" /\ lp = "anthropic"
    \/ provider = "azure" /\ lp \in {"azure", "azure_text"}
    \/ provider = "azure_ai" /\ lp = "azure_ai"
    \/ provider = "bedrock" /\ lp \in {"bedrock", "bedrock_converse", "bedrock_mantle"}
    \/ provider = "vertex_ai" /\ lp \in VertexVariants
    \/ provider = "fireworks_ai" /\ lp = "fireworks_ai"

----------------------------------------------------------------------------
(* Native ids.  A set of keys with at most one member stands for (key, ok).*)

\* "prefix/" + model, for a model that has no prefix of its own; no key of
\* the table has two.
Prefixed(prefix, path, m) ==
    IF m.prefix = "" THEN {[m EXCEPT !.prefix = prefix, !.path = path \o m.path]} ELSE {}

\* key(): the provider's native spelling of a selector.
NativeIds(s) ==
    LET region == Lower(s.Region)
    IN IF s.Model = Empty THEN {}
       ELSE IF s.Provider \in {"openai", "anthropic", "bedrock"}
       THEN IF region = "" THEN {s.Model} ELSE {}
       ELSE IF s.Provider = "fireworks_ai"
       THEN IF region = "" THEN Prefixed("fireworks_ai", <<>>, s.Model) ELSE {}
       ELSE IF s.Provider \in {"azure", "azure_ai", "vertex_ai"}
       THEN Prefixed(s.Provider, IF region = "" THEN <<>> ELSE <<region>>, s.Model)
       ELSE {}

\* Bedrock's second spelling, tried when the bare id misses.
MantleIds(s) ==
    IF s.Provider = "bedrock"
    THEN UNION {Prefixed("bedrock_mantle", <<>>, k) : k \in NativeIds(s)} ELSE {}

\* name is base plus "-" and an 8-digit date.
isDatedVariantOf(name, base) ==
    /\ name.sep = "-" /\ name.date \in Dates /\ name.ver = ""
    /\ base = [name EXCEPT !.sep = "", !.date = ""]

----------------------------------------------------------------------------
(* Canonical names.  Again a set with at most one member, empty when the   *)
(* key is outside the scheme.                                              *)

Claim(provider, name, region, prio) ==
    {[provider |-> provider, name |-> name, region |-> region, prio |-> prio]}

\* stripBedrockArtifact: the artifact suffix of an AWS id goes, except on the
\* undated Claude 1/2 family, where it is the model's version.
stripBedrockArtifact(id) ==
    IF id.ver \in ArtifactVersions
         /\ ~ (~ id.vendor /\ id.path = <<>> /\ id.base \in LegacyModels /\ id.date = "")
    THEN "" ELSE id.ver

\* bedrockID sees the vendor only at the start of what follows the region.
BedrockClaim(id) ==
    LET keyed == id.prefix = "bedrock" /\ id.path # <<>>
        region == IF keyed THEN id.path[1] ELSE ""
        rest == IF keyed THEN Tail(id.path) ELSE id.path
        vendored == id.vendor /\ rest = <<>>
        model(ver) == Id("", rest, IF vendored THEN "" ELSE id.profile, id.vendor /\ ~ vendored,
                         id.base, IF id.sep = "@" THEN "-" ELSE id.sep, id.date, ver)
        name == model(stripBedrockArtifact(model(id.ver)))
    IN IF id.prefix = "bedrock_mantle" THEN {}
       ELSE IF ~ vendored THEN Claim("bedrock", name, region, 2)
       ELSE IF id.profile # "" /\ region # "" THEN {}
       ELSE Claim("bedrock", name, IF id.profile # "" THEN id.profile ELSE region,
                  IF name.ver # id.ver THEN 0 ELSE 1)

VertexClaim(id) ==
    IF id.sep = "@" /\ id.date = "default" /\ id.ver = ""
    THEN Claim("vertex_ai", Plain(id.path, id.base, "", ""), "", 1)
    ELSE IF id.sep = "@"
    THEN Claim("vertex_ai", Plain(id.path, id.base, id.date, id.ver), "", 0)
    ELSE IF id.path # <<>>
    THEN Claim("vertex_ai", Plain(<<>>, id.base, id.date, IF id.ver = "-maas" THEN "" ELSE id.ver),
               "", 1)
    ELSE Claim("vertex_ai", Plain(<<>>, id.base, id.date, id.ver), "", 0)

AzureClaim(provider, id) ==
    IF id.prefix # provider \/ Len(id.path) > 1 THEN {}
    ELSE Claim(provider,
               Plain(<<>>, IF provider = "azure" THEN Respell(id.base) ELSE id.base, id.date, id.ver),
               IF id.path = <<>> THEN "" ELSE id.path[1], 0)

canonicalize(id, lp) ==
    IF owns("bedrock", lp) THEN BedrockClaim(id)
    ELSE IF owns("vertex_ai", lp) THEN VertexClaim(id)
    ELSE IF owns("azure", lp) THEN AzureClaim("azure", id)
    ELSE IF owns("azure_ai", lp) THEN AzureClaim("azure_ai", id)
    ELSE {}
=============================================================================
