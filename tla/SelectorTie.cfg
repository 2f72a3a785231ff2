\* Two outranked spellings tie, and the answer depends on the map order.
SPECIFICATION FairSpec
CONSTANTS
    Lower <- MCLower
    Respell <- MCRespell
    Dates <- MCDates
    ArtifactVersions = {"-v1:0"}
    LegacyModels = {"claude", "claude-instant"}
    VertexVariants = {"vertex_ai", "vertex_ai-anthropic_models", "vertex_ai-language-models"}
    Selectors <- MCSelectors
    NoKey = NoKey
    Table <- TieTable
    Callers = {g1}
    MaxRestarts = 1
INVARIANT
    Deterministic
CHECK_DEADLOCK FALSE
