\* ModelSelector.Key, concurrent callers, every map order and a restart.
SPECIFICATION FairSpec
CONSTANTS
    Lower <- MCLower
    Respell <- MCRespell
    Dates <- MCDates
    ArtifactVersions = {"-v1:0"}
    LegacyModels = {"claude", "claude-instant"}
    VertexVariants = {"vertex_ai", "vertex_ai-anthropic_models", "vertex_ai-language-models"}
    Selectors <- MCSelectors
    NoKey = NoKey
    Table <- MCTable
    Callers = {g1, g2}
    MaxRestarts = 1
INVARIANTS
    TypeOK
    WinnerIsUniqueBest
    StandardFormWins
    AnswerIsWhatWasAsked
    Deterministic
    UndatedNeverGuessed
    DroppedStaysReachable
PROPERTIES
    EveryCallReturns
CHECK_DEADLOCK FALSE
