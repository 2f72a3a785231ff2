\* A context of an Azure entry lacks a rate its base was given.
SPECIFICATION Spec
CONSTANTS
    Nil = Nil
    MaxInt = 15
    RateUnit = 2
    MultUnit = 2
    Kilo = 2
    Lower <- MCLower
    Docs <- MCDocs
INVARIANTS
    ContextsInheritBase
\* Parse ends.
CHECK_DEADLOCK FALSE
