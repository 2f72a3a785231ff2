\* Thresholds that repeat, or wrap around int64.
SPECIFICATION Spec
CONSTANTS
    Nil = Nil
    MaxInt = 15
    RateUnit = 2
    MultUnit = 2
    Kilo = 2
    Lower <- MCLower
    Docs <- MCDocs
INVARIANTS
    ThresholdsAscend
\* Parse ends.
CHECK_DEADLOCK FALSE
