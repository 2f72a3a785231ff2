\* Parse, in every order of its loops, reads what the price map publishes.
SPECIFICATION Spec
CONSTANTS
    Nil = Nil
    MaxInt = 15
    RateUnit = 2
    MultUnit = 2
    Kilo = 2
    Lower <- MCLower
    Docs <- MCDocs
INVARIANTS
    ReadsAsPublished
    ParsedRatesAreValid
PROPERTIES
    PublishedRateStands
\* Parse ends.
CHECK_DEADLOCK FALSE
