\* Requests, responses and prices over good, bad and colliding curations.
SPECIFICATION Spec
CONSTANTS
    Nil = Nil
    MaxInt = 31
    RateUnit = 2
    MultUnit = 2
    Lower <- MCLower
    OwnedBy <- MCOwnedBy
    Snapshots <- MCSnapshots
    Curations <- MCCurations
    Requests <- MCRequests
    Usages <- MCUsages
    Scale = 4
    MarkupBasisPoints = 1
INVARIANTS
    TypeOK
    PriceIsCeiling
    RejectedHasNoPrice
    AcceptedIsPriced
    DegradesLeast
    BookExplainsCharge
\* A rejected curation ends the program, and no response may answer a request.
CHECK_DEADLOCK FALSE
