\* The sum of two subsets of the input wraps, and an impossible usage is priced.
SPECIFICATION Spec
CONSTANTS
    Nil = Nil
    MaxInt = 7
    RateUnit = 2
    MultUnit = 2
    Lower <- MCLower
    Snapshots <- MCSnapshots
    Configs <- MCConfigs
    Models <- MCModels
    Usages <- MCUsages
INVARIANT
    ImpossibleCountsPanic
CHECK_DEADLOCK FALSE
