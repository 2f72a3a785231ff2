\* Table.Cost keeps what its documents promise, over good and bad tables.
SPECIFICATION Spec
CONSTANTS
    Nil = Nil
    MaxInt = 7
    RateUnit = 2
    MultUnit = 2
    Lower <- MCLower
    Snapshots <- MCSnapshots
    Configs <- MCConfigs
    Models <- MCModels
    Usages <- MCUsages
INVARIANTS
    TypeOK
    EveryTokenBilledOnce
    UseIsNeverFree
PROPERTIES
    ImplementsBilling
\* A rejected config ends the program.
CHECK_DEADLOCK FALSE
