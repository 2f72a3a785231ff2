\* A published price change lands on a pull request that merges by itself.
SPECIFICATION SyncSpec
CONSTANTS
    Nil = Nil
    MaxInt = 15
    RateUnit = 1
    MultUnit = 1
    Lower <- MCLower
    OwnedBy <- MCOwnedBy
    Versions <- MCVersions
    SnapshotOf <- MCSnapshotOf
    Canaries <- MCCanaries
    Curation <- MCCuration
    Initial = "old"
    Usages <- MCUsages
    Daily = "daily"
    Dispatched <- MCDispatched
    MaxCommits = 2
    MaxFailures = 1
PROPERTY UnattendedIsAuto
