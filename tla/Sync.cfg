\* Two overlapping sync runs, their pull request, CI and merges.
SPECIFICATION SyncFairSpec
CONSTANTS
    Nil = Nil
    MaxInt = 15
    RateUnit = 1
    MultUnit = 1
    Lower <- MCLower
    OwnedBy <- MCOwnedBy
    Versions <- MCVersions
    SnapshotOf <- MCSnapshotOf
    Canaries <- MCCanaries
    Curation <- MCCuration
    Initial = "old"
    Usages <- MCUsages
    Daily = "daily"
    Dispatched <- MCDispatched
    MaxCommits = 2
    MaxFailures = 1
INVARIANTS
    SyncTypeOK
    MainPassesGate
    PolicyIsApplied
PROPERTIES
    UnattendedKeepsCharges
    SyncConverges
