\* Merges of the sync and the tags they lead to.
SPECIFICATION Spec
CONSTANTS
    Nil = Nil
    MaxInt = 15
    RateUnit = 1
    MultUnit = 1
    Lower <- MCLower
    OwnedBy <- MCOwnedBy
    Versions <- MCVersions
    SnapshotOf <- MCSnapshotOf
    Canaries <- MCCanaries
    Curation <- MCCuration
    Initial = "old"
    Usages <- MCUsages
    Daily = "daily"
    Dispatched = {}
    MaxCommits = 2
    MaxFailures = 0
    MaxMinor = 1
INVARIANTS
    TypeOK
    ReleasesPassGate
    SpacedMergesAreReleased
PROPERTIES
    ReleasedStays
    ImplementsTag
