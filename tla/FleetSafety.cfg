\* Two loops, two jobs of either tier and of two keys; a cache of one row; rows age
\* out; one kill and one exception, and the stops that follow.
CONSTANTS
    j1 = j1
    j2 = j2
    j3 = j3
    k1 = k1
    Jobs = {j2, j3}
    NoJob = NoJob
    Keys = {j2, j3}
    KeyOf <- OwnKey
    MaxEntries = 1
    Retention = 0
    MaxClock = 1
    Size = 2
    FleetSize = 2
    Loops <- FleetLoops
    TiersOf <- AnyTier
    WallCapped = TRUE
    MaxKills = 1
    MaxErrors = 1
    MaxCuts = 0
SPECIFICATION Spec
SYMMETRY Symmetry
INVARIANTS
    SingleOwner
    OrphanMeansRestart
    FirstComeFirstServed
    AtMostOneMail
    AddressOnlyUntilNotice
    CacheReplaysDone
PROPERTIES
    ImplementsLifecycle
