\* Two loops, a big job and an anonymous one; one kill, one exception, one operator
\* stop; every deadline comes, no child has to end.
CONSTANTS
    j1 = j1
    j2 = j2
    j3 = j3
    k1 = k1
    Jobs = {j2, j3}
    NoJob = NoJob
    Keys = {k1}
    KeyOf <- SameKey
    MaxEntries = 1
    Retention = 1
    MaxClock = 0
    Size = 2
    FleetSize = 2
    Loops <- FleetLoops
    TiersOf <- OneAnonymous
    WallCapped = TRUE
    MaxKills = 1
    MaxErrors = 1
    MaxCuts = 1
SPECIFICATION SpecCapped
INVARIANTS
    RerunsAreCuts
PROPERTIES
    EveryJobEnds
    StopCompletes
