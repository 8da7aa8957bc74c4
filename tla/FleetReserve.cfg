\* Two loops, two big jobs and an anonymous one; big jobs never reach their deadline;
\* one kill, and the stop that follows.
CONSTANTS
    j1 = j1
    j2 = j2
    j3 = j3
    k1 = k1
    Jobs = {j1, j2, j3}
    NoJob = NoJob
    Keys = {k1}
    KeyOf <- SameKey
    MaxEntries = 1
    Retention = 1
    MaxClock = 0
    Size = 2
    FleetSize = 2
    Loops <- FleetLoops
    TiersOf <- OneAnonymous
    WallCapped = TRUE
    MaxKills = 1
    MaxErrors = 0
    MaxCuts = 0
SPECIFICATION SpecBigForever
PROPERTIES
    AnonymousServed
