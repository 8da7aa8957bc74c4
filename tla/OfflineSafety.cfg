\* One copy, two jobs, two launches, one fault, two hours.
\* The app may stay closed once the launches are used up, hence no deadlock check.
CONSTANTS
    j1 = j1
    j2 = j2
    k1 = k1
    Jobs = {j1, j2}
    NoJob = NoJob
    Keys = {k1}
    KeyOf <- SameKey
    MaxEntries = 1
    Retention = 1
    MaxClock = 1
    Copies = 1
    Loops <- AppLoops
    WallCapped = FALSE
    MaxFaults = 1
    MaxLaunches = 2
SPECIFICATION FairSpec
INVARIANTS
    RunningIsLive
    OnlyToldAreCancelled
    ReadCancelIsFinal
    NeverRerun
PROPERTIES
    ImplementsLifecycle
    CancelEndsTheJob
CHECK_DEADLOCK FALSE
