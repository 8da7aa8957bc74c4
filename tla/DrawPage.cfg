SPECIFICATION FairSpec
CONSTANTS
    MaxRuns = 2
    MaxEdits = 1
    MaxFaults = 1
    MaxMisses = 2
    MaxTries = 1
INVARIANTS
    OneRunOnThePage
    StaleIsPending
PROPERTIES
    EstimateSettles
    RunEnds
CHECK_DEADLOCK FALSE
