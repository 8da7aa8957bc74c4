SPECIFICATION FairSpec
CONSTANTS
    Runs = {r1, r2}
    Dirs = {r1, r2}
    DirOf <- MCDirOf
    Top = 2
    Cost <- MCCost
    Limit = 4
    Algebras <- MCAlgebras
    Items <- MCItems
    Deep = "deep"
    MaxFailures = 2
INVARIANTS
    LosesOneDegree
    ResultIsComplete
    CleanStopKeepsAll
PROPERTY
    JobIsOver
CHECK_DEADLOCK FALSE
