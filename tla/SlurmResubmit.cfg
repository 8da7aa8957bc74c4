SPECIFICATION Spec
CONSTANTS
    Runs = {r1, r2}
    Dirs = {r1, r2}
    DirOf <- MCDirOf
    Top = 2
    Cost <- MCCost
    Limit = 4
    Algebras <- MCAlgebras
    Items <- MCItems
    Deep = "deep"
    MaxFailures = 2
INVARIANT ResubmissionResumes
CHECK_DEADLOCK FALSE
