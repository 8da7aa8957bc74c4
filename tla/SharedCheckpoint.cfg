SPECIFICATION Spec
CONSTANTS
    Runs = {r1, r2}
    Dirs = {d1}
    DirOf <- MCDirOf
    Top = 2
    Cost <- MCCost
    Limit = 0
    Algebras <- MCAlgebras
INVARIANT PointerKeepsUp
CHECK_DEADLOCK FALSE
