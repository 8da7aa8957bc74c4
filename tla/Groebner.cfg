\* All lists of two or three relations of the pool, under two degree bounds.
\* A presentation that has its verdict is done, hence no deadlock check.
SPECIFICATION Spec
CONSTANTS
    P = 3
    Vertices = {1}
    Source <- MCSource
    Target <- MCTarget
    Presentations <- MCPresentations
    MaxRules = 6
    MaxWord = 5
INVARIANTS
    CertifiedIsConfluent
    DistinctLeadsVanish
PROPERTIES
    EachRuleIsNew
    RewritingDescends
CHECK_DEADLOCK FALSE
