\* Four relations, two of them with the same leading word, in every order.
\* A presentation that has its verdict is done, hence no deadlock check.
SPECIFICATION Spec
CONSTANTS
    P = 3
    Vertices = {1}
    Source <- MCSource
    Target <- MCTarget
    Presentations <- TwoOfALead
    MaxRules = 6
    MaxWord = 5
INVARIANT CleanupKeepsIdeal
CHECK_DEADLOCK FALSE
