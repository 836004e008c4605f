CONSTANTS
    c1 = c1
    c2 = c2
    Callers <- MCCallers
    Policies <- TwoPolicies
    Cost = 2
    MaxAge = 3
    MaxDelay = 1
    MaxTime = 4
    MaxBuckets = 2
SPECIFICATION Spec
CHECK_DEADLOCK FALSE
SYMMETRY Symmetry
INVARIANTS RateBound OneLiveBucket
