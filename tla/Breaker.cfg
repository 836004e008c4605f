CONSTANTS
    c1 = c1
    c2 = c2
    c3 = c3
    Callers = {c1, c2, c3}
    Mode <- OneOfEach
    CanPanic = TRUE
    FailureThreshold = 2
    ResetTimeout = 2
    HalfOpenMax = 2
SPECIFICATION FairSpec
INVARIANTS FailureRunMatchesState ProbeBudget
PROPERTIES OpenWindow WedgedUntilReset DegradedEnds
