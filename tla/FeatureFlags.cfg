CONSTANTS
    Readers = {r1, r2}
    Flags <- Ramp
    Subjects <- BoundarySubjects
    PollInterval = 2
    MaxAge = 2
SPECIFICATION FairSpec
INVARIANT NothingMissed
PROPERTIES RolloutWidens Convergence
