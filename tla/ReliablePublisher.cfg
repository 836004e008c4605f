CONSTANTS
    Messages = {m1, m2}
    Replayer = Replayer
    MaxAttempts = 2
    BatchSize = 2
    MaxCrashes = 1
    FailureThreshold = 1
    ResetTimeout = 1
    HalfOpenMax = 1
SPECIFICATION FairSpec
INVARIANTS DuplicatesAreAmbiguous CountAccounting
PROPERTIES OutboxSpec Delivery
CHECK_DEADLOCK FALSE
