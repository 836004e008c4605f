CONSTANTS
    a1 = a1
    a2 = a2
    b1 = b1
    Requests = {a1, a2, b1}
    NoRequest = NoRequest
    Hash <- MCHash
    TTL = 2
    CleanupInterval = 2
    MaxDelay = 1
    Timely = TRUE
SPECIFICATION ChangeSpec
INVARIANTS ReplayMatchesRequest OneChangePerKey StoredAnswerIsTrue
PROPERTIES KeyOutlivesTTL PendingIsResolved
