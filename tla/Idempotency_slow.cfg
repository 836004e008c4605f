CONSTANTS
    a1 = a1
    a2 = a2
    b1 = b1
    Requests = {a1, a2, b1}
    NoRequest = NoRequest
    Hash <- MCHash
    TTL = 2
    CleanupInterval = 1
    MaxDelay = 1
    Timely = FALSE
SPECIFICATION ChangeSpec
INVARIANT ReplayMatchesRequest
SYMMETRY Symmetry
