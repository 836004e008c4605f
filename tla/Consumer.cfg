CONSTANTS
    WireFormat = "json"
    Propagator = "noop"
    Events <- TwoEvents
    Members = {m1, m2}
    Count = 2
    MaxStarts = 3
SPECIFICATION GroupFairSpec
INVARIANTS PassedIsHandledOrPending FormatsAgree TraceArrives
PROPERTY GroupDelivery
CHECK_DEADLOCK FALSE
