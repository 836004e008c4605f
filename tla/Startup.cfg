CONSTANTS
    Hooks = {tracing, own, h1}
    Tracers = {tracing, own}
    Tracing = tracing
    NoTracer = NoTracer
    Clients = {c1}
    Tasks = {t1, t2}
    MaxInFlight = 1
SPECIFICATION FairSpec
INVARIANTS TokensAreTasks HooksRunOnce TracingIsUndone HooksFollowDrain
PROPERTIES DrainRunsHooks StopEndsServer
CHECK_DEADLOCK FALSE
