CONSTANTS
    Probes = {p1, p2}
    NoProbe = NoProbe
    Checks = {x1, x2}
    TTL = 2
    Timeout = 1
SPECIFICATION HealthFairSpec
INVARIANTS HealthyIsRecent MissingWereOvertaken
PROPERTIES RunsAreSpaced ProbesReturn
