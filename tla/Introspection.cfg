CONSTANTS
    c1 = c1
    c2 = c2
    t1 = t1
    t2 = t2
    t3 = t3
    NoToken = NoToken
    Callers = {c1,c2}
    Tokens = {t1,t2,t3}
    TTL = 1
    Timeout = 1
    MaxSize = 2
    ScopeLists <- Asked
    Lifetimes = {0, 1, 4}
    Margin = 2
SPECIFICATION ClientSpec
INVARIANTS MostRecentKept TokenServes
PROPERTY BoundedStaleness
SYMMETRY ThreeTokens
