SPECIFICATION Spec
CONSTANTS
    c1 = c1
    c2 = c2
    p = p
    q = q
    r = r
    Calls = {c1, c2}
    Peers = {p, q, r}
    Announced = {p, q, r}
    Regional = {}
    Connected = {}
    NoAddr = {}
    PreferredRegion = FALSE
    MaxProviders = 3
    TTL = 1
    FailureWindow = 2
    Latencies = {60}
    MaxLookup = 1
    MaxTime = 2
    MaxChanges = 0
CHECK_DEADLOCK FALSE
PROPERTIES OrderFollowsScores
