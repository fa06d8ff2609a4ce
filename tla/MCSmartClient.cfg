SPECIFICATION Spec
CONSTANTS
    c1 = c1
    c2 = c2
    p = p
    q = q
    r = r
    Calls = {c1, c2}
    Peers = {p, q, r}
    Announced = {p, r}
    Regional = {p}
    Connected = {q}
    NoAddr = {r}
    PreferredRegion = TRUE
    MaxProviders = 2
    TTL = 1
    FailureWindow = 2
    Latencies = {60}
    MaxLookup = 1
    MaxTime = 3
    MaxChanges = 1
SYMMETRY EitherCall
CHECK_DEADLOCK FALSE
INVARIANTS FailureExplained ListAge BlameExact
