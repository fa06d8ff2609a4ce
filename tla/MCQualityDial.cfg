SPECIFICATION Spec
CONSTANTS
    c1 = c1
    c2 = c2
    Calls = {c1, c2}
    Orders = 3
    Latencies = {1, 3}
    Thresholds = {0, 2}
    ErrorLimits = {0, 2}
SYMMETRY EitherCall
CHECK_DEADLOCK FALSE
INVARIANTS DialOutcome
