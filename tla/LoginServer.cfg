SPECIFICATION Spec
CONSTANTS
    Sessions = {s1}
    GateSessions = {k1, k2}
    Accounts = {a1}
    Gates = {g1, g2}
    None = None
    MaxTickets = 2
    MaxChecks = 1
    MaxConns = 1
    MaxLosses = 2
SYMMETRY Symmetry
INVARIANTS GatePointers RegisteredReachable SingleLogin
CHECK_DEADLOCK FALSE
