SPECIFICATION Spec
CONSTANTS
    Sessions = {s1}
    GateSessions = {k1, k2}
    Accounts = {a1}
    Gates = {g1, g2}
    None = None
    MaxTickets = 2
    MaxChecks = 1
    MaxConns = 2
    MaxLosses = 0
SYMMETRY Symmetry
INVARIANT KickEndsLogin
CHECK_DEADLOCK FALSE
