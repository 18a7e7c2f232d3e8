SPECIFICATION Spec
CONSTANTS
    Sessions = {s1}
    GateSessions = {k1}
    Accounts = {a1}
    Gates = {g1}
    None = None
    MaxTickets = 2
    MaxChecks = 1
    MaxConns = 2
    MaxLosses = 1
INVARIANT SessionKept
CHECK_DEADLOCK FALSE
