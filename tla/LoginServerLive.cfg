SPECIFICATION FairSpec
CONSTANTS
    Sessions = {s1}
    GateSessions = {k1}
    Accounts = {a1}
    Gates = {g1}
    None = None
    MaxTickets = 2
    MaxChecks = 2
    MaxConns = 2
    MaxLosses = 1
INVARIANT WaitingIsFiled
PROPERTY LoginAnswered
CHECK_DEADLOCK FALSE
