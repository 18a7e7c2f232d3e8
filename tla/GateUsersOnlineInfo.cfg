SPECIFICATION Spec
CONSTANTS
    Sessions = {s1, s2}
    a1 = a1
    Trans = {t1, t2}
    Accounts = {a1}
    AccountOf <- OneAccount
    Games = {g1}
    None = None
    MaxLogins = 1
    MaxTimers = 1
    MaxQueue = 3
    MaxBreaks = 1
INVARIANT OnlineInfoComplete
CHECK_DEADLOCK FALSE
