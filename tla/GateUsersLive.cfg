SPECIFICATION FairSpec
CONSTANTS
    Sessions = {s1}
    a1 = a1
    Trans = {t1, t2}
    Accounts = {a1}
    AccountOf <- OneAccount
    Games = {g1}
    None = None
    MaxLogins = 2
    MaxTimers = 2
    MaxQueue = 2
    MaxBreaks = 1
PROPERTIES SessionSettles ReconnectWindowEnds
CHECK_DEADLOCK FALSE
