\* One login, through one gate; one failed statement, lost link or restart.
SPECIFICATION FairSpec
CONSTANTS
    a1 = a1
    t1 = t1
    t2 = t2
    g1 = g1
    c1 = c1
    None = None
    Accounts = {a1}
    Tickets = {t1}
    Gates = {g1}
    Conns = {c1}
    AccountOf <- MCAccountOf
    GateOf <- MCGateOf
    MaxVersion = 2
    MaxPending = 1
    MaxLoads = 2
    MaxFaults = 1
PROPERTIES
    HeroArrives
    StopEnds
