\* The run of GameServer.cfg, for the loss of equip ids by a load (SuitsKept is violated).
SPECIFICATION Spec
CONSTANTS
    a1 = a1
    t1 = t1
    t2 = t2
    g1 = g1
    c1 = c1
    None = None
    Accounts = {a1}
    Tickets = {t1, t2}
    Gates = {g1}
    Conns = {c1}
    AccountOf <- MCAccountOf
    GateOf <- MCGateOf
    MaxVersion = 2
    MaxPending = 1
    MaxLoads = 2
    MaxFaults = 1
SYMMETRY Symmetry
INVARIANT SuitsKept
