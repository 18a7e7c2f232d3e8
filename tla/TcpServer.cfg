SPECIFICATION FairSpec
CONSTANTS
    Sessions = {s1}
    Conns = {c1, c2}
    IpOf <- MCIpOf
    None = None
    Listen = 1
    BanHack = 1
    BanSum = 2
    Epoch = 10
    Kinds = {"good", "length", "checksum"}
    App = {"send", "close"}
    MaxTicks = 0
    MaxMsgs = 1
    MaxFaults = 1
INVARIANTS SessionInOnePlace DeliveredToOwner
PROPERTY SessionReturns
