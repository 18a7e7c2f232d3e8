SPECIFICATION Spec
CONSTANTS
    Sessions = {s1, s2, s3}
    Conns = {c1, c2, c3}
    IpOf <- MCIpOf
    None = None
    Listen = 3
    BanHack = 1
    BanSum = 2
    Epoch = 10
    Kinds = {"length"}
    App = {}
    MaxTicks = 2
    MaxMsgs = 1
    MaxFaults = 0
SYMMETRY Symmetry
PROPERTY BannedForFiveSeconds
