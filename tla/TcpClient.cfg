SPECIFICATION ClientFairSpec
CHECK_DEADLOCK FALSE
CONSTANTS
    Calls = {"on_connect", "on_connect_failed", "on_close"}
    None = None
    Stops = FALSE
    MaxLen = 6
    MaxSend = 1
    MaxFaults = 2
INVARIANT LinkConsistent
PROPERTIES ImplementsFifo CallsGoOn LinkComesBack SendsGoOut
