CONSTANTS
    Ips = {i1, i2}
    NoIp = noip
    Window = 2
    MaxRequests = 2
    MaxEntries = 2
    LogInterval = 2
    MaxTime = 3
    MaxEvents = 3
SPECIFICATION Spec
SYMMETRY Symmetry
INVARIANT QuotaHolds
INVARIANT LogAccounts
CHECK_DEADLOCK FALSE
