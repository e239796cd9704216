CONSTANTS
    Accounts = {a, b}
    Guest = guest
    Questions = {q}
    SyncSlots = {s1}
    ClearSlots = {c1}
    None = none
    Skew = 0
    Switches = {"lag"}
    MaxAttempts = 2
    MaxClock = 2
    MaxEpoch = 2
    MaxClears = 1
    MaxStrays = 1
SPECIFICATION Spec
SYMMETRY Symmetry
INVARIANT LocksHold
INVARIANT StatusMatchesSession
PROPERTY NoSilentLoss
