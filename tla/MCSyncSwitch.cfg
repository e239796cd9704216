CONSTANTS
    Accounts = {a, b}
    Guest = guest
    Questions = {q}
    SyncSlots = {s1, s2}
    ClearSlots = {c1}
    None = none
    Skew = 0
    Switches = {"switch"}
    MaxAttempts = 2
    MaxClock = 2
    MaxEpoch = 3
    MaxClears = 1
    MaxStrays = 1
SPECIFICATION Spec
SYMMETRY Symmetry
INVARIANT NoCrossAccountPost
INVARIANT NoResurrection
PROPERTY ImplementsHistory
