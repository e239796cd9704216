CONSTANTS
    Accounts = {a}
    Guest = guest
    Questions = {q}
    SyncSlots = {s1}
    ClearSlots = {c1}
    None = none
    Skew = 2
    Switches = {"signout"}
    MaxAttempts = 2
    MaxClock = 4
    MaxEpoch = 2
    MaxClears = 2
    MaxStrays = 1
SPECIFICATION LiveSpec
INVARIANT SyncedRowsAreStored
PROPERTY NoRepost
PROPERTY SyncingSettles
PROPERTY ClearEnds
