CONSTANTS
    Calls = {c1, c2}
    Slots = {0, 1}
    None = None
    MaxMessages = 6
    MaxPieces = 6
SPECIFICATION RelaySpec
INVARIANT ServerAccepts
INVARIANT ClientHearsAll
CHECK_DEADLOCK FALSE
