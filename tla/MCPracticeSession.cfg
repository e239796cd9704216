CONSTANTS
    Questions = {p, q, r}
    Options = {yes, no}
    Correct = yes
    Modes = {"all", "remaining", "mistakes"}
    None = none
    MaxVersion = 2
    MaxEpoch = 1
    MaxEvents = 2
SPECIFICATION Spec
SYMMETRY Symmetry
INVARIANT SavedIsRestorable
INVARIANT TotalsAreTruthful
PROPERTY PassIsKept
PROPERTY QueueIsCurrent
CHECK_DEADLOCK FALSE
