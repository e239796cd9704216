CONSTANTS
    v1 = v1
    v2 = v2
    t1 = t1
    t2 = t2
    Sources = {s,w}
    Questions = {q,p}
    Agents = {a, b}
    Humans = {h}
    Files = {f, g}
    Versions = {v1, v2}
    Texts = {t1, t2}
    HeldBy <- HeldByFirst
    None = none
    MaxWork = 2
SPECIFICATION LiveSpec
INVARIANT EvidenceStands
PROPERTY DriftWithdraws
PROPERTY ImplementsPublication
INVARIANT RejectionStands
INVARIANT ToolsNeverPoison
PROPERTY PublishedKeepsReceipt
