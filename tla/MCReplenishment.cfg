CONSTANTS
    p1 = p1
    p2 = p2
    v1 = v1
    v2 = v2
    t1 = t1
    t2 = t2
    Pages = {p1, p2}
    Index <- TwoIndices
    Sources = {s, w}
    Questions = {q, r}
    Versions = {v1, v2}
    Texts = {t1, t2}
    HeldBy <- HeldByFirst
    None = none
    MaxNew = 1
    MaxQuestions = 1
    MaxEdits = 1
    MaxWeeks = 1
    MaxWork = 1
SPECIFICATION Spec
INVARIANT PublishedWasRead
INVARIANT RecordsAreCaptured
PROPERTY PublishedUntouched
PROPERTY WorkKept
PROPERTY FirstSeenKept
SYMMETRY Symmetry
CHECK_DEADLOCK FALSE
