CONSTANTS
    Pages = {p1, p2}
    p1 = p1
    p2 = p2
    Learners = {ada, ben}
    Questions = {q1, q2}
    None = None
    MaxToken <- ThreeAndTwo
    MaxFlight = 3
SPECIFICATION Spec
SYMMETRY Symmetry
INVARIANT WidgetAgrees
INVARIANT OwnVoteCountedOnce
CHECK_DEADLOCK FALSE
