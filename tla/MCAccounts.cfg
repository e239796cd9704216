CONSTANTS
    Pods = {p1, p2}
    g1 = g1
    g2 = g2
    o = o
    z = z
    GitHub = {g1, g2}
    Google = {o}
    Zitadel = {z}
    Mail <- OneShared
    Logins = {l1, l2, l3}
    Users = {u1, u2}
    Rows = {r}
    None = None
    MaxSignIns = 3
    MaxRequests = 1
    MaxRenames = 1
SPECIFICATION Spec
SYMMETRY Symmetry
INVARIANT ErasureIsComplete
INVARIANT NoCrossLink
INVARIANT RolesAreListed
CHECK_DEADLOCK FALSE
