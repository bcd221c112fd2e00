CONSTANTS
    Scopes = {a1, a2}
    Terms = {t1, t2}
    Requests = {r1, r2}
    Editors = {e1, e2}
    Comments = {c1}
    Readers = {u1}
    NoScope = NoScope
    BlockedTermsTTL = 1
    MaxTime = 1
    MaxFaults = 1
SPECIFICATION Spec
SYMMETRY MCSymmetry
INVARIANTS
    CachedTermsCurrent
    CountersFollowRows
CHECK_DEADLOCK FALSE
