CONSTANTS
    NoStore = NoStore
    NoTarget = NoTarget
    NoCaller = NoCaller
    Accounts = {a1, a2}
    Targets <- MCTargets
    a1 = a1
    a2 = a2
    l1 = l1
    l2 = l2
    Callers = {p1, p2}
    Cancellable = {p1}
    Stores = {s1, s2}
    Capacity = 1
    TTL = 1
    MaxTime = 1
SPECIFICATION FairSpec
INVARIANTS
    BorrowedStaysOpen
    ClosedOnce
    RightStore
    OnlyAbandonedStoresLeak
PROPERTIES
    OpensDeduplicated
    Answered
    ShutdownClosesAll
CHECK_DEADLOCK FALSE
