CONSTANTS
    c1 = c1
    c2 = c2
    c3 = c3
    p1 = p1
    p2 = p2
    l1 = l1
    l2 = l2
    Processes = {p1, p2}
    Callers = {c1, c2, c3}
    ProcessOf <- MCProcessOf
    Accounts = {a1}
    Leases = {l1, l2}
    NoLease = NoLease
    NoCaller = NoCaller
    NoAccount = NoAccount
    Orphan = Orphan
    Historical = {h1}
    Latest = 2
    MaxCrashes = 1
SPECIFICATION Spec
SYMMETRY MCSymmetry
INVARIANTS
    OneMigrationAtATime
    RevisionsAreHistory
    OutcomesAreHonest
CHECK_DEADLOCK FALSE
