CONSTANTS
    Comments = {c1, c2}
    Authors = {a1}
    Admin = Admin
    NoAuthor = NoAuthor
    Posts = {p1}
    DedupWindow = 0
    NotifyInterval = 1
    BatchSize = 2
    MaxTime = 2
    MaxMails = 2
    MaxFaults = 1
SPECIFICATION Spec
SYMMETRY MCSymmetry
INVARIANTS
    PassedWasMailed
    MailedOnce
    VisibleWasVetted
CHECK_DEADLOCK FALSE
