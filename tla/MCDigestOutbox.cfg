CONSTANTS
    NoOwner = NoOwner
    Comments = {c1}
    Channels = {email}
    Owners = {w1}
    Intervals = {1, 2}
    LegacyStarts = {0}
    ModeratorStatuses = {"approved"}
    ParentLease = 1
    ChildLease = 1
    RetryDelays = {1}
    ClaimLimit = 1
    MaxStale = 1
    MaxTime = 1
    MaxAttempts = 1
SPECIFICATION Spec
SYMMETRY MCSymmetry
INVARIANTS
    FinalizedIsComplete
    NoSilentDrop
    MembershipInWindow
PROPERTIES
    TerminalRowsStay
    MembershipFrozen
CHECK_DEADLOCK FALSE
