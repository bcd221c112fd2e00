CONSTANTS
    NoOwner = NoOwner
    Comments = {c1}
    Channels = {email}
    Owners = {w1, w2}
    Intervals = {1}
    LegacyStarts = {}
    ModeratorStatuses = {}
    ParentLease = 2
    ChildLease = 2
    TenantTimeout = 2
    RetryDelay = 1
    RetryDelays <- MCRetryDelays
    ChannelSets <- MCBothChannels
    ClaimLimit = 1
    MaxStale = 2
    MaxTime = 5
    MaxAttempts = 3
    LastCreation = 0
    MaxFaults = 0
SPECIFICATION DeliverySpec
SYMMETRY MCSymmetry
INVARIANTS
    FirstPassDelivers
CHECK_DEADLOCK FALSE
