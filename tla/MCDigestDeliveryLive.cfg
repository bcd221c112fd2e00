CONSTANTS
    NoOwner = NoOwner
    Comments = {c1}
    Channels = {email}
    Owners = {w1, w2, w3, w4, w5}
    Intervals = {1}
    LegacyStarts = {}
    ModeratorStatuses = {"approved", "pending", "rejected", "spam"}
    ParentLease = 2
    ChildLease = 2
    TenantTimeout = 2
    RetryDelay = 1
    RetryDelays <- MCRetryDelays
    ChannelSets <- MCBothChannels
    ClaimLimit = 1
    MaxStale = 2
    MaxTime = 12
    MaxAttempts = 6
    LastCreation = 0
    MaxFaults = 2
SPECIFICATION PunctualSpec
INVARIANTS
    DuplicatesNeedFaults
PROPERTIES
    EventuallyFinalized
CHECK_DEADLOCK FALSE
