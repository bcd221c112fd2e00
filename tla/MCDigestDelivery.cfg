CONSTANTS
    NoOwner = NoOwner
    Comments = {c1}
    Channels = {email, slack}
    Owners = {w1, w2}
    Intervals = {1}
    LegacyStarts = {}
    ModeratorStatuses = {"approved", "pending"}
    ParentLease = 2
    ChildLease = 2
    TenantTimeout = 2
    RetryDelay = 1
    RetryDelays <- MCRetryDelays
    ChannelSets <- MCGrowingChannels
    ClaimLimit = 1
    MaxStale = 2
    MaxTime = 5
    MaxAttempts = 3
    LastCreation = 0
    MaxFaults = 1
SPECIFICATION DeliverySpec
SYMMETRY MCSymmetry
INVARIANTS
    OneWorkerPerDigest
    SentWasDelivered
PROPERTIES
    HolderDecides
    ImplementsOutbox
    SendsUnderLease
    ChannelSetFixed
CHECK_DEADLOCK FALSE
