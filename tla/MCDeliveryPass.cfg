CONSTANTS
    Accounts = {1, 2, 3}
    Slots = {s1, s2}
    PageSize = 1
    MaxChanges = 2
    MaxFaults = 2
SPECIFICATION Spec
INVARIANTS
    LeasesAreReturned
    PassIsComplete
PROPERTIES
    ShutdownDrains
    AccountsAreRevisited
CHECK_DEADLOCK FALSE
