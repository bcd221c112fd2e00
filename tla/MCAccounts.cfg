CONSTANTS
    Users = {u1, u2}
    EmailLogins = {e1}
    OAuthLogins = {g1}
    Requests = {r1, r2}
    NoUser = NoUser
    NoLogin = NoLogin
    MaxGeneration = 2
    MaxPassword = 1
    MaxSessions = 2
    MaxTokens = 2
    MaxRequests = 5
    MaxFaults = 1
SPECIFICATION Spec
SYMMETRY MCSymmetry
INVARIANTS
    ValidSessionsAreCurrent
    OldPasswordsAreRevoked
CHECK_DEADLOCK FALSE
