CONSTANTS
    Comments = {c1}
    Tokens = {t1, t2}
    Clicks = {r1, r2}
    Workers = {w1, w2}
    NoToken = NoToken
    NoComment = NoComment
    NoWorker = NoWorker
    Deployments = {"cloud", "selfHosted"}
    TokenTTL = 1
    MaxTime = 1
    MaxFaults = 1
SPECIFICATION Spec
SYMMETRY MCSymmetry
INVARIANTS
    MailedLinksWork
    OneLinkPerComment
PROPERTIES
    ImplementsLink
CHECK_DEADLOCK FALSE
