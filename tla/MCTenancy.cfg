CONSTANTS
    Accounts = {a1, a2}
    Sites = {s1, s2}
    Ids = {c1}
    Requests = {r1}
    Operations = {o1, o2}
    LegacySites = {}
    NoAccount = NoAccount
    NoSite = NoSite
    NoId = NoId
SPECIFICATION TenancySpec
SYMMETRY MCSymmetry
INVARIANTS
    ServedFromOwnTenant
    SitesAreClaimed
    ActiveSitesExist
