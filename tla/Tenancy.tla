------------------------------ MODULE Tenancy -------------------------------
(***************************************************************************)
(* Which tenant a cloud request is served from.  A site lives in two       *)
(* databases: its row in the tenant's store, and its registration in the   *)
(* control plane, which public requests are resolved by.  Creating and     *)
(* deleting a site writes both, one after the other, and stops anywhere.   *)
(* A public request reads the registration, opens the account's store,     *)
(* checks the site's row twice, its token, and only then reads and writes  *)
(* comments.                                                               *)
(*                                                                         *)
(* A step is one call of a store.  Users, origins, plans and the lease of  *)
(* the store are left to other modules or abstracted away: each of those   *)
(* checks can only end a request, which GiveUp does at any step.           *)
(***************************************************************************)
EXTENDS FiniteSets

CONSTANTS
    Accounts,
    Sites,       \* ids of sites, each made for one creation
    Ids,         \* ids of comments; stores may hold the same ones
    Requests,    \* public requests
    Operations,  \* creations and deletions of sites
    LegacySites, \* sites from before there were registrations
    NoAccount, NoSite, NoId

ASSUME TenancyAssumption ==
    /\ LegacySites \subseteq Sites
    /\ NoAccount \notin Accounts /\ NoSite \notin Sites /\ NoId \notin Ids

VARIABLES
    registry,   \* registry[s]: the registration of s
    rows,       \* rows[a]: the sites in the store of a
    commentSite, \* commentSite[a][i]: the site of comment i in the store of a
    tokens,     \* embed tokens that were issued
    request,    \* request[r]: a public request
    operation,  \* operation[o]: the creation or deletion of a site
    \* History
    owner,      \* owner[s]: the account that site s was made for
    overtaken,  \* sites activated after a deletion had deactivated them
    replaced    \* requests whose comment was replaced after they read it

plane == <<registry, rows, operation, owner, overtaken>>
public == <<tokens, request, replaced>>
tenancyVars == <<plane, commentSite, public>>

-----------------------------------------------------------------------------
(* State *)

\* SiteRegistryEntry; a site without one has the status "none".
Registration == [status : {"none", "reserved", "active", "inactive"},
                 account : Accounts \cup {NoAccount}]

NoRegistration == [status |-> "none", account |-> NoAccount]

\* The site and account that an embed token is bound to.
Token == [site : Sites \cup {NoSite}, account : Accounts \cup {NoAccount}]

NoToken == [site |-> NoSite, account |-> NoAccount]

Kinds == {"login", "list", "post", "change"}

Request == [pc : {"idle", "verify", "auth", "origin", "handle", "write"},
            kind : Kinds, site : Sites \cup {NoSite},
            account : Accounts \cup {NoAccount}, token : Token,
            id : Ids \cup {NoId}]

NoRequest == [pc |-> "idle", kind |-> "list", site |-> NoSite,
              account |-> NoAccount, token |-> NoToken, id |-> NoId]

Operation == [pc : {"idle", "insert", "activate", "deactivate", "delete",
                    "unregister"},
              site : Sites \cup {NoSite}, account : Accounts \cup {NoAccount}]

NoOperation == [pc |-> "idle", site |-> NoSite, account |-> NoAccount]

TenancyTypeOK ==
    /\ registry \in [Sites -> Registration]
    /\ rows \in [Accounts -> SUBSET Sites]
    /\ commentSite \in [Accounts -> [Ids -> Sites \cup {NoSite}]]
    /\ tokens \subseteq Token
    /\ request \in [Requests -> Request]
    /\ operation \in [Operations -> Operation]
    /\ owner \in [Sites -> Accounts \cup {NoAccount}]
    /\ overtaken \subseteq Sites
    /\ replaced \subseteq Requests

TenancyInit ==
    /\ registry = [s \in Sites |-> NoRegistration]
    /\ \E old \in [LegacySites -> Accounts] :
        /\ owner = [s \in Sites |-> IF s \in LegacySites THEN old[s] ELSE NoAccount]
        /\ rows = [a \in Accounts |-> {s \in LegacySites : old[s] = a}]
    /\ commentSite = [a \in Accounts |-> [i \in Ids |-> NoSite]]
    /\ tokens = {}
    /\ request = [r \in Requests |-> NoRequest]
    /\ operation = [o \in Operations |-> NoOperation]
    /\ overtaken = {}
    /\ replaced = {}

-----------------------------------------------------------------------------
(* Creating a site: AdminHandler.createSiteCloud *)

Proceed(o, pc) == operation' = [operation EXCEPT ![o].pc = pc]

\* Every failed call ends the request, as a crash does.
Abandon(o) ==
    /\ operation[o].pc # "idle"
    /\ operation' = [operation EXCEPT ![o] = NoOperation]
    /\ UNCHANGED <<registry, rows, owner, overtaken, commentSite, public>>

\* Mutant: the site serves as soon as it is reserved.
BugReserveSite(o, s, a) ==
    /\ operation[o].pc = "idle"
    /\ owner[s] = NoAccount
    /\ owner' = [owner EXCEPT ![s] = a]
    /\ registry' = [registry EXCEPT ![s] = [status |-> "active", account |-> a]]
    /\ operation' = [operation EXCEPT
            ![o] = [pc |-> "insert", site |-> s, account |-> a]]
    /\ UNCHANGED <<rows, overtaken, commentSite, public>>

\* ReserveSiteRegistration, for an id that is made for this request.
ReserveSite(o, s, a) ==
    /\ operation[o].pc = "idle"
    /\ owner[s] = NoAccount
    /\ owner' = [owner EXCEPT ![s] = a]
    /\ registry' = [registry EXCEPT ![s] = [status |-> "reserved", account |-> a]]
    /\ operation' = [operation EXCEPT
            ![o] = [pc |-> "insert", site |-> s, account |-> a]]
    /\ UNCHANGED <<rows, overtaken, commentSite, public>>

\* store.CreateSite; the quota may refuse it, which Abandon stands for.
CreateSite(o) ==
    LET op == operation[o]
    IN  /\ op.pc = "insert"
        /\ rows' = [rows EXCEPT ![op.account] = @ \cup {op.site}]
        /\ Proceed(o, "activate")
        /\ UNCHANGED <<registry, owner, overtaken, commentSite, public>>

\* ActivateSiteRegistration finds an entry (a missing one is an error).  The
\* interface does not say what becomes of one that a deletion deactivated.
ActivateSite(o) ==
    LET op == operation[o]
        s == op.site
    IN  /\ op.pc = "activate"
        /\ registry[s].account = op.account
        /\ registry' = [registry EXCEPT ![s].status = "active"]
        /\ overtaken' = IF registry[s].status = "inactive"
                        THEN overtaken \cup {s} ELSE overtaken
        /\ operation' = [operation EXCEPT ![o] = NoOperation]
        /\ UNCHANGED <<rows, owner, commentSite, public>>

-----------------------------------------------------------------------------
(* Deleting a site: AdminHandler.DeleteSite and deleteSiteCloud *)

\* The row must be there when the request arrives.
RequestDeletion(o, s, a) ==
    /\ operation[o].pc = "idle"
    /\ s \in rows[a]
    /\ operation' = [operation EXCEPT
            ![o] = [pc |-> "deactivate", site |-> s, account |-> a]]
    /\ UNCHANGED <<registry, rows, owner, overtaken, commentSite, public>>

\* Mutant: the registration goes first.
BugDeactivateSite(o) ==
    LET op == operation[o]
        s == op.site
    IN  /\ op.pc = "deactivate"
        /\ registry' = IF registry[s].account = op.account
                       THEN [registry EXCEPT ![s] = NoRegistration]
                       ELSE registry
        /\ Proceed(o, "delete")
        /\ UNCHANGED <<rows, owner, overtaken, commentSite, public>>

\* DeactivateSiteRegistration; a site without an entry is a legacy one.
DeactivateSite(o) ==
    LET op == operation[o]
        s == op.site
    IN  /\ op.pc = "deactivate"
        /\ registry' = IF registry[s].account = op.account
                       THEN [registry EXCEPT ![s].status = "inactive"]
                       ELSE registry
        /\ Proceed(o, "delete")
        /\ UNCHANGED <<rows, owner, overtaken, commentSite, public>>

\* store.DeleteSite.  The foreign key of a comment makes it fail, if the
\* connection enforces foreign keys: Abandon; if not, the comments stay.
DeleteSite(o) ==
    LET op == operation[o]
    IN  /\ op.pc = "delete"
        /\ rows' = [rows EXCEPT ![op.account] = @ \ {op.site}]
        /\ Proceed(o, "unregister")
        /\ UNCHANGED <<registry, owner, overtaken, commentSite, public>>

\* DeleteSiteRegistration; its failure is logged.
DeleteRegistration(o) ==
    LET op == operation[o]
        s == op.site
    IN  /\ op.pc = "unregister"
        /\ registry' = IF registry[s].account = op.account
                       THEN [registry EXCEPT ![s] = NoRegistration]
                       ELSE registry
        /\ operation' = [operation EXCEPT ![o] = NoOperation]
        /\ UNCHANGED <<rows, owner, overtaken, commentSite, public>>

-----------------------------------------------------------------------------
(* Public requests: publicRoutes, resolvePublicSite, authenticate *)

Step(r, pc) == request' = [request EXCEPT ![r].pc = pc]

Finish(r) ==
    /\ request' = [request EXCEPT ![r] = NoRequest]
    /\ replaced' = replaced \ {r}

\* Every check ends the request when it fails, and so does a failed call.
GiveUp(r) ==
    /\ request[r].pc # "idle"
    /\ Finish(r)
    /\ UNCHANGED <<plane, commentSite, tokens>>

\* GetActiveSiteRegistration for the site that the request names.  A reader
\* brings any token that was issued, or none.
Resolve(r, kind, s, token, i) ==
    /\ request[r].pc = "idle"
    /\ registry[s].status = "active"
    /\ request' = [request EXCEPT ![r] = [pc |-> "verify", kind |-> kind,
            site |-> s, account |-> registry[s].account, token |-> token, id |-> i]]
    /\ UNCHANGED <<plane, commentSite, tokens, replaced>>

\* The account's store has the site: GetSite.  Resolve of EmbedSites ends
\* here, and the login that called it binds its token to what it found.
VerifySite(r) ==
    LET q == request[r]
    IN  /\ q.pc = "verify"
        /\ q.site \in rows[q.account]
        /\ \/ /\ q.kind = "login"
              /\ tokens' = tokens \cup {[site |-> q.site, account |-> q.account]}
              /\ Finish(r)
           \/ /\ q.kind = "list"
              /\ Step(r, "handle")
              /\ UNCHANGED <<tokens, replaced>>
           \/ /\ q.kind \in {"post", "change"}
              /\ Step(r, "auth")
              /\ UNCHANGED <<tokens, replaced>>
        /\ UNCHANGED <<plane, commentSite>>

\* Mutant: a token serves for every site of its account.
BugMatches(token, site, account) == token.account = account

\* authenticate: embedClaimsMatchRequest
Matches(token, site, account) == token.site = site /\ token.account = account

Authenticate(r) ==
    LET q == request[r]
    IN  /\ q.pc = "auth"
        /\ Matches(q.token, q.site, q.account)
        /\ Step(r, "origin")
        /\ UNCHANGED <<plane, commentSite, tokens, replaced>>

\* enforcePublicSiteOrigin reads the site's row again, for its domain.
EnforceOrigin(r) ==
    LET q == request[r]
    IN  /\ q.pc = "origin"
        /\ q.site \in rows[q.account]
        /\ Step(r, "handle")
        /\ UNCHANGED <<plane, commentSite, tokens, replaced>>

Insert(a, i, s) ==
    /\ commentSite[a][i] = NoSite
    /\ commentSite' = [commentSite EXCEPT ![a][i] = s]
    /\ replaced' = replaced \cup {r \in Requests : request[r].pc = "write"
                        /\ request[r].account = a /\ request[r].id = i}

\* CommentsHandler.List answers with the comments of the site.
List(r) ==
    /\ request[r].pc = "handle" /\ request[r].kind = "list"
    /\ Finish(r)
    /\ UNCHANGED <<plane, commentSite, tokens>>

\* CommentsHandler.Create: the token's site is compared once more.  A
\* connection that enforces no foreign keys takes the comment of any site.
Post(r, i) ==
    LET q == request[r]
    IN  /\ q.pc = "handle" /\ q.kind = "post"
        /\ q.token.site = q.site
        /\ Insert(q.account, i, q.site)
        /\ request' = [request EXCEPT ![r] = NoRequest]
        /\ UNCHANGED <<plane, tokens>>

\* Vote, Flag and Delete read the comment and compare its site.
ReadTarget(r) ==
    LET q == request[r]
    IN  /\ q.pc = "handle" /\ q.kind = "change"
        /\ commentSite[q.account][q.id] = q.site
        /\ Step(r, "write")
        /\ UNCHANGED <<plane, commentSite, tokens, replaced>>

\* DeleteComment removes it; ToggleVote and ToggleFlag leave it there.
Change(r) ==
    LET q == request[r]
    IN  /\ q.pc = "write"
        /\ \/ commentSite' = [commentSite EXCEPT ![q.account][q.id] = NoSite]
           \/ UNCHANGED commentSite
        /\ Finish(r)
        /\ UNCHANGED <<plane, tokens>>

-----------------------------------------------------------------------------
(* Dashboard requests: InjectTenantStore takes the account of the session *)

\* An import keeps the ids of its file, and nothing checks its site.
ImportComment(a, i, s) ==
    /\ Insert(a, i, s)
    /\ UNCHANGED <<plane, tokens, request>>

DashboardDelete(a, i) ==
    /\ commentSite[a][i] # NoSite
    /\ commentSite' = [commentSite EXCEPT ![a][i] = NoSite]
    /\ UNCHANGED <<plane, public>>

-----------------------------------------------------------------------------
(* The specification *)

SiteStep(o) ==
    \/ \E s \in Sites, a \in Accounts : ReserveSite(o, s, a) \/ RequestDeletion(o, s, a)
    \/ CreateSite(o) \/ ActivateSite(o)
    \/ DeactivateSite(o) \/ DeleteSite(o) \/ DeleteRegistration(o)
    \/ Abandon(o)

RequestStep(r) ==
    \/ \E s \in Sites, token \in tokens \cup {NoToken} :
        \/ Resolve(r, "login", s, NoToken, NoId)
        \/ Resolve(r, "list", s, NoToken, NoId)
        \/ Resolve(r, "post", s, token, NoId)
        \/ \E i \in Ids : Resolve(r, "change", s, token, i)
    \/ VerifySite(r) \/ Authenticate(r) \/ EnforceOrigin(r)
    \/ List(r) \/ \E i \in Ids : Post(r, i)
    \/ ReadTarget(r) \/ Change(r)
    \/ GiveUp(r)

TenancyNext ==
    \/ \E o \in Operations : SiteStep(o)
    \/ \E r \in Requests : RequestStep(r)
    \/ \E a \in Accounts, i \in Ids :
        \/ DashboardDelete(a, i)
        \/ \E s \in Sites : ImportComment(a, i, s)

TenancySpec == TenancyInit /\ [][TenancyNext]_tenancyVars

-----------------------------------------------------------------------------
(* Properties *)

\* A public request reaches its handler with the store of the account that
\* the named site was made for; to write, it has shown a token of that site
\* and account, and the comment it is about to change is the site's.  Only a
\* comment that is deleted and inserted anew between the check and the write
\* escapes (comments.go, tenant.go, auth.go).
ServedFromOwnTenant ==
    \A r \in Requests :
        LET q == request[r]
        IN  q.pc \in {"handle", "write"} =>
            /\ q.account = owner[q.site]
            /\ q.kind # "list" => q.token = [site |-> q.site, account |-> q.account]
            /\ q.pc = "write" /\ r \notin replaced =>
                    commentSite[q.account][q.id] \in {q.site, NoSite}

\* A site that has a row keeps a registration for its account, in every
\* order of creations, deletions, retries and failures: the claim is made
\* before the row and given up after it (admin.go).
SitesAreClaimed ==
    \A a \in Accounts : \A s \in rows[a] \ LegacySites : registry[s].account = a

\* A registration that serves has its row: a site is activated after its
\* row is made and deactivated before it goes, unless a deletion overtakes
\* the creation and the control plane lets it activate an inactive entry.
ActiveSitesExist ==
    \A s \in Sites \ overtaken :
        registry[s].status = "active" => s \in rows[registry[s].account]
=============================================================================
