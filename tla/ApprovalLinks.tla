--------------------------- MODULE ApprovalLinks ---------------------------
(***************************************************************************)
(* Approval links: the tokens minted for a digest's pending comments, the  *)
(* requests made through them, and the moderators and site deletions they  *)
(* run into.                                                               *)
(*                                                                         *)
(* Self-hosted, a token is a row of the one store, and the handler reads   *)
(* it, writes the comment and deletes it in three statements.  In the      *)
(* cloud the row is in the account's store, found through a locator in the *)
(* control plane and a registration of the site, and is consumed in one    *)
(* transaction.  A step is one statement, transaction or call.             *)
(*                                                                         *)
(* One site is modelled, so the account of a locator and of a registration *)
(* is always the site's.  The control plane's store is not in the          *)
(* repository: a registration has the states of cloud.Store's contract.    *)
(***************************************************************************)
EXTENDS Integers, FiniteSets

CONSTANTS
    Comments,
    Tokens,         \* approval tokens; a token is also its own hash
    Clicks,         \* requests to POST /approve/{token}
    Workers,        \* passes that mail a digest
    NoToken, NoComment, NoWorker,
    Deployments,    \* the deployments explored
    TokenTTL,       \* the lifetime of a token
    MaxTime,        \* bound: last clock value explored
    MaxFaults       \* bound: failed calls and restarts explored

ASSUME ApprovalAssumption ==
    /\ NoToken \notin Tokens /\ NoComment \notin Comments
    /\ NoWorker \notin Workers
    /\ Deployments \subseteq {"cloud", "selfHosted"}
    /\ TokenTTL \in Nat /\ MaxTime \in Nat /\ MaxFaults \in Nat

VARIABLES
    now, deployment,
    comments,       \* comments[c]: the status of c
    issued,         \* issued[t]: what the row of t holds
    rows,           \* the tokens that have a row in approval_tokens
    locators,       \* the tokens that have a locator in the control plane
    site,           \* whether the site's row exists
    registry,       \* the state of the site's registration
    siteOp,         \* the next step of the site's creation or deletion
    click,          \* click[r]: the request r
    pass,           \* pass[w]: the pass w
    holder,         \* the pass whose claim of the digest is the last one
    \* History
    setBy,          \* setBy[c]: the link that last set the status of c
    decisions,      \* decisions[t]: how often t decided, counted to 2
    mailed,         \* the tokens in a message that was sent
    faults

tenant == <<comments, issued, rows, site>>
control == <<locators, registry>>
actors == <<siteOp, click, pass, holder>>
history == <<setBy, decisions, mailed, faults>>
vars == <<now, deployment, tenant, control, actors, history>>

-----------------------------------------------------------------------------
(* State *)

Statuses == {"pending", "approved", "rejected"}
Decisions == {"approved", "rejected"}
IsCloud == deployment = "cloud"

TokenRow == [comment : Comments \cup {NoComment}, expires : 0..MaxTime + TokenTTL]
NoRow == [comment |-> NoComment, expires |-> 0]
Fresh == {t \in Tokens : issued[t] = NoRow}
RowsOf(c) == {t \in rows : issued[t].comment = c}

Exists(c) == comments[c] \in Statuses
Pending == {c \in Comments : comments[c] = "pending"}

\* pc names the call that is still to be made.
ClickState ==
    [pc : {"idle", "begin", "commit", "cleanup", "comment", "write", "delete"},
     token : Tokens \cup {NoToken}, action : Decisions]
NoClick == [pc |-> "idle", token |-> NoToken, action |-> "approved"]

PassState ==
    [pc : {"idle", "mint", "locate", "create", "send"}, batch : SUBSET Comments,
     at : 0..MaxTime, tokens : SUBSET Tokens, todo : SUBSET Tokens]
NoPass == [pc |-> "idle", batch |-> {}, at |-> 0, tokens |-> {}, todo |-> {}]

SiteSteps == {"none", "insert", "activate", "up",
              "deactivate", "erase", "unregister"}

TypeOK ==
    /\ now \in 0..MaxTime /\ deployment \in Deployments
    /\ comments \in [Comments -> Statuses \cup {"absent", "deleted"}]
    /\ issued \in [Tokens -> TokenRow]
    /\ rows \subseteq Tokens \ Fresh /\ locators \subseteq Tokens \ Fresh
    /\ site \in BOOLEAN
    /\ registry \in {"none", "reserved", "active", "inactive"}
    /\ siteOp \in SiteSteps
    /\ click \in [Clicks -> ClickState]
    /\ pass \in [Workers -> PassState]
    /\ holder \in Workers \cup {NoWorker}
    /\ setBy \in [Comments -> Tokens \cup {NoToken}]
    /\ decisions \in [Tokens -> 0..2]
    /\ mailed \subseteq Tokens \ Fresh
    /\ faults \in 0..MaxFaults

Init ==
    /\ now = 0 /\ deployment \in Deployments
    /\ comments = [c \in Comments |-> "absent"]
    /\ issued = [t \in Tokens |-> NoRow]
    /\ rows = {} /\ locators = {}
    /\ site = FALSE /\ registry = "none" /\ siteOp = "none"
    /\ click = [r \in Clicks |-> NoClick]
    /\ pass = [w \in Workers |-> NoPass]
    /\ holder = NoWorker
    /\ setBy = [c \in Comments |-> NoToken]
    /\ decisions = [t \in Tokens |-> 0]
    /\ mailed = {}
    /\ faults = 0

Fault == faults < MaxFaults /\ faults' = faults + 1

-----------------------------------------------------------------------------
(* The site *)

\* In the cloud a site is reserved, inserted and activated; a creation that
\* fails leaves what it has written.
CreateSite ==
    /\ siteOp = "none"
    /\ IF IsCloud
       THEN registry' = "reserved" /\ siteOp' = "insert" /\ UNCHANGED site
       ELSE site' = TRUE /\ siteOp' = "up" /\ UNCHANGED registry
    /\ UNCHANGED <<now, deployment, comments, issued, rows, locators, click, pass,
                   holder, history>>

InsertSite ==
    /\ siteOp = "insert"
    /\ \/ site' = TRUE /\ siteOp' = "activate" /\ UNCHANGED faults
       \/ Fault /\ siteOp' = "up" /\ UNCHANGED site
    /\ UNCHANGED <<now, deployment, comments, issued, rows, control, click, pass, holder,
                   setBy, decisions, mailed>>

ActivateSite ==
    /\ siteOp = "activate"
    /\ \/ registry' = "active" /\ UNCHANGED faults
       \/ Fault /\ UNCHANGED registry
    /\ siteOp' = "up"
    /\ UNCHANGED <<now, deployment, tenant, locators, click, pass, holder,
                   setBy, decisions, mailed>>

\* In the cloud a site is deactivated, erased and unregistered.
DeleteSite ==
    /\ siteOp = "up" /\ site
    /\ IF IsCloud
       THEN registry' = "inactive" /\ siteOp' = "erase" /\ UNCHANGED site
       ELSE site' = FALSE /\ UNCHANGED <<registry, siteOp>>
    /\ UNCHANGED <<now, deployment, comments, issued, rows, locators, click, pass,
                   holder, history>>

EraseSite ==
    /\ siteOp = "erase"
    /\ \/ site' = FALSE /\ siteOp' = "unregister" /\ UNCHANGED faults
       \/ Fault /\ siteOp' = "up" /\ UNCHANGED site
    /\ UNCHANGED <<now, deployment, comments, issued, rows, control, click, pass, holder,
                   setBy, decisions, mailed>>

UnregisterSite ==
    /\ siteOp = "unregister"
    /\ \/ registry' = "none" /\ UNCHANGED faults
       \/ Fault /\ UNCHANGED registry
    /\ siteOp' = "up"
    /\ UNCHANGED <<now, deployment, tenant, locators, click, pass, holder,
                   setBy, decisions, mailed>>

SiteServes == site /\ (IsCloud => registry = "active")

-----------------------------------------------------------------------------
(* Comments *)

SetStatus(c, s, by) ==
    /\ comments' = [comments EXCEPT ![c] = s]
    /\ setBy' = [setBy EXCEPT ![c] = by]

PostComment(c) ==
    /\ comments[c] = "absent" /\ SiteServes
    /\ SetStatus(c, "pending", NoToken)
    /\ UNCHANGED <<now, deployment, issued, rows, site, control, actors, decisions,
                   mailed, faults>>

\* UpdateComment reads the comment and writes it back: with the status that was
\* asked for, or the one it read, if the request only edits the text.  Each may
\* be any status by then.
UpdateComment(c) ==
    /\ Exists(c)
    /\ \E s \in Statuses : SetStatus(c, s, NoToken)
    /\ UNCHANGED <<now, deployment, issued, rows, site, control, actors, decisions,
                   mailed, faults>>

\* The rows of its tokens stay: where the connection enforces foreign keys they
\* make the deletion fail.
DeleteComment(c) ==
    /\ Exists(c)
    /\ SetStatus(c, "deleted", NoToken)
    /\ UNCHANGED <<now, deployment, issued, rows, site, control, actors, decisions,
                   mailed, faults>>

-----------------------------------------------------------------------------
(* Minting *)

EndPass(w) == pass' = [pass EXCEPT ![w] = NoPass]

\* The self-hosted dispatcher lists pending comments, one pass at a time; a
\* cloud worker claims a digest, whose lease may have run out for another, and
\* reads its pending comments.
BeginPass(w) ==
    /\ pass[w].pc = "idle"
    /\ ~IsCloud => \A v \in Workers : pass[v].pc = "idle"
    /\ \E B \in SUBSET Pending \ {{}} :
           pass' = [pass EXCEPT ![w] =
                       [NoPass EXCEPT !.pc = IF IsCloud THEN "mint" ELSE "create",
                                      !.batch = B, !.at = now]]
    /\ holder' = w
    /\ UNCHANGED <<now, deployment, tenant, control, siteOp, click, history>>

Live(t, at) == t \in rows /\ issued[t].expires > at

\* Forgets that a token is stable across retries.
BugUnserved(w) == pass[w].batch

Unserved(w) == {c \in pass[w].batch : \A t \in RowsOf(c) : ~Live(t, pass[w].at)}

\* Leaves the expired row beside the new one.
BugOutdated(w) == {}

Outdated(w) == {t \in rows : issued[t].comment \in Unserved(w)}

\* The transaction of EnsureMaterializedSiteDigestApprovalTokens: it keeps the
\* token of a comment that has an unexpired one and replaces an expired one.
Mint(w) ==
    /\ pass[w].pc = "mint"
    /\ holder = w /\ site /\ pass[w].batch \subseteq Pending
    /\ \A c \in pass[w].batch : Cardinality(RowsOf(c)) <= 1
    /\ \E f \in [Unserved(w) -> Fresh] :
           /\ \A c, d \in Unserved(w) : f[c] = f[d] => c = d
           /\ LET new  == {f[c] : c \in Unserved(w)}
                  kept == {t \in rows : /\ issued[t].comment \in pass[w].batch
                                        /\ issued[t].comment \notin Unserved(w)}
              IN  /\ issued' = [t \in Tokens |->
                         IF t \in new
                         THEN [comment |-> CHOOSE c \in Unserved(w) : f[c] = t,
                               expires |-> pass[w].at + TokenTTL]
                         ELSE issued[t]]
                  /\ rows' = (rows \ Outdated(w)) \cup new
                  /\ pass' = [pass EXCEPT ![w].pc = "locate", ![w].tokens = kept \cup new,
                                          ![w].todo = kept \cup new]
    /\ UNCHANGED <<now, deployment, comments, site, control, siteOp, click, holder,
                   history>>

\* The claim was lost, the site is gone or the digest has changed.
MintRefused(w) ==
    /\ pass[w].pc = "mint"
    /\ \/ holder # w \/ ~site \/ ~(pass[w].batch \subseteq Pending)
       \/ \E c \in pass[w].batch : Cardinality(RowsOf(c)) > 1
    /\ EndPass(w)
    /\ UNCHANGED <<now, deployment, tenant, control, siteOp, click, holder, history>>

AfterLocator(w, t) ==
    [pass EXCEPT ![w].todo = @ \ {t},
                 ![w].pc = IF pass[w].todo = {t} THEN "send" ELSE @]

\* ensureApprovalTokenLocator finds the locator, or creates it unless another
\* pass does so first.
EnsureLocator(w) ==
    /\ pass[w].pc = "locate"
    /\ \E t \in pass[w].todo :
           locators' = locators \cup {t} /\ pass' = AfterLocator(w, t)
    /\ UNCHANGED <<now, deployment, tenant, registry, siteOp, click, holder, history>>

\* Self-hosted, a token is made for every comment of the batch.
CreateToken(w) ==
    /\ pass[w].pc = "create"
    /\ \E t \in Fresh, c \in pass[w].batch :
           /\ \A u \in pass[w].tokens : issued[u].comment # c
           /\ issued' = [issued EXCEPT ![t] = [comment |-> c, expires |-> now + TokenTTL]]
           /\ rows' = rows \cup {t}
           /\ pass' = [pass EXCEPT ![w].tokens = @ \cup {t},
                          ![w].pc = IF Cardinality(pass[w].tokens) + 1
                                          = Cardinality(pass[w].batch) THEN "send" ELSE @]
    /\ UNCHANGED <<now, deployment, comments, site, control, siteOp, click, holder,
                   history>>

Send(w) ==
    /\ pass[w].pc = "send"
    /\ mailed' = mailed \cup pass[w].tokens
    /\ EndPass(w)
    /\ UNCHANGED <<now, deployment, tenant, control, siteOp, click, holder, setBy,
                   decisions, faults>>

\* A pass whose call fails ends; the call may have taken effect.
PassFails(w) ==
    /\ pass[w].pc # "idle" /\ Fault
    /\ \/ UNCHANGED <<locators, mailed>>
       \/ pass[w].pc = "send" /\ mailed' = mailed \cup pass[w].tokens /\ UNCHANGED locators
       \/ pass[w].pc = "locate" /\ UNCHANGED mailed
            /\ \E t \in pass[w].todo : locators' = locators \cup {t}
    /\ EndPass(w)
    /\ UNCHANGED <<now, deployment, tenant, registry, siteOp, click, holder, setBy,
                   decisions>>

-----------------------------------------------------------------------------
(* Requests through a link *)

Goto(r, pc) == click' = [click EXCEPT ![r].pc = pc]
EndClick(r) == click' = [click EXCEPT ![r] = NoClick]
ClickFrame == UNCHANGED <<now, deployment, siteOp, pass, holder, mailed>>

Decide(r) ==
    LET t == click[r].token
    IN  /\ SetStatus(issued[t].comment, click[r].action, t)
        /\ decisions' = [decisions EXCEPT ![t] = IF @ < 2 THEN @ + 1 ELSE @]

\* What a cloud request resolves before it opens the account's store: the
\* locator, the active registration of its site and the site's row.
Resolved(t) == t \in locators /\ issued[t].expires > now /\ SiteServes

\* The pages that show a comment and its two buttons; they change nothing.
SelfHostedPage(t) ==
    t \in rows /\ now <= issued[t].expires /\ Exists(issued[t].comment)

CloudPage(t) == Resolved(t) /\ Live(t, now) /\ Exists(issued[t].comment)

\* A token that is not found or has expired is refused.
Click(r, t, a) ==
    /\ click[r].pc = "idle" /\ t \in mailed
    /\ IF IsCloud THEN Resolved(t) ELSE t \in rows /\ now <= issued[t].expires
    /\ click' = [click EXCEPT ![r] = [pc |-> IF IsCloud THEN "begin" ELSE "comment",
                                      token |-> t, action |-> a]]
    /\ UNCHANGED <<tenant, control, setBy, decisions, faults>> /\ ClickFrame

\* ConsumeApprovalToken begins its transaction and reads the row.
ConsumeRead(r) ==
    /\ click[r].pc = "begin"
    /\ IF Live(click[r].token, now) THEN Goto(r, "commit") ELSE EndClick(r)
    /\ UNCHANGED <<tenant, control, setBy, decisions, faults>> /\ ClickFrame

\* Does not look at how many rows the deletion affected.
BugConsumeWrite(r) ==
    LET t == click[r].token
    IN  /\ click[r].pc = "commit"
        /\ IF Exists(issued[t].comment)
           THEN Decide(r) /\ rows' = rows \ {t} /\ Goto(r, "cleanup")
           ELSE EndClick(r) /\ UNCHANGED <<comments, rows, setBy, decisions>>
        /\ UNCHANGED <<issued, site, control, faults>> /\ ClickFrame

\* It then updates the comment, which takes the write lock, deletes the row and
\* commits, unless either was no longer there.
ConsumeWrite(r) ==
    LET t == click[r].token
    IN  /\ click[r].pc = "commit"
        /\ IF t \in rows /\ Exists(issued[t].comment)
           THEN Decide(r) /\ rows' = rows \ {t} /\ Goto(r, "cleanup")
           ELSE EndClick(r) /\ UNCHANGED <<comments, rows, setBy, decisions>>
        /\ UNCHANGED <<issued, site, control, faults>> /\ ClickFrame

DeleteLocator(r) ==
    /\ click[r].pc = "cleanup"
    /\ \/ locators' = locators \ {click[r].token} /\ UNCHANGED faults
       \/ Fault /\ UNCHANGED locators
    /\ EndClick(r)
    /\ UNCHANGED <<tenant, registry, setBy, decisions>> /\ ClickFrame

\* Self-hosted: read the comment, write it, delete the token.
ReadComment(r) ==
    /\ click[r].pc = "comment"
    /\ IF Exists(issued[click[r].token].comment) THEN Goto(r, "write") ELSE EndClick(r)
    /\ UNCHANGED <<tenant, control, setBy, decisions, faults>> /\ ClickFrame

WriteComment(r) ==
    /\ click[r].pc = "write"
    /\ IF Exists(issued[click[r].token].comment)
       THEN Decide(r) ELSE UNCHANGED <<comments, setBy, decisions>>
    /\ Goto(r, "delete")
    /\ UNCHANGED <<issued, rows, site, control, faults>> /\ ClickFrame

DeleteToken(r) ==
    /\ click[r].pc = "delete"
    /\ \/ rows' = rows \ {click[r].token} /\ UNCHANGED faults
       \/ Fault /\ UNCHANGED rows
    /\ EndClick(r)
    /\ UNCHANGED <<comments, issued, site, control, setBy, decisions>> /\ ClickFrame

\* A failed call before the decision, or a busy database, refuses the request.
ClickFails(r) ==
    /\ click[r].pc \in {"begin", "commit", "comment", "write"} /\ Fault
    /\ EndClick(r)
    /\ UNCHANGED <<tenant, control, setBy, decisions>> /\ ClickFrame

-----------------------------------------------------------------------------
(* Specification *)

Restart ==
    /\ Fault
    /\ click' = [r \in Clicks |-> NoClick]
    /\ pass' = [w \in Workers |-> NoPass]
    /\ siteOp' = IF siteOp = "none" THEN "none" ELSE "up"
    /\ UNCHANGED <<now, deployment, tenant, control, holder, setBy, decisions, mailed>>

Tick ==
    /\ now < MaxTime /\ now' = now + 1
    /\ UNCHANGED <<deployment, tenant, control, actors, history>>

Next ==
    \/ CreateSite \/ InsertSite \/ ActivateSite
    \/ DeleteSite \/ EraseSite \/ UnregisterSite
    \/ \E c \in Comments : PostComment(c) \/ UpdateComment(c) \/ DeleteComment(c)
    \/ \E w \in Workers :
          \/ BeginPass(w) \/ Mint(w) \/ MintRefused(w) \/ EnsureLocator(w)
          \/ CreateToken(w) \/ Send(w) \/ PassFails(w)
    \/ \E r \in Clicks :
          \/ \E t \in Tokens, a \in Decisions : Click(r, t, a)
          \/ ConsumeRead(r) \/ ConsumeWrite(r) \/ DeleteLocator(r)
          \/ ReadComment(r) \/ WriteComment(r) \/ DeleteToken(r) \/ ClickFails(r)
    \/ Restart \/ Tick

Spec == Init /\ [][Next]_vars

-----------------------------------------------------------------------------
(* Properties *)

\* A link that was mailed shows its page until it expires, decides or loses its
\* comment, as long as its site is served.  A retried digest keeps the tokens it
\* has mailed, and an expiry, a failed publication or a lost claim never takes
\* the row or the locator of one that a moderator may still use.
MailedLinksWork ==
    \A t \in mailed :
        decisions[t] = 0 /\ Exists(issued[t].comment) /\ now < issued[t].expires
            => IF IsCloud THEN SiteServes => CloudPage(t) ELSE SelfHostedPage(t)

\* A comment of a cloud account has at most one link, so a digest never fails
\* for good on ErrDigestApprovalTokenConflict.
OneLinkPerComment ==
    IsCloud => \A t, u \in rows : issued[t].comment = issued[u].comment => t = u

\* A request that was let through and has not decided.
Asked ==
    [r \in Clicks |->
        IF click[r].pc \in {"begin", "commit", "comment", "write"}
        THEN click[r].token ELSE NoToken]

Link == INSTANCE ApprovalLink WITH
    Links <- Tokens, Requests <- Clicks, NoLink <- NoToken, Nobody <- NoComment,
    singleUse <- IsCloud, status <- comments, links <- issued, asked <- Asked

\* Approval links keep the promise of ApprovalLink, single-use in the cloud:
\* whatever overlaps, a decision is by a request made before the expiry, on the
\* link's own comment, and in the cloud the only one of its link.
ImplementsLink == Link!Spec
=============================================================================
