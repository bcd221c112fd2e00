---------------------------- MODULE DigestOutbox ----------------------------
(***************************************************************************)
(* The tenant-local notification outbox of the cloud build: the digest     *)
(* rows (notification_outbox), their channel rows                          *)
(* (notification_outbox_channels), the digest membership                   *)
(* (notification_outbox_comments) and the comments they refer to, with one *)
(* action per store operation.  Every operation is one SQLite transaction, *)
(* so it is one step.                                                      *)
(*                                                                         *)
(* The callers are arbitrary: they may pass any lease owner, any claim     *)
(* generation and any timestamp already past, so that whatever holds here  *)
(* holds for a caller that is slow, stale or restarted.  The delivery      *)
(* worker that really calls these operations is module DigestDelivery.     *)
(***************************************************************************)
EXTENDS Integers, FiniteSets

CONSTANTS
    Comments,        \* comment IDs
    Channels,        \* notification channel names
    Owners,          \* lease owners: one per delivery pass or operator
    NoOwner,         \* the empty lease_owner column
    Intervals,       \* values of sites.notify_interval
    LegacyStarts,    \* window starts of the digests that predate membership
    ModeratorStatuses,  \* statuses a moderator's PATCH may write
    ParentLease,     \* lease duration of a digest row
    ChildLease,      \* lease duration of a channel row
    RetryDelays,     \* how far ahead a retried channel becomes available
    ClaimLimit,      \* LIMIT of one claim
    MaxStale,        \* bound: age of the timestamps callers pass
    MaxTime,         \* bound: last clock value explored
    MaxAttempts      \* bound: claims of one row explored

ASSUME ConstantsAssumption ==
    /\ NoOwner \notin Owners
    /\ Intervals \subseteq Nat \ {0}
    /\ LegacyStarts \subseteq 0..MaxTime
    /\ "none" \notin ModeratorStatuses /\ "deleted" \notin ModeratorStatuses
    /\ ParentLease \in Nat \ {0}
    /\ ChildLease \in Nat \ {0}
    /\ RetryDelays \subseteq Nat
    /\ ClaimLimit \in Nat \ {0}
    /\ MaxStale \in Nat
    /\ MaxTime \in Nat
    /\ MaxAttempts \in Nat

VARIABLES
    now,        \* the wall clock
    interval,   \* sites.notify_interval of the tenant's site, NoSite without one
    comments,   \* comments[c]: the row of comment c
    members,    \* members[d]: the comments mapped to digest d
    parents,    \* parents[d]: the notification_outbox row of digest d
    channels    \* channels[d][ch]: the channel row of digest d

vars == <<now, interval, comments, members, parents, channels>>

-----------------------------------------------------------------------------
(* Digest windows *)

Time == 0..MaxTime

\* A digest is named by its aggregate key, <<interval, window start>>.  Only
\* the starts that are multiples of the interval ever get a row.
Digests == Intervals \X Time

\* The key of the digest that a comment created at t belongs to.
SiteDigestKey(i, t) == <<i, t - (t % i)>>

WindowEnd(d) == d[2] + d[1]

-----------------------------------------------------------------------------
(* Rows *)

ValidStatuses == {"pending", "approved", "rejected"}

CommentRow ==
    [status    : {"none", "deleted"} \cup ValidStatuses \cup ModeratorStatuses,
     createdAt : Time,
     untouched : BOOLEAN]   \* no moderator or author changed or deleted it yet

ParentRow ==
    [status      : {"absent", "pending", "leased", "sent"},
     availableAt : Nat,
     leaseUntil  : Nat,
     owner       : Owners \cup {NoOwner},
     attempts    : Nat,
     version     : {0, 1}]

ChannelRow ==
    [status      : {"absent", "pending", "leased", "sent", "skipped"},
     availableAt : Nat,
     leaseUntil  : Nat,
     owner       : Owners \cup {NoOwner},
     attempts    : Nat]

NoParent ==
    [status |-> "absent", availableAt |-> 0, leaseUntil |-> 0,
     owner |-> NoOwner, attempts |-> 0, version |-> 0]

NoChannel ==
    [status |-> "absent", availableAt |-> 0, leaseUntil |-> 0,
     owner |-> NoOwner, attempts |-> 0]

NoComment == [status |-> "none", createdAt |-> 0, untouched |-> TRUE]

\* What every transition out of a lease writes: lease_until = NULL,
\* lease_owner = ''.
Unleased(row, status) ==
    [row EXCEPT !.status = status, !.leaseUntil = 0, !.owner = NoOwner]

Leased(row, owner, until) ==
    [row EXCEPT !.status = "leased", !.leaseUntil = until,
                !.owner = owner, !.attempts = @ + 1]

\* Mutant of Claimable: a lease may be taken over just before it expires.
BugClaimable(row, t) ==
    \/ row.status = "pending" /\ row.availableAt <= t
    \/ row.status = "leased" /\ row.leaseUntil <= t + 1

\* The SQL predicate of a claim.
Claimable(row, t) ==
    \/ row.status = "pending" /\ row.availableAt <= t
    \/ row.status = "leased" /\ row.leaseUntil <= t

\* The fence of every transition made under a lease.
Holds(row, owner, generation, t) ==
    /\ row.status = "leased"
    /\ row.owner = owner
    /\ row.attempts = generation
    /\ row.leaseUntil > t

-----------------------------------------------------------------------------
(* Creating comments *)

\* The site's row is gone.
NoSite == 0

\* PATCH /api/admin/sites/:id with a notify_interval.
UpdateSiteInterval(i) ==
    /\ interval # NoSite
    /\ i # interval
    /\ interval' = i
    /\ UNCHANGED <<now, comments, members, parents, channels>>

\* DELETE /api/admin/sites/:id.  The reference from comments to sites holds the
\* row only on the one connection that was opened with PRAGMA foreign_keys.
DeleteSite ==
    /\ interval # NoSite
    /\ interval' = NoSite
    /\ UNCHANGED <<now, comments, members, parents, channels>>

\* Mutant of DigestAccepts: a leased digest still takes comments.
BugDigestAccepts(d) ==
    \/ parents[d].status = "absent"
    \/ parents[d].status \in {"pending", "leased"} /\ parents[d].version = 1

\* ensurePendingDigestOutboxTx: the digest of the window, created if missing.
\* A digest that is uninitialized, leased or sent refuses the comment, and
\* the whole transaction is rolled back.
DigestAccepts(d) ==
    \/ parents[d].status = "absent"
    \/ parents[d].status = "pending" /\ parents[d].version = 1

EnsurePendingDigest(d) ==
    IF parents[d].status = "absent"
    THEN parents' = [parents EXCEPT ![d] =
            [NoParent EXCEPT !.status = "pending", !.version = 1,
                             !.availableAt = WindowEnd(d)]]
    ELSE parents' = parents

\* t is the creation time, fixed before the transaction and its busy retries.
CreatePendingComment(c, t) ==
    LET d == SiteDigestKey(interval, t) IN
    /\ interval # NoSite
    /\ comments[c].status = "none"
    /\ DigestAccepts(d)
    /\ comments' = [comments EXCEPT ![c] =
            [status |-> "pending", createdAt |-> t, untouched |-> TRUE]]
    /\ EnsurePendingDigest(d)
    /\ members' = [members EXCEPT ![d] = @ \cup {c}]
    /\ UNCHANGED <<now, interval, channels>>

Exists(c) == comments[c].status \notin {"none", "deleted"}

\* The moderator's PATCH and the approval link: any status may be written,
\* "pending" again and unknown ones included.
UpdateComment(c, status) ==
    /\ Exists(c)
    /\ comments' = [comments EXCEPT ![c].status = status,
                                    ![c].untouched = FALSE]
    /\ UNCHANGED <<now, interval, members, parents, channels>>

\* DELETE; the trigger on comments removes the membership row.
DeleteComment(c) ==
    /\ Exists(c)
    /\ comments' = [comments EXCEPT ![c].status = "deleted",
                                    ![c].untouched = FALSE]
    /\ members' = [d \in Digests |-> members[d] \ {c}]
    /\ UNCHANGED <<now, interval, parents, channels>>

-----------------------------------------------------------------------------
(* Claiming digests *)

Eligible(t) == {d \in Digests : Claimable(parents[d], t)}

\* The rows one claim takes: the eligible ones in available_at order, up to
\* LIMIT; ties are broken by created_at and id, which are not modelled.
ClaimBatch(S, t) ==
    /\ S # {}
    /\ \/ S = Eligible(t) /\ Cardinality(S) <= ClaimLimit
       \/ Cardinality(S) = ClaimLimit
    /\ \A d \in S, e \in Eligible(t) \ S :
            parents[d].availableAt <= parents[e].availableAt

ClaimNotificationOutbox(owner, t) ==
    \E S \in SUBSET Eligible(t) :
        /\ ClaimBatch(S, t)
        /\ \A d \in S : parents[d].attempts < MaxAttempts
        /\ parents' = [d \in Digests |->
                IF d \in S THEN Leased(parents[d], owner, t + ParentLease)
                           ELSE parents[d]]
        /\ UNCHANGED <<now, interval, comments, members, channels>>

\* claimedSiteDigestParentTx
ClaimedDigest(d, owner, generation, t) ==
    /\ parents[d].availableAt = WindowEnd(d)
    /\ parents[d].version = 1
    /\ Holds(parents[d], owner, generation, t)

\* loadSiteDigestCommentsTx fails on a comment that is missing, has an
\* unknown status or was created outside the digest's window.
MembershipIntact(d) ==
    \A c \in members[d] :
        /\ comments[c].status \in ValidStatuses
        /\ SiteDigestKey(d[1], comments[c].createdAt) = d

\* The comments a materialized digest carries.
PendingMembers(d) == {c \in members[d] : comments[c].status = "pending"}

\* What materialization, a skip and a finalization all read first.
Loadable(d, owner, generation, t) ==
    /\ ClaimedDigest(d, owner, generation, t)
    /\ MembershipIntact(d)

Materializable(d, owner, generation, t) ==
    interval # NoSite /\ Loadable(d, owner, generation, t)

-----------------------------------------------------------------------------
(* Channel rows *)

Rows(d) == {ch \in Channels : channels[d][ch].status # "absent"}

Complete(d) == \A ch \in Rows(d) : channels[d][ch].status \in {"sent", "skipped"}

\* Mutant of Mutable: a sent digest still takes channels.
BugMutable(d) == parents[d].status # "absent"

\* requireMutableNotificationOutboxTx
Mutable(d) == parents[d].status \notin {"absent", "sent"}

\* Insert the missing rows, available from time.Now() as it was before the
\* transaction and its busy retries; a sent digest refuses.
EnsureNotificationOutboxChannels(d, S, t) ==
    /\ Mutable(d)
    /\ channels' = [channels EXCEPT ![d] = [ch \in Channels |->
            IF ch \in S /\ channels[d][ch].status = "absent"
            THEN [NoChannel EXCEPT !.status = "pending", !.availableAt = t]
            ELSE channels[d][ch]]]
    /\ UNCHANGED <<now, interval, comments, members, parents>>

ClaimableChannels(d, t) ==
    {ch \in Channels : Claimable(channels[d][ch], t)}

\* Fewer channels exist than the claim limit, so all eligible rows are taken.
ClaimNotificationOutboxChannels(d, owner, t) ==
    /\ parents[d].status # "absent"
    /\ ClaimableChannels(d, t) # {}
    /\ \A ch \in ClaimableChannels(d, t) : channels[d][ch].attempts < MaxAttempts
    /\ channels' = [channels EXCEPT ![d] = [ch \in Channels |->
            IF ch \in ClaimableChannels(d, t)
            THEN Leased(channels[d][ch], owner, t + ChildLease)
            ELSE channels[d][ch]]]
    /\ UNCHANGED <<now, interval, comments, members, parents>>

AckNotificationOutboxChannel(d, ch, owner, generation, t) ==
    /\ Holds(channels[d][ch], owner, generation, t)
    /\ channels' = [channels EXCEPT ![d][ch] = Unleased(@, "sent")]
    /\ UNCHANGED <<now, interval, comments, members, parents>>

RetryNotificationOutboxChannel(d, ch, owner, generation, availableAt, t) ==
    /\ availableAt > t
    /\ Holds(channels[d][ch], owner, generation, t)
    /\ channels' = [channels EXCEPT ![d][ch] =
            [Unleased(@, "pending") EXCEPT !.availableAt = availableAt]]
    /\ UNCHANGED <<now, interval, comments, members, parents>>

\* Mutant of CloseOutstanding: every row is closed, the sent ones included.
BugCloseOutstanding(d, status) ==
    [channels EXCEPT ![d] = [ch \in Channels |->
        IF channels[d][ch].status # "absent"
        THEN Unleased(channels[d][ch], status)
        ELSE channels[d][ch]]]

\* Outstanding rows of d become status, whoever holds their leases.
CloseOutstanding(d, status) ==
    [channels EXCEPT ![d] = [ch \in Channels |->
        IF channels[d][ch].status \in {"pending", "leased"}
        THEN Unleased(channels[d][ch], status)
        ELSE channels[d][ch]]]

\* Mutant of Skippable: pending comments do not keep a digest from being skipped.
BugSkippable(d, owner, generation, t) == Loadable(d, owner, generation, t)

Skippable(d, owner, generation, t) ==
    /\ Loadable(d, owner, generation, t)
    /\ PendingMembers(d) = {}

SkipNotificationOutboxChannels(d, owner, generation, t) ==
    /\ Skippable(d, owner, generation, t)
    /\ channels' = CloseOutstanding(d, "skipped")
    /\ UNCHANGED <<now, interval, comments, members, parents>>

\* A digest without channel rows may be finalized only when it has nothing
\* to say.
Finalizable(d, owner, generation, t) ==
    /\ Materializable(d, owner, generation, t)
    /\ Rows(d) = {} => PendingMembers(d) = {}
    /\ Complete(d)

FinalizeClaimedSiteDigest(d, owner, generation, t) ==
    /\ Finalizable(d, owner, generation, t)
    /\ parents' = [parents EXCEPT ![d] = Unleased(@, "sent")]
    /\ UNCHANGED <<now, interval, comments, members, channels>>

-----------------------------------------------------------------------------
(* Digests that predate the membership table *)

ClaimLegacySiteDigest(d, owner, t) ==
    /\ parents[d].version = 0
    /\ \/ parents[d].status = "pending"
       \/ parents[d].status = "leased" /\ parents[d].leaseUntil <= t
    /\ parents[d].attempts < MaxAttempts
    /\ parents' = [parents EXCEPT ![d] = Leased(@, owner, t + ParentLease)]
    /\ UNCHANGED <<now, interval, comments, members, channels>>

\* A legacy row an operator may rewrite: only a leased one needs the lease.
LegacyFence(d, owner, generation, t) ==
    /\ parents[d].status # "absent"
    /\ parents[d].version = 0
    /\ parents[d].availableAt = WindowEnd(d)
    /\ parents[d].status = "leased" => Holds(parents[d], owner, generation, t)
    /\ members[d] = {}

\* Mutant of LegacyCommentValid: the comment may belong to another digest.
BugLegacyCommentValid(d, c) ==
    /\ comments[c].status \in ValidStatuses
    /\ SiteDigestKey(d[1], comments[c].createdAt) = d

\* A comment an operator may map to d; UNIQUE(comment_id) rejects one that
\* another digest has.
LegacyCommentValid(d, c) ==
    /\ comments[c].status \in ValidStatuses
    /\ SiteDigestKey(d[1], comments[c].createdAt) = d
    /\ \A e \in Digests : c \notin members[e]

\* A sent digest is reopened too.  Reconciling an initialized digest with the
\* membership it already has changes nothing, with another one it fails.
ReconcileLegacySiteDigest(d, owner, generation, S, t) ==
    /\ LegacyFence(d, owner, generation, t)
    /\ \A c \in S : LegacyCommentValid(d, c)
    /\ members' = [members EXCEPT ![d] = S]
    /\ channels' = [channels EXCEPT ![d] = [ch \in Channels |->
            IF channels[d][ch].status \in {"pending", "leased"}
            THEN [Unleased(channels[d][ch], "pending") EXCEPT
                        !.availableAt = parents[d].availableAt]
            ELSE channels[d][ch]]]
    /\ parents' = [parents EXCEPT ![d] =
            [Unleased(@, "pending") EXCEPT !.version = 1]]
    /\ UNCHANGED <<now, interval, comments>>

RetireLegacySiteDigest(d, owner, generation, t) ==
    /\ LegacyFence(d, owner, generation, t)
    /\ channels' = CloseOutstanding(d, "skipped")
    /\ parents' = [parents EXCEPT ![d] = [Unleased(@, "sent") EXCEPT !.version = 1]]
    /\ UNCHANGED <<now, interval, comments, members>>

-----------------------------------------------------------------------------
(* Specification *)

Tick ==
    /\ now < MaxTime
    /\ now' = now + 1
    /\ UNCHANGED <<interval, comments, members, parents, channels>>

\* Upgrading a tenant leaves version-0 digests of past windows, pending or
\* sent, with comments that no digest names and with or without channel rows.
LegacyDigests == {d \in Digests : d[2] \in LegacyStarts /\ d[2] % d[1] = 0}

LegacyParent(d, status) ==
    [NoParent EXCEPT !.status = status, !.availableAt = WindowEnd(d)]

LegacyComment(start) ==
    [status |-> "pending", createdAt |-> start, untouched |-> TRUE]

Init ==
    /\ now = 0
    /\ interval \in Intervals
    /\ comments \in [Comments -> {NoComment} \cup {LegacyComment(t) : t \in LegacyStarts}]
    /\ members = [d \in Digests |-> {}]
    /\ \E status \in [LegacyDigests -> {"pending", "sent"}] :
            parents = [d \in Digests |->
                IF d \in LegacyDigests THEN LegacyParent(d, status[d]) ELSE NoParent]
    /\ \E status \in [LegacyDigests \X Channels -> {"absent", "pending", "sent"}] :
            channels = [d \in Digests |-> [ch \in Channels |->
                IF d \in LegacyDigests
                THEN [NoChannel EXCEPT !.status = status[<<d, ch>>]]
                ELSE NoChannel]]

Generations == 1..MaxAttempts

\* A caller reads the clock before the transaction begins.
CallTimes == {t \in Time : t <= now /\ now <= t + MaxStale}

CommentNext ==
    \/ \E i \in Intervals : UpdateSiteInterval(i)
    \/ DeleteSite
    \/ \E c \in Comments :
            \/ \E t \in CallTimes : CreatePendingComment(c, t)
            \/ \E s \in ModeratorStatuses : UpdateComment(c, s)
            \/ DeleteComment(c)

ParentNext ==
    \/ \E o \in Owners, t \in CallTimes : ClaimNotificationOutbox(o, t)
    \/ \E d \in Digests, o \in Owners, g \in Generations, t \in CallTimes :
            FinalizeClaimedSiteDigest(d, o, g, t)

ChannelNext ==
    \E d \in Digests :
        \/ \E S \in SUBSET Channels, t \in CallTimes :
                EnsureNotificationOutboxChannels(d, S, t)
        \/ \E o \in Owners, t \in CallTimes :
                ClaimNotificationOutboxChannels(d, o, t)
        \/ \E o \in Owners, g \in Generations, t \in CallTimes :
                \/ SkipNotificationOutboxChannels(d, o, g, t)
                \/ \E ch \in Channels :
                    \/ AckNotificationOutboxChannel(d, ch, o, g, t)
                    \/ \E delay \in RetryDelays :
                        RetryNotificationOutboxChannel(d, ch, o, g, t + delay, t)

LegacyNext ==
    \E d \in Digests, o \in Owners, t \in CallTimes :
        \/ ClaimLegacySiteDigest(d, o, t)
        \/ \E g \in Generations :
                \/ \E S \in SUBSET Comments :
                        ReconcileLegacySiteDigest(d, o, g, S, t)
                \/ RetireLegacySiteDigest(d, o, g, t)

Next == Tick \/ CommentNext \/ ParentNext \/ ChannelNext \/ LegacyNext

Spec == Init /\ [][Next]_vars

-----------------------------------------------------------------------------
(* Invariants *)

\* Every column has its type, and the CHECK constraints of migrations 00003
\* and 00009 hold: a row is leased exactly when it has an owner and an expiry.
LeaseColumns(row) ==
    (row.status = "leased") <=> (row.owner # NoOwner)

TypeOK ==
    /\ now \in Time
    /\ interval \in Intervals \cup {NoSite}
    /\ comments \in [Comments -> CommentRow]
    /\ members \in [Digests -> SUBSET Comments]
    /\ parents \in [Digests -> ParentRow]
    /\ channels \in [Digests -> [Channels -> ChannelRow]]
    /\ \A d \in Digests :
            /\ LeaseColumns(parents[d])
            /\ \A ch \in Channels : LeaseColumns(channels[d][ch])

Finalized(d) == parents[d].status = "sent" /\ parents[d].version = 1

\* A digest is finalized only when none of its channels has work left, and
\* nothing reopens or adds a channel of a finalized digest afterwards
\* (FinalizeClaimedSiteDigest, requireMutableNotificationOutboxTx and the
\* migration's sent-parent guard have to agree on that).
FinalizedIsComplete == \A d \in Digests : Finalized(d) => Complete(d)

\* No pending comment is dropped silently: when a digest is finalized, a
\* member comment that nobody moderated since it was created has been sent on
\* some channel, and no channel of that digest was skipped.
NoSilentDrop ==
    \A d \in Digests : Finalized(d) =>
        \A c \in members[d] : comments[c].untouched =>
            /\ \E ch \in Channels : channels[d][ch].status = "sent"
            /\ \A ch \in Channels : channels[d][ch].status # "skipped"

\* A comment is mapped to one digest at most, that of its creation window, so
\* the window check of loadSiteDigestCommentsTx never rejects a digest.
MembershipInWindow ==
    \A d \in Digests : \A c \in members[d] :
        /\ Exists(c)
        /\ SiteDigestKey(d[1], comments[c].createdAt) = d
        /\ \A e \in Digests : c \in members[e] => e = d

-----------------------------------------------------------------------------
(* Action properties *)

\* What was sent stays sent: no claim, retry, skip or reconciliation takes a
\* channel out of "sent" or "skipped", or a finalized digest out of "sent".
TerminalRowsStay ==
    [][\A d \in Digests :
        /\ Finalized(d) => parents'[d] = parents[d]
        /\ \A ch \in Channels :
            channels[d][ch].status \in {"sent", "skipped"} =>
                channels'[d][ch] = channels[d][ch]]_vars

\* The comments of a digest are fixed once a worker has claimed it: later
\* comments are refused, so every attempt delivers a subset of the first one.
MembershipFrozen ==
    [][\A d \in Digests :
        (parents[d].version = 1 /\ parents[d].status \in {"leased", "sent"}) =>
            members'[d] \subseteq members[d]]_vars

\* A live lease is never taken over: until it expires, no other owner and no
\* other generation leases the row.
NotTakenOver(row, next) ==
    (row.status = "leased" /\ row.leaseUntil > now /\ next.status = "leased") =>
        next.owner = row.owner /\ next.attempts = row.attempts

LiveLeaseKept ==
    [][\A d \in Digests :
        /\ NotTakenOver(parents[d], parents'[d])
        /\ \A ch \in Channels :
                NotTakenOver(channels[d][ch], channels'[d][ch])]_vars
=============================================================================
