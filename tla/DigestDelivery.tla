--------------------------- MODULE DigestDelivery ---------------------------
(***************************************************************************)
(* The cloud delivery worker over the outbox of one tenant.  A pass opens  *)
(* the tenant's store under a deadline, claims the due digests under a     *)
(* lease owner of its own, and takes each claimed digest through           *)
(* materialize, list and ensure channels, claim channels, tokens, send,    *)
(* ack or retry, and finalize.  Each of these is one store call or one     *)
(* provider call, hence one step, and passes of several processes          *)
(* interleave with each other and with commenters and moderators.          *)
(*                                                                         *)
(* The store operations are those of DigestOutbox; this module says when   *)
(* and with which arguments the worker calls them.                         *)
(***************************************************************************)
EXTENDS DigestOutbox

CONSTANTS
    TenantTimeout,  \* deadline of one pass over the tenant
    RetryDelay,     \* delay of a channel whose send failed
    ChannelSets,    \* channel configurations a pass may snapshot
    LastCreation,   \* bound: when the last comment is created
    MaxFaults       \* bound: failures injected in one behaviour

\* normalizeCloudTenantDeliveryOptions rejects leases shorter than the
\* deadline.  MaxStale and RetryDelays only bound what DigestOutbox explores.
ASSUME DeliveryAssumption ==
    /\ TenantTimeout \in Nat \ {0}
    /\ ParentLease >= TenantTimeout /\ ChildLease >= TenantTimeout
    /\ RetryDelay \in Nat \ {0}
    /\ ChannelSets \subseteq SUBSET Channels
    /\ LastCreation \in Nat
    /\ MaxFaults \in Nat
    /\ MaxStale >= TenantTimeout
    /\ 1..(RetryDelay + ParentLease) \subseteq RetryDelays

VARIABLES
    pass,       \* pass[o]: the pass whose lease owner is o
    requests,   \* provider requests whose fate is not settled
    accepts,    \* accepts[d][ch]: how many batches of d the provider accepted
    delivered,  \* delivered[d][ch]: the comments in those batches
    faults      \* failures so far, and passes interrupted by moderators

store == vars
provider == <<requests, accepts, delivered>>
deliveryVars == <<store, pass, provider, faults>>

-----------------------------------------------------------------------------
(* A pass *)

Claim(d, generation, until) ==
    [digest |-> d, generation |-> generation, until |-> until]

Claims == [digest : Digests, generation : Nat, until : Nat]

\* No digest, and no channel, is being delivered.
NoClaim == Claim(<<0, 0>>, 0, 0)
NoChild == <<>>

Pass ==
    [pc       : {"idle", "claim", "parents", "materialize", "skip", "list", "ensure",
                 "children", "tokens", "send", "sending", "ack", "retry", "relist",
                 "finalize", "ended"},
     opened   : Time,                   \* when the deadline started to run
     at       : Time,                   \* the captured options.now()
     config   : SUBSET Channels,        \* the snapshot of channel names
     held     : SUBSET Claims,          \* claimed digests still to deliver
     parent   : Claims \cup {NoClaim},  \* the digest being delivered
     batch    : SUBSET Comments,        \* its materialized comments
     children : SUBSET (Channels \X Nat),  \* claimed channels still to send
     child    : (Channels \X Nat) \cup {NoChild}]

Fresh ==
    [pc |-> "idle", opened |-> 0, at |-> 0, config |-> {}, held |-> {},
     parent |-> NoClaim, batch |-> {}, children |-> {}, child |-> NoChild]

Digest(o) == pass[o].parent.digest

Generation(o) == pass[o].parent.generation

Channel(o) == pass[o].child[1]

ChannelGeneration(o) == pass[o].child[2]

Active(o) == pass[o].pc \notin {"idle", "ended"}

\* The pass delivers a digest that it has claimed.
Working(o) == Active(o) /\ pass[o].pc \notin {"claim", "parents"}

\* Mutant of Deadline: each digest is given the whole timeout.
BugDeadline(o) ==
    (IF pass[o].at > pass[o].opened THEN pass[o].at ELSE pass[o].opened) + TenantTimeout

\* tenantCtx is cancelled at opened + TenantTimeout.
Deadline(o) == pass[o].opened + TenantTimeout

\* The pass is about to make the call pc, with a context still alive.
At(o, pc) == pass[o].pc = pc /\ now < Deadline(o)

Go(o, pc) == pass' = [pass EXCEPT ![o].pc = pc]

\* The same, with a call for which options.now() is read again.
GoNow(o, pc) == pass' = [pass EXCEPT ![o].pc = pc, ![o].at = now]

\* Done with this digest: go on with the next claimed one.
NextDigest(o) ==
    pass' = [pass EXCEPT ![o] = [Fresh EXCEPT
                !.pc = "parents", !.opened = pass[o].opened,
                !.config = pass[o].config, !.held = pass[o].held]]

\* Mutant of LeaveLeased: the digest is retried like a channel.
BugLeaveLeased(o) ==
    /\ NextDigest(o)
    /\ parents' = [parents EXCEPT ![Digest(o)] =
            [Unleased(@, "pending") EXCEPT !.availableAt = now + RetryDelay]]
    /\ UNCHANGED <<now, interval, comments, members, channels>>

\* retryCloudParent: the digest stays leased, whatever went wrong, because a
\* retry would move available_at away from the end of its window.
LeaveLeased(o) == NextDigest(o) /\ UNCHANGED store

End(o) == pass' = [pass EXCEPT ![o] = [Fresh EXCEPT !.pc = "ended"]]

-----------------------------------------------------------------------------
(* Claiming the due digests *)

OpenTenant(o) ==
    /\ pass[o].pc = "idle"
    /\ \E config \in ChannelSets :
            pass' = [pass EXCEPT ![o] = [Fresh EXCEPT
                        !.pc = "claim", !.opened = now, !.config = config]]
    /\ UNCHANGED <<store, provider, faults>>

\* options.now() is read before the claim, which retries a busy database.
ClaimParents(o) ==
    /\ At(o, "claim")
    /\ \E t \in pass[o].opened..now :
       \/ Eligible(t) = {} /\ End(o) /\ UNCHANGED store
       \/ /\ ClaimNotificationOutbox(o, t)
          /\ pass' = [pass EXCEPT ![o].pc = "parents", ![o].held =
                {Claim(d, parents'[d].attempts, parents'[d].leaseUntil) :
                    d \in {e \in Digests : parents'[e] # parents[e]}}]
    /\ UNCHANGED <<provider, faults>>

\* The digests are taken in any order; options.now() is read for each.
NextParent(o) ==
    /\ At(o, "parents")
    /\ \/ pass[o].held = {} /\ End(o)
       \/ \E claim \in pass[o].held :
            pass' = [pass EXCEPT ![o].pc = "materialize", ![o].at = now,
                                 ![o].held = @ \ {claim}, ![o].parent = claim]
    /\ UNCHANGED <<store, provider, faults>>

-----------------------------------------------------------------------------
(* Preparing the batch *)

\* The claimed digest passes materialization at the pass's time.
Current(o) == Materializable(Digest(o), o, Generation(o), pass[o].at)

MaterializeParent(o) ==
    /\ At(o, "materialize")
    /\ \/ /\ Current(o)
          /\ LET batch == PendingMembers(Digest(o)) IN
             pass' = [pass EXCEPT ![o].batch = batch,
                                  ![o].pc = IF batch = {} THEN "skip" ELSE "list"]
          /\ UNCHANGED store
       \/ ~ Current(o) /\ LeaveLeased(o)
    /\ UNCHANGED <<provider, faults>>

SkipChildren(o) ==
    /\ At(o, "skip")
    /\ \/ /\ SkipNotificationOutboxChannels(Digest(o), o, Generation(o), pass[o].at)
          /\ Go(o, "finalize")
       \/ ~ Skippable(Digest(o), o, Generation(o), pass[o].at) /\ LeaveLeased(o)
    /\ UNCHANGED <<provider, faults>>

\* Mutant of ListChildren: channels configured since then are added to a retry.
BugListChildren(o) ==
    LET d == Digest(o) IN
    /\ At(o, "list")
    /\ \/ Rows(d) = {} /\ pass[o].config = {} /\ LeaveLeased(o)
       \/ /\ ~ pass[o].config \subseteq Rows(d)
          /\ Go(o, "ensure")
          /\ UNCHANGED store
       \/ /\ Rows(d) # {} /\ pass[o].config \subseteq Rows(d)
          /\ Go(o, IF Complete(d) THEN "finalize" ELSE "children")
          /\ UNCHANGED store
    /\ UNCHANGED <<provider, faults>>

\* A digest that has channels keeps them; one that has none gets the
\* configured ones, and waits when none is configured.
ListChildren(o) ==
    LET d == Digest(o) IN
    /\ At(o, "list")
    /\ \/ Rows(d) = {} /\ pass[o].config = {} /\ LeaveLeased(o)
       \/ /\ Rows(d) = {} /\ pass[o].config # {}
          /\ Go(o, "ensure")
          /\ UNCHANGED store
       \/ /\ Rows(d) # {}
          /\ Go(o, IF Complete(d) THEN "finalize" ELSE "children")
          /\ UNCHANGED store
    /\ UNCHANGED <<provider, faults>>

\* The rows become available at time.Now(), which is read after the pass read
\* the time it goes on to claim them with: two transactions lie in between.
\* The rows returned are those of the configured channels.
EnsureChildren(o) ==
    LET d == Digest(o) IN
    /\ At(o, "ensure")
    /\ now > pass[o].at
    /\ \/ /\ \E t \in (pass[o].at + 1)..now :
                EnsureNotificationOutboxChannels(d, pass[o].config, t)
          /\ Go(o, IF \A ch \in pass[o].config : channels'[d][ch].status \in {"sent", "skipped"}
                   THEN "finalize" ELSE "children")
       \/ ~ Mutable(d) /\ LeaveLeased(o)
    /\ UNCHANGED <<provider, faults>>

\* Mutant of ClaimChildren: the rows just inserted are sent without a claim.
BugClaimChildren(o) ==
    LET d == Digest(o) IN
    /\ At(o, "children")
    /\ pass' = [pass EXCEPT ![o].pc = "tokens", ![o].children =
            {<<ch, channels[d][ch].attempts>> :
                ch \in {x \in Rows(d) : channels[d][x].status = "pending"}}]
    /\ UNCHANGED <<store, provider, faults>>

ClaimChildren(o) ==
    LET d == Digest(o)
        t == pass[o].at
    IN
    /\ At(o, "children")
    /\ \/ /\ ClaimNotificationOutboxChannels(d, o, t)
          /\ pass' = [pass EXCEPT ![o].pc = "tokens", ![o].children =
                {<<ch, channels'[d][ch].attempts>> : ch \in ClaimableChannels(d, t)}]
       \/ ClaimableChannels(d, t) = {} /\ LeaveLeased(o)
    /\ UNCHANGED <<provider, faults>>

\* EnsureMaterializedSiteDigestApprovalTokens checks the claim again, and that
\* the pending comments are still the materialized ones.  The tokens
\* themselves are not modelled.
EnsureTokens(o) ==
    LET current == /\ Current(o)
                   /\ PendingMembers(Digest(o)) = pass[o].batch
    IN
    /\ At(o, "tokens")
    /\ \/ current /\ Go(o, "send") /\ UNCHANGED store
       \/ ~ current /\ LeaveLeased(o)
    /\ UNCHANGED <<provider, faults>>

-----------------------------------------------------------------------------
(* Sending *)

Request(o) ==
    [owner |-> o, digest |-> Digest(o), channel |-> Channel(o),
     batch |-> pass[o].batch, accepted |-> FALSE]

Requests == [owner : Owners, digest : Digests, channel : Channels,
             batch : SUBSET Comments, accepted : BOOLEAN]

Accepted(r) == [r EXCEPT !.accepted = TRUE]

\* The requests of o's current call.
Outstanding(o) == {Request(o), Accepted(Request(o))}

StartSend(o) ==
    /\ At(o, "send")
    /\ \E child \in pass[o].children :
        /\ pass' = [pass EXCEPT ![o].pc = "sending", ![o].child = child,
                                ![o].children = @ \ {child}]
        /\ requests' = requests \cup {Request(o)'}
    /\ UNCHANGED <<store, accepts, delivered, faults>>

NoMoreChildren(o) ==
    /\ At(o, "send")
    /\ pass[o].children = {}
    /\ Go(o, "relist")
    /\ UNCHANGED <<store, provider, faults>>

\* The provider processes a request, possibly after its sender gave up.
ProviderAccepts(r) ==
    /\ r \in requests /\ ~ r.accepted
    /\ requests' = (requests \ {r}) \cup
            (IF pass[r.owner].pc = "sending" /\ Request(r.owner) = r
             THEN {Accepted(r)} ELSE {})
    /\ accepts' = [accepts EXCEPT ![r.digest][r.channel] = @ + 1]
    /\ delivered' = [delivered EXCEPT ![r.digest][r.channel] = @ \cup r.batch]
    /\ UNCHANGED <<store, pass, faults>>

\* Mutant of SendSucceeds: a send counts as successful without an answer.
BugSendSucceeds(o) ==
    /\ At(o, "sending")
    /\ requests' = requests \ Outstanding(o)
    /\ Go(o, "ack")
    /\ UNCHANGED <<store, accepts, delivered, faults>>

SendSucceeds(o) ==
    /\ At(o, "sending")
    /\ Accepted(Request(o)) \in requests
    /\ requests' = requests \ Outstanding(o)
    /\ GoNow(o, "ack")
    /\ UNCHANGED <<store, accepts, delivered, faults>>

\* The time is that of the answer, however long the acknowledgement takes.
AckChild(o) ==
    LET d == Digest(o)
        ch == Channel(o)
        generation == ChannelGeneration(o)
    IN
    /\ At(o, "ack")
    /\ \/ AckNotificationOutboxChannel(d, ch, o, generation, pass[o].at) /\ Go(o, "send")
       \/ /\ ~ Holds(channels[d][ch], o, generation, pass[o].at)
          /\ GoNow(o, "retry")
          /\ UNCHANGED store
    /\ UNCHANGED <<provider, faults>>

\* A failed channel waits out the digest's own lease.
RetryAt(o) ==
    IF pass[o].parent.until > pass[o].at + RetryDelay
    THEN pass[o].parent.until ELSE pass[o].at + RetryDelay

\* Mutant of RetryChild: the retry is not fenced by the channel's lease.
BugRetryChild(o) ==
    /\ At(o, "retry")
    /\ channels' = [channels EXCEPT ![Digest(o)][Channel(o)] =
            [Unleased(@, "pending") EXCEPT !.availableAt = RetryAt(o)]]
    /\ Go(o, "send")
    /\ UNCHANGED <<now, interval, comments, members, parents, provider, faults>>

RetryChild(o) ==
    LET d == Digest(o)
        ch == Channel(o)
        generation == ChannelGeneration(o)
    IN
    /\ At(o, "retry")
    /\ \/ RetryNotificationOutboxChannel(d, ch, o, generation, RetryAt(o), pass[o].at)
       \/ ~ Holds(channels[d][ch], o, generation, pass[o].at) /\ UNCHANGED store
    /\ Go(o, "send")
    /\ UNCHANGED <<provider, faults>>

Relist(o) ==
    LET d == Digest(o) IN
    /\ At(o, "relist")
    /\ \/ /\ Rows(d) # {} /\ Complete(d)
          /\ GoNow(o, "finalize")
          /\ UNCHANGED store
       \/ ~ (Rows(d) # {} /\ Complete(d)) /\ LeaveLeased(o)
    /\ UNCHANGED <<provider, faults>>

FinalizeParent(o) ==
    /\ At(o, "finalize")
    /\ \/ /\ FinalizeClaimedSiteDigest(Digest(o), o, Generation(o), pass[o].at)
          /\ NextDigest(o)
       \/ ~ Finalizable(Digest(o), o, Generation(o), pass[o].at) /\ LeaveLeased(o)
    /\ UNCHANGED <<provider, faults>>

-----------------------------------------------------------------------------
(* Failures *)

Fault == faults < MaxFaults /\ faults' = faults + 1

\* The provider rejects the batch, or accepts it and the answer is lost, or
\* the call is given up and the request is still processed later.
SendFails(o) ==
    /\ Fault
    /\ At(o, "sending")
    /\ \/ requests' = requests \ Outstanding(o)
       \/ Request(o) \in requests /\ requests' = requests
    /\ GoNow(o, "retry")
    /\ UNCHANGED <<store, accepts, delivered>>

\* A store call fails and rolls back.  A failed claim ends the pass, a failed
\* call about a digest leaves it leased.
StoreCallFails(o) ==
    /\ Fault
    /\ \/ At(o, "claim") /\ End(o)
       \/ At(o, "ack") /\ GoNow(o, "retry")
       \/ At(o, "retry") /\ Go(o, "send")
       \/ /\ \E pc \in {"materialize", "skip", "list", "ensure", "children",
                        "tokens", "relist", "finalize"} : At(o, pc)
          /\ NextDigest(o)
    /\ UNCHANGED <<store, provider>>

\* An acknowledgement is committed, but its caller sees an error.
AckAnswerLost(o) ==
    /\ Fault
    /\ At(o, "ack")
    /\ AckNotificationOutboxChannel(Digest(o), Channel(o), o, ChannelGeneration(o), pass[o].at)
    /\ GoNow(o, "retry")
    /\ UNCHANGED provider

\* The deadline passes, the process shuts down or it crashes: no later call of
\* the pass does anything.  A request it was waiting for may still be processed.
Abandon(o) ==
    /\ Fault
    /\ Active(o)
    /\ End(o)
    /\ requests' = {r \in requests : r.owner = o => ~ r.accepted}
    /\ UNCHANGED <<store, accepts, delivered>>

-----------------------------------------------------------------------------
(* Specification *)

DeliveryInit ==
    /\ Init
    /\ pass = [o \in Owners |-> Fresh]
    /\ requests = {}
    /\ accepts = [d \in Digests |-> [ch \in Channels |-> 0]]
    /\ delivered = [d \in Digests |-> [ch \in Channels |-> {}]]
    /\ faults = 0

\* Commenters and moderators, and the clock.
ModeratorStep ==
    \/ \E c \in Comments :
            \/ \E s \in ModeratorStatuses : UpdateComment(c, s)
            \/ DeleteComment(c)
    \/ \E i \in Intervals : UpdateSiteInterval(i)
    \/ DeleteSite

Outside ==
    /\ \/ \E c \in Comments : now <= LastCreation /\ CreatePendingComment(c, now)
       \/ ModeratorStep
    /\ UNCHANGED <<pass, provider, faults>>

Clock == Tick /\ UNCHANGED <<pass, provider, faults>>

PassStep(o) ==
    \/ ClaimParents(o) \/ NextParent(o) \/ MaterializeParent(o) \/ SkipChildren(o)
    \/ ListChildren(o) \/ EnsureChildren(o) \/ ClaimChildren(o) \/ EnsureTokens(o)
    \/ StartSend(o) \/ NoMoreChildren(o) \/ SendSucceeds(o) \/ AckChild(o)
    \/ RetryChild(o) \/ Relist(o) \/ FinalizeParent(o)

Failure(o) == SendFails(o) \/ StoreCallFails(o) \/ AckAnswerLost(o) \/ Abandon(o)

DeliveryNext ==
    \/ Outside
    \/ Clock
    \/ \E o \in Owners : OpenTenant(o) \/ PassStep(o) \/ Failure(o)
    \/ \E r \in requests : ProviderAccepts(r)

DeliverySpec == DeliveryInit /\ [][DeliveryNext]_deliveryVars

-----------------------------------------------------------------------------
(* Safety *)

DeliveryTypeOK ==
    /\ TypeOK
    /\ pass \in [Owners -> Pass]
    /\ requests \subseteq Requests
    /\ accepts \in [Digests -> [Channels -> Nat]]
    /\ delivered \in [Digests -> [Channels -> SUBSET Comments]]
    /\ faults \in 0..MaxFaults

\* A digest is delivered by one pass at a time: while a pass can still make
\* calls about it, no other pass holds it (the leases cover the deadline, and
\* the deadline starts before the claim).
OneWorkerPerDigest ==
    \A o, p \in Owners :
        (o # p /\ Working(o) /\ now < Deadline(o) /\ Working(p) /\ now < Deadline(p))
            => Digest(o) # Digest(p)

\* A channel of an initialized digest becomes sent only after its provider
\* accepted the digest, and then every comment of the digest that no moderator
\* has touched was in an accepted batch (MaterializeClaimedSiteDigest and the
\* token check against late comments, the acknowledgement against a failed
\* send).  Legacy digests may have been sent before there was this worker.
SentWasDelivered ==
    \A d \in Digests, ch \in Channels :
        parents[d].version = 1 /\ channels[d][ch].status = "sent" =>
            /\ accepts[d][ch] > 0
            /\ {c \in members[d] : comments[c].untouched} \subseteq delivered[d][ch]

\* A provider accepts a digest again only because something went wrong in
\* between, a failure or a pass that ran into its deadline: otherwise it
\* accepts it once.
Overdue == {o \in Owners : Active(o) /\ now >= Deadline(o)}

DuplicatesNeedFaults ==
    \A d \in Digests, ch \in Channels :
        accepts[d][ch] <= 1 + faults + Cardinality(Overdue)

\* available_at of an initialized digest is the end of its window for good; a
\* digest that lost it could never be materialized again.
WindowFenceKept ==
    \A d \in Digests :
        parents[d].status # "absent" => parents[d].availableAt = WindowEnd(d)

\* Once a pass that met no failure has come to its end, the digest it claimed
\* for the first time has been sent on a channel, if it has a pending comment.
FirstPassDelivers ==
    (faults = 0 /\ \A o \in Owners : ~ Active(o)) =>
        \A d \in Digests :
            (parents[d].attempts = 1 /\ PendingMembers(d) # {}) =>
                \E ch \in Channels : channels[d][ch].status = "sent"

\* Under a live lease only its holder decides: until it expires, a claimed digest
\* changes only by the finalization of the pass that holds it, and a claimed
\* channel only by its holder's acknowledgement or retry, or when the holder of
\* the digest skips what is outstanding.  No pass that is slow, stale or working
\* with an earlier time than the row's takes it over or finishes it.
Live(row) == row.status = "leased" /\ row.leaseUntil > now

Decides(o, d, generation) == Digest(o) = d /\ Generation(o) = generation

HolderDecides ==
    [][\A d \in Digests :
        /\ Live(parents[d]) /\ parents'[d] # parents[d] =>
                /\ FinalizeParent(parents[d].owner)
                /\ Decides(parents[d].owner, d, parents[d].attempts)
        /\ \A ch \in Channels :
            Live(channels[d][ch]) /\ channels'[d][ch] # channels[d][ch] =>
                \/ \E o \in {channels[d][ch].owner} :
                        /\ AckChild(o) \/ RetryChild(o) \/ AckAnswerLost(o)
                        /\ Digest(o) = d /\ Channel(o) = ch
                        /\ ChannelGeneration(o) = channels[d][ch].attempts
                \/ /\ parents[d].status = "leased"
                   /\ SkipChildren(parents[d].owner)
                   /\ Decides(parents[d].owner, d, parents[d].attempts)]_deliveryVars

\* A send starts only under live leases on the digest and on the channel, so
\* never for a channel that is sent, skipped or somebody else's.
SendsUnderLease ==
    [][\A o \in Owners : StartSend(o) =>
        /\ Holds(parents[Digest(o)], o, Generation(o), now)
        /\ Holds(channels[Digest(o)][Channel(o)'], o, ChannelGeneration(o)', now)]_deliveryVars

\* The channels of a digest are chosen once: a retry by a pass with another
\* configuration neither adds nor removes one.
ChannelSetFixed ==
    [][\A d \in Digests : Rows(d) # {} => Rows(d)' = Rows(d)]_deliveryVars

\* The worker together with its store implements the outbox, whose callers may
\* use any owner, generation and recent time.
ImplementsOutbox == Spec

-----------------------------------------------------------------------------
(* Liveness *)

\* CloudTenantDeliveryWorker starts a pass at every tick of its cadence unless
\* one is active.  A pass that finds nothing to claim changes nothing and is
\* left out, so that the finitely many lease owners suffice.
StartPass ==
    /\ \A o \in Owners : ~ Active(o)
    /\ Eligible(now) # {}
    /\ \E o \in Owners : pass[o].pc = "idle"
    /\ OpenTenant(CHOOSE o \in Owners : pass[o].pc = "idle")

\* The calls of a pass take no time on the scale of a lease, except that a
\* provider may be slow, within the deadline, and that two readings of the
\* clock differ.
Waits(o) ==
    /\ \/ pass[o].pc = "sending"
       \/ pass[o].pc = "ensure" /\ now = pass[o].at
    /\ now + 1 < Deadline(o)

PunctualClock ==
    /\ \A o \in Owners : Active(o) => Waits(o)
    /\ ~ (Eligible(now) # {} /\ \E o \in Owners : pass[o].pc = "idle")
    /\ Clock

ProviderStep == \E r \in requests : ProviderAccepts(r)

\* Moderators are free between the passes.  What they change while a pass is at
\* work may cost it the digest, and counts as a failure.
BetweenPasses == (\A o \in Owners : ~ Active(o)) /\ Outside

Interruption ==
    /\ Fault
    /\ \E o \in Owners : Active(o)
    /\ ModeratorStep
    /\ UNCHANGED <<pass, provider>>

PunctualNext ==
    \/ BetweenPasses
    \/ Interruption
    \/ PunctualClock
    \/ StartPass
    \/ \E o \in Owners : PassStep(o) \/ Failure(o)
    \/ ProviderStep

PunctualSpec ==
    /\ DeliveryInit
    /\ [][PunctualNext]_deliveryVars
    /\ WF_deliveryVars(PunctualClock)
    /\ WF_deliveryVars(StartPass)
    /\ WF_deliveryVars(ProviderStep)
    /\ \A o \in Owners : WF_deliveryVars(PassStep(o))

\* A digest that can be read: its site's row is there, and no comment of it has
\* an unknown status, which a PATCH may write.
Readable(d) == interval # NoSite /\ MembershipIntact(d)

\* Bound: lease owners, attempts and time are left for a pass that inserts the
\* channels, one that delivers, and one more for each failure or interruption
\* still to come.
RoomLeft(d) ==
    LET passes == MaxFaults - faults + 2 IN
    /\ Cardinality({o \in Owners : pass[o].pc = "idle"}) >= passes
    /\ parents[d].attempts + passes <= MaxAttempts
    /\ now + passes * (ParentLease + RetryDelay) <= MaxTime

\* A digest that is open and can be read is finalized in the end, whatever
\* fails on the way and whatever is moderated between the passes or under one
\* (the leases left behind expire, the failed channels become available again,
\* and the digest stays materializable).  There are two exceptions.  Moderators
\* who interrupt every pass delay it for ever; RoomLeft counts them with the
\* failures.  And a digest with a comment of unknown status, or without its
\* site, cannot be finalized; it has the same promise again as soon as a
\* moderator repairs the status.
EventuallyFinalized ==
    \A d \in Digests :
        /\ parents[d].status \in {"pending", "leased"} /\ parents[d].version = 1
        /\ Readable(d) /\ RoomLeft(d)
        ~> Finalized(d) \/ ~ Readable(d)
=============================================================================
