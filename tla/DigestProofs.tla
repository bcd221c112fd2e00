---------------------------- MODULE DigestProofs ----------------------------
(***************************************************************************)
(* Proofs about the digests: first of the outbox (DigestOutbox), for       *)
(* arbitrary callers, then of the delivery worker (DigestDelivery); for    *)
(* every set of comments, channels, passes, intervals and legacy digests,  *)
(* every lease length, clock bound and number of failures.                 *)
(*                                                                         *)
(* Part I.  The types of the outbox, then its safety properties.  The      *)
(* state invariants follow from one inductive invariant, IInv; the action  *)
(* properties from it and from the guards of the actions.                  *)
(*                                                                         *)
(* Part II.  The worker implements the outbox, so that Part I holds of it. *)
(* A store call of the worker is a step of the outbox when its arguments   *)
(* are ones an outbox caller may use: the digest and the generation come   *)
(* from a claim, and the time is recent, because the deadline runs from    *)
(* before the time was read.  That is what ArgumentsSound keeps.           *)
(*                                                                         *)
(* Part III.  The safety of the worker itself.  A pass that has time left  *)
(* holds the leases of all it has claimed (LeasesInv); what is sent was    *)
(* shipped (SentInv); an acceptance that no live or acknowledged send      *)
(* accounts for is charged to a failure or to a missed deadline            *)
(* (BlameInv); and the rows of a digest's first claim are out of the reach *)
(* of the pass that inserted them (FirstRowsInv).                          *)
(***************************************************************************)
EXTENDS DigestDelivery, FiniteSetTheorems, TLAPS

(* I. THE OUTBOX *)

-----------------------------------------------------------------------------
(* What the helpers return *)

\* The digest window of a creation time is a digest (siteDigestWindow).
LEMMA KeyType ==
    ASSUME NEW i \in Intervals, NEW t \in Time
    PROVE  SiteDigestKey(i, t) \in Digests
<1>1. i \in Nat \ {0} /\ t \in Nat /\ t <= MaxTime /\ MaxTime \in Nat
  BY ConstantsAssumption DEF Time
<1>2. t % i \in 0..(i - 1)
  BY <1>1
<1>3. t % i <= t
  BY <1>1, <1>2, SMT
<1> QED
  BY <1>1, <1>2, <1>3 DEF SiteDigestKey, Digests, Time

LEMMA WindowEndType == ASSUME NEW d \in Digests PROVE WindowEnd(d) \in Nat
<1>1. PICK i \in Intervals, t \in Time : d = <<i, t>>
  BY DEF Digests
<1>2. i \in Nat /\ t \in Nat
  BY ConstantsAssumption DEF Time
<1> QED
  BY <1>1, <1>2 DEF WindowEnd

\* The rows written when a row is leased or released are well typed and keep
\* the CHECK constraint.
LEMMA ParentRowLeased ==
    ASSUME NEW row \in ParentRow, NEW o \in Owners, NEW until \in Nat
    PROVE  /\ Leased(row, o, until) \in ParentRow
           /\ LeaseColumns(Leased(row, o, until))
           /\ Leased(row, o, until).status = "leased"
           /\ Leased(row, o, until).owner = o
           /\ Leased(row, o, until).availableAt = row.availableAt
           /\ Leased(row, o, until).version = row.version
<1> DEFINE n == row.attempts + 1
<1>1. n \in Nat
  BY DEF ParentRow
<1> HIDE DEF n
<1>2. [row EXCEPT !.status = "leased", !.leaseUntil = until,
                  !.owner = o, !.attempts = n] \in ParentRow
  BY <1>1 DEF ParentRow
<1>3. Leased(row, o, until) \in ParentRow
  BY <1>2 DEF Leased, n
<1>4. /\ Leased(row, o, until).status = "leased"
      /\ Leased(row, o, until).owner = o
      /\ Leased(row, o, until).availableAt = row.availableAt
      /\ Leased(row, o, until).version = row.version
  BY DEF Leased, ParentRow
<1> QED
  BY <1>3, <1>4, ConstantsAssumption DEF LeaseColumns

LEMMA ParentRowUnleased ==
    ASSUME NEW row \in ParentRow, NEW s \in {"pending", "sent"}
    PROVE  /\ Unleased(row, s) \in ParentRow
           /\ LeaseColumns(Unleased(row, s))
           /\ Unleased(row, s).status = s
           /\ Unleased(row, s).owner = NoOwner
           /\ Unleased(row, s).availableAt = row.availableAt
           /\ Unleased(row, s).version = row.version
<1>1. Unleased(row, s) \in ParentRow
  BY DEF Unleased, ParentRow
<1>2. /\ Unleased(row, s).status = s
      /\ Unleased(row, s).owner = NoOwner
      /\ Unleased(row, s).availableAt = row.availableAt
      /\ Unleased(row, s).version = row.version
  BY DEF Unleased, ParentRow
<1> QED
  BY <1>1, <1>2 DEF LeaseColumns

LEMMA ChannelRowLeased ==
    ASSUME NEW row \in ChannelRow, NEW o \in Owners, NEW until \in Nat
    PROVE  /\ Leased(row, o, until) \in ChannelRow
           /\ LeaseColumns(Leased(row, o, until))
           /\ Leased(row, o, until).status = "leased"
           /\ Leased(row, o, until).owner = o
           /\ Leased(row, o, until).availableAt = row.availableAt
<1> DEFINE n == row.attempts + 1
<1>1. n \in Nat
  BY DEF ChannelRow
<1> HIDE DEF n
<1>2. [row EXCEPT !.status = "leased", !.leaseUntil = until,
                  !.owner = o, !.attempts = n] \in ChannelRow
  BY <1>1 DEF ChannelRow
<1>3. Leased(row, o, until) \in ChannelRow
  BY <1>2 DEF Leased, n
<1>4. /\ Leased(row, o, until).status = "leased"
      /\ Leased(row, o, until).owner = o
      /\ Leased(row, o, until).availableAt = row.availableAt
  BY DEF Leased, ChannelRow
<1> QED
  BY <1>3, <1>4, ConstantsAssumption DEF LeaseColumns

LEMMA ChannelRowUnleased ==
    ASSUME NEW row \in ChannelRow, NEW s \in {"pending", "sent", "skipped"}
    PROVE  /\ Unleased(row, s) \in ChannelRow
           /\ LeaseColumns(Unleased(row, s))
           /\ Unleased(row, s).status = s
           /\ Unleased(row, s).owner = NoOwner
           /\ Unleased(row, s).availableAt = row.availableAt
<1>1. Unleased(row, s) \in ChannelRow
  BY DEF Unleased, ChannelRow
<1>2. /\ Unleased(row, s).status = s
      /\ Unleased(row, s).owner = NoOwner
      /\ Unleased(row, s).availableAt = row.availableAt
  BY DEF Unleased, ChannelRow
<1> QED
  BY <1>1, <1>2 DEF LeaseColumns

LEMMA EmptyRowType ==
    /\ NoParent \in ParentRow /\ LeaseColumns(NoParent)
    /\ NoChannel \in ChannelRow /\ LeaseColumns(NoChannel)
    /\ NoComment \in CommentRow
BY ConstantsAssumption DEF ParentRow, ChannelRow, CommentRow, NoParent, NoChannel,
   NoComment, LeaseColumns, Time

-----------------------------------------------------------------------------
(* Type correctness *)

\* Every reachable row is well typed and passes the CHECK constraints of the
\* schema, so no transition is ever aborted by one.
LEMMA InitTypeOK == Init => TypeOK
<1> SUFFICES ASSUME Init PROVE TypeOK
  OBVIOUS
<1>1. now \in Time /\ interval \in Intervals /\ members \in [Digests -> SUBSET Comments]
  BY ConstantsAssumption DEF Init, Time
<1>2. comments \in [Comments -> CommentRow]
  <2>1. ASSUME NEW t \in LegacyStarts PROVE LegacyComment(t) \in CommentRow
    BY ConstantsAssumption DEF LegacyComment, CommentRow, ValidStatuses, Time
  <2>2. {NoComment} \cup {LegacyComment(t) : t \in LegacyStarts} \subseteq CommentRow
    BY <2>1, EmptyRowType
  <2> QED
    BY <2>2 DEF Init
<1>3. \A d \in Digests : parents[d] \in ParentRow /\ LeaseColumns(parents[d])
  <2>1. PICK status \in [LegacyDigests -> {"pending", "sent"}] :
            parents = [d \in Digests |->
                IF d \in LegacyDigests THEN LegacyParent(d, status[d]) ELSE NoParent]
    BY DEF Init
  <2>2. ASSUME NEW d \in Digests, NEW s \in {"pending", "sent"}
        PROVE  LegacyParent(d, s) \in ParentRow /\ LeaseColumns(LegacyParent(d, s))
    BY WindowEndType, ConstantsAssumption DEF LegacyParent, NoParent, ParentRow, LeaseColumns
  <2> QED
    BY <2>1, <2>2, EmptyRowType
<1>4. parents \in [Digests -> ParentRow]
  BY <1>3 DEF Init
<1>5. \A d \in Digests, ch \in Channels :
          channels[d][ch] \in ChannelRow /\ LeaseColumns(channels[d][ch])
  <2>1. PICK status \in [LegacyDigests \X Channels -> {"absent", "pending", "sent"}] :
            channels = [d \in Digests |-> [ch \in Channels |->
                IF d \in LegacyDigests
                THEN [NoChannel EXCEPT !.status = status[<<d, ch>>]]
                ELSE NoChannel]]
    BY DEF Init
  <2>2. ASSUME NEW s \in {"absent", "pending", "sent"}
        PROVE  /\ [NoChannel EXCEPT !.status = s] \in ChannelRow
               /\ LeaseColumns([NoChannel EXCEPT !.status = s])
    BY ConstantsAssumption DEF NoChannel, ChannelRow, LeaseColumns
  <2>3. \A d \in LegacyDigests, ch \in Channels :
            status[<<d, ch>>] \in {"absent", "pending", "sent"}
    BY <2>1
  <2> QED
    BY <2>1, <2>2, <2>3, EmptyRowType
<1>6. channels \in [Digests -> [Channels -> ChannelRow]]
  BY <1>5 DEF Init
<1> QED
  BY <1>1, <1>2, <1>3, <1>4, <1>5, <1>6 DEF TypeOK

\* What one step may write in each table.
LEMMA CreateType ==
    ASSUME TypeOK, NEW c \in Comments, NEW t \in Time, CreatePendingComment(c, t)
    PROVE  TypeOK'
<1> DEFINE d == SiteDigestKey(interval, t)
<1>1. d \in Digests
  BY KeyType DEF TypeOK, CreatePendingComment
<1>2. [status |-> "pending", createdAt |-> t, untouched |-> TRUE] \in CommentRow
  BY DEF CommentRow, ValidStatuses
<1>3. comments' \in [Comments -> CommentRow]
  BY <1>2 DEF TypeOK, CreatePendingComment
<1>4. members' \in [Digests -> SUBSET Comments]
  BY <1>1 DEF TypeOK, CreatePendingComment
<1>5. /\ parents' \in [Digests -> ParentRow]
      /\ \A e \in Digests : LeaseColumns(parents'[e])
  <2> DEFINE row == [NoParent EXCEPT !.status = "pending", !.version = 1,
                                     !.availableAt = WindowEnd(d)]
  <2>1. row \in ParentRow /\ LeaseColumns(row)
    BY <1>1, WindowEndType, ConstantsAssumption DEF NoParent, ParentRow, LeaseColumns
  <2>2. parents' = parents \/ parents' = [parents EXCEPT ![d] = row]
    BY DEF CreatePendingComment, EnsurePendingDigest
  <2> HIDE DEF row
  <2> QED
    BY <1>1, <2>1, <2>2 DEF TypeOK
<1> QED
  BY <1>3, <1>4, <1>5 DEF TypeOK, CreatePendingComment

LEMMA CommentRowsType ==
    ASSUME TypeOK, CommentNext
    PROVE  TypeOK'
<1>1. CASE \E i \in Intervals : UpdateSiteInterval(i)
  BY <1>1 DEF TypeOK, UpdateSiteInterval
<1>5. CASE DeleteSite
  BY <1>5 DEF TypeOK, DeleteSite
<1>2. CASE \E c \in Comments, t \in CallTimes : CreatePendingComment(c, t)
  BY <1>2, CreateType DEF CallTimes
<1>3. CASE \E c \in Comments, s \in ModeratorStatuses : UpdateComment(c, s)
  <2> PICK c \in Comments, s \in ModeratorStatuses : UpdateComment(c, s)
    BY <1>3
  <2>1. [comments[c] EXCEPT !.status = s, !.untouched = FALSE] \in CommentRow
    BY DEF TypeOK, CommentRow
  <2>2. comments' \in [Comments -> CommentRow]
    BY <2>1 DEF TypeOK, UpdateComment
  <2> QED
    BY <2>2 DEF TypeOK, UpdateComment
<1>4. CASE \E c \in Comments : DeleteComment(c)
  <2> PICK c \in Comments : DeleteComment(c)
    BY <1>4
  <2>1. [comments[c] EXCEPT !.status = "deleted", !.untouched = FALSE] \in CommentRow
    BY DEF TypeOK, CommentRow
  <2>2. comments' \in [Comments -> CommentRow]
    BY <2>1 DEF TypeOK, DeleteComment
  <2>3. members' \in [Digests -> SUBSET Comments]
    BY DEF TypeOK, DeleteComment
  <2> QED
    BY <2>2, <2>3 DEF TypeOK, DeleteComment
<1> QED
  BY <1>1, <1>2, <1>3, <1>4, <1>5 DEF CommentNext

\* A step that rewrites digest rows only, each to a well-typed one.
LEMMA ParentNextType == ASSUME TypeOK, ParentNext PROVE TypeOK'
<1>1. CASE \E o \in Owners, t \in CallTimes : ClaimNotificationOutbox(o, t)
  <2> PICK o \in Owners, t \in CallTimes : ClaimNotificationOutbox(o, t)
    BY <1>1
  <2>1. t + ParentLease \in Nat
    BY ConstantsAssumption DEF CallTimes, Time
  <2>2. PICK S \in SUBSET Eligible(t) :
            parents' = [d \in Digests |->
                IF d \in S THEN Leased(parents[d], o, t + ParentLease)
                           ELSE parents[d]]
    BY DEF ClaimNotificationOutbox
  <2>3. \A d \in Digests : parents'[d] \in ParentRow /\ LeaseColumns(parents'[d])
    BY <2>1, <2>2, ParentRowLeased DEF TypeOK
  <2>4. parents' \in [Digests -> ParentRow]
    BY <2>2, <2>3
  <2> QED
    BY <2>3, <2>4 DEF TypeOK, ClaimNotificationOutbox
<1>2. CASE \E d \in Digests, o \in Owners, g \in Generations, t \in CallTimes :
              FinalizeClaimedSiteDigest(d, o, g, t)
  <2> PICK d \in Digests, o \in Owners, g \in Generations, t \in CallTimes :
              FinalizeClaimedSiteDigest(d, o, g, t)
    BY <1>2
  <2>1. Unleased(parents[d], "sent") \in ParentRow /\ LeaseColumns(Unleased(parents[d], "sent"))
    BY ParentRowUnleased DEF TypeOK
  <2>2. parents' = [parents EXCEPT ![d] = Unleased(parents[d], "sent")]
    BY DEF FinalizeClaimedSiteDigest
  <2>3. /\ parents' \in [Digests -> ParentRow]
        /\ \A e \in Digests : LeaseColumns(parents'[e])
    BY <2>1, <2>2 DEF TypeOK
  <2> QED
    BY <2>3 DEF TypeOK, FinalizeClaimedSiteDigest
<1> QED
  BY <1>1, <1>2 DEF ParentNext

\* Replacing the channel rows of one digest by well-typed ones.
LEMMA ChannelUpdateType ==
    ASSUME TypeOK, NEW d \in Digests, NEW f,
           f \in [Channels -> ChannelRow],
           \A ch \in Channels : LeaseColumns(f[ch]),
           channels' = [channels EXCEPT ![d] = f]
    PROVE  /\ channels' \in [Digests -> [Channels -> ChannelRow]]
           /\ \A e \in Digests, ch \in Channels : LeaseColumns(channels'[e][ch])
BY DEF TypeOK

LEMMA CloseOutstandingType ==
    ASSUME TypeOK, NEW d \in Digests, channels' = CloseOutstanding(d, "skipped")
    PROVE  /\ channels' \in [Digests -> [Channels -> ChannelRow]]
           /\ \A e \in Digests, ch \in Channels : LeaseColumns(channels'[e][ch])
<1> DEFINE f == [ch \in Channels |->
                    IF channels[d][ch].status \in {"pending", "leased"}
                    THEN Unleased(channels[d][ch], "skipped")
                    ELSE channels[d][ch]]
<1>1. f \in [Channels -> ChannelRow] /\ \A ch \in Channels : LeaseColumns(f[ch])
  BY ChannelRowUnleased DEF TypeOK
<1>2. channels' = [channels EXCEPT ![d] = f]
  BY DEF CloseOutstanding
<1> HIDE DEF f
<1> QED
  BY <1>1, <1>2, ChannelUpdateType

LEMMA ChannelNextType == ASSUME TypeOK, ChannelNext PROVE TypeOK'
<1> SUFFICES /\ channels' \in [Digests -> [Channels -> ChannelRow]]
             /\ \A e \in Digests, ch \in Channels : LeaseColumns(channels'[e][ch])
             /\ UNCHANGED <<now, interval, comments, members, parents>>
  BY DEF TypeOK
<1> PICK d \in Digests :
        \/ \E S \in SUBSET Channels, t \in CallTimes : EnsureNotificationOutboxChannels(d, S, t)
        \/ \E o \in Owners, t \in CallTimes : ClaimNotificationOutboxChannels(d, o, t)
        \/ \E o \in Owners, g \in Generations, t \in CallTimes :
                \/ SkipNotificationOutboxChannels(d, o, g, t)
                \/ \E ch \in Channels :
                    \/ AckNotificationOutboxChannel(d, ch, o, g, t)
                    \/ \E delay \in RetryDelays :
                        RetryNotificationOutboxChannel(d, ch, o, g, t + delay, t)
  BY DEF ChannelNext
<1>1. CASE \E S \in SUBSET Channels, t \in CallTimes : EnsureNotificationOutboxChannels(d, S, t)
  <2> PICK S \in SUBSET Channels, t \in CallTimes : EnsureNotificationOutboxChannels(d, S, t)
    BY <1>1
  <2> DEFINE row == [NoChannel EXCEPT !.status = "pending", !.availableAt = t]
  <2> DEFINE f == [ch \in Channels |->
                      IF ch \in S /\ channels[d][ch].status = "absent"
                      THEN row ELSE channels[d][ch]]
  <2>0. t \in Nat
    BY DEF CallTimes, Time
  <2>1. row \in ChannelRow /\ LeaseColumns(row)
    BY <2>0, ConstantsAssumption DEF NoChannel, ChannelRow, LeaseColumns
  <2> HIDE DEF row
  <2>2. f \in [Channels -> ChannelRow] /\ \A ch \in Channels : LeaseColumns(f[ch])
    BY <2>1 DEF TypeOK
  <2>3. channels' = [channels EXCEPT ![d] = f]
    BY DEF EnsureNotificationOutboxChannels, row
  <2> HIDE DEF f
  <2> QED
    BY <2>2, <2>3, ChannelUpdateType DEF EnsureNotificationOutboxChannels
<1>2. CASE \E o \in Owners, t \in CallTimes : ClaimNotificationOutboxChannels(d, o, t)
  <2> PICK o \in Owners, t \in CallTimes : ClaimNotificationOutboxChannels(d, o, t)
    BY <1>2
  <2> DEFINE f == [ch \in Channels |->
                      IF ch \in ClaimableChannels(d, t)
                      THEN Leased(channels[d][ch], o, t + ChildLease)
                      ELSE channels[d][ch]]
  <2>1. t + ChildLease \in Nat
    BY ConstantsAssumption DEF CallTimes, Time
  <2>2. f \in [Channels -> ChannelRow] /\ \A ch \in Channels : LeaseColumns(f[ch])
    BY <2>1, ChannelRowLeased DEF TypeOK
  <2>3. channels' = [channels EXCEPT ![d] = f]
    BY DEF ClaimNotificationOutboxChannels
  <2> HIDE DEF f
  <2> QED
    BY <2>2, <2>3, ChannelUpdateType DEF ClaimNotificationOutboxChannels
<1>3. CASE \E o \in Owners, g \in Generations, t \in CallTimes :
              SkipNotificationOutboxChannels(d, o, g, t)
  BY <1>3, CloseOutstandingType DEF SkipNotificationOutboxChannels
<1>4. CASE \E o \in Owners, g \in Generations, t \in CallTimes, ch \in Channels :
              AckNotificationOutboxChannel(d, ch, o, g, t)
  <2> PICK o \in Owners, g \in Generations, t \in CallTimes, ch \in Channels :
              AckNotificationOutboxChannel(d, ch, o, g, t)
    BY <1>4
  <2> DEFINE row == Unleased(channels[d][ch], "sent")
             f == [channels[d] EXCEPT ![ch] = row]
  <2>1. row \in ChannelRow /\ LeaseColumns(row)
    BY ChannelRowUnleased DEF TypeOK
  <2>2. channels' = [channels EXCEPT ![d] = f]
    BY DEF AckNotificationOutboxChannel
  <2> HIDE DEF row
  <2>3. f \in [Channels -> ChannelRow] /\ \A h \in Channels : LeaseColumns(f[h])
    BY <2>1 DEF TypeOK
  <2> HIDE DEF f
  <2> QED
    BY <2>2, <2>3, ChannelUpdateType DEF AckNotificationOutboxChannel
<1>5. CASE \E o \in Owners, g \in Generations, t \in CallTimes, ch \in Channels,
              delay \in RetryDelays :
              RetryNotificationOutboxChannel(d, ch, o, g, t + delay, t)
  <2> PICK o \in Owners, g \in Generations, t \in CallTimes, ch \in Channels,
           delay \in RetryDelays :
              RetryNotificationOutboxChannel(d, ch, o, g, t + delay, t)
    BY <1>5
  <2> DEFINE at == t + delay
             base == Unleased(channels[d][ch], "pending")
             row == [base EXCEPT !.availableAt = at]
             f == [channels[d] EXCEPT ![ch] = row]
  <2>1. at \in Nat
    BY ConstantsAssumption DEF CallTimes, Time
  <2>2. base \in ChannelRow /\ LeaseColumns(base)
    BY ChannelRowUnleased DEF TypeOK
  <2>3. channels' = [channels EXCEPT ![d] = f]
    BY DEF RetryNotificationOutboxChannel
  <2> HIDE DEF at, base
  <2>4. row \in ChannelRow /\ LeaseColumns(row)
    BY <2>1, <2>2 DEF ChannelRow, LeaseColumns
  <2> HIDE DEF row
  <2>5. f \in [Channels -> ChannelRow] /\ \A h \in Channels : LeaseColumns(f[h])
    BY <2>4 DEF TypeOK
  <2> HIDE DEF f
  <2> QED
    BY <2>3, <2>5, ChannelUpdateType DEF RetryNotificationOutboxChannel
<1> QED
  BY <1>1, <1>2, <1>3, <1>4, <1>5

\* What an operator's reconciliation writes.
LEMMA ReconcileType ==
    ASSUME TypeOK, NEW d \in Digests, NEW o, NEW g, NEW S \in SUBSET Comments, NEW t,
           ReconcileLegacySiteDigest(d, o, g, S, t)
    PROVE  TypeOK'
<1> DEFINE f == [ch \in Channels |->
                    IF channels[d][ch].status \in {"pending", "leased"}
                    THEN [Unleased(channels[d][ch], "pending") EXCEPT
                                !.availableAt = parents[d].availableAt]
                    ELSE channels[d][ch]]
           base == Unleased(parents[d], "pending")
           row == [base EXCEPT !.version = 1]
<1>1. base \in ParentRow /\ LeaseColumns(base)
  BY ParentRowUnleased DEF TypeOK
<1>2. parents' = [parents EXCEPT ![d] = row]
  BY DEF ReconcileLegacySiteDigest
<1>3. channels' = [channels EXCEPT ![d] = f]
  BY DEF ReconcileLegacySiteDigest
<1>4. ASSUME NEW ch \in Channels
      PROVE  f[ch] \in ChannelRow /\ LeaseColumns(f[ch])
  <2> DEFINE released == Unleased(channels[d][ch], "pending")
             at == parents[d].availableAt
  <2>1. released \in ChannelRow /\ LeaseColumns(released)
    BY ChannelRowUnleased DEF TypeOK
  <2>2. at \in Nat
    BY DEF TypeOK, ParentRow
  <2>3. f[ch] = [released EXCEPT !.availableAt = at] \/ f[ch] = channels[d][ch]
    OBVIOUS
  <2> HIDE DEF released, at, f
  <2>4. /\ [released EXCEPT !.availableAt = at] \in ChannelRow
        /\ LeaseColumns([released EXCEPT !.availableAt = at])
    BY <2>1, <2>2 DEF ChannelRow, LeaseColumns
  <2> QED
    BY <2>3, <2>4 DEF TypeOK
<1>5. f \in [Channels -> ChannelRow] /\ \A ch \in Channels : LeaseColumns(f[ch])
  BY <1>4
<1> HIDE DEF f, base
<1>6. row \in ParentRow /\ LeaseColumns(row)
  BY <1>1 DEF ParentRow, LeaseColumns
<1> HIDE DEF row
<1>7. /\ parents' \in [Digests -> ParentRow]
      /\ \A e \in Digests : LeaseColumns(parents'[e])
  BY <1>2, <1>6 DEF TypeOK
<1>8. /\ channels' \in [Digests -> [Channels -> ChannelRow]]
      /\ \A e \in Digests, ch \in Channels : LeaseColumns(channels'[e][ch])
  BY <1>3, <1>5, ChannelUpdateType
<1>9. members' \in [Digests -> SUBSET Comments]
  BY DEF TypeOK, ReconcileLegacySiteDigest
<1> QED
  BY <1>7, <1>8, <1>9 DEF TypeOK, ReconcileLegacySiteDigest

LEMMA LegacyNextType == ASSUME TypeOK, LegacyNext PROVE TypeOK'
<1> PICK d \in Digests, o \in Owners, t \in CallTimes :
        \/ ClaimLegacySiteDigest(d, o, t)
        \/ \E g \in Generations :
                \/ \E S \in SUBSET Comments : ReconcileLegacySiteDigest(d, o, g, S, t)
                \/ RetireLegacySiteDigest(d, o, g, t)
  BY DEF LegacyNext
<1>1. CASE ClaimLegacySiteDigest(d, o, t)
  <2> DEFINE row == Leased(parents[d], o, t + ParentLease)
  <2>1. t + ParentLease \in Nat
    BY ConstantsAssumption DEF CallTimes, Time
  <2>2. row \in ParentRow /\ LeaseColumns(row)
    BY <2>1, ParentRowLeased DEF TypeOK
  <2>3. parents' = [parents EXCEPT ![d] = row]
    BY <1>1 DEF ClaimLegacySiteDigest
  <2> HIDE DEF row
  <2>4. /\ parents' \in [Digests -> ParentRow]
        /\ \A e \in Digests : LeaseColumns(parents'[e])
    BY <2>2, <2>3 DEF TypeOK
  <2> QED
    BY <1>1, <2>4 DEF TypeOK, ClaimLegacySiteDigest
<1>2. CASE \E g \in Generations, S \in SUBSET Comments : ReconcileLegacySiteDigest(d, o, g, S, t)
  BY <1>2, ReconcileType
<1>3. CASE \E g \in Generations : RetireLegacySiteDigest(d, o, g, t)
  <2> DEFINE base == Unleased(parents[d], "sent")
             row == [base EXCEPT !.version = 1]
  <2>1. base \in ParentRow /\ LeaseColumns(base)
    BY ParentRowUnleased DEF TypeOK
  <2>2. parents' = [parents EXCEPT ![d] = row]
    BY <1>3 DEF RetireLegacySiteDigest
  <2> HIDE DEF base
  <2>3. row \in ParentRow /\ LeaseColumns(row)
    BY <2>1 DEF ParentRow, LeaseColumns
  <2> HIDE DEF row
  <2>4. /\ parents' \in [Digests -> ParentRow]
        /\ \A e \in Digests : LeaseColumns(parents'[e])
    BY <2>2, <2>3 DEF TypeOK
  <2>5. /\ channels' \in [Digests -> [Channels -> ChannelRow]]
        /\ \A e \in Digests, ch \in Channels : LeaseColumns(channels'[e][ch])
    BY <1>3, CloseOutstandingType DEF RetireLegacySiteDigest
  <2> QED
    BY <1>3, <2>4, <2>5 DEF TypeOK, RetireLegacySiteDigest
<1> QED
  BY <1>1, <1>2, <1>3

LEMMA NextTypeOK == TypeOK /\ [Next]_vars => TypeOK'
<1> SUFFICES ASSUME TypeOK, [Next]_vars PROVE TypeOK'
  OBVIOUS
<1>1. CASE Tick
  BY <1>1, ConstantsAssumption DEF TypeOK, Tick, Time
<1>2. CASE UNCHANGED vars
  BY <1>2 DEF TypeOK, vars
<1> QED
  BY <1>1, <1>2, CommentRowsType, ParentNextType, ChannelNextType, LegacyNextType DEF Next

\* Every reachable row is well typed and passes the CHECK constraints of the
\* schema, so no transition is ever aborted by one.
THEOREM TypeCorrect == Spec => []TypeOK
<1> QED
  BY InitTypeOK, NextTypeOK, PTL DEF Spec

-----------------------------------------------------------------------------
(* The inductive invariant *)

\* Only moderation takes a comment out of "pending".
UntouchedIsPending ==
    \A c \in Comments : Exists(c) /\ comments[c].untouched => comments[c].status = "pending"

\* No channel has been skipped while the digest may still take comments: a
\* worker skips channels only of a digest it has claimed, and a claimed digest
\* never becomes pending again.
NoSkipWhileOpen ==
    \A d \in Digests :
        parents[d].status \in {"absent", "pending"} \/ parents[d].version = 0 =>
            \A ch \in Channels : channels[d][ch].status # "skipped"

\* No channel is skipped while a member comment still waits for moderation.
NoSkipWithUntouched ==
    \A d \in Digests : (\E c \in members[d] : comments[c].untouched) =>
        \A ch \in Channels : channels[d][ch].status # "skipped"

IInv ==
    /\ TypeOK
    /\ FinalizedIsComplete
    /\ MembershipInWindow
    /\ UntouchedIsPending
    /\ NoSkipWhileOpen
    /\ NoSkipWithUntouched
    /\ NoSilentDrop

-----------------------------------------------------------------------------
(* What a step may do to one row *)

\* The steps that touch neither table of the outbox.
Quiet ==
    \/ Tick
    \/ UNCHANGED vars
    \/ \E i \in Intervals : UpdateSiteInterval(i)
    \/ DeleteSite
    \/ \E c \in Comments, s \in ModeratorStatuses : UpdateComment(c, s)
    \/ \E c \in Comments : DeleteComment(c)

\* The steps that write channel rows and nothing else, other than a skip.
ChannelWork(d) ==
    \/ \E S \in SUBSET Channels, t \in CallTimes : EnsureNotificationOutboxChannels(d, S, t)
    \/ \E o \in Owners, t \in CallTimes : ClaimNotificationOutboxChannels(d, o, t)
    \/ \E o \in Owners, g \in Generations, t \in CallTimes, ch \in Channels :
            AckNotificationOutboxChannel(d, ch, o, g, t)
    \/ \E o \in Owners, g \in Generations, t \in CallTimes, ch \in Channels,
          delay \in RetryDelays :
            RetryNotificationOutboxChannel(d, ch, o, g, t + delay, t)

LEMMA StepCases ==
    ASSUME [Next]_vars
    PROVE  \/ Quiet
           \/ \E c \in Comments, t \in CallTimes : CreatePendingComment(c, t)
           \/ \E o \in Owners, t \in CallTimes : ClaimNotificationOutbox(o, t)
           \/ \E d \in Digests, o \in Owners, g \in Generations, t \in CallTimes :
                    FinalizeClaimedSiteDigest(d, o, g, t)
           \/ \E d \in Digests : ChannelWork(d)
           \/ \E d \in Digests, o \in Owners, g \in Generations, t \in CallTimes :
                    SkipNotificationOutboxChannels(d, o, g, t)
           \/ \E d \in Digests, o \in Owners, t \in CallTimes : ClaimLegacySiteDigest(d, o, t)
           \/ \E d \in Digests, o \in Owners, g \in Generations, t \in CallTimes,
                 S \in SUBSET Comments : ReconcileLegacySiteDigest(d, o, g, S, t)
           \/ \E d \in Digests, o \in Owners, g \in Generations, t \in CallTimes :
                    RetireLegacySiteDigest(d, o, g, t)
<1>1. CASE Tick \/ UNCHANGED vars
  BY <1>1 DEF Quiet
<1>2. CASE CommentNext
  BY <1>2 DEF CommentNext, Quiet
<1>3. CASE ParentNext
  BY <1>3 DEF ParentNext
<1>4. CASE ChannelNext
  BY <1>4 DEF ChannelNext, ChannelWork
<1>5. CASE LegacyNext
  BY <1>5 DEF LegacyNext
<1> QED
  BY <1>1, <1>2, <1>3, <1>4, <1>5 DEF Next

LEMMA QuietFrame ==
    ASSUME TypeOK, Quiet
    PROVE  /\ parents' = parents /\ channels' = channels
           /\ \A d \in Digests : members'[d] \subseteq members[d]
           /\ \A d \in Digests : \A c \in members'[d] :
                /\ comments'[c].untouched => comments'[c] = comments[c]
                /\ Exists(c) => Exists(c)'
                /\ comments'[c].createdAt = comments[c].createdAt
<1>1. CASE Tick \/ UNCHANGED vars \/ (\E i \in Intervals : UpdateSiteInterval(i)) \/ DeleteSite
  BY <1>1 DEF Tick, vars, UpdateSiteInterval, DeleteSite, Exists
<1>2. CASE \E c \in Comments, s \in ModeratorStatuses : UpdateComment(c, s)
  <2> PICK x \in Comments, s \in ModeratorStatuses : UpdateComment(x, s)
    BY <1>2
  <2>1. comments' = [comments EXCEPT ![x] = [comments[x] EXCEPT !.status = s, !.untouched = FALSE]]
    BY DEF UpdateComment
  <2>2. s # "none" /\ s # "deleted"
    BY ConstantsAssumption
  <2>3. /\ comments'[x].status = s /\ comments'[x].untouched = FALSE
        /\ comments'[x].createdAt = comments[x].createdAt
    BY <2>1 DEF TypeOK, CommentRow
  <2>4. \A c \in Comments \ {x} : comments'[c] = comments[c]
    BY <2>1 DEF TypeOK
  <2>5. \A c \in Comments :
            /\ comments'[c].untouched => comments'[c] = comments[c]
            /\ Exists(c) => Exists(c)'
            /\ comments'[c].createdAt = comments[c].createdAt
    BY <2>2, <2>3, <2>4 DEF Exists
  <2> QED
    BY <2>5 DEF UpdateComment, TypeOK
<1>3. CASE \E c \in Comments : DeleteComment(c)
  <2> PICK x \in Comments : DeleteComment(x)
    BY <1>3
  <2>1. \A c \in Comments \ {x} : comments'[c] = comments[c]
    BY DEF DeleteComment, TypeOK
  <2>2. \A d \in Digests : members'[d] = members[d] \ {x}
    BY DEF DeleteComment
  <2> QED
    BY <2>1, <2>2 DEF DeleteComment, TypeOK, Exists
<1> QED
  BY <1>1, <1>2, <1>3 DEF Quiet

\* Channel work on d leaves every other table, the channels of every other
\* digest and every sent or skipped row alone; it skips no row, and it adds
\* none to a sent digest.
LEMMA ChannelWorkFrame ==
    ASSUME TypeOK, NEW d \in Digests, ChannelWork(d)
    PROVE  /\ UNCHANGED <<now, interval, comments, members, parents>>
           /\ \A e \in Digests \ {d} : channels'[e] = channels[e]
           /\ \A ch \in Channels :
                /\ channels[d][ch].status \in {"sent", "skipped"} =>
                        channels'[d][ch] = channels[d][ch]
                /\ channels'[d][ch].status = "skipped" => channels[d][ch].status = "skipped"
                /\ parents[d].status = "sent" /\ channels[d][ch].status = "absent" =>
                        channels'[d][ch] = channels[d][ch]
<1>1. CASE \E S \in SUBSET Channels, t \in CallTimes : EnsureNotificationOutboxChannels(d, S, t)
  <2> PICK S \in SUBSET Channels, t \in CallTimes : EnsureNotificationOutboxChannels(d, S, t)
    BY <1>1
  <2> DEFINE row == [NoChannel EXCEPT !.status = "pending", !.availableAt = t]
  <2>1. row.status = "pending"
    BY DEF NoChannel
  <2>2. channels' = [channels EXCEPT ![d] = [ch \in Channels |->
                        IF ch \in S /\ channels[d][ch].status = "absent"
                        THEN row ELSE channels[d][ch]]]
    BY DEF EnsureNotificationOutboxChannels
  <2> HIDE DEF row
  <2> QED
    BY <2>1, <2>2 DEF EnsureNotificationOutboxChannels, Mutable, TypeOK
<1>2. CASE \E o \in Owners, t \in CallTimes : ClaimNotificationOutboxChannels(d, o, t)
  <2> PICK o \in Owners, t \in CallTimes : ClaimNotificationOutboxChannels(d, o, t)
    BY <1>2
  <2> DEFINE row(ch) == Leased(channels[d][ch], o, t + ChildLease)
  <2>1. \A ch \in Channels : row(ch).status = "leased"
    BY ChannelRowLeased, ConstantsAssumption DEF TypeOK, CallTimes, Time
  <2>2. channels' = [channels EXCEPT ![d] = [ch \in Channels |->
                        IF ch \in ClaimableChannels(d, t) THEN row(ch) ELSE channels[d][ch]]]
    BY DEF ClaimNotificationOutboxChannels
  <2>3. \A ch \in ClaimableChannels(d, t) : channels[d][ch].status \in {"pending", "leased"}
    BY DEF ClaimableChannels, Claimable
  <2> HIDE DEF row
  <2> QED
    BY <2>1, <2>2, <2>3 DEF ClaimNotificationOutboxChannels, TypeOK
<1>3. CASE \E o \in Owners, g \in Generations, t \in CallTimes, ch \in Channels :
              AckNotificationOutboxChannel(d, ch, o, g, t)
  <2> PICK o \in Owners, g \in Generations, t \in CallTimes, x \in Channels :
              AckNotificationOutboxChannel(d, x, o, g, t)
    BY <1>3
  <2> DEFINE row == Unleased(channels[d][x], "sent")
  <2>1. row.status = "sent"
    BY ChannelRowUnleased DEF TypeOK
  <2>2. channels' = [channels EXCEPT ![d] = [channels[d] EXCEPT ![x] = row]]
    BY DEF AckNotificationOutboxChannel
  <2>3. channels[d][x].status = "leased"
    BY DEF AckNotificationOutboxChannel, Holds
  <2> HIDE DEF row
  <2> QED
    BY <2>1, <2>2, <2>3 DEF AckNotificationOutboxChannel, TypeOK
<1>4. CASE \E o \in Owners, g \in Generations, t \in CallTimes, ch \in Channels,
              delay \in RetryDelays :
              RetryNotificationOutboxChannel(d, ch, o, g, t + delay, t)
  <2> PICK o \in Owners, g \in Generations, t \in CallTimes, x \in Channels,
           delay \in RetryDelays :
              RetryNotificationOutboxChannel(d, x, o, g, t + delay, t)
    BY <1>4
  <2> DEFINE base == Unleased(channels[d][x], "pending")
             row == [base EXCEPT !.availableAt = t + delay]
  <2>1. base \in ChannelRow /\ base.status = "pending"
    BY ChannelRowUnleased DEF TypeOK
  <2>2. channels' = [channels EXCEPT ![d] = [channels[d] EXCEPT ![x] = row]]
    BY DEF RetryNotificationOutboxChannel
  <2>3. channels[d][x].status = "leased"
    BY DEF RetryNotificationOutboxChannel, Holds
  <2> HIDE DEF base
  <2>4. row.status = "pending"
    BY <2>1 DEF ChannelRow
  <2> HIDE DEF row
  <2>5. UNCHANGED <<now, interval, comments, members, parents>>
    BY DEF RetryNotificationOutboxChannel
  <2> QED
    BY <2>2, <2>3, <2>4, <2>5 DEF TypeOK
<1> QED
  BY <1>1, <1>2, <1>3, <1>4 DEF ChannelWork

LEMMA CreateFrame ==
    ASSUME TypeOK, NEW c \in Comments, NEW t \in Time, CreatePendingComment(c, t)
    PROVE  /\ SiteDigestKey(interval, t) \in Digests
           /\ comments[c].status = "none" /\ channels' = channels
           /\ comments'[c] = [status |-> "pending", createdAt |-> t, untouched |-> TRUE]
           /\ \A x \in Comments \ {c} : comments'[x] = comments[x]
           /\ \A e \in Digests :
                /\ members'[e] = IF e = SiteDigestKey(interval, t)
                                 THEN members[e] \cup {c} ELSE members[e]
                /\ \/ parents'[e] = parents[e]
                   \/ parents[e].status = "absent" /\ parents'[e].status = "pending"
                /\ e = SiteDigestKey(interval, t) =>
                        parents[e].status = "absent" \/ parents[e].status = "pending"
<1> DEFINE d == SiteDigestKey(interval, t)
           row == [NoParent EXCEPT !.status = "pending", !.version = 1,
                                   !.availableAt = WindowEnd(d)]
<1>1. d \in Digests
  BY KeyType DEF TypeOK, CreatePendingComment
<1>2. row.status = "pending"
  BY DEF NoParent
<1>3. \/ parents' = parents
      \/ parents[d].status = "absent" /\ parents' = [parents EXCEPT ![d] = row]
  BY DEF CreatePendingComment, EnsurePendingDigest
<1> HIDE DEF row
<1>4. ASSUME NEW e \in Digests
      PROVE  \/ parents'[e] = parents[e]
             \/ parents[e].status = "absent" /\ parents'[e].status = "pending"
  BY <1>1, <1>2, <1>3 DEF TypeOK
<1>5. parents[d].status = "absent" \/ parents[d].status = "pending"
  BY DEF CreatePendingComment, DigestAccepts
<1>6. ASSUME NEW e \in Digests
      PROVE  members'[e] = IF e = d THEN members[e] \cup {c} ELSE members[e]
  BY <1>1 DEF CreatePendingComment, TypeOK
<1> QED
  BY <1>1, <1>4, <1>5, <1>6 DEF CreatePendingComment, TypeOK

LEMMA CreateMembers ==
    ASSUME TypeOK, NEW c \in Comments, NEW t \in Time, CreatePendingComment(c, t)
    PROVE  \A e \in Digests : e # SiteDigestKey(interval, t) => members'[e] = members[e]
BY DEF CreatePendingComment, TypeOK

\* A claim of either kind only leases rows that were pending or leased.
LEMMA ClaimFrame ==
    ASSUME TypeOK,
           \/ \E o \in Owners, t \in CallTimes : ClaimNotificationOutbox(o, t)
           \/ \E d \in Digests, o \in Owners, t \in CallTimes : ClaimLegacySiteDigest(d, o, t)
    PROVE  /\ UNCHANGED <<now, interval, comments, members, channels>>
           /\ \A e \in Digests :
                \/ parents'[e] = parents[e]
                \/ /\ parents[e].status \in {"pending", "leased"}
                   /\ parents'[e].status = "leased"
                   /\ parents'[e].version = parents[e].version
<1>1. CASE \E o \in Owners, t \in CallTimes : ClaimNotificationOutbox(o, t)
  <2> PICK o \in Owners, t \in CallTimes : ClaimNotificationOutbox(o, t)
    BY <1>1
  <2> DEFINE row(d) == Leased(parents[d], o, t + ParentLease)
  <2>1. PICK S \in SUBSET Eligible(t) :
            parents' = [d \in Digests |-> IF d \in S THEN row(d) ELSE parents[d]]
    BY DEF ClaimNotificationOutbox
  <2>2. t + ParentLease \in Nat
    BY ConstantsAssumption DEF CallTimes, Time
  <2>3. \A d \in Digests : row(d).status = "leased" /\ row(d).version = parents[d].version
    BY <2>2, ParentRowLeased DEF TypeOK
  <2>4. \A d \in S : parents[d].status \in {"pending", "leased"}
    BY DEF Eligible, Claimable
  <2> HIDE DEF row
  <2> QED
    BY <2>1, <2>3, <2>4 DEF ClaimNotificationOutbox
<1>2. CASE \E d \in Digests, o \in Owners, t \in CallTimes : ClaimLegacySiteDigest(d, o, t)
  <2> PICK d \in Digests, o \in Owners, t \in CallTimes : ClaimLegacySiteDigest(d, o, t)
    BY <1>2
  <2> DEFINE row == Leased(parents[d], o, t + ParentLease)
  <2>1. t + ParentLease \in Nat
    BY ConstantsAssumption DEF CallTimes, Time
  <2>2. row.status = "leased" /\ row.version = parents[d].version
    BY <2>1, ParentRowLeased DEF TypeOK
  <2>3. parents' = [parents EXCEPT ![d] = row]
    BY DEF ClaimLegacySiteDigest
  <2>4. parents[d].status \in {"pending", "leased"}
    BY DEF ClaimLegacySiteDigest
  <2> HIDE DEF row
  <2> QED
    BY <2>2, <2>3, <2>4 DEF ClaimLegacySiteDigest, TypeOK
<1> QED
  BY <1>1, <1>2

LEMMA FinalizeFrame ==
    ASSUME TypeOK, NEW d \in Digests, NEW o, NEW g, NEW t,
           FinalizeClaimedSiteDigest(d, o, g, t)
    PROVE  /\ UNCHANGED <<now, interval, comments, members, channels>>
           /\ parents[d].status = "leased" /\ parents[d].version = 1
           /\ parents'[d].status = "sent" /\ parents'[d].version = 1
           /\ \A e \in Digests \ {d} : parents'[e] = parents[e]
<1> DEFINE row == Unleased(parents[d], "sent")
<1>1. row.status = "sent" /\ row.version = parents[d].version
  BY ParentRowUnleased DEF TypeOK
<1>2. parents' = [parents EXCEPT ![d] = row]
  BY DEF FinalizeClaimedSiteDigest
<1>3. parents[d].status = "leased" /\ parents[d].version = 1
  BY DEF FinalizeClaimedSiteDigest, Finalizable, Materializable, Loadable, ClaimedDigest, Holds
<1> HIDE DEF row
<1> QED
  BY <1>1, <1>2, <1>3 DEF FinalizeClaimedSiteDigest, TypeOK

\* Closing the outstanding rows of d leaves none.
LEMMA CloseOutstandingFrame ==
    ASSUME TypeOK, NEW d \in Digests, channels' = CloseOutstanding(d, "skipped")
    PROVE  /\ \A e \in Digests \ {d} : channels'[e] = channels[e]
           /\ \A ch \in Channels :
                /\ channels'[d][ch].status \in {"absent", "sent", "skipped"}
                /\ channels[d][ch].status \in {"sent", "skipped"} =>
                        channels'[d][ch] = channels[d][ch]
<1> DEFINE row(ch) == Unleased(channels[d][ch], "skipped")
<1>1. \A ch \in Channels : row(ch).status = "skipped"
  BY ChannelRowUnleased DEF TypeOK
<1>2. channels' = [channels EXCEPT ![d] = [ch \in Channels |->
                        IF channels[d][ch].status \in {"pending", "leased"}
                        THEN row(ch) ELSE channels[d][ch]]]
  BY DEF CloseOutstanding
<1> HIDE DEF row
<1>3. \A ch \in Channels :
        channels[d][ch].status \in {"absent", "pending", "leased", "sent", "skipped"}
  BY DEF TypeOK, ChannelRow
<1> QED
  BY <1>1, <1>2, <1>3 DEF TypeOK

LEMMA ReconcileFrame ==
    ASSUME TypeOK, NEW d \in Digests, NEW o, NEW g, NEW S \in SUBSET Comments, NEW t,
           ReconcileLegacySiteDigest(d, o, g, S, t)
    PROVE  /\ UNCHANGED <<now, interval, comments>>
           /\ parents[d].version = 0 /\ parents'[d].status = "pending"
           /\ members'[d] = S /\ \A c \in S : LegacyCommentValid(d, c)
           /\ \A e \in Digests \ {d} : /\ parents'[e] = parents[e]
                                       /\ channels'[e] = channels[e]
                                       /\ members'[e] = members[e]
           /\ \A ch \in Channels :
                \/ channels'[d][ch] = channels[d][ch]
                \/ /\ channels[d][ch].status \in {"pending", "leased"}
                   /\ channels'[d][ch].status = "pending"
<1> DEFINE base == Unleased(parents[d], "pending")
           row == [base EXCEPT !.version = 1]
           free(ch) == Unleased(channels[d][ch], "pending")
           again(ch) == [free(ch) EXCEPT !.availableAt = parents[d].availableAt]
<1>1. base \in ParentRow /\ base.status = "pending"
  BY ParentRowUnleased DEF TypeOK
<1>2. \A ch \in Channels : free(ch) \in ChannelRow /\ free(ch).status = "pending"
  BY ChannelRowUnleased DEF TypeOK
<1>3. parents' = [parents EXCEPT ![d] = row]
  BY DEF ReconcileLegacySiteDigest
<1>4. channels' = [channels EXCEPT ![d] = [ch \in Channels |->
                      IF channels[d][ch].status \in {"pending", "leased"}
                      THEN again(ch) ELSE channels[d][ch]]]
  BY DEF ReconcileLegacySiteDigest
<1> HIDE DEF base, free
<1>5. row.status = "pending"
  BY <1>1 DEF ParentRow
<1>6. \A ch \in Channels : again(ch).status = "pending"
  BY <1>2 DEF ChannelRow
<1> HIDE DEF row, again
<1>7. /\ UNCHANGED <<now, interval, comments>>
      /\ members' = [members EXCEPT ![d] = S]
      /\ parents[d].version = 0
      /\ \A c \in S : LegacyCommentValid(d, c)
  BY DEF ReconcileLegacySiteDigest, LegacyFence
<1> QED
  BY <1>3, <1>4, <1>5, <1>6, <1>7 DEF TypeOK

LEMMA RetireFrame ==
    ASSUME TypeOK, NEW d \in Digests, NEW o, NEW g, NEW t,
           RetireLegacySiteDigest(d, o, g, t)
    PROVE  /\ UNCHANGED <<now, interval, comments, members>>
           /\ channels' = CloseOutstanding(d, "skipped")
           /\ parents[d].version = 0 /\ members[d] = {}
           /\ parents'[d].status = "sent" /\ parents'[d].version = 1
           /\ \A e \in Digests \ {d} : parents'[e] = parents[e]
<1> DEFINE base == Unleased(parents[d], "sent")
           row == [base EXCEPT !.version = 1]
<1>1. base \in ParentRow /\ base.status = "sent"
  BY ParentRowUnleased DEF TypeOK
<1>2. parents' = [parents EXCEPT ![d] = row]
  BY DEF RetireLegacySiteDigest
<1> HIDE DEF base
<1>3. row.status = "sent" /\ row.version = 1
  BY <1>1 DEF ParentRow
<1> HIDE DEF row
<1>4. /\ UNCHANGED <<now, interval, comments, members>>
      /\ channels' = CloseOutstanding(d, "skipped")
      /\ parents[d].version = 0 /\ members[d] = {}
  BY DEF RetireLegacySiteDigest, LegacyFence
<1> QED
  BY <1>2, <1>3, <1>4 DEF TypeOK

-----------------------------------------------------------------------------
(* Each part of the invariant is preserved *)

LEMMA KeepFinalizedIsComplete ==
    ASSUME TypeOK, FinalizedIsComplete, [Next]_vars
    PROVE  FinalizedIsComplete'
<1> SUFFICES ASSUME NEW e \in Digests, Finalized(e)', NEW ch \in Channels
             PROVE  channels'[e][ch].status \in {"absent", "sent", "skipped"}
  BY DEF FinalizedIsComplete, Complete, Rows
<1>0. Finalized(e) => channels[e][ch].status \in {"absent", "sent", "skipped"}
  BY DEF FinalizedIsComplete, Complete, Rows, TypeOK, ChannelRow
<1>1. CASE Quiet
  BY <1>0, <1>1, QuietFrame DEF Finalized
<1>2. CASE \E c \in Comments, t \in CallTimes : CreatePendingComment(c, t)
  BY <1>0, <1>2, CreateFrame DEF Finalized, CallTimes
<1>3. CASE \/ \E o \in Owners, t \in CallTimes : ClaimNotificationOutbox(o, t)
           \/ \E d \in Digests, o \in Owners, t \in CallTimes : ClaimLegacySiteDigest(d, o, t)
  BY <1>0, <1>3, ClaimFrame DEF Finalized
<1>4. CASE \E d \in Digests, o \in Owners, g \in Generations, t \in CallTimes :
              FinalizeClaimedSiteDigest(d, o, g, t)
  <2> PICK d \in Digests, o \in Owners, g \in Generations, t \in CallTimes :
              FinalizeClaimedSiteDigest(d, o, g, t)
    BY <1>4
  <2>1. Complete(d)
    BY DEF FinalizeClaimedSiteDigest, Finalizable
  <2>2. e = d \/ Finalized(e)
    BY FinalizeFrame DEF Finalized
  <2> QED
    BY <1>0, <2>1, <2>2, FinalizeFrame DEF Complete, Rows, TypeOK, ChannelRow
<1>5. CASE \E d \in Digests : ChannelWork(d)
  <2> PICK d \in Digests : ChannelWork(d)
    BY <1>5
  <2>1. Finalized(e)
    BY ChannelWorkFrame DEF Finalized
  <2> QED
    BY <1>0, <2>1, ChannelWorkFrame DEF Finalized
<1>6. CASE \E d \in Digests, o \in Owners, g \in Generations, t \in CallTimes :
              SkipNotificationOutboxChannels(d, o, g, t)
  <2> PICK d \in Digests, o \in Owners, g \in Generations, t \in CallTimes :
              SkipNotificationOutboxChannels(d, o, g, t)
    BY <1>6
  <2>1. channels' = CloseOutstanding(d, "skipped") /\ parents' = parents
    BY DEF SkipNotificationOutboxChannels
  <2> QED
    BY <1>0, <2>1, CloseOutstandingFrame DEF Finalized
<1>7. CASE \E d \in Digests, o \in Owners, g \in Generations, t \in CallTimes,
              S \in SUBSET Comments : ReconcileLegacySiteDigest(d, o, g, S, t)
  <2> PICK d \in Digests, o \in Owners, g \in Generations, t \in CallTimes,
           S \in SUBSET Comments : ReconcileLegacySiteDigest(d, o, g, S, t)
    BY <1>7
  <2>1. e # d
    BY ReconcileFrame DEF Finalized
  <2> QED
    BY <1>0, <2>1, ReconcileFrame DEF Finalized
<1>8. CASE \E d \in Digests, o \in Owners, g \in Generations, t \in CallTimes :
              RetireLegacySiteDigest(d, o, g, t)
  BY <1>0, <1>8, RetireFrame, CloseOutstandingFrame DEF Finalized
<1> QED
  BY StepCases, <1>1, <1>2, <1>3, <1>4, <1>5, <1>6, <1>7, <1>8

LEMMA KeepMembershipInWindow ==
    ASSUME TypeOK, MembershipInWindow, [Next]_vars
    PROVE  MembershipInWindow'
<1> SUFFICES ASSUME NEW e \in Digests, NEW x \in members'[e]
             PROVE  /\ Exists(x)'
                    /\ SiteDigestKey(e[1], comments'[x].createdAt) = e
                    /\ \A f \in Digests : x \in members'[f] => f = e
  BY DEF MembershipInWindow
<1>0. x \in Comments
  BY NextTypeOK DEF TypeOK
<1>1. CASE Quiet
  BY <1>1, QuietFrame DEF MembershipInWindow
<1>2. CASE \E c \in Comments, t \in CallTimes : CreatePendingComment(c, t)
  <2> PICK c \in Comments, t \in CallTimes : CreatePendingComment(c, t)
    BY <1>2
  <2> DEFINE d == SiteDigestKey(interval, t)
  <2>0. t \in Time
    BY DEF CallTimes
  <2>1. d[1] = interval
    BY DEF SiteDigestKey
  <2>2. \A f \in Digests : c \notin members[f]
    BY <2>0, CreateFrame DEF MembershipInWindow, Exists
  <2>6. comments'[c] = [status |-> "pending", createdAt |-> t, untouched |-> TRUE]
    BY <2>0, CreateFrame
  <2>7. comments'[c].status = "pending" /\ comments'[c].createdAt = t
    BY <2>6
  <2>3. /\ \A y \in Comments \ {c} : comments'[y] = comments[y]
        /\ \A f \in Digests : members'[f] = IF f = d THEN members[f] \cup {c} ELSE members[f]
    <3>1. \A y \in Comments \ {c} : comments'[y] = comments[y]
      BY <2>0, CreateFrame
    <3>2. ASSUME NEW f \in Digests
          PROVE  members'[f] = IF f = d THEN members[f] \cup {c} ELSE members[f]
      <4>1. members'[f] = IF f = SiteDigestKey(interval, t)
                          THEN members[f] \cup {c} ELSE members[f]
        BY ZenonT(30), <2>0, <3>2, CreateFrame
      <4> QED
        BY <4>1
    <3> QED
      BY <3>1, <3>2
  <2>4. CASE x = c
    <3>1. e = d /\ d \in Digests
      BY <2>0, <2>2, <2>3, <2>4, CreateFrame
    <3>2. \A f \in Digests : x \in members'[f] => f = e
      BY <2>2, <2>3, <2>4, <3>1
    <3>3. SiteDigestKey(d[1], t) = d
      BY <2>1
    <3> QED
      BY <2>4, <2>7, <3>1, <3>2, <3>3 DEF Exists
  <2>5. CASE x # c
    <3>1. x \in members[e] /\ comments'[x] = comments[x]
      BY <1>0, <2>3, <2>5
    <3>2. \A f \in Digests : x \in members'[f] => x \in members[f]
      BY <2>3, <2>5
    <3> QED
      BY <3>1, <3>2 DEF MembershipInWindow, Exists
  <2> QED
    BY <2>4, <2>5
<1>3. CASE UNCHANGED <<comments, members>>
  BY <1>3 DEF MembershipInWindow, Exists
<1>4. CASE \E d \in Digests, o \in Owners, g \in Generations, t \in CallTimes,
              S \in SUBSET Comments : ReconcileLegacySiteDigest(d, o, g, S, t)
  <2> PICK d \in Digests, o \in Owners, g \in Generations, t \in CallTimes,
           S \in SUBSET Comments : ReconcileLegacySiteDigest(d, o, g, S, t)
    BY <1>4
  <2>1. /\ comments' = comments /\ members'[d] = S
        /\ \A f \in Digests \ {d} : members'[f] = members[f]
        /\ \A c \in S : LegacyCommentValid(d, c)
    BY DEF ReconcileLegacySiteDigest, TypeOK
  <2>2. \A c \in S : /\ Exists(c) /\ SiteDigestKey(d[1], comments[c].createdAt) = d
                     /\ \A f \in Digests : c \notin members[f]
    BY <2>1 DEF LegacyCommentValid, Exists, ValidStatuses
  <2>3. CASE x \in S
    <3>1. e = d
      BY <2>1, <2>2, <2>3
    <3> QED
      BY <2>1, <2>2, <2>3, <3>1 DEF Exists
  <2>4. CASE x \notin S
    <3>1. e # d /\ x \in members[e]
      BY <2>1, <2>4
    <3> QED
      BY <2>1, <2>4, <3>1 DEF MembershipInWindow, Exists
  <2> QED
    BY <2>3, <2>4
<1>5. CASE \/ \E o \in Owners, t \in CallTimes : ClaimNotificationOutbox(o, t)
           \/ \E d \in Digests, o \in Owners, t \in CallTimes : ClaimLegacySiteDigest(d, o, t)
  BY <1>3, <1>5, ClaimFrame
<1>6. CASE \E d \in Digests, o \in Owners, g \in Generations, t \in CallTimes :
              \/ FinalizeClaimedSiteDigest(d, o, g, t)
              \/ RetireLegacySiteDigest(d, o, g, t)
  BY <1>3, <1>6 DEF FinalizeClaimedSiteDigest, RetireLegacySiteDigest
<1>7. CASE \E d \in Digests : ChannelWork(d)
  BY <1>3, <1>7, ChannelWorkFrame
<1>8. CASE \E d \in Digests, o \in Owners, g \in Generations, t \in CallTimes :
              SkipNotificationOutboxChannels(d, o, g, t)
  BY <1>3, <1>8 DEF SkipNotificationOutboxChannels
<1> QED
  BY StepCases, <1>1, <1>2, <1>4, <1>5, <1>6, <1>7, <1>8

\* A step that leaves a comment untouched and in existence creates it pending
\* or leaves its row alone.
LEMMA KeepUntouchedIsPending ==
    ASSUME TypeOK, UntouchedIsPending, [Next]_vars
    PROVE  UntouchedIsPending'
<1> SUFFICES ASSUME NEW x \in Comments, Exists(x)', comments'[x].untouched
             PROVE  comments'[x].status = "pending"
  BY DEF UntouchedIsPending
<1>1. CASE comments'[x] = comments[x]
  BY <1>1 DEF UntouchedIsPending, Exists
<1>2. CASE \E c \in Comments, t \in CallTimes : CreatePendingComment(c, t)
  <2> PICK c \in Comments, t \in CallTimes : CreatePendingComment(c, t)
    BY <1>2
  <2>1. /\ comments'[c] = [status |-> "pending", createdAt |-> t, untouched |-> TRUE]
        /\ \A y \in Comments \ {c} : comments'[y] = comments[y]
    BY CreateFrame DEF CallTimes
  <2> QED
    BY <1>1, <2>1
<1>3. CASE Quiet
  <2>1. CASE \E c \in Comments, s \in ModeratorStatuses : UpdateComment(c, s)
    <3> PICK c \in Comments, s \in ModeratorStatuses : UpdateComment(c, s)
      BY <2>1
    <3>1. comments' = [comments EXCEPT ![c] = [comments[c] EXCEPT !.status = s, !.untouched = FALSE]]
      BY DEF UpdateComment
    <3>2. ~ comments'[c].untouched
      BY <3>1 DEF TypeOK, CommentRow
    <3> QED
      BY <1>1, <3>1, <3>2 DEF TypeOK
  <2>2. CASE \E c \in Comments : DeleteComment(c)
    <3> PICK c \in Comments : DeleteComment(c)
      BY <2>2
    <3>1. comments' = [comments EXCEPT ![c] = [comments[c] EXCEPT !.status = "deleted", !.untouched = FALSE]]
      BY DEF DeleteComment
    <3>2. ~ comments'[c].untouched
      BY <3>1 DEF TypeOK, CommentRow
    <3> QED
      BY <1>1, <3>1, <3>2 DEF TypeOK
  <2> QED
    BY <1>1, <1>3, <2>1, <2>2 DEF Quiet, Tick, vars, UpdateSiteInterval, DeleteSite
<1>4. CASE \/ \E o \in Owners, t \in CallTimes : ClaimNotificationOutbox(o, t)
           \/ \E d \in Digests, o \in Owners, t \in CallTimes : ClaimLegacySiteDigest(d, o, t)
  BY <1>1, <1>4, ClaimFrame
<1>5. CASE \E d \in Digests, o \in Owners, g \in Generations, t \in CallTimes :
              \/ FinalizeClaimedSiteDigest(d, o, g, t)
              \/ RetireLegacySiteDigest(d, o, g, t)
  BY <1>1, <1>5 DEF FinalizeClaimedSiteDigest, RetireLegacySiteDigest
<1>6. CASE \E d \in Digests : ChannelWork(d)
  BY <1>1, <1>6, ChannelWorkFrame
<1>7. CASE \E d \in Digests, o \in Owners, g \in Generations, t \in CallTimes :
              SkipNotificationOutboxChannels(d, o, g, t)
  BY <1>1, <1>7 DEF SkipNotificationOutboxChannels
<1>8. CASE \E d \in Digests, o \in Owners, g \in Generations, t \in CallTimes,
              S \in SUBSET Comments : ReconcileLegacySiteDigest(d, o, g, S, t)
  BY <1>1, <1>8, ReconcileFrame
<1> QED
  BY StepCases, <1>2, <1>3, <1>4, <1>5, <1>6, <1>7, <1>8

LEMMA KeepNoSkipWhileOpen ==
    ASSUME TypeOK, NoSkipWhileOpen, [Next]_vars
    PROVE  NoSkipWhileOpen'
<1> DEFINE Open(e) == parents[e].status \in {"absent", "pending"} \/ parents[e].version = 0
<1> SUFFICES ASSUME NEW e \in Digests, Open(e)', NEW ch \in Channels
             PROVE  channels'[e][ch].status # "skipped"
  BY DEF NoSkipWhileOpen
<1>0. Open(e) => channels[e][ch].status # "skipped"
  BY DEF NoSkipWhileOpen
<1>1. CASE Quiet
  BY <1>0, <1>1, QuietFrame
<1>2. CASE \E c \in Comments, t \in CallTimes : CreatePendingComment(c, t)
  <2>1. channels' = channels /\ (parents'[e] = parents[e] \/ parents[e].status = "absent")
    BY <1>2, CreateFrame DEF CallTimes
  <2> QED
    BY <1>0, <2>1
<1>3. CASE \/ \E o \in Owners, t \in CallTimes : ClaimNotificationOutbox(o, t)
           \/ \E d \in Digests, o \in Owners, t \in CallTimes : ClaimLegacySiteDigest(d, o, t)
  BY <1>0, <1>3, ClaimFrame
<1>4. CASE \E d \in Digests, o \in Owners, g \in Generations, t \in CallTimes :
              FinalizeClaimedSiteDigest(d, o, g, t)
  BY <1>0, <1>4, FinalizeFrame
<1>5. CASE \E d \in Digests : ChannelWork(d)
  BY <1>0, <1>5, ChannelWorkFrame
<1>6. CASE \E d \in Digests, o \in Owners, g \in Generations, t \in CallTimes :
              SkipNotificationOutboxChannels(d, o, g, t)
  <2> PICK d \in Digests, o \in Owners, g \in Generations, t \in CallTimes :
              SkipNotificationOutboxChannels(d, o, g, t)
    BY <1>6
  <2>1. /\ parents[d].status = "leased" /\ parents[d].version = 1 /\ parents' = parents
        /\ channels' = CloseOutstanding(d, "skipped")
    BY DEF SkipNotificationOutboxChannels, Skippable, Materializable, Loadable, ClaimedDigest, Holds
  <2> QED
    BY <1>0, <2>1, CloseOutstandingFrame
<1>7. CASE \E d \in Digests, o \in Owners, g \in Generations, t \in CallTimes,
              S \in SUBSET Comments : ReconcileLegacySiteDigest(d, o, g, S, t)
  <2> PICK d \in Digests, o \in Owners, g \in Generations, t \in CallTimes,
           S \in SUBSET Comments : ReconcileLegacySiteDigest(d, o, g, S, t)
    BY <1>7
  <2>1. CASE e = d
    <3>1. parents[d].version = 0
      BY ReconcileFrame
    <3>2. channels'[d][ch] = channels[d][ch] \/ channels'[d][ch].status = "pending"
      BY ReconcileFrame
    <3> QED
      BY <1>0, <2>1, <3>1, <3>2
  <2>2. CASE e # d
    <3>1. parents'[e] = parents[e] /\ channels'[e] = channels[e]
      BY <2>2, ReconcileFrame
    <3> QED
      BY <1>0, <3>1
  <2> QED
    BY <2>1, <2>2
<1>8. CASE \E d \in Digests, o \in Owners, g \in Generations, t \in CallTimes :
              RetireLegacySiteDigest(d, o, g, t)
  BY <1>0, <1>8, RetireFrame, CloseOutstandingFrame
<1> QED
  BY StepCases, <1>1, <1>2, <1>3, <1>4, <1>5, <1>6, <1>7, <1>8

LEMMA KeepNoSkipWithUntouched ==
    ASSUME TypeOK, UntouchedIsPending, MembershipInWindow, NoSkipWhileOpen,
           NoSkipWithUntouched, [Next]_vars
    PROVE  NoSkipWithUntouched'
<1> SUFFICES ASSUME NEW e \in Digests, NEW x \in members'[e], comments'[x].untouched,
                    NEW ch \in Channels
             PROVE  channels'[e][ch].status # "skipped"
  BY DEF NoSkipWithUntouched
<1>0. x \in members[e] /\ comments[x].untouched => channels[e][ch].status # "skipped"
  BY DEF NoSkipWithUntouched
<1>1. CASE Quiet
  <2>1. /\ channels' = channels /\ x \in members[e]
        /\ comments'[x].untouched => comments'[x] = comments[x]
    BY <1>1, QuietFrame
  <2> QED
    BY <1>0, <2>1
<1>2. CASE \E c \in Comments, t \in CallTimes : CreatePendingComment(c, t)
  <2> PICK c \in Comments, t \in CallTimes : CreatePendingComment(c, t)
    BY <1>2
  <2> DEFINE d == SiteDigestKey(interval, t)
  <2>0. t \in Time
    BY DEF CallTimes
  <2>6. channels' = channels /\ DigestAccepts(d)
    BY DEF CreatePendingComment
  <2>7. e # d => members'[e] = members[e]
    BY <2>0, CreateMembers
  <2>1. /\ channels' = channels
        /\ e # d => members'[e] = members[e]
        /\ e = d => parents[e].status = "absent" \/ parents[e].status = "pending"
    BY <2>6, <2>7 DEF DigestAccepts
  <2>2. \A y \in Comments \ {c} : comments'[y] = comments[y]
    BY CreateFrame DEF CallTimes
  <2>3. x \in Comments
    BY NextTypeOK DEF TypeOK
  <2>4. CASE e = d
    BY <2>1, <2>4 DEF NoSkipWhileOpen
  <2>5. CASE e # d
    <3>1. x \in members[e]
      BY <2>1, <2>5
    <3>2. x # c
      <4>1. comments[c].status = "none"
        BY CreateFrame DEF CallTimes
      <4> QED
        BY <3>1, <4>1 DEF MembershipInWindow, Exists
    <3> QED
      BY <1>0, <2>1, <2>2, <2>3, <3>1, <3>2
  <2> QED
    BY <2>4, <2>5
<1>3. CASE \/ \E o \in Owners, t \in CallTimes : ClaimNotificationOutbox(o, t)
           \/ \E d \in Digests, o \in Owners, t \in CallTimes : ClaimLegacySiteDigest(d, o, t)
  BY <1>0, <1>3, ClaimFrame
<1>4. CASE \E d \in Digests, o \in Owners, g \in Generations, t \in CallTimes :
              FinalizeClaimedSiteDigest(d, o, g, t)
  BY <1>0, <1>4, FinalizeFrame
<1>5. CASE \E d \in Digests : ChannelWork(d)
  BY <1>0, <1>5, ChannelWorkFrame
<1>6. CASE \E d \in Digests, o \in Owners, g \in Generations, t \in CallTimes :
              SkipNotificationOutboxChannels(d, o, g, t)
  <2> PICK d \in Digests, o \in Owners, g \in Generations, t \in CallTimes :
              SkipNotificationOutboxChannels(d, o, g, t)
    BY <1>6
  <2>1. /\ comments' = comments /\ members' = members /\ PendingMembers(d) = {}
        /\ channels' = CloseOutstanding(d, "skipped")
    BY DEF SkipNotificationOutboxChannels, Skippable
  <2>2. x \in members[e] /\ x \in Comments /\ Exists(x) /\ comments[x].untouched
    BY <2>1 DEF MembershipInWindow, TypeOK
  <2>3. comments[x].status = "pending"
    BY <2>2 DEF UntouchedIsPending
  <2>4. e # d
    BY <2>1, <2>2, <2>3 DEF PendingMembers
  <2> QED
    BY <1>0, <2>1, <2>2, <2>4, CloseOutstandingFrame
<1>7. CASE \E d \in Digests, o \in Owners, g \in Generations, t \in CallTimes,
              S \in SUBSET Comments : ReconcileLegacySiteDigest(d, o, g, S, t)
  <2> PICK d \in Digests, o \in Owners, g \in Generations, t \in CallTimes,
           S \in SUBSET Comments : ReconcileLegacySiteDigest(d, o, g, S, t)
    BY <1>7
  <2>1. CASE e = d
    <3>1. parents[d].version = 0
      BY ReconcileFrame
    <3>2. channels'[d][ch] = channels[d][ch] \/ channels'[d][ch].status = "pending"
      BY ReconcileFrame
    <3> QED
      BY <2>1, <3>1, <3>2 DEF NoSkipWhileOpen
  <2>2. CASE e # d
    <3>1. members'[e] = members[e] /\ channels'[e] = channels[e] /\ comments' = comments
      BY <2>2, ReconcileFrame
    <3> QED
      BY <1>0, <3>1
  <2> QED
    BY <2>1, <2>2
<1>8. CASE \E d \in Digests, o \in Owners, g \in Generations, t \in CallTimes :
              RetireLegacySiteDigest(d, o, g, t)
  <2> PICK d \in Digests, o \in Owners, g \in Generations, t \in CallTimes :
              RetireLegacySiteDigest(d, o, g, t)
    BY <1>8
  <2>1. /\ comments' = comments /\ members' = members /\ members[d] = {}
        /\ channels' = CloseOutstanding(d, "skipped")
    BY RetireFrame
  <2>2. e # d /\ x \in members[e]
    BY <2>1
  <2> QED
    BY <1>0, <2>1, <2>2, CloseOutstandingFrame
<1> QED
  BY StepCases, <1>1, <1>2, <1>3, <1>4, <1>5, <1>6, <1>7, <1>8

\* A digest with an untouched member is finalized only with a sent row.
LEMMA KeepNoSilentDrop ==
    ASSUME IInv, NoSkipWithUntouched', [Next]_vars
    PROVE  NoSilentDrop'
<1>9. /\ TypeOK /\ MembershipInWindow /\ UntouchedIsPending
      /\ NoSkipWithUntouched /\ NoSilentDrop
  BY DEF IInv
<1> USE <1>9
<1> SUFFICES ASSUME NEW e \in Digests, Finalized(e)', NEW x \in members'[e],
                    comments'[x].untouched
             PROVE  \E ch \in Channels : channels'[e][ch].status = "sent"
  BY DEF NoSilentDrop, NoSkipWithUntouched
<1>0. Finalized(e) /\ x \in members[e] /\ comments[x].untouched =>
          \E ch \in Channels : channels[e][ch].status = "sent"
  BY DEF NoSilentDrop
<1>1. CASE Quiet
  <2>1. /\ channels' = channels /\ parents' = parents /\ x \in members[e]
        /\ comments'[x].untouched => comments'[x] = comments[x]
    BY <1>1, QuietFrame
  <2> QED
    BY <1>0, <2>1 DEF Finalized
<1>2. CASE \E c \in Comments, t \in CallTimes : CreatePendingComment(c, t)
  <2> PICK c \in Comments, t \in CallTimes : CreatePendingComment(c, t)
    BY <1>2
  <2> DEFINE d == SiteDigestKey(interval, t)
  <2>0. t \in Time
    BY DEF CallTimes
  <2>6. channels' = channels /\ DigestAccepts(d)
    BY DEF CreatePendingComment
  <2>7. e # d => members'[e] = members[e]
    BY <2>0, CreateMembers
  <2>8. parents'[e] = parents[e] \/ parents'[e].status = "pending"
    BY <2>0, CreateFrame
  <2>1. /\ channels' = channels
        /\ e # d => members'[e] = members[e]
        /\ e = d => parents[e].status = "absent" \/ parents[e].status = "pending"
        /\ parents'[e] = parents[e] \/ parents'[e].status = "pending"
    BY <2>6, <2>7, <2>8 DEF DigestAccepts
  <2>2. parents'[e] = parents[e] /\ e # d
    BY <2>1 DEF Finalized
  <2>3. x \in members[e]
    BY <2>1, <2>2
  <2>4. x # c
    <3>1. comments[c].status = "none"
      BY CreateFrame DEF CallTimes
    <3> QED
      BY <2>3, <3>1 DEF MembershipInWindow, Exists
  <2>5. comments'[x] = comments[x]
    <3>1. x \in Comments
      BY <2>3 DEF TypeOK
    <3>2. \A y \in Comments \ {c} : comments'[y] = comments[y]
      BY <2>0, CreateFrame
    <3> QED
      BY <2>4, <3>1, <3>2
  <2> QED
    BY <1>0, <2>1, <2>2, <2>3, <2>5 DEF Finalized
<1>3. CASE \/ \E o \in Owners, t \in CallTimes : ClaimNotificationOutbox(o, t)
           \/ \E d \in Digests, o \in Owners, t \in CallTimes : ClaimLegacySiteDigest(d, o, t)
  BY <1>0, <1>3, ClaimFrame DEF Finalized
<1>4. CASE \E d \in Digests, o \in Owners, g \in Generations, t \in CallTimes :
              FinalizeClaimedSiteDigest(d, o, g, t)
  <2> PICK d \in Digests, o \in Owners, g \in Generations, t \in CallTimes :
              FinalizeClaimedSiteDigest(d, o, g, t)
    BY <1>4
  <2>1. UNCHANGED <<comments, members, channels>> /\ (e = d \/ parents'[e] = parents[e])
    BY FinalizeFrame
  <2>2. CASE e = d
    <3>1. x \in members[d] /\ x \in Comments /\ Exists(x) /\ comments[x].untouched
      BY <2>1, <2>2 DEF MembershipInWindow, TypeOK
    <3>2. x \in PendingMembers(d)
      BY <3>1 DEF UntouchedIsPending, PendingMembers
    <3>3. PICK ch \in Channels : ch \in Rows(d)
      BY <3>2 DEF FinalizeClaimedSiteDigest, Finalizable, Rows
    <3>4. channels[d][ch].status \in {"sent", "skipped"}
      BY <3>3 DEF FinalizeClaimedSiteDigest, Finalizable, Complete
    <3>5. channels[d][ch].status # "skipped"
      BY <3>1 DEF NoSkipWithUntouched
    <3> QED
      BY <2>1, <2>2, <3>4, <3>5
  <2>3. CASE e # d
    BY <1>0, <2>1, <2>3 DEF Finalized
  <2> QED
    BY <2>2, <2>3
<1>5. CASE \E d \in Digests : ChannelWork(d)
  <2> PICK d \in Digests : ChannelWork(d)
    BY <1>5
  <2>1. /\ UNCHANGED <<comments, members, parents>>
        /\ \A ch \in Channels :
              channels[e][ch].status = "sent" => channels'[e][ch] = channels[e][ch]
    BY ChannelWorkFrame
  <2> QED
    BY <1>0, <2>1 DEF Finalized
<1>6. CASE \E d \in Digests, o \in Owners, g \in Generations, t \in CallTimes :
              SkipNotificationOutboxChannels(d, o, g, t)
  <2> PICK d \in Digests, o \in Owners, g \in Generations, t \in CallTimes :
              SkipNotificationOutboxChannels(d, o, g, t)
    BY <1>6
  <2>1. UNCHANGED <<comments, members, parents>> /\ channels' = CloseOutstanding(d, "skipped")
    BY DEF SkipNotificationOutboxChannels
  <2>2. \A ch \in Channels :
            channels[e][ch].status = "sent" => channels'[e][ch] = channels[e][ch]
    BY <2>1, CloseOutstandingFrame
  <2> QED
    BY <1>0, <2>1, <2>2 DEF Finalized
<1>7. CASE \E d \in Digests, o \in Owners, g \in Generations, t \in CallTimes,
              S \in SUBSET Comments : ReconcileLegacySiteDigest(d, o, g, S, t)
  <2> PICK d \in Digests, o \in Owners, g \in Generations, t \in CallTimes,
           S \in SUBSET Comments : ReconcileLegacySiteDigest(d, o, g, S, t)
    BY <1>7
  <2>1. e # d
    BY ReconcileFrame DEF Finalized
  <2>2. /\ members'[e] = members[e] /\ channels'[e] = channels[e]
        /\ parents'[e] = parents[e] /\ comments' = comments
    BY <2>1, ReconcileFrame
  <2> QED
    BY <1>0, <2>2 DEF Finalized
<1>8. CASE \E d \in Digests, o \in Owners, g \in Generations, t \in CallTimes :
              RetireLegacySiteDigest(d, o, g, t)
  <2> PICK d \in Digests, o \in Owners, g \in Generations, t \in CallTimes :
              RetireLegacySiteDigest(d, o, g, t)
    BY <1>8
  <2>1. /\ comments' = comments /\ members' = members /\ members[d] = {}
        /\ channels' = CloseOutstanding(d, "skipped")
    BY RetireFrame
  <2>2. e # d
    BY <2>1
  <2>3. parents'[e] = parents[e] /\ channels'[e] = channels[e]
    BY <2>1, <2>2, RetireFrame, CloseOutstandingFrame
  <2> QED
    BY <1>0, <2>1, <2>3 DEF Finalized
<1> QED
  BY StepCases, <1>1, <1>2, <1>3, <1>4, <1>5, <1>6, <1>7, <1>8

-----------------------------------------------------------------------------
(* State invariants *)

LEMMA InitIInv == Init => IInv
<1> SUFFICES ASSUME Init PROVE IInv
  OBVIOUS
<1>1. TypeOK
  BY InitTypeOK
<1>2. \A d \in Digests : members[d] = {}
  BY DEF Init
<1>3. \A d \in Digests : parents[d].version = 0
  <2>1. PICK status \in [LegacyDigests -> {"pending", "sent"}] :
            parents = [d \in Digests |->
                IF d \in LegacyDigests THEN LegacyParent(d, status[d]) ELSE NoParent]
    BY DEF Init
  <2>2. \A d \in Digests : LegacyParent(d, status[d]).version = 0
    BY DEF LegacyParent, NoParent
  <2> QED
    BY <2>1, <2>2 DEF NoParent
<1>4. \A d \in Digests, ch \in Channels : channels[d][ch].status # "skipped"
  <2>1. PICK status \in [LegacyDigests \X Channels -> {"absent", "pending", "sent"}] :
            channels = [d \in Digests |-> [ch \in Channels |->
                IF d \in LegacyDigests
                THEN [NoChannel EXCEPT !.status = status[<<d, ch>>]]
                ELSE NoChannel]]
    BY DEF Init
  <2>2. ASSUME NEW s \in {"absent", "pending", "sent"}
        PROVE  [NoChannel EXCEPT !.status = s].status # "skipped"
    BY DEF NoChannel
  <2>3. \A d \in LegacyDigests, ch \in Channels :
            status[<<d, ch>>] \in {"absent", "pending", "sent"}
    BY <2>1
  <2>4. NoChannel.status # "skipped"
    BY DEF NoChannel
  <2> QED
    BY <2>1, <2>2, <2>3, <2>4
<1>5. UntouchedIsPending
  <2>1. \A c \in Comments : comments[c] = NoComment \/ comments[c].status = "pending"
    BY DEF Init, LegacyComment
  <2> QED
    BY <2>1 DEF UntouchedIsPending, Exists, NoComment
<1> QED
  BY <1>1, <1>2, <1>3, <1>4, <1>5 DEF IInv, FinalizedIsComplete, Finalized,
     MembershipInWindow, NoSkipWhileOpen, NoSkipWithUntouched, NoSilentDrop

LEMMA NextIInv == IInv /\ [Next]_vars => IInv'
<1> SUFFICES ASSUME IInv, [Next]_vars PROVE IInv'
  OBVIOUS
<1>1. TypeOK'
  BY NextTypeOK DEF IInv
<1>2. FinalizedIsComplete' /\ MembershipInWindow' /\ UntouchedIsPending' /\ NoSkipWhileOpen'
  BY KeepFinalizedIsComplete, KeepMembershipInWindow, KeepUntouchedIsPending,
     KeepNoSkipWhileOpen DEF IInv
<1>3. NoSkipWithUntouched'
  BY KeepNoSkipWithUntouched DEF IInv
<1>4. NoSilentDrop'
  BY <1>3, KeepNoSilentDrop
<1> QED
  BY <1>1, <1>2, <1>3, <1>4 DEF IInv

LEMMA Inductive == Spec => []IInv
<1> QED
  BY InitIInv, NextIInv, PTL DEF Spec

\* A finalized digest has no channel with work left
\* (FinalizeClaimedSiteDigest against EnsureNotificationOutboxChannels).
THEOREM FinalizedDigestsAreComplete == Spec => []FinalizedIsComplete
<1>1. IInv => FinalizedIsComplete
  BY DEF IInv
<1> QED
  BY <1>1, Inductive, PTL

\* A finalized digest was really sent to some channel, and skipped on none,
\* while one of its comments still waits for a moderator
\* (SkipNotificationOutboxChannels against CreatePendingComment).
THEOREM NoCommentIsSilentlyDropped == Spec => []NoSilentDrop
<1>1. IInv => NoSilentDrop
  BY DEF IInv
<1> QED
  BY <1>1, Inductive, PTL

\* A digest names only existing comments of its own window, each comment in
\* one digest (insertDigestMembershipTx, validateLegacyDigestCommentTx and
\* the delete trigger).
THEOREM MembersBelongToTheWindow == Spec => []MembershipInWindow
<1>1. IInv => MembershipInWindow
  BY DEF IInv
<1> QED
  BY <1>1, Inductive, PTL

-----------------------------------------------------------------------------
(* Action properties *)

LEMMA TerminalStep ==
    ASSUME TypeOK, FinalizedIsComplete, [Next]_vars, NEW e \in Digests
    PROVE  /\ Finalized(e) => parents'[e] = parents[e]
           /\ \A ch \in Channels :
                channels[e][ch].status \in {"sent", "skipped"} =>
                    channels'[e][ch] = channels[e][ch]
<1>1. CASE Quiet
  BY <1>1, QuietFrame
<1>2. CASE \E c \in Comments, t \in CallTimes : CreatePendingComment(c, t)
  <2>1. channels' = channels
    BY <1>2 DEF CreatePendingComment
  <2>2. parents'[e] = parents[e] \/ parents[e].status = "absent"
    BY <1>2, CreateFrame DEF CallTimes
  <2> QED
    BY <2>1, <2>2 DEF Finalized
<1>3. CASE \/ \E o \in Owners, t \in CallTimes : ClaimNotificationOutbox(o, t)
           \/ \E d \in Digests, o \in Owners, t \in CallTimes : ClaimLegacySiteDigest(d, o, t)
  BY <1>3, ClaimFrame DEF Finalized
<1>4. CASE \E d \in Digests, o \in Owners, g \in Generations, t \in CallTimes :
              FinalizeClaimedSiteDigest(d, o, g, t)
  BY <1>4, FinalizeFrame DEF Finalized
<1>5. CASE \E d \in Digests : ChannelWork(d)
  BY <1>5, ChannelWorkFrame
<1>6. CASE \E d \in Digests, o \in Owners, g \in Generations, t \in CallTimes :
              SkipNotificationOutboxChannels(d, o, g, t)
  <2> PICK d \in Digests, o \in Owners, g \in Generations, t \in CallTimes :
              SkipNotificationOutboxChannels(d, o, g, t)
    BY <1>6
  <2>1. parents' = parents /\ channels' = CloseOutstanding(d, "skipped")
    BY DEF SkipNotificationOutboxChannels
  <2> QED
    BY <2>1, CloseOutstandingFrame
<1>7. CASE \E d \in Digests, o \in Owners, g \in Generations, t \in CallTimes,
              S \in SUBSET Comments : ReconcileLegacySiteDigest(d, o, g, S, t)
  <2> PICK d \in Digests, o \in Owners, g \in Generations, t \in CallTimes,
           S \in SUBSET Comments : ReconcileLegacySiteDigest(d, o, g, S, t)
    BY <1>7
  <2>1. CASE e = d
    <3>1. parents[d].version = 0
      BY ReconcileFrame
    <3>2. ASSUME NEW ch \in Channels
          PROVE  \/ channels'[d][ch] = channels[d][ch]
                 \/ channels[d][ch].status \in {"pending", "leased"}
      BY ReconcileFrame
    <3> QED
      BY <2>1, <3>1, <3>2 DEF Finalized
  <2>2. CASE e # d
    <3>1. /\ d \in Digests /\ S \in SUBSET Comments
          /\ ReconcileLegacySiteDigest(d, o, g, S, t)
      OBVIOUS
    <3>2. \A f \in Digests \ {d} : /\ parents'[f] = parents[f]
                                    /\ channels'[f] = channels[f]
                                    /\ members'[f] = members[f]
      BY ONLY TypeOK, <3>1, ReconcileFrame
    <3> QED
      BY <2>2, <3>2
  <2> QED
    BY <2>1, <2>2
<1>8. CASE \E d \in Digests, o \in Owners, g \in Generations, t \in CallTimes :
              RetireLegacySiteDigest(d, o, g, t)
  BY <1>8, RetireFrame, CloseOutstandingFrame DEF Finalized
<1> QED
  BY StepCases, <1>1, <1>2, <1>3, <1>4, <1>5, <1>6, <1>7, <1>8

\* No transition takes a channel row out of "sent" or "skipped", or a
\* finalized digest out of "sent" (the status guards of every store operation
\* and the version fence of the legacy ones).
THEOREM TerminalRowsNeverChange == Spec => TerminalRowsStay
<1>1. IInv /\ [Next]_vars =>
        [\A d \in Digests :
            /\ Finalized(d) => parents'[d] = parents[d]
            /\ \A ch \in Channels :
                channels[d][ch].status \in {"sent", "skipped"} =>
                    channels'[d][ch] = channels[d][ch]]_vars
  BY TerminalStep DEF IInv
<1> QED
  BY <1>1, Inductive, PTL DEF Spec, TerminalRowsStay

LEMMA FrozenStep ==
    ASSUME TypeOK, [Next]_vars, NEW e \in Digests,
           parents[e].version = 1, parents[e].status \in {"leased", "sent"}
    PROVE  members'[e] \subseteq members[e]
<1>1. CASE Quiet
  BY <1>1, QuietFrame
<1>2. CASE \E c \in Comments, t \in CallTimes : CreatePendingComment(c, t)
  <2> PICK c \in Comments, t \in CallTimes : CreatePendingComment(c, t)
    BY <1>2
  <2>1. e # SiteDigestKey(interval, t)
    BY DEF CreatePendingComment, DigestAccepts
  <2> QED
    BY <2>1, CreateMembers DEF CallTimes
<1>3. CASE \E d \in Digests, o \in Owners, g \in Generations, t \in CallTimes,
              S \in SUBSET Comments : ReconcileLegacySiteDigest(d, o, g, S, t)
  <2> PICK d \in Digests, o \in Owners, g \in Generations, t \in CallTimes,
           S \in SUBSET Comments : ReconcileLegacySiteDigest(d, o, g, S, t)
    BY <1>3
  <2>1. parents[d].version = 0 /\ members' = [members EXCEPT ![d] = S]
    BY DEF ReconcileLegacySiteDigest, LegacyFence
  <2> QED
    BY <2>1 DEF TypeOK
<1>4. CASE \/ \E o \in Owners, t \in CallTimes : ClaimNotificationOutbox(o, t)
           \/ \E d \in Digests, o \in Owners, t \in CallTimes : ClaimLegacySiteDigest(d, o, t)
  BY <1>4, ClaimFrame
<1>5. CASE \E d \in Digests, o \in Owners, g \in Generations, t \in CallTimes :
              \/ FinalizeClaimedSiteDigest(d, o, g, t)
              \/ RetireLegacySiteDigest(d, o, g, t)
              \/ SkipNotificationOutboxChannels(d, o, g, t)
  BY <1>5 DEF FinalizeClaimedSiteDigest, RetireLegacySiteDigest, SkipNotificationOutboxChannels
<1>6. CASE \E d \in Digests : ChannelWork(d)
  BY <1>6, ChannelWorkFrame
<1> QED
  BY StepCases, <1>1, <1>2, <1>3, <1>4, <1>5, <1>6

\* Once a worker has claimed a digest no comment joins it
\* (ensurePendingDigestOutboxTx refuses, LegacyFence needs version 0).
THEOREM ClaimedMembershipIsFrozen == Spec => MembershipFrozen
<1>1. TypeOK /\ [Next]_vars =>
        [\A d \in Digests :
            (parents[d].version = 1 /\ parents[d].status \in {"leased", "sent"}) =>
                members'[d] \subseteq members[d]]_vars
  BY FrozenStep
<1> QED
  BY <1>1, TypeCorrect, PTL DEF Spec, MembershipFrozen

\* A row whose lease is live is not claimable at any time a caller may pass.
LEMMA LiveIsNotClaimable ==
    ASSUME NEW row, row.leaseUntil \in Nat, now \in Time, NEW t \in CallTimes,
           row.status = "leased", row.leaseUntil > now
    PROVE  ~ Claimable(row, t) /\ ~ (row.leaseUntil <= t)
BY ConstantsAssumption DEF Claimable, CallTimes, Time

LEMMA LiveParentStep ==
    ASSUME TypeOK, [Next]_vars, NEW e \in Digests
    PROVE  NotTakenOver(parents[e], parents'[e])
<1> SUFFICES ASSUME parents[e].status = "leased", parents[e].leaseUntil > now,
                    parents'[e].status = "leased"
             PROVE  parents'[e] = parents[e]
  BY DEF NotTakenOver
<1>0. parents[e].leaseUntil \in Nat /\ now \in Time
  BY DEF TypeOK, ParentRow
<1>1. CASE Quiet
  BY <1>1, QuietFrame
<1>2. CASE \E c \in Comments, t \in CallTimes : CreatePendingComment(c, t)
  BY <1>2, CreateFrame DEF CallTimes
<1>3. CASE \E o \in Owners, t \in CallTimes : ClaimNotificationOutbox(o, t)
  <2> PICK o \in Owners, t \in CallTimes : ClaimNotificationOutbox(o, t)
    BY <1>3
  <2> DEFINE row(d) == Leased(parents[d], o, t + ParentLease)
  <2>1. PICK S \in SUBSET Eligible(t) :
            parents' = [d \in Digests |-> IF d \in S THEN row(d) ELSE parents[d]]
    BY DEF ClaimNotificationOutbox
  <2>2. e \notin S
    BY <1>0, LiveIsNotClaimable DEF Eligible
  <2> HIDE DEF row
  <2> QED
    BY <2>1, <2>2
<1>4. CASE \E d \in Digests, o \in Owners, t \in CallTimes : ClaimLegacySiteDigest(d, o, t)
  <2> PICK d \in Digests, o \in Owners, t \in CallTimes : ClaimLegacySiteDigest(d, o, t)
    BY <1>4
  <2> DEFINE row == Leased(parents[d], o, t + ParentLease)
  <2>1. parents' = [parents EXCEPT ![d] = row]
    BY DEF ClaimLegacySiteDigest
  <2>2. parents[d].status = "pending" \/ parents[d].leaseUntil <= t
    BY DEF ClaimLegacySiteDigest
  <2>3. e # d
    BY <1>0, <2>2, LiveIsNotClaimable
  <2> HIDE DEF row
  <2> QED
    BY <2>1, <2>3 DEF TypeOK
<1>5. CASE \E d \in Digests, o \in Owners, g \in Generations, t \in CallTimes :
              FinalizeClaimedSiteDigest(d, o, g, t)
  BY <1>5, FinalizeFrame
<1>6. CASE \E d \in Digests : ChannelWork(d)
  BY <1>6, ChannelWorkFrame
<1>7. CASE \E d \in Digests, o \in Owners, g \in Generations, t \in CallTimes :
              SkipNotificationOutboxChannels(d, o, g, t)
  BY <1>7 DEF SkipNotificationOutboxChannels
<1>8. CASE \E d \in Digests, o \in Owners, g \in Generations, t \in CallTimes,
              S \in SUBSET Comments : ReconcileLegacySiteDigest(d, o, g, S, t)
  <2> PICK d \in Digests, o \in Owners, g \in Generations, t \in CallTimes,
           S \in SUBSET Comments : ReconcileLegacySiteDigest(d, o, g, S, t)
    BY <1>8
  <2>1. parents'[d].status = "pending"
    BY ReconcileFrame
  <2>2. e # d => parents'[e] = parents[e]
    BY ReconcileFrame
  <2> QED
    BY <2>1, <2>2
<1>9. CASE \E d \in Digests, o \in Owners, g \in Generations, t \in CallTimes :
              RetireLegacySiteDigest(d, o, g, t)
  BY <1>9, RetireFrame
<1> QED
  BY StepCases, <1>1, <1>2, <1>3, <1>4, <1>5, <1>6, <1>7, <1>8, <1>9

LEMMA LiveChannelStep ==
    ASSUME TypeOK, [Next]_vars, NEW e \in Digests, NEW x \in Channels
    PROVE  NotTakenOver(channels[e][x], channels'[e][x])
<1> SUFFICES ASSUME channels[e][x].status = "leased", channels[e][x].leaseUntil > now,
                    channels'[e][x].status = "leased"
             PROVE  channels'[e][x] = channels[e][x]
  BY DEF NotTakenOver
<1>0. channels[e][x].leaseUntil \in Nat /\ now \in Time
  BY DEF TypeOK, ChannelRow
<1>1. CASE Quiet
  BY <1>1, QuietFrame
<1>2. CASE UNCHANGED channels
  BY <1>2
<1>3. CASE \E d \in Digests : ChannelWork(d)
  <2> PICK d \in Digests : ChannelWork(d)
    BY <1>3
  <2>1. e # d => channels'[e] = channels[e]
    BY ChannelWorkFrame
  <2>2. CASE \E S \in SUBSET Channels, t \in CallTimes : EnsureNotificationOutboxChannels(d, S, t)
    <3> PICK S \in SUBSET Channels, t \in CallTimes : EnsureNotificationOutboxChannels(d, S, t)
      BY <2>2
    <3> DEFINE row == [NoChannel EXCEPT !.status = "pending", !.availableAt = t]
    <3>1. channels' = [channels EXCEPT ![d] = [ch \in Channels |->
                          IF ch \in S /\ channels[d][ch].status = "absent"
                          THEN row ELSE channels[d][ch]]]
      BY DEF EnsureNotificationOutboxChannels
    <3> HIDE DEF row
    <3> QED
      BY <2>1, <3>1 DEF TypeOK
  <2>3. CASE \E o \in Owners, t \in CallTimes : ClaimNotificationOutboxChannels(d, o, t)
    <3> PICK o \in Owners, t \in CallTimes : ClaimNotificationOutboxChannels(d, o, t)
      BY <2>3
    <3> DEFINE row(ch) == Leased(channels[d][ch], o, t + ChildLease)
    <3>1. channels' = [channels EXCEPT ![d] = [ch \in Channels |->
                          IF ch \in ClaimableChannels(d, t) THEN row(ch) ELSE channels[d][ch]]]
      BY DEF ClaimNotificationOutboxChannels
    <3>2. x \notin ClaimableChannels(e, t)
      BY <1>0, LiveIsNotClaimable DEF ClaimableChannels
    <3> HIDE DEF row
    <3> QED
      BY <2>1, <3>1, <3>2 DEF TypeOK
  <2>4. CASE \E o \in Owners, g \in Generations, t \in CallTimes, ch \in Channels :
                AckNotificationOutboxChannel(d, ch, o, g, t)
    <3> PICK o \in Owners, g \in Generations, t \in CallTimes, ch \in Channels :
                AckNotificationOutboxChannel(d, ch, o, g, t)
      BY <2>4
    <3> DEFINE row == Unleased(channels[d][ch], "sent")
    <3>1. row.status = "sent"
      BY ChannelRowUnleased DEF TypeOK
    <3>2. channels' = [channels EXCEPT ![d] = [channels[d] EXCEPT ![ch] = row]]
      BY DEF AckNotificationOutboxChannel
    <3> HIDE DEF row
    <3> QED
      BY <2>1, <3>1, <3>2 DEF TypeOK
  <2>5. CASE \E o \in Owners, g \in Generations, t \in CallTimes, ch \in Channels,
                delay \in RetryDelays :
                RetryNotificationOutboxChannel(d, ch, o, g, t + delay, t)
    <3> PICK o \in Owners, g \in Generations, t \in CallTimes, ch \in Channels,
             delay \in RetryDelays :
                RetryNotificationOutboxChannel(d, ch, o, g, t + delay, t)
      BY <2>5
    <3> DEFINE base == Unleased(channels[d][ch], "pending")
               row == [base EXCEPT !.availableAt = t + delay]
    <3>1. base \in ChannelRow /\ base.status = "pending"
      BY ChannelRowUnleased DEF TypeOK
    <3>2. channels' = [channels EXCEPT ![d] = [channels[d] EXCEPT ![ch] = row]]
      BY DEF RetryNotificationOutboxChannel
    <3> HIDE DEF base
    <3>3. row.status = "pending"
      BY <3>1 DEF ChannelRow
    <3> HIDE DEF row
    <3> QED
      BY <2>1, <3>2, <3>3 DEF TypeOK
  <2> QED
    BY <2>2, <2>3, <2>4, <2>5 DEF ChannelWork
<1>4. CASE \E d \in Digests, o \in Owners, g \in Generations, t \in CallTimes :
              \/ SkipNotificationOutboxChannels(d, o, g, t)
              \/ RetireLegacySiteDigest(d, o, g, t)
  <2> PICK d \in Digests : channels' = CloseOutstanding(d, "skipped")
    BY <1>4 DEF SkipNotificationOutboxChannels, RetireLegacySiteDigest
  <2> QED
    BY CloseOutstandingFrame
<1>5. CASE \E d \in Digests, o \in Owners, g \in Generations, t \in CallTimes,
              S \in SUBSET Comments : ReconcileLegacySiteDigest(d, o, g, S, t)
  <2> PICK d \in Digests, o \in Owners, g \in Generations, t \in CallTimes,
           S \in SUBSET Comments : ReconcileLegacySiteDigest(d, o, g, S, t)
    BY <1>5
  <2>1. channels'[d][x] = channels[d][x] \/ channels'[d][x].status = "pending"
    BY ReconcileFrame
  <2>2. e # d => channels'[e] = channels[e]
    BY ReconcileFrame
  <2> QED
    BY <2>1, <2>2
<1>6. CASE \E c \in Comments, t \in CallTimes : CreatePendingComment(c, t)
  BY <1>2, <1>6 DEF CreatePendingComment
<1>7. CASE \/ \E o \in Owners, t \in CallTimes : ClaimNotificationOutbox(o, t)
           \/ \E d \in Digests, o \in Owners, t \in CallTimes : ClaimLegacySiteDigest(d, o, t)
  BY <1>2, <1>7, ClaimFrame
<1>8. CASE \E d \in Digests, o \in Owners, g \in Generations, t \in CallTimes :
              FinalizeClaimedSiteDigest(d, o, g, t)
  BY <1>2, <1>8 DEF FinalizeClaimedSiteDigest
<1> QED
  BY StepCases, <1>1, <1>3, <1>4, <1>5, <1>6, <1>7, <1>8

\* No caller leases a digest or a channel whose lease has not expired on the
\* clock, however old the timestamp it passes (the claims' SQL predicate).
THEOREM LiveLeasesAreKept == Spec => LiveLeaseKept
<1>1. TypeOK /\ [Next]_vars =>
        [\A d \in Digests :
            /\ NotTakenOver(parents[d], parents'[d])
            /\ \A ch \in Channels :
                    NotTakenOver(channels[d][ch], channels'[d][ch])]_vars
  BY LiveParentStep, LiveChannelStep
<1> QED
  BY <1>1, TypeCorrect, PTL DEF Spec, LiveLeaseKept

-----------------------------------------------------------------------------
(* II. THE WORKER IMPLEMENTS THE OUTBOX *)

\* A claim that a claim operation returned at time t or earlier.
SoundClaim(claim, t) ==
    /\ claim \in Claims
    /\ claim.generation \in Generations
    /\ claim.until <= t + ParentLease

Delivering ==
    {"materialize", "skip", "list", "ensure", "children", "tokens", "send",
     "sending", "ack", "retry", "relist", "finalize"}

WithChild == {"sending", "ack", "retry"}

\* The arguments that a pass p holds at time t.
Sound(p, t) ==
    /\ p.opened <= t /\ p.at <= t
    /\ \A claim \in p.held : SoundClaim(claim, t)
    /\ p.pc \in Delivering => p.opened <= p.at /\ SoundClaim(p.parent, p.at)
    /\ \A child \in p.children : child[2] \in Generations
    /\ p.pc \in WithChild => p.child \in Channels \X Generations

ArgumentsSound ==
    /\ TypeOK
    /\ pass \in [Owners -> Pass]
    /\ \A o \in Owners : Sound(pass[o], now)

-----------------------------------------------------------------------------
(* Calls *)

\* What a pass before its deadline read from the clock is recent.
LEMMA ReadTime ==
    ASSUME ArgumentsSound, NEW o \in Owners, NEW pc, At(o, pc),
           NEW t \in pass[o].opened .. now
    PROVE  t \in CallTimes
<1> DEFINE opened == pass[o].opened
<1>1. opened \in Time /\ now \in Time
  BY DEF ArgumentsSound, TypeOK, Pass
<1>2. now < opened + TenantTimeout
  BY DEF At, Deadline
<1>3. opened \in Nat /\ now \in Nat /\ now <= MaxTime
  BY <1>1, ConstantsAssumption DEF Time
<1>4. MaxTime \in Nat /\ MaxStale \in Nat /\ TenantTimeout \in Nat /\ MaxStale >= TenantTimeout
  BY ConstantsAssumption, DeliveryAssumption
<1>5. t \in Nat /\ opened <= t /\ t <= now
  BY <1>3
<1> HIDE DEF opened
<1>6. t \in 0..MaxTime /\ t <= now /\ now <= t + MaxStale
  BY <1>2, <1>3, <1>4, <1>5
<1> QED
  BY <1>6 DEF CallTimes, Time

\* So is the captured time of a pass that delivers.
LEMMA CapturedTime ==
    ASSUME ArgumentsSound, NEW o \in Owners, NEW pc \in Delivering, At(o, pc)
    PROVE  /\ pass[o].at \in CallTimes
           /\ pass[o].opened \in Nat /\ pass[o].at \in Nat
           /\ pass[o].opened <= pass[o].at /\ pass[o].at <= now
<1>1. pass[o] \in Pass /\ Sound(pass[o], now) /\ pass[o].pc \in Delivering /\ now \in Nat
  BY ConstantsAssumption DEF ArgumentsSound, At, TypeOK, Time
<1>2. /\ pass[o].at \in Nat /\ pass[o].opened \in Nat
      /\ pass[o].opened <= pass[o].at /\ pass[o].at <= now
  BY <1>1, ConstantsAssumption DEF Pass, Sound, Time
<1>3. pass[o].at \in pass[o].opened .. now
  BY <1>1, <1>2
<1> QED
  BY <1>2, <1>3, ReadTime

LEMMA CurrentTime == ASSUME TypeOK PROVE now \in CallTimes
<1>1. now \in Time /\ now \in Nat /\ MaxStale \in Nat
  BY ConstantsAssumption DEF TypeOK, Time
<1> QED
  BY <1>1 DEF CallTimes

\* The claim under which a pass works.
LEMMA HeldClaim ==
    ASSUME ArgumentsSound, NEW o \in Owners, NEW pc \in Delivering, At(o, pc)
    PROVE  /\ Digest(o) \in Digests
           /\ Generation(o) \in Generations
           /\ pass[o].parent.until \in Nat
           /\ pass[o].parent.until <= pass[o].at + ParentLease
<1>1. SoundClaim(pass[o].parent, pass[o].at)
  BY DEF ArgumentsSound, Sound, At
<1> QED
  BY <1>1 DEF SoundClaim, Claims, Digest, Generation

LEMMA HeldChild ==
    ASSUME ArgumentsSound, NEW o \in Owners, NEW pc \in WithChild, At(o, pc)
    PROVE  Channel(o) \in Channels /\ ChannelGeneration(o) \in Generations
<1>1. pass[o].child \in Channels \X Generations
  BY DEF ArgumentsSound, Sound, At
<1> QED
  BY <1>1 DEF Channel, ChannelGeneration

\* A failed channel is put back within the delays an outbox caller may use.
LEMMA RetryDelayIsAllowed ==
    ASSUME ArgumentsSound, NEW o \in Owners, At(o, "retry")
    PROVE  \E delay \in RetryDelays : RetryAt(o) = pass[o].at + delay
<1> DEFINE until == pass[o].parent.until
           at == pass[o].at
           delay == RetryAt(o) - at
<1>1. until \in Nat /\ until <= at + ParentLease
  BY HeldClaim DEF Delivering
<1>2. at \in Nat /\ ParentLease \in Nat /\ RetryDelay \in Nat \ {0}
  BY CapturedTime, ConstantsAssumption, DeliveryAssumption DEF Delivering
<1>3. RetryAt(o) = IF until > at + RetryDelay THEN until ELSE at + RetryDelay
  BY DEF RetryAt
<1>4. delay \in 1..(RetryDelay + ParentLease) /\ RetryAt(o) = at + delay
  <2>1. CASE until > at + RetryDelay
    BY <1>1, <1>2, <1>3, <2>1
  <2>2. CASE ~ (until > at + RetryDelay)
    BY <1>1, <1>2, <1>3, <2>2
  <2> QED
    BY <2>1, <2>2
<1> QED
  BY <1>4, DeliveryAssumption

-----------------------------------------------------------------------------
(* Every step of the worker is a step of the outbox *)

\* A retry after an allowed delay.
LEMMA RetryStep ==
    ASSUME NEW d \in Digests, NEW o \in Owners, NEW g \in Generations,
           NEW t \in CallTimes, NEW ch \in Channels, NEW delay \in RetryDelays,
           RetryNotificationOutboxChannel(d, ch, o, g, t + delay, t)
    PROVE  Next
BY DEF Next, ChannelNext

LEMMA OutsideStep == ASSUME ArgumentsSound, Outside PROVE Next
<1>1. now \in CallTimes
  BY CurrentTime DEF ArgumentsSound
<1> QED
  BY <1>1 DEF Outside, ModeratorStep, Next, CommentNext

LEMMA PassStepIsStoreStep ==
    ASSUME ArgumentsSound, NEW o \in Owners, PassStep(o)
    PROVE  Next \/ UNCHANGED store
<1>1. CASE ClaimParents(o)
  BY <1>1, ReadTime DEF ClaimParents, Next, ParentNext
<1>2. CASE NextParent(o) \/ StartSend(o) \/ NoMoreChildren(o) \/ SendSucceeds(o)
  BY <1>2 DEF NextParent, StartSend, NoMoreChildren, SendSucceeds
<1>3. CASE MaterializeParent(o) \/ ListChildren(o) \/ EnsureTokens(o) \/ Relist(o)
  BY <1>3 DEF MaterializeParent, ListChildren, EnsureTokens, Relist, LeaveLeased
<1>4. CASE SkipChildren(o)
  <2>1. At(o, "skip") /\ "skip" \in Delivering
    BY <1>4 DEF SkipChildren, Delivering
  <2>2. pass[o].at \in CallTimes /\ Digest(o) \in Digests /\ Generation(o) \in Generations
    BY <2>1, CapturedTime, HeldClaim
  <2> QED
    BY <1>4, <2>2 DEF SkipChildren, LeaveLeased, Next, ChannelNext
<1>5. CASE EnsureChildren(o)
  <2>1. At(o, "ensure") /\ "ensure" \in Delivering
    BY <1>5 DEF EnsureChildren, Delivering
  <2>2. Digest(o) \in Digests
    BY <2>1, HeldClaim
  <2>3. pass[o].config \in SUBSET Channels
    BY DEF ArgumentsSound, Pass
  <2>4. CASE UNCHANGED store
    BY <2>4
  <2>5. CASE \E t \in (pass[o].at + 1) .. now :
                EnsureNotificationOutboxChannels(Digest(o), pass[o].config, t)
    <3> PICK t \in (pass[o].at + 1) .. now :
                EnsureNotificationOutboxChannels(Digest(o), pass[o].config, t)
      BY <2>5
    <3>1. /\ pass[o].opened \in Nat /\ pass[o].at \in Nat /\ now \in Nat
          /\ pass[o].opened <= pass[o].at
      BY <2>1, CapturedTime, ConstantsAssumption DEF ArgumentsSound, TypeOK, Time
    <3>2. t \in pass[o].opened .. now
      BY <3>1
    <3>3. t \in CallTimes
      BY <2>1, <3>2, ReadTime
    <3> QED
      BY <2>2, <2>3, <3>3 DEF Next, ChannelNext
  <2> QED
    BY <1>5, <2>4, <2>5 DEF EnsureChildren, LeaveLeased
<1>6. CASE ClaimChildren(o)
  <2>1. At(o, "children") /\ "children" \in Delivering
    BY <1>6 DEF ClaimChildren, Delivering
  <2>2. pass[o].at \in CallTimes /\ Digest(o) \in Digests
    BY <2>1, CapturedTime, HeldClaim
  <2> QED
    BY <1>6, <2>2 DEF ClaimChildren, LeaveLeased, Next, ChannelNext
<1>7. CASE AckChild(o)
  <2>1. At(o, "ack") /\ "ack" \in Delivering /\ "ack" \in WithChild
    BY <1>7 DEF AckChild, Delivering, WithChild
  <2>2. Digest(o) \in Digests /\ Channel(o) \in Channels /\ ChannelGeneration(o) \in Generations
    BY <2>1, HeldClaim, HeldChild
  <2>3. pass[o].at \in CallTimes
    BY <2>1, CapturedTime
  <2> QED
    BY <1>7, <2>2, <2>3 DEF AckChild, Next, ChannelNext
<1>8. CASE RetryChild(o)
  <2>1. At(o, "retry") /\ "retry" \in Delivering /\ "retry" \in WithChild
    BY <1>8 DEF RetryChild, Delivering, WithChild
  <2>2. Digest(o) \in Digests /\ Channel(o) \in Channels /\ ChannelGeneration(o) \in Generations
    BY <2>1, HeldClaim, HeldChild
  <2>3. PICK delay \in RetryDelays : RetryAt(o) = pass[o].at + delay
    BY <2>1, RetryDelayIsAllowed
  <2>4. CASE UNCHANGED store
    BY <2>4
  <2>5. CASE RetryNotificationOutboxChannel(Digest(o), Channel(o), o, ChannelGeneration(o),
                                            RetryAt(o), pass[o].at)
    <3>1. pass[o].at \in CallTimes
      BY <2>1, CapturedTime
    <3> QED
      BY <2>5, <2>2, <2>3, <3>1, RetryStep
  <2> QED
    BY <1>8, <2>4, <2>5 DEF RetryChild
<1>9. CASE FinalizeParent(o)
  <2>1. At(o, "finalize") /\ "finalize" \in Delivering
    BY <1>9 DEF FinalizeParent, Delivering
  <2>2. pass[o].at \in CallTimes /\ Digest(o) \in Digests /\ Generation(o) \in Generations
    BY <2>1, CapturedTime, HeldClaim
  <2> QED
    BY <1>9, <2>2 DEF FinalizeParent, LeaveLeased, Next, ParentNext
<1> QED
  BY <1>1, <1>2, <1>3, <1>4, <1>5, <1>6, <1>7, <1>8, <1>9 DEF PassStep

LEMMA FailureIsStoreStep ==
    ASSUME ArgumentsSound, NEW o \in Owners, Failure(o)
    PROVE  Next \/ UNCHANGED store
<1>1. CASE SendFails(o) \/ StoreCallFails(o) \/ Abandon(o)
  BY <1>1 DEF SendFails, StoreCallFails, Abandon
<1>2. CASE AckAnswerLost(o)
  <2>1. At(o, "ack") /\ "ack" \in Delivering /\ "ack" \in WithChild
    BY <1>2 DEF AckAnswerLost, Delivering, WithChild
  <2>2. Digest(o) \in Digests /\ Channel(o) \in Channels /\ ChannelGeneration(o) \in Generations
    BY <2>1, HeldClaim, HeldChild
  <2>3. pass[o].at \in CallTimes
    BY <2>1, CapturedTime
  <2> QED
    BY <1>2, <2>2, <2>3 DEF AckAnswerLost, Next, ChannelNext
<1> QED
  BY <1>1, <1>2 DEF Failure

\* The step simulation.
LEMMA DeliveryStep ==
    ASSUME ArgumentsSound, [DeliveryNext]_deliveryVars
    PROVE  [Next]_vars
<1>1. CASE Outside
  BY <1>1, OutsideStep
<1>2. CASE Clock
  BY <1>2 DEF Clock, Next
<1>3. CASE \E o \in Owners : OpenTenant(o)
  BY <1>3 DEF OpenTenant, store
<1>4. CASE \E o \in Owners : PassStep(o)
  BY <1>4, PassStepIsStoreStep DEF store
<1>5. CASE \E o \in Owners : Failure(o)
  BY <1>5, FailureIsStoreStep DEF store
<1>6. CASE \E r \in requests : ProviderAccepts(r)
  BY <1>6 DEF ProviderAccepts, store
<1>7. CASE UNCHANGED deliveryVars
  BY <1>7 DEF deliveryVars, store
<1> QED
  BY <1>1, <1>2, <1>3, <1>4, <1>5, <1>6, <1>7 DEF DeliveryNext

-----------------------------------------------------------------------------
(* The arguments stay sound *)

LEMMA NowGrows == ASSUME TypeOK, [Next]_vars PROVE now \in Nat /\ now' \in Nat /\ now <= now'
<1>1. now \in Nat
  BY ConstantsAssumption DEF TypeOK, Time
<1>2. CASE Tick
  BY <1>1, <1>2 DEF Tick
<1>3. CASE CommentNext
  <2>1. ASSUME NEW i, UpdateSiteInterval(i) PROVE now' = now
    BY <2>1 DEF UpdateSiteInterval
  <2>6. DeleteSite => now' = now
    BY DEF DeleteSite
  <2>2. ASSUME NEW c, NEW t, CreatePendingComment(c, t) PROVE now' = now
    BY <2>2 DEF CreatePendingComment
  <2>3. ASSUME NEW c, NEW s, UpdateComment(c, s) PROVE now' = now
    BY <2>3 DEF UpdateComment
  <2>4. ASSUME NEW c, DeleteComment(c) PROVE now' = now
    BY <2>4 DEF DeleteComment
  <2>5. now' = now
    BY <1>3, <2>1, <2>2, <2>3, <2>4, <2>6 DEF CommentNext
  <2> QED
    BY <1>1, <2>5
<1>4. CASE ParentNext
  BY <1>1, <1>4 DEF ParentNext, ClaimNotificationOutbox, FinalizeClaimedSiteDigest
<1>5. CASE ChannelNext
  <2>1. ASSUME NEW d, NEW S, NEW t, EnsureNotificationOutboxChannels(d, S, t) PROVE now' = now
    BY <2>1 DEF EnsureNotificationOutboxChannels
  <2>2. ASSUME NEW d, NEW o, NEW t, ClaimNotificationOutboxChannels(d, o, t) PROVE now' = now
    BY <2>2 DEF ClaimNotificationOutboxChannels
  <2>3. ASSUME NEW d, NEW o, NEW g, NEW t, SkipNotificationOutboxChannels(d, o, g, t)
        PROVE  now' = now
    BY <2>3 DEF SkipNotificationOutboxChannels
  <2>4. ASSUME NEW d, NEW ch, NEW o, NEW g, NEW t, AckNotificationOutboxChannel(d, ch, o, g, t)
        PROVE  now' = now
    BY <2>4 DEF AckNotificationOutboxChannel
  <2>5. ASSUME NEW d, NEW ch, NEW o, NEW g, NEW at, NEW t,
               RetryNotificationOutboxChannel(d, ch, o, g, at, t)
        PROVE  now' = now
    BY <2>5 DEF RetryNotificationOutboxChannel
  <2>6. now' = now
    BY <1>5, <2>1, <2>2, <2>3, <2>4, <2>5 DEF ChannelNext
  <2> QED
    BY <1>1, <2>6
<1>6. CASE LegacyNext
  BY <1>1, <1>6 DEF LegacyNext, ClaimLegacySiteDigest, ReconcileLegacySiteDigest,
                    RetireLegacySiteDigest
<1>7. CASE UNCHANGED vars
  BY <1>1, <1>7 DEF vars
<1> QED
  BY <1>2, <1>3, <1>4, <1>5, <1>6, <1>7 DEF Next

LEMMA SoundLater ==
    ASSUME NEW p \in Pass, NEW t \in Nat, NEW u \in Nat, t <= u, Sound(p, t)
    PROVE  Sound(p, u)
<1>1. ParentLease \in Nat
  BY ConstantsAssumption
<1>2. ASSUME NEW claim, SoundClaim(claim, t) PROVE SoundClaim(claim, u)
  <2>1. claim.until \in Nat /\ claim.until <= t + ParentLease
    BY <1>2 DEF SoundClaim, Claims
  <2> QED
    BY <1>1, <1>2, <2>1 DEF SoundClaim
<1>3. p.opened \in Nat /\ p.at \in Nat
  BY ConstantsAssumption DEF Pass, Time
<1> QED
  BY <1>2, <1>3 DEF Sound

\* A step that rewrites the record of one pass, or of none.
LEMMA PassUpdate ==
    ASSUME ArgumentsSound, [Next]_vars, NEW o \in Owners, NEW p \in Pass,
           Sound(p, now), pass' = [pass EXCEPT ![o] = p]
    PROVE  ArgumentsSound'
<1>1. TypeOK'
  BY NextTypeOK DEF ArgumentsSound
<1>2. pass' \in [Owners -> Pass]
  BY DEF ArgumentsSound
<1>3. ASSUME NEW q \in Owners PROVE Sound(pass'[q], now')
  <2>1. pass'[q] \in Pass /\ Sound(pass'[q], now)
    BY DEF ArgumentsSound
  <2>2. now \in Nat /\ now' \in Nat /\ now <= now'
    BY NowGrows DEF ArgumentsSound
  <2> QED
    BY <2>1, <2>2, SoundLater
<1> QED
  BY <1>1, <1>2, <1>3 DEF ArgumentsSound

LEMMA PassUnchanged ==
    ASSUME ArgumentsSound, [Next]_vars, UNCHANGED pass PROVE ArgumentsSound'
<1>1. TypeOK'
  BY NextTypeOK DEF ArgumentsSound
<1>2. now \in Nat /\ now' \in Nat /\ now <= now'
  BY NowGrows DEF ArgumentsSound
<1>3. ASSUME NEW q \in Owners PROVE Sound(pass'[q], now')
  <2>1. pass'[q] \in Pass /\ Sound(pass'[q], now)
    BY DEF ArgumentsSound
  <2> QED
    BY <1>2, <2>1, SoundLater
<1> QED
  BY <1>1, <1>3 DEF ArgumentsSound

\* To the next call about the same digest.
LEMMA GoKeeps ==
    ASSUME ArgumentsSound, [Next]_vars, NEW o \in Owners, NEW pc \in Delivering,
           pass[o].pc \in Delivering, pc \in WithChild => pass[o].pc \in WithChild,
           Go(o, pc)
    PROVE  ArgumentsSound'
<1> DEFINE p == [pass[o] EXCEPT !.pc = pc]
<1>1. pass[o] \in Pass /\ Sound(pass[o], now)
  BY DEF ArgumentsSound
<1>2. p \in Pass
  BY <1>1 DEF Pass, Delivering
<1>3. /\ p.pc = pc
      /\ p.opened = pass[o].opened /\ p.at = pass[o].at /\ p.held = pass[o].held
      /\ p.parent = pass[o].parent /\ p.children = pass[o].children
      /\ p.child = pass[o].child
  BY <1>1 DEF Pass
<1>4. Sound(p, now)
  BY <1>1, <1>3 DEF Sound
<1>5. pass' = [pass EXCEPT ![o] = p]
  BY DEF Go
<1> QED
  BY <1>2, <1>4, <1>5, PassUpdate

\* The same, with a new reading of the clock.
LEMMA GoNowKeeps ==
    ASSUME ArgumentsSound, [Next]_vars, NEW o \in Owners, NEW pc \in Delivering,
           pass[o].pc \in Delivering, pc \in WithChild => pass[o].pc \in WithChild,
           GoNow(o, pc)
    PROVE  ArgumentsSound'
<1> DEFINE p == [pass[o] EXCEPT !.pc = pc, !.at = now]
<1>1. pass[o] \in Pass /\ Sound(pass[o], now)
  BY DEF ArgumentsSound
<1>2. now \in Nat /\ now \in Time /\ ParentLease \in Nat
  BY NowGrows, ConstantsAssumption DEF ArgumentsSound, TypeOK
<1>3. p \in Pass
  BY <1>1, <1>2 DEF Pass, Delivering
<1>4. /\ p.pc = pc /\ p.at = now
      /\ p.opened = pass[o].opened /\ p.held = pass[o].held
      /\ p.parent = pass[o].parent /\ p.children = pass[o].children
      /\ p.child = pass[o].child
  BY <1>1 DEF Pass
<1>5. SoundClaim(pass[o].parent, now)
  <2>1. /\ pass[o].at \in Nat /\ pass[o].at <= now
        /\ SoundClaim(pass[o].parent, pass[o].at)
    BY <1>1, ConstantsAssumption DEF Sound, Pass, Time
  <2>2. pass[o].parent.until \in Nat
    BY <2>1 DEF SoundClaim, Claims
  <2> QED
    BY <1>2, <2>1, <2>2 DEF SoundClaim
<1>6. Sound(p, now)
  BY <1>1, <1>2, <1>4, <1>5 DEF Sound
<1>7. pass' = [pass EXCEPT ![o] = p]
  BY <1>1 DEF GoNow, ArgumentsSound, Pass
<1> QED
  BY <1>3, <1>6, <1>7, PassUpdate

LEMMA FreshIsSound ==
    /\ Fresh \in Pass
    /\ \A t \in Nat : Sound(Fresh, t)
<1>1. 0 \in Time
  BY ConstantsAssumption DEF Time
<1>2. Fresh \in Pass
  BY <1>1 DEF Fresh, Pass
<1>3. ASSUME NEW t \in Nat PROVE Sound(Fresh, t)
  BY DEF Fresh, Sound, Delivering, WithChild
<1> QED
  BY <1>2, <1>3

LEMMA EndKeeps ==
    ASSUME ArgumentsSound, [Next]_vars, NEW o \in Owners, End(o)
    PROVE  ArgumentsSound'
<1> DEFINE p == [Fresh EXCEPT !.pc = "ended"]
<1>1. now \in Nat
  BY NowGrows DEF ArgumentsSound
<1>2. p \in Pass
  BY FreshIsSound DEF Fresh, Pass
<1>3. Sound(p, now)
  BY <1>1 DEF Fresh, Sound, Delivering, WithChild
<1>4. pass' = [pass EXCEPT ![o] = p]
  BY DEF End
<1> QED
  BY <1>2, <1>3, <1>4, PassUpdate

LEMMA NextDigestKeeps ==
    ASSUME ArgumentsSound, [Next]_vars, NEW o \in Owners, NextDigest(o)
    PROVE  ArgumentsSound'
<1> DEFINE p == [Fresh EXCEPT !.pc = "parents", !.opened = pass[o].opened,
                              !.config = pass[o].config, !.held = pass[o].held]
<1>1. now \in Nat /\ pass[o] \in Pass /\ Sound(pass[o], now)
  BY NowGrows DEF ArgumentsSound
<1>2. p \in Pass
  BY <1>1, FreshIsSound DEF Fresh, Pass
<1>3. Sound(p, now)
  BY <1>1 DEF Fresh, Sound, Delivering, WithChild
<1>4. pass' = [pass EXCEPT ![o] = p]
  BY DEF NextDigest
<1> QED
  BY <1>2, <1>3, <1>4, PassUpdate

LEMMA ClaimParentsKeeps ==
    ASSUME ArgumentsSound, [Next]_vars, NEW o \in Owners, ClaimParents(o)
    PROVE  ArgumentsSound'
<1>1. CASE End(o)
  BY <1>1, EndKeeps
<1>2. CASE ~ End(o)
  <2> DEFINE taken == {d \in Digests : parents'[d] # parents[d]}
             held == {Claim(d, parents'[d].attempts, parents'[d].leaseUntil) : d \in taken}
             p == [pass[o] EXCEPT !.pc = "parents", !.held = held]
  <2>1. PICK t \in pass[o].opened .. now :
            /\ ClaimNotificationOutbox(o, t)
            /\ pass' = [pass EXCEPT ![o] = p]
    BY <1>2 DEF ClaimParents
  <2>2. /\ now \in Nat /\ ParentLease \in Nat /\ MaxAttempts \in Nat
        /\ pass[o] \in Pass /\ Sound(pass[o], now)
        /\ parents \in [Digests -> ParentRow]
    BY NowGrows, ConstantsAssumption DEF ArgumentsSound, TypeOK
  <2>t. t \in Nat /\ t <= now
    BY <2>1, <2>2, ReadTime DEF ClaimParents, CallTimes, Time
  <2>3. ASSUME NEW d \in taken
        PROVE  /\ parents'[d].attempts \in Generations
               /\ parents'[d].leaseUntil = t + ParentLease
    <3>1. PICK S \in SUBSET Eligible(t) :
            /\ \A e \in S : parents[e].attempts < MaxAttempts
            /\ parents' = [e \in Digests |->
                    IF e \in S THEN Leased(parents[e], o, t + ParentLease)
                               ELSE parents[e]]
      BY <2>1 DEF ClaimNotificationOutbox
    <3>2. d \in S /\ parents'[d] = Leased(parents[d], o, t + ParentLease)
      BY <3>1
    <3>3. parents[d] \in ParentRow /\ parents[d].attempts < MaxAttempts
      BY <2>2, <3>1, <3>2
    <3>4. /\ parents'[d].attempts = parents[d].attempts + 1
          /\ parents'[d].leaseUntil = t + ParentLease
      BY <3>2, <3>3 DEF Leased, ParentRow
    <3>5. parents[d].attempts \in Nat
      BY <3>3 DEF ParentRow
    <3> QED
      BY <2>2, <3>3, <3>4, <3>5 DEF Generations
  <2>4. \A claim \in held : SoundClaim(claim, now)
    <3> SUFFICES ASSUME NEW d \in taken
                 PROVE  SoundClaim(Claim(d, parents'[d].attempts, parents'[d].leaseUntil), now)
      OBVIOUS
    <3> DEFINE g == parents'[d].attempts
               u == parents'[d].leaseUntil
    <3>1. g \in Generations /\ g \in Nat /\ u = t + ParentLease /\ u \in Nat /\ d \in Digests
      BY <2>2, <2>t, <2>3 DEF Generations
    <3> HIDE DEF g, u
    <3>2. SoundClaim(Claim(d, g, u), now)
      BY <2>2, <2>t, <3>1 DEF SoundClaim, Claim, Claims
    <3> QED
      BY <3>2 DEF g, u
  <2> HIDE DEF held
  <2>5. held \subseteq Claims
    BY <2>4 DEF SoundClaim
  <2>6. p \in Pass
    BY <2>2, <2>5 DEF Pass
  <2>7. /\ p.pc = "parents" /\ p.held = held
        /\ p.opened = pass[o].opened /\ p.at = pass[o].at /\ p.children = pass[o].children
    BY <2>2 DEF Pass
  <2>8. Sound(p, now)
    BY <2>2, <2>4, <2>7 DEF Sound, Delivering, WithChild
  <2> QED
    BY <2>1, <2>6, <2>8, PassUpdate
<1> QED
  BY <1>1, <1>2

LEMMA NextParentKeeps ==
    ASSUME ArgumentsSound, [Next]_vars, NEW o \in Owners, NextParent(o)
    PROVE  ArgumentsSound'
<1>1. CASE End(o)
  BY <1>1, EndKeeps
<1>2. CASE ~ End(o)
  <2>1. PICK claim \in pass[o].held :
            pass' = [pass EXCEPT ![o].pc = "materialize", ![o].at = now,
                                 ![o].held = @ \ {claim}, ![o].parent = claim]
    BY <1>2 DEF NextParent
  <2> DEFINE held == pass[o].held \ {claim}
             p == [pass[o] EXCEPT !.pc = "materialize", !.at = now,
                                  !.held = held, !.parent = claim]
  <2>2. /\ now \in Nat /\ now \in Time
        /\ pass[o] \in Pass /\ Sound(pass[o], now)
    BY NowGrows DEF ArgumentsSound, TypeOK
  <2>3. SoundClaim(claim, now) /\ claim \in Claims
    BY <2>2 DEF Sound, SoundClaim
  <2>4. held \subseteq Claims /\ \A c \in held : SoundClaim(c, now)
    BY <2>2 DEF Sound, Pass
  <2>5. pass' = [pass EXCEPT ![o] = p]
    BY <2>1, <2>2 DEF ArgumentsSound, Pass
  <2> HIDE DEF held
  <2>6. p \in Pass
    BY <2>2, <2>3, <2>4 DEF Pass
  <2>7. /\ p.pc = "materialize" /\ p.held = held /\ p.at = now /\ p.parent = claim
        /\ p.opened = pass[o].opened /\ p.children = pass[o].children
    BY <2>2 DEF Pass
  <2>8. Sound(p, now)
    BY <2>2, <2>3, <2>4, <2>7 DEF Sound, Delivering, WithChild
  <2> QED
    BY <2>5, <2>6, <2>8, PassUpdate
<1> QED
  BY <1>1, <1>2

LEMMA OpenTenantKeeps ==
    ASSUME ArgumentsSound, [Next]_vars, NEW o \in Owners, OpenTenant(o)
    PROVE  ArgumentsSound'
<1>1. PICK config \in ChannelSets :
        pass' = [pass EXCEPT ![o] = [Fresh EXCEPT
                    !.pc = "claim", !.opened = now, !.config = config]]
  BY DEF OpenTenant
<1> DEFINE p == [Fresh EXCEPT !.pc = "claim", !.opened = now, !.config = config]
<1>2. now \in Nat /\ now \in Time /\ config \subseteq Channels
  BY NowGrows, DeliveryAssumption DEF ArgumentsSound, TypeOK
<1>3. p \in Pass
  BY <1>2, FreshIsSound DEF Fresh, Pass
<1>4. Sound(p, now)
  BY <1>2 DEF Fresh, Sound, Delivering, WithChild
<1> QED
  BY <1>1, <1>3, <1>4, PassUpdate

LEMMA MaterializeParentKeeps ==
    ASSUME ArgumentsSound, [Next]_vars, NEW o \in Owners, MaterializeParent(o)
    PROVE  ArgumentsSound'
<1>1. CASE NextDigest(o)
  BY <1>1, NextDigestKeeps
<1>2. CASE ~ NextDigest(o)
  <2> DEFINE batch == PendingMembers(Digest(o))
             pc == IF batch = {} THEN "skip" ELSE "list"
             p == [pass[o] EXCEPT !.batch = batch, !.pc = pc]
  <2>1. At(o, "materialize") /\ "materialize" \in Delivering
    BY DEF MaterializeParent, Delivering
  <2>2. pass[o] \in Pass /\ Sound(pass[o], now) /\ pass[o].pc \in Delivering
    BY <2>1 DEF ArgumentsSound, At
  <2>3. batch \subseteq Comments
    BY <2>1, HeldClaim DEF PendingMembers, ArgumentsSound, TypeOK
  <2>4. pc \in {"skip", "list"}
    OBVIOUS
  <2> HIDE DEF batch, pc
  <2>5. pass' = [pass EXCEPT ![o] = p]
    BY <1>2, <2>2 DEF MaterializeParent, LeaveLeased, batch, pc, ArgumentsSound, Pass
  <2>6. p \in Pass
    BY <2>2, <2>3, <2>4 DEF Pass
  <2>7. /\ p.pc = pc
        /\ p.opened = pass[o].opened /\ p.at = pass[o].at /\ p.held = pass[o].held
        /\ p.parent = pass[o].parent /\ p.children = pass[o].children
    BY <2>2 DEF Pass
  <2>8. Sound(p, now)
    BY <2>2, <2>4, <2>7 DEF Sound, Delivering, WithChild
  <2> QED
    BY <2>5, <2>6, <2>8, PassUpdate
<1> QED
  BY <1>1, <1>2

LEMMA ClaimChildrenKeeps ==
    ASSUME ArgumentsSound, [Next]_vars, NEW o \in Owners, ClaimChildren(o)
    PROVE  ArgumentsSound'
<1>1. CASE NextDigest(o)
  BY <1>1, NextDigestKeeps
<1>2. CASE ~ NextDigest(o)
  <2> DEFINE d == Digest(o)
             t == pass[o].at
             claimed == {<<ch, channels'[d][ch].attempts>> : ch \in ClaimableChannels(d, t)}
             p == [pass[o] EXCEPT !.pc = "tokens", !.children = claimed]
  <2>1. At(o, "children") /\ "children" \in Delivering
    BY DEF ClaimChildren, Delivering
  <2>2. pass[o] \in Pass /\ Sound(pass[o], now) /\ pass[o].pc \in Delivering
    BY <2>1 DEF ArgumentsSound, At
  <2>3. d \in Digests /\ MaxAttempts \in Nat /\ channels \in [Digests -> [Channels -> ChannelRow]]
    BY <2>1, HeldClaim, ConstantsAssumption DEF ArgumentsSound, TypeOK
  <2>4. /\ ClaimNotificationOutboxChannels(d, o, t)
        /\ pass' = [pass EXCEPT ![o] = p]
    BY <1>2 DEF ClaimChildren, LeaveLeased
  <2>5. ASSUME NEW ch \in ClaimableChannels(d, t)
        PROVE  ch \in Channels /\ channels'[d][ch].attempts \in Generations
    <3>1. ch \in Channels
      BY DEF ClaimableChannels
    <3>2. channels[d][ch] \in ChannelRow /\ channels[d][ch].attempts < MaxAttempts
      BY <2>3, <2>4, <3>1 DEF ClaimNotificationOutboxChannels
    <3>3. channels'[d][ch] = Leased(channels[d][ch], o, t + ChildLease)
      BY <2>3, <2>4, <3>1 DEF ClaimNotificationOutboxChannels
    <3>4. channels'[d][ch].attempts = channels[d][ch].attempts + 1
      BY <3>2, <3>3 DEF Leased, ChannelRow
    <3>5. channels[d][ch].attempts \in Nat
      BY <3>2 DEF ChannelRow
    <3> QED
      BY <2>3, <3>1, <3>2, <3>4, <3>5 DEF Generations
  <2>6. claimed \subseteq Channels \X Generations
    BY <2>5
  <2> HIDE DEF claimed
  <2>7. Generations \subseteq Nat
    BY <2>3 DEF Generations
  <2>8. p \in Pass
    BY <2>2, <2>6, <2>7 DEF Pass
  <2>9. /\ p.pc = "tokens" /\ p.children = claimed
        /\ p.opened = pass[o].opened /\ p.at = pass[o].at /\ p.held = pass[o].held
        /\ p.parent = pass[o].parent
    BY <2>2 DEF Pass
  <2>10. Sound(p, now)
    BY <2>2, <2>6, <2>9 DEF Sound, Delivering, WithChild
  <2> QED
    BY <2>4, <2>8, <2>10, PassUpdate
<1> QED
  BY <1>1, <1>2

LEMMA StartSendKeeps ==
    ASSUME ArgumentsSound, [Next]_vars, NEW o \in Owners, StartSend(o)
    PROVE  ArgumentsSound'
<1>1. PICK child \in pass[o].children :
        pass' = [pass EXCEPT ![o].pc = "sending", ![o].child = child,
                             ![o].children = @ \ {child}]
  BY DEF StartSend
<1> DEFINE rest == pass[o].children \ {child}
           p == [pass[o] EXCEPT !.pc = "sending", !.child = child, !.children = rest]
<1>2. pass[o] \in Pass /\ Sound(pass[o], now) /\ pass[o].pc \in Delivering
  BY DEF ArgumentsSound, StartSend, At, Delivering
<1>3. child \in Channels \X Nat /\ child[2] \in Generations
  BY <1>2 DEF Pass, Sound
<1>4. child \in Channels \X Generations
  BY <1>3
<1>5. rest \subseteq Channels \X Nat /\ \A c \in rest : c[2] \in Generations
  BY <1>2 DEF Pass, Sound
<1>6. pass' = [pass EXCEPT ![o] = p]
  BY <1>1, <1>2 DEF ArgumentsSound, Pass
<1> HIDE DEF rest
<1>7. p \in Pass
  BY <1>2, <1>3, <1>5 DEF Pass
<1>8. /\ p.pc = "sending" /\ p.child = child /\ p.children = rest
      /\ p.opened = pass[o].opened /\ p.at = pass[o].at /\ p.held = pass[o].held
      /\ p.parent = pass[o].parent
  BY <1>2 DEF Pass
<1>9. Sound(p, now)
  BY <1>2, <1>4, <1>5, <1>8 DEF Sound, Delivering, WithChild
<1> QED
  BY <1>6, <1>7, <1>9, PassUpdate

\* The calls that leave the arguments as they are, but for the time.
LEMMA SameArgumentsKeeps ==
    ASSUME ArgumentsSound, [Next]_vars, NEW o \in Owners,
           \/ SkipChildren(o) \/ ListChildren(o) \/ EnsureChildren(o) \/ EnsureTokens(o)
           \/ NoMoreChildren(o) \/ SendSucceeds(o) \/ AckChild(o) \/ RetryChild(o)
           \/ Relist(o) \/ FinalizeParent(o)
    PROVE  ArgumentsSound'
<1>1. CASE NextDigest(o)
  BY <1>1, NextDigestKeeps
<1>2. CASE ~ NextDigest(o)
  <2>1. CASE SkipChildren(o)
    <3>1. pass[o].pc \in Delivering /\ Go(o, "finalize")
      BY <1>2, <2>1 DEF SkipChildren, At, LeaveLeased, Delivering
    <3> QED
      BY <3>1, GoKeeps DEF Delivering, WithChild
  <2>2. CASE ListChildren(o)
    <3>1. pass[o].pc \in Delivering
      BY <2>2 DEF ListChildren, At, Delivering
    <3>2. Go(o, "ensure") \/ Go(o, "finalize") \/ Go(o, "children")
      BY <1>2, <2>2 DEF ListChildren, LeaveLeased
    <3> QED
      BY <3>1, <3>2, GoKeeps DEF Delivering, WithChild
  <2>3. CASE EnsureChildren(o)
    <3>1. pass[o].pc \in Delivering
      BY <2>3 DEF EnsureChildren, At, Delivering
    <3>2. Go(o, "finalize") \/ Go(o, "children")
      BY <1>2, <2>3 DEF EnsureChildren, LeaveLeased
    <3> QED
      BY <3>1, <3>2, GoKeeps DEF Delivering, WithChild
  <2>4. CASE EnsureTokens(o)
    <3>1. pass[o].pc \in Delivering /\ Go(o, "send")
      BY <1>2, <2>4 DEF EnsureTokens, At, LeaveLeased, Delivering
    <3> QED
      BY <3>1, GoKeeps DEF Delivering, WithChild
  <2>5. CASE NoMoreChildren(o)
    <3>1. pass[o].pc \in Delivering /\ Go(o, "relist")
      BY <2>5 DEF NoMoreChildren, At, Delivering
    <3> QED
      BY <3>1, GoKeeps DEF Delivering, WithChild
  <2>6. CASE SendSucceeds(o)
    <3>1. pass[o].pc \in Delivering /\ pass[o].pc \in WithChild /\ GoNow(o, "ack")
      BY <2>6 DEF SendSucceeds, At, Delivering, WithChild
    <3> QED
      BY <3>1, GoNowKeeps DEF Delivering
  <2>7. CASE AckChild(o)
    <3>1. pass[o].pc \in Delivering /\ pass[o].pc \in WithChild
      BY <2>7 DEF AckChild, At, Delivering, WithChild
    <3>2. Go(o, "send") \/ GoNow(o, "retry")
      BY <2>7 DEF AckChild
    <3> QED
      BY <3>1, <3>2, GoKeeps, GoNowKeeps DEF Delivering, WithChild
  <2>8. CASE RetryChild(o)
    <3>1. pass[o].pc \in Delivering /\ Go(o, "send")
      BY <2>8 DEF RetryChild, At, Delivering
    <3> QED
      BY <3>1, GoKeeps DEF Delivering, WithChild
  <2>9. CASE FinalizeParent(o)
    BY <1>2, <2>9 DEF FinalizeParent, LeaveLeased
  <2>10. CASE Relist(o)
    <3>1. pass[o].pc \in Delivering /\ GoNow(o, "finalize")
      BY <1>2, <2>10 DEF Relist, LeaveLeased, At, Delivering
    <3> QED
      BY <3>1, GoNowKeeps DEF Delivering, WithChild
  <2> QED
    BY <2>10, <2>1, <2>2, <2>3, <2>4, <2>5, <2>6, <2>7, <2>8, <2>9
<1> QED
  BY <1>1, <1>2

LEMMA FailureKeeps ==
    ASSUME ArgumentsSound, [Next]_vars, NEW o \in Owners, Failure(o)
    PROVE  ArgumentsSound'
<1>1. CASE SendFails(o)
  <2>1. pass[o].pc \in Delivering /\ pass[o].pc \in WithChild /\ GoNow(o, "retry")
    BY <1>1 DEF SendFails, At, Delivering, WithChild
  <2> QED
    BY <2>1, GoNowKeeps DEF Delivering
<1>2. CASE AckAnswerLost(o)
  <2>1. pass[o].pc \in Delivering /\ pass[o].pc \in WithChild /\ GoNow(o, "retry")
    BY <1>2 DEF AckAnswerLost, At, Delivering, WithChild
  <2> QED
    BY <2>1, GoNowKeeps DEF Delivering
<1>3. CASE Abandon(o)
  BY <1>3, EndKeeps DEF Abandon
<1>4. CASE StoreCallFails(o)
  <2>1. CASE End(o) \/ NextDigest(o)
    BY <2>1, EndKeeps, NextDigestKeeps
  <2>2. CASE At(o, "ack") /\ GoNow(o, "retry")
    <3>1. pass[o].pc \in Delivering /\ pass[o].pc \in WithChild
      BY <2>2 DEF At, Delivering, WithChild
    <3> QED
      BY <2>2, <3>1, GoNowKeeps DEF Delivering
  <2>3. CASE At(o, "retry") /\ Go(o, "send")
    <3>1. pass[o].pc \in Delivering
      BY <2>3 DEF At, Delivering
    <3> QED
      BY <2>3, <3>1, GoKeeps DEF Delivering, WithChild
  <2> QED
    BY <1>4, <2>1, <2>2, <2>3 DEF StoreCallFails
<1> QED
  BY <1>1, <1>2, <1>3, <1>4 DEF Failure

LEMMA InitArgumentsSound == DeliveryInit => ArgumentsSound
<1> SUFFICES ASSUME DeliveryInit PROVE ArgumentsSound
  OBVIOUS
<1>1. TypeOK /\ now = 0
  BY InitTypeOK DEF DeliveryInit, Init
<1>2. ASSUME NEW o \in Owners PROVE pass[o] = Fresh /\ Sound(pass[o], now)
  BY <1>1, FreshIsSound DEF DeliveryInit
<1>3. pass \in [Owners -> Pass]
  BY FreshIsSound DEF DeliveryInit
<1> QED
  BY <1>1, <1>2, <1>3 DEF ArgumentsSound

LEMMA NextArgumentsSound ==
    ASSUME ArgumentsSound, [DeliveryNext]_deliveryVars PROVE ArgumentsSound'
<1>1. [Next]_vars
  BY DeliveryStep
<1>2. CASE Outside \/ Clock \/ \E r \in requests : ProviderAccepts(r)
  BY <1>1, <1>2, PassUnchanged DEF Outside, Clock, ProviderAccepts
<1>3. CASE UNCHANGED deliveryVars
  BY <1>1, <1>3, PassUnchanged DEF deliveryVars
<1>4. ASSUME NEW o \in Owners, PassStep(o) PROVE ArgumentsSound'
  BY <1>1, <1>4, ClaimParentsKeeps, NextParentKeeps, MaterializeParentKeeps,
     ClaimChildrenKeeps, StartSendKeeps, SameArgumentsKeeps DEF PassStep
<1>5. ASSUME NEW o \in Owners, OpenTenant(o) \/ Failure(o) PROVE ArgumentsSound'
  BY <1>1, <1>5, OpenTenantKeeps, FailureKeeps
<1> QED
  BY <1>2, <1>3, <1>4, <1>5 DEF DeliveryNext

-----------------------------------------------------------------------------
(* Results *)

\* A pass only makes calls with sound arguments: a digest and a generation it
\* has claimed, a channel it has claimed, and a time it read after its
\* deadline started to run.
THEOREM WorkerArguments == DeliverySpec => []ArgumentsSound
<1> QED
  BY InitArgumentsSound, NextArgumentsSound, PTL DEF DeliverySpec

\* The worker, with every failure it may meet, implements the outbox.
THEOREM WorkerImplementsOutbox == DeliverySpec => ImplementsOutbox
<1>1. DeliveryInit => Init
  BY DEF DeliveryInit
<1>2. ArgumentsSound /\ [DeliveryNext]_deliveryVars => [Next]_vars
  BY DeliveryStep
<1> QED
  BY <1>1, <1>2, WorkerArguments, PTL DEF DeliverySpec, Spec, ImplementsOutbox

\* Hence no comment is dropped by the worker, what it sent stays sent, and no
\* live lease is taken over by one of its passes.
THEOREM WorkerDropsNothing == DeliverySpec => []NoSilentDrop
<1> QED
  BY WorkerImplementsOutbox, NoCommentIsSilentlyDropped, PTL DEF ImplementsOutbox

THEOREM WorkerKeepsLeases == DeliverySpec => LiveLeaseKept
<1> QED
  BY WorkerImplementsOutbox, LiveLeasesAreKept, PTL DEF ImplementsOutbox

(* III. THE WORKER IS SAFE *)

-----------------------------------------------------------------------------
(* What a step does to the record of its pass *)

\* The pass goes on with the digest it delivers.
Stays(o) ==
    /\ pass[o].pc \in Delivering /\ pass'[o].pc \in Delivering
    /\ pass'[o].opened = pass[o].opened
    /\ pass'[o].held = pass[o].held
    /\ pass'[o].parent = pass[o].parent

\* It is done with the digest.
Leaves(o) ==
    /\ pass'[o].pc = "parents"
    /\ pass'[o].opened = pass[o].opened
    /\ pass'[o].held = pass[o].held

\* It takes the next one.
Takes(o) ==
    /\ pass[o].pc = "parents" /\ pass'[o].pc = "materialize"
    /\ pass'[o].opened = pass[o].opened
    /\ \E claim \in pass[o].held :
            pass'[o].held = pass[o].held \ {claim} /\ pass'[o].parent = claim

\* It ends, or is only opened.
HoldsNothing(o) == pass'[o].pc \in {"claim", "ended"} /\ pass'[o].held = {}

LEMMA GoFields ==
    ASSUME ArgumentsSound, NEW o \in Owners, NEW pc, Go(o, pc)
    PROVE  /\ \A q \in Owners \ {o} : pass'[q] = pass[q]
           /\ pass'[o] = [pass[o] EXCEPT !.pc = pc]
           /\ pass'[o].pc = pc /\ pass'[o].opened = pass[o].opened
           /\ pass'[o].at = pass[o].at /\ pass'[o].config = pass[o].config
           /\ pass'[o].held = pass[o].held /\ pass'[o].parent = pass[o].parent
           /\ pass'[o].batch = pass[o].batch /\ pass'[o].children = pass[o].children
           /\ pass'[o].child = pass[o].child
<1>1. pass \in [Owners -> Pass] /\ pass[o] \in Pass
  BY DEF ArgumentsSound
<1>2. /\ \A q \in Owners \ {o} : pass'[q] = pass[q]
      /\ pass'[o] = [pass[o] EXCEPT !.pc = pc]
  BY <1>1 DEF Go
<1> QED
  BY <1>1, <1>2 DEF Pass

LEMMA GoNowFields ==
    ASSUME ArgumentsSound, NEW o \in Owners, NEW pc, GoNow(o, pc)
    PROVE  /\ \A q \in Owners \ {o} : pass'[q] = pass[q]
           /\ pass'[o].pc = pc /\ pass'[o].opened = pass[o].opened
           /\ pass'[o].at = now /\ pass'[o].config = pass[o].config
           /\ pass'[o].held = pass[o].held /\ pass'[o].parent = pass[o].parent
           /\ pass'[o].batch = pass[o].batch /\ pass'[o].children = pass[o].children
           /\ pass'[o].child = pass[o].child
<1>1. pass \in [Owners -> Pass] /\ pass[o] \in Pass
  BY DEF ArgumentsSound
<1>2. /\ \A q \in Owners \ {o} : pass'[q] = pass[q]
      /\ pass'[o] = [pass[o] EXCEPT !.pc = pc, !.at = now]
  BY <1>1 DEF GoNow, Pass
<1> QED
  BY <1>1, <1>2 DEF Pass

Goes(o, pc) == Go(o, pc) \/ GoNow(o, pc)

LEMMA GoesFields ==
    ASSUME ArgumentsSound, NEW o \in Owners, NEW pc, Goes(o, pc)
    PROVE  /\ \A q \in Owners \ {o} : pass'[q] = pass[q]
           /\ pass'[o].pc = pc /\ pass'[o].opened = pass[o].opened
           /\ pass'[o].config = pass[o].config
           /\ pass'[o].held = pass[o].held /\ pass'[o].parent = pass[o].parent
           /\ pass'[o].batch = pass[o].batch /\ pass'[o].children = pass[o].children
           /\ pass'[o].child = pass[o].child
<1>1. CASE Go(o, pc)
  BY <1>1, GoFields
<1>2. CASE GoNow(o, pc)
  BY <1>2, GoNowFields
<1> QED
  BY <1>1, <1>2 DEF Goes

LEMMA NextDigestFields ==
    ASSUME ArgumentsSound, NEW o \in Owners, NextDigest(o)
    PROVE  /\ \A q \in Owners \ {o} : pass'[q] = pass[q]
           /\ pass'[o].pc = "parents" /\ pass'[o].children = {}
           /\ Leaves(o)
<1>1. pass \in [Owners -> Pass] /\ pass[o] \in Pass
  BY DEF ArgumentsSound
<1>2. /\ \A q \in Owners \ {o} : pass'[q] = pass[q]
      /\ pass'[o] = [Fresh EXCEPT !.pc = "parents", !.opened = pass[o].opened,
                         !.config = pass[o].config, !.held = pass[o].held]
  BY <1>1 DEF NextDigest
<1> QED
  BY <1>2 DEF Fresh, Leaves

LEMMA EndFields ==
    ASSUME ArgumentsSound, NEW o \in Owners, End(o)
    PROVE  /\ \A q \in Owners \ {o} : pass'[q] = pass[q]
           /\ pass'[o].pc = "ended" /\ pass'[o].children = {}
           /\ HoldsNothing(o)
<1>1. pass \in [Owners -> Pass]
  BY DEF ArgumentsSound
<1>2. /\ \A q \in Owners \ {o} : pass'[q] = pass[q]
      /\ pass'[o] = [Fresh EXCEPT !.pc = "ended"]
  BY <1>1 DEF End
<1> QED
  BY <1>2 DEF Fresh, HoldsNothing

\* To another call about the same digest.
LEMMA GoStays ==
    ASSUME ArgumentsSound, NEW o \in Owners, NEW pc \in Delivering,
           pass[o].pc \in Delivering, Goes(o, pc)
    PROVE  Stays(o)
BY GoesFields DEF Stays

\* What a step of a pass does to its claims, but for the claim itself.
LEMMA StepShape ==
    ASSUME ArgumentsSound, NEW o \in Owners,
           OpenTenant(o) \/ PassStep(o) \/ Failure(o),
           ~ (ClaimParents(o) /\ ~ End(o))
    PROVE  /\ \A q \in Owners \ {o} : pass'[q] = pass[q]
           /\ Stays(o) \/ Leaves(o) \/ Takes(o) \/ HoldsNothing(o)
<1>p. pass \in [Owners -> Pass] /\ pass[o] \in Pass
  BY DEF ArgumentsSound
<1>e. CASE End(o)
  BY <1>e, EndFields
<1>n. CASE NextDigest(o)
  BY <1>n, NextDigestFields
<1> SUFFICES ASSUME ~ End(o), ~ NextDigest(o)
             PROVE  /\ \A q \in Owners \ {o} : pass'[q] = pass[q]
                    /\ Stays(o) \/ Leaves(o) \/ Takes(o) \/ HoldsNothing(o)
  BY <1>e, <1>n
<1>1. CASE OpenTenant(o)
  <2>1. PICK config \in ChannelSets :
            pass' = [pass EXCEPT ![o] = [Fresh EXCEPT
                        !.pc = "claim", !.opened = now, !.config = config]]
    BY <1>1 DEF OpenTenant
  <2>2. /\ \A q \in Owners \ {o} : pass'[q] = pass[q]
        /\ pass'[o] = [Fresh EXCEPT !.pc = "claim", !.opened = now, !.config = config]
    BY <1>p, <2>1
  <2> QED
    BY <2>2 DEF Fresh, HoldsNothing
<1>2. CASE NextParent(o)
  <2>1. PICK claim \in pass[o].held :
            pass' = [pass EXCEPT ![o].pc = "materialize", ![o].at = now,
                                 ![o].held = @ \ {claim}, ![o].parent = claim]
    BY <1>2 DEF NextParent
  <2>2. \A q \in Owners \ {o} : pass'[q] = pass[q]
    BY <1>p, <2>1
  <2>3. /\ pass'[o].pc = "materialize" /\ pass'[o].opened = pass[o].opened
        /\ pass'[o].held = pass[o].held \ {claim} /\ pass'[o].parent = claim
    BY <1>p, <2>1 DEF Pass
  <2> QED
    BY <1>2, <2>2, <2>3 DEF Takes, NextParent, At
<1>3. CASE MaterializeParent(o)
  <2> DEFINE batch == PendingMembers(Digest(o))
             pc == IF batch = {} THEN "skip" ELSE "list"
  <2>1. pass' = [pass EXCEPT ![o].batch = batch, ![o].pc = pc]
    BY <1>3 DEF MaterializeParent, LeaveLeased
  <2>2. pass[o].pc \in Delivering /\ pc \in Delivering
    BY <1>3 DEF MaterializeParent, At, Delivering
  <2> HIDE DEF batch, pc
  <2>3. /\ pass'[o].pc = pc /\ pass'[o].opened = pass[o].opened
        /\ pass'[o].held = pass[o].held /\ pass'[o].parent = pass[o].parent
        /\ \A q \in Owners \ {o} : pass'[q] = pass[q]
    BY <1>p, <2>1 DEF Pass
  <2> QED
    BY <2>2, <2>3 DEF Stays
<1>4. CASE ClaimChildren(o)
  <2> DEFINE claimed == {<<ch, channels'[Digest(o)][ch].attempts>> :
                            ch \in ClaimableChannels(Digest(o), pass[o].at)}
  <2>1. pass' = [pass EXCEPT ![o].pc = "tokens", ![o].children = claimed]
    BY <1>4 DEF ClaimChildren, LeaveLeased
  <2>2. pass[o].pc \in Delivering /\ "tokens" \in Delivering
    BY <1>4 DEF ClaimChildren, At, Delivering
  <2> HIDE DEF claimed
  <2>3. /\ pass'[o].pc = "tokens" /\ pass'[o].opened = pass[o].opened
        /\ pass'[o].held = pass[o].held /\ pass'[o].parent = pass[o].parent
        /\ \A q \in Owners \ {o} : pass'[q] = pass[q]
    BY <1>p, <2>1 DEF Pass
  <2> QED
    BY <2>2, <2>3 DEF Stays
<1>5. CASE StartSend(o)
  <2>1. PICK child \in pass[o].children :
            pass' = [pass EXCEPT ![o].pc = "sending", ![o].child = child,
                                 ![o].children = @ \ {child}]
    BY <1>5 DEF StartSend
  <2>2. pass[o].pc \in Delivering /\ "sending" \in Delivering
    BY <1>5 DEF StartSend, At, Delivering
  <2>3. /\ pass'[o].pc = "sending" /\ pass'[o].opened = pass[o].opened
        /\ pass'[o].held = pass[o].held /\ pass'[o].parent = pass[o].parent
        /\ \A q \in Owners \ {o} : pass'[q] = pass[q]
    BY <1>p, <2>1 DEF Pass
  <2> QED
    BY <2>2, <2>3 DEF Stays
<1>6. CASE \/ SkipChildren(o) \/ ListChildren(o) \/ EnsureChildren(o) \/ EnsureTokens(o)
           \/ NoMoreChildren(o) \/ SendSucceeds(o) \/ AckChild(o) \/ RetryChild(o)
           \/ Relist(o) \/ SendFails(o) \/ AckAnswerLost(o) \/ StoreCallFails(o)
  <2>1. pass[o].pc \in Delivering
    BY <1>6 DEF SkipChildren, ListChildren, EnsureChildren, EnsureTokens, NoMoreChildren,
       SendSucceeds, AckChild, RetryChild, Relist, SendFails, AckAnswerLost, StoreCallFails, At,
       Delivering
  <2>2. \E pc \in Delivering : Goes(o, pc)
    BY <1>6 DEF SkipChildren, ListChildren, EnsureChildren, EnsureTokens, NoMoreChildren,
       SendSucceeds, AckChild, RetryChild, Relist, SendFails, AckAnswerLost, StoreCallFails,
       LeaveLeased, Delivering, Goes
  <2> QED
    BY <2>1, <2>2, GoesFields, GoStays
<1>7. ~ FinalizeParent(o) /\ ~ Abandon(o)
  BY DEF FinalizeParent, Abandon, LeaveLeased
<1> QED
  BY <1>1, <1>2, <1>3, <1>4, <1>5, <1>6, <1>7 DEF PassStep, Failure, ClaimParents

-----------------------------------------------------------------------------
(* What a step does to a digest row *)

Claimed(d) == parents[d].status \in {"leased", "sent"}

\* A lease that runs is only ended by the pass that holds it, when it finalizes
\* the digest; and no digest that was claimed waits to be opened again.
LEMMA LeasedRow ==
    ASSUME ArgumentsSound, [DeliveryNext]_deliveryVars, NEW d \in Digests
    PROVE  /\ Claimed(d) => Claimed(d)'
           /\ parents[d].status = "leased" /\ parents[d].leaseUntil > now =>
                \/ parents'[d] = parents[d]
                \/ \E o \in Owners : /\ FinalizeParent(o) /\ Digest(o) = d
                                     /\ parents[d].owner = o /\ NextDigest(o)
<1> DEFINE Goal == /\ Claimed(d) => Claimed(d)'
                   /\ parents[d].status = "leased" /\ parents[d].leaseUntil > now =>
                        \/ parents'[d] = parents[d]
                        \/ \E o \in Owners : /\ FinalizeParent(o) /\ Digest(o) = d
                                             /\ parents[d].owner = o /\ NextDigest(o)
<1>t. /\ parents \in [Digests -> ParentRow] /\ parents[d] \in ParentRow
      /\ parents[d].leaseUntil \in Nat /\ now \in Nat
  BY ConstantsAssumption DEF ArgumentsSound, TypeOK, ParentRow, Time
<1> SUFFICES Goal
  OBVIOUS
<1>u. parents'[d] = parents[d] => Goal
  BY DEF Claimed
<1> HIDE DEF Goal
<1>1. CASE Outside
  <2>1. ASSUME NEW c \in Comments, CreatePendingComment(c, now) PROVE Goal
    <3> DEFINE e == SiteDigestKey(interval, now)
    <3>1. \/ parents' = parents
          \/ /\ parents[e].status = "absent"
             /\ parents' = [parents EXCEPT ![e] = parents'[e]]
      BY <2>1, <1>t DEF CreatePendingComment, EnsurePendingDigest
    <3> HIDE DEF e
    <3>2. CASE d = e /\ parents[e].status = "absent"
      BY <3>2 DEF Goal, Claimed
    <3>3. CASE d # e \/ parents' = parents
      BY <3>1, <3>3, <1>t, <1>u
    <3> QED
      BY <3>1, <3>2, <3>3
  <2>2. parents' = parents \/ \E c \in Comments : CreatePendingComment(c, now)
    BY <1>1 DEF Outside, ModeratorStep, UpdateComment, DeleteComment, UpdateSiteInterval, DeleteSite
  <2> QED
    BY <2>1, <2>2, <1>u
<1>2. ASSUME NEW o \in Owners, ClaimParents(o) PROVE Goal
  <2>1. CASE parents' = parents
    BY <2>1, <1>u
  <2>2. ASSUME NEW t \in CallTimes, ClaimNotificationOutbox(o, t) PROVE Goal
    <3>1. PICK S \in SUBSET Eligible(t) :
            parents' = [e \in Digests |-> IF e \in S THEN Leased(parents[e], o, t + ParentLease)
                                                    ELSE parents[e]]
      BY <2>2 DEF ClaimNotificationOutbox
    <3>2. CASE d \notin S
      BY <3>1, <3>2, <1>u
    <3>3. CASE d \in S
      <4>0. t \in Nat /\ t <= now
        BY DEF CallTimes, Time
      <4>1. Claimable(parents[d], t)
        BY <3>3 DEF Eligible
      <4>2. ~ (parents[d].status = "leased" /\ parents[d].leaseUntil > now)
        BY <4>0, <4>1, <1>t DEF Claimable
      <4>3. parents'[d].status = "leased"
        BY <3>1, <3>3, <1>t DEF Leased, ParentRow
      <4> QED
        BY <4>2, <4>3 DEF Goal, Claimed
    <3> QED
      BY <3>2, <3>3
  <2> QED
    BY <1>2, <2>1, <2>2, ReadTime DEF ClaimParents, vars, store
<1>3. ASSUME NEW o \in Owners, FinalizeParent(o) PROVE Goal
  <2>1. CASE parents' = parents
    BY <2>1, <1>u
  <2>2. CASE FinalizeClaimedSiteDigest(Digest(o), o, Generation(o), pass[o].at) /\ NextDigest(o)
    <3>1. /\ parents' = [parents EXCEPT ![Digest(o)] = Unleased(@, "sent")]
          /\ parents[Digest(o)].owner = o
      BY <2>2 DEF FinalizeClaimedSiteDigest, Finalizable, Materializable, Loadable, ClaimedDigest, Holds
    <3>2. CASE Digest(o) # d
      BY <3>1, <3>2, <1>t, <1>u
    <3>3. CASE Digest(o) = d
      <4>1. parents'[d].status = "sent"
        BY <3>1, <3>3, <1>t DEF Unleased, ParentRow
      <4> QED
        BY <1>3, <2>2, <3>1, <3>3, <4>1 DEF Goal, Claimed
    <3> QED
      BY <3>2, <3>3
  <2> QED
    BY <1>3, <2>1, <2>2 DEF FinalizeParent, LeaveLeased, vars, store
<1>4. CASE parents' = parents
  BY <1>4, <1>u
<1>5. ASSUME NEW o \in Owners, OpenTenant(o) \/ PassStep(o) \/ Failure(o),
             ~ ClaimParents(o), ~ FinalizeParent(o)
      PROVE  parents' = parents
  BY <1>5 DEF OpenTenant, PassStep, Failure, NextParent, MaterializeParent, SkipChildren,
     SkipNotificationOutboxChannels, ListChildren, EnsureChildren,
     EnsureNotificationOutboxChannels, ClaimChildren, ClaimNotificationOutboxChannels,
     EnsureTokens, StartSend, NoMoreChildren, SendSucceeds, AckChild,
     AckNotificationOutboxChannel, RetryChild, RetryNotificationOutboxChannel, Relist,
     SendFails, StoreCallFails, AckAnswerLost, Abandon, LeaveLeased, store, vars
<1>6. Clock \/ (\E r \in requests : ProviderAccepts(r)) \/ UNCHANGED deliveryVars => parents' = parents
  BY DEF Clock, Tick, ProviderAccepts, deliveryVars, store, vars
<1> QED
  BY <1>1, <1>2, <1>3, <1>4, <1>5, <1>6, <1>u DEF DeliveryNext, PassStep

-----------------------------------------------------------------------------
(* A pass holds the leases of the digests it has claimed *)

LeasedBy(row, o, generation) ==
    row.status = "leased" /\ row.owner = o /\ row.attempts = generation

\* The lease that a claim denotes outlasts the deadline of its pass, and is
\* the pass's own until then.
ClaimHeld(o, claim) ==
    /\ Deadline(o) <= claim.until
    /\ Claimed(claim.digest)
    /\ now < Deadline(o) =>
        /\ LeasedBy(parents[claim.digest], o, claim.generation)
        /\ parents[claim.digest].leaseUntil = claim.until

ClaimsHeldBy(o) ==
    /\ \A claim \in pass[o].held : ClaimHeld(o, claim)
    /\ \A claim, other \in pass[o].held :
            claim.digest = other.digest => claim = other
    /\ pass[o].pc \in Delivering =>
        /\ ClaimHeld(o, pass[o].parent)
        /\ \A claim \in pass[o].held : claim.digest # Digest(o)

ClaimsHeld == \A o \in Owners : ClaimsHeldBy(o)

LEMMA DeadlineType ==
    ASSUME ArgumentsSound, NEW o \in Owners
    PROVE  /\ pass[o].opened \in Nat /\ TenantTimeout \in Nat \ {0}
           /\ Deadline(o) \in Nat /\ Deadline(o) = pass[o].opened + TenantTimeout
           /\ now \in Nat
BY ConstantsAssumption, DeliveryAssumption DEF ArgumentsSound, Pass, Time, TypeOK, Deadline

LEMMA DeliveryTime ==
    ASSUME ArgumentsSound, [DeliveryNext]_deliveryVars
    PROVE  now \in Nat /\ now' \in Nat /\ now <= now'
BY DeliveryStep, NowGrows DEF ArgumentsSound

LEMMA ClaimStays ==
    ASSUME ArgumentsSound, [DeliveryNext]_deliveryVars, NEW q \in Owners,
           NEW claim \in Claims, ClaimHeld(q, claim),
           pass'[q].opened = pass[q].opened,
           ~ (NextDigest(q) /\ FinalizeParent(q) /\ Digest(q) = claim.digest)
    PROVE  ClaimHeld(q, claim)'
<1> DEFINE d == claim.digest
<1>1. d \in Digests /\ claim.until \in Nat
  BY DEF Claims
<1>2. /\ pass[q].opened \in Nat /\ TenantTimeout \in Nat /\ Deadline(q) \in Nat
      /\ Deadline(q)' = Deadline(q)
      /\ now \in Nat /\ now' \in Nat /\ now <= now'
  BY DeadlineType, DeliveryTime DEF Deadline
<1>3. Claimed(d)' /\ Deadline(q)' <= claim.until
  BY <1>1, <1>2, LeasedRow DEF ClaimHeld
<1>4. ASSUME now' < Deadline(q)'
      PROVE  parents'[d] = parents[d]
  <2>1. now < Deadline(q)
    BY <1>2, <1>4
  <2>2. parents[d].status = "leased" /\ parents[d].owner = q /\ parents[d].leaseUntil > now
    BY <1>1, <1>2, <2>1 DEF ClaimHeld, LeasedBy
  <2> QED
    BY <1>1, <2>2, LeasedRow
<1>5. now' < Deadline(q)' => now < Deadline(q)
  BY <1>2
<1> QED
  BY <1>3, <1>4, <1>5 DEF ClaimHeld, LeasedBy

LEMMA HeldType ==
    ASSUME ArgumentsSound, NEW o \in Owners
    PROVE  /\ pass[o] \in Pass
           /\ \A claim \in pass[o].held : claim \in Claims
           /\ pass[o].pc \in Delivering => pass[o].parent \in Claims
<1>1. pass[o] \in Pass /\ Sound(pass[o], now)
  BY DEF ArgumentsSound
<1> QED
  BY <1>1 DEF Pass, Sound, SoundClaim

\* A pass that is not part of the step.
LEMMA OtherClaimsStay ==
    ASSUME ArgumentsSound, ClaimsHeld, [DeliveryNext]_deliveryVars, NEW q \in Owners,
           pass'[q] = pass[q]
    PROVE  ClaimsHeldBy(q)'
<1>1. ~ (NextDigest(q) /\ pass[q].pc \in Delivering)
  BY NextDigestFields DEF Delivering, Leaves
<1>2. ~ (NextDigest(q) /\ FinalizeParent(q))
  BY <1>1 DEF FinalizeParent, At, Delivering
<1>3. ASSUME NEW claim \in pass[q].held PROVE ClaimHeld(q, claim)'
  BY <1>2, HeldType, ClaimStays DEF ClaimsHeld, ClaimsHeldBy
<1>4. ASSUME pass[q].pc \in Delivering, NEW claim, claim = pass[q].parent
      PROVE  ClaimHeld(q, claim)'
  BY <1>2, <1>4, HeldType, ClaimStays DEF ClaimsHeld, ClaimsHeldBy
<1>5. pass[q].pc \in Delivering => ClaimHeld(q, pass[q].parent)'
  <2> SUFFICES ASSUME pass[q].pc \in Delivering PROVE ClaimHeld(q, pass[q].parent)'
    OBVIOUS
  <2> DEFINE claim == pass[q].parent
  <2>1. ClaimHeld(q, claim)' 
    BY <1>4 DEF ClaimHeld, LeasedBy, Claimed, Deadline
  <2> QED
    BY <2>1
<1> QED
  BY <1>3, <1>5 DEF ClaimsHeld, ClaimsHeldBy, Digest

\* The claims that ClaimNotificationOutbox returns.
LEMMA NewClaims ==
    ASSUME ArgumentsSound, NEW o \in Owners, ClaimParents(o), ~ End(o)
    PROVE  /\ \A q \in Owners \ {o} : pass'[q] = pass[q]
           /\ pass'[o].pc = "parents" /\ pass'[o].opened = pass[o].opened
           /\ \A claim \in pass'[o].held : ClaimHeld(o, claim)'
           /\ \A claim, other \in pass'[o].held :
                claim.digest = other.digest => claim = other
<1> DEFINE held == {Claim(d, parents'[d].attempts, parents'[d].leaseUntil) :
                        d \in {e \in Digests : parents'[e] # parents[e]}}
<1>1. PICK t \in pass[o].opened .. now :
        /\ ClaimNotificationOutbox(o, t)
        /\ pass' = [pass EXCEPT ![o].pc = "parents", ![o].held = held]
  BY DEF ClaimParents
<1>2. pass \in [Owners -> Pass] /\ pass[o] \in Pass
  BY DEF ArgumentsSound
<1> HIDE DEF held
<1>3. /\ \A q \in Owners \ {o} : pass'[q] = pass[q]
      /\ pass'[o].pc = "parents" /\ pass'[o].opened = pass[o].opened
      /\ pass'[o].held = held
  BY <1>1, <1>2 DEF Pass
<1>4. PICK S \in SUBSET Eligible(t) :
        parents' = [d \in Digests |-> IF d \in S THEN Leased(parents[d], o, t + ParentLease)
                                                ELSE parents[d]]
  BY <1>1 DEF ClaimNotificationOutbox
<1>5. /\ now' = now /\ Deadline(o)' = Deadline(o) /\ Deadline(o) <= t + ParentLease
      /\ parents \in [Digests -> ParentRow]
  <2>1. now' = now
    BY <1>1 DEF ClaimNotificationOutbox
  <2>2. t \in Nat /\ pass[o].opened \in Nat /\ pass[o].opened <= t
    BY <1>1, <1>2, ConstantsAssumption DEF ArgumentsSound, TypeOK, Pass, Time
  <2>3. ParentLease \in Nat /\ ParentLease >= TenantTimeout
    BY ConstantsAssumption, DeliveryAssumption
  <2> QED
    BY <1>3, <2>1, <2>2, <2>3, DeadlineType DEF Deadline, ArgumentsSound, TypeOK
<1>6. ASSUME NEW claim \in held PROVE ClaimHeld(o, claim)'
  <2>1. PICK d \in Digests : /\ parents'[d] # parents[d]
                             /\ claim = Claim(d, parents'[d].attempts, parents'[d].leaseUntil)
    BY <1>6 DEF held
  <2>2. parents'[d] = Leased(parents[d], o, t + ParentLease) /\ parents[d] \in ParentRow
    BY <1>4, <1>5, <2>1
  <2>3. /\ parents'[d].status = "leased" /\ parents'[d].owner = o
        /\ parents'[d].leaseUntil = t + ParentLease
    BY <2>2 DEF Leased, ParentRow
  <2>4. /\ claim.digest = d /\ claim.generation = parents'[d].attempts
        /\ claim.until = parents'[d].leaseUntil
    BY <2>1 DEF Claim
  <2> QED
    BY <1>5, <2>3, <2>4 DEF ClaimHeld, LeasedBy, Claimed
<1>7. ASSUME NEW claim \in held, NEW other \in held, claim.digest = other.digest
      PROVE  claim = other
  BY <1>7 DEF held, Claim
<1> QED
  BY <1>3, <1>6, <1>7
LEMMA OwnClaimsStay ==
    ASSUME ArgumentsSound, ClaimsHeld, [DeliveryNext]_deliveryVars, NEW o \in Owners,
           Stays(o) \/ Leaves(o) \/ Takes(o) \/ HoldsNothing(o)
    PROVE  ClaimsHeldBy(o)'
<1>h. /\ \A claim \in pass[o].held : claim \in Claims /\ ClaimHeld(o, claim)
      /\ \A claim, other \in pass[o].held : claim.digest = other.digest => claim = other
  BY HeldType DEF ClaimsHeld, ClaimsHeldBy
<1>1. CASE Stays(o)
  <2>1. ~ NextDigest(o)
    BY <1>1, NextDigestFields DEF Stays, Delivering
  <2>2. /\ pass'[o].opened = pass[o].opened /\ pass'[o].held = pass[o].held
        /\ pass'[o].parent = pass[o].parent /\ pass[o].pc \in Delivering
    BY <1>1 DEF Stays
  <2>3. ASSUME NEW claim \in pass[o].held PROVE ClaimHeld(o, claim)'
    BY <1>h, <2>1, <2>2, ClaimStays
  <2>4. ASSUME NEW claim, claim = pass[o].parent PROVE ClaimHeld(o, claim)'
    BY <2>1, <2>2, <2>4, HeldType, ClaimStays DEF ClaimsHeld, ClaimsHeldBy
  <2>5. ClaimHeld(o, pass[o].parent)'
    BY <2>2, <2>4 DEF ClaimHeld, LeasedBy, Claimed, Deadline
  <2>6. \A claim \in pass[o].held : claim.digest # Digest(o)
    BY <2>2 DEF ClaimsHeld, ClaimsHeldBy
  <2> QED
    BY <1>h, <2>2, <2>3, <2>5, <2>6 DEF ClaimsHeldBy, Digest
<1>2. CASE Leaves(o)
  <2>1. /\ pass'[o].opened = pass[o].opened /\ pass'[o].held = pass[o].held
        /\ pass'[o].pc \notin Delivering
    BY <1>2 DEF Leaves, Delivering
  <2>2. ASSUME NEW claim \in pass[o].held PROVE ~ (FinalizeParent(o) /\ Digest(o) = claim.digest)
    BY DEF ClaimsHeld, ClaimsHeldBy, FinalizeParent, At, Delivering
  <2>3. ASSUME NEW claim \in pass[o].held PROVE ClaimHeld(o, claim)'
    BY <1>h, <2>1, <2>2, ClaimStays
  <2> QED
    BY <1>h, <2>1, <2>3 DEF ClaimsHeldBy
<1>3. CASE Takes(o)
  <2>1. ~ FinalizeParent(o) /\ pass'[o].opened = pass[o].opened
    BY <1>3 DEF Takes, FinalizeParent, At
  <2>2. PICK taken \in pass[o].held :
            pass'[o].held = pass[o].held \ {taken} /\ pass'[o].parent = taken
    BY <1>3 DEF Takes
  <2>3. ASSUME NEW claim \in pass[o].held PROVE ClaimHeld(o, claim)'
    BY <1>h, <2>1, ClaimStays
  <2>4. ClaimHeld(o, pass[o].parent)'
    BY <2>2, <2>3 DEF ClaimHeld, LeasedBy, Claimed, Deadline
  <2>5. \A claim \in pass'[o].held : claim \in pass[o].held /\ claim.digest # pass'[o].parent.digest
    BY <1>h, <2>2
  <2> QED
    BY <1>h, <2>3, <2>4, <2>5 DEF ClaimsHeldBy, Digest
<1>4. CASE HoldsNothing(o)
  BY <1>4 DEF HoldsNothing, ClaimsHeldBy, Delivering
<1> QED
  BY <1>1, <1>2, <1>3, <1>4

LEMMA ClaimsHeldStep ==
    ASSUME ArgumentsSound, ClaimsHeld, [DeliveryNext]_deliveryVars
    PROVE  ClaimsHeld'
<1>1. CASE pass' = pass
  BY <1>1, OtherClaimsStay DEF ClaimsHeld
<1>2. ASSUME NEW o \in Owners, OpenTenant(o) \/ PassStep(o) \/ Failure(o)
      PROVE  ClaimsHeld'
  <2>1. \A q \in Owners \ {o} : pass'[q] = pass[q]
    BY <1>2, StepShape, NewClaims
  <2>2. CASE ClaimParents(o) /\ ~ End(o)
    <3>1. ClaimsHeldBy(o)'
      BY <2>2, NewClaims DEF ClaimsHeldBy, Delivering
    <3> QED
      BY <2>1, <3>1, OtherClaimsStay DEF ClaimsHeld
  <2>3. CASE ~ (ClaimParents(o) /\ ~ End(o))
    <3>1. ClaimsHeldBy(o)'
      BY <1>2, <2>3, StepShape, OwnClaimsStay
    <3> QED
      BY <2>1, <3>1, OtherClaimsStay DEF ClaimsHeld
  <2> QED
    BY <2>2, <2>3
<1>3. Outside \/ Clock \/ (\E r \in requests : ProviderAccepts(r)) \/ UNCHANGED deliveryVars
        => pass' = pass
  BY DEF Outside, Clock, ProviderAccepts, deliveryVars
<1> QED
  BY <1>1, <1>2, <1>3 DEF DeliveryNext

-----------------------------------------------------------------------------
(* What a step does to channel rows *)

\* The calls that write channel rows.
WritesChannels(o) ==
    \/ SkipChildren(o) \/ EnsureChildren(o) \/ ClaimChildren(o)
    \/ AckChild(o) \/ RetryChild(o) \/ AckAnswerLost(o)

\* Only a pass that delivers the digest writes them, within its deadline.
LEMMA ChannelsChange ==
    ASSUME ArgumentsSound, [DeliveryNext]_deliveryVars, NEW d \in Digests,
           channels'[d] # channels[d]
    PROVE  \E o \in Owners :
                /\ WritesChannels(o) /\ Digest(o) = d
                /\ pass[o].pc \in Delivering /\ now < Deadline(o)
                /\ pass'[o].pc # pass[o].pc
<1>t. channels \in [Digests -> [Channels -> ChannelRow]]
  BY DEF ArgumentsSound, TypeOK
<1>1. PICK o \in Owners : WritesChannels(o)
  <2>1. channels' # channels
    OBVIOUS
  <2>2. ~ Outside /\ ~ Clock /\ ~ (\E r \in requests : ProviderAccepts(r))
    BY <2>1 DEF Outside, ModeratorStep, CreatePendingComment, UpdateComment, DeleteComment,
       UpdateSiteInterval, DeleteSite, Clock, Tick, ProviderAccepts, store, vars
  <2>3. PICK o \in Owners : OpenTenant(o) \/ PassStep(o) \/ Failure(o)
    BY <2>1, <2>2 DEF DeliveryNext, deliveryVars, store, vars
  <2>4. ~ OpenTenant(o) /\ ~ ClaimParents(o) /\ ~ NextParent(o) /\ ~ MaterializeParent(o)
    BY <2>1 DEF OpenTenant, ClaimParents, ClaimNotificationOutbox, NextParent,
       MaterializeParent, LeaveLeased, store, vars
  <2>5. /\ ~ ListChildren(o) /\ ~ EnsureTokens(o) /\ ~ StartSend(o) /\ ~ NoMoreChildren(o)
        /\ ~ SendSucceeds(o) /\ ~ Relist(o) /\ ~ FinalizeParent(o)
    BY <2>1 DEF ListChildren, EnsureTokens, StartSend, NoMoreChildren, SendSucceeds, Relist,
       FinalizeParent, FinalizeClaimedSiteDigest, LeaveLeased, store, vars
  <2>6. ~ SendFails(o) /\ ~ StoreCallFails(o) /\ ~ Abandon(o)
    BY <2>1 DEF SendFails, StoreCallFails, Abandon, store, vars
  <2> QED
    BY <2>3, <2>4, <2>5, <2>6 DEF PassStep, Failure, WritesChannels
<1>2. pass[o].pc \in {"skip", "ensure", "children", "ack", "retry"} /\ now < Deadline(o)
  BY <1>1 DEF WritesChannels, SkipChildren, EnsureChildren, ClaimChildren, AckChild,
     RetryChild, AckAnswerLost, At
<1>3. channels' # channels
  OBVIOUS
<1>4. Digest(o) = d
  BY <1>1, <1>3, <1>t DEF WritesChannels, SkipChildren, EnsureChildren, ClaimChildren, AckChild,
     RetryChild, AckAnswerLost, SkipNotificationOutboxChannels, CloseOutstanding,
     EnsureNotificationOutboxChannels, ClaimNotificationOutboxChannels,
     AckNotificationOutboxChannel, RetryNotificationOutboxChannel, LeaveLeased, store, vars
<1>5. pass'[o].pc # pass[o].pc
  <2>1. CASE NextDigest(o)
    BY <1>2, <2>1, NextDigestFields
  <2>2. CASE \E pc : Goes(o, pc) /\ pc # pass[o].pc
    BY <2>2, GoesFields
  <2>3. CASE ClaimChildren(o) /\ ~ NextDigest(o)
    <3>1. pass'[o].pc = "tokens" /\ pass[o].pc = "children"
      BY <2>3 DEF ClaimChildren, LeaveLeased, At, ArgumentsSound, Pass
    <3> QED
      BY <3>1
  <2>4. CASE ~ NextDigest(o) /\ ~ ClaimChildren(o)
    <3>1. \E pc : Goes(o, pc) /\ pc # pass[o].pc
      BY <1>1, <2>4 DEF WritesChannels, SkipChildren, EnsureChildren, AckChild,
         RetryChild, AckAnswerLost, LeaveLeased, At, Goes
    <3> QED
      BY <2>2, <3>1
  <2> QED
    BY <2>1, <2>3, <2>4
<1>6. pass[o].pc \in Delivering
  BY <1>2 DEF Delivering
<1> QED
  BY <1>1, <1>2, <1>4, <1>5, <1>6

\* So nobody writes the channels of a digest that another pass delivers.
LEMMA ChannelsOfOthersStay ==
    ASSUME ArgumentsSound, ClaimsHeld, [DeliveryNext]_deliveryVars, NEW q \in Owners,
           pass'[q] = pass[q], pass[q].pc \in Delivering, now' < Deadline(q)'
    PROVE  now < Deadline(q) /\ channels'[Digest(q)] = channels[Digest(q)]
<1>1. now < Deadline(q)
  BY DeadlineType, DeliveryTime DEF Deadline
<1>2. Digest(q) \in Digests
  BY HeldType DEF Claims, Digest
<1>3. ASSUME channels'[Digest(q)] # channels[Digest(q)] PROVE FALSE
  <2>1. PICK o \in Owners :
                /\ Digest(o) = Digest(q) /\ pass[o].pc \in Delivering /\ now < Deadline(o)
                /\ pass'[o].pc # pass[o].pc
    BY <1>2, <1>3, ChannelsChange
  <2>2. parents[Digest(o)].owner = o /\ parents[Digest(q)].owner = q
    BY <1>1, <2>1 DEF ClaimsHeld, ClaimsHeldBy, ClaimHeld, LeasedBy, Digest
  <2> QED
    BY <2>1, <2>2
<1> QED
  BY <1>1, <1>3

-----------------------------------------------------------------------------
(* A pass holds the leases of the channels it has claimed *)

WithChildren == {"tokens", "send", "sending", "ack", "retry"}

ChildHeld(o, child) ==
    now < Deadline(o) =>
        /\ LeasedBy(channels[Digest(o)][child[1]], o, child[2])
        /\ Deadline(o) <= channels[Digest(o)][child[1]].leaseUntil

ChildrenHeldBy(o) ==
    pass[o].pc \in WithChildren =>
        /\ \A child \in pass[o].children : child \in Channels \X Nat /\ ChildHeld(o, child)
        /\ \A child, other \in pass[o].children : child[1] = other[1] => child = other
        /\ pass[o].pc \in {"sending", "ack"} => ChildHeld(o, pass[o].child)
        /\ pass[o].pc \in WithChild =>
                \A child \in pass[o].children : child[1] # Channel(o)

ChildrenHeld == \A o \in Owners : ChildrenHeldBy(o)

\* A pass that is about to insert channel rows does so for a digest without any.
NoRowsYetBy(o) ==
    pass[o].pc = "ensure" /\ now < Deadline(o) => Rows(Digest(o)) = {}

NoRowsYet == \A o \in Owners : NoRowsYetBy(o)

LEMMA OtherChildrenStay ==
    ASSUME ArgumentsSound, ClaimsHeld, ChildrenHeld, NoRowsYet,
           [DeliveryNext]_deliveryVars, NEW q \in Owners, pass'[q] = pass[q]
    PROVE  ChildrenHeldBy(q)' /\ NoRowsYetBy(q)'
<1>1. ChildrenHeldBy(q) /\ NoRowsYetBy(q)
  BY DEF ChildrenHeld, NoRowsYet
<1>2. CASE pass[q].pc \notin Delivering
  BY <1>2 DEF ChildrenHeldBy, NoRowsYetBy, WithChildren, Delivering
<1>3. CASE pass[q].pc \in Delivering /\ ~ (now' < Deadline(q)')
  BY <1>1, <1>3 DEF ChildrenHeldBy, NoRowsYetBy, ChildHeld, Channel
<1>4. CASE pass[q].pc \in Delivering /\ now' < Deadline(q)'
  <2>1. now < Deadline(q) /\ channels'[Digest(q)] = channels[Digest(q)]
    BY <1>4, ChannelsOfOthersStay
  <2>2. Deadline(q)' = Deadline(q) /\ Digest(q)' = Digest(q) /\ Channel(q)' = Channel(q)
    BY DEF Deadline, Digest, Channel
  <2>3. ASSUME NEW child, ChildHeld(q, child) PROVE ChildHeld(q, child)'
    BY <2>1, <2>2, <2>3 DEF ChildHeld, LeasedBy
  <2>4. ChildHeld(q, pass[q].child) => ChildHeld(q, pass[q].child)'
    BY <2>1, <2>2 DEF ChildHeld, LeasedBy
  <2>5. ChildrenHeldBy(q)'
    BY <1>1, <2>2, <2>3, <2>4 DEF ChildrenHeldBy
  <2>6. NoRowsYetBy(q)'
    BY <1>1, <2>1, <2>2 DEF NoRowsYetBy, Rows
  <2> QED
    BY <2>5, <2>6
<1> QED
  BY <1>2, <1>3, <1>4

\* The claims of the channels that ClaimNotificationOutboxChannels returns.
LEMMA NewChildren ==
    ASSUME ArgumentsSound, [DeliveryNext]_deliveryVars, NEW o \in Owners,
           ClaimChildren(o), ~ NextDigest(o)
    PROVE  ChildrenHeldBy(o)' /\ NoRowsYetBy(o)'
<1> DEFINE d == Digest(o)
           t == pass[o].at
           children == {<<ch, channels'[d][ch].attempts>> : ch \in ClaimableChannels(d, t)}
<1>1. /\ pass[o].pc = "children" /\ now < Deadline(o)
      /\ ClaimNotificationOutboxChannels(d, o, t)
      /\ pass' = [pass EXCEPT ![o].pc = "tokens", ![o].children = children]
  BY DEF ClaimChildren, LeaveLeased, At
<1>2. pass \in [Owners -> Pass] /\ pass[o] \in Pass /\ Sound(pass[o], now)
  BY DEF ArgumentsSound
<1> HIDE DEF children
<1>3. /\ pass'[o].pc = "tokens" /\ pass'[o].opened = pass[o].opened
      /\ pass'[o].parent = pass[o].parent /\ pass'[o].children = children
  BY <1>1, <1>2 DEF Pass
<1>4. d \in Digests
  BY <1>1, HeldType DEF Delivering, Claims, Digest
<1>5. channels \in [Digests -> [Channels -> ChannelRow]] /\ channels' \in [Digests -> [Channels -> ChannelRow]]
  <2>1. TypeOK'
    BY NextArgumentsSound DEF ArgumentsSound
  <2> QED
    BY <2>1 DEF ArgumentsSound, TypeOK
<1>6. ASSUME NEW ch \in ClaimableChannels(d, t)
      PROVE  /\ ch \in Channels
             /\ channels'[d][ch] = Leased(channels[d][ch], o, t + ChildLease)
  BY <1>1, <1>4, <1>5 DEF ClaimNotificationOutboxChannels, ClaimableChannels
<1>7. /\ Deadline(o)' = Deadline(o) /\ Digest(o)' = d /\ Deadline(o) <= t + ChildLease
  <2>1. pass[o].opened <= t /\ t \in Nat
    BY <1>1, <1>2 DEF Sound, Delivering, Pass, Time, TypeOK
  <2>2. ChildLease \in Nat /\ ChildLease >= TenantTimeout
    BY ConstantsAssumption, DeliveryAssumption
  <2> QED
    BY <1>3, <2>1, <2>2, DeadlineType DEF Deadline, Digest
<1>8. ASSUME NEW child \in children PROVE child \in Channels \X Nat /\ ChildHeld(o, child)'
  <2>1. PICK ch \in ClaimableChannels(d, t) : child = <<ch, channels'[d][ch].attempts>>
    BY <1>8 DEF children
  <2>2. ch \in Channels /\ channels[d][ch] \in ChannelRow /\ channels'[d][ch] \in ChannelRow
    BY <1>4, <1>5, <1>6
  <2>3. /\ channels'[d][ch].status = "leased" /\ channels'[d][ch].owner = o
        /\ channels'[d][ch].leaseUntil = t + ChildLease
        /\ channels'[d][ch].attempts \in Nat
    BY <1>6, <2>2 DEF Leased, ChannelRow
  <2> QED
    BY <1>7, <2>1, <2>2, <2>3 DEF ChildHeld, LeasedBy
<1>9. ASSUME NEW child \in children, NEW other \in children, child[1] = other[1]
      PROVE  child = other
  BY <1>9 DEF children
<1> QED
  BY <1>3, <1>8, <1>9 DEF ChildrenHeldBy, NoRowsYetBy, WithChild

\* A call that leaves the channel rows alone.
LEMMA QuietChildren ==
    ASSUME ArgumentsSound, NEW o \in Owners, ChildrenHeldBy(o), [DeliveryNext]_deliveryVars,
           NEW pc, Goes(o, pc), channels' = channels, pass[o].pc \in WithChildren,
           pc \in {"sending", "ack"} => pass[o].pc \in {"sending", "ack"},
           pc \in WithChild => pass[o].pc \in WithChild
    PROVE  ChildrenHeldBy(o)'
<1>1. /\ pass'[o].pc = pc /\ pass'[o].opened = pass[o].opened
      /\ pass'[o].parent = pass[o].parent
      /\ pass'[o].children = pass[o].children /\ pass'[o].child = pass[o].child
  BY GoesFields
<1>2. Deadline(o)' = Deadline(o) /\ Digest(o)' = Digest(o) /\ Channel(o)' = Channel(o)
  BY <1>1 DEF Deadline, Digest, Channel
<1>3. now' < Deadline(o) => now < Deadline(o)
  BY DeadlineType, DeliveryTime
<1>4. ASSUME NEW child, ChildHeld(o, child) PROVE ChildHeld(o, child)'
  BY <1>2, <1>3, <1>4 DEF ChildHeld, LeasedBy
<1>5. ChildHeld(o, pass[o].child) => ChildHeld(o, pass[o].child)'
  BY <1>1, <1>2, <1>3 DEF ChildHeld, LeasedBy
<1> QED
  BY <1>1, <1>2, <1>4, <1>5 DEF ChildrenHeldBy

\* A call that writes the row of the channel it was sent on.
LEMMA WrittenChild ==
    ASSUME ArgumentsSound, NEW o \in Owners, ChildrenHeldBy(o), [DeliveryNext]_deliveryVars,
           NEW pc \in {"send", "retry"}, Goes(o, pc), pass[o].pc \in WithChild, NEW row,
           channels' = [channels EXCEPT ![Digest(o)][Channel(o)] = row]
    PROVE  ChildrenHeldBy(o)'
<1>1. /\ pass'[o].pc = pc /\ pass'[o].opened = pass[o].opened
      /\ pass'[o].parent = pass[o].parent
      /\ pass'[o].children = pass[o].children /\ pass'[o].child = pass[o].child
  BY GoesFields
<1>2. Deadline(o)' = Deadline(o) /\ Digest(o)' = Digest(o) /\ Channel(o)' = Channel(o)
  BY <1>1 DEF Deadline, Digest, Channel
<1>3. now' < Deadline(o) => now < Deadline(o)
  BY DeadlineType, DeliveryTime
<1>4. /\ channels \in [Digests -> [Channels -> ChannelRow]]
      /\ Digest(o) \in Digests /\ pass[o].pc \in WithChildren
  BY HeldType DEF ArgumentsSound, TypeOK, Claims, Digest, Delivering, WithChild, WithChildren
<1>5. ASSUME NEW child \in pass[o].children
      PROVE  child \in Channels \X Nat /\ child[1] # Channel(o) /\ ChildHeld(o, child)
  BY <1>4 DEF ChildrenHeldBy
<1>6. ASSUME NEW child \in pass[o].children PROVE ChildHeld(o, child)'
  <2>1. channels'[Digest(o)][child[1]] = channels[Digest(o)][child[1]]
    BY <1>4, <1>5
  <2> QED
    BY <1>2, <1>3, <1>5, <2>1 DEF ChildHeld, LeasedBy
<1> QED
  BY <1>1, <1>2, <1>4, <1>5, <1>6 DEF ChildrenHeldBy

LEMMA TakenChild ==
    ASSUME ArgumentsSound, NEW o \in Owners, ChildrenHeldBy(o), StartSend(o)
    PROVE  ChildrenHeldBy(o)'
<1>1. PICK child \in pass[o].children :
            pass' = [pass EXCEPT ![o].pc = "sending", ![o].child = child,
                                 ![o].children = @ \ {child}]
  BY DEF StartSend
<1>2. /\ pass[o].pc = "send" /\ now < Deadline(o) /\ channels' = channels /\ now' = now
      /\ pass \in [Owners -> Pass] /\ pass[o] \in Pass
  BY DEF StartSend, At, store, vars, ArgumentsSound
<1>3. /\ pass'[o].pc = "sending" /\ pass'[o].opened = pass[o].opened
      /\ pass'[o].parent = pass[o].parent
      /\ pass'[o].children = pass[o].children \ {child} /\ pass'[o].child = child
  BY <1>1, <1>2 DEF Pass
<1>4. Deadline(o)' = Deadline(o) /\ Digest(o)' = Digest(o) /\ Channel(o)' = child[1]
  BY <1>3 DEF Deadline, Digest, Channel
<1>5. /\ \A c \in pass[o].children : c \in Channels \X Nat /\ ChildHeld(o, c)
      /\ \A c, other \in pass[o].children : c[1] = other[1] => c = other
  BY <1>2 DEF ChildrenHeldBy, WithChildren
<1>6. ASSUME NEW c \in pass[o].children PROVE ChildHeld(o, c)'
  BY <1>2, <1>4, <1>5 DEF ChildHeld, LeasedBy
<1>7. ChildHeld(o, pass[o].child)'
  BY <1>2, <1>3, <1>4, <1>5 DEF ChildHeld, LeasedBy
<1> QED
  BY <1>3, <1>4, <1>5, <1>6, <1>7 DEF ChildrenHeldBy

LEMMA PcsAfter ==
    ASSUME ArgumentsSound, NEW o \in Owners
    PROVE  /\ OpenTenant(o) => pass'[o].pc = "claim"
           /\ NextParent(o) /\ ~ End(o) => pass'[o].pc = "materialize"
           /\ StartSend(o) => pass'[o].pc = "sending"
<1>p. pass \in [Owners -> Pass] /\ pass[o] \in Pass
  BY DEF ArgumentsSound
<1>1. OpenTenant(o) => pass'[o].pc = "claim"
  BY <1>p DEF OpenTenant, Fresh
<1>2. ASSUME NextParent(o), ~ End(o) PROVE pass'[o].pc = "materialize"
  <2>1. PICK claim \in pass[o].held :
            pass' = [pass EXCEPT ![o].pc = "materialize", ![o].at = now,
                                 ![o].held = @ \ {claim}, ![o].parent = claim]
    BY <1>2 DEF NextParent
  <2> QED
    BY <1>p, <2>1 DEF Pass
<1>3. ASSUME StartSend(o) PROVE pass'[o].pc = "sending"
  <2>1. PICK child \in pass[o].children :
            pass' = [pass EXCEPT ![o].pc = "sending", ![o].child = child,
                                 ![o].children = @ \ {child}]
    BY <1>3 DEF StartSend
  <2> QED
    BY <1>p, <2>1 DEF Pass
<1> QED
  BY <1>1, <1>2, <1>3

LEMMA OwnChildrenStay ==
    ASSUME ArgumentsSound, NEW o \in Owners, ChildrenHeldBy(o), [DeliveryNext]_deliveryVars,
           OpenTenant(o) \/ PassStep(o) \/ Failure(o)
    PROVE  ChildrenHeldBy(o)'
<1>p. pass \in [Owners -> Pass] /\ pass[o] \in Pass
  BY DEF ArgumentsSound
<1>0. CASE pass'[o].pc \notin WithChildren
  BY <1>0 DEF ChildrenHeldBy
<1> SUFFICES ASSUME pass'[o].pc \in WithChildren PROVE ChildrenHeldBy(o)'
  BY <1>0
<1>n. ~ NextDigest(o) /\ ~ End(o)
  BY NextDigestFields, EndFields DEF WithChildren
<1>1. CASE ClaimChildren(o)
  BY <1>1, <1>n, NewChildren
<1>2. CASE StartSend(o)
  BY <1>2, TakenChild
<1>3. CASE EnsureTokens(o) \/ SendSucceeds(o) \/ SendFails(o) \/ StoreCallFails(o)
  <2>1. channels' = channels
    BY <1>3 DEF EnsureTokens, SendSucceeds, SendFails, StoreCallFails, LeaveLeased, store, vars
  <2>2. \E pc : /\ Goes(o, pc) /\ pass[o].pc \in WithChildren
                /\ pc \in {"sending", "ack"} => pass[o].pc \in {"sending", "ack"}
                /\ pc \in WithChild => pass[o].pc \in WithChild
    BY <1>3, <1>n DEF EnsureTokens, SendSucceeds, SendFails, StoreCallFails, LeaveLeased,
       At, WithChildren, WithChild, Goes
  <2> QED
    BY <2>1, <2>2, QuietChildren
<1>4. CASE AckChild(o) \/ RetryChild(o) \/ AckAnswerLost(o)
  <2>1. CASE channels' = channels
    <3>1. \E pc \in {"send", "retry"} : Goes(o, pc) /\ pass[o].pc \in WithChild
      BY <1>4 DEF AckChild, RetryChild, AckAnswerLost, At, WithChild, Goes
    <3> QED
      BY <2>1, <3>1, QuietChildren DEF WithChild, WithChildren
  <2>2. CASE channels' # channels
    <3>1. \E pc \in {"send", "retry"} : \E row :
            /\ Goes(o, pc) /\ pass[o].pc \in WithChild
            /\ channels' = [channels EXCEPT ![Digest(o)][Channel(o)] = row]
      <4>1. CASE AckChild(o) \/ AckAnswerLost(o)
        BY <2>2, <4>1 DEF AckChild, AckAnswerLost, AckNotificationOutboxChannel, At, WithChild,
           store, vars, Goes
      <4>2. CASE RetryChild(o)
        BY <2>2, <4>2 DEF RetryChild, RetryNotificationOutboxChannel, At, WithChild, store, vars, Goes
      <4> QED
        BY <1>4, <4>1, <4>2
    <3> QED
      BY <3>1, WrittenChild
  <2> QED
    BY <2>1, <2>2
<1>5. ~ OpenTenant(o) /\ ~ ClaimParents(o) /\ ~ NextParent(o)
  <2>1. ~ ClaimParents(o)
    BY <1>n, NewClaims DEF WithChildren
  <2> QED
    BY <1>n, <2>1, PcsAfter DEF WithChildren
<1>6. ~ MaterializeParent(o) /\ ~ Relist(o) /\ ~ FinalizeParent(o) /\ ~ Abandon(o)
  <2>1. ~ MaterializeParent(o)
    <3> DEFINE batch == PendingMembers(Digest(o))
               pc == IF batch = {} THEN "skip" ELSE "list"
    <3>1. MaterializeParent(o) => pass' = [pass EXCEPT ![o].batch = batch, ![o].pc = pc]
      BY <1>n DEF MaterializeParent, LeaveLeased
    <3>2. pc \notin WithChildren
      BY DEF WithChildren
    <3> HIDE DEF batch, pc
    <3> QED
      BY <1>p, <3>1, <3>2 DEF Pass
  <2> QED
    BY <1>n, <2>1, GoNowFields DEF Relist, FinalizeParent, Abandon, LeaveLeased, WithChildren
<1>7. ~ SkipChildren(o) /\ ~ ListChildren(o) /\ ~ EnsureChildren(o) /\ ~ NoMoreChildren(o)
  <2>1. ASSUME NEW pc, Goes(o, pc), pc \notin WithChildren PROVE FALSE
    BY <2>1, GoesFields
  <2>2. ~ SkipChildren(o)
    BY <2>1, <1>n DEF SkipChildren, LeaveLeased, WithChildren, Goes
  <2>3. ~ ListChildren(o)
    BY <2>1, <1>n DEF ListChildren, LeaveLeased, WithChildren, Goes
  <2>4. ~ EnsureChildren(o)
    BY <2>1, <1>n DEF EnsureChildren, LeaveLeased, WithChildren, Goes
  <2>5. ~ NoMoreChildren(o)
    BY <2>1, <1>n DEF NoMoreChildren, LeaveLeased, WithChildren, Goes
  <2> QED
    BY <2>2, <2>3, <2>4, <2>5
<1> QED
  BY <1>1, <1>2, <1>3, <1>4, <1>5, <1>6, <1>7 DEF PassStep, Failure

LEMMA OwnRowsYet ==
    ASSUME ArgumentsSound, NEW o \in Owners, NoRowsYetBy(o), [DeliveryNext]_deliveryVars,
           OpenTenant(o) \/ PassStep(o) \/ Failure(o)
    PROVE  NoRowsYetBy(o)'
<1>p. pass \in [Owners -> Pass] /\ pass[o] \in Pass
  BY DEF ArgumentsSound
<1> SUFFICES ASSUME pass'[o].pc = "ensure" PROVE NoRowsYetBy(o)'
  BY DEF NoRowsYetBy
<1>n. ~ NextDigest(o) /\ ~ End(o)
  BY NextDigestFields, EndFields
<1>1. CASE ListChildren(o)
  <2>1. PICK pc : Goes(o, pc) /\ (pc = "ensure" => Rows(Digest(o)) = {}) /\ channels' = channels
    BY <1>1, <1>n DEF ListChildren, LeaveLeased, store, vars, Goes
  <2>2. pc = "ensure" /\ Digest(o)' = Digest(o)
    BY <2>1, GoesFields DEF Digest
  <2> QED
    BY <2>1, <2>2 DEF NoRowsYetBy, Rows
<1>2. ~ ClaimParents(o) /\ ~ OpenTenant(o) /\ ~ NextParent(o)
  <2>1. ~ ClaimParents(o)
    BY <1>n, NewClaims
  <2> QED
    BY <1>n, <2>1, PcsAfter
<1>3. ~ MaterializeParent(o)
  <2> DEFINE batch == PendingMembers(Digest(o))
             pc == IF batch = {} THEN "skip" ELSE "list"
  <2>1. MaterializeParent(o) => pass' = [pass EXCEPT ![o].batch = batch, ![o].pc = pc]
    BY <1>n DEF MaterializeParent, LeaveLeased
  <2>2. pc # "ensure"
    OBVIOUS
  <2> HIDE DEF batch, pc
  <2> QED
    BY <1>p, <2>1, <2>2 DEF Pass
<1>4. ~ ClaimChildren(o) /\ ~ StartSend(o) /\ ~ Relist(o) /\ ~ FinalizeParent(o) /\ ~ Abandon(o)
  <2>1. ~ ClaimChildren(o)
    BY <1>p, <1>n DEF ClaimChildren, LeaveLeased, Pass
  <2>2. ~ StartSend(o)
    BY PcsAfter
  <2>3. ~ Relist(o)
    BY <1>n, GoNowFields DEF Relist, LeaveLeased
  <2> QED
    BY <1>n, <2>1, <2>2, <2>3 DEF FinalizeParent, Abandon, LeaveLeased
<1>5. ASSUME NEW pc, Goes(o, pc), pc # "ensure" PROVE FALSE
  BY <1>5, GoesFields
<1>6. ~ SkipChildren(o) /\ ~ EnsureChildren(o) /\ ~ EnsureTokens(o) /\ ~ NoMoreChildren(o)
  <2>1. ~ SkipChildren(o)
    BY <1>5, <1>n DEF SkipChildren, LeaveLeased, Goes
  <2>2. ~ EnsureChildren(o)
    BY <1>5, <1>n DEF EnsureChildren, LeaveLeased, Goes
  <2>3. ~ EnsureTokens(o)
    BY <1>5, <1>n DEF EnsureTokens, LeaveLeased, Goes
  <2>4. ~ NoMoreChildren(o)
    BY <1>5, <1>n DEF NoMoreChildren, Goes
  <2> QED
    BY <2>1, <2>2, <2>3, <2>4
<1>7. ~ SendSucceeds(o) /\ ~ AckChild(o) /\ ~ RetryChild(o)
  BY <1>5 DEF SendSucceeds, AckChild, RetryChild, Goes
<1>8. ~ SendFails(o) /\ ~ StoreCallFails(o) /\ ~ AckAnswerLost(o)
  BY <1>5, <1>n DEF SendFails, StoreCallFails, AckAnswerLost, Goes
<1> QED
  BY <1>1, <1>2, <1>3, <1>4, <1>6, <1>7, <1>8 DEF PassStep, Failure

LEMMA ChildrenHeldStep ==
    ASSUME ArgumentsSound, ClaimsHeld, ChildrenHeld, NoRowsYet, [DeliveryNext]_deliveryVars
    PROVE  ChildrenHeld' /\ NoRowsYet'
<1>1. CASE pass' = pass
  BY <1>1, OtherChildrenStay DEF ChildrenHeld, NoRowsYet
<1>2. ASSUME NEW o \in Owners, OpenTenant(o) \/ PassStep(o) \/ Failure(o)
      PROVE  ChildrenHeld' /\ NoRowsYet'
  <2>1. \A q \in Owners \ {o} : pass'[q] = pass[q]
    BY <1>2, StepShape, NewClaims
  <2>2. ChildrenHeldBy(o)' /\ NoRowsYetBy(o)'
    BY <1>2, OwnChildrenStay, OwnRowsYet DEF ChildrenHeld, NoRowsYet
  <2> QED
    BY <2>1, <2>2, OtherChildrenStay DEF ChildrenHeld, NoRowsYet
<1>3. Outside \/ Clock \/ (\E r \in requests : ProviderAccepts(r)) \/ UNCHANGED deliveryVars
        => pass' = pass
  BY DEF Outside, Clock, ProviderAccepts, deliveryVars
<1> QED
  BY <1>1, <1>2, <1>3 DEF DeliveryNext

-----------------------------------------------------------------------------
(* What the leases give *)

LeasesInv == ArgumentsSound /\ ClaimsHeld /\ ChildrenHeld /\ NoRowsYet

LEMMA LeasesAlwaysHeld == DeliverySpec => []LeasesInv
<1>1. DeliveryInit => ClaimsHeld /\ ChildrenHeld /\ NoRowsYet
  BY DEF DeliveryInit, ClaimsHeld, ClaimsHeldBy, ChildrenHeld, ChildrenHeldBy, NoRowsYet,
     NoRowsYetBy, Fresh, Delivering, WithChildren
<1>2. LeasesInv /\ [DeliveryNext]_deliveryVars => LeasesInv'
  <2> SUFFICES ASSUME LeasesInv, [DeliveryNext]_deliveryVars PROVE LeasesInv'
    OBVIOUS
  <2>1. ArgumentsSound /\ ClaimsHeld /\ ChildrenHeld /\ NoRowsYet
    BY DEF LeasesInv
  <2> QED
    BY <2>1, NextArgumentsSound, ClaimsHeldStep, ChildrenHeldStep DEF LeasesInv
<1> QED
  BY <1>1, <1>2, WorkerArguments, PTL DEF DeliverySpec, LeasesInv

\* Two passes that deliver the same digest would both own its row.
THEOREM OneWorker == DeliverySpec => []OneWorkerPerDigest
<1>1. LeasesInv => OneWorkerPerDigest
  <2> SUFFICES ASSUME LeasesInv, NEW o \in Owners, NEW p \in Owners,
                      Working(o), now < Deadline(o), Working(p), now < Deadline(p),
                      Digest(o) = Digest(p)
               PROVE  o = p
    BY DEF OneWorkerPerDigest
  <2>1. pass[o].pc \in Delivering /\ pass[p].pc \in Delivering
    BY HeldType DEF Working, Active, Pass, Delivering, LeasesInv
  <2>2. parents[Digest(o)].owner = o /\ parents[Digest(p)].owner = p
    BY <2>1 DEF LeasesInv, ClaimsHeld, ClaimsHeldBy, ClaimHeld, LeasedBy, Digest
  <2> QED
    BY <2>2
<1> QED
  BY <1>1, LeasesAlwaysHeld, PTL

\* A pass starts a send with both leases, because they outlast its deadline.
THEOREM SendsHoldLeases == DeliverySpec => SendsUnderLease
<1>1. LeasesInv /\ [DeliveryNext]_deliveryVars =>
        [\A o \in Owners : StartSend(o) =>
            /\ Holds(parents[Digest(o)], o, Generation(o), now)
            /\ Holds(channels[Digest(o)][Channel(o)'], o, ChannelGeneration(o)', now)]_deliveryVars
  <2> SUFFICES ASSUME LeasesInv, NEW o \in Owners, StartSend(o)
               PROVE  /\ Holds(parents[Digest(o)], o, Generation(o), now)
                      /\ Holds(channels[Digest(o)][Channel(o)'], o, ChannelGeneration(o)', now)
    OBVIOUS
  <2> USE DEF LeasesInv
  <2>1. PICK child \in pass[o].children :
            pass' = [pass EXCEPT ![o].pc = "sending", ![o].child = child,
                                 ![o].children = @ \ {child}]
    BY DEF StartSend
  <2>2. /\ pass[o].pc = "send" /\ now < Deadline(o)
        /\ pass \in [Owners -> Pass] /\ pass[o] \in Pass
    BY DEF StartSend, At, ArgumentsSound
  <2>3. pass'[o].child = child /\ Channel(o)' = child[1] /\ ChannelGeneration(o)' = child[2]
    BY <2>1, <2>2 DEF Pass, Channel, ChannelGeneration
  <2>4. ClaimHeld(o, pass[o].parent) /\ pass[o].parent \in Claims
    BY <2>2, HeldType DEF ClaimsHeld, ClaimsHeldBy, Delivering
  <2>5. child \in Channels \X Nat /\ ChildHeld(o, child)
    BY <2>2 DEF ChildrenHeld, ChildrenHeldBy, WithChildren
  <2>6. /\ Digest(o) \in Digests /\ parents[Digest(o)] \in ParentRow
        /\ channels[Digest(o)][child[1]] \in ChannelRow
    BY <2>4, <2>5 DEF Claims, Digest, ArgumentsSound, TypeOK
  <2>7. Deadline(o) \in Nat /\ now \in Nat
    BY DeadlineType
  <2>8. Holds(parents[Digest(o)], o, Generation(o), now)
    BY <2>2, <2>4, <2>6, <2>7 DEF ClaimHeld, LeasedBy, Holds, Digest, Generation, ParentRow
  <2>9. Holds(channels[Digest(o)][child[1]], o, child[2], now)
    BY <2>2, <2>5, <2>6, <2>7 DEF ChildHeld, LeasedBy, Holds, ChannelRow
  <2> QED
    BY <2>3, <2>8, <2>9
<1> QED
  BY <1>1, LeasesAlwaysHeld, PTL DEF DeliverySpec, SendsUnderLease

\* The channel's part of HolderDecides, for one step.
LEMMA ChannelDecided ==
    ASSUME ArgumentsSound, [DeliveryNext]_deliveryVars, NEW d \in Digests, NEW ch \in Channels,
           Live(channels[d][ch]), channels'[d][ch] # channels[d][ch]
    PROVE  \/ \E o \in {channels[d][ch].owner} :
                   /\ AckChild(o) \/ RetryChild(o) \/ AckAnswerLost(o)
                   /\ Digest(o) = d /\ Channel(o) = ch
                   /\ ChannelGeneration(o) = channels[d][ch].attempts
           \/ /\ parents[d].status = "leased"
              /\ SkipChildren(parents[d].owner)
              /\ Decides(parents[d].owner, d, parents[d].attempts)
<1>t. /\ channels \in [Digests -> [Channels -> ChannelRow]] /\ channels[d][ch] \in ChannelRow
      /\ channels[d][ch].leaseUntil \in Nat /\ now \in Time /\ channels' # channels
  BY ConstantsAssumption DEF ArgumentsSound, TypeOK, ChannelRow, Time
<1>1. PICK o \in Owners : /\ WritesChannels(o) /\ Digest(o) = d
                          /\ pass[o].pc \in Delivering /\ now < Deadline(o)
  BY ChannelsChange
<1>2. CASE SkipChildren(o)
  <2>1. Skippable(d, o, Generation(o), pass[o].at)
    BY <1>t, <1>1, <1>2 DEF SkipChildren, SkipNotificationOutboxChannels, LeaveLeased, store, vars
  <2>2. Holds(parents[d], o, Generation(o), pass[o].at)
    BY <2>1 DEF Skippable, Loadable, ClaimedDigest
  <2> QED
    BY <1>1, <1>2, <2>2 DEF Holds, Decides
<1>3. CASE EnsureChildren(o)
  <2>1. PICK t : EnsureNotificationOutboxChannels(d, pass[o].config, t)
    BY <1>t, <1>1, <1>3 DEF EnsureChildren, LeaveLeased, store, vars
  <2> DEFINE row == [NoChannel EXCEPT !.status = "pending", !.availableAt = t]
  <2>2. channels' = [channels EXCEPT ![d] = [x \in Channels |->
            IF x \in pass[o].config /\ channels[d][x].status = "absent"
            THEN row ELSE channels[d][x]]]
    BY <2>1 DEF EnsureNotificationOutboxChannels
  <2> HIDE DEF row
  <2>3. channels[d][ch].status # "absent"
    BY DEF Live
  <2> QED
    BY <1>t, <2>2, <2>3
<1>4. CASE ClaimChildren(o)
  <2>1. ClaimNotificationOutboxChannels(d, o, pass[o].at) /\ At(o, "children")
    BY <1>t, <1>1, <1>4 DEF ClaimChildren, LeaveLeased, store, vars
  <2>2. ~ Claimable(channels[d][ch], pass[o].at)
    <3>1. pass[o].at \in CallTimes
      BY <2>1, CapturedTime DEF Delivering
    <3> QED
      BY <1>t, <3>1, LiveIsNotClaimable DEF Live
  <2> QED
    BY <1>t, <2>1, <2>2 DEF ClaimNotificationOutboxChannels, ClaimableChannels
<1>5. CASE AckChild(o) \/ RetryChild(o) \/ AckAnswerLost(o)
  <2>1. /\ Holds(channels[d][Channel(o)], o, ChannelGeneration(o), pass[o].at)
        /\ \E row : channels' = [channels EXCEPT ![d][Channel(o)] = row]
    BY <1>t, <1>1, <1>5 DEF AckChild, RetryChild, AckAnswerLost, AckNotificationOutboxChannel,
       RetryNotificationOutboxChannel, store, vars
  <2>2. Channel(o) = ch
    BY <1>t, <2>1
  <2> QED
    BY <1>1, <1>5, <2>1, <2>2 DEF Holds
<1> QED
  BY <1>1, <1>2, <1>3, <1>4, <1>5 DEF WritesChannels

\* Under a live lease only its holder decides, for any number of owners and any
\* recent time that the calls captured: a row changes under a live lease only
\* by a call that names its owner and its generation.
THEOREM OnlyHoldersDecide == DeliverySpec => HolderDecides
<1>1. ArgumentsSound /\ [DeliveryNext]_deliveryVars =>
        [\A d \in Digests :
            /\ Live(parents[d]) /\ parents'[d] # parents[d] =>
                    /\ FinalizeParent(parents[d].owner)
                    /\ Decides(parents[d].owner, d, parents[d].attempts)
            /\ \A ch \in Channels :
                Live(channels[d][ch]) /\ channels'[d][ch] # channels[d][ch] =>
                    \/ \E o \in {channels[d][ch].owner} :
                            /\ AckChild(o) \/ RetryChild(o) \/ AckAnswerLost(o)
                            /\ Digest(o) = d /\ Channel(o) = ch
                            /\ ChannelGeneration(o) = channels[d][ch].attempts
                    \/ /\ parents[d].status = "leased"
                       /\ SkipChildren(parents[d].owner)
                       /\ Decides(parents[d].owner, d, parents[d].attempts)]_deliveryVars
  <2> SUFFICES ASSUME ArgumentsSound, [DeliveryNext]_deliveryVars, NEW d \in Digests
               PROVE  /\ Live(parents[d]) /\ parents'[d] # parents[d] =>
                            /\ FinalizeParent(parents[d].owner)
                            /\ Decides(parents[d].owner, d, parents[d].attempts)
                      /\ \A ch \in Channels :
                            Live(channels[d][ch]) /\ channels'[d][ch] # channels[d][ch] =>
                              \/ \E o \in {channels[d][ch].owner} :
                                    /\ AckChild(o) \/ RetryChild(o) \/ AckAnswerLost(o)
                                    /\ Digest(o) = d /\ Channel(o) = ch
                                    /\ ChannelGeneration(o) = channels[d][ch].attempts
                              \/ /\ parents[d].status = "leased"
                                 /\ SkipChildren(parents[d].owner)
                                 /\ Decides(parents[d].owner, d, parents[d].attempts)
    OBVIOUS
  <2>1. ASSUME Live(parents[d]), parents'[d] # parents[d]
        PROVE  /\ FinalizeParent(parents[d].owner)
               /\ Decides(parents[d].owner, d, parents[d].attempts)
    <3>1. PICK o \in Owners : /\ FinalizeParent(o) /\ Digest(o) = d
                              /\ parents[d].owner = o /\ NextDigest(o)
      BY <2>1, LeasedRow DEF Live
    <3>2. Holds(parents[d], o, Generation(o), pass[o].at)
      <4>1. parents' # parents
        BY <2>1
      <4> QED
        BY <3>1, <4>1 DEF FinalizeParent, FinalizeClaimedSiteDigest, Finalizable,
           Materializable, Loadable, ClaimedDigest, LeaveLeased, store, vars
    <3> QED
      BY <3>1, <3>2 DEF Holds, Decides
  <2> QED
    BY <2>1, ChannelDecided
<1> QED
  BY <1>1, WorkerArguments, PTL DEF DeliverySpec, HolderDecides

LEMMA ClosedRow ==
    ASSUME NEW row \in ChannelRow, NEW status PROVE Unleased(row, status).status = status
BY DEF Unleased, ChannelRow

\* Rows are only inserted for a digest without any, and no other call makes a
\* row or removes one.
THEOREM ChannelsAreChosenOnce == DeliverySpec => ChannelSetFixed
<1>1. LeasesInv /\ [DeliveryNext]_deliveryVars =>
        [\A d \in Digests : Rows(d) # {} => Rows(d)' = Rows(d)]_deliveryVars
  <2> SUFFICES ASSUME LeasesInv, [DeliveryNext]_deliveryVars, NEW d \in Digests, Rows(d) # {}
               PROVE  Rows(d)' = Rows(d)
    OBVIOUS
  <2> USE DEF LeasesInv
  <2>t. channels \in [Digests -> [Channels -> ChannelRow]]
    BY DEF ArgumentsSound, TypeOK
  <2>1. CASE channels'[d] = channels[d]
    BY <2>1 DEF Rows
  <2>2. CASE channels'[d] # channels[d]
    <3>1. PICK o \in Owners : /\ WritesChannels(o) /\ Digest(o) = d
                              /\ pass[o].pc \in Delivering /\ now < Deadline(o)
      BY <2>2, ChannelsChange
    <3>2. channels' # channels
      BY <2>2
    <3>3. CASE SkipChildren(o)
      <4>1. channels' = CloseOutstanding(d, "skipped")
        BY <3>1, <3>2, <3>3 DEF SkipChildren, SkipNotificationOutboxChannels, LeaveLeased,
           store, vars
      <4> QED
        BY <2>t, <4>1, ClosedRow DEF CloseOutstanding, Rows
    <3>4. ~ EnsureChildren(o)
      BY <3>1, <3>2 DEF EnsureChildren, LeaveLeased, store, vars, At, NoRowsYet, NoRowsYetBy
    <3>5. CASE ClaimChildren(o)
      <4>1. ClaimNotificationOutboxChannels(d, o, pass[o].at)
        BY <3>1, <3>2, <3>5 DEF ClaimChildren, LeaveLeased, store, vars
      <4>2. ASSUME NEW ch \in Channels
            PROVE  (channels'[d][ch].status = "absent") <=> (channels[d][ch].status = "absent")
        <5>1. \/ channels'[d][ch] = channels[d][ch]
              \/ /\ Claimable(channels[d][ch], pass[o].at)
                 /\ channels'[d][ch] = Leased(channels[d][ch], o, pass[o].at + ChildLease)
          BY <2>t, <4>1 DEF ClaimNotificationOutboxChannels, ClaimableChannels
        <5>2. channels[d][ch] \in ChannelRow
          BY <2>t
        <5> QED
          BY <5>1, <5>2 DEF Claimable, Leased, ChannelRow
      <4> QED
        BY <4>2 DEF Rows
    <3>6. CASE AckChild(o) \/ AckAnswerLost(o)
      <4>1. /\ channels' = [channels EXCEPT ![d][Channel(o)] = Unleased(@, "sent")]
            /\ channels[d][Channel(o)].status = "leased"
        BY <3>1, <3>2, <3>6 DEF AckChild, AckAnswerLost, AckNotificationOutboxChannel, Holds,
           store, vars
      <4> QED
        BY <2>t, <4>1 DEF Unleased, Rows, ChannelRow
    <3>7. CASE RetryChild(o)
      <4>1. /\ channels' = [channels EXCEPT ![d][Channel(o)] =
                                [Unleased(@, "pending") EXCEPT !.availableAt = RetryAt(o)]]
            /\ channels[d][Channel(o)].status = "leased"
        BY <3>1, <3>2, <3>7 DEF RetryChild, RetryNotificationOutboxChannel, Holds, store, vars
      <4> QED
        BY <2>t, <4>1 DEF Unleased, Rows, ChannelRow
    <3> QED
      BY <3>1, <3>3, <3>4, <3>5, <3>6, <3>7 DEF WritesChannels
  <2> QED
    BY <2>1, <2>2
<1> QED
  BY <1>1, LeasesAlwaysHeld, PTL DEF DeliverySpec, ChannelSetFixed

-----------------------------------------------------------------------------
(* What the provider was asked and what it accepted *)

ProviderTyped ==
    /\ requests \subseteq Requests
    /\ accepts \in [Digests -> [Channels -> Nat]]
    /\ delivered \in [Digests -> [Channels -> SUBSET Comments]]
    /\ faults \in Nat

\* The calls that change the set of requests.
ChangesRequests(o) == StartSend(o) \/ SendSucceeds(o) \/ SendFails(o) \/ Abandon(o)

LEMMA RequestsChange ==
    ASSUME [DeliveryNext]_deliveryVars
    PROVE  \/ \E r \in requests : ProviderAccepts(r)
           \/ /\ accepts' = accepts /\ delivered' = delivered
              /\ \/ requests' = requests
                 \/ \E o \in Owners : ChangesRequests(o)
<1>1. CASE Outside \/ Clock \/ UNCHANGED deliveryVars
  BY <1>1 DEF Outside, Clock, deliveryVars, provider
<1>2. ASSUME NEW o \in Owners, OpenTenant(o) \/ PassStep(o) \/ Failure(o), ~ ChangesRequests(o)
      PROVE  accepts' = accepts /\ delivered' = delivered /\ requests' = requests
  BY <1>2 DEF OpenTenant, PassStep, Failure, ChangesRequests, ClaimParents, NextParent,
     MaterializeParent, SkipChildren, ListChildren, EnsureChildren, ClaimChildren,
     EnsureTokens, NoMoreChildren, AckChild, RetryChild, Relist, FinalizeParent,
     StoreCallFails, AckAnswerLost, provider
<1>3. ASSUME NEW o \in Owners, ChangesRequests(o)
      PROVE  accepts' = accepts /\ delivered' = delivered
  BY <1>3 DEF ChangesRequests, StartSend, SendSucceeds, SendFails, Abandon
<1> QED
  BY <1>1, <1>2, <1>3 DEF DeliveryNext

LEMMA FaultsGrow ==
    ASSUME faults \in Nat, [DeliveryNext]_deliveryVars
    PROVE  /\ faults' = faults \/ faults' = faults + 1
           /\ \A o \in Owners : Failure(o) => faults' = faults + 1
<1>1. \A o \in Owners : Failure(o) => faults' = faults + 1
  BY DEF Failure, SendFails, StoreCallFails, AckAnswerLost, Abandon, Fault
<1>2. ASSUME NEW o \in Owners, OpenTenant(o) \/ PassStep(o) PROVE faults' = faults
  BY <1>2 DEF OpenTenant, PassStep, ClaimParents, NextParent,
     MaterializeParent, SkipChildren, ListChildren, EnsureChildren, ClaimChildren,
     EnsureTokens, StartSend, NoMoreChildren, SendSucceeds, AckChild, RetryChild, Relist,
     FinalizeParent
<1>3. Outside \/ Clock \/ (\E r \in requests : ProviderAccepts(r)) \/ UNCHANGED deliveryVars
        => faults' = faults
  BY DEF Outside, Clock, ProviderAccepts, deliveryVars
<1> QED
  BY <1>1, <1>2, <1>3 DEF DeliveryNext

\* The request of a pass that has a channel at hand.
LEMMA RequestType ==
    ASSUME ArgumentsSound, NEW o \in Owners, pass[o].pc \in WithChild
    PROVE  /\ Digest(o) \in Digests /\ Channel(o) \in Channels
           /\ pass[o].batch \subseteq Comments
           /\ Request(o) \in Requests /\ Accepted(Request(o)) \in Requests
           /\ ~ Request(o).accepted /\ Accepted(Request(o)).accepted
           /\ Accepted(Request(o)) = [Request(o) EXCEPT !.accepted = TRUE]
<1>1. pass[o] \in Pass /\ pass[o].parent \in Claims /\ pass[o].child \in Channels \X Generations
  BY HeldType DEF ArgumentsSound, Sound, WithChild, Delivering
<1> QED
  BY <1>1 DEF Pass, Claims, Digest, Channel, Request, Requests, Accepted

\* StartSend asks for the batch of the pass on the channel it takes.
LEMMA SendRequest ==
    ASSUME ArgumentsSound, NEW o \in Owners, StartSend(o)
    PROVE  /\ requests' = requests \cup {Request(o)'}
           /\ pass[o].pc = "send" /\ now < Deadline(o) /\ pass'[o].pc = "sending"
           /\ \A q \in Owners \ {o} : pass'[q] = pass[q]
           /\ pass'[o].opened = pass[o].opened
           /\ pass'[o].child \in pass[o].children
           /\ pass'[o].children = pass[o].children \ {pass'[o].child}
           /\ Digest(o)' = Digest(o) /\ Channel(o)' \in Channels
           /\ pass'[o].batch = pass[o].batch
           /\ Request(o)' = [owner |-> o, digest |-> Digest(o), channel |-> Channel(o)',
                             batch |-> pass[o].batch, accepted |-> FALSE]
           /\ Request(o)' \in Requests /\ ~ Request(o)'.accepted
<1>1. PICK child \in pass[o].children :
            /\ pass' = [pass EXCEPT ![o].pc = "sending", ![o].child = child,
                                    ![o].children = @ \ {child}]
            /\ requests' = requests \cup {Request(o)'}
  BY DEF StartSend
<1>2. /\ pass[o].pc = "send" /\ now < Deadline(o)
      /\ pass \in [Owners -> Pass] /\ pass[o] \in Pass
  BY DEF StartSend, At, ArgumentsSound
<1>3. /\ pass'[o].pc = "sending" /\ pass'[o].child = child /\ pass'[o].batch = pass[o].batch
      /\ pass'[o].parent = pass[o].parent /\ pass'[o].opened = pass[o].opened
      /\ pass'[o].children = pass[o].children \ {child}
      /\ \A q \in Owners \ {o} : pass'[q] = pass[q]
  BY <1>1, <1>2 DEF Pass
<1>4. child[1] \in Channels /\ pass[o].batch \subseteq Comments /\ Digest(o) \in Digests
  BY <1>2, HeldType DEF Pass, Claims, Digest, Delivering
<1>5. Digest(o)' = Digest(o) /\ Channel(o)' = child[1]
  BY <1>3 DEF Digest, Channel
<1>6. Request(o)' = [owner |-> o, digest |-> Digest(o), channel |-> Channel(o)',
                     batch |-> pass[o].batch, accepted |-> FALSE]
  BY <1>3, <1>5 DEF Request
<1>7. Request(o)' \in Requests /\ ~ Request(o)'.accepted
  BY <1>4, <1>5, <1>6 DEF Requests
<1> QED
  BY <1>1, <1>2, <1>3, <1>4, <1>5, <1>6, <1>7

LEMMA ProviderKeeps ==
    ASSUME ArgumentsSound, ProviderTyped, [DeliveryNext]_deliveryVars
    PROVE  /\ ProviderTyped'
           /\ \A d \in Digests, ch \in Channels :
                /\ accepts[d][ch] <= accepts'[d][ch]
                /\ delivered[d][ch] \subseteq delivered'[d][ch]
<1> DEFINE Goal == /\ ProviderTyped'
                   /\ \A d \in Digests, ch \in Channels :
                        /\ accepts[d][ch] <= accepts'[d][ch]
                        /\ delivered[d][ch] \subseteq delivered'[d][ch]
<1> SUFFICES Goal
  OBVIOUS
<1>1. faults' \in Nat
  BY FaultsGrow DEF ProviderTyped
<1>2. ASSUME NEW r \in requests, ProviderAccepts(r)
      PROVE  Goal
  <2>1. /\ r.digest \in Digests /\ r.channel \in Channels /\ r.batch \subseteq Comments
        /\ r \in Requests /\ Accepted(r) \in Requests
    BY DEF ProviderTyped, Requests, Accepted
  <2>2. requests' \subseteq Requests
    BY <1>2, <2>1 DEF ProviderAccepts, ProviderTyped
  <2>3. /\ accepts' = [accepts EXCEPT ![r.digest][r.channel] = @ + 1]
        /\ delivered' = [delivered EXCEPT ![r.digest][r.channel] = @ \cup r.batch]
    BY <1>2 DEF ProviderAccepts
  <2> QED
    BY <1>1, <2>1, <2>2, <2>3 DEF ProviderTyped
<1>3. CASE accepts' = accepts /\ delivered' = delivered /\ requests' = requests
  BY <1>1, <1>3 DEF ProviderTyped
<1>4. ASSUME accepts' = accepts, delivered' = delivered, NEW o \in Owners, ChangesRequests(o)
      PROVE  Goal
  <2>1. requests' \subseteq Requests
    <3>1. CASE StartSend(o)
      BY <3>1, SendRequest DEF ProviderTyped
    <3>2. CASE SendSucceeds(o) \/ SendFails(o) \/ Abandon(o)
      BY <3>2 DEF SendSucceeds, SendFails, Abandon, ProviderTyped
    <3> QED
      BY <1>4, <3>1, <3>2 DEF ChangesRequests
  <2> QED
    BY <1>1, <1>4, <2>1 DEF ProviderTyped
<1> HIDE DEF Goal
<1> QED
  BY <1>2, <1>3, <1>4, RequestsChange

-----------------------------------------------------------------------------
(* What was sent was delivered *)

Unmoderated(d) == {c \in members[d] : comments[c].untouched}

Shipped(d, ch, batch) == accepts[d][ch] > 0 /\ batch \subseteq delivered[d][ch]

\* Channel rows exist only for a digest that was claimed, or for a legacy one.
RowsOfClaimed ==
    \A d \in Digests : Rows(d) # {} =>
        \/ Claimed(d)
        \/ parents[d].status = "pending" /\ parents[d].version = 0

\* The batch of a pass misses no comment that nobody has touched.
BatchesComplete ==
    \A o \in Owners : pass[o].pc \in Delivering \ {"materialize"} =>
        Unmoderated(Digest(o)) \subseteq pass[o].batch

AcceptedWasShipped ==
    /\ \A r \in requests : r.accepted => Shipped(r.digest, r.channel, r.batch)
    /\ \A o \in Owners : pass[o].pc = "ack" =>
            Shipped(Digest(o), Channel(o), pass[o].batch)

SentInv ==
    /\ ProviderTyped /\ RowsOfClaimed /\ BatchesComplete /\ AcceptedWasShipped
    /\ SentWasDelivered

\* A digest row changes when it is created, claimed or finalized.
LEMMA ParentChange ==
    ASSUME ArgumentsSound, [DeliveryNext]_deliveryVars, NEW d \in Digests,
           parents'[d] # parents[d]
    PROVE  \/ /\ parents[d].status = "absent" /\ parents'[d].status = "pending"
              /\ parents'[d].availableAt = WindowEnd(d)
           \/ /\ parents[d].status # "absent" /\ Claimed(d)'
              /\ parents'[d].version = parents[d].version
              /\ parents'[d].availableAt = parents[d].availableAt
<1>t. parents \in [Digests -> ParentRow] /\ parents[d] \in ParentRow
  BY DEF ArgumentsSound, TypeOK
<1> DEFINE Goal == \/ /\ parents[d].status = "absent" /\ parents'[d].status = "pending"
                      /\ parents'[d].availableAt = WindowEnd(d)
                   \/ /\ parents[d].status # "absent" /\ Claimed(d)'
                      /\ parents'[d].version = parents[d].version
                      /\ parents'[d].availableAt = parents[d].availableAt
<1> SUFFICES Goal
  OBVIOUS
<1>c. parents' # parents
  OBVIOUS
<1>1. ASSUME NEW c \in Comments, CreatePendingComment(c, now) PROVE Goal
  <2> DEFINE e == SiteDigestKey(interval, now)
  <2>1. parents[e].status = "absent" /\ parents' = [parents EXCEPT ![e] =
            [NoParent EXCEPT !.status = "pending", !.version = 1,
                             !.availableAt = WindowEnd(e)]]
    BY <1>1, <1>c DEF CreatePendingComment, EnsurePendingDigest
  <2> HIDE DEF e
  <2>2. d = e
    BY <2>1, <1>t
  <2>3. parents'[d].status = "pending" /\ parents'[d].availableAt = WindowEnd(d)
    BY <2>1, <2>2, <1>t DEF NoParent
  <2> QED
    BY <2>1, <2>2, <2>3
<1>2. ASSUME NEW o \in Owners, NEW t, ClaimNotificationOutbox(o, t) PROVE Goal
  <2>1. PICK S \in SUBSET Eligible(t) :
            parents' = [e \in Digests |-> IF e \in S THEN Leased(parents[e], o, t + ParentLease)
                                                    ELSE parents[e]]
    BY <1>2 DEF ClaimNotificationOutbox
  <2>2. d \in S /\ parents'[d] = Leased(parents[d], o, t + ParentLease)
    BY <2>1
  <2>3. parents[d].status # "absent"
    BY <2>2 DEF Eligible, Claimable
  <2>4. /\ parents'[d].status = "leased" /\ parents'[d].version = parents[d].version
        /\ parents'[d].availableAt = parents[d].availableAt
    BY <2>2, <1>t DEF Leased, ParentRow
  <2> QED
    BY <2>3, <2>4 DEF Claimed
<1>3. ASSUME NEW o \in Owners,
             FinalizeClaimedSiteDigest(Digest(o), o, Generation(o), pass[o].at)
      PROVE  Goal
  <2>1. /\ parents' = [parents EXCEPT ![Digest(o)] = Unleased(@, "sent")]
        /\ parents[Digest(o)].status = "leased"
    BY <1>3 DEF FinalizeClaimedSiteDigest, Finalizable, Materializable, Loadable, ClaimedDigest, Holds
  <2>2. d = Digest(o)
    BY <2>1, <1>t
  <2>3. /\ parents'[d].status = "sent" /\ parents'[d].version = parents[d].version
        /\ parents'[d].availableAt = parents[d].availableAt
    BY <2>1, <2>2, <1>t DEF Unleased, ParentRow
  <2> QED
    BY <2>1, <2>2, <2>3 DEF Claimed
<1>4. ASSUME NEW o \in Owners, OpenTenant(o) \/ PassStep(o) \/ Failure(o)
      PROVE  \/ \E t \in pass[o].opened .. now : ClaimNotificationOutbox(o, t)
             \/ FinalizeClaimedSiteDigest(Digest(o), o, Generation(o), pass[o].at)
  BY <1>4, <1>c DEF OpenTenant, PassStep, Failure, ClaimParents, FinalizeParent, NextParent,
     MaterializeParent, SkipChildren,
     SkipNotificationOutboxChannels, ListChildren, EnsureChildren,
     EnsureNotificationOutboxChannels, ClaimChildren, ClaimNotificationOutboxChannels,
     EnsureTokens, StartSend, NoMoreChildren, SendSucceeds, AckChild,
     AckNotificationOutboxChannel, RetryChild, RetryNotificationOutboxChannel, Relist,
     SendFails, StoreCallFails, AckAnswerLost, Abandon, LeaveLeased, store, vars
<1>5. ASSUME Outside PROVE \E c \in Comments : CreatePendingComment(c, now)
  BY <1>5, <1>c DEF Outside, ModeratorStep, UpdateComment, DeleteComment, UpdateSiteInterval, DeleteSite
<1>6. ~ Clock /\ ~ (\E r \in requests : ProviderAccepts(r)) /\ ~ UNCHANGED deliveryVars
  BY <1>c DEF Clock, Tick, ProviderAccepts, deliveryVars, store, vars
<1> HIDE DEF Goal
<1> QED
  BY <1>1, <1>2, <1>3, <1>4, <1>5, <1>6 DEF DeliveryNext

\* A claimed digest gets no comment, and nobody untouches one.
LEMMA UnmoderatedShrinks ==
    ASSUME ArgumentsSound, MembershipInWindow, [DeliveryNext]_deliveryVars,
           NEW d \in Digests, Claimed(d)
    PROVE  Unmoderated(d)' \subseteq Unmoderated(d)
<1>t. /\ members \in [Digests -> SUBSET Comments] /\ comments \in [Comments -> CommentRow]
      /\ members[d] \subseteq Comments
  BY DEF ArgumentsSound, TypeOK
<1>1. CASE UNCHANGED <<members, comments>>
  BY <1>1 DEF Unmoderated
<1>2. ASSUME NEW c \in Comments, CreatePendingComment(c, now)
      PROVE  Unmoderated(d)' \subseteq Unmoderated(d)
  <2> DEFINE e == SiteDigestKey(interval, now)
  <2>1. /\ members' = [members EXCEPT ![e] = @ \cup {c}]
        /\ e # d /\ comments[c].status = "none"
        /\ comments' = [comments EXCEPT ![c] =
                [status |-> "pending", createdAt |-> now, untouched |-> TRUE]]
    BY <1>2 DEF CreatePendingComment, DigestAccepts, Claimed
  <2> HIDE DEF e
  <2>2. members'[d] = members[d] /\ c \notin members[d]
    BY <2>1, <1>t DEF MembershipInWindow, Exists
  <2>3. \A b \in members[d] : comments'[b] = comments[b]
    BY <2>1, <2>2, <1>t
  <2> QED
    BY <2>2, <2>3 DEF Unmoderated
<1>3. ASSUME NEW c \in Comments, NEW s \in ModeratorStatuses, UpdateComment(c, s)
      PROVE  Unmoderated(d)' \subseteq Unmoderated(d)
  <2>1. /\ members' = members
        /\ comments' = [comments EXCEPT ![c].status = s, ![c].untouched = FALSE]
    BY <1>3 DEF UpdateComment
  <2>2. \A b \in members[d] : comments'[b].untouched => comments[b].untouched
    BY <2>1, <1>t DEF CommentRow
  <2> QED
    BY <2>1, <2>2 DEF Unmoderated
<1>4. ASSUME NEW c \in Comments, DeleteComment(c)
      PROVE  Unmoderated(d)' \subseteq Unmoderated(d)
  <2>1. /\ members' = [e \in Digests |-> members[e] \ {c}]
        /\ comments' = [comments EXCEPT ![c].status = "deleted", ![c].untouched = FALSE]
    BY <1>4 DEF DeleteComment
  <2>2. \A b \in members[d] : comments'[b].untouched => comments[b].untouched
    BY <2>1, <1>t DEF CommentRow
  <2>3. members'[d] \subseteq members[d]
    BY <2>1
  <2> QED
    BY <2>2, <2>3 DEF Unmoderated
<1>5. ASSUME NEW o \in Owners, OpenTenant(o) \/ PassStep(o) \/ Failure(o)
      PROVE  UNCHANGED <<members, comments>>
  BY <1>5 DEF OpenTenant, PassStep, Failure, ClaimParents, ClaimNotificationOutbox,
     FinalizeParent, FinalizeClaimedSiteDigest, NextParent,
     MaterializeParent, SkipChildren,
     SkipNotificationOutboxChannels, ListChildren, EnsureChildren,
     EnsureNotificationOutboxChannels, ClaimChildren, ClaimNotificationOutboxChannels,
     EnsureTokens, StartSend, NoMoreChildren, SendSucceeds, AckChild,
     AckNotificationOutboxChannel, RetryChild, RetryNotificationOutboxChannel, Relist,
     SendFails, StoreCallFails, AckAnswerLost, Abandon, LeaveLeased, store, vars
<1>6. Clock \/ (\E r \in requests : ProviderAccepts(r)) \/ UNCHANGED deliveryVars
        => UNCHANGED <<members, comments>>
  BY DEF Clock, Tick, ProviderAccepts, deliveryVars, store, vars
<1>7. Outside => \/ UNCHANGED <<members, comments>>
                 \/ \E c \in Comments :
                        \/ CreatePendingComment(c, now)
                        \/ \E s \in ModeratorStatuses : UpdateComment(c, s)
                        \/ DeleteComment(c)
  BY DEF Outside, ModeratorStep, UpdateSiteInterval, DeleteSite
<1> QED
  BY <1>1, <1>2, <1>3, <1>4, <1>5, <1>6, <1>7 DEF DeliveryNext

LEMMA RowsOfClaimedStep ==
    ASSUME LeasesInv, RowsOfClaimed, [DeliveryNext]_deliveryVars
    PROVE  RowsOfClaimed'
<1> SUFFICES ASSUME NEW d \in Digests, Rows(d)' # {}
             PROVE  Claimed(d)' \/ (parents[d].status = "pending" /\ parents[d].version = 0)'
  BY DEF RowsOfClaimed
<1>a. ArgumentsSound /\ ClaimsHeld
  BY DEF LeasesInv
<1>1. CASE channels'[d] # channels[d]
  <2>1. Claimed(d)
    BY <1>a, <1>1, ChannelsChange DEF ClaimsHeld, ClaimsHeldBy, ClaimHeld, Digest
  <2> QED
    BY <1>a, <2>1, LeasedRow
<1>2. CASE channels'[d] = channels[d]
  <2>1. Claimed(d) \/ (parents[d].status = "pending" /\ parents[d].version = 0)
    BY <1>2 DEF RowsOfClaimed, Rows
  <2>2. CASE parents'[d] = parents[d]
    BY <2>1, <2>2 DEF Claimed
  <2>3. CASE parents'[d] # parents[d]
    BY <1>a, <2>1, <2>3, ParentChange DEF Claimed
  <2> QED
    BY <2>2, <2>3
<1> QED
  BY <1>1, <1>2

\* Between materialization and the end of a delivery the batch does not change.
LEMMA BatchKept ==
    ASSUME ArgumentsSound, NEW o \in Owners, OpenTenant(o) \/ PassStep(o) \/ Failure(o),
           pass'[o].pc \in Delivering \ {"materialize"}, ~ MaterializeParent(o)
    PROVE  /\ pass[o].pc \in Delivering \ {"materialize"}
           /\ pass'[o].batch = pass[o].batch /\ pass'[o].parent = pass[o].parent
           /\ pass'[o].opened = pass[o].opened
           /\ pass'[o].pc \in {"sending", "ack"} => StartSend(o) \/ SendSucceeds(o)
<1>p. pass \in [Owners -> Pass] /\ pass[o] \in Pass
  BY DEF ArgumentsSound
<1>n. ~ NextDigest(o) /\ ~ End(o)
  BY NextDigestFields, EndFields DEF Delivering
<1>1. CASE ClaimChildren(o)
  <2> DEFINE claimed == {<<ch, channels'[Digest(o)][ch].attempts>> :
                            ch \in ClaimableChannels(Digest(o), pass[o].at)}
  <2>1. pass' = [pass EXCEPT ![o].pc = "tokens", ![o].children = claimed]
    BY <1>1, <1>n DEF ClaimChildren, LeaveLeased
  <2> HIDE DEF claimed
  <2>2. /\ pass'[o].pc = "tokens" /\ pass'[o].batch = pass[o].batch
        /\ pass'[o].parent = pass[o].parent /\ pass'[o].opened = pass[o].opened
    BY <1>p, <2>1 DEF Pass
  <2> QED
    BY <1>1, <2>2 DEF ClaimChildren, At, Delivering
<1>2. CASE StartSend(o)
  <2>1. pass'[o].parent = pass[o].parent
    <3>1. PICK child \in pass[o].children :
            pass' = [pass EXCEPT ![o].pc = "sending", ![o].child = child,
                                 ![o].children = @ \ {child}]
      BY <1>2 DEF StartSend
    <3> QED
      BY <1>p, <3>1 DEF Pass
  <2> QED
    BY <1>2, <2>1, SendRequest DEF Delivering
<1>4. CASE \/ SkipChildren(o) \/ ListChildren(o) \/ EnsureChildren(o) \/ EnsureTokens(o)
           \/ NoMoreChildren(o) \/ AckChild(o) \/ RetryChild(o) \/ Relist(o)
           \/ SendFails(o) \/ AckAnswerLost(o) \/ StoreCallFails(o)
  <2>1. pass[o].pc \in Delivering \ {"materialize"}
    BY <1>4, <1>n DEF SkipChildren, ListChildren, EnsureChildren, EnsureTokens, NoMoreChildren,
       AckChild, RetryChild, Relist, SendFails, AckAnswerLost, StoreCallFails, At, Delivering
  <2>2. \E pc : Goes(o, pc) /\ pc \notin {"sending", "ack"}
    BY <1>4, <1>n DEF SkipChildren, ListChildren, EnsureChildren, EnsureTokens, NoMoreChildren,
       AckChild, RetryChild, Relist, SendFails, AckAnswerLost, StoreCallFails, LeaveLeased, Goes
  <2> QED
    BY <2>1, <2>2, GoesFields
<1>5. CASE SendSucceeds(o)
  <2>1. pass[o].pc = "sending" /\ Goes(o, "ack")
    BY <1>5 DEF SendSucceeds, At, Goes
  <2> QED
    BY <1>5, <2>1, GoesFields DEF Delivering
<1>6. ~ OpenTenant(o) /\ ~ ClaimParents(o) /\ ~ NextParent(o)
  BY <1>n, PcsAfter, NewClaims DEF Delivering
<1>7. ~ FinalizeParent(o) /\ ~ Abandon(o)
  BY <1>n DEF FinalizeParent, Abandon, LeaveLeased
<1> QED
  BY <1>1, <1>2, <1>4, <1>5, <1>6, <1>7 DEF PassStep, Failure

LEMMA BatchesCompleteStep ==
    ASSUME LeasesInv, MembershipInWindow, UntouchedIsPending, BatchesComplete,
           [DeliveryNext]_deliveryVars
    PROVE  BatchesComplete'
<1> SUFFICES ASSUME NEW o \in Owners, pass'[o].pc \in Delivering \ {"materialize"}
             PROVE  Unmoderated(Digest(o))' \subseteq pass'[o].batch
  BY DEF BatchesComplete
<1>a. ArgumentsSound /\ ClaimsHeld
  BY DEF LeasesInv
<1>1. CASE /\ pass[o].pc \in Delivering \ {"materialize"}
           /\ pass'[o].batch = pass[o].batch /\ pass'[o].parent = pass[o].parent
  <2> DEFINE d == pass[o].parent.digest
  <2>1. d \in Digests /\ Claimed(d) /\ Unmoderated(d) \subseteq pass[o].batch
    BY <1>a, <1>1, HeldType
       DEF ClaimsHeld, ClaimsHeldBy, ClaimHeld, Claims, BatchesComplete, Digest
  <2>2. \A e \in Digests : Claimed(e) => Unmoderated(e)' \subseteq Unmoderated(e)
    BY <1>a, UnmoderatedShrinks
  <2>3. Unmoderated(Digest(o))' = {c \in members'[d] : comments'[c].untouched}
    BY <1>1 DEF Unmoderated, Digest
  <2>4. {c \in members'[d] : comments'[c].untouched} \subseteq Unmoderated(d)
    <3> HIDE DEF d
    <3> QED
      BY <2>1, <2>2 DEF Unmoderated
  <2> QED
    BY <1>1, <2>1, <2>3, <2>4
<1>2. CASE MaterializeParent(o)
  <2> DEFINE batch == PendingMembers(Digest(o))
             pc == IF batch = {} THEN "skip" ELSE "list"
  <2>1. ~ NextDigest(o)
    BY <1>a, NextDigestFields DEF Delivering
  <2>2. /\ pass' = [pass EXCEPT ![o].batch = batch, ![o].pc = pc]
        /\ members' = members /\ comments' = comments /\ pass[o].pc = "materialize"
    BY <1>2, <2>1 DEF MaterializeParent, LeaveLeased, At, store, vars
  <2>3. pass'[o].batch = PendingMembers(Digest(o)) /\ pass'[o].parent = pass[o].parent
    <3> HIDE DEF pc
    <3>1. pass \in [Owners -> Pass] /\ pass[o] \in Pass
      BY <1>a DEF ArgumentsSound
    <3> QED
      BY <2>2, <3>1 DEF Pass
  <2>4. Digest(o) \in Digests /\ Digest(o)' = Digest(o)
    BY <1>a, <2>2, <2>3, HeldType DEF Claims, Digest, Delivering
  <2>5. Unmoderated(Digest(o)) \subseteq PendingMembers(Digest(o))
    <3>1. members[Digest(o)] \subseteq Comments
      BY <1>a, <2>4 DEF ArgumentsSound, TypeOK
    <3> QED
      BY <2>4, <3>1 DEF Unmoderated, PendingMembers, UntouchedIsPending, MembershipInWindow
  <2> QED
    BY <2>2, <2>3, <2>4, <2>5 DEF Unmoderated
<1>3. CASE pass'[o] = pass[o]
  BY <1>1, <1>3
<1>4. ASSUME NEW q \in Owners, OpenTenant(q) \/ PassStep(q) \/ Failure(q)
      PROVE  pass'[o] = pass[o] \/ q = o
  BY <1>a, <1>4, StepShape, NewClaims
<1>5. CASE OpenTenant(o) \/ PassStep(o) \/ Failure(o)
  BY <1>a, <1>1, <1>2, <1>5, BatchKept
<1>6. Outside \/ Clock \/ (\E r \in requests : ProviderAccepts(r)) \/ UNCHANGED deliveryVars
        => pass' = pass
  BY DEF Outside, Clock, ProviderAccepts, deliveryVars
<1> QED
  BY <1>3, <1>4, <1>5, <1>6 DEF DeliveryNext

\* A pass comes to acknowledge a channel only when its send succeeds.
LEMMA AckOnlyAfterSend ==
    ASSUME ArgumentsSound, [DeliveryNext]_deliveryVars, NEW o \in Owners,
           pass'[o].pc = "ack"
    PROVE  pass'[o] = pass[o] \/ SendSucceeds(o)
<1>1. ASSUME NEW q \in Owners, OpenTenant(q) \/ PassStep(q) \/ Failure(q)
      PROVE  pass'[o] = pass[o] \/ q = o
  BY <1>1, StepShape, NewClaims
<1>2. ASSUME OpenTenant(o) \/ PassStep(o) \/ Failure(o)
      PROVE  SendSucceeds(o)
  <2>1. ~ StartSend(o)
    BY PcsAfter
  <2>2. ~ MaterializeParent(o)
    <3>1. ~ NextDigest(o)
      BY NextDigestFields
    <3> DEFINE batch == PendingMembers(Digest(o))
               pc == IF batch = {} THEN "skip" ELSE "list"
    <3>2. MaterializeParent(o) => pass' = [pass EXCEPT ![o].batch = batch, ![o].pc = pc]
      BY <3>1 DEF MaterializeParent, LeaveLeased
    <3>3. pc # "ack" /\ pass \in [Owners -> Pass] /\ pass[o] \in Pass
      BY DEF ArgumentsSound
    <3> HIDE DEF batch, pc
    <3> QED
      BY <3>2, <3>3 DEF Pass
  <2> QED
    BY <1>2, <2>1, <2>2, BatchKept DEF Delivering
<1>3. Outside \/ Clock \/ (\E r \in requests : ProviderAccepts(r)) \/ UNCHANGED deliveryVars
        => pass' = pass
  BY DEF Outside, Clock, ProviderAccepts, deliveryVars
<1> QED
  BY <1>1, <1>2, <1>3 DEF DeliveryNext

LEMMA AcceptedWasShippedStep ==
    ASSUME ArgumentsSound, ProviderTyped, AcceptedWasShipped, [DeliveryNext]_deliveryVars
    PROVE  AcceptedWasShipped'
<1>m. ASSUME NEW d \in Digests, NEW ch \in Channels, NEW batch, Shipped(d, ch, batch)
      PROVE  Shipped(d, ch, batch)'
  <2>1. accepts[d][ch] <= accepts'[d][ch] /\ delivered[d][ch] \subseteq delivered'[d][ch]
    BY ProviderKeeps
  <2>2. accepts[d][ch] \in Nat /\ accepts'[d][ch] \in Nat
    BY ProviderKeeps DEF ProviderTyped
  <2> QED
    BY <1>m, <2>1, <2>2 DEF Shipped
<1>r. \A r \in requests : /\ r \in Requests /\ r.digest \in Digests /\ r.channel \in Channels
                          /\ r.accepted => Shipped(r.digest, r.channel, r.batch)
  BY DEF ProviderTyped, Requests, AcceptedWasShipped
<1>1. ASSUME NEW r \in requests', r.accepted
      PROVE  Shipped(r.digest, r.channel, r.batch)'
  <2>1. CASE r \in requests
    BY <1>1, <1>m, <1>r, <2>1
  <2>2. CASE r \notin requests
    <3>1. ASSUME NEW s \in requests, ProviderAccepts(s)
          PROVE  Shipped(r.digest, r.channel, r.batch)'
      <4>1. /\ r = Accepted(s)
            /\ accepts' = [accepts EXCEPT ![s.digest][s.channel] = @ + 1]
            /\ delivered' = [delivered EXCEPT ![s.digest][s.channel] = @ \cup s.batch]
        BY <2>2, <3>1 DEF ProviderAccepts
      <4>2. /\ r.digest = s.digest /\ r.channel = s.channel /\ r.batch = s.batch
            /\ s.digest \in Digests /\ s.channel \in Channels
        BY <1>r, <4>1 DEF Accepted, Requests
      <4>3. /\ accepts'[s.digest][s.channel] = accepts[s.digest][s.channel] + 1
            /\ accepts[s.digest][s.channel] \in Nat
            /\ s.batch \subseteq delivered'[s.digest][s.channel]
        BY <4>1, <4>2 DEF ProviderTyped
      <4> QED
        BY <4>2, <4>3 DEF Shipped
    <3>2. ~ (\E o \in Owners : ChangesRequests(o))
      <4>1. ASSUME NEW o \in Owners, ChangesRequests(o) PROVE FALSE
        BY <1>1, <2>2, <4>1, SendRequest
           DEF ChangesRequests, SendSucceeds, SendFails, Abandon
      <4> QED
        BY <4>1
    <3> QED
      BY <2>2, <3>1, <3>2, RequestsChange
  <2> QED
    BY <2>1, <2>2
<1>2. ASSUME NEW o \in Owners, pass'[o].pc = "ack"
      PROVE  Shipped(Digest(o), Channel(o), pass[o].batch)'
  <2>1. pass'[o].parent = pass[o].parent /\ pass'[o].child = pass[o].child
           /\ pass'[o].batch = pass[o].batch
           /\ pass[o].pc \in WithChild
           /\ Shipped(Digest(o), Channel(o), pass[o].batch)
    <3>1. CASE pass'[o] = pass[o]
      BY <1>2, <3>1 DEF AcceptedWasShipped, WithChild
    <3>2. CASE SendSucceeds(o)
      <4>1. /\ GoNow(o, "ack") /\ pass[o].pc = "sending"
            /\ Accepted(Request(o)) \in requests
        BY <3>2 DEF SendSucceeds, At
      <4>2. pass[o].pc \in WithChild
        BY <4>1 DEF WithChild
      <4>3. /\ Accepted(Request(o)).accepted
            /\ Accepted(Request(o)).digest = Digest(o)
            /\ Accepted(Request(o)).channel = Channel(o)
            /\ Accepted(Request(o)).batch = pass[o].batch
        BY <4>2, RequestType DEF Request, Accepted
      <4>4. Shipped(Digest(o), Channel(o), pass[o].batch)
        BY <1>r, <4>1, <4>3
      <4> QED
        BY <4>1, <4>2, <4>4, GoNowFields
    <3> QED
      BY <1>2, <3>1, <3>2, AckOnlyAfterSend
  <2>2. Digest(o) \in Digests /\ Channel(o) \in Channels
    BY <2>1, RequestType
  <2>3. Digest(o)' = Digest(o) /\ Channel(o)' = Channel(o)
    BY <2>1 DEF Digest, Channel
  <2> DEFINE d == Digest(o)
             ch == Channel(o)
             batch == pass[o].batch
  <2>4. accepts'[d][ch] > 0 /\ batch \subseteq delivered'[d][ch]
    <3> HIDE DEF d, ch, batch
    <3> USE DEF Shipped
    <3>1. d \in Digests /\ ch \in Channels /\ Shipped(d, ch, batch)
      BY <2>1, <2>2 DEF d, ch, batch
    <3>2. accepts[d][ch] <= accepts'[d][ch] /\ delivered[d][ch] \subseteq delivered'[d][ch]
      BY <3>1, ProviderKeeps
    <3>3. accepts[d][ch] \in Nat /\ accepts'[d][ch] \in Nat
      BY <3>1, ProviderKeeps DEF ProviderTyped
    <3> QED
      BY <3>1, <3>2, <3>3
  <2> QED
    BY <2>1, <2>3, <2>4 DEF Shipped
<1> QED
  BY <1>1, <1>2 DEF AcceptedWasShipped

\* A channel becomes sent by an acknowledgement.
LEMMA SentByAck ==
    ASSUME ArgumentsSound, [DeliveryNext]_deliveryVars, NEW d \in Digests, NEW ch \in Channels,
           channels[d][ch].status # "sent", channels'[d][ch].status = "sent"
    PROVE  /\ UNCHANGED <<members, comments, accepts, delivered>>
           /\ \E o \in Owners : Digest(o) = d /\ Channel(o) = ch /\ pass[o].pc = "ack"
<1>t. channels \in [Digests -> [Channels -> ChannelRow]] /\ channels[d][ch] \in ChannelRow
  BY DEF ArgumentsSound, TypeOK
<1>c. channels'[d] # channels[d] /\ channels' # channels
  OBVIOUS
<1>1. PICK o \in Owners : /\ WritesChannels(o) /\ Digest(o) = d
                          /\ pass[o].pc \in Delivering
  BY <1>c, ChannelsChange
<1>3. UNCHANGED <<members, comments>>
  BY <1>1, <1>c DEF WritesChannels, SkipChildren, EnsureChildren, ClaimChildren, AckChild,
     RetryChild, AckAnswerLost, SkipNotificationOutboxChannels,
     EnsureNotificationOutboxChannels, ClaimNotificationOutboxChannels,
     AckNotificationOutboxChannel, RetryNotificationOutboxChannel, LeaveLeased, store, vars
<1>4. UNCHANGED <<accepts, delivered>>
  BY <1>1 DEF WritesChannels, SkipChildren, EnsureChildren, ClaimChildren, AckChild,
     RetryChild, AckAnswerLost, provider
<1>5. ~ SkipChildren(o)
  <2>1. SkipChildren(o) => channels' = CloseOutstanding(d, "skipped")
    BY <1>1, <1>c DEF SkipChildren, SkipNotificationOutboxChannels, LeaveLeased, store, vars
  <2> QED
    BY <1>t, <2>1, ClosedRow DEF CloseOutstanding
<1>6. ~ EnsureChildren(o)
  <2>1. EnsureChildren(o) => \E t \in (pass[o].at + 1) .. now :
            channels' = [channels EXCEPT ![d] = [x \in Channels |->
                IF x \in pass[o].config /\ channels[d][x].status = "absent"
                THEN [NoChannel EXCEPT !.status = "pending", !.availableAt = t]
                ELSE channels[d][x]]]
    BY <1>1, <1>c DEF EnsureChildren, EnsureNotificationOutboxChannels, LeaveLeased, store, vars
  <2>2. EnsureChildren(o) => \/ channels'[d][ch] = channels[d][ch]
                             \/ \E t \in (pass[o].at + 1) .. now : channels'[d][ch] =
                                    [NoChannel EXCEPT !.status = "pending", !.availableAt = t]
    BY <1>t, <2>1
  <2> QED
    BY <2>2 DEF NoChannel
<1>7. ~ ClaimChildren(o)
  <2>1. ClaimChildren(o) => ClaimNotificationOutboxChannels(d, o, pass[o].at)
    BY <1>1, <1>c DEF ClaimChildren, LeaveLeased, store, vars
  <2>2. ClaimChildren(o) => channels'[d][ch] \in {channels[d][ch],
                                Leased(channels[d][ch], o, pass[o].at + ChildLease)}
    BY <1>t, <2>1 DEF ClaimNotificationOutboxChannels
  <2> QED
    BY <1>t, <2>2 DEF Leased, ChannelRow
<1>8. ~ RetryChild(o)
  <2>1. RetryChild(o) => channels' = [channels EXCEPT ![d][Channel(o)] =
                                [Unleased(@, "pending") EXCEPT !.availableAt = RetryAt(o)]]
    BY <1>1, <1>c DEF RetryChild, RetryNotificationOutboxChannel, store, vars
  <2>2. RetryChild(o) => \/ channels'[d][ch] = channels[d][ch]
                         \/ channels'[d][ch] = [Unleased(channels[d][ch], "pending") EXCEPT
                                                    !.availableAt = RetryAt(o)]
    BY <1>t, <2>1
  <2>3. Unleased(channels[d][ch], "pending") \in [status : {"pending"}, availableAt : Nat,
                leaseUntil : Nat, owner : Owners \cup {NoOwner}, attempts : Nat]
    BY <1>t DEF Unleased, ChannelRow
  <2> QED
    BY <2>2, <2>3
<1>9. CASE AckChild(o) \/ AckAnswerLost(o)
  <2>1. /\ channels' = [channels EXCEPT ![d][Channel(o)] = Unleased(@, "sent")]
        /\ pass[o].pc = "ack"
    BY <1>1, <1>c, <1>9 DEF AckChild, AckAnswerLost, AckNotificationOutboxChannel, At,
       store, vars
  <2>2. Channel(o) = ch
    BY <1>t, <2>1
  <2> QED
    BY <1>1, <1>3, <1>4, <2>1, <2>2
<1> QED
  BY <1>1, <1>5, <1>6, <1>7, <1>8, <1>9 DEF WritesChannels

LEMMA SentWasDeliveredStep ==
    ASSUME LeasesInv, SentInv, MembershipInWindow, [DeliveryNext]_deliveryVars
    PROVE  SentWasDelivered'
<1> SUFFICES ASSUME NEW d \in Digests, NEW ch \in Channels, parents'[d].version = 1,
                    channels'[d][ch].status = "sent"
             PROVE  /\ accepts'[d][ch] > 0
                    /\ Unmoderated(d)' \subseteq delivered'[d][ch]
  BY DEF SentWasDelivered, Unmoderated
<1>a. ArgumentsSound /\ ClaimsHeld
  BY DEF LeasesInv
<1>1. CASE channels[d][ch].status = "sent"
  <2>1. Rows(d) # {}
    BY <1>1 DEF Rows
  <2>2. parents[d].version = 1 /\ Claimed(d)
    <3>1. Claimed(d) \/ (parents[d].status = "pending" /\ parents[d].version = 0)
      BY <2>1 DEF SentInv, RowsOfClaimed
    <3>2. parents[d].version = 1
      BY <1>a, <3>1, ParentChange DEF Claimed
    <3> QED
      BY <3>1, <3>2
  <2>3. accepts[d][ch] > 0 /\ Unmoderated(d) \subseteq delivered[d][ch]
    BY <1>1, <2>2 DEF SentInv, SentWasDelivered, Unmoderated
  <2>4. Unmoderated(d)' \subseteq Unmoderated(d)
    BY <1>a, <2>2, UnmoderatedShrinks
  <2>5. accepts[d][ch] <= accepts'[d][ch] /\ delivered[d][ch] \subseteq delivered'[d][ch]
    BY <1>a, ProviderKeeps DEF SentInv
  <2>6. accepts[d][ch] \in Nat /\ accepts'[d][ch] \in Nat
    BY <1>a, ProviderKeeps DEF SentInv, ProviderTyped
  <2> QED
    BY <2>3, <2>4, <2>5, <2>6
<1>2. CASE channels[d][ch].status # "sent"
  <2>1. /\ UNCHANGED <<members, comments, accepts, delivered>>
        /\ \E o \in Owners : Digest(o) = d /\ Channel(o) = ch /\ pass[o].pc = "ack"
    BY <1>a, <1>2, SentByAck
  <2>2. PICK o \in Owners : Digest(o) = d /\ Channel(o) = ch /\ pass[o].pc = "ack"
    BY <2>1
  <2>3. Shipped(d, ch, pass[o].batch)
    BY <2>2 DEF SentInv, AcceptedWasShipped
  <2>4. Unmoderated(d) \subseteq pass[o].batch
    BY <2>2 DEF SentInv, BatchesComplete, Delivering
  <2>5. Unmoderated(d)' = Unmoderated(d)
    BY <2>1 DEF Unmoderated
  <2> QED
    BY <2>1, <2>3, <2>4, <2>5 DEF Shipped
<1> QED
  BY <1>1, <1>2

\* What the worker marks sent, the provider has accepted, and nobody's comment
\* was left out of it.
THEOREM SentIsDelivered == DeliverySpec => []SentWasDelivered
<1>1. DeliveryInit => SentInv
  <2> SUFFICES ASSUME DeliveryInit PROVE SentInv
    OBVIOUS
  <2>1. ProviderTyped
    BY DEF DeliveryInit, ProviderTyped
  <2>2. BatchesComplete /\ AcceptedWasShipped
    BY DEF DeliveryInit, BatchesComplete, AcceptedWasShipped, Fresh, Delivering
  <2>3. ASSUME NEW d \in Digests
        PROVE  /\ parents[d].version = 0
               /\ \/ d \in LegacyDigests /\ parents[d].status \in {"pending", "sent"}
                  \/ Rows(d) = {}
    <3>1. PICK status \in [LegacyDigests -> {"pending", "sent"}] :
            parents = [e \in Digests |->
                IF e \in LegacyDigests THEN LegacyParent(e, status[e]) ELSE NoParent]
      BY DEF DeliveryInit, Init
    <3>2. PICK columns \in [LegacyDigests \X Channels -> {"absent", "pending", "sent"}] :
            channels = [e \in Digests |-> [ch \in Channels |->
                IF e \in LegacyDigests
                THEN [NoChannel EXCEPT !.status = columns[<<e, ch>>]]
                ELSE NoChannel]]
      BY DEF DeliveryInit, Init
    <3>3. CASE d \in LegacyDigests
      BY <3>1, <3>3 DEF LegacyParent, NoParent
    <3>4. CASE d \notin LegacyDigests
      BY <3>1, <3>2, <3>4 DEF NoParent, NoChannel, Rows
    <3> QED
      BY <3>3, <3>4
  <2>4. RowsOfClaimed /\ SentWasDelivered
    BY <2>3 DEF RowsOfClaimed, SentWasDelivered, Claimed
  <2> QED
    BY <2>1, <2>2, <2>4 DEF SentInv
<1>2. LeasesInv /\ IInv /\ SentInv /\ [DeliveryNext]_deliveryVars => SentInv'
  <2> SUFFICES ASSUME LeasesInv, IInv, SentInv, [DeliveryNext]_deliveryVars PROVE SentInv'
    OBVIOUS
  <2>1. ArgumentsSound /\ MembershipInWindow /\ UntouchedIsPending
    BY DEF LeasesInv, IInv
  <2> QED
    BY <2>1, ProviderKeeps, RowsOfClaimedStep, BatchesCompleteStep, AcceptedWasShippedStep,
       SentWasDeliveredStep DEF SentInv
<1>3. SentInv => SentWasDelivered
  BY DEF SentInv
<1> QED
  BY <1>1, <1>2, <1>3, LeasesAlwaysHeld, WorkerImplementsOutbox, Inductive, PTL
     DEF DeliverySpec, ImplementsOutbox

-----------------------------------------------------------------------------
(* Every second acceptance is somebody's fault *)

LEMMA AtMostOneMore ==
    ASSUME NEW S, IsFiniteSet(S), NEW x, NEW T, T \subseteq S \cup {x}
    PROVE  /\ IsFiniteSet(T) /\ Cardinality(S) \in Nat /\ Cardinality(T) \in Nat
           /\ Cardinality(T) <= Cardinality(S) + 1
<1>1. /\ IsFiniteSet(S \cup {x}) /\ Cardinality(S) \in Nat
      /\ Cardinality(S \cup {x}) \in Nat /\ Cardinality(S \cup {x}) <= Cardinality(S) + 1
  BY FS_AddElement, FS_CardinalityType
<1>2. /\ IsFiniteSet(T) /\ Cardinality(T) \in Nat
      /\ Cardinality(T) <= Cardinality(S \cup {x})
  BY <1>1, FS_Subset, FS_CardinalityType
<1> QED
  BY <1>1, <1>2

LEMMA AtLeastOneMore ==
    ASSUME NEW T, IsFiniteSet(T), NEW S, S \subseteq T, NEW x \in T, x \notin S
    PROVE  /\ Cardinality(S) \in Nat /\ Cardinality(T) \in Nat
           /\ Cardinality(S) + 1 <= Cardinality(T)
<1>1. /\ IsFiniteSet(T \ {x}) /\ Cardinality(T) \in Nat /\ Cardinality(T \ {x}) \in Nat
      /\ Cardinality(T \ {x}) = Cardinality(T) - 1
  BY FS_RemoveElement, FS_CardinalityType
<1>2. S \subseteq T \ {x}
  OBVIOUS
<1>3. /\ IsFiniteSet(S) /\ Cardinality(S) \in Nat
      /\ Cardinality(S) <= Cardinality(T \ {x})
  BY <1>1, <1>2, FS_Subset, FS_CardinalityType
<1> QED
  BY <1>1, <1>3

LEMMA FewerOfFewer ==
    ASSUME NEW S, IsFiniteSet(S), NEW T, T \subseteq S
    PROVE  /\ IsFiniteSet(T) /\ Cardinality(S) \in Nat /\ Cardinality(T) \in Nat
           /\ Cardinality(T) <= Cardinality(S)
BY FS_Subset, FS_CardinalityType

\* Each step opens one pass at most, and makes one request at most.
ActiveOwners == {o \in Owners : Active(o)}

FinitelyMany == IsFiniteSet(requests) /\ IsFiniteSet(ActiveOwners)

LEMMA FinitelyManyStep ==
    ASSUME ArgumentsSound, FinitelyMany, [DeliveryNext]_deliveryVars
    PROVE  FinitelyMany'
<1>1. IsFiniteSet(requests')
  <2>1. ASSUME NEW r \in requests, ProviderAccepts(r) PROVE IsFiniteSet(requests')
    <3>1. requests' \subseteq requests \cup {Accepted(r)}
      BY <2>1 DEF ProviderAccepts
    <3> QED
      BY <3>1, AtMostOneMore DEF FinitelyMany
  <2>2. ASSUME NEW o \in Owners, ChangesRequests(o) PROVE IsFiniteSet(requests')
    <3>1. \E x : requests' \subseteq requests \cup {x}
      <4>1. CASE StartSend(o)
        BY <4>1, SendRequest
      <4>2. CASE SendSucceeds(o) \/ SendFails(o) \/ Abandon(o)
        <5>1. requests' \subseteq requests
          BY <4>2 DEF SendSucceeds, SendFails, Abandon
        <5> QED
          BY <5>1
      <4> QED
        BY <2>2, <4>1, <4>2 DEF ChangesRequests
    <3> QED
      BY <3>1, AtMostOneMore DEF FinitelyMany
  <2> QED
    BY <2>1, <2>2, RequestsChange DEF FinitelyMany
<1>2. IsFiniteSet(ActiveOwners')
  <2>1. \E x : ActiveOwners' \subseteq ActiveOwners \cup {x}
    <3>1. ASSUME NEW o \in Owners, OpenTenant(o) \/ PassStep(o) \/ Failure(o)
          PROVE  ActiveOwners' \subseteq ActiveOwners \cup {o}
      <4>1. \A q \in Owners \ {o} : pass'[q] = pass[q]
        BY <3>1, StepShape, NewClaims
      <4> QED
        BY <4>1 DEF ActiveOwners, Active
    <3>2. Outside \/ Clock \/ (\E r \in requests : ProviderAccepts(r)) \/ UNCHANGED deliveryVars
            => ActiveOwners' = ActiveOwners
      BY DEF Outside, Clock, ProviderAccepts, deliveryVars, ActiveOwners, Active
    <3> QED
      BY <3>1, <3>2 DEF DeliveryNext
  <2> QED
    BY <2>1, AtMostOneMore DEF FinitelyMany
<1> QED
  BY <1>1, <1>2 DEF FinitelyMany

\* Only giving a pass up takes it out of the overdue ones, and that is a fault.
LEMMA OverdueStep ==
    ASSUME ArgumentsSound, [DeliveryNext]_deliveryVars, NEW q \in Overdue
    PROVE  q \in Overdue' \/ Abandon(q)
<1>1. q \in Owners /\ Active(q) /\ ~ (now < Deadline(q))
  BY DeadlineType DEF Overdue
<1>2. CASE pass'[q] = pass[q]
  <2>1. Deadline(q)' = Deadline(q) /\ Active(q)'
    BY <1>1, <1>2 DEF Deadline, Active
  <2>2. now' >= Deadline(q)
    BY <1>1, DeadlineType, DeliveryTime
  <2> QED
    BY <1>1, <2>1, <2>2 DEF Overdue
<1>3. ASSUME NEW o \in Owners, OpenTenant(o) \/ PassStep(o) \/ Failure(o)
      PROVE  pass'[q] = pass[q] \/ o = q
  BY <1>1, <1>3, StepShape, NewClaims
<1>4. ASSUME OpenTenant(q) \/ PassStep(q) \/ Failure(q) PROVE Abandon(q)
  <2>1. ~ OpenTenant(q)
    BY <1>1 DEF OpenTenant, Active
  <2>2. ~ PassStep(q)
    BY <1>1 DEF PassStep, ClaimParents, NextParent,
       MaterializeParent, SkipChildren, ListChildren, EnsureChildren, ClaimChildren,
       EnsureTokens, StartSend, NoMoreChildren, SendSucceeds, AckChild, RetryChild, Relist,
       FinalizeParent, At
  <2>3. ~ SendFails(q) /\ ~ StoreCallFails(q) /\ ~ AckAnswerLost(q)
    BY <1>1 DEF SendFails, StoreCallFails, AckAnswerLost, At
  <2> QED
    BY <1>4, <2>1, <2>2, <2>3 DEF Failure
<1>5. Outside \/ Clock \/ (\E r \in requests : ProviderAccepts(r)) \/ UNCHANGED deliveryVars
        => pass' = pass
  BY DEF Outside, Clock, ProviderAccepts, deliveryVars
<1> QED
  BY <1>2, <1>3, <1>4, <1>5 DEF DeliveryNext

Blame == faults + Cardinality(Overdue)

LEMMA BlameType ==
    ASSUME FinitelyMany, faults \in Nat
    PROVE  IsFiniteSet(Overdue) /\ Cardinality(Overdue) \in Nat /\ Blame \in Nat
<1>1. Overdue \subseteq ActiveOwners
  BY DEF Overdue, ActiveOwners
<1> QED
  BY <1>1, FewerOfFewer DEF Blame, FinitelyMany

\* Blame is never taken back, and both a failure of a pass that still has time
\* and the end of its time add to it.
LEMMA BlameGrows ==
    ASSUME ArgumentsSound, FinitelyMany, faults \in Nat, [DeliveryNext]_deliveryVars
    PROVE  /\ Blame \in Nat /\ Blame' \in Nat /\ Blame <= Blame'
           /\ \A o \in Owners : Failure(o) /\ now < Deadline(o) => Blame + 1 <= Blame'
           /\ \A o \in Overdue' : o \notin Overdue => Blame + 1 <= Blame'
<1>1. /\ FinitelyMany' /\ faults' \in Nat /\ faults <= faults'
  BY FinitelyManyStep, FaultsGrow
<1>2. /\ IsFiniteSet(Overdue) /\ Cardinality(Overdue) \in Nat /\ Blame \in Nat
      /\ IsFiniteSet(Overdue') /\ Cardinality(Overdue') \in Nat /\ Blame' \in Nat
  <2>1. Overdue \subseteq ActiveOwners /\ Overdue' \subseteq ActiveOwners'
    BY DEF Overdue, ActiveOwners
  <2>2. IsFiniteSet(ActiveOwners) /\ IsFiniteSet(ActiveOwners')
    BY <1>1 DEF FinitelyMany
  <2>3. IsFiniteSet(Overdue) /\ Cardinality(Overdue) \in Nat
    BY <2>1, <2>2, FewerOfFewer
  <2>4. IsFiniteSet(Overdue') /\ Cardinality(Overdue') \in Nat
    BY <2>1, <2>2, FewerOfFewer
  <2> QED
    BY <1>1, <2>3, <2>4 DEF Blame
<1>3. CASE Overdue \subseteq Overdue'
  <2>1. Cardinality(Overdue) <= Cardinality(Overdue')
    BY <1>2, <1>3, FewerOfFewer
  <2>2. Blame <= Blame'
    BY <1>1, <1>2, <2>1 DEF Blame
  <2>3. ASSUME NEW o \in Owners, Failure(o) PROVE Blame + 1 <= Blame'
    <3>1. faults' = faults + 1
      BY <2>3, FaultsGrow
    <3> QED
      BY <1>1, <1>2, <2>1, <3>1 DEF Blame
  <2>4. ASSUME NEW o \in Overdue', o \notin Overdue PROVE Blame + 1 <= Blame'
    <3>1. Cardinality(Overdue) + 1 <= Cardinality(Overdue')
      BY <1>2, <1>3, <2>4, AtLeastOneMore
    <3> QED
      BY <1>1, <1>2, <3>1 DEF Blame
  <2> QED
    BY <1>2, <2>2, <2>3, <2>4
<1>4. CASE ~ (Overdue \subseteq Overdue')
  <2>1. PICK q \in Overdue : Abandon(q)
    BY <1>4, OverdueStep
  <2>2. /\ q \in Owners /\ pass'[q].pc = "ended" /\ ~ (now < Deadline(q))
        /\ faults' = faults + 1 /\ now' = now
        /\ \A o \in Owners \ {q} : pass'[o] = pass[o]
    BY <2>1, EndFields, FaultsGrow, DeadlineType
       DEF Overdue, Abandon, Failure, store, vars
  <2>3. Overdue' = Overdue \ {q}
    BY <2>1, <2>2 DEF Overdue, Active, Deadline
  <2>4. Cardinality(Overdue) <= Cardinality(Overdue') + 1
    <3>1. Overdue \subseteq Overdue' \cup {q}
      BY <2>3
    <3> QED
      BY <1>2, <3>1, AtMostOneMore
  <2>5. Blame <= Blame'
    BY <1>1, <1>2, <2>2, <2>4 DEF Blame
  <2>6. ASSUME NEW o \in Owners, Failure(o), now < Deadline(o) PROVE FALSE
    <3>1. o # q
      BY <2>2, <2>6
    <3>2. pass'[q] = pass[q]
      BY <2>2, <2>6, <3>1, StepShape, NewClaims
    <3> QED
      BY <2>1, <2>2, <3>2 DEF Abandon, Active
  <2> QED
    BY <1>2, <2>3, <2>5, <2>6
<1> QED
  BY <1>3, <1>4

Unsettled(d, ch) == {r \in requests : r.digest = d /\ r.channel = ch /\ ~ r.accepted}

\* The batches of d that the provider accepted on ch, or may still accept.
Attempts(d, ch) == accepts[d][ch] + Cardinality(Unsettled(d, ch))

\* One batch of d on ch is nobody's fault: the one of the pass that is at it,
\* or the one that was acknowledged.
Excused(d, ch) ==
    \/ channels[d][ch].status = "sent"
    \/ \E o \in Owners : /\ pass[o].pc \in {"sending", "ack"} /\ now < Deadline(o)
                         /\ Digest(o) = d /\ Channel(o) = ch

StartsBlamed ==
    \A d \in Digests, ch \in Channels :
        Attempts(d, ch) <= Blame + (IF Excused(d, ch) THEN 1 ELSE 0)

BlameInv == ProviderTyped /\ FinitelyMany /\ StartsBlamed

LEMMA AttemptsType ==
    ASSUME ProviderTyped, FinitelyMany, NEW d \in Digests, NEW ch \in Channels
    PROVE  /\ accepts[d][ch] \in Nat /\ IsFiniteSet(Unsettled(d, ch))
           /\ Cardinality(Unsettled(d, ch)) \in Nat /\ Attempts(d, ch) \in Nat
<1>1. Unsettled(d, ch) \subseteq requests
  BY DEF Unsettled
<1>2. accepts[d][ch] \in Nat
  BY DEF ProviderTyped
<1> QED
  BY <1>1, <1>2, FewerOfFewer DEF Attempts, FinitelyMany

\* Only a send adds an attempt; an acceptance settles one.
LEMMA AttemptsStep ==
    ASSUME ArgumentsSound, ProviderTyped, FinitelyMany, [DeliveryNext]_deliveryVars,
           NEW d \in Digests, NEW ch \in Channels
    PROVE  \/ Attempts(d, ch)' <= Attempts(d, ch)
           \/ /\ Attempts(d, ch)' <= Attempts(d, ch) + 1
              /\ \E o \in Owners : StartSend(o) /\ Digest(o) = d /\ Channel(o)' = ch
<1> DEFINE U == Unsettled(d, ch)
           V == {r \in requests' : r.digest = d /\ r.channel = ch /\ ~ r.accepted}
           Goal == \/ Attempts(d, ch)' <= Attempts(d, ch)
                   \/ /\ Attempts(d, ch)' <= Attempts(d, ch) + 1
                      /\ \E o \in Owners : StartSend(o) /\ Digest(o) = d /\ Channel(o)' = ch
<1> SUFFICES Goal
  OBVIOUS
<1>1. /\ accepts[d][ch] \in Nat /\ IsFiniteSet(U) /\ Cardinality(U) \in Nat
      /\ Attempts(d, ch) = accepts[d][ch] + Cardinality(U)
  BY AttemptsType DEF Attempts
<1>2. /\ accepts'[d][ch] \in Nat /\ IsFiniteSet(V) /\ Cardinality(V) \in Nat
      /\ Attempts(d, ch)' = accepts'[d][ch] + Cardinality(V)
  <2>1. IsFiniteSet(requests') /\ accepts' \in [Digests -> [Channels -> Nat]]
    BY FinitelyManyStep, ProviderKeeps DEF FinitelyMany, ProviderTyped
  <2>2. V \subseteq requests'
    OBVIOUS
  <2>3. IsFiniteSet(V) /\ Cardinality(V) \in Nat
    BY <2>1, <2>2, FewerOfFewer
  <2> QED
    BY <2>1, <2>3 DEF Attempts, Unsettled
<1>r. \A r \in requests : /\ r \in Requests /\ r.digest \in Digests /\ r.channel \in Channels
  BY DEF ProviderTyped, Requests
<1> HIDE DEF Goal
<1>3. ASSUME NEW r \in requests, ProviderAccepts(r) PROVE Goal
  <2>1. /\ accepts' = [accepts EXCEPT ![r.digest][r.channel] = @ + 1]
        /\ requests' \subseteq (requests \ {r}) \cup {Accepted(r)}
        /\ Accepted(r).accepted /\ ~ r.accepted
    BY <1>3, <1>r DEF ProviderAccepts, Accepted, Requests
  <2>2. V \subseteq U \ {r}
    BY <2>1 DEF Unsettled
  <2>3. CASE r.digest = d /\ r.channel = ch
    <3>1. accepts'[d][ch] = accepts[d][ch] + 1
      BY <1>r, <2>1, <2>3 DEF ProviderTyped
    <3>2. r \in U
      BY <2>1, <2>3 DEF Unsettled
    <3>3. Cardinality(V) + 1 <= Cardinality(U)
      <4>1. V \subseteq U /\ r \notin V
        BY <2>2
      <4> HIDE DEF U, V
      <4> QED
        BY <1>1, <3>2, <4>1, AtLeastOneMore
    <3> QED
      BY <1>1, <1>2, <3>1, <3>3 DEF Goal
  <2>4. CASE ~ (r.digest = d /\ r.channel = ch)
    <3>1. accepts'[d][ch] = accepts[d][ch]
      BY <1>r, <2>1, <2>4 DEF ProviderTyped
    <3>2. Cardinality(V) <= Cardinality(U)
      <4>1. V \subseteq U
        BY <2>2
      <4> HIDE DEF U, V
      <4> QED
        BY <1>1, <4>1, FewerOfFewer
    <3> QED
      BY <1>1, <1>2, <3>1, <3>2 DEF Goal
  <2> QED
    BY <2>3, <2>4
<1>4. ASSUME accepts' = accepts, V \subseteq U PROVE Goal
  <2>1. Cardinality(V) <= Cardinality(U)
    <3> HIDE DEF U, V
    <3> QED
      BY <1>1, <1>4, FewerOfFewer
  <2> QED
    BY <1>1, <1>2, <1>4, <2>1 DEF Goal
<1>5. ASSUME accepts' = accepts, NEW o \in Owners, ChangesRequests(o) PROVE Goal
  <2>1. CASE StartSend(o)
    <3> DEFINE r == [owner |-> o, digest |-> Digest(o), channel |-> Channel(o)',
                     batch |-> pass[o].batch, accepted |-> FALSE]
    <3>1. requests' = requests \cup {r} /\ r.digest = Digest(o) /\ r.channel = Channel(o)'
      BY <2>1, SendRequest
    <3> HIDE DEF r
    <3>2. CASE Digest(o) = d /\ Channel(o)' = ch
      <4>1. V \subseteq U \cup {r}
        BY <3>1 DEF Unsettled
      <4>2. Cardinality(V) <= Cardinality(U) + 1
        <5> HIDE DEF U, V
        <5> QED
          BY <1>1, <4>1, AtMostOneMore
      <4>3. Attempts(d, ch)' <= Attempts(d, ch) + 1
        BY <1>1, <1>2, <1>5, <4>2
      <4> QED
        BY <2>1, <3>2, <4>3 DEF Goal
    <3>3. CASE ~ (Digest(o) = d /\ Channel(o)' = ch)
      <4>1. V \subseteq U
        BY <3>1, <3>3 DEF Unsettled
      <4> QED
        BY <1>4, <1>5, <4>1
    <3> QED
      BY <3>2, <3>3
  <2>2. CASE SendSucceeds(o) \/ SendFails(o) \/ Abandon(o)
    <3>1. requests' \subseteq requests
      BY <2>2 DEF SendSucceeds, SendFails, Abandon
    <3>2. V \subseteq U
      BY <3>1 DEF Unsettled
    <3> QED
      BY <1>4, <1>5, <3>2
  <2> QED
    BY <1>5, <2>1, <2>2 DEF ChangesRequests
<1>6. CASE accepts' = accepts /\ requests' = requests
  <2>1. V \subseteq U
    BY <1>6 DEF Unsettled
  <2> QED
    BY <1>4, <1>6, <2>1
<1> QED
  BY <1>3, <1>5, <1>6, RequestsChange

\* A pass starts a send only on a channel that is neither sent nor being sent
\* by a pass that still has time.
LEMMA SendWasUnexcused ==
    ASSUME LeasesInv, NEW o \in Owners, StartSend(o), NEW d, NEW ch,
           Digest(o) = d, Channel(o)' = ch
    PROVE  ~ Excused(d, ch) /\ Excused(d, ch)'
<1>a. ArgumentsSound /\ ClaimsHeld /\ ChildrenHeld
  BY DEF LeasesInv
<1>1. /\ pass[o].pc = "send" /\ now < Deadline(o) /\ pass'[o].pc = "sending"
      /\ pass'[o].child \in pass[o].children /\ Digest(o)' = Digest(o)
      /\ pass'[o].opened = pass[o].opened
      /\ now' = now
  BY <1>a, SendRequest DEF StartSend, store, vars
<1>2. channels[d][ch].status = "leased"
  BY <1>a, <1>1 DEF ChildrenHeld, ChildrenHeldBy, ChildHeld, LeasedBy, WithChildren, Channel
<1>3. ASSUME NEW q \in Owners, pass[q].pc \in {"sending", "ack"}, now < Deadline(q),
             Digest(q) = d
      PROVE  FALSE
  <2>1. parents[Digest(o)].owner = o /\ parents[Digest(q)].owner = q
    BY <1>a, <1>1, <1>3 DEF ClaimsHeld, ClaimsHeldBy, ClaimHeld, LeasedBy, Digest, Delivering
  <2> QED
    BY <1>1, <1>3, <2>1
<1>4. Excused(d, ch)'
  BY <1>1 DEF Excused, Deadline
<1> QED
  BY <1>2, <1>3, <1>4 DEF Excused

\* An excuse lasts, unless its pass fails or runs into its deadline.
LEMMA ExcusedStep ==
    ASSUME LeasesInv, FinalizedIsComplete, FinitelyMany, faults \in Nat,
           [DeliveryNext]_deliveryVars, NEW d \in Digests, NEW ch \in Channels, Excused(d, ch)
    PROVE  Excused(d, ch)' \/ Blame + 1 <= Blame'
<1>a. ArgumentsSound /\ ClaimsHeld /\ ChildrenHeld /\ TypeOK
  BY DEF LeasesInv, ArgumentsSound
<1>1. CASE channels[d][ch].status = "sent"
  <2>1. channels'[d][ch] = channels[d][ch]
    BY <1>a, <1>1, DeliveryStep, TerminalStep
  <2> QED
    BY <1>1, <2>1 DEF Excused
<1>2. ASSUME NEW o \in Owners, pass[o].pc \in {"sending", "ack"}, now < Deadline(o),
             Digest(o) = d, Channel(o) = ch
      PROVE  Excused(d, ch)' \/ Blame + 1 <= Blame'
  <2>1. CASE pass'[o] = pass[o]
    <3>1. /\ Deadline(o)' = Deadline(o) /\ Digest(o)' = d /\ Channel(o)' = ch
          /\ Active(o)' /\ Deadline(o) \in Nat /\ now \in Nat /\ now' \in Nat
      BY <1>a, <1>2, <2>1, DeadlineType, DeliveryTime DEF Deadline, Digest, Channel, Active
    <3>2. CASE now' < Deadline(o)
      BY <1>2, <2>1, <3>1, <3>2 DEF Excused
    <3>3. CASE ~ (now' < Deadline(o))
      <4>1. o \in Overdue' /\ o \notin Overdue
        BY <1>2, <3>1, <3>3 DEF Overdue
      <4> QED
        BY <1>a, <4>1, BlameGrows
    <3> QED
      BY <3>2, <3>3
  <2>2. CASE Failure(o)
    BY <1>a, <1>2, <2>2, BlameGrows
  <2>3. CASE PassStep(o)
    <3>1. SendSucceeds(o) \/ AckChild(o)
      BY <1>2, <2>3 DEF PassStep, ClaimParents, NextParent,
         MaterializeParent, SkipChildren, ListChildren, EnsureChildren, ClaimChildren,
         EnsureTokens, StartSend, NoMoreChildren, RetryChild, Relist, FinalizeParent, At
    <3>2. CASE SendSucceeds(o)
      <4>1. GoNow(o, "ack") /\ now' = now
        BY <3>2 DEF SendSucceeds, store, vars
      <4>2. /\ pass'[o].pc = "ack" /\ pass'[o].opened = pass[o].opened
            /\ pass'[o].parent = pass[o].parent /\ pass'[o].child = pass[o].child
        BY <1>a, <4>1, GoNowFields
      <4> QED
        BY <1>2, <4>1, <4>2 DEF Excused, Deadline, Digest, Channel
    <3>3. CASE AckChild(o)
      <4>t. channels \in [Digests -> [Channels -> ChannelRow]] /\ channels[d][ch] \in ChannelRow
        BY <1>a DEF TypeOK
      <4>1. /\ pass[o].pc = "ack"
            /\ LeasedBy(channels[d][ch], o, ChannelGeneration(o))
            /\ Deadline(o) <= channels[d][ch].leaseUntil
        BY <1>a, <1>2, <3>3
           DEF AckChild, At, ChildrenHeld, ChildrenHeldBy, ChildHeld, WithChildren, Channel,
               ChannelGeneration
      <4>0. pass[o].at \in Nat /\ pass[o].at <= now /\ now \in Nat
        BY <1>a, <1>2, <4>1, CapturedTime, DeliveryTime DEF At, Delivering
      <4>2. Holds(channels[d][ch], o, ChannelGeneration(o), pass[o].at)
        BY <1>a, <1>2, <4>t, <4>0, <4>1, DeadlineType DEF LeasedBy, Holds, ChannelRow
      <4>3. channels' = [channels EXCEPT ![d][ch] = Unleased(@, "sent")]
        BY <1>2, <3>3, <4>2 DEF AckChild, AckNotificationOutboxChannel
      <4>4. channels'[d][ch].status = "sent"
        BY <4>t, <4>3, ClosedRow
      <4> QED
        BY <4>4 DEF Excused
    <3> QED
      BY <3>1, <3>2, <3>3
  <2>4. ~ OpenTenant(o)
    BY <1>2 DEF OpenTenant
  <2>5. ASSUME NEW q \in Owners, OpenTenant(q) \/ PassStep(q) \/ Failure(q)
        PROVE  pass'[o] = pass[o] \/ q = o
    BY <1>a, <2>5, StepShape, NewClaims
  <2>6. Outside \/ Clock \/ (\E r \in requests : ProviderAccepts(r)) \/ UNCHANGED deliveryVars
          => pass' = pass
    BY DEF Outside, Clock, ProviderAccepts, deliveryVars
  <2> QED
    BY <2>1, <2>2, <2>3, <2>4, <2>5, <2>6 DEF DeliveryNext
<1> QED
  BY <1>1, <1>2 DEF Excused

LEMMA StartsBlamedStep ==
    ASSUME LeasesInv, FinalizedIsComplete, BlameInv, [DeliveryNext]_deliveryVars
    PROVE  StartsBlamed'
<1>a. /\ ArgumentsSound /\ ProviderTyped /\ FinitelyMany /\ faults \in Nat
      /\ ProviderTyped' /\ FinitelyMany'
  BY ProviderKeeps, FinitelyManyStep DEF LeasesInv, BlameInv, ProviderTyped
<1> SUFFICES ASSUME NEW d \in Digests, NEW ch \in Channels
             PROVE  Attempts(d, ch)' <= Blame' + (IF Excused(d, ch)' THEN 1 ELSE 0)
  BY DEF StartsBlamed
<1>1. Attempts(d, ch) <= Blame + (IF Excused(d, ch) THEN 1 ELSE 0)
  BY DEF BlameInv, StartsBlamed
<1>2. Blame \in Nat /\ Blame' \in Nat /\ Blame <= Blame'
  BY <1>a, BlameGrows
<1>3. Attempts(d, ch) \in Nat
  BY <1>a, AttemptsType
<1>4. Attempts(d, ch)' \in Nat
  <2>1. accepts'[d][ch] \in Nat /\ IsFiniteSet(requests')
    BY <1>a DEF ProviderTyped, FinitelyMany
  <2> DEFINE V == {r \in requests' : r.digest = d /\ r.channel = ch /\ ~ r.accepted}
  <2>2. V \subseteq requests'
    OBVIOUS
  <2>3. Cardinality(V) \in Nat
    <3> HIDE DEF V
    <3> QED
      BY <2>1, <2>2, FewerOfFewer
  <2> QED
    BY <2>1, <2>3 DEF Attempts, Unsettled
<1>5. CASE Attempts(d, ch)' <= Attempts(d, ch)
  <2>1. Excused(d, ch) => Excused(d, ch)' \/ Blame + 1 <= Blame'
    BY <1>a, ExcusedStep
  <2>2. CASE Excused(d, ch) /\ Excused(d, ch)'
    BY <1>1, <1>2, <1>3, <1>4, <1>5, <2>2
  <2>3. CASE Excused(d, ch) /\ Blame + 1 <= Blame'
    BY <1>1, <1>2, <1>3, <1>4, <1>5, <2>3
  <2>4. CASE ~ Excused(d, ch)
    BY <1>1, <1>2, <1>3, <1>4, <1>5, <2>4
  <2> QED
    BY <2>1, <2>2, <2>3, <2>4
<1>6. CASE /\ Attempts(d, ch)' <= Attempts(d, ch) + 1
           /\ \E o \in Owners : StartSend(o) /\ Digest(o) = d /\ Channel(o)' = ch
  <2>1. ~ Excused(d, ch) /\ Excused(d, ch)'
    BY <1>6, SendWasUnexcused
  <2> QED
    BY <1>1, <1>2, <1>3, <1>4, <1>6, <2>1
<1> QED
  BY <1>a, <1>5, <1>6, AttemptsStep

\* A provider accepts a digest twice only after a failure or a missed deadline.
THEOREM DuplicatesAreFaults == DeliverySpec => []DuplicatesNeedFaults
<1>1. DeliveryInit => BlameInv
  <2> SUFFICES ASSUME DeliveryInit PROVE BlameInv
    OBVIOUS
  <2>1. ProviderTyped
    BY DEF DeliveryInit, ProviderTyped
  <2>2. ActiveOwners = {} /\ Overdue = {} /\ requests = {}
    BY DEF DeliveryInit, ActiveOwners, Overdue, Active, Fresh
  <2>3. FinitelyMany /\ Cardinality(Overdue) = 0
    BY <2>2, FS_EmptySet DEF FinitelyMany
  <2>4. ASSUME NEW d \in Digests, NEW ch \in Channels
        PROVE  Attempts(d, ch) = 0
    <3>1. Unsettled(d, ch) = {}
      BY <2>2 DEF Unsettled
    <3>2. Cardinality(Unsettled(d, ch)) = 0 /\ accepts[d][ch] = 0
      BY <3>1, FS_EmptySet DEF DeliveryInit
    <3> QED
      BY <3>2 DEF Attempts
  <2>5. Blame = 0
    BY <2>3 DEF Blame, DeliveryInit
  <2>6. StartsBlamed
    BY <2>4, <2>5 DEF StartsBlamed
  <2> QED
    BY <2>1, <2>3, <2>6 DEF BlameInv
<1>2. LeasesInv /\ IInv /\ BlameInv /\ [DeliveryNext]_deliveryVars => BlameInv'
  <2> SUFFICES ASSUME LeasesInv, IInv, BlameInv, [DeliveryNext]_deliveryVars PROVE BlameInv'
    OBVIOUS
  <2>1. ArgumentsSound /\ FinalizedIsComplete
    BY DEF LeasesInv, IInv
  <2>2. StartsBlamed'
    BY <2>1, StartsBlamedStep
  <2> QED
    BY <2>1, <2>2, ProviderKeeps, FinitelyManyStep DEF BlameInv
<1>3. BlameInv => DuplicatesNeedFaults
  <2> SUFFICES ASSUME BlameInv, NEW d \in Digests, NEW ch \in Channels
               PROVE  accepts[d][ch] <= 1 + faults + Cardinality(Overdue)
    BY DEF DuplicatesNeedFaults
  <2>1. /\ ProviderTyped /\ FinitelyMany /\ faults \in Nat
        /\ Attempts(d, ch) <= Blame + (IF Excused(d, ch) THEN 1 ELSE 0)
    BY DEF BlameInv, StartsBlamed, ProviderTyped
  <2>2. Cardinality(Overdue) \in Nat
    BY <2>1, BlameType
  <2>3. accepts[d][ch] \in Nat /\ Cardinality(Unsettled(d, ch)) \in Nat
    BY <2>1, AttemptsType
  <2> QED
    BY <2>1, <2>2, <2>3 DEF Attempts, Blame
<1> QED
  BY <1>1, <1>2, <1>3, LeasesAlwaysHeld, WorkerImplementsOutbox, Inductive, PTL
     DEF DeliverySpec, ImplementsOutbox

\* Nothing that the worker does moves a digest away from the end of its window.
THEOREM WindowFence == DeliverySpec => []WindowFenceKept
<1>1. DeliveryInit => WindowFenceKept
  <2> SUFFICES ASSUME DeliveryInit, NEW d \in Digests, parents[d].status # "absent"
               PROVE  parents[d].availableAt = WindowEnd(d)
    BY DEF WindowFenceKept
  <2>1. PICK status \in [LegacyDigests -> {"pending", "sent"}] :
            parents = [e \in Digests |->
                IF e \in LegacyDigests THEN LegacyParent(e, status[e]) ELSE NoParent]
    BY DEF DeliveryInit, Init
  <2>2. CASE d \in LegacyDigests
    BY <2>1, <2>2 DEF LegacyParent, NoParent
  <2>3. CASE d \notin LegacyDigests
    BY <2>1, <2>3 DEF NoParent
  <2> QED
    BY <2>2, <2>3
<1>2. ArgumentsSound /\ WindowFenceKept /\ [DeliveryNext]_deliveryVars => WindowFenceKept'
  <2> SUFFICES ASSUME ArgumentsSound, WindowFenceKept, [DeliveryNext]_deliveryVars,
                      NEW d \in Digests, parents'[d].status # "absent"
               PROVE  parents'[d].availableAt = WindowEnd(d)
    BY DEF WindowFenceKept, WindowEnd
  <2> QED
    BY ParentChange DEF WindowFenceKept
<1> QED
  BY <1>1, <1>2, WorkerArguments, PTL DEF DeliverySpec

-----------------------------------------------------------------------------
(* The first pass over a digest sends nothing *)

\* The calls that come before a pass has claimed channels.
BeforeClaim == {"materialize", "skip", "list", "ensure", "children"}

\* A digest that has been claimed was counted.
ClaimsCounted ==
    \A d \in Digests : parents[d].version = 1 /\ Claimed(d) => parents[d].attempts > 0

\* The pass, if it has time left, is not going to claim channels of d that are
\* available at t: it is done with d, or took it before t.
Misses(o, d, t) ==
    now < Deadline(o) =>
        /\ \A claim \in pass[o].held : claim.digest # d
        /\ pass[o].pc \in BeforeClaim /\ Digest(o) = d => pass[o].at < t

\* While d was claimed at most once, its rows were not taken and no pass with
\* time left can take them.
FirstRowsWait(d) ==
    parents[d].version = 1 /\ parents[d].attempts <= 1 =>
        \A ch \in Channels :
            /\ channels[d][ch].status \in {"absent", "pending", "skipped"}
            /\ channels[d][ch].status = "pending" =>
                    \A o \in Owners : Misses(o, d, channels[d][ch].availableAt)

\* A channel of a digest that was claimed once is neither leased nor sent: the
\* first pass inserts the rows with a later time than it claims them with
\* (deliverClaimedCloudParent).
FirstPassSendsNothing ==
    \A d \in Digests, ch \in Channels :
        parents[d].version = 1 /\ channels[d][ch].status \in {"leased", "sent"} =>
            parents[d].attempts > 1

\* A digest row changes when it is created, unclaimed, or claimed, which counts,
\* or when the pass that holds it finalizes it.
LEMMA AttemptsCount ==
    ASSUME ArgumentsSound, [DeliveryNext]_deliveryVars, NEW d \in Digests,
           parents'[d] # parents[d]
    PROVE  /\ channels' = channels
           /\ \/ parents[d].status = "absent" /\ parents'[d].status = "pending"
              \/ /\ parents[d].status # "absent"
                 /\ parents'[d].attempts = parents[d].attempts + 1
              \/ /\ parents[d].status = "leased" /\ parents'[d].attempts = parents[d].attempts
                 /\ \E o \in Owners : FinalizeParent(o) /\ NextDigest(o)
<1>t. parents \in [Digests -> ParentRow] /\ parents[d] \in ParentRow
  BY DEF ArgumentsSound, TypeOK
<1> DEFINE Goal == /\ channels' = channels
           /\ \/ parents[d].status = "absent" /\ parents'[d].status = "pending"
              \/ /\ parents[d].status # "absent"
                 /\ parents'[d].attempts = parents[d].attempts + 1
              \/ /\ parents[d].status = "leased" /\ parents'[d].attempts = parents[d].attempts
                 /\ \E o \in Owners : FinalizeParent(o) /\ NextDigest(o)
<1> SUFFICES Goal
  OBVIOUS
<1>c. parents' # parents
  OBVIOUS
<1> HIDE DEF Goal
<1>1. ASSUME NEW c \in Comments, CreatePendingComment(c, now) PROVE Goal
  <2>1. channels' = channels /\ parents'[d].status = "pending" /\ parents[d].status = "absent"
    <3> DEFINE e == SiteDigestKey(interval, now)
    <3>1. channels' = channels /\ parents[e].status = "absent" /\ parents' = [parents EXCEPT ![e] =
            [NoParent EXCEPT !.status = "pending", !.version = 1,
                             !.availableAt = WindowEnd(e)]]
      BY <1>1, <1>c DEF CreatePendingComment, EnsurePendingDigest
    <3> HIDE DEF e
    <3>2. d = e
      BY <3>1, <1>t
    <3> QED
      BY <3>1, <3>2, <1>t DEF NoParent
  <2> QED
    BY <2>1 DEF Goal
<1>2. ASSUME NEW o \in Owners, NEW t, ClaimNotificationOutbox(o, t) PROVE Goal
  <2>1. PICK S \in SUBSET Eligible(t) :
            parents' = [e \in Digests |-> IF e \in S THEN Leased(parents[e], o, t + ParentLease)
                                                    ELSE parents[e]]
    BY <1>2 DEF ClaimNotificationOutbox
  <2>2. d \in S /\ parents'[d] = Leased(parents[d], o, t + ParentLease)
    BY <2>1
  <2>3. parents[d].status # "absent" /\ channels' = channels
    BY <1>2, <2>2 DEF Eligible, Claimable, ClaimNotificationOutbox
  <2>4. parents'[d].attempts = parents[d].attempts + 1
    BY <2>2, <1>t DEF Leased, ParentRow
  <2> QED
    BY <2>3, <2>4 DEF Goal
<1>3. ASSUME NEW o \in Owners, FinalizeParent(o) PROVE Goal
  <2>1. /\ parents' = [parents EXCEPT ![Digest(o)] = Unleased(@, "sent")]
        /\ parents[Digest(o)].status = "leased" /\ channels' = channels /\ NextDigest(o)
    BY <1>3, <1>c DEF FinalizeParent, LeaveLeased, store, vars, FinalizeClaimedSiteDigest,
       Finalizable, Materializable, Loadable, ClaimedDigest, Holds
  <2>2. d = Digest(o)
    BY <2>1, <1>t
  <2>3. parents'[d].attempts = parents[d].attempts
    BY <2>1, <2>2, <1>t DEF Unleased, ParentRow
  <2> QED
    BY <1>3, <2>1, <2>2, <2>3 DEF Goal
<1>4. ASSUME NEW o \in Owners, OpenTenant(o) \/ PassStep(o) \/ Failure(o)
      PROVE  (\E t : ClaimNotificationOutbox(o, t)) \/ FinalizeParent(o)
  BY <1>4, <1>c DEF OpenTenant, PassStep, Failure, ClaimParents, NextParent,
     MaterializeParent, SkipChildren,
     SkipNotificationOutboxChannels, ListChildren, EnsureChildren,
     EnsureNotificationOutboxChannels, ClaimChildren, ClaimNotificationOutboxChannels,
     EnsureTokens, StartSend, NoMoreChildren, SendSucceeds, AckChild,
     AckNotificationOutboxChannel, RetryChild, RetryNotificationOutboxChannel, Relist,
     SendFails, StoreCallFails, AckAnswerLost, Abandon, LeaveLeased, store, vars
<1>5. ASSUME Outside PROVE \E c \in Comments : CreatePendingComment(c, now)
  BY <1>5, <1>c DEF Outside, ModeratorStep, UpdateComment, DeleteComment, UpdateSiteInterval, DeleteSite
<1>6. ~ Clock /\ ~ (\E r \in requests : ProviderAccepts(r)) /\ ~ UNCHANGED deliveryVars
  BY <1>c DEF Clock, Tick, ProviderAccepts, deliveryVars, store, vars
<1> QED
  BY <1>1, <1>2, <1>3, <1>4, <1>5, <1>6 DEF DeliveryNext

\* A pass that has not claimed channels goes on with the time it took its digest at.
LEMMA TimeStays ==
    ASSUME ArgumentsSound, NEW o \in Owners, PassStep(o) \/ Failure(o),
           Stays(o), pass'[o].pc \in BeforeClaim
    PROVE  pass[o].pc \in BeforeClaim /\ pass'[o].at = pass[o].at
<1>p. pass \in [Owners -> Pass] /\ pass[o] \in Pass
  BY DEF ArgumentsSound
<1>n. ~ NextDigest(o) /\ ~ End(o) /\ ~ ClaimParents(o) /\ ~ NextParent(o)
  <2>1. ~ NextDigest(o) /\ ~ End(o)
    BY NextDigestFields, EndFields DEF Stays, Delivering, BeforeClaim
  <2> QED
    BY <2>1 DEF ClaimParents, NextParent, At, Stays, Delivering
<1>1. CASE MaterializeParent(o)
  <2> DEFINE batch == PendingMembers(Digest(o))
             pc == IF batch = {} THEN "skip" ELSE "list"
  <2>1. pass' = [pass EXCEPT ![o].batch = batch, ![o].pc = pc] /\ pass[o].pc = "materialize"
    BY <1>1, <1>n DEF MaterializeParent, LeaveLeased, At
  <2> HIDE DEF batch, pc
  <2> QED
    BY <1>p, <2>1 DEF Pass, BeforeClaim
<1>2. ~ ClaimChildren(o) /\ ~ StartSend(o) /\ ~ Relist(o) /\ ~ FinalizeParent(o) /\ ~ Abandon(o)
  <2>1. ~ ClaimChildren(o)
    BY <1>p, <1>n DEF ClaimChildren, LeaveLeased, Pass, BeforeClaim
  <2>2. ~ StartSend(o)
    BY PcsAfter DEF BeforeClaim
  <2>3. ~ Relist(o)
    BY <1>n, GoNowFields DEF Relist, LeaveLeased, BeforeClaim
  <2> QED
    BY <1>n, <2>1, <2>2, <2>3 DEF FinalizeParent, Abandon, LeaveLeased
<1>3. ASSUME NEW pc, Goes(o, pc), pass[o].pc \notin BeforeClaim, pc \notin BeforeClaim PROVE FALSE
  BY <1>3, GoesFields
<1>4. CASE SkipChildren(o) \/ ListChildren(o) \/ EnsureChildren(o)
  <2>1. pass[o].pc \in BeforeClaim /\ \E pc : Go(o, pc)
    BY <1>4, <1>n DEF SkipChildren, ListChildren, EnsureChildren, LeaveLeased, At, BeforeClaim
  <2> QED
    BY <2>1, GoFields
<1>5. ~ (\/ EnsureTokens(o) \/ NoMoreChildren(o) \/ SendSucceeds(o) \/ AckChild(o)
         \/ RetryChild(o) \/ SendFails(o) \/ AckAnswerLost(o) \/ StoreCallFails(o))
  <2>1. ASSUME \/ EnsureTokens(o) \/ NoMoreChildren(o) \/ SendSucceeds(o) \/ AckChild(o)
               \/ RetryChild(o) \/ SendFails(o) \/ AckAnswerLost(o) \/ StoreCallFails(o)
        PROVE  \E pc : Goes(o, pc) /\ pass[o].pc \notin BeforeClaim /\ pc \notin BeforeClaim
    BY <1>n, <2>1 DEF EnsureTokens, NoMoreChildren, SendSucceeds, AckChild, RetryChild,
       SendFails, AckAnswerLost, StoreCallFails, LeaveLeased, At, BeforeClaim, Goes
  <2> QED
    BY <1>3, <2>1
<1> QED
  BY <1>n, <1>1, <1>2, <1>4, <1>5 DEF PassStep, Failure

\* The misses of a pass that does nothing in this step stay misses.
LEMMA OthersMiss ==
    ASSUME ArgumentsSound, [DeliveryNext]_deliveryVars, NEW q \in Owners, NEW d, NEW t,
           Misses(q, d, t), pass'[q] = pass[q]
    PROVE  Misses(q, d, t)'
<1>1. now' < Deadline(q)' => now < Deadline(q)
  BY DeadlineType, DeliveryTime DEF Deadline
<1> QED
  BY <1>1 DEF Misses, Digest

\* So do those of the pass that takes the step, unless it claims d itself.
LEMMA OwnMisses ==
    ASSUME ArgumentsSound, [DeliveryNext]_deliveryVars, NEW o \in Owners,
           OpenTenant(o) \/ PassStep(o) \/ Failure(o),
           NEW d \in Digests, NEW t, parents'[d] = parents[d], Misses(o, d, t)
    PROVE  Misses(o, d, t)'
<1>1. ASSUME pass'[o].opened = pass[o].opened, now' < Deadline(o)'
      PROVE  /\ \A claim \in pass[o].held : claim.digest # d
             /\ pass[o].pc \in BeforeClaim /\ Digest(o) = d => pass[o].at < t
  BY <1>1, DeadlineType, DeliveryTime DEF Deadline, Misses
<1>2. CASE ClaimParents(o) /\ ~ End(o)
  <2> DEFINE held == {Claim(e, parents'[e].attempts, parents'[e].leaseUntil) :
                        e \in {x \in Digests : parents'[x] # parents[x]}}
  <2>1. pass' = [pass EXCEPT ![o].pc = "parents", ![o].held = held]
    BY <1>2 DEF ClaimParents
  <2>2. \A claim \in held : claim.digest # d
    BY DEF Claim
  <2> HIDE DEF held
  <2>3. pass'[o].held = held /\ pass'[o].pc = "parents"
    BY <2>1 DEF ArgumentsSound, Pass
  <2> QED
    BY <2>2, <2>3 DEF Misses, BeforeClaim
<1>3. CASE Stays(o)
  <2>1. PassStep(o) \/ Failure(o)
    BY <1>3, PcsAfter DEF Stays, Delivering
  <2>2. pass'[o].pc \in BeforeClaim => pass[o].pc \in BeforeClaim /\ pass'[o].at = pass[o].at
    BY <1>3, <2>1, TimeStays
  <2> QED
    BY <1>1, <1>3, <2>2 DEF Stays, Misses, Digest
<1>4. CASE Leaves(o)
  BY <1>1, <1>4 DEF Leaves, Misses, BeforeClaim
<1>5. CASE Takes(o)
  BY <1>1, <1>5 DEF Takes, Misses, Digest
<1>6. CASE HoldsNothing(o)
  BY <1>6 DEF HoldsNothing, Misses, BeforeClaim
<1> QED
  BY <1>2, <1>3, <1>4, <1>5, <1>6, StepShape

\* Rows that stay as they are stay out of reach, unless the digest is claimed.
LEMMA OldRowsWait ==
    ASSUME ArgumentsSound, [DeliveryNext]_deliveryVars, NEW d \in Digests, NEW t,
           parents'[d] = parents[d], \A o \in Owners : Misses(o, d, t)
    PROVE  \A o \in Owners : Misses(o, d, t)'
<1>1. CASE pass' = pass
  BY <1>1, OthersMiss
<1>2. ASSUME NEW p \in Owners, OpenTenant(p) \/ PassStep(p) \/ Failure(p)
      PROVE  \A o \in Owners : Misses(o, d, t)'
  <2>1. \A q \in Owners \ {p} : pass'[q] = pass[q]
    BY <1>2, StepShape, NewClaims
  <2> QED
    BY <1>2, <2>1, OthersMiss, OwnMisses
<1>3. Outside \/ Clock \/ (\E r \in requests : ProviderAccepts(r)) \/ UNCHANGED deliveryVars
        => pass' = pass
  BY DEF Outside, Clock, ProviderAccepts, deliveryVars
<1> QED
  BY <1>1, <1>2, <1>3 DEF DeliveryNext

\* The rows that a step writes for a digest that was claimed once.
LEMMA NewRowsWait ==
    ASSUME ArgumentsSound, ClaimsHeld, NoRowsYet, [DeliveryNext]_deliveryVars,
           NEW d \in Digests, FirstRowsWait(d), parents[d].version = 1, parents[d].attempts <= 1,
           channels'[d] # channels[d], NEW ch \in Channels
    PROVE  /\ channels'[d][ch].status \in {"absent", "pending", "skipped"}
           /\ channels'[d][ch].status = "pending" =>
                (\A q \in Owners : Misses(q, d, channels[d][ch].availableAt))'
<1> DEFINE Goal == /\ channels'[d][ch].status \in {"absent", "pending", "skipped"}
                   /\ channels'[d][ch].status = "pending" =>
                        (\A q \in Owners : Misses(q, d, channels[d][ch].availableAt))'
<1> SUFFICES Goal
  OBVIOUS
<1> HIDE DEF Goal
<1>t. channels \in [Digests -> [Channels -> ChannelRow]]
  BY DEF ArgumentsSound, TypeOK
<1>r. \A x \in Channels :
        /\ channels[d][x].status \in {"absent", "pending", "skipped"}
        /\ channels[d][x].status = "pending" =>
                \A q \in Owners : Misses(q, d, channels[d][x].availableAt)
  BY DEF FirstRowsWait
<1>1. PICK o \in Owners :
        /\ WritesChannels(o) /\ Digest(o) = d /\ pass[o].pc \in Delivering /\ now < Deadline(o)
  BY ChannelsChange
<1>c. channels' # channels
  OBVIOUS
<1>2. CASE SkipChildren(o)
  <2>1. channels' = CloseOutstanding(d, "skipped")
    BY <1>1, <1>2, <1>c DEF SkipChildren, SkipNotificationOutboxChannels, LeaveLeased, store, vars
  <2>2. channels'[d][ch].status \in {"absent", "skipped"}
    BY <1>t, <1>r, <2>1, ClosedRow DEF CloseOutstanding
  <2> QED
    BY <2>2 DEF Goal
<1>3. CASE EnsureChildren(o)
  <2>1. PICK t \in (pass[o].at + 1) .. now :
            EnsureNotificationOutboxChannels(d, pass[o].config, t)
    BY <1>1, <1>3, <1>c DEF EnsureChildren, LeaveLeased, store, vars, At
  <2>0. pass[o].pc = "ensure" /\ pass[o].at < t
    <3>1. pass[o].at \in Nat /\ now \in Nat
      BY ConstantsAssumption DEF ArgumentsSound, TypeOK, Pass, Time
    <3> QED
      BY <1>3, <2>1, <3>1 DEF EnsureChildren, At
  <2>2. \A x \in Channels : channels[d][x].status = "absent"
    BY <1>1, <2>0 DEF NoRowsYet, NoRowsYetBy, Rows
  <2>3. \/ channels'[d][ch].status = "absent"
        \/ channels'[d][ch].status = "pending" /\ channels'[d][ch].availableAt = t
    BY <1>t, <2>1, <2>2 DEF EnsureNotificationOutboxChannels, NoChannel
  <2>4. ASSUME NEW q \in Owners PROVE Misses(q, d, t)
    <3>1. ASSUME now < Deadline(q), NEW claim \in pass[q].held, claim.digest = d PROVE FALSE
      <4>1. q = o
        BY <1>1, <3>1 DEF ClaimsHeld, ClaimsHeldBy, ClaimHeld, LeasedBy, Digest
      <4> QED
        BY <1>1, <3>1, <4>1 DEF ClaimsHeld, ClaimsHeldBy
    <3>2. ASSUME now < Deadline(q), pass[q].pc \in BeforeClaim, Digest(q) = d
          PROVE  pass[q].at < t
      <4>1. q = o
        BY <1>1, <3>2 DEF ClaimsHeld, ClaimsHeldBy, ClaimHeld, LeasedBy, Digest, BeforeClaim,
           Delivering
      <4> QED
        BY <2>0, <4>1
    <3> QED
      BY <3>1, <3>2 DEF Misses
  <2>5. parents'[d] = parents[d]
    BY <2>1 DEF EnsureNotificationOutboxChannels
  <2>6. \A q \in Owners : Misses(q, d, t)'
    BY <2>4, <2>5, OldRowsWait
  <2> QED
    BY <2>3, <2>6 DEF Goal, Misses
<1>4. ~ ClaimChildren(o) /\ ~ AckChild(o) /\ ~ RetryChild(o) /\ ~ AckAnswerLost(o)
  <2>1. ASSUME ClaimChildren(o) PROVE FALSE
    <3>1. /\ pass[o].pc = "children"
          /\ ClaimableChannels(d, pass[o].at) # {}
      BY <1>1, <1>c, <2>1 DEF ClaimChildren, LeaveLeased, store, vars, At,
         ClaimNotificationOutboxChannels
    <3>2. PICK x \in Channels : Claimable(channels[d][x], pass[o].at)
      BY <3>1 DEF ClaimableChannels
    <3>3. channels[d][x].status = "pending" /\ channels[d][x].availableAt <= pass[o].at
      BY <1>r, <3>2 DEF Claimable
    <3>4. pass[o].at < channels[d][x].availableAt
      BY <1>1, <1>r, <3>1, <3>3 DEF Misses, BeforeClaim
    <3>5. pass[o].at \in Nat /\ channels[d][x].availableAt \in Nat
      BY <1>t, ConstantsAssumption DEF ArgumentsSound, Pass, Time, ChannelRow
    <3> QED
      BY <3>3, <3>4, <3>5
  <2>2. ASSUME AckChild(o) \/ RetryChild(o) \/ AckAnswerLost(o) PROVE FALSE
    <3>1. /\ channels[d][Channel(o)].status = "leased"
          /\ channels' = [channels EXCEPT ![d][Channel(o)] = channels'[d][Channel(o)]]
      BY <1>1, <1>c, <1>t, <2>2 DEF AckChild, RetryChild, AckAnswerLost, store, vars, Holds,
         AckNotificationOutboxChannel, RetryNotificationOutboxChannel
    <3>2. Channel(o) \in Channels
      BY <1>t, <1>c, <3>1
    <3> QED
      BY <1>r, <3>1, <3>2
  <2> QED
    BY <2>1, <2>2
<1> QED
  BY <1>1, <1>2, <1>3, <1>4 DEF WritesChannels

\* The inductive invariant of the first pass.
FirstRowsInv == RowsOfClaimed /\ ClaimsCounted /\ \A d \in Digests : FirstRowsWait(d)

\* Every step of the worker keeps it.
LEMMA FirstRowsStep ==
    ASSUME LeasesInv, FirstRowsInv, RowsOfClaimed', [DeliveryNext]_deliveryVars
    PROVE  FirstRowsInv'
<1> USE DEF LeasesInv
<1>t. /\ parents \in [Digests -> ParentRow]
      /\ \A d \in Digests : parents[d].attempts \in Nat
      /\ \A d \in Digests : parents'[d].attempts \in Nat
  <2>1. parents \in [Digests -> ParentRow] /\ parents' \in [Digests -> ParentRow]
    BY NextArgumentsSound DEF ArgumentsSound, TypeOK
  <2> QED
    BY <2>1 DEF ParentRow
<1>1. ASSUME NEW d \in Digests, parents'[d].version = 1, Claimed(d)'
      PROVE  parents'[d].attempts > 0
  <2>1. CASE parents'[d] = parents[d]
    BY <1>1, <2>1 DEF FirstRowsInv, ClaimsCounted, Claimed
  <2>2. CASE parents'[d] # parents[d]
    BY <1>1, <1>t, <2>2, AttemptsCount, ParentChange DEF FirstRowsInv, ClaimsCounted, Claimed
  <2> QED
    BY <2>1, <2>2
<1>2. ASSUME NEW d \in Digests, parents'[d].version = 1, parents'[d].attempts <= 1,
             NEW ch \in Channels
      PROVE  /\ channels'[d][ch].status \in {"absent", "pending", "skipped"}
             /\ channels'[d][ch].status = "pending" =>
                    (\A o \in Owners : Misses(o, d, channels[d][ch].availableAt))'
  <2>1. CASE parents'[d] = parents[d]
    <3>1. CASE channels'[d] # channels[d]
      BY <1>2, <2>1, <3>1, NewRowsWait DEF FirstRowsInv
    <3>2. CASE channels'[d] = channels[d]
      <4>t. PICK t : t = channels[d][ch].availableAt
        OBVIOUS
      <4>1. /\ channels[d][ch].status \in {"absent", "pending", "skipped"}
            /\ channels[d][ch].status = "pending" => \A o \in Owners : Misses(o, d, t)
        BY <1>2, <2>1, <4>t DEF FirstRowsInv, FirstRowsWait
      <4>2. channels'[d][ch].status = channels[d][ch].status /\ channels'[d][ch].availableAt = t
        BY <3>2, <4>t
      <4>3. channels[d][ch].status = "pending" => \A o \in Owners : Misses(o, d, t)'
        BY <2>1, <4>1, OldRowsWait
      <4> QED
        BY <4>1, <4>2, <4>3 DEF Misses
    <3> QED
      BY <3>1, <3>2
  <2>2. CASE parents'[d] # parents[d]
    <3>1. channels' = channels
      BY <2>2, AttemptsCount
    <3>2. CASE Rows(d) = {}
      BY <3>1, <3>2 DEF Rows
    <3>3. CASE Rows(d) # {}
      <4>1. parents[d].version = 1 /\ Claimed(d)
        BY <1>2, <2>2, <3>3, ParentChange DEF FirstRowsInv, RowsOfClaimed, Claimed
      <4>2. parents[d].attempts > 0
        BY <4>1 DEF FirstRowsInv, ClaimsCounted
      <4>3. PICK p \in Owners : FinalizeParent(p) /\ NextDigest(p)
        BY <1>2, <1>t, <2>2, <4>1, <4>2, AttemptsCount DEF Claimed
      <4>4. parents[d].attempts <= 1
        BY <1>2, <1>t, <2>2, <4>1, <4>2, AttemptsCount DEF Claimed
      <4>t. PICK t : t = channels[d][ch].availableAt
        OBVIOUS
      <4>5. /\ channels[d][ch].status \in {"absent", "pending", "skipped"}
            /\ channels[d][ch].status = "pending" => \A o \in Owners : Misses(o, d, t)
        BY <4>1, <4>4, <4>t DEF FirstRowsInv, FirstRowsWait
      <4>6. \A o \in Owners : Misses(o, d, t) => Misses(o, d, t)'
        <5>1. now' < Deadline(p)' => now < Deadline(p)
          BY <4>3, NextDigestFields, DeadlineType, DeliveryTime DEF Deadline, Leaves
        <5>2. Misses(p, d, t) => Misses(p, d, t)'
          BY <4>3, <5>1, NextDigestFields DEF Misses, Leaves, BeforeClaim
        <5> QED
          BY <4>3, <5>2, NextDigestFields, OthersMiss
      <4> QED
        BY <3>1, <4>t, <4>5, <4>6 DEF Misses
    <3> QED
      BY <3>2, <3>3
  <2> QED
    BY <2>1, <2>2
<1> QED
  BY <1>1, <1>2 DEF FirstRowsInv, ClaimsCounted, FirstRowsWait

\* A pass cannot claim the channels that it has just inserted, so a digest is
\* sent by its second claim at the earliest.
THEOREM FirstPassNeverSends == DeliverySpec => []FirstPassSendsNothing
<1>1. DeliveryInit => FirstRowsInv
  <2> SUFFICES ASSUME DeliveryInit, NEW d \in Digests
               PROVE  /\ parents[d].version = 0
                      /\ Rows(d) # {} => Claimed(d) \/ parents[d].status = "pending"
    BY DEF FirstRowsInv, RowsOfClaimed, ClaimsCounted, FirstRowsWait
  <2>1. PICK status \in [LegacyDigests -> {"pending", "sent"}] :
            parents = [e \in Digests |->
                IF e \in LegacyDigests THEN LegacyParent(e, status[e]) ELSE NoParent]
    BY DEF DeliveryInit, Init
  <2>2. CASE d \in LegacyDigests
    BY <2>1, <2>2 DEF LegacyParent, NoParent, Claimed
  <2>3. CASE d \notin LegacyDigests
    <3>1. parents[d].version = 0
      BY <2>1, <2>3 DEF NoParent
    <3>2. \A ch \in Channels : channels[d][ch] = NoChannel
      BY <2>3 DEF DeliveryInit, Init
    <3> QED
      BY <3>1, <3>2 DEF NoChannel, Rows
  <2> QED
    BY <2>2, <2>3
<1>2. LeasesInv /\ FirstRowsInv /\ [DeliveryNext]_deliveryVars => FirstRowsInv'
  BY FirstRowsStep, RowsOfClaimedStep DEF FirstRowsInv
<1>3. FirstRowsInv /\ LeasesInv => FirstPassSendsNothing
  <2> SUFFICES ASSUME FirstRowsInv, LeasesInv, NEW d \in Digests, NEW ch \in Channels,
                      parents[d].version = 1, channels[d][ch].status \in {"leased", "sent"}
               PROVE  parents[d].attempts > 1
    BY DEF FirstPassSendsNothing
  <2>1. parents[d].attempts \in Nat
    BY DEF LeasesInv, ArgumentsSound, TypeOK, ParentRow
  <2> QED
    BY <2>1 DEF FirstRowsInv, FirstRowsWait
<1> QED
  BY <1>1, <1>2, <1>3, LeasesAlwaysHeld, PTL DEF DeliverySpec
=============================================================================
