----------------------------- MODULE Moderation -----------------------------
(***************************************************************************)
(* The comments of a self-hosted site: readers post them, moderators       *)
(* approve, reject, import and delete them, and the dispatcher mails the   *)
(* pending ones to the moderators in batches.                              *)
(*                                                                         *)
(* A step is one statement or transaction of the store or one call of the  *)
(* notifier, and posts and dispatcher passes interleave at them.  All      *)
(* posts of an author have the same text; whether it is rejected as spam   *)
(* is left open here (Readers has the blocked terms).  A moderator's       *)
(* request reads the comment and writes any status to it; what it read is  *)
(* left out, because any status may have been read.                        *)
(***************************************************************************)
EXTENDS Integers, FiniteSets

CONSTANTS
    Comments,       \* comment IDs
    Authors,        \* readers who post
    Admin,          \* the administrator, who replies
    Posts,          \* requests that post a comment
    NoAuthor,
    DedupWindow,    \* dedupWindow
    NotifyInterval, \* defaultNotifyInterval
    BatchSize,      \* NOTIFY_BATCH_SIZE
    MaxTime,        \* bound: last clock value explored
    MaxMails,       \* bound: deliveries of one comment before a pass begins
    MaxFaults       \* bound: failed statements and restarts explored

ASSUME ModerationAssumption ==
    /\ Admin \notin Authors
    /\ NoAuthor \notin Authors \cup {Admin}
    /\ IsFiniteSet(Comments)
    /\ DedupWindow \in Nat /\ NotifyInterval \in Nat
    /\ BatchSize \in Nat \ {0}
    /\ MaxTime \in Nat /\ MaxMails \in Nat /\ MaxFaults \in Nat

VARIABLES
    now,            \* the clock
    comments,       \* comments[c]: the row of c
    shadowed,       \* the shadow-banned authors
    lastNotified,   \* last_notified_at of the site, -1 for NULL
    post,           \* post[p]: the request p
    pass,           \* the dispatcher's pass
    \* History
    mailed,         \* mailed[c]: how often c was in a delivered batch
    unmarked,       \* unmarked[c]: deliveries of c that last_notified_at missed
    slipped,        \* comments made pending behind a listing, or lost by a send
    vetted,         \* authors a moderator has approved or imported
    wasShadowed,    \* authors that have been shadow-banned
    faults          \* failed statements and restarts so far

site == <<comments, shadowed, lastNotified>>
history == <<mailed, unmarked, slipped, vetted, wasShadowed, faults>>
vars == <<now, site, post, pass, history>>

-----------------------------------------------------------------------------
(* State *)

Time == 0..MaxTime
Statuses == {"pending", "approved", "rejected"}

CommentRow ==
    [status : Statuses \cup {"absent"}, author : Authors \cup {Admin, NoAuthor},
     createdAt : Time]

NoComment == [status |-> "absent", author |-> NoAuthor, createdAt |-> 0]

Exists(c) == comments[c].status # "absent"

\* A post, after the call that pc names is still to be made.
PostState ==
    [pc : {"idle", "dedup", "decide", "insert"},
     author : Authors \cup {NoAuthor}, status : Statuses, stamp : Time]

NoPost == [pc |-> "idle", author |-> NoAuthor, status |-> "pending", stamp |-> 0]

\* batch: the listed comments, and after the send those that it delivered.  The
\* pass holds copies; a row imported under a deleted ID is not among them.
PassState ==
    [pc : {"idle", "list", "send", "mark"}, batch : SUBSET Comments]

NoPass == [pc |-> "idle", batch |-> {}]

TypeOK ==
    /\ now \in Time
    /\ comments \in [Comments -> CommentRow]
    /\ shadowed \subseteq Authors
    /\ lastNotified \in Time \cup {-1}
    /\ post \in [Posts -> PostState]
    /\ pass \in PassState
    /\ mailed \in [Comments -> Nat]
    /\ unmarked \in [Comments -> Nat]
    /\ slipped \subseteq Comments
    /\ vetted \subseteq Authors
    /\ wasShadowed \subseteq Authors
    /\ faults \in 0..MaxFaults

Init ==
    /\ now = 0
    /\ comments = [c \in Comments |-> NoComment]
    /\ shadowed = {}
    /\ lastNotified = -1
    /\ post = [p \in Posts |-> NoPost]
    /\ pass = NoPass
    /\ mailed = [c \in Comments |-> 0]
    /\ unmarked = [c \in Comments |-> 0]
    /\ slipped = {}
    /\ vetted = {}
    /\ wasShadowed = {}
    /\ faults = 0

Fault == faults < MaxFaults /\ faults' = faults + 1

-----------------------------------------------------------------------------
(* Posting: CommentsHandler.Create *)

BugScreen(p, a) ==
    /\ post[p].pc = "idle"
    /\ \/ post' = [post EXCEPT ![p] =
                [pc |-> "dedup", author |-> a, status |-> "pending", stamp |-> 0]]
       \/ post' = [post EXCEPT ![p] =
                [pc |-> "insert", author |-> a, status |-> "spam", stamp |-> now]]
    /\ UNCHANGED <<now, site, pass, history>>

\* A request arrives and is screened: IsSpam or CheckBlockedTerms may reject
\* its text, which is stored all the same, for the record.
Screen(p, a) ==
    /\ post[p].pc = "idle"
    /\ \/ post' = [post EXCEPT ![p] =
                [pc |-> "dedup", author |-> a, status |-> "pending", stamp |-> 0]]
       \/ post' = [post EXCEPT ![p] =
                [pc |-> "insert", author |-> a, status |-> "rejected", stamp |-> now]]
    /\ UNCHANGED <<now, site, pass, history>>

\* FindDuplicateComment: a rejected comment is a duplicate too.
Duplicates(a) ==
    {c \in Comments : /\ Exists(c) /\ comments[c].author = a
                      /\ comments[c].createdAt >= now - DedupWindow}

FindDuplicate(p) ==
    /\ post[p].pc = "dedup"
    /\ post' = [post EXCEPT ![p] =
            IF Duplicates(post[p].author) # {} THEN NoPost ELSE [@ EXCEPT !.pc = "decide"]]
    /\ UNCHANGED <<now, site, pass, history>>

\* A query that fails finds no duplicate, and the post goes on.
FindDuplicateFails(p) ==
    /\ post[p].pc = "dedup"
    /\ post' = [post EXCEPT ![p].pc = "decide"]
    /\ Fault
    /\ UNCHANGED <<now, site, pass, mailed, unmarked, slipped, vetted, wasShadowed>>

BugEarnsApproval(a) == \E c \in Comments : Exists(c) /\ comments[c].author = a

\* CountApprovedCommentsByUser
EarnsApproval(a) ==
    \E c \in Comments : comments[c].status = "approved" /\ comments[c].author = a

\* The status is decided and created_at is read before the row is inserted.
Decide(p) ==
    /\ post[p].pc = "decide"
    /\ post' = [post EXCEPT ![p] =
            [pc |-> "insert", author |-> @.author, stamp |-> now,
             status |-> IF @.author \in shadowed \/ EarnsApproval(@.author)
                        THEN "approved" ELSE "pending"]]
    /\ UNCHANGED <<now, site, pass, history>>

\* A batch is between its listing and the mark that will pass its comments.
BatchUnderWay == pass.pc \in {"send", "mark"}

NewRow(c, row) ==
    /\ ~ Exists(c)
    /\ comments' = [comments EXCEPT ![c] = row]
    /\ mailed' = [mailed EXCEPT ![c] = 0]
    /\ unmarked' = [unmarked EXCEPT ![c] = 0]
    /\ slipped' = IF /\ row.status = "pending"
                     /\ BatchUnderWay \/ row.createdAt <= lastNotified
                  THEN slipped \cup {c} ELSE slipped \ {c}

InsertComment(p) ==
    /\ post[p].pc = "insert"
    /\ \E c \in Comments :
            NewRow(c, [status |-> post[p].status, author |-> post[p].author,
                       createdAt |-> post[p].stamp])
    /\ post' = [post EXCEPT ![p] = NoPost]
    /\ UNCHANGED <<now, shadowed, lastNotified, pass, vetted, wasShadowed,
                   faults>>

\* CreateComment fails and the request is answered with an error.
InsertFails(p) ==
    /\ post[p].pc = "insert"
    /\ post' = [post EXCEPT ![p] = NoPost]
    /\ Fault
    /\ UNCHANGED <<now, site, pass, mailed, unmarked, slipped, vetted, wasShadowed>>

-----------------------------------------------------------------------------
(* Moderation *)

\* No listing is bound to see c if it becomes pending now: last_notified_at has
\* passed it, or is about to and c is not in the batch.
Behind(c) ==
    \/ comments[c].createdAt <= lastNotified
    \/ BatchUnderWay /\ c \notin pass.batch

\* UpdateComment, of a PATCH or of an approval link.
SetStatus(c, status) ==
    /\ Exists(c)
    /\ comments' = [comments EXCEPT ![c].status = status]
    /\ slipped' = IF status = "pending" /\ Behind(c) THEN slipped \cup {c} ELSE slipped
    /\ vetted' = IF status = "approved" THEN vetted \cup ({comments[c].author} \ {Admin})
                 ELSE vetted
    /\ UNCHANGED <<now, shadowed, lastNotified, post, pass, mailed, unmarked,
                   wasShadowed, faults>>

\* ListComments, to a reader who is not the author
Visible(c) ==
    comments[c].status = "approved" /\ comments[c].author \notin shadowed

\* Reply
Reply(c) ==
    /\ \E parent \in Comments : Exists(parent)
    /\ NewRow(c, [status |-> "approved", author |-> Admin, createdAt |-> now])
    /\ UNCHANGED <<now, shadowed, lastNotified, post, pass, vetted,
                   wasShadowed, faults>>

\* ImportComments: a file brings its IDs, statuses and creation times, of the
\* past or of the future, and an ID that the table holds is skipped.
Import(c, a, status, stamp) ==
    /\ NewRow(c, [status |-> status, author |-> a, createdAt |-> stamp])
    /\ vetted' = IF status = "approved" THEN vetted \cup {a} ELSE vetted
    /\ UNCHANGED <<now, shadowed, lastNotified, post, pass, wasShadowed,
                   faults>>

\* DeleteComment
DeleteComment(c) ==
    /\ Exists(c)
    /\ comments' = [comments EXCEPT ![c] = NoComment]
    /\ slipped' = slipped \ {c}
    /\ mailed' = [mailed EXCEPT ![c] = 0]
    /\ unmarked' = [unmarked EXCEPT ![c] = 0]
    /\ pass' = [pass EXCEPT !.batch = @ \ {c}]
    /\ UNCHANGED <<now, shadowed, lastNotified, post, vetted, wasShadowed, faults>>

\* AdminHandler.UpdateUser with shadow_banned
ShadowBan(a) ==
    /\ shadowed' = IF a \in shadowed THEN shadowed \ {a} ELSE shadowed \cup {a}
    /\ wasShadowed' = wasShadowed \cup {a}
    /\ UNCHANGED <<now, comments, lastNotified, post, pass, mailed, unmarked,
                   slipped, vetted, faults>>

-----------------------------------------------------------------------------
(* The dispatcher: runDispatch *)

Pending == {c \in Comments :
    comments[c].status = "pending" /\ comments[c].createdAt > lastNotified}

\* shouldNotify
Due == \/ Cardinality(Pending) >= BatchSize
       \/ lastNotified = -1
       \/ now - lastNotified >= NotifyInterval

\* ListSites and CountPendingComments
BeginPass ==
    /\ pass.pc = "idle"
    /\ Pending # {} /\ Due
    /\ \A c \in Comments : mailed[c] < MaxMails
    /\ pass' = [pass EXCEPT !.pc = "list"]
    /\ UNCHANGED <<now, site, post, history>>

ListPending ==
    /\ pass.pc = "list"
    /\ pass' = IF Pending = {} THEN NoPass ELSE [pc |-> "send", batch |-> Pending]
    /\ slipped' = slipped \ Pending
    /\ UNCHANGED <<now, site, post, mailed, unmarked, vetted, wasShadowed, faults>>

BugAbortPass ==
    /\ pass.pc \in {"list", "send"}
    /\ pass' = [pass EXCEPT !.pc = "mark"]
    /\ Fault
    /\ UNCHANGED <<now, site, post, mailed, unmarked, slipped, vetted, wasShadowed>>

\* A failed listing, or a failed insert of an approval token.
AbortPass ==
    /\ pass.pc \in {"list", "send"}
    /\ pass' = NoPass
    /\ Fault
    /\ UNCHANGED <<now, site, post, mailed, unmarked, slipped, vetted, wasShadowed>>

OneMore(count, S) == [c \in Comments |-> IF c \in S THEN count[c] + 1 ELSE count[c]]

\* MultiNotifier.NotifyBatch logs the errors of its notifiers and returns nil,
\* so that a batch nobody received is marked like any other.
Send ==
    /\ pass.pc = "send"
    /\ \/ /\ mailed' = OneMore(mailed, pass.batch)
          /\ pass' = [pass EXCEPT !.pc = "mark"]
          /\ UNCHANGED <<slipped, faults>>
       \/ /\ slipped' = slipped \cup pass.batch
          /\ pass' = [pc |-> "mark", batch |-> {}]
          /\ Fault
          /\ UNCHANGED mailed
    /\ UNCHANGED <<now, site, post, unmarked, vetted, wasShadowed>>

BugMark ==
    /\ pass.pc = "mark"
    /\ lastNotified' = now - 1
    /\ unmarked' = OneMore(unmarked, {c \in pass.batch : comments[c].createdAt > now})
    /\ pass' = NoPass
    /\ UNCHANGED <<now, comments, shadowed, post, mailed, slipped, vetted,
                   wasShadowed, faults>>

\* UpdateSiteLastNotifiedAt, with the time after the send, which does not cover
\* a comment whose created_at an import set in the future.
Mark ==
    /\ pass.pc = "mark"
    /\ lastNotified' = now
    /\ unmarked' = OneMore(unmarked, {c \in pass.batch : comments[c].createdAt > now})
    /\ pass' = NoPass
    /\ UNCHANGED <<now, comments, shadowed, post, mailed, slipped, vetted,
                   wasShadowed, faults>>

MarkFails ==
    /\ pass.pc = "mark"
    /\ pass' = NoPass
    /\ unmarked' = OneMore(unmarked, pass.batch)
    /\ Fault
    /\ UNCHANGED <<now, site, post, mailed, slipped, vetted, wasShadowed>>

-----------------------------------------------------------------------------

\* The process restarts: what it held in memory is gone.
Restart ==
    /\ Fault
    /\ post' = [p \in Posts |-> NoPost]
    /\ pass' = NoPass
    /\ unmarked' = IF pass.pc = "mark" THEN OneMore(unmarked, pass.batch) ELSE unmarked
    /\ UNCHANGED <<now, site, mailed, slipped, vetted, wasShadowed>>

Tick ==
    /\ now < MaxTime
    /\ now' = now + 1
    /\ UNCHANGED <<site, post, pass, history>>

Next ==
    \/ \E p \in Posts, a \in Authors : Screen(p, a)
    \/ \E p \in Posts : FindDuplicate(p) \/ FindDuplicateFails(p) \/ Decide(p)
                        \/ InsertComment(p) \/ InsertFails(p)
    \/ \E c \in Comments, status \in Statuses : SetStatus(c, status)
    \/ \E c \in Comments : Reply(c) \/ DeleteComment(c)
    \/ \E c \in Comments, a \in Authors, status \in Statuses, stamp \in Time :
            Import(c, a, status, stamp)
    \/ \E a \in Authors : ShadowBan(a)
    \/ BeginPass \/ ListPending \/ AbortPass \/ Send \/ Mark \/ MarkFails
    \/ Restart \/ Tick

Spec == Init /\ [][Next]_vars

-----------------------------------------------------------------------------
(* Properties *)

\* A pending comment that last_notified_at has passed was mailed, unless it
\* became pending, last, where no listing was bound to see it, or its batch was
\* lost: the two statements that read and move last_notified_at skip nothing
\* else, however they interleave with posts, moderators and imports.
PassedWasMailed ==
    \A c \in Comments :
        comments[c].status = "pending" /\ comments[c].createdAt <= lastNotified
        => mailed[c] > 0 \/ c \in slipped

\* A comment is mailed again only for a delivery of its own that
\* last_notified_at does not cover: the update failed, the process stopped
\* before it, or an import had set the comment's created_at in the future.
MailedOnce ==
    \A c \in Comments : mailed[c] <= 1 + unmarked[c]

\* Everything a reader can see of an author comes after a moderator approved
\* one of the author's comments, unless the author was once shadow-banned: the
\* ban stores comments as approved, and its end makes them visible.
VisibleWasVetted ==
    \A c \in Comments :
        Visible(c) => comments[c].author \in vetted \cup wasShadowed \cup {Admin}

=============================================================================
