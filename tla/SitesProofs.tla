---------------------------- MODULE SitesProofs ----------------------------
(***************************************************************************)
(* Proofs about the sites of one instance and of many tenants:             *)
(*   I.  Moderation: which comments are mailed, how often, and who is      *)
(*       visible.                                                          *)
(*   II. Tenancy: which store a public request is served from, and what    *)
(*       the control plane and the stores say of a site.                   *)
(* The two modules share nothing.                                          *)
(***************************************************************************)
EXTENDS Moderation, Tenancy, TLAPS

-----------------------------------------------------------------------------
(* I. Moderation                                                           *)

\* Whoever posted a comment is known, and so is the poster of a request.
AuthorsKnown ==
    /\ \A c \in Comments : Exists(c) => comments[c].author # NoAuthor
    /\ \A p \in Posts : post[p].pc # "idle" => post[p].author \in Authors

Covered(c) == mailed[c] > 0 \/ c \in slipped

\* A pending comment that last_notified_at has passed is covered.  While a batch
\* is on its way, it holds what is not; when it is marked, all are.
NothingForgotten ==
    /\ \A c \in Comments : comments[c].status = "pending" =>
        /\ comments[c].createdAt <= lastNotified => Covered(c)
        /\ pass.pc = "send" => c \in pass.batch \/ Covered(c)
        /\ pass.pc = "mark" => Covered(c)
    /\ \A c \in pass.batch : Exists(c) /\ (pass.pc = "mark" => mailed[c] > 0)

\* A comment that the next listing may find, or that the batch holds, was mailed
\* only by deliveries that last_notified_at missed; the delivery that is being
\* marked may be one more.
MarksCount ==
    /\ lastNotified <= now
    /\ \A c \in Comments :
        /\ mailed[c] <= 1 + unmarked[c]
        /\ comments[c].createdAt > lastNotified /\ ~ (pass.pc = "mark" /\ c \in pass.batch)
                => mailed[c] <= unmarked[c]
        /\ pass.pc = "send" /\ c \in pass.batch => mailed[c] <= unmarked[c]

\* An approved comment, and a post that is about to become one, is by an author
\* whom a moderator has approved or who has been shadow-banned.
ApprovalsEarned ==
    /\ shadowed \subseteq wasShadowed
    /\ \A c \in Comments : comments[c].status = "approved" =>
            comments[c].author \in vetted \cup wasShadowed \cup {Admin}
    /\ \A p \in Posts : post[p].pc = "insert" /\ post[p].status = "approved" =>
            post[p].author \in vetted \cup wasShadowed

ModerationInv == TypeOK /\ AuthorsKnown

\* The initial state satisfies the invariant.
LEMMA ModerationStarts == ASSUME Init PROVE ModerationInv
  BY ModerationAssumption, SMT
     DEF Init, ModerationInv, TypeOK, AuthorsKnown, Exists, Time,
         CommentRow, NoComment, PostState, NoPost, PassState, NoPass, Statuses

\* Every step preserves the types, and what is known of authors and times.
LEMMA ModerationTyped ==
  ASSUME ModerationInv, [Next]_vars
  PROVE  ModerationInv'
<1> USE ModerationAssumption DEF ModerationInv, TypeOK, AuthorsKnown,
        Exists, Time, site, history, Statuses, CommentRow, PostState, PassState
<1>1. ASSUME NEW p \in Posts, NEW a \in Authors, Screen(p, a) PROVE ModerationInv'
  <2>1. CASE post' = [post EXCEPT ![p] =
                [pc |-> "dedup", author |-> a, status |-> "pending", stamp |-> 0]]
    BY <1>1, <2>1, SMT DEF Screen
  <2>2. CASE post' = [post EXCEPT ![p] =
                [pc |-> "insert", author |-> a, status |-> "rejected", stamp |-> now]]
    BY <1>1, <2>2, SMT DEF Screen
  <2> QED BY <1>1, <2>1, <2>2, Zenon DEF Screen
<1>2. ASSUME NEW p \in Posts, FindDuplicate(p) PROVE ModerationInv'
  BY <1>2, SMT DEF FindDuplicate, NoPost
<1>3. ASSUME NEW p \in Posts, Decide(p) PROVE ModerationInv'
  BY <1>3, SMT DEF Decide
<1>4. ASSUME NEW p \in Posts, InsertComment(p) PROVE ModerationInv'
  BY <1>4, SMT DEF InsertComment, NewRow, BatchUnderWay, NoPost
<1>5. ASSUME NEW p \in Posts, InsertFails(p) PROVE ModerationInv'
  BY <1>5, SMT DEF InsertFails, Fault, NoPost
<1>6. ASSUME NEW c \in Comments, NEW status \in Statuses, SetStatus(c, status)
      PROVE  ModerationInv'
  BY <1>6, SMT DEF SetStatus, Behind, BatchUnderWay
<1>7. ASSUME NEW c \in Comments, Reply(c) PROVE ModerationInv'
  BY <1>7, SMT DEF Reply, NewRow, BatchUnderWay
<1>8. ASSUME NEW c \in Comments, DeleteComment(c) PROVE ModerationInv'
  BY <1>8, SMT DEF DeleteComment, NoComment
<1>9. ASSUME NEW c \in Comments, NEW a \in Authors, NEW status \in Statuses,
             NEW stamp \in Time, Import(c, a, status, stamp)
      PROVE  ModerationInv'
  BY <1>9, SMT DEF Import, NewRow, BatchUnderWay
<1>10. ASSUME NEW a \in Authors, ShadowBan(a) PROVE ModerationInv'
  BY <1>10, SMT DEF ShadowBan
<1>11. CASE BeginPass BY <1>11, SMT DEF BeginPass
<1>12. CASE ListPending BY <1>12, SMT DEF ListPending, Pending, NoPass
<1>13. CASE AbortPass BY <1>13, SMT DEF AbortPass, Fault, NoPass
<1>14. CASE Send BY <1>14, SMT DEF Send, OneMore, Fault
<1>15. CASE Mark BY <1>15, SMT DEF Mark, OneMore, NoPass
<1>16. CASE MarkFails BY <1>16, SMT DEF MarkFails, OneMore, Fault, NoPass
<1>17. CASE Restart BY <1>17, SMT DEF Restart, OneMore, Fault, NoPass, NoPost
<1>18. CASE Tick BY <1>18, SMT DEF Tick
<1>19. CASE UNCHANGED vars BY <1>19, SMT DEF vars
<1>20. ASSUME NEW p \in Posts, FindDuplicateFails(p) PROVE ModerationInv'
  BY <1>20, SMT DEF FindDuplicateFails, Fault
<1> HIDE DEF ModerationInv, TypeOK, AuthorsKnown,
        Exists, Time, site, history, Statuses, CommentRow, PostState, PassState
<1> QED BY <1>1, <1>2, <1>3, <1>4, <1>5, <1>6, <1>7, <1>8, <1>9, <1>10, <1>11,
           <1>12, <1>13, <1>14, <1>15, <1>16, <1>17, <1>18, <1>19, <1>20, Zenon DEF Next

\* A step neither forgets a pending comment nor moves last_notified_at past it.
LEMMA NothingForgottenStep ==
  ASSUME ModerationInv, NothingForgotten, [Next]_vars
  PROVE  NothingForgotten'
<1> USE ModerationAssumption DEF ModerationInv, TypeOK, AuthorsKnown, NothingForgotten, Covered,
        Exists, Time, site, history, Statuses, CommentRow, PostState, PassState
<1>1. ASSUME NEW p \in Posts, NEW a \in Authors, Screen(p, a)
      PROVE  NothingForgotten'
  BY <1>1, SMTT(60) DEF Screen
<1>2. ASSUME NEW p \in Posts, FindDuplicate(p) PROVE NothingForgotten'
  BY <1>2, SMT DEF FindDuplicate, NoPost
<1>3. ASSUME NEW p \in Posts, Decide(p) PROVE NothingForgotten'
  BY <1>3, SMT DEF Decide
<1>4. ASSUME NEW p \in Posts, InsertComment(p) PROVE NothingForgotten'
  BY <1>4, SMT DEF InsertComment, NewRow, BatchUnderWay, NoPost
<1>5. ASSUME NEW p \in Posts, InsertFails(p) PROVE NothingForgotten'
  BY <1>5, SMT DEF InsertFails, Fault, NoPost
<1>6. ASSUME NEW c \in Comments, NEW status \in Statuses, SetStatus(c, status)
      PROVE  NothingForgotten'
  <2>1. ASSUME NEW d \in Comments, comments'[d].status = "pending"
        PROVE  /\ comments'[d].createdAt = comments[d].createdAt
               /\ comments[d].status = "pending" \/ (d = c /\ status = "pending")
    BY <1>6, <2>1, SMT DEF SetStatus
  <2>2. /\ pass' = pass /\ mailed' = mailed /\ lastNotified' = lastNotified
        /\ slipped \subseteq slipped'
        /\ status = "pending" /\ Behind(c) => c \in slipped'
    BY <1>6, SMT DEF SetStatus
  <2>3. \A d \in Comments : Exists(d)' <=> Exists(d)
    BY <1>6, SMT DEF SetStatus
  <2>4. ASSUME NEW d \in Comments, comments'[d].status = "pending"
        PROVE  /\ comments'[d].createdAt <= lastNotified' => Covered(d)'
               /\ pass'.pc = "send" => d \in pass'.batch \/ Covered(d)'
               /\ pass'.pc = "mark" => Covered(d)'
    BY <2>1, <2>2, <2>4, SMT DEF Behind, BatchUnderWay
  <2> QED BY <2>2, <2>3, <2>4, SMT
<1>7. ASSUME NEW c \in Comments, Reply(c) PROVE NothingForgotten'
  BY <1>7, SMT DEF Reply, NewRow, BatchUnderWay
<1>8. ASSUME NEW c \in Comments, DeleteComment(c) PROVE NothingForgotten'
  BY <1>8, SMT DEF DeleteComment, NoComment
<1>9. ASSUME NEW c \in Comments, NEW a \in Authors, NEW status \in Statuses,
             NEW stamp \in Time, Import(c, a, status, stamp)
      PROVE  NothingForgotten'
  BY <1>9, SMT DEF Import, NewRow, BatchUnderWay
<1>10. ASSUME NEW a \in Authors, ShadowBan(a) PROVE NothingForgotten'
  BY <1>10, SMT DEF ShadowBan
<1>11. CASE BeginPass
  BY <1>11, SMT DEF BeginPass
<1>12. CASE ListPending
  BY <1>12, SMT DEF ListPending, Pending, NoPass
<1>13. CASE AbortPass
  BY <1>13, SMT DEF AbortPass, Fault, NoPass
<1>14. CASE Send
  BY <1>14, SMT DEF Send, OneMore, Fault
<1>15. CASE Mark
  BY <1>15, SMT DEF Mark, OneMore, NoPass
<1>16. CASE MarkFails
  BY <1>16, SMT DEF MarkFails, OneMore, Fault, NoPass
<1>17. CASE Restart
  BY <1>17, SMT DEF Restart, OneMore, Fault, NoPass, NoPost
<1>18. CASE Tick
  BY <1>18, SMT DEF Tick
<1>19. CASE UNCHANGED vars
  BY <1>19, SMT DEF vars
<1>20. ASSUME NEW p \in Posts, FindDuplicateFails(p) PROVE NothingForgotten'
  BY <1>20, SMT DEF FindDuplicateFails, Fault
<1> HIDE DEF ModerationInv, TypeOK, AuthorsKnown, NothingForgotten, Covered,
        Exists, Time, site, history, Statuses, CommentRow, PostState, PassState
<1> QED BY <1>1, <1>2, <1>3, <1>4, <1>5, <1>6, <1>7, <1>8, <1>9, <1>10, <1>11,
           <1>12, <1>13, <1>14, <1>15, <1>16, <1>17, <1>18, <1>19, <1>20, Zenon DEF Next

\* A step mails a comment once more only for a mark that was lost.
LEMMA MarksCountStep ==
  ASSUME ModerationInv, MarksCount, [Next]_vars
  PROVE  MarksCount'
<1> USE ModerationAssumption DEF ModerationInv, TypeOK, AuthorsKnown, MarksCount,
        Exists, Time, site, history, Statuses, CommentRow, PostState, PassState
<1>1. ASSUME NEW p \in Posts, NEW a \in Authors, Screen(p, a)
      PROVE  MarksCount'
  BY <1>1, SMTT(60) DEF Screen
<1>2. ASSUME NEW p \in Posts, FindDuplicate(p) PROVE MarksCount'
  BY <1>2, SMT DEF FindDuplicate, NoPost
<1>3. ASSUME NEW p \in Posts, Decide(p) PROVE MarksCount'
  BY <1>3, SMT DEF Decide
<1>4. ASSUME NEW p \in Posts, InsertComment(p) PROVE MarksCount'
  BY <1>4, SMT DEF InsertComment, NewRow, BatchUnderWay, NoPost
<1>5. ASSUME NEW p \in Posts, InsertFails(p) PROVE MarksCount'
  BY <1>5, SMT DEF InsertFails, Fault, NoPost
<1>6. ASSUME NEW c \in Comments, NEW status \in Statuses, SetStatus(c, status)
      PROVE  MarksCount'
  BY <1>6, SMT DEF SetStatus, Behind, BatchUnderWay
<1>7. ASSUME NEW c \in Comments, Reply(c) PROVE MarksCount'
  BY <1>7, SMT DEF Reply, NewRow, BatchUnderWay
<1>8. ASSUME NEW c \in Comments, DeleteComment(c) PROVE MarksCount'
  BY <1>8, SMT DEF DeleteComment, NoComment
<1>9. ASSUME NEW c \in Comments, NEW a \in Authors, NEW status \in Statuses,
             NEW stamp \in Time, Import(c, a, status, stamp)
      PROVE  MarksCount'
  BY <1>9, SMT DEF Import, NewRow, BatchUnderWay
<1>10. ASSUME NEW a \in Authors, ShadowBan(a) PROVE MarksCount'
  BY <1>10, SMT DEF ShadowBan
<1>11. CASE BeginPass
  BY <1>11, SMT DEF BeginPass
<1>12. CASE ListPending
  BY <1>12, SMT DEF ListPending, Pending, NoPass
<1>13. CASE AbortPass
  BY <1>13, SMT DEF AbortPass, Fault, NoPass
<1>14. CASE Send
  BY <1>14, SMT DEF Send, OneMore, Fault
<1>15. CASE Mark
  BY <1>15, SMT DEF Mark, OneMore, NoPass
<1>16. CASE MarkFails
  BY <1>16, SMT DEF MarkFails, OneMore, Fault, NoPass
<1>17. CASE Restart
  BY <1>17, SMT DEF Restart, OneMore, Fault, NoPass, NoPost
<1>18. CASE Tick
  BY <1>18, SMT DEF Tick
<1>19. CASE UNCHANGED vars
  BY <1>19, SMT DEF vars
<1>20. ASSUME NEW p \in Posts, FindDuplicateFails(p) PROVE MarksCount'
  BY <1>20, SMT DEF FindDuplicateFails, Fault
<1> HIDE DEF ModerationInv, TypeOK, AuthorsKnown, MarksCount,
        Exists, Time, site, history, Statuses, CommentRow, PostState, PassState
<1> QED BY <1>1, <1>2, <1>3, <1>4, <1>5, <1>6, <1>7, <1>8, <1>9, <1>10, <1>11,
           <1>12, <1>13, <1>14, <1>15, <1>16, <1>17, <1>18, <1>19, <1>20, Zenon DEF Next

\* A step approves nobody's comment who has not earned it.
LEMMA ApprovalsEarnedStep ==
  ASSUME ModerationInv, ApprovalsEarned, [Next]_vars
  PROVE  ApprovalsEarned'
<1> USE ModerationAssumption DEF ModerationInv, TypeOK, AuthorsKnown, ApprovalsEarned,
        Exists, Time, site, history, Statuses, CommentRow, PostState, PassState
<1>1. ASSUME NEW p \in Posts, NEW a \in Authors, Screen(p, a)
      PROVE  ApprovalsEarned'
  BY <1>1, SMTT(60) DEF Screen
<1>2. ASSUME NEW p \in Posts, FindDuplicate(p) PROVE ApprovalsEarned'
  BY <1>2, SMT DEF FindDuplicate, NoPost
<1>3. ASSUME NEW p \in Posts, Decide(p) PROVE ApprovalsEarned'
  <2>1. post[p].author \in Authors /\ post[p].author # Admin
    BY <1>3, SMT DEF Decide
  <2>2. EarnsApproval(post[p].author) => post[p].author \in vetted \cup wasShadowed
    BY <2>1, SMT DEF EarnsApproval
  <2>3. post[p].author \in shadowed => post[p].author \in wasShadowed
    BY SMT
  <2> DEFINE status == IF post[p].author \in shadowed \/ EarnsApproval(post[p].author)
                       THEN "approved" ELSE "pending"
  <2>4. status = "approved" => post[p].author \in vetted \cup wasShadowed
    BY <2>2, <2>3, SMT
  <2>5. post' = [post EXCEPT ![p] = [pc |-> "insert", author |-> post[p].author,
                                    stamp |-> now, status |-> status]]
    BY <1>3, Zenon DEF Decide
  <2> HIDE DEF status
  <2> QED BY <1>3, <2>4, <2>5, SMT DEF Decide
<1>4. ASSUME NEW p \in Posts, InsertComment(p) PROVE ApprovalsEarned'
  BY <1>4, SMT DEF InsertComment, NewRow, BatchUnderWay, NoPost
<1>5. ASSUME NEW p \in Posts, InsertFails(p) PROVE ApprovalsEarned'
  BY <1>5, SMT DEF InsertFails, Fault, NoPost
<1>6. ASSUME NEW c \in Comments, NEW status \in Statuses, SetStatus(c, status)
      PROVE  ApprovalsEarned'
  BY <1>6, SMT DEF SetStatus, Behind, BatchUnderWay
<1>7. ASSUME NEW c \in Comments, Reply(c) PROVE ApprovalsEarned'
  BY <1>7, SMT DEF Reply, NewRow, BatchUnderWay
<1>8. ASSUME NEW c \in Comments, DeleteComment(c) PROVE ApprovalsEarned'
  BY <1>8, SMT DEF DeleteComment, NoComment
<1>9. ASSUME NEW c \in Comments, NEW a \in Authors, NEW status \in Statuses,
             NEW stamp \in Time, Import(c, a, status, stamp)
      PROVE  ApprovalsEarned'
  BY <1>9, SMT DEF Import, NewRow, BatchUnderWay
<1>10. ASSUME NEW a \in Authors, ShadowBan(a) PROVE ApprovalsEarned'
  BY <1>10, SMT DEF ShadowBan
<1>11. CASE BeginPass
  BY <1>11, SMT DEF BeginPass
<1>12. CASE ListPending
  BY <1>12, SMT DEF ListPending, Pending, NoPass
<1>13. CASE AbortPass
  BY <1>13, SMT DEF AbortPass, Fault, NoPass
<1>14. CASE Send
  BY <1>14, SMT DEF Send, OneMore, Fault
<1>15. CASE Mark
  BY <1>15, SMT DEF Mark, OneMore, NoPass
<1>16. CASE MarkFails
  BY <1>16, SMT DEF MarkFails, OneMore, Fault, NoPass
<1>17. CASE Restart
  BY <1>17, SMT DEF Restart, OneMore, Fault, NoPass, NoPost
<1>18. CASE Tick
  BY <1>18, SMT DEF Tick
<1>19. CASE UNCHANGED vars
  BY <1>19, SMT DEF vars
<1>20. ASSUME NEW p \in Posts, FindDuplicateFails(p) PROVE ApprovalsEarned'
  BY <1>20, SMT DEF FindDuplicateFails, Fault
<1> HIDE DEF ModerationInv, TypeOK, AuthorsKnown, ApprovalsEarned,
        Exists, Time, site, history, Statuses, CommentRow, PostState, PassState
<1> QED BY <1>1, <1>2, <1>3, <1>4, <1>5, <1>6, <1>7, <1>8, <1>9, <1>10, <1>11,
           <1>12, <1>13, <1>14, <1>15, <1>16, <1>17, <1>18, <1>19, <1>20, Zenon DEF Next

-----------------------------------------------------------------------------

\* The inductive invariant of the comments.
LEMMA ModerationHolds ==
  Spec => [](ModerationInv /\ NothingForgotten /\ MarksCount /\ ApprovalsEarned)
<1> DEFINE Inv == ModerationInv /\ NothingForgotten /\ MarksCount /\ ApprovalsEarned
<1>1. Init => Inv
  <2> SUFFICES ASSUME Init PROVE Inv OBVIOUS
  <2>1. NothingForgotten /\ MarksCount /\ ApprovalsEarned
    BY SMT DEF Init, NoComment, NoPost, NoPass, Exists, NothingForgotten, Covered,
               MarksCount, ApprovalsEarned
  <2> QED BY <2>1, ModerationStarts
<1>2. Inv /\ [Next]_vars => Inv'
  BY ModerationTyped, NothingForgottenStep, MarksCountStep, ApprovalsEarnedStep
<1> QED BY <1>1, <1>2, PTL DEF Spec

\* The variables keep their types, however posts, moderators, passes, failures and
\* restarts interleave.
THEOREM ModerationTypes == Spec => []TypeOK
<1>1. ModerationInv => TypeOK
  BY DEF ModerationInv
<1> QED BY <1>1, ModerationHolds, PTL

\* The dispatcher passes no pending comment over: last_notified_at moves past one
\* that was mailed, or became pending where no listing was bound to see it, or was
\* in a batch that was lost.
THEOREM PassesSkipNothing == Spec => []PassedWasMailed
<1>1. NothingForgotten => PassedWasMailed
  BY SMT DEF NothingForgotten, Covered, PassedWasMailed
<1> QED BY <1>1, ModerationHolds, PTL

\* The dispatcher mails a comment once, and again only for its own deliveries that
\* last_notified_at does not cover: a mark that was lost, a created_at of the future.
THEOREM RepeatsAreUnmarked == Spec => []MailedOnce
<1>1. MarksCount => MailedOnce
  BY DEF MarksCount, MailedOnce
<1> QED BY <1>1, ModerationHolds, PTL

\* A reader sees only authors whom a moderator has approved once, the
\* administrator, and those whose ban has ended.
THEOREM VisibilityIsEarned == Spec => []VisibleWasVetted
<1>1. ApprovalsEarned => VisibleWasVetted
  BY SMT DEF ApprovalsEarned, VisibleWasVetted, Visible
<1> QED BY <1>1, ModerationHolds, PTL

-----------------------------------------------------------------------------
(* II. Tenancy                                                             *)

\* A registration is for the account that the site was made for.
RegistrationsOwned ==
    \A s \in Sites :
        IF registry[s].status = "none" THEN registry[s].account = NoAccount
        ELSE registry[s].account = owner[s] /\ owner[s] \in Accounts

\* A site's row is in the store of its owner.
RowsOwned == \A a \in Accounts : \A s \in rows[a] : owner[s] = a

\* A creation or deletion is one of a site for its owner.
OperationsOwned ==
    \A o \in Operations : operation[o].pc # "idle" =>
        /\ operation[o].site \in Sites /\ operation[o].account \in Accounts
        /\ operation[o].account = owner[operation[o].site]

\* A site that does not serve, unless it was activated against its deletion.
Withdrawn(s) == registry[s].status \in {"none", "inactive"} \/ s \in overtaken

\* What a creation or deletion has found or done stays so until it ends: a site
\* about to be inserted is nobody else's business, and a row that is gone does
\* not come back.
OperationsInStep ==
    \A o \in Operations :
        LET op == operation[o]
        IN  /\ op.pc = "insert" =>
                /\ op.site \notin rows[op.account]
                /\ registry[op.site].account = op.account
                /\ \A x \in Operations \ {o} :
                        operation[x].pc # "idle" => operation[x].site # op.site
            /\ op.pc = "activate" => op.site \in rows[op.account] \/ Withdrawn(op.site)
            /\ op.pc = "delete" => Withdrawn(op.site)
            /\ op.pc = "unregister" => op.site \notin rows[op.account]

PlaneInv ==
    /\ RegistrationsOwned /\ RowsOwned /\ OperationsOwned /\ OperationsInStep
    /\ SitesAreClaimed /\ ActiveSitesExist

\* A public request is for the owner of its site, and past authentication its
\* token is of both.
RequestsOwned ==
    \A r \in Requests :
        LET q == request[r]
        IN  q.pc # "idle" =>
                /\ q.site \in Sites /\ q.account \in Accounts
                /\ q.account = owner[q.site]
                /\ q.kind = "change" => q.id \in Ids
                /\ q.pc \in {"origin", "handle", "write"} /\ q.kind # "list" =>
                        Matches(q.token, q.site, q.account)
                /\ q.pc = "write" => q.kind = "change"

\* The comment that a request is about to change is its site's, or gone, or was
\* replaced.
TargetsRead ==
    \A r \in Requests \ replaced :
        LET q == request[r]
        IN  q.pc = "write" => commentSite[q.account][q.id] \in {q.site, NoSite}

TenancyInv == TenancyTypeOK /\ PlaneInv /\ RequestsOwned /\ TargetsRead

\* The initial state satisfies the invariant.
LEMMA TenancyStarts == ASSUME TenancyInit PROVE TenancyInv
<1> USE TenancyAssumption DEF TenancyInit, NoRegistration, NoRequest, NoOperation
<1>1. TenancyTypeOK
  BY SMT DEF TenancyTypeOK, Registration, Request, Operation, Token, NoToken, Kinds
<1>2. PlaneInv
  BY SMT DEF PlaneInv, RegistrationsOwned, RowsOwned, OperationsOwned, OperationsInStep,
             SitesAreClaimed, ActiveSitesExist
<1>3. RequestsOwned /\ TargetsRead
  BY SMT DEF RequestsOwned, TargetsRead
<1> QED BY <1>1, <1>2, <1>3 DEF TenancyInv

-----------------------------------------------------------------------------

\* Creations and deletions of sites preserve what is known of both databases.
LEMMA PlaneStep ==
  ASSUME TenancyTypeOK, PlaneInv, NEW o \in Operations, SiteStep(o)
  PROVE  TenancyTypeOK' /\ PlaneInv'
<1> DEFINE Goal == TenancyTypeOK' /\ PlaneInv'
<1> SUFFICES Goal OBVIOUS
<1> USE TenancyAssumption
    DEF TenancyTypeOK, PlaneInv, RegistrationsOwned, RowsOwned, OperationsOwned,
        OperationsInStep, Withdrawn, SitesAreClaimed, ActiveSitesExist,
        Registration, Operation, NoRegistration, NoOperation, public, Proceed
<1>1. ASSUME NEW s \in Sites, NEW a \in Accounts, ReserveSite(o, s, a) PROVE Goal
  BY <1>1, SMT DEF ReserveSite
<1>2. ASSUME NEW s \in Sites, NEW a \in Accounts, RequestDeletion(o, s, a) PROVE Goal
  BY <1>2, SMT DEF RequestDeletion
<1>3. CASE CreateSite(o) BY <1>3, SMT DEF CreateSite
<1>4. CASE ActivateSite(o) BY <1>4, SMT DEF ActivateSite
<1>5. CASE DeactivateSite(o) BY <1>5, SMT DEF DeactivateSite
<1>6. CASE DeleteSite(o) BY <1>6, SMT DEF DeleteSite
<1>7. CASE DeleteRegistration(o) BY <1>7, SMT DEF DeleteRegistration
<1>8. CASE Abandon(o) BY <1>8, SMT DEF Abandon
<1> HIDE DEF Goal
<1> QED BY <1>1, <1>2, <1>3, <1>4, <1>5, <1>6, <1>7, <1>8, Zenon DEF SiteStep
\* A site keeps its owner, so that its requests stay served from there.
LEMMA RequestsStayOwned ==
  ASSUME TenancyInv, NEW o \in Operations, SiteStep(o)
  PROVE  RequestsOwned' /\ TargetsRead'
<1>1. UNCHANGED <<public, commentSite>>
  BY Zenon DEF SiteStep, ReserveSite, RequestDeletion, CreateSite, ActivateSite,
               DeactivateSite, DeleteSite, DeleteRegistration, Abandon
<1>2. \A s \in Sites : owner[s] # NoAccount => owner'[s] = owner[s]
  <2>1. ASSUME NEW s \in Sites, NEW a \in Accounts, ReserveSite(o, s, a)
        PROVE  \A x \in Sites : owner[x] # NoAccount => owner'[x] = owner[x]
    BY <2>1, SMT DEF ReserveSite, TenancyInv, TenancyTypeOK
  <2> QED BY <2>1, Zenon DEF SiteStep, RequestDeletion, CreateSite, ActivateSite,
               DeactivateSite, DeleteSite, DeleteRegistration, Abandon
<1> QED BY <1>1, <1>2, TenancyAssumption, SMT
           DEF TenancyInv, RequestsOwned, TargetsRead, public, Matches

\* Steps of a public request, and of the dashboard, leave the registrations and
\* the rows alone.
LEMMA PlaneStays ==
  ASSUME PlaneInv, UNCHANGED plane
  PROVE  PlaneInv'
BY SMT DEF plane, PlaneInv, RegistrationsOwned, RowsOwned, OperationsOwned,
           OperationsInStep, Withdrawn, SitesAreClaimed, ActiveSitesExist

\* A public request passes on what it has checked.
LEMMA RequestsChecked ==
  ASSUME TenancyInv, NEW r \in Requests, RequestStep(r)
  PROVE  TenancyInv'
<1> DEFINE Goal == TenancyTypeOK' /\ RequestsOwned' /\ TargetsRead' /\ UNCHANGED plane
<1> SUFFICES Goal BY PlaneStays, Zenon DEF TenancyInv
<1> USE TenancyAssumption
    DEF TenancyTypeOK, RequestsOwned, TargetsRead, Matches, Registration, Operation,
        Request, Token, Kinds, NoRequest, NoToken, plane, Step, Finish
<1> USE DEF TenancyInv
<1>1. ASSUME NEW kind \in Kinds, NEW s \in Sites, NEW token \in tokens \cup {NoToken},
             NEW i \in Ids \cup {NoId}, kind = "change" => i \in Ids,
             Resolve(r, kind, s, token, i)
      PROVE  Goal
  <2> DEFINE q == [pc |-> "verify", kind |-> kind, site |-> s,
                   account |-> registry[s].account, token |-> token, id |-> i]
  <2>1. registry[s].account \in Accounts /\ registry[s].account = owner[s]
    BY <1>1, SMT DEF Resolve, PlaneInv, RegistrationsOwned
  <2>2. /\ q \in Request /\ q.pc = "verify" /\ q.site = s /\ q.account = registry[s].account
        /\ q.kind = kind /\ q.id = i
    BY <1>1, <2>1, SMT
  <2>3. request' = [request EXCEPT ![r] = q]
    BY <1>1, Zenon DEF Resolve
  <2> HIDE DEF q
  <2> QED BY <1>1, <2>1, <2>2, <2>3, SMT DEF Resolve
<1>2. CASE VerifySite(r)
  <2>1. request[r].pc = "verify" /\ UNCHANGED <<plane, commentSite>>
    BY <1>2, Zenon DEF VerifySite
  <2>2. CASE request' = [request EXCEPT ![r] = NoRequest]
    BY <1>2, <2>2, SMT DEF VerifySite
  <2>3. CASE /\ request' = [request EXCEPT ![r].pc = "handle"] /\ request[r].kind = "list"
             /\ UNCHANGED <<tokens, replaced>>
    BY <2>1, <2>3, SMT
  <2>4. CASE request' = [request EXCEPT ![r].pc = "auth"] /\ UNCHANGED <<tokens, replaced>>
    BY <2>1, <2>4, SMT
  <2> QED BY <1>2, <2>2, <2>3, <2>4, Zenon DEF VerifySite
<1>3. CASE Authenticate(r) BY <1>3, SMT DEF Authenticate
<1>4. CASE EnforceOrigin(r) BY <1>4, SMT DEF EnforceOrigin
<1>5. CASE List(r) BY <1>5, SMT DEF List
<1>6. ASSUME NEW i \in Ids, Post(r, i) PROVE Goal
  BY <1>6, SMT DEF Post, Insert
<1>7. CASE ReadTarget(r) BY <1>7, SMT DEF ReadTarget
<1>8. CASE Change(r)
  <2>1. CASE UNCHANGED commentSite BY <1>8, <2>1, SMT DEF Change
  <2>2. CASE commentSite' = [commentSite EXCEPT ![request[r].account][request[r].id] = NoSite]
    BY <1>8, <2>2, SMT DEF Change
  <2> QED BY <1>8, <2>1, <2>2, Zenon DEF Change
<1>9. CASE GiveUp(r) BY <1>9, SMT DEF GiveUp
<1> HIDE DEF Goal, TenancyTypeOK, RequestsOwned, TargetsRead, Matches, Registration,
        Operation, Request, Token, NoRequest, NoToken, plane, Step, Finish, TenancyInv
<1> QED BY <1>1, <1>2, <1>3, <1>4, <1>5, <1>6, <1>7, <1>8, <1>9, SMT DEF RequestStep

\* Nor does the dashboard change a comment behind a request unnoticed.
LEMMA DashboardStep ==
  ASSUME TenancyInv, NEW a \in Accounts, NEW i \in Ids,
         DashboardDelete(a, i) \/ \E s \in Sites : ImportComment(a, i, s)
  PROVE  TenancyInv'
<1> DEFINE Goal == TenancyTypeOK' /\ RequestsOwned' /\ TargetsRead' /\ UNCHANGED plane
<1> SUFFICES Goal BY PlaneStays, Zenon DEF TenancyInv
<1> USE TenancyAssumption
    DEF TenancyTypeOK, RequestsOwned, TargetsRead, Matches, Registration, Operation,
        Request, Token, plane, public, TenancyInv
<1>1. CASE DashboardDelete(a, i) BY <1>1, SMT DEF DashboardDelete
<1>2. ASSUME NEW s \in Sites, ImportComment(a, i, s) PROVE Goal
  BY <1>2, SMT DEF ImportComment, Insert
<1> QED BY <1>1, <1>2

\* Every step preserves the invariant.
LEMMA TenancyStep ==
  ASSUME TenancyInv, [TenancyNext]_tenancyVars
  PROVE  TenancyInv'
<1>1. ASSUME NEW o \in Operations, SiteStep(o) PROVE TenancyInv'
  BY <1>1, PlaneStep, RequestsStayOwned DEF TenancyInv
<1>2. ASSUME NEW r \in Requests, RequestStep(r) PROVE TenancyInv'
  BY <1>2, RequestsChecked
<1>3. CASE UNCHANGED tenancyVars
  <2> USE <1>3 DEF TenancyInv, tenancyVars
  <2>1. PlaneInv'
    BY PlaneStays, Zenon
  <2>2. TenancyTypeOK' /\ RequestsOwned' /\ TargetsRead'
    BY SMT DEF plane, public, TenancyTypeOK, RequestsOwned, TargetsRead, Matches
  <2> QED BY <2>1, <2>2
<1> QED BY <1>1, <1>2, <1>3, DashboardStep, Zenon DEF TenancyNext

\* The inductive invariant of the registrations, the stores and the requests.
LEMMA TenancyHolds == TenancySpec => []TenancyInv
<1>1. TenancyInit => TenancyInv
  BY TenancyStarts
<1>2. TenancyInv /\ [TenancyNext]_tenancyVars => TenancyInv'
  BY TenancyStep
<1> QED BY <1>1, <1>2, PTL DEF TenancySpec

-----------------------------------------------------------------------------

\* The variables keep their types, however creations, deletions and public
\* requests interleave.
THEOREM TenancyTypes == TenancySpec => []TenancyTypeOK
<1>1. TenancyInv => TenancyTypeOK
  BY DEF TenancyInv
<1> QED BY <1>1, TenancyHolds, PTL

\* A public request is served from the store of the site's owner, and changes
\* only comments of the site that its token is for.
THEOREM RequestsStayWithTenant == TenancySpec => []ServedFromOwnTenant
<1>1. TenancyInv => ServedFromOwnTenant
  BY SMT DEF TenancyInv, TenancyTypeOK, Request, Token, RequestsOwned, TargetsRead, Matches,
             ServedFromOwnTenant
<1> QED BY <1>1, TenancyHolds, PTL

\* The claim on a site outlives its row.
THEOREM RowsAreClaimed == TenancySpec => []SitesAreClaimed
<1>1. TenancyInv => SitesAreClaimed
  BY DEF TenancyInv, PlaneInv
<1> QED BY <1>1, TenancyHolds, PTL

\* A registration serves only a site that has its row, except for one that was
\* activated against its deletion.
THEOREM ServedSitesExist == TenancySpec => []ActiveSitesExist
<1>1. TenancyInv => ActiveSitesExist
  BY DEF TenancyInv, PlaneInv
<1> QED BY <1>1, TenancyHolds, PTL
=============================================================================
