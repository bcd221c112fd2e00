-------------------------- MODULE ApprovalLinksProofs --------------------------
(***************************************************************************)
(* Proofs about ApprovalLinks, for any comments, tokens, requests and      *)
(* passes, in both deployments: its types, that a comment has one link and *)
(* a mailed link works, and that it implements ApprovalLink.               *)
(***************************************************************************)
EXTENDS ApprovalLinks, FiniteSetTheorems, TLAPS

-----------------------------------------------------------------------------
(* The inductive invariant *)

\* A link that may still decide.
Usable(t) == decisions[t] = 0 /\ Exists(issued[t].comment) /\ now < issued[t].expires

\* A link works when its row is there, and in the cloud its locator.
Kept(t, todo) == Usable(t) => t \in rows /\ (IsCloud => t \in locators \cup todo)

\* A token is for a comment that was posted, and decides after it was issued.
IssuedSound ==
    \A t \in Tokens :
        \/ issued[t] = NoRow /\ decisions[t] = 0
        \/ issued[t].comment \in Comments /\ comments[issued[t].comment] # "absent"

\* In the cloud the row of a token that decided is gone.
SpentGone == IsCloud => \A t \in rows : decisions[t] = 0

ClickSound(q) ==
    /\ q.pc # "idle" => q.token \in Tokens \ Fresh
    /\ q.pc \in {"begin", "commit", "cleanup"} => IsCloud
    /\ q.pc \in {"comment", "write", "delete"} => ~IsCloud
    /\ q.pc = "cleanup" => decisions[q.token] # 0
    /\ q.pc = "delete" => decisions[q.token] # 0 \/ ~Exists(issued[q.token].comment)

PassSound(p) ==
    /\ p.pc \in {"mint", "locate"} => IsCloud
    /\ p.pc = "create" => ~IsCloud
    /\ p.pc \in {"create", "send"} => p.todo = {}
    /\ p.at <= now
    /\ \A c \in p.batch : comments[c] # "absent"
    /\ p.tokens \subseteq Tokens \ Fresh /\ p.todo \subseteq p.tokens
    /\ \A t \in p.tokens : Kept(t, p.todo)

ClicksSound == \A r \in Clicks : ClickSound(click[r])
PassesSound == \A w \in Workers : PassSound(pass[w])
MailedSound == \A t \in mailed : Kept(t, {})

Inv ==
    /\ TypeOK /\ IssuedSound /\ SpentGone /\ OneLinkPerComment
    /\ ClicksSound /\ PassesSound /\ MailedSound

LEMMA Constants ==
    /\ NoRow \in TokenRow /\ NoRow.comment \notin Comments
    /\ NoClick \in ClickState /\ NoClick.pc = "idle"
    /\ NoPass \in PassState /\ NoPass.pc = "idle" /\ NoPass.batch = {}
    /\ NoPass.at = 0 /\ NoPass.tokens = {} /\ NoPass.todo = {}
  BY ApprovalAssumption
     DEF NoRow, TokenRow, NoClick, ClickState, Decisions, NoPass, PassState

LEMMA InitInv == Init => Inv
  <1> SUFFICES ASSUME Init PROVE Inv
    OBVIOUS
  <1>1. TypeOK
    <2>1. /\ issued \in [Tokens -> TokenRow] /\ click \in [Clicks -> ClickState]
          /\ pass \in [Workers -> PassState]
          /\ decisions \in [Tokens -> 0..2] /\ setBy \in [Comments -> Tokens \cup {NoToken}]
          /\ comments \in [Comments -> Statuses \cup {"absent", "deleted"}]
      BY Constants DEF Init
    <2>2. now \in 0..MaxTime /\ faults \in 0..MaxFaults
      BY ApprovalAssumption DEF Init
    <2> QED
      BY <2>1, <2>2 DEF Init, TypeOK, SiteSteps
  <1>2. IssuedSound /\ SpentGone /\ OneLinkPerComment /\ MailedSound
    BY DEF Init, IssuedSound, SpentGone, OneLinkPerComment, MailedSound
  <1>3. ClicksSound /\ PassesSound
    BY Constants DEF Init, ClicksSound, ClickSound, PassesSound, PassSound
  <1> QED
    BY <1>1, <1>2, <1>3 DEF Inv

-----------------------------------------------------------------------------
(* What every step leaves as it was *)

\* Tokens that were issued stay as they are, comments do not come back, and
\* nothing takes a row or a locator that is still of use.
Frame ==
    /\ now <= now' /\ deployment' = deployment
    /\ \A t \in Tokens \ Fresh : issued'[t] = issued[t]
    /\ \A t \in Tokens : decisions'[t] = 0 => decisions[t] = 0
    /\ \A c \in Comments : comments[c] # "absent" =>
            comments'[c] # "absent" /\ (comments'[c] \in Statuses => comments[c] \in Statuses)
    /\ \A t \in rows : t \in rows' \/ ~Usable(t)'
    /\ \A t \in locators : t \in locators' \/ ~Usable(t)'

LEMMA TypedInv ==
  ASSUME Inv
  PROVE  /\ now \in 0..MaxTime /\ now \in Nat /\ deployment \in Deployments
         /\ comments \in [Comments -> Statuses \cup {"absent", "deleted"}]
         /\ issued \in [Tokens -> TokenRow]
         /\ rows \subseteq Tokens \ Fresh /\ locators \subseteq Tokens \ Fresh
         /\ click \in [Clicks -> ClickState] /\ pass \in [Workers -> PassState]
         /\ decisions \in [Tokens -> 0..2] /\ mailed \subseteq Tokens \ Fresh
         /\ setBy \in [Comments -> Tokens \cup {NoToken}] /\ faults \in 0..MaxFaults
         /\ \A t \in Tokens \ Fresh :
              issued[t].comment \in Comments /\ comments[issued[t].comment] # "absent"
  <1>1. TypeOK /\ now \in Nat
    BY ApprovalAssumption DEF Inv, TypeOK
  <1>2. \A t \in Tokens \ Fresh :
              issued[t].comment \in Comments /\ comments[issued[t].comment] # "absent"
    BY DEF Inv, IssuedSound, Fresh
  <1> QED
    BY <1>1, <1>2 DEF TypeOK

LEMMA UsableBack ==
  ASSUME Inv, Frame, now' \in Nat, NEW t \in Tokens \ Fresh, Usable(t)'
  PROVE  Usable(t)
  <1>1. /\ issued[t].comment \in Comments /\ comments[issued[t].comment] # "absent"
        /\ issued[t] \in TokenRow /\ now \in Nat
    BY TypedInv
  <1>2. issued'[t] = issued[t] /\ decisions[t] = 0 /\ now < issued[t].expires
    <2>1. issued[t].expires \in Int
      BY <1>1, ApprovalAssumption DEF TokenRow
    <2> QED
      BY <1>1, <2>1 DEF Frame, Usable
  <1>3. Exists(issued[t].comment)
    BY <1>1, <1>2 DEF Frame, Usable, Exists
  <1> QED
    BY <1>2, <1>3 DEF Usable

\* What was sound before such a step is so after it.
LEMMA FrameKeeps ==
  ASSUME Inv, Frame, now' \in Nat
  PROVE  /\ \A t \in Tokens \ Fresh : t \notin Fresh'
         /\ \A t \in Tokens \ Fresh : \A todo : Kept(t, todo) => Kept(t, todo)'
         /\ \A q \in ClickState : ClickSound(q) => ClickSound(q)'
         /\ \A q \in PassState : PassSound(q) => PassSound(q)'
         /\ \A t \in mailed : Kept(t, {})'
  <1>1. \A t \in Tokens \ Fresh : t \notin Fresh'
    BY DEF Frame, Fresh
  <1>2. ASSUME NEW t \in Tokens \ Fresh, NEW todo, Kept(t, todo)
        PROVE  Kept(t, todo)'
    <2> SUFFICES ASSUME Usable(t)'
                 PROVE  t \in rows' /\ (IsCloud => t \in locators' \cup todo)
      BY DEF Kept, Frame, IsCloud
    <2>1. Usable(t)
      BY UsableBack
    <2> QED
      BY <1>2, <2>1 DEF Kept, Frame
  <1>3. ASSUME NEW q \in ClickState, ClickSound(q) PROVE ClickSound(q)'
    <2>1. q.pc # "idle" => /\ q.token \in Tokens \ Fresh
                           /\ issued'[q.token] = issued[q.token]
                           /\ issued[q.token].comment \in Comments
                           /\ comments[issued[q.token].comment] # "absent"
      BY <1>3, TypedInv DEF ClickSound, Frame
    <2> QED
      BY <1>1, <1>3, <2>1 DEF ClickSound, Frame, Exists, IsCloud
  <1>4. ASSUME NEW q \in PassState, PassSound(q) PROVE PassSound(q)'
    <2>1. q.at <= now'
      <3>1. q.at \in Nat /\ now \in Nat /\ q.at <= now
        BY <1>4, TypedInv, ApprovalAssumption DEF PassState, PassSound
      <3> QED
        BY <3>1 DEF Frame
    <2>2. \A c \in q.batch : c \in Comments /\ comments'[c] # "absent"
      BY <1>4 DEF PassState, PassSound, Frame
    <2>3. q.tokens \subseteq Tokens \ Fresh' /\ \A t \in q.tokens : Kept(t, q.todo)'
      BY <1>1, <1>2, <1>4 DEF PassSound
    <2> QED
      BY <1>4, <2>1, <2>2, <2>3 DEF PassSound, Frame, IsCloud
  <1>5. \A t \in mailed : Kept(t, {})'
    BY <1>2, TypedInv DEF Inv, MailedSound
  <1> QED
    BY <1>1, <1>2, <1>3, <1>4, <1>5

-----------------------------------------------------------------------------
(* Steps that issue nothing *)

CommentsGoOn ==
    \A c \in Comments : comments[c] # "absent" =>
        comments'[c] # "absent" /\ (comments'[c] \in Statuses => comments[c] \in Statuses)

LEMMA QuietKeeps ==
  ASSUME Inv, TypeOK', issued' = issued, deployment' = deployment, now <= now',
         CommentsGoOn, rows' \subseteq rows,
         \A t \in Tokens : \/ decisions'[t] = decisions[t]
                           \/ t \notin Fresh /\ decisions'[t] # 0 /\ (IsCloud => t \notin rows'),
         \A t \in rows : t \in rows' \/ ~Usable(t)',
         \A t \in locators : t \in locators' \/ ~Usable(t)',
         \A r \in Clicks : click'[r] = click[r] \/ ClickSound(click[r])',
         \A w \in Workers : pass'[w] = pass[w] \/ PassSound(pass[w])',
         \A t \in mailed' : t \in mailed \/ Kept(t, {})'
  PROVE  Inv'
  <1>1. now' \in Nat
    BY ApprovalAssumption DEF TypeOK
  <1>2. Frame
    <2>1. \A t \in Tokens : decisions'[t] = 0 => decisions[t] = 0
      OBVIOUS
    <2> QED
      BY <2>1 DEF Frame, CommentsGoOn
  <1>3. /\ \A q \in ClickState : ClickSound(q) => ClickSound(q)'
        /\ \A q \in PassState : PassSound(q) => PassSound(q)'
        /\ \A t \in mailed : Kept(t, {})'
    BY <1>1, <1>2, FrameKeeps
  <1>4. IssuedSound'
    BY DEF Inv, IssuedSound, CommentsGoOn, Fresh
  <1>5. SpentGone' /\ OneLinkPerComment'
    <2>1. ASSUME IsCloud, NEW t \in rows' PROVE decisions'[t] = 0
      BY <2>1, TypedInv DEF Inv, SpentGone
    <2> QED
      BY <2>1 DEF Inv, SpentGone, OneLinkPerComment, IsCloud
  <1>6. ClicksSound'
    <2> SUFFICES ASSUME NEW r \in Clicks PROVE ClickSound(click[r])'
      BY DEF ClicksSound
    <2>1. click[r] \in ClickState /\ ClickSound(click[r])
      BY TypedInv DEF Inv, ClicksSound
    <2>2. CASE click'[r] = click[r]
      <3> DEFINE q == click[r]
      <3>1. ASSUME NEW p, p = q, p = click'[r], ClickSound(p)' PROVE ClickSound(click[r])'
        BY <3>1 DEF ClickSound
      <3>2. \E p \in ClickState : p = click[r] /\ ClickSound(p)'
        BY <1>3, <2>1
      <3> QED
        BY <2>2, <3>1, <3>2
    <2> QED
      BY <2>2
  <1>7. PassesSound'
    <2> SUFFICES ASSUME NEW w \in Workers PROVE PassSound(pass[w])'
      BY DEF PassesSound
    <2>1. pass[w] \in PassState /\ PassSound(pass[w])
      BY TypedInv DEF Inv, PassesSound
    <2>2. CASE pass'[w] = pass[w]
      <3>1. ASSUME NEW p, p = pass'[w], PassSound(p)' PROVE PassSound(pass[w])'
        BY <3>1 DEF PassSound
      <3>2. \E p \in PassState : p = pass[w] /\ PassSound(p)'
        BY <1>3, <2>1
      <3> QED
        BY <2>2, <3>1, <3>2
    <2> QED
      BY <2>2
  <1>8. MailedSound'
    BY <1>3 DEF MailedSound
  <1> QED
    BY <1>4, <1>5, <1>6, <1>7, <1>8 DEF Inv

\* The same, when clicks, passes and tokens are left alone.
LEMMA OutsideKeeps ==
  ASSUME Inv, TypeOK', UNCHANGED <<deployment, issued, rows, locators, decisions, mailed, click>>,
         now <= now', CommentsGoOn,
         \A w \in Workers : pass'[w] = pass[w] \/ PassSound(pass[w])'
  PROVE  Inv'
  BY QuietKeeps

LEMMA SiteKeeps ==
  ASSUME Inv, \/ CreateSite \/ InsertSite \/ ActivateSite
              \/ DeleteSite \/ EraseSite \/ UnregisterSite
  PROVE  Inv'
  <1>1. /\ UNCHANGED <<now, deployment, comments, issued, rows, locators, decisions, mailed,
                       click, pass, holder, setBy>>
        /\ site' \in BOOLEAN /\ registry' \in {"none", "reserved", "active", "inactive"}
        /\ siteOp' \in SiteSteps /\ faults' \in 0..MaxFaults
    <2>1. /\ site \in BOOLEAN /\ registry \in {"none", "reserved", "active", "inactive"}
          /\ siteOp \in SiteSteps /\ faults \in 0..MaxFaults
      BY DEF Inv, TypeOK
    <2>2. Fault => faults' \in 0..MaxFaults
      BY <2>1, ApprovalAssumption DEF Fault
    <2>3. CASE CreateSite
      BY <2>1, <2>3 DEF CreateSite, history, SiteSteps
    <2>4. CASE InsertSite
      BY <2>1, <2>2, <2>4 DEF InsertSite, control, SiteSteps
    <2>5. CASE ActivateSite
      BY <2>1, <2>2, <2>5 DEF ActivateSite, tenant, SiteSteps
    <2>6. CASE DeleteSite
      BY <2>1, <2>6 DEF DeleteSite, history, SiteSteps
    <2>7. CASE EraseSite
      BY <2>1, <2>2, <2>7 DEF EraseSite, control, SiteSteps
    <2>8. CASE UnregisterSite
      BY <2>1, <2>2, <2>8 DEF UnregisterSite, tenant, SiteSteps
    <2> QED
      BY <2>3, <2>4, <2>5, <2>6, <2>7, <2>8
  <1>2. TypeOK'
    BY <1>1 DEF Inv, TypeOK, Fresh
  <1>3. CommentsGoOn /\ now <= now'
    BY <1>1, TypedInv DEF CommentsGoOn
  <1> QED
    BY <1>1, <1>2, <1>3, OutsideKeeps

LEMMA CommentKeeps ==
  ASSUME Inv, NEW c \in Comments, PostComment(c) \/ UpdateComment(c) \/ DeleteComment(c)
  PROVE  Inv'
  <1>1. PICK s \in Statuses \cup {"deleted"} :
            /\ comments' = [comments EXCEPT ![c] = s] /\ setBy' = [setBy EXCEPT ![c] = NoToken]
            /\ comments[c] = "absent" \/ comments[c] \in Statuses
    BY DEF PostComment, UpdateComment, DeleteComment, SetStatus, Statuses, Exists
  <1>2. UNCHANGED <<now, deployment, issued, rows, locators, site, registry, siteOp, click,
                    pass, holder, decisions, mailed, faults>>
    BY DEF PostComment, UpdateComment, DeleteComment, control, actors
  <1>3. TypeOK'
    BY <1>1, <1>2 DEF Inv, TypeOK, Fresh
  <1>4. CommentsGoOn /\ now <= now'
    BY <1>1, <1>2, TypedInv DEF CommentsGoOn, Statuses
  <1> QED
    BY <1>2, <1>3, <1>4, OutsideKeeps

LEMMA TickKeeps == ASSUME Inv, Tick PROVE Inv'
  <1>1. /\ now' = now + 1 /\ now' \in 0..MaxTime /\ now <= now'
        /\ UNCHANGED <<deployment, comments, issued, rows, locators, site, registry, siteOp,
                       click, pass, holder, setBy, decisions, mailed, faults>>
    BY TypedInv, ApprovalAssumption DEF Tick, tenant, control, actors, history
  <1>2. TypeOK'
    BY <1>1 DEF Inv, TypeOK, Fresh
  <1>3. CommentsGoOn
    BY <1>1 DEF CommentsGoOn
  <1> QED
    BY <1>1, <1>2, <1>3, OutsideKeeps

-----------------------------------------------------------------------------
(* Passes *)

\* A pass goes on, and may leave locators or mail behind.
LEMMA PassGoesOn ==
  ASSUME Inv, NEW w \in Workers, NEW next \in PassState, pass' = [pass EXCEPT ![w] = next],
         PassSound(next)',
         UNCHANGED <<now, deployment, comments, issued, rows, site, registry, siteOp, click,
                     setBy, decisions>>,
         holder' \in Workers \cup {NoWorker}, faults' \in 0..MaxFaults,
         locators \subseteq locators', locators' \subseteq locators \cup pass[w].todo,
         mailed' \subseteq mailed \cup pass[w].tokens,
         mailed' = mailed \/ pass[w].pc = "send"
  PROVE  Inv'
  <1>1. PassSound(pass[w]) /\ pass[w] \in PassState
    BY TypedInv DEF Inv, PassesSound
  <1>2. /\ pass' \in [Workers -> PassState] /\ pass'[w] = next
        /\ \A v \in Workers \ {w} : pass'[v] = pass[v]
    BY TypedInv
  <1>3. TypeOK'
    <2>1. locators' \subseteq Tokens \ Fresh /\ mailed' \subseteq Tokens \ Fresh
      BY <1>1, TypedInv DEF PassSound
    <2> QED
      BY <1>2, <2>1 DEF Inv, TypeOK, Fresh
  <1>4. CommentsGoOn /\ now <= now'
    BY TypedInv DEF CommentsGoOn
  <1>5. \A t \in mailed' : t \in mailed \/ Kept(t, {})'
    BY <1>1 DEF PassSound, Kept, Usable, Exists, IsCloud
  <1>6. PassSound(pass[w])'
    BY <1>2 DEF PassSound
  <1>7. \A v \in Workers : pass'[v] = pass[v] \/ PassSound(pass[v])'
    BY <1>2, <1>6
  <1> QED
    BY <1>3, <1>4, <1>5, <1>7, QuietKeeps

LEMMA NothingIsSound == Inv /\ now' \in Nat => ClickSound(NoClick)' /\ PassSound(NoPass)'
  BY Constants DEF ClickSound, PassSound

LEMMA BeginPassKeeps ==
  ASSUME Inv, NEW w \in Workers, BeginPass(w)
  PROVE  Inv'
  <1>1. PICK B \in SUBSET Pending :
            pass' = [pass EXCEPT ![w] = [NoPass EXCEPT !.pc = IF IsCloud THEN "mint" ELSE "create",
                                                      !.batch = B, !.at = now]]
    BY DEF BeginPass
  <1>2. PICK next \in PassState :
            /\ pass' = [pass EXCEPT ![w] = next]
            /\ next.pc = (IF IsCloud THEN "mint" ELSE "create") /\ next.batch = B
            /\ next.at = now /\ next.tokens = {} /\ next.todo = {}
    <2> DEFINE n == [NoPass EXCEPT !.pc = IF IsCloud THEN "mint" ELSE "create",
                                   !.batch = B, !.at = now]
    <2>1. n \in PassState
      BY Constants, TypedInv DEF PassState, Pending
    <2>2. /\ n.pc = (IF IsCloud THEN "mint" ELSE "create") /\ n.batch = B /\ n.at = now
          /\ n.tokens = {} /\ n.todo = {}
      BY DEF NoPass
    <2>3. pass' = [pass EXCEPT ![w] = n]
      BY <1>1
    <2> HIDE DEF n
    <2> QED
      BY <2>1, <2>2, <2>3
  <1>3. /\ UNCHANGED <<now, deployment, comments, issued, rows, locators, site, registry,
                       siteOp, click, setBy, decisions, mailed, faults>>
        /\ holder' \in Workers \cup {NoWorker}
    BY DEF BeginPass, tenant, control, history
  <1>4. PassSound(next)'
    BY <1>2, <1>3, TypedInv DEF PassSound, Pending, IsCloud
  <1>5. faults' \in 0..MaxFaults
    BY <1>3, TypedInv
  <1> QED
    BY <1>2, <1>3, <1>4, <1>5, PassGoesOn

LEMMA EnsureLocatorKeeps ==
  ASSUME Inv, NEW w \in Workers, EnsureLocator(w)
  PROVE  Inv'
  <1>1. PICK t \in pass[w].todo : locators' = locators \cup {t} /\ pass' = AfterLocator(w, t)
    BY DEF EnsureLocator
  <1>2. /\ PassSound(pass[w]) /\ pass[w] \in PassState /\ pass[w].pc = "locate"
        /\ holder \in Workers \cup {NoWorker} /\ faults \in 0..MaxFaults
        /\ UNCHANGED <<now, deployment, comments, issued, rows, site, registry, siteOp, click,
                       holder, setBy, decisions, mailed, faults>>
    BY TypedInv DEF EnsureLocator, Inv, PassesSound, TypeOK, tenant, history
  <1>3. PICK next \in PassState :
            /\ pass' = [pass EXCEPT ![w] = next] /\ next.todo = pass[w].todo \ {t}
            /\ next.pc = (IF pass[w].todo = {t} THEN "send" ELSE "locate")
            /\ next.batch = pass[w].batch /\ next.at = pass[w].at
            /\ next.tokens = pass[w].tokens
    <2> DEFINE n == [pass[w] EXCEPT !.todo = @ \ {t},
                                    !.pc = IF pass[w].todo = {t} THEN "send" ELSE @]
    <2>1. /\ n \in PassState /\ n.todo = pass[w].todo \ {t}
          /\ n.pc = (IF pass[w].todo = {t} THEN "send" ELSE "locate")
          /\ n.batch = pass[w].batch /\ n.at = pass[w].at /\ n.tokens = pass[w].tokens
      BY <1>2 DEF PassState
    <2>2. pass' = [pass EXCEPT ![w] = n]
      BY <1>1, TypedInv DEF AfterLocator
    <2> HIDE DEF n
    <2> QED
      BY <2>1, <2>2
  <1>4. \A u \in next.tokens : Kept(u, next.todo)'
    BY <1>1, <1>2, <1>3 DEF PassSound, Kept, Usable, Exists, IsCloud
  <1>5. PassSound(next)'
    BY <1>2, <1>3, <1>4 DEF PassSound, Fresh, IsCloud
  <1> QED
    BY <1>1, <1>2, <1>3, <1>5, PassGoesOn

LEMMA PassEnds ==
  ASSUME Inv, NEW w \in Workers, MintRefused(w) \/ Send(w) \/ PassFails(w)
  PROVE  Inv'
  <1>1. /\ UNCHANGED <<now, deployment, comments, issued, rows, site, registry, siteOp, click,
                       holder, setBy, decisions>>
        /\ pass' = [pass EXCEPT ![w] = NoPass]
    BY DEF MintRefused, Send, PassFails, EndPass, tenant, control, history
  <1>2. holder' \in Workers \cup {NoWorker} /\ faults' \in 0..MaxFaults
    <2>1. holder \in Workers \cup {NoWorker} /\ faults \in 0..MaxFaults
      BY DEF Inv, TypeOK
    <2> QED
      BY <1>1, <2>1, ApprovalAssumption DEF MintRefused, Send, PassFails, Fault, history
  <1>3. /\ locators \subseteq locators' /\ locators' \subseteq locators \cup pass[w].todo
        /\ mailed' \subseteq mailed \cup pass[w].tokens
        /\ mailed' = mailed \/ pass[w].pc = "send"
    BY DEF MintRefused, Send, PassFails, control, history
  <1>4. PassSound(NoPass)' /\ NoPass \in PassState
    BY <1>1, TypedInv, NothingIsSound, Constants
  <1> QED
    BY <1>1, <1>2, <1>3, <1>4, PassGoesOn

-----------------------------------------------------------------------------
(* Requests through a link *)

\* A request goes on without a decision, and may take the row or the locator
\* of a link that has decided, or whose comment is gone.
LEMMA ClickGoesOn ==
  ASSUME Inv, NEW r \in Clicks, NEW next \in ClickState, click' = [click EXCEPT ![r] = next],
         ClickSound(next)',
         UNCHANGED <<now, deployment, comments, issued, site, registry, siteOp, pass, holder,
                     setBy, decisions, mailed>>,
         faults' \in 0..MaxFaults,
         rows' \subseteq rows, \A t \in rows \ rows' : ~Usable(t),
         locators' \subseteq locators, \A t \in locators \ locators' : ~Usable(t)
  PROVE  Inv'
  <1>1. /\ click' \in [Clicks -> ClickState] /\ click'[r] = next
        /\ \A q \in Clicks \ {r} : click'[q] = click[q]
    BY TypedInv
  <1>2. TypeOK'
    BY <1>1 DEF Inv, TypeOK, Fresh
  <1>3. CommentsGoOn /\ now <= now'
    BY TypedInv DEF CommentsGoOn
  <1>4. \A t : Usable(t)' => Usable(t)
    BY DEF Usable, Exists
  <1>5. ClickSound(click[r])'
    BY <1>1 DEF ClickSound
  <1>6. \A q \in Clicks : click'[q] = click[q] \/ ClickSound(click[q])'
    BY <1>1, <1>5
  <1> QED
    BY <1>2, <1>3, <1>4, <1>6, QuietKeeps

LEMMA ClickKeeps ==
  ASSUME Inv, NEW r \in Clicks, NEW t \in Tokens, NEW a \in Decisions, Click(r, t, a)
  PROVE  Inv'
  <1>1. /\ t \in Tokens \ Fresh
        /\ UNCHANGED <<now, deployment, comments, issued, rows, locators, site, registry, siteOp,
                       pass, holder, setBy, decisions, mailed, faults>>
    BY TypedInv DEF Click, ClickFrame, tenant, control
  <1>2. PICK next \in ClickState : /\ click' = [click EXCEPT ![r] = next] /\ next.token = t
                                   /\ next.pc = (IF IsCloud THEN "begin" ELSE "comment")
    <2> DEFINE n == [pc |-> IF IsCloud THEN "begin" ELSE "comment", token |-> t, action |-> a]
    <2>1. /\ n \in ClickState /\ n.token = t /\ click' = [click EXCEPT ![r] = n]
          /\ n.pc = (IF IsCloud THEN "begin" ELSE "comment")
      BY DEF ClickState, Click
    <2> HIDE DEF n
    <2> QED
      BY <2>1
  <1>3. ClickSound(next)'
    BY <1>1, <1>2 DEF ClickSound, IsCloud, Fresh
  <1> QED
    BY <1>1, <1>2, <1>3, TypedInv, ClickGoesOn

\* The requests that stop, and the ones that go on to their next statement.
LEMMA ClickEnds ==
  ASSUME Inv, NEW r \in Clicks, EndClick(r),
         UNCHANGED <<now, deployment, comments, issued, site, registry, siteOp, pass, holder,
                     setBy, decisions, mailed>>,
         faults' \in 0..MaxFaults,
         rows' \subseteq rows, \A t \in rows \ rows' : ~Usable(t),
         locators' \subseteq locators, \A t \in locators \ locators' : ~Usable(t)
  PROVE  Inv'
  BY ClickGoesOn, NothingIsSound, Constants, TypedInv DEF EndClick

LEMMA ClickMoves ==
  ASSUME Inv, NEW r \in Clicks, NEW pc \in {"commit", "write", "cleanup", "delete"}, Goto(r, pc)
  PROVE  \E next \in ClickState :
            /\ click' = [click EXCEPT ![r] = next]
            /\ next.pc = pc /\ next.token = click[r].token
  <1> DEFINE next == [click[r] EXCEPT !.pc = pc]
  <1>1. click' = [click EXCEPT ![r] = next]
    BY TypedInv DEF Goto
  <1>2. next \in ClickState /\ next.pc = pc /\ next.token = click[r].token
    BY TypedInv DEF ClickState
  <1> HIDE DEF next
  <1> QED
    BY <1>1, <1>2

LEMMA ReadsKeep ==
  ASSUME Inv, NEW r \in Clicks, ConsumeRead(r) \/ ReadComment(r)
  PROVE  Inv'
  <1>1. UNCHANGED <<now, deployment, comments, issued, rows, locators, site, registry, siteOp,
                    pass, holder, setBy, decisions, mailed, faults>>
    BY DEF ConsumeRead, ReadComment, ClickFrame, tenant, control
  <1>2. CASE EndClick(r)
    BY <1>1, <1>2, TypedInv, ClickEnds
  <1>3. ASSUME NEW pc \in {"commit", "write"}, Goto(r, pc),
               click[r].pc = IF pc = "commit" THEN "begin" ELSE "comment"
        PROVE  Inv'
    <2>1. PICK next \in ClickState : /\ click' = [click EXCEPT ![r] = next]
                                     /\ next.pc = pc /\ next.token = click[r].token
      BY <1>3, ClickMoves
    <2>2. ClickSound(click[r])
      BY DEF Inv, ClicksSound
    <2>3. ClickSound(next)'
      BY <1>1, <1>3, <2>1, <2>2 DEF ClickSound, IsCloud, Fresh
    <2> QED
      BY <1>1, <2>1, <2>3, TypedInv, ClickGoesOn
  <1> QED
    BY <1>2, <1>3 DEF ConsumeRead, ReadComment

LEMMA CleanupsKeep ==
  ASSUME Inv, NEW r \in Clicks, DeleteLocator(r) \/ DeleteToken(r) \/ ClickFails(r)
  PROVE  Inv'
  <1>1. /\ UNCHANGED <<now, deployment, comments, issued, site, registry, siteOp, pass, holder,
                       setBy, decisions, mailed>>
        /\ EndClick(r)
        /\ faults' \in 0..MaxFaults
    <2>1. faults \in 0..MaxFaults
      BY TypedInv
    <2> QED
      BY <2>1, ApprovalAssumption
         DEF DeleteLocator, DeleteToken, ClickFails, ClickFrame, tenant, control, Fault
  <1>2. click[r].pc \in {"cleanup", "delete"} => ~Usable(click[r].token)
    BY DEF Inv, ClicksSound, ClickSound, Usable
  <1>3. /\ rows' \subseteq rows /\ \A t \in rows \ rows' : ~Usable(t)
        /\ locators' \subseteq locators /\ \A t \in locators \ locators' : ~Usable(t)
    BY <1>2 DEF DeleteLocator, DeleteToken, ClickFails, tenant, control
  <1> QED
    BY <1>1, <1>3, ClickEnds

\* A decision takes the status of the comment, and in the cloud the row.
LEMMA DecisionKeeps ==
  ASSUME Inv, NEW r \in Clicks, NEW next \in ClickState, click' = [click EXCEPT ![r] = next],
         next.token = click[r].token, click[r].pc # "idle",
         next.pc = IF IsCloud THEN "cleanup" ELSE "delete",
         Decide(r), Exists(issued[click[r].token].comment),
         UNCHANGED <<now, deployment, issued, locators, site, registry, siteOp, pass, holder,
                     mailed, faults>>,
         rows' = IF IsCloud THEN rows \ {click[r].token} ELSE rows
  PROVE  Inv'
  <1> DEFINE c == issued[click[r].token].comment
  <1>1. /\ click[r] \in ClickState /\ click[r].token \in Tokens \ Fresh
        /\ c \in Comments /\ comments[c] \in Statuses
    BY TypedInv DEF Inv, ClicksSound, ClickSound, Exists
  <1>2. /\ click' \in [Clicks -> ClickState] /\ click'[r] = next
        /\ \A q \in Clicks \ {r} : click'[q] = click[q]
    BY TypedInv
  <1>3. /\ comments' = [comments EXCEPT ![c] = click[r].action]
        /\ setBy' = [setBy EXCEPT ![c] = click[r].token]
        /\ click[r].action \in Statuses
    BY <1>1 DEF Decide, SetStatus, ClickState, Decisions, Statuses
  <1>4. PICK n \in 1..2 : decisions' = [decisions EXCEPT ![click[r].token] = n]
    <2>1. decisions[click[r].token] \in 0..2
      BY <1>1, TypedInv
    <2> DEFINE k == IF decisions[click[r].token] < 2 THEN decisions[click[r].token] + 1
                                                     ELSE decisions[click[r].token]
    <2>2. k \in 1..2
      BY <2>1
    <2>3. decisions' = [decisions EXCEPT ![click[r].token] = k]
      BY DEF Decide
    <2> HIDE DEF k
    <2> QED
      BY <2>2, <2>3
  <1>5. /\ decisions' \in [Tokens -> 0..2] /\ decisions'[click[r].token] # 0
        /\ \A t \in Tokens \ {click[r].token} : decisions'[t] = decisions[t]
    <2>1. n \in 0..2 /\ n # 0
      OBVIOUS
    <2> QED
      BY <1>1, <1>4, <2>1, TypedInv
  <1>6. TypeOK'
    BY <1>1, <1>2, <1>3, <1>5 DEF Inv, TypeOK, Fresh
  <1>7. CommentsGoOn /\ now <= now'
    BY <1>1, <1>3, TypedInv DEF CommentsGoOn, Statuses
  <1>8. ClickSound(next)'
    BY <1>1, <1>5 DEF ClickSound, IsCloud, Fresh
  <1>9. ClickSound(click[r])'
    BY <1>2, <1>8 DEF ClickSound
  <1>10. \A q \in Clicks : click'[q] = click[q] \/ ClickSound(click[q])'
    BY <1>2, <1>9
  <1>11. \A t \in Tokens : \/ decisions'[t] = decisions[t]
                           \/ /\ t \notin Fresh /\ decisions'[t] # 0
                              /\ IsCloud => t \notin rows'
    BY <1>1, <1>5
  <1>12. \A t \in rows : t \in rows' \/ ~Usable(t)'
    BY <1>5 DEF Usable
  <1> QED
    BY <1>6, <1>7, <1>10, <1>11, <1>12, QuietKeeps

LEMMA ConsumeWriteKeeps ==
  ASSUME Inv, NEW r \in Clicks, ConsumeWrite(r)
  PROVE  Inv'
  <1>1. /\ UNCHANGED <<now, deployment, issued, locators, site, registry, siteOp, pass, holder,
                       mailed, faults>>
        /\ click[r].pc = "commit" /\ IsCloud
    BY DEF ConsumeWrite, ClickFrame, control, Inv, ClicksSound, ClickSound
  <1>2. CASE click[r].token \in rows /\ Exists(issued[click[r].token].comment)
    <2>1. Decide(r) /\ rows' = rows \ {click[r].token} /\ Goto(r, "cleanup")
      BY <1>2 DEF ConsumeWrite
    <2>2. PICK next \in ClickState : /\ click' = [click EXCEPT ![r] = next]
                                     /\ next.pc = "cleanup" /\ next.token = click[r].token
      BY <2>1, ClickMoves
    <2> QED
      BY <1>1, <1>2, <2>1, <2>2, DecisionKeeps
  <1>3. CASE ~(click[r].token \in rows /\ Exists(issued[click[r].token].comment))
    BY <1>1, <1>3, TypedInv, ClickEnds DEF ConsumeWrite
  <1> QED
    BY <1>2, <1>3

LEMMA WriteCommentKeeps ==
  ASSUME Inv, NEW r \in Clicks, WriteComment(r)
  PROVE  Inv'
  <1>1. /\ UNCHANGED <<now, deployment, issued, rows, locators, site, registry, siteOp, pass,
                       holder, mailed, faults>>
        /\ click[r].pc = "write" /\ ~IsCloud /\ click[r].token \in Tokens \ Fresh
    BY DEF WriteComment, ClickFrame, control, Inv, ClicksSound, ClickSound
  <1>2. PICK next \in ClickState : /\ click' = [click EXCEPT ![r] = next]
                                   /\ next.pc = "delete" /\ next.token = click[r].token
    BY ClickMoves DEF WriteComment
  <1>3. CASE Exists(issued[click[r].token].comment)
    BY <1>1, <1>2, <1>3, DecisionKeeps DEF WriteComment
  <1>4. CASE ~Exists(issued[click[r].token].comment)
    <2>1. UNCHANGED <<comments, setBy, decisions>>
      BY <1>4 DEF WriteComment
    <2>2. ClickSound(next)'
      BY <1>1, <1>2, <1>4, <2>1 DEF ClickSound, IsCloud, Fresh, Exists
    <2> QED
      BY <1>1, <1>2, <2>1, <2>2, TypedInv, ClickGoesOn
  <1> QED
    BY <1>3, <1>4

LEMMA RestartKeeps == ASSUME Inv, Restart PROVE Inv'
  <1>1. /\ UNCHANGED <<now, deployment, comments, issued, rows, locators, site, registry,
                       holder, setBy, decisions, mailed>>
        /\ click' = [r \in Clicks |-> NoClick] /\ pass' = [w \in Workers |-> NoPass]
        /\ siteOp' \in SiteSteps /\ faults' \in 0..MaxFaults
    BY TypedInv, ApprovalAssumption DEF Restart, tenant, control, Fault, SiteSteps
  <1>2. TypeOK'
    BY <1>1, Constants DEF Inv, TypeOK, Fresh
  <1>3. ClickSound(NoClick)' /\ PassSound(NoPass)' /\ now <= now' /\ CommentsGoOn
    BY <1>1, NothingIsSound, TypedInv DEF CommentsGoOn
  <1>4. /\ \A r \in Clicks : click'[r] = click[r] \/ ClickSound(click[r])'
        /\ \A w \in Workers : pass'[w] = pass[w] \/ PassSound(pass[w])'
    BY <1>1, <1>3 DEF ClickSound, PassSound
  <1> QED
    BY <1>1, <1>2, <1>3, <1>4, QuietKeeps

-----------------------------------------------------------------------------
(* Minting *)

\* Tokens are issued for comments of the batch; rows that are taken are of no
\* more use.
LEMMA IssueKeeps ==
  ASSUME Inv, TypeOK', NEW w \in Workers, NEW next, pass' = [pass EXCEPT ![w] = next],
         PassSound(next)',
         UNCHANGED <<now, deployment, comments, locators, click, decisions, mailed>>,
         \A t \in Tokens : \/ issued'[t] = issued[t]
                           \/ /\ t \in Fresh
                              /\ issued'[t].comment \in Comments
                              /\ comments[issued'[t].comment] # "absent",
         \A t \in rows : t \in rows' \/ ~Usable(t)',
         \A t \in rows' : t \in rows \/ t \in Fresh,
         OneLinkPerComment'
  PROVE  Inv'
  <1>1. Frame
    BY TypedInv DEF Frame, Fresh
  <1>2. now' \in Nat
    BY TypedInv
  <1>3. /\ \A q \in ClickState : ClickSound(q) => ClickSound(q)'
        /\ \A q \in PassState : PassSound(q) => PassSound(q)'
        /\ \A t \in mailed : Kept(t, {})'
    BY <1>1, <1>2, FrameKeeps
  <1>4. IssuedSound'
    BY DEF Inv, IssuedSound
  <1>5. SpentGone'
    <2>1. \A t \in Fresh : decisions[t] = 0
      BY Constants DEF Inv, IssuedSound, Fresh
    <2> QED
      BY <2>1 DEF Inv, SpentGone, IsCloud
  <1>6. ClicksSound'
    <2> SUFFICES ASSUME NEW r \in Clicks PROVE ClickSound(click[r])'
      BY DEF ClicksSound
    <2>1. \E q \in ClickState : q = click[r] /\ ClickSound(q)'
      BY <1>3, TypedInv DEF Inv, ClicksSound
    <2>2. ASSUME NEW q, q = click'[r], ClickSound(q)' PROVE ClickSound(click[r])'
      BY <2>2 DEF ClickSound
    <2> QED
      BY <2>1, <2>2
  <1>7. PassesSound'
    <2> SUFFICES ASSUME NEW v \in Workers PROVE PassSound(pass[v])'
      BY DEF PassesSound
    <2>1. ASSUME NEW q, q = pass'[v], PassSound(q)' PROVE PassSound(pass[v])'
      BY <2>1 DEF PassSound
    <2>2. CASE v = w
      BY <2>1, <2>2, TypedInv
    <2>3. CASE v # w
      <3>1. \E q \in PassState : q = pass[v] /\ PassSound(q)'
        BY <1>3, TypedInv DEF Inv, PassesSound
      <3> QED
        BY <2>1, <2>3, <3>1, TypedInv
    <2> QED
      BY <2>2, <2>3
  <1>8. MailedSound'
    BY <1>3 DEF MailedSound
  <1> QED
    BY <1>4, <1>5, <1>6, <1>7, <1>8 DEF Inv

LEMMA ANewRow ==
  ASSUME Inv, NEW c \in Comments, NEW at \in 0..MaxTime
  PROVE  [comment |-> c, expires |-> at + TokenTTL] \in TokenRow
  BY ApprovalAssumption DEF TokenRow

LEMMA MintKeeps ==
  ASSUME Inv, NEW w \in Workers, Mint(w)
  PROVE  Inv'
  <1> DEFINE fresh(f) == {f[c] : c \in Unserved(w)}
             kept == {t \in rows : /\ issued[t].comment \in pass[w].batch
                                   /\ issued[t].comment \notin Unserved(w)}
  <1>1. PICK f \in [Unserved(w) -> Fresh] :
           /\ \A c, d \in Unserved(w) : f[c] = f[d] => c = d
           /\ issued' = [t \in Tokens |->
                  IF t \in fresh(f)
                  THEN [comment |-> CHOOSE c \in Unserved(w) : f[c] = t,
                        expires |-> pass[w].at + TokenTTL]
                  ELSE issued[t]]
           /\ rows' = (rows \ Outdated(w)) \cup fresh(f)
           /\ pass' = [pass EXCEPT ![w].pc = "locate", ![w].tokens = kept \cup fresh(f),
                                   ![w].todo = kept \cup fresh(f)]
    BY DEF Mint
  <1>2. PICK new : new = fresh(f)
    OBVIOUS
  <1>3. /\ PassSound(pass[w]) /\ pass[w] \in PassState /\ pass[w].pc = "mint"
        /\ UNCHANGED <<now, deployment, comments, site, locators, registry, siteOp, click,
                       holder, setBy, decisions, mailed, faults>>
    BY TypedInv DEF Mint, Inv, PassesSound, control, history
  <1>4. /\ Unserved(w) \subseteq pass[w].batch /\ pass[w].batch \subseteq Comments
        /\ pass[w].at \in 0..MaxTime /\ pass[w].at \in Nat
        /\ \A c \in Unserved(w) : c \in Comments /\ comments[c] # "absent"
    BY <1>3, ApprovalAssumption DEF Unserved, PassState, PassSound
  <1>5. new \subseteq Fresh /\ Fresh \subseteq Tokens
    BY <1>1, <1>2 DEF Fresh
  <1>6. \A t \in new : /\ issued'[t].comment \in Unserved(w) /\ f[issued'[t].comment] = t
                       /\ issued'[t] \in TokenRow
    <2> SUFFICES ASSUME NEW t \in new
                 PROVE  /\ issued'[t].comment \in Unserved(w) /\ f[issued'[t].comment] = t
                        /\ issued'[t] \in TokenRow
      OBVIOUS
    <2>1. PICK d : d = CHOOSE c \in Unserved(w) : f[c] = t
      OBVIOUS
    <2>2. d \in Unserved(w) /\ f[d] = t
      BY <1>2, <2>1
    <2>3. issued'[t] = [comment |-> d, expires |-> pass[w].at + TokenTTL]
      BY <1>1, <1>2, <1>5, <2>1
    <2> QED
      BY <1>4, <2>2, <2>3, ANewRow
  <1>7. \A t \in Tokens \ new : issued'[t] = issued[t]
    BY <1>1, <1>2
  <1>8. rows' = (rows \ Outdated(w)) \cup new /\ Outdated(w) \subseteq rows
    BY <1>1, <1>2 DEF Outdated
  <1>9. \A t \in Outdated(w) : ~Usable(t)'
    <2> SUFFICES ASSUME NEW t \in Outdated(w) PROVE ~Usable(t)'
      OBVIOUS
    <2>1. t \in rows /\ t \in Tokens \ Fresh /\ issued'[t] = issued[t] /\ issued[t] \in TokenRow
      BY <1>5, <1>7, TypedInv DEF Outdated
    <2>2. ~(issued[t].expires > pass[w].at)
      BY <2>1 DEF Outdated, Unserved, RowsOf, Live
    <2>3. issued[t].expires \in Int /\ pass[w].at <= now /\ now \in Nat
      BY <1>3, <2>1, TypedInv, ApprovalAssumption DEF PassSound, TokenRow
    <2> QED
      BY <1>3, <1>4, <2>1, <2>2, <2>3 DEF Usable
  <1>10. PICK next \in PassState :
            /\ pass' = [pass EXCEPT ![w] = next] /\ next.pc = "locate"
            /\ next.tokens = kept \cup new /\ next.todo = kept \cup new
            /\ next.batch = pass[w].batch /\ next.at = pass[w].at
    <2> DEFINE n == [pass[w] EXCEPT !.pc = "locate", !.tokens = kept \cup new,
                                    !.todo = kept \cup new]
    <2>1. kept \cup new \subseteq Tokens
      BY <1>5, TypedInv
    <2> HIDE DEF kept
    <2>2. /\ n \in PassState /\ n.pc = "locate"
          /\ n.tokens = kept \cup new /\ n.todo = kept \cup new
          /\ n.batch = pass[w].batch /\ n.at = pass[w].at
      BY <1>3, <2>1 DEF PassState
    <2>3. pass' = [pass EXCEPT ![w] = n]
      <3>1. pass[w] \in PassState /\ pass \in [Workers -> PassState]
        BY <1>3, TypedInv
      <3> QED
        BY <1>1, <1>2, <3>1 DEF PassState
    <2> HIDE DEF n
    <2> QED
      BY <2>2, <2>3
  <1>11. /\ kept \cup new \subseteq rows' /\ kept \subseteq Tokens \ Fresh
    BY <1>8, TypedInv DEF Outdated
  <1>12. \A t \in (Tokens \ Fresh) \cup new : t \in Tokens \ Fresh'
    <2>1. \A t \in new : issued'[t].comment \in Comments
      BY <1>4, <1>6
    <2> QED
      BY <1>5, <1>7, <2>1, Constants DEF Fresh
  <1>13. PassSound(next)'
    <2>1. next.tokens \subseteq Tokens \ Fresh'
      BY <1>10, <1>11, <1>12
    <2>2. \A t \in next.tokens : Kept(t, next.todo)'
      BY <1>10, <1>11 DEF Kept
    <2>3. /\ IsCloud' = IsCloud /\ IsCloud /\ next.at <= now'
          /\ \A c \in next.batch : comments'[c] # "absent"
      BY <1>3, <1>10 DEF PassSound, IsCloud
    <2>4. /\ next.pc \notin {"create", "send"}
          /\ next.todo \subseteq next.tokens
      BY <1>10
    <2> QED
      BY <2>1, <2>2, <2>3, <2>4 DEF PassSound
  <1>14. TypeOK'
    <2>1. issued' \in [Tokens -> TokenRow]
      <3>1. ASSUME NEW t \in Tokens PROVE issued'[t] \in TokenRow
        BY <1>6, <1>7, TypedInv
      <3>2. issued' = [t \in Tokens |-> issued'[t]]
        BY <1>1
      <3> QED
        BY <3>1, <3>2
    <2>2. rows' \subseteq Tokens \ Fresh'
      BY <1>8, <1>12, TypedInv
    <2>3. locators \subseteq Tokens \ Fresh' /\ mailed \subseteq Tokens \ Fresh'
      BY <1>12, TypedInv
    <2>4. pass' \in [Workers -> PassState]
      BY <1>10, TypedInv
    <2> QED
      BY <1>3, <2>1, <2>2, <2>3, <2>4 DEF Inv, TypeOK
  <1>15. OneLinkPerComment'
    <2> SUFFICES ASSUME IsCloud, NEW t \in rows', NEW u \in rows',
                        issued'[t].comment = issued'[u].comment
                 PROVE  t = u
      BY <1>3 DEF OneLinkPerComment, IsCloud
    <2>1. CASE t \in new /\ u \in new
      BY <1>6, <2>1
    <2>2. ASSUME NEW v \in rows', v \notin new
          PROVE  v \in rows /\ issued'[v] = issued[v] /\ issued'[v].comment \notin Unserved(w)
      BY <1>7, <1>8, <2>2, TypedInv DEF Outdated
    <2>3. CASE t \notin new /\ u \notin new
      BY <2>2, <2>3 DEF Inv, OneLinkPerComment
    <2> QED
      BY <1>6, <2>1, <2>2, <2>3
  <1>16. \A t \in Tokens : \/ issued'[t] = issued[t]
                           \/ /\ t \in Fresh
                              /\ issued'[t].comment \in Comments
                              /\ comments[issued'[t].comment] # "absent"
    BY <1>4, <1>5, <1>6, <1>7
  <1>17. /\ \A t \in rows : t \in rows' \/ ~Usable(t)'
         /\ \A t \in rows' : t \in rows \/ t \in Fresh
    BY <1>5, <1>8, <1>9
  <1> QED
    BY <1>3, <1>10, <1>13, <1>14, <1>15, <1>16, <1>17, IssueKeeps

LEMMA CreateTokenKeeps ==
  ASSUME Inv, NEW w \in Workers, CreateToken(w)
  PROVE  Inv'
  <1>1. PICK t \in Fresh, c \in pass[w].batch :
           /\ issued' = [issued EXCEPT ![t] = [comment |-> c, expires |-> now + TokenTTL]]
           /\ rows' = rows \cup {t}
           /\ pass' = [pass EXCEPT ![w].tokens = @ \cup {t},
                          ![w].pc = IF Cardinality(pass[w].tokens) + 1
                                          = Cardinality(pass[w].batch) THEN "send" ELSE @]
    BY DEF CreateToken
  <1>2. /\ PassSound(pass[w]) /\ pass[w] \in PassState /\ pass[w].pc = "create"
        /\ UNCHANGED <<now, deployment, comments, site, locators, registry, siteOp, click,
                       holder, setBy, decisions, mailed, faults>>
    BY TypedInv DEF CreateToken, Inv, PassesSound, control, history
  <1>3. /\ c \in Comments /\ comments[c] # "absent" /\ t \in Tokens /\ ~IsCloud
        /\ pass[w].todo = {}
    BY <1>2 DEF PassState, PassSound, Fresh
  <1>4. PICK next \in PassState :
            /\ pass' = [pass EXCEPT ![w] = next] /\ next.tokens = pass[w].tokens \cup {t}
            /\ next.pc \in {"create", "send"} /\ next.todo = {}
            /\ next.batch = pass[w].batch /\ next.at = pass[w].at
    <2> DEFINE n == [pass[w] EXCEPT
                        !.tokens = @ \cup {t},
                        !.pc = IF Cardinality(pass[w].tokens) + 1 = Cardinality(pass[w].batch)
                               THEN "send" ELSE @]
    <2>1. /\ n \in PassState /\ n.tokens = pass[w].tokens \cup {t}
          /\ n.pc \in {"create", "send"} /\ n.todo = {}
          /\ n.batch = pass[w].batch /\ n.at = pass[w].at
      BY <1>2, <1>3 DEF PassState
    <2>2. pass' = [pass EXCEPT ![w] = n]
      BY <1>1, TypedInv
    <2> HIDE DEF n
    <2> QED
      BY <2>1, <2>2
  <1>5. /\ issued' \in [Tokens -> TokenRow] /\ issued'[t].comment = c
        /\ \A u \in Tokens \ {t} : issued'[u] = issued[u]
    <2>1. [comment |-> c, expires |-> now + TokenTTL] \in TokenRow
      BY <1>3, TypedInv, ANewRow
    <2> QED
      BY <1>1, <1>3, <2>1, TypedInv
  <1>6. \A u \in (Tokens \ Fresh) \cup {t} : u \in Tokens \ Fresh'
    BY <1>3, <1>5, Constants DEF Fresh
  <1>7. PassSound(next)'
    <2>1. next.tokens \subseteq Tokens \ Fresh'
      BY <1>2, <1>4, <1>6 DEF PassSound
    <2>2. \A u \in next.tokens : Kept(u, next.todo)'
      <3>1. Kept(t, next.todo)'
        BY <1>1, <1>2, <1>3 DEF Kept, IsCloud
      <3>2. ASSUME NEW u \in pass[w].tokens PROVE Kept(u, next.todo)'
        <4>1. Kept(u, pass[w].todo) /\ u \in Tokens \ Fresh /\ issued'[u] = issued[u]
          BY <1>1, <1>2, <1>5 DEF PassSound
        <4> QED
          BY <1>1, <1>2, <1>3, <1>4, <4>1 DEF Kept, Usable, Exists, IsCloud
      <3> QED
        BY <1>4, <3>1, <3>2
    <2> QED
      BY <1>2, <1>3, <1>4, <2>1, <2>2 DEF PassSound, IsCloud
  <1>8. TypeOK'
    <2>1. /\ rows' \subseteq Tokens \ Fresh' /\ locators \subseteq Tokens \ Fresh'
          /\ mailed \subseteq Tokens \ Fresh'
      BY <1>1, <1>6, TypedInv
    <2>2. pass' \in [Workers -> PassState]
      BY <1>4, TypedInv
    <2> QED
      BY <1>2, <1>5, <2>1, <2>2 DEF Inv, TypeOK
  <1>9. OneLinkPerComment'
    BY <1>2, <1>3 DEF OneLinkPerComment, IsCloud
  <1>10. /\ \A u \in Tokens : \/ issued'[u] = issued[u]
                             \/ /\ u \in Fresh
                                /\ issued'[u].comment \in Comments
                                /\ comments[issued'[u].comment] # "absent"
         /\ \A u \in rows : u \in rows' \/ ~Usable(u)'
         /\ \A u \in rows' : u \in rows \/ u \in Fresh
    BY <1>1, <1>3, <1>5
  <1> QED
    BY <1>2, <1>4, <1>7, <1>8, <1>9, <1>10, IssueKeeps

-----------------------------------------------------------------------------
(* The invariant *)

LEMMA StutterKeeps == Inv /\ UNCHANGED vars => Inv'
  BY DEF vars, tenant, control, actors, history, Inv, TypeOK, IssuedSound, SpentGone,
         OneLinkPerComment, ClicksSound, ClickSound, PassesSound, PassSound, MailedSound,
         Kept, Usable, Exists, Fresh, IsCloud

LEMMA NextInv == Inv /\ [Next]_vars => Inv'
  BY SiteKeeps, CommentKeeps, BeginPassKeeps, MintKeeps, EnsureLocatorKeeps, CreateTokenKeeps,
     PassEnds, ClickKeeps, ReadsKeep, ConsumeWriteKeeps, WriteCommentKeeps, CleanupsKeep,
     RestartKeeps, TickKeeps, StutterKeeps DEF Next

LEMMA InvHolds == Spec => []Inv
  BY InitInv, NextInv, PTL DEF Spec

\* Every variable of the approval links stays in its type.
THEOREM LinksAreTyped == Spec => []TypeOK
  <1>1. Inv => TypeOK
    BY DEF Inv
  <1> QED
    BY InvHolds, <1>1, PTL

\* A comment of a cloud account never has two links, whatever passes overlap,
\* lose their claim or fail.
THEOREM LinksAreUnique == Spec => []OneLinkPerComment
  <1>1. Inv => OneLinkPerComment
    BY DEF Inv
  <1> QED
    BY InvHolds, <1>1, PTL

\* A mailed link shows its page until it expires, decides or loses its comment.
THEOREM MailedLinksKeepWorking == Spec => []MailedLinksWork
  <1>1. ASSUME Inv PROVE MailedLinksWork
    <2> SUFFICES ASSUME NEW t \in mailed, Usable(t)
                 PROVE  IF IsCloud THEN SiteServes => CloudPage(t) ELSE SelfHostedPage(t)
      BY DEF MailedLinksWork, Usable
    <2>1. t \in rows /\ (IsCloud => t \in locators) /\ Exists(issued[t].comment)
          /\ now < issued[t].expires
      BY <1>1 DEF Inv, MailedSound, Kept, Usable
    <2>2. issued[t].expires \in Int /\ now \in Int
      BY <1>1, TypedInv, ApprovalAssumption DEF TokenRow
    <2> QED
      BY <2>1, <2>2 DEF CloudPage, Resolved, Live, SelfHostedPage
  <1> QED
    BY InvHolds, <1>1, PTL

-----------------------------------------------------------------------------
(* Approval links implement ApprovalLink *)

\* The token a request may still decide with.
AskedOf(q) == IF q.pc \in {"begin", "commit", "comment", "write"} THEN q.token ELSE NoToken

LEMMA LinkInit == Init => Link!Init
  <1> SUFFICES ASSUME Init PROVE Link!Init
    OBVIOUS
  <1>1. Asked = [r \in Clicks |-> NoToken]
    BY Constants DEF Init, Asked
  <1>2. IsCloud \in BOOLEAN
    BY DEF IsCloud
  <1> QED
    BY <1>1, <1>2 DEF Init, Link!Init, NoRow

LEMMA LinkQuiet ==
  ASSUME UNCHANGED <<now, deployment, comments, setBy, issued, click, decisions>>
  PROVE  UNCHANGED Link!vars
  BY DEF Link!vars, Asked, IsCloud

\* A step of one request changes what is asked for that request.
LEMMA AskedMoves ==
  ASSUME Inv, NEW r \in Clicks, NEW next, click' = [click EXCEPT ![r] = next]
  PROVE  /\ Asked' = [Asked EXCEPT ![r] = AskedOf(next)]
         /\ Asked \in [Clicks -> Tokens \cup {NoToken}]
         /\ \A q \in Clicks : Asked[q] = AskedOf(click[q])
  <1>1. Asked \in [Clicks -> Tokens \cup {NoToken}]
    BY TypedInv DEF Asked, ClickState
  <1>2. Asked' = [Asked EXCEPT ![r] = AskedOf(next)]
    <2>1. click'[r] = next /\ \A q \in Clicks \ {r} : click'[q] = click[q]
      BY TypedInv
    <2>2. Asked' = [q \in Clicks |-> AskedOf(click'[q])]
      BY DEF Asked, AskedOf
    <2>3. Asked = [q \in Clicks |-> AskedOf(click[q])]
      BY DEF Asked, AskedOf
    <2> QED
      BY <2>1, <2>2, <2>3
  <1>3. \A q \in Clicks : Asked[q] = AskedOf(click[q])
    BY DEF Asked, AskedOf
  <1> QED
    BY <1>1, <1>2, <1>3

\* A request that ends or goes on without deciding.
LEMMA LinkDrop ==
  ASSUME Inv, NEW r \in Clicks, NEW next, click' = [click EXCEPT ![r] = next],
         AskedOf(next) \in {AskedOf(click[r]), NoToken},
         UNCHANGED <<now, deployment, comments, setBy, issued, decisions>>
  PROVE  Link!Drop
  <1>1. /\ Asked' = [Asked EXCEPT ![r] = AskedOf(next)]
        /\ Asked \in [Clicks -> Tokens \cup {NoToken}] /\ Asked[r] = AskedOf(click[r])
    BY AskedMoves
  <1>2. \A q \in Clicks : Asked'[q] \in {Asked[q], NoToken}
    BY <1>1
  <1> QED
    BY <1>2 DEF Link!Drop, IsCloud

LEMMA LinkAsk ==
  ASSUME Inv, NEW r \in Clicks, NEW t \in Tokens, NEW a \in Decisions, Click(r, t, a)
  PROVE  Link!Ask(r, t)
  <1>1. PICK next : /\ click' = [click EXCEPT ![r] = next] /\ next.token = t
                    /\ next.pc \in {"begin", "comment"}
    <2> DEFINE n == [pc |-> IF IsCloud THEN "begin" ELSE "comment", token |-> t, action |-> a]
    <2>1. /\ click' = [click EXCEPT ![r] = n] /\ n.token = t
          /\ n.pc \in {"begin", "comment"}
      BY DEF Click
    <2> HIDE DEF n
    <2> QED
      BY <2>1
  <1>2. Asked' = [Asked EXCEPT ![r] = t] /\ Asked[r] = NoToken
    BY <1>1, AskedMoves DEF AskedOf, Click
  <1>3. t \in Tokens \ Fresh /\ issued[t].comment # NoComment /\ issued[t] \in TokenRow
    BY TypedInv, ApprovalAssumption DEF Click
  <1>4. now <= issued[t].expires
    <2>1. issued[t].expires \in Int /\ now \in Int
      BY <1>3, TypedInv, ApprovalAssumption DEF TokenRow
    <2> QED
      BY <2>1 DEF Click, Resolved
  <1>5. UNCHANGED <<now, deployment, comments, setBy, issued, decisions>>
    BY DEF Click, ClickFrame, tenant
  <1> QED
    BY <1>2, <1>3, <1>4, <1>5 DEF Link!Ask, IsCloud

LEMMA LinkDecide ==
  ASSUME Inv, NEW r \in Clicks, Decide(r), Exists(issued[click[r].token].comment),
         click[r].pc \in {"commit", "write"}, IsCloud => click[r].token \in rows,
         NEW pc \in {"cleanup", "delete"}, Goto(r, pc),
         UNCHANGED <<now, deployment, issued>>
  PROVE  \E s \in Link!Decisions : Link!Decide(r, s)
  <1>1. PICK next \in ClickState : click' = [click EXCEPT ![r] = next] /\ next.pc = pc
    BY ClickMoves
  <1>2. Asked' = [Asked EXCEPT ![r] = NoToken] /\ Asked[r] = click[r].token
    BY <1>1, AskedMoves DEF AskedOf
  <1>3. click[r].token \in Tokens /\ click[r].action \in Link!Decisions
    BY TypedInv DEF Inv, ClicksSound, ClickSound, ClickState, Decisions, Link!Decisions
  <1>4. IsCloud => decisions[click[r].token] = 0
    BY DEF Inv, SpentGone
  <1>5. Link!Present(issued[click[r].token].comment)
    BY DEF Link!Present, Exists, Statuses
  <1> QED
    BY <1>2, <1>3, <1>4, <1>5 DEF Link!Decide, Decide, SetStatus, IsCloud

LEMMA LinkModerate ==
  ASSUME NEW c \in Comments, PostComment(c) \/ UpdateComment(c) \/ DeleteComment(c)
  PROVE  Link!Moderate(c)
  <1>1. /\ UNCHANGED <<now, deployment, issued, click, decisions>>
        /\ \E s \in Link!Decisions \cup {"pending", "deleted"} : SetStatus(c, s, NoToken)
    BY DEF PostComment, UpdateComment, DeleteComment, control, actors, Statuses, Link!Decisions
  <1>2. Asked' = Asked
    BY <1>1 DEF Asked
  <1> QED
    BY <1>1, <1>2 DEF Link!Moderate, SetStatus, IsCloud

LEMMA LinkIssue ==
  ASSUME Inv, NEW w \in Workers, Mint(w) \/ CreateToken(w)
  PROVE  Link!Issue
  <1>1. UNCHANGED <<now, deployment, comments, setBy, click, decisions>>
    BY DEF Mint, CreateToken, control, history
  <1>2. Asked' = Asked
    BY <1>1 DEF Asked
  <1>3. \A t \in Tokens : issued[t].comment # NoComment => issued'[t] = issued[t]
    <2>1. \A t \in Fresh : issued[t].comment = NoComment
      BY DEF Fresh, NoRow
    <2>2. CASE Mint(w)
      <3>1. PICK f \in [Unserved(w) -> Fresh] :
                issued' = [t \in Tokens |->
                    IF t \in {f[c] : c \in Unserved(w)}
                    THEN [comment |-> CHOOSE c \in Unserved(w) : f[c] = t,
                          expires |-> pass[w].at + TokenTTL]
                    ELSE issued[t]]
        BY <2>2 DEF Mint
      <3>2. \A t \in Tokens \ Fresh : t \notin {f[c] : c \in Unserved(w)}
        OBVIOUS
      <3> QED
        BY <2>1, <3>1, <3>2
    <2>3. CASE CreateToken(w)
      BY <2>1, <2>3, TypedInv DEF CreateToken
    <2> QED
      BY <2>2, <2>3
  <1> QED
    BY <1>1, <1>2, <1>3 DEF Link!Issue, IsCloud

LEMMA LinkRequests ==
  ASSUME Inv, NEW r \in Clicks,
         \/ ConsumeRead(r) \/ ConsumeWrite(r) \/ DeleteLocator(r)
         \/ ReadComment(r) \/ WriteComment(r) \/ DeleteToken(r) \/ ClickFails(r)
  PROVE  Link!Next
  <1>1. UNCHANGED <<now, deployment, issued>>
    BY DEF ConsumeRead, ConsumeWrite, DeleteLocator, ReadComment, WriteComment, DeleteToken,
           ClickFails, ClickFrame, tenant
  <1>2. CASE EndClick(r) /\ UNCHANGED <<comments, setBy, decisions>>
    <2>1. AskedOf(NoClick) = NoToken
      BY Constants DEF AskedOf
    <2> QED
      BY <1>1, <1>2, <2>1, LinkDrop DEF EndClick, Link!Next
  <1>3. ASSUME NEW pc \in {"commit", "write", "delete"}, Goto(r, pc),
               pc # "delete" => click[r].pc \in {"begin", "comment"},
               UNCHANGED <<comments, setBy, decisions>>
        PROVE  Link!Next
    <2>1. PICK next \in ClickState : /\ click' = [click EXCEPT ![r] = next]
                                     /\ next.pc = pc /\ next.token = click[r].token
      BY <1>3, ClickMoves
    <2>2. AskedOf(next) \in {AskedOf(click[r]), NoToken}
      BY <1>3, <2>1 DEF AskedOf
    <2> QED
      BY <1>1, <1>3, <2>1, <2>2, LinkDrop DEF Link!Next
  <1>4. CASE ConsumeRead(r) \/ ReadComment(r)
    BY <1>2, <1>3, <1>4 DEF ConsumeRead, ReadComment, tenant
  <1>5. CASE DeleteLocator(r) \/ DeleteToken(r) \/ ClickFails(r)
    BY <1>2, <1>5 DEF DeleteLocator, DeleteToken, ClickFails, tenant
  <1>6. CASE ConsumeWrite(r)
    <2>1. CASE click[r].token \in rows /\ Exists(issued[click[r].token].comment)
      <3>1. Decide(r) /\ Goto(r, "cleanup") /\ click[r].pc = "commit"
        BY <1>6, <2>1 DEF ConsumeWrite
      <3> QED
        BY <1>1, <2>1, <3>1, LinkDecide DEF Link!Next
    <2>2. CASE ~(click[r].token \in rows /\ Exists(issued[click[r].token].comment))
      BY <1>2, <1>6, <2>2 DEF ConsumeWrite
    <2> QED
      BY <2>1, <2>2
  <1>7. CASE WriteComment(r)
    <2>1. ~IsCloud /\ click[r].pc = "write" /\ Goto(r, "delete")
      BY <1>7 DEF WriteComment, Inv, ClicksSound, ClickSound
    <2>2. CASE Exists(issued[click[r].token].comment)
      <3>1. Decide(r)
        BY <1>7, <2>2 DEF WriteComment
      <3> QED
        BY <1>1, <2>1, <2>2, <3>1, LinkDecide DEF Link!Next
    <2>3. CASE ~Exists(issued[click[r].token].comment)
      BY <1>3, <1>7, <2>1, <2>3 DEF WriteComment
    <2> QED
      BY <2>2, <2>3
  <1> QED
    BY <1>4, <1>5, <1>6, <1>7

LEMMA LinkRestart == ASSUME Inv, Restart PROVE Link!Drop
  <1>1. /\ UNCHANGED <<now, deployment, comments, issued, setBy, decisions>>
        /\ click' = [r \in Clicks |-> NoClick]
    BY DEF Restart, tenant
  <1>2. \A q \in Clicks : Asked'[q] = NoToken
    BY <1>1, Constants DEF Asked
  <1> QED
    BY <1>1, <1>2 DEF Link!Drop, IsCloud

LEMMA LinkTick == ASSUME Tick PROVE Link!Tick
  BY DEF Tick, tenant, actors, history, Link!Tick, Asked, IsCloud

LEMMA LinkStep == Inv /\ [Next]_vars => [Link!Next]_Link!vars
  <1> SUFFICES ASSUME Inv, [Next]_vars PROVE [Link!Next]_Link!vars
    OBVIOUS
  <1>1. CASE \/ CreateSite \/ InsertSite \/ ActivateSite
             \/ DeleteSite \/ EraseSite \/ UnregisterSite
    BY <1>1, LinkQuiet DEF CreateSite, InsertSite, ActivateSite, DeleteSite, EraseSite,
                           UnregisterSite, tenant, control, history
  <1>2. CASE \E c \in Comments : PostComment(c) \/ UpdateComment(c) \/ DeleteComment(c)
    BY <1>2, LinkModerate DEF Link!Next
  <1>3. CASE \E w \in Workers : BeginPass(w) \/ MintRefused(w) \/ EnsureLocator(w)
                                 \/ Send(w) \/ PassFails(w)
    BY <1>3, LinkQuiet DEF BeginPass, MintRefused, EnsureLocator, Send, PassFails, tenant,
                           control, history
  <1>4. CASE \E w \in Workers : Mint(w) \/ CreateToken(w)
    BY <1>4, LinkIssue DEF Link!Next
  <1>5. CASE \E r \in Clicks, t \in Tokens, a \in Decisions : Click(r, t, a)
    BY <1>5, LinkAsk DEF Link!Next
  <1>6. CASE \E r \in Clicks :
               \/ ConsumeRead(r) \/ ConsumeWrite(r) \/ DeleteLocator(r)
               \/ ReadComment(r) \/ WriteComment(r) \/ DeleteToken(r) \/ ClickFails(r)
    BY <1>6, LinkRequests
  <1>7. CASE Restart \/ Tick
    BY <1>7, LinkRestart, LinkTick DEF Link!Next
  <1>8. CASE UNCHANGED vars
    BY <1>8, LinkQuiet DEF vars, tenant, actors, history
  <1> QED
    BY <1>1, <1>2, <1>3, <1>4, <1>5, <1>6, <1>7, <1>8 DEF Next

\* Tokens, locators and requests implement the approval link: a decision is by a
\* request made before the expiry and on the link's own comment, and in the cloud
\* it is the only one of its link.
THEOREM LinksImplementLink == Spec => ImplementsLink
  <1>1. Spec => Link!Init /\ [][Link!Next]_Link!vars
    BY InvHolds, LinkInit, LinkStep, PTL DEF Spec
  <1> QED
    BY <1>1 DEF ImplementsLink, Link!Spec

=============================================================================
