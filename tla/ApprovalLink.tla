---------------------------- MODULE ApprovalLink ----------------------------
(***************************************************************************)
(* What an approval link promises the moderator who was mailed it: a       *)
(* request through the link sets the status of the link's own comment, and *)
(* only if it was made before the link expired; in a deployment whose      *)
(* links are single-use no second request through it does.                 *)
(*                                                                         *)
(* How the promise is kept, by token rows, locators and a transaction, is  *)
(* ApprovalLinks.                                                          *)
(***************************************************************************)
EXTENDS Integers

CONSTANTS
    Comments, Links, Requests,
    NoLink,         \* no link
    Nobody          \* what links[l].comment is before l is issued

VARIABLES
    now,
    singleUse,      \* whether a link decides once
    status,         \* status[c]: the status of the comment c
    setBy,          \* setBy[c]: the link that last set it, or NoLink
    links,          \* links[l]: the comment and the expiry of l
    asked,          \* asked[r]: the link that r was made through
    decisions       \* decisions[l]: how often l decided, counted to 2

vars == <<now, singleUse, status, setBy, links, asked, decisions>>

Decisions == {"approved", "rejected"}
Present(c) == status[c] \notin {"absent", "deleted"}

Init ==
    /\ now = 0
    /\ singleUse \in BOOLEAN
    /\ status = [c \in Comments |-> "absent"]
    /\ setBy = [c \in Comments |-> NoLink]
    /\ links = [l \in Links |-> [comment |-> Nobody, expires |-> 0]]
    /\ asked = [r \in Requests |-> NoLink]
    /\ decisions = [l \in Links |-> 0]

\* New links; one that has been issued never changes.
Issue ==
    /\ \A l \in Links : links[l].comment # Nobody => links'[l] = links[l]
    /\ UNCHANGED <<now, singleUse, status, setBy, asked, decisions>>

Ask(r, l) ==
    /\ asked[r] = NoLink
    /\ links[l].comment # Nobody
    /\ now <= links[l].expires
    /\ asked' = [asked EXCEPT ![r] = l]
    /\ UNCHANGED <<now, singleUse, status, setBy, links, decisions>>

\* Requests that end without a decision.
Drop ==
    /\ \A r \in Requests : asked'[r] \in {asked[r], NoLink}
    /\ UNCHANGED <<now, singleUse, status, setBy, links, decisions>>

Decide(r, s) ==
    LET l == asked[r]
        c == links[l].comment
    IN  /\ l \in Links
        /\ Present(c)
        /\ singleUse => decisions[l] = 0
        /\ status' = [status EXCEPT ![c] = s]
        /\ setBy' = [setBy EXCEPT ![c] = l]
        /\ decisions' = [decisions EXCEPT ![l] = IF @ < 2 THEN @ + 1 ELSE @]
        /\ asked' = [asked EXCEPT ![r] = NoLink]
        /\ UNCHANGED <<now, singleUse, links>>

\* A reader posts, or a moderator decides or deletes, without a link.
Moderate(c) ==
    /\ \E s \in Decisions \cup {"pending", "deleted"} :
           status' = [status EXCEPT ![c] = s]
    /\ setBy' = [setBy EXCEPT ![c] = NoLink]
    /\ UNCHANGED <<now, singleUse, links, asked, decisions>>

Tick == now' = now + 1 /\ UNCHANGED <<singleUse, status, setBy, links, asked, decisions>>

Next ==
    \/ Issue \/ Drop \/ Tick
    \/ \E r \in Requests, l \in Links : Ask(r, l)
    \/ \E r \in Requests, s \in Decisions : Decide(r, s)
    \/ \E c \in Comments : Moderate(c)

Spec == Init /\ [][Next]_vars
=============================================================================
