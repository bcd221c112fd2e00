------------------------------- MODULE Readers ------------------------------
(***************************************************************************)
(* What the comments of readers are measured against and what readers do   *)
(* to them: the blocked terms of each tenant with the process-wide cache   *)
(* in front of them, and the votes and flags with their counters.          *)
(*                                                                         *)
(* A step is one statement or transaction of a store, or what is done      *)
(* under the mutex of the cache between two of them.  A vote and a flag    *)
(* work alike, in tables of their own, so a kind of reaction is a set of   *)
(* rows and a counter here.  A tenant's database is named by its scope.    *)
(***************************************************************************)
EXTENDS Integers, FiniteSets

CONSTANTS
    Scopes,           \* tenant scopes: the accounts, or "" when self-hosted
    Terms,            \* blocked terms
    Requests,         \* posts that are checked
    Editors,          \* moderators' requests that change the terms
    Comments,         \* comments that readers react to
    Readers,
    NoScope,
    BlockedTermsTTL,  \* blockedTermsTTL
    MaxTime,          \* bound: last clock value explored
    MaxFaults         \* bound: failed queries and restarts explored

ASSUME ReadersAssumption ==
    /\ NoScope \notin Scopes
    /\ IsFiniteSet(Readers)
    /\ BlockedTermsTTL \in Nat \ {0}
    /\ MaxTime \in Nat /\ MaxFaults \in Nat

VARIABLES
    now,          \* the clock
    blockedTerms, \* blockedTerms[s]: the table of s
    cache,        \* globalTermsCache.scopes
    check,        \* check[r]: the call of CheckBlockedTerms by r
    edit,         \* edit[e]: the moderator's request e
    comments,     \* the comments that exist
    reacted,      \* reacted[c]: the rows of comment_votes or comment_flags
    counter,      \* counter[c]: the column upvotes or flags
    \* History
    unflushed,    \* unflushed[s]: terms of s whose change no flush followed
    reinserted,   \* comments that were inserted over rows left behind
    faults        \* failed queries and restarts so far

terms == <<blockedTerms, cache, check, edit, unflushed>>
reactions == <<comments, reacted, counter, reinserted>>
vars == <<now, terms, reactions, faults>>

-----------------------------------------------------------------------------
(* State *)

Time == 0..(MaxTime + BlockedTermsTTL)

\* termsScope; expires is 0 for a scope that the cache does not hold.
Cached == [entries : SUBSET Terms, expires : Time]

NotCached == [entries |-> {}, expires |-> 0]

\* A check fetches and then stores what it fetched, with the mutex held.
Check == [pc : {"idle", "fetch", "store"}, scope : Scopes \cup {NoScope},
          entries : SUBSET Terms]

NoCheck == [pc |-> "idle", scope |-> NoScope, entries |-> {}]

\* An edit has changed the table and has yet to learn of it or to flush.
Edit == [pc : {"idle", "answer", "flush"}, scope : Scopes \cup {NoScope},
         changed : SUBSET Terms]

NoEdit == [pc |-> "idle", scope |-> NoScope, changed |-> {}]

\* Terms that one of two lists has and the other has not.
Difference(list, other) == (list \ other) \cup (other \ list)

TypeOK ==
    /\ now \in 0..MaxTime
    /\ blockedTerms \in [Scopes -> SUBSET Terms]
    /\ cache \in [Scopes -> Cached]
    /\ check \in [Requests -> Check]
    /\ edit \in [Editors -> Edit]
    /\ comments \subseteq Comments
    /\ reacted \in [Comments -> SUBSET Readers]
    /\ counter \in [Comments -> Nat]
    /\ unflushed \in [Scopes -> SUBSET Terms]
    /\ reinserted \subseteq Comments
    /\ faults \in 0..MaxFaults

Init ==
    /\ now = 0
    /\ blockedTerms = [s \in Scopes |-> {}]
    /\ cache = [s \in Scopes |-> NotCached]
    /\ check = [r \in Requests |-> NoCheck]
    /\ edit = [e \in Editors |-> NoEdit]
    /\ comments = {}
    /\ reacted = [c \in Comments |-> {}]
    /\ counter = [c \in Comments |-> 0]
    /\ unflushed = [s \in Scopes |-> {}]
    /\ reinserted = {}
    /\ faults = 0

Fault == faults < MaxFaults /\ faults' = faults + 1

-----------------------------------------------------------------------------
(* Checking a comment: CheckBlockedTerms and termsCache.get *)

Locked == \E r \in Requests : check[r].pc # "idle"

Fresh(s) == now < cache[s].expires

\* A hit is answered at once; a miss keeps the mutex over its fetch.
Miss(r, s) ==
    /\ ~ Locked
    /\ ~ Fresh(s)
    /\ check' = [check EXCEPT ![r] = [NoCheck EXCEPT !.pc = "fetch", !.scope = s]]
    /\ UNCHANGED <<now, blockedTerms, cache, edit, unflushed, reactions, faults>>

\* ListBlockedTerms
Fetch(r) ==
    /\ check[r].pc = "fetch"
    /\ check' = [check EXCEPT ![r].pc = "store",
            ![r].entries = blockedTerms[check[r].scope]]
    /\ UNCHANGED <<now, blockedTerms, cache, edit, unflushed, reactions, faults>>

\* The query fails: the cache stays as it is and the comment passes.
FetchFails(r) ==
    /\ check[r].pc = "fetch"
    /\ check' = [check EXCEPT ![r] = NoCheck]
    /\ Fault
    /\ UNCHANGED <<now, blockedTerms, cache, edit, unflushed, reactions>>

Store(r) ==
    /\ check[r].pc = "store"
    /\ cache' = [cache EXCEPT ![check[r].scope] =
            [entries |-> check[r].entries, expires |-> now + BlockedTermsTTL]]
    /\ check' = [check EXCEPT ![r] = NoCheck]
    \* What the fetch has found as it is now is current again.
    /\ unflushed' = [unflushed EXCEPT ![check[r].scope] =
            @ \cap Difference(check[r].entries, blockedTerms[check[r].scope])]
    /\ UNCHANGED <<now, blockedTerms, edit, reactions, faults>>

-----------------------------------------------------------------------------
(* Changing the terms: ModRulesHandler *)

Change(e, s, table, changed) ==
    /\ edit[e].pc = "idle"
    /\ blockedTerms' = [blockedTerms EXCEPT ![s] = table]
    /\ edit' = [edit EXCEPT ![e] = [pc |-> "answer", scope |-> s, changed |-> changed]]
    /\ UNCHANGED <<now, cache, check, unflushed, reactions, faults>>

\* Add: AddBlockedTerm inserts the term and fetches its row.
Add(e, s, t) == Change(e, s, blockedTerms[s] \cup {t}, {t})

\* Delete: DeleteBlockedTerm
Delete(e, s, t) == Change(e, s, blockedTerms[s] \ {t}, {t})

\* Import: BulkAddBlockedTerms inserts the lines of a list in one transaction.
Import(e, s, list) == Change(e, s, blockedTerms[s] \cup list, list)

\* The store answers; for Add, with the row.
EditAnswered(e) ==
    /\ edit[e].pc = "answer"
    /\ edit' = [edit EXCEPT ![e].pc = "flush"]
    /\ UNCHANGED <<now, blockedTerms, cache, check, unflushed, reactions, faults>>

\* The change is in the table, and the row of a new term cannot be read, or the
\* answer of a remote database is lost: the request fails and flushes nothing.
EditFails(e) ==
    /\ edit[e].pc = "answer"
    /\ edit' = [edit EXCEPT ![e] = NoEdit]
    /\ unflushed' = [unflushed EXCEPT ![edit[e].scope] = @ \cup edit[e].changed]
    /\ Fault
    /\ UNCHANGED <<now, blockedTerms, cache, check, reactions>>

BugInvalidateBlockedTermsCache(e) ==
    /\ edit[e].pc = "flush"
    /\ cache' = [s \in Scopes |-> NotCached]
    /\ unflushed' = [s \in Scopes |-> {}]
    /\ edit' = [edit EXCEPT ![e] = NoEdit]
    /\ UNCHANGED <<now, blockedTerms, check, reactions, faults>>

\* InvalidateBlockedTermsCache drops every scope, when it gets the mutex.
InvalidateBlockedTermsCache(e) ==
    /\ edit[e].pc = "flush"
    /\ ~ Locked
    /\ cache' = [s \in Scopes |-> NotCached]
    /\ unflushed' = [s \in Scopes |-> {}]
    /\ edit' = [edit EXCEPT ![e] = NoEdit]
    /\ UNCHANGED <<now, blockedTerms, check, reactions, faults>>

-----------------------------------------------------------------------------
(* Votes and flags *)

\* MAX(0, upvotes - 1)
Decremented(n) == IF n = 0 THEN 0 ELSE n - 1

BugToggle(c, u) ==
    /\ c \in comments
    /\ reacted' = [reacted EXCEPT ![c] = @ \cup {u}]
    /\ counter' = [counter EXCEPT ![c] = @ + 1]
    /\ UNCHANGED <<now, terms, comments, reinserted, faults>>

\* ToggleVote and ToggleFlag, one transaction: for a comment that is gone the
\* counter cannot be read at the end, and the row is rolled back.
Toggle(c, u) ==
    /\ c \in comments
    /\ \/ /\ u \notin reacted[c]
          /\ reacted' = [reacted EXCEPT ![c] = @ \cup {u}]
          /\ counter' = [counter EXCEPT ![c] = @ + 1]
       \/ /\ u \in reacted[c]
          /\ reacted' = [reacted EXCEPT ![c] = @ \ {u}]
          /\ counter' = [counter EXCEPT ![c] = Decremented(@)]
    /\ UNCHANGED <<now, terms, comments, reinserted, faults>>

\* CreateComment, or ImportComments with an ID the table does not hold.
InsertComment(c) ==
    /\ c \notin comments
    /\ comments' = comments \cup {c}
    /\ counter' = [counter EXCEPT ![c] = 0]
    /\ reinserted' = IF reacted[c] # {} THEN reinserted \cup {c} ELSE reinserted \ {c}
    /\ UNCHANGED <<now, terms, reacted, faults>>

\* DeleteComment cascades to the rows on the one connection that was opened
\* with PRAGMA foreign_keys, and leaves them behind on the others of the pool.
DeleteComment(c) ==
    /\ c \in comments
    /\ comments' = comments \ {c}
    /\ counter' = [counter EXCEPT ![c] = 0]
    /\ \/ /\ reacted' = [reacted EXCEPT ![c] = {}]
          /\ reinserted' = reinserted \ {c}
       \/ UNCHANGED <<reacted, reinserted>>
    /\ UNCHANGED <<now, terms, faults>>

-----------------------------------------------------------------------------

Restart ==
    /\ Fault
    /\ cache' = [s \in Scopes |-> NotCached]
    /\ check' = [r \in Requests |-> NoCheck]
    /\ edit' = [e \in Editors |-> NoEdit]
    /\ unflushed' = [s \in Scopes |-> {}]
    /\ UNCHANGED <<now, blockedTerms, reactions>>

Tick ==
    /\ now < MaxTime
    /\ now' = now + 1
    /\ UNCHANGED <<terms, reactions, faults>>

Next ==
    \/ \E r \in Requests, s \in Scopes : Miss(r, s)
    \/ \E r \in Requests : Fetch(r) \/ FetchFails(r) \/ Store(r)
    \/ \E e \in Editors, s \in Scopes, t \in Terms : Add(e, s, t) \/ Delete(e, s, t)
    \/ \E e \in Editors, s \in Scopes, list \in SUBSET Terms : Import(e, s, list)
    \/ \E e \in Editors :
            EditAnswered(e) \/ EditFails(e) \/ InvalidateBlockedTermsCache(e)
    \/ \E c \in Comments, u \in Readers : Toggle(c, u)
    \/ \E c \in Comments : InsertComment(c) \/ DeleteComment(c)
    \/ Restart \/ Tick

Spec == Init /\ [][Next]_vars

-----------------------------------------------------------------------------
(* Properties *)

\* Terms of s whose change a moderator's request has yet to flush.
Flushing(s) ==
    {t \in Terms : \E e \in Editors :
        edit[e].pc # "idle" /\ edit[e].scope = s /\ t \in edit[e].changed}

\* A scope that the cache would answer from has the terms of its own table but
\* for those whose change is about to be flushed and those whose request failed
\* after the change, which returns before the flush: no fetch that an edit
\* overtakes is stored after that edit's flush, no edit of one term covers for
\* another, and no entry is out of date for longer than the cache keeps it.
CachedTermsCurrent ==
    \A s \in Scopes :
        Fresh(s) => Difference(cache[s].entries, blockedTerms[s])
                        \subseteq Flushing(s) \cup unflushed[s]

\* The counter of a comment is the number of its rows; for a comment that was
\* inserted again over the rows of its predecessor it is never more than that.
CountersFollowRows ==
    \A c \in comments :
        IF c \in reinserted
        THEN counter[c] <= Cardinality(reacted[c])
        ELSE counter[c] = Cardinality(reacted[c])

=============================================================================
