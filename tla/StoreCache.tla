----------------------------- MODULE StoreCache -----------------------------
(***************************************************************************)
(* The cache of open tenant stores of the cloud build (middleware.         *)
(* StoreCache).  Requests and the delivery worker borrow the store of an   *)
(* account at a storage location; the cache opens it at most once for      *)
(* concurrent callers, keeps it while it is used, and retires it when it   *)
(* expires, is evicted, loses its place to a more recent one or when the   *)
(* process shuts down.  A retired store is closed by its last borrower.    *)
(*                                                                         *)
(* A step is one critical section of StoreCache.mu, of the singleflight    *)
(* group, or one Close of a store, which is called outside the lock.       *)
(***************************************************************************)
EXTENDS Integers, FiniteSets, Sequences

CONSTANTS
    Accounts,       \* account IDs
    Targets,        \* <<account, storage fingerprint>> it has or has had
    NoTarget,
    Callers,        \* calls of GetOrOpenContext
    Cancellable,    \* the callers whose context may be cancelled
    Stores,         \* bound: the stores that openers return
    NoStore,        \* nil
    NoCaller,
    Capacity,       \* TENANT_STORE_CACHE_CAPACITY
    TTL,            \* TENANT_STORE_CACHE_TTL
    MaxTime         \* bound: last clock value explored

ASSUME CacheAssumption ==
    /\ \A target \in Targets : target[1] \in Accounts
    /\ Cancellable \subseteq Callers
    /\ IsFiniteSet(Callers)
    /\ NoTarget \notin Targets
    /\ NoStore \notin Stores
    /\ NoCaller \notin Callers
    /\ Capacity \in Nat \ {0}
    /\ TTL \in Nat \ {0}
    /\ MaxTime \in Nat

VARIABLES
    now,        \* the wall clock
    closed,     \* the cache has been shut down
    entries,    \* entries[a]: the store cached for account a
    lru,        \* the cached stores, the most recently used one first
    store,      \* store[s]: the state of store s and of its cache entry
    closing,    \* closing[s]: the calls of s.Close that are still to be made
    caller,     \* caller[p]: the call p
    flight      \* flight[p]: the singleflight call that p started

cache == <<closed, entries, lru>>
cacheVars == <<now, cache, store, closing, caller, flight>>

-----------------------------------------------------------------------------
(* State *)

StoreState ==
    [target   : Targets \cup {NoTarget},  \* what it was opened for, if it was
     closes   : Nat,                      \* the calls of Close so far
     lastUsed : 0..MaxTime,
     refs     : Nat,                      \* active leases
     retired  : BOOLEAN,
     closed   : BOOLEAN]                  \* somebody is in charge of closing it

Unopened ==
    [target |-> NoTarget, closes |-> 0, lastUsed |-> 0, refs |-> 0,
     retired |-> FALSE, closed |-> FALSE]

CallerState ==
    [pc        : {"idle", "acquire", "join", "wait", "using", "done"},
     target    : Targets \cup {NoTarget},
     cancelled : BOOLEAN,                     \* its context is
     flight    : Callers \cup {NoCaller},      \* whose open it waits for
     result    : {"none", "ok", "error"},      \* what that open reported to it
     lease     : Stores \cup {NoStore},
     orphan    : BOOLEAN]                      \* the lease is not a cached one

NoCall == [pc |-> "idle", target |-> NoTarget, cancelled |-> FALSE,
           flight |-> NoCaller, result |-> "none", lease |-> NoStore,
           orphan |-> FALSE]

FlightState ==
    [pc     : {"none", "peek", "open", "report"},
     target : Targets \cup {NoTarget},      \* the singleflight key
     result : {"ok", "error"},
     orphan : Stores \cup {NoStore}]        \* the store that was not cached

NoFlight == [pc |-> "none", target |-> NoTarget, result |-> "ok", orphan |-> NoStore]

Account(target) == target[1]

\* Mutant of Fresh: the location is not compared.
BugFresh(s, target) == now - store[s].lastUsed < TTL

Fresh(s, target) ==
    /\ store[s].target = target
    /\ now - store[s].lastUsed < TTL

\* A fresh entry for the target is in its slot.
Live(target) ==
    LET s == entries[Account(target)] IN s # NoStore /\ Fresh(s, target)

-----------------------------------------------------------------------------
(* Entries *)

Cached == {s \in Stores : \E i \in DOMAIN lru : lru[i] = s}

\* lru.Remove
Without(q, s) ==
    IF \E i \in DOMAIN q : q[i] = s
    THEN LET i == CHOOSE i \in DOMAIN q : q[i] = s
         IN  SubSeq(q, 1, i - 1) \o SubSeq(q, i + 1, Len(q))
    ELSE q

\* Nobody is in charge of closing s, and nobody borrows it.
Closable(s) == store[s].refs = 0 /\ ~ store[s].closed

\* Mutant of RetireEntry: a borrowed store is closed too.
BugRetireEntry(s) == [store[s] EXCEPT !.retired = TRUE, !.closed = TRUE]

\* retireLocked
RetireEntry(s) ==
    [store[s] EXCEPT !.retired = TRUE, !.closed = @ \/ Closable(s)]

\* The stores of S are retired; those that retireLocked put in charge of
\* closing are closed after the unlock.
ClosingAfterRetiring(S) ==
    [s \in Stores |-> IF s \in S /\ ~ store[s].closed /\ RetireEntry(s).closed
                      THEN closing[s] + 1 ELSE closing[s]]

Retire(S) ==
    /\ store' = [s \in Stores |-> IF s \in S THEN RetireEntry(s) ELSE store[s]]
    /\ closing' = ClosingAfterRetiring(S)

\* closeStores, after the unlock.  Nothing that its goroutine does later
\* depends on it.
CloseStore(s) ==
    /\ closing[s] > 0
    /\ closing' = [closing EXCEPT ![s] = @ - 1]
    /\ store' = [store EXCEPT ![s].closes = @ + 1]
    /\ UNCHANGED <<now, cache, caller, flight>>

-----------------------------------------------------------------------------
(* A call of GetOrOpenContext *)

\* A request resolved its account to a target; the account may have moved
\* since then, so any location it has had is possible.
Call(p) ==
    /\ caller[p].pc = "idle"
    /\ \E target \in Targets :
            caller' = [caller EXCEPT ![p].pc = "acquire", ![p].target = target]
    /\ UNCHANGED <<now, cache, store, closing, flight>>

\* The call returned an error, or its lease was released.
Done(p) ==
    caller' = [caller EXCEPT ![p] = [NoCall EXCEPT
                !.pc = "done", !.cancelled = caller[p].cancelled]]

Borrow(p, s, orphan) ==
    caller' = [caller EXCEPT ![p].pc = "using", ![p].flight = NoCaller, ![p].result = "none",
                             ![p].lease = s, ![p].orphan = orphan]

AcquireFails(p) ==
    /\ caller[p].pc = "acquire"
    /\ caller[p].cancelled \/ closed
    /\ Done(p)
    /\ UNCHANGED <<now, cache, store, closing, flight>>

\* A hit: the entry is borrowed and becomes the most recently used one.
AcquireHit(p) ==
    LET s == entries[Account(caller[p].target)] IN
    /\ caller[p].pc = "acquire"
    /\ ~ caller[p].cancelled /\ ~ closed
    /\ Live(caller[p].target)
    /\ store' = [store EXCEPT ![s].refs = @ + 1, ![s].lastUsed = now]
    /\ lru' = <<s>> \o Without(lru, s)
    /\ Borrow(p, s, FALSE)
    /\ UNCHANGED <<now, closed, entries, closing, flight>>

\* The entry of an account leaves the cache.
RemoveEntry(a) ==
    /\ entries' = [entries EXCEPT ![a] = NoStore]
    /\ lru' = Without(lru, entries[a])
    /\ Retire({entries[a]})

\* A miss: an expired entry, or one of another location, is retired.
AcquireMiss(p) ==
    LET a == Account(caller[p].target) IN
    /\ caller[p].pc = "acquire"
    /\ ~ caller[p].cancelled /\ ~ closed
    /\ ~ Live(caller[p].target)
    /\ \/ entries[a] = NoStore /\ UNCHANGED <<entries, lru, store, closing>>
       \/ entries[a] # NoStore /\ RemoveEntry(a)
    /\ caller' = [caller EXCEPT ![p].pc = "join"]
    /\ UNCHANGED <<now, closed, flight>>

\* group.DoChan: wait for the open of the same target under way, or start one.
InFlight(target) ==
    {q \in Callers : flight[q].pc # "none" /\ flight[q].target = target}

Join(p) ==
    /\ caller[p].pc = "join"
    /\ \/ \E q \in InFlight(caller[p].target) :
            /\ caller' = [caller EXCEPT ![p].pc = "wait", ![p].flight = q]
            /\ flight' = flight
       \/ /\ InFlight(caller[p].target) = {}
          /\ caller' = [caller EXCEPT ![p].pc = "wait", ![p].flight = p]
          /\ flight' = [flight EXCEPT ![p] = [NoFlight EXCEPT
                                !.pc = "peek", !.target = caller[p].target]]
    /\ UNCHANGED <<now, cache, store, closing>>

\* Of the callers waiting for one open, only the one that started it can take
\* a store that was not cached; the others, and a caller whose store was
\* cached, look into the cache again.
Receive(p) ==
    LET own == caller[p].flight = p
        orphan == flight[p].orphan
    IN
    /\ caller[p].pc = "wait"
    /\ \/ caller[p].result = "error" /\ Done(p)
       \/ /\ caller[p].result = "ok"
          /\ own /\ orphan # NoStore
          /\ Borrow(p, orphan, TRUE)
       \/ /\ caller[p].result = "ok"
          /\ ~ (own /\ orphan # NoStore)
          /\ caller' = [caller EXCEPT ![p].pc = "acquire", ![p].flight = NoCaller,
                                      ![p].result = "none"]
    /\ UNCHANGED <<now, cache, store, closing, flight>>

\* The select may take ctx.Done even when the result is there too.
GiveUp(p) ==
    /\ caller[p].pc = "wait"
    /\ caller[p].cancelled
    /\ Done(p)
    /\ UNCHANGED <<now, cache, store, closing, flight>>

\* The context is only looked at during the call.
Cancel(p) ==
    /\ p \in Cancellable
    /\ caller[p].pc \in {"acquire", "join", "wait"}
    /\ ~ caller[p].cancelled
    /\ caller' = [caller EXCEPT ![p].cancelled = TRUE]
    /\ UNCHANGED <<now, cache, store, closing, flight>>

\* Mutant of Release: any borrower of a retired store closes it.
BugRelease(p) ==
    LET s == caller[p].lease IN
    /\ caller[p].pc = "using"
    /\ store' = [store EXCEPT ![s].refs = IF @ > 0 THEN @ - 1 ELSE @]
    /\ closing' = [closing EXCEPT ![s] = @ + (IF caller[p].orphan \/ store[s].retired
                                              THEN 1 ELSE 0)]
    /\ Done(p)
    /\ UNCHANGED <<now, cache, flight>>

\* Lease.Release: an orphan is closed, a cached store loses a borrower, and
\* the last one of a retired store closes it.
Release(p) ==
    LET s == caller[p].lease
        left == IF store[s].refs > 0 THEN store[s].refs - 1 ELSE store[s].refs
        last == store[s].retired /\ left = 0 /\ ~ store[s].closed
    IN
    /\ caller[p].pc = "using"
    /\ \/ /\ caller[p].orphan
          /\ closing' = [closing EXCEPT ![s] = @ + 1]
          /\ store' = store
       \/ /\ ~ caller[p].orphan
          /\ store' = [store EXCEPT ![s].refs = left, ![s].closed = @ \/ last]
          /\ closing' = [closing EXCEPT ![s] = @ + (IF last THEN 1 ELSE 0)]
    /\ Done(p)
    /\ UNCHANGED <<now, cache, flight>>

-----------------------------------------------------------------------------
(* The open of a target, run under singleflight with its caller's context *)

Land(q, result, orphan) ==
    flight' = [flight EXCEPT ![q].pc = "report", ![q].result = result, ![q].orphan = orphan]

\* Mutant of Peek: the slot is not looked at again.
BugPeek(q) ==
    /\ flight[q].pc = "peek"
    /\ \/ caller[q].cancelled /\ Land(q, "error", NoStore)
       \/ ~ caller[q].cancelled /\ flight' = [flight EXCEPT ![q].pc = "open"]
    /\ UNCHANGED <<now, cache, store, closing, caller>>

\* peekLive: the open before this one may have filled the slot.
Peek(q) ==
    LET live == ~ closed /\ Live(flight[q].target) IN
    /\ flight[q].pc = "peek"
    /\ \/ caller[q].cancelled /\ Land(q, "error", NoStore)
       \/ ~ caller[q].cancelled /\ live /\ Land(q, "ok", NoStore)
       \/ ~ caller[q].cancelled /\ ~ live /\ flight' = [flight EXCEPT ![q].pc = "open"]
    /\ UNCHANGED <<now, cache, store, closing, caller>>

OpenFails(q) ==
    /\ flight[q].pc = "open"
    /\ Land(q, "error", NoStore)
    /\ UNCHANGED <<now, cache, store, closing, caller>>

Opened(q) == [Unopened EXCEPT !.target = flight[q].target]

\* Mutant of OpenRefused: the store is dropped without closing it.
BugOpenRefused(q, s) ==
    /\ flight[q].pc = "open"
    /\ store[s].target = NoTarget
    /\ caller[q].cancelled \/ closed
    /\ store' = [store EXCEPT ![s] = Opened(q)]
    /\ Land(q, "error", NoStore)
    /\ UNCHANGED <<now, cache, closing, caller>>

\* The opener returns a store after the caller gave up or the cache was shut
\* down: it is closed at once.
OpenRefused(q, s) ==
    /\ flight[q].pc = "open"
    /\ store[s].target = NoTarget
    /\ caller[q].cancelled \/ closed
    /\ store' = [store EXCEPT ![s] = Opened(q)]
    /\ closing' = [closing EXCEPT ![s] = @ + 1]
    /\ Land(q, "error", NoStore)
    /\ UNCHANGED <<now, cache, caller>>

SlotLost(q) ==
    /\ flight[q].pc = "open"
    /\ ~ caller[q].cancelled /\ ~ closed
    /\ entries[Account(flight[q].target)] # NoStore

\* insert finds the slot taken: the store becomes its caller's own.
OpenOrphaned(q, s) ==
    /\ SlotLost(q)
    /\ store[s].target = NoTarget
    /\ store' = [store EXCEPT ![s] = Opened(q)]
    /\ Land(q, "ok", s)
    /\ UNCHANGED <<now, cache, closing, caller>>

\* insert: the store enters the cache as the most recently used one, and the
\* least recently used ones beyond the capacity are retired.
OpenCached(q, s) ==
    LET a == Account(flight[q].target)
        order == <<s>> \o lru
        kept == IF Len(order) > Capacity THEN Capacity ELSE Len(order)
        victims == {order[i] : i \in (kept + 1)..Len(order)}
    IN
    /\ flight[q].pc = "open"
    /\ ~ caller[q].cancelled /\ ~ closed
    /\ entries[a] = NoStore
    /\ store[s].target = NoTarget
    /\ entries' = [b \in Accounts |->
            IF \E v \in victims : Account(store[v].target) = b THEN NoStore
            ELSE IF b = a THEN s
            ELSE entries[b]]
    /\ lru' = SubSeq(order, 1, kept)
    /\ store' = [t \in Stores |->
            IF t = s THEN [Opened(q) EXCEPT !.lastUsed = now]
            ELSE IF t \in victims THEN RetireEntry(t)
            ELSE store[t]]
    /\ closing' = ClosingAfterRetiring(victims)
    /\ Land(q, "ok", NoStore)
    /\ UNCHANGED <<now, closed, caller>>

\* Mutant of Report: only the caller that started the open is answered.
BugReport(q) ==
    /\ flight[q].pc = "report"
    /\ flight' = [flight EXCEPT ![q] = [NoFlight EXCEPT !.orphan = flight[q].orphan]]
    /\ caller' = [caller EXCEPT ![q].result =
            IF caller[q].pc = "wait" THEN flight[q].result ELSE @]
    /\ UNCHANGED <<now, cache, store, closing>>

\* singleflight forgets the call and answers everybody who waits for it.
Report(q) ==
    /\ flight[q].pc = "report"
    /\ flight' = [flight EXCEPT ![q] = [NoFlight EXCEPT !.orphan = flight[q].orphan]]
    /\ caller' = [p \in Callers |->
            IF caller[p].pc = "wait" /\ caller[p].flight = q /\ caller[p].result = "none"
            THEN [caller[p] EXCEPT !.result = flight[q].result]
            ELSE caller[p]]
    /\ UNCHANGED <<now, cache, store, closing>>

-----------------------------------------------------------------------------
(* Eviction and shutdown *)

\* Mutant of Evict: the entry stays in the recency list.
BugEvict(a) ==
    /\ entries[a] # NoStore
    /\ entries' = [entries EXCEPT ![a] = NoStore]
    /\ Retire({entries[a]})
    /\ UNCHANGED <<now, closed, lru, caller, flight>>

Evict(a) ==
    /\ entries[a] # NoStore
    /\ RemoveEntry(a)
    /\ UNCHANGED <<now, closed, caller, flight>>

\* Mutant of Close: the entries are forgotten without being retired.
BugClose ==
    /\ ~ closed
    /\ closed' = TRUE
    /\ entries' = [a \in Accounts |-> NoStore]
    /\ lru' = <<>>
    /\ UNCHANGED <<now, store, closing, caller, flight>>

Close ==
    /\ ~ closed
    /\ closed' = TRUE
    /\ Retire(Cached)
    /\ entries' = [a \in Accounts |-> NoStore]
    /\ lru' = <<>>
    /\ UNCHANGED <<now, caller, flight>>

-----------------------------------------------------------------------------
(* Specification *)

Tick ==
    /\ now < MaxTime
    /\ now' = now + 1
    /\ UNCHANGED <<cache, store, closing, caller, flight>>

Init ==
    /\ now = 0
    /\ closed = FALSE
    /\ entries = [a \in Accounts |-> NoStore]
    /\ lru = <<>>
    /\ store = [s \in Stores |-> Unopened]
    /\ closing = [s \in Stores |-> 0]
    /\ caller = [p \in Callers |-> NoCall]
    /\ flight = [p \in Callers |-> NoFlight]

CallerStep(p) ==
    \/ AcquireFails(p) \/ AcquireHit(p) \/ AcquireMiss(p) \/ Join(p)
    \/ Receive(p) \/ GiveUp(p) \/ Release(p)

FlightStep(q) ==
    \/ Peek(q) \/ OpenFails(q) \/ Report(q)
    \/ \E s \in Stores : OpenRefused(q, s) \/ OpenOrphaned(q, s) \/ OpenCached(q, s)

Next ==
    \/ \E p \in Callers : Call(p) \/ Cancel(p) \/ CallerStep(p) \/ FlightStep(p)
    \/ \E s \in Stores : CloseStore(s)
    \/ \E a \in Accounts : Evict(a)
    \/ Close
    \/ Tick

Spec == Init /\ [][Next]_cacheVars

\* Whoever will close s: the cache, a borrower, a pending Close, or the caller
\* whose open found its slot taken.
Owned(s) ==
    \/ closing[s] > 0
    \/ s \in Cached
    \/ \E p \in Callers : caller[p].lease = s
    \/ \E p \in Callers :
        /\ flight[p].orphan = s
        /\ caller[p].pc = "wait" /\ caller[p].flight = p

\* Nobody can tell a closed store that nobody names from one that was never
\* opened: the model opens it again, so that opens do not run out of stores.
Forget(s) ==
    /\ store[s].closes = 1 /\ closing[s] = 0 /\ ~ Owned(s)
    /\ store' = [store EXCEPT ![s] = Unopened]
    /\ flight' = [q \in Callers |-> IF flight[q].orphan = s
                                   THEN [flight[q] EXCEPT !.orphan = NoStore] ELSE flight[q]]
    /\ UNCHANGED <<now, cache, closing, caller>>

\* Goroutines run, openers return, and requests finish (their handlers return,
\* which releases the lease).
FairSpec ==
    /\ Init
    /\ [][Next \/ \E s \in Stores : Forget(s)]_cacheVars
    /\ \A p \in Callers : WF_cacheVars(CallerStep(p)) /\ WF_cacheVars(FlightStep(p))
    /\ \A s \in Stores : WF_cacheVars(CloseStore(s))

-----------------------------------------------------------------------------
(* Safety *)

TypeOK ==
    /\ now \in 0..MaxTime
    /\ closed \in BOOLEAN
    /\ entries \in [Accounts -> Stores \cup {NoStore}]
    /\ lru \in Seq(Stores)
    /\ store \in [Stores -> StoreState]
    /\ closing \in [Stores -> Nat]
    /\ caller \in [Callers -> CallerState]
    /\ flight \in [Callers -> FlightState]
    /\ \A p \in Callers : (caller[p].pc = "using") <=> (caller[p].lease # NoStore)

Borrowers(s) ==
    {p \in Callers : caller[p].pc = "using" /\ ~ caller[p].orphan /\ caller[p].lease = s}

\* A store somebody borrows is open, and nobody is about to close it, whether
\* it expired, was evicted, lost its place or the cache was shut down
\* meanwhile (retireLocked, releaseEntry).
BorrowedStaysOpen ==
    \A p \in Callers : caller[p].pc = "using" =>
        /\ store[caller[p].lease].closes = 0
        /\ closing[caller[p].lease] = 0

\* No store is closed twice, by two retirements, by its last borrower and a
\* retirement, or by the cache and the caller of an orphan.
ClosedOnce == \A s \in Stores : store[s].closes + closing[s] <= 1

\* The map and the recency list name the same entries, at most Capacity of
\* them, each in the slot of its own account, none retired.
CacheConsistent ==
    /\ Cached = {entries[a] : a \in Accounts} \ {NoStore}
    /\ \A i, j \in DOMAIN lru : i # j => lru[i] # lru[j]
    /\ Len(lru) <= Capacity
    /\ \A a \in Accounts : entries[a] # NoStore =>
        /\ Account(store[entries[a]].target) = a
        /\ ~ store[entries[a]].retired

\* A caller is never handed the store of another account or of another
\* location than it asked for (the fingerprint in the singleflight key, in the
\* cache entry and in the re-check have to agree).
RightStore ==
    \A p \in Callers :
        caller[p].pc = "using" => store[caller[p].lease].target = caller[p].target

\* The orphan of a caller that stopped waiting.
Abandoned(s) ==
    \E p \in Callers : flight[p].orphan = s /\ caller[p].cancelled /\ caller[p].pc = "done"

\* "Every store is closed exactly once": one that is open has somebody who will
\* close it, except for the orphan of a caller that stopped waiting.
OnlyAbandonedStoresLeak ==
    \A s \in Stores :
        (store[s].target # NoTarget /\ store[s].closes = 0) => (Owned(s) \/ Abandoned(s))

\* Concurrent callers of one target share one open: a store is opened beside
\* the cached one only when that is expired or of another location (Join and
\* the second look of Peek).
OpensDeduplicated ==
    [][\A q \in Callers, s \in Stores :
        OpenOrphaned(q, s) => ~ Live(flight[q].target)]_cacheVars

-----------------------------------------------------------------------------
(* Liveness *)

\* While p waits for the store of its target, that is taken out of its slot.
Displaced(p) ==
    /\ caller[p].pc \in {"acquire", "join", "wait"}
    /\ \E target \in {caller[p].target} : Live(target) /\ ~ Live(target)'

\* Every call is answered: nobody waits for an open that is over, and the loop
\* over the cache and the singleflight group ends, unless other targets that
\* want the same places take the call's store away over and over.
Answered ==
    \A p \in Callers :
        \/ []<><<Displaced(p)>>_cacheVars
        \/ (caller[p].pc = "acquire") ~> (caller[p].pc \in {"using", "done"})

\* After a shutdown no store stays open, however many were borrowed or being
\* opened at that time, the abandoned ones excepted.
OpenStores == {s \in Stores : store[s].target # NoTarget /\ store[s].closes = 0}

ShutdownClosesAll == closed ~> [](\A s \in OpenStores : Abandoned(s))
=============================================================================
