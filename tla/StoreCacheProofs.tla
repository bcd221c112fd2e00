-------------------------- MODULE StoreCacheProofs --------------------------
(***************************************************************************)
(* The types and the safety of StoreCache, for any number of accounts,     *)
(* callers and stores and any capacity: no borrowed store is closed, none  *)
(* is closed twice, nobody gets a wrong one, the map and the recency list  *)
(* agree, no store leaks except the orphan of a caller that stopped        *)
(* waiting, and concurrent callers of a target share one open.             *)
(***************************************************************************)
EXTENDS StoreCache, FiniteSetTheorems, TLAPS

-----------------------------------------------------------------------------
(* The recency list *)

Distinct(q) == \A i, j \in DOMAIN q : i # j => q[i] # q[j]

Elements(q) == {q[i] : i \in DOMAIN q}

\* Removing an element of a list without duplicates.
LEMMA WithoutMember ==
    ASSUME NEW S, NEW q \in Seq(S), NEW s, Distinct(q), s \in Elements(q)
    PROVE  /\ Without(q, s) \in Seq(S)
           /\ Len(Without(q, s)) = Len(q) - 1
           /\ Distinct(Without(q, s))
           /\ Elements(Without(q, s)) = Elements(q) \ {s}
<1> DEFINE i == CHOOSE i \in DOMAIN q : q[i] = s
           r == SubSeq(q, 1, i - 1) \o SubSeq(q, i + 1, Len(q))
<1>1. i \in 1..Len(q) /\ q[i] = s
    BY DEF Elements
<1>2. Without(q, s) = r
    BY DEF Without, Elements
<1> HIDE DEF i
<1>3. /\ r \in Seq(S)
      /\ Len(r) = Len(q) - 1
      /\ \A j \in 1..Len(r) : r[j] = IF j < i THEN q[j] ELSE q[j + 1]
    <2> DEFINE left == SubSeq(q, 1, i - 1)
               right == SubSeq(q, i + 1, Len(q))
    <2>1. left \in Seq(S) /\ Len(left) = i - 1 /\ \A j \in 1..(i - 1) : left[j] = q[j]
        BY <1>1
    <2>2. /\ right \in Seq(S) /\ Len(right) = Len(q) - i
          /\ \A j \in 1..(Len(q) - i) : right[j] = q[j + i]
        BY <1>1
    <2> HIDE DEF left, right
    <2>3. left \o right \in Seq(S) /\ Len(left \o right) = Len(q) - 1
        <3>1. left \o right \in Seq(S) /\ Len(left \o right) = Len(left) + Len(right)
            BY <2>1, <2>2
        <3>2. Len(q) \in Nat
            OBVIOUS
        <3> QED BY <1>1, <2>1, <2>2, <3>1, <3>2
    <2>4. ASSUME NEW j \in 1..(Len(q) - 1)
          PROVE  (left \o right)[j] = IF j < i THEN q[j] ELSE q[j + 1]
        <3>1. CASE j < i
            BY <1>1, <2>1, <2>2, <3>1
        <3>2. CASE ~ (j < i)
            <4>1. j - (i - 1) \in 1..(Len(q) - i)
                BY <1>1, <3>2
            <4>2. (left \o right)[j] = right[j - (i - 1)]
                BY <1>1, <2>1, <2>2, <3>2, <4>1
            <4> QED BY <1>1, <2>2, <3>2, <4>1, <4>2
        <3> QED BY <3>1, <3>2
    <2> QED BY <2>3, <2>4 DEF left, right
<1> HIDE DEF r
<1>4. DOMAIN q = 1..Len(q) /\ DOMAIN r = 1..(Len(q) - 1) /\ Len(q) \in Nat
    BY <1>3
<1>5. Distinct(r)
    <2> SUFFICES ASSUME NEW j \in 1..(Len(q) - 1), NEW k \in 1..(Len(q) - 1), j # k
                 PROVE  r[j] # r[k]
        BY <1>4 DEF Distinct
    <2> DEFINE old(x) == IF x < i THEN x ELSE x + 1
    <2>1. old(j) \in 1..Len(q) /\ old(k) \in 1..Len(q) /\ old(j) # old(k)
        BY <1>1, <1>4
    <2>2. r[j] = q[old(j)] /\ r[k] = q[old(k)]
        BY <1>3, <1>4
    <2> QED BY <1>4, <2>1, <2>2 DEF Distinct
<1>6. Elements(r) \subseteq Elements(q) \ {s}
    BY <1>1, <1>3, <1>4 DEF Distinct, Elements
<1>7. ASSUME NEW x \in Elements(q) \ {s}
      PROVE  x \in Elements(r)
    <2>1. PICK k \in 1..Len(q) : q[k] = x
        BY <1>4 DEF Elements
    <2>2. k # i
        BY <1>1, <2>1
    <2>3. CASE k < i
        BY <1>1, <1>3, <1>4, <2>1, <2>3 DEF Elements
    <2>4. CASE k > i
        <3>1. k - 1 \in 1..Len(r) /\ r[k - 1] = q[k]
            BY <1>1, <1>3, <1>4, <2>1, <2>4
        <3> QED BY <1>3, <1>4, <2>1, <3>1 DEF Elements
    <2> QED BY <1>1, <2>1, <2>2, <2>3, <2>4
<1> QED BY <1>2, <1>3, <1>5, <1>6, <1>7

LEMMA WithoutStranger ==
    ASSUME NEW q, NEW s, s \notin Elements(q)
    PROVE  Without(q, s) = q
BY DEF Without, Elements

LEMMA WithoutType ==
    ASSUME NEW S, NEW q \in Seq(S), NEW s
    PROVE  Without(q, s) \in Seq(S)
<1>1. CASE ~ \E i \in DOMAIN q : q[i] = s
    BY <1>1 DEF Without
<1>2. CASE \E i \in DOMAIN q : q[i] = s
    <2> DEFINE i == CHOOSE i \in DOMAIN q : q[i] = s
    <2>1. i \in 1..Len(q)
        BY <1>2
    <2>2. Without(q, s) = SubSeq(q, 1, i - 1) \o SubSeq(q, i + 1, Len(q))
        BY <1>2 DEF Without
    <2> HIDE DEF i
    <2>3. SubSeq(q, 1, i - 1) \in Seq(S) /\ SubSeq(q, i + 1, Len(q)) \in Seq(S)
        BY <2>1
    <2> QED BY <2>2, <2>3
<1> QED BY <1>1, <1>2

-----------------------------------------------------------------------------
(* Types *)

\* TypeOK, and calls and opens under way are about a target.
Typed ==
    /\ TypeOK
    /\ \A p \in Callers : caller[p].pc \notin {"idle", "done"} => caller[p].target \in Targets
    /\ \A q \in Callers : flight[q].pc # "none" => flight[q].target \in Targets

LEMMA InitTyped ==
    Init => Typed
<1> SUFFICES ASSUME Init PROVE Typed
    OBVIOUS
<1>1. Unopened \in StoreState
    BY CacheAssumption DEF CacheAssumption, StoreState, Unopened
<1>2. NoCall \in CallerState /\ NoCall.pc = "idle" /\ NoCall.lease = NoStore
    BY DEF CallerState, NoCall
<1>3. NoFlight \in FlightState /\ NoFlight.pc = "none"
    BY DEF FlightState, NoFlight
<1>4. now \in 0..MaxTime
    BY CacheAssumption DEF CacheAssumption, Init
<1>5. lru \in Seq(Stores)
    BY DEF Init
<1> QED BY <1>1, <1>2, <1>3, <1>4, <1>5 DEF Init, Typed, TypeOK

LEMMA SlotType ==
    ASSUME Typed, NEW target \in Targets
    PROVE  /\ Account(target) \in Accounts
           /\ entries[Account(target)] \in Stores \cup {NoStore}
BY CacheAssumption DEF CacheAssumption, Typed, TypeOK, Account

LEMMA RetireType ==
    ASSUME Typed, NEW S, Retire(S)
    PROVE  store' \in [Stores -> StoreState] /\ closing' \in [Stores -> Nat]
<1>1. \A s \in Stores : RetireEntry(s) \in StoreState
    BY DEF Typed, TypeOK, StoreState, RetireEntry, Closable
<1>2. \A s \in Stores : closing[s] \in Nat
    BY DEF Typed, TypeOK
<1>3. \A s \in Stores : store[s] \in StoreState
    BY DEF Typed, TypeOK
<1> QED BY <1>1, <1>2, <1>3 DEF Retire, ClosingAfterRetiring

\* The conjuncts about callers.
CallersTyped ==
    /\ caller \in [Callers -> CallerState]
    /\ \A p \in Callers :
        /\ (caller[p].pc = "using") <=> (caller[p].lease # NoStore)
        /\ caller[p].pc \notin {"idle", "done"} => caller[p].target \in Targets

\* A step that changes one call.
LEMMA CallerStepTyped ==
    ASSUME CallersTyped, NEW p \in Callers, NEW next \in CallerState,
           caller' = [caller EXCEPT ![p] = next],
           (next.pc = "using") <=> (next.lease # NoStore),
           next.pc \notin {"idle", "done"} => next.target \in Targets
    PROVE  CallersTyped'
BY DEF CallersTyped

LEMMA DoneTyped ==
    ASSUME CallersTyped, NEW p \in Callers, Done(p)
    PROVE  CallersTyped'
<1> DEFINE next == [NoCall EXCEPT !.pc = "done", !.cancelled = caller[p].cancelled]
<1>1. caller[p].cancelled \in BOOLEAN
    BY DEF CallersTyped, CallerState
<1>2. next \in CallerState /\ next.pc = "done" /\ next.lease = NoStore
    BY <1>1 DEF NoCall, CallerState
<1>3. caller' = [caller EXCEPT ![p] = next]
    BY DEF Done
<1> HIDE DEF next
<1> QED BY <1>2, <1>3, CallerStepTyped

LEMMA BorrowTyped ==
    ASSUME CallersTyped, NEW p \in Callers, NEW s \in Stores, NEW orphan \in BOOLEAN,
           caller[p].target \in Targets, Borrow(p, s, orphan)
    PROVE  CallersTyped'
<1> DEFINE next == [caller[p] EXCEPT !.pc = "using", !.flight = NoCaller,
                        !.result = "none", !.lease = s, !.orphan = orphan]
<1>1. caller[p] \in CallerState
    BY DEF CallersTyped
<1>2. next \in CallerState /\ next.pc = "using" /\ next.lease = s /\ next.target \in Targets
    BY <1>1 DEF CallerState
<1>3. s # NoStore
    BY CacheAssumption DEF CacheAssumption
<1>4. caller' = [caller EXCEPT ![p] = next]
    BY DEF Borrow, CallersTyped
<1> HIDE DEF next
<1> QED BY <1>2, <1>3, <1>4, CallerStepTyped

\* The conjuncts about the cache, the stores and the opens.
CacheTyped ==
    /\ now \in 0..MaxTime
    /\ closed \in BOOLEAN
    /\ entries \in [Accounts -> Stores \cup {NoStore}]
    /\ lru \in Seq(Stores)

StoresTyped ==
    /\ store \in [Stores -> StoreState]
    /\ closing \in [Stores -> Nat]

FlightsTyped ==
    /\ flight \in [Callers -> FlightState]
    /\ \A q \in Callers : flight[q].pc # "none" => flight[q].target \in Targets

LEMMA TypedParts ==
    Typed <=> (CacheTyped /\ StoresTyped /\ CallersTyped /\ FlightsTyped)
BY DEF Typed, TypeOK, CacheTyped, StoresTyped, CallersTyped, FlightsTyped

LEMMA LandTyped ==
    ASSUME FlightsTyped, NEW q \in Callers, flight[q].pc # "none",
           NEW result \in {"ok", "error"}, NEW orphan \in Stores \cup {NoStore},
           Land(q, result, orphan)
    PROVE  FlightsTyped'
<1> DEFINE next == [flight[q] EXCEPT !.pc = "report", !.result = result, !.orphan = orphan]
<1>1. next \in FlightState /\ next.target = flight[q].target
    BY DEF FlightsTyped, FlightState
<1>2. flight' = [flight EXCEPT ![q] = next]
    BY DEF Land, FlightsTyped
<1> HIDE DEF next
<1> QED BY <1>1, <1>2 DEF FlightsTyped

LEMMA OpenedTyped ==
    ASSUME FlightsTyped, NEW q \in Callers, flight[q].pc # "none"
    PROVE  Opened(q) \in StoreState
<1>1. Unopened \in StoreState
    BY CacheAssumption DEF CacheAssumption, StoreState, Unopened
<1>2. flight[q].target \in Targets
    BY DEF FlightsTyped
<1> QED BY <1>1, <1>2 DEF Opened, StoreState

\* Every step keeps the types: one case per action.
LEMMA StepTyped ==
    ASSUME Typed, [Next]_cacheVars
    PROVE  Typed'
<1> USE DEF cache
<1>1. CacheTyped /\ StoresTyped /\ CallersTyped /\ FlightsTyped
    BY TypedParts
<1> SUFFICES CacheTyped' /\ StoresTyped' /\ CallersTyped' /\ FlightsTyped'
    BY TypedParts, PTL
<1>2. CASE UNCHANGED cacheVars
    BY <1>1, <1>2 DEF cacheVars, CacheTyped, StoresTyped, CallersTyped, FlightsTyped
<1>3. ASSUME NEW p \in Callers, Call(p)
      PROVE  CacheTyped' /\ StoresTyped' /\ CallersTyped' /\ FlightsTyped'
    <2>1. PICK target \in Targets :
            caller' = [caller EXCEPT ![p].pc = "acquire", ![p].target = target]
        BY <1>3 DEF Call
    <2> DEFINE next == [caller[p] EXCEPT !.pc = "acquire", !.target = target]
    <2>2. next \in CallerState /\ next.pc = "acquire" /\ next.target = target
          /\ next.lease = caller[p].lease
        BY <1>1 DEF CallersTyped, CallerState
    <2>3. caller[p].lease = NoStore
        BY <1>1, <1>3 DEF CallersTyped, Call
    <2>4. caller' = [caller EXCEPT ![p] = next]
        BY <1>1, <2>1 DEF CallersTyped
    <2> HIDE DEF next
    <2>5. CallersTyped'
        BY <1>1, <2>2, <2>3, <2>4, CallerStepTyped
    <2> QED BY <1>1, <1>3, <2>5 DEF Call, CacheTyped, StoresTyped, FlightsTyped
<1>4. ASSUME NEW p \in Callers, Cancel(p)
      PROVE  CacheTyped' /\ StoresTyped' /\ CallersTyped' /\ FlightsTyped'
    <2> DEFINE next == [caller[p] EXCEPT !.cancelled = TRUE]
    <2>1. /\ next \in CallerState /\ next.pc = caller[p].pc
          /\ next.target = caller[p].target /\ next.lease = caller[p].lease
        BY <1>1 DEF CallersTyped, CallerState
    <2>2. caller' = [caller EXCEPT ![p] = next]
        BY <1>1, <1>4 DEF CallersTyped, Cancel
    <2> HIDE DEF next
    <2>3. CallersTyped'
        BY <1>1, <2>1, <2>2, CallerStepTyped DEF CallersTyped
    <2> QED BY <1>1, <1>4, <2>3 DEF Cancel, CacheTyped, StoresTyped, FlightsTyped
<1>5. ASSUME NEW p \in Callers, AcquireFails(p) \/ GiveUp(p)
      PROVE  CacheTyped' /\ StoresTyped' /\ CallersTyped' /\ FlightsTyped'
    <2>1. CallersTyped'
        BY <1>1, <1>5, DoneTyped DEF AcquireFails, GiveUp
    <2> QED BY <1>1, <1>5, <2>1 DEF AcquireFails, GiveUp, CacheTyped, StoresTyped, FlightsTyped
<1>6. ASSUME NEW p \in Callers, AcquireHit(p)
      PROVE  CacheTyped' /\ StoresTyped' /\ CallersTyped' /\ FlightsTyped'
    <2> DEFINE s == entries[Account(caller[p].target)]
    <2>1. caller[p].target \in Targets /\ s \in Stores
        BY <1>1, <1>6, SlotType DEF AcquireHit, Live, CallersTyped
    <2>2. CallersTyped'
        BY <1>1, <1>6, <2>1, BorrowTyped DEF AcquireHit
    <2>3. StoresTyped'
        <3> DEFINE next == [store[s] EXCEPT !.refs = store[s].refs + 1, !.lastUsed = now]
        <3>1. store[s] \in StoreState /\ now \in 0..MaxTime
            BY <1>1, <2>1 DEF StoresTyped, CacheTyped
        <3>2. store[s].refs + 1 \in Nat
            BY <3>1 DEF StoreState
        <3>3. next \in StoreState
            BY <3>1, <3>2 DEF StoreState
        <3>4. store' = [store EXCEPT ![s] = next]
            BY <1>1, <1>6, <2>1, <3>1 DEF AcquireHit, StoresTyped, StoreState
        <3>5. closing' = closing
            BY <1>6 DEF AcquireHit
        <3> HIDE DEF next, s
        <3> QED BY <1>1, <3>3, <3>4, <3>5 DEF StoresTyped
    <2>4. lru' \in Seq(Stores)
        <3>1. Without(lru, s) \in Seq(Stores)
            BY <1>1, WithoutType DEF CacheTyped
        <3>2. lru' = <<s>> \o Without(lru, s)
            BY <1>6 DEF AcquireHit
        <3> QED BY <2>1, <3>1, <3>2
    <2> QED BY <1>1, <1>6, <2>2, <2>3, <2>4 DEF AcquireHit, CacheTyped, FlightsTyped
<1>7. ASSUME NEW a \in Accounts, RemoveEntry(a)
      PROVE  /\ StoresTyped'
             /\ entries' \in [Accounts -> Stores \cup {NoStore}]
             /\ lru' \in Seq(Stores)
    <2>1. Without(lru, entries[a]) \in Seq(Stores)
        BY <1>1, WithoutType DEF CacheTyped
    <2>2. StoresTyped'
        BY <1>7, RetireType DEF RemoveEntry, StoresTyped
    <2> QED BY <1>1, <1>7, <2>1, <2>2 DEF RemoveEntry, CacheTyped
<1>8. ASSUME NEW p \in Callers, AcquireMiss(p)
      PROVE  CacheTyped' /\ StoresTyped' /\ CallersTyped' /\ FlightsTyped'
    <2> DEFINE next == [caller[p] EXCEPT !.pc = "join"]
    <2>1. next \in CallerState /\ next.pc = "join" /\ next.target = caller[p].target
          /\ next.lease = caller[p].lease
        BY <1>1 DEF CallersTyped, CallerState
    <2>2. caller[p].lease = NoStore /\ caller[p].target \in Targets
        BY <1>1, <1>8 DEF CallersTyped, AcquireMiss
    <2>3. caller' = [caller EXCEPT ![p] = next]
        BY <1>1, <1>8 DEF CallersTyped, AcquireMiss
    <2> HIDE DEF next
    <2>4. CallersTyped'
        BY <1>1, <2>1, <2>2, <2>3, CallerStepTyped
    <2>5. Account(caller[p].target) \in Accounts
        BY <2>2, SlotType
    <2> QED BY <1>1, <1>7, <1>8, <2>4, <2>5 DEF AcquireMiss, CacheTyped, StoresTyped, FlightsTyped
<1>9. ASSUME NEW p \in Callers, Join(p)
      PROVE  CacheTyped' /\ StoresTyped' /\ CallersTyped' /\ FlightsTyped'
    <2>1. PICK q \in Callers :
            /\ caller' = [caller EXCEPT ![p].pc = "wait", ![p].flight = q]
            /\ \/ flight' = flight
               \/ flight' = [flight EXCEPT ![p] = [NoFlight EXCEPT
                                !.pc = "peek", !.target = caller[p].target]]
        BY <1>9 DEF Join, InFlight
    <2> DEFINE next == [caller[p] EXCEPT !.pc = "wait", !.flight = q]
               started == [NoFlight EXCEPT !.pc = "peek", !.target = caller[p].target]
    <2>2. next \in CallerState /\ next.pc = "wait" /\ next.target = caller[p].target
          /\ next.lease = caller[p].lease
        BY <1>1 DEF CallersTyped, CallerState
    <2>3. caller[p].lease = NoStore /\ caller[p].target \in Targets
        BY <1>1, <1>9 DEF CallersTyped, Join
    <2>4. caller' = [caller EXCEPT ![p] = next]
        BY <1>1, <2>1 DEF CallersTyped
    <2>5. started \in FlightState /\ started.target \in Targets
        BY <2>3 DEF NoFlight, FlightState
    <2> HIDE DEF next, started
    <2>6. CallersTyped'
        BY <1>1, <2>2, <2>3, <2>4, CallerStepTyped
    <2>7. flight' = flight \/ flight' = [flight EXCEPT ![p] = started]
        BY <2>1 DEF started
    <2>8. FlightsTyped'
        BY <1>1, <2>5, <2>7 DEF FlightsTyped
    <2> QED BY <1>1, <1>9, <2>6, <2>8 DEF Join, CacheTyped, StoresTyped
<1>10. ASSUME NEW p \in Callers, Receive(p)
       PROVE  CacheTyped' /\ StoresTyped' /\ CallersTyped' /\ FlightsTyped'
    <2>1. caller[p].target \in Targets /\ flight[p].orphan \in Stores \cup {NoStore}
          /\ caller[p].lease = NoStore
        BY <1>1, <1>10 DEF Receive, CallersTyped, FlightsTyped, FlightState
    <2>2. CASE Done(p)
        BY <1>1, <1>10, <2>2, DoneTyped DEF Receive, CacheTyped, StoresTyped, FlightsTyped
    <2>3. CASE flight[p].orphan # NoStore /\ Borrow(p, flight[p].orphan, TRUE)
        BY <1>1, <1>10, <2>1, <2>3, BorrowTyped
        DEF Receive, CacheTyped, StoresTyped, FlightsTyped
    <2>4. CASE caller' = [caller EXCEPT ![p].pc = "acquire", ![p].flight = NoCaller,
                                        ![p].result = "none"]
        <3> DEFINE next == [caller[p] EXCEPT !.pc = "acquire", !.flight = NoCaller,
                                             !.result = "none"]
        <3>1. next \in CallerState /\ next.pc = "acquire" /\ next.target = caller[p].target
              /\ next.lease = caller[p].lease
            BY <1>1 DEF CallersTyped, CallerState
        <3>2. caller' = [caller EXCEPT ![p] = next]
            BY <1>1, <2>4 DEF CallersTyped
        <3> HIDE DEF next
        <3>3. CallersTyped'
            BY <1>1, <2>1, <3>1, <3>2, CallerStepTyped
        <3> QED BY <1>1, <1>10, <3>3 DEF Receive, CacheTyped, StoresTyped, FlightsTyped
    <2> QED BY <1>10, <2>2, <2>3, <2>4 DEF Receive
<1>11. ASSUME NEW p \in Callers, Release(p)
       PROVE  CacheTyped' /\ StoresTyped' /\ CallersTyped' /\ FlightsTyped'
    <2> DEFINE s == caller[p].lease
    <2>1. s \in Stores
        BY <1>1, <1>11 DEF Release, CallersTyped, CallerState
    <2>2. CallersTyped'
        BY <1>1, <1>11, DoneTyped DEF Release
    <2>3. store[s] \in StoreState /\ closing[s] \in Nat
        BY <1>1, <2>1 DEF StoresTyped
    <2>4. StoresTyped'
        <3>1. \A left \in Nat, done \in BOOLEAN :
                [store[s] EXCEPT !.refs = left, !.closed = done] \in StoreState
            BY <2>3 DEF StoreState
        <3>2. CASE caller[p].orphan
            BY <1>1, <1>11, <2>1, <2>3, <3>2 DEF Release, StoresTyped
        <3>3. CASE ~ caller[p].orphan
            <4> DEFINE left == IF store[s].refs > 0 THEN store[s].refs - 1 ELSE store[s].refs
                       last == store[s].retired /\ left = 0 /\ ~ store[s].closed
                       next == [store[s] EXCEPT !.refs = left, !.closed = @ \/ last]
            <4>1. left \in Nat /\ store[s].closed \in BOOLEAN
                BY <2>3 DEF StoreState
            <4>2. next = [store[s] EXCEPT !.refs = left, !.closed = (store[s].closed \/ last)]
                BY <2>3 DEF StoreState
            <4>3. next \in StoreState
                BY <3>1, <4>1, <4>2
            <4>4. store' = [store EXCEPT ![s] = next]
                BY <1>1, <1>11, <2>1, <3>3 DEF Release, StoresTyped
            <4>5. closing' \in [Stores -> Nat]
                BY <1>1, <1>11, <2>1, <2>3, <3>3 DEF Release, StoresTyped
            <4> HIDE DEF next
            <4> QED BY <1>1, <4>3, <4>4, <4>5 DEF StoresTyped
        <3> QED BY <3>2, <3>3
    <2> QED BY <1>1, <1>11, <2>2, <2>4 DEF Release, CacheTyped, FlightsTyped
<1>12. ASSUME NEW q \in Callers, Peek(q) \/ OpenFails(q)
       PROVE  CacheTyped' /\ StoresTyped' /\ CallersTyped' /\ FlightsTyped'
    <2>1. flight[q].pc # "none"
        BY <1>12 DEF Peek, OpenFails
    <2>2. CASE \E result \in {"ok", "error"} : Land(q, result, NoStore)
        BY <1>1, <1>12, <2>1, <2>2, LandTyped
        DEF Peek, OpenFails, CacheTyped, StoresTyped, CallersTyped
    <2>3. CASE flight' = [flight EXCEPT ![q].pc = "open"]
        <3> DEFINE next == [flight[q] EXCEPT !.pc = "open"]
        <3>1. next \in FlightState /\ next.target = flight[q].target
            BY <1>1 DEF FlightsTyped, FlightState
        <3>2. flight' = [flight EXCEPT ![q] = next]
            BY <1>1, <2>3 DEF FlightsTyped
        <3> HIDE DEF next
        <3>3. FlightsTyped'
            BY <1>1, <2>1, <3>1, <3>2 DEF FlightsTyped
        <3> QED BY <1>1, <1>12, <3>3 DEF Peek, OpenFails, CacheTyped, StoresTyped, CallersTyped
    <2> QED BY <1>12, <2>2, <2>3 DEF Peek, OpenFails
<1>13. ASSUME NEW q \in Callers, NEW s \in Stores, OpenRefused(q, s) \/ OpenOrphaned(q, s)
       PROVE  CacheTyped' /\ StoresTyped' /\ CallersTyped' /\ FlightsTyped'
    <2>1. flight[q].pc # "none"
        BY <1>13 DEF OpenRefused, OpenOrphaned, SlotLost
    <2>2. FlightsTyped'
        BY <1>1, <1>13, <2>1, LandTyped DEF OpenRefused, OpenOrphaned
    <2>3. Opened(q) \in StoreState
        BY <1>1, <2>1, OpenedTyped
    <2>4. StoresTyped'
        BY <1>1, <1>13, <2>3 DEF OpenRefused, OpenOrphaned, StoresTyped
    <2> QED BY <1>1, <1>13, <2>2, <2>4 DEF OpenRefused, OpenOrphaned, CacheTyped, CallersTyped
<1>14. ASSUME NEW q \in Callers, NEW s \in Stores, OpenCached(q, s)
       PROVE  CacheTyped' /\ StoresTyped' /\ CallersTyped' /\ FlightsTyped'
    <2> DEFINE order == <<s>> \o lru
               kept == IF Len(order) > Capacity THEN Capacity ELSE Len(order)
               victims == {order[i] : i \in (kept + 1)..Len(order)}
    <2>1. flight[q].pc # "none"
        BY <1>14 DEF OpenCached
    <2>2. FlightsTyped'
        BY <1>1, <1>14, <2>1, LandTyped DEF OpenCached
    <2>3. order \in Seq(Stores)
        BY <1>1 DEF CacheTyped
    <2>4. lru' \in Seq(Stores)
        <3>1. kept \in 0..Len(order)
            BY <2>3, CacheAssumption DEF CacheAssumption
        <3>2. lru' = SubSeq(order, 1, kept)
            BY <1>14 DEF OpenCached
        <3> HIDE DEF order, kept
        <3> QED BY <2>3, <3>1, <3>2
    <2>5. [Opened(q) EXCEPT !.lastUsed = now] \in StoreState
        <3>1. Opened(q) \in StoreState
            BY <1>1, <2>1, OpenedTyped
        <3> QED BY <1>1, <3>1 DEF StoreState, CacheTyped
    <2>6. \A t \in Stores : RetireEntry(t) \in StoreState
        BY <1>1 DEF StoresTyped, StoreState, RetireEntry, Closable
    <2>7. \A S : ClosingAfterRetiring(S) \in [Stores -> Nat]
        BY <1>1 DEF StoresTyped, ClosingAfterRetiring
    <2>8. StoresTyped'
        <3>1. store' = [t \in Stores |->
                    IF t = s THEN [Opened(q) EXCEPT !.lastUsed = now]
                    ELSE IF t \in victims THEN RetireEntry(t) ELSE store[t]]
            BY <1>14 DEF OpenCached
        <3>2. closing' = ClosingAfterRetiring(victims)
            BY <1>14 DEF OpenCached
        <3> HIDE DEF victims, kept, order
        <3> QED BY <1>1, <2>5, <2>6, <2>7, <3>1, <3>2 DEF StoresTyped
    <2>9. entries' \in [Accounts -> Stores \cup {NoStore}]
        <3>1. entries' = [b \in Accounts |->
                    IF \E v \in victims : Account(store[v].target) = b THEN NoStore
                    ELSE IF b = Account(flight[q].target) THEN s
                    ELSE entries[b]]
            BY <1>14 DEF OpenCached
        <3> HIDE DEF victims, kept, order
        <3> QED BY <1>1, <3>1 DEF CacheTyped
    <2> QED BY <1>1, <1>14, <2>2, <2>4, <2>8, <2>9 DEF OpenCached, CacheTyped, CallersTyped
<1>15. ASSUME NEW q \in Callers, Report(q)
       PROVE  CacheTyped' /\ StoresTyped' /\ CallersTyped' /\ FlightsTyped'
    <2>1. flight[q] \in FlightState
        BY <1>1 DEF FlightsTyped
    <2>2. [NoFlight EXCEPT !.orphan = flight[q].orphan] \in FlightState
        BY <2>1 DEF NoFlight, FlightState
    <2>3. FlightsTyped'
        BY <1>1, <1>15, <2>2 DEF Report, FlightsTyped, NoFlight
    <2>4. CallersTyped'
        <3>1. \A p \in Callers : [caller[p] EXCEPT !.result = flight[q].result] \in CallerState
            BY <1>1, <2>1 DEF CallersTyped, CallerState, FlightState
        <3>2. \A p \in Callers :
                /\ caller'[p] \in CallerState
                /\ caller'[p].pc = caller[p].pc
                /\ caller'[p].lease = caller[p].lease
                /\ caller'[p].target = caller[p].target
            BY <1>1, <1>15, <3>1 DEF Report, CallersTyped, CallerState
        <3>3. caller' \in [Callers -> CallerState]
            BY <1>15, <3>2 DEF Report
        <3> QED BY <1>1, <3>2, <3>3 DEF CallersTyped
    <2> QED BY <1>1, <1>15, <2>3, <2>4 DEF Report, CacheTyped, StoresTyped
<1>16. ASSUME NEW s \in Stores, CloseStore(s)
       PROVE  CacheTyped' /\ StoresTyped' /\ CallersTyped' /\ FlightsTyped'
    <2>1. [store[s] EXCEPT !.closes = @ + 1] \in StoreState
        BY <1>1 DEF StoresTyped, StoreState
    <2>2. store' = [store EXCEPT ![s] = [store[s] EXCEPT !.closes = @ + 1]]
        BY <1>1, <1>16 DEF CloseStore, StoresTyped
    <2>3. closing' \in [Stores -> Nat]
        BY <1>1, <1>16 DEF CloseStore, StoresTyped
    <2>4. StoresTyped'
        BY <1>1, <2>1, <2>2, <2>3 DEF StoresTyped
    <2> QED BY <1>1, <1>16, <2>4 DEF CloseStore, CacheTyped, CallersTyped, FlightsTyped
<1>17. ASSUME NEW a \in Accounts, Evict(a)
       PROVE  CacheTyped' /\ StoresTyped' /\ CallersTyped' /\ FlightsTyped'
    BY <1>1, <1>7, <1>17 DEF Evict, CacheTyped, CallersTyped, FlightsTyped
<1>18. ASSUME Close
       PROVE  CacheTyped' /\ StoresTyped' /\ CallersTyped' /\ FlightsTyped'
    <2>1. StoresTyped'
        BY <1>18, RetireType DEF Close, StoresTyped
    <2>2. lru' \in Seq(Stores)
        BY <1>18 DEF Close
    <2> QED BY <1>1, <1>18, <2>1, <2>2 DEF Close, CacheTyped, CallersTyped, FlightsTyped
<1>19. ASSUME Tick
       PROVE  CacheTyped' /\ StoresTyped' /\ CallersTyped' /\ FlightsTyped'
    <2>1. now' \in 0..MaxTime
        BY <1>1, <1>19, CacheAssumption DEF CacheAssumption, Tick, CacheTyped
    <2> QED BY <1>1, <1>19, <2>1 DEF Tick, CacheTyped, StoresTyped, CallersTyped, FlightsTyped
<1> QED
    BY <1>2, <1>3, <1>4, <1>5, <1>6, <1>8, <1>9, <1>10, <1>11, <1>12, <1>13, <1>14, <1>15,
       <1>16, <1>17, <1>18, <1>19
    DEF Next, CallerStep, FlightStep

\* The store, the callers and the opens keep the types that the code declares.
THEOREM CacheIsTyped == Spec => []TypeOK
<1>1. Spec => []Typed
    BY InitTyped, StepTyped, PTL DEF Spec
<1>2. Typed => TypeOK
    BY DEF Typed
<1> QED BY <1>1, <1>2, PTL

-----------------------------------------------------------------------------
(* The inductive invariant *)

InList(s) == s \in Elements(lru)

\* The calls of Close made or decided so far.
Sum(s) == store[s].closes + closing[s]

\* Opened, but neither in the cache nor retired from it: a store that was
\* refused, or that is its caller's own.
Private(s) == ~ store[s].retired /\ ~ InList(s)

\* The bookkeeping of a store.  A retired store is in somebody's charge as
\* soon as nobody borrows it, and no earlier; a cached one is in nobody's.
StoreInv(s) ==
    /\ store[s].refs = Cardinality(Borrowers(s))
    /\ store[s].target = NoTarget => Private(s) /\ Sum(s) = 0
    /\ InList(s) => ~ store[s].retired /\ ~ store[s].closed /\ Sum(s) = 0
    /\ store[s].retired =>
            /\ store[s].closed <=> (store[s].refs = 0)
            /\ Sum(s) = IF store[s].closed THEN 1 ELSE 0
    /\ Private(s) =>
            /\ store[s].refs = 0 /\ ~ store[s].closed
            /\ Sum(s) \in {0, 1}
            /\ store[s].target # NoTarget /\ Sum(s) = 0 =>
                    \E p \in Callers : flight[p].orphan = s

\* The map and the recency list name the same stores.
SlotInv ==
    /\ Distinct(lru)
    /\ Len(lru) <= Capacity
    /\ \A a \in Accounts : entries[a] # NoStore =>
            InList(entries[a]) /\ Account(store[entries[a]].target) = a
    /\ \A s \in Stores : InList(s) => entries[Account(store[s].target)] = s

\* The orphan s of an open that p started: p still waits for it, uses it or
\* is done; only if p was cancelled can it be done without closing s.
OrphanInv(p, s) ==
    /\ store[s].target # NoTarget
    /\ Private(s)
    /\ flight[p].pc \in {"none", "report"}
    /\ flight[p].pc = "report" => flight[p].result = "ok"
    /\ \/ /\ caller[p].pc = "wait" /\ caller[p].flight = p
          /\ store[s].target = caller[p].target
          /\ flight[p].pc = "none" => caller[p].result = "ok"
          /\ Sum(s) = 0
       \/ /\ caller[p].pc = "using" /\ caller[p].orphan /\ caller[p].lease = s
          /\ Sum(s) = 0
       \/ caller[p].pc = "done" /\ (caller[p].cancelled \/ Sum(s) = 1)

\* A call, and the open it started: the caller of an open waits for it, or was
\* cancelled.
CallerInv(p) ==
    /\ caller[p].pc = "using" =>
            /\ store[caller[p].lease].target = caller[p].target
            /\ caller[p].orphan => flight[p].orphan = caller[p].lease
    /\ caller[p].pc # "wait" => caller[p].result = "none"
    /\ flight[p].pc # "none" =>
            \/ /\ caller[p].pc = "wait" /\ caller[p].flight = p
               /\ caller[p].result = "none"
               /\ caller[p].target = flight[p].target
            \/ caller[p].pc = "done" /\ caller[p].cancelled
    /\ flight[p].orphan # NoStore => OrphanInv(p, flight[p].orphan)

OrphansDistinct ==
    \A p, q \in Callers :
        (flight[p].orphan = flight[q].orphan /\ flight[p].orphan # NoStore) => p = q

IInv ==
    /\ Typed
    /\ \A s \in Stores : StoreInv(s)
    /\ SlotInv
    /\ \A p \in Callers : CallerInv(p)
    /\ OrphansDistinct
-----------------------------------------------------------------------------
(* What it implies *)

LEMMA SumType ==
    ASSUME Typed, NEW s \in Stores
    PROVE  /\ Sum(s) \in Nat /\ store[s].closes \in Nat /\ closing[s] \in Nat
           /\ store[s] \in StoreState /\ store[s].refs \in Nat
           /\ s # NoStore
<1>1. store[s] \in StoreState /\ closing[s] \in Nat
    BY DEF Typed, TypeOK
<1>2. store[s].closes \in Nat /\ store[s].refs \in Nat
    BY <1>1 DEF StoreState
<1> QED BY <1>1, <1>2, CacheAssumption DEF Sum, CacheAssumption

LEMMA BorrowersFinite ==
    ASSUME NEW s
    PROVE  IsFiniteSet(Borrowers(s)) /\ Cardinality(Borrowers(s)) \in Nat
<1>1. Borrowers(s) \subseteq Callers
    BY DEF Borrowers
<1> QED BY <1>1, CacheAssumption, FS_Subset, FS_CardinalityType DEF CacheAssumption

\* Somebody borrows s when its count is positive, and only then.
LEMMA BorrowedCount ==
    ASSUME Typed, NEW s \in Stores, StoreInv(s)
    PROVE  store[s].refs = 0 <=> Borrowers(s) = {}
BY BorrowersFinite, FS_EmptySet DEF StoreInv

\* The store of a lease is not being closed.
LEMMA LeaseIsOpen ==
    ASSUME IInv, NEW p \in Callers, caller[p].pc = "using"
    PROVE  LET s == caller[p].lease IN
           /\ s \in Stores
           /\ store[s].target = caller[p].target /\ store[s].target \in Targets
           /\ Sum(s) = 0
<1> DEFINE s == caller[p].lease
<1>1. s \in Stores
    BY DEF IInv, Typed, TypeOK, CallerState
<1>2. store[s].target = caller[p].target /\ caller[p].target \in Targets
    BY DEF IInv, CallerInv, Typed
<1>3. StoreInv(s)
    BY <1>1 DEF IInv
<1>4. CASE caller[p].orphan
    <2>1. flight[p].orphan = s
        BY <1>4 DEF IInv, CallerInv
    <2>2. OrphanInv(p, s)
        BY <1>1, <2>1, SumType DEF IInv, CallerInv
    <2> QED BY <1>1, <1>2, <2>2 DEF OrphanInv
<1>5. CASE ~ caller[p].orphan
    <2>1. p \in Borrowers(s)
        BY <1>5 DEF Borrowers
    <2>2. store[s].refs # 0
        BY <1>1, <1>3, <2>1, BorrowedCount DEF IInv
    <2> QED BY <1>1, <1>2, <1>3, <2>2 DEF StoreInv, Private
<1> QED BY <1>4, <1>5

LEMMA InvSafe ==
    ASSUME IInv
    PROVE  BorrowedStaysOpen /\ ClosedOnce /\ RightStore
<1>1. BorrowedStaysOpen
    BY LeaseIsOpen, SumType DEF IInv, BorrowedStaysOpen, Sum
<1>2. ClosedOnce
    <2> SUFFICES ASSUME NEW s \in Stores PROVE Sum(s) <= 1
        BY DEF ClosedOnce, Sum
    <2>1. StoreInv(s)
        BY DEF IInv
    <2>2. CASE store[s].retired
        BY <2>1, <2>2, SumType DEF IInv, StoreInv
    <2>3. CASE ~ store[s].retired
        BY <2>1, <2>3, SumType DEF IInv, StoreInv, Private
    <2> QED BY <2>2, <2>3
<1>3. RightStore
    BY LeaseIsOpen DEF RightStore
<1> QED BY <1>1, <1>2, <1>3

LEMMA InvConsistent ==
    ASSUME IInv
    PROVE  CacheConsistent
<1>1. SlotInv /\ Typed
    BY DEF IInv
<1>2. Cached = {s \in Stores : InList(s)}
    BY DEF Cached, InList, Elements
<1>3. Cached = {entries[a] : a \in Accounts} \ {NoStore}
    <2>1. ASSUME NEW s \in Stores, InList(s)
          PROVE  s \in {entries[a] : a \in Accounts} \ {NoStore}
        <3>1. store[s].target # NoTarget
            BY <2>1 DEF IInv, StoreInv, Private
        <3>2. store[s].target \in Targets
            BY <1>1, <3>1, SumType DEF StoreState
        <3>3. Account(store[s].target) \in Accounts
            BY <1>1, <3>2, SlotType
        <3> QED BY <1>1, <2>1, <3>3, SumType DEF SlotInv
    <2>2. ASSUME NEW a \in Accounts, entries[a] # NoStore
          PROVE  entries[a] \in Stores /\ InList(entries[a])
        BY <1>1, <2>2 DEF SlotInv, Typed, TypeOK
    <2> QED BY <1>2, <2>1, <2>2
<1>4. \A a \in Accounts : entries[a] # NoStore =>
        /\ Account(store[entries[a]].target) = a
        /\ ~ store[entries[a]].retired
    BY <1>1 DEF IInv, SlotInv, StoreInv, Typed, TypeOK
<1> QED BY <1>1, <1>3, <1>4 DEF CacheConsistent, SlotInv, Distinct

LEMMA InvLeak ==
    ASSUME IInv
    PROVE  OnlyAbandonedStoresLeak
<1> SUFFICES ASSUME NEW s \in Stores, store[s].target # NoTarget, store[s].closes = 0,
                    closing[s] = 0, ~ InList(s)
             PROVE  Owned(s) \/ Abandoned(s)
    <2>1. \A t \in Stores : InList(t) => t \in Cached
        BY DEF InList, Elements, Cached
    <2>2. \A t \in Stores : closing[t] = 0 \/ closing[t] > 0
        BY SumType DEF IInv
    <2> QED BY <2>1, <2>2 DEF OnlyAbandonedStoresLeak, Owned
<1>1. StoreInv(s) /\ Sum(s) = 0 /\ Typed
    BY DEF IInv, Sum
<1>2. CASE store[s].retired
    <2>1. store[s].refs # 0
        BY <1>1, <1>2 DEF StoreInv
    <2>2. PICK p \in Callers : caller[p].lease = s
        BY <1>1, <2>1, BorrowedCount DEF Borrowers
    <2> QED BY <2>2 DEF Owned
<1>3. CASE ~ store[s].retired
    <2>1. PICK p \in Callers : flight[p].orphan = s
        BY <1>1, <1>3 DEF StoreInv, Private
    <2>2. OrphanInv(p, s)
        BY <1>1, <2>1, SumType DEF IInv, CallerInv
    <2> QED BY <1>1, <2>1, <2>2 DEF OrphanInv, Owned, Abandoned
<1> QED BY <1>2, <1>3
-----------------------------------------------------------------------------
(* What a step leaves alone *)

\* IInv without the types, which StepTyped keeps.
Books ==
    /\ \A s \in Stores : StoreInv(s)
    /\ SlotInv
    /\ \A p \in Callers : CallerInv(p)
    /\ OrphansDistinct

\* A store whose entry and whose borrowers do not change.
LEMMA StoreFrame ==
    ASSUME NEW s \in Stores, StoreInv(s),
           store'[s].refs = store[s].refs, store'[s].target = store[s].target,
           store'[s].retired = store[s].retired, store'[s].closed = store[s].closed,
           Sum(s)' = Sum(s), InList(s)' <=> InList(s), Borrowers(s)' = Borrowers(s),
           \A p \in Callers : flight[p].orphan = s => flight'[p].orphan = s
    PROVE  StoreInv(s)'
BY DEF StoreInv, Private

\* Opened stores keep their targets, and the private ones stay as they are.
StoresKept ==
    \A s \in Stores : store[s].target # NoTarget =>
        /\ store'[s].target = store[s].target
        /\ Private(s) => Private(s)' /\ Sum(s)' = Sum(s)

LEMMA OrphanType ==
    ASSUME Typed, NEW p \in Callers
    PROVE  flight[p].orphan # NoStore => flight[p].orphan \in Stores
BY DEF Typed, TypeOK, FlightState

LEMMA LeaseType ==
    ASSUME Typed, NEW p \in Callers, caller[p].pc = "using"
    PROVE  caller[p].lease \in Stores
BY DEF Typed, TypeOK, CallerState

LEMMA ListType ==
    ASSUME Typed
    PROVE  Elements(lru) \subseteq Stores
BY DEF Typed, TypeOK, Elements

\* A call that the step does not touch.
LEMMA CallerFrame ==
    ASSUME IInv, StoresKept, NEW p \in Callers,
           caller'[p] = caller[p], flight'[p] = flight[p]
    PROVE  CallerInv(p)'
<1>1. CallerInv(p) /\ Typed
    BY DEF IInv
<1>2. ASSUME flight[p].orphan # NoStore
      PROVE  OrphanInv(p, flight[p].orphan)'
    <2>1. PICK s \in Stores : s = flight[p].orphan
        BY <1>1, <1>2, OrphanType
    <2>2. OrphanInv(p, s)
        BY <1>1, <1>2, <2>1 DEF CallerInv
    <2>3. store[s].target # NoTarget /\ Private(s)
        BY <2>2 DEF OrphanInv
    <2>4. store'[s].target = store[s].target /\ Private(s)' /\ Sum(s)' = Sum(s)
        BY <2>3 DEF StoresKept
    <2>5. OrphanInv(p, s)'
        BY <2>2, <2>4 DEF OrphanInv
    <2>6. (flight[p].orphan)' = s
        BY <2>1
    <2> QED BY <2>5, <2>6
<1>3. ASSUME caller[p].pc = "using"
      PROVE  store'[caller[p].lease].target = store[caller[p].lease].target
    BY <1>3, LeaseIsOpen, CacheAssumption DEF StoresKept, CacheAssumption
<1> QED BY <1>1, <1>2, <1>3 DEF CallerInv

LEMMA SlotFrame ==
    ASSUME SlotInv, entries' = entries, Distinct(lru'), Len(lru') = Len(lru),
           Elements(lru') = Elements(lru),
           \A s \in Elements(lru) : store'[s].target = store[s].target,
           \A a \in Accounts : entries[a] # NoStore => entries[a] \in Stores
    PROVE  SlotInv'
BY DEF SlotInv, InList

\* A step of a call that borrows no cached store before or after it.
LEMMA BorrowersFrame ==
    ASSUME NEW p \in Callers, NEW s,
           \A q \in Callers \ {p} : caller'[q] = caller[q],
           ~ (caller[p].pc = "using" /\ ~ caller[p].orphan),
           ~ (caller'[p].pc = "using" /\ ~ caller'[p].orphan)
    PROVE  Borrowers(s)' = Borrowers(s)
BY DEF Borrowers

\* A step that touches neither the cache nor the stores.
LEMMA QuietFrame ==
    ASSUME IInv, UNCHANGED <<entries, lru, store, closing>>,
           \A s \in Stores : Borrowers(s)' = Borrowers(s),
           \A p \in Callers : flight'[p].orphan = flight[p].orphan
    PROVE  /\ \A s \in Stores : StoreInv(s)'
           /\ SlotInv'
           /\ OrphansDistinct'
           /\ StoresKept
<1>1. \A s \in Stores : (InList(s)' <=> InList(s)) /\ Sum(s)' = Sum(s)
    BY DEF InList, Sum
<1>2. \A s \in Stores : StoreInv(s)'
    BY <1>1, StoreFrame DEF IInv
<1>3. SlotInv'
    BY SlotFrame DEF IInv, SlotInv, Typed, TypeOK
<1>4. OrphansDistinct'
    BY DEF IInv, OrphansDistinct
<1>5. StoresKept
    BY <1>1 DEF StoresKept, Private
<1> QED BY <1>2, <1>3, <1>4, <1>5

\* A call that has not started an open, or whose open is over.
LEMMA NoOpen ==
    ASSUME IInv, NEW p \in Callers, caller[p].pc \in {"idle", "acquire", "join"}
    PROVE  flight[p].pc = "none" /\ flight[p].orphan = NoStore
<1>1. CallerInv(p)
    BY DEF IInv
<1>2. flight[p].pc = "none"
    BY <1>1 DEF CallerInv
<1>3. flight[p].orphan = NoStore
    BY <1>1 DEF CallerInv, OrphanInv
<1> QED BY <1>2, <1>3

LEMMA NoOrphanYet ==
    ASSUME IInv, NEW q \in Callers, flight[q].pc \in {"peek", "open"}
    PROVE  flight[q].orphan = NoStore
BY DEF IInv, CallerInv, OrphanInv
-----------------------------------------------------------------------------
(* Steps that touch neither the cache nor the stores *)

\* One call, or the open it started, moves on.
LEMMA OneCallFrame ==
    ASSUME IInv, UNCHANGED <<entries, lru, store, closing>>, NEW p \in Callers,
           \A q \in Callers \ {p} : caller'[q] = caller[q] /\ flight'[q] = flight[q],
           flight'[p].orphan = flight[p].orphan,
           ~ (caller[p].pc = "using" /\ ~ caller[p].orphan),
           ~ (caller'[p].pc = "using" /\ ~ caller'[p].orphan),
           CallerInv(p)'
    PROVE  Books'
<1>1. \A s \in Stores : Borrowers(s)' = Borrowers(s)
    BY BorrowersFrame
<1>2. \A q \in Callers : flight'[q].orphan = flight[q].orphan
    OBVIOUS
<1>3. /\ \A s \in Stores : StoreInv(s)'
      /\ SlotInv' /\ OrphansDistinct' /\ StoresKept
    BY <1>1, <1>2, QuietFrame
<1>4. \A q \in Callers : CallerInv(q)'
    BY <1>3, CallerFrame
<1> QED BY <1>3, <1>4 DEF Books

LEMMA CallBooks ==
    ASSUME IInv, NEW p \in Callers, Call(p)
    PROVE  Books'
<1>1. caller \in [Callers -> CallerState]
    BY DEF IInv, Typed, TypeOK
<1>2. caller[p].pc = "idle" /\ UNCHANGED <<entries, lru, store, closing, flight>>
    BY DEF Call, cache
<1>3. /\ caller'[p].pc = "acquire" /\ caller'[p].result = caller[p].result
      /\ \A q \in Callers \ {p} : caller'[q] = caller[q]
    BY <1>1 DEF Call, CallerState
<1>4. CallerInv(p)'
    BY <1>2, <1>3, NoOpen DEF IInv, CallerInv
<1> QED BY <1>2, <1>3, <1>4, OneCallFrame

LEMMA CancelBooks ==
    ASSUME IInv, NEW p \in Callers, Cancel(p)
    PROVE  Books'
<1>1. caller \in [Callers -> CallerState] /\ CallerInv(p)
    BY DEF IInv, Typed, TypeOK
<1>2. /\ caller[p].pc \in {"acquire", "join", "wait"}
      /\ UNCHANGED <<entries, lru, store, closing, flight>>
    BY DEF Cancel, cache
<1>3. /\ caller'[p].pc = caller[p].pc /\ caller'[p].flight = caller[p].flight
      /\ caller'[p].result = caller[p].result /\ caller'[p].target = caller[p].target
      /\ \A q \in Callers \ {p} : caller'[q] = caller[q]
    BY <1>1 DEF Cancel, CallerState
<1>4. CallerInv(p)'
    BY <1>1, <1>2, <1>3 DEF CallerInv, OrphanInv, Private, InList, Sum
<1> QED BY <1>2, <1>3, <1>4, OneCallFrame

\* What Done leaves of a call.
LEMMA DoneFacts ==
    ASSUME Typed, NEW p \in Callers, Done(p)
    PROVE  /\ caller'[p].pc = "done" /\ caller'[p].cancelled = caller[p].cancelled
           /\ caller'[p].result = "none"
           /\ \A q \in Callers \ {p} : caller'[q] = caller[q]
BY DEF Typed, TypeOK, CallerState, Done, NoCall

LEMMA FailBooks ==
    ASSUME IInv, NEW p \in Callers, AcquireFails(p) \/ GiveUp(p)
    PROVE  Books'
<1>1. /\ caller'[p].pc = "done" /\ caller'[p].cancelled = caller[p].cancelled
      /\ caller'[p].result = "none"
      /\ \A q \in Callers \ {p} : caller'[q] = caller[q]
    BY DoneFacts DEF IInv, AcquireFails, GiveUp
<1>2. /\ caller[p].pc \in {"acquire", "wait"}
      /\ UNCHANGED <<entries, lru, store, closing, flight>>
    BY DEF AcquireFails, GiveUp, cache
<1>3. CallerInv(p)'
    <2>1. CASE AcquireFails(p)
        BY <1>1, <1>2, <2>1, NoOpen DEF AcquireFails, CallerInv
    <2>2. CASE GiveUp(p)
        <3>1. CallerInv(p) /\ caller[p].cancelled
            BY <2>2 DEF IInv, GiveUp
        <3> QED BY <1>1, <1>2, <3>1 DEF CallerInv, OrphanInv, Private, InList, Sum
    <2> QED BY <2>1, <2>2
<1> QED BY <1>1, <1>2, <1>3, OneCallFrame

LEMMA JoinBooks ==
    ASSUME IInv, NEW p \in Callers, Join(p)
    PROVE  Books'
<1>1. caller \in [Callers -> CallerState] /\ flight \in [Callers -> FlightState]
    BY DEF IInv, Typed, TypeOK
<1>2. caller[p].pc = "join" /\ UNCHANGED <<entries, lru, store, closing>>
    BY DEF Join, cache
<1>3. flight[p].pc = "none" /\ flight[p].orphan = NoStore
    BY <1>2, NoOpen
<1>4. caller'[p].pc = "wait" /\ \A q \in Callers \ {p} : caller'[q] = caller[q]
    BY <1>1 DEF Join, CallerState
<1>5. CASE flight' = flight
    <2>1. CallerInv(p)'
        BY <1>3, <1>4, <1>5 DEF CallerInv
    <2> QED BY <1>2, <1>4, <1>5, <2>1, OneCallFrame
<1>6. CASE flight' # flight
    <2>1. /\ caller' = [caller EXCEPT ![p].pc = "wait", ![p].flight = p]
          /\ flight' = [flight EXCEPT ![p] = [NoFlight EXCEPT
                            !.pc = "peek", !.target = caller[p].target]]
        BY <1>6 DEF Join
    <2>2. /\ caller'[p].flight = p /\ caller'[p].result = "none"
          /\ caller'[p].target = caller[p].target
        BY <1>1, <1>2, <2>1 DEF CallerState, IInv, CallerInv
    <2>3. /\ flight'[p].pc = "peek" /\ flight'[p].target = caller[p].target
          /\ flight'[p].orphan = NoStore
          /\ \A q \in Callers \ {p} : flight'[q] = flight[q]
        BY <1>1, <2>1 DEF NoFlight
    <2>4. CallerInv(p)'
        BY <1>4, <2>2, <2>3 DEF CallerInv
    <2> QED BY <1>2, <1>3, <1>4, <2>3, <2>4, OneCallFrame
<1> QED BY <1>5, <1>6
LEMMA ReceiveBooks ==
    ASSUME IInv, NEW p \in Callers, Receive(p)
    PROVE  Books'
<1>1. caller \in [Callers -> CallerState] /\ CallerInv(p)
    BY DEF IInv, Typed, TypeOK
<1>2. /\ caller[p].pc = "wait" /\ caller[p].result \in {"ok", "error"}
      /\ UNCHANGED <<entries, lru, store, closing, flight>>
    BY DEF Receive, cache
<1>3. flight[p].pc = "none"
    BY <1>1, <1>2 DEF CallerInv
<1>4. flight[p].orphan # NoStore =>
        /\ OrphanInv(p, flight[p].orphan)
        /\ caller[p].flight = p /\ caller[p].result = "ok"
    BY <1>1, <1>2, <1>3 DEF CallerInv, OrphanInv
<1>5. CASE caller[p].result = "error" /\ Done(p)
    <2>1. /\ caller'[p].pc = "done" /\ caller'[p].result = "none"
          /\ \A q \in Callers \ {p} : caller'[q] = caller[q]
        BY <1>5, DoneFacts DEF IInv
    <2>2. CallerInv(p)'
        BY <1>2, <1>3, <1>4, <1>5, <2>1 DEF CallerInv
    <2> QED BY <1>2, <2>1, <2>2, OneCallFrame
<1>6. CASE flight[p].orphan # NoStore /\ Borrow(p, flight[p].orphan, TRUE)
    <2>1. PICK s \in Stores : s = flight[p].orphan
        BY <1>6, OrphanType DEF IInv
    <2>2. /\ caller'[p].pc = "using" /\ caller'[p].orphan = TRUE /\ caller'[p].lease = s
          /\ caller'[p].target = caller[p].target /\ caller'[p].result = "none"
          /\ \A q \in Callers \ {p} : caller'[q] = caller[q]
        BY <1>1, <1>6, <2>1 DEF Borrow, CallerState
    <2>3. OrphanInv(p, s)
        BY <1>4, <1>6, <2>1
    <2>4. OrphanInv(p, s)'
        BY <1>2, <1>3, <2>2, <2>3 DEF OrphanInv, Private, InList, Sum
    <2>5. store'[s].target = caller'[p].target
        BY <1>2, <2>2, <2>3 DEF OrphanInv
    <2>6. (flight[p].orphan)' = s /\ (flight[p].pc)' = "none"
        BY <1>2, <1>3, <2>1
    <2>7. CallerInv(p)'
        BY <2>2, <2>4, <2>5, <2>6 DEF CallerInv
    <2> QED BY <1>2, <2>2, <2>7, OneCallFrame
<1>7. CASE /\ ~ (caller[p].flight = p /\ flight[p].orphan # NoStore)
           /\ caller' = [caller EXCEPT ![p].pc = "acquire", ![p].flight = NoCaller,
                                       ![p].result = "none"]
    <2>1. /\ caller'[p].pc = "acquire" /\ caller'[p].result = "none"
          /\ \A q \in Callers \ {p} : caller'[q] = caller[q]
        BY <1>1, <1>7 DEF CallerState
    <2>2. CallerInv(p)'
        BY <1>2, <1>3, <1>4, <1>7, <2>1 DEF CallerInv
    <2> QED BY <1>2, <2>1, <2>2, OneCallFrame
<1> QED BY <1>5, <1>6, <1>7 DEF Receive

LEMMA LandFacts ==
    ASSUME Typed, NEW q \in Callers, NEW result, NEW orphan, Land(q, result, orphan)
    PROVE  /\ flight'[q].pc = "report" /\ flight'[q].result = result
           /\ flight'[q].orphan = orphan /\ flight'[q].target = flight[q].target
           /\ \A p \in Callers \ {q} : flight'[p] = flight[p]
BY DEF Typed, TypeOK, FlightState, Land

LEMMA PeekBooks ==
    ASSUME IInv, NEW q \in Callers, Peek(q) \/ OpenFails(q)
    PROVE  Books'
<1>1. flight \in [Callers -> FlightState] /\ CallerInv(q)
    BY DEF IInv, Typed, TypeOK
<1>2. /\ flight[q].pc \in {"peek", "open"}
      /\ UNCHANGED <<entries, lru, store, closing, caller>>
    BY DEF Peek, OpenFails, cache
<1>3. flight[q].orphan = NoStore
    BY <1>2, NoOrphanYet
<1>4. /\ flight'[q].pc # "none" /\ flight'[q].orphan = NoStore
      /\ flight'[q].target = flight[q].target
      /\ \A p \in Callers \ {q} : flight'[p] = flight[p]
    <2>1. CASE \E result \in {"ok", "error"} : Land(q, result, NoStore)
        BY <2>1, LandFacts DEF IInv
    <2>2. CASE flight' = [flight EXCEPT ![q].pc = "open"]
        BY <1>1, <1>3, <2>2 DEF FlightState
    <2> QED BY <2>1, <2>2 DEF Peek, OpenFails
<1>5. CallerInv(q)'
    BY <1>1, <1>2, <1>3, <1>4 DEF CallerInv
<1>6. ~ (caller[q].pc = "using" /\ ~ caller[q].orphan)
    BY <1>1, <1>2 DEF CallerInv
<1> QED BY <1>2, <1>3, <1>4, <1>5, <1>6, OneCallFrame

LEMMA ReportBooks ==
    ASSUME IInv, NEW q \in Callers, Report(q)
    PROVE  Books'
<1>1. /\ caller \in [Callers -> CallerState] /\ flight \in [Callers -> FlightState]
      /\ \A p \in Callers : CallerInv(p)
    BY DEF IInv, Typed, TypeOK
<1>2. flight[q].pc = "report" /\ UNCHANGED <<entries, lru, store, closing>>
    BY DEF Report, cache
<1>3. /\ flight'[q].pc = "none" /\ flight'[q].orphan = flight[q].orphan
      /\ \A p \in Callers \ {q} : flight'[p] = flight[p]
    BY <1>1 DEF Report, NoFlight
<1>4. \A p \in Callers :
        /\ caller'[p].pc = caller[p].pc /\ caller'[p].flight = caller[p].flight
        /\ caller'[p].target = caller[p].target /\ caller'[p].lease = caller[p].lease
        /\ caller'[p].orphan = caller[p].orphan
        /\ caller'[p].cancelled = caller[p].cancelled
        /\ caller'[p].result =
                IF caller[p].pc = "wait" /\ caller[p].flight = q /\ caller[p].result = "none"
                THEN flight[q].result ELSE caller[p].result
    BY <1>1 DEF Report, CallerState
<1>5. \A s \in Stores : Borrowers(s)' = Borrowers(s)
    BY <1>4 DEF Borrowers
<1>6. /\ \A s \in Stores : StoreInv(s)'
      /\ SlotInv' /\ OrphansDistinct' /\ StoresKept
    BY <1>2, <1>3, <1>5, QuietFrame
<1>7. ASSUME NEW p \in Callers
      PROVE  CallerInv(p)'
    <2>1. CallerInv(p)
        BY <1>1
    <2>2. flight'[p].pc # "none" => p # q /\ flight'[p] = flight[p]
        BY <1>3
    <2>3. (caller[p].pc = "using" => store'[caller[p].lease].target = store[caller[p].lease].target)
        BY <1>2
    <2>4. ASSUME flight[p].orphan # NoStore
          PROVE  OrphanInv(p, flight[p].orphan)'
        <3>1. PICK s \in Stores : s = flight[p].orphan
            BY <2>4, OrphanType DEF IInv
        <3>2. OrphanInv(p, s)
            BY <2>1, <2>4, <3>1 DEF CallerInv
        <3>3. Private(s)' /\ Sum(s)' = Sum(s) /\ store'[s].target = store[s].target
            BY <1>2, <3>2 DEF OrphanInv, Private, InList, Sum
        <3>4. OrphanInv(p, s)'
            <4>1. CASE p = q
                <5>1. flight[p].result = "ok" /\ flight'[p].pc = "none"
                    BY <1>2, <1>3, <3>2, <4>1 DEF OrphanInv
                <5>2. caller[p].pc = "wait" => caller'[p].result = "ok"
                    BY <1>2, <1>4, <2>1, <4>1, <5>1 DEF CallerInv
                <5> QED BY <1>4, <3>2, <3>3, <5>1, <5>2 DEF OrphanInv
            <4>2. CASE p # q
                <5>1. flight'[p] = flight[p]
                    BY <1>3, <4>2
                <5>2. caller[p].pc = "wait" /\ caller[p].flight = p =>
                        caller'[p].result = caller[p].result
                    BY <1>4, <4>2
                <5> QED BY <1>4, <3>2, <3>3, <5>1, <5>2 DEF OrphanInv
            <4> QED BY <4>1, <4>2
        <3>5. (flight[p].orphan)' = s
            BY <1>3, <3>1
        <3> QED BY <3>4, <3>5
    <2>5. flight'[p].orphan = flight[p].orphan
        BY <1>3
    <2>6. caller[p].pc # "wait" => caller'[p].result = "none"
        BY <1>4, <2>1 DEF CallerInv
    <2>7. caller[p].pc = "using" => caller'[p].pc = "using"
            /\ store'[caller'[p].lease].target = caller'[p].target
            /\ (caller'[p].orphan => flight'[p].orphan = caller'[p].lease)
        BY <1>2, <1>4, <2>1, <2>5 DEF CallerInv
    <2>8. flight'[p].pc # "none" =>
            \/ /\ caller'[p].pc = "wait" /\ caller'[p].flight = p
               /\ caller'[p].result = "none"
               /\ caller'[p].target = flight'[p].target
            \/ caller'[p].pc = "done" /\ caller'[p].cancelled
        BY <1>4, <2>1, <2>2 DEF CallerInv
    <2> QED BY <1>4, <2>4, <2>5, <2>6, <2>7, <2>8 DEF CallerInv
<1> QED BY <1>6, <1>7 DEF Books

LEMMA TickBooks ==
    ASSUME IInv, Tick \/ UNCHANGED cacheVars
    PROVE  Books'
<1>1. UNCHANGED <<entries, lru, store, closing, caller, flight>>
    BY DEF Tick, cacheVars, cache
<1>2. \A s \in Stores : Borrowers(s)' = Borrowers(s)
    BY <1>1 DEF Borrowers
<1>3. /\ \A s \in Stores : StoreInv(s)'
      /\ SlotInv' /\ OrphansDistinct' /\ StoresKept
    BY <1>1, <1>2, QuietFrame
<1>4. \A p \in Callers : CallerInv(p)'
    BY <1>1, <1>3, CallerFrame
<1> QED BY <1>3, <1>4 DEF Books

-----------------------------------------------------------------------------
(* Steps that touch a store and not the cache *)

LEMMA CloseStoreBooks ==
    ASSUME IInv, NEW s \in Stores, CloseStore(s)
    PROVE  Books'
<1>1. /\ store \in [Stores -> StoreState] /\ closing \in [Stores -> Nat]
      /\ UNCHANGED <<entries, lru, caller, flight>> /\ closing[s] > 0
    BY DEF IInv, Typed, TypeOK, CloseStore, cache
<1>2. \A t \in Stores :
        /\ store'[t].refs = store[t].refs /\ store'[t].target = store[t].target
        /\ store'[t].retired = store[t].retired /\ store'[t].closed = store[t].closed
    BY <1>1 DEF CloseStore, StoreState
<1>3. \A t \in Stores : Sum(t)' = Sum(t)
    <2>1. closing'[s] = closing[s] - 1 /\ store'[s].closes = store[s].closes + 1
        BY <1>1 DEF CloseStore, StoreState
    <2>2. Sum(s)' = Sum(s)
        BY <2>1, SumType DEF Sum, IInv
    <2>3. \A t \in Stores \ {s} : closing'[t] = closing[t] /\ store'[t] = store[t]
        BY <1>1 DEF CloseStore
    <2> QED BY <2>2, <2>3 DEF Sum
<1>4. \A t \in Stores : (InList(t)' <=> InList(t)) /\ Borrowers(t)' = Borrowers(t)
    BY <1>1 DEF InList, Borrowers
<1>5. \A t \in Stores : StoreInv(t)'
    BY <1>1, <1>2, <1>3, <1>4, StoreFrame DEF IInv
<1>6. StoresKept
    BY <1>2, <1>3, <1>4 DEF StoresKept, Private
<1>7. \A p \in Callers : CallerInv(p)'
    BY <1>1, <1>6, CallerFrame
<1>8. SlotInv'
    BY <1>1, <1>2, SlotFrame DEF IInv, SlotInv, Typed, TypeOK, Elements
<1>9. OrphansDistinct'
    BY <1>1 DEF IInv, OrphansDistinct
<1> QED BY <1>5, <1>7, <1>8, <1>9 DEF Books
\* A store that no opener returned yet is nobody's.
LEMMA NewStore ==
    ASSUME IInv, NEW s \in Stores, store[s].target = NoTarget
    PROVE  /\ store[s].refs = 0 /\ ~ store[s].retired /\ ~ store[s].closed
           /\ store[s].closes = 0 /\ closing[s] = 0
           /\ ~ InList(s) /\ Borrowers(s) = {}
           /\ \A p \in Callers : flight[p].orphan # s
           /\ \A a \in Accounts : entries[a] # s
<1>1. Typed /\ StoreInv(s) /\ SlotInv /\ \A p \in Callers : CallerInv(p)
    BY DEF IInv
<1>2. Private(s) /\ Sum(s) = 0
    BY <1>1 DEF StoreInv
<1>3. store[s].closes = 0 /\ closing[s] = 0
    BY <1>1, <1>2, SumType DEF Sum
<1>4. store[s].refs = 0 /\ ~ store[s].closed /\ Borrowers(s) = {}
    BY <1>1, <1>2, BorrowedCount DEF StoreInv
<1>5. \A p \in Callers : flight[p].orphan # s
    BY <1>1, SumType DEF CallerInv, OrphanInv
<1>6. \A a \in Accounts : entries[a] # s
    BY <1>1, <1>2, SumType DEF SlotInv, Private
<1> QED BY <1>2, <1>3, <1>4, <1>5, <1>6 DEF Private

LEMMA OpenedFacts ==
    ASSUME NEW q
    PROVE  /\ Opened(q).target = flight[q].target /\ Opened(q).refs = 0
           /\ Opened(q).closes = 0 /\ Opened(q).retired = FALSE /\ Opened(q).closed = FALSE
BY DEF Opened, Unopened

LEMMA OpenUncachedBooks ==
    ASSUME IInv, NEW q \in Callers, NEW s \in Stores, OpenRefused(q, s) \/ OpenOrphaned(q, s)
    PROVE  Books'
<1>1. /\ store \in [Stores -> StoreState] /\ closing \in [Stores -> Nat]
      /\ Typed /\ CallerInv(q)
    BY DEF IInv, Typed, TypeOK
<1>2. /\ flight[q].pc = "open" /\ store[s].target = NoTarget
      /\ store' = [store EXCEPT ![s] = Opened(q)]
      /\ UNCHANGED <<entries, lru, caller>>
    BY DEF OpenRefused, OpenOrphaned, SlotLost, cache
<1>3. flight[q].orphan = NoStore /\ flight[q].target \in Targets
    BY <1>1, <1>2, NoOrphanYet DEF Typed
<1>4. /\ store[s].refs = 0 /\ ~ InList(s) /\ Borrowers(s) = {}
      /\ closing[s] = 0
      /\ \A p \in Callers : flight[p].orphan # s
    BY <1>2, NewStore
<1>5. /\ store'[s].target = flight[q].target /\ store'[s].refs = 0 /\ store'[s].closes = 0
      /\ ~ store'[s].retired /\ ~ store'[s].closed
    BY <1>1, <1>2, OpenedFacts
<1>6. \A t \in Stores \ {s} : store'[t] = store[t]
    BY <1>1, <1>2
<1>7. store'[s].target # NoTarget
    BY <1>3, <1>5, CacheAssumption DEF CacheAssumption
<1>8. \A t \in Stores : (InList(t)' <=> InList(t)) /\ Borrowers(t)' = Borrowers(t)
    BY <1>2 DEF InList, Borrowers
<1>9. Cardinality(Borrowers(s)') = 0 /\ Private(s)'
    BY <1>4, <1>5, <1>8, FS_EmptySet DEF Private
<1>10. SlotInv'
    BY <1>2, <1>4, <1>6, SlotFrame DEF IInv, SlotInv, Typed, TypeOK, InList, Elements
<1>11. ASSUME \A t \in Stores \ {s} : closing'[t] = closing[t]
       PROVE  StoresKept
    <2>1. \A t \in Stores \ {s} : Sum(t)' = Sum(t)
        BY <1>6, <1>11 DEF Sum
    <2> QED BY <1>2, <1>6, <1>8, <2>1 DEF StoresKept, Private
<1>12. ASSUME \A t \in Stores \ {s} : closing'[t] = closing[t],
              \A p \in Callers \ {q} : flight'[p] = flight[p]
       PROVE  \A t \in Stores \ {s} : StoreInv(t)'
    <2>1. \A t \in Stores \ {s} : Sum(t)' = Sum(t)
        BY <1>6, <1>12 DEF Sum
    <2>2. \A t \in Stores, p \in Callers : flight[p].orphan = t => flight'[p].orphan = t
        BY <1>1, <1>3, <1>12, SumType
    <2> QED BY <1>6, <1>8, <2>1, <2>2, StoreFrame DEF IInv
<1>13. CASE OpenRefused(q, s)
    <2>1. /\ flight'[q].pc = "report" /\ flight'[q].orphan = NoStore
          /\ flight'[q].target = flight[q].target
          /\ \A p \in Callers \ {q} : flight'[p] = flight[p]
        BY <1>1, <1>13, LandFacts DEF OpenRefused
    <2>2. closing'[s] = 1 /\ \A t \in Stores \ {s} : closing'[t] = closing[t]
        BY <1>1, <1>4, <1>13 DEF OpenRefused
    <2>3. Sum(s)' = 1
        BY <1>5, <2>2 DEF Sum
    <2>4. StoreInv(s)'
        BY <1>5, <1>7, <1>9, <2>3 DEF StoreInv, Private
    <2>5. \A t \in Stores : StoreInv(t)'
        BY <1>12, <2>1, <2>2, <2>4
    <2>6. CallerInv(q)'
        <3>1. caller[q].pc # "using"
            BY <1>1, <1>2 DEF CallerInv
        <3> QED BY <1>1, <1>2, <2>1, <3>1 DEF CallerInv
    <2>7. \A p \in Callers : CallerInv(p)'
        BY <1>2, <1>11, <2>1, <2>2, <2>6, CallerFrame
    <2>8. OrphansDistinct'
        BY <1>3, <2>1 DEF IInv, OrphansDistinct
    <2> QED BY <1>10, <2>5, <2>7, <2>8 DEF Books
<1>14. CASE OpenOrphaned(q, s)
    <2>1. /\ flight'[q].pc = "report" /\ flight'[q].orphan = s
          /\ flight'[q].result = "ok" /\ flight'[q].target = flight[q].target
          /\ \A p \in Callers \ {q} : flight'[p] = flight[p]
        BY <1>1, <1>14, LandFacts DEF OpenOrphaned
    <2>2. closing' = closing
        BY <1>14 DEF OpenOrphaned
    <2>3. Sum(s)' = 0
        BY <1>4, <1>5, <2>2 DEF Sum
    <2>4. StoreInv(s)'
        BY <1>5, <1>7, <1>9, <2>1, <2>3 DEF StoreInv, Private
    <2>5. \A t \in Stores : StoreInv(t)'
        BY <1>12, <2>1, <2>2, <2>4
    <2>6. /\ caller[q].pc = "wait" /\ caller[q].flight = q
          /\ caller[q].result = "none" /\ caller[q].target = flight[q].target
        BY <1>1, <1>2, <1>14 DEF CallerInv, OpenOrphaned, SlotLost
    <2>7. OrphanInv(q, s)'
        BY <1>2, <1>5, <1>7, <1>9, <2>1, <2>3, <2>6 DEF OrphanInv
    <2>8. CallerInv(q)'
        BY <1>2, <2>1, <2>6, <2>7 DEF CallerInv
    <2>9. \A p \in Callers : CallerInv(p)'
        BY <1>2, <1>11, <2>1, <2>2, <2>8, CallerFrame
    <2>10. OrphansDistinct'
        BY <1>4, <2>1 DEF IInv, OrphansDistinct
    <2> QED BY <1>10, <2>5, <2>9, <2>10 DEF Books
<1> QED BY <1>13, <1>14

\* Lease.Release
LEMMA ReleaseBooks ==
    ASSUME IInv, NEW p \in Callers, Release(p)
    PROVE  Books'
<1>1. /\ store \in [Stores -> StoreState] /\ closing \in [Stores -> Nat]
      /\ Typed /\ CallerInv(p) /\ caller[p].pc = "using"
      /\ UNCHANGED <<entries, lru, flight>>
    BY DEF IInv, Typed, TypeOK, Release, cache
<1>2. PICK s \in Stores : s = caller[p].lease
    BY <1>1, LeaseType
<1>3. Sum(s) = 0 /\ store[s].target \in Targets
    BY <1>1, <1>2, LeaseIsOpen
<1>4. /\ caller'[p].pc = "done" /\ caller'[p].result = "none"
      /\ \A q \in Callers \ {p} : caller'[q] = caller[q]
    BY <1>1, DoneFacts DEF Release
<1>5. flight[p].pc = "none"
    BY <1>1 DEF CallerInv
<1>6. \A t \in Stores : InList(t)' <=> InList(t)
    BY <1>1 DEF InList
<1>7. OrphansDistinct'
    BY <1>1 DEF IInv, OrphansDistinct
<1>8. CASE caller[p].orphan
    <2>1. store' = store /\ closing' = [closing EXCEPT ![s] = @ + 1]
        BY <1>2, <1>8 DEF Release
    <2>2. flight[p].orphan = s /\ OrphanInv(p, s)
        BY <1>1, <1>2, <1>8, SumType DEF CallerInv
    <2>3. Sum(s)' = 1 /\ \A t \in Stores \ {s} : Sum(t)' = Sum(t)
        BY <1>1, <1>3, <2>1, SumType DEF Sum
    <2>4. \A t \in Stores : Borrowers(t)' = Borrowers(t)
        BY <1>4, <1>8, BorrowersFrame
    <2>5. \A t \in Stores \ {s} : StoreInv(t)'
        BY <1>1, <1>6, <2>1, <2>3, <2>4, StoreFrame DEF IInv
    <2>6. StoreInv(s)'
        <3>1. StoreInv(s) /\ Private(s)
            BY <2>2 DEF IInv, OrphanInv
        <3>2. Private(s)' /\ store'[s].target # NoTarget
            BY <1>6, <2>1, <2>2 DEF Private, OrphanInv
        <3> QED BY <2>1, <2>3, <2>4, <3>1, <3>2 DEF StoreInv, Private
    <2>7. SlotInv'
        BY <1>1, <2>1, SlotFrame DEF IInv, SlotInv, Typed, TypeOK
    <2>8. ASSUME NEW q \in Callers \ {p}
          PROVE  CallerInv(q)'
        <3>1. CallerInv(q)
            BY DEF IInv
        <3>2. ASSUME flight[q].orphan # NoStore
              PROVE  OrphanInv(q, flight[q].orphan)'
            <4>1. PICK t \in Stores : t = flight[q].orphan
                BY <1>1, <3>2, OrphanType
            <4>2. t # s
                BY <2>2, <3>2, <4>1 DEF IInv, OrphansDistinct
            <4>3. OrphanInv(q, t)
                BY <3>1, <3>2, <4>1 DEF CallerInv
            <4>4. OrphanInv(q, t)'
                BY <1>1, <1>4, <1>6, <2>1, <2>3, <4>2, <4>3 DEF OrphanInv, Private
            <4> QED BY <1>1, <4>1, <4>4
        <3> QED BY <1>1, <1>4, <2>1, <3>1, <3>2 DEF CallerInv
    <2>9. CallerInv(p)'
        <3>1. OrphanInv(p, s)'
            BY <1>1, <1>4, <1>5, <1>6, <2>1, <2>2, <2>3 DEF OrphanInv, Private
        <3>2. (flight[p].orphan)' = s
            BY <1>1, <2>2
        <3> QED BY <1>1, <1>4, <1>5, <3>1, <3>2 DEF CallerInv
    <2> QED BY <1>7, <2>5, <2>6, <2>7, <2>8, <2>9 DEF Books
<1>9. CASE ~ caller[p].orphan
    <2> DEFINE left == store[s].refs - 1
    <2>1. StoreInv(s) /\ p \in Borrowers(s)
        BY <1>1, <1>2, <1>9 DEF IInv, Borrowers
    <2>2. store[s].refs > 0 /\ left \in Nat
        BY <1>1, <2>1, BorrowedCount, SumType
    <2>3. ~ store[s].closed /\ ~ Private(s)
        BY <2>1, <2>2 DEF StoreInv, Private
    <2>4. /\ store'[s].refs = left /\ store'[s].target = store[s].target
          /\ store'[s].retired = store[s].retired /\ store'[s].closes = store[s].closes
          /\ store'[s].closed <=> (store[s].retired /\ left = 0)
          /\ \A t \in Stores \ {s} : store'[t] = store[t]
        BY <1>1, <1>2, <1>9, <2>2, <2>3 DEF Release, StoreState
    <2>5. /\ closing'[s] = closing[s] + (IF store[s].retired /\ left = 0 THEN 1 ELSE 0)
          /\ \A t \in Stores \ {s} : closing'[t] = closing[t]
        BY <1>1, <1>2, <1>9, <2>2, <2>3 DEF Release
    <2>6. /\ Sum(s)' = IF store[s].retired /\ left = 0 THEN 1 ELSE 0
          /\ \A t \in Stores \ {s} : Sum(t)' = Sum(t)
        <3>1. store[s].closes = 0 /\ closing[s] = 0
            BY <1>1, <1>3, SumType DEF Sum
        <3>2. store'[s].closes = 0
              /\ closing'[s] = IF store[s].retired /\ left = 0 THEN 1 ELSE 0
            BY <2>4, <2>5, <3>1
        <3> HIDE DEF left
        <3> QED BY <2>4, <2>5, <3>2 DEF Sum
    <2>7. Borrowers(s)' = Borrowers(s) \ {p} /\ \A t \in Stores \ {s} : Borrowers(t)' = Borrowers(t)
        BY <1>2, <1>4 DEF Borrowers
    <2>8. Cardinality(Borrowers(s)') = left
        BY <2>1, <2>7, BorrowersFinite, FS_RemoveElement DEF StoreInv
    <2>9. \A t \in Stores \ {s} : StoreInv(t)'
        BY <1>1, <1>6, <2>4, <2>6, <2>7, StoreFrame DEF IInv
    <2>10. StoreInv(s)'
        <3>1. InList(s) => ~ store[s].retired
            BY <2>1 DEF StoreInv
        <3>2. store[s].target # NoTarget
            BY <1>3, CacheAssumption DEF CacheAssumption
        <3>3. ~ Private(s)'
            BY <1>6, <2>3, <2>4 DEF Private
        <3> HIDE DEF left
        <3> QED BY <1>6, <2>4, <2>6, <2>8, <3>1, <3>2, <3>3 DEF StoreInv
    <2>11. StoresKept
        BY <1>6, <2>3, <2>4, <2>6 DEF StoresKept, Private
    <2>12. \A q \in Callers \ {p} : CallerInv(q)'
        BY <1>1, <1>4, <2>11, CallerFrame
    <2>13. flight[p].orphan = NoStore
        BY <1>1, <1>9 DEF CallerInv, OrphanInv
    <2>14. CallerInv(p)'
        BY <1>1, <1>4, <1>5, <2>13 DEF CallerInv
    <2>15. SlotInv'
        <3>1. \A t \in Stores : store'[t].target = store[t].target
            BY <2>4
        <3>2. \A t \in Elements(lru) : store'[t].target = store[t].target
            BY <1>1, <3>1, ListType
        <3> QED BY <1>1, <3>2, SlotFrame DEF IInv, SlotInv, Typed, TypeOK
    <2> QED BY <1>7, <2>9, <2>10, <2>12, <2>14, <2>15 DEF Books
<1> QED BY <1>8, <1>9
-----------------------------------------------------------------------------
(* Steps that change the cache *)

LEMMA PrependList ==
    ASSUME NEW S, NEW q \in Seq(S), NEW s \in S, Distinct(q), s \notin Elements(q)
    PROVE  /\ <<s>> \o q \in Seq(S) /\ Len(<<s>> \o q) = Len(q) + 1
           /\ Distinct(<<s>> \o q)
           /\ Elements(<<s>> \o q) = Elements(q) \cup {s}
<1> DEFINE r == <<s>> \o q
<1>1. /\ r \in Seq(S) /\ Len(r) = Len(q) + 1 /\ Len(q) \in Nat
      /\ DOMAIN q = 1..Len(q) /\ DOMAIN r = 1..(Len(q) + 1)
    OBVIOUS
<1>2. r[1] = s /\ \A i \in 1..Len(q) : r[i + 1] = q[i]
    OBVIOUS
<1> HIDE DEF r
<1>3. ASSUME NEW i \in 2..(Len(q) + 1)
      PROVE  i - 1 \in 1..Len(q) /\ r[i] = q[i - 1]
    <2>1. i - 1 \in 1..Len(q) /\ (i - 1) + 1 = i
        BY <1>1
    <2> QED BY <1>2, <2>1
<1>4. Distinct(r)
    <2> SUFFICES ASSUME NEW i \in 1..(Len(q) + 1), NEW j \in 1..(Len(q) + 1), i < j
                 PROVE  r[i] # r[j]
        BY <1>1 DEF Distinct
    <2>1. j \in 2..(Len(q) + 1)
        BY <1>1
    <2>2. r[j] = q[j - 1] /\ j - 1 \in 1..Len(q)
        BY <1>3, <2>1
    <2>3. CASE i = 1
        BY <1>1, <1>2, <2>2, <2>3 DEF Elements
    <2>4. CASE i # 1
        <3>1. i \in 2..(Len(q) + 1)
            BY <1>1, <2>4
        <3>2. r[i] = q[i - 1] /\ i - 1 \in 1..Len(q) /\ i - 1 # j - 1
            BY <1>1, <1>3, <3>1
        <3> QED BY <1>1, <2>2, <3>2 DEF Distinct
    <2> QED BY <2>3, <2>4
<1>5. Elements(r) = Elements(q) \cup {s}
    <2>1. Elements(r) \subseteq Elements(q) \cup {s}
        <3> SUFFICES ASSUME NEW i \in 1..(Len(q) + 1) PROVE r[i] \in Elements(q) \cup {s}
            BY <1>1 DEF Elements
        <3>1. CASE i = 1
            BY <1>2, <3>1
        <3>2. CASE i # 1
            <4>1. i \in 2..(Len(q) + 1)
                BY <1>1, <3>2
            <4> QED BY <1>1, <1>3, <4>1 DEF Elements
        <3> QED BY <3>1, <3>2
    <2>2. s \in Elements(r)
        BY <1>1, <1>2 DEF Elements
    <2>3. ASSUME NEW i \in 1..Len(q)
          PROVE  q[i] \in Elements(r)
        <3>1. i + 1 \in 1..(Len(q) + 1) /\ r[i + 1] = q[i]
            BY <1>1, <1>2
        <3> QED BY <1>1, <3>1 DEF Elements
    <2> QED BY <1>1, <2>1, <2>2, <2>3 DEF Elements
<1> QED BY <1>1, <1>4, <1>5 DEF r

LEMMA TruncateList ==
    ASSUME NEW S, NEW q \in Seq(S), Distinct(q), NEW n \in 0..Len(q)
    PROVE  LET r == SubSeq(q, 1, n)
               rest == {q[i] : i \in (n + 1)..Len(q)}
           IN  /\ r \in Seq(S) /\ Len(r) = n
               /\ Distinct(r)
               /\ Elements(r) = Elements(q) \ rest
<1> DEFINE r == SubSeq(q, 1, n)
           rest == {q[i] : i \in (n + 1)..Len(q)}
<1>1. /\ r \in Seq(S) /\ Len(r) = n /\ Len(q) \in Nat /\ n \in Nat
      /\ DOMAIN q = 1..Len(q) /\ DOMAIN r = 1..n
    OBVIOUS
<1>2. \A i \in 1..n : r[i] = q[i] /\ i \in 1..Len(q)
    OBVIOUS
<1> HIDE DEF r
<1>3. Distinct(r)
    BY <1>1, <1>2 DEF Distinct
<1>4. Elements(r) \subseteq Elements(q) \ rest
    <2> SUFFICES ASSUME NEW i \in 1..n PROVE q[i] \in Elements(q) \ rest
        BY <1>1, <1>2 DEF Elements
    <2>1. \A j \in (n + 1)..Len(q) : j \in 1..Len(q) /\ i # j
        BY <1>1
    <2>2. i \in 1..Len(q)
        BY <1>2
    <2>3. \A j \in (n + 1)..Len(q) : q[i] # q[j]
        BY <1>1, <2>1, <2>2 DEF Distinct
    <2> QED BY <1>1, <2>2, <2>3 DEF Elements
<1>5. Elements(q) \ rest \subseteq Elements(r)
    <2> SUFFICES ASSUME NEW i \in 1..Len(q), q[i] \notin rest PROVE q[i] \in Elements(r)
        BY <1>1 DEF Elements
    <2>1. i \in 1..n
        BY <1>1
    <2> QED BY <1>1, <1>2, <2>1 DEF Elements
<1> QED BY <1>1, <1>3, <1>4, <1>5 DEF r

LEMMA AcquireHitBooks ==
    ASSUME IInv, NEW p \in Callers, AcquireHit(p)
    PROVE  Books'
<1>1. /\ store \in [Stores -> StoreState] /\ caller \in [Callers -> CallerState]
      /\ lru \in Seq(Stores)
      /\ Typed /\ CallerInv(p) /\ SlotInv /\ caller[p].pc = "acquire"
      /\ UNCHANGED <<entries, flight, closing>>
    BY DEF IInv, Typed, TypeOK, AcquireHit
<1>2. caller[p].target \in Targets
    BY <1>1 DEF Typed
<1>3. PICK s \in Stores : s = entries[Account(caller[p].target)]
    BY <1>1, <1>2, SlotType DEF AcquireHit, Live
<1>4. InList(s) /\ store[s].target = caller[p].target
    BY <1>1, <1>2, <1>3, SlotType, SumType DEF AcquireHit, Live, Fresh, SlotInv
<1>5. ~ store[s].retired /\ ~ store[s].closed /\ Sum(s) = 0
    BY <1>4 DEF IInv, StoreInv
<1>6. /\ store'[s].refs = store[s].refs + 1 /\ store'[s].target = store[s].target
      /\ store'[s].retired = store[s].retired /\ store'[s].closed = store[s].closed
      /\ store'[s].closes = store[s].closes
      /\ \A t \in Stores \ {s} : store'[t] = store[t]
    BY <1>1, <1>3 DEF AcquireHit, StoreState
<1>7. /\ caller'[p].pc = "using" /\ caller'[p].lease = s /\ caller'[p].orphan = FALSE
      /\ caller'[p].result = "none" /\ caller'[p].target = caller[p].target
      /\ \A q \in Callers \ {p} : caller'[q] = caller[q]
    BY <1>1, <1>3 DEF AcquireHit, Borrow, CallerState
<1>8. /\ Distinct(lru') /\ Len(lru') = Len(lru) /\ Elements(lru') = Elements(lru)
    <2>1. /\ Without(lru, s) \in Seq(Stores) /\ Len(Without(lru, s)) = Len(lru) - 1
          /\ Distinct(Without(lru, s)) /\ Elements(Without(lru, s)) = Elements(lru) \ {s}
        BY <1>1, <1>4, WithoutMember DEF SlotInv, InList
    <2>2. lru' = <<s>> \o Without(lru, s)
        BY <1>3 DEF AcquireHit
    <2>3. Len(lru) \in Nat
        BY <1>1
    <2>4. /\ Distinct(lru') /\ Len(lru') = Len(Without(lru, s)) + 1
          /\ Elements(lru') = Elements(Without(lru, s)) \cup {s}
        BY <2>1, <2>2, PrependList
    <2> QED BY <1>4, <2>1, <2>3, <2>4 DEF InList
<1>9. \A t \in Stores : (InList(t)' <=> InList(t)) /\ Sum(t)' = Sum(t)
    BY <1>1, <1>6, <1>8 DEF InList, Sum
<1>10. /\ p \notin Borrowers(s) /\ Borrowers(s)' = Borrowers(s) \cup {p}
       /\ \A t \in Stores \ {s} : Borrowers(t)' = Borrowers(t)
    BY <1>1, <1>7 DEF Borrowers
<1>11. Cardinality(Borrowers(s)') = store'[s].refs
    <2>1. Cardinality(Borrowers(s) \cup {p}) = Cardinality(Borrowers(s)) + 1
        BY <1>10, BorrowersFinite, FS_AddElement
    <2>2. store[s].refs = Cardinality(Borrowers(s))
        BY DEF IInv, StoreInv
    <2> QED BY <1>6, <1>10, <2>1, <2>2
<1>12. StoreInv(s)'
    <2>1. ~ Private(s)' /\ InList(s)'
        BY <1>4, <1>9 DEF Private
    <2>2. store'[s].target # NoTarget
        BY <1>2, <1>4, <1>6, CacheAssumption DEF CacheAssumption
    <2> QED BY <1>5, <1>6, <1>9, <1>11, <2>1, <2>2 DEF StoreInv
<1>13. \A t \in Stores \ {s} : StoreInv(t)'
    BY <1>1, <1>6, <1>9, <1>10, StoreFrame DEF IInv
<1>14. StoresKept
    <2>1. ~ Private(s)
        BY <1>4 DEF Private
    <2> QED BY <1>6, <1>9, <2>1 DEF StoresKept, Private
<1>15. \A q \in Callers \ {p} : CallerInv(q)'
    BY <1>1, <1>7, <1>14, CallerFrame
<1>16. CallerInv(p)'
    <2>1. flight[p].pc = "none" /\ flight[p].orphan = NoStore
        BY <1>1, NoOpen
    <2> QED BY <1>1, <1>4, <1>6, <1>7, <2>1 DEF CallerInv
<1>17. SlotInv'
    <2>1. \A t \in Stores : store'[t].target = store[t].target
        BY <1>6
    <2>2. \A t \in Elements(lru) : store'[t].target = store[t].target
        BY <1>1, <2>1, ListType
    <2> QED BY <1>1, <1>8, <2>2, SlotFrame DEF IInv, SlotInv, Typed, TypeOK
<1>18. OrphansDistinct'
    BY <1>1 DEF IInv, OrphansDistinct
<1> QED BY <1>12, <1>13, <1>15, <1>16, <1>17, <1>18 DEF Books

\* A cached store leaves the cache: it is in somebody's charge exactly when
\* nobody borrows it.
LEMMA RetiredStore ==
    ASSUME IInv, NEW t \in Stores, InList(t), ~ InList(t)',
           store'[t] = RetireEntry(t),
           closing'[t] = IF ~ store[t].closed /\ RetireEntry(t).closed
                         THEN closing[t] + 1 ELSE closing[t],
           Borrowers(t)' = Borrowers(t)
    PROVE  StoreInv(t)' /\ store'[t].target = store[t].target
<1>1. StoreInv(t) /\ store[t] \in StoreState
    BY SumType DEF IInv
<1>2. ~ store[t].retired /\ ~ store[t].closed /\ Sum(t) = 0 /\ store[t].target # NoTarget
    BY <1>1 DEF StoreInv, Private
<1>3. store[t].closes = 0 /\ closing[t] = 0
    BY <1>2, SumType DEF IInv, Sum
<1>4. /\ store'[t].target = store[t].target /\ store'[t].refs = store[t].refs
      /\ store'[t].retired /\ store'[t].closes = 0
      /\ store'[t].closed <=> (store[t].refs = 0)
    BY <1>1, <1>2, <1>3 DEF RetireEntry, Closable, StoreState
<1>5. closing'[t] = IF store[t].refs = 0 THEN 1 ELSE 0
    BY <1>2, <1>3, <1>4
<1>6. Sum(t)' = IF store'[t].closed THEN 1 ELSE 0
    BY <1>4, <1>5 DEF Sum
<1> QED BY <1>1, <1>2, <1>4, <1>6 DEF StoreInv, Private

\* The stores of S, all cached, are retired, and leave the list.
LEMMA RetireFrame ==
    ASSUME IInv, NEW S \in SUBSET Stores, Retire(S), \A t \in S : InList(t),
           Elements(lru') = Elements(lru) \ S,
           \A t \in Stores : Borrowers(t)' = Borrowers(t), flight' = flight
    PROVE  /\ \A t \in Stores : StoreInv(t)' /\ store'[t].target = store[t].target
           /\ StoresKept
<1>1. \A t \in Stores : InList(t)' <=> (InList(t) /\ t \notin S)
    BY DEF InList
<1>2. ASSUME NEW t \in S
      PROVE  StoreInv(t)' /\ store'[t].target = store[t].target
    <2>1. /\ t \in Stores /\ InList(t) /\ ~ InList(t)'
          /\ store'[t] = RetireEntry(t)
          /\ closing'[t] = IF ~ store[t].closed /\ RetireEntry(t).closed
                           THEN closing[t] + 1 ELSE closing[t]
          /\ Borrowers(t)' = Borrowers(t)
        BY <1>1 DEF Retire, ClosingAfterRetiring
    <2> QED BY <2>1, RetiredStore
<1>3. \A t \in Stores \ S : store'[t] = store[t] /\ closing'[t] = closing[t]
    BY DEF Retire, ClosingAfterRetiring
<1>4. \A t \in Stores \ S : Sum(t)' = Sum(t)
    BY <1>3 DEF Sum
<1>5. \A t \in Stores \ S : StoreInv(t)'
    BY <1>1, <1>3, <1>4, StoreFrame DEF IInv
<1>6. StoresKept
    <2>1. \A t \in Stores : Private(t) => t \notin S
        BY DEF Private
    <2>2. \A t \in Stores : Private(t) => Private(t)' /\ Sum(t)' = Sum(t)
        BY <1>1, <1>3, <1>4, <2>1 DEF Private
    <2> QED BY <1>2, <1>3, <2>2 DEF StoresKept
<1> QED BY <1>2, <1>3, <1>5, <1>6

LEMMA RemoveEntryFrame ==
    ASSUME IInv, NEW a \in Accounts, entries[a] # NoStore, RemoveEntry(a),
           \A t \in Stores : Borrowers(t)' = Borrowers(t), flight' = flight
    PROVE  /\ \A t \in Stores : StoreInv(t)'
           /\ SlotInv' /\ StoresKept
<1>1. /\ entries \in [Accounts -> Stores \cup {NoStore}] /\ lru \in Seq(Stores)
      /\ SlotInv /\ Typed
    BY DEF IInv, Typed, TypeOK
<1>2. PICK s \in Stores : s = entries[a]
    BY <1>1
<1>3. InList(s) /\ Account(store[s].target) = a
    BY <1>1, <1>2 DEF SlotInv
<1>4. /\ Len(lru') = Len(lru) - 1 /\ Distinct(lru')
      /\ Elements(lru') = Elements(lru) \ {s} /\ Len(lru) \in Nat
    BY <1>1, <1>2, <1>3, WithoutMember DEF RemoveEntry, SlotInv, InList
<1>5. /\ \A t \in Stores : StoreInv(t)' /\ store'[t].target = store[t].target
      /\ StoresKept
    <2>1. Retire({s}) /\ {s} \in SUBSET Stores /\ \A t \in {s} : InList(t)
        BY <1>2, <1>3 DEF RemoveEntry
    <2> QED BY <1>4, <2>1, RetireFrame
<1>6. /\ entries'[a] = NoStore /\ \A b \in Accounts \ {a} : entries'[b] = entries[b]
    BY <1>1 DEF RemoveEntry
<1>7. SlotInv'
    <2>1. Len(lru') <= Capacity
        BY <1>1, <1>4, CacheAssumption DEF SlotInv, CacheAssumption
    <2>2. ASSUME NEW b \in Accounts, entries'[b] # NoStore
          PROVE  InList(entries[b])' /\ Account(store'[entries'[b]].target) = b
        <3>1. b # a /\ entries'[b] = entries[b]
            BY <1>6, <2>2
        <3>2. PICK t \in Stores : t = entries[b]
            BY <1>1, <2>2, <3>1
        <3>3. InList(t) /\ Account(store[t].target) = b
            BY <1>1, <2>2, <3>1, <3>2 DEF SlotInv
        <3>4. t # s
            BY <1>3, <3>1, <3>3
        <3>5. InList(t)' /\ Account(store'[t].target) = b
            BY <1>4, <1>5, <3>3, <3>4 DEF InList
        <3> QED BY <3>1, <3>2, <3>5 DEF InList
    <2>3. ASSUME NEW t \in Stores, InList(t)'
          PROVE  entries'[Account(store'[t].target)] = t
        <3>1. InList(t) /\ t # s
            BY <1>4, <2>3 DEF InList
        <3>2. entries[Account(store[t].target)] = t
            BY <1>1, <3>1 DEF SlotInv
        <3>3. Account(store[t].target) # a
            BY <1>2, <3>1, <3>2
        <3>4. Account(store[t].target) \in Accounts
            <4>1. store[t].target # NoTarget
                BY <3>1 DEF IInv, StoreInv, Private
            <4> QED BY <1>1, <4>1, SumType, SlotType DEF StoreState
        <3> QED BY <1>5, <1>6, <3>2, <3>3, <3>4
    <2> QED BY <1>4, <2>1, <2>2, <2>3 DEF SlotInv, InList
<1> QED BY <1>5, <1>7
LEMMA AcquireMissBooks ==
    ASSUME IInv, NEW p \in Callers, AcquireMiss(p)
    PROVE  Books'
<1>1. /\ caller \in [Callers -> CallerState] /\ Typed /\ CallerInv(p)
      /\ caller[p].pc = "acquire" /\ flight' = flight
    BY DEF IInv, Typed, TypeOK, AcquireMiss
<1>2. /\ caller'[p].pc = "join" /\ caller'[p].result = caller[p].result
      /\ \A q \in Callers \ {p} : caller'[q] = caller[q]
    BY <1>1 DEF AcquireMiss, CallerState
<1>3. CallerInv(p)'
    BY <1>1, <1>2, NoOpen DEF CallerInv
<1>4. \A t \in Stores : Borrowers(t)' = Borrowers(t)
    BY <1>1, <1>2, BorrowersFrame
<1>5. PICK a \in Accounts : a = Account(caller[p].target)
    BY <1>1, SlotType DEF Typed
<1>6. /\ \A t \in Stores : StoreInv(t)'
      /\ SlotInv' /\ StoresKept
    <2>1. CASE UNCHANGED <<entries, lru, store, closing>>
        BY <1>1, <1>4, <2>1, QuietFrame
    <2>2. CASE entries[a] # NoStore /\ RemoveEntry(a)
        BY <1>1, <1>4, <2>2, RemoveEntryFrame
    <2> QED BY <1>5, <2>1, <2>2 DEF AcquireMiss
<1>7. \A q \in Callers : CallerInv(q)'
    BY <1>1, <1>2, <1>3, <1>6, CallerFrame
<1>8. OrphansDistinct'
    BY <1>1 DEF IInv, OrphansDistinct
<1> QED BY <1>6, <1>7, <1>8 DEF Books

LEMMA EvictBooks ==
    ASSUME IInv, NEW a \in Accounts, Evict(a)
    PROVE  Books'
<1>1. UNCHANGED <<caller, flight>> /\ entries[a] # NoStore /\ RemoveEntry(a)
    BY DEF Evict
<1>2. \A t \in Stores : Borrowers(t)' = Borrowers(t)
    BY <1>1 DEF Borrowers
<1>3. /\ \A t \in Stores : StoreInv(t)'
      /\ SlotInv' /\ StoresKept
    BY <1>1, <1>2, RemoveEntryFrame
<1>4. \A q \in Callers : CallerInv(q)'
    BY <1>1, <1>3, CallerFrame
<1>5. OrphansDistinct'
    BY <1>1 DEF IInv, OrphansDistinct
<1> QED BY <1>3, <1>4, <1>5 DEF Books

LEMMA CloseBooks ==
    ASSUME IInv, Close
    PROVE  Books'
<1>1. /\ UNCHANGED <<caller, flight>> /\ lru' = << >> /\ Retire(Cached)
      /\ entries' = [a \in Accounts |-> NoStore]
    BY DEF Close
<1>2. \A t \in Stores : Borrowers(t)' = Borrowers(t)
    BY <1>1 DEF Borrowers
<1>3. Cached = Elements(lru) /\ Cached \in SUBSET Stores
    BY ListType DEF IInv, Cached, Elements
<1>4. Elements(lru') = {} /\ Distinct(lru') /\ Len(lru') = 0
    BY <1>1 DEF Elements, Distinct
<1>5. (\A t \in Stores : StoreInv(t)') /\ StoresKept
    BY <1>1, <1>2, <1>3, <1>4, RetireFrame DEF InList
<1>6. \A q \in Callers : CallerInv(q)'
    BY <1>1, <1>5, CallerFrame
<1>7. SlotInv'
    BY <1>1, <1>4, CacheAssumption DEF SlotInv, InList, CacheAssumption
<1>8. OrphansDistinct'
    BY <1>1 DEF IInv, OrphansDistinct
<1> QED BY <1>5, <1>6, <1>7, <1>8 DEF Books

\* insert: the new store enters the list, the least recently used ones leave it.
LEMMA OpenCachedBooks ==
    ASSUME IInv, NEW q \in Callers, NEW s \in Stores, OpenCached(q, s)
    PROVE  Books'
<1> DEFINE a == Account(flight[q].target)
           order == <<s>> \o lru
           kept == IF Len(order) > Capacity THEN Capacity ELSE Len(order)
           victims == {order[i] : i \in (kept + 1)..Len(order)}
<1>1. /\ store \in [Stores -> StoreState] /\ closing \in [Stores -> Nat]
      /\ entries \in [Accounts -> Stores \cup {NoStore}] /\ lru \in Seq(Stores)
      /\ Typed /\ CallerInv(q) /\ SlotInv
    BY DEF IInv, Typed, TypeOK
<1>2. /\ flight[q].pc = "open" /\ store[s].target = NoTarget
      /\ entries[a] = NoStore /\ caller' = caller
    BY DEF OpenCached
<1>3. flight[q].orphan = NoStore /\ flight[q].target \in Targets /\ a \in Accounts
    BY <1>1, <1>2, NoOrphanYet, SlotType DEF Typed
<1>4. /\ store[s].refs = 0 /\ ~ InList(s) /\ Borrowers(s) = {}
      /\ closing[s] = 0
      /\ \A p \in Callers : flight[p].orphan # s
    BY <1>2, NewStore
<1>5. /\ order \in Seq(Stores) /\ Distinct(order) /\ Len(order) = Len(lru) + 1
      /\ Elements(order) = Elements(lru) \cup {s}
    BY <1>1, <1>4, PrependList DEF SlotInv, InList
<1>6. Len(lru) \in Nat /\ Capacity \in Nat \ {0} /\ order[1] = s
    BY <1>1, CacheAssumption DEF CacheAssumption
<1>7. kept \in 1..Len(order) /\ kept <= Capacity
    BY <1>5, <1>6
<1>8. lru' = SubSeq(order, 1, kept)
    BY DEF OpenCached
<1>9. entries' = [b \in Accounts |->
            IF \E v \in victims : Account(store[v].target) = b THEN NoStore
            ELSE IF b = a THEN s
            ELSE entries[b]]
    BY DEF OpenCached
<1>10. store' = [t \in Stores |->
            IF t = s THEN [Opened(q) EXCEPT !.lastUsed = now]
            ELSE IF t \in victims THEN RetireEntry(t)
            ELSE store[t]]
    BY DEF OpenCached
<1>11. closing' = ClosingAfterRetiring(victims) /\ Land(q, "ok", NoStore)
    BY DEF OpenCached
<1>12. s \notin victims /\ victims \subseteq Elements(lru)
    <2>1. ASSUME NEW i \in (kept + 1)..Len(order)
          PROVE  order[i] # s /\ order[i] \in Elements(lru)
        <3>1. i \in 1..Len(order) /\ i # 1 /\ 1 \in 1..Len(order)
            BY <1>5, <1>6, <1>7
        <3> HIDE DEF order, kept
        <3>2. DOMAIN order = 1..Len(order)
            BY <1>5
        <3>3. order[i] # order[1]
            BY <1>5, <3>1, <3>2 DEF Distinct
        <3>4. order[i] \in Elements(order)
            BY <3>1, <3>2 DEF Elements
        <3> QED BY <1>5, <1>6, <3>3, <3>4
    <2> QED BY <2>1
<1> HIDE DEF order, kept
<1>13. /\ Distinct(lru') /\ Len(lru') <= Capacity
       /\ Elements(lru') = (Elements(lru) \cup {s}) \ victims
    <2>1. kept \in 0..Len(order)
        BY <1>5, <1>6, <1>7
    <2> QED BY <1>5, <1>7, <1>8, <2>1, TruncateList
<1> HIDE DEF victims
<1>14. \A t \in victims : t \in Stores /\ InList(t)
    BY <1>1, <1>12, ListType DEF InList
<1>15. /\ InList(s)'
       /\ \A t \in Stores \ {s} : InList(t)' <=> (InList(t) /\ t \notin victims)
    BY <1>12, <1>13 DEF InList
<1>16. \A t \in Stores : Borrowers(t)' = Borrowers(t)
    BY <1>2 DEF Borrowers
<1>17. /\ store'[s].target = flight[q].target /\ store'[s].refs = 0
       /\ store'[s].closes = 0
       /\ ~ store'[s].retired /\ ~ store'[s].closed /\ closing'[s] = 0
    <2>1. store'[s] = [Opened(q) EXCEPT !.lastUsed = now]
        BY <1>10
    <2>2. closing'[s] = 0
        BY <1>4, <1>11, <1>12 DEF ClosingAfterRetiring
    <2>3. Opened(q) \in StoreState
        BY <1>1, <1>2, OpenedTyped, TypedParts
    <2> QED BY <2>1, <2>2, <2>3, OpenedFacts DEF StoreState
<1>18. /\ flight'[q].pc = "report" /\ flight'[q].orphan = NoStore
       /\ flight'[q].target = flight[q].target
       /\ \A p \in Callers \ {q} : flight'[p] = flight[p]
    BY <1>1, <1>11, LandFacts
<1>19. ASSUME NEW t \in victims
       PROVE  StoreInv(t)' /\ store'[t].target = store[t].target
    <2>1. /\ t \in Stores /\ t # s /\ InList(t) /\ ~ InList(t)'
        BY <1>12, <1>14, <1>15
    <2>2. store'[t] = RetireEntry(t)
        BY <1>10, <2>1
    <2>3. closing'[t] = IF ~ store[t].closed /\ RetireEntry(t).closed
                        THEN closing[t] + 1 ELSE closing[t]
        BY <1>11, <2>1 DEF ClosingAfterRetiring
    <2> QED BY <1>16, <2>1, <2>2, <2>3, RetiredStore
<1>20. \A t \in Stores : t \notin victims /\ t # s =>
            store'[t] = store[t] /\ closing'[t] = closing[t] /\ Sum(t)' = Sum(t)
    BY <1>10, <1>11 DEF ClosingAfterRetiring, Sum
<1>21. \A t \in Stores, p \in Callers : flight[p].orphan = t => flight'[p].orphan = t
    BY <1>1, <1>3, <1>18, SumType
<1>22. \A t \in Stores : t \notin victims /\ t # s => StoreInv(t)'
    BY <1>15, <1>16, <1>20, <1>21, StoreFrame DEF IInv
<1>23. StoreInv(s)'
    <2>1. Cardinality(Borrowers(s)') = 0
        BY <1>4, <1>16, FS_EmptySet
    <2>2. store'[s].target # NoTarget
        BY <1>3, <1>17, CacheAssumption DEF CacheAssumption
    <2>3. Sum(s)' = 0
        BY <1>17 DEF Sum
    <2> QED BY <1>15, <1>17, <2>1, <2>2, <2>3 DEF StoreInv, Private
<1>24. \A t \in Stores \ {s} : store'[t].target = store[t].target
    BY <1>19, <1>20
<1>25. StoresKept
    <2>1. \A t \in Stores \ {s} : Private(t) => t \notin victims
        BY <1>14 DEF Private
    <2>2. \A t \in Stores \ {s} : Private(t) => Private(t)' /\ Sum(t)' = Sum(t)
        BY <1>15, <1>20, <2>1 DEF Private
    <2> QED BY <1>2, <1>24, <2>2 DEF StoresKept
<1>26. \A p \in Callers : CallerInv(p)'
    <2>1. CallerInv(q)'
        <3>1. caller[q].pc # "using"
            BY <1>1, <1>2 DEF CallerInv
        <3> QED BY <1>1, <1>2, <1>18, <3>1 DEF CallerInv
    <2> QED BY <1>2, <1>18, <1>25, <2>1, CallerFrame
<1>27. OrphansDistinct'
    BY <1>3, <1>18 DEF IInv, OrphansDistinct
<1>28. SlotInv'
    <2>1. \A v \in victims : entries[Account(store[v].target)] = v
        BY <1>1, <1>14 DEF SlotInv
    <2>2. \A v \in victims : Account(store[v].target) # a
        BY <1>1, <1>2, <1>14, <2>1, SumType
    <2>3. entries'[a] = s
        BY <1>3, <1>9, <2>2
    <2>4. Account(store'[s].target) = a
        BY <1>17
    <2> HIDE DEF a
    <2>5. ASSUME NEW b \in Accounts, entries'[b] # NoStore
          PROVE  InList(entries[b])' /\ Account(store'[entries'[b]].target) = b
        <3>1. CASE b = a
            <4>1. InList(s)' /\ (entries[b])' = s
                BY <1>15, <2>3, <3>1
            <4> QED BY <2>4, <3>1, <4>1 DEF InList
        <3>2. CASE b # a
            <4>1. /\ ~ \E v \in victims : Account(store[v].target) = b
                  /\ entries'[b] = entries[b]
                BY <1>9, <2>5, <3>2
            <4>2. PICK t \in Stores : t = entries[b]
                BY <1>1, <2>5, <4>1
            <4>3. InList(t) /\ Account(store[t].target) = b
                BY <1>1, <2>5, <4>1, <4>2 DEF SlotInv
            <4>4. t \notin victims /\ t # s
                BY <1>4, <4>1, <4>3
            <4>5. InList(t)' /\ Account(store'[t].target) = b
                BY <1>15, <1>24, <4>3, <4>4
            <4> QED BY <4>1, <4>2, <4>5 DEF InList
        <3> QED BY <3>1, <3>2
    <2>6. ASSUME NEW t \in Stores, InList(t)'
          PROVE  entries'[Account(store'[t].target)] = t
        <3>1. CASE t = s
            BY <2>3, <2>4, <3>1
        <3>2. CASE t # s
            <4>1. InList(t) /\ t \notin victims /\ store'[t].target = store[t].target
                BY <1>15, <1>24, <2>6, <3>2
            <4>2. entries[Account(store[t].target)] = t
                BY <1>1, <4>1 DEF SlotInv
            <4>3. Account(store[t].target) \in Accounts
                <5>1. store[t].target # NoTarget
                    BY <4>1 DEF IInv, StoreInv, Private
                <5> QED BY <1>1, <5>1, SumType, SlotType DEF StoreState
            <4>4. \A v \in victims : Account(store[v].target) # Account(store[t].target)
                BY <2>1, <4>1, <4>2
            <4>5. Account(store[t].target) # a
                BY <1>1, <1>2, <4>2, SumType DEF a
            <4> QED BY <1>9, <4>1, <4>2, <4>3, <4>4, <4>5
        <3> QED BY <3>1, <3>2
    <2> QED BY <1>13, <2>5, <2>6 DEF SlotInv, InList
<1> QED BY <1>19, <1>22, <1>23, <1>26, <1>27, <1>28 DEF Books
-----------------------------------------------------------------------------
(* Every reachable state *)

LEMMA InitBooks ==
    ASSUME Init
    PROVE  Books
<1>1. /\ lru = << >> /\ entries = [a \in Accounts |-> NoStore]
      /\ store = [s \in Stores |-> Unopened] /\ closing = [s \in Stores |-> 0]
      /\ caller = [p \in Callers |-> NoCall] /\ flight = [p \in Callers |-> NoFlight]
    BY DEF Init
<1>2. Elements(lru) = {} /\ Distinct(lru) /\ Len(lru) = 0
    BY <1>1 DEF Elements, Distinct
<1>3. \A p \in Callers : /\ caller[p].pc = "idle" /\ caller[p].result = "none"
                         /\ flight[p].pc = "none" /\ flight[p].orphan = NoStore
    BY <1>1 DEF NoCall, NoFlight
<1>4. \A s \in Stores : Borrowers(s) = {}
    BY <1>3 DEF Borrowers
<1>5. \A s \in Stores :
        /\ store[s].refs = 0 /\ store[s].target = NoTarget /\ store[s].closes = 0
        /\ closing[s] = 0 /\ ~ store[s].retired /\ ~ store[s].closed
    BY <1>1 DEF Unopened
<1>6. \A s \in Stores : StoreInv(s)
    <2> SUFFICES ASSUME NEW s \in Stores PROVE StoreInv(s)
        OBVIOUS
    <2>1. Cardinality(Borrowers(s)) = 0
        BY <1>4, FS_EmptySet
    <2>2. Sum(s) = 0 /\ ~ InList(s)
        BY <1>2, <1>5 DEF Sum, InList
    <2> QED BY <1>5, <2>1, <2>2 DEF StoreInv, Private
<1>7. SlotInv
    BY <1>1, <1>2, CacheAssumption DEF SlotInv, InList, CacheAssumption
<1>8. \A p \in Callers : CallerInv(p)
    BY <1>3 DEF CallerInv
<1>9. OrphansDistinct
    BY <1>3 DEF OrphansDistinct
<1> QED BY <1>6, <1>7, <1>8, <1>9 DEF Books

\* Every step keeps the books: one case per action.
LEMMA StepBooks ==
    ASSUME IInv, [Next]_cacheVars
    PROVE  Books'
<1>1. ASSUME NEW p \in Callers, Call(p) \/ Cancel(p)
      PROVE  Books'
    BY <1>1, CallBooks, CancelBooks
<1>2. ASSUME NEW p \in Callers, CallerStep(p)
      PROVE  Books'
    BY <1>2, FailBooks, AcquireHitBooks, AcquireMissBooks, JoinBooks, ReceiveBooks, ReleaseBooks
    DEF CallerStep
<1>3. ASSUME NEW q \in Callers, FlightStep(q)
      PROVE  Books'
    BY <1>3, PeekBooks, ReportBooks, OpenUncachedBooks, OpenCachedBooks DEF FlightStep
<1>4. ASSUME NEW s \in Stores, CloseStore(s)
      PROVE  Books'
    BY <1>4, CloseStoreBooks
<1>5. ASSUME NEW a \in Accounts, Evict(a)
      PROVE  Books'
    BY <1>5, EvictBooks
<1>6. CASE Close
    BY <1>6, CloseBooks
<1>7. CASE Tick \/ UNCHANGED cacheVars
    BY <1>7, TickBooks
<1> QED BY <1>1, <1>2, <1>3, <1>4, <1>5, <1>6, <1>7 DEF Next

LEMMA Inductive == Spec => []IInv
<1>1. Init => IInv
    BY InitTyped, InitBooks DEF IInv, Books
<1>2. IInv /\ [Next]_cacheVars => IInv'
    <2> SUFFICES ASSUME IInv, [Next]_cacheVars PROVE IInv'
        OBVIOUS
    <2>1. Typed'
        BY StepTyped DEF IInv
    <2>2. Books'
        BY StepBooks
    <2> QED BY <2>1, <2>2 DEF IInv, Books
<1> QED BY <1>1, <1>2, PTL DEF Spec

\* No Close is made, or is about to be made, of a store that somebody borrows
\* (retireLocked, releaseEntry).
THEOREM NoBorrowedStoreIsClosed == Spec => []BorrowedStaysOpen
<1>1. IInv => BorrowedStaysOpen
    BY InvSafe
<1> QED BY <1>1, Inductive, PTL

\* No store is closed twice, whoever retires, borrows or refuses it.
THEOREM NoStoreIsClosedTwice == Spec => []ClosedOnce
<1>1. IInv => ClosedOnce
    BY InvSafe
<1> QED BY <1>1, Inductive, PTL

\* Nobody is handed a store of another account or location than it asked for.
THEOREM CallersGetTheirStore == Spec => []RightStore
<1>1. IInv => RightStore
    BY InvSafe
<1> QED BY <1>1, Inductive, PTL

\* The map and the recency list name the same stores, at most Capacity of
\* them, each in the slot of its account.
THEOREM CacheStaysConsistent == Spec => []CacheConsistent
<1>1. IInv => CacheConsistent
    BY InvConsistent
<1> QED BY <1>1, Inductive, PTL

\* An open store always has somebody who will close it, unless it is the orphan
\* of a caller that stopped waiting (openOnceContext).
THEOREM NoOtherStoreLeaks == Spec => []OnlyAbandonedStoresLeak
<1>1. IInv => OnlyAbandonedStoresLeak
    BY InvLeak
<1> QED BY <1>1, Inductive, PTL-----------------------------------------------------------------------------
(* One open for concurrent callers *)

\* No two opens of a target are under way, and an open that found its target
\* missing still does: nobody else opens it, and a fresh entry of it can only
\* come from an open.
OneOpen ==
    \A p, q \in Callers :
        (/\ flight[p].pc # "none" /\ flight[q].pc # "none"
         /\ flight[p].target = flight[q].target) => p = q

OpensMissing ==
    \A q \in Callers :
        (flight[q].pc = "open" /\ ~ closed) => ~ Live(flight[q].target)

OpenInv == IInv /\ OneOpen /\ OpensMissing

\* What an entry was opened for, and when it was last used.
LEMMA EntryStays ==
    ASSUME IInv, NEW a \in Accounts, entries[a] # NoStore
    PROVE  /\ entries[a] \in Stores /\ InList(entries[a])
           /\ store[entries[a]].target # NoTarget
           /\ store[entries[a]].lastUsed \in Nat
<1>1. entries[a] \in Stores /\ InList(entries[a])
    BY DEF IInv, SlotInv, Typed, TypeOK
<1>2. store[entries[a]].target # NoTarget
    BY <1>1 DEF IInv, StoreInv, Private
<1>3. store[entries[a]].lastUsed \in Nat
    BY <1>1, SumType, CacheAssumption DEF IInv, StoreState, CacheAssumption
<1> QED BY <1>1, <1>2, <1>3

\* A step that adds no entry and uses none makes no target live.
LEMMA NothingRevived ==
    ASSUME IInv, now' \in Nat, now' >= now,
           \A a \in Accounts : entries'[a] \in {entries[a], NoStore},
           \A s \in Stores : store[s].target # NoTarget =>
               store'[s].target = store[s].target /\ store'[s].lastUsed = store[s].lastUsed,
           NEW target \in Targets, ~ Live(target)
    PROVE  ~ Live(target)'
<1> SUFFICES ASSUME Live(target)' PROVE FALSE
    OBVIOUS
<1>1. PICK a \in Accounts : a = Account(target)
    BY SlotType DEF IInv
<1>2. entries'[a] # NoStore /\ entries'[a] = entries[a]
    BY <1>1 DEF Live
<1>3. PICK s \in Stores : s = entries[a] /\ store[s].target # NoTarget
    BY <1>2, EntryStays
<1>4. store'[s].target = store[s].target /\ store'[s].lastUsed = store[s].lastUsed
    BY <1>3
<1>5. store'[s].target = target /\ now' - store'[s].lastUsed < TTL
    BY <1>1, <1>2, <1>3 DEF Live, Fresh
<1>6. store[s].lastUsed \in Nat /\ now \in Nat /\ TTL \in Nat
    BY <1>2, <1>3, EntryStays, CacheAssumption DEF IInv, Typed, TypeOK, CacheAssumption
<1>7. now - store[s].lastUsed < TTL
    BY <1>4, <1>5, <1>6
<1> QED BY <1>1, <1>2, <1>3, <1>4, <1>5, <1>7 DEF Live, Fresh

\* A step that starts no open, and revives no target that is being opened.
LEMMA OpensFrame ==
    ASSUME OpenInv, ~ closed' => ~ closed,
           \A q \in Callers : flight'[q].pc # "none" =>
               /\ flight[q].pc # "none" /\ flight'[q].target = flight[q].target
               /\ flight'[q].pc = "open" => flight[q].pc = "open",
           \A q \in Callers, target \in Targets :
               (/\ flight[q].pc = "open" /\ flight'[q].pc = "open"
                /\ flight[q].target = target /\ ~ Live(target))
               => ~ Live(target)'
    PROVE  OneOpen' /\ OpensMissing'
<1>1. OneOpen'
    BY DEF OpenInv, OneOpen
<1>2. ASSUME NEW q \in Callers, flight'[q].pc = "open", ~ closed'
      PROVE  ~ Live(flight[q].target)'
    <2>1. flight[q].pc = "open" /\ flight'[q].target = flight[q].target /\ ~ closed
        BY <1>2
    <2>2. PICK target \in Targets : target = flight[q].target
        BY <2>1 DEF OpenInv, IInv, Typed
    <2>3. ~ Live(target)
        BY <2>1, <2>2 DEF OpenInv, OpensMissing
    <2>4. ~ Live(target)'
        BY <1>2, <2>1, <2>2, <2>3
    <2> QED BY <2>1, <2>2, <2>4 DEF Live, Fresh
<1> QED BY <1>1, <1>2 DEF OpensMissing

\* The steps of the clock, of Close calls and of callers that touch no entry.
LEMMA QuietOpens ==
    ASSUME OpenInv, now' \in Nat, now' >= now, ~ closed' => ~ closed,
           \A a \in Accounts : entries'[a] \in {entries[a], NoStore},
           \A s \in Stores : store[s].target # NoTarget =>
               store'[s].target = store[s].target /\ store'[s].lastUsed = store[s].lastUsed,
           \A q \in Callers : flight'[q].pc # "none" =>
               /\ flight[q].pc # "none" /\ flight'[q].target = flight[q].target
               /\ flight'[q].pc = "open" => flight[q].pc = "open"
    PROVE  OneOpen' /\ OpensMissing'
BY NothingRevived, OpensFrame DEF OpenInv

\* Retiring changes neither what a store was opened for nor its last use.
LEMMA RetiredOpens ==
    ASSUME IInv, NEW S, Retire(S)
    PROVE  \A s \in Stores : /\ store'[s].target = store[s].target
                             /\ store'[s].lastUsed = store[s].lastUsed
BY DEF IInv, Typed, TypeOK, StoreState, Retire, RetireEntry

LEMMA RemovedOpens ==
    ASSUME OpenInv, NEW a \in Accounts, RemoveEntry(a), UNCHANGED <<now, closed, flight>>
    PROVE  OneOpen' /\ OpensMissing'
<1>1. now \in Nat /\ entries \in [Accounts -> Stores \cup {NoStore}]
    BY CacheAssumption DEF OpenInv, IInv, Typed, TypeOK, CacheAssumption
<1>2. \A b \in Accounts : entries'[b] \in {entries[b], NoStore}
    BY <1>1 DEF RemoveEntry
<1>3. \A s \in Stores : /\ store'[s].target = store[s].target
                        /\ store'[s].lastUsed = store[s].lastUsed
    BY RetiredOpens DEF OpenInv, RemoveEntry
<1> QED BY <1>1, <1>2, <1>3, QuietOpens

LEMMA CallerOpens ==
    ASSUME OpenInv, NEW p \in Callers,
           Call(p) \/ Cancel(p) \/ AcquireFails(p) \/ Receive(p) \/ GiveUp(p) \/ Release(p)
    PROVE  OneOpen' /\ OpensMissing'
<1>1. /\ now \in Nat /\ store \in [Stores -> StoreState]
    BY CacheAssumption DEF OpenInv, IInv, Typed, TypeOK, CacheAssumption
<1>2. UNCHANGED <<now, closed, entries, flight>>
    BY DEF Call, Cancel, AcquireFails, Receive, GiveUp, Release, cache
<1>3. \A s \in Stores : /\ store'[s].target = store[s].target
                        /\ store'[s].lastUsed = store[s].lastUsed
    <2>1. CASE store' = store
        BY <2>1
    <2>2. CASE Release(p)
        BY <1>1, <2>2 DEF Release, StoreState
    <2> QED BY <2>1, <2>2 DEF Call, Cancel, AcquireFails, Receive, GiveUp
<1> QED BY <1>1, <1>2, <1>3, QuietOpens

LEMMA AcquireMissOpens ==
    ASSUME OpenInv, NEW p \in Callers, AcquireMiss(p)
    PROVE  OneOpen' /\ OpensMissing'
<1>1. now \in Nat
    BY CacheAssumption DEF OpenInv, IInv, Typed, TypeOK, CacheAssumption
<1>2. PICK a \in Accounts : a = Account(caller[p].target)
    BY SlotType DEF OpenInv, IInv, Typed, AcquireMiss
<1>3. UNCHANGED <<now, closed, flight>>
    BY DEF AcquireMiss
<1>4. CASE UNCHANGED <<entries, store>>
    BY <1>1, <1>3, <1>4, QuietOpens
<1>5. CASE RemoveEntry(a)
    BY <1>3, <1>5, RemovedOpens
<1> QED BY <1>2, <1>4, <1>5 DEF AcquireMiss

\* A hit uses an entry that was live, so nobody is opening its target.
LEMMA AcquireHitOpens ==
    ASSUME OpenInv, NEW p \in Callers, AcquireHit(p)
    PROVE  OneOpen' /\ OpensMissing'
<1>1. /\ caller[p].target \in Targets /\ store \in [Stores -> StoreState]
      /\ Live(caller[p].target) /\ UNCHANGED <<now, closed, entries, flight>>
    BY DEF OpenInv, IInv, Typed, TypeOK, AcquireHit
<1>2. PICK hit \in Targets : hit = caller[p].target
    BY <1>1
<1>3. PICK s \in Stores : s = entries[Account(hit)]
    BY <1>1, <1>2, SlotType DEF OpenInv, IInv, Live
<1>4. store[s].target = hit
    BY <1>1, <1>2, <1>3 DEF Live, Fresh
<1>5. /\ store'[s].target = hit
      /\ \A t \in Stores \ {s} : store'[t] = store[t]
    BY <1>1, <1>2, <1>3, <1>4 DEF AcquireHit, StoreState
<1>6. ASSUME NEW target \in Targets, ~ Live(target), Live(target)'
      PROVE  FALSE
    <2>1. target # hit
        BY <1>1, <1>2, <1>6
    <2>2. entries[Account(target)] \in Stores \cup {NoStore}
        BY SlotType DEF OpenInv, IInv
    <2>3. CASE entries[Account(target)] = s
        BY <1>1, <1>5, <1>6, <2>1, <2>3 DEF Live, Fresh
    <2>4. CASE entries[Account(target)] # s
        BY <1>1, <1>5, <1>6, <2>2, <2>4 DEF Live, Fresh
    <2> QED BY <2>3, <2>4
<1> QED BY <1>1, <1>6, OpensFrame

\* An open starts only when none of its target is under way.
LEMMA JoinOpens ==
    ASSUME OpenInv, NEW p \in Callers, Join(p)
    PROVE  OneOpen' /\ OpensMissing'
<1>1. /\ UNCHANGED <<now, closed, entries, store>> /\ flight \in [Callers -> FlightState]
      /\ now \in Nat
    BY CacheAssumption DEF OpenInv, IInv, Typed, TypeOK, Join, cache, CacheAssumption
<1>2. CASE flight' = flight
    BY <1>1, <1>2, QuietOpens
<1>3. CASE flight' # flight
    <2>1. /\ InFlight(caller[p].target) = {}
          /\ flight'[p].pc = "peek" /\ flight'[p].target = caller[p].target
          /\ \A q \in Callers \ {p} : flight'[q] = flight[q]
        <3> DEFINE next == [NoFlight EXCEPT !.pc = "peek", !.target = caller[p].target]
        <3>1. InFlight(caller[p].target) = {} /\ flight' = [flight EXCEPT ![p] = next]
            BY <1>3 DEF Join
        <3>2. next.pc = "peek" /\ next.target = caller[p].target
            BY DEF NoFlight
        <3> HIDE DEF next
        <3> QED
            BY <1>1, <3>1, <3>2
    <2>2. \A q \in Callers : flight[q].pc # "none" => flight[q].target # caller[p].target
        BY <2>1 DEF InFlight
    <2>3. OneOpen'
        BY <2>1, <2>2 DEF OpenInv, OneOpen
    <2>4. ASSUME NEW q \in Callers, flight'[q].pc = "open", ~ closed'
          PROVE  ~ Live(flight[q].target)'
        <3>1. q # p /\ flight'[q] = flight[q]
            BY <2>1, <2>4
        <3>2. ~ Live(flight[q].target)
            BY <1>1, <2>4, <3>1 DEF OpenInv, OpensMissing
        <3> QED BY <1>1, <3>1, <3>2 DEF Live, Fresh
    <2> QED BY <2>3, <2>4 DEF OpensMissing
<1> QED BY <1>2, <1>3

\* An open goes on after it looked into its slot again and found it missing.
LEMMA PeekOpens ==
    ASSUME OpenInv, NEW q \in Callers, Peek(q)
    PROVE  OneOpen' /\ OpensMissing'
<1>1. /\ UNCHANGED <<now, closed, entries, store>> /\ flight \in [Callers -> FlightState]
      /\ flight[q].pc = "peek"
    BY DEF OpenInv, IInv, Typed, TypeOK, Peek, cache
<1>2. /\ flight'[q].target = flight[q].target /\ flight'[q].pc \in {"open", "report"}
      /\ flight'[q].pc = "open" => ~ (~ closed /\ Live(flight[q].target))
      /\ \A r \in Callers \ {q} : flight'[r] = flight[r]
    BY <1>1 DEF Peek, Land, FlightState
<1>3. \A r \in Callers : flight'[r].target = flight[r].target
    BY <1>2
<1>4. OneOpen'
    BY <1>1, <1>2, <1>3 DEF OpenInv, OneOpen
<1>5. ASSUME NEW r \in Callers, flight'[r].pc = "open", ~ closed'
      PROVE  ~ Live(flight[r].target)'
    <2>1. ~ Live(flight[r].target)
        BY <1>1, <1>2, <1>5 DEF OpenInv, OpensMissing
    <2> QED BY <1>1, <1>3, <2>1 DEF Live, Fresh
<1> QED BY <1>4, <1>5 DEF OpensMissing

\* An open ends without filling its slot.
LEMMA UncachedOpens ==
    ASSUME OpenInv, NEW q \in Callers,
           \/ OpenFails(q) \/ Report(q)
           \/ \E s \in Stores : OpenRefused(q, s) \/ OpenOrphaned(q, s)
    PROVE  OneOpen' /\ OpensMissing'
<1>1. /\ now \in Nat /\ store \in [Stores -> StoreState] /\ flight \in [Callers -> FlightState]
    BY CacheAssumption DEF OpenInv, IInv, Typed, TypeOK, CacheAssumption
<1>2. UNCHANGED <<now, closed, entries>>
    BY DEF OpenFails, Report, OpenRefused, OpenOrphaned, cache
<1>3. \A s \in Stores : store[s].target # NoTarget => store'[s] = store[s]
    <2>1. CASE OpenFails(q) \/ Report(q)
        BY <2>1 DEF OpenFails, Report
    <2>2. ASSUME NEW s \in Stores, OpenRefused(q, s) \/ OpenOrphaned(q, s)
          PROVE  \A t \in Stores : store[t].target # NoTarget => store'[t] = store[t]
        BY <1>1, <2>2 DEF OpenRefused, OpenOrphaned
    <2> QED BY <2>1, <2>2
<1>4. /\ flight[q].pc # "none"
      /\ \/ flight'[q].pc = "none"
         \/ flight'[q].pc = "report" /\ flight'[q].target = flight[q].target
      /\ \A r \in Callers \ {q} : flight'[r] = flight[r]
    <2>1. CASE Report(q)
        BY <1>1, <2>1 DEF Report, NoFlight, FlightState
    <2>2. ASSUME flight[q].pc = "open", NEW result, NEW orphan, Land(q, result, orphan)
          PROVE  /\ flight'[q].pc = "report" /\ flight'[q].target = flight[q].target
                 /\ \A r \in Callers \ {q} : flight'[r] = flight[r]
        BY <1>1, <2>2 DEF Land, FlightState
    <2> QED BY <2>1, <2>2 DEF OpenFails, OpenRefused, OpenOrphaned, SlotLost
<1>5. \A r \in Callers : flight'[r].pc # "none" =>
          /\ flight[r].pc # "none" /\ flight'[r].target = flight[r].target
          /\ flight'[r].pc = "open" => flight[r].pc = "open"
    BY <1>4
<1> QED BY <1>1, <1>2, <1>3, <1>5, QuietOpens

\* An open fills its slot: every other one is of another target.
LEMMA OpenCachedOpens ==
    ASSUME OpenInv, NEW q \in Callers, NEW s \in Stores, OpenCached(q, s)
    PROVE  OneOpen' /\ OpensMissing'
<1>1. /\ store \in [Stores -> StoreState] /\ flight \in [Callers -> FlightState]
      /\ UNCHANGED <<now, closed>> /\ now \in Nat /\ flight[q].pc = "open"
    BY CacheAssumption DEF OpenInv, IInv, Typed, TypeOK, OpenCached, CacheAssumption
<1>2. /\ flight'[q].pc = "report" /\ flight'[q].target = flight[q].target
      /\ \A r \in Callers \ {q} : flight'[r] = flight[r]
    BY <1>1 DEF OpenCached, Land, FlightState
<1>3. /\ store'[s].target = flight[q].target /\ store[s].target = NoTarget
      /\ \A t \in Stores \ {s} : /\ store'[t].target = store[t].target
                                 /\ store'[t].lastUsed = store[t].lastUsed
    BY <1>1 DEF OpenCached, Opened, Unopened, RetireEntry, StoreState
<1>4. \A b \in Accounts : entries'[b] \in {entries[b], s, NoStore}
    BY DEF OpenCached
<1>5. ASSUME NEW target \in Targets, target # flight[q].target, ~ Live(target), Live(target)'
      PROVE  FALSE
    <2>1. PICK b \in Accounts : b = Account(target)
        BY SlotType DEF OpenInv, IInv
    <2>2. entries'[b] # NoStore /\ store'[entries'[b]].target = target
        BY <1>5, <2>1 DEF Live, Fresh
    <2>3. entries'[b] # s
        BY <1>3, <1>5, <2>2
    <2>4. entries'[b] = entries[b]
        BY <1>4, <2>2, <2>3
    <2>5. PICK t \in Stores : t = entries[b] /\ t # s
        BY <2>2, <2>3, <2>4, EntryStays DEF OpenInv
    <2> QED BY <1>1, <1>3, <1>5, <2>1, <2>2, <2>4, <2>5 DEF Live, Fresh
<1>6. \A r \in Callers : (r # q /\ flight[r].pc = "open") => flight[r].target # flight[q].target
    BY <1>1 DEF OpenInv, OneOpen
<1> QED BY <1>1, <1>2, <1>5, <1>6, OpensFrame

LEMMA StepOpens ==
    ASSUME OpenInv, [Next]_cacheVars
    PROVE  OneOpen' /\ OpensMissing'
<1>1. now \in Nat /\ store \in [Stores -> StoreState]
    BY CacheAssumption DEF OpenInv, IInv, Typed, TypeOK, CacheAssumption
<1>2. ASSUME NEW p \in Callers, Call(p) \/ Cancel(p) \/ CallerStep(p)
      PROVE  OneOpen' /\ OpensMissing'
    BY <1>2, CallerOpens, AcquireHitOpens, AcquireMissOpens, JoinOpens DEF CallerStep
<1>3. ASSUME NEW q \in Callers, FlightStep(q)
      PROVE  OneOpen' /\ OpensMissing'
    BY <1>3, PeekOpens, UncachedOpens, OpenCachedOpens DEF FlightStep
<1>4. ASSUME NEW s \in Stores, CloseStore(s)
      PROVE  OneOpen' /\ OpensMissing'
    <2>1. UNCHANGED <<now, closed, entries, flight>>
        BY <1>4 DEF CloseStore, cache
    <2>2. \A t \in Stores : /\ store'[t].target = store[t].target
                            /\ store'[t].lastUsed = store[t].lastUsed
        BY <1>1, <1>4 DEF CloseStore, StoreState
    <2> QED BY <1>1, <2>1, <2>2, QuietOpens
<1>5. ASSUME NEW a \in Accounts, Evict(a)
      PROVE  OneOpen' /\ OpensMissing'
    BY <1>5, RemovedOpens DEF Evict
<1>6. CASE Close
    <2>1. UNCHANGED <<now, flight>> /\ closed' /\ \A a \in Accounts : entries'[a] = NoStore
        BY <1>6 DEF Close
    <2>2. \A t \in Stores : /\ store'[t].target = store[t].target
                            /\ store'[t].lastUsed = store[t].lastUsed
        BY <1>6, RetiredOpens DEF OpenInv, Close
    <2> QED BY <1>1, <2>1, <2>2, QuietOpens
<1>7. CASE Tick
    <2>1. now' = now + 1 /\ UNCHANGED <<closed, entries, store, flight>>
        BY <1>7 DEF Tick, cache
    <2> QED BY <1>1, <2>1, QuietOpens
<1>8. CASE UNCHANGED cacheVars
    <2>1. UNCHANGED <<now, closed, entries, store, flight>>
        BY <1>8 DEF cacheVars, cache
    <2> QED BY <1>1, <2>1, QuietOpens
<1> QED BY <1>2, <1>3, <1>4, <1>5, <1>6, <1>7, <1>8 DEF Next

\* A store is opened beside the cached one only when that is expired or of
\* another location: concurrent callers of a target share one open (Join and
\* the second look of Peek).
THEOREM ConcurrentCallersShareAnOpen == Spec => OpensDeduplicated
<1>1. Init => OneOpen /\ OpensMissing
    BY DEF Init, NoFlight, OneOpen, OpensMissing
<1>2. (OneOpen /\ OpensMissing) /\ IInv /\ [Next]_cacheVars => (OneOpen /\ OpensMissing)'
    BY StepOpens DEF OpenInv
<1>3. OpensMissing => \A q \in Callers, s \in Stores :
          OpenOrphaned(q, s) => ~ Live(flight[q].target)
    BY DEF OpensMissing, OpenOrphaned, SlotLost
<1>4. Spec => [](OneOpen /\ OpensMissing)
    BY <1>1, <1>2, Inductive, PTL DEF Spec
<1>5. (OneOpen /\ OpensMissing) => [\A q \in Callers, s \in Stores :
          OpenOrphaned(q, s) => ~ Live(flight[q].target)]_cacheVars
    BY <1>3
<1> QED BY <1>4, <1>5, PTL DEF OpensDeduplicated
=============================================================================
