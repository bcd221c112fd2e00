-------------------------- MODULE DeliveryPassProofs --------------------------
(***************************************************************************)
(* Proofs about DeliveryPass, for any accounts, any finite number of       *)
(* goroutines and any page size: the leases of a pass are those of its     *)
(* goroutines and are returned, and a pass that does not fail takes every  *)
(* account that stayed.                                                    *)
(***************************************************************************)
EXTENDS DeliveryPass, FiniteSetTheorems, SequenceTheorems, TLAPS

-----------------------------------------------------------------------------
(* The inductive invariant *)

\* The goroutines that hold a lease on a's store.
Holders(a) == {s \in Slots : slots[s].pc = "deliver" /\ slots[s].account = a}

Loads == \A a \in Accounts : leases[a] = Cardinality(Holders(a))

\* The goroutines of a pass run while it serves, and the loop ends after it.
Phases ==
    /\ active <=> pass.pc # "none"
    /\ pass.pc \in {"none", "list", "report"} => \A s \in Slots : slots[s].pc = "off"
    /\ \A s \in Slots : slots[s].pc \in {"open", "deliver"} => slots[s].account \in Accounts
    /\ loop = "done" => pass.pc = "none"
    /\ shutdown = "stopped" => loop = "done"

Queued(a) == \E i \in 1..Len(pass.queue) : pass.queue[i] = a

\* The queue is in order, and no account of it has been taken.
QueueSound ==
    /\ \A i, j \in 1..Len(pass.queue) : i < j => pass.queue[i] < pass.queue[j]
    /\ pass.pc \in {"list", "serve"} => \A a \in Accounts : Queued(a) => visits[a] = 0
    /\ \A a \in Accounts : visits[a] <= 1

\* An account that stayed is ahead of the cursor, in the queue, or was taken.
Complete ==
    /\ stayed \subseteq accounts
    /\ pass.pc = "list" =>
        /\ \A a \in Accounts : visits[a] = 0
        /\ \A a \in Accounts : Queued(a) => a <= pass.cursor
        /\ \A a \in stayed : a <= pass.cursor => Queued(a)
    /\ pass.pc = "serve" => \A a \in stayed : Queued(a) \/ visits[a] = 1
    /\ pass.pc = "wait" => canceled \/ \A a \in stayed : visits[a] = 1
    /\ pass.pc = "report" => pass.failed \/ \A a \in stayed : visits[a] = 1

\* There is nothing to say of stayed and of the queue when no pass is under way.
Inv == TypeOK /\ Loads /\ Phases /\ QueueSound /\ (pass.pc # "none" => Complete)

LEMMA Constants ==
    /\ NoPass \in Pass /\ Off \in Slot /\ Idle \in Slot
    /\ NoPass.pc = "none" /\ NoPass.queue = <<>> /\ Len(NoPass.queue) = 0
    /\ Off.pc = "off" /\ Idle.pc = "idle"
  BY DEF NoPass, Pass, Off, Idle, Slot

LEMMA Numbers == \A a \in Accounts : a \in Nat /\ a > 0
  BY DeliveryPassAssumption

LEMMA Cursor == ASSUME NEW p \in Pass PROVE p.cursor \in Nat
  <1>1. p.cursor \in Accounts \/ p.cursor = 0
    BY DEF Pass
  <1> QED
    BY <1>1, Numbers

LEMMA InitInv == Init => Inv
  <1> SUFFICES ASSUME Init PROVE Inv
    OBVIOUS
  <1>1. TypeOK
    <2>1. /\ slots \in [Slots -> Slot] /\ leases \in [Accounts -> Nat]
          /\ visits \in [Accounts -> 0..2] /\ pass \in Pass
      BY Constants DEF Init
    <2>2. changes \in 0..MaxChanges /\ faults \in 0..MaxFaults
      BY DeliveryPassAssumption DEF Init
    <2>3. /\ accounts \subseteq Accounts /\ stayed \subseteq Accounts
          /\ canceled \in BOOLEAN /\ active \in BOOLEAN
          /\ loop \in {"running", "done"} /\ shutdown \in {"none", "stop", "stopped", "gaveUp"}
      BY DEF Init
    <2> QED
      BY <2>1, <2>2, <2>3 DEF TypeOK
  <1>2. Loads
    <2> SUFFICES ASSUME NEW a \in Accounts PROVE leases[a] = Cardinality(Holders(a))
      BY DEF Loads
    <2>1. Holders(a) = {}
      BY Constants DEF Init, Holders
    <2> QED
      BY <2>1, FS_EmptySet DEF Init
  <1>3. Phases
    BY Constants DEF Init, Phases
  <1>4. QueueSound
    BY Constants DEF Init, QueueSound, Queued
  <1> QED
    BY <1>1, <1>2, <1>3, <1>4, Constants DEF Init, Inv

-----------------------------------------------------------------------------
(* The leases *)

LEMMA HoldersFinite ==
  ASSUME NEW a
  PROVE  IsFiniteSet(Holders(a)) /\ Cardinality(Holders(a)) \in Nat
  <1>1. Holders(a) \in SUBSET Slots
    BY DEF Holders
  <1> QED
    BY <1>1, FS_Subset, FS_CardinalityType, DeliveryPassAssumption

\* A goroutine moves, and the leases with it.
LEMMA SlotMoves ==
  ASSUME Inv, NEW s \in Slots, NEW next \in Slot, slots' = [slots EXCEPT ![s] = next]
  PROVE  /\ slots' \in [Slots -> Slot]
         /\ slots'[s] = next /\ \A r \in Slots \ {s} : slots'[r] = slots[r]
         /\ \A a : Holders(a)' = IF next.pc = "deliver" /\ next.account = a
                                 THEN Holders(a) \cup {s} ELSE Holders(a) \ {s}
  <1>1. slots' \in [Slots -> Slot] /\ slots'[s] = next
        /\ \A r \in Slots \ {s} : slots'[r] = slots[r]
    BY DEF Inv, TypeOK
  <1>2. ASSUME NEW a
        PROVE  Holders(a)' = IF next.pc = "deliver" /\ next.account = a
                             THEN Holders(a) \cup {s} ELSE Holders(a) \ {s}
    BY <1>1 DEF Holders
  <1> QED
    BY <1>1, <1>2

\* A step between two states in which it holds no lease changes none.
LEMMA LoadsKept ==
  ASSUME Inv, NEW s \in Slots, NEW next \in Slot, slots' = [slots EXCEPT ![s] = next],
         slots[s].pc # "deliver", next.pc # "deliver", leases' = leases
  PROVE  Loads'
  <1> SUFFICES ASSUME NEW a \in Accounts PROVE leases[a] = Cardinality(Holders(a)')
    BY DEF Loads, Holders
  <1>1. s \notin Holders(a)
    BY DEF Holders
  <1>2. Holders(a)' = Holders(a) \ {s}
    BY SlotMoves
  <1>3. Holders(a)' = Holders(a)
    BY <1>1, <1>2
  <1> QED
    BY <1>3 DEF Inv, Loads

\* Nothing holds a lease before or after.
LEMMA LoadsOfNone ==
  ASSUME Inv, leases' = leases, \A s \in Slots : slots[s].pc # "deliver",
         \A s \in Slots : slots'[s].pc # "deliver"
  PROVE  Loads'
  <1> SUFFICES ASSUME NEW a \in Accounts PROVE leases[a] = Cardinality(Holders(a)')
    BY DEF Loads, Holders
  <1>1. Holders(a)' = {} /\ Holders(a) = {}
    BY DEF Holders
  <1> QED
    BY <1>1 DEF Inv, Loads

-----------------------------------------------------------------------------
(* Tenants *)

\* What moves a goroutine that serves, and the leases or the count of faults.
LEMMA ServingKeeps ==
  ASSUME Inv, NEW s \in Slots, NEW next \in Slot, slots' = [slots EXCEPT ![s] = next],
         slots[s].pc # "off",
         next.pc \in {"open", "deliver"} => next.account \in Accounts,
         leases' \in [Accounts -> Nat], Loads', faults' \in 0..MaxFaults,
         UNCHANGED <<accounts, canceled, loop, shutdown, active, pass, history, changes>>
  PROVE  Inv'
  <1>1. slots' \in [Slots -> Slot] /\ slots'[s] = next
        /\ \A r \in Slots \ {s} : slots'[r] = slots[r]
    BY SlotMoves
  <1>2. TypeOK'
    BY <1>1 DEF Inv, TypeOK, history
  <1>3. Phases'
    BY <1>1 DEF Inv, Phases
  <1>4. QueueSound' /\ (pass.pc # "none" => Complete)'
    BY DEF Inv, QueueSound, Complete, Queued, history
  <1> QED
    BY <1>2, <1>3, <1>4 DEF Inv

LEMMA OpenKeeps ==
  ASSUME Inv, NEW s \in Slots, Open(s)
  PROVE  Inv'
  <1> DEFINE b == slots[s].account
             next == [slots[s] EXCEPT !.pc = "deliver"]
  <1>1. /\ slots[s] \in Slot /\ slots[s].pc = "open" /\ b \in Accounts
        /\ slots' = [slots EXCEPT ![s] = next]
        /\ leases' = [leases EXCEPT ![b] = @ + 1] /\ leases \in [Accounts -> Nat]
        /\ UNCHANGED <<accounts, canceled, loop, shutdown, active, pass, history, changes,
                       faults>>
    BY DEF Open, Inv, TypeOK, Phases
  <1>2. next \in Slot /\ next.pc = "deliver" /\ next.account = b
    BY <1>1 DEF Slot
  <1> HIDE DEF next
  <1>3. leases' \in [Accounts -> Nat]
    BY <1>1
  <1>4. slots' = [slots EXCEPT ![s] = next]
    BY <1>1
  <1>5. \A a \in Accounts :
          Holders(a)' = IF a = b THEN Holders(a) \cup {s} ELSE Holders(a) \ {s}
    <2> SUFFICES ASSUME NEW a \in Accounts
                 PROVE  Holders(a)' = IF a = b THEN Holders(a) \cup {s} ELSE Holders(a) \ {s}
      OBVIOUS
    <2>1. Holders(a)' = IF next.pc = "deliver" /\ next.account = a
                        THEN Holders(a) \cup {s} ELSE Holders(a) \ {s}
      BY <1>2, <1>4, SlotMoves
    <2> QED
      BY <1>2, <2>1
  <1>6. Loads'
    <2> SUFFICES ASSUME NEW a \in Accounts PROVE leases'[a] = Cardinality(Holders(a)')
      BY DEF Loads, Holders
    <2>1. leases[a] = Cardinality(Holders(a)) /\ s \notin Holders(a)
      BY <1>1 DEF Inv, Loads, Holders
    <2>2. CASE a = b
      <3>1. Holders(a)' = Holders(a) \cup {s}
        BY <1>5, <2>2
      <3>2. Cardinality(Holders(a) \cup {s}) = Cardinality(Holders(a)) + 1
        BY <2>1, HoldersFinite, FS_AddElement
      <3>3. leases'[a] = leases[a] + 1
        BY <1>1, <2>2
      <3> QED
        BY <2>1, <3>1, <3>2, <3>3
    <2>3. CASE a # b
      <3>1. Holders(a)' = Holders(a)
        BY <1>5, <2>1, <2>3
      <3>2. leases'[a] = leases[a]
        BY <1>1, <2>3
      <3> QED
        BY <2>1, <3>1, <3>2
    <2> QED
      BY <2>2, <2>3
  <1> QED
    BY <1>1, <1>2, <1>3, <1>6, ServingKeeps DEF Inv, TypeOK

LEMMA DeliverKeeps ==
  ASSUME Inv, NEW s \in Slots, Deliver(s)
  PROVE  Inv'
  <1> DEFINE b == slots[s].account
  <1>1. /\ slots[s] \in Slot /\ slots[s].pc = "deliver" /\ b \in Accounts
        /\ slots' = [slots EXCEPT ![s] = Idle]
        /\ leases' = [leases EXCEPT ![b] = @ - 1] /\ leases \in [Accounts -> Nat]
        /\ UNCHANGED <<accounts, canceled, loop, shutdown, active, pass, history, changes,
                       faults>>
    BY DEF Deliver, Inv, TypeOK, Phases
  <1>2. \A a \in Accounts : Holders(a)' = Holders(a) \ {s}
    BY <1>1, SlotMoves, Constants
  <1>3. ASSUME NEW a \in Accounts
        PROVE  leases'[a] \in Nat /\ leases'[a] = Cardinality(Holders(a)')
    <2>1. leases[a] = Cardinality(Holders(a)) /\ leases[a] \in Nat
      BY <1>1 DEF Inv, Loads
    <2>2. /\ Cardinality(Holders(a) \ {s}) =
                IF s \in Holders(a) THEN Cardinality(Holders(a)) - 1
                ELSE Cardinality(Holders(a))
          /\ Cardinality(Holders(a) \ {s}) \in Nat
      BY HoldersFinite, FS_RemoveElement, FS_CardinalityType
    <2>3. s \in Holders(a) <=> a = b
      BY <1>1 DEF Holders
    <2> QED
      BY <1>1, <1>2, <2>1, <2>2, <2>3
  <1>4. leases' \in [Accounts -> Nat] /\ Loads'
    BY <1>1, <1>3 DEF Loads, Holders
  <1> QED
    BY <1>1, <1>4, ServingKeeps, Constants DEF Inv, TypeOK

LEMMA OpenFailsKeeps ==
  ASSUME Inv, NEW s \in Slots, OpenFails(s)
  PROVE  Inv'
  <1>1. /\ slots[s].pc = "open" /\ slots' = [slots EXCEPT ![s] = Idle]
        /\ UNCHANGED <<accounts, canceled, loop, shutdown, active, pass, leases, history,
                       changes>>
        /\ faults' \in 0..MaxFaults /\ leases' \in [Accounts -> Nat]
    BY DeliveryPassAssumption DEF OpenFails, Fault, Inv, TypeOK
  <1>2. Loads'
    BY <1>1, LoadsKept, Constants
  <1> QED
    BY <1>1, <1>2, ServingKeeps, Constants

LEMMA ExitKeeps ==
  ASSUME Inv, NEW s \in Slots, Exit(s)
  PROVE  Inv'
  <1>1. /\ slots[s].pc = "idle" /\ slots' = [slots EXCEPT ![s] = Off]
        /\ UNCHANGED <<accounts, canceled, loop, shutdown, active, pass, leases, history,
                       changes>>
        /\ faults' \in 0..MaxFaults /\ leases' \in [Accounts -> Nat]
    BY DEF Exit, Inv, TypeOK
  <1>2. Loads'
    BY <1>1, LoadsKept, Constants
  <1> QED
    BY <1>1, <1>2, ServingKeeps, Constants

-----------------------------------------------------------------------------
(* The worker and the end of the server *)

\* A step that leaves the pass alone, but may end the loop or the server.
LEMMA WorkerKeeps ==
  ASSUME Inv, LoopEnds \/ Signal \/ StopReturns \/ StopTimesOut
  PROVE  Inv'
  <1>1. /\ UNCHANGED <<accounts, active, pass, slots, leases, history, changes, faults>>
        /\ canceled => canceled'
        /\ canceled' \in BOOLEAN /\ loop' \in {"running", "done"}
        /\ shutdown' \in {"none", "stop", "stopped", "gaveUp"}
        /\ loop' = "done" => pass.pc = "none"
        /\ shutdown' = "stopped" => loop' = "done"
    BY DEF LoopEnds, Signal, StopReturns, StopTimesOut, Inv, TypeOK, Phases
  <1>2. TypeOK'
    BY <1>1 DEF Inv, TypeOK, history
  <1>3. Loads'
    BY <1>1 DEF Inv, Loads, Holders
  <1>4. Phases'
    BY <1>1 DEF Inv, Phases
  <1>5. QueueSound'
    BY <1>1 DEF Inv, QueueSound, Queued, history
  <1>6. (pass.pc # "none" => Complete)'
    BY <1>1 DEF Inv, Complete, Queued, history
  <1> QED
    BY <1>2, <1>3, <1>4, <1>5, <1>6 DEF Inv

LEMMA LaunchKeeps ==
  ASSUME Inv, Launch
  PROVE  Inv'
  <1> DEFINE next == [NoPass EXCEPT !.pc = "list"]
  <1>1. /\ next \in Pass /\ next.pc = "list" /\ next.queue = <<>> /\ next.cursor = 0
        /\ Len(next.queue) = 0 /\ pass' = next
    <2>1. next \in Pass
      BY Constants DEF Pass
    <2>2. next.pc = "list" /\ next.queue = <<>> /\ next.cursor = 0
      BY DEF NoPass
    <2>3. Len(next.queue) = 0 /\ pass' = next
      BY <2>2 DEF Launch
    <2> QED
      BY <2>1, <2>2, <2>3
  <1> HIDE DEF next
  <1>2. /\ pass.pc = "none" /\ active' = TRUE /\ loop = "running" /\ stayed' = accounts
        /\ visits' = [a \in Accounts |-> 0]
        /\ UNCHANGED <<accounts, canceled, loop, shutdown, slots, leases, changes, faults>>
    BY DEF Launch, Inv, Phases
  <1>3. TypeOK'
    BY <1>1, <1>2 DEF Inv, TypeOK
  <1>4. Loads' /\ Phases'
    BY <1>1, <1>2 DEF Inv, Loads, Holders, Phases
  <1>5. QueueSound' /\ Complete'
    <2>1. \A a : ~ Queued(a)'
      BY <1>1 DEF Queued
    <2>2. \A a \in Accounts : a > 0
      BY DeliveryPassAssumption
    <2>3. stayed' \subseteq Accounts
      BY <1>2 DEF Inv, TypeOK
    <2>4. QueueSound'
      BY <1>1, <1>2, <2>1 DEF QueueSound
    <2>5. /\ \A a \in Accounts : visits'[a] = 0
          /\ \A a \in stayed' : ~ (a <= pass'.cursor)
      BY <1>1, <1>2, <2>2, <2>3, DeliveryPassAssumption
    <2>6. Complete'
      BY <1>1, <1>2, <2>1, <2>5 DEF Complete
    <2> QED
      BY <2>4, <2>6
  <1> QED
    BY <1>3, <1>4, <1>5 DEF Inv

LEMMA ReportKeeps ==
  ASSUME Inv, Report
  PROVE  Inv'
  <1>1. /\ pass.pc = "report" /\ pass' = NoPass /\ active' = FALSE
        /\ UNCHANGED <<accounts, canceled, loop, shutdown, slots, leases, history, changes,
                       faults>>
    BY DEF Report, EndPass
  <1>2. TypeOK'
    BY <1>1, Constants DEF Inv, TypeOK, history
  <1>3. Loads' /\ Phases'
    BY <1>1, Constants DEF Inv, Loads, Holders, Phases
  <1>4. QueueSound' /\ (pass.pc # "none" => Complete)'
    BY <1>1, Constants DEF Inv, QueueSound, Queued, history
  <1> QED
    BY <1>2, <1>3, <1>4 DEF Inv

-----------------------------------------------------------------------------
(* Pages *)

LEMMA PageFacts ==
  ASSUME NEW rest \in SUBSET Accounts, NEW page \in Pages(rest)
  PROVE  /\ page \in Seq(Accounts) /\ Len(page) \in 0..PageSize
         /\ \A i \in 1..Len(page) : page[i] \in rest
         /\ \A i, j \in 1..Len(page) : i < j => page[i] < page[j]
         /\ \A i \in 1..Len(page), a \in rest :
                a < page[i] => \E j \in 1..Len(page) : page[j] = a
         /\ Range(page) = {page[i] : i \in 1..Len(page)}
  <1>1. PICK n \in 0..PageSize : page \in [1..n -> rest]
    BY DEF Pages
  <1>2. n \in Nat
    BY DeliveryPassAssumption
  <1>3. page \in Seq(Accounts) /\ Len(page) = n /\ DOMAIN page = 1..n
    BY <1>1, <1>2
  <1> QED
    BY <1>1, <1>3 DEF Pages, Range

\* The queue that a page is appended to.
LEMMA Appended ==
  ASSUME Inv, pass.pc = "list", NEW page \in Pages(After(pass.cursor)),
         NEW next \in Pass, pass' = next, next.queue = pass.queue \o page
  PROVE  /\ \A a : Queued(a)' <=> Queued(a) \/ a \in Range(page)
         /\ \A i, j \in 1..Len(next.queue) : i < j => next.queue[i] < next.queue[j]
  <1> DEFINE q == pass.queue
             rest == After(pass.cursor)
  <1>1. /\ q \in Seq(Accounts) /\ pass.cursor \in Nat
        /\ rest \in SUBSET Accounts /\ \A a \in rest : a > pass.cursor
    <2>1. pass \in Pass /\ accounts \subseteq Accounts
      BY DEF Inv, TypeOK
    <2>2. q \in Seq(Accounts) /\ pass.cursor \in Accounts \cup {0}
      BY <2>1 DEF Pass
    <2>3. pass.cursor \in Nat
      BY <2>1, Cursor
    <2>4. rest \in SUBSET Accounts /\ \A a \in rest : a > pass.cursor
      BY <2>1 DEF After
    <2> QED
      BY <2>2, <2>3, <2>4
  <1>2. /\ page \in Seq(Accounts)
        /\ \A i \in 1..Len(page) : page[i] \in rest
        /\ \A i, j \in 1..Len(page) : i < j => page[i] < page[j]
        /\ Range(page) = {page[i] : i \in 1..Len(page)}
    BY <1>1, PageFacts
  <1>3. /\ \A i \in 1..Len(q) : q[i] \in Accounts /\ q[i] <= pass.cursor
        /\ \A i, j \in 1..Len(q) : i < j => q[i] < q[j]
    BY <1>1 DEF Inv, Complete, QueueSound, Queued
  <1>4. /\ Len(q) \in Nat /\ Len(page) \in Nat /\ Len(next.queue) = Len(q) + Len(page)
        /\ \A i \in 1..(Len(q) + Len(page)) :
              next.queue[i] = IF i <= Len(q) THEN q[i] ELSE page[i - Len(q)]
    BY <1>1, <1>2, ConcatProperties, LenProperties
  <1> HIDE DEF q, rest
  <1>5. \A a : (\E i \in 1..Len(next.queue) : next.queue[i] = a)
               <=> (\E i \in 1..Len(q) : q[i] = a) \/ a \in Range(page)
    <2> TAKE a
    <2>1. ASSUME NEW i \in 1..Len(next.queue), next.queue[i] = a
          PROVE  (\E k \in 1..Len(q) : q[k] = a) \/ a \in Range(page)
      <3>1. CASE i <= Len(q)
        BY <1>4, <2>1, <3>1
      <3>2. CASE ~ (i <= Len(q))
        <4>1. i - Len(q) \in 1..Len(page)
          BY <1>4, <3>2
        <4> QED
          BY <1>2, <1>4, <2>1, <3>2, <4>1
      <3> QED
        BY <3>1, <3>2
    <2>2. ASSUME NEW i \in 1..Len(q), q[i] = a
          PROVE  \E k \in 1..Len(next.queue) : next.queue[k] = a
      BY <1>4, <2>2
    <2>3. ASSUME NEW i \in 1..Len(page), page[i] = a
          PROVE  \E k \in 1..Len(next.queue) : next.queue[k] = a
      <3>1. /\ i + Len(q) \in 1..Len(next.queue) /\ ~ (i + Len(q) <= Len(q))
            /\ (i + Len(q)) - Len(q) = i
        BY <1>4
      <3> QED
        BY <1>4, <2>3, <3>1
    <2> QED
      BY <1>2, <2>1, <2>2, <2>3
  <1>6. ASSUME NEW i \in 1..Len(next.queue), NEW j \in 1..Len(next.queue), i < j
        PROVE  next.queue[i] < next.queue[j]
    <2>1. CASE j <= Len(q)
      BY <1>3, <1>4, <1>6, <2>1
    <2>2. CASE i > Len(q)
      <3>1. /\ i - Len(q) \in 1..Len(page) /\ j - Len(q) \in 1..Len(page)
            /\ i - Len(q) < j - Len(q) /\ ~ (i <= Len(q)) /\ ~ (j <= Len(q))
        BY <1>4, <1>6, <2>2
      <3> QED
        BY <1>2, <1>4, <3>1
    <2>3. CASE i <= Len(q) /\ j > Len(q)
      <3>1. j - Len(q) \in 1..Len(page) /\ ~ (j <= Len(q))
        BY <1>4, <2>3
      <3>2. next.queue[i] = q[i] /\ next.queue[j] = page[j - Len(q)]
        BY <1>4, <2>3, <3>1
      <3>3. q[i] \in Accounts /\ q[i] <= pass.cursor /\ i \in 1..Len(q)
        BY <1>3, <1>4, <2>3
      <3>4. page[j - Len(q)] \in Accounts /\ page[j - Len(q)] > pass.cursor
        BY <1>1, <1>2, <3>1
      <3>5. q[i] \in Nat /\ page[j - Len(q)] \in Nat
        BY <3>3, <3>4, DeliveryPassAssumption
      <3> QED
        BY <1>1, <3>2, <3>3, <3>4, <3>5
    <2> QED
      BY <1>4, <2>1, <2>2, <2>3
  <1> QED
    BY <1>5, <1>6 DEF Queued, q

-----------------------------------------------------------------------------
(* The pass *)

LEMMA ListPageKeeps ==
  ASSUME Inv, ListPage
  PROVE  Inv'
  <1> DEFINE rest == After(pass.cursor)
  <1>1. /\ pass \in Pass /\ pass.pc = "list" /\ active = TRUE
        /\ rest = {a \in accounts : a > pass.cursor} /\ rest \in SUBSET Accounts
        /\ \A s \in Slots : slots[s].pc = "off"
        /\ UNCHANGED <<accounts, canceled, loop, shutdown, active, leases, history,
                       changes, faults>>
    BY DEF ListPage, After, Inv, TypeOK, Phases
  <1>2. PICK page \in Pages(rest) :
            \/ /\ Len(page) = PageSize /\ Range(page) # rest
               /\ pass' = [pass EXCEPT !.queue = @ \o page, !.cursor = page[PageSize]]
               /\ UNCHANGED slots
            \/ /\ Range(page) = rest
               /\ pass' = [pass EXCEPT !.queue = @ \o page, !.pc = "serve"]
               /\ slots' = [s \in Slots |-> Idle]
    BY DEF ListPage
  <1>3. /\ page \in Seq(Accounts)
        /\ \A i \in 1..Len(page) : page[i] \in rest
        /\ \A i, j \in 1..Len(page) : i < j => page[i] < page[j]
        /\ \A i \in 1..Len(page), a \in rest :
                a < page[i] => \E j \in 1..Len(page) : page[j] = a
        /\ Range(page) = {page[i] : i \in 1..Len(page)}
    BY <1>1, PageFacts
  <1>4. pass.queue \o page \in Seq(Accounts)
    BY <1>1, <1>3, ConcatProperties DEF Pass
  <1>5. \A a \in stayed : a \in Accounts /\ a \in Nat /\ (a <= pass.cursor \/ a \in rest)
    <2>1. pass.cursor \in Nat
      BY <1>1, Cursor
    <2> QED
      BY <1>1, <2>1, Numbers DEF Inv, TypeOK, Complete
  <1>6. /\ \A a \in Accounts : visits[a] = 0
        /\ \A a \in Accounts : Queued(a) => a <= pass.cursor
        /\ \A a \in stayed : a <= pass.cursor => Queued(a)
    BY <1>1 DEF Inv, Complete
  <1> HIDE DEF rest
  <1>7. CASE /\ Len(page) = PageSize
             /\ pass' = [pass EXCEPT !.queue = @ \o page, !.cursor = page[PageSize]]
             /\ UNCHANGED slots
    <2> DEFINE next == [pass EXCEPT !.queue = pass.queue \o page, !.cursor = page[PageSize]]
    <2>1. PageSize \in 1..Len(page) /\ page[PageSize] \in rest
      BY <1>3, <1>7, DeliveryPassAssumption
    <2>2. /\ next \in Pass /\ next.pc = "list" /\ next.queue = pass.queue \o page
          /\ next.cursor = page[PageSize]
      BY <1>1, <1>4, <2>1 DEF Pass
    <2>3. pass' = next
      BY <1>7
    <2> HIDE DEF next
    <2>4. /\ \A a : Queued(a)' <=> Queued(a) \/ a \in Range(page)
          /\ \A i, j \in 1..Len(next.queue) : i < j => next.queue[i] < next.queue[j]
      BY <1>1, <2>2, <2>3, Appended DEF rest
    <2>5. TypeOK'
      BY <1>1, <1>7, <2>2, <2>3 DEF Inv, TypeOK, history
    <2>6. Loads' /\ Phases'
      BY <1>1, <1>7, <2>2, <2>3 DEF Inv, Loads, Holders, Phases
    <2>7. QueueSound'
      <3>1. \A a \in Accounts : visits'[a] = 0
        BY <1>1, <1>6 DEF history
      <3>2. \A i, j \in 1..Len(pass'.queue) : i < j => pass'.queue[i] < pass'.queue[j]
        BY <2>2, <2>3, <2>4
      <3>3. \A a \in Accounts : visits'[a] <= 1
        BY <3>1
      <3> QED
        BY <3>1, <3>2, <3>3 DEF QueueSound, Queued
    \* The page ends at the new cursor, and misses nothing before it.
    <2>8. /\ \A a \in Range(page) : a <= page[PageSize]
          /\ \A a \in rest : a <= page[PageSize] => a \in Range(page)
      <3>1. /\ \A i \in 1..Len(page) : page[i] \in Nat /\ (i = PageSize \/ page[i] < page[PageSize])
            /\ \A a \in rest : a \in Nat
        BY <1>1, <1>3, <1>7, <2>1, DeliveryPassAssumption
      <3>2. \A a \in rest : a < page[PageSize] => a \in Range(page)
        BY <1>3, <2>1
      <3>3. page[PageSize] \in Range(page)
        BY <1>3, <2>1
      <3> QED
        BY <1>3, <2>1, <3>1, <3>2, <3>3
    <2>9. pass.cursor < page[PageSize] /\ pass.cursor \in Nat /\ page[PageSize] \in Nat
      BY <1>1, <2>1, Cursor, Numbers DEF rest
    <2>10. Complete'
      <3>1. \A a \in Accounts : Queued(a)' => a <= page[PageSize]
        BY <1>6, <2>4, <2>8, <2>9, DeliveryPassAssumption
      <3>2. \A a \in stayed : a <= page[PageSize] => Queued(a)'
        BY <1>5, <1>6, <2>4, <2>8
      <3>3. stayed \subseteq accounts
        BY <1>1 DEF Inv, Complete
      <3> QED
        BY <1>1, <1>6, <2>2, <2>3, <3>1, <3>2, <3>3 DEF Complete, history
    <2> QED
      BY <2>5, <2>6, <2>7, <2>10 DEF Inv
  <1>8. CASE /\ Range(page) = rest
             /\ pass' = [pass EXCEPT !.queue = @ \o page, !.pc = "serve"]
             /\ slots' = [s \in Slots |-> Idle]
    <2> DEFINE next == [pass EXCEPT !.queue = pass.queue \o page, !.pc = "serve"]
    <2>1. next \in Pass /\ next.pc = "serve" /\ next.queue = pass.queue \o page
      BY <1>1, <1>4 DEF Pass
    <2>2. pass' = next
      BY <1>8
    <2> HIDE DEF next
    <2>3. /\ \A a : Queued(a)' <=> Queued(a) \/ a \in Range(page)
          /\ \A i, j \in 1..Len(next.queue) : i < j => next.queue[i] < next.queue[j]
      BY <1>1, <2>1, <2>2, Appended DEF rest
    <2>4. TypeOK'
      BY <1>1, <1>8, <2>1, <2>2, Constants DEF Inv, TypeOK, history
    <2>5. Loads'
      BY <1>1, <1>8, Constants, LoadsOfNone
    <2>6. Phases'
      BY <1>1, <1>8, <2>1, <2>2, Constants DEF Inv, Phases
    <2>7. QueueSound'
      <3>1. \A a \in Accounts : visits'[a] = 0
        BY <1>1, <1>6 DEF history
      <3>2. \A i, j \in 1..Len(pass'.queue) : i < j => pass'.queue[i] < pass'.queue[j]
        BY <2>1, <2>2, <2>3
      <3>3. \A a \in Accounts : visits'[a] <= 1
        BY <3>1
      <3> QED
        BY <3>1, <3>2, <3>3 DEF QueueSound, Queued
    <2>8. Complete'
      <3>1. \A a \in stayed : Queued(a)'
        BY <1>5, <1>6, <1>8, <2>3
      <3>2. stayed \subseteq accounts
        BY <1>1 DEF Inv, Complete
      <3> QED
        BY <1>1, <2>1, <2>2, <3>1, <3>2 DEF Complete, history
    <2> QED
      BY <2>4, <2>5, <2>6, <2>7, <2>8 DEF Inv
  <1> QED
    BY <1>2, <1>7, <1>8

\* The pass goes on to a point that no goroutine runs across, or that leaves
\* the queue to itself.
LEMMA PassMoves ==
  ASSUME Inv, NEW pc \in {"wait", "report"}, NEW failed \in BOOLEAN,
         pass' = [pass EXCEPT !.pc = pc, !.failed = failed], pass.pc # "none",
         UNCHANGED <<accounts, canceled, loop, shutdown, active, slots, leases, history,
                     changes>>,
         faults' \in 0..MaxFaults,
         pc = "report" => \A s \in Slots : slots[s].pc = "off",
         pc = "wait" => canceled \/ \A a \in stayed : visits[a] = 1,
         pc = "report" => failed \/ \A a \in stayed : visits[a] = 1
  PROVE  Inv'
  <1> DEFINE next == [pass EXCEPT !.pc = pc, !.failed = failed]
  <1>1. /\ next \in Pass /\ next.pc = pc /\ next.failed = failed
        /\ next.queue = pass.queue /\ pass' = next
    BY DEF Inv, TypeOK, Pass
  <1> HIDE DEF next
  <1>2. TypeOK'
    BY <1>1 DEF Inv, TypeOK, history
  <1>3. Loads' /\ Phases'
    BY <1>1 DEF Inv, Loads, Holders, Phases
  <1>4. QueueSound'
    BY <1>1 DEF Inv, QueueSound, Queued, history
  <1>5. Complete'
    BY <1>1 DEF Inv, Complete, history
  <1> QED
    BY <1>2, <1>3, <1>4, <1>5 DEF Inv

LEMMA ListFailsKeeps ==
  ASSUME Inv, ListFails
  PROVE  Inv'
  <1>1. /\ pass' = [pass EXCEPT !.pc = "report", !.failed = TRUE] /\ pass.pc = "list"
        /\ UNCHANGED <<accounts, canceled, loop, shutdown, active, slots, leases, history,
                       changes>>
        /\ faults' \in 0..MaxFaults
        /\ \A s \in Slots : slots[s].pc = "off"
    BY DeliveryPassAssumption DEF ListFails, Fault, Inv, TypeOK, Phases
  <1> QED
    BY <1>1, PassMoves

LEMMA CloseJobsKeeps ==
  ASSUME Inv, CloseJobs
  PROVE  Inv'
  <1>1. /\ pass.pc = "serve" /\ pass \in Pass /\ (pass.queue = <<>> \/ canceled)
        /\ UNCHANGED <<accounts, canceled, loop, shutdown, active, slots, leases, history,
                       changes>>
        /\ faults' \in 0..MaxFaults
    BY DEF CloseJobs, HandedOut, Inv, TypeOK
  <1>2. pass' = [pass EXCEPT !.pc = "wait", !.failed = pass.failed]
    BY <1>1 DEF CloseJobs, Pass
  <1>3. canceled \/ \A a \in stayed : visits[a] = 1
    <2>1. pass.queue = <<>> => \A a : ~ Queued(a)
      BY DEF Queued
    <2> QED
      BY <1>1, <2>1 DEF Inv, Complete
  <1>4. pass.failed \in BOOLEAN
    BY <1>1 DEF Pass
  <1> QED
    BY <1>1, <1>2, <1>3, <1>4, PassMoves

LEMMA ServedKeeps ==
  ASSUME Inv, Served
  PROVE  Inv'
  <1>1. /\ pass' = [pass EXCEPT !.pc = "report", !.failed = canceled] /\ pass.pc = "wait"
        /\ UNCHANGED <<accounts, canceled, loop, shutdown, active, slots, leases, history,
                       changes>>
        /\ faults' \in 0..MaxFaults /\ canceled \in BOOLEAN
        /\ \A s \in Slots : slots[s].pc = "off"
    BY DEF Served, AllExited, Inv, TypeOK
  <1>2. canceled \/ \A a \in stayed : visits[a] = 1
    BY <1>1 DEF Inv, Complete
  <1> QED
    BY <1>1, <1>2, PassMoves

LEMMA TakeKeeps ==
  ASSUME Inv, NEW s \in Slots, Take(s)
  PROVE  Inv'
  <1> DEFINE q == pass.queue
             b == Head(q)
             next == [pc |-> "open", account |-> b]
  <1>1. /\ pass.pc = "serve" /\ q # <<>> /\ slots[s].pc = "idle" /\ pass \in Pass
        /\ q \in Seq(Accounts)
        /\ slots' = [slots EXCEPT ![s] = next]
        /\ visits' = [visits EXCEPT ![b] = IF @ < 2 THEN @ + 1 ELSE @]
        /\ UNCHANGED <<accounts, canceled, loop, shutdown, active, leases, stayed, changes,
                       faults>>
    BY DEF Take, Inv, TypeOK, Pass
  <1>2. /\ b \in Accounts /\ Tail(q) \in Seq(Accounts) /\ Len(Tail(q)) = Len(q) - 1
        /\ \A i \in 1..Len(Tail(q)) : Tail(q)[i] = q[i+1]
        /\ Len(q) \in Nat /\ 1 \in 1..Len(q) /\ b = q[1]
    <2>1. Len(q) \in Nat /\ Len(q) # 0
      BY <1>1, LenProperties, EmptySeq
    <2> QED
      BY <1>1, <2>1, HeadTailProperties
  <1>3. PICK rest \in Pass : /\ pass' = rest /\ rest.pc = "serve" /\ rest.queue = Tail(q)
                             /\ rest.cursor = pass.cursor /\ rest.failed = pass.failed
    <2> DEFINE rest == [pass EXCEPT !.queue = Tail(q)]
    <2>1. pass' = rest
      BY DEF Take
    <2>2. /\ rest \in Pass /\ rest.pc = "serve" /\ rest.queue = Tail(q)
          /\ rest.cursor = pass.cursor /\ rest.failed = pass.failed
      BY <1>1, <1>2 DEF Pass
    <2> HIDE DEF rest
    <2> QED
      BY <2>1, <2>2
  <1>4. next \in Slot /\ next.pc = "open" /\ next.account = b
    BY <1>2 DEF Slot
  <1> HIDE DEF q, b, next
  <1>5. /\ \A i, j \in 1..Len(q) : i < j => q[i] < q[j]
        /\ \A i \in 1..Len(q) : q[i] \in Accounts /\ visits[q[i]] = 0
        /\ \A a \in stayed : (\E i \in 1..Len(q) : q[i] = a) \/ visits[a] = 1
        /\ \A a \in Accounts : visits[a] <= 1
        /\ visits \in [Accounts -> 0..2] /\ stayed \subseteq Accounts /\ stayed \subseteq accounts
    BY <1>1, <1>2 DEF Inv, QueueSound, Complete, Queued, TypeOK, q
  <1>6. /\ visits' \in [Accounts -> 0..2] /\ visits'[b] = 1
        /\ \A a \in Accounts \ {b} : visits'[a] = visits[a]
    <2>1. visits[b] = 0
      BY <1>2, <1>5
    <2> QED
      BY <1>1, <1>2, <1>5, <2>1
  <1>7. /\ slots' \in [Slots -> Slot] /\ slots'[s] = next
        /\ \A r \in Slots \ {s} : slots'[r] = slots[r]
    BY <1>1, <1>4, SlotMoves
  <1>8. TypeOK'
    BY <1>1, <1>3, <1>6, <1>7 DEF Inv, TypeOK
  <1>9. Loads'
    BY <1>1, <1>4, LoadsKept
  <1>10. Phases'
    BY <1>1, <1>2, <1>3, <1>4, <1>7 DEF Inv, Phases
  \* The queue loses its first account, which is no other of the queue.
  <1>11. \A i \in 1..Len(Tail(q)) : /\ i + 1 \in 1..Len(q) /\ Tail(q)[i] = q[i+1]
                                    /\ Tail(q)[i] \in Accounts \ {b}
    <2> TAKE i \in 1..Len(Tail(q))
    <2>1. i + 1 \in 1..Len(q) /\ 1 < i + 1 /\ Tail(q)[i] = q[i+1]
      BY <1>2
    <2>2. q[1] < q[i+1] /\ q[i+1] \in Accounts /\ q[1] \in Nat
      BY <1>2, <1>5, <2>1, DeliveryPassAssumption
    <2> QED
      BY <1>2, <2>1, <2>2
  <1>12. QueueSound'
    <2>1. \A i, j \in 1..Len(Tail(q)) : i < j => Tail(q)[i] < Tail(q)[j]
      <3> SUFFICES ASSUME NEW i \in 1..Len(Tail(q)), NEW j \in 1..Len(Tail(q)), i < j
                   PROVE  Tail(q)[i] < Tail(q)[j]
        OBVIOUS
      <3>1. i + 1 < j + 1 /\ i + 1 \in 1..Len(q) /\ j + 1 \in 1..Len(q)
        BY <1>11
      <3> QED
        BY <1>5, <1>11, <3>1
    <2>2. \A i \in 1..Len(Tail(q)) : visits'[Tail(q)[i]] = 0
      BY <1>5, <1>6, <1>11
    <2>3. \A a \in Accounts : visits'[a] <= 1
      BY <1>5, <1>6
    <2> QED
      BY <1>3, <2>1, <2>2, <2>3 DEF QueueSound, Queued
  <1>13. Complete'
    <2>1. ASSUME NEW a \in stayed
          PROVE  (\E i \in 1..Len(Tail(q)) : Tail(q)[i] = a) \/ visits'[a] = 1
      <3>1. CASE a = b
        BY <1>6, <3>1
      <3>2. CASE visits[a] = 1
        BY <1>5, <1>6, <3>2
      <3>3. ASSUME NEW i \in 1..Len(q), q[i] = a, a # b
            PROVE  \E k \in 1..Len(Tail(q)) : Tail(q)[k] = a
        <4>1. i # 1 /\ i - 1 \in 1..Len(Tail(q)) /\ (i - 1) + 1 = i
          BY <1>2, <3>3
        <4> QED
          BY <1>11, <3>3, <4>1
      <3> QED
        BY <1>5, <3>1, <3>2, <3>3
    <2> QED
      BY <1>1, <1>3, <1>5, <2>1 DEF Complete, Queued
  <1> QED
    BY <1>8, <1>9, <1>10, <1>12, <1>13 DEF Inv

-----------------------------------------------------------------------------
(* The control plane *)

LEMMA AccountsKeep ==
  ASSUME Inv, NEW a \in Accounts, CreateAccount(a) \/ RemoveAccount(a)
  PROVE  Inv'
  <1>1. /\ accounts' \subseteq Accounts /\ stayed' \subseteq stayed
        /\ stayed \subseteq accounts => stayed' \subseteq accounts'
        /\ changes' \in 0..MaxChanges
        /\ UNCHANGED <<canceled, loop, shutdown, active, pass, slots, leases, visits, faults>>
    <2>1. accounts \subseteq Accounts /\ stayed \subseteq Accounts /\ changes \in 0..MaxChanges
      BY DEF Inv, TypeOK
    <2>2. CASE CreateAccount(a)
      BY <2>1, <2>2, DeliveryPassAssumption DEF CreateAccount, history
    <2>3. CASE RemoveAccount(a)
      BY <2>1, <2>3, DeliveryPassAssumption DEF RemoveAccount
    <2> QED
      BY <2>2, <2>3
  <1>2. TypeOK'
    BY <1>1 DEF Inv, TypeOK
  <1>3. Loads' /\ Phases' /\ QueueSound'
    BY <1>1 DEF Inv, Loads, Holders, Phases, QueueSound, Queued
  <1>4. (pass.pc # "none" => Complete)'
    BY <1>1 DEF Inv, Complete, Queued
  <1> QED
    BY <1>2, <1>3, <1>4 DEF Inv

-----------------------------------------------------------------------------
(* Theorems *)

LEMMA NextInv == Inv /\ [Next]_vars => Inv'
  <1> SUFFICES ASSUME Inv, [Next]_vars PROVE Inv'
    OBVIOUS
  <1>1. CASE Launch \/ Report
    BY <1>1, LaunchKeeps, ReportKeeps
  <1>2. CASE LoopEnds \/ Signal \/ StopReturns \/ StopTimesOut
    BY <1>2, WorkerKeeps
  <1>3. CASE ListPage \/ ListFails \/ CloseJobs \/ Served
    BY <1>3, ListPageKeeps, ListFailsKeeps, CloseJobsKeeps, ServedKeeps
  <1>4. ASSUME NEW s \in Slots, Take(s) \/ Tenant(s) \/ Exit(s) PROVE Inv'
    BY <1>4, TakeKeeps, OpenKeeps, OpenFailsKeeps, DeliverKeeps, ExitKeeps DEF Tenant
  <1>5. ASSUME NEW a \in Accounts, CreateAccount(a) \/ RemoveAccount(a) PROVE Inv'
    BY <1>5, AccountsKeep
  <1>6. CASE UNCHANGED vars
    BY <1>6 DEF vars, history, Inv, TypeOK, Loads, Holders, Phases, QueueSound, Queued,
                Complete
  <1> QED
    BY <1>1, <1>2, <1>3, <1>4, <1>5, <1>6 DEF Next

LEMMA Invariance == Spec => []Inv
  BY InitInv, NextInv, PTL DEF Spec

\* Every variable keeps its type: no goroutine takes from an empty queue, and no
\* lease is released that was not held.
THEOREM PassIsTyped == Spec => []TypeOK
  <1>1. Inv => TypeOK
    BY DEF Inv
  <1> QED
    BY <1>1, Invariance, PTL

\* The pass returns what it leased, on every path through its goroutines, and
\* the order of main's shutdown, worker first and tenant cache second, is safe.
THEOREM LeasesComeBack == Spec => []LeasesAreReturned
  <1>1. Inv => LeasesAreReturned
    <2> SUFFICES ASSUME Inv PROVE LeasesAreReturned
      OBVIOUS
    <2>1. \A a \in Accounts : leases[a] = Cardinality(Holders(a))
      BY DEF Inv, Loads
    <2>2. pass.pc \in {"none", "list", "report"} \/ shutdown = "stopped"
          => \A a \in Accounts : Holders(a) = {}
      BY DEF Inv, Phases, Holders
    <2> QED
      BY <2>1, <2>2, FS_EmptySet DEF LeasesAreReturned, Holders
  <1> QED
    BY <1>1, Invariance, PTL

\* The pages of collectCloudTenantDeliveryLocators are read while accounts come
\* and go, and its cursor still makes the pass complete and free of repeats.
THEOREM PassMissesNobody == Spec => []PassIsComplete
  <1>1. Inv => PassIsComplete
    BY DEF Inv, QueueSound, Complete, PassIsComplete
  <1> QED
    BY <1>1, Invariance, PTL

=============================================================================
