---------------------------- MODULE DeliveryPass ----------------------------
(***************************************************************************)
(* The worker of the cloud delivery: its ticks, the pass over the accounts *)
(* of the control plane, the goroutines that take the accounts in turn,    *)
(* each under a lease on the account's store, and the end of the server.   *)
(* What is done with one tenant's store is DigestDelivery; here it is a    *)
(* call that comes back, in time or after its context is done.             *)
(*                                                                         *)
(* A step is one receive, send or select on a channel, or one call.  An    *)
(* account is its ID, a number, and the order of the IDs is theirs.        *)
(***************************************************************************)
EXTENDS Integers, FiniteSets, Sequences, Functions

CONSTANTS
    Accounts,         \* IDs of accounts
    Slots,            \* goroutines of a pass: tenantConcurrency
    PageSize,         \* pageSize
    MaxChanges,       \* bound: accounts created or removed
    MaxFaults         \* bound: calls that fail

ASSUME DeliveryPassAssumption ==
    /\ Accounts \subseteq Nat \ {0}
    /\ IsFiniteSet(Slots)
    /\ PageSize \in Nat \ {0}
    /\ MaxChanges \in Nat /\ MaxFaults \in Nat

VARIABLES
    accounts,         \* the accounts of the control plane
    canceled,         \* the context of the worker is done
    loop,             \* CloudTenantDeliveryWorker.loop
    shutdown,         \* the main goroutine from the signal on
    active,           \* CloudTenantDeliveryWorker.active
    pass,             \* the pass under way
    slots,            \* slots[s]: what the goroutine s of the pass does
    leases,           \* leases[a]: leases on the store of a that are held
    \* History, over the pass under way
    stayed,           \* accounts that have been there since it began
    visits,           \* visits[a]: how often it took a, counted to 2
    changes, faults   \* so far

history == <<stayed, visits>>
vars == <<accounts, canceled, loop, shutdown, active, pass, slots, leases,
          history, changes, faults>>

-----------------------------------------------------------------------------
(* State *)

\* RunCloudTenantDeliveryPass: enumerates the accounts, hands them out, waits
\* for the goroutines, reports.  cursor is 0 for "".
Pass == [pc : {"none", "list", "serve", "wait", "report"}, cursor : Accounts \cup {0},
         queue : Seq(Accounts), failed : BOOLEAN]

NoPass == [pc |-> "none", cursor |-> 0, queue |-> <<>>, failed |-> FALSE]

Slot == [pc : {"off", "idle", "open", "deliver"}, account : Accounts \cup {0}]

Off == [pc |-> "off", account |-> 0]
Idle == [pc |-> "idle", account |-> 0]

TypeOK ==
    /\ accounts \subseteq Accounts
    /\ canceled \in BOOLEAN /\ active \in BOOLEAN
    /\ loop \in {"running", "done"}
    /\ shutdown \in {"none", "stop", "stopped", "gaveUp"}
    /\ pass \in Pass
    /\ slots \in [Slots -> Slot]
    /\ leases \in [Accounts -> Nat]
    /\ stayed \subseteq Accounts
    /\ visits \in [Accounts -> 0..2]
    /\ changes \in 0..MaxChanges /\ faults \in 0..MaxFaults

Init ==
    /\ accounts \in SUBSET Accounts
    /\ canceled = FALSE /\ active = FALSE
    /\ loop = "running" /\ shutdown = "none"
    /\ pass = NoPass
    /\ slots = [s \in Slots |-> Off]
    /\ leases = [a \in Accounts |-> 0]
    /\ stayed = {}
    /\ visits = [a \in Accounts |-> 0]
    /\ changes = 0 /\ faults = 0

Fault == faults < MaxFaults /\ faults' = faults + 1

-----------------------------------------------------------------------------
(* The worker: loop and launch *)

\* The first pass, or a tick.  A tick during a pass is lost: CompareAndSwap.
Launch ==
    /\ loop = "running"
    /\ ~ canceled /\ ~ active
    /\ active' = TRUE
    /\ pass' = [NoPass EXCEPT !.pc = "list"]
    /\ stayed' = accounts
    /\ visits' = [a \in Accounts |-> 0]
    /\ UNCHANGED <<accounts, canceled, loop, shutdown, slots, leases, changes, faults>>

BugEndPass == pass' = NoPass /\ UNCHANGED active

\* The deferred calls of the goroutine of the pass.
EndPass == pass' = NoPass /\ active' = FALSE

\* The summary is logged, and the next tick may start a pass.
Report ==
    /\ pass.pc = "report"
    /\ EndPass
    /\ UNCHANGED <<accounts, canceled, loop, shutdown, slots, leases, history, changes, faults>>

\* The loop waits for the pass before it closes done.
LoopEnds ==
    /\ loop = "running"
    /\ canceled
    /\ pass.pc = "none"
    /\ loop' = "done"
    /\ UNCHANGED <<accounts, canceled, shutdown, active, pass, slots, leases, history,
                   changes, faults>>

-----------------------------------------------------------------------------
(* The end of the server: main and Stop *)

Signal ==
    /\ shutdown = "none"
    /\ shutdown' = "stop"
    /\ canceled' = TRUE
    /\ UNCHANGED <<accounts, loop, active, pass, slots, leases, history, changes, faults>>

StopReturns ==
    /\ shutdown = "stop"
    /\ loop = "done"
    /\ shutdown' = "stopped"
    /\ UNCHANGED <<accounts, canceled, loop, active, pass, slots, leases, history,
                   changes, faults>>

\* CloudTenantDeliveryShutdownTimeout passes first; the shutdown goes on.
StopTimesOut ==
    /\ shutdown = "stop"
    /\ shutdown' = "gaveUp"
    /\ UNCHANGED <<accounts, canceled, loop, active, pass, slots, leases, history,
                   changes, faults>>

-----------------------------------------------------------------------------
(* Enumerating the accounts: collectCloudTenantDeliveryLocators *)

BugAfter(cursor) == {a \in accounts : a >= cursor}

\* The accounts that ListAccountLocators, external, has yet to list.
After(cursor) == {a \in accounts : a > cursor}

\* The pages it may answer with: the first IDs of the rest, in order.
Pages(rest) ==
    {ids \in UNION {[1..n -> rest] : n \in 0..PageSize} :
        /\ \A i, j \in DOMAIN ids : i < j => ids[i] < ids[j]
        /\ \A i \in DOMAIN ids, a \in rest : a < ids[i] => \E j \in DOMAIN ids : ids[j] = a}

\* The page is full and there are more, or it is the last one.
ListPage ==
    LET rest == After(pass.cursor)
    IN  /\ pass.pc = "list"
        /\ \E page \in Pages(rest) :
            \/ /\ Len(page) = PageSize /\ Range(page) # rest
               /\ pass' = [pass EXCEPT !.queue = @ \o page, !.cursor = page[PageSize]]
               /\ UNCHANGED slots
            \/ /\ Range(page) = rest
               /\ pass' = [pass EXCEPT !.queue = @ \o page, !.pc = "serve"]
               /\ slots' = [s \in Slots |-> Idle]
        /\ UNCHANGED <<accounts, canceled, loop, shutdown, active, leases, history,
                       changes, faults>>

\* The listing fails, its page does not pass validation (too long, out of order,
\* or with a cursor that is not its last ID), or the context is done: no tenant
\* is opened, those of earlier pages included.
ListFails ==
    /\ pass.pc = "list"
    /\ \/ canceled /\ UNCHANGED faults
       \/ Fault
    /\ pass' = [pass EXCEPT !.pc = "report", !.failed = TRUE]
    /\ UNCHANGED <<accounts, canceled, loop, shutdown, active, slots, leases, history, changes>>

-----------------------------------------------------------------------------
(* Serving the accounts: processCloudTenantDeliveryPage *)

\* An account goes through the channel jobs to a goroutine that waits for one;
\* the selects at its two ends may choose this when the context is done, too.
Take(s) ==
    /\ pass.pc = "serve" /\ pass.queue # <<>>
    /\ slots[s].pc = "idle"
    /\ LET a == Head(pass.queue)
       IN  /\ slots' = [slots EXCEPT ![s] = [pc |-> "open", account |-> a]]
           /\ visits' = [visits EXCEPT ![a] = IF @ < 2 THEN @ + 1 ELSE @]
    /\ pass' = [pass EXCEPT !.queue = Tail(@)]
    /\ UNCHANGED <<accounts, canceled, loop, shutdown, active, leases, stayed, changes, faults>>

BugHandedOut == pass.queue = <<>>

\* When the sending goroutine leaves its loop.
HandedOut == pass.queue = <<>> \/ canceled

\* It closes jobs.
CloseJobs ==
    /\ pass.pc = "serve"
    /\ HandedOut
    /\ pass' = [pass EXCEPT !.pc = "wait"]
    /\ UNCHANGED <<accounts, canceled, loop, shutdown, active, slots, leases, history,
                   changes, faults>>

\* The opener gets a lease from the tenant cache.
Open(s) ==
    /\ slots[s].pc = "open"
    /\ slots' = [slots EXCEPT ![s].pc = "deliver"]
    /\ leases' = [leases EXCEPT ![slots[s].account] = @ + 1]
    /\ UNCHANGED <<accounts, canceled, loop, shutdown, active, pass, history, changes, faults>>

\* It fails, or finds its context done, and keeps no lease.
OpenFails(s) ==
    /\ slots[s].pc = "open"
    /\ \/ canceled /\ UNCHANGED faults
       \/ Fault
    /\ slots' = [slots EXCEPT ![s] = Idle]
    /\ UNCHANGED <<accounts, canceled, loop, shutdown, active, pass, leases, history, changes>>

\* The digests are delivered, or one fails, or the tenant's time is over, and
\* the lease is released either way.
Deliver(s) ==
    /\ slots[s].pc = "deliver"
    /\ slots' = [slots EXCEPT ![s] = Idle]
    /\ leases' = [leases EXCEPT ![slots[s].account] = @ - 1]
    /\ UNCHANGED <<accounts, canceled, loop, shutdown, active, pass, history, changes, faults>>

\* The channel is closed, or the context is done.
Exit(s) ==
    /\ slots[s].pc = "idle"
    /\ pass.pc = "wait" \/ canceled
    /\ slots' = [slots EXCEPT ![s] = Off]
    /\ UNCHANGED <<accounts, canceled, loop, shutdown, active, pass, leases, history,
                   changes, faults>>

BugAllExited == canceled \/ \A s \in Slots : slots[s].pc = "off"

\* workers.Wait
AllExited == \A s \in Slots : slots[s].pc = "off"

Served ==
    /\ pass.pc = "wait"
    /\ AllExited
    /\ pass' = [pass EXCEPT !.pc = "report", !.failed = canceled]
    /\ UNCHANGED <<accounts, canceled, loop, shutdown, active, slots, leases, history,
                   changes, faults>>

-----------------------------------------------------------------------------
(* The control plane, outside the worker *)

CreateAccount(a) ==
    /\ changes < MaxChanges /\ changes' = changes + 1
    /\ a \notin accounts
    /\ accounts' = accounts \cup {a}
    /\ UNCHANGED <<canceled, loop, shutdown, active, pass, slots, leases, history, faults>>

RemoveAccount(a) ==
    /\ changes < MaxChanges /\ changes' = changes + 1
    /\ a \in accounts
    /\ accounts' = accounts \ {a}
    /\ stayed' = stayed \ {a}
    /\ UNCHANGED <<canceled, loop, shutdown, active, pass, slots, leases, visits, faults>>

Tenant(s) == Open(s) \/ OpenFails(s) \/ Deliver(s)

Next ==
    \/ Launch \/ Report \/ LoopEnds
    \/ Signal \/ StopReturns \/ StopTimesOut
    \/ ListPage \/ ListFails \/ CloseJobs \/ Served
    \/ \E s \in Slots : Take(s) \/ Tenant(s) \/ Exit(s)
    \/ \E a \in Accounts : CreateAccount(a) \/ RemoveAccount(a)

\* The goroutines run, a call comes back, and a select does not pass over a
\* ready channel for ever.  Nothing is fair about faults, signals or changes.
Fairness ==
    /\ WF_vars(Launch) /\ WF_vars(Report) /\ WF_vars(LoopEnds) /\ WF_vars(StopReturns)
    /\ WF_vars(ListPage \/ ListFails) /\ WF_vars(CloseJobs) /\ WF_vars(Served)
    /\ \A s \in Slots :
           WF_vars(Take(s)) /\ WF_vars(Tenant(s)) /\ WF_vars(Exit(s))

Spec == Init /\ [][Next]_vars /\ Fairness

-----------------------------------------------------------------------------
(* Properties *)

\* The leases a pass holds are those of its goroutines, and it holds none when
\* it is over.  So none is left when a pass starts, or when Stop returns
\* without an error and the server goes on to close the tenant cache.
LeasesAreReturned ==
    /\ \A a \in Accounts :
           leases[a] = Cardinality({s \in Slots :
                           slots[s].pc = "deliver" /\ slots[s].account = a})
    /\ pass.pc \in {"none", "list", "report"} \/ shutdown = "stopped" =>
           \A a \in Accounts : leases[a] = 0

\* A pass that reports no failure took every account that was there all along,
\* and no pass takes one twice, whatever was created and removed between the
\* pages of the listing.
PassIsComplete ==
    /\ \A a \in Accounts : visits[a] <= 1
    /\ pass.pc = "report" /\ ~ pass.failed => \A a \in stayed : visits[a] = 1

\* When the server is told to stop, the worker ends, and with it every lease.
ShutdownDrains == canceled ~> loop = "done" /\ active = FALSE

\* As long as the server runs, an account that stays is taken again and again.
AccountsAreRevisited ==
    \A a \in Accounts :
        []<>(a \notin accounts \/ canceled \/ \E s \in Slots : slots[s].account = a)

=============================================================================
