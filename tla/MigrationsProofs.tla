-------------------------- MODULE MigrationsProofs --------------------------
(***************************************************************************)
(* Proofs about Migrations, for any number of processes, calls, accounts,  *)
(* leases, versions and crashes.                                           *)
(*                                                                         *)
(* The inductive invariant has two parts beside the types: how the table   *)
(* of leases, their reference counts and the calls agree (LeaseInv), and   *)
(* what the calls and Atlas have made of the databases (WorkInv).          *)
(***************************************************************************)
EXTENDS Migrations, FiniteSetTheorems, TLAPS

Users(l) == {c \in Callers : calls[c].lease = l}

\* The count of a lease is that of the calls that joined it.
RefsCountUsers == \A l \in Leases : leases[l].refs = Cardinality(Users(l))

\* A call has a lease from acquire to releaseLease.
IdleIsUnleased == \A c \in Callers : calls[c].pc = "idle" <=> calls[c].lease = NoLease

\* The lease of a call is the one the table holds for its account.
UsersAreInTable ==
    \A c \in Callers : calls[c].pc # "idle" =>
        /\ Account(c) \in Accounts
        /\ locks[ProcessOf[c]][Account(c)] = calls[c].lease

\* A lease in the table has a user of that process and account.
TableIsUsed ==
    \A p \in Processes, a \in Accounts : locks[p][a] # NoLease =>
        \E c \in Callers :
            ProcessOf[c] = p /\ Account(c) = a /\ calls[c].lease = locks[p][a]

\* A lease is of one process and one account.
LeaseIsOfOneAccount ==
    \A c, d \in Callers : calls[c].lease # NoLease /\ calls[c].lease = calls[d].lease =>
        ProcessOf[c] = ProcessOf[d] /\ Account(c) = Account(d)

\* Who is past acquire has its token in the channel.
HolderHasToken ==
    \A c \in Callers : calls[c].pc \in Holding => leases[calls[c].lease].token = c

LeaseInv ==
    /\ RefsCountUsers /\ IdleIsUnleased /\ UsersAreInTable
    /\ TableIsUsed /\ LeaseIsOfOneAccount /\ HolderHasToken

USE MigrationsAssumption

-----------------------------------------------------------------------------

LEMMA InitTyped == Init => TypeOK
  <1>1. Foreign \in Database /\ Empty \in Database
    BY DEF Foreign, Empty, Database
  <1>2. \A m \in SUBSET Historical : Legacy(m) \in Database
    BY DEF Legacy, Empty, Database
  <1>3. \A n \in Versions : Migrated(n) \in Database
    BY DEF Migrated, Versions, Database
  <1>4. InitialDatabases \subseteq Database
    BY <1>1, <1>2, <1>3 DEF InitialDatabases
  <1>5. NoCall \in Call
    BY DEF NoCall, Call
  <1>. QED  BY <1>4, <1>5 DEF Init, TypeOK, FreeLease

LEMMA InitLeases == Init => LeaseInv
  <1>. SUFFICES ASSUME Init PROVE LeaseInv
    OBVIOUS
  <1>1. \A l \in Leases : Users(l) = {}
    BY DEF Init, Users, NoCall
  <1>2. RefsCountUsers
    BY <1>1, FS_EmptySet DEF Init, RefsCountUsers, FreeLease
  <1>. QED
    BY <1>2 DEF Init, LeaseInv, IdleIsUnleased, UsersAreInTable, TableIsUsed,
                LeaseIsOfOneAccount, HolderHasToken, NoCall, Holding

\* The calls that joined a lease are finitely many.
LEMMA UsersFinite ==
  ASSUME NEW l
  PROVE  IsFiniteSet(Users(l)) /\ Cardinality(Users(l)) \in Nat
  BY FS_Subset, FS_CardinalityType, Users(l) \subseteq Callers DEF Users

\* A call that leaves is counted.
LEMMA LeaverIsCounted ==
  ASSUME TypeOK, LeaseInv, NEW c \in Callers, calls[c].pc # "idle"
  PROVE  /\ calls[c].lease \in Leases
         /\ leases[calls[c].lease].refs >= 1
  <1>1. calls[c].lease \in Leases
    BY DEF TypeOK, Call, LeaseInv, IdleIsUnleased
  <1>2. c \in Users(calls[c].lease)
    BY DEF Users
  <1>3. Cardinality(Users(calls[c].lease)) # 0
    BY <1>2, UsersFinite, FS_EmptySet
  <1>. QED  BY <1>1, <1>3, UsersFinite DEF LeaseInv, RefsCountUsers

-----------------------------------------------------------------------------
(* What a step does to the calls *)

Steps == {"idle", "wait", "verify", "baseline", "apply", "atlas", "release", "leave"}

\* The step is one of c alone.
Others(c) == \A d \in Callers \ {c} : calls'[d] = calls[d]

\* c keeps its lease; and what it has found and reported.
KeepsLease(c) == calls'[c].account = calls[c].account /\ calls'[c].lease = calls[c].lease
KeepsReport(c) == calls'[c].outcome = calls[c].outcome /\ calls'[c].recorded = calls[c].recorded

CallsTyped == calls \in [Callers -> Call]

LEMMA OneCall ==
  ASSUME CallsTyped, NEW c \in Callers, NEW next \in Call,
         calls' = [calls EXCEPT ![c] = next]
  PROVE  CallsTyped' /\ Others(c) /\ calls'[c] = next
  BY DEF CallsTyped, Others

LEMMA MovesEffect ==
  ASSUME CallsTyped, NEW c \in Callers, NEW from, NEW to \in Steps, Moves(c, from, to)
  PROVE  /\ CallsTyped' /\ Others(c) /\ KeepsLease(c) /\ KeepsReport(c)
         /\ calls[c].pc = from /\ calls'[c].pc = to
         /\ calls'[c].baseline = calls[c].baseline
  <1> DEFINE next == [calls[c] EXCEPT !.pc = to]
  <1>1. calls[c] \in Call
    BY DEF CallsTyped
  <1>2. /\ next \in Call /\ next.pc = to /\ next.account = calls[c].account
        /\ next.lease = calls[c].lease /\ next.outcome = calls[c].outcome
        /\ next.recorded = calls[c].recorded /\ next.baseline = calls[c].baseline
    BY <1>1 DEF Call, Steps
  <1>3. calls' = [calls EXCEPT ![c] = next]
    BY DEF Moves, CallsTyped
  <1> HIDE DEF next
  <1> QED
    BY <1>2, <1>3, OneCall DEF Moves, KeepsLease, KeepsReport

LEMMA EndsEffect ==
  ASSUME CallsTyped, NEW c \in Callers, NEW from, NEW outcome \in Outcomes,
         Ends(c, from, outcome)
  PROVE  /\ CallsTyped' /\ Others(c) /\ KeepsLease(c)
         /\ calls[c].pc = from /\ calls'[c].pc = "release"
         /\ calls'[c].baseline = calls[c].baseline
         /\ calls'[c].outcome = outcome /\ calls'[c].recorded = calls[c].recorded
  <1> DEFINE next == [calls[c] EXCEPT !.pc = "release", !.outcome = outcome]
  <1>1. calls[c] \in Call
    BY DEF CallsTyped
  <1>2. /\ next \in Call /\ next.pc = "release" /\ next.account = calls[c].account
        /\ next.lease = calls[c].lease /\ next.outcome = outcome
        /\ next.recorded = calls[c].recorded /\ next.baseline = calls[c].baseline
    BY <1>1 DEF Call
  <1>3. calls' = [calls EXCEPT ![c] = next]
    BY DEF Ends, CallsTyped
  <1> HIDE DEF next
  <1> QED
    BY <1>2, <1>3, OneCall DEF Ends, KeepsLease

LEMMA JoinEffect ==
  ASSUME CallsTyped, NEW c \in Callers, NEW a \in Accounts,
         NEW adoptLegacy \in BOOLEAN, NEW l \in Leases, Join(c, a, adoptLegacy, l)
  PROVE  /\ CallsTyped' /\ Others(c)
         /\ calls[c].pc = "idle" /\ calls'[c].pc = "wait"
         /\ calls'[c].account = a /\ calls'[c].lease = l
         /\ calls'[c].baseline = 0 /\ calls'[c].outcome = "none" /\ ~ calls'[c].recorded
  <1> DEFINE next == [NoCall EXCEPT !.pc = "wait", !.account = a,
                     !.adoptLegacy = adoptLegacy, !.lease = l]
  <1>1. calls[c] \in Call /\ NoCall \in Call
    BY DEF CallsTyped, NoCall, Call
  <1>2. next \in Call
    BY <1>1 DEF NoCall, Call, Outcomes
  <1>3. /\ next.pc = "wait" /\ next.account = a /\ next.lease = l
        /\ next.baseline = 0 /\ next.outcome = "none" /\ next.recorded = FALSE
    BY <1>1 DEF NoCall, Call, Outcomes
  <1>4. calls' = [calls EXCEPT ![c] = next]
    BY DEF Join, CallsTyped
  <1> HIDE DEF next
  <1>5. CallsTyped' /\ Others(c) /\ calls'[c] = next
    BY <1>2, <1>4, OneCall
  <1>6. calls[c].pc = "idle"
    BY DEF Join
  <1> QED
    BY <1>3, <1>5, <1>6

LEMMA RefuseEffect ==
  ASSUME CallsTyped, NEW c \in Callers, Refuse(c)
  PROVE  /\ CallsTyped' /\ Others(c)
         /\ calls[c].pc = "idle" /\ calls'[c].pc = "idle" /\ calls'[c].lease = NoLease
         /\ calls'[c].baseline = 0 /\ ~ calls'[c].recorded
         /\ calls'[c].outcome = "configuration_failure"
  <1> DEFINE next == [NoCall EXCEPT !.outcome = "configuration_failure"]
  <1>1. calls[c] \in Call /\ NoCall \in Call
    BY DEF CallsTyped, NoCall, Call
  <1>2. next \in Call
    BY <1>1 DEF NoCall, Call, Outcomes
  <1>3. /\ next.pc = "idle" /\ next.lease = NoLease /\ next.baseline = 0
        /\ next.recorded = FALSE /\ next.outcome = "configuration_failure"
    BY <1>1 DEF NoCall, Call, Outcomes
  <1>4. calls' = [calls EXCEPT ![c] = next]
    BY DEF Refuse, CallsTyped
  <1> HIDE DEF next
  <1>5. CallsTyped' /\ Others(c) /\ calls'[c] = next
    BY <1>2, <1>4, OneCall
  <1>6. calls[c].pc = "idle"
    BY DEF Refuse
  <1> QED
    BY <1>3, <1>5, <1>6

LEMMA GiveUpEffect ==
  ASSUME CallsTyped, NEW c \in Callers, GiveUp(c)
  PROVE  /\ CallsTyped' /\ Others(c)
         /\ KeepsLease(c) /\ calls[c].pc = "wait" /\ calls'[c].pc = "leave"
         /\ calls'[c].baseline = calls[c].baseline /\ calls'[c].recorded = calls[c].recorded
         /\ calls'[c].outcome = "configuration_failure"
  <1> DEFINE next == [calls[c] EXCEPT !.pc = "leave", !.outcome = "configuration_failure"]
  <1>1. calls[c] \in Call /\ NoCall \in Call
    BY DEF CallsTyped, NoCall, Call
  <1>2. next \in Call
    BY <1>1 DEF NoCall, Call, Outcomes
  <1>3. /\ next.pc = "leave" /\ next.lease = calls[c].lease /\ next.account = calls[c].account
        /\ next.baseline = calls[c].baseline /\ next.recorded = calls[c].recorded
        /\ next.outcome = "configuration_failure"
    BY <1>1 DEF NoCall, Call, Outcomes
  <1>4. calls' = [calls EXCEPT ![c] = next]
    BY DEF GiveUp, CallsTyped
  <1> HIDE DEF next
  <1> QED
    BY <1>2, <1>3, <1>4, OneCall DEF GiveUp, KeepsLease, KeepsReport

LEMMA LeaveEffect ==
  ASSUME CallsTyped, NEW c \in Callers, Leave(c)
  PROVE  /\ CallsTyped' /\ Others(c)
         /\ KeepsReport(c) /\ calls[c].pc = "leave" /\ calls'[c].pc = "idle"
         /\ calls'[c].lease = NoLease /\ calls'[c].account = calls[c].account
         /\ calls'[c].baseline = calls[c].baseline
  <1> DEFINE next == [calls[c] EXCEPT !.pc = "idle", !.lease = NoLease]
  <1>1. calls[c] \in Call /\ NoCall \in Call
    BY DEF CallsTyped, NoCall, Call
  <1>2. next \in Call
    BY <1>1 DEF NoCall, Call, Outcomes
  <1>3. /\ next.pc = "idle" /\ next.lease = NoLease /\ next.account = calls[c].account
        /\ next.baseline = calls[c].baseline /\ next.recorded = calls[c].recorded
        /\ next.outcome = calls[c].outcome
    BY <1>1 DEF NoCall, Call, Outcomes
  <1>4. calls' = [calls EXCEPT ![c] = next]
    BY DEF Leave, CallsTyped
  <1> HIDE DEF next
  <1> QED
    BY <1>2, <1>3, <1>4, OneCall DEF Leave, KeepsLease, KeepsReport

LEMMA AdoptEffect ==
  ASSUME CallsTyped, NEW c \in Callers, calls[c].pc = "baseline",
         calls' = [calls EXCEPT ![c].pc = "apply", ![c].baseline = 1]
  PROVE  /\ CallsTyped' /\ Others(c)
         /\ KeepsLease(c) /\ KeepsReport(c) /\ calls'[c].pc = "apply" /\ calls'[c].baseline = 1
  <1> DEFINE next == [calls[c] EXCEPT !.pc = "apply", !.baseline = 1]
  <1>1. calls[c] \in Call /\ NoCall \in Call
    BY DEF CallsTyped, NoCall, Call
  <1>2. next \in Call
    BY <1>1 DEF NoCall, Call, Outcomes
  <1>3. /\ next.pc = "apply" /\ next.lease = calls[c].lease /\ next.account = calls[c].account
        /\ next.baseline = 1 /\ next.recorded = calls[c].recorded
        /\ next.outcome = calls[c].outcome
    BY <1>1 DEF NoCall, Call, Outcomes
  <1>4. calls' = [calls EXCEPT ![c] = next]
    BY DEF CallsTyped
  <1> HIDE DEF next
  <1> QED
    BY <1>2, <1>3, <1>4, OneCall DEF KeepsLease, KeepsReport

LEMMA StartEffect ==
  ASSUME CallsTyped, NEW c \in Callers, calls[c].pc = "apply",
         calls' = [calls EXCEPT ![c].pc = "atlas", ![c].recorded = TRUE]
  PROVE  /\ CallsTyped' /\ Others(c)
         /\ KeepsLease(c) /\ calls'[c].pc = "atlas" /\ calls'[c].baseline = calls[c].baseline
         /\ calls'[c].recorded /\ calls'[c].outcome = calls[c].outcome
  <1> DEFINE next == [calls[c] EXCEPT !.pc = "atlas", !.recorded = TRUE]
  <1>1. calls[c] \in Call /\ NoCall \in Call
    BY DEF CallsTyped, NoCall, Call
  <1>2. next \in Call
    BY <1>1 DEF NoCall, Call, Outcomes
  <1>3. /\ next.pc = "atlas" /\ next.lease = calls[c].lease /\ next.account = calls[c].account
        /\ next.baseline = calls[c].baseline /\ next.recorded = TRUE
        /\ next.outcome = calls[c].outcome
    BY <1>1 DEF NoCall, Call, Outcomes
  <1>4. calls' = [calls EXCEPT ![c] = next]
    BY DEF CallsTyped
  <1> HIDE DEF next
  <1> QED
    BY <1>2, <1>3, <1>4, OneCall DEF KeepsLease, KeepsReport

LEMMA RecordEffect ==
  ASSUME CallsTyped, NEW c \in Callers, calls' = [calls EXCEPT ![c].recorded = TRUE]
  PROVE  /\ CallsTyped' /\ Others(c)
         /\ KeepsLease(c) /\ calls'[c].pc = calls[c].pc /\ calls'[c].baseline = calls[c].baseline
         /\ calls'[c].recorded /\ calls'[c].outcome = calls[c].outcome
  <1> DEFINE next == [calls[c] EXCEPT !.recorded = TRUE]
  <1>1. calls[c] \in Call /\ NoCall \in Call
    BY DEF CallsTyped, NoCall, Call
  <1>2. next \in Call
    BY <1>1 DEF NoCall, Call, Outcomes
  <1>3. /\ next.pc = calls[c].pc /\ next.lease = calls[c].lease /\ next.account = calls[c].account
        /\ next.baseline = calls[c].baseline /\ next.recorded = TRUE
        /\ next.outcome = calls[c].outcome
    BY <1>1 DEF NoCall, Call, Outcomes
  <1>4. calls' = [calls EXCEPT ![c] = next]
    BY DEF CallsTyped
  <1> HIDE DEF next
  <1> QED
    BY <1>2, <1>3, <1>4, OneCall DEF KeepsLease, KeepsReport

-----------------------------------------------------------------------------
(* What a step between acquire and release does to a call *)

Work(c) ==
    \/ Verify(c) \/ BinaryFails(c) \/ VerifyFails(c)
    \/ LegacyBaseline(c) \/ LegacyBaselineFails(c)
    \/ StartAtlas(c) \/ AtlasUnavailable(c) \/ AtlasSucceeds(c) \/ AtlasFails(c)

\* Such a step keeps the lease, and reports in its last step only.
LEMMA WorkEffect ==
  ASSUME CallsTyped, NEW c \in Callers, Work(c)
  PROVE  /\ CallsTyped' /\ Others(c) /\ KeepsLease(c) /\ UNCHANGED <<locks, leases, crashes>>
         /\ calls[c].pc \in {"verify", "baseline", "apply", "atlas"}
         /\ calls'[c].pc \in {"baseline", "apply", "atlas", "release"}
         /\ calls[c].pc = "atlas" => calls'[c].pc = "release"
         /\ calls'[c].pc # "release" => calls'[c].outcome = calls[c].outcome
         /\ calls'[c].pc = "release" =>
                IF calls[c].pc = "atlas"
                THEN calls'[c].outcome \in {"succeeded", "migration_rejected",
                                            "migration_outcome_unknown"}
                ELSE calls'[c].outcome # "succeeded" /\ calls'[c].outcome # "none"
                        /\ calls'[c].recorded = calls[c].recorded
         /\ ~ calls'[c].recorded \/ calls[c].recorded \/ calls'[c].pc = "atlas"
  <1>1. CASE Verify(c)
    BY <1>1, MovesEffect DEF Verify, Steps, KeepsReport
  <1>2. CASE BinaryFails(c) \/ VerifyFails(c)
    BY <1>2, EndsEffect DEF BinaryFails, VerifyFails, Outcomes
  <1>3. CASE LegacyBaseline(c)
    BY <1>3, MovesEffect, EndsEffect, AdoptEffect
       DEF LegacyBaseline, Outcomes, Steps, KeepsReport
  <1>4. CASE LegacyBaselineFails(c)
    BY <1>4, EndsEffect DEF LegacyBaselineFails, Outcomes
  <1>5. CASE StartAtlas(c)
    BY <1>5, MovesEffect, EndsEffect, StartEffect DEF StartAtlas, Outcomes, Steps, KeepsReport
  <1>6. CASE AtlasUnavailable(c)
    BY <1>6, EndsEffect DEF AtlasUnavailable, ApplyError, Outcomes
  <1>7. CASE AtlasSucceeds(c)
    BY <1>7, EndsEffect DEF AtlasSucceeds, Outcomes
  <1>8. CASE AtlasFails(c)
    BY <1>8, EndsEffect DEF AtlasFails, ApplyError, Outcomes
  <1> QED
    BY <1>1, <1>2, <1>3, <1>4, <1>5, <1>6, <1>7, <1>8 DEF Work

-----------------------------------------------------------------------------
(* The leases *)

\* A step that no lease, reference or token takes part in.
Quiet ==
    /\ UNCHANGED <<locks, leases>>
    /\ \A c \in Callers :
        /\ KeepsLease(c)
        /\ calls'[c].pc = "idle" <=> calls[c].pc = "idle"
        /\ calls'[c].pc \in Holding => calls[c].pc \in Holding

LEMMA QuietKeepsLeases ==
  ASSUME LeaseInv, Quiet
  PROVE  LeaseInv'
  <1>1. \A l : Users(l)' = Users(l)
    BY DEF Quiet, KeepsLease, Users
  <1>2. RefsCountUsers'
    BY <1>1 DEF LeaseInv, RefsCountUsers, Quiet
  <1>3. IdleIsUnleased' /\ UsersAreInTable' /\ TableIsUsed'
    BY DEF LeaseInv, IdleIsUnleased, UsersAreInTable, TableIsUsed, Quiet, KeepsLease, Account
  <1>4. LeaseIsOfOneAccount' /\ HolderHasToken'
    BY DEF LeaseInv, LeaseIsOfOneAccount, HolderHasToken, Quiet, KeepsLease, Account
  <1> QED
    BY <1>2, <1>3, <1>4 DEF LeaseInv

LEMMA JoinKeepsLeases ==
  ASSUME TypeOK, LeaseInv, NEW c \in Callers, NEW a \in Accounts,
         NEW adoptLegacy \in BOOLEAN, NEW l \in Leases, Join(c, a, adoptLegacy, l)
  PROVE  LeaseInv'
  <1> DEFINE p == ProcessOf[c]
  <1>1. /\ Others(c) /\ calls[c].pc = "idle" /\ calls'[c].pc = "wait"
        /\ calls'[c].account = a /\ calls'[c].lease = l
    BY JoinEffect DEF TypeOK, CallsTyped
  <1>2. /\ p \in Processes /\ l # NoLease
        /\ calls[c].lease = NoLease
        /\ locks' = [locks EXCEPT ![p][a] = l] /\ locks'[p][a] = l
        /\ \A q \in Processes, b \in Accounts : q # p \/ b # a => locks'[q][b] = locks[q][b]
    BY <1>1 DEF Join, TypeOK, LeaseInv, IdleIsUnleased
  <1>3. \A d \in Callers \ {c} : calls'[d] = calls[d]
    BY <1>1 DEF Others
  <1>4. \/ l = locks[p][a]
        \/ locks[p][a] = NoLease /\ \A d \in Callers : calls[d].lease # l
    BY DEF Join
  \* Who uses l already does so for the same account in the same process.
  <1>5. ASSUME NEW d \in Callers, calls[d].lease = l
        PROVE  ProcessOf[d] = p /\ Account(d) = a
    <2>1. l = locks[p][a]
      BY <1>4, <1>5
    <2>2. PICK e \in Callers : ProcessOf[e] = p /\ Account(e) = a /\ calls[e].lease = l
      BY <1>2, <2>1 DEF LeaseInv, TableIsUsed
    <2> QED
      BY <1>2, <1>5, <2>2 DEF LeaseInv, LeaseIsOfOneAccount
  <1>6. RefsCountUsers'
    <2>1. Users(l)' = Users(l) \cup {c} /\ c \notin Users(l)
      BY <1>1, <1>2, <1>3 DEF Users
    <2>2. Cardinality(Users(l)') = Cardinality(Users(l)) + 1
      BY <2>1, UsersFinite, FS_AddElement
    <2>3. \A k \in Leases \ {l} : Users(k)' = Users(k)
      BY <1>1, <1>2, <1>3 DEF Users
    <2>4. leases'[l].refs = leases[l].refs + 1
            /\ \A k \in Leases \ {l} : leases'[k] = leases[k]
      BY DEF Join, TypeOK
    <2> QED
      BY <2>2, <2>3, <2>4 DEF LeaseInv, RefsCountUsers
  <1>7. IdleIsUnleased'
    BY <1>1, <1>2, <1>3 DEF LeaseInv, IdleIsUnleased
  <1>8. UsersAreInTable'
    <2> SUFFICES ASSUME NEW d \in Callers, calls'[d].pc # "idle"
                 PROVE  /\ calls'[d].account \in Accounts
                        /\ locks'[ProcessOf[d]][calls'[d].account] = calls'[d].lease
      BY DEF UsersAreInTable, Account
    <2>1. CASE d = c
      BY <1>1, <1>2, <2>1
    <2>2. CASE d # c
      <3>1. calls'[d] = calls[d] /\ calls[d].account \in Accounts /\ ProcessOf[d] \in Processes
              /\ locks[ProcessOf[d]][calls[d].account] = calls[d].lease
              /\ calls[d].lease # NoLease
        BY <1>3, <2>2 DEF LeaseInv, UsersAreInTable, IdleIsUnleased, Account
      <3>2. CASE ProcessOf[d] = p /\ calls[d].account = a
        <4>1. locks[p][a] # NoLease
          BY <3>1, <3>2
        <4> QED
          BY <1>2, <1>4, <3>1, <3>2, <4>1
      <3>3. CASE ~ (ProcessOf[d] = p /\ calls[d].account = a)
        BY <1>2, <3>1, <3>3
      <3> QED
        BY <3>2, <3>3
    <2> QED
      BY <2>1, <2>2
  <1>9. TableIsUsed'
    <2> SUFFICES ASSUME NEW q \in Processes, NEW b \in Accounts, locks'[q][b] # NoLease
                 PROVE  \E d \in Callers : /\ ProcessOf[d] = q /\ calls'[d].account = b
                                           /\ calls'[d].lease = locks'[q][b]
      BY DEF TableIsUsed, Account
    <2>1. CASE q = p /\ b = a
      BY <1>1, <1>2, <2>1
    <2>2. CASE ~ (q = p /\ b = a)
      <3>1. PICK d \in Callers : /\ ProcessOf[d] = q /\ calls[d].account = b
                                /\ calls[d].lease = locks[q][b]
        BY <1>2, <2>2 DEF LeaseInv, TableIsUsed, Account
      <3>2. d # c
        BY <1>2, <2>2, <3>1
      <3> QED
        BY <1>2, <1>3, <2>2, <3>1, <3>2
    <2> QED
      BY <2>1, <2>2
  <1>10. LeaseIsOfOneAccount'
    BY <1>1, <1>2, <1>3, <1>5 DEF LeaseInv, LeaseIsOfOneAccount, Account
  <1>11. HolderHasToken'
    <2>1. \A k \in Leases : leases'[k].token = leases[k].token
      BY DEF Join, TypeOK
    <2>2. \A d \in Callers : calls[d].pc \in Holding => calls[d].lease \in Leases
      BY DEF TypeOK, Call, LeaseInv, IdleIsUnleased, Holding
    <2> QED
      BY <1>1, <1>3, <2>1, <2>2 DEF LeaseInv, HolderHasToken, Holding
  <1> QED
    BY <1>6, <1>7, <1>8, <1>9, <1>10, <1>11 DEF LeaseInv

\* Only one call at a time has put its token into a lease.
LEMMA TakeReleaseKeepLeases ==
  ASSUME TypeOK, LeaseInv, NEW c \in Callers, Take(c) \/ Release(c)
  PROVE  LeaseInv'
  <1> DEFINE l == calls[c].lease
  <1>1. /\ Others(c) /\ KeepsLease(c) /\ locks' = locks
        /\ \/ calls[c].pc = "wait" /\ calls'[c].pc = "verify"
           \/ calls[c].pc = "release" /\ calls'[c].pc = "leave"
    BY MovesEffect DEF TypeOK, CallsTyped, Take, Release, Steps
  <1>2. \A d \in Callers \ {c} : calls'[d] = calls[d]
    BY <1>1 DEF Others
  <1>3. l \in Leases /\ locks[ProcessOf[c]][Account(c)] = l
    BY <1>1, LeaverIsCounted DEF LeaseInv, UsersAreInTable
  <1>4. /\ \A k \in Leases : leases'[k].refs = leases[k].refs
        /\ \A k \in Leases \ {l} : leases'[k] = leases[k]
        /\ Take(c) => leases[l].token = NoCaller /\ leases'[l].token = c
    <2>1. leases[l] \in [refs : Nat, token : Callers \cup {NoCaller}]
      BY <1>3 DEF TypeOK
    <2>2. PICK token : leases' = [leases EXCEPT ![l].token = token]
                         /\ (Take(c) => leases[l].token = NoCaller /\ token = c)
      BY <1>3 DEF Take, Release, Account
    <2>3. /\ [leases[l] EXCEPT !.token = token].refs = leases[l].refs
          /\ [leases[l] EXCEPT !.token = token].token = token
      BY <2>1
    <2>4. leases'[l] = [leases[l] EXCEPT !.token = token]
            /\ \A k \in Leases \ {l} : leases'[k] = leases[k]
      BY <1>3, <2>2 DEF TypeOK
    <2> QED
      BY <2>2, <2>3, <2>4
  <1>5. RefsCountUsers'
    <2>1. \A k : Users(k)' = Users(k)
      BY <1>1, <1>2 DEF Users, KeepsLease
    <2> QED
      BY <1>4, <2>1 DEF LeaseInv, RefsCountUsers
  <1>6. IdleIsUnleased' /\ UsersAreInTable' /\ TableIsUsed' /\ LeaseIsOfOneAccount'
    BY <1>1, <1>2 DEF LeaseInv, IdleIsUnleased, UsersAreInTable, TableIsUsed,
                      LeaseIsOfOneAccount, KeepsLease, Account
  <1>7. HolderHasToken'
    <2> SUFFICES ASSUME NEW d \in Callers, calls'[d].pc \in Holding
                 PROVE  leases'[calls'[d].lease].token = d
      BY DEF HolderHasToken
    <2>1. CASE d = c
      BY <1>1, <1>4, <2>1 DEF KeepsLease, Holding, Release, Moves
    <2>2. CASE d # c
      <3>1. calls'[d] = calls[d] /\ leases[calls[d].lease].token = d
        BY <1>2, <2>2 DEF LeaseInv, HolderHasToken
      <3>2. calls[d].lease \in Leases
        BY <1>2, <2>2 DEF TypeOK, Call, LeaseInv, IdleIsUnleased, Holding
      <3>3. calls[d].lease # l
        <4>1. CASE Take(c)
          BY <1>4, <3>1, <4>1
        <4>2. CASE Release(c)
          <5>1. leases[l].token = c
            BY <4>2 DEF Release, Moves, LeaseInv, HolderHasToken, Holding
          <5> QED
            BY <2>2, <3>1, <5>1
        <4> QED
          BY <4>1, <4>2
      <3> QED
        BY <1>4, <3>1, <3>2, <3>3
    <2> QED
      BY <2>1, <2>2
  <1> QED
    BY <1>5, <1>6, <1>7 DEF LeaseInv

\* The last user of a lease takes it out of the table.
LEMMA LeaveKeepsLeases ==
  ASSUME TypeOK, LeaseInv, NEW c \in Callers, Leave(c)
  PROVE  LeaseInv'
  <1> DEFINE p == ProcessOf[c]
             a == calls[c].account
  <1>1. /\ Others(c) /\ calls[c].pc = "leave" /\ calls'[c].pc = "idle"
        /\ calls'[c].lease = NoLease /\ calls'[c].account = a
    BY LeaveEffect DEF TypeOK, CallsTyped
  <1>2. \A d \in Callers \ {c} : calls'[d] = calls[d]
    BY <1>1 DEF Others
  <1>3. PICK l \in Leases : l = calls[c].lease
    BY <1>1, LeaverIsCounted
  <1>4. /\ l = calls[c].lease /\ l # NoLease /\ leases[l].refs >= 1
        /\ p \in Processes /\ a \in Accounts /\ locks[p][a] = l
    BY <1>1, <1>3, LeaverIsCounted DEF LeaseInv, UsersAreInTable, Account
  <1>5. /\ Users(l)' = Users(l) \ {c} /\ c \in Users(l)
        /\ \A k \in Leases \ {l} : Users(k)' = Users(k)
    BY <1>1, <1>2, <1>4 DEF Users
  <1>6. Cardinality(Users(l)') = Cardinality(Users(l)) - 1
    BY <1>5, UsersFinite, FS_RemoveElement
  <1>7. /\ leases'[l].refs = leases[l].refs - 1
        /\ \A k \in Leases \ {l} : leases'[k] = leases[k]
        /\ leases'[l].token = leases[l].token
    <2>1. leases[l] \in [refs : Nat, token : Callers \cup {NoCaller}]
      BY <1>4 DEF TypeOK
    <2>2. /\ [leases[l] EXCEPT !.refs = leases[l].refs - 1].refs = leases[l].refs - 1
          /\ [leases[l] EXCEPT !.refs = leases[l].refs - 1].token = leases[l].token
      BY <2>1
    <2>3. leases'[l] = [leases[l] EXCEPT !.refs = leases[l].refs - 1]
            /\ \A k \in Leases \ {l} : leases'[k] = leases[k]
      BY <1>4 DEF Leave, TypeOK
    <2> QED
      BY <2>2, <2>3
  <1>8. locks' = IF leases[l].refs = 1 THEN [locks EXCEPT ![p][a] = NoLease] ELSE locks
    BY <1>4 DEF Leave, Dropped, Account
  <1>9. RefsCountUsers'
    BY <1>4, <1>5, <1>6, <1>7 DEF LeaseInv, RefsCountUsers
  \* Another user of l remains exactly when its count was not 1.
  <1>10. ASSUME NEW d \in Callers \ {c}, calls[d].lease = l
        PROVE  leases[l].refs # 1
    <2>1. d \in Users(l)'
      BY <1>2, <1>10 DEF Users
    <2>2. Cardinality(Users(l)') # 0
      BY <1>5, <2>1, UsersFinite, FS_RemoveElement, FS_EmptySet
    <2> QED
      BY <1>4, <1>6, <2>2 DEF LeaseInv, RefsCountUsers
  <1>11. ASSUME leases[l].refs # 1
         PROVE  \E d \in Callers \ {c} : calls[d].lease = l
    <2>1. Cardinality(Users(l)') # 0
      BY <1>4, <1>6, <1>11, UsersFinite DEF LeaseInv, RefsCountUsers
    <2>2. Users(l) \ {c} # {}
      BY <1>5, <2>1, FS_EmptySet
    <2> QED
      BY <2>2 DEF Users
  <1>12. IdleIsUnleased' /\ LeaseIsOfOneAccount'
    BY <1>1, <1>2 DEF LeaseInv, IdleIsUnleased, LeaseIsOfOneAccount, Account
  <1>13. UsersAreInTable'
    <2> SUFFICES ASSUME NEW d \in Callers, calls'[d].pc # "idle"
                 PROVE  /\ calls'[d].account \in Accounts
                        /\ locks'[ProcessOf[d]][calls'[d].account] = calls'[d].lease
      BY DEF UsersAreInTable, Account
    <2>1. /\ d # c /\ calls'[d] = calls[d] /\ calls[d].account \in Accounts
          /\ ProcessOf[d] \in Processes
          /\ locks[ProcessOf[d]][calls[d].account] = calls[d].lease
      BY <1>1, <1>2 DEF LeaseInv, UsersAreInTable, Account
    <2>2. CASE leases[l].refs = 1
      <3>1. calls[d].lease # l
        BY <1>10, <2>1, <2>2
      <3>2. ~ (ProcessOf[d] = p /\ calls[d].account = a)
        BY <1>4, <2>1, <3>1
      <3> QED
        BY <1>4, <1>8, <2>1, <2>2, <3>2 DEF TypeOK
    <2> QED
      BY <1>8, <2>1, <2>2
  <1>14. TableIsUsed'
    <2> SUFFICES ASSUME NEW q \in Processes, NEW b \in Accounts, locks'[q][b] # NoLease
                 PROVE  \E d \in Callers : /\ ProcessOf[d] = q /\ calls'[d].account = b
                                           /\ calls'[d].lease = locks'[q][b]
      BY DEF TableIsUsed, Account
    <2>1. locks'[q][b] = locks[q][b] /\ (leases[l].refs = 1 => ~ (q = p /\ b = a))
      BY <1>4, <1>8 DEF TypeOK
    <2>2. PICK d \in Callers : /\ ProcessOf[d] = q /\ calls[d].account = b
                              /\ calls[d].lease = locks[q][b]
      BY <2>1 DEF LeaseInv, TableIsUsed, Account
    <2>3. CASE d # c
      BY <1>2, <2>1, <2>2, <2>3
    <2>4. CASE d = c
      <3>1. leases[l].refs # 1 /\ q = p /\ b = a
        BY <2>1, <2>2, <2>4
      <3>2. PICK e \in Callers \ {c} : calls[e].lease = l
        BY <1>11, <3>1
      <3>3. ProcessOf[e] = p /\ calls[e].account = a
        BY <1>4, <3>2 DEF LeaseInv, LeaseIsOfOneAccount, Account
      <3> QED
        BY <1>2, <1>4, <2>1, <3>1, <3>2, <3>3
    <2> QED
      BY <2>3, <2>4
  <1>15. HolderHasToken'
    <2>1. \A d \in Callers : calls[d].pc \in Holding => calls[d].lease \in Leases
      BY DEF TypeOK, Call, LeaseInv, IdleIsUnleased, Holding
    <2> QED
      BY <1>1, <1>2, <1>7, <2>1 DEF LeaseInv, HolderHasToken, Holding
  <1> QED
    BY <1>9, <1>12, <1>13, <1>14, <1>15 DEF LeaseInv

LEMMA RefuseKeepsLeases ==
  ASSUME TypeOK, LeaseInv, NEW c \in Callers, Refuse(c)
  PROVE  LeaseInv'
  <1>1. /\ Others(c) /\ calls[c].pc = "idle" /\ calls'[c].pc = "idle"
        /\ calls'[c].lease = NoLease /\ locks' = locks /\ leases' = leases
    BY RefuseEffect DEF TypeOK, CallsTyped, Refuse
  <1>2. calls[c].lease = NoLease /\ \A d \in Callers \ {c} : calls'[d] = calls[d]
    BY <1>1 DEF LeaseInv, IdleIsUnleased, Others
  <1>3. RefsCountUsers'
    <2>1. \A k : Users(k)' = Users(k)
      BY <1>1, <1>2 DEF Users
    <2> QED
      BY <1>1, <2>1 DEF LeaseInv, RefsCountUsers
  <1>4. IdleIsUnleased' /\ UsersAreInTable'
    BY <1>1, <1>2 DEF LeaseInv, IdleIsUnleased, UsersAreInTable, Account
  <1>5. TableIsUsed'
    BY <1>1, <1>2 DEF LeaseInv, TableIsUsed, Account
  <1>6. LeaseIsOfOneAccount' /\ HolderHasToken'
    BY <1>1, <1>2 DEF LeaseInv, LeaseIsOfOneAccount, HolderHasToken, Holding, Account
  <1> QED
    BY <1>3, <1>4, <1>5, <1>6 DEF LeaseInv

\* With a process its table, its leases and their users disappear.
LEMMA CrashKeepsLeases ==
  ASSUME TypeOK, LeaseInv, NEW p \in Processes, Crash(p)
  PROVE  LeaseInv'
  <1> DEFINE mine == {c \in Callers : ProcessOf[c] = p}
             lost(l) == \E c \in mine : calls[c].lease = l
  <1>1. /\ \A c \in mine : calls'[c] = NoCall
        /\ \A c \in Callers \ mine : calls'[c] = calls[c]
        /\ \A l \in Leases : leases'[l] = IF lost(l) THEN FreeLease ELSE leases[l]
        /\ \A a \in Accounts : locks'[p][a] = NoLease
        /\ \A q \in Processes \ {p} : locks'[q] = locks[q]
    BY DEF Crash, TypeOK
  <1>2. NoCall.pc = "idle" /\ NoCall.lease = NoLease
    BY DEF NoCall
  <1>3. ASSUME NEW c \in Callers \ mine, calls[c].lease # NoLease
        PROVE  ~ lost(calls[c].lease)
    BY <1>3 DEF LeaseInv, LeaseIsOfOneAccount
  <1>4. RefsCountUsers'
    <2> SUFFICES ASSUME NEW l \in Leases
                 PROVE  leases'[l].refs = Cardinality(Users(l)')
      BY DEF RefsCountUsers
    <2>1. l # NoLease
      OBVIOUS
    <2>2. CASE lost(l)
      <3>1. Users(l)' = {}
        BY <1>1, <1>2, <1>3, <2>1, <2>2 DEF Users
      <3> QED
        BY <1>1, <2>2, <3>1, FS_EmptySet DEF FreeLease
    <2>3. CASE ~ lost(l)
      <3>1. Users(l)' = Users(l)
        BY <1>1, <1>2, <2>1, <2>3 DEF Users
      <3> QED
        BY <1>1, <2>3, <3>1 DEF LeaseInv, RefsCountUsers
    <2> QED
      BY <2>2, <2>3
  <1>5. IdleIsUnleased'
    BY <1>1, <1>2 DEF LeaseInv, IdleIsUnleased
  <1>6. UsersAreInTable'
    BY <1>1, <1>2 DEF LeaseInv, UsersAreInTable, Account
  <1>7. TableIsUsed'
    <2> SUFFICES ASSUME NEW q \in Processes, NEW b \in Accounts, locks'[q][b] # NoLease
                 PROVE  \E d \in Callers : /\ ProcessOf[d] = q /\ calls'[d].account = b
                                           /\ calls'[d].lease = locks'[q][b]
      BY DEF TableIsUsed, Account
    <2>1. q # p /\ locks'[q][b] = locks[q][b]
      BY <1>1
    <2>2. PICK d \in Callers : /\ ProcessOf[d] = q /\ calls[d].account = b
                              /\ calls[d].lease = locks[q][b]
      BY <2>1 DEF LeaseInv, TableIsUsed, Account
    <2> QED
      BY <1>1, <2>1, <2>2
  <1>8. LeaseIsOfOneAccount'
    BY <1>1, <1>2 DEF LeaseInv, LeaseIsOfOneAccount, Account
  <1>9. HolderHasToken'
    <2>1. \A d \in Callers : calls[d].pc \in Holding =>
              calls[d].lease \in Leases /\ calls[d].lease # NoLease
      BY DEF TypeOK, Call, LeaseInv, IdleIsUnleased, Holding
    <2> QED
      BY <1>1, <1>2, <1>3, <2>1 DEF LeaseInv, HolderHasToken, Holding
  <1> QED
    BY <1>4, <1>5, <1>6, <1>7, <1>8, <1>9 DEF LeaseInv

\* Every step keeps them.
LEMMA LeaseStep == TypeOK /\ LeaseInv /\ [Next]_vars => LeaseInv'
  <1> SUFFICES ASSUME TypeOK, LeaseInv, [Next]_vars PROVE LeaseInv'
    OBVIOUS
  <1>1. ASSUME NEW c \in Callers, Work(c) PROVE LeaseInv'
    <2>1. Quiet
      BY <1>1, WorkEffect DEF TypeOK, CallsTyped, Quiet, Others, KeepsLease, Holding
    <2> QED
      BY <2>1, QuietKeepsLeases
  <1>2. ASSUME NEW c \in Callers, GiveUp(c) PROVE LeaseInv'
    <2>1. Quiet
      BY <1>2, GiveUpEffect DEF GiveUp, TypeOK, CallsTyped, Quiet, Others, KeepsLease, Holding
    <2> QED
      BY <2>1, QuietKeepsLeases
  <1>3. ASSUME NEW a \in Accounts, ApplyFile(a) PROVE LeaseInv'
    <2>1. Quiet
      <3>1. CASE atlas[a] = Orphan
        BY <1>3, <3>1 DEF ApplyFile, Quiet, KeepsLease
      <3>2. CASE atlas[a] # Orphan
        BY <1>3, <3>2, RecordEffect
           DEF ApplyFile, TypeOK, CallsTyped, Quiet, Others, KeepsLease, Holding
      <3> QED
        BY <3>1, <3>2
    <2> QED
      BY <2>1, QuietKeepsLeases
  <1>4. ASSUME NEW a \in Accounts, OrphanEnds(a) PROVE LeaseInv'
    <2>1. Quiet
      BY <1>4 DEF OrphanEnds, Quiet, KeepsLease
    <2> QED
      BY <2>1, QuietKeepsLeases
  <1>5. CASE UNCHANGED vars
    <2>1. Quiet
      BY <1>5 DEF vars, Quiet, KeepsLease
    <2> QED
      BY <2>1, QuietKeepsLeases
  <1> QED
    BY <1>1, <1>2, <1>3, <1>4, <1>5, JoinKeepsLeases, TakeReleaseKeepLeases,
       LeaveKeepsLeases, RefuseKeepsLeases, CrashKeepsLeases DEF Next, Work

-----------------------------------------------------------------------------
(* Types *)

LEMMA DatabaseTyped ==
  ASSUME NEW d \in Database
  PROVE  /\ Completed(d) \in Database
         /\ \A revisions \in SUBSET Versions :
                /\ [d EXCEPT !.revisions = revisions] \in Database
                /\ \A missing \in SUBSET Historical :
                      [d EXCEPT !.tables = "baseline", !.missing = missing,
                                !.revisions = revisions] \in Database
  BY DEF Completed, Database

\* A step changes one lease, and keeps its count a natural number.
LEMMA LeaseTyped ==
  ASSUME TypeOK, NEW l \in Leases, NEW token \in Callers \cup {NoCaller}
  PROVE  /\ [leases EXCEPT ![l].token = token]
                \in [Leases -> [refs : Nat, token : Callers \cup {NoCaller}]]
         /\ [leases EXCEPT ![l].refs = @ + 1]
                \in [Leases -> [refs : Nat, token : Callers \cup {NoCaller}]]
         /\ leases[l].refs >= 1 => [leases EXCEPT ![l].refs = @ - 1]
                \in [Leases -> [refs : Nat, token : Callers \cup {NoCaller}]]
  <1> DEFINE row == leases[l]
  <1>1. row \in [refs : Nat, token : Callers \cup {NoCaller}]
    BY DEF TypeOK
  <1>2. /\ [row EXCEPT !.token = token] \in [refs : Nat, token : Callers \cup {NoCaller}]
        /\ [row EXCEPT !.refs = row.refs + 1] \in [refs : Nat, token : Callers \cup {NoCaller}]
        /\ row.refs >= 1 => [row EXCEPT !.refs = row.refs - 1]
                                \in [refs : Nat, token : Callers \cup {NoCaller}]
    BY <1>1
  <1> QED
    BY <1>2 DEF TypeOK

LEMMA TypeStep == TypeOK /\ LeaseInv /\ [Next]_vars => TypeOK'
  <1> SUFFICES ASSUME TypeOK, LeaseInv, [Next]_vars PROVE TypeOK'
    OBVIOUS
  <1>1. CallsTyped
    BY DEF TypeOK, CallsTyped
  <1>2. ASSUME NEW c \in Callers, NEW a \in Accounts, NEW adoptLegacy \in BOOLEAN,
               NEW l \in Leases, Join(c, a, adoptLegacy, l)
        PROVE  TypeOK'
    <2>1. CallsTyped'
      BY <1>1, <1>2, JoinEffect
    <2>2. leases' \in [Leases -> [refs : Nat, token : Callers \cup {NoCaller}]]
      BY <1>2, LeaseTyped DEF Join
    <2>3. locks' \in [Processes -> [Accounts -> Leases \cup {NoLease}]]
      BY <1>2 DEF Join, TypeOK
    <2> QED
      BY <1>2, <2>1, <2>2, <2>3 DEF Join, TypeOK, CallsTyped
  <1>3. ASSUME NEW c \in Callers, Refuse(c) PROVE TypeOK'
    BY <1>1, <1>3, RefuseEffect DEF Refuse, TypeOK, CallsTyped
  <1>4. ASSUME NEW c \in Callers, Take(c) PROVE TypeOK'
    <2>1. CallsTyped' /\ calls[c].pc = "wait"
      BY <1>1, <1>4, MovesEffect DEF Take, Steps
    <2>2. leases' \in [Leases -> [refs : Nat, token : Callers \cup {NoCaller}]]
      BY <1>4, <2>1, LeaverIsCounted, LeaseTyped DEF Take
    <2> QED
      BY <1>4, <2>1, <2>2 DEF Take, TypeOK, CallsTyped
  <1>5. ASSUME NEW c \in Callers, GiveUp(c) PROVE TypeOK'
    BY <1>1, <1>5, GiveUpEffect DEF GiveUp, TypeOK, CallsTyped
  <1>6. ASSUME NEW c \in Callers, Release(c) PROVE TypeOK'
    <2>1. CallsTyped' /\ calls[c].pc = "release"
      BY <1>1, <1>6, MovesEffect DEF Release, Steps
    <2>2. locks[ProcessOf[c]][Account(c)] \in Leases
      BY <2>1, LeaverIsCounted DEF LeaseInv, UsersAreInTable
    <2>3. leases' \in [Leases -> [refs : Nat, token : Callers \cup {NoCaller}]]
      BY <1>6, <2>2, LeaseTyped DEF Release
    <2> QED
      BY <1>6, <2>1, <2>3 DEF Release, TypeOK, CallsTyped
  <1>7. ASSUME NEW c \in Callers, Leave(c) PROVE TypeOK'
    <2>1. CallsTyped' /\ calls[c].pc = "leave"
      BY <1>1, <1>7, LeaveEffect
    <2>2. leases' \in [Leases -> [refs : Nat, token : Callers \cup {NoCaller}]]
      BY <1>7, <2>1, LeaverIsCounted, LeaseTyped DEF Leave
    <2>3. locks' \in [Processes -> [Accounts -> Leases \cup {NoLease}]]
      BY <1>7 DEF Leave, TypeOK
    <2> QED
      BY <1>7, <2>1, <2>2, <2>3 DEF Leave, TypeOK, CallsTyped
  <1>8. ASSUME NEW c \in Callers, Work(c) PROVE TypeOK'
    <2>1. CallsTyped' /\ UNCHANGED <<locks, leases, crashes>>
      BY <1>1, <1>8, WorkEffect
    <2>2. db' \in [Accounts -> Database]
      <3>1. \A a \in Accounts : db[a] \in Database
        BY DEF TypeOK
      <3>2. {1} \in SUBSET Versions
        BY DEF Versions
      <3>3. \/ db' = db
            \/ db' = [db EXCEPT ![Account(c)] = Completed(db[Account(c)])]
            \/ db' = [db EXCEPT ![Account(c)] = [db[Account(c)] EXCEPT !.revisions = {1}]]
        BY <1>8 DEF TypeOK, Work, Verify, BinaryFails, VerifyFails, LegacyBaseline,
               LegacyBaselineFails, StartAtlas, AtlasUnavailable, AtlasSucceeds, AtlasFails
      <3>4. /\ Account(c) \in Accounts => Completed(db[Account(c)]) \in Database
            /\ Account(c) \in Accounts =>
                   [db[Account(c)] EXCEPT !.revisions = {1}] \in Database
        BY <3>1, <3>2, DatabaseTyped
      <3> QED
        BY <3>3, <3>4 DEF TypeOK
    <2>3. atlas' \in [Accounts -> Callers \cup {NoCaller, Orphan}]
      BY <1>8 DEF TypeOK, Work, Verify, BinaryFails, VerifyFails, LegacyBaseline,
                  LegacyBaselineFails, StartAtlas, AtlasUnavailable, AtlasSucceeds, AtlasFails
    <2> QED
      BY <2>1, <2>2, <2>3 DEF TypeOK, CallsTyped
  <1>9. ASSUME NEW a \in Accounts, ApplyFile(a) PROVE TypeOK'
    <2>1. CallsTyped'
      BY <1>1, <1>9, RecordEffect DEF ApplyFile, TypeOK, CallsTyped
    <2>2. db' \in [Accounts -> Database]
      <3>1. db[a] \in Database /\ db[a].missing \in SUBSET Historical
              /\ db[a].revisions \in SUBSET Versions
        BY DEF TypeOK, Database
      <3>2. PICK v \in Pending(db[a]) : db' = [db EXCEPT
               ![a].tables = "baseline",
               ![a].missing = IF v = 1 /\ db[a].tables = "empty" THEN {} ELSE @,
               ![a].revisions = @ \cup {v}]
        BY <1>9 DEF ApplyFile
      <3> DEFINE missing == IF v = 1 /\ db[a].tables = "empty" THEN {} ELSE db[a].missing
                 revisions == db[a].revisions \cup {v}
      <3>3. missing \in SUBSET Historical /\ revisions \in SUBSET Versions
        BY <3>1 DEF Pending
      <3>4. db' = [db EXCEPT ![a] = [db[a] EXCEPT !.tables = "baseline",
                                        !.missing = missing, !.revisions = revisions]]
        BY <3>2 DEF TypeOK
      <3> HIDE DEF missing, revisions
      <3> QED
        BY <3>1, <3>3, <3>4, DatabaseTyped DEF TypeOK
    <2> QED
      BY <1>9, <2>1, <2>2 DEF ApplyFile, TypeOK, CallsTyped
  <1>10. ASSUME NEW a \in Accounts, OrphanEnds(a) PROVE TypeOK'
    BY <1>10 DEF OrphanEnds, TypeOK
  <1>11. ASSUME NEW p \in Processes, Crash(p) PROVE TypeOK'
    <2>1. NoCall \in Call /\ FreeLease \in [refs : Nat, token : Callers \cup {NoCaller}]
      BY DEF NoCall, Call, FreeLease
    <2>2. calls' \in [Callers -> Call]
      BY <1>11, <2>1 DEF Crash, TypeOK
    <2>3. leases' \in [Leases -> [refs : Nat, token : Callers \cup {NoCaller}]]
      BY <1>11, <2>1 DEF Crash, TypeOK
    <2>4. locks' \in [Processes -> [Accounts -> Leases \cup {NoLease}]]
      BY <1>11 DEF Crash, TypeOK
    <2>5. atlas' \in [Accounts -> Callers \cup {NoCaller, Orphan}]
      BY <1>11 DEF Crash, TypeOK
    <2> QED
      BY <1>11, <2>2, <2>3, <2>4, <2>5 DEF Crash, TypeOK
  <1>12. CASE UNCHANGED vars
    BY <1>12 DEF vars, TypeOK
  <1> QED
    BY <1>2, <1>3, <1>4, <1>5, <1>6, <1>7, <1>8, <1>9, <1>10, <1>11, <1>12 DEF Next, Work

-----------------------------------------------------------------------------
(* Theorems about leases *)

LEMMA LeasesAreSound == Spec => [](TypeOK /\ LeaseInv)
  <1>1. Init => TypeOK /\ LeaseInv
    BY InitTyped, InitLeases
  <1>2. TypeOK /\ LeaseInv /\ [Next]_vars => (TypeOK /\ LeaseInv)'
    BY TypeStep, LeaseStep
  <1> QED
    BY <1>1, <1>2, PTL DEF Spec

\* Leases, calls and databases are what the code declares, whatever waits,
\* gives up or dies: a reference count never goes below zero.
THEOREM MigrationsAreTyped == Spec => []TypeOK
  BY LeasesAreSound, PTL

\* Of all the calls a process makes for one account, one at a time is past
\* acquire, however the leases of the account came and went.
THEOREM MigrationsAreExclusive == Spec => []OneMigrationAtATime
  <1>1. TypeOK /\ LeaseInv => OneMigrationAtATime
    BY DEF LeaseInv, UsersAreInTable, HolderHasToken, OneMigrationAtATime, Holding, Account
  <1> QED
    BY <1>1, LeasesAreSound, PTL

-----------------------------------------------------------------------------
(* Databases and reports *)

\* A call reports when it is done.
ReportsLast ==
    \A c \in Callers :
        calls[c].pc \in {"wait", "verify", "baseline", "apply", "atlas"} =>
            calls[c].outcome = "none"

\* A call whose Atlas process recorded something does not deny it.
RecordsAreReported ==
    \A c \in Callers : calls[c].recorded =>
        \/ calls[c].pc = "atlas"
        \/ calls[c].outcome \in {"succeeded", "migration_rejected", "migration_outcome_unknown"}

SuccessIsLatest ==
    \A c \in Callers : calls[c].outcome = "succeeded" =>
        Account(c) \in Accounts /\ Pending(db[Account(c)]) = {}

\* Atlas runs for a call that waits for it, and never on tables without a history.
AtlasHasCaller ==
    \A c \in Callers, a \in Accounts :
        atlas[a] = c => calls[c].pc = "atlas" /\ Account(c) = a
AtlasHasHistory == \A a \in Accounts : atlas[a] # NoCaller => ~ Unmanaged(db[a])

Whole(d) == d.tables = "baseline" /\ d.missing = {}
HasPast(d) == \A v \in d.revisions : 1..v \subseteq d.revisions

HistoryIsWhole ==
    \A a \in Accounts : db[a].revisions # {} => Whole(db[a]) /\ HasPast(db[a])

\* The baseline version is claimed for databases that have all of it.
AdoptedIsWhole ==
    \A c \in Callers : calls[c].baseline = 1 =>
        Account(c) \in Accounts /\ Whole(db[Account(c)])

WorkInv ==
    /\ ReportsLast /\ RecordsAreReported /\ SuccessIsLatest
    /\ AtlasHasCaller /\ AtlasHasHistory /\ HistoryIsWhole /\ AdoptedIsWhole

LEMMA InitWork == Init => WorkInv
  <1> SUFFICES ASSUME Init PROVE WorkInv
    OBVIOUS
  <1>1. \A a \in Accounts : db[a].revisions # {} => Whole(db[a]) /\ HasPast(db[a])
    <2> SUFFICES ASSUME NEW a \in Accounts, db[a].revisions # {}
                 PROVE  Whole(db[a]) /\ HasPast(db[a])
      OBVIOUS
    <2>1. db[a] \in InitialDatabases
      BY DEF Init
    <2>2. Empty.revisions = {} /\ Foreign.revisions = {}
            /\ \A m : Legacy(m).revisions = {}
      <3>1. Empty \in [tables : {"empty"}, missing : {Historical}, revisions : {{}}]
        BY DEF Empty
      <3> QED
        BY <3>1 DEF Foreign, Legacy
    <2>3. PICK n \in Versions : db[a] = Migrated(n)
      BY <2>1, <2>2 DEF InitialDatabases
    <2> QED
      BY <2>3 DEF Migrated, Whole, HasPast, Versions
  <1> QED
    BY <1>1 DEF Init, NoCall, WorkInv, ReportsLast, RecordsAreReported, SuccessIsLatest,
                AtlasHasCaller, AtlasHasHistory, HistoryIsWhole, AdoptedIsWhole

\* What a step may do to the database of a.
Grows(a) ==
    \/ db'[a] = db[a]
    \/ /\ db[a].tables # "other"
       /\ Whole(db'[a]) /\ HasPast(db'[a])
       /\ db[a].revisions \subseteq db'[a].revisions
       /\ Unmanaged(db[a]) \/ db'[a].revisions # {}

LEMMA BaselineGrows ==
  ASSUME TypeOK, LeaseInv, WorkInv, NEW c \in Callers,
         LegacyBaseline(c) \/ LegacyBaselineFails(c), NEW a \in Accounts
  PROVE  Grows(a)
  <1>1. CASE db' = db
    BY <1>1 DEF Grows
  <1>2. CASE db' # db
    <2>1. /\ Unmanaged(db[Account(c)]) /\ db[Account(c)].tables = "baseline"
          /\ db' = [db EXCEPT ![Account(c)] = Completed(db[Account(c)])]
      BY <1>2 DEF LegacyBaseline, LegacyBaselineFails
    <2>2. CASE a = Account(c)
      <3>1. db[a] \in Database /\ db'[a] = Completed(db[a])
        BY <2>1, <2>2 DEF TypeOK
      <3>2. /\ Completed(db[a]).tables = db[a].tables /\ Completed(db[a]).missing = {}
            /\ Completed(db[a]).revisions = db[a].revisions
        BY <3>1 DEF Completed, Database
      <3> QED
        BY <2>1, <2>2, <3>1, <3>2 DEF Grows, Whole, HasPast, Unmanaged
    <2>3. CASE a # Account(c)
      BY <2>1, <2>3 DEF Grows, TypeOK
    <2> QED
      BY <2>2, <2>3
  <1> QED
    BY <1>1, <1>2

LEMMA StartGrows ==
  ASSUME TypeOK, LeaseInv, WorkInv, NEW c \in Callers, StartAtlas(c), NEW a \in Accounts
  PROVE  Grows(a)
  <1>1. CASE db' = db
    BY <1>1 DEF Grows
  <1>2. CASE db' # db
    <2>1. /\ Unmanaged(db[Account(c)]) /\ calls[c].baseline = 1
          /\ db' = [db EXCEPT ![Account(c)].revisions = {1}]
      BY <1>2 DEF StartAtlas
    <2>2. CASE a = Account(c)
      <3>1. db[a] \in Database /\ db'[a] = [db[a] EXCEPT !.revisions = {1}]
        BY <2>1, <2>2 DEF TypeOK
      <3>2. /\ db'[a].tables = db[a].tables /\ db'[a].missing = db[a].missing
            /\ db'[a].revisions = {1}
        BY <3>1 DEF Database
      <3>3. Whole(db[a])
        BY <2>1, <2>2 DEF WorkInv, AdoptedIsWhole
      <3>4. HasPast(db'[a])
        BY <3>2 DEF HasPast
      <3> QED
        BY <2>1, <2>2, <3>2, <3>3, <3>4 DEF Grows, Whole, Unmanaged
    <2>3. CASE a # Account(c)
      BY <2>1, <2>3 DEF Grows, TypeOK
    <2> QED
      BY <2>2, <2>3
  <1> QED
    BY <1>1, <1>2

LEMMA FileGrows ==
  ASSUME TypeOK, WorkInv, NEW b \in Accounts, ApplyFile(b), NEW a \in Accounts
  PROVE  Grows(a)
  <1>1. PICK v \in Pending(db[b]) :
          /\ \A w \in Pending(db[b]) : v <= w
          /\ db' = [db EXCEPT
               ![b].tables = "baseline",
               ![b].missing = IF v = 1 /\ db[b].tables = "empty" THEN {} ELSE @,
               ![b].revisions = @ \cup {v}]
    BY DEF ApplyFile
  <1>2. CASE a # b
    BY <1>1, <1>2 DEF Grows, TypeOK
  <1>3. CASE a = b
    <2>1. db[a] \in Database /\ v \in 1..Latest /\ db[a].revisions \subseteq 1..Latest
      BY <1>1, <1>3 DEF TypeOK, Pending, Versions, Database
    <2> DEFINE missing == IF v = 1 /\ db[a].tables = "empty" THEN {} ELSE db[a].missing
               revisions == db[a].revisions \cup {v}
    <2>2. db'[a] = [db[a] EXCEPT !.tables = "baseline", !.missing = missing,
                                 !.revisions = revisions]
      BY <1>1, <1>3 DEF TypeOK
    <2>3. /\ db'[a].tables = "baseline" /\ db'[a].missing = missing
          /\ db'[a].revisions = revisions
      <3> HIDE DEF missing, revisions
      <3> QED
        BY <2>1, <2>2 DEF Database
    <2>4. db[a].tables = "empty" \/ db[a].revisions # {}
      BY <1>3 DEF ApplyFile, WorkInv, AtlasHasHistory, Unmanaged
    \* Everything before the next file is recorded.
    <2>5. 1..(v - 1) \subseteq db[a].revisions
      BY <1>1, <1>3, <2>1 DEF Pending, Versions
    <2>6. db[a].revisions # {} => Whole(db[a]) /\ HasPast(db[a])
      BY DEF WorkInv, HistoryIsWhole
    <2>7. db[a].revisions = {} => v = 1
      <3>1. CASE db[a].revisions = {}
        <4>1. 1 \in Pending(db[b])
          BY <1>3, <3>1 DEF Pending, Versions
        <4> QED
          BY <1>1, <2>1, <4>1
      <3> QED
        BY <3>1
    <2>8. missing = {}
      BY <2>4, <2>6, <2>7 DEF Whole
    <2>9. HasPast(db'[a])
      <3> SUFFICES ASSUME NEW w \in revisions, NEW x \in 1..w PROVE x \in revisions
        BY <2>3 DEF HasPast
      <3>1. CASE w = v
        BY <2>1, <2>5, <3>1
      <3>2. CASE w \in db[a].revisions
        BY <2>6, <3>2 DEF HasPast
      <3> QED
        BY <3>1, <3>2
    <2>10. db[a].tables # "other"
      BY <2>4, <2>6 DEF Whole
    <2> QED
      BY <2>3, <2>8, <2>9, <2>10 DEF Grows, Whole
  <1> QED
    BY <1>2, <1>3

LEMMA DatabasesGrow ==
  ASSUME TypeOK, LeaseInv, WorkInv, [Next]_vars, NEW a \in Accounts
  PROVE  Grows(a)
  <1>1. CASE db' = db
    BY <1>1 DEF Grows
  <1>2. CASE db' # db
    <2>1. \/ \E c \in Callers :
               LegacyBaseline(c) \/ LegacyBaselineFails(c) \/ StartAtlas(c)
          \/ \E b \in Accounts : ApplyFile(b)
      BY <1>2 DEF Next, vars, Join, Refuse, Take, GiveUp, Release, Leave, Verify, BinaryFails,
                  VerifyFails, AtlasUnavailable, AtlasSucceeds, AtlasFails, OrphanEnds, Crash
    <2> QED
      BY <2>1, BaselineGrows, StartGrows, FileGrows
  <1> QED
    BY <1>1, <1>2

\* What follows from the growth of the databases when no call changes.
LEMMA GrowthKeepsWork ==
  ASSUME WorkInv, \A a \in Accounts : Grows(a)
  PROVE  /\ HistoryIsWhole'
         /\ \A a \in Accounts : Whole(db[a]) => Whole(db'[a])
         /\ \A a \in Accounts : Pending(db[a]) = {} => Pending(db'[a]) = {}
         /\ \A a \in Accounts : ~ Unmanaged(db[a]) => ~ Unmanaged(db'[a])
  BY DEF WorkInv, HistoryIsWhole, Grows, Pending, Unmanaged

LEMMA WorkStep == TypeOK /\ LeaseInv /\ WorkInv /\ [Next]_vars => WorkInv'
  <1> SUFFICES ASSUME TypeOK, LeaseInv, WorkInv, [Next]_vars PROVE WorkInv'
    OBVIOUS
  <1>1. CallsTyped /\ \A a \in Accounts : Grows(a)
    BY DatabasesGrow DEF TypeOK, CallsTyped
  <1>2. /\ HistoryIsWhole'
        /\ \A a \in Accounts : Whole(db[a]) => Whole(db'[a])
        /\ \A a \in Accounts : Pending(db[a]) = {} => Pending(db'[a]) = {}
        /\ \A a \in Accounts : ~ Unmanaged(db[a]) => ~ Unmanaged(db'[a])
    BY <1>1, GrowthKeepsWork
  \* The parts that are about one call, when the step is one of c.
  <1>3. ASSUME NEW c \in Callers, Others(c),
               calls'[c].pc \in {"wait", "verify", "baseline", "apply", "atlas"} =>
                   calls'[c].outcome = "none",
               calls'[c].recorded =>
                   \/ calls'[c].pc = "atlas"
                   \/ calls'[c].outcome \in
                         {"succeeded", "migration_rejected", "migration_outcome_unknown"},
               calls'[c].outcome = "succeeded" =>
                   /\ calls'[c].account \in Accounts
                   /\ Pending(db'[calls'[c].account]) = {},
               calls'[c].baseline = 1 =>
                   calls'[c].account \in Accounts /\ Whole(db'[calls'[c].account])
        PROVE  ReportsLast' /\ RecordsAreReported' /\ SuccessIsLatest' /\ AdoptedIsWhole'
    <2>1. \A d \in Callers \ {c} : calls'[d] = calls[d]
      BY <1>3 DEF Others
    <2>2. ReportsLast' /\ RecordsAreReported'
      BY <1>3, <2>1 DEF WorkInv, ReportsLast, RecordsAreReported
    <2>3. SuccessIsLatest' /\ AdoptedIsWhole'
      BY <1>2, <1>3, <2>1 DEF WorkInv, SuccessIsLatest, AdoptedIsWhole, Account
    <2> QED
      BY <2>2, <2>3
  <1>4. ASSUME NEW c \in Callers, NEW a \in Accounts, NEW adoptLegacy \in BOOLEAN,
               NEW l \in Leases, Join(c, a, adoptLegacy, l)
        PROVE  WorkInv'
    <2>1. /\ Others(c) /\ calls[c].pc = "idle" /\ calls'[c].baseline = 0
          /\ calls'[c].outcome = "none" /\ ~ calls'[c].recorded
      BY <1>1, <1>4, JoinEffect
    <2>2. AtlasHasCaller' /\ AtlasHasHistory'
      BY <1>2, <1>4, <2>1 DEF Join, WorkInv, AtlasHasCaller, AtlasHasHistory, Others, Account
    <2> QED
      BY <1>2, <1>3, <2>1, <2>2 DEF WorkInv
  <1>5. ASSUME NEW c \in Callers, Refuse(c) PROVE WorkInv'
    <2>1. /\ Others(c) /\ calls[c].pc = "idle" /\ calls'[c].pc = "idle"
          /\ calls'[c].baseline = 0 /\ calls'[c].outcome = "configuration_failure"
          /\ ~ calls'[c].recorded
      BY <1>1, <1>5, RefuseEffect
    <2>2. AtlasHasCaller' /\ AtlasHasHistory'
      BY <1>2, <1>5, <2>1 DEF Refuse, WorkInv, AtlasHasCaller, AtlasHasHistory, Others, Account
    <2> QED
      BY <1>2, <1>3, <2>1, <2>2 DEF WorkInv
  <1>6. ASSUME NEW c \in Callers, Take(c) \/ GiveUp(c) \/ Release(c) \/ Leave(c)
        PROVE  WorkInv'
    <2>1. /\ Others(c) /\ UNCHANGED <<db, atlas>>
          /\ calls[c].pc \in {"wait", "release", "leave"}
          /\ calls'[c].account = calls[c].account /\ calls'[c].recorded = calls[c].recorded
          /\ calls'[c].baseline = calls[c].baseline
          /\ \/ calls'[c].outcome = calls[c].outcome /\ calls'[c].pc \in {"leave", "idle"}
             \/ /\ calls'[c].outcome = calls[c].outcome
                /\ calls[c].pc = "wait" /\ calls'[c].pc = "verify"
             \/ /\ calls'[c].outcome = "configuration_failure"
                /\ calls[c].pc = "wait" /\ calls'[c].pc = "leave"
      <3>1. CASE Take(c)
        BY <1>1, <3>1, MovesEffect DEF Take, Steps, KeepsLease, KeepsReport
      <3>2. CASE GiveUp(c)
        BY <1>1, <3>2, GiveUpEffect DEF GiveUp, KeepsLease
      <3>3. CASE Release(c)
        BY <1>1, <3>3, MovesEffect DEF Release, Steps, KeepsLease, KeepsReport
      <3>4. CASE Leave(c)
        BY <1>1, <3>4, LeaveEffect DEF Leave, KeepsLease, KeepsReport
      <3> QED
        BY <1>6, <3>1, <3>2, <3>3, <3>4
    <2>2. calls'[c].recorded =>
            \/ calls'[c].pc = "atlas"
            \/ calls'[c].outcome \in
                  {"succeeded", "migration_rejected", "migration_outcome_unknown"}
      BY <2>1 DEF WorkInv, ReportsLast, RecordsAreReported
    <2>3. calls'[c].pc \in {"wait", "verify", "baseline", "apply", "atlas"} =>
            calls'[c].outcome = "none"
      BY <2>1 DEF WorkInv, ReportsLast
    <2>4. calls'[c].outcome = "succeeded" =>
            calls'[c].account \in Accounts /\ Pending(db'[calls'[c].account]) = {}
      BY <2>1 DEF WorkInv, SuccessIsLatest, Account
    <2>5. calls'[c].baseline = 1 =>
            calls'[c].account \in Accounts /\ Whole(db'[calls'[c].account])
      BY <2>1 DEF WorkInv, AdoptedIsWhole, Account
    <2>6. AtlasHasCaller' /\ AtlasHasHistory'
      BY <1>2, <2>1 DEF WorkInv, AtlasHasCaller, AtlasHasHistory, Others, Account
    <2> QED
      BY <1>2, <1>3, <2>1, <2>2, <2>3, <2>4, <2>5, <2>6 DEF WorkInv
  <1>7. ASSUME NEW c \in Callers, Work(c) PROVE WorkInv'
    <2>1. /\ Others(c) /\ KeepsLease(c)
          /\ calls[c].pc \in {"verify", "baseline", "apply", "atlas"}
          /\ calls'[c].pc \in {"baseline", "apply", "atlas", "release"}
          /\ calls[c].pc = "atlas" => calls'[c].pc = "release"
          /\ calls'[c].pc # "release" => calls'[c].outcome = calls[c].outcome
          /\ calls'[c].pc = "release" =>
                IF calls[c].pc = "atlas"
                THEN calls'[c].outcome \in {"succeeded", "migration_rejected",
                                            "migration_outcome_unknown"}
                ELSE calls'[c].outcome # "succeeded" /\ calls'[c].outcome # "none"
                        /\ calls'[c].recorded = calls[c].recorded
          /\ ~ calls'[c].recorded \/ calls[c].recorded \/ calls'[c].pc = "atlas"
      BY <1>1, <1>7, WorkEffect
    <2>2. /\ calls[c].outcome = "none" /\ (calls[c].recorded => calls[c].pc = "atlas")
          /\ calls[c].account \in Accounts
      BY <2>1 DEF WorkInv, ReportsLast, RecordsAreReported, LeaseInv, UsersAreInTable, Account
    <2>3. calls'[c].outcome = "succeeded" =>
            calls'[c].account \in Accounts /\ Pending(db'[calls'[c].account]) = {}
      <3> SUFFICES ASSUME calls'[c].outcome = "succeeded"
                   PROVE  Pending(db'[calls[c].account]) = {}
        BY <2>1, <2>2 DEF KeepsLease
      <3>1. AtlasSucceeds(c)
        BY <1>1, <1>7, <2>1, <2>2, EndsEffect
           DEF Work, Verify, BinaryFails, VerifyFails, LegacyBaseline, LegacyBaselineFails,
               StartAtlas, AtlasUnavailable, AtlasFails, ApplyError, Outcomes, Moves
      <3> QED
        BY <3>1 DEF AtlasSucceeds, Account
    <2>4. calls'[c].baseline = 1 =>
            calls'[c].account \in Accounts /\ Whole(db'[calls'[c].account])
      <3>1. CASE calls[c].baseline = 1
        BY <1>2, <2>1, <2>2, <3>1 DEF WorkInv, AdoptedIsWhole, KeepsLease, Account
      <3>2. CASE calls[c].baseline # 1 /\ calls'[c].baseline = 1
        <4>1. LegacyBaseline(c) /\ db[Account(c)].tables = "baseline"
                /\ db' = [db EXCEPT ![Account(c)] = Completed(db[Account(c)])]
          BY <1>1, <1>7, <3>2, MovesEffect, EndsEffect, StartEffect
             DEF Work, Verify, BinaryFails, VerifyFails, LegacyBaseline, LegacyBaselineFails,
                 StartAtlas, AtlasUnavailable, AtlasSucceeds, AtlasFails, ApplyError,
                 Outcomes, Steps
        <4>2. db[Account(c)] \in Database
          BY <2>2 DEF TypeOK, Account
        <4>3. Completed(db[Account(c)]).tables = "baseline"
                /\ Completed(db[Account(c)]).missing = {}
          BY <4>1, <4>2 DEF Completed, Database
        <4> QED
          BY <2>1, <2>2, <4>1, <4>3 DEF Whole, KeepsLease, Account, TypeOK
      <3> QED
        BY <3>1, <3>2
    <2>5. AtlasHasCaller'
      <3> SUFFICES ASSUME NEW d \in Callers, NEW a \in Accounts, atlas'[a] = d
                   PROVE  calls'[d].pc = "atlas" /\ calls'[d].account = a
        BY DEF AtlasHasCaller, Account
      <3>1. CASE StartAtlas(c)
        <4>1. CASE atlas' = atlas
          BY <2>1, <3>1, <4>1 DEF WorkInv, AtlasHasCaller, Others, Account, StartAtlas
        <4>2. CASE atlas' # atlas
          <5>1. atlas' = [atlas EXCEPT ![Account(c)] = c] /\ calls'[c].pc = "atlas"
            BY <1>1, <3>1, <4>2, MovesEffect, StartEffect DEF StartAtlas, Steps
          <5> QED
            BY <2>1, <3>1, <5>1
               DEF WorkInv, AtlasHasCaller, Others, Account, KeepsLease, StartAtlas, TypeOK
        <4> QED
          BY <4>1, <4>2
      <3>2. CASE AtlasSucceeds(c) \/ AtlasFails(c)
        BY <2>1, <3>2 DEF WorkInv, AtlasHasCaller, Others, Account, AtlasSucceeds, AtlasFails, TypeOK
      <3>3. CASE atlas' = atlas /\ calls[c].pc # "atlas"
        BY <2>1, <3>3 DEF WorkInv, AtlasHasCaller, Others, Account
      <3> QED
        BY <1>7, <3>1, <3>2, <3>3
           DEF Work, Verify, BinaryFails, VerifyFails, LegacyBaseline, LegacyBaselineFails,
               AtlasUnavailable, Moves, Ends
    <2>6. AtlasHasHistory'
      <3> SUFFICES ASSUME NEW a \in Accounts, atlas'[a] # NoCaller
                   PROVE  ~ Unmanaged(db'[a])
        BY DEF AtlasHasHistory
      <3>1. CASE atlas[a] # NoCaller
        BY <1>2, <3>1 DEF WorkInv, AtlasHasHistory
      <3>2. CASE atlas[a] = NoCaller
        <4>1. StartAtlas(c) /\ a = Account(c) /\ atlas' # atlas
          BY <1>7, <3>2
             DEF Work, Verify, BinaryFails, VerifyFails, LegacyBaseline, LegacyBaselineFails,
                 AtlasUnavailable, AtlasSucceeds, AtlasFails, StartAtlas, TypeOK
        <4>2. \/ ~ Unmanaged(db[a])
              \/ db' = [db EXCEPT ![a].revisions = {1}]
          BY <4>1 DEF StartAtlas
        <4>3. db[a] \in Database
          BY DEF TypeOK
        <4>4. [db[a] EXCEPT !.revisions = {1}].revisions = {1}
          BY <4>3 DEF Database
        <4> QED
          BY <1>2, <4>2, <4>4 DEF Unmanaged, TypeOK
      <3> QED
        BY <3>1, <3>2
    <2>7. ReportsLast' /\ RecordsAreReported' /\ SuccessIsLatest' /\ AdoptedIsWhole'
      <3>1. calls'[c].recorded =>
              \/ calls'[c].pc = "atlas"
              \/ calls'[c].outcome \in
                    {"succeeded", "migration_rejected", "migration_outcome_unknown"}
        BY <2>1, <2>2
      <3>2. calls'[c].pc \in {"wait", "verify", "baseline", "apply", "atlas"} =>
              calls'[c].outcome = "none"
        BY <2>1, <2>2
      <3> QED
        BY <1>3, <2>1, <2>3, <2>4, <3>1, <3>2
    <2> QED
      BY <1>2, <2>5, <2>6, <2>7 DEF WorkInv
  <1>8. ASSUME NEW a \in Accounts, ApplyFile(a) PROVE WorkInv'
    <2>1. AtlasHasHistory'
      BY <1>2, <1>8 DEF ApplyFile, WorkInv, AtlasHasHistory
    <2>2. CASE atlas[a] = Orphan
      BY <1>2, <1>8, <2>1, <2>2
         DEF ApplyFile, WorkInv, ReportsLast, RecordsAreReported, SuccessIsLatest,
             AtlasHasCaller, AdoptedIsWhole, Account
    <2>3. CASE atlas[a] # Orphan
      <3>1. PICK c \in Callers : atlas[a] = c /\ calls' = [calls EXCEPT ![c].recorded = TRUE]
        BY <1>8, <2>3 DEF ApplyFile, TypeOK
      <3>2. /\ Others(c) /\ KeepsLease(c) /\ calls'[c].pc = calls[c].pc
            /\ calls'[c].outcome = calls[c].outcome /\ calls'[c].baseline = calls[c].baseline
        BY <1>1, <3>1, RecordEffect
      <3>3. calls[c].pc = "atlas"
        BY <3>1 DEF WorkInv, AtlasHasCaller
      <3>4. calls[c].outcome = "none"
        BY <3>3 DEF WorkInv, ReportsLast
      <3>5. calls'[c].baseline = 1 =>
              calls'[c].account \in Accounts /\ Whole(db'[calls'[c].account])
        BY <1>2, <3>2 DEF WorkInv, AdoptedIsWhole, KeepsLease, Account
      <3>6. ReportsLast' /\ RecordsAreReported' /\ SuccessIsLatest' /\ AdoptedIsWhole'
        BY <1>3, <3>2, <3>3, <3>4, <3>5
      <3>7. AtlasHasCaller'
        BY <1>8, <3>2 DEF ApplyFile, WorkInv, AtlasHasCaller, Others, KeepsLease, Account
      <3> QED
        BY <1>2, <2>1, <3>6, <3>7 DEF WorkInv
    <2> QED
      BY <2>2, <2>3
  <1>9. ASSUME NEW a \in Accounts, OrphanEnds(a) PROVE WorkInv'
    <2>1. AtlasHasCaller' /\ AtlasHasHistory'
      BY <1>9 DEF OrphanEnds, TypeOK, WorkInv, AtlasHasCaller, AtlasHasHistory, Account
    <2>2. calls' = calls /\ db' = db
      BY <1>9 DEF OrphanEnds
    <2> QED
      BY <1>2, <2>1, <2>2 DEF WorkInv, ReportsLast, RecordsAreReported, SuccessIsLatest,
                              AdoptedIsWhole, Account
  <1>10. ASSUME NEW p \in Processes, Crash(p) PROVE WorkInv'
    <2>1. /\ db' = db
          /\ \A c \in Callers : calls'[c] = IF ProcessOf[c] = p THEN NoCall ELSE calls[c]
      BY <1>10 DEF Crash
    <2>2. ReportsLast' /\ RecordsAreReported' /\ SuccessIsLatest' /\ AdoptedIsWhole'
      <3>1. /\ NoCall.pc = "idle" /\ NoCall.outcome = "none"
            /\ NoCall.recorded = FALSE /\ NoCall.baseline = 0
        BY DEF NoCall
      <3>2. ReportsLast' /\ RecordsAreReported'
        BY <2>1, <3>1 DEF WorkInv, ReportsLast, RecordsAreReported
      <3>3. SuccessIsLatest' /\ AdoptedIsWhole'
        BY <2>1, <3>1 DEF WorkInv, SuccessIsLatest, AdoptedIsWhole, Account
      <3> QED
        BY <3>2, <3>3
    <2>3. \A a \in Accounts :
            \/ atlas'[a] = atlas[a] /\ (atlas[a] \in Callers => ProcessOf[atlas[a]] # p)
            \/ atlas[a] \in Callers /\ atlas'[a] \in {Orphan, NoCaller}
      BY <1>10 DEF Crash, TypeOK
    <2>4. AtlasHasCaller' /\ AtlasHasHistory'
      BY <2>1, <2>3 DEF WorkInv, AtlasHasCaller, AtlasHasHistory, Account
    <2> QED
      BY <1>2, <2>2, <2>4 DEF WorkInv
  <1>11. CASE UNCHANGED vars
    <2>1. calls' = calls /\ db' = db /\ atlas' = atlas
      BY <1>11 DEF vars
    <2> QED
      BY <2>1 DEF WorkInv, ReportsLast, RecordsAreReported, SuccessIsLatest,
                  AtlasHasCaller, AtlasHasHistory, HistoryIsWhole, AdoptedIsWhole, Account
  <1> QED
    BY <1>4, <1>5, <1>6, <1>7, <1>8, <1>9, <1>10, <1>11 DEF Next, Work

-----------------------------------------------------------------------------
(* Theorems about databases and reports *)

LEMMA MigrationsAreSound == Spec => [](TypeOK /\ LeaseInv /\ WorkInv)
  <1>1. Init => TypeOK /\ LeaseInv /\ WorkInv
    BY InitTyped, InitLeases, InitWork
  <1>2. TypeOK /\ LeaseInv /\ WorkInv /\ [Next]_vars => (TypeOK /\ LeaseInv /\ WorkInv)'
    BY TypeStep, LeaseStep, WorkStep
  <1> QED
    BY <1>1, <1>2, PTL DEF Spec

\* No crash, failure or concurrent call leaves a gap in the revisions of a
\* database, or revisions of one that lacks a part of the baseline.
THEOREM RevisionsTellTheHistory == Spec => []RevisionsAreHistory
  <1>1. WorkInv => RevisionsAreHistory
    BY DEF WorkInv, HistoryIsWhole, Whole, HasPast, RevisionsAreHistory
  <1> QED
    BY <1>1, MigrationsAreSound, PTL

\* What a call reports is so: success means the latest version, a failure of
\* the configuration or the binary that nothing was recorded.
THEOREM OutcomesTellTheTruth == Spec => []OutcomesAreHonest
  <1>1. WorkInv => OutcomesAreHonest
    BY DEF WorkInv, ReportsLast, RecordsAreReported, SuccessIsLatest, AtlasHasCaller,
           OutcomesAreHonest
  <1> QED
    BY <1>1, MigrationsAreSound, PTL

\* A database of another origin is never written to.
THEOREM ForeignDatabasesStay == Spec => ForeignIsUntouched
  <1>1. TypeOK /\ LeaseInv /\ WorkInv /\ [Next]_vars
          => [\A a \in Accounts : db[a].tables = "other" => db'[a] = db[a]]_vars
    BY DatabasesGrow DEF Grows
  <1> QED
    BY <1>1, MigrationsAreSound, PTL DEF Spec, ForeignIsUntouched

=============================================================================
