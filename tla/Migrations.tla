----------------------------- MODULE Migrations -----------------------------
(***************************************************************************)
(* The migration runner: calls of Runner.Apply and Runner.ApplyExisting in *)
(* one or more server processes, the lease of a process per account, the   *)
(* adoption of a database that predates Atlas, and the Atlas process that  *)
(* migrates the database under its own lock.                               *)
(*                                                                         *)
(* A step is what is done under the mutex of accountLocks, one transaction *)
(* on the database, or one file that Atlas applies.  What Atlas does is    *)
(* external: it records a file in the transaction that executes it, takes  *)
(* the baseline version only for a database without revisions, and refuses *)
(* one that has tables, no revisions and no baseline version.              *)
(***************************************************************************)
EXTENDS Integers, FiniteSets

CONSTANTS
    Processes,
    Callers,          \* calls of the runner that may be active at a time
    ProcessOf,        \* ProcessOf[c]: the process that makes the call c
    Accounts,
    Leases,           \* accountLease objects
    NoLease, NoCaller, NoAccount,
    Orphan,           \* an Atlas process whose server is gone
    Historical,       \* additions that the oldest releases lack
    Latest,           \* latestMigrationVersion
    MaxCrashes        \* bound: crashes explored

ASSUME MigrationsAssumption ==
    /\ ProcessOf \in [Callers -> Processes]
    /\ IsFiniteSet(Callers)
    /\ NoLease \notin Leases
    /\ NoCaller \notin Callers /\ Orphan \notin Callers /\ NoCaller # Orphan
    /\ NoAccount \notin Accounts
    /\ Latest \in Nat \ {0}
    /\ MaxCrashes \in Nat

VARIABLES
    locks,       \* locks[p][a]: accountLocks.locks of the process p
    leases,      \* leases[l]: refs, and the call whose token is in the channel
    calls,       \* calls[c]: the last call made by c
    db,          \* db[a]: the database of a
    atlas,       \* atlas[a]: who runs Atlas on it
    crashes

vars == <<locks, leases, calls, db, atlas, crashes>>

-----------------------------------------------------------------------------
(* State *)

Versions == 1..Latest

\* tables is "baseline" for those of 00001_baseline.sql, without what missing
\* names, and "other" for tables, objects or a goose history of another origin.
Database == [tables : {"empty", "baseline", "other"}, missing : SUBSET Historical,
             revisions : SUBSET Versions]

Outcomes == {"succeeded", "configuration_failure", "binary_failure",
             "migration_rejected", "migration_outcome_unknown"}

\* baseline is 0 for "" and 1 for "00001".  recorded is history: whether the
\* Atlas process of the call recorded a revision.
Call == [pc : {"idle", "wait", "verify", "baseline", "apply", "atlas", "release", "leave"},
         account : Accounts \cup {NoAccount}, adoptLegacy : BOOLEAN,
         lease : Leases \cup {NoLease}, baseline : {0, 1},
         outcome : Outcomes \cup {"none"}, recorded : BOOLEAN]

NoCall == [pc |-> "idle", account |-> NoAccount, adoptLegacy |-> FALSE,
           lease |-> NoLease, baseline |-> 0, outcome |-> "none", recorded |-> FALSE]

FreeLease == [refs |-> 0, token |-> NoCaller]

TypeOK ==
    /\ locks \in [Processes -> [Accounts -> Leases \cup {NoLease}]]
    /\ leases \in [Leases -> [refs : Nat, token : Callers \cup {NoCaller}]]
    /\ calls \in [Callers -> Call]
    /\ db \in [Accounts -> Database]
    /\ atlas \in [Accounts -> Callers \cup {NoCaller, Orphan}]
    /\ crashes \in 0..MaxCrashes

Empty == [tables |-> "empty", missing |-> Historical, revisions |-> {}]

Legacy(missing) == [Empty EXCEPT !.tables = "baseline", !.missing = missing]

Migrated(n) == [tables |-> "baseline", missing |-> {}, revisions |-> 1..n]

Foreign == [Empty EXCEPT !.tables = "other"]

\* A database is new, of a release before Atlas, of a later one, or not ours.
InitialDatabases ==
    {Empty, Foreign} \cup {Legacy(m) : m \in SUBSET Historical}
        \cup {Migrated(n) : n \in Versions}

Init ==
    /\ locks = [p \in Processes |-> [a \in Accounts |-> NoLease]]
    /\ leases = [l \in Leases |-> FreeLease]
    /\ calls = [c \in Callers |-> NoCall]
    /\ db \in [Accounts -> InitialDatabases]
    /\ atlas = [a \in Accounts |-> NoCaller]
    /\ crashes = 0

Account(c) == calls[c].account
Holding == {"verify", "baseline", "apply", "atlas", "release"}

Moves(c, from, to) ==
    /\ calls[c].pc = from
    /\ calls' = [calls EXCEPT ![c].pc = to]

Ends(c, from, outcome) ==
    /\ calls[c].pc = from
    /\ calls' = [calls EXCEPT ![c].pc = "release", ![c].outcome = outcome]

-----------------------------------------------------------------------------
(* The lease of the account: acquire and release *)

\* The target is invalid or the context is done before anything happens.
Refuse(c) ==
    /\ calls[c].pc = "idle"
    /\ calls' = [calls EXCEPT ![c] = [NoCall EXCEPT !.outcome = "configuration_failure"]]
    /\ UNCHANGED <<locks, leases, db, atlas, crashes>>

\* acquire, under the mutex: the lease of the account, or a new one.
Join(c, a, adoptLegacy, l) ==
    LET p == ProcessOf[c]
    IN  /\ calls[c].pc = "idle"
        /\ \/ l = locks[p][a]
           \/ locks[p][a] = NoLease /\ \A d \in Callers : calls[d].lease # l
        /\ locks' = [locks EXCEPT ![p][a] = l]
        /\ leases' = [leases EXCEPT ![l].refs = @ + 1]
        /\ calls' = [calls EXCEPT ![c] = [NoCall EXCEPT !.pc = "wait",
                !.account = a, !.adoptLegacy = adoptLegacy, !.lease = l]]
        /\ UNCHANGED <<db, atlas, crashes>>

\* acquire puts its token into the channel.
Take(c) ==
    /\ Moves(c, "wait", "verify")
    /\ leases[calls[c].lease].token = NoCaller
    /\ leases' = [leases EXCEPT ![calls[c].lease].token = c]
    /\ UNCHANGED <<locks, db, atlas, crashes>>

\* The context is done, or LeaseWait has passed.
GiveUp(c) ==
    /\ calls[c].pc = "wait"
    /\ calls' = [calls EXCEPT ![c].pc = "leave", ![c].outcome = "configuration_failure"]
    /\ UNCHANGED <<locks, leases, db, atlas, crashes>>

\* release takes a token from the lease that the table holds for the account.
Release(c) ==
    LET l == locks[ProcessOf[c]][Account(c)]
    IN  /\ Moves(c, "release", "leave")
        /\ l # NoLease
        /\ leases[l].token # NoCaller
        /\ leases' = [leases EXCEPT ![l].token = NoCaller]
        /\ UNCHANGED <<locks, db, atlas, crashes>>

BugDropped(p, a, l) == locks[p][a] = l

\* The condition under which releaseLease deletes the entry of the account.
Dropped(p, a, l) == leases[l].refs = 1 /\ locks[p][a] = l

\* releaseLease, under the mutex.
Leave(c) ==
    LET p == ProcessOf[c]
        a == Account(c)
        l == calls[c].lease
    IN  /\ calls[c].pc = "leave"
        /\ leases' = [leases EXCEPT ![l].refs = @ - 1]
        /\ locks' = IF Dropped(p, a, l) THEN [locks EXCEPT ![p][a] = NoLease] ELSE locks
        /\ calls' = [calls EXCEPT ![c].pc = "idle", ![c].lease = NoLease]
        /\ UNCHANGED <<db, atlas, crashes>>

-----------------------------------------------------------------------------
(* Before Atlas runs *)

\* The binary, the embedded migrations, the work directory and the version of
\* the binary are as expected.
Verify(c) ==
    /\ Moves(c, "verify", IF calls[c].adoptLegacy THEN "baseline" ELSE "apply")
    /\ UNCHANGED <<locks, leases, db, atlas, crashes>>

\* The executable is missing, or has not the pinned checksum or version.
BinaryFails(c) ==
    /\ Ends(c, "verify", "binary_failure")
    /\ UNCHANGED <<locks, leases, db, atlas, crashes>>

\* The embedded files differ from their checksums, the work directory cannot
\* be written, or the context is done.
VerifyFails(c) ==
    /\ Ends(c, "verify", "configuration_failure")
    /\ UNCHANGED <<locks, leases, db, atlas, crashes>>

BugCompleted(d) == d

\* completeHistoricalBaseline adds what the release of the database lacks.
Completed(d) == [d EXCEPT !.missing = {}]

Unmanaged(d) == d.tables # "empty" /\ d.revisions = {}

\* legacyBaseline: one transaction from the inspection to the commit.
LegacyBaseline(c) ==
    LET d == db[Account(c)]
    IN  /\ calls[c].pc = "baseline"
        /\ \/ /\ ~ Unmanaged(d)
              /\ Moves(c, "baseline", "apply")
              /\ UNCHANGED db
           \/ /\ Unmanaged(d) /\ d.tables = "baseline"
              /\ db' = [db EXCEPT ![Account(c)] = Completed(d)]
              /\ calls' = [calls EXCEPT ![c].pc = "apply", ![c].baseline = 1]
           \/ /\ Unmanaged(d) /\ d.tables = "other"
              /\ Ends(c, "baseline", "migration_rejected")
              /\ UNCHANGED db
        /\ UNCHANGED <<locks, leases, atlas, crashes>>

\* A statement fails or the context is done; the answer to the commit may be
\* all that is lost.
LegacyBaselineFails(c) ==
    LET d == db[Account(c)]
    IN  /\ \E outcome \in {"migration_rejected", "configuration_failure"} :
               Ends(c, "baseline", outcome)
        /\ \/ UNCHANGED db
           \/ /\ Unmanaged(d) /\ d.tables = "baseline"
              /\ db' = [db EXCEPT ![Account(c)] = Completed(d)]
        /\ UNCHANGED <<locks, leases, atlas, crashes>>

-----------------------------------------------------------------------------
(* Atlas, external: atlas migrate apply *)

\* It has the lock of the database: the baseline version is recorded when
\* there are no revisions; tables without a history are refused.
StartAtlas(c) ==
    LET a == Account(c)
        d == db[a]
    IN  /\ calls[c].pc = "apply"
        /\ atlas[a] = NoCaller
        /\ \/ /\ Unmanaged(d) /\ calls[c].baseline = 0
              /\ Ends(c, "apply", "migration_rejected")
              /\ UNCHANGED <<db, atlas>>
           \/ /\ Unmanaged(d) /\ calls[c].baseline = 1
              /\ db' = [db EXCEPT ![a].revisions = {1}]
              /\ calls' = [calls EXCEPT ![c].pc = "atlas", ![c].recorded = TRUE]
              /\ atlas' = [atlas EXCEPT ![a] = c]
           \/ /\ ~ Unmanaged(d)
              /\ Moves(c, "apply", "atlas")
              /\ atlas' = [atlas EXCEPT ![a] = c]
              /\ UNCHANGED db
        /\ UNCHANGED <<locks, leases, crashes>>

\* The outcome of MigrateApply when it returns an error.
BugApplyError(cancelled) ==
    IF cancelled THEN "configuration_failure" ELSE "migration_rejected"
ApplyError(cancelled) ==
    IF cancelled THEN "migration_outcome_unknown" ELSE "migration_rejected"

\* It cannot be started, or does not get the lock in time.
AtlasUnavailable(c) ==
    /\ \E cancelled \in BOOLEAN : Ends(c, "apply", ApplyError(cancelled))
    /\ UNCHANGED <<locks, leases, db, atlas, crashes>>

Pending(d) == Versions \ d.revisions

\* The next file, with its revision.  00001_baseline.sql creates the tables
\* that do not exist, and adds nothing to those that do.
ApplyFile(a) ==
    /\ atlas[a] # NoCaller
    /\ \E v \in Pending(db[a]) :
        /\ \A w \in Pending(db[a]) : v <= w
        /\ db' = [db EXCEPT
               ![a].tables = "baseline",
               ![a].missing = IF v = 1 /\ db[a].tables = "empty" THEN {} ELSE @,
               ![a].revisions = @ \cup {v}]
    /\ calls' = IF atlas[a] = Orphan THEN calls
                ELSE [calls EXCEPT ![atlas[a]].recorded = TRUE]
    /\ UNCHANGED <<locks, leases, atlas, crashes>>

AtlasSucceeds(c) ==
    /\ Ends(c, "atlas", "succeeded")
    /\ Pending(db[Account(c)]) = {}
    /\ atlas' = [atlas EXCEPT ![Account(c)] = NoCaller]
    /\ UNCHANGED <<locks, leases, db, crashes>>

\* A file fails, or the context is done and the process is killed.
AtlasFails(c) ==
    /\ \E cancelled \in BOOLEAN : Ends(c, "atlas", ApplyError(cancelled))
    /\ atlas' = [atlas EXCEPT ![Account(c)] = NoCaller]
    /\ UNCHANGED <<locks, leases, db, crashes>>

OrphanEnds(a) ==
    /\ atlas[a] = Orphan
    /\ atlas' = [atlas EXCEPT ![a] = NoCaller]
    /\ UNCHANGED <<locks, leases, calls, db, crashes>>

-----------------------------------------------------------------------------

\* The process p dies and is started again.  What Atlas runs for it may go on.
Crash(p) ==
    LET mine == {c \in Callers : ProcessOf[c] = p}
    IN  /\ crashes < MaxCrashes
        /\ crashes' = crashes + 1
        /\ locks' = [locks EXCEPT ![p] = [a \in Accounts |-> NoLease]]
        /\ leases' = [l \in Leases |->
               IF \E c \in mine : calls[c].lease = l THEN FreeLease ELSE leases[l]]
        /\ calls' = [c \in Callers |-> IF c \in mine THEN NoCall ELSE calls[c]]
        /\ \E survivor \in {Orphan, NoCaller} :
               atlas' = [a \in Accounts |->
                   IF atlas[a] \in mine THEN survivor ELSE atlas[a]]
        /\ UNCHANGED db

Next ==
    \/ \E c \in Callers, a \in Accounts, adoptLegacy \in BOOLEAN, l \in Leases :
           Join(c, a, adoptLegacy, l)
    \/ \E c \in Callers :
        \/ Refuse(c) \/ Take(c) \/ GiveUp(c) \/ Release(c) \/ Leave(c)
        \/ Verify(c) \/ BinaryFails(c) \/ VerifyFails(c)
        \/ LegacyBaseline(c) \/ LegacyBaselineFails(c)
        \/ StartAtlas(c) \/ AtlasUnavailable(c) \/ AtlasSucceeds(c) \/ AtlasFails(c)
    \/ \E a \in Accounts : ApplyFile(a) \/ OrphanEnds(a)
    \/ \E p \in Processes : Crash(p)

Spec == Init /\ [][Next]_vars

-----------------------------------------------------------------------------
(* Properties *)

\* Two calls of a process never work on one account at a time, whichever
\* Runner they were made through and whoever gave up waiting in between.
OneMigrationAtATime ==
    \A c, d \in Callers :
        /\ ProcessOf[c] = ProcessOf[d] /\ Account(c) = Account(d)
        /\ calls[c].pc \in Holding /\ calls[d].pc \in Holding
        => c = d

\* The revisions of a database are its history: they have no gap, and a
\* database that has any also has every table and column of the baseline, the
\* ones its release lacked when it was adopted included.
RevisionsAreHistory ==
    \A a \in Accounts :
        db[a].revisions # {} =>
            /\ db[a].tables = "baseline" /\ db[a].missing = {}
            /\ \A v \in db[a].revisions : 1..v \subseteq db[a].revisions

\* A call that reports success leaves the database at the latest version; one
\* that reports a failure of the configuration or of the binary has recorded
\* nothing; none reports anything while its own Atlas process still runs.
OutcomesAreHonest ==
    \A c \in Callers :
        LET outcome == calls[c].outcome
        IN  /\ outcome = "succeeded" => Pending(db[Account(c)]) = {}
            /\ outcome \in {"configuration_failure", "binary_failure"} => ~ calls[c].recorded
            /\ outcome # "none" => \A a \in Accounts : atlas[a] # c

\* A database of another origin is left as it was found.
ForeignIsUntouched ==
    [][\A a \in Accounts : db[a].tables = "other" => db'[a] = db[a]]_vars

=============================================================================
