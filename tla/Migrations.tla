----------------------------- MODULE Migrations -----------------------------
(***************************************************************************)
(* The schema of the decoder's database: the boot of the service           *)
(* (db/database_setup.js, db/table_drift.js), the migration runner         *)
(* (db/migrations.js, db/migration_guards/applied_ledger.js,               *)
(* db/migration_preconditions.js, db/migration_query_timeout.js) and the   *)
(* operator's CLI (db/migrate.js), over the committed migration files.     *)
(*                                                                         *)
(* Two processes share the database: the service, which a restart policy   *)
(* starts again whenever its boot fails, and the CLI. Only the runner and  *)
(* the seeding of an empty database hold the advisory lock; the            *)
(* verification of the tables does not.                                    *)
(***************************************************************************)
EXTENDS Naturals, Sequences, FiniteSets

CONSTANTS
    Files,      \* the committed migration files, in lexical (apply) order
    Origins,    \* the databases the service may find: see Origin
    Scopes,     \* what the operator asks for: {} for a blanket run, else --file targets
    Strict,     \* MIGRATION_STRICT_CHECKSUM
    MaxRuns,    \* bound: operator runs
    MaxFaults   \* bound: crashes, failed statements and failed restores

Known == {"widen-ids", "expiration", "events-data", "raw-strings",
          "pubkeys-widen", "utf8mb4", "first-seen", "first-seen-datetime"}

\* A directory holds no two files of one name.
ASSUME FilesAssumption ==
    /\ Files \in Seq(Known)
    /\ \A i, j \in DOMAIN Files : Files[i] = Files[j] => i = j
ASSUME OriginsAssumption == Origins \subseteq {"empty", "legacy", "unrecorded", "retagged", "renamed"}
ASSUME ScopesAssumption == \A only \in Scopes : only \subseteq Known
ASSUME BoundsAssumption == Strict \in BOOLEAN /\ MaxRuns \in Nat /\ MaxFaults \in Nat

\* A migration that ran under a name no file has any more: the content of Renamed.
Orphan == "renamed-away"
Renamed == "events-data"

Names == Known \cup {Orphan}
Mode == [f \in Known |-> IF f \in {"events-data", "first-seen"} THEN "auto" ELSE "manual"]

\* The statements of each file, and the table each of them is about.
Statements ==
    [f \in Known |->
        CASE f = "widen-ids"     -> <<"dropFk", "widenLookups", "widenTxs", "widenRest", "addFk">>
          [] f = "expiration"    -> <<"addHolding", "copyExpiration", "dropExpiration", "renameHolding">>
          [] f = "events-data"   -> <<"widenEvents">>
          [] f = "raw-strings"   -> <<"dropMempool", "createMempool", "indexMempool">>
          [] f = "pubkeys-widen" -> <<"widenPubkey">>
          [] f = "utf8mb4"       -> <<"convertTxs", "convertMempool">>
          [] f = "first-seen"    -> <<"addFirstSeen">>
          [] f = "first-seen-datetime" -> <<"retypeFirstSeen">>]

\* The tables of src/sql, in the order verifyTables reads them.
Tables == <<"dispensers", "events", "mempool", "pubkeys", "transactions">>
TableSet == {Tables[i] : i \in DOMAIN Tables}

TableOf(s) ==
    CASE s \in {"addHolding", "copyExpiration", "dropExpiration", "renameHolding", "widenRest"} -> "dispensers"
      [] s = "widenEvents" -> "events"
      [] s \in {"dropFk", "widenLookups", "addFk", "widenPubkey"} -> "pubkeys"
      [] s \in {"widenTxs", "convertTxs"} -> "transactions"
      [] OTHER -> "mempool"

(***************************************************************************)
(* The live schema, as far as some migration, assertion or precondition    *)
(* reads it. "converted" is a BIGINT UNSIGNED column that holds the        *)
(* expiration of every dispenser there is, "nulls" one that holds none of  *)
(* them; rows says that a service has been up on the table.                *)
(***************************************************************************)
Schema == [tables : SUBSET TableSet, rows : BOOLEAN, ids : 0 .. 3, fk : BOOLEAN,
           exp : {"absent", "datetime", "converted", "nulls"},
           hold : {"absent", "converted", "nulls"},
           events : {"text", "mediumtext"}, pubkey : {66, 130},
           shape : {"ids", "both", "raw"}, index : BOOLEAN,
           txData : {"utf8mb3", "utf8mb4"}, memData : {"utf8mb3", "utf8mb4"},
           firstSeen : {"absent", "timestamp", "datetime"}]

Current == [tables |-> TableSet, rows |-> TRUE, ids |-> 3, fk |-> TRUE, exp |-> "converted", hold |-> "absent",
            events |-> "mediumtext", pubkey |-> 130, shape |-> "raw", index |-> TRUE,
            txData |-> "utf8mb4", memData |-> "utf8mb4", firstSeen |-> "datetime"]

FileSet == {Files[i] : i \in DOMAIN Files}

\* A database none of the Files has run on.
Legacy == [tables |-> TableSet, rows |-> TRUE, fk |-> TRUE, exp |-> "datetime", hold |-> "absent",
           ids |-> IF "widen-ids" \in FileSet THEN 0 ELSE 3, events |-> "text",
           pubkey |-> IF "pubkeys-widen" \in FileSet THEN 66 ELSE 130,
           shape |-> "ids", index |-> FALSE,
           txData |-> "utf8mb3", memData |-> "utf8mb3", firstSeen |-> "absent"]

\* Every declared table at the shape of this release: createTable.
CreateTable(d, t) ==
    LET e == [d EXCEPT !.tables = @ \cup {t}]
    IN  IF t = "mempool"
        THEN [e EXCEPT !.shape = "raw", !.index = TRUE, !.memData = "utf8mb4", !.firstSeen = "datetime"]
        ELSE e

\* A new column of the dispensers: it misses the values of the rows that are there.
NewColumn(d) == IF d.rows THEN "nulls" ELSE "converted"

\* alterTableForDrift adds each column src/sql declares and the table lacks; it
\* never retypes one.
AlterTableForDrift(d, t) ==
    CASE t = "dispensers" -> [d EXCEPT !.exp = IF @ = "absent" THEN NewColumn(d) ELSE @]
      [] t = "mempool" -> [d EXCEPT !.shape = IF @ = "ids" THEN "both" ELSE @,
                                    !.firstSeen = IF @ = "absent" THEN "datetime" ELSE @]
      [] OTHER -> d

\* reconcileTableIndexes adds the indexes that are missing, and never fails the boot.
ReconcileTableIndexes(d, t) == IF t = "mempool" THEN [d EXCEPT !.index = TRUE] ELSE d

AtLeast(n, m) == IF n < m THEN m ELSE n

\* A statement the server refuses. "IF [NOT] EXISTS" statements never are.
Refused(d, s) ==
    \/ TableOf(s) \notin d.tables /\ s \notin {"dropMempool", "createMempool"}
    \/ s = "copyExpiration" /\ d.exp = "absent"
    \/ s = "renameHolding" /\ d.hold # "absent" /\ d.exp # "absent"
    \/ s = "createMempool" /\ "mempool" \in d.tables
    \/ s = "indexMempool" /\ d.index
    \/ s = "retypeFirstSeen" /\ d.firstSeen = "absent"

\* UNIX_TIMESTAMP() over raw epoch seconds is NULL.
Exec(d, s) ==
    CASE s = "dropFk" -> [d EXCEPT !.fk = FALSE]
      [] s = "widenLookups" -> [d EXCEPT !.ids = AtLeast(@, 1)]
      [] s = "widenTxs" -> [d EXCEPT !.ids = AtLeast(@, 2)]
      [] s = "widenRest" -> [d EXCEPT !.ids = AtLeast(@, 3)]
      [] s = "addFk" -> [d EXCEPT !.fk = TRUE]
      [] s = "addHolding" -> [d EXCEPT !.hold = IF @ = "absent" THEN NewColumn(d) ELSE @]
      [] s = "copyExpiration" ->
            [d EXCEPT !.hold = CASE d.exp = "datetime" -> "converted"
                                 [] d.exp = "converted" -> NewColumn(d)
                                 [] OTHER -> @]
      [] s = "dropExpiration" -> [d EXCEPT !.exp = "absent"]
      [] s = "renameHolding" ->
            IF d.hold = "absent" THEN d ELSE [d EXCEPT !.exp = d.hold, !.hold = "absent"]
      [] s = "widenEvents" -> [d EXCEPT !.events = "mediumtext"]
      [] s = "dropMempool" -> [d EXCEPT !.tables = @ \ {"mempool"}, !.index = FALSE]
      [] s = "createMempool" ->
            [d EXCEPT !.tables = @ \cup {"mempool"}, !.shape = "raw", !.index = FALSE,
                      !.memData = "utf8mb3", !.firstSeen = "absent"]
      [] s = "indexMempool" -> [d EXCEPT !.index = TRUE]
      [] s = "widenPubkey" -> [d EXCEPT !.pubkey = 130]
      [] s = "convertTxs" -> [d EXCEPT !.txData = "utf8mb4"]
      [] s = "convertMempool" -> [d EXCEPT !.memData = "utf8mb4"]
      [] s = "addFirstSeen" -> [d EXCEPT !.firstSeen = IF @ = "absent" THEN "timestamp" ELSE @]
      [] s = "retypeFirstSeen" -> [d EXCEPT !.firstSeen = "datetime"]

BigintExpiration(d) == d.exp \in {"converted", "nulls"}

\* MIGRATION_PRECONDITIONS: the live schema is already where the file leads. A table
\* that is absent is no answer.
IdsAreWide(d) == d.tables = TableSet /\ d.ids = 3 /\ d.fk
ExpirationIsInteger(d) == "dispensers" \in d.tables /\ BigintExpiration(d)
MempoolHoldsStrings(d) == "mempool" \in d.tables /\ d.shape = "raw"
PubkeyIsWide(d) == "pubkeys" \in d.tables /\ d.pubkey = 130
DataIsUtf8mb4(d) ==
    {"mempool", "transactions"} \subseteq d.tables /\ d.txData = "utf8mb4" /\ d.memData = "utf8mb4"
FirstSeenIsDatetime(d) == "mempool" \in d.tables /\ d.firstSeen = "datetime"

\* Mutant: the expiration file has no precondition.
MigrationPreconditionSkipNone(d, f) == f = "widen-ids" /\ IdsAreWide(d)

MigrationPreconditionSkip(d, f) ==
    CASE f = "widen-ids" -> IdsAreWide(d)
      [] f = "expiration" -> ExpirationIsInteger(d)
      [] f = "raw-strings" -> MempoolHoldsStrings(d)
      [] f = "pubkeys-widen" -> PubkeyIsWide(d)
      [] f = "utf8mb4" -> DataIsUtf8mb4(d)
      [] f = "first-seen-datetime" -> FirstSeenIsDatetime(d)
      [] OTHER -> FALSE

\* The assertions that end every run: what is absent is skipped, except that a
\* dispensers table must have its expiration.
AssertDispenserExpirationIsBigintUnsigned(d) == "dispensers" \in d.tables => BigintExpiration(d)
AssertPubkeyColumnIsUncompressedWide(d) == "pubkeys" \in d.tables => d.pubkey = 130
AssertTransactionIdsAreBigint(d) == "transactions" \in d.tables => d.ids >= 2
AssertActionDataIsUtf8mb4(d) ==
    /\ "transactions" \in d.tables => d.txData = "utf8mb4"
    /\ "mempool" \in d.tables => d.memData = "utf8mb4"

StartupAssertions(d) ==
    /\ AssertDispenserExpirationIsBigintUnsigned(d)
    /\ AssertPubkeyColumnIsUncompressedWide(d)
    /\ AssertTransactionIdsAreBigint(d)
    /\ AssertActionDataIsUtf8mb4(d)

-----------------------------------------------------------------------------
VARIABLES
    db,       \* the live schema
    ledger,   \* schema_migrations: the content recorded under each name
    lock,     \* GET_LOCK('xchain_migrate_<db>'): its holder, or "free"
    proc,     \* the two processes
    pool,     \* the sessions each process has given back to its pool
    executed, \* the statements that ever took effect, by file
    finished, \* how often each content has run to its ledger row
    seeded,   \* an empty database was seeded
    runs, faults

vars == <<db, ledger, lock, proc, pool, executed, finished, seeded, runs, faults>>

\* A ledger row is "current" when its checksum is that of the file on disk,
\* "pinned" when MIGRATION_CHECKSUM_REBASELINES maps it there, else "edited".
Checksums == {"absent", "current", "pinned", "edited"}

Processes == {"decoder", "migrate"}
Stages == {"off", "list", "seed", "tables", "lock", "load", "file", "apply", "record",
           "release", "assert", "up", "done", "failed", "skipped"}

Idle == [pc |-> "off", existing |-> {}, table |-> 1, at |-> 1, stmt |-> 1,
         applied |-> [n \in Names |-> "absent"], only |-> {}, raised |-> FALSE,
         dirty |-> FALSE, set |-> FALSE, err |-> FALSE, skip |-> FALSE]

\* The databases a deployment meets, each with its ledger: empty; built by an old
\* release; built by this schema with no ledger; with a file edited, or renamed,
\* after it ran.
NoRows == [n \in Names |-> "absent"]
Origin(o) ==
    CASE o = "empty" -> {<<[Current EXCEPT !.tables = {}, !.rows = FALSE], NoRows>>}
      [] o = "legacy" -> {<<Legacy, NoRows>>}
      [] o = "unrecorded" -> {<<Current, NoRows>>}
      [] o = "retagged" -> {<<[Legacy EXCEPT !.events = "mediumtext"], [NoRows EXCEPT ![Renamed] = c]>>
                                : c \in {"pinned", "edited"}}
      [] o = "renamed" -> {<<[Legacy EXCEPT !.events = "mediumtext"], [NoRows EXCEPT ![Orphan] = "current"]>>}

Ran(l, f) == l[f] # "absent" \/ (f = Renamed /\ l[Orphan] # "absent")

Init ==
    /\ \E o \in Origins : \E start \in Origin(o) : db = start[1] /\ ledger = start[2]
    /\ lock = "free"
    /\ proc = [p \in Processes |-> Idle]
    /\ pool = [p \in Processes |-> {}]
    /\ executed = {}
    /\ finished = [f \in Known |-> IF Ran(ledger, f) THEN 1 ELSE 0]
    /\ seeded = FALSE
    /\ runs = 0 /\ faults = 0

Goto(p, pc) == proc' = [proc EXCEPT ![p].pc = pc]
File(p) == Files[proc[p].at]
\* Mutant: a mismatch stops every boot too.
FailsClosedAlways(p) == p \in Processes

\* The operator's run, and a service told to be strict, fail closed.
FailsClosed(p) == p = "migrate" \/ Strict
NextFile(p) == proc' = [proc EXCEPT ![p].at = @ + 1]
Throw(p) == proc' = [proc EXCEPT ![p].pc = "release", ![p].err = TRUE]
History == <<executed, finished, seeded, runs, faults>>

-----------------------------------------------------------------------------
(* The boot of the service, up to its migrations: verifyTables. *)

\* prepareDatabase. The restart policy starts a service whose boot failed.
Start ==
    /\ proc["decoder"].pc \in {"off", "failed"}
    /\ proc' = [proc EXCEPT !["decoder"] = [Idle EXCEPT !.pc = "list"]]
    /\ UNCHANGED <<db, ledger, lock, pool, History>>

Fault == faults < MaxFaults /\ faults' = faults + 1

\* createDatabase and verifyDatabase give up after fifteen attempts.
Unreachable ==
    /\ proc["decoder"].pc \in {"off", "failed"}
    /\ Fault
    /\ Goto("decoder", "failed")
    /\ UNCHANGED <<db, ledger, lock, pool, executed, finished, seeded, runs>>

\* SHOW TABLES, and isFreshSchema: no declared table exists yet.
ListTables ==
    /\ proc["decoder"].pc = "list"
    /\ proc' = [proc EXCEPT !["decoder"].existing = db.tables,
                            !["decoder"].pc = IF db.tables = {} THEN "seed" ELSE "tables"]
    /\ UNCHANGED <<db, ledger, lock, pool, History>>

\* Mutant: the ledger is seeded without the lock.
RecordFreshSchemaMigrationsUnlocked ==
    /\ proc["decoder"].pc = "seed"
    /\ ledger' = [n \in Names |-> IF n \in FileSet /\ ledger[n] = "absent" THEN "current" ELSE ledger[n]]
    /\ finished' = finished
    /\ seeded' = TRUE
    /\ Goto("decoder", "tables")
    /\ UNCHANGED <<db, lock, pool, executed, runs, faults>>

\* recordFreshSchemaMigrations: every file as applied, in one transaction, under
\* the lock; a row that is already there stays.
RecordFreshSchemaMigrations ==
    /\ proc["decoder"].pc = "seed"
    /\ lock = "free"
    /\ ledger' = [n \in Names |-> IF n \in FileSet /\ ledger[n] = "absent"
                                  THEN "current" ELSE ledger[n]]
    /\ finished' = [f \in Known |-> IF Ran(ledger', f) THEN AtLeast(finished[f], 1) ELSE finished[f]]
    /\ seeded' = TRUE
    /\ Goto("decoder", "tables")
    /\ UNCHANGED <<db, lock, pool, executed, runs, faults>>

\* GET_LOCK timed out: no table exists yet, so a restart seeds again.
SeedRefused ==
    /\ proc["decoder"].pc = "seed"
    /\ lock # "free"
    /\ Goto("decoder", "failed")
    /\ UNCHANGED <<db, ledger, lock, pool, History>>

\* One round of verifyTableFiles. A table the snapshot holds and a migration has
\* dropped meanwhile makes the ALTER fail, and the boot with it.
VerifyTableFile ==
    LET me == proc["decoder"]
        t  == Tables[me.table]
    IN  /\ me.pc = "tables"
        /\ me.table <= Len(Tables)
        /\ \/ /\ t \notin me.existing
              /\ db' = CreateTable(db, t)
              /\ proc' = [proc EXCEPT !["decoder"].table = @ + 1]
           \/ /\ t \in me.existing /\ t \in db.tables
              /\ db' = ReconcileTableIndexes(AlterTableForDrift(db, t), t)
              /\ proc' = [proc EXCEPT !["decoder"].table = @ + 1]
           \/ /\ t \in me.existing /\ t \notin db.tables
              /\ UNCHANGED db
              /\ proc' = [proc EXCEPT !["decoder"] = [Idle EXCEPT !.pc = "failed"]]
        /\ UNCHANGED <<ledger, lock, pool, History>>

TablesVerified ==
    /\ proc["decoder"].pc = "tables"
    /\ proc["decoder"].table > Len(Tables)
    /\ proc' = [proc EXCEPT !["decoder"] = [Idle EXCEPT !.pc = "lock"]]
    /\ UNCHANGED <<db, ledger, lock, pool, History>>

-----------------------------------------------------------------------------
(* runMigrations, by either process. *)

\* node src/db/migrate.js [--file ...]. An unknown target is refused before any of this.
Migrate ==
    /\ proc["migrate"].pc \in {"off", "done", "failed", "skipped"}
    /\ runs < MaxRuns
    /\ \E only \in Scopes :
          proc' = [proc EXCEPT !["migrate"] = [Idle EXCEPT !.pc = "lock", !.only = only]]
    /\ pool' = [pool EXCEPT !["migrate"] = {}]
    /\ runs' = runs + 1
    /\ UNCHANGED <<db, ledger, lock, executed, finished, seeded, faults>>

GetLock(p) ==
    /\ proc[p].pc = "lock"
    /\ lock = "free"
    /\ lock' = p
    /\ Goto(p, "load")
    /\ UNCHANGED <<db, ledger, pool, History>>

\* The lock is not granted within 30 s: nothing is examined, the connection goes
\* back to the pool, and the assertions run all the same.
LockSkipped(p) ==
    /\ proc[p].pc = "lock"
    /\ lock \notin {"free", p}
    /\ pool' = [pool EXCEPT ![p] = @ \cup {"clean"}]
    /\ proc' = [proc EXCEPT ![p].pc = "assert", ![p].skip = TRUE]
    /\ UNCHANGED <<db, ledger, lock, History>>

\* A full run raises the statement limit here, a scoped one with its first file.
LoadAppliedLedger(p) ==
    /\ proc[p].pc = "load"
    /\ proc' = [proc EXCEPT ![p].pc = "file", ![p].applied = ledger, ![p].raised = (proc[p].only = {})]
    /\ UNCHANGED <<db, ledger, lock, pool, History>>

InScope(p) == proc[p].only = {} \/ File(p) \in proc[p].only
Examining(p) == proc[p].pc = "file" /\ proc[p].at <= Len(Files)

\* A file another run is about is reported as pending and left alone.
SkipUntargeted(p) ==
    /\ Examining(p)
    /\ ~ InScope(p)
    /\ NextFile(p)
    /\ UNCHANGED <<db, ledger, lock, pool, History>>

\* reconcileAppliedMigration: a checksum that matches, a pinned one healed in
\* place, and an edited file, which only the service without strict mode overlooks.
ReconcileAppliedMigration(p) ==
    LET f == File(p)
        recorded == proc[p].applied[f]
    IN  /\ Examining(p) /\ InScope(p)
        /\ recorded # "absent"
        /\ ledger' = IF recorded = "pinned" THEN [ledger EXCEPT ![f] = "current"] ELSE ledger
        /\ IF recorded = "edited" /\ FailsClosed(p) THEN Throw(p) ELSE NextFile(p)
        /\ UNCHANGED <<db, lock, pool, History>>

Pending(p) == Examining(p) /\ InScope(p) /\ proc[p].applied[File(p)] = "absent"

\* Mutant: the checksum of a row without a file is not looked up.
RanUnderAnotherNameNever(p) == File(p) = Orphan

\* guardUnregisteredRename: the file's content is that of a row without a file.
RanUnderAnotherName(p) == File(p) = Renamed /\ proc[p].applied[Orphan] = "current"

GuardUnregisteredRename(p) ==
    /\ Pending(p)
    /\ RanUnderAnotherName(p)
    /\ IF FailsClosed(p) THEN Throw(p) ELSE NextFile(p)
    /\ UNCHANGED <<db, ledger, lock, pool, History>>

\* The precondition holds: the file is recorded, and no statement of it runs.
Baseline(p) ==
    /\ Pending(p)
    /\ ~ RanUnderAnotherName(p)
    /\ MigrationPreconditionSkip(db, File(p))
    /\ ledger' = [ledger EXCEPT ![File(p)] = "current"]
    /\ NextFile(p)
    /\ UNCHANGED <<db, lock, pool, History>>

Applicable(p) ==
    /\ Pending(p)
    /\ ~ RanUnderAnotherName(p)
    /\ ~ MigrationPreconditionSkip(db, File(p))

\* A manual file waits for the operator.
LeaveGated(p) ==
    /\ Applicable(p)
    /\ Mode[File(p)] = "manual" /\ p = "decoder"
    /\ NextFile(p)
    /\ UNCHANGED <<db, ledger, lock, pool, History>>

\* guardMigrationFrontier: an auto file dated before one the ledger held at the
\* start of this run.
Backdated(p) ==
    /\ Mode[File(p)] = "auto"
    /\ \E i \in DOMAIN Files : i > proc[p].at /\ proc[p].applied[Files[i]] # "absent"

\* The connection counts as dirty before its first statement.
BeginFile(p) ==
    /\ Applicable(p)
    /\ Mode[File(p)] = "auto" \/ p = "migrate"
    /\ IF Backdated(p) /\ FailsClosed(p)
       THEN Throw(p)
       ELSE proc' = [proc EXCEPT ![p].pc = "apply", ![p].stmt = 1, ![p].raised = TRUE, ![p].dirty = TRUE]
    /\ UNCHANGED <<db, ledger, lock, pool, History>>

\* Each DDL statement commits by itself, and may set a session variable.
ApplyStatement(p) ==
    LET s == Statements[File(p)][proc[p].stmt]
    IN  /\ proc[p].pc = "apply"
        /\ IF Refused(db, s)
           THEN /\ proc' = [proc EXCEPT ![p].pc = "release", ![p].err = TRUE, ![p].set = TRUE]
                /\ UNCHANGED <<db, executed>>
           ELSE /\ db' = Exec(db, s)
                /\ executed' = executed \cup {File(p)}
                /\ proc' = [proc EXCEPT ![p].stmt = @ + 1, ![p].set = TRUE,
                               ![p].pc = IF proc[p].stmt = Len(Statements[File(p)]) THEN "record" ELSE @]
        /\ UNCHANGED <<ledger, lock, pool, finished, seeded, runs, faults>>

\* The ledger row, after the last statement.
RecordMigration(p) ==
    /\ proc[p].pc = "record"
    /\ ledger' = [ledger EXCEPT ![File(p)] = "current"]
    /\ finished' = [finished EXCEPT ![File(p)] = @ + 1]
    /\ proc' = [proc EXCEPT ![p].pc = "file", ![p].at = @ + 1]
    /\ UNCHANGED <<db, lock, pool, executed, seeded, runs, faults>>

FilesDone(p) ==
    /\ proc[p].pc = "file" /\ proc[p].at > Len(Files)
    /\ Goto(p, "release")
    /\ UNCHANGED <<db, ledger, lock, pool, History>>

\* session.release and retireMigrationConnection: the limit is restored when it was
\* raised, the lock released, and a connection that ran statements is closed.
Release(p) ==
    /\ proc[p].pc = "release"
    /\ lock' = "free"
    /\ pool' = IF proc[p].dirty THEN pool
               ELSE [pool EXCEPT ![p] = @ \cup {IF proc[p].set THEN "dirty" ELSE "clean"}]
    /\ proc' = [proc EXCEPT ![p] = [Idle EXCEPT !.pc = IF proc[p].err THEN "failed" ELSE "assert"]]
    /\ UNCHANGED <<db, ledger, History>>

\* The restore fails: the connection is destroyed, never pooled.
ReleaseUnrestored(p) ==
    /\ proc[p].pc = "release"
    /\ proc[p].raised
    /\ Fault
    /\ lock' = "free"
    /\ proc' = [proc EXCEPT ![p] = [Idle EXCEPT !.pc = IF proc[p].err THEN "failed" ELSE "assert"]]
    /\ UNCHANGED <<db, ledger, pool, executed, finished, seeded, runs>>

\* A statement or a ledger write fails on a live server (a lock wait, a timeout).
StatementFails(p) ==
    /\ proc[p].pc \in {"load", "apply", "record"}
    /\ Fault
    /\ proc' = [proc EXCEPT ![p].pc = "release", ![p].err = TRUE,
                            ![p].raised = @ \/ (proc[p].pc = "load" /\ proc[p].only = {})]
    /\ UNCHANGED <<db, ledger, lock, pool, executed, finished, seeded, runs>>

\* The assertions that end the run. A service that comes up registers dispensers.
AssertSchema(p) ==
    /\ proc[p].pc = "assert"
    /\ proc' = [proc EXCEPT ![p] = [Idle EXCEPT !.pc =
                   CASE ~ StartupAssertions(db) -> "failed"
                     [] p = "decoder" -> "up"
                     [] OTHER -> IF proc[p].skip THEN "skipped" ELSE "done"]]
    /\ db' = [db EXCEPT !.rows = @ \/ (p = "decoder" /\ StartupAssertions(db))]
    /\ UNCHANGED <<ledger, lock, pool, History>>

\* The process dies; the server drops its session and, with it, the lock.
Crash(p) ==
    /\ proc[p].pc \notin {"off", "done", "failed", "skipped"}
    /\ Fault
    /\ lock' = IF lock = p THEN "free" ELSE lock
    /\ proc' = [proc EXCEPT ![p] = Idle]
    /\ pool' = [pool EXCEPT ![p] = {}]
    /\ UNCHANGED <<db, ledger, executed, finished, seeded, runs>>

\* The service is up, and the operator has nothing more to run.
Settled ==
    /\ proc["decoder"].pc = "up" /\ runs = MaxRuns
    /\ proc["migrate"].pc \in {"off", "done", "failed", "skipped"}
    /\ UNCHANGED vars

Run(p) ==
    \/ GetLock(p) \/ LockSkipped(p) \/ LoadAppliedLedger(p)
    \/ SkipUntargeted(p) \/ ReconcileAppliedMigration(p) \/ GuardUnregisteredRename(p)
    \/ Baseline(p) \/ LeaveGated(p) \/ BeginFile(p) \/ ApplyStatement(p)
    \/ RecordMigration(p) \/ FilesDone(p) \/ Release(p) \/ AssertSchema(p)

Boot == Start \/ ListTables \/ RecordFreshSchemaMigrations \/ SeedRefused
            \/ VerifyTableFile \/ TablesVerified \/ Run("decoder")

Next ==
    \/ Boot \/ Migrate \/ Run("migrate") \/ Unreachable \/ Settled
    \/ \E p \in Processes : ReleaseUnrestored(p) \/ StatementFails(p) \/ Crash(p)

\* The restart policy and the event loops of both processes; no operator and no fault is owed.
Spec == Init /\ [][Next]_vars /\ WF_vars(Boot) /\ WF_vars(Run("migrate"))
-----------------------------------------------------------------------------
(* Correctness. *)

TypeOK ==
    /\ db \in Schema
    /\ ledger \in [Names -> Checksums]
    /\ lock \in Processes \cup {"free"}
    /\ proc \in [Processes -> [pc : Stages, existing : SUBSET TableSet, table : 1 .. Len(Tables) + 1,
                               at : 1 .. Len(Files) + 1, stmt : 1 .. 6, applied : [Names -> Checksums],
                               only : SUBSET Known, raised : BOOLEAN, dirty : BOOLEAN,
                               set : BOOLEAN, err : BOOLEAN, skip : BOOLEAN]]
    /\ pool \in [Processes -> SUBSET {"clean", "raised", "dirty"}]
    /\ executed \subseteq Known
    /\ finished \in [Known -> Nat]
    /\ seeded \in BOOLEAN
    /\ runs \in 0 .. MaxRuns /\ faults \in 0 .. MaxFaults

\* No content ever runs to its ledger row twice, whichever process ran it, under
\* whatever name, and whatever crashed in between (runMigrationsInner's lock and
\* ledger, guardUnregisteredRename).
OncePerContent == \A f \in Known : finished[f] <= 1

\* A ledger row tells the truth: the column the file leads to is there. The row is
\* written after the last statement, or over a live schema that needs none.
LedgerIsTrue ==
    /\ ledger["widen-ids"] = "current" => db.ids = 3 /\ db.fk
    /\ ledger["expiration"] = "current" => BigintExpiration(db)
    /\ ledger["events-data"] = "current" => db.events = "mediumtext"
    /\ ledger["pubkeys-widen"] = "current" => db.pubkey = 130
    /\ ledger["utf8mb4"] = "current" => db.txData = "utf8mb4"
    /\ ledger["raw-strings"] = "current" /\ "mempool" \in db.tables => db.shape = "raw"

\* The expirations of the open dispensers are somewhere in the table, through every
\* crash inside the four statements that move them and every later run: the
\* precondition keeps a converted column from being converted again. (Four operator
\* runs that overlap the first boot of an empty database can still defeat it: the
\* precondition is read once, before the first statement.)
ExpirationsRecoverable == db.exp \in {"datetime", "converted"} \/ db.hold = "converted"

\* No connection returns to a pool with the raised statement limit or with session
\* variables a file may have set, on any path out of a run.
PoolIsClean == \A p \in Processes : pool[p] \subseteq {"clean"}

\* Once an empty database is seeded, no statement of a migration ever runs on it,
\* even when an operator's run overlaps the first boot.
SeededIsNotReplayed == [][seeded => executed' = executed]_vars

\* An operator's run that reports done leaves a database on which the service's
\* restarts reach the end of the boot, unless another run changes it again.
BootsAfterDone == (proc["migrate"].pc = "done") ~> (proc["decoder"].pc = "up" \/ proc["migrate"].pc # "done")

\* What the comments of the precondition and of the assertion claim: a table left
\* without its expiration column is neither baselined nor served.
GapIsNotServed == proc["decoder"].pc = "up" => db.exp # "nulls"

\* A run is safe to interrupt, repeat and overlap: no content runs to its row twice, the
\* ledger tells the truth and the pool gets back no changed connection (runMigrations).
RunsAreSafe == TypeOK /\ OncePerContent /\ LedgerIsTrue /\ PoolIsClean
=============================================================================
