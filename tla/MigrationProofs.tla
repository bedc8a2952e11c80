--------------------------- MODULE MigrationProofs ---------------------------
(***************************************************************************)
(* Proofs about Migrations: no content runs to its ledger row twice, the   *)
(* ledger tells the truth about the live schema, the pool gets back no     *)
(* changed connection and a seeded database is never replayed, for every   *)
(* set of files in every order, every scope the operator asks for and any  *)
(* number of runs and faults; and the expirations of an established        *)
(* database are never lost.                                                *)
(*                                                                         *)
(* The argument rests on the advisory lock: a process between its load of  *)
(* the ledger and its release holds it (LockInv), so its copy of the       *)
(* ledger agrees with the ledger about every file it has yet to reach      *)
(* (SnapshotInv). The boot changes the schema beside the runner, without   *)
(* the lock, but only ever towards the current release (SchemaKeeps).      *)
(***************************************************************************)
EXTENDS Migrations, SequenceTheorems, TLAPS

AllStatements == {"dropFk", "widenLookups", "widenTxs", "widenRest", "addFk",
                  "addHolding", "copyExpiration", "dropExpiration", "renameHolding",
                  "widenEvents", "dropMempool", "createMempool", "indexMempool",
                  "widenPubkey", "convertTxs", "convertMempool", "addFirstSeen", "retypeFirstSeen"}

ProcRecord == [pc : Stages, existing : SUBSET TableSet, table : 1 .. Len(Tables) + 1,
               at : 1 .. Len(Files) + 1, stmt : 1 .. 6, applied : [Names -> Checksums],
               only : SUBSET Known, raised : BOOLEAN, dirty : BOOLEAN,
               set : BOOLEAN, err : BOOLEAN, skip : BOOLEAN]

\* The stages between GET_LOCK and RELEASE_LOCK.
Held == {"load", "file", "apply", "record", "release"}

-----------------------------------------------------------------------------
(* The constant operators. *)

\* The five tables.
LEMMA TableNames ==
    /\ Len(Tables) = 5
    /\ TableSet = {"dispensers", "events", "mempool", "pubkeys", "transactions"}
    /\ \A i \in 1 .. 5 : Tables[i] \in TableSet
BY DEF Tables, TableSet

\* The statements of every file.
LEMMA StatementLists ==
    /\ Len(Statements["widen-ids"]) = 5
    /\ Statements["widen-ids"][1] = "dropFk" /\ Statements["widen-ids"][2] = "widenLookups"
    /\ Statements["widen-ids"][3] = "widenTxs" /\ Statements["widen-ids"][4] = "widenRest"
    /\ Statements["widen-ids"][5] = "addFk"
    /\ Len(Statements["expiration"]) = 4
    /\ Statements["expiration"][1] = "addHolding" /\ Statements["expiration"][2] = "copyExpiration"
    /\ Statements["expiration"][3] = "dropExpiration" /\ Statements["expiration"][4] = "renameHolding"
    /\ Len(Statements["events-data"]) = 1 /\ Statements["events-data"][1] = "widenEvents"
    /\ Len(Statements["raw-strings"]) = 3
    /\ Statements["raw-strings"][1] = "dropMempool" /\ Statements["raw-strings"][2] = "createMempool"
    /\ Statements["raw-strings"][3] = "indexMempool"
    /\ Len(Statements["pubkeys-widen"]) = 1 /\ Statements["pubkeys-widen"][1] = "widenPubkey"
    /\ Len(Statements["utf8mb4"]) = 2
    /\ Statements["utf8mb4"][1] = "convertTxs" /\ Statements["utf8mb4"][2] = "convertMempool"
    /\ Len(Statements["first-seen"]) = 1 /\ Statements["first-seen"][1] = "addFirstSeen"
    /\ Len(Statements["first-seen-datetime"]) = 1
    /\ Statements["first-seen-datetime"][1] = "retypeFirstSeen"
BY DEF Statements, Known

Count(f) == Len(Statements[f])

\* A file has between one and five statements, all of them known.
LEMMA StatementBounds ==
    \A f \in Known : /\ Count(f) \in 1 .. 5
                     /\ \A k \in 1 .. Count(f) : Statements[f][k] \in AllStatements
<1> TAKE f \in Known
<1>1. CASE f = "widen-ids"
  BY <1>1, StatementLists DEF AllStatements, Count
<1>2. CASE f = "expiration"
  BY <1>2, StatementLists DEF AllStatements, Count
<1>3. CASE f \in {"events-data", "pubkeys-widen", "first-seen", "first-seen-datetime"}
  BY <1>3, StatementLists DEF AllStatements, Count
<1>4. CASE f = "raw-strings"
  BY <1>4, StatementLists DEF AllStatements, Count
<1>5. CASE f = "utf8mb4"
  BY <1>5, StatementLists DEF AllStatements, Count
<1> QED BY <1>1, <1>2, <1>3, <1>4, <1>5 DEF Known

\* The files of the directory are known, and none is there twice.
LEMMA FileFacts ==
    /\ Len(Files) \in Nat
    /\ \A i \in 1 .. Len(Files) : Files[i] \in Known /\ Files[i] \in FileSet /\ Files[i] \in Names
    /\ \A i, j \in 1 .. Len(Files) : Files[i] = Files[j] => i = j
    /\ \A f \in FileSet : f \in Known /\ \E i \in 1 .. Len(Files) : f = Files[i]
BY FilesAssumption DEF FileSet, Names

-----------------------------------------------------------------------------
(* What a step may do to the schema. *)

\* Nothing that has reached the current release leaves it; the two columns a file
\* removes for a while, fk and exp, are apart.
SchemaKeeps(d, e) ==
    /\ d.ids <= e.ids
    /\ d.events = "mediumtext" => e.events = "mediumtext"
    /\ d.pubkey = 130 => e.pubkey = 130
    /\ d.txData = "utf8mb4" => e.txData = "utf8mb4"
    /\ d.shape = "raw" => e.shape = "raw"
    /\ d.rows => e.rows
    /\ d.tables \ {"mempool"} \subseteq e.tables

\* One field of the mempool's part of the schema changed.
LEMMA SchemaUpdates ==
    ASSUME NEW d \in Schema
    PROVE  /\ \A v \in SUBSET TableSet : [d EXCEPT !.tables = v] \in Schema
           /\ \A v \in BOOLEAN : [d EXCEPT !.index = v] \in Schema
           /\ [d EXCEPT !.shape = "raw"] \in Schema
           /\ \A v \in {"utf8mb3", "utf8mb4"} : [d EXCEPT !.memData = v] \in Schema
           /\ \A v \in {"absent", "timestamp", "datetime"} : [d EXCEPT !.firstSeen = v] \in Schema
<1>1. \A v \in SUBSET TableSet : [d EXCEPT !.tables = v] \in Schema
  BY DEF Schema
<1>2. \A v \in BOOLEAN : [d EXCEPT !.index = v] \in Schema
  BY DEF Schema
<1>3. [d EXCEPT !.shape = "raw"] \in Schema
  BY DEF Schema
<1>4. \A v \in {"utf8mb3", "utf8mb4"} : [d EXCEPT !.memData = v] \in Schema
  BY DEF Schema
<1>5. \A v \in {"absent", "timestamp", "datetime"} : [d EXCEPT !.firstSeen = v] \in Schema
  BY DEF Schema
<1> QED BY <1>1, <1>2, <1>3, <1>4, <1>5

\* CREATE TABLE of the mempool, by the file or by the boot.
LEMMA MempoolMade ==
    ASSUME NEW d \in Schema, NEW i \in BOOLEAN, NEW m \in {"utf8mb3", "utf8mb4"},
           NEW f \in {"absent", "timestamp", "datetime"}, NEW T \in SUBSET TableSet
    PROVE  [d EXCEPT !.tables = T, !.shape = "raw", !.index = i, !.memData = m, !.firstSeen = f] \in Schema
<1>1. [[[[[d EXCEPT !.tables = T] EXCEPT !.shape = "raw"] EXCEPT !.index = i]
            EXCEPT !.memData = m] EXCEPT !.firstSeen = f] \in Schema
  BY SchemaUpdates
<1>2. [d EXCEPT !.tables = T, !.shape = "raw", !.index = i, !.memData = m, !.firstSeen = f]
        = [[[[[d EXCEPT !.tables = T] EXCEPT !.shape = "raw"] EXCEPT !.index = i]
                EXCEPT !.memData = m] EXCEPT !.firstSeen = f]
  OBVIOUS
<1> QED BY <1>1, <1>2

\* The holding column is gone.
LEMMA HoldDropped ==
    ASSUME NEW d \in Schema
    PROVE  [d EXCEPT !.hold = "absent"] \in Schema
BY DEF Schema

\* Every statement leaves a schema, and none undoes what another file reached.
LEMMA ExecKeeps ==
    ASSUME NEW d \in Schema, NEW s \in AllStatements, ~ Refused(d, s)
    PROVE  /\ Exec(d, s) \in Schema
           /\ SchemaKeeps(d, Exec(d, s))
           /\ s # "dropFk" => (d.fk => Exec(d, s).fk)
           /\ s # "dropExpiration" => (BigintExpiration(d) => BigintExpiration(Exec(d, s)))
           /\ s # "renameHolding" => (d.hold # "absent" => Exec(d, s).hold # "absent")
           /\ s \notin {"copyExpiration", "dropExpiration", "renameHolding"} =>
                 Exec(d, s).exp = d.exp /\ (d.hold = "converted" => Exec(d, s).hold = "converted")
           /\ Exec(d, s).rows = d.rows
<1>1. CASE s = "dropFk"
  <2>1. Exec(d, s) \in Schema
    BY <1>1 DEF Exec, Schema
  <2>2. SchemaKeeps(d, Exec(d, s))
    BY <1>1 DEF Exec, Schema, SchemaKeeps
  <2> QED BY <1>1, <2>1, <2>2 DEF Exec, Schema, BigintExpiration, Refused
<1>2. CASE s = "widenLookups"
  BY <1>2 DEF Exec, Schema, SchemaKeeps, BigintExpiration, Refused, AtLeast
<1>3. CASE s = "widenTxs"
  BY <1>3 DEF Exec, Schema, SchemaKeeps, BigintExpiration, Refused, AtLeast
<1>4. CASE s = "widenRest"
  BY <1>4 DEF Exec, Schema, SchemaKeeps, BigintExpiration, Refused, AtLeast
<1>5. CASE s = "addFk"
  <2>1. Exec(d, s) \in Schema
    BY <1>5 DEF Exec, Schema
  <2>2. SchemaKeeps(d, Exec(d, s))
    BY <1>5 DEF Exec, Schema, SchemaKeeps
  <2> QED BY <1>5, <2>1, <2>2 DEF Exec, Schema, BigintExpiration, Refused
<1>6. CASE s = "addHolding"
  BY <1>6 DEF Exec, Schema, SchemaKeeps, BigintExpiration, Refused, NewColumn
<1>7. CASE s = "copyExpiration"
  BY <1>7 DEF Exec, Schema, SchemaKeeps, BigintExpiration, Refused, NewColumn
<1>8. CASE s = "dropExpiration"
  BY <1>8 DEF Exec, Schema, SchemaKeeps, BigintExpiration, Refused
<1>9. CASE s = "renameHolding"
  <2>1. Exec(d, s) \in Schema
    <3>1. CASE d.hold = "absent"
      BY <1>9, <3>1 DEF Exec
    <3>2. CASE d.hold # "absent"
      <4>1. d.hold \in {"converted", "nulls"}
        BY <3>2 DEF Schema
      <4>2. PICK h \in {"converted", "nulls"} : h = d.hold
        BY <4>1
      <4>3. [d EXCEPT !.exp = h] \in Schema
        BY DEF Schema
      <4>4. [[d EXCEPT !.exp = h] EXCEPT !.hold = "absent"] \in Schema
        BY <4>3, HoldDropped
      <4>5. Exec(d, s) = [[d EXCEPT !.exp = h] EXCEPT !.hold = "absent"]
        BY <1>9, <3>2, <4>2 DEF Exec
      <4> QED BY <4>4, <4>5
    <3> QED BY <3>1, <3>2
  <2>2. SchemaKeeps(d, Exec(d, s))
    BY <1>9 DEF Exec, Schema, SchemaKeeps
  <2> QED BY <1>9, <2>1, <2>2 DEF Exec, Schema, BigintExpiration, Refused
<1>10. CASE s = "widenEvents"
  BY <1>10 DEF Exec, Schema, SchemaKeeps, BigintExpiration, Refused, AtLeast
<1>11. CASE s = "dropMempool"
  <2>1. Exec(d, s) \in Schema
    <3>1. d.tables \ {"mempool"} \in SUBSET TableSet
      BY DEF Schema
    <3>2. [[d EXCEPT !.tables = d.tables \ {"mempool"}] EXCEPT !.index = FALSE] \in Schema
      BY <3>1, SchemaUpdates
    <3>3. Exec(d, s) = [[d EXCEPT !.tables = d.tables \ {"mempool"}] EXCEPT !.index = FALSE]
      BY <1>11 DEF Exec
    <3> QED BY <3>2, <3>3
  <2>3. /\ Exec(d, s).tables = d.tables \ {"mempool"} /\ Exec(d, s).ids = d.ids
        /\ Exec(d, s).events = d.events /\ Exec(d, s).pubkey = d.pubkey
    BY <1>11 DEF Exec, Schema
  <2>4. Exec(d, s).txData = d.txData /\ Exec(d, s).shape = d.shape /\ Exec(d, s).rows = d.rows
    BY <1>11 DEF Exec, Schema
  <2>5. d.ids \in 0 .. 3
    BY DEF Schema
  <2>2. SchemaKeeps(d, Exec(d, s))
    BY <2>3, <2>4, <2>5 DEF SchemaKeeps
  <2>6. Exec(d, s).hold = d.hold /\ Exec(d, s).exp = d.exp /\ Exec(d, s).fk = d.fk
    BY <1>11 DEF Exec, Schema
  <2> QED BY <1>11, <2>1, <2>2, <2>4, <2>6 DEF BigintExpiration
<1>12. CASE s = "indexMempool"
  <2>1. Exec(d, s) \in Schema
    BY <1>12 DEF Exec, Schema
  <2>2. SchemaKeeps(d, Exec(d, s))
    BY <1>12 DEF Exec, Schema, SchemaKeeps
  <2> QED BY <1>12, <2>1, <2>2 DEF Exec, Schema, BigintExpiration, Refused
<1>13. CASE s = "widenPubkey"
  BY <1>13 DEF Exec, Schema, SchemaKeeps, BigintExpiration, Refused, AtLeast
<1>14. CASE s = "convertTxs"
  BY <1>14 DEF Exec, Schema, SchemaKeeps, BigintExpiration, Refused
<1>15. CASE s = "convertMempool"
  BY <1>15 DEF Exec, Schema, SchemaKeeps, BigintExpiration, Refused
<1>16. CASE s = "addFirstSeen"
  BY <1>16 DEF Exec, Schema, SchemaKeeps, BigintExpiration, Refused
<1>17. CASE s = "retypeFirstSeen"
  BY <1>17 DEF Exec, Schema, SchemaKeeps, BigintExpiration, Refused
<1>18. CASE s = "createMempool"
  <2> DEFINE T == d.tables \cup {"mempool"}
  <2>1. T \in SUBSET TableSet
    BY TableNames DEF Schema
  <2>2. Exec(d, s) = [d EXCEPT !.tables = T, !.shape = "raw", !.index = FALSE,
                              !.memData = "utf8mb3", !.firstSeen = "absent"]
    BY <1>18 DEF Exec
  <2>3. Exec(d, s) \in Schema
    <3> HIDE DEF T
    <3>1. [d EXCEPT !.tables = T, !.shape = "raw", !.index = FALSE,
                    !.memData = "utf8mb3", !.firstSeen = "absent"] \in Schema
      BY <2>1, MempoolMade
    <3> QED BY <2>2, <3>1
  <2>4. Exec(d, s).tables = T /\ Exec(d, s).ids = d.ids /\ Exec(d, s).events = d.events
    BY <1>18 DEF Schema, Exec
  <2>5. /\ Exec(d, s).pubkey = d.pubkey /\ Exec(d, s).txData = d.txData
        /\ Exec(d, s).shape = "raw" /\ Exec(d, s).rows = d.rows
    BY <1>18 DEF Schema, Exec
  <2>6. Exec(d, s).hold = d.hold /\ Exec(d, s).exp = d.exp /\ Exec(d, s).fk = d.fk
    BY <1>18 DEF Schema, Exec
  <2>7. d.ids \in 0 .. 3
    BY DEF Schema
  <2>8. SchemaKeeps(d, Exec(d, s))
    BY <2>4, <2>5, <2>7 DEF SchemaKeeps
  <2> QED BY <1>18, <2>3, <2>5, <2>6, <2>8 DEF BigintExpiration
<1> QED BY <1>1, <1>2, <1>3, <1>4, <1>5, <1>6, <1>7, <1>8, <1>9, <1>10, <1>11, <1>12, <1>13, <1>14, <1>15, <1>16, <1>17, <1>18 DEF AllStatements

\* What each statement that a ledger row vouches for achieves.
LEMMA ExecReaches ==
    ASSUME NEW d \in Schema, NEW s \in AllStatements, ~ Refused(d, s)
    PROVE  /\ s = "widenRest" => Exec(d, s).ids = 3
           /\ s = "addFk" => Exec(d, s).fk
           /\ s = "addHolding" => Exec(d, s).hold # "absent"
           /\ s = "renameHolding" /\ d.hold # "absent" =>
                 d.exp = "absent" /\ Exec(d, s).exp = d.hold /\ BigintExpiration(Exec(d, s))
           /\ s = "widenEvents" => Exec(d, s).events = "mediumtext"
           /\ s = "createMempool" => Exec(d, s).shape = "raw"
           /\ s = "widenPubkey" => Exec(d, s).pubkey = 130
           /\ s = "convertTxs" => Exec(d, s).txData = "utf8mb4"
<1>1. CASE s = "widenRest"
  BY <1>1 DEF Exec, Schema, AtLeast
<1>2. CASE s = "renameHolding"
  BY <1>2 DEF Exec, Schema, Refused, BigintExpiration
<1>3. CASE s = "addHolding"
  BY <1>3 DEF Exec, Schema, NewColumn
<1>4. CASE s \notin {"widenRest", "renameHolding", "addHolding"}
  BY <1>4 DEF Exec, Schema
<1> QED BY <1>1, <1>2, <1>3, <1>4

\* On a database without the tables of the ledger and the chain only the statements
\* of the mempool run, and they add no other table.
LEMMA ExecOnEmpty ==
    ASSUME NEW d \in Schema, NEW s \in AllStatements, ~ Refused(d, s), d.tables \subseteq {"mempool"}
    PROVE  /\ s \notin {"dropFk", "dropExpiration"}
           /\ Exec(d, s).tables \subseteq {"mempool"}
<1>1. TableOf(s) = "mempool"
  BY DEF Refused, TableOf
<1>2. s \in {"dropMempool", "createMempool", "indexMempool", "convertMempool", "addFirstSeen", "retypeFirstSeen"}
  BY <1>1 DEF TableOf, AllStatements
<1> QED BY <1>2, TableNames DEF Exec, Schema

\* The boot's own DDL: a table created, or its missing columns and indexes added.
LEMMA BootKeeps ==
    ASSUME NEW d \in Schema, NEW t \in TableSet,
           NEW e \in {CreateTable(d, t), ReconcileTableIndexes(AlterTableForDrift(d, t), t)}
    PROVE  /\ e \in Schema
           /\ SchemaKeeps(d, e)
           /\ d.fk => e.fk
           /\ BigintExpiration(d) => BigintExpiration(e)
           /\ e.hold = d.hold /\ e.rows = d.rows
           /\ d.exp # "absent" => e.exp = d.exp
           /\ d.exp = "absent" => e.exp \in {"absent", NewColumn(d)}
<1>1. CASE e = CreateTable(d, t)
  <2> DEFINE T == d.tables \cup {t}
  <2>1. T \in SUBSET TableSet /\ d.ids \in 0 .. 3
    BY DEF Schema
  <2>2. e \in Schema
    <3>1. CASE t = "mempool"
      <4>1. e = [d EXCEPT !.tables = T, !.shape = "raw", !.index = TRUE,
                         !.memData = "utf8mb4", !.firstSeen = "datetime"]
        BY <1>1, <3>1 DEF CreateTable
      <4> HIDE DEF T
      <4> QED BY <2>1, <4>1, MempoolMade
    <3>2. CASE t # "mempool"
      <4>1. e = [d EXCEPT !.tables = T]
        BY <1>1, <3>2 DEF CreateTable
      <4> QED BY <2>1, <4>1, SchemaUpdates
    <3> QED BY <3>1, <3>2
  <2>3. e.tables = T /\ e.ids = d.ids /\ e.events = d.events
    BY <1>1 DEF CreateTable, Schema
  <2>4. e.pubkey = d.pubkey /\ e.txData = d.txData /\ (d.shape = "raw" => e.shape = "raw") /\ e.rows = d.rows
    BY <1>1 DEF CreateTable, Schema
  <2>5. e.hold = d.hold /\ e.exp = d.exp /\ e.fk = d.fk
    BY <1>1 DEF CreateTable, Schema
  <2>6. SchemaKeeps(d, e)
    BY <2>1, <2>3, <2>4 DEF SchemaKeeps
  <2> QED BY <2>2, <2>4, <2>5, <2>6 DEF BigintExpiration
<1>2. CASE e = ReconcileTableIndexes(AlterTableForDrift(d, t), t)
  <2>1. CASE t = "dispensers"
    BY <1>2, <2>1 DEF ReconcileTableIndexes, AlterTableForDrift, Schema, SchemaKeeps, BigintExpiration, NewColumn
  <2>2. CASE t = "mempool"
    <3>1. PICK h : h = IF d.shape = "ids" THEN "both" ELSE d.shape
      OBVIOUS
    <3>2. PICK f : f = IF d.firstSeen = "absent" THEN "datetime" ELSE d.firstSeen
      OBVIOUS
    <3>3. [d EXCEPT !.shape = h] \in Schema
      BY <3>1 DEF Schema
    <3>4. [[[d EXCEPT !.shape = h] EXCEPT !.firstSeen = f] EXCEPT !.index = TRUE] \in Schema
      <4>1. f \in {"absent", "timestamp", "datetime"}
        BY <3>2 DEF Schema
      <4> QED BY <3>3, <4>1, SchemaUpdates
    <3>5. e = [[[d EXCEPT !.shape = h] EXCEPT !.firstSeen = f] EXCEPT !.index = TRUE]
      BY <1>2, <2>2, <3>1, <3>2 DEF ReconcileTableIndexes, AlterTableForDrift
    <3>6. e \in Schema
      BY <3>4, <3>5
    <3>7. e.tables = d.tables /\ e.ids = d.ids /\ e.events = d.events /\ e.pubkey = d.pubkey /\ e.txData = d.txData
      BY <3>5 DEF Schema
    <3>8. e.shape = h /\ e.rows = d.rows /\ e.hold = d.hold /\ e.exp = d.exp /\ e.fk = d.fk
      BY <3>5 DEF Schema
    <3>9. d.ids \in 0 .. 3
      BY DEF Schema
    <3>10. SchemaKeeps(d, e)
      BY <3>1, <3>7, <3>8, <3>9 DEF SchemaKeeps
    <3> QED BY <3>6, <3>8, <3>10 DEF BigintExpiration
  <2>3. CASE t \notin {"dispensers", "mempool"}
    BY <1>2, <2>3 DEF ReconcileTableIndexes, AlterTableForDrift, Schema, SchemaKeeps, BigintExpiration, NewColumn
  <2> QED BY <2>1, <2>2, <2>3
<1> QED BY <1>1, <1>2

-----------------------------------------------------------------------------
(* The rows of the two processes. *)

\* A process inside a file is at one of its statements, or past the last of them.
Cursor(r) ==
    /\ r.pc \in {"apply", "record"} => r.at <= Len(Files)
    /\ r.pc = "apply" => r.stmt <= Count(Files[r.at])
    /\ r.pc = "record" => r.stmt = Count(Files[r.at]) + 1

\* The connection counts as dirty before a statement of a file may change its session.
Marked(r) == (r.set => r.dirty) /\ (r.pc \in {"apply", "record"} => r.dirty)

RowInv(r) == Cursor(r) /\ Marked(r)

\* The lock is held from the load of the ledger to the release.
LockInv == \A p \in Processes : proc[p].pc \in Held => lock = p

BaseInv ==
    /\ TypeOK
    /\ PoolIsClean
    /\ LockInv
    /\ \A p \in Processes : RowInv(proc[p])

\* A row keeps its type under the updates of the actions.
LEMMA RowUpdates ==
    ASSUME NEW q \in ProcRecord
    PROVE  /\ \A x \in Stages : [q EXCEPT !.pc = x] \in ProcRecord
           /\ \A x \in SUBSET TableSet : [q EXCEPT !.existing = x] \in ProcRecord
           /\ \A x \in 1 .. Len(Tables) + 1 : [q EXCEPT !.table = x] \in ProcRecord
           /\ \A x \in 1 .. Len(Files) + 1 : [q EXCEPT !.at = x] \in ProcRecord
           /\ \A x \in 1 .. 6 : [q EXCEPT !.stmt = x] \in ProcRecord
           /\ \A x \in [Names -> Checksums] : [q EXCEPT !.applied = x] \in ProcRecord
           /\ \A x \in SUBSET Known : [q EXCEPT !.only = x] \in ProcRecord
           /\ \A x \in BOOLEAN : /\ [q EXCEPT !.raised = x] \in ProcRecord
                                 /\ [q EXCEPT !.dirty = x] \in ProcRecord
                                 /\ [q EXCEPT !.set = x] \in ProcRecord
                                 /\ [q EXCEPT !.err = x] \in ProcRecord
                                 /\ [q EXCEPT !.skip = x] \in ProcRecord
<1>1. \A x \in Stages : [q EXCEPT !.pc = x] \in ProcRecord
  BY DEF ProcRecord
<1>2. \A x \in SUBSET TableSet : [q EXCEPT !.existing = x] \in ProcRecord
  BY DEF ProcRecord
<1>3. \A x \in 1 .. Len(Tables) + 1 : [q EXCEPT !.table = x] \in ProcRecord
  BY DEF ProcRecord
<1>4. \A x \in 1 .. Len(Files) + 1 : [q EXCEPT !.at = x] \in ProcRecord
  BY DEF ProcRecord
<1>5. \A x \in 1 .. 6 : [q EXCEPT !.stmt = x] \in ProcRecord
  BY DEF ProcRecord
<1>6. \A x \in [Names -> Checksums] : [q EXCEPT !.applied = x] \in ProcRecord
  BY DEF ProcRecord
<1>7. \A x \in SUBSET Known : [q EXCEPT !.only = x] \in ProcRecord
  BY DEF ProcRecord
<1>8. \A x \in BOOLEAN : [q EXCEPT !.raised = x] \in ProcRecord
  BY DEF ProcRecord
<1>9. \A x \in BOOLEAN : [q EXCEPT !.dirty = x] \in ProcRecord
  BY DEF ProcRecord
<1>10. \A x \in BOOLEAN : [q EXCEPT !.set = x] \in ProcRecord
  BY DEF ProcRecord
<1>11. \A x \in BOOLEAN : [q EXCEPT !.err = x] \in ProcRecord
  BY DEF ProcRecord
<1>12. \A x \in BOOLEAN : [q EXCEPT !.skip = x] \in ProcRecord
  BY DEF ProcRecord
<1> QED BY <1>1, <1>2, <1>3, <1>4, <1>5, <1>6, <1>7, <1>8, <1>9, <1>10, <1>11, <1>12

\* The row a process starts with.
LEMMA IdleRow ==
    /\ Idle \in ProcRecord /\ Idle.pc = "off" /\ Idle.set = FALSE
    /\ \A x \in Stages : /\ [Idle EXCEPT !.pc = x] \in ProcRecord
                         /\ [Idle EXCEPT !.pc = x].pc = x
                         /\ [Idle EXCEPT !.pc = x].set = FALSE
<1>1. Idle.applied \in [Names -> Checksums]
  BY DEF Idle, Checksums
<1>2. 1 \in 1 .. Len(Files) + 1 /\ 1 \in 1 .. Len(Tables) + 1 /\ 1 \in 1 .. 6
  BY FileFacts, TableNames
<1>3. Idle \in ProcRecord
  BY <1>1, <1>2 DEF Idle, ProcRecord, Stages
<1>4. Idle.pc = "off" /\ Idle.set = FALSE
  BY DEF Idle
<1>5. ASSUME NEW x \in Stages
      PROVE  [Idle EXCEPT !.pc = x].pc = x /\ [Idle EXCEPT !.pc = x].set = FALSE
  BY DEF Idle
<1> QED BY <1>3, <1>4, <1>5, RowUpdates

\* A row whose pc alone changes.
LEMMA RowMoves ==
    ASSUME NEW q \in ProcRecord, NEW x \in Stages
    PROVE  /\ [q EXCEPT !.pc = x] \in ProcRecord /\ [q EXCEPT !.pc = x].pc = x
           /\ [q EXCEPT !.pc = x].set = q.set /\ [q EXCEPT !.pc = x].dirty = q.dirty
BY DEF ProcRecord

\* A run that ends with an error.
LEMMA RowThrows ==
    ASSUME NEW q \in ProcRecord, NEW r,
           r = [q EXCEPT !.pc = "release", !.err = TRUE]
    PROVE  r \in ProcRecord /\ r.pc = "release" /\ r.set = q.set /\ r.dirty = q.dirty
<1>1. r = [[q EXCEPT !.pc = "release"] EXCEPT !.err = TRUE]
  OBVIOUS
<1>2. r \in ProcRecord
  BY <1>1, RowUpdates DEF Stages
<1> QED BY <1>2 DEF ProcRecord

\* A run that ends with a statement refused.
LEMMA RowRefused ==
    ASSUME NEW q \in ProcRecord, NEW r,
           r = [q EXCEPT !.pc = "release", !.err = TRUE, !.set = TRUE]
    PROVE  r \in ProcRecord /\ r.pc = "release" /\ r.set = TRUE /\ r.dirty = q.dirty
<1>1. r = [[[q EXCEPT !.pc = "release"] EXCEPT !.err = TRUE] EXCEPT !.set = TRUE]
  OBVIOUS
<1>2. r \in ProcRecord
  BY <1>1, RowUpdates DEF Stages
<1> QED BY <1>2 DEF ProcRecord

\* A run that ends with a statement failed.
LEMMA RowFails ==
    ASSUME NEW q \in ProcRecord, NEW b \in BOOLEAN, NEW r,
           r = [q EXCEPT !.pc = "release", !.err = TRUE, !.raised = b]
    PROVE  r \in ProcRecord /\ r.pc = "release" /\ r.set = q.set /\ r.dirty = q.dirty
<1>1. r = [[[q EXCEPT !.pc = "release"] EXCEPT !.err = TRUE] EXCEPT !.raised = b]
  OBVIOUS
<1>4. [q EXCEPT !.pc = "release"] \in ProcRecord
  BY RowUpdates DEF Stages
<1>5. [[q EXCEPT !.pc = "release"] EXCEPT !.err = TRUE] \in ProcRecord
  BY <1>4, RowUpdates
<1>2. r \in ProcRecord
  BY <1>1, <1>5, RowUpdates DEF Stages
<1> QED BY <1>2 DEF ProcRecord

\* A run that did not get the lock.
LEMMA RowLockSkipped ==
    ASSUME NEW q \in ProcRecord, NEW r,
           r = [q EXCEPT !.pc = "assert", !.skip = TRUE]
    PROVE  r \in ProcRecord /\ r.pc = "assert" /\ r.set = q.set /\ r.dirty = q.dirty
<1>1. r = [[q EXCEPT !.pc = "assert"] EXCEPT !.skip = TRUE]
  OBVIOUS
<1>2. r \in ProcRecord
  BY <1>1, RowUpdates DEF Stages
<1> QED BY <1>2 DEF ProcRecord

\* The ledger loaded.
LEMMA RowLoads ==
    ASSUME NEW q \in ProcRecord, NEW l \in [Names -> Checksums], NEW b \in BOOLEAN, NEW r,
           r = [q EXCEPT !.pc = "file", !.applied = l, !.raised = b]
    PROVE  r \in ProcRecord /\ r.pc = "file" /\ r.applied = l /\ r.set = q.set /\ r.dirty = q.dirty
<1>1. r = [[[q EXCEPT !.pc = "file"] EXCEPT !.applied = l] EXCEPT !.raised = b]
  OBVIOUS
<1>4. [q EXCEPT !.pc = "file"] \in ProcRecord
  BY RowUpdates DEF Stages
<1>5. [[q EXCEPT !.pc = "file"] EXCEPT !.applied = l] \in ProcRecord
  BY <1>4, RowUpdates
<1>2. r \in ProcRecord
  BY <1>1, <1>5, RowUpdates DEF Stages
<1> QED BY <1>2 DEF ProcRecord

\* A file passed.
LEMMA RowPasses ==
    ASSUME NEW q \in ProcRecord, q.at <= Len(Files), NEW r,
           r = [q EXCEPT !.at = @ + 1]
    PROVE  r \in ProcRecord /\ r.pc = q.pc /\ r.at = q.at + 1 /\ r.applied = q.applied /\ r.set = q.set /\ r.dirty = q.dirty
<1>3. q.at + 1 \in 1 .. Len(Files) + 1
  BY FileFacts DEF ProcRecord
<1>2. r \in ProcRecord
  BY <1>3, RowUpdates
<1> QED BY <1>2 DEF ProcRecord

\* A file recorded.
LEMMA RowRecords ==
    ASSUME NEW q \in ProcRecord, q.at <= Len(Files), NEW r,
           r = [q EXCEPT !.pc = "file", !.at = @ + 1]
    PROVE  r \in ProcRecord /\ r.pc = "file" /\ r.at = q.at + 1 /\ r.applied = q.applied /\ r.set = q.set /\ r.dirty = q.dirty
<1>3. q.at + 1 \in 1 .. Len(Files) + 1
  BY FileFacts DEF ProcRecord
<1>4. [q EXCEPT !.at = q.at + 1] \in ProcRecord
  BY <1>3, RowUpdates
<1>1. r = [[q EXCEPT !.at = q.at + 1] EXCEPT !.pc = "file"]
  OBVIOUS
<1>2. r \in ProcRecord
  BY <1>1, <1>4, RowUpdates DEF Stages
<1> QED BY <1>2 DEF ProcRecord

\* A file begun.
LEMMA RowBegins ==
    ASSUME NEW q \in ProcRecord, NEW r,
           r = [q EXCEPT !.pc = "apply", !.stmt = 1, !.raised = TRUE, !.dirty = TRUE]
    PROVE  r \in ProcRecord /\ r.pc = "apply" /\ r.stmt = 1 /\ r.at = q.at /\ r.applied = q.applied /\ r.dirty = TRUE
<1>3. 1 \in 1 .. 6
  OBVIOUS
<1>1. r = [[[[q EXCEPT !.pc = "apply"] EXCEPT !.stmt = 1] EXCEPT !.raised = TRUE] EXCEPT !.dirty = TRUE]
  OBVIOUS
<1>2. r \in ProcRecord
  BY <1>1, <1>3, RowUpdates DEF Stages
<1> QED BY <1>2 DEF ProcRecord

\* A statement done.
LEMMA RowExecutes ==
    ASSUME NEW q \in ProcRecord, NEW x \in {"apply", "record"}, q.stmt <= 5, NEW r,
           r = [q EXCEPT !.stmt = @ + 1, !.set = TRUE, !.pc = x]
    PROVE  r \in ProcRecord /\ r.pc = x /\ r.stmt = q.stmt + 1 /\ r.at = q.at /\ r.applied = q.applied /\ r.dirty = q.dirty
<1>3. q.stmt + 1 \in 1 .. 6
  BY DEF ProcRecord
<1>1. r = [[[q EXCEPT !.stmt = q.stmt + 1] EXCEPT !.set = TRUE] EXCEPT !.pc = x]
  OBVIOUS
<1>4. [q EXCEPT !.stmt = q.stmt + 1] \in ProcRecord
  BY <1>3, RowUpdates DEF Stages
<1>5. [[q EXCEPT !.stmt = q.stmt + 1] EXCEPT !.set = TRUE] \in ProcRecord
  BY <1>4, RowUpdates
<1>2. r \in ProcRecord
  BY <1>1, <1>5, RowUpdates DEF Stages
<1> QED BY <1>2 DEF ProcRecord

-----------------------------------------------------------------------------
(* What a step does, as far as the invariants see it. *)

Away == Stages \ {"seed", "file", "apply", "record"}
Same == UNCHANGED <<db, ledger, executed, finished, seeded>>

Quiet(p, r) == Same /\ r.pc \in Away
FindsEmpty(p, r) == Same /\ p = "decoder" /\ r.pc = "seed" /\ db.tables = {}
Loads(p, r) == Same /\ r.pc = "file" /\ r.applied = ledger

Passes(p, r) ==
    /\ proc[p].pc = "file" /\ proc[p].at <= Len(Files)
    /\ r.pc = "file" /\ r.at = proc[p].at + 1 /\ r.applied = proc[p].applied
Skips(p, r) == Passes(p, r) /\ Same
Heals(p, r) ==
    /\ Passes(p, r)
    /\ proc[p].applied[File(p)] = "pinned"
    /\ ledger' = [ledger EXCEPT ![File(p)] = "current"]
    /\ UNCHANGED <<db, executed, finished, seeded>>
Baselines(p, r) ==
    /\ Passes(p, r)
    /\ MigrationPreconditionSkip(db, File(p))
    /\ ledger' = [ledger EXCEPT ![File(p)] = "current"]
    /\ UNCHANGED <<db, executed, finished, seeded>>
Begins(p, r) ==
    /\ proc[p].pc = "file" /\ proc[p].at <= Len(Files)
    /\ r.pc = "apply" /\ r.at = proc[p].at /\ r.stmt = 1 /\ r.applied = proc[p].applied
    /\ proc[p].applied[File(p)] = "absent" /\ ~ RanUnderAnotherName(p)
    /\ ~ MigrationPreconditionSkip(db, File(p))
    /\ Same
Executes(p, r) ==
    LET s == Statements[File(p)][proc[p].stmt]
    IN  /\ proc[p].pc = "apply"
        /\ r.pc \in {"apply", "record"} /\ r.at = proc[p].at /\ r.stmt = proc[p].stmt + 1
        /\ r.applied = proc[p].applied
        /\ ~ Refused(db, s) /\ db' = Exec(db, s) /\ executed' = executed \cup {File(p)}
        /\ UNCHANGED <<ledger, finished, seeded>>
Records(p, r) ==
    /\ proc[p].pc = "record"
    /\ r.pc = "file" /\ r.at = proc[p].at + 1 /\ r.applied = proc[p].applied
    /\ ledger' = [ledger EXCEPT ![File(p)] = "current"]
    /\ finished' = [finished EXCEPT ![File(p)] = @ + 1]
    /\ UNCHANGED <<db, executed, seeded>>
Seeds(p, r) ==
    /\ p = "decoder" /\ proc[p].pc = "seed" /\ r.pc = "tables" /\ lock = "free"
    /\ ledger' = [n \in Names |-> IF n \in FileSet /\ ledger[n] = "absent" THEN "current" ELSE ledger[n]]
    /\ finished' = [f \in Known |-> IF Ran(ledger', f) THEN AtLeast(finished[f], 1) ELSE finished[f]]
    /\ seeded' = TRUE
    /\ UNCHANGED <<db, executed>>
Verifies(p, r) ==
    /\ p = "decoder" /\ r.pc = "tables"
    /\ \E t \in TableSet : db' \in {CreateTable(db, t), ReconcileTableIndexes(AlterTableForDrift(db, t), t)}
    /\ UNCHANGED <<ledger, executed, finished, seeded>>
Opens(p, r) ==
    /\ r.pc \in Away
    /\ \E b \in BOOLEAN : (db.rows => b) /\ db' = [db EXCEPT !.rows = b]
    /\ UNCHANGED <<ledger, executed, finished, seeded>>

Effect(p, r) ==
    \/ Quiet(p, r) \/ FindsEmpty(p, r) \/ Loads(p, r) \/ Skips(p, r) \/ Heals(p, r) \/ Baselines(p, r)
    \/ Begins(p, r) \/ Executes(p, r) \/ Records(p, r) \/ Seeds(p, r) \/ Verifies(p, r) \/ Opens(p, r)

\* One process moves; it takes or drops the lock only where it may.
Moves(p, r) ==
    /\ proc' = [proc EXCEPT ![p] = r]
    /\ RowInv(r)
    /\ lock' \in Processes \cup {"free"}
    /\ r.pc \in Held => lock' = p
    /\ lock' = lock \/ lock \in {"free", p}
    /\ pool' \in [Processes -> SUBSET {"clean"}]
    /\ runs' \in 0 .. MaxRuns /\ faults' \in 0 .. MaxFaults

\* Rows, lock and pool as BaseInv has them.
LEMMA BaseFacts ==
    ASSUME BaseInv, NEW p \in Processes
    PROVE  /\ proc[p] \in ProcRecord /\ proc \in [Processes -> ProcRecord]
           /\ db \in Schema /\ ledger \in [Names -> Checksums]
           /\ lock \in Processes \cup {"free"}
           /\ pool \in [Processes -> SUBSET {"clean"}]
           /\ runs \in 0 .. MaxRuns /\ faults \in 0 .. MaxFaults
           /\ proc[p].set => proc[p].dirty
           /\ proc[p].pc \in Held => lock = p
           /\ proc[p].at \in 1 .. Len(Files) + 1
<1>1. proc \in [Processes -> ProcRecord]
  BY DEF BaseInv, TypeOK, ProcRecord
<1>2. proc[p] \in ProcRecord
  BY <1>1
<1>3. pool \in [Processes -> SUBSET {"clean"}]
  BY DEF BaseInv, TypeOK, PoolIsClean
<1>4. proc[p].set => proc[p].dirty
  BY DEF BaseInv, RowInv, Marked
<1>5. proc[p].at \in 1 .. Len(Files) + 1
  BY <1>2 DEF ProcRecord
<1> QED BY <1>1, <1>2, <1>3, <1>4, <1>5 DEF BaseInv, TypeOK, LockInv

\* A fault is counted.
LEMMA FaultCounted ==
    ASSUME BaseInv, Fault
    PROVE  faults' \in 0 .. MaxFaults
BY BoundsAssumption DEF BaseInv, TypeOK, Fault

\* A row that is away from the ledger's files needs no cursor.
LEMMA AwayRow ==
    ASSUME NEW r, r.pc \in Away \cup {"seed", "file"}, r.set => r.dirty
    PROVE  RowInv(r)
BY DEF RowInv, Cursor, Marked, Away, Stages

\* The service before its migrations.
LEMMA BootMoves ==
    ASSUME BaseInv,
           Start \/ Unreachable \/ ListTables \/ RecordFreshSchemaMigrations \/ SeedRefused
               \/ VerifyTableFile \/ TablesVerified
    PROVE  \E r \in ProcRecord : Moves("decoder", r) /\ Effect("decoder", r)
<1> DEFINE q == proc["decoder"]
<1>p. "decoder" \in Processes
  BY DEF Processes
<1>b. /\ q \in ProcRecord /\ proc \in [Processes -> ProcRecord]
      /\ lock \in Processes \cup {"free"} /\ pool \in [Processes -> SUBSET {"clean"}]
      /\ runs \in 0 .. MaxRuns /\ faults \in 0 .. MaxFaults /\ (q.set => q.dirty)
  BY <1>p, BaseFacts
<1>1. CASE Start
  <2> DEFINE r == [Idle EXCEPT !.pc = "list"]
  <2>1. r \in ProcRecord /\ r.pc = "list" /\ r.set = FALSE
    BY IdleRow DEF Stages
  <2>2. RowInv(r) /\ r.pc \in Away /\ r.pc \notin Held
    BY <2>1, AwayRow DEF Away, Stages, Held
  <2>3. Moves("decoder", r) /\ Quiet("decoder", r)
    BY <1>1, <1>b, <2>2 DEF Start, Moves, Quiet, Same, History
  <2> QED BY <2>1, <2>3 DEF Effect
<1>2. CASE Unreachable \/ SeedRefused
  <2> DEFINE r == [q EXCEPT !.pc = "failed"]
  <2>1. r \in ProcRecord /\ r.pc = "failed" /\ r.set = q.set /\ r.dirty = q.dirty
    BY <1>b, RowMoves DEF Stages
  <2>2. RowInv(r) /\ r.pc \in Away /\ r.pc \notin Held
    BY <1>b, <2>1, AwayRow DEF Away, Stages, Held
  <2>3. Moves("decoder", r) /\ Quiet("decoder", r)
    BY <1>2, <1>b, <2>2, FaultCounted DEF Unreachable, SeedRefused, Goto, Moves, Quiet, Same, History
  <2> QED BY <2>1, <2>3 DEF Effect
<1>3. CASE ListTables
  <2>1. PICK x \in {"seed", "tables"} : x = IF db.tables = {} THEN "seed" ELSE "tables"
    OBVIOUS
  <2> DEFINE r == [q EXCEPT !.existing = db.tables, !.pc = x]
  <2>2. r = [[q EXCEPT !.existing = db.tables] EXCEPT !.pc = x]
    OBVIOUS
  <2>3. db.tables \in SUBSET TableSet /\ x \in Stages
    BY <1>p, BaseFacts DEF Schema, Stages
  <2>10. [q EXCEPT !.existing = db.tables] \in ProcRecord
    BY <1>b, <2>3, RowUpdates
  <2>4. r \in ProcRecord
    BY <2>2, <2>3, <2>10, RowUpdates
  <2>5. r.pc = x /\ r.set = q.set /\ r.dirty = q.dirty
    BY <1>b DEF ProcRecord
  <2>6. RowInv(r) /\ r.pc \notin Held
    BY <1>b, <2>5, AwayRow DEF Away, Stages, Held
  <2>7. proc' = [proc EXCEPT !["decoder"] = r]
    BY <1>3, <2>1 DEF ListTables
  <2>8. Moves("decoder", r) /\ Same
    BY <1>3, <1>b, <2>6, <2>7 DEF ListTables, Moves, Same, History
  <2>9. Quiet("decoder", r) \/ FindsEmpty("decoder", r)
    BY <2>1, <2>5, <2>8 DEF Quiet, FindsEmpty, Away, Stages
  <2> QED BY <2>4, <2>8, <2>9 DEF Effect
<1>4. CASE RecordFreshSchemaMigrations
  <2> DEFINE r == [q EXCEPT !.pc = "tables"]
  <2>1. r \in ProcRecord /\ r.pc = "tables" /\ r.set = q.set /\ r.dirty = q.dirty
    BY <1>b, RowMoves DEF Stages
  <2>2. RowInv(r) /\ r.pc \notin Held
    BY <1>b, <2>1, AwayRow DEF Away, Stages, Held
  <2>3. Moves("decoder", r)
    BY <1>4, <1>b, <2>2 DEF RecordFreshSchemaMigrations, Goto, Moves
  <2>4. Seeds("decoder", r)
    BY <1>4, <2>1 DEF RecordFreshSchemaMigrations, Seeds
  <2> QED BY <2>1, <2>3, <2>4 DEF Effect
<1>5. CASE VerifyTableFile
  <2>1. q.table \in 1 .. 5 /\ Tables[q.table] \in TableSet
    BY <1>5, <1>b, TableNames DEF VerifyTableFile, ProcRecord
  <2>2. ASSUME q.pc = "tables", proc' = [proc EXCEPT !["decoder"].table = @ + 1],
               db' \in {CreateTable(db, Tables[q.table]),
                        ReconcileTableIndexes(AlterTableForDrift(db, Tables[q.table]), Tables[q.table])}
        PROVE  \E r \in ProcRecord : Moves("decoder", r) /\ Effect("decoder", r)
    <3> DEFINE r == [q EXCEPT !.table = @ + 1]
    <3>1. q.table + 1 \in 1 .. Len(Tables) + 1
      BY <2>1, TableNames
    <3>2. r \in ProcRecord
      BY <1>b, <3>1, RowUpdates
    <3>3. r.pc = "tables" /\ r.set = q.set /\ r.dirty = q.dirty
      BY <1>b, <2>2 DEF ProcRecord
    <3>4. RowInv(r) /\ r.pc \notin Held
      BY <1>b, <3>3, AwayRow DEF Away, Stages, Held
    <3>5. Moves("decoder", r)
      BY <1>5, <2>2, <1>b, <3>4 DEF VerifyTableFile, Moves, History
    <3>6. Verifies("decoder", r)
      BY <1>5, <2>1, <2>2, <3>3 DEF VerifyTableFile, Verifies, History
    <3> QED BY <3>2, <3>5, <3>6 DEF Effect
  <2>3. ASSUME UNCHANGED db, proc' = [proc EXCEPT !["decoder"] = [Idle EXCEPT !.pc = "failed"]]
        PROVE  \E r \in ProcRecord : Moves("decoder", r) /\ Effect("decoder", r)
    <3> DEFINE r == [Idle EXCEPT !.pc = "failed"]
    <3>1. r \in ProcRecord /\ r.pc = "failed" /\ r.set = FALSE
      BY IdleRow DEF Stages
    <3>2. RowInv(r) /\ r.pc \in Away /\ r.pc \notin Held
      BY <3>1, AwayRow DEF Away, Stages, Held
    <3>3. Moves("decoder", r) /\ Quiet("decoder", r)
      BY <1>5, <2>3, <1>b, <3>2 DEF VerifyTableFile, Moves, Quiet, Same, History
    <3> QED BY <3>1, <3>3 DEF Effect
  <2> QED BY <1>5, <2>2, <2>3 DEF VerifyTableFile
<1>6. CASE TablesVerified
  <2> DEFINE r == [Idle EXCEPT !.pc = "lock"]
  <2>1. r \in ProcRecord /\ r.pc = "lock" /\ r.set = FALSE
    BY IdleRow DEF Stages
  <2>2. RowInv(r) /\ r.pc \in Away /\ r.pc \notin Held
    BY <2>1, AwayRow DEF Away, Stages, Held
  <2>3. Moves("decoder", r) /\ Quiet("decoder", r)
    BY <1>6, <1>b, <2>2 DEF TablesVerified, Moves, Quiet, Same, History
  <2> QED BY <2>1, <2>3 DEF Effect
<1> QED BY <1>1, <1>2, <1>3, <1>4, <1>5, <1>6

\* A run of migrations, by either process.
LEMMA RunMoves ==
    ASSUME BaseInv, NEW p \in Processes, Run(p)
    PROVE  \E r \in ProcRecord : Moves(p, r) /\ Effect(p, r)
<1> DEFINE q == proc[p]
<1>b. /\ q \in ProcRecord /\ proc \in [Processes -> ProcRecord]
      /\ db \in Schema /\ ledger \in [Names -> Checksums]
      /\ lock \in Processes \cup {"free"} /\ pool \in [Processes -> SUBSET {"clean"}]
      /\ runs \in 0 .. MaxRuns /\ faults \in 0 .. MaxFaults
      /\ (q.set => q.dirty) /\ (q.pc \in Held => lock = p) /\ q.at \in 1 .. Len(Files) + 1
  BY BaseFacts
<1>c. Cursor(q) /\ Marked(q)
  BY DEF BaseInv, RowInv
<1>f. ASSUME q.pc = "file", proc' = [proc EXCEPT ![p].pc = "release", ![p].err = TRUE], Same,
             UNCHANGED <<lock, pool, runs, faults>>
      PROVE  \E r \in ProcRecord : Moves(p, r) /\ Effect(p, r)
  <2> DEFINE r == [q EXCEPT !.pc = "release", !.err = TRUE]
  <2>1. r \in ProcRecord /\ r.pc = "release" /\ r.set = q.set /\ r.dirty = q.dirty
    BY <1>b, RowThrows
  <2>2. RowInv(r) /\ r.pc \in Away /\ lock = p
    BY <1>b, <1>f, <2>1, AwayRow DEF Away, Stages, Held
  <2>3. Moves(p, r) /\ Quiet(p, r)
    BY <1>f, <1>b, <2>2 DEF Moves, Quiet
  <2> QED BY <2>1, <2>3 DEF Effect
<1>n. ASSUME Examining(p), proc' = [proc EXCEPT ![p].at = @ + 1], UNCHANGED <<lock, pool, runs, faults>>
      PROVE  \E r \in ProcRecord : Moves(p, r) /\ Passes(p, r)
  <2> DEFINE r == [q EXCEPT !.at = @ + 1]
  <2>1. q.pc = "file" /\ q.at <= Len(Files)
    BY <1>n DEF Examining
  <2>2. r \in ProcRecord /\ r.pc = "file" /\ r.at = q.at + 1 /\ r.applied = q.applied /\ r.set = q.set /\ r.dirty = q.dirty
    BY <1>b, <2>1, RowPasses
  <2>3. RowInv(r) /\ lock = p
    BY <1>b, <2>1, <2>2, AwayRow DEF Held
  <2>4. Moves(p, r)
    BY <1>n, <1>b, <2>3 DEF Moves
  <2>5. Passes(p, r)
    BY <2>1, <2>2 DEF Passes
  <2> QED BY <2>2, <2>4, <2>5
<1>1. CASE GetLock(p)
  <2> DEFINE r == [q EXCEPT !.pc = "load"]
  <2>1. r \in ProcRecord /\ r.pc = "load" /\ r.set = q.set /\ r.dirty = q.dirty
    BY <1>b, RowMoves DEF Stages
  <2>2. RowInv(r) /\ r.pc \in Away
    BY <1>b, <2>1, AwayRow DEF Away, Stages
  <2>3. Moves(p, r) /\ Quiet(p, r)
    BY <1>1, <1>b, <2>2 DEF GetLock, Goto, Moves, Quiet, Same, History
  <2> QED BY <2>1, <2>3 DEF Effect
<1>2. CASE LockSkipped(p)
  <2> DEFINE r == [q EXCEPT !.pc = "assert", !.skip = TRUE]
  <2>1. r \in ProcRecord /\ r.pc = "assert" /\ r.set = q.set /\ r.dirty = q.dirty
    BY <1>b, RowLockSkipped
  <2>2. RowInv(r) /\ r.pc \in Away /\ r.pc \notin Held
    BY <1>b, <2>1, AwayRow DEF Away, Stages, Held
  <2>3. pool' \in [Processes -> SUBSET {"clean"}]
    BY <1>2, <1>b DEF LockSkipped
  <2>4. Moves(p, r) /\ Quiet(p, r)
    BY <1>2, <1>b, <2>2, <2>3 DEF LockSkipped, Moves, Quiet, Same, History
  <2> QED BY <2>1, <2>4 DEF Effect
<1>3. CASE LoadAppliedLedger(p)
  <2>1. PICK b \in BOOLEAN : b = (q.only = {})
    OBVIOUS
  <2> DEFINE r == [q EXCEPT !.pc = "file", !.applied = ledger, !.raised = b]
  <2>2. r \in ProcRecord /\ r.pc = "file" /\ r.applied = ledger /\ r.set = q.set /\ r.dirty = q.dirty
    BY <1>b, RowLoads
  <2>3. RowInv(r) /\ lock = p
    BY <1>3, <1>b, <2>2, AwayRow DEF LoadAppliedLedger, Held
  <2>4. proc' = [proc EXCEPT ![p] = r]
    BY <1>3, <2>1 DEF LoadAppliedLedger
  <2>5. Moves(p, r) /\ Loads(p, r)
    BY <1>3, <1>b, <2>2, <2>3, <2>4 DEF LoadAppliedLedger, Moves, Loads, Same, History
  <2> QED BY <2>2, <2>5 DEF Effect
<1>4. CASE SkipUntargeted(p)
  <2>1. PICK r \in ProcRecord : Moves(p, r) /\ Passes(p, r)
    BY <1>4, <1>n DEF SkipUntargeted, NextFile, History
  <2>2. Skips(p, r)
    BY <1>4, <2>1 DEF SkipUntargeted, Skips, Same, History
  <2> QED BY <2>1, <2>2 DEF Effect
<1>5. CASE ReconcileAppliedMigration(p)
  <2>0. Examining(p) /\ q.pc = "file" /\ UNCHANGED <<db, lock, pool, executed, finished, seeded, runs, faults>>
    BY <1>5 DEF ReconcileAppliedMigration, Examining, History
  <2>1. CASE q.applied[File(p)] = "edited" /\ FailsClosed(p)
    <3>1. Throw(p) /\ ledger' = ledger
      BY <1>5, <2>1 DEF ReconcileAppliedMigration
    <3> QED BY <1>f, <2>0, <3>1 DEF Throw, Same
  <2>2. CASE ~ (q.applied[File(p)] = "edited" /\ FailsClosed(p))
    <3>1. NextFile(p)
      BY <1>5, <2>2 DEF ReconcileAppliedMigration
    <3>2. PICK r \in ProcRecord : Moves(p, r) /\ Passes(p, r)
      BY <1>n, <2>0, <3>1 DEF NextFile
    <3>3. Skips(p, r) \/ Heals(p, r)
      BY <1>5, <2>0, <3>2 DEF ReconcileAppliedMigration, Skips, Heals, Same
    <3> QED BY <3>2, <3>3 DEF Effect
  <2> QED BY <2>1, <2>2
<1>6. CASE GuardUnregisteredRename(p)
  <2>0. Examining(p) /\ q.pc = "file" /\ Same /\ UNCHANGED <<lock, pool, runs, faults>>
    BY <1>6 DEF GuardUnregisteredRename, Pending, Examining, History, Same
  <2>1. CASE FailsClosed(p)
    BY <1>6, <1>f, <2>0, <2>1 DEF GuardUnregisteredRename, Throw
  <2>2. CASE ~ FailsClosed(p)
    <3>1. PICK r \in ProcRecord : Moves(p, r) /\ Passes(p, r)
      BY <1>6, <1>n, <2>0, <2>2 DEF GuardUnregisteredRename, NextFile
    <3> QED BY <2>0, <3>1 DEF Skips, Effect
  <2> QED BY <2>1, <2>2
<1>7. CASE Baseline(p)
  <2>1. PICK r \in ProcRecord : Moves(p, r) /\ Passes(p, r)
    BY <1>7, <1>n DEF Baseline, Pending, NextFile, History
  <2>2. Baselines(p, r)
    BY <1>7, <2>1 DEF Baseline, Baselines, History
  <2> QED BY <2>1, <2>2 DEF Effect
<1>8. CASE LeaveGated(p)
  <2>1. PICK r \in ProcRecord : Moves(p, r) /\ Passes(p, r)
    BY <1>8, <1>n DEF LeaveGated, Applicable, Pending, NextFile, History
  <2>2. Skips(p, r)
    BY <1>8, <2>1 DEF LeaveGated, Skips, Same, History
  <2> QED BY <2>1, <2>2 DEF Effect
<1>9. CASE BeginFile(p)
  <2>0. /\ q.pc = "file" /\ q.at <= Len(Files) /\ Same /\ UNCHANGED <<lock, pool, runs, faults>>
        /\ q.applied[File(p)] = "absent" /\ ~ RanUnderAnotherName(p) /\ ~ MigrationPreconditionSkip(db, File(p))
    BY <1>9 DEF BeginFile, Applicable, Pending, Examining, History, Same
  <2>1. CASE Backdated(p) /\ FailsClosed(p)
    BY <1>9, <1>f, <2>0, <2>1 DEF BeginFile, Throw
  <2>2. CASE ~ (Backdated(p) /\ FailsClosed(p))
    <3> DEFINE r == [q EXCEPT !.pc = "apply", !.stmt = 1, !.raised = TRUE, !.dirty = TRUE]
    <3>1. r \in ProcRecord /\ r.pc = "apply" /\ r.stmt = 1 /\ r.at = q.at /\ r.applied = q.applied /\ r.dirty = TRUE
      BY <1>b, RowBegins
    <3>2. q.at \in 1 .. Len(Files)
      BY <1>b, <2>0, FileFacts
    <3>9. Files[q.at] \in Known
      BY <3>2, FileFacts
    <3>10. Count(Files[q.at]) \in 1 .. 5
      BY <3>9, StatementBounds
    <3>3. 1 <= Count(Files[q.at])
      BY <3>10
    <3>4. RowInv(r)
      BY <2>0, <3>1, <3>3 DEF RowInv, Cursor, Marked
    <3>5. proc' = [proc EXCEPT ![p] = r]
      BY <1>9, <2>2 DEF BeginFile
    <3>6. lock = p
      BY <1>b, <2>0 DEF Held
    <3>7. Moves(p, r)
      BY <1>b, <2>0, <3>4, <3>5, <3>6 DEF Moves
    <3>8. Begins(p, r)
      BY <2>0, <3>1 DEF Begins
    <3> QED BY <3>1, <3>7, <3>8 DEF Effect
  <2> QED BY <2>1, <2>2
<1>10. CASE ApplyStatement(p)
  <2> DEFINE s == Statements[File(p)][q.stmt]
  <2>0. /\ q.pc = "apply" /\ q.at <= Len(Files) /\ q.stmt <= Count(File(p)) /\ q.dirty /\ lock = p
        /\ UNCHANGED <<ledger, lock, pool, finished, seeded, runs, faults>>
    BY <1>10, <1>b, <1>c DEF ApplyStatement, Cursor, Marked, Held, File
  <2>1. CASE Refused(db, s)
    <3> DEFINE r == [q EXCEPT !.pc = "release", !.err = TRUE, !.set = TRUE]
    <3>1. r \in ProcRecord /\ r.pc = "release" /\ r.set = TRUE /\ r.dirty = q.dirty
      BY <1>b, RowRefused
    <3>2. RowInv(r) /\ r.pc \in Away
      BY <2>0, <3>1, AwayRow DEF Away, Stages
    <3>3. proc' = [proc EXCEPT ![p] = r] /\ UNCHANGED <<db, executed>>
      BY <1>10, <2>1 DEF ApplyStatement
    <3>4. Moves(p, r) /\ Quiet(p, r)
      BY <1>b, <2>0, <3>2, <3>3 DEF Moves, Quiet, Same
    <3> QED BY <3>1, <3>4 DEF Effect
  <2>2. CASE ~ Refused(db, s)
    <3>1. PICK x \in {"apply", "record"} : x = IF q.stmt = Count(File(p)) THEN "record" ELSE q.pc
      BY <2>0
    <3> DEFINE r == [q EXCEPT !.stmt = @ + 1, !.set = TRUE, !.pc = x]
    <3>2. q.at \in 1 .. Len(Files)
      BY <1>b, <2>0, FileFacts
    <3>12. File(p) \in Known
      BY <3>2, FileFacts DEF File
    <3>13. Count(File(p)) \in 1 .. 5
      BY <3>12, StatementBounds
    <3>3. Count(File(p)) \in 1 .. 5 /\ q.stmt \in 1 .. 6
      BY <1>b, <3>13 DEF ProcRecord
    <3>4. q.stmt <= 5
      BY <2>0, <3>3
    <3>5. /\ r \in ProcRecord /\ r.pc = x /\ r.stmt = q.stmt + 1 /\ r.at = q.at
          /\ r.applied = q.applied /\ r.dirty = q.dirty
      <4> HIDE DEF r
      <4>1. r = [q EXCEPT !.stmt = @ + 1, !.set = TRUE, !.pc = x]
        BY DEF r
      <4>2. q \in ProcRecord
        BY <1>b
      <4> HIDE DEF q
      <4> QED BY <3>4, <4>1, <4>2, RowExecutes
    <3>6. x = "record" => q.stmt = Count(File(p))
      BY <2>0, <3>1
    <3>7. x = "apply" => q.stmt + 1 <= Count(File(p))
      BY <2>0, <3>1, <3>3
    <3>8. RowInv(r)
      BY <2>0, <3>5, <3>6, <3>7 DEF RowInv, Cursor, Marked, File
    <3>9. proc' = [proc EXCEPT ![p] = r] /\ db' = Exec(db, s) /\ executed' = executed \cup {File(p)}
      BY <1>10, <2>2, <3>1 DEF ApplyStatement, Count
    <3>10. Moves(p, r)
      BY <1>b, <2>0, <3>8, <3>9 DEF Moves
    <3>11. Executes(p, r)
      BY <2>0, <2>2, <3>5, <3>9 DEF Executes
    <3> QED BY <3>5, <3>10, <3>11 DEF Effect
  <2> QED BY <2>1, <2>2
<1>11. CASE RecordMigration(p)
  <2> DEFINE r == [q EXCEPT !.pc = "file", !.at = @ + 1]
  <2>1. q.pc = "record" /\ q.at <= Len(Files) /\ lock = p
    BY <1>11, <1>b, <1>c DEF RecordMigration, Cursor, Held
  <2>2. r \in ProcRecord /\ r.pc = "file" /\ r.at = q.at + 1 /\ r.applied = q.applied /\ r.set = q.set /\ r.dirty = q.dirty
    BY <1>b, <2>1, RowRecords
  <2>3. RowInv(r)
    BY <1>b, <2>2, AwayRow
  <2>4. Moves(p, r)
    BY <1>11, <1>b, <2>1, <2>3 DEF RecordMigration, Moves
  <2>5. Records(p, r)
    BY <1>11, <2>1, <2>2 DEF RecordMigration, Records
  <2> QED BY <2>2, <2>4, <2>5 DEF Effect
<1>12. CASE FilesDone(p)
  <2> DEFINE r == [q EXCEPT !.pc = "release"]
  <2>1. r \in ProcRecord /\ r.pc = "release" /\ r.set = q.set /\ r.dirty = q.dirty
    BY <1>b, RowMoves DEF Stages
  <2>2. RowInv(r) /\ r.pc \in Away /\ lock = p
    BY <1>12, <1>b, <2>1, AwayRow DEF Away, Stages, Held, FilesDone
  <2>3. Moves(p, r) /\ Quiet(p, r)
    BY <1>12, <1>b, <2>2 DEF FilesDone, Goto, Moves, Quiet, Same, History
  <2> QED BY <2>1, <2>3 DEF Effect
<1>13. CASE Release(p)
  <2>1. PICK x \in {"failed", "assert"} : x = IF q.err THEN "failed" ELSE "assert"
    OBVIOUS
  <2> DEFINE r == [Idle EXCEPT !.pc = x]
  <2>2. r \in ProcRecord /\ r.pc = x /\ r.set = FALSE
    BY IdleRow DEF Stages
  <2>3. RowInv(r) /\ r.pc \in Away /\ r.pc \notin Held
    BY <2>2, AwayRow DEF Away, Stages, Held
  <2>4. proc' = [proc EXCEPT ![p] = r] /\ lock' = "free" /\ lock = p /\ Same /\ UNCHANGED <<runs, faults>>
    BY <1>13, <1>b, <2>1 DEF Release, Held, Same, History
  <2>5. pool' \in [Processes -> SUBSET {"clean"}]
    BY <1>13, <1>b DEF Release
  <2>6. Moves(p, r) /\ Quiet(p, r)
    BY <1>b, <2>3, <2>4, <2>5 DEF Moves, Quiet
  <2> QED BY <2>2, <2>6 DEF Effect
<1>14. CASE AssertSchema(p)
  <2>1. PICK x \in {"failed", "up", "skipped", "done"} :
           x = CASE ~ StartupAssertions(db) -> "failed"
                 [] p = "decoder" -> "up"
                 [] OTHER -> IF proc[p].skip THEN "skipped" ELSE "done"
    OBVIOUS
  <2> DEFINE r == [Idle EXCEPT !.pc = x]
  <2>2. r \in ProcRecord /\ r.pc = x /\ r.set = FALSE
    BY IdleRow DEF Stages
  <2>3. RowInv(r) /\ r.pc \in Away /\ r.pc \notin Held
    BY <2>2, AwayRow DEF Away, Stages, Held
  <2>4. proc' = [proc EXCEPT ![p] = r] /\ UNCHANGED <<ledger, lock, pool, executed, finished, seeded, runs, faults>>
    BY <1>14, <2>1 DEF AssertSchema, History
  <2>5. PICK b \in BOOLEAN : b = (db.rows \/ (p = "decoder" /\ StartupAssertions(db)))
    OBVIOUS
  <2>6. db' = [db EXCEPT !.rows = b] /\ (db.rows => b)
    BY <1>14, <2>5 DEF AssertSchema
  <2>7. Moves(p, r) /\ Opens(p, r)
    BY <1>b, <2>3, <2>4, <2>6 DEF Moves, Opens
  <2> QED BY <2>2, <2>7 DEF Effect
<1> QED BY <1>1, <1>2, <1>3, <1>4, <1>5, <1>6, <1>7, <1>8, <1>9, <1>10, <1>11, <1>12, <1>13, <1>14 DEF Run

\* The operator starts a run.
LEMMA MigrateMoves ==
    ASSUME BaseInv, Migrate
    PROVE  \E r \in ProcRecord : Moves("migrate", r) /\ Effect("migrate", r)
<1>p. "migrate" \in Processes
  BY DEF Processes
<1>b. /\ proc \in [Processes -> ProcRecord]
      /\ lock \in Processes \cup {"free"} /\ pool \in [Processes -> SUBSET {"clean"}]
      /\ runs \in 0 .. MaxRuns /\ faults \in 0 .. MaxFaults
  BY <1>p, BaseFacts
<1>1. PICK only \in Scopes :
         proc' = [proc EXCEPT !["migrate"] = [Idle EXCEPT !.pc = "lock", !.only = only]]
  BY DEF Migrate
<1> DEFINE r == [Idle EXCEPT !.pc = "lock", !.only = only]
<1>2. r = [[Idle EXCEPT !.pc = "lock"] EXCEPT !.only = only]
  OBVIOUS
<1>3. only \in SUBSET Known
  BY ScopesAssumption
<1>4. [Idle EXCEPT !.pc = "lock"] \in ProcRecord
  BY IdleRow DEF Stages
<1>5. r \in ProcRecord
  BY <1>2, <1>3, <1>4, RowUpdates
<1>6. r.pc = "lock" /\ r.set = FALSE
  BY DEF Idle
<1>7. RowInv(r) /\ r.pc \in Away /\ r.pc \notin Held
  BY <1>6, AwayRow DEF Away, Stages, Held
<1>11. runs' \in 0 .. MaxRuns
  BY <1>b, BoundsAssumption DEF Migrate
<1>12. pool' = [pool EXCEPT !["migrate"] = {}]
  BY DEF Migrate
<1>8. runs' \in 0 .. MaxRuns /\ pool' \in [Processes -> SUBSET {"clean"}]
  BY <1>b, <1>11, <1>12
<1>9. UNCHANGED <<db, ledger, lock, executed, finished, seeded, faults>>
  BY DEF Migrate
<1>10. Moves("migrate", r) /\ Quiet("migrate", r)
  BY <1>1, <1>b, <1>7, <1>8, <1>9 DEF Moves, Quiet, Same
<1> QED BY <1>5, <1>10 DEF Effect

\* A fault.
LEMMA FaultMoves ==
    ASSUME BaseInv, NEW p \in Processes, ReleaseUnrestored(p) \/ StatementFails(p) \/ Crash(p)
    PROVE  \E r \in ProcRecord : Moves(p, r) /\ Effect(p, r)
<1> DEFINE q == proc[p]
<1>b. /\ q \in ProcRecord /\ proc \in [Processes -> ProcRecord]
      /\ lock \in Processes \cup {"free"} /\ pool \in [Processes -> SUBSET {"clean"}]
      /\ runs \in 0 .. MaxRuns
      /\ (q.set => q.dirty) /\ (q.pc \in Held => lock = p)
  BY BaseFacts
<1>f. faults' \in 0 .. MaxFaults
  BY FaultCounted DEF ReleaseUnrestored, StatementFails, Crash
<1>1. CASE ReleaseUnrestored(p)
  <2>1. PICK x \in {"failed", "assert"} : x = IF q.err THEN "failed" ELSE "assert"
    OBVIOUS
  <2> DEFINE r == [Idle EXCEPT !.pc = x]
  <2>2. r \in ProcRecord /\ r.pc = x /\ r.set = FALSE
    BY IdleRow DEF Stages
  <2>3. RowInv(r) /\ r.pc \in Away /\ r.pc \notin Held
    BY <2>2, AwayRow DEF Away, Stages, Held
  <2>4. proc' = [proc EXCEPT ![p] = r] /\ lock' = "free" /\ lock = p /\ Same /\ UNCHANGED <<pool, runs>>
    BY <1>1, <1>b, <2>1 DEF ReleaseUnrestored, Held, Same
  <2>5. Moves(p, r) /\ Quiet(p, r)
    BY <1>b, <1>f, <2>3, <2>4 DEF Moves, Quiet
  <2> QED BY <2>2, <2>5 DEF Effect
<1>2. CASE StatementFails(p)
  <2>1. PICK b \in BOOLEAN : b = (q.raised \/ (q.pc = "load" /\ q.only = {}))
    OBVIOUS
  <2>2. PICK r : r = [q EXCEPT !.pc = "release", !.err = TRUE, !.raised = b]
    OBVIOUS
  <2>3. r \in ProcRecord /\ r.pc = "release" /\ r.set = q.set /\ r.dirty = q.dirty
    <3>1. q \in ProcRecord
      BY <1>b
    <3> HIDE DEF q
    <3> QED BY <2>2, <3>1, RowFails
  <2>4. RowInv(r) /\ r.pc \in Away
    BY <1>b, <2>3, AwayRow DEF Away, Stages
  <2>5. proc' = [proc EXCEPT ![p] = r] /\ lock = p /\ UNCHANGED <<lock, pool, runs>> /\ Same
    BY <1>2, <1>b, <2>1, <2>2 DEF StatementFails, Held, Same
  <2>6. Moves(p, r) /\ Quiet(p, r)
    BY <1>b, <1>f, <2>4, <2>5 DEF Moves, Quiet
  <2> QED BY <2>3, <2>6 DEF Effect
<1>3. CASE Crash(p)
  <2>1. RowInv(Idle) /\ Idle.pc \in Away /\ Idle.pc \notin Held
    BY IdleRow, AwayRow DEF Away, Stages, Held
  <2>2. pool' \in [Processes -> SUBSET {"clean"}]
    BY <1>3, <1>b DEF Crash
  <2>3. /\ lock' \in Processes \cup {"free"} /\ (lock' = lock \/ lock \in {"free", p})
        /\ proc' = [proc EXCEPT ![p] = Idle] /\ UNCHANGED runs /\ Same
    BY <1>3, <1>b DEF Crash, Same
  <2>4. Moves(p, Idle) /\ Quiet(p, Idle)
    BY <1>b, <1>f, <2>1, <2>2, <2>3 DEF Moves, Quiet
  <2> QED BY <2>4, IdleRow DEF Effect
<1> QED BY <1>1, <1>2, <1>3

\* Every step is a move of one process, or changes nothing.
LEMMA NextMoves ==
    ASSUME BaseInv, [Next]_vars
    PROVE  \/ UNCHANGED vars
           \/ \E p \in Processes, r \in ProcRecord : Moves(p, r) /\ Effect(p, r)
<1>p. "decoder" \in Processes /\ "migrate" \in Processes
  BY DEF Processes
<1>1. CASE Boot
  <2>1. CASE Run("decoder")
    BY <1>p, <2>1, RunMoves
  <2>2. CASE ~ Run("decoder")
    BY <1>1, <1>p, <2>2, BootMoves DEF Boot
  <2> QED BY <2>1, <2>2
<1>2. CASE Unreachable
  BY <1>2, <1>p, BootMoves
<1>3. CASE Migrate
  BY <1>3, <1>p, MigrateMoves
<1>4. CASE Run("migrate")
  BY <1>4, <1>p, RunMoves
<1>5. CASE Settled
  BY <1>5 DEF Settled
<1>6. CASE \E p \in Processes : ReleaseUnrestored(p) \/ StatementFails(p) \/ Crash(p)
  BY <1>6, FaultMoves
<1> QED BY <1>1, <1>2, <1>3, <1>4, <1>5, <1>6 DEF Next

\* A move keeps the types of the schema, the ledger and the counters.
LEMMA EffectTyped ==
    ASSUME BaseInv, NEW p \in Processes, NEW r \in ProcRecord, Effect(p, r)
    PROVE  /\ db' \in Schema /\ ledger' \in [Names -> Checksums]
           /\ executed' \subseteq Known /\ finished' \in [Known -> Nat] /\ seeded' \in BOOLEAN
<1>b. /\ db \in Schema /\ ledger \in [Names -> Checksums]
      /\ executed \subseteq Known /\ finished \in [Known -> Nat] /\ seeded \in BOOLEAN
  BY DEF BaseInv, TypeOK
<1>q. proc[p] \in ProcRecord /\ Cursor(proc[p]) /\ proc[p].at \in 1 .. Len(Files) + 1
  BY BaseFacts DEF BaseInv, RowInv
<1>1. CASE Quiet(p, r) \/ FindsEmpty(p, r) \/ Loads(p, r) \/ Skips(p, r) \/ Begins(p, r)
  BY <1>1, <1>b DEF Quiet, FindsEmpty, Loads, Skips, Begins, Same
<1>2. CASE Heals(p, r) \/ Baselines(p, r)
  BY <1>2, <1>b DEF Heals, Baselines, Checksums
<1>3. CASE Executes(p, r)
  <2>1. proc[p].at \in 1 .. Len(Files) /\ proc[p].stmt <= Count(Files[proc[p].at]) /\ proc[p].stmt \in 1 .. 6
    BY <1>3, <1>q, FileFacts DEF Executes, Cursor, ProcRecord
  <2>2. File(p) \in Known
    BY <2>1, FileFacts DEF File
  <2>3. Count(File(p)) \in 1 .. 5
    BY <2>2, StatementBounds
  <2>4. proc[p].stmt \in 1 .. Count(File(p))
    BY <2>1, <2>3 DEF File
  <2>5. Statements[File(p)][proc[p].stmt] \in AllStatements
    BY <2>2, <2>4, StatementBounds
  <2>6. db' \in Schema
    BY <1>3, <1>b, <2>5, ExecKeeps DEF Executes
  <2> QED BY <1>3, <1>b, <2>2, <2>6 DEF Executes
<1>4. CASE Records(p, r)
  <2>1. proc[p].at \in 1 .. Len(Files)
    BY <1>4, <1>q, FileFacts DEF Records, Cursor
  <2>2. File(p) \in Known
    BY <2>1, FileFacts DEF File
  <2>3. finished[File(p)] + 1 \in Nat
    BY <1>b, <2>2
  <2>4. finished' \in [Known -> Nat]
    BY <1>4, <1>b, <2>3 DEF Records
  <2>5. ledger' \in [Names -> Checksums]
    BY <1>4, <1>b DEF Records, Checksums
  <2> QED BY <1>4, <1>b, <2>4, <2>5 DEF Records
<1>5. CASE Seeds(p, r)
  BY <1>5, <1>b DEF Seeds, Checksums, AtLeast
<1>6. CASE Verifies(p, r)
  BY <1>6, <1>b, BootKeeps DEF Verifies
<1>7. CASE Opens(p, r)
  BY <1>7, <1>b DEF Opens, Schema
<1> QED BY <1>1, <1>2, <1>3, <1>4, <1>5, <1>6, <1>7 DEF Effect

\* The types, the lock and the pool hold in every state.
LEMMA BaseInductive ==
    ASSUME BaseInv, [Next]_vars
    PROVE  BaseInv'
<1>1. CASE UNCHANGED vars
  BY <1>1 DEF vars, BaseInv, TypeOK, PoolIsClean, LockInv, RowInv, Cursor, Marked
<1>2. ASSUME NEW p \in Processes, NEW r \in ProcRecord, Moves(p, r), Effect(p, r)
      PROVE  BaseInv'
  <2>1. proc \in [Processes -> ProcRecord]
    BY BaseFacts, <1>2
  <2>2. proc' \in [Processes -> ProcRecord] /\ proc'[p] = r /\ \A q \in Processes \ {p} : proc'[q] = proc[q]
    BY <1>2, <2>1 DEF Moves
  <2>3. TypeOK'
    BY <1>2, <2>2, EffectTyped DEF Moves, TypeOK, ProcRecord
  <2>4. PoolIsClean'
    BY <1>2 DEF Moves, PoolIsClean
  <2>5. LockInv'
    BY <1>2, <2>2 DEF Moves, BaseInv, LockInv, Processes
  <2>6. \A q \in Processes : RowInv(proc'[q])
    BY <1>2, <2>2 DEF Moves, BaseInv
  <2> QED BY <2>3, <2>4, <2>5, <2>6 DEF BaseInv, RowInv, Cursor, Marked
<1> QED BY <1>1, <1>2, NextMoves

-----------------------------------------------------------------------------
(* The copy of the ledger a run works from. *)

InRun == {"file", "apply", "record"}

\* Only the row of the file that was edited or renamed is ever pinned or edited.
LedgerShape(l) == \A n \in Names \ {Renamed} : l[n] \in {"absent", "current"}

\* The copy r.applied agrees with the ledger about every file the run has yet to reach,
\* and a file is only begun when no row has its content.
SnapshotOf(r, l) ==
    /\ LedgerShape(r.applied)
    /\ \A n \in Names : r.applied[n] # "absent" => l[n] # "absent"
    /\ r.applied[Orphan] = l[Orphan]
    /\ \A i \in 1 .. Len(Files) : i >= r.at /\ r.applied[Files[i]] = "absent" => l[Files[i]] = "absent"
    /\ r.pc \in {"apply", "record"} =>
          /\ r.applied[Files[r.at]] = "absent"
          /\ ~ (Files[r.at] = Renamed /\ r.applied[Orphan] = "current")

SnapshotInv ==
    /\ LedgerShape(ledger)
    /\ \A p \in Processes : proc[p].pc \in InRun => SnapshotOf(proc[p], ledger)

\* A content that finished has a ledger row, under its name or the one it had before.
OnceInv == \A f \in Known : finished[f] <= 1 /\ (finished[f] = 1 => Ran(ledger, f))

\* A seeded ledger has a row for every file.
SeededInv == seeded => \A f \in FileSet : ledger[f] # "absent"

\* The process that moves, the others, and the file it is at.
LEMMA MoveFacts ==
    ASSUME BaseInv, NEW p \in Processes, NEW r \in ProcRecord, Moves(p, r)
    PROVE  /\ proc[p] \in ProcRecord /\ ledger \in [Names -> Checksums]
           /\ proc'[p] = r /\ \A q \in Processes \ {p} : proc'[q] = proc[q]
           /\ \A q \in Processes : proc[q].pc \in Held => lock = q
           /\ proc[p].pc \in {"apply", "record"} => proc[p].at \in 1 .. Len(Files)
           /\ proc[p].at \in 1 .. Len(Files) => File(p) \in Known /\ File(p) \in Names /\ File(p) # Orphan
<1>1. proc \in [Processes -> ProcRecord] /\ proc[p] \in ProcRecord /\ ledger \in [Names -> Checksums]
  BY BaseFacts
<1>2. proc'[p] = r /\ \A q \in Processes \ {p} : proc'[q] = proc[q]
  BY <1>1 DEF Moves
<1>3. \A q \in Processes : proc[q].pc \in Held => lock = q
  BY DEF BaseInv, LockInv
<1>4. Cursor(proc[p]) /\ proc[p].at \in 1 .. Len(Files) + 1
  BY BaseFacts DEF BaseInv, RowInv
<1>5. proc[p].pc \in {"apply", "record"} => proc[p].at \in 1 .. Len(Files)
  BY <1>4, FileFacts DEF Cursor
<1>6. proc[p].at \in 1 .. Len(Files) => File(p) \in Known /\ File(p) \in Names
  BY FileFacts DEF File
<1>7. Orphan \notin Known
  BY DEF Orphan, Known
<1> QED BY <1>1, <1>2, <1>3, <1>5, <1>6, <1>7

\* A ledger row is never removed, and one is only written while no other process is
\* inside a run.
LEMMA LedgerGrows ==
    ASSUME BaseInv, NEW p \in Processes, NEW r \in ProcRecord, Moves(p, r), Effect(p, r)
    PROVE  /\ \A n \in Names : ledger[n] # "absent" => ledger'[n] # "absent"
           /\ \A n \in Names : ledger'[n] = ledger[n] \/ ledger'[n] = "current"
           /\ \A q \in Processes \ {p} : proc[q].pc \in InRun => ledger' = ledger
<1>m. /\ ledger \in [Names -> Checksums]
      /\ \A q \in Processes : proc[q].pc \in Held => lock = q
  BY MoveFacts
<1>1. CASE ledger' = ledger
  BY <1>1
<1>2. ASSUME NEW f, ledger' = [ledger EXCEPT ![f] = "current"], proc[p].pc \in Held
      PROVE  /\ \A n \in Names : ledger[n] # "absent" => ledger'[n] # "absent"
             /\ \A n \in Names : ledger'[n] = ledger[n] \/ ledger'[n] = "current"
             /\ \A q \in Processes \ {p} : proc[q].pc \in InRun => ledger' = ledger
  <2>1. \A n \in Names : ledger'[n] = ledger[n] \/ ledger'[n] = "current"
    BY <1>2, <1>m
  <2>2. \A q \in Processes \ {p} : proc[q].pc \notin InRun
    BY <1>2, <1>m DEF Held, InRun
  <2> QED BY <2>1, <2>2
<1>3. CASE Heals(p, r) \/ Baselines(p, r) \/ Records(p, r)
  BY <1>2, <1>3 DEF Heals, Baselines, Passes, Records, Held
<1>4. CASE Seeds(p, r)
  <2>1. \A q \in Processes : proc[q].pc \notin InRun
    BY <1>4, <1>m DEF Seeds, Held, InRun, Processes
  <2> QED BY <1>4, <1>m, <2>1 DEF Seeds
<1> QED BY <1>1, <1>3, <1>4 DEF Effect, Quiet, FindsEmpty, Loads, Skips, Begins, Executes, Verifies, Opens, Same

\* The copy of the moving process still agrees with the ledger.
LEMMA SnapshotMoves ==
    ASSUME BaseInv, SnapshotInv, NEW p \in Processes, NEW r \in ProcRecord, Moves(p, r), Effect(p, r),
           r.pc \in InRun
    PROVE  SnapshotOf(r, ledger')
<1>m. /\ ledger \in [Names -> Checksums] /\ proc[p] \in ProcRecord
      /\ proc[p].pc \in {"apply", "record"} => proc[p].at \in 1 .. Len(Files)
      /\ proc[p].at \in 1 .. Len(Files) => File(p) \in Known /\ File(p) \in Names /\ File(p) # Orphan
  BY MoveFacts
<1>t. proc[p].at \in 1 .. Len(Files) + 1
  BY BaseFacts
<1>s. proc[p].pc \in InRun => SnapshotOf(proc[p], ledger)
  BY DEF SnapshotInv
<1>o. Orphan \in Names /\ Len(Files) \in Nat
  BY FileFacts DEF Names
<1>1. CASE Loads(p, r)
  BY <1>1 DEF Loads, Same, SnapshotInv, SnapshotOf
<1>2. ASSUME proc[p].pc \in {"file", "record"}, proc[p].at <= Len(Files), r.at = proc[p].at + 1, r.pc = "file",
             r.applied = proc[p].applied,
             ledger' = ledger \/ ledger' = [ledger EXCEPT ![File(p)] = "current"]
      PROVE  SnapshotOf(r, ledger')
  <2>1. SnapshotOf(proc[p], ledger) /\ proc[p].at \in 1 .. Len(Files)
    BY <1>2, <1>s, <1>t, <1>o DEF InRun
  <2>2. File(p) \in Names /\ File(p) # Orphan
    BY <1>m, <2>1
  <2>3. \A n \in Names : n # File(p) => ledger'[n] = ledger[n]
    BY <1>2, <1>m
  <2>4. ledger'[File(p)] = ledger[File(p)] \/ ledger'[File(p)] = "current"
    BY <1>2, <1>m, <2>2
  <2>5. ledger'[Orphan] = ledger[Orphan]
    BY <2>2, <2>3, <1>o
  <2>6. \A n \in Names : r.applied[n] # "absent" => ledger'[n] # "absent"
    BY <1>2, <2>1, <2>3, <2>4 DEF SnapshotOf
  <2>7. ASSUME NEW i \in 1 .. Len(Files), i >= r.at, r.applied[Files[i]] = "absent"
        PROVE  ledger'[Files[i]] = "absent"
    <3>1. i >= proc[p].at /\ i # proc[p].at
      BY <1>2, <2>1, <2>7
    <3>2. Files[i] # File(p) /\ Files[i] \in Names
      BY <2>1, <3>1, FileFacts DEF File
    <3>3. ledger[Files[i]] = "absent"
      BY <1>2, <2>1, <2>7, <3>1 DEF SnapshotOf
    <3> QED BY <2>3, <3>2, <3>3
  <2> QED BY <1>2, <2>1, <2>5, <2>6, <2>7 DEF SnapshotOf
<1>3. CASE Skips(p, r) \/ Heals(p, r) \/ Baselines(p, r)
  BY <1>2, <1>3 DEF Skips, Heals, Baselines, Passes, Same
<1>4. CASE Records(p, r)
  <2>1. proc[p].at <= Len(Files)
    BY <1>4, <1>m, <1>o DEF Records
  <2> QED BY <1>2, <1>4, <2>1 DEF Records
<1>5. CASE Begins(p, r)
  <2>1. SnapshotOf(proc[p], ledger) /\ ledger' = ledger
    BY <1>5, <1>s DEF Begins, InRun, Same
  <2> QED BY <1>5, <2>1 DEF Begins, SnapshotOf, RanUnderAnotherName, File
<1>6. CASE Executes(p, r)
  <2>1. SnapshotOf(proc[p], ledger) /\ ledger' = ledger
    BY <1>6, <1>s DEF Executes, InRun
  <2> QED BY <1>6, <2>1 DEF Executes, SnapshotOf
<1> QED BY <1>1, <1>3, <1>4, <1>5, <1>6
        DEF Effect, Quiet, FindsEmpty, Seeds, Verifies, Opens, InRun, Away, Stages

\* The copies agree with the ledger in every state.
LEMMA SnapshotInductive ==
    ASSUME BaseInv, SnapshotInv, [Next]_vars
    PROVE  SnapshotInv'
<1>1. CASE UNCHANGED vars
  BY <1>1 DEF vars, SnapshotInv, LedgerShape, SnapshotOf
<1>2. ASSUME NEW p \in Processes, NEW r \in ProcRecord, Moves(p, r), Effect(p, r)
      PROVE  SnapshotInv'
  <2>1. LedgerShape(ledger')
    BY <1>2, LedgerGrows DEF SnapshotInv, LedgerShape
  <2>2. ASSUME NEW q \in Processes, proc'[q].pc \in InRun
        PROVE  SnapshotOf(proc'[q], ledger')
    <3>1. CASE q = p
      BY <1>2, <2>2, <3>1, MoveFacts, SnapshotMoves
    <3>2. CASE q # p
      <4>1. proc'[q] = proc[q]
        BY <1>2, <3>2, MoveFacts
      <4>2. ledger' = ledger
        BY <1>2, <2>2, <3>2, <4>1, LedgerGrows
      <4> QED BY <2>2, <4>1, <4>2 DEF SnapshotInv
    <3> QED BY <3>1, <3>2
  <2> QED BY <2>1, <2>2 DEF SnapshotInv, LedgerShape, SnapshotOf
<1> QED BY <1>1, <1>2, NextMoves

-----------------------------------------------------------------------------
(* Once per content, and never on a seeded database. *)

\* A file inside which a process is has neither a row of its own nor one of its content.
LEMMA BegunHasNoRow ==
    ASSUME BaseInv, SnapshotInv, NEW p \in Processes, proc[p].pc \in {"apply", "record"}
    PROVE  /\ proc[p].at \in 1 .. Len(Files) /\ File(p) \in Known
           /\ ledger[File(p)] = "absent" /\ ~ Ran(ledger, File(p))
<1>1. Cursor(proc[p]) /\ proc[p].at \in 1 .. Len(Files) + 1
  BY BaseFacts DEF BaseInv, RowInv
<1>2. proc[p].at \in 1 .. Len(Files)
  BY <1>1, FileFacts DEF Cursor
<1>3. File(p) \in Known
  BY <1>2, FileFacts DEF File
<1>4. SnapshotOf(proc[p], ledger)
  BY DEF SnapshotInv, InRun
<1>5. ledger[File(p)] = "absent"
  BY <1>2, <1>4 DEF SnapshotOf, File
<1>6. Orphan \in Names \ {Renamed}
  BY DEF Orphan, Renamed, Names
<1>7. File(p) = Renamed => ledger[Orphan] = "absent"
  BY <1>4, <1>6 DEF SnapshotOf, SnapshotInv, LedgerShape, File
<1> QED BY <1>2, <1>3, <1>5, <1>7 DEF Ran

\* No content is counted twice, and what is counted has a row.
LEMMA OnceInductive ==
    ASSUME BaseInv, SnapshotInv, OnceInv, [Next]_vars
    PROVE  OnceInv'
<1>1. CASE UNCHANGED vars
  BY <1>1 DEF vars, OnceInv, Ran
<1>2. ASSUME NEW p \in Processes, NEW r \in ProcRecord, Moves(p, r), Effect(p, r)
      PROVE  OnceInv'
  <2>t. finished \in [Known -> Nat]
    BY DEF BaseInv, TypeOK
  <2>g. \A f \in Known : Ran(ledger, f) => Ran(ledger', f)
    <3>1. Orphan \in Names /\ Known \subseteq Names
      BY DEF Names
    <3> QED BY <1>2, <3>1, LedgerGrows DEF Ran
  <2>1. CASE finished' = finished
    BY <2>1, <2>g DEF OnceInv, Ran
  <2>2. CASE Records(p, r)
    <3>1. File(p) \in Known /\ ~ Ran(ledger, File(p))
      BY <2>2, BegunHasNoRow DEF Records
    <3>2. finished[File(p)] = 0
      BY <2>t, <3>1 DEF OnceInv
    <3>3. Ran(ledger', File(p))
      <4>1. ledger'[File(p)] = "current"
        BY <2>2, <3>1, BaseFacts DEF Records, Names
      <4> QED BY <4>1 DEF Ran
    <3>4. ASSUME NEW f \in Known
          PROVE  finished'[f] <= 1 /\ (finished'[f] = 1 => Ran(ledger', f))
      <4>1. CASE f = File(p)
        BY <2>2, <2>t, <3>1, <3>2, <3>3, <4>1 DEF Records
      <4>2. CASE f # File(p)
        BY <2>2, <2>t, <2>g, <4>2 DEF Records, OnceInv
      <4> QED BY <4>1, <4>2
    <3> QED BY <3>4 DEF OnceInv, Ran
  <2>3. CASE Seeds(p, r)
    <3>1. ASSUME NEW f \in Known
          PROVE  finished'[f] <= 1 /\ (finished'[f] = 1 => Ran(ledger', f))
      <4>1. finished'[f] = IF Ran(ledger', f) THEN AtLeast(finished[f], 1) ELSE finished[f]
        BY <2>3 DEF Seeds
      <4>2. finished[f] \in Nat /\ finished[f] <= 1 /\ (finished[f] = 1 => Ran(ledger', f))
        BY <2>t, <2>g DEF OnceInv
      <4> QED BY <4>1, <4>2 DEF AtLeast
    <3> QED BY <3>1 DEF OnceInv, Ran
  <2> QED
    BY <1>2, <2>1, <2>2, <2>3
    DEF Effect, Quiet, FindsEmpty, Loads, Skips, Heals, Baselines, Begins, Executes, Verifies, Opens, Same
<1> QED BY <1>1, <1>2, NextMoves

\* The rows a seeding writes stay.
LEMMA SeededInductive ==
    ASSUME BaseInv, SeededInv, [Next]_vars
    PROVE  SeededInv'
<1>1. CASE UNCHANGED vars
  BY <1>1 DEF vars, SeededInv
<1>2. ASSUME NEW p \in Processes, NEW r \in ProcRecord, Moves(p, r), Effect(p, r)
      PROVE  SeededInv'
  <2>f. FileSet \subseteq Names
    BY FileFacts DEF Names
  <2>1. CASE seeded' = seeded
    BY <1>2, <2>1, <2>f, LedgerGrows DEF SeededInv
  <2>2. CASE Seeds(p, r)
    BY <2>2, <2>f DEF Seeds, SeededInv
  <2> QED
    BY <1>2, <2>1, <2>2
    DEF Effect, Quiet, FindsEmpty, Loads, Skips, Heals, Baselines, Begins, Executes, Records, Verifies, Opens, Same
<1> QED BY <1>1, <1>2, NextMoves

\* No statement runs on a seeded database: the process that would run it found its file
\* without a row.
LEMMA SeededStands ==
    ASSUME BaseInv, SnapshotInv, SeededInv, [Next]_vars
    PROVE  seeded => executed' = executed
<1>1. CASE UNCHANGED vars
  BY <1>1 DEF vars
<1>2. ASSUME NEW p \in Processes, NEW r \in ProcRecord, Effect(p, r), seeded
      PROVE  executed' = executed
  <2>1. CASE Executes(p, r)
    <3>1. ledger[File(p)] = "absent" /\ proc[p].at \in 1 .. Len(Files)
      BY <2>1, BegunHasNoRow DEF Executes
    <3>2. File(p) \in FileSet
      BY <3>1, FileFacts DEF File
    <3> QED BY <1>2, <3>1, <3>2 DEF SeededInv
  <2> QED
    BY <1>2, <2>1
    DEF Effect, Quiet, FindsEmpty, Loads, Skips, Heals, Baselines, Begins, Records, Seeds, Verifies, Opens, Same
<1> QED BY <1>1, <1>2, NextMoves

-----------------------------------------------------------------------------
(* The ledger and the live schema. *)

\* The column a file leads to is there.
Reached(f, d) ==
    /\ f = "widen-ids" => d.ids = 3 /\ d.fk
    /\ f = "expiration" => BigintExpiration(d)
    /\ f = "events-data" => d.events = "mediumtext"
    /\ f = "pubkeys-widen" => d.pubkey = 130
    /\ f = "utf8mb4" => d.txData = "utf8mb4"
    /\ f = "raw-strings" => d.shape = "raw"

\* What the statements before the k-th have achieved.
Progress(f, k, d) ==
    /\ f = "widen-ids" => (k > 4 => d.ids = 3) /\ (k > 5 => d.fk)
    /\ f = "expiration" => (k \in 2 .. 4 => d.hold # "absent") /\ (k > 4 => BigintExpiration(d))
    /\ f = "events-data" => (k > 1 => d.events = "mediumtext")
    /\ f = "pubkeys-widen" => (k > 1 => d.pubkey = 130)
    /\ f = "utf8mb4" => (k > 1 => d.txData = "utf8mb4")
    /\ f = "raw-strings" => (k > 2 => d.shape = "raw")

TruthInv ==
    /\ \A f \in Known : ledger[f] # "absent" => Reached(f, db)
    /\ db.tables \subseteq {"mempool"} => \A f \in Known : Reached(f, db)
    /\ proc["decoder"].pc = "seed" => db.tables \subseteq {"mempool"}
    /\ \A p \in Processes : proc[p].pc \in {"apply", "record"} => Progress(Files[proc[p].at], proc[p].stmt, db)

\* The statements that take something away belong to the file that gives it back.
LEMMA StatementOwner ==
    ASSUME NEW f \in Known, NEW k \in 1 .. Count(f)
    PROVE  /\ Statements[f][k] = "dropFk" => f = "widen-ids"
           /\ Statements[f][k] \in {"copyExpiration", "dropExpiration", "renameHolding"} => f = "expiration"
<1>1. CASE f = "widen-ids"
  BY <1>1, StatementLists DEF Count
<1>2. CASE f = "expiration"
  BY <1>2, StatementLists DEF Count
<1>3. CASE f \in {"events-data", "pubkeys-widen", "first-seen", "first-seen-datetime"}
  BY <1>3, StatementLists DEF Count
<1>4. CASE f = "raw-strings"
  BY <1>4, StatementLists DEF Count
<1>5. CASE f = "utf8mb4"
  BY <1>5, StatementLists DEF Count
<1> QED BY <1>1, <1>2, <1>3, <1>4, <1>5 DEF Known

\* What a file has reached survives a step that keeps fk and exp.
LEMMA ReachedKept ==
    ASSUME NEW d \in Schema, NEW e \in Schema, SchemaKeeps(d, e), NEW f, Reached(f, d),
           f = "widen-ids" => (d.fk => e.fk),
           f = "expiration" => (BigintExpiration(d) => BigintExpiration(e))
    PROVE  Reached(f, e)
<1>1. d.ids \in 0 .. 3 /\ e.ids \in 0 .. 3
  BY DEF Schema
<1>2. d.ids = 3 => e.ids = 3
  BY <1>1 DEF SchemaKeeps
<1> QED BY <1>2 DEF Reached, SchemaKeeps

\* So does the progress inside a file.
LEMMA ProgressKept ==
    ASSUME NEW d \in Schema, NEW e \in Schema, SchemaKeeps(d, e), NEW f, NEW k, Progress(f, k, d),
           d.fk => e.fk, BigintExpiration(d) => BigintExpiration(e), e.hold = d.hold
    PROVE  Progress(f, k, e)
<1>1. d.ids \in 0 .. 3 /\ e.ids \in 0 .. 3
  BY DEF Schema
<1>2. d.ids = 3 => e.ids = 3
  BY <1>1 DEF SchemaKeeps
<1> QED BY <1>2 DEF Progress, SchemaKeeps

\* The whole of a file's statements reaches what its row vouches for.
LEMMA ProgressDone ==
    ASSUME NEW f \in Known, NEW d, Progress(f, Count(f) + 1, d)
    PROVE  Reached(f, d)
<1>1. /\ f = "widen-ids" => Count(f) = 5
      /\ f = "expiration" => Count(f) = 4
      /\ f \in {"events-data", "pubkeys-widen"} => Count(f) = 1
      /\ f = "utf8mb4" => Count(f) = 2
      /\ f = "raw-strings" => Count(f) = 3
  BY StatementLists DEF Count
<1>2. /\ f = "widen-ids" => Count(f) + 1 > 4 /\ Count(f) + 1 > 5
      /\ f = "expiration" => Count(f) + 1 > 4
      /\ f \in {"events-data", "pubkeys-widen", "utf8mb4"} => Count(f) + 1 > 1
      /\ f = "raw-strings" => Count(f) + 1 > 2
  BY <1>1
<1> QED BY <1>2 DEF Progress, Reached

\* A statement extends the progress of its file.
LEMMA ProgressExtends ==
    ASSUME NEW d \in Schema, NEW f \in Known, NEW k \in 1 .. Count(f), Progress(f, k, d),
           ~ Refused(d, Statements[f][k])
    PROVE  Progress(f, k + 1, Exec(d, Statements[f][k]))
<1> DEFINE s == Statements[f][k]
           e == Exec(d, s)
<1>s. s \in AllStatements
  BY StatementBounds
<1>k. e \in Schema /\ SchemaKeeps(d, e) /\ d.ids \in 0 .. 3 /\ e.ids \in 0 .. 3
  BY <1>s, ExecKeeps DEF Schema
<1>1. CASE f = "widen-ids"
  <2>1. k \in 1 .. 5
    BY <1>1, StatementLists DEF Count
  <2>2. k = 4 => e.ids = 3
    BY <1>1, <1>s, StatementLists, ExecReaches
  <2>3. k = 5 => e.fk
    BY <1>1, <1>s, StatementLists, ExecReaches
  <2>4. d.ids = 3 => e.ids = 3
    BY <1>k DEF SchemaKeeps
  <2>5. k + 1 > 4 => e.ids = 3
    BY <1>1, <2>1, <2>2, <2>4 DEF Progress
  <2>6. k + 1 > 5 => e.fk
    BY <2>1, <2>3
  <2> QED BY <1>1, <2>5, <2>6 DEF Progress
<1>2. CASE f = "expiration"
  <2>1. k \in 1 .. 4
    BY <1>2, StatementLists DEF Count
  <2>2. k = 1 => e.hold # "absent"
    BY <1>2, <1>s, StatementLists, ExecReaches
  <2>3. k \in 2 .. 3 => e.hold # "absent"
    <3>1. k \in 2 .. 3 => d.hold # "absent" /\ s # "renameHolding"
      BY <1>2, StatementLists DEF Progress
    <3> QED BY <1>s, <3>1, ExecKeeps
  <2>4. k = 4 => BigintExpiration(e)
    <3>1. k = 4 => d.hold # "absent" /\ s = "renameHolding"
      BY <1>2, StatementLists DEF Progress
    <3> QED BY <1>s, <3>1, ExecReaches
  <2>5. k + 1 \in 2 .. 4 => e.hold # "absent"
    BY <2>1, <2>2, <2>3
  <2>6. k + 1 > 4 => BigintExpiration(e)
    BY <2>1, <2>4
  <2> QED BY <1>2, <2>5, <2>6 DEF Progress
<1>3. CASE f \in {"events-data", "pubkeys-widen"}
  <2>1. k = 1
    BY <1>3, StatementLists DEF Count
  <2>2. (f = "events-data" => e.events = "mediumtext") /\ (f = "pubkeys-widen" => e.pubkey = 130)
    BY <1>3, <1>s, <2>1, StatementLists, ExecReaches
  <2> QED BY <1>3, <2>2 DEF Progress
<1>4. CASE f = "utf8mb4"
  <2>1. k \in 1 .. 2
    BY <1>4, StatementLists DEF Count
  <2>2. k = 1 => e.txData = "utf8mb4"
    BY <1>4, <1>s, StatementLists, ExecReaches
  <2>3. k = 2 => e.txData = "utf8mb4"
    BY <1>4, <1>k DEF Progress, SchemaKeeps
  <2> QED BY <1>4, <2>1, <2>2, <2>3 DEF Progress
<1>5. CASE f = "raw-strings"
  <2>1. k \in 1 .. 3
    BY <1>5, StatementLists DEF Count
  <2>2. k = 2 => e.shape = "raw"
    BY <1>5, <1>s, StatementLists, ExecReaches
  <2>3. k = 3 => e.shape = "raw"
    BY <1>5, <1>k DEF Progress, SchemaKeeps
  <2>4. k + 1 > 2 => e.shape = "raw"
    BY <2>1, <2>2, <2>3
  <2> QED BY <1>5, <2>4 DEF Progress
<1>6. CASE f \in {"first-seen", "first-seen-datetime"}
  BY <1>6 DEF Progress
<1> QED BY <1>1, <1>2, <1>3, <1>4, <1>5, <1>6 DEF Known

\* A precondition that holds is what the file would have reached.
LEMMA BaselineReached ==
    ASSUME NEW f \in Known, NEW d, MigrationPreconditionSkip(d, f)
    PROVE  Reached(f, d)
BY DEF MigrationPreconditionSkip, Reached, Known, IdsAreWide, ExpirationIsInteger, MempoolHoldsStrings,
       PubkeyIsWide, DataIsUtf8mb4, FirstSeenIsDatetime

\* The boot's DDL, and a service that opens, keep what the ledger vouches for.
LEMMA TruthKept ==
    ASSUME BaseInv, TruthInv, NEW p \in Processes, NEW r \in ProcRecord, Moves(p, r),
           r.pc \notin {"seed", "apply", "record"}, UNCHANGED ledger,
           db' \in Schema, SchemaKeeps(db, db'), db.fk => db'.fk,
           BigintExpiration(db) => BigintExpiration(db'), db'.hold = db.hold,
           db'.tables \subseteq {"mempool"} \/ p = "decoder" \/ proc["decoder"].pc # "seed" \/ db'.tables = db.tables
    PROVE  TruthInv'
<1>m. db \in Schema /\ proc'[p] = r /\ \A q \in Processes \ {p} : proc'[q] = proc[q]
  BY MoveFacts, BaseFacts
<1>1. \A f \in Known : ledger'[f] # "absent" => Reached(f, db')
  BY <1>m, ReachedKept DEF TruthInv
<1>2. db'.tables \subseteq {"mempool"} => \A f \in Known : Reached(f, db')
  <2>1. db'.tables \subseteq {"mempool"} => db.tables \subseteq {"mempool"}
    BY DEF SchemaKeeps
  <2> QED BY <1>m, <2>1, ReachedKept DEF TruthInv
<1>3. proc'["decoder"].pc = "seed" => db'.tables \subseteq {"mempool"}
  BY <1>m DEF TruthInv, Processes
<1>4. \A q \in Processes : proc'[q].pc \in {"apply", "record"} => Progress(Files[proc'[q].at], proc'[q].stmt, db')
  BY <1>m, ProgressKept DEF TruthInv
<1> QED BY <1>1, <1>2, <1>3, <1>4 DEF TruthInv, Reached, Progress, BigintExpiration

\* The ledger tells the truth in every state.
LEMMA TruthInductive ==
    ASSUME BaseInv, SnapshotInv, TruthInv, [Next]_vars
    PROVE  TruthInv'
<1>1. CASE UNCHANGED vars
  BY <1>1 DEF vars, TruthInv, Reached, Progress, BigintExpiration
<1>2. ASSUME NEW p \in Processes, NEW r \in ProcRecord, Moves(p, r), Effect(p, r)
      PROVE  TruthInv'
  <2>m. /\ db \in Schema /\ proc[p] \in ProcRecord /\ ledger \in [Names -> Checksums]
        /\ proc'[p] = r /\ \A q \in Processes \ {p} : proc'[q] = proc[q]
        /\ \A q \in Processes : proc[q].pc \in Held => lock = q
        /\ proc[p].at \in 1 .. Len(Files) => File(p) \in Known /\ File(p) \in Names
    BY <1>2, MoveFacts, BaseFacts
  <2>t. proc[p].at \in 1 .. Len(Files) + 1 /\ Len(Files) \in Nat
    BY BaseFacts, FileFacts
  <2>1. CASE Quiet(p, r) \/ FindsEmpty(p, r) \/ Loads(p, r) \/ Skips(p, r) \/ Begins(p, r)
    <3>1. db' = db /\ ledger' = ledger
      BY <2>1 DEF Quiet, FindsEmpty, Loads, Skips, Begins, Same
    <3>2. proc'["decoder"].pc = "seed" => db.tables \subseteq {"mempool"}
      BY <2>1, <2>m DEF Quiet, FindsEmpty, Loads, Skips, Passes, Begins, Away, TruthInv, Processes
    <3>3. r.pc \in {"apply", "record"} => r.pc = "apply" /\ r.stmt = 1
      BY <2>1 DEF Quiet, FindsEmpty, Loads, Skips, Passes, Begins, Away
    <3>4. Progress(Files[r.at], 1, db)
      BY DEF Progress
    <3>5. \A q \in Processes : proc'[q].pc \in {"apply", "record"} => Progress(Files[proc'[q].at], proc'[q].stmt, db)
      BY <2>m, <3>3, <3>4 DEF TruthInv
    <3> QED BY <3>1, <3>2, <3>5 DEF TruthInv, Reached, Progress, BigintExpiration
  <2>2. ASSUME proc[p].pc \in {"file", "record"}, proc[p].at \in 1 .. Len(Files), r.pc = "file", db' = db,
               ledger' = [ledger EXCEPT ![File(p)] = "current"], Reached(File(p), db)
        PROVE  TruthInv'
    <3>1. \A f \in Known : ledger'[f] # "absent" => Reached(f, db)
      BY <2>2, <2>m DEF TruthInv, Names
    <3>2. proc'["decoder"].pc = "seed" => db.tables \subseteq {"mempool"}
      BY <2>2, <2>m DEF TruthInv, Processes
    <3>3. \A q \in Processes : proc'[q].pc \in {"apply", "record"} => Progress(Files[proc'[q].at], proc'[q].stmt, db)
      BY <2>2, <2>m DEF TruthInv
    <3> QED BY <2>2, <3>1, <3>2, <3>3 DEF TruthInv, Reached, Progress, BigintExpiration
  <2>3. CASE Heals(p, r)
    <3>1. proc[p].at \in 1 .. Len(Files) /\ proc[p].pc = "file" /\ SnapshotOf(proc[p], ledger)
      BY <2>3, <2>t DEF Heals, Passes, SnapshotInv, InRun
    <3>2. File(p) \in Known /\ File(p) \in Names
      BY <2>m, <3>1
    <3>3. File(p) = Renamed
      BY <2>3, <3>1, <3>2 DEF Heals, SnapshotOf, LedgerShape
    <3>4. ledger[File(p)] # "absent"
      BY <2>3, <3>1, <3>2 DEF Heals, SnapshotOf
    <3>5. Reached(File(p), db)
      BY <3>2, <3>4 DEF TruthInv
    <3> QED BY <2>2, <2>3, <3>1, <3>5 DEF Heals, Passes
  <2>4. CASE Baselines(p, r)
    <3>1. proc[p].at \in 1 .. Len(Files)
      BY <2>4, <2>t DEF Baselines, Passes
    <3>2. Reached(File(p), db)
      BY <2>4, <2>m, <3>1, BaselineReached DEF Baselines
    <3> QED BY <2>2, <2>4, <3>1, <3>2 DEF Baselines, Passes
  <2>5. CASE Records(p, r)
    <3>1. proc[p].pc = "record" /\ proc[p].at \in 1 .. Len(Files) /\ File(p) \in Known
      BY <2>5, BegunHasNoRow DEF Records
    <3>2. proc[p].stmt = Count(File(p)) + 1
      BY <3>1 DEF BaseInv, RowInv, Cursor, File
    <3>3. Progress(File(p), Count(File(p)) + 1, db)
      BY <3>1, <3>2 DEF TruthInv, File
    <3>4. Reached(File(p), db)
      BY <3>1, <3>3, ProgressDone
    <3> QED BY <2>2, <2>5, <3>1, <3>4 DEF Records
  <2>6. CASE Seeds(p, r)
    <3>1. \A f \in Known : Reached(f, db)
      BY <2>6 DEF Seeds, TruthInv
    <3>2. proc'["decoder"].pc # "seed"
      BY <2>6, <2>m DEF Seeds
    <3>3. \A q \in Processes : proc'[q].pc \in {"apply", "record"} => Progress(Files[proc'[q].at], proc'[q].stmt, db)
      BY <2>6, <2>m DEF Seeds, TruthInv
    <3> QED BY <2>6, <3>1, <3>2, <3>3 DEF Seeds, TruthInv, Reached, Progress, BigintExpiration
  <2>7. CASE Verifies(p, r)
    <3>1. /\ db' \in Schema /\ SchemaKeeps(db, db') /\ (db.fk => db'.fk)
          /\ (BigintExpiration(db) => BigintExpiration(db')) /\ db'.hold = db.hold
      BY <2>7, <2>m, BootKeeps DEF Verifies
    <3> QED BY <1>2, <2>7, <3>1, TruthKept DEF Verifies
  <2>8. CASE Opens(p, r)
    <3>1. PICK b \in BOOLEAN : (db.rows => b) /\ db' = [db EXCEPT !.rows = b]
      BY <2>8 DEF Opens
    <3>2. db' \in Schema
      BY <2>m, <3>1 DEF Schema
    <3>3. /\ db'.tables = db.tables /\ db'.ids = db.ids /\ db'.events = db.events /\ db'.pubkey = db.pubkey
          /\ db'.txData = db.txData /\ db'.shape = db.shape /\ db'.rows = b
      BY <2>m, <3>1 DEF Schema
    <3>4. db'.fk = db.fk /\ db'.exp = db.exp /\ db'.hold = db.hold
      BY <2>m, <3>1 DEF Schema
    <3>5. db.ids \in 0 .. 3
      BY <2>m DEF Schema
    <3>6. SchemaKeeps(db, db')
      BY <3>1, <3>3, <3>5 DEF SchemaKeeps
    <3>7. r.pc \notin {"seed", "apply", "record"} /\ ledger' = ledger
      BY <2>8 DEF Opens, Away
    <3>8. BigintExpiration(db) => BigintExpiration(db')
      BY <3>4 DEF BigintExpiration
    <3> QED BY <1>2, <3>2, <3>3, <3>4, <3>6, <3>7, <3>8, TruthKept
  <2>9. CASE Executes(p, r)
    <3> DEFINE s == Statements[File(p)][proc[p].stmt]
    <3>1. proc[p].pc = "apply" /\ proc[p].at \in 1 .. Len(Files) /\ File(p) \in Known /\ ledger[File(p)] = "absent"
      BY <2>9, BegunHasNoRow DEF Executes
    <3>2. proc[p].stmt <= Count(File(p)) /\ proc[p].stmt \in 1 .. 6
      BY <2>m, <3>1 DEF BaseInv, RowInv, Cursor, File, ProcRecord
    <3>3. Count(File(p)) \in 1 .. 5
      BY <3>1, StatementBounds
    <3>4. proc[p].stmt \in 1 .. Count(File(p))
      BY <3>2, <3>3
    <3>5. s \in AllStatements /\ ~ Refused(db, s) /\ db' = Exec(db, s) /\ ledger' = ledger
      BY <2>9, <3>1, <3>4, StatementBounds DEF Executes
    <3>6. /\ db' \in Schema /\ SchemaKeeps(db, db') /\ (s # "dropFk" => (db.fk => db'.fk))
          /\ (s # "dropExpiration" => (BigintExpiration(db) => BigintExpiration(db')))
      BY <2>m, <3>5, ExecKeeps
    <3>7. (s = "dropFk" => File(p) = "widen-ids") /\ (s = "dropExpiration" => File(p) = "expiration")
      BY <3>1, <3>4, StatementOwner
    <3>8. \A f \in Known : ledger'[f] # "absent" => Reached(f, db')
      <4> SUFFICES ASSUME NEW f \in Known, ledger[f] # "absent"
                   PROVE  Reached(f, db')
        BY <3>5
      <4>1. f # File(p) /\ Reached(f, db)
        BY <3>1 DEF TruthInv
      <4>2. (f = "widen-ids" => (db.fk => db'.fk))
        BY <3>6, <3>7, <4>1
      <4>3. (f = "expiration" => (BigintExpiration(db) => BigintExpiration(db')))
        BY <3>6, <3>7, <4>1
      <4> HIDE DEF s
      <4> QED BY <2>m, <3>6, <4>1, <4>2, <4>3, ReachedKept
    <3>9. ASSUME db.tables \subseteq {"mempool"}
          PROVE  db'.tables \subseteq {"mempool"} /\ \A f \in Known : Reached(f, db')
      <4>1. s \notin {"dropFk", "dropExpiration"} /\ db'.tables \subseteq {"mempool"}
        BY <2>m, <3>5, <3>9, ExecOnEmpty
      <4> QED BY <2>m, <3>6, <3>9, <4>1, ReachedKept DEF TruthInv
    <3>10. db'.tables \subseteq {"mempool"} => db.tables \subseteq {"mempool"}
      BY <3>6 DEF SchemaKeeps
    <3>11. proc'["decoder"].pc = "seed" => db.tables \subseteq {"mempool"}
      BY <2>9, <2>m DEF Executes, TruthInv, Processes
    <3>12. \A q \in Processes \ {p} : proc'[q].pc \notin {"apply", "record"}
      BY <2>m, <3>1 DEF Held
    <3>13. Progress(File(p), proc[p].stmt + 1, db')
      <4>1. Progress(File(p), proc[p].stmt, db)
        BY <3>1 DEF TruthInv, File
      <4> QED BY <2>m, <3>1, <3>4, <3>5, <4>1, ProgressExtends
    <3>14. Progress(Files[r.at], r.stmt, db')
      BY <2>9, <3>13 DEF Executes, File
    <3>15. \A q \in Processes : proc'[q].pc \in {"apply", "record"} => Progress(Files[proc'[q].at], proc'[q].stmt, db')
      BY <2>m, <3>12, <3>14
    <3> QED BY <3>8, <3>9, <3>10, <3>11, <3>15 DEF TruthInv, Reached, Progress, BigintExpiration
  <2> QED BY <1>2, <2>1, <2>3, <2>4, <2>5, <2>6, <2>7, <2>8, <2>9 DEF Effect
<1> QED BY <1>1, <1>2, NextMoves

-----------------------------------------------------------------------------
(* The expirations. *)

\* On an established database the precondition is read over a column that holds the
\* original values or is gone, and the boot beside the run can only add an empty one:
\* the values are copied before they are dropped.
ExpirationInv ==
    /\ db.rows /\ "dispensers" \in db.tables
    /\ ExpirationsRecoverable
    /\ \A p \in Processes :
          proc[p].pc \in {"apply", "record"} /\ Files[proc[p].at] = "expiration" =>
             /\ proc[p].stmt \in 1 .. 2 => db.exp # "converted"
             /\ proc[p].stmt \in 3 .. 4 => db.hold = "converted"

\* The two statements in the middle of the file.
LEMMA ExecExpiration ==
    ASSUME NEW d \in Schema
    PROVE  /\ LET e == Exec(d, "copyExpiration")
              IN  /\ e.exp = d.exp
                  /\ d.exp = "datetime" => e.hold = "converted"
                  /\ d.exp = "nulls" => e.hold = d.hold
           /\ Exec(d, "dropExpiration").hold = d.hold
<1>1. /\ Exec(d, "copyExpiration").exp = d.exp
      /\ d.exp = "datetime" => Exec(d, "copyExpiration").hold = "converted"
      /\ d.exp = "nulls" => Exec(d, "copyExpiration").hold = d.hold
  BY DEF Exec, Schema
<1>2. Exec(d, "dropExpiration").hold = d.hold
  BY DEF Exec, Schema
<1> QED BY <1>1, <1>2

\* The expirations are recoverable in every state.
LEMMA ExpirationInductive ==
    ASSUME BaseInv, SnapshotInv, ExpirationInv, [Next]_vars
    PROVE  ExpirationInv'
<1>1. CASE UNCHANGED vars
  BY <1>1 DEF vars, ExpirationInv, ExpirationsRecoverable
<1>2. ASSUME NEW p \in Processes, NEW r \in ProcRecord, Moves(p, r), Effect(p, r)
      PROVE  ExpirationInv'
  <2>m. /\ db \in Schema /\ proc[p] \in ProcRecord
        /\ proc'[p] = r /\ \A q \in Processes \ {p} : proc'[q] = proc[q]
        /\ \A q \in Processes : proc[q].pc \in Held => lock = q
    BY <1>2, MoveFacts, BaseFacts
  <2>1. ASSUME r.pc \notin {"apply", "record"}, db'.rows, "dispensers" \in db'.tables, db'.hold = db.hold,
               db'.exp = db.exp \/ (db.exp = "absent" /\ db'.exp = "nulls")
        PROVE  ExpirationInv'
    <3>1. ExpirationsRecoverable'
      BY <2>1 DEF ExpirationInv, ExpirationsRecoverable
    <3>2. \A q \in Processes :
             proc'[q].pc \in {"apply", "record"} /\ Files[proc'[q].at] = "expiration" =>
                /\ proc'[q].stmt \in 1 .. 2 => db'.exp # "converted"
                /\ proc'[q].stmt \in 3 .. 4 => db'.hold = "converted"
      BY <2>1, <2>m DEF ExpirationInv
    <3> QED BY <2>1, <3>1, <3>2 DEF ExpirationInv
  <2>2. CASE db' = db /\ r.pc \notin {"apply", "record"}
    BY <2>1, <2>2 DEF ExpirationInv
  <2>3. CASE Begins(p, r)
    <3>1. db' = db /\ r.stmt = 1 /\ r.at = proc[p].at
      BY <2>3 DEF Begins, Same
    <3>2. Files[r.at] = "expiration" => db.exp # "converted"
      BY <2>3, <3>1
      DEF Begins, File, MigrationPreconditionSkip, ExpirationIsInteger, BigintExpiration, ExpirationInv
    <3>3. \A q \in Processes :
             proc'[q].pc \in {"apply", "record"} /\ Files[proc'[q].at] = "expiration" =>
                /\ proc'[q].stmt \in 1 .. 2 => db'.exp # "converted"
                /\ proc'[q].stmt \in 3 .. 4 => db'.hold = "converted"
      BY <2>m, <3>1, <3>2 DEF ExpirationInv
    <3> QED BY <3>1, <3>3 DEF ExpirationInv, ExpirationsRecoverable
  <2>4. CASE Verifies(p, r)
    <3>1. PICK t \in TableSet : db' \in {CreateTable(db, t), ReconcileTableIndexes(AlterTableForDrift(db, t), t)}
      BY <2>4 DEF Verifies
    <3>2. /\ SchemaKeeps(db, db') /\ db'.hold = db.hold /\ db'.rows = db.rows
          /\ (db.exp # "absent" => db'.exp = db.exp)
          /\ (db.exp = "absent" => db'.exp \in {"absent", NewColumn(db)})
      BY <2>m, <3>1, BootKeeps
    <3>3. NewColumn(db) = "nulls" /\ db'.rows /\ "dispensers" \in db'.tables
      BY <3>2 DEF ExpirationInv, NewColumn, SchemaKeeps
    <3> QED BY <2>1, <2>4, <3>2, <3>3 DEF Verifies
  <2>5. CASE Opens(p, r)
    <3>1. PICK b \in BOOLEAN : (db.rows => b) /\ db' = [db EXCEPT !.rows = b]
      BY <2>5 DEF Opens
    <3>2. db'.tables = db.tables /\ db'.rows = b /\ db'.exp = db.exp /\ db'.hold = db.hold
      BY <2>m, <3>1 DEF Schema
    <3> QED BY <2>1, <2>5, <3>1, <3>2 DEF Opens, Away, ExpirationInv
  <2>6. CASE Executes(p, r)
    <3> DEFINE s == Statements[File(p)][proc[p].stmt]
    <3>1. proc[p].pc = "apply" /\ proc[p].at \in 1 .. Len(Files) /\ File(p) \in Known
      BY <2>6, BegunHasNoRow DEF Executes
    <3>2. proc[p].stmt <= Count(File(p)) /\ proc[p].stmt \in 1 .. 6
      BY <2>m, <3>1 DEF BaseInv, RowInv, Cursor, File, ProcRecord
    <3>3. Count(File(p)) \in 1 .. 5
      BY <3>1, StatementBounds
    <3>4. proc[p].stmt \in 1 .. Count(File(p))
      BY <3>2, <3>3
    <3>5. s \in AllStatements /\ ~ Refused(db, s) /\ db' = Exec(db, s)
      BY <2>6, <3>1, <3>4, StatementBounds DEF Executes
    <3>6. db'.rows /\ "dispensers" \in db'.tables
      BY <2>m, <3>5, ExecKeeps DEF ExpirationInv, SchemaKeeps
    <3>7. \A q \in Processes \ {p} : proc'[q].pc \notin {"apply", "record"}
      BY <2>m, <3>1 DEF Held
    <3>8. r.at = proc[p].at /\ r.stmt = proc[p].stmt + 1
      BY <2>6 DEF Executes
    <3>9. ASSUME File(p) # "expiration"
          PROVE  ExpirationInv'
      <4>1. s \notin {"copyExpiration", "dropExpiration", "renameHolding"}
        BY <3>1, <3>4, <3>9, StatementOwner
      <4>2. db'.exp = db.exp /\ (db.hold = "converted" => db'.hold = "converted")
        BY <2>m, <3>5, <4>1, ExecKeeps
      <4>3. ExpirationsRecoverable'
        BY <4>2 DEF ExpirationInv, ExpirationsRecoverable
      <4> QED BY <2>m, <3>6, <3>7, <3>8, <3>9, <4>3 DEF ExpirationInv, File
    <3>10. ASSUME File(p) = "expiration", ExpirationsRecoverable',
                  proc[p].stmt = 1 => db'.exp # "converted",
                  proc[p].stmt \in 2 .. 3 => db'.hold = "converted"
           PROVE  ExpirationInv'
      <4>1. (r.stmt \in 1 .. 2 => proc[p].stmt = 1) /\ (r.stmt \in 3 .. 4 => proc[p].stmt \in 2 .. 3)
        BY <3>2, <3>8
      <4> QED BY <2>m, <3>6, <3>7, <3>10, <4>1 DEF ExpirationInv
    <3>11. ASSUME File(p) = "expiration"
           PROVE  ExpirationInv'
      <4>0. /\ proc[p].stmt \in 1 .. 2 => db.exp # "converted"
            /\ proc[p].stmt \in 3 .. 4 => db.hold = "converted"
            /\ ExpirationsRecoverable
        BY <3>1, <3>11 DEF ExpirationInv, File
      <4>k. proc[p].stmt \in 1 .. 4
        BY <3>4, <3>11, StatementLists DEF Count
      <4>1. CASE proc[p].stmt = 1
        <5>1. s = "addHolding"
          BY <3>11, <4>1, StatementLists
        <5>2. db'.exp = db.exp /\ (db.hold = "converted" => db'.hold = "converted")
          BY <2>m, <3>5, <5>1, ExecKeeps
        <5>3. ExpirationsRecoverable' /\ db'.exp # "converted"
          BY <4>0, <4>1, <5>2 DEF ExpirationsRecoverable
        <5> QED BY <3>10, <3>11, <4>1, <5>3
      <4>2. CASE proc[p].stmt = 2
        <5>1. s = "copyExpiration"
          BY <3>11, <4>2, StatementLists
        <5>2. db.exp \in {"datetime", "nulls"}
          <6>1. db.exp # "absent"
            BY <3>5, <5>1 DEF Refused
          <6>2. db.exp # "converted"
            BY <4>0, <4>2
          <6> QED BY <2>m, <6>1, <6>2 DEF Schema
        <5>3. db'.hold = "converted"
          BY <2>m, <3>5, <4>0, <5>1, <5>2, ExecExpiration DEF ExpirationsRecoverable
        <5>4. ExpirationsRecoverable'
          BY <5>3 DEF ExpirationsRecoverable
        <5> QED BY <3>10, <3>11, <4>2, <5>3, <5>4
      <4>3. CASE proc[p].stmt = 3
        <5>1. s = "dropExpiration"
          BY <3>11, <4>3, StatementLists
        <5>2. db'.hold = "converted"
          BY <2>m, <3>5, <4>0, <4>3, <5>1, ExecExpiration
        <5>3. ExpirationsRecoverable'
          BY <5>2 DEF ExpirationsRecoverable
        <5> QED BY <3>10, <3>11, <4>3, <5>2, <5>3
      <4>4. CASE proc[p].stmt = 4
        <5>1. s = "renameHolding"
          BY <3>11, <4>4, StatementLists
        <5>2. db.hold = "converted"
          BY <4>0, <4>4
        <5>3. db'.exp = "converted"
          BY <2>m, <3>5, <5>1, <5>2, ExecReaches
        <5>4. ExpirationsRecoverable'
          BY <5>3 DEF ExpirationsRecoverable
        <5> QED BY <3>10, <3>11, <4>4, <5>4
      <4> QED BY <4>k, <4>1, <4>2, <4>3, <4>4
    <3> QED BY <3>9, <3>11
  <2>7. CASE ~ (Begins(p, r) \/ Executes(p, r) \/ Verifies(p, r) \/ Opens(p, r))
    BY <1>2, <2>2, <2>7
    DEF Effect, Quiet, FindsEmpty, Loads, Skips, Heals, Baselines, Passes, Records, Seeds, Same, Away
  <2> QED BY <2>3, <2>4, <2>5, <2>6, <2>7
<1> QED BY <1>1, <1>2, NextMoves

-----------------------------------------------------------------------------
(* The initial states, and the theorems. *)

\* The databases of the origins have a schema.
LEMMA OriginSchemas ==
    /\ Current \in Schema /\ Legacy \in Schema
    /\ [Current EXCEPT !.tables = {}, !.rows = FALSE] \in Schema
    /\ [Legacy EXCEPT !.events = "mediumtext"] \in Schema
    /\ Legacy.rows = TRUE /\ Legacy.tables = TableSet /\ Legacy.exp = "datetime"
<1>1. Current \in Schema
  BY DEF Current, Schema
<1>2. Legacy.rows = TRUE /\ Legacy.tables = TableSet /\ Legacy.exp = "datetime"
  BY DEF Legacy
<1>3. Legacy \in Schema
  BY DEF Legacy, Schema
<1>4. [Legacy EXCEPT !.events = "mediumtext"] \in Schema
  BY <1>3 DEF Schema
<1>5. [Current EXCEPT !.tables = {}, !.rows = FALSE] \in Schema
  <2>1. [Current EXCEPT !.tables = {}] \in Schema
    BY <1>1, SchemaUpdates
  <2>2. [[Current EXCEPT !.tables = {}] EXCEPT !.rows = FALSE] \in Schema
    BY <2>1 DEF Schema
  <2>3. [Current EXCEPT !.tables = {}, !.rows = FALSE] = [[Current EXCEPT !.tables = {}] EXCEPT !.rows = FALSE]
    OBVIOUS
  <2> QED BY <2>2, <2>3
<1> QED BY <1>1, <1>2, <1>3, <1>4, <1>5

\* An empty ledger, and one with a single row.
LEMMA OriginLedgers ==
    /\ NoRows \in [Names -> Checksums] /\ \A n \in Names : NoRows[n] = "absent"
    /\ \A n \in Names, c \in Checksums :
          /\ [NoRows EXCEPT ![n] = c] \in [Names -> Checksums]
          /\ [NoRows EXCEPT ![n] = c][n] = c
          /\ \A m \in Names \ {n} : [NoRows EXCEPT ![n] = c][m] = "absent"
BY DEF NoRows, Checksums

\* Where the service starts: the ledger agrees with the schema, and an established
\* database has its expirations.
LEMMA InitialDatabase ==
    ASSUME Init
    PROVE  /\ db \in Schema /\ ledger \in [Names -> Checksums] /\ LedgerShape(ledger)
           /\ \A f \in Known : ledger[f] # "absent" => Reached(f, db)
           /\ db.tables \subseteq {"mempool"} => \A f \in Known : Reached(f, db)
           /\ "empty" \notin Origins => db.rows /\ "dispensers" \in db.tables /\ db.exp \in {"datetime", "converted"}
<1>1. PICK o \in Origins : \E start \in Origin(o) : db = start[1] /\ ledger = start[2]
  BY DEF Init
<1>2. PICK start \in Origin(o) : db = start[1] /\ ledger = start[2]
  BY <1>1
<1>n. Renamed \in Known /\ Renamed \in Names /\ Orphan \in Names /\ Orphan \notin Known /\ Known \subseteq Names
  BY DEF Renamed, Orphan, Names, Known
<1>t. "dispensers" \in TableSet
  BY TableNames
<1>e. ASSUME NEW d, d.ids = 3, d.fk, d.exp = "converted", d.events = "mediumtext", d.pubkey = 130,
             d.txData = "utf8mb4", d.shape = "raw"
      PROVE  \A f \in Known : Reached(f, d)
  BY <1>e DEF Reached, BigintExpiration
<1>3. CASE o = "empty"
  <2>1. db = [Current EXCEPT !.tables = {}, !.rows = FALSE] /\ ledger = NoRows
    BY <1>2, <1>3 DEF Origin
  <2>2. /\ db.ids = 3 /\ db.fk /\ db.exp = "converted" /\ db.events = "mediumtext" /\ db.pubkey = 130
        /\ db.txData = "utf8mb4" /\ db.shape = "raw"
    BY <2>1 DEF Current
  <2>3. \A f \in Known : Reached(f, db)
    BY <1>e, <2>2
  <2> QED BY <1>1, <1>3, <1>n, <2>1, <2>3, OriginSchemas, OriginLedgers DEF LedgerShape
<1>4. CASE o = "legacy"
  <2>1. db = Legacy /\ ledger = NoRows
    BY <1>2, <1>4 DEF Origin
  <2>2. db \in Schema /\ db.rows = TRUE /\ db.tables = TableSet /\ db.exp = "datetime"
    BY <2>1, OriginSchemas
  <2>3. ~ (db.tables \subseteq {"mempool"})
    BY <1>t, <2>2
  <2> QED BY <1>n, <1>t, <2>1, <2>2, <2>3, OriginLedgers DEF LedgerShape
<1>5. CASE o = "unrecorded"
  <2>1. db = Current /\ ledger = NoRows
    BY <1>2, <1>5 DEF Origin
  <2>2. db \in Schema /\ db.rows = TRUE /\ db.tables = TableSet /\ db.exp = "converted"
    BY <2>1, OriginSchemas DEF Current
  <2>3. ~ (db.tables \subseteq {"mempool"})
    BY <1>t, <2>2
  <2> QED BY <1>n, <1>t, <2>1, <2>2, <2>3, OriginLedgers DEF LedgerShape
<1>6. CASE o \in {"retagged", "renamed"}
  <2>1. PICK n \in {Renamed, Orphan}, c \in {"pinned", "edited", "current"} :
           /\ db = [Legacy EXCEPT !.events = "mediumtext"] /\ ledger = [NoRows EXCEPT ![n] = c]
           /\ n = Orphan => c = "current"
    <3>1. CASE o = "retagged"
      <4>1. PICK c \in {"pinned", "edited"} :
               start = <<[Legacy EXCEPT !.events = "mediumtext"], [NoRows EXCEPT ![Renamed] = c]>>
        BY <1>2, <3>1 DEF Origin
      <4>2. Renamed # Orphan
        BY <1>n
      <4> QED BY <1>2, <4>1, <4>2
    <3>2. CASE o = "renamed"
      <4>1. start = <<[Legacy EXCEPT !.events = "mediumtext"], [NoRows EXCEPT ![Orphan] = "current"]>>
        BY <1>2, <3>2 DEF Origin
      <4> QED BY <1>2, <4>1
    <3> QED BY <1>6, <3>1, <3>2
  <2>2. db \in Schema
    BY <2>1, OriginSchemas
  <2>3. db.rows = TRUE /\ db.tables = TableSet /\ db.exp = "datetime" /\ db.events = "mediumtext"
    BY <2>1, OriginSchemas DEF Schema
  <2>4. ~ (db.tables \subseteq {"mempool"})
    BY <1>t, <2>3
  <2>5. n \in Names /\ c \in Checksums
    BY <1>n DEF Checksums
  <2>6. ledger \in [Names -> Checksums] /\ ledger[n] = c /\ \A m \in Names \ {n} : ledger[m] = "absent"
    BY <2>1, <2>5, OriginLedgers
  <2>7. LedgerShape(ledger)
    BY <2>1, <2>6 DEF LedgerShape
  <2>8. \A f \in Known : ledger[f] # "absent" => f = Renamed
    BY <1>n, <2>6
  <2>9. Reached(Renamed, db)
    BY <2>3 DEF Reached, Renamed
  <2> QED BY <1>t, <2>2, <2>3, <2>4, <2>6, <2>7, <2>8, <2>9
<1> QED BY <1>1, <1>3, <1>4, <1>5, <1>6, OriginsAssumption

\* All the invariants hold at the start.
LEMMA InitInvariants ==
    ASSUME Init
    PROVE  /\ BaseInv /\ SnapshotInv /\ OnceInv /\ SeededInv /\ TruthInv
           /\ "empty" \notin Origins => ExpirationInv
<1>1. \A p \in Processes : proc[p] = Idle
  BY DEF Init
<1>2. Idle \in ProcRecord /\ Idle.pc = "off" /\ Idle.set = FALSE
  BY IdleRow
<1>3. proc \in [Processes -> ProcRecord]
  BY <1>2 DEF Init
<1>4. finished \in [Known -> Nat]
  BY DEF Init
<1>5. runs \in 0 .. MaxRuns /\ faults \in 0 .. MaxFaults
  BY BoundsAssumption DEF Init
<1>6. pool \in [Processes -> SUBSET {"clean", "raised", "dirty"}] /\ PoolIsClean
  BY DEF Init, PoolIsClean
<1>7. TypeOK
  BY <1>3, <1>4, <1>5, <1>6, InitialDatabase DEF Init, TypeOK, ProcRecord
<1>8. RowInv(Idle)
  BY <1>2, AwayRow DEF Away, Stages
<1>9. BaseInv
  BY <1>1, <1>2, <1>6, <1>7, <1>8 DEF BaseInv, LockInv, Held
<1>10. SnapshotInv
  BY <1>1, <1>2, InitialDatabase DEF SnapshotInv, InRun
<1>11. OnceInv
  BY DEF Init, OnceInv
<1>12. SeededInv
  BY DEF Init, SeededInv
<1>13. TruthInv
  BY <1>1, <1>2, InitialDatabase DEF TruthInv, Processes
<1>14. "empty" \notin Origins => ExpirationInv
  BY <1>1, <1>2, InitialDatabase DEF ExpirationInv, ExpirationsRecoverable
<1> QED BY <1>9, <1>10, <1>11, <1>12, <1>13, <1>14

\* What the invariants say of the properties.
LEMMA SafeFromInvariants ==
    ASSUME BaseInv, OnceInv, TruthInv
    PROVE  RunsAreSafe
<1>1. OncePerContent
  BY DEF OnceInv, OncePerContent
<1>2. \A f \in Known : ledger[f] = "current" => Reached(f, db)
  BY DEF TruthInv
<1>3. LedgerIsTrue
  BY <1>2 DEF LedgerIsTrue, Reached, Known
<1> QED BY <1>1, <1>3 DEF BaseInv, RunsAreSafe

\* For every set of files in every order, any scopes and any number of runs and faults:
\* no content runs to its ledger row twice, the ledger tells the truth about the live
\* schema and no changed connection returns to a pool (runMigrations,
\* guardUnregisteredRename, the preconditions and the release of the session).
THEOREM RunsSafe == Spec => []RunsAreSafe
BY InitInvariants, BaseInductive, SnapshotInductive, OnceInductive, TruthInductive, SafeFromInvariants, PTL DEF Spec

\* On a seeded database no statement of a migration ever runs, even when an operator's
\* run overlaps the first boot (recordFreshSchemaMigrations under the lock).
THEOREM SeededNotReplayed == Spec => SeededIsNotReplayed
<1>1. ASSUME BaseInv, SnapshotInv, SeededInv, [Next]_vars
      PROVE  [seeded => executed' = executed]_vars
  BY <1>1, SeededStands
<1> QED
  BY <1>1, InitInvariants, BaseInductive, SnapshotInductive, SeededInductive, PTL DEF Spec, SeededIsNotReplayed

\* On every established database, whatever is interrupted and run again, the expirations
\* of the open dispensers stay recoverable (the dispensers-expiration file and its
\* precondition beside alterTableForDrift).
THEOREM ExpirationsKept ==
    ASSUME "empty" \notin Origins
    PROVE  Spec => []ExpirationsRecoverable
<1>1. Init => ExpirationInv
  BY InitInvariants
<1>2. ExpirationInv => ExpirationsRecoverable
  BY DEF ExpirationInv
<1> QED
  BY <1>1, <1>2, InitInvariants, BaseInductive, SnapshotInductive, ExpirationInductive, PTL DEF Spec
=============================================================================
