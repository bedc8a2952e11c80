# A TLA+ model of the XChain decoder

The decoder follows one blockchain node over RPC, stores each block and the
protocol actions it carries in MariaDB, and serves health and status over HTTP.
Its tables are replicated content: an indexer reads them, and two decoders of
one chain must hold the same rows. What is hard is keeping that true while the
node reorganises, lags, restarts on a shorter chain or fails over, while the
database loses connections, while the process dies between two transactions,
and while an operator repairs a halted database from another process.

## The system

| Component | State | Operations | Interacts with |
|---|---|---|---|
| Parse loop (`XChainDecoder/startup.js`, `sync_loop.js`) | cursors `lastProcessedBlockIndex`, `lastProcessedTxIndex`, latches | boot, one pass of `main_parsing`, stop | everything below |
| Tip refresh (`tip_refresh.js`, `chain_integrity.js`) | cached tip, gates, IBD latch | refresh, settle a lower tip, genesis check | node RPC, `verifyReorg` |
| Block ingest (`block_ingest.js`, `block_store.js`) | the block in hand, one transaction per block | fetch, detect a reorg, store, commit, purge | node RPC, database |
| Transaction ingest (`transaction_ingest.js`, `transaction_parsing.js`, `carrier_extraction.js`, `envelope_recognition.js`, `source_resolution.js`) | the tx index, the quarantine ladder | parse, quarantine, insert, capture payments | block store |
| Dispensers (`dispenser_registration.js`, `dispenser_wide_expiration.js`, `dispenser_and_oracle_fees.js`, `db/dispensers.js`, `db/dispenser_queries.js`) | the dispensers table: open, soft-expired, undo rows | register, refresh, soft-expire, hard-purge, restore on rollback | block store, rollback |
| Reorg recovery (`reorg_verification.js`, `reorg_verification/*`) | depth counters, the walk | prove, delete, halt, halted walk | node RPC, database |
| Halt marker (`reorg_halt.js`, `chain_integrity.js`, `db/reorg_halt.js`) | REORG_HALT / REORG_HALT_CLEARED rows, cached flags, the park | mark, probe, park, resume | health routes, operator |
| `clear_reorg_halt.js` | none of its own | check, clear | the events table, another process |
| Database (`db/*`) | pool of connections, one transaction connection | begin, commit, roll back, lease | all of the above |
| Mempool refresh (`mempool_refresh.js`, `db/mempool.js`) | mempool table, in-flight latch | refresh on a timer | node RPC |
| RPC connector (`chain/blockchain_connector*`) | active endpoint, health | call, fail over, reassemble AuxPoW blocks | node |
| API, shutdown (`api.js`, `api/*`, `shutdown.js`) | server, drain state | probe routes, SIGTERM drain | the loop, the pool |
| Observability (`observability/*`, `metrics/*`) | metrics, log-shipping queue | record, ship, drop | none |
| Migrations (`db/migrat*`, `db/table_drift.js`, `db/database_setup.js`) | schema ledger | apply, verify, refuse | the database, at boot |
| Protocol and coins (`protocol/*`, `coins/*`) | constants | pure functions | the parsers |

The behaviours that are hard to test: every RPC of a pass may be answered by a
node in another state; every database call may fail before or after it took
effect; a crash may fall between any two of them; the health routes read and
write the halt flags between any two awaits of the loop; the operator's command
runs in another process. `PROJECT.json` lists these hazards at their lines.

## Modules

### ParseLoop

`ParseLoop` is the block loop with everything that can change the blocks table,
the REORG rows and the halt marker. Its `pc` is the await the loop is at; an
action is the code between two awaits whose answers may differ from what the
code last saw. Heights are counted from the configured start height.

| State | Code |
|---|---|
| `active` | the node's active chain, as the path from the genesis block |
| `stored` | the `blocks` table: `stored[h]` is the hash at height `h` |
| `reorgRows` | heights of the REORG rows of `events` |
| `haltLive`, `haltId` | the newest REORG_HALT / REORG_HALT_CLEARED row, and its id |
| `purgedTo` | the highest expiry height a purge may have hard-deleted |
| `cursor`, `tip`, `held` | `lastProcessedBlockIndex`, `blockchainInfoLastBlock`, the fetched block |
| `nodeTip`, `prior`, `deleted`, `seen`, `reading`, `readAt` | the locals of `verifyReorg` and of the walks |
| `memHalted`, `persisted`, `probeFailed`, `parkDue`, `parked` | `reorgHalted`, `reorgHaltMarkerPersisted`, `reorgHaltProbeFailed`, `reorgHaltParkCheckDue`, `reorgHaltParked` with `reorgHaltParkUnread` |
| `probe` | a health route's `checkReorgHalt` between its query and its answer |
| `cli`, `cliId` | `clear-reorg-halt` and the halt id it pinned |
| `highest`, `unacked`, `lossy` | history: highest block committed, deletes whose commit reported failure, a purged height was rolled back |
| `faults` | the environment may still misbehave; `Calm` ends it for the liveness runs |

Actions follow the source names. `Boot`/`BootPark` are `bootDecoder` with the
boot park; `Refresh`, `SettleTip`, `CompareTips`, `SettleSwap` the tip refresh
and the equal-height check; `FetchNextBlock` to `PurgeExpired` the forward
ingest; `VerifyReorgEntry` to `DeleteGivesUp` `verifyReorg`; `HaltReorg` to
`HaltedDeleteStops` the safe-depth halt with `finishHaltedWalk`; `Crash`,
`ProbeRead`/`ProbeAnswer` and `ClearPin` to `ClearWrite` the other
actors.

What is abstracted, and why it loses nothing the properties see:

- Blocks are paths of labels: equal paths are equal hashes, the parent is the
  front. Transactions are left to other modules; storing a block is one commit
  (`DB_TRANSACTION_BLOCKS_QUANTITY` is 1).
- A call that fails, is refused by a gate, or answers malformed data is a step
  guarded by `faults`. Retry counts (ten deletes, three depth reads, five
  settling reads) are a nondeterministic decision to give up. Other database
  reads whose throw leaves `start()` are covered by `Crash`.
- A commit may land and report failure: `CommitBlock`'s second disjunct,
  `DeleteUnacked`.
- A failed tip refresh is `tip = NoInfo`: the loop must refresh before it uses
  a tip. The 30 s refresh timer is the choice between `Refresh` and `NoRefresh`.
- The fork proof cache only lets a refusal be repeated without an RPC; refusals
  are nondeterministic already.
- `purgedTo` is an upper bound: the cancel-grace floor makes a purge delete less.
- The probe's TTL is `ProbeDue`: `haltReorg` refreshes it just before the marker
  write, so no probe starts there. A probe in flight answers before the park's
  own read, which shares its promise.
- The dispenser check of `clear-reorg-halt` is the operator's `--force`. There
  is one operator. `unaudited_clear` rows, the 10 000-row scan limit of the
  count and health-only state (`reorgWait`, `nodeCatchingUp`, `synced`,
  counters) are left out.

### TxIngest

`TxIngest` is what happens inside a block: the transactions in chain order, the
`tx_index` each one takes, and the quarantine ladder that keeps one transaction
that always fails from wedging the chain.

| State | Code |
|---|---|
| `node` | the node's chain; `Txs` gives each block's transactions |
| `blocks`, `rows`, `errs` | the `blocks` and `transactions` tables, the PARSE_ERROR rows |
| `held`, `pos` | the block whose database transaction is open, and its next transaction |
| `newRows`, `newErrs` | what the open transaction has written |
| `idx` | `loop.lastProcessedTxIndex` |
| `parseCounts`, `insertCounts`, `parseQuarantine`, `insertQuarantine` | retry counts and quarantines, keyed by height, block hash and position |

A transaction's `Kind` is the outcome it always has: stored, not storable, skipped
by the storage gate (which takes an index and writes no row), throwing in the
parser, or rejected by the database. Lookup faults and transient faults are steps
of the environment on top of that. Counts saturate one past `MaxRetries`, where
the code no longer tells values apart. The duplicate-key branch of
`insertTransaction` is unreachable (`NoIndexCollision`). Outputs, fee rows and
address ids are written with their transaction and are not told apart.

### DispenserTable

`DispenserTable` is the dispensers table with its undo rows: registration (one
row per address of a transaction, the largest expiration kept), the extend mirror
of a format-2 edit, the soft expiry at the start of a block (legacy) or at its end
(realigned), the purge after a commit, and `deleteBlockByIndex`. The four
activation gates are times, so one chain may cross them in both directions.

Beside it run two things the decoder does not hold: the indexer's dispensers,
by the rules the decoder's comments state (external), and `clean`, the table of an
instance that decoded the stored chain from its first block and never purged.
`past` remembers both after every stored block, so that a rollback can return to
them.

`ArmedCaptured` asks for captured payments where `GatesArmed` holds of the block and of
every stored one; below the gates a cancelled dispenser's payments were never captured.
A block is atomic: every failing statement rolls it back (`AbortBlock`).
The time of a block may run backwards; how it is resolved is `ProtocolTime`'s. A create
that `OutputCapture` refuses registers nothing and is not a step. `RollBackTop` counts the heights rolled back above it, the ceiling that
`ParseLoop` shows the loop to keep.

### TxParsing

`TxParsing` is `parseTransaction` for one transaction of a block: `step` is the
lookup at the node the parse waits for, or how it ended. Scripts are sequences of
pushes; an input shows its envelope, redeem script and witness chunk, an output its
carrier and data. A lookup that fails rolls the block back and the parse starts
again; bytes that do not decode, a coinbase commit and an unreadable chunk are thrown
to the ladder of `TxIngest`. Deobfuscation, size ceilings and amounts are left out,
and so is the public key row: for a chunk reveal the code reads it from the reveal's
own first input although the source is the commit's funder.

### ProtocolTime, BatchCapture, OutputCapture

What feeds the dispensers table. `ProtocolTime` stores header stamps and resolves a
block's protocol time from the window read back from them; the node accepts a stamp
by the consensus rule over the whole chain, also below the start height, which the
decoder never sees. On a database that starts above genesis the protocol time of the
first `Span` blocks may therefore run backwards, and the property says so.
`MedianTimePast` takes the middle of the window in an order of its entries (`InOrder`);
any sorting order gives the same time.
`BatchCapture` builds a batch command by command and compares the captured commands
with those the indexer dispatches. `OutputCapture` persists transactions of creates,
refills and payments and compares the registry and the stored outputs with the
dispensers the indexer opens. The indexer is another program: its rules are those
the decoder's comments state (external).

### ChainStore

The abstract chain a reader of the database relies on: `chain`, the heights rolled back
and not stored again (`depth`), the purge frontier, the halts recorded and whether the
newest is live, and the rollbacks nobody acknowledged (`lost`). Its actions are
`Extend`, `RollBack` (inside the window), `Condemn` (past it, after a halt), `Purge`,
`Halt` and `ClearHalt`. `ParseLoop` instantiates it as `Store`.

### Migrations

The service's boot and the operator's CLI over one database. `db` is the live schema
as far as some migration, assertion or precondition reads it, `ledger` the checksum
each migration is recorded under, `lock` the advisory lock, `proc` the two processes
between two queries, `pool` the connections given back. A statement fails before or
after it took effect, a process dies between any two, the lock may be lost while its
holder runs. The boot's table verification runs outside the lock, as in the code.

### RpcConnector

Call 0 is the block path (one call at a time: hash, header, block, or the
reassembly), the others are raw-transaction calls of two batches; a batch that
rejects leaves its calls running (`orphan`). `active` and `failures` are the
connector's, `left` remembers on what evidence an endpoint was left. Endpoints go up
and down, answer errors, and keep a transaction index or not.

### ServiceProcess, HealthVerdict, LogShipper, MempoolRefresh, MempoolFeed

- `ServiceProcess`: the pool, the loop's transaction and its lock, health requests
  and the drain. A waiter's code goes on when the pool serves it, which is where
  `readReorgHaltState` looks at the transaction.
- `HealthVerdict`: the clocks of the loop in ticks of the refresh interval, ages
  saturating one past the largest threshold they are compared with; autoheal restarts
  on 503.
- `LogShipper`: lines are numbers in order of emission; a failed POST may have been
  delivered.
- `MempoolRefresh`: one refresh cycle from await to await against a pool that moves;
  a second slot exists so that a latch that fails would show.
- `MempoolFeed`: the `getmempool` cache, with ages in ticks, from before the boot has
  opened the database (`OpensHandles`; until then `AnsweredUnread` caches an empty,
  unread snapshot).

## Runs

Twelve runs: eight pass, four show a disagreement between the code and what the
repository says of it (next section). Branch labels name the two sides of a fork;
the node may be on any block of either chain, so growth, reorg, rollback to a
shorter chain and failover to a lagging endpoint all happen.

| Run | Question | Bounds, and why they are enough |
|---|---|---|
| `parse_loop` | `Linked`, `DepthIsDurable`, `CondemnedStaysHalted`, `TwoWindows`, `LagIsHarmless`, `CondemnedNotExtended`, types; crashes and health probes on, no operator | two chains of 5 blocks that fork above the second, window 1: a fork deeper than two windows, and every lower tip on the common part is a lag; `CONSTRAINT NotOvertaken` ends a behaviour at the step where a late answer takes a live halt back |
| `lost_acks` | `DeleteWithinWindow`, `NoRollbackUnderHalt`, `ParkHolds` with one lost acknowledgement, health probes and an operator | chains of 2 with forks at the first and second block, window 1: a walk may empty the table |
| `catch_up` | `CatchesUpOrAdrift`, `ResumesAfterClear`, `ImplementsStore` | forks of 3, window 1, an operator, no crash |
| `adrift_cursor` | `CatchesUp`: a disagreement | forks of 3 and 4, window 1 |
| `tx_ingest` | `TxIngest`: `RowsMatchChain`, `OnlyPoisonQuarantined`, `QuarantineAudited`, `NoIndexCollision`, `TxIndexParity`, `CatchesUp`; `TxParsing`: `ParseAgrees`, `ParseSettles` | three branches of two and three blocks that hold other kinds at the same position, two retries, no block ends with a skipped action; transactions with every carrier and every pair of them, heights on both sides of the gates, two failing lookups |
| `tx_index_skips` | `TxIndexParity` where a block ends with a skipped action: a disagreement | the same branches |
| `dispensers` | `DispenserTable`: `Reversible`, `PurgedStayExpired`, `ArmedCaptured`; `ProtocolTimeSound`; `CaptureMirrorsIndexer`; `RegistryMirrorsIndexer` | above the gates 5 blocks, window and depth 2, times stepping by -1 or 2: a row is made, marked, purged and paid; across the gates 3 blocks with gates that arm between them, at earlier times, of which `ArmedCaptured` says nothing. A median of 3 stamps over up to 3 blocks below the start and 6 stored; batches of up to 3 of 17 commands; two transactions of up to two creates |
| `migrations` | `RunsAreSafe`, `ExpirationsRecoverable`, `SeededIsNotReplayed`, `BootsAfterDone` | the files that change a column another one reads; empty, old, unrecorded, edited and renamed databases; two operator runs, one fault |
| `expiration_gap` | `GapIsNotServed`: a disagreement | an old database, one fault |
| `rpc` | `BlocksWhole`, `LeftOnEvidence`, `BlocksKeepComing` | two endpoints, threshold 4 with 5 calls at most in flight, two batches of two, one outage or error answer |
| `services` | `ServiceProcess`: `LeaseSafe`, `DrainSound`; `VerdictSound`; `StreamKept`; `PendingFollowsNode`; `FeedSound` | two connections for the loop and two requests; stall after 3 ticks and a ladder of 5 steps, so the ladder outlasts the window; a buffer of 3 lines, batches of 2, 7 lines, 3 failures; 4 pending transactions, one of each kind; two callers of one read |
| `lost_lease` | `LeasesReturn`: a disagreement | one request, no fault |

Labels are strings, so no symmetry is used. One REORG_HALT row (`MaxHaltRows`)
is enough in these instances because a second halt needs a clear; at the bound
the write fails, which the code handles. Every constant of the runs keeps the
inequality that makes its case happen: a chain longer than the window (so that
a purge reaches stored blocks) and a fork deeper than it. Fault bounds count the
faults of one behaviour; two are enough for a fault during the handling of another.

Several small modules share a run: a behaviour is then about one subject
(`Subjects`, `Parts`), whose variables move while the others keep their initial
values, so the state space is the sum of theirs and not the product.
Each module states its own specification (`SvcSpec`, `HlthSpec`, `ShipSpec`, `MemSpec`,
`FeedSpec`, `RpcSpec`), which the theorems are about.

Fairness (`FairSpec`): weak fairness of the loop's own step, because the loop is
one `while` that always awaits something that answers or times out; strong
fairness of `Refresh`, because the 30 s timer makes the refresh due however
often a pass is spent against the cached tip; weak fairness of `ProbeAnswer`,
because a query that was sent is answered or rejected. Liveness is claimed only
once `faults` is false: from then on the node stands still and calls succeed.
`LiveSpec` of `TxIngest` and `ParseFairness` assume the first of these only.
`SvcFairness` is the hard-exit timer alone: nothing is assumed of what the loop or
a request waits for. `HlthFairness`: time passes, a loop that does not hang goes
round, and autoheal acts on a 503. `MemFairness` and `ShipFairness`: intervals fire
and calls settle by their timeouts. The block path of `RpcConnector` makes its next
call and every call is answered or times out. `BootsAfterDone` of `Migrations` rests
on the restart policy of the service and on runs that finish. Fault bounds make the
faults of each of these end.

## Disagreements found

1. `adrift_cursor` - a proof wait raised after the walk already deleted blocks
   leaves the cursor above the stored tip; the loop then retries "Could not load
   previous block" for ever. `catch_up` shows that this is the only such way.
2. `tx_index_skips` - a skipped action takes a `tx_index` in memory only. When it
   is the last one of its block, a rollback, failed commit, reorg or restart reads
   the counter back from the rows and later transactions get lower indexes than on
   an instance that was not disturbed. `tx_ingest` shows that this is the only way.
3. `expiration_gap` - the boot verifies the tables before the migrations, without
   their lock. Between the expiration file's DROP and its rename, after a crash or
   during a run, the drift pass adds the column back, all NULL; the precondition
   then baselines the file, the assertion passes and the service comes up.
4. `lost_lease` - `readReorgHaltState` decides whether a connection is its own to
   release after it has waited for it. If the loop opened its transaction meanwhile,
   the probe takes its lease for the transaction's and never returns it.

Four more need an operator, a probe, a request or a reorg at the wrong moment. They have no run
of their own; each shows when a cfg or a statement is changed as stated:

- `clear-reorg-halt --force` counts the rolled-back heights once. A deep-gap halt
  writes its marker before its halted walk deletes anything, so the count can be 0
  while the walk is about to run, and the clear lands on a database rolled back past
  its purges. (`AdriftCursor.cfg` with `Operator = TRUE`, `SPECIFICATION Spec` and
  `INVARIANT CondemnedStaysHalted`; `parse_loop` has no operator.)
- A health probe awaits between its query and its answer. One that queried before the
  marker was written and answers after it sets `reorgHalted` to false; the park is then
  left from the cached status although the marker is live, and blocks are stored again.
  `verifyReorg` still refuses the next rollback (`NoRollbackUnderHalt` in `lost_acks`).
  The history variable `overtaken` records this step, and `ParkHolds` and
  `CondemnedNotExtended` except it and nothing else. (Drop `/\ ~overtaken` or
  `\/ overtaken` from their statements and the constraint from `ParseLoop.cfg`: TLC
  finds either violated.) `parse_loop` leaves out what may follow the step, to stay
  small; the theorems about each of its properties have no such limit.
- The purge's grace floor is the time of a block that a legal reorg can replace by an
  earlier one. The dispenser is then inside its cancellation grace again, the indexer
  fills it, and its row is gone. `ArmedCaptured` excludes exactly this case;
  `PaymentsCaptured` of `DispenserTable` does not. (`Dispensers.cfg` with
  `Subjects = {"armed"}` and `INVARIANT PaymentsCaptured`.)
- The server listens before the boot has opened the database. A `getmempool` of that
  time caches an empty snapshot, answers `stale: false` (with `read_ok_at: null`), and
  the snapshot is served as fresh for the whole time-to-live, also once the database is
  open. `FeedSound` says this of it and no more: an unread snapshot is fresh only within
  a time-to-live of the boot's `openDatabaseHandles`. (Drop the `IF` of `FeedSound` and
  keep `readAge < CacheTtl`: TLC finds it violated.)

A smaller one is part of the statement of `DeleteWithinWindow`: a delete that
committed but reported failure is not counted by the walk in progress, which can
then delete that many more blocks than the window without halting. The next
`verifyReorg` counts them again.

## Proofs

Eight modules hold theorems. Each holds for every value of the constants within the
named assumptions of its module; the assumptions say no more than the code or the
chain does:

- `SafeDepth`, thresholds, pool and buffer sizes are positive; bounds are numbers;
  chains are sequences of labels and there is one.
- `HashAssumption` of `TxIngest`: a hash commits to its parent, so it has one height.
- `OffsetAssumption` of `DispenserTable`: expirations fit a column, so one of several
  is the largest.
- `ParsingAssumption` of `TxParsing`: outputs are lists shorter than `FUNDING_VOUT_BASE`,
  and no transaction has the name that stands for `null`.
- `WeightAssumption` of `BatchCapture`: a command's fields are strings, limits and the
  budget are numbers, and a weight in the table is positive.
- `CreateAssumption` of `OutputCapture`: the default expiration is a number the column
  holds, and a create's expiration is one of the spellings the code tells apart.
- `FilesAssumption` of `Migrations`: the directory lists a file once, and the model
  knows its statements.

A theorem with a hypothesis of its own names what it excludes. The runs `parse_loop` and
`tx_ingest` exclude the same, and "Disagreements found" shows what happens otherwise;
`migrations` includes empty databases, within the bounds told below.

| Module | Theorem | Property | Hypothesis |
|---|---|---|---|
| `ParseLoopProofs` | `TypeCorrect`, `ChainLinked`, `DepthDurable`, `WindowHolds`, `TwoWindowsHold`, `GuardHolds`, `LagHarmless` | `TypeOK`, `Linked`, `DepthIsDurable`, `DeleteWithinWindow`, `TwoWindows`, `NoRollbackUnderHalt`, `LagIsHarmless` | |
| | `StoresAtTip` | `StoreExtends` (no run) | |
| | `HaltStands` | `CondemnedStaysHalted` | no operator |
| | `NotExtended` | `CondemnedNotExtended` | no operator |
| | `ParkStands` | `ParkHolds` | |
| `ChainStoreProofs` | `LoopImplementsStore` | `ImplementsStore` | |
| `TxIngestProofs` | `NoCollision`, `OnlyPoison`, `Audited`, `RowsMatch` | `NoIndexCollision`, `OnlyPoisonQuarantined`, `QuarantineAudited`, `RowsMatchChain` | |
| | `ParityHolds` | `TxIndexParity` | no block ends with a skipped transaction |
| | `ParseAgreement` | `ParseAgrees` | |
| `ProtocolProofs` | `CaptureMirrors`, `RegistryMirrors`, `ProtocolTimeHolds` | `CaptureMirrorsIndexer`, `RegistryMirrorsIndexer`, `ProtocolTimeSound` | |
| `DispenserProofs` | `TableReversible`, `PurgedExpired`, `PaymentsInGrace` | `Reversible`, `PurgedStayExpired`, `ArmedCaptured` | |
| `ServiceProofs` | `LeasesAreSafe`, `FeedIsSound` | `LeaseSafe`, `FeedSound` | |
| | `DrainIsHonest`, `VerdictSafe`, `PendingIsSafe`, `StreamIsSafe` | the safety half of `DrainSound`, `VerdictSound`, `PendingFollowsNode`, `StreamKept` | |
| `RpcProofs` | `WhatIsHandedOnIsWhole`, `EndpointsLeftOnEvidence` | `BlocksWhole`, `LeftOnEvidence` | |
| `MigrationProofs` | `RunsSafe`, `SeededNotReplayed` | `RunsAreSafe`, `SeededIsNotReplayed` | |
| | `ExpirationsKept` | `ExpirationsRecoverable` | the database held tables when it was first met |

### The loop and the store

`ParseLoopProofs` proves first, for every block tree, window and bound and with all
actors on, `TypeOK`, `Linked`, `StoreExtends`, `DepthIsDurable`,
`DeleteWithinWindow`, `TwoWindows` and `NoRollbackUnderHalt`. The assumptions are
those of the constants: the window is positive, chains are sequences of labels
and there is one.

None of them is inductive alone. `LoopInv` conjoins:

- `WalkInv`: where the walk is, its next delete has a block to delete, is below
  the ceiling, or is above the halted walk's fork point, which is within budget;
- `DepthInv`: the durable depth is exact, the walk's count covers what is rolled
  back (up to `unacked`), and every purge stayed a window below the highest block
  ever committed;
- `GuardInv`: no halt is live from the entry guard to the marker write, which
  only the loop itself performs;
- `CursorInv`: the cursor never falls behind the table, and the block in hand
  extends it;
- `Linked` and `TypeOK`.

One lemma per part shows that a step keeps it, by cases on the actions.
`DeleteWithinWindow` then follows by arithmetic: the count below the ceiling
bounds `highest - StoredTip`, and purges end a window below `highest`.

Four more invariants stand on it, for a node that lags, the halt marker and the park:

- `LagInv`: as long as no height ever stored is one where the node's chains differ, no
  REORG row is written and the walk is at none of its steps from the proof on;
- `SeenInv`: unless a late answer took the halt back (`overtaken`), a loop that is in
  the halted walk or parked under a live marker remembers the halt;
- `StandingInv`: without an operator the halted walk runs under a live marker, and what
  it condemned stays under one;
- `CondemnedInv`: under the same exception a condemned database is in the halted walk, at
  boot, at a boot park that will hold, or parked: nowhere it could fetch.

`ChainStoreProofs` proves `LoopImplementsStore`: under the mapping `chain <- stored`,
`depth <- highest - StoredTip`, `purged <- purgedTo`, `halts <- haltId`,
`live <- haltLive` and `lost <- unacked`, every step of the loop is a step
of `ChainStore` or a stutter. The store grows at its tip, shrinks from it inside the
purge window, and goes below the window only after a halt, at most two windows deep.
Beyond `LoopInv` it needs `MarkedInv`: from the marker's write to the last delete of a
halted walk a halt row exists, so a delete below the window never precedes its record.

### The tables

- `RowsMatchChain` says nothing of the open transaction, so `RowsInv` does: the rows
  written so far are those of the places before `pos` of the block in hand, all above
  the stored ones. A block is stored once because a hash has one height.
- `TxIndexParity` needs the counter explained at every height a rollback may return to,
  not only at the tip: `PrefixInv` counts, for every prefix of the stored chain, the
  places that consume an index and finds the counter read back from its rows. Where a
  block ends with a skip this is false, which is the disagreement of `tx_index_skips`.
- `Reversible` rests on `UndoInv`: above the purge floor the undo rows of a block take
  its table to the one before it. `FrozenInv` (a marked row never changes again) and
  `GoneInv` (what is purged was marked at or below the floor) keep rollbacks and purges
  apart; `OpenInv` says the same of the block being decoded.
- `ArmedCaptured` compares two programs over the times of blocks that may run backwards.
  `CarriedInv` says, for every stored block, that each dispenser the indexer fills has a
  row in the clean table that expires no earlier: an unmarked one while it is open, and
  once it is cancelled one that was still open at the time of the cancel, by its
  expiration or by the time of the block that marked it. It is kept for every height and
  not only the tip, because a rollback returns to any of them.
  `UnpurgedInv` adds that without a reorg across a purge nothing fillable is purged, and
  `DecodeInv` carries both through the block being decoded, whose capture set was read at
  its start. `ServedInv` ties the indexer to the tip between blocks. All of it is
  relative to `DispenserInv`.

### The parse of a transaction

`ParseAgrees` speaks of a finished parse only. `ParseInv` says what the locals hold at
each lookup: the first hop is fetched before what needs it, the source is unset until
the lookup that sets it, and a funder is asked for only by a reveal. A lookup that fails
leaves the parse at its start, so nothing of it is carried over. `ArbitrationSole` shows
that arbitration leaves one carrier.

### What the indexer answers

`ProtocolProofs` compares the decoder with the indexer's rules, for lists of any length.
Sums and sorted windows are data the library's induction would be for; the proofs go by
a least counterexample instead (`LeastOf`, from `WFMin`): a shortest list that lacks
running sums or an order would have a shorter one.

- `CaptureMirrors`: a batch over one of the decoder's limits is over the indexer's for
  the same key (`SameCounts`, `MostMints`), and the decoder never charges a command more
  than the indexer does (`NeverHeavier`), so neither does the sum (`TotalGrows`).
- `RegistryMirrors`: `CaptureInv` says that each dispenser the indexer opened on an
  address the decoder can read is `Backed` by a row of its transaction, which expires no
  earlier and names an oracle of one of the dispensers that share it. A row is collapsed
  from the candidates of one key, so it holds each of them (`TakenIsHeld`) and comes from
  one (`RowIsTaken`). A refill then pays that oracle (`BackedIsPaid`).
- `ProtocolTimeHolds`: `ClockInv` says that every stored row holds what its window
  gives, whatever was rolled back above it. That time never runs back is one fact on
  medians (`MedianMoves`): a window that drops its oldest stamps and gains one above its
  median has no smaller median. It rests on counting: at most half of a list is below
  its median and more than half is not above it (`MedianCounts`).

### The services

- `LeaseSafe`: the pool's queue names each asker once and only in the stage where it
  asks (`QueueInv`), so serving it twice is impossible.
- The drain: what each of its stages waited for stays true (`DrainInv`). The other conjunct,
  `StatusTellsDrain`, needs no invariant: `/status` reads the flag where it composes the
  answer, after its last await.
- `FeedSound`: the rows in the cache are no older than its stamp although the stamp is
  set when the read ends, and a read in flight is told of its own start; a snapshot that was
  never read is younger than the time the handles were opened at.
- `VerdictSound`: an outage lasts at most as many fetch errors as passes fit in one tick,
  because a due refresh ends the pass before its fetch (`OutageInv`).
- `PendingFollowsNode`: what a cycle still holds was in the list of the last diff, and
  what that list lacks has departed (`WorkInv`, `DepartedInv`).
- `StreamKept`: a batch in flight is older than all that waits; a line newer than it is
  dropped only from a full buffer, and then the batch has no room to come back to
  (`BatchOutdated`). The accounting is a count of sets, from lemmas on increasing
  sequences.

### The connector and the migrations

- `BlocksWhole`: a running call of a batch stands for one of its positions and its
  batch runs (`OwnerInv`); a call of a batch that was rejected is an orphan and answers
  nobody. A parse error is remembered of content only (`ContentInv`).
- `LeftOnEvidence`: until the active endpoint itself fails, every failure counted came
  from a call in flight elsewhere when it became active: the counted ones and those still
  out never exceed the number that were (`EvidenceInv`).
- `Migrations`: the lock makes the holder's copy of the ledger right about every file it
  has yet to reach (`LockInv`, `SnapshotInv`), so no file is run twice (`OnceInv`). The
  boot changes the schema beside it without the lock, but only towards the current
  release, so what the statements before the next have achieved stays achieved
  (`Progress` in `TruthInv`). `ExpirationInv`: the precondition is read over a column
  that holds the original values or is gone.

`ExpirationsKept` excludes databases that were empty at their first boot, and must:
TLC finds a behaviour of 61 steps in which four operator runs overlap that boot, so
that it no longer counts as empty and is not seeded. One of them begins the expiration
file before there is a dispensers table, dies after the DROP, and a later one reads the
precondition before the boot's drift pass adds a column that is already converted and
converts it again. (`Origins = {"empty"}`, the files `expiration`, `raw-strings` and
`utf8mb4` in that order, one scope for each, `MaxRuns = 4`, `MaxFaults = 1`.) The bounds
of `migrations` stay below it.

### Left to TLC

- Liveness, everywhere: `CatchesUpOrAdrift`, `ResumesAfterClear`, `CatchesUp`,
  `ParseSettles`, `BlocksKeepComing`, `BootsAfterDone`, and the liveness halves of
  `DrainSound`, `VerdictSound`, `PendingFollowsNode` and `StreamKept`.
- `ExpirationsRecoverable` where the database was empty at its first boot, for the reason
  above.

Every invariant of a passing run is a theorem, and so is every action property.


The type invariant of `TxIngest` and `StoreExtends` are proved and not run, since their
theorems cover every instance; the type invariants of the other modules are conjuncts of
a checked property.

## Plan

Modelled: everything the inventory calls state. Proved: every safety invariant and action
property that the runs check. What a next step would take up: the part of
`ExpirationsKept` for empty databases, where a boot is not overlapped by operator runs,
and the liveness properties once a prover reaches them.

## Not modelled

Byte decoding of blocks and the constants of each coin have no state. Metrics only
record. The rules over SQL text of the migration guards and the splitting of a file
into statements are patterns; the models take a file as its statements. Amounts,
public keys, payload ceilings, response bodies and logging are left out because no
property is about them. Tools under `bin/` are not part of the decoder. The parts
marked `not_modelled` in `PROJECT.json` are stated there with their reason.
