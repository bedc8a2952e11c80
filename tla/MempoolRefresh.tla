--------------------------- MODULE MempoolRefresh ---------------------------
(***************************************************************************)
(* The pending view: the refresh cycle that reconciles                     *)
(* mempool_transactions with the node's mempool (XChainDecoder/            *)
(* mempool_refresh.js, db/transactions.js, db/mempool.js), and the timer   *)
(* that starts it (sync_loop.js waitAtTip, block_ingest.js).               *)
(*                                                                         *)
(* A transaction is a number, in the order the cycle takes them; Kind says *)
(* what its parse comes to: "action", "pays" (an action without a source   *)
(* that pays an open dispenser), "unattributed", "gated" (the payload gate *)
(* skips it), "plain", or "undecodable" (its bytes do not parse, have no   *)
(* inputs or another txid, or the parse throws).                           *)
(***************************************************************************)
EXTENDS Integers, FiniteSets, FiniteSetsExt

CONSTANTS
    MemTxs,         \* a finite set of numbers
    Kind,           \* MemTxs -> kind
    MemBatch,       \* MEMPOOL_BATCH_SIZE
    PoolMoves,      \* bound: arrivals and departures of the node's mempool
    MemFaultBound   \* bound: failing calls, malformed answers, catch-up phases

ASSUME MemAssumption ==
    /\ MemTxs \subseteq Nat /\ IsFiniteSet(MemTxs)
    /\ Kind \in [MemTxs -> {"action", "pays", "unattributed", "gated", "plain", "undecodable"}]
    /\ MemBatch \in Nat \ {0}
    /\ {PoolMoves, MemFaultBound} \subseteq Nat

VARIABLES
    pool,       \* the node's mempool
    rows,       \* mempool_transactions: tx -> "none", "text" or "blank"
    mempoolBusy,
    interval,   \* mempoolInterval is set
    cycle,      \* the running cycles; a second one only if the latch fails
    moves, memFaults,
    lastSnap,   \* history: the node's mempool as the last diff saw it
    departed    \* history: the stored transactions the node has been without since

memVars == <<pool, rows, mempoolBusy, interval, cycle, moves, memFaults, lastSnap, departed>>
cycleVars == <<rows, mempoolBusy, cycle, lastSnap, departed>>

Slots == {1, 2}
Idle == [pc |-> "idle", todo |-> {}, hex |-> {}, open |-> FALSE]

MemInit ==
    /\ pool \in SUBSET MemTxs
    /\ rows = [t \in MemTxs |-> "none"]
    /\ mempoolBusy = FALSE /\ interval = FALSE
    /\ cycle = [s \in Slots |-> Idle]
    /\ moves = 0 /\ memFaults = 0
    /\ lastSnap = {} /\ departed = {}

Stored == {t \in MemTxs : rows[t] /= "none"}
Storable == {t \in MemTxs : Kind[t] /= "undecodable"}

Faulty == memFaults < MemFaultBound /\ memFaults' = memFaults + 1
-----------------------------------------------------------------------------
(* The node, the timer, and the start of a cycle.                          *)

PoolChanges(t) ==
    /\ moves < PoolMoves /\ moves' = moves + 1
    /\ pool' = IF t \in pool THEN pool \ {t} ELSE pool \cup {t}
    /\ departed' = IF t \in pool \cap Stored THEN departed \cup {t} ELSE departed
    /\ UNCHANGED <<interval, memFaults, rows, mempoolBusy, cycle, lastSnap>>

\* updateMempool up to its first await; a busy latch makes it a no-op.
StartsCycle ==
    IF mempoolBusy THEN UNCHANGED cycleVars
    ELSE /\ cycle' = [cycle EXCEPT ![CHOOSE s \in Slots : cycle[s] = Idle].pc = "list"]
         /\ mempoolBusy' = TRUE
         /\ UNCHANGED <<rows, lastSnap, departed>>

\* waitAtTip, the first time since the interval was cleared: a cycle now, then the timer.
TimerStarts ==
    /\ ~interval /\ interval' = TRUE
    /\ StartsCycle
    /\ UNCHANGED <<pool, moves, memFaults>>
TimerFires ==
    /\ interval
    /\ StartsCycle
    /\ UNCHANGED <<pool, interval, moves, memFaults>>

\* ingestNextBlock, too far behind: the timer stops, a cycle that runs goes on.
FallsBehind ==
    /\ interval /\ interval' = FALSE
    /\ Faulty
    /\ UNCHANGED <<pool, moves, cycleVars>>
-----------------------------------------------------------------------------
(* One cycle, from await to await. Every way out clears the latch.         *)

CycleEnds(s) == cycle' = [cycle EXCEPT ![s] = Idle] /\ mempoolBusy' = FALSE
Goes(s, change) == cycle' = [cycle EXCEPT ![s] = change] /\ UNCHANGED mempoolBusy

\* getRawMempool answers an array of txids.
ListArrives(s) ==
    /\ cycle[s].pc = "list"
    /\ Goes(s, [cycle[s] EXCEPT !.pc = "open", !.todo = pool])
    /\ UNCHANGED <<rows, lastSnap, departed, memFaults>>

\* It fails, or answers anything but an array: dedupNodeMempool throws.
ListFails(s) ==
    /\ cycle[s].pc = "list"
    /\ CycleEnds(s)
    /\ Faulty
    /\ UNCHANGED <<rows, lastSnap, departed>>

\* loadMempoolOpenDispenserAddresses: a failed read parses against the empty set.
OpenSetLoaded(s) ==
    /\ cycle[s].pc = "open"
    /\ Goes(s, [cycle[s] EXCEPT !.pc = "diff", !.open = TRUE])
    /\ UNCHANGED <<rows, lastSnap, departed, memFaults>>
OpenSetFails(s) ==
    /\ cycle[s].pc = "open"
    /\ Goes(s, [cycle[s] EXCEPT !.pc = "diff", !.open = FALSE])
    /\ Faulty
    /\ UNCHANGED <<rows, lastSnap, departed>>

\* The anti-join of reconcileMempoolSnapshot, and what it leaves to store.
Reconciles(s) ==
    /\ rows' = [t \in MemTxs |-> IF t \in cycle[s].todo THEN rows[t] ELSE "none"]
    /\ lastSnap' = cycle[s].todo
    /\ departed' = (cycle[s].todo \cap Stored) \ pool
Diffed(s) ==
    /\ cycle[s].pc = "diff"
    /\ Reconciles(s)
    /\ LET left == cycle[s].todo \ Stored
       IN  IF left = {} THEN CycleEnds(s)
           ELSE Goes(s, [cycle[s] EXCEPT !.pc = "fetch", !.todo = left])
    /\ UNCHANGED memFaults

\* Mutant: the latch stays set.
DiffFailsLatched(s, applied) ==
    /\ cycle[s].pc = "diff"
    /\ IF applied THEN Reconciles(s) ELSE UNCHANGED <<rows, lastSnap, departed>>
    /\ cycle' = [cycle EXCEPT ![s] = Idle] /\ UNCHANGED mempoolBusy
    /\ Faulty

\* A statement of the diff throws, before or after the rows were deleted.
DiffFails(s, applied) ==
    /\ cycle[s].pc = "diff"
    /\ IF applied THEN Reconciles(s) ELSE UNCHANGED <<rows, lastSnap, departed>>
    /\ CycleEnds(s)
    /\ Faulty

\* The next slice of the new arrivals, in the cycle's order.
Chunk(todo) == {t \in todo : Cardinality({u \in todo : u > t}) < MemBatch}

\* After the slice of a batch is dealt with.
BatchDone(s, rest) ==
    IF rest = {} THEN CycleEnds(s)
    ELSE Goes(s, [cycle[s] EXCEPT !.pc = "fetch", !.todo = rest, !.hex = {}])

\* getRawTransactions: null for what the node no longer has; what does not decode is
\* skipped without an await.
BatchArrives(s) ==
    /\ cycle[s].pc = "fetch"
    /\ LET chunk == Chunk(cycle[s].todo)
           rest  == cycle[s].todo \ chunk
           hex   == chunk \cap pool \cap Storable
       IN  IF hex = {} THEN BatchDone(s, rest)
           ELSE Goes(s, [cycle[s] EXCEPT !.pc = "store", !.todo = rest, !.hex = hex])
    /\ UNCHANGED <<rows, lastSnap, departed, memFaults>>
BatchFails(s) ==
    /\ cycle[s].pc = "fetch"
    /\ BatchDone(s, cycle[s].todo \ Chunk(cycle[s].todo))
    /\ Faulty
    /\ UNCHANGED <<rows, lastSnap, departed>>

\* admitMempoolAction: the text is stored, or the row is blank.
RowOf(t, open) == IF Kind[t] = "action" \/ (Kind[t] = "pays" /\ open) THEN "text" ELSE "blank"

\* insertMempoolTransaction of the next one: stored, a duplicate, or failed and skipped.
RowStored(s) ==
    /\ cycle[s].pc = "store"
    /\ LET t == Max(cycle[s].hex)
       IN  /\ rows' = IF t \in Stored THEN rows ELSE [rows EXCEPT ![t] = RowOf(t, cycle[s].open)]
           /\ departed' = IF t \in pool THEN departed \ {t} ELSE departed \cup {t}
           /\ IF cycle[s].hex = {t} THEN BatchDone(s, cycle[s].todo)
              ELSE Goes(s, [cycle[s] EXCEPT !.hex = @ \ {t}])
    /\ UNCHANGED <<lastSnap, memFaults>>
RowFails(s) ==
    /\ cycle[s].pc = "store"
    /\ LET t == Max(cycle[s].hex)
       IN  IF cycle[s].hex = {t} THEN BatchDone(s, cycle[s].todo)
           ELSE Goes(s, [cycle[s] EXCEPT !.hex = @ \ {t}])
    /\ Faulty
    /\ UNCHANGED <<rows, lastSnap, departed>>

CycleAdvances(s) ==
    ListArrives(s) \/ OpenSetLoaded(s) \/ Diffed(s) \/ BatchArrives(s) \/ RowStored(s)
CycleFaults(s) ==
    \/ \E applied \in BOOLEAN : DiffFails(s, applied)
    \/ ListFails(s) \/ OpenSetFails(s) \/ BatchFails(s) \/ RowFails(s)
CycleStep(s) ==
    /\ CycleAdvances(s) \/ CycleFaults(s)
    /\ UNCHANGED <<pool, interval, moves>>
MemNext ==
    \/ \E t \in MemTxs : PoolChanges(t)
    \/ TimerStarts \/ TimerFires \/ FallsBehind
    \/ \E s \in Slots : CycleStep(s)

\* The loop returns to the tip, the interval fires, and every call settles.
MemFairness ==
    /\ WF_memVars(TimerStarts) /\ WF_memVars(TimerFires)
    /\ \A s \in Slots : WF_memVars(CycleAdvances(s) /\ UNCHANGED <<pool, interval, moves>>)

MemSpec == MemInit /\ [][MemNext]_memVars /\ MemFairness
-----------------------------------------------------------------------------
\* The state has its shape, and the latch is held exactly while one cycle runs: no way
\* out of updateMempool leaves it set, none lets a second cycle in.
MemTypeOK ==
    /\ pool \cup lastSnap \cup departed \subseteq MemTxs
    /\ rows \in [MemTxs -> {"none", "text", "blank"}]
    /\ mempoolBusy = (\E s \in Slots : cycle[s] /= Idle)
    /\ Cardinality({s \in Slots : cycle[s] /= Idle}) <= 1

\* The rows come from the node's mempool as the last diff saw it, also while a cycle is
\* still storing: a slow cycle never adds a row that a later diff has already dropped.
RowsFollowTheDiff == Stored \subseteq lastSnap

\* A pending row is deleted only if the node has been without its transaction since it
\* was stored: no failed or malformed answer, and no cycle that throws half way, blanks
\* the published feed.
OnlyDepartedDeleted ==
    [][\A t \in Stored : rows'[t] = "none" => t \in departed]_memVars

\* Once the node's mempool settles and calls succeed again, the table holds exactly its
\* transactions that decode: no failure freezes the refresh.
PoolReflected == <>[](Stored = pool \cap Storable)

\* The pending view follows the node's mempool and nothing else: one cycle at a time, no
\* row but from the last diff, none deleted that the node still has, and the two agree
\* once the mempool settles (updateMempool).
PendingFollowsNode == [](MemTypeOK /\ RowsFollowTheDiff) /\ OnlyDepartedDeleted /\ PoolReflected
=============================================================================
