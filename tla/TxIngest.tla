------------------------------ MODULE TxIngest ------------------------------
(***************************************************************************)
(* The transactions of one block at a time: parse, quarantine ladder,      *)
(* tx_index assignment, insert, commit, and what a rollback, a failed      *)
(* commit, a reorg and a restart do to the counters (transaction_ingest.js *)
(* and the halves of block_store.js and sync_loop.js around it).           *)
(*                                                                         *)
(* A block is its hash; Txs gives the kind of each of its transactions:    *)
(*   "plain"   nothing storable (hasStorableContent is false)              *)
(*   "store"   stored as a transactions row                                *)
(*   "skip"    an oversized or unknown action with nothing else to record: *)
(*             buildStoredActionRecord says skip, tx_index is consumed     *)
(*   "throw"   parseTransaction throws on it whenever it runs              *)
(*   "poison"  the insert is rejected with a deterministic errno           *)
(* Fetching, the reorg proof and the halt are ParseLoop's subject: here a  *)
(* block is taken when it extends the stored chain, and the top block goes *)
(* when the node no longer has it.                                         *)
(***************************************************************************)
EXTENDS Integers, Sequences, FiniteSets

CONSTANTS
    Chains,       \* the chains the node can be on: sequences of block hashes
    Txs,          \* block hash -> the kinds of its transactions
    MaxRetries    \* TX_PARSE_MAX_RETRIES

Kinds == {"plain", "store", "skip", "throw", "poison"}
Hashes == DOMAIN Txs

ASSUME RetriesAssumption == MaxRetries \in Nat \ {0}
ASSUME ChainAssumption == /\ Chains # {} /\ Chains \subseteq Seq(Hashes)
                          /\ \A b \in Hashes : Txs[b] \in Seq(Kinds)
\* A hash commits to the parent's, so a block has one height on every chain.
ASSUME HashAssumption ==
    \A c, d \in Chains : \A i \in DOMAIN c, j \in DOMAIN d : c[i] = d[j] => i = j

VARIABLES
    node,        \* the node's active chain
    faults,      \* the database, the node and the process may still misbehave
    blocks,      \* the blocks table: hashes in height order
    rows,        \* the transactions table: [idx, hash, pos]
    errs,        \* PARSE_ERROR rows of the events table: <<hash, pos>>
    held,        \* the block whose database transaction is open, or None
    pos,         \* position of the next transaction of that block
    newRows, newErrs,  \* what the open transaction has written
    idx,         \* loop.lastProcessedTxIndex
    parseCounts, parseQuarantine,  \* loop.txParseRetryCounts, loop.parseQuarantine
    insertCounts, insertQuarantine

tables == <<blocks, rows, errs>>
work   == <<held, pos, newRows, newErrs>>
ladder == <<parseCounts, parseQuarantine, insertCounts, insertQuarantine>>
vars   == <<node, faults, tables, work, idx, ladder>>

None == "none"

Kind(b, p) == Txs[b][p]
LastPos(b) == Len(Txs[b])
Keys       == (Nat \ {0}) \X Hashes \X (Nat \ {0})
Places     == Hashes \X (Nat \ {0})
Rows       == [idx : Nat, hash : Hashes, pos : Nat \ {0}]

-----------------------------------------------------------------------------
\* Mutant: COUNT(*) for MAX(tx_index).
GetLastTxIndexByCount(R) == Cardinality(R) - 1

\* getLastTxIndex: MAX(tx_index) of the table, -1 when it is empty.
GetLastTxIndex(R) == IF R = {} THEN -1
                     ELSE CHOOSE i \in {r.idx : r \in R} : \A r \in R : r.idx <= i

NextHeight == Len(blocks) + 1

\* Mutant: keyed by height and position only.
QuarantineKeyAnyHash == <<NextHeight, CHOOSE b \in Hashes : TRUE, pos>>

\* Retry state belongs to a height, a block hash and a position.
QuarantineKey == <<NextHeight, held, pos>>

\* countAttempt.  Only attempts up to the quarantining one change what the
\* loop does, so the count stops there.
Attempts(m, k) == IF k \in DOMAIN m THEN m[k] ELSE 0
CountAttempt(m, k) ==
    [x \in DOMAIN m \cup {k} |->
        IF x = k /\ Attempts(m, k) <= MaxRetries THEN Attempts(m, k) + 1 ELSE m[x]]

ClearQuarantineState ==
    /\ parseCounts' = <<>> /\ parseQuarantine' = {}
    /\ insertCounts' = <<>> /\ insertQuarantine' = {}

CloseTransaction == held' = None /\ pos' = 0 /\ newRows' = {} /\ newErrs' = {}

\* Mutant: the cursors are not read again.
RollBackBlockKeepsIndex == CloseTransaction /\ UNCHANGED <<idx, tables>>

\* endTransaction, then resetAfterRollback: what the block wrote is gone and
\* the cursors are read from the tables again.
RollBackBlock ==
    /\ CloseTransaction
    /\ idx' = GetLastTxIndex(rows)
    /\ UNCHANGED tables

-----------------------------------------------------------------------------
TypeOK ==
    /\ node \in Chains /\ faults \in BOOLEAN
    /\ blocks \in Seq(Hashes) /\ rows \subseteq Rows /\ errs \subseteq Places
    /\ held \in Hashes \cup {None}
    /\ pos \in Nat /\ (held # None => pos \in 1..(LastPos(held) + 1))
    /\ newRows \subseteq Rows /\ newErrs \subseteq Places
    /\ idx \in Nat \cup {-1}
    /\ DOMAIN parseCounts \subseteq Keys
    /\ \A k \in DOMAIN parseCounts : parseCounts[k] \in 1..(MaxRetries + 1)
    /\ DOMAIN insertCounts \subseteq Keys
    /\ \A k \in DOMAIN insertCounts : insertCounts[k] \in 1..(MaxRetries + 1)
    /\ parseQuarantine \subseteq Keys /\ insertQuarantine \subseteq Keys

Init ==
    /\ node \in Chains /\ faults = TRUE
    /\ blocks = <<>> /\ rows = {} /\ errs = {}
    /\ held = None /\ pos = 0 /\ newRows = {} /\ newErrs = {}
    /\ idx = -1
    /\ parseCounts = <<>> /\ parseQuarantine = {}
    /\ insertCounts = <<>> /\ insertQuarantine = {}

-----------------------------------------------------------------------------
(* The block around its transactions. *)

StoredIsPrefix == /\ Len(blocks) <= Len(node)
                  /\ blocks = SubSeq(node, 1, Len(blocks))

\* storeBlock up to its first transaction.
BeginBlock ==
    /\ held = None /\ StoredIsPrefix /\ Len(blocks) < Len(node)
    /\ held' = node[NextHeight] /\ pos' = 1
    /\ UNCHANGED <<node, faults, tables, newRows, newErrs, idx, ladder>>

\* storeBlock's own statements fail: the block insert, the block-time
\* lookups, the dispenser expiry or the load of the capture set.
StoreBlockFault ==
    /\ faults /\ held # None
    /\ pos = 1 \/ pos = LastPos(held) + 1
    /\ RollBackBlock
    /\ UNCHANGED <<node, faults, ladder>>

AtTransaction == held # None /\ pos <= LastPos(held)
NextTransaction == pos' = pos + 1 /\ UNCHANGED held

WriteParseError == newErrs' = newErrs \cup {<<held, pos>>}

\* skipQuarantinedTransaction: an audit row, no tx_index, no insert.
SkipQuarantinedTransaction ==
    /\ AtTransaction /\ QuarantineKey \in insertQuarantine
    /\ WriteParseError /\ NextTransaction
    /\ UNCHANGED <<node, faults, tables, newRows, idx, ladder>>

ParsesNow == AtTransaction /\ QuarantineKey \notin insertQuarantine

\* A lookup tagged dbLookupFailure or rpcLookupFailure: the block is retried
\* and nothing is counted against the transaction.
LookupFault ==
    /\ faults /\ ParsesNow
    /\ RollBackBlock
    /\ UNCHANGED <<node, faults, ladder>>

ParseThrows == ParsesNow /\ Kind(held, pos) = "throw"

\* Mutant: the audit row is written on the quarantining pass only.
ThrowQuarantinedSilent ==
    /\ ParseThrows /\ QuarantineKey \in parseQuarantine
    /\ NextTransaction
    /\ UNCHANGED <<node, faults, tables, newRows, newErrs, idx, ladder>>

\* handleParseFailure on a position this block has already quarantined.
ThrowQuarantined ==
    /\ ParseThrows /\ QuarantineKey \in parseQuarantine
    /\ WriteParseError /\ NextTransaction
    /\ UNCHANGED <<node, faults, tables, newRows, idx, ladder>>

\* ... on a position with retries left: the whole block again.
ThrowRetried ==
    /\ ParseThrows /\ QuarantineKey \notin parseQuarantine
    /\ Attempts(parseCounts, QuarantineKey) < MaxRetries
    /\ parseCounts' = CountAttempt(parseCounts, QuarantineKey)
    /\ RollBackBlock
    /\ UNCHANGED <<node, faults, parseQuarantine, insertCounts, insertQuarantine>>

\* ... and on the attempt that quarantines it.
ThrowQuarantines ==
    /\ ParseThrows /\ QuarantineKey \notin parseQuarantine
    /\ Attempts(parseCounts, QuarantineKey) >= MaxRetries
    /\ parseCounts' = CountAttempt(parseCounts, QuarantineKey)
    /\ parseQuarantine' = parseQuarantine \cup {QuarantineKey}
    /\ WriteParseError /\ NextTransaction
    /\ UNCHANGED <<node, faults, tables, newRows, idx, insertCounts, insertQuarantine>>

\* The PARSE_ERROR row itself cannot be written: insertEvent has rolled the
\* block back, after the attempt was counted and before it was quarantined.
EventFault ==
    /\ faults
    /\ \/ /\ AtTransaction /\ QuarantineKey \in insertQuarantine
          /\ UNCHANGED parseCounts
       \/ /\ ParseThrows /\ QuarantineKey \in parseQuarantine
          /\ UNCHANGED parseCounts
       \/ /\ ParseThrows /\ QuarantineKey \notin parseQuarantine
          /\ Attempts(parseCounts, QuarantineKey) >= MaxRetries
          /\ parseCounts' = CountAttempt(parseCounts, QuarantineKey)
    /\ RollBackBlock
    /\ UNCHANGED <<node, faults, parseQuarantine, insertCounts, insertQuarantine>>

\* Nothing storable: no tx_index.
IngestPlain ==
    /\ ParsesNow /\ Kind(held, pos) = "plain"
    /\ NextTransaction
    /\ UNCHANGED <<node, faults, tables, newRows, newErrs, idx, ladder>>

\* Storable content that the storage gate skips: tx_index only.
IngestSkipped ==
    /\ ParsesNow /\ Kind(held, pos) = "skip"
    /\ idx' = idx + 1
    /\ NextTransaction
    /\ UNCHANGED <<node, faults, tables, newRows, newErrs, ladder>>

TakenIndexes == {r.idx : r \in rows \cup newRows}

\* persistTransaction: the row under the next tx_index, with its outputs and
\* its dispensers.  A duplicate key rolls the block back.
PersistTransaction ==
    /\ ParsesNow /\ Kind(held, pos) = "store"
    /\ IF idx + 1 \in TakenIndexes
       THEN RollBackBlock
       ELSE /\ idx' = idx + 1
            /\ newRows' = newRows \cup {[idx |-> idx + 1, hash |-> held, pos |-> pos]}
            /\ NextTransaction
            /\ UNCHANGED <<tables, newErrs>>
    /\ UNCHANGED <<node, faults, ladder>>

\* A transient failure of the row, of an output or of a dispenser write.
PersistFault ==
    /\ faults /\ ParsesNow /\ Kind(held, pos) \in {"store", "poison"}
    /\ RollBackBlock
    /\ UNCHANGED <<node, faults, ladder>>

\* Mutant: one retry too many before the quarantine, which the count never reaches.
InsertPoisonRowRetries ==
    /\ ParsesNow /\ Kind(held, pos) = "poison"
    /\ insertCounts' = CountAttempt(insertCounts, QuarantineKey)
    /\ insertQuarantine' = IF Attempts(insertCounts, QuarantineKey) > MaxRetries + 1
                           THEN insertQuarantine \cup {QuarantineKey}
                           ELSE insertQuarantine
    /\ RollBackBlock
    /\ UNCHANGED <<node, faults, parseCounts, parseQuarantine>>

\* POISON_ROW: insertTransaction has rolled the block back; the attempt past
\* the last retry quarantines the position for the next pass of the block.
InsertPoisonRow ==
    /\ ParsesNow /\ Kind(held, pos) = "poison"
    /\ insertCounts' = CountAttempt(insertCounts, QuarantineKey)
    /\ insertQuarantine' = IF Attempts(insertCounts, QuarantineKey) >= MaxRetries
                           THEN insertQuarantine \cup {QuarantineKey}
                           ELSE insertQuarantine
    /\ RollBackBlock
    /\ UNCHANGED <<node, faults, parseCounts, parseQuarantine>>

BlockDone == held # None /\ pos = LastPos(held) + 1

WriteTables ==
    /\ blocks' = Append(blocks, held)
    /\ rows' = rows \cup newRows
    /\ errs' = errs \cup newErrs
    /\ CloseTransaction

CommitBlock ==
    /\ BlockDone /\ WriteTables /\ ClearQuarantineState
    /\ UNCHANGED <<node, faults, idx>>

\* retryFailedCommit, when the commit did not take effect and when it did:
\* either way the cursors are read again and the retry state is kept.
CommitFails ==
    /\ faults /\ BlockDone /\ RollBackBlock
    /\ UNCHANGED <<node, faults, ladder>>

CommitUnacked ==
    /\ faults /\ BlockDone /\ WriteTables
    /\ idx' = GetLastTxIndex(rows')
    /\ UNCHANGED <<node, faults, ladder>>

\* Mutant: the rows of the deleted block stay.
RollBackTopKeepsRows ==
    /\ held = None /\ ~StoredIsPrefix
    /\ blocks' = SubSeq(blocks, 1, Len(blocks) - 1)
    /\ idx' = GetLastTxIndex(rows)
    /\ UNCHANGED <<node, faults, rows, errs, work, ladder>>

\* deleteBlockByIndex on the top block, then the cursors of the reconciled
\* loop.  The events are an append-only log and stay.
RollBackTop ==
    /\ held = None /\ ~StoredIsPrefix
    /\ LET top == blocks[Len(blocks)] IN rows' = {r \in rows : r.hash # top}
    /\ blocks' = SubSeq(blocks, 1, Len(blocks) - 1)
    /\ idx' = GetLastTxIndex(rows')
    /\ UNCHANGED <<node, faults, errs, work, ladder>>

\* Nothing to fetch: the loop sleeps and polls again.
PollAtTip ==
    /\ held = None /\ StoredIsPrefix /\ Len(blocks) = Len(node)
    /\ UNCHANGED vars

\* The process dies and boots: the tables are all it has.
Restart ==
    /\ faults
    /\ RollBackBlock /\ ClearQuarantineState
    /\ UNCHANGED <<node, faults>>

\* The node moves to another chain.
NodeMoves ==
    /\ faults /\ node' \in Chains \ {node}
    /\ UNCHANGED <<faults, tables, work, idx, ladder>>

\* From here on nothing misbehaves.
FaultsEnd ==
    /\ faults /\ faults' = FALSE
    /\ UNCHANGED <<node, tables, work, idx, ladder>>

LoopStep ==
    \/ BeginBlock \/ SkipQuarantinedTransaction
    \/ ThrowQuarantined \/ ThrowRetried \/ ThrowQuarantines
    \/ IngestPlain \/ IngestSkipped \/ PersistTransaction \/ InsertPoisonRow
    \/ CommitBlock \/ RollBackTop \/ PollAtTip

FaultStep ==
    \/ StoreBlockFault \/ LookupFault \/ EventFault \/ PersistFault
    \/ CommitFails \/ CommitUnacked \/ Restart \/ NodeMoves \/ FaultsEnd

Next == LoopStep \/ FaultStep

Spec == Init /\ [][Next]_vars
LiveSpec == Spec /\ WF_vars(LoopStep)

-----------------------------------------------------------------------------
(* Properties. *)

\* The places <<height, position>> of the stored chain whose transaction is of
\* one of the kinds K, and the order the chain gives them.
ChainPlaces(K) ==
    UNION {{<<h, p>> : p \in {q \in 1..LastPos(blocks[h]) : Kind(blocks[h], q) \in K}} :
           h \in 1..Len(blocks)}
Precedes(x, y) == x[1] < y[1] \/ (x[1] = y[1] /\ x[2] < y[2])
PlaceOf(r) == <<CHOOSE h \in 1..Len(blocks) : blocks[h] = r.hash, r.pos>>

\* The transactions table holds exactly the storable transactions of the
\* stored chain, one row each, and tx_index follows chain order: no retry,
\* quarantine, failed commit, reorg or restart drops, doubles or reorders one
\* (ingestTransaction, resetAfterRollback, deleteBlockRows).
RowsMatchChain ==
    /\ \A r \in rows : \E h \in 1..Len(blocks) : blocks[h] = r.hash
    /\ {PlaceOf(r) : r \in rows} = ChainPlaces({"store"})
    /\ \A r, s \in rows : Precedes(PlaceOf(r), PlaceOf(s)) <=> r.idx < s.idx

\* Only a transaction that fails by itself is ever skipped: a transient fault,
\* or another block's failures at the same height and position, never
\* quarantine a transaction a healthy instance stores (handleParseFailure,
\* insertTransactionRow, quarantineKey).
OnlyPoisonQuarantined ==
    \A x \in errs \cup newErrs : Kind(x[1], x[2]) \in {"throw", "poison"}

\* No transaction of a stored block is skipped without its PARSE_ERROR row
\* (skipQuarantinedTransaction, insertParseErrorEvent).
QuarantineAudited ==
    \A x \in ChainPlaces({"throw", "poison"}) : <<blocks[x[1]], x[2]>> \in errs

\* The counter never falls behind the table, so the duplicate-key branch of
\* insertTransactionRow is never taken (getLastTxIndex, resetAfterRollback).
NoIndexCollision == \A i \in TakenIndexes : i <= idx

\* The tx_index an instance that decodes the stored chain from its first
\* block without a fault gives the transaction at place x.
CleanIndex(x) == Cardinality({y \in ChainPlaces({"store", "skip"}) : Precedes(y, x)})

\* Every instance that stores a chain gives its transactions the same
\* tx_index, whatever rollbacks, reorgs and restarts it went through
\* (resetAfterRollback, ingestTransaction's storage gate).
TxIndexParity == \A r \in rows : r.idx = CleanIndex(PlaceOf(r))

\* Once faults stop, every block of the node's chain is committed: neither a
\* throwing nor a poison transaction wedges its height (the ladders of
\* handleParseFailure and insertTransactionRow).
CatchesUp == ~faults ~> blocks = node

=============================================================================
