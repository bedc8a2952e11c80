------------------------------ MODULE ParseLoop ------------------------------
(***************************************************************************)
(* The block loop of the decoder and its reorg recovery: start()'s loop,   *)
(* the tip refresh, the forward ingest of one block per database           *)
(* transaction, verifyReorg's rollback walk with its safe-depth ceiling,   *)
(* the durable REORG_HALT marker, the park, the restart, the health probe  *)
(* of the marker and the operator's clear-reorg-halt command.              *)
(*                                                                         *)
(* A block is the path of branch labels from the genesis block to it, so   *)
(* its height is its length, its parent is its front, and equal values are *)
(* equal hashes.  Heights are counted from the configured start height,    *)
(* which is 1.  `stored' is the blocks table: stored[h] is the hash at     *)
(* height h.  Every RPC to the node is a step of its own, because the node *)
(* (or the endpoint a failover picks) may move between two of them.        *)
(***************************************************************************)
EXTENDS Integers, Sequences, FiniteSets

CONSTANTS
    Labels,           \* labels of the edges of the block tree
    Chains,           \* the longest chains the node can be on: sequences of labels
    SafeDepth,        \* DISPENSER_EXPIRE_SAFE_DEPTH
    MaxHaltRows,      \* bound on REORG_HALT rows written
    MaxUnacked,       \* bound on deletes whose commit lands but reports failure
    Crashes,          \* TRUE iff the process may die at any step
    HealthProbes,     \* whether health routes probe the marker while the loop runs
    Operator          \* TRUE iff an operator runs clear-reorg-halt --force

ASSUME SafeDepthAssumption == SafeDepth \in Nat \ {0}
ASSUME ChainsAssumption == Chains # {} /\ Chains \subseteq Seq(Labels)
ASSUME BoundsAssumption == /\ MaxHaltRows \in Nat
                           /\ MaxUnacked \in Nat
ASSUME SwitchAssumption == {Crashes, HealthProbes, Operator} \subseteq BOOLEAN

VARIABLES
    active,       \* the tip of the node's active chain
    faults,       \* the node, the database and the process may still misbehave
    stored,       \* the blocks table, one hash per height from the start height
    reorgRows,    \* heights named by the REORG rows of the events table
    haltLive,     \* the newest REORG_HALT / REORG_HALT_CLEARED row is a halt
    haltId,       \* id of the newest REORG_HALT row
    purgedTo,     \* highest expiry mark a purge has hard-deleted
    highest,      \* history: the highest block ever committed
    unacked,      \* history: deletes that committed but reported failure
    lossy,        \* history: a block at or below purgedTo has been rolled back
    pc,           \* where the parse loop is
    cursor,       \* lastProcessedBlockIndex
    tip,          \* blockchainInfoLastBlock, NoInfo while the loop must refresh it first
    held,         \* the block fetchNextBlock returned
    nodeTip, prior, deleted,  \* verifyReorg's tip, priorDepth, blocksDeleted.length
    seen,         \* mid-walk tip reading not yet settled
    reading,      \* block-hash reading not yet settled
    readAt,       \* height the halted walk reads, then its fork point
    memHalted,    \* reorgHalted
    persisted,    \* reorgHaltMarkerPersisted
    probeFailed,  \* reorgHaltProbeFailed
    parkDue,      \* reorgHaltParkCheckDue
    parked,       \* reorgHaltParked and reorgHaltParkUnread
    probe,        \* the health probe in flight and what it read
    overtaken,    \* history: a probe's answer took back a halt raised since its query
    cli, cliId    \* the operator's command and the halt id it pinned

nodeVars == <<active, faults>>
dbVars   == <<stored, reorgRows, haltLive, haltId, purgedTo>>
histVars == <<highest, unacked, lossy>>
loopVars == <<cursor, tip, held>>
walkVars == <<nodeTip, prior, deleted, seen, reading, readAt>>
parkVars == <<memHalted, persisted, probeFailed, parkDue, parked>>
probeVars == <<probe, overtaken>>
cliVars  == <<cli, cliId>>
vars == <<nodeVars, dbVars, histVars, pc, loopVars, walkVars, parkVars, probeVars, cliVars>>

NoInfo == -1

Hash(b, h) == SubSeq(b, 1, h)
Parent(b)  == Hash(b, Len(b) - 1)

Blocks == UNION {{Hash(c, h) : h \in 0..Len(c)} : c \in Chains}

StoredTip == Len(stored)
NodeHeight == Len(active)

\* getblockheader reports a block of the active chain; any other block whose
\* header the node knows is reported with confirmations -1.
NodeHolds(b) == Len(b) <= NodeHeight /\ Hash(active, Len(b)) = b

\* countReorgDeletesAboveTip: distinct rolled-back heights above the stored tip.
RolledBack == {h \in reorgRows : h > StoredTip}
CountReorgDeletesAboveTip == Cardinality(RolledBack)

\* Mutant: only what this very walk deleted.
RolledBackByThisWalk == deleted

AlreadyRolledBack == prior + deleted

Max2(a, b) == IF a >= b THEN a ELSE b

Pcs == {"boot", "bootPark", "loop", "atTip", "eqSettle", "settle", "ingest",
        "link", "store", "purge", "vEntry", "vDepth", "walk", "rtip", "rtip2",
        "bound", "boundProof", "proof", "delete", "halt", "mark",
        "hRead", "hRead2", "hProof", "hDelete"}

NodeTypes == active \in Blocks /\ faults \in BOOLEAN

DbTypes ==
    /\ stored \in Seq(Blocks)
    /\ reorgRows \subseteq Nat \ {0}
    /\ haltLive \in BOOLEAN /\ haltId \in Nat
    /\ purgedTo \in Nat

HistTypes == highest \in Nat /\ unacked \in Nat /\ lossy \in BOOLEAN

LoopTypes ==
    /\ pc \in Pcs
    /\ cursor \in Nat /\ tip \in Nat \cup {NoInfo} /\ held \in Blocks

WalkTypes ==
    /\ nodeTip \in Nat \cup {NoInfo} /\ prior \in Nat /\ deleted \in Nat
    /\ seen \in Nat \cup {NoInfo} /\ reading \in Blocks /\ readAt \in Nat

ParkTypes ==
    /\ memHalted \in BOOLEAN
    /\ persisted \in {"null", "false", "true"}
    /\ probeFailed \in BOOLEAN /\ parkDue \in BOOLEAN
    /\ parked \in {"no", "halt", "unread"}

OtherTypes ==
    /\ probe \in {"idle", "halt", "none"} /\ overtaken \in BOOLEAN
    /\ cli \in {"idle", "count", "reread", "write"} /\ cliId \in Nat

\* The types of the state: the table, the events, the loop, the walk and the
\* halt flags of the process.
TypeOK == NodeTypes /\ DbTypes /\ HistTypes /\ LoopTypes /\ WalkTypes /\ ParkTypes
          /\ OtherTypes

Init ==
    /\ active \in Blocks /\ faults = TRUE
    /\ stored = <<>> /\ reorgRows = {} /\ haltLive = FALSE /\ haltId = 0 /\ purgedTo = 0
    /\ highest = 0 /\ unacked = 0 /\ lossy = FALSE
    /\ pc = "boot"
    /\ cursor = 0 /\ tip = NoInfo /\ held = <<>>
    /\ nodeTip = NoInfo /\ prior = 0 /\ deleted = 0
    /\ seen = NoInfo /\ reading = <<>> /\ readAt = 0
    /\ memHalted = FALSE /\ persisted = "null" /\ probeFailed = FALSE
    /\ parkDue = FALSE /\ parked = "no"
    /\ probe = "idle" /\ overtaken = FALSE /\ cli = "idle" /\ cliId = 0

-----------------------------------------------------------------------------
(* The environment.  While faults is TRUE the node's active chain moves to  *)
(* any block (growth, reorg, restart on a shorter chain, failover to        *)
(* another endpoint), calls fail and the process may die.  Calm ends that:  *)
(* from then on every call answers, truthfully.                             *)

NodeMove(b) ==
    /\ faults
    /\ active' = b
    /\ faults' = faults
    /\ UNCHANGED <<dbVars, histVars, pc, loopVars, walkVars, parkVars, probeVars, cliVars>>

Calm ==
    /\ faults' = FALSE
    /\ UNCHANGED <<active, dbVars, histVars, pc, loopVars, walkVars, parkVars, probeVars, cliVars>>

\* A fault that a call may or may not meet.
Perhaps == IF faults THEN BOOLEAN ELSE {FALSE}

-----------------------------------------------------------------------------
(* Shared ends of a pass.                                                   *)

ForgetWalk ==
    /\ nodeTip' = NoInfo /\ prior' = 0 /\ deleted' = 0
    /\ seen' = NoInfo /\ reading' = <<>> /\ readAt' = 0

EndPass ==
    /\ pc' = "loop" /\ held' = <<>>
    /\ ForgetWalk

\* A pass that ends with the cursors as they were.
Again == EndPass /\ UNCHANGED cursor

\* A pass that re-derives the cursor from the blocks table.
Rederive == EndPass /\ cursor' = StoredTip

\* parkOrRethrow on a REORG_HALT refusal: re-derive the cursor, or keep it when
\* the table cannot be read, then park.
ParkOnHalt ==
    /\ EndPass
    /\ cursor' \in IF faults THEN {StoredTip, cursor} ELSE {StoredTip}
    /\ parked' = IF parked = "no" THEN "halt" ELSE parked

\* The memory a dead process loses; the next process starts at boot.
LoseMemory ==
    /\ pc' = "boot" /\ cursor' = 0 /\ tip' = NoInfo /\ held' = <<>>
    /\ ForgetWalk
    /\ memHalted' = FALSE /\ persisted' = "null" /\ probeFailed' = FALSE
    /\ parkDue' = FALSE /\ parked' = "no"
    /\ probe' = "idle" /\ UNCHANGED overtaken

-----------------------------------------------------------------------------
(* The halt marker as the process reads it.                                 *)

\* Mutant: a probe never takes a halt it has seen back.
AdoptMarkerSticky(live) ==
    /\ probeFailed' = FALSE
    /\ memHalted' = (memHalted \/ live)
    /\ persisted' = IF live THEN "true" ELSE persisted
    /\ parkDue' = (parkDue \/ (live /\ ~memHalted))

\* What checkReorgHalt makes of a marker it has read.
AdoptMarker(live) ==
    /\ probeFailed' = FALSE
    /\ IF memHalted /\ persisted = "false" /\ ~live
       THEN UNCHANGED <<memHalted, persisted, parkDue>>
       ELSE /\ memHalted' = live
            /\ persisted' = IF live THEN "true" ELSE persisted
            /\ parkDue' = (parkDue \/ (live /\ ~memHalted))

\* Mutant: a probe that fails reads as no halt.
ProbeFaultClears ==
    /\ faults
    /\ probeFailed' = TRUE
    /\ memHalted' = FALSE
    /\ UNCHANGED <<persisted, parkDue>>

ProbeFault ==
    /\ faults
    /\ probeFailed' = TRUE
    /\ UNCHANGED <<memHalted, persisted, parkDue>>

\* Mutant: a count that cannot be read does not park.
ParkForReadable(halted, failed, unreadable) ==
    IF failed THEN "unread"
    ELSE IF halted /\ ~unreadable /\ CountReorgDeletesAboveTip # 0 THEN "halt"
    ELSE "no"

\* parkOnRolledBackHalt: the park a probe's answer calls for.  A count that
\* cannot be read parks.
ParkFor(halted, failed, unreadable) ==
    IF failed THEN "unread"
    ELSE IF halted /\ (unreadable \/ CountReorgDeletesAboveTip # 0) THEN "halt"
    ELSE "no"

Boot ==
    /\ pc = "boot"
    /\ AdoptMarker(haltLive) \/ ProbeFault
    /\ cursor' = StoredTip
    /\ tip' = NoInfo
    /\ pc' = "bootPark"
    /\ UNCHANGED <<nodeVars, dbVars, histVars, held, walkVars, parked, probeVars, cliVars>>

BootPark ==
    /\ pc = "bootPark"
    /\ parkDue' = FALSE
    /\ \E unreadable \in Perhaps : parked' = ParkFor(memHalted, probeFailed, unreadable)
    /\ pc' = "loop"
    /\ UNCHANGED <<nodeVars, dbVars, histVars, loopVars, walkVars,
                   memHalted, persisted, probeFailed, probeVars, cliVars>>

\* reorgHaltHoldsLoop: a probe has just seen a halt for the first time.
ParkCheck ==
    /\ pc = "loop" /\ parkDue
    /\ parkDue' = FALSE
    /\ \E unreadable \in Perhaps :
          parked' = IF parked # "no" THEN parked
                    ELSE ParkFor(memHalted, probeFailed, unreadable)
    /\ UNCHANGED <<nodeVars, dbVars, histVars, pc, loopVars, walkVars,
                   memHalted, persisted, probeFailed, probeVars, cliVars>>

LeavePark ==
    /\ cursor' = StoredTip
    /\ tip' = NoInfo

\* resumeFromReorgHaltPark answered from the cached status, inside the TTL.
ResumeCached ==
    /\ pc = "loop" /\ ~parkDue /\ parked = "halt" /\ persisted # "false"
    /\ ~memHalted
    /\ parked' = "no"
    /\ LeavePark
    /\ UNCHANGED <<nodeVars, dbVars, histVars, pc, held, walkVars,
                   memHalted, persisted, probeFailed, parkDue, probeVars, cliVars>>

\* resumeFromReorgHaltPark with the TTL expired: the marker is read again.
ResumeProbe ==
    /\ pc = "loop" /\ ~parkDue /\ parked = "halt" /\ persisted # "false"
    /\ probe = "idle"
    /\ \/ AdoptMarker(haltLive)
       \/ ProbeFault
    /\ IF memHalted'
       THEN UNCHANGED <<parked, cursor, tip>>
       ELSE parked' = "no" /\ LeavePark
    /\ UNCHANGED <<nodeVars, dbVars, histVars, pc, held, walkVars, probeVars, cliVars>>

\* resumeFromUnreadPark: only a real read ends the park, and a halt it finds
\* goes through the boot park check.
ResumeUnread ==
    /\ pc = "loop" /\ ~parkDue /\ parked = "unread" /\ probe = "idle"
    /\ \/ /\ ProbeFault
          /\ UNCHANGED <<parked, cursor, tip>>
       \/ /\ AdoptMarker(haltLive)
          /\ \E unreadable \in Perhaps : parked' = ParkFor(memHalted', FALSE, unreadable)
          /\ IF parked' = "no" THEN LeavePark ELSE UNCHANGED <<cursor, tip>>
    /\ UNCHANGED <<nodeVars, dbVars, histVars, pc, held, walkVars, probeVars, cliVars>>

-----------------------------------------------------------------------------
(* The tip refresh, and the two checks that compare the stored tip with the *)
(* node's.                                                                  *)

Parsing == pc = "loop" /\ ~parkDue /\ parked = "no"

\* fetchChainTip fails, or a gate refuses the reply and drops it.
RefreshRefused ==
    /\ Parsing /\ faults
    /\ tip' = NoInfo
    /\ UNCHANGED <<nodeVars, dbVars, histVars, pc, cursor, held, walkVars, parkVars, probeVars, cliVars>>

\* refreshChainTip: a tip below the cursor is a regression unless the node is
\* still in initial block download.
Refresh ==
    /\ Parsing
    /\ tip' = NodeHeight
    /\ \E ibd \in Perhaps :
          pc' = CASE cursor > NodeHeight -> IF ibd THEN "loop" ELSE "settle"
                  [] cursor = NodeHeight -> IF cursor >= 1 THEN "atTip" ELSE "loop"
                  [] OTHER -> "ingest"
    /\ UNCHANGED <<nodeVars, dbVars, histVars, cursor, held, walkVars, parkVars, probeVars, cliVars>>

\* The cached tip is recent and above the cursor: no refresh this pass.
NoRefresh ==
    /\ Parsing
    /\ tip # NoInfo /\ cursor < tip
    /\ pc' = "ingest"
    /\ UNCHANGED <<nodeVars, dbVars, histVars, loopVars, walkVars, parkVars, probeVars, cliVars>>

\* settleTipBelow: two agreeing readings below the cursor start a reconcile.
SettleTip ==
    /\ pc = "settle"
    /\ tip' = NodeHeight
    /\ pc' = CASE NodeHeight # tip -> "settle"
               [] NodeHeight = tip /\ tip < cursor -> "vEntry"
               [] OTHER -> "loop"
    /\ UNCHANGED <<nodeVars, dbVars, histVars, cursor, held, walkVars, parkVars, probeVars, cliVars>>

\* A reading that fails, is refused, comes from a node in initial block
\* download, or is still moving after TIP_SETTLE_MAX_READS.
SettleGivesUp ==
    /\ pc = "settle" /\ faults
    /\ tip' \in {NoInfo, NodeHeight}
    /\ pc' = "loop"
    /\ UNCHANGED <<nodeVars, dbVars, histVars, cursor, held, walkVars, parkVars, probeVars, cliVars>>

\* Mutant: two chains of one height are never compared.
CompareTipsNever ==
    /\ pc = "atTip"
    /\ pc' = "loop"
    /\ UNCHANGED <<nodeVars, dbVars, histVars, loopVars, walkVars, parkVars, probeVars, cliVars>>

\* reconcileEqualHeightTip: the node holds another block at the stored height.
CompareTips ==
    /\ pc = "atTip"
    /\ IF /\ cursor <= NodeHeight
          /\ cursor <= StoredTip
          /\ Hash(active, cursor) # stored[cursor]
       THEN pc' = "eqSettle" /\ reading' = Hash(active, cursor)
       ELSE pc' = "loop" /\ UNCHANGED reading
    /\ UNCHANGED <<nodeVars, dbVars, histVars, loopVars, nodeTip, prior, deleted,
                   seen, readAt, parkVars, probeVars, cliVars>>

\* equalHeightSwapHolds: two agreeing readings of the other hash.
SettleSwap ==
    /\ pc = "eqSettle"
    /\ cursor <= NodeHeight
    /\ LET again == Hash(active, cursor) IN
          IF again # reading
          THEN pc' = pc /\ reading' = again
          ELSE /\ reading' = <<>>
               /\ pc' = IF again # stored[cursor] THEN "vEntry" ELSE "loop"
    /\ UNCHANGED <<nodeVars, dbVars, histVars, loopVars, nodeTip, prior, deleted,
                   seen, readAt, parkVars, probeVars, cliVars>>

\* A read fault, a height the node no longer has, or a reading that keeps
\* moving: the check is skipped until the next refresh.
SwapGivesUp ==
    /\ pc \in {"atTip", "eqSettle"}
    /\ faults \/ cursor > NodeHeight
    /\ Again
    /\ UNCHANGED <<nodeVars, dbVars, histVars, tip, parkVars, probeVars, cliVars>>

-----------------------------------------------------------------------------
(* The forward ingest of one block.                                         *)

FetchNextBlock ==
    /\ pc = "ingest"
    /\ cursor < NodeHeight
    /\ held' = Hash(active, cursor + 1)
    /\ pc' = "link"
    /\ UNCHANGED <<nodeVars, dbVars, histVars, cursor, tip, walkVars, parkVars, probeVars, cliVars>>

\* The fetch or the read of the previous block fails; also the fetch of a
\* height the node no longer has.
FetchFails ==
    /\ \/ pc \in {"ingest", "link"} /\ faults
       \/ pc = "ingest" /\ cursor >= NodeHeight
    /\ Again
    /\ UNCHANGED <<nodeVars, dbVars, histVars, tip, parkVars, probeVars, cliVars>>

\* retryUndecodableBlock: bytes that do not parse re-derive the cursor.
RetryUndecodableBlock ==
    /\ pc = "link" /\ faults
    /\ Rederive
    /\ UNCHANGED <<nodeVars, dbVars, histVars, tip, parkVars, probeVars, cliVars>>

\* Mutant: the previous hash is not compared with the stored block.
DetectReorgNever ==
    /\ pc = "link"
    /\ pc' = IF cursor >= 1 /\ cursor > StoredTip THEN "loop" ELSE "store"
    /\ UNCHANGED <<nodeVars, dbVars, histVars, loopVars, walkVars, parkVars, probeVars, cliVars>>

\* detectReorgAtBlock: no previous block is checked at the start height; a
\* previous row that is absent is retried.
DetectReorg ==
    /\ pc = "link"
    /\ \/ /\ cursor >= 1 /\ cursor > StoredTip
          /\ Again
       \/ /\ cursor >= 1 /\ cursor <= StoredTip /\ Parent(held) # stored[cursor]
          /\ pc' = "vEntry" /\ held' = <<>>
          /\ UNCHANGED <<cursor, walkVars>>
       \/ /\ cursor >= 1 => (cursor <= StoredTip /\ Parent(held) = stored[cursor])
          /\ pc' = "store"
          /\ UNCHANGED <<cursor, held, walkVars>>
    /\ UNCHANGED <<nodeVars, dbVars, histVars, tip, parkVars, probeVars, cliVars>>

\* storeBlock commits.  A commit that landed but was reported failed
\* re-derives the cursor and runs no purge.
CommitBlock ==
    /\ pc = "store"
    /\ cursor = StoredTip
    /\ stored' = Append(stored, held)
    /\ highest' = Max2(highest, StoredTip + 1)
    /\ \/ /\ pc' = "purge"
          /\ UNCHANGED <<cursor, held>>
       \/ /\ faults
          /\ pc' = "loop"
          /\ held' = <<>>
          /\ cursor' = StoredTip + 1
    /\ UNCHANGED <<nodeVars, reorgRows, haltLive, haltId, purgedTo, unacked, lossy,
                   tip, walkVars, parkVars, probeVars, cliVars>>

\* Any failure inside the block transaction rolls it back.
StoreFails ==
    /\ pc = "store" /\ faults
    /\ Rederive
    /\ UNCHANGED <<nodeVars, dbVars, histVars, tip, parkVars, probeVars, cliVars>>

\* Mutant: the purge height is the previous block's, not clamped at the start.
PurgeExpiredUnclamped ==
    /\ pc = "purge"
    /\ purgedTo' = cursor - SafeDepth
    /\ cursor' = cursor + 1
    /\ pc' = "loop"
    /\ held' = <<>>
    /\ UNCHANGED <<nodeVars, stored, reorgRows, haltLive, haltId, histVars,
                   tip, walkVars, parkVars, probeVars, cliVars>>

\* purgeExpiredAfterCommit: runs after the commit, in a transaction of its own;
\* a failed purge is only counted.
PurgeExpired ==
    /\ pc = "purge"
    /\ \/ purgedTo' = Max2(purgedTo, cursor + 1 - SafeDepth)
       \/ faults /\ purgedTo' = purgedTo
    /\ cursor' = cursor + 1
    /\ pc' = "loop"
    /\ held' = <<>>
    /\ UNCHANGED <<nodeVars, stored, reorgRows, haltLive, haltId, histVars,
                   tip, walkVars, parkVars, probeVars, cliVars>>

-----------------------------------------------------------------------------
(* verifyReorg.                                                             *)

\* Mutant: the guard trusts the flag in memory.
VerifyReorgTrustsMemory ==
    /\ pc = "vEntry"
    /\ IF memHalted
       THEN ParkOnHalt
       ELSE pc' = "vDepth" /\ UNCHANGED <<cursor, held, walkVars, parked>>
    /\ UNCHANGED <<nodeVars, dbVars, histVars, tip, memHalted, persisted, probeFailed,
                   parkDue, probeVars, cliVars>>

\* The restart-durable entry guard.
VerifyReorgEntry ==
    /\ pc = "vEntry"
    /\ IF haltLive
       THEN /\ memHalted' = TRUE
            /\ ParkOnHalt
       ELSE /\ pc' = "vDepth"
            /\ UNCHANGED <<cursor, held, walkVars, memHalted, parked>>
    /\ UNCHANGED <<nodeVars, dbVars, histVars, tip, persisted, probeFailed, parkDue, probeVars, cliVars>>

\* The marker, or the depth after three attempts, could not be read: the untagged
\* throw leaves start() before any delete, and the process ends.
VerifyReorgAborts ==
    /\ pc \in {"vEntry", "vDepth"} /\ faults
    /\ LoseMemory
    /\ UNCHANGED <<nodeVars, dbVars, histVars, cliVars>>

\* Mutant: every walk starts counting from zero.
PriorDepthForgotten ==
    /\ pc = "vDepth"
    /\ prior' = 0
    /\ nodeTip' = tip
    /\ pc' = "walk"
    /\ UNCHANGED <<nodeVars, dbVars, histVars, loopVars, deleted, seen, reading, readAt,
                   parkVars, probeVars, cliVars>>

ReadPriorRollbackDepth ==
    /\ pc = "vDepth"
    /\ prior' = CountReorgDeletesAboveTip
    /\ nodeTip' = tip
    /\ pc' = "walk"
    /\ UNCHANGED <<nodeVars, dbVars, histVars, loopVars, deleted, seen, reading, readAt,
                   parkVars, probeVars, cliVars>>

\* One iteration of walkReorg: the stored tip against the node.
WalkEmpty ==
    /\ pc = "walk" /\ StoredTip = 0
    /\ Rederive
    /\ UNCHANGED <<nodeVars, dbVars, histVars, tip, parkVars, probeVars, cliVars>>

WalkAboveTip ==
    /\ pc = "walk" /\ StoredTip >= 1 /\ StoredTip > nodeTip
    /\ pc' = "bound"
    /\ UNCHANGED <<nodeVars, dbVars, histVars, loopVars, walkVars, parkVars, probeVars, cliVars>>

WalkCompare ==
    /\ pc = "walk" /\ StoredTip >= 1 /\ StoredTip <= nodeTip
    /\ StoredTip <= NodeHeight
    /\ IF Hash(active, StoredTip) = stored[StoredTip]
       THEN Rederive
       ELSE pc' = "proof" /\ UNCHANGED <<cursor, held, walkVars>>
    /\ UNCHANGED <<nodeVars, dbVars, histVars, tip, parkVars, probeVars, cliVars>>

\* getBlockHash failed, or the height is now out of range.
WalkReadFails ==
    /\ pc = "walk" /\ StoredTip >= 1 /\ StoredTip <= nodeTip
    /\ faults \/ StoredTip > NodeHeight
    /\ pc' = "rtip"
    /\ UNCHANGED <<nodeVars, dbVars, histVars, loopVars, walkVars, parkVars, probeVars, cliVars>>

\* refreshReorgTip: a higher tip is taken at once, a lower one once two
\* readings agree.
RefreshReorgTip ==
    /\ pc = "rtip"
    /\ IF NodeHeight >= nodeTip
       THEN nodeTip' = NodeHeight /\ pc' = "walk" /\ UNCHANGED seen
       ELSE seen' = NodeHeight /\ pc' = "rtip2" /\ UNCHANGED nodeTip
    /\ UNCHANGED <<nodeVars, dbVars, histVars, loopVars, prior, deleted, reading, readAt,
                   parkVars, probeVars, cliVars>>

SettleReorgTip ==
    /\ pc = "rtip2"
    /\ IF NodeHeight = seen
       THEN nodeTip' = seen /\ seen' = NoInfo /\ pc' = "walk"
       ELSE seen' = NodeHeight /\ UNCHANGED <<nodeTip, pc>>
    /\ UNCHANGED <<nodeVars, dbVars, histVars, loopVars, prior, deleted, reading, readAt,
                   parkVars, probeVars, cliVars>>

\* The node is unreachable, refused by a gate, or still moving.
ReorgTipRefused ==
    /\ pc \in {"rtip", "rtip2"} /\ faults
    /\ seen' = NoInfo
    /\ pc' = "walk"
    /\ UNCHANGED <<nodeVars, dbVars, histVars, loopVars, nodeTip, prior, deleted, reading,
                   readAt, parkVars, probeVars, cliVars>>

\* Every refusal of a proof (a call that failed, a header the node does not
\* know, a boundary block it does not have or still holds, a stored block back
\* on its active chain): nothing more is deleted and the pass ends with the
\* cursor as it was.
ReorgWait ==
    /\ \/ pc \in {"bound", "boundProof", "proof"} /\ faults
       \/ pc = "bound" /\ (nodeTip < 1 \/ nodeTip > NodeHeight)
       \/ pc = "bound" /\ nodeTip >= 1 /\ NodeHolds(stored[nodeTip])
       \/ pc = "boundProof" /\ NodeHolds(stored[nodeTip])
       \/ pc = "proof" /\ NodeHolds(stored[StoredTip])
    /\ Again
    /\ UNCHANGED <<nodeVars, dbVars, histVars, tip, parkVars, probeVars, cliVars>>

\* Mutant: a tip below the stored one is taken for a reorg.
AboveTipAssumed ==
    /\ pc = "bound"
    /\ nodeTip >= 1 /\ nodeTip <= NodeHeight
    /\ pc' = "boundProof"
    /\ UNCHANGED <<nodeVars, dbVars, histVars, loopVars, walkVars, parkVars, probeVars, cliVars>>

\* requireAboveTipForkProof: the stored chain must already differ at the node's
\* own tip before a block above it can be called abandoned.
AboveTipDiffers ==
    /\ pc = "bound"
    /\ nodeTip >= 1 /\ nodeTip <= NodeHeight
    /\ Hash(active, nodeTip) # stored[nodeTip]
    /\ pc' = "boundProof"
    /\ UNCHANGED <<nodeVars, dbVars, histVars, loopVars, walkVars, parkVars, probeVars, cliVars>>

\* requireReorgProof of the boundary block, then the deep-gap halt.
AboveTipProven ==
    /\ pc = "boundProof"
    /\ ~NodeHolds(stored[nodeTip])
    /\ pc' = IF AlreadyRolledBack + (StoredTip - nodeTip) + 1 <= SafeDepth
             THEN "proof" ELSE "halt"
    /\ UNCHANGED <<nodeVars, dbVars, histVars, loopVars, walkVars, parkVars, probeVars, cliVars>>

\* requireReorgProof of the top block, then assertWithinSafeDepth.
ProveReorgedAway ==
    /\ pc = "proof"
    /\ ~NodeHolds(stored[StoredTip])
    /\ pc' = IF AlreadyRolledBack >= SafeDepth THEN "halt" ELSE "delete"
    /\ UNCHANGED <<nodeVars, dbVars, histVars, loopVars, walkVars, parkVars, probeVars, cliVars>>

\* Mutant: one REORG row is kept, naming the last height deleted.
DeleteTopOneRow ==
    /\ stored' = SubSeq(stored, 1, StoredTip - 1)
    /\ reorgRows' = {StoredTip}
    /\ lossy' = (lossy \/ StoredTip <= purgedTo)

\* deleteBlockByIndex commits: the block is gone and its REORG row is written.
DeleteTop ==
    /\ stored' = SubSeq(stored, 1, StoredTip - 1)
    /\ reorgRows' = reorgRows \cup {StoredTip}
    /\ lossy' = (lossy \/ StoredTip <= purgedTo)

DeleteBlock ==
    /\ pc = "delete"
    /\ DeleteTop
    /\ deleted' = deleted + 1
    /\ pc' = "walk"
    /\ UNCHANGED <<nodeVars, haltLive, haltId, purgedTo, highest, unacked, loopVars,
                   nodeTip, prior, seen, reading, readAt, parkVars, probeVars, cliVars>>

\* The commit landed and its acknowledgement was lost: the catch retries the
\* walk without counting the block.
DeleteUnacked ==
    /\ pc = "delete" /\ faults /\ unacked < MaxUnacked
    /\ DeleteTop
    /\ unacked' = unacked + 1
    /\ pc' = "walk"
    /\ UNCHANGED <<nodeVars, haltLive, haltId, purgedTo, highest, loopVars,
                   walkVars, parkVars, probeVars, cliVars>>

DeleteFails ==
    /\ pc = "delete" /\ faults
    /\ pc' = "walk"
    /\ UNCHANGED <<nodeVars, dbVars, histVars, loopVars, walkVars, parkVars, probeVars, cliVars>>

\* markReorgHalted's write: the row lands, unless a halt is already live.
WriteHaltRow ==
    /\ haltLive' = TRUE
    /\ haltLive \/ haltId < MaxHaltRows
    /\ haltId' = IF haltLive THEN haltId ELSE haltId + 1

\* Ten failed deletes: haltReorg, and an untagged throw ends the process.
DeleteGivesUp ==
    /\ pc = "delete" /\ faults
    /\ WriteHaltRow \/ UNCHANGED <<haltLive, haltId>>
    /\ LoseMemory
    /\ UNCHANGED <<nodeVars, stored, reorgRows, purgedTo, histVars, cliVars>>

-----------------------------------------------------------------------------
(* The safe-depth halt and the halted walk.                                 *)

\* haltReorg sets the in-memory state before it writes anything.
HaltReorg ==
    /\ pc = "halt"
    /\ memHalted' = TRUE
    /\ pc' = "mark"
    /\ UNCHANGED <<nodeVars, dbVars, histVars, loopVars, walkVars, persisted, probeFailed,
                   parkDue, parked, probeVars, cliVars>>

\* The marker is confirmed by read-back: the halted walk begins.
MarkConfirmed ==
    /\ pc = "mark"
    /\ WriteHaltRow
    /\ persisted' = "true"
    /\ readAt' = StoredTip
    /\ pc' = "hRead"
    /\ UNCHANGED <<nodeVars, stored, reorgRows, purgedTo, histVars, loopVars, nodeTip, prior,
                   deleted, seen, reading, memHalted, probeFailed, parkDue, parked, probeVars, cliVars>>

\* Mutant: the halted walk begins whether or not the marker was confirmed.
MarkUnconfirmedWalks ==
    /\ pc = "mark"
    /\ faults \/ (~haltLive /\ haltId >= MaxHaltRows)
    /\ WriteHaltRow \/ UNCHANGED <<haltLive, haltId>>
    /\ persisted' = "false"
    /\ readAt' = StoredTip
    /\ pc' = "hRead"
    /\ UNCHANGED <<nodeVars, stored, reorgRows, purgedTo, histVars, loopVars, nodeTip, prior,
                   deleted, seen, reading, memHalted, probeFailed, parkDue, parked, probeVars, cliVars>>

\* The marker could not be written, or not confirmed: park, deleting nothing.
\* At the bound on rows the write fails.
MarkUnconfirmed ==
    /\ pc = "mark"
    /\ faults \/ (~haltLive /\ haltId >= MaxHaltRows)
    /\ WriteHaltRow \/ UNCHANGED <<haltLive, haltId>>
    /\ persisted' = "false"
    /\ ParkOnHalt
    /\ UNCHANGED <<nodeVars, stored, reorgRows, purgedTo, histVars, tip, memHalted,
                   probeFailed, parkDue, probeVars, cliVars>>

\* finishHaltedWalk ends, wherever it is; verifyReorg throws the halt.
HaltedWalkStops ==
    /\ ParkOnHalt
    /\ UNCHANGED <<nodeVars, dbVars, histVars, tip, memHalted, persisted, probeFailed,
                   parkDue, probeVars, cliVars>>

\* Mutant: the budget forgets what the walk has already rolled back.
LowestOfTwoWindows == Max2(1, StoredTip - 2 * SafeDepth)

\* Lowest height the halted walk may read: the whole rollback fits two windows.
Lowest == Max2(1, StoredTip - (2 * SafeDepth - AlreadyRolledBack))

\* Heights above the node tip are doomed without a reading.
HaltedSkip ==
    /\ pc = "hRead" /\ readAt >= Lowest /\ readAt > nodeTip
    /\ readAt' = readAt - 1
    /\ UNCHANGED <<nodeVars, dbVars, histVars, pc, loopVars, nodeTip, prior, deleted, seen,
                   reading, parkVars, probeVars, cliVars>>

HaltedFirstReading ==
    /\ pc = "hRead" /\ readAt >= Lowest /\ readAt <= nodeTip
    /\ readAt <= NodeHeight
    /\ reading' = Hash(active, readAt)
    /\ pc' = "hRead2"
    /\ UNCHANGED <<nodeVars, dbVars, histVars, loopVars, nodeTip, prior, deleted, seen, readAt,
                   parkVars, probeVars, cliVars>>

\* No fork point within two windows, a reading failed, or two disagree.
HaltedReadStops ==
    /\ \/ pc \in {"hRead", "hRead2"} /\ faults
       \/ pc = "hRead" /\ readAt < Lowest
       \/ pc = "hRead" /\ readAt <= nodeTip /\ readAt > NodeHeight
       \/ pc = "hRead2" /\ (readAt <= NodeHeight => Hash(active, readAt) # reading)
    /\ HaltedWalkStops

\* The second reading.  It must agree; the stored hash makes it the fork point.
\* A fork point at the node's own tip with stored blocks above it is a node
\* that may merely be behind.
HaltedSecondReading ==
    /\ pc = "hRead2"
    /\ readAt <= NodeHeight /\ Hash(active, readAt) = reading
    /\ IF reading # stored[readAt]
       THEN /\ readAt' = readAt - 1
            /\ reading' = <<>>
            /\ pc' = "hRead"
            /\ UNCHANGED <<cursor, held, nodeTip, prior, deleted, seen, parked>>
       ELSE IF readAt = nodeTip /\ StoredTip > nodeTip
       THEN ParkOnHalt
       ELSE /\ reading' = <<>>
            /\ pc' = "hProof"
            /\ UNCHANGED <<cursor, held, nodeTip, prior, deleted, seen, readAt, parked>>
    /\ UNCHANGED <<nodeVars, dbVars, histVars, tip, memHalted, persisted, probeFailed,
                   parkDue, probeVars, cliVars>>

\* deleteProvenBlocks: the node is asked again immediately before each delete.
HaltedProof ==
    /\ pc = "hProof" /\ StoredTip > readAt
    /\ ~NodeHolds(stored[StoredTip])
    /\ pc' = "hDelete"
    /\ UNCHANGED <<nodeVars, dbVars, histVars, loopVars, walkVars, parkVars, probeVars, cliVars>>

HaltedDelete ==
    /\ pc = "hDelete"
    /\ DeleteTop
    /\ deleted' = deleted + 1
    /\ pc' = "hProof"
    /\ UNCHANGED <<nodeVars, haltLive, haltId, purgedTo, highest, unacked, loopVars,
                   nodeTip, prior, seen, reading, readAt, parkVars, probeVars, cliVars>>

\* The fork point is reached, a proof is refused, or a delete failed ten times.
HaltedDeleteStops ==
    /\ \/ pc \in {"hProof", "hDelete"} /\ faults
       \/ pc = "hProof" /\ (StoredTip = readAt \/ NodeHolds(stored[StoredTip]))
    /\ HaltedWalkStops

-----------------------------------------------------------------------------
(* The other actors: a crash, the health probe, the operator.               *)

Crash ==
    /\ Crashes /\ faults
    /\ pc # "boot"
    /\ LoseMemory
    /\ UNCHANGED <<nodeVars, dbVars, histVars, cliVars>>

\* A health route may start a probe: none is in flight, and the TTL that
\* haltReorg refreshed just before its marker write has run out.
ProbeDue == pc \notin {"boot", "bootPark", "mark"} /\ probe = "idle"

\* checkReorgHalt from a health route: its query reads the newest marker row ...
ProbeRead ==
    /\ HealthProbes /\ ProbeDue
    /\ probe' = IF haltLive THEN "halt" ELSE "none"
    /\ UNCHANGED <<nodeVars, dbVars, histVars, pc, loopVars, walkVars, parkVars, overtaken, cliVars>>

\* ... and its answer, or a fault, comes back after whatever steps the loop took in
\* between: a halt that the loop raised meanwhile is not in it.
ProbeAnswer ==
    /\ probe # "idle"
    /\ AdoptMarker(probe = "halt") \/ ProbeFault
    /\ probe' = "idle"
    /\ overtaken' = (overtaken \/ (memHalted /\ ~memHalted' /\ (haltLive \/ pc = "mark")))
    /\ UNCHANGED <<nodeVars, dbVars, histVars, pc, loopVars, walkVars, parked, cliVars>>

\* clear-reorg-halt --force, a process of its own: read the live halt and pin its
\* id, check that no rolled-back block is above the tip, read the marker again,
\* and write REORG_HALT_CLEARED if the pinned halt is still the live one.
ClearPin ==
    /\ Operator
    /\ cli = "idle" /\ haltLive
    /\ cli' = "count" /\ cliId' = haltId
    /\ UNCHANGED <<nodeVars, dbVars, histVars, pc, loopVars, walkVars, parkVars, probeVars>>

ClearRefused ==
    /\ \/ cli = "count" /\ CountReorgDeletesAboveTip # 0
       \/ cli = "reread" /\ (haltLive => haltId # cliId)
    /\ cli' = "idle" /\ cliId' = 0
    /\ UNCHANGED <<nodeVars, dbVars, histVars, pc, loopVars, walkVars, parkVars, probeVars>>

ClearCheck ==
    /\ cli = "count" /\ CountReorgDeletesAboveTip = 0
    /\ cli' = "reread"
    /\ UNCHANGED <<nodeVars, dbVars, histVars, pc, loopVars, walkVars, parkVars, probeVars, cliId>>

ClearReread ==
    /\ cli = "reread" /\ haltLive /\ haltId = cliId
    /\ cli' = "write"
    /\ UNCHANGED <<nodeVars, dbVars, histVars, pc, loopVars, walkVars, parkVars, probeVars, cliId>>

ClearWrite ==
    /\ cli = "write"
    /\ haltLive' = FALSE
    /\ cli' = "idle" /\ cliId' = 0
    /\ UNCHANGED <<nodeVars, stored, reorgRows, haltId, purgedTo, histVars, pc, loopVars,
                   walkVars, parkVars, probeVars>>

-----------------------------------------------------------------------------
Park == ParkCheck \/ ResumeCached \/ ResumeProbe \/ ResumeUnread

TipStep == RefreshRefused \/ Refresh \/ NoRefresh \/ SettleTip \/ SettleGivesUp
           \/ CompareTips \/ SettleSwap \/ SwapGivesUp

IngestStep == FetchNextBlock \/ FetchFails \/ RetryUndecodableBlock \/ DetectReorg
              \/ CommitBlock \/ StoreFails \/ PurgeExpired

WalkStep == VerifyReorgEntry \/ VerifyReorgAborts \/ ReadPriorRollbackDepth
            \/ WalkEmpty \/ WalkAboveTip \/ WalkCompare \/ WalkReadFails \/ RefreshReorgTip \/ SettleReorgTip
            \/ ReorgTipRefused \/ ReorgWait \/ AboveTipDiffers \/ AboveTipProven
            \/ ProveReorgedAway \/ DeleteBlock \/ DeleteUnacked \/ DeleteFails
            \/ DeleteGivesUp

HaltStep == HaltReorg \/ MarkConfirmed \/ MarkUnconfirmed \/ HaltedSkip
            \/ HaltedFirstReading \/ HaltedReadStops \/ HaltedSecondReading
            \/ HaltedProof \/ HaltedDelete \/ HaltedDeleteStops

DecoderStep == Boot \/ BootPark \/ Park \/ TipStep \/ IngestStep \/ WalkStep \/ HaltStep

Outside == Calm \/ Crash \/ ProbeRead \/ ProbeAnswer \/ ClearPin \/ ClearRefused \/ ClearCheck \/ ClearReread \/ ClearWrite
           \/ \E b \in Blocks : NodeMove(b)

Next == DecoderStep \/ Outside

Spec == Init /\ [][Next]_vars

\* The loop never stops stepping, the refresh timer (30 s) fires however often a
\* pass is spent against the cached tip, and a query that was sent is answered.
FairSpec == Spec /\ WF_vars(DecoderStep) /\ SF_vars(Refresh) /\ WF_vars(ProbeAnswer)

-----------------------------------------------------------------------------
(* Safety.                                                                  *)

\* The blocks table is one chain across every fetch, reorg and crash: each block
\* sits at its own height (insertBlockRecord) directly above its parent (the
\* previous-hash check of detectReorgAtBlock).
Linked ==
    \A h \in 1..StoredTip :
        /\ Len(stored[h]) = h
        /\ h >= 2 => Parent(stored[h]) = stored[h - 1]

\* storeBlock runs only with the in-memory cursor (lastProcessedBlockIndex) on the
\* stored tip, whatever rollback, park or restart moved either of them last.
StoreExtends ==
    /\ pc = "store" => cursor = StoredTip
    /\ pc = "purge" => cursor = StoredTip - 1

\* countReorgDeletesAboveTip reads the depth of the whole rollback: the REORG rows
\* above the tip are exactly the heights rolled back and not parsed again,
\* whatever crashed, failed or was re-synced in between.
DepthIsDurable == RolledBack = (StoredTip + 1)..highest

\* Before it halts, verifyReorg only deletes blocks above every hard purge, so
\* what their expiries marked can still be restored (assertWithinSafeDepth),
\* save for the deletes whose acknowledgement was lost.
DeleteWithinWindow == pc = "delete" => StoredTip + unacked > purgedTo

\* No sequence of walks, restarts and halted walks rolls back further than two
\* safe-depth windows (finishHaltedWalk's budget), save for unacknowledged deletes.
TwoWindows == highest - StoredTip <= 2 * SafeDepth + unacked

\* A walk that has not halted deletes nothing under a live REORG_HALT
\* (refuseHaltedRollback), whoever raised it and however the process restarted.
NoRollbackUnderHalt == pc = "delete" => ~haltLive

\* A database rolled back past its purges is condemned: its halt stays live until
\* a reset (raiseSafeDepthHalt).
CondemnedStaysHalted == (lossy /\ unacked = 0) => haltLive

\* A condemned database is never extended, across restarts, failed reads of the
\* marker or of the count, and probes answered late (parkOnRolledBackHalt): unless
\* an answer queried before the halt was raised has taken it back.
CondemnedNotExtended ==
    [][(lossy /\ unacked = 0 /\ ~overtaken) => Len(stored') <= Len(stored)]_vars

\* A loop parked on a halt parses again only once that halt is no longer live
\* (resumeFromReorgHaltPark), or once such a late answer has taken it back; a
\* restart is a new loop.
ParkHolds ==
    [][(parked = "halt" /\ parked' = "no" /\ pc' # "boot") => ~haltLive \/ overtaken]_vars

\* The node's chains all hold one block at height h, or end below it.
NeverForks(h) ==
    \A c, d \in Chains : Len(c) >= h /\ Len(d) >= h => Hash(c, h) = Hash(d, h)

\* While the decoder has stored nothing that a reorg abandons, a node that lags,
\* restarts on a shorter chain or answers stale tips costs it no block and raises
\* no halt (settleTipBelow, requireAboveTipForkProof).
LagIsHarmless ==
    (\A h \in 1..highest : NeverForks(h)) => reorgRows = {} /\ haltId = 0

-----------------------------------------------------------------------------
(* Liveness.                                                                *)

\* The decoder holds what the node holds; or the node is behind the decoder on
\* the same chain (or below the start height), which is waited for; or a halt
\* has parked the loop.
Settled ==
    \/ StoredTip >= NodeHeight /\ (NodeHeight = 0 \/ stored[NodeHeight] = active)
    \/ parked = "halt" /\ (haltLive \/ persisted = "false")

\* The loop's cursor names a block that a rollback deleted.
CursorAdrift == pc = "loop" /\ cursor > StoredTip

\* Once calls answer and the node stands still, the decoder catches up with it,
\* as the wait-and-retry of requireReorgProof's callers promises.
CatchesUp == ~faults ~> Settled

\* The decoder catches up unless a proof wait left its cursor on a block that
\* the same walk had already deleted: no other path stalls the loop.
CatchesUpOrAdrift == ~faults ~> (Settled \/ CursorAdrift)

\* A parked decoder whose halt an operator cleared resumes on its own, with no
\* restart, unless its marker was never confirmed (parkOnReorgHalt's log line).
ResumesAfterClear ==
    (parked = "halt" /\ persisted # "false" /\ ~haltLive /\ ~faults) ~> parked = "no"

-----------------------------------------------------------------------------
(* The inductive invariant behind the safety properties, in parts.      The *)
(* proofs are in ParseLoopProofs.                                            *)

\* verifyReorg before its halt, after its entry guard.
PreHaltPcs == {"walk", "rtip", "rtip2", "bound", "boundProof", "proof", "delete",
               "halt", "mark"}

HaltedPcs == {"hRead", "hRead2", "hProof", "hDelete"}

\* Where the walk is, in the terms its next delete needs.
WalkInv ==
    /\ pc \in {"bound", "boundProof", "proof", "delete", "halt", "mark"} => StoredTip >= 1
    /\ pc = "delete" => AlreadyRolledBack < SafeDepth
    /\ pc \in {"hRead2", "hProof", "hDelete"} => readAt >= Lowest
    /\ pc \in HaltedPcs => readAt <= StoredTip
    /\ pc = "hDelete" => readAt < StoredTip

\* What the walk counts is what was really rolled back, and every purge kept a
\* window's distance from the highest block committed before it.
DepthInv ==
    /\ StoredTip <= highest
    /\ DepthIsDurable
    /\ TwoWindows
    /\ purgedTo = 0 \/ purgedTo + SafeDepth <= highest
    /\ pc = "purge" => cursor + 1 <= highest
    /\ pc \in PreHaltPcs \cup HaltedPcs => AlreadyRolledBack + unacked >= highest - StoredTip

\* From the entry guard to the marker write no halt is live.
GuardInv == pc \in {"vDepth"} \cup PreHaltPcs => ~haltLive

\* The cursor never falls behind the table, and the block in hand extends it.
CursorInv ==
    /\ pc \notin {"boot", "purge"} => cursor >= StoredTip
    /\ StoreExtends
    /\ pc \in {"link", "store"} => Len(held) = cursor + 1
    /\ pc = "store" /\ cursor >= 1 => Parent(held) = stored[cursor]

LoopInv == TypeOK /\ WalkInv /\ DepthInv /\ GuardInv /\ CursorInv /\ Linked

\* From the marker's confirmation on, the halted walk has a halt row behind it.
MarkedInv == pc \in HaltedPcs => haltId >= 1

\* On a chain that never forks, no walk gets past the node's own readings.
LagInv ==
    /\ pc \in {"bound", "boundProof"} => nodeTip < StoredTip
    /\ (\A h \in 1..highest : NeverForks(h)) =>
          /\ reorgRows = {} /\ haltId = 0 /\ ~haltLive
          /\ pc \notin {"boundProof", "proof", "delete", "halt", "mark"} \cup HaltedPcs

\* A new process is not parked yet and no health route probes for it; and unless a
\* late answer took it back, the process knows of the halt it walks or parks under.
SeenInv ==
    /\ pc \in {"boot", "bootPark"} => parked = "no" /\ probe = "idle"
    /\ ~overtaken => /\ pc = "mark" => memHalted
                     /\ haltLive /\ (pc \in HaltedPcs \/ parked = "halt") => memHalted

\* Where nobody clears it, a halt stays live from its marker on.
StandingInv ==
    ~Operator => /\ cli = "idle"
                 /\ pc \in HaltedPcs => haltLive
                 /\ CondemnedStaysHalted

\* A condemned database has rolled-back heights for the park check to count, and its
\* loop is in the halted walk, starting, or parked on a halt it knows of or could
\* not read.
CondemnedInv ==
    ~Operator /\ lossy /\ unacked = 0 /\ ~overtaken =>
        /\ StoredTip < highest
        /\ \/ pc \in HaltedPcs \cup {"boot"}
           \/ pc = "bootPark" /\ (memHalted \/ probeFailed)
           \/ pc = "loop" /\ parked # "no"

-----------------------------------------------------------------------------
(* The promise to a reader of the database.                                 *)

Store == INSTANCE ChainStore WITH
    chain <- stored, depth <- highest - StoredTip, purged <- purgedTo,
    halts <- haltId, live <- haltLive, lost <- unacked, Window <- SafeDepth

\* The block loop, with all its reads, retries, parks and restarts, is a
\* ChainStore: each of its steps extends the chain at its tip, rolls one block
\* back within what its guards allow, purges, raises or clears a halt, or
\* changes nothing a reader sees (storeBlock, verifyReorg, finishHaltedWalk,
\* purgeExpiredAfterCommit, markReorgHalted).
ImplementsStore == Store!StoreSpec

=============================================================================
