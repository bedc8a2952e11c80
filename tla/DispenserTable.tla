--------------------------- MODULE DispenserTable ---------------------------
(***************************************************************************)
(* The dispensers table across blocks, purges and reorgs: registration,    *)
(* the extend mirror of an edit with its undo rows, the soft expiry, the   *)
(* hard purge, the rollback of a block, and the set of addresses whose     *)
(* payments a block captures.                                              *)
(*                                                                         *)
(* Beside it runs what the decoder serves: the indexer's dispensers, which *)
(* decide by exact identity who may still be paid (external; its rules are *)
(* the ones the decoder's comments state), and `clean', the table of an    *)
(* instance that decoded the stored chain from its first block and never   *)
(* purged.  Protocol time is the header time (mainnet and regtest).        *)
(* Heights are counted from 1.                                             *)
(***************************************************************************)
EXTENDS Integers, Sequences, FiniteSets

CONSTANTS
    Addresses,     \* sources and operating addresses
    FirstTime,     \* the first block's time
    TimeSteps,     \* a block's time minus its parent's
    Offsets,       \* an expiration minus the time of the block that sets it
    MaxHeight,     \* bound on the height of the chain
    MaxTxs,        \* bound on dispenser transactions per block
    SafeDepth,     \* DISPENSER_EXPIRE_SAFE_DEPTH
    Depth,         \* deepest rollback; the code's ceiling is SafeDepth
    GraceSeconds,  \* DISPENSER_CANCEL_GRACE_SECONDS, the indexer's close delay
    RealignAt, CancelGraceAt, ParentFloorAt, PurgeGraceAt   \* activation times of the gates

ASSUME TimeAssumption == FirstTime \in Int /\ TimeSteps \subseteq Int /\ Offsets \subseteq Nat
\* An expiration fits its column, so one of several is the largest.
ASSUME OffsetAssumption == Offsets # {} => \E m \in Offsets : \A o \in Offsets : o <= m
ASSUME DepthAssumption == /\ SafeDepth \in Nat \ {0}
                          /\ Depth \in 0..SafeDepth
ASSUME GraceAssumption == GraceSeconds \in Nat
ASSUME GateAssumption == {RealignAt, CancelGraceAt, ParentFloorAt, PurgeGraceAt} \subseteq Int
ASSUME BoundAssumption == MaxHeight \in Nat /\ MaxTxs \in Nat

VARIABLES
    times,     \* blocks.block_time by height
    rows,      \* dispensers: [at, n, addr, src, exp, mark], mark NoMark when open
    undo,      \* dispenser_extension_undo: [block, at, n, addr, exp, mark]
    pc,        \* "idle", "open" inside a block's transaction, "purge" after its commit
    now,       \* block.timestamp of the block in hand
    capture,   \* openDispenserAddresses of the block in hand
    txs,       \* dispenser transactions of the block so far
    newRows, newUndo,  \* the tables as the open transaction sees them
    peak,      \* the highest block ever committed
    indexer,   \* the indexer's dispensers: [at, n, exp0, addr, src, exp, status, closeAt]
    clean,     \* history: rows of an instance that never rolled back nor purged
    past,      \* history: indexer and clean after each stored block
    gone,      \* history: keys of the rows a purge deleted
    reorged    \* history: a block has been rolled back

durable == <<times, rows, undo>>
work    == <<now, capture, txs, newRows, newUndo>>
history == <<clean, past, gone, reorged>>
vars    == <<durable, pc, work, peak, indexer, history>>

NoMark == 0
Tip    == Len(times)
Height == Tip + 1     \* the block in hand
Key(r) == <<r.at, r.n, r.addr>>

RowType  == [at : Nat \ {0}, n : Nat \ {0}, addr : Addresses, src : Addresses, exp : Int, mark : Nat]
UndoType == [block : Nat \ {0}, at : Nat \ {0}, n : Nat \ {0}, addr : Addresses, exp : Int, mark : Nat]

\* Every row and undo row has its type, and the marks of the stored rows name
\* stored blocks.
TypeOK ==
    /\ times \in Seq(Int)
    /\ rows \subseteq RowType /\ newRows \subseteq RowType
    /\ undo \subseteq UndoType /\ newUndo \subseteq UndoType
    /\ pc \in {"idle", "open", "purge"}
    /\ now \in Int /\ capture \subseteq Addresses /\ txs \in Nat
    /\ peak \in Nat /\ Tip <= peak
    /\ \A r \in rows : r.at <= Tip /\ r.mark <= Tip

Init ==
    /\ times = <<>> /\ rows = {} /\ undo = {}
    /\ pc = "idle" /\ now = 0 /\ capture = {} /\ txs = 0
    /\ newRows = {} /\ newUndo = {}
    /\ peak = 0 /\ indexer = {}
    /\ clean = {} /\ past = <<>> /\ gone = {} /\ reorged = FALSE

-----------------------------------------------------------------------------
(* The statements on the table. *)

\* deleteOpenDispensers: stamp the height into every open row past its time.
DeleteOpenDispensers(R, h, t) ==
    {IF r.exp < t /\ r.mark = NoMark THEN [r EXCEPT !.mark = h] ELSE r : r \in R}

\* Mutant: the floor without the parent's time.
CancelGraceFloorOfBlock(t) == t - GraceSeconds

\* cancelGraceFloor of the block at time t; the parent's time carries the
\* capture across the first block past the close boundary.
CancelGraceFloor(t) ==
    LET anchor == IF t >= ParentFloorAt /\ Tip > 0 /\ times[Tip] < t THEN times[Tip] ELSE t
    IN  anchor - GraceSeconds

TimeOf(h, t) == IF h = Height THEN t ELSE times[h]

\* getAllOpenDispenserAddresses: open rows, and in grace the rows whose mark
\* block or expiration is no older than the floor.
GetAllOpenDispenserAddresses(R, t) ==
    {r.addr : r \in {q \in R :
        \/ q.mark = NoMark
        \/ t >= CancelGraceAt /\ TimeOf(q.mark, t) >= CancelGraceFloor(t)
        \/ t >= CancelGraceAt /\ q.exp >= CancelGraceFloor(t)}}

\* The rows an edit by source s reaches: by operating address or by create
\* source, open or marked by this very block.
EditReaches(r, s) == /\ r.addr = s \/ r.src = s
                     /\ r.mark = NoMark \/ r.mark = Height

UndoKey(u) == <<u.block, u.at, u.n, u.addr>>

\* Mutant: REPLACE instead of INSERT IGNORE, the last values win.
RecordDispenserExtensionUndoLast(R, U, s) ==
    LET touched == {r \in R : EditReaches(r, s)}
    IN  {u \in U : u.block # Height \/ <<u.at, u.n, u.addr>> \notin {Key(r) : r \in touched}}
        \cup {[block |-> Height, at |-> r.at, n |-> r.n, addr |-> r.addr,
               exp |-> r.exp, mark |-> r.mark] : r \in touched}

\* recordDispenserExtensionUndo: INSERT IGNORE of the rows' values.
RecordDispenserExtensionUndo(R, U, s) ==
    U \cup {u \in {[block |-> Height, at |-> r.at, n |-> r.n, addr |-> r.addr,
                    exp |-> r.exp, mark |-> r.mark] : r \in {q \in R : EditReaches(q, s)}} :
              \A v \in U : UndoKey(v) # UndoKey(u)}

\* extendOpenDispenserExpirationBySource: GREATEST, and this block's mark off.
ExtendOpenDispensers(R, s, e) ==
    {IF EditReaches(r, s)
     THEN [r EXCEPT !.exp = IF @ < e THEN e ELSE @, !.mark = NoMark]
     ELSE r : r \in R}

\* restoreDispenserExtensions, then deleteBlockRows' statements on the table.
Restored(r, h) ==
    IF \E u \in undo : UndoKey(u) = <<h, r.at, r.n, r.addr>>
    THEN LET u == CHOOSE v \in undo : UndoKey(v) = <<h, r.at, r.n, r.addr>>
         IN  [r EXCEPT !.exp = u.exp, !.mark = IF u.mark = h THEN NoMark ELSE u.mark]
    ELSE r
ClearMark(r, h) == IF r.mark = h THEN [r EXCEPT !.mark = NoMark] ELSE r
DeleteBlockRows(R, h) ==
    {r \in {ClearMark(Restored(q, h), h) : q \in R} : r.at # h}

\* Mutant: one block short of the safe depth.
SafeHeightEarly == Tip - SafeDepth + 1

\* purgeExpiredDispensers at the commit of the stored tip.
SafeHeight == Tip - SafeDepth
PurgeGraceFloor == times[Tip] - GraceSeconds
Purgeable(r) ==
    /\ r.mark # NoMark /\ r.mark <= SafeHeight
    /\ times[Tip] >= PurgeGraceAt => r.exp < PurgeGraceFloor /\ times[r.mark] < PurgeGraceFloor

-----------------------------------------------------------------------------
(* The indexer, as the decoder's comments describe it (external). *)

Fillable(d) == d.status \in {"open", "cancelling"}

IndexerCreates(s, a, exps) ==
    {[at |-> Height, n |-> txs + 1, exp0 |-> e, addr |-> a, src |-> s, exp |-> e,
      status |-> "open", closeAt |-> 0] : e \in exps}

\* Its expiration pass, after the block's transactions.
IndexerEndBlock(D) ==
    {IF \/ d.status = "open" /\ d.exp < now
        \/ d.status = "cancelling" /\ now >= d.closeAt
     THEN [d EXCEPT !.status = "closed"] ELSE d : d \in D}

-----------------------------------------------------------------------------
(* Actions. *)

\* expireDispensersAtBlockStart, below the realign gate.
StartOfBlock(R, t) == IF t >= RealignAt THEN R ELSE DeleteOpenDispensers(R, Height, t)

\* storeBlock: begin, insert the block, expire at the start below the realign
\* gate, load the capture set.
BeginBlock(step) ==
    /\ pc = "idle" /\ Tip < MaxHeight
    /\ LET t == IF Tip = 0 THEN FirstTime ELSE times[Tip] + step
           R == StartOfBlock(rows, t)
       IN  /\ now' = t
           /\ newRows' = R
           /\ capture' = GetAllOpenDispenserAddresses(R, t)
           /\ clean' = StartOfBlock(clean, t)
    /\ newUndo' = undo /\ txs' = 0 /\ pc' = "open"
    /\ UNCHANGED <<durable, peak, indexer, past, gone, reorged>>

Largest(S) == CHOOSE e \in S : \A f \in S : f <= e

\* A transaction of source s that creates dispensers on address a, one per
\* expiration: collapseDispenserRegistrations keeps one row with the largest,
\* registerDispenser inserts it and adds the address to the capture set.
RegisterDispenser(s, a, offs) ==
    /\ pc = "open" /\ txs < MaxTxs
    /\ LET exps == {now + o : o \in offs}
           row  == [at |-> Height, n |-> txs + 1, addr |-> a, src |-> s,
                    exp |-> Largest(exps), mark |-> NoMark]
       IN  /\ newRows' = newRows \cup {row}
           /\ clean' = clean \cup {row}
           /\ indexer' = indexer \cup IndexerCreates(s, a, exps)
    /\ capture' = capture \cup {a}
    /\ txs' = txs + 1
    /\ UNCHANGED <<durable, pc, now, newUndo, peak, past, gone, reorged>>

\* A format-2 edit by source s.  The indexer edits the one dispenser the
\* command names, if s may, or rejects the edit; the decoder extends every row
\* s reaches.
EditDispenser(s, off) ==
    /\ pc = "open" /\ txs < MaxTxs /\ off > 0
    /\ newUndo' = RecordDispenserExtensionUndo(newRows, newUndo, s)
    /\ newRows' = ExtendOpenDispensers(newRows, s, now + off)
    /\ clean' = ExtendOpenDispensers(clean, s, now + off)
    /\ \/ \E d \in indexer :
             /\ d.status = "open" /\ s \in {d.addr, d.src}
             /\ indexer' = (indexer \ {d}) \cup {[d EXCEPT !.exp = now + off]}
       \/ UNCHANGED indexer
    /\ txs' = txs + 1
    /\ UNCHANGED <<durable, pc, now, capture, peak, past, gone, reorged>>

\* A format-1 cancel: the decoder mirrors nothing.
CancelDispenser ==
    /\ pc = "open" /\ txs < MaxTxs
    /\ \E d \in indexer :
          /\ d.status = "open"
          /\ indexer' = (indexer \ {d}) \cup
                        {[d EXCEPT !.status = "cancelling", !.closeAt = now + GraceSeconds]}
    /\ txs' = txs + 1
    /\ UNCHANGED <<durable, pc, now, capture, newRows, newUndo, peak, history>>

EndOfBlock(R) == IF now >= RealignAt THEN DeleteOpenDispensers(R, Height, now) ELSE R

\* finishBlock after the last transaction: expire at the end above the realign
\* gate, commit.
CommitBlock ==
    /\ pc = "open"
    /\ times' = Append(times, now)
    /\ rows' = EndOfBlock(newRows) /\ undo' = newUndo
    /\ clean' = EndOfBlock(clean)
    /\ indexer' = IndexerEndBlock(indexer)
    /\ past' = Append(past, [clean |-> clean', indexer |-> indexer'])
    /\ peak' = IF peak < Height THEN Height ELSE peak
    /\ pc' = "purge" /\ now' = 0 /\ capture' = {} /\ txs' = 0
    /\ newRows' = {} /\ newUndo' = {}
    /\ UNCHANGED <<gone, reorged>>

\* Any statement of the block fails, or the process dies: nothing of it stays.
AbortBlock ==
    /\ pc = "open"
    /\ pc' = "idle" /\ now' = 0 /\ capture' = {} /\ txs' = 0
    /\ newRows' = {} /\ newUndo' = {}
    /\ clean' = IF Tip = 0 THEN {} ELSE past[Tip].clean
    /\ indexer' = IF Tip = 0 THEN {} ELSE past[Tip].indexer
    /\ UNCHANGED <<durable, peak, past, gone, reorged>>

\* purgeExpiredAfterCommit: its two deletes are statements of their own.
PurgeExpiredDispensers ==
    /\ pc = "purge" /\ pc' = "idle"
    /\ IF SafeHeight < 0 THEN UNCHANGED <<rows, undo, gone>>
       ELSE /\ rows' = {r \in rows : ~Purgeable(r)}
            /\ gone' = gone \cup {Key(r) : r \in {q \in rows : Purgeable(q)}}
            /\ undo' \in {undo, {u \in undo : u.block > SafeHeight}}
    /\ UNCHANGED <<times, work, peak, indexer, clean, past, reorged>>

\* The purge fails, or the process dies before it: the rows stay.
PurgeFails ==
    /\ pc = "purge" /\ pc' = "idle"
    /\ UNCHANGED <<durable, work, peak, indexer, history>>

\* deleteBlockByIndex on the stored tip.  The ceiling counts the heights
\* already rolled back above it.
RollBackTop ==
    /\ pc = "idle" /\ Tip > 0 /\ peak - Tip < Depth
    /\ rows' = DeleteBlockRows(rows, Tip)
    /\ undo' = {u \in undo : u.block # Tip}
    /\ times' = SubSeq(times, 1, Tip - 1)
    /\ past' = SubSeq(past, 1, Tip - 1)
    /\ clean' = IF Tip = 1 THEN {} ELSE past[Tip - 1].clean
    /\ indexer' = IF Tip = 1 THEN {} ELSE past[Tip - 1].indexer
    /\ gone' = {k \in gone : k[1] # Tip}
    /\ reorged' = TRUE
    /\ UNCHANGED <<pc, work, peak>>

\* The chain has reached the bound and no reorg is left.
Done == pc = "idle" /\ Tip = MaxHeight /\ UNCHANGED vars

Next ==
    \/ \E step \in TimeSteps : BeginBlock(step)
    \/ \E s, a \in Addresses, offs \in (SUBSET Offsets) \ {{}} : RegisterDispenser(s, a, offs)
    \/ \E s \in Addresses, off \in Offsets : EditDispenser(s, off)
    \/ CancelDispenser \/ CommitBlock \/ AbortBlock
    \/ PurgeExpiredDispensers \/ PurgeFails \/ RollBackTop \/ Done

Spec == Init /\ [][Next]_vars

-----------------------------------------------------------------------------
(* Properties. *)

\* Whatever was stored, purged and rolled back, the table between blocks is
\* the one a from-scratch decode of the stored chain writes, without the rows
\* a purge deleted: expirations and marks included (restoreDispenserExtensions,
\* deleteBlockRows, the undo rows of recordDispenserExtensionUndo).
Reversible == pc # "open" => rows = {r \in clean : Key(r) \notin gone}

\* No rollback the safe-depth ceiling admits reopens a dispenser a purge has
\* deleted, and no mark of a kept row names a block that is gone
\* (purgeExpiredDispensers, assertWithinSafeDepth, deleteBlockRows).
PurgedStayExpired == TypeOK /\ \A r \in clean : Key(r) \in gone => r.mark # NoMark

\* While a block is decoded, every address whose dispenser the indexer still
\* fills is in the capture set: `mark_time + grace' covers `cancel_time + close
\* delay' (getAllOpenDispenserAddresses, cancelGraceFloor, purgeGraceFloor).
PaymentsCaptured ==
    pc = "open" => \A d \in indexer : Fillable(d) => d.addr \in capture

\* The same, where a reorg has replaced the block a purge took its grace floor
\* from, for the dispensers no purge has deleted.
UnpurgedCaptured ==
    pc = "open" =>
        \A d \in indexer :
            Fillable(d) => \/ d.addr \in capture
                           \/ reorged /\ <<d.at, d.n, d.addr>> \in gone

\* Every gate of the table is in force at time t.
GatesArmed(t) == /\ RealignAt <= t /\ CancelGraceAt <= t
                 /\ ParentFloorAt <= t /\ PurgeGraceAt <= t

\* Above the gates, while a block is decoded, every address whose dispenser the
\* indexer still fills is captured (UnpurgedCaptured where the gates have been in
\* force since the first block; below them a cancelled dispenser's payments were
\* never captured).
ArmedCaptured == GatesArmed(now) /\ (\A h \in 1..Tip : GatesArmed(times[h])) => UnpurgedCaptured
=============================================================================
