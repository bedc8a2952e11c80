---------------------------- MODULE ProtocolTime ----------------------------
(***************************************************************************)
(* The time a block's gates read (protocol_time.js, block_store.js): on an *)
(* MTP network the median of the stored stamps below it, never above its   *)
(* own stamp.  The window is read back from the blocks table, so it holds  *)
(* only what is stored: it is short above the start height, and a reorg    *)
(* replaces its newest entries.                                            *)
(***************************************************************************)
EXTENDS Integers, Sequences, FiniteSets, SequencesExt

CONSTANTS
    Span,          \* MEDIAN_TIME_SPAN
    Stamps,        \* header times
    BelowBound,    \* bound on the blocks below the start height
    StoredBound,   \* bound on the blocks stored
    FloorFrom      \* stamp from which the parent floor of the cancel grace is armed

ASSUME SpanAssumption == Span \in Nat \ {0} /\ Stamps \subseteq Nat \ {0}

VARIABLES
    mtp,      \* isProtocolTimeMtpActive of the network
    below,    \* stamps of the node's blocks below the start height
    stored    \* stored blocks: stamp, the two times resolved while decoding it

clockVars == <<mtp, below, stored>>

NoTime == 0
Lesser(a, b) == IF a < b THEN a ELSE b
StampsOf(rows) == [i \in DOMAIN rows |-> rows[i].raw]

\* The places of a list in the order of what they hold.
InOrder(times) ==
    CHOOSE p \in [1..Len(times) -> 1..Len(times)] :
        \A i, j \in 1..Len(times) : i < j => p[i] /= p[j] /\ times[p[i]] <= times[p[j]]

\* medianTimePast of a newest-first list.
MedianTimePast(times) ==
    LET window == SubSeq(times, 1, Lesser(Span, Len(times)))
    IN  IF window = <<>> THEN NoTime ELSE window[InOrder(window)[Len(window) \div 2 + 1]]

\* protocolTime
ResolvedTime(raw, times) ==
    LET median == MedianTimePast(times)
    IN  IF mtp /\ median /= NoTime THEN Lesser(median, raw) ELSE raw

ParentFloorActive(raw) == raw >= FloorFrom

\* Mutant: the parent's own window is not fetched.
HistorySpanOfBlock(raw) ==
    IF mtp THEN Span ELSE IF ParentFloorActive(raw) THEN 1 ELSE 0

\* How far back the stamps are read: one further where the parent's time counts.
HistorySpan(raw) ==
    (IF mtp THEN Span ELSE 0) + (IF ParentFloorActive(raw) THEN 1 ELSE 0)

\* fetchBlockTimes: newest first, as far as blocks are stored.
FetchBlockTimes(span) ==
    LET times == Reverse(StampsOf(stored))
    IN  SubSeq(times, 1, Lesser(span, Len(times)))

\* resolveBlockTimeContext
BlockTimeContext(raw) ==
    LET times == FetchBlockTimes(HistorySpan(raw))
    IN  [raw |-> raw,
         protocol |-> ResolvedTime(raw, times),
         parent |-> IF times = <<>> THEN NoTime ELSE ResolvedTime(times[1], Tail(times))]

\* The node's own rule, over every block of its chain (external): a stamp is
\* later than the median of the blocks below.
NodeAccepts(chain, raw) ==
    LET window == {j \in DOMAIN chain : j > Len(chain) - Span}
        Under(v) == Cardinality({j \in window : chain[j] < v})
        UpTo(v) == Cardinality({j \in window : chain[j] <= v})
    IN  \A v \in {chain[j] : j \in window} :
            2 * Under(v) <= Cardinality(window) /\ 2 * UpTo(v) > Cardinality(window) => raw > v

ClockInit ==
    /\ mtp \in BOOLEAN /\ stored = <<>>
    /\ below \in UNION {[1..n -> Stamps] : n \in 0..BelowBound}
    /\ \A i \in DOMAIN below : NodeAccepts(SubSeq(below, 1, i - 1), below[i])

\* A block is decoded at its resolved time and stored with its stamp.
StampBlock(raw) ==
    /\ Len(stored) < StoredBound
    /\ NodeAccepts(below \o StampsOf(stored), raw)
    /\ stored' = Append(stored, BlockTimeContext(raw))
    /\ UNCHANGED <<mtp, below>>

\* A reorg deletes the top block.
UnstampBlock ==
    /\ stored /= <<>>
    /\ stored' = Front(stored)
    /\ UNCHANGED <<mtp, below>>

ClockNext == (\E raw \in Stamps : StampBlock(raw)) \/ UnstampBlock

ClockSpec == ClockInit /\ [][ClockNext]_clockVars

-----------------------------------------------------------------------------
(* Properties. *)

\* Protocol time never runs backwards along the stored chain, whatever the
\* miners stamp and whatever was rolled back before: from genesis on, and on a
\* database that starts higher from the block whose window is full
\* (`monotonically non-decreasing', protocol_time.js).
ClockNeverRunsBack ==
    mtp => \A i \in 2..Len(stored) :
        below = <<>> \/ i - 1 > Span => stored[i - 1].protocol <= stored[i].protocol

\* The parent's time a block's cancel grace reads is the time the parent itself
\* was decoded at, so the two blocks agree which dispensers are in grace
\* (resolveBlockTimeContext, cancelGraceFloor).
ParentTimeAgrees ==
    \A i \in 2..Len(stored) :
        ParentFloorActive(stored[i].raw) => stored[i].parent = stored[i - 1].protocol

\* No block is decoded at a time later than its stamp or than the stamps of
\* more than half of its window, so one future-dated stamp opens no gate early.
NoGateOpensEarly ==
    mtp => \A i \in 2..Len(stored) :
        LET window == {j \in 1..(i - 1) : j >= i - Span}
        IN  /\ stored[i].protocol <= stored[i].raw
            /\ 2 * Cardinality({j \in window : stored[j].raw < stored[i].protocol})
                 <= Cardinality(window)

\* The clock of the activation gates: it never runs back, parent and child agree
\* on it, and no single stamp opens a gate early (resolveBlockTimeContext).
ProtocolTimeSound == ClockNeverRunsBack /\ ParentTimeAgrees /\ NoGateOpensEarly
=============================================================================
