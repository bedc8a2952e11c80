----------------------------- MODULE LogShipper -----------------------------
(***************************************************************************)
(* The log shipper (observability/logShipper.js): lines are buffered up to *)
(* a cap, sent in batches by a timer or when a batch is full, and put back *)
(* in front of the buffer when the collector does not acknowledge them.    *)
(* A line is the number of its emission. Shipping is enabled.              *)
(***************************************************************************)
EXTENDS Naturals, Sequences, SequencesExt, FiniteSets

CONSTANTS
    MaxBuffer,      \* LOG_SHIP_MAX_BUFFER
    ShipBatch,      \* LOG_SHIP_BATCH_SIZE
    LineBound,      \* bound: lines the service logs
    ShipFaultBound  \* bound: times the collector goes away, refuses or loses an answer

ASSUME ShipAssumption ==
    {MaxBuffer, ShipBatch, LineBound} \subseteq Nat \ {0} /\ ShipFaultBound \in Nat

VARIABLES
    buffer,      \* buffer
    sending,     \* the batch in flight; empty when inFlight is false
    stats,       \* emitted, shipped, dropped
    stopped,     \* stop() has cleared the timer
    collected,   \* the lines the collector has
    lost,        \* history: the lines dropped unsent or unacknowledged
    shipFaults

shipVars == <<buffer, sending, stats, stopped, collected, lost, shipFaults>>

ShipInit ==
    /\ buffer = <<>> /\ sending = <<>>
    /\ stats = [emitted |-> 0, shipped |-> 0, dropped |-> 0]
    /\ stopped = FALSE
    /\ collected = {} /\ lost = {}
    /\ shipFaults = 0

\* The buffer and the batch in flight after flush() is called with buf in the buffer.
Flushed(buf) ==
    IF sending /= <<>> \/ buf = <<>>
      THEN [buffer |-> buf, sending |-> sending]
      ELSE LET n == IF Len(buf) < ShipBatch THEN Len(buf) ELSE ShipBatch
           IN  [buffer |-> SubSeq(buf, n + 1, Len(buf)), sending |-> SubSeq(buf, 1, n)]

Flushes(buf) == buffer' = Flushed(buf).buffer /\ sending' = Flushed(buf).sending

\* log and _enqueue: the oldest line makes room, and a full batch is sent at once.
Log ==
    /\ stats.emitted < LineBound
    /\ LET full == Len(buffer) >= MaxBuffer
           buf  == (IF full THEN Tail(buffer) ELSE buffer) \o <<stats.emitted + 1>>
       IN  /\ stats' = [stats EXCEPT !.emitted = @ + 1, !.dropped = @ + (IF full THEN 1 ELSE 0)]
           /\ lost' = IF full THEN lost \cup {Head(buffer)} ELSE lost
           /\ IF Len(buf) >= ShipBatch
                THEN Flushes(buf)
                ELSE buffer' = buf /\ UNCHANGED sending
    /\ UNCHANGED <<stopped, collected, shipFaults>>

\* The interval set by _startTimer.
FlushTimer ==
    /\ ~stopped /\ sending = <<>> /\ buffer /= <<>>
    /\ Flushes(buffer)
    /\ UNCHANGED <<stats, stopped, collected, lost, shipFaults>>

\* stop: the timer is cleared, and one flush awaited.
StopShipper ==
    /\ ~stopped
    /\ stopped' = TRUE
    /\ Flushes(buffer)
    /\ UNCHANGED <<stats, collected, lost, shipFaults>>

\* _post resolves: the collector took the batch.
BatchShipped ==
    /\ sending /= <<>>
    /\ stats' = [stats EXCEPT !.shipped = @ + Len(sending)]
    /\ collected' = collected \cup Range(sending)
    /\ sending' = <<>>
    /\ UNCHANGED <<buffer, stopped, lost, shipFaults>>

\* Mutant: its oldest lines.
KeptOldest(room) == SubSeq(sending, 1, IF Len(sending) < room THEN Len(sending) ELSE room)

\* What a failed batch leaves to put back: its newest lines, as many as fit.
Requeued(room) ==
    LET n == Len(sending)
    IN  SubSeq(sending, IF n > room THEN n - room + 1 ELSE 1, n)

Room == IF MaxBuffer > Len(buffer) THEN MaxBuffer - Len(buffer) ELSE 0

\* The kept lines go back in front of what was logged meanwhile.
PutBack(keep) == keep \o buffer

\* The part of the batch that is counted as dropped.
GivenUp(keep) == Len(sending) - Len(keep)

\* _post rejects: unreachable, a status that is not ok, or the timeout; with delivered,
\* the collector had already taken the batch.
BatchFailed(delivered) ==
    /\ sending /= <<>> /\ shipFaults < ShipFaultBound
    /\ LET keep == Requeued(Room)
       IN  /\ stats' = [stats EXCEPT !.dropped = @ + GivenUp(keep)]
           /\ lost' = lost \cup (Range(sending) \ Range(keep))
           /\ buffer' = PutBack(keep)
    /\ collected' = IF delivered THEN collected \cup Range(sending) ELSE collected
    /\ sending' = <<>>
    /\ shipFaults' = shipFaults + 1
    /\ UNCHANGED stopped

ShipNext ==
    \/ Log \/ FlushTimer \/ StopShipper \/ BatchShipped
    \/ \E delivered \in BOOLEAN : BatchFailed(delivered)

\* The interval fires while the process lives, and every POST settles by its timeout.
ShipFairness == WF_shipVars(FlushTimer) /\ WF_shipVars(BatchShipped)

ShipSpec == ShipInit /\ [][ShipNext]_shipVars /\ ShipFairness
-----------------------------------------------------------------------------
\* The buffer and the batch are lines in the order they were logged, the buffer within
\* its cap, which a batch put back must respect (observability/logShipper.js).
ShipTypeOK ==
    /\ {Len(buffer), Len(sending)} \subseteq 0 .. LineBound
    /\ Len(buffer) <= MaxBuffer /\ Len(sending) <= ShipBatch
    /\ LET held == sending \o buffer
       IN  /\ \A i \in DOMAIN held : held[i] \in 1 .. stats.emitted
           /\ \A i, j \in DOMAIN held : i < j => held[i] < held[j]
    /\ stats.emitted <= LineBound
    /\ collected \cup lost \subseteq 1 .. stats.emitted

\* No line goes missing from the counters: what was logged is acknowledged, counted as
\* dropped, waiting or in flight, whatever was logged while a batch was out.
LinesAccounted ==
    /\ stats.emitted = stats.shipped + stats.dropped + Len(buffer) + Len(sending)
    /\ stats.dropped = Cardinality(lost)
    /\ collected \cup lost \cup Range(buffer) \cup Range(sending) = 1 .. stats.emitted

\* A full buffer gives up its oldest lines: every line dropped is older than every line
\* waiting, also when a batch is put back after newer lines were dropped behind it.
NewestKept == \A l \in lost : \A i \in DOMAIN buffer : l < buffer[i]

\* An outage does not reorder the stream: a line reaches the collector for the first
\* time after every older line that ever does.
StreamInOrder ==
    [][\A l \in collected' \ collected : \A m \in collected : m < l]_shipVars

\* Once the collector answers again, everything still buffered is shipped, unless stop()
\* was called, which settles one batch only.
BufferDrains == <>[](stopped \/ (buffer = <<>> /\ sending = <<>>))

\* The stream of lines through outages of the collector: every line is accounted for,
\* the newest are kept within the cap, none overtakes another, and what is buffered goes
\* out when the collector is back (LogShipper.flush).
StreamKept == [](ShipTypeOK /\ LinesAccounted /\ NewestKept) /\ StreamInOrder /\ BufferDrains
=============================================================================
