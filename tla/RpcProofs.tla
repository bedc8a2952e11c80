----------------------------- MODULE RpcProofs ------------------------------
(***************************************************************************)
(* What holds of the connector for any number of endpoints, any failover   *)
(* threshold, concurrency and batch length: the answers of a batch line up *)
(* with its txids, a block is rebuilt only for its content and only whole, *)
(* and an endpoint is left on evidence.                                    *)
(***************************************************************************)
EXTENDS RpcConnector, FunctionTheorems, FiniteSetTheorems, TLAPS

Steps == {"hash", "header", "block", "strip", "pureHeader", "verbose", "raw", "done"}
CallRows == [pc : {"idle", "ready", "flight"}, at : Endpoints, tries : 0 .. RpcTries - 1,
             owner : Batchers \cup {"none", "block", "orphan"}, index : 0 .. BatchLength]
Answers == [Indices -> [tx : 0 .. BatchLength, hex : BOOLEAN]]
BatchRows == [pc : {"idle", "run"}, next : 1 .. BatchLength + 1, got : Answers]
FetchRows == [step : Steps, parseErrors : 0 .. ReassembleAfter, malformed : BOOLEAN, txIndex : BOOLEAN]

\* The part of the failover.
NetInv ==
    /\ reachable \subseteq Endpoints /\ active \in Endpoints
    /\ failures \in 0 .. FailoverThreshold - 1 /\ rpcFaults \in 0 .. RpcFaultBound

ShapeInv == call \in [Calls -> CallRows] /\ batch \in [Batchers -> BatchRows] /\ fetch \in FetchRows

\* A call that a batch owns stands for one of its positions, and a batch that owns one
\* runs; a batch that does not run holds nothing.
OwnerInv ==
    /\ \A c \in RawCalls : call[c].owner \in Batchers =>
          call[c].index \in Indices /\ batch[call[c].owner].pc = "run"
    /\ \A b \in Batchers : batch[b].pc = "idle" => batch[b] = NoBatch

\* The block path waits for its own call, or for the reassembly, never for both.
PathInv ==
    /\ call[0].pc # "idle" => CallFor(fetch.step)
    /\ batch["reassembly"].pc = "run" => fetch.step = "raw"

\* A parse error is remembered of content only, and the reassembly has a transaction of
\* this block only from nodes that serve it.
ContentInv ==
    /\ fetch.parseErrors > 0 => fetch.malformed
    /\ EscalatesOnContent /\ NoHoles
    /\ \A i \in Indices : batch["reassembly"].got[i].hex => fetch.txIndex

WholeInv == ShapeInv /\ BatchInOrder /\ OwnerInv /\ PathInv /\ ContentInv

-----------------------------------------------------------------------------
(* Facts about the constants and the operators. *)

\* The bounds are positive numbers.
LEMMA Numbers ==
    /\ EndpointCount \in Nat \ {0} /\ FailoverThreshold \in Nat \ {0} /\ RpcTries \in Nat \ {0}
    /\ ReassembleAfter \in Nat \ {0} /\ RpcConcurrency \in Nat \ {0} /\ BatchLength \in Nat \ {0}
    /\ RpcFaultBound \in Nat
BY RpcAssumption

\* The idle call and the idle batch have their shape, and the calls are finitely many.
LEMMA Shapes ==
    /\ NoCall \in CallRows /\ NoBatch \in BatchRows /\ 0 \in Endpoints
    /\ \A i \in Indices : NoBatch.got[i] = Awaited
    /\ IsFiniteSet(Calls) /\ RawCalls \subseteq Calls /\ 0 \in Calls /\ 0 \notin RawCalls
<1> USE Numbers
<1>1. NoCall \in CallRows /\ 0 \in Endpoints
  BY DEF NoCall, CallRows, Endpoints
<1>2. NoBatch \in BatchRows /\ \A i \in Indices : NoBatch.got[i] = Awaited
  BY DEF NoBatch, BatchRows, Answers, Awaited, Indices
<1>3. IsFiniteSet(RawCalls) /\ RawCalls \subseteq Calls /\ 0 \in Calls /\ 0 \notin RawCalls
  BY FS_Interval DEF RawCalls, Calls
<1>4. IsFiniteSet(Calls)
  BY <1>3, FS_Singleton, FS_Union DEF Calls
<1> QED BY <1>1, <1>2, <1>3, <1>4

\* A finite set has a subset of every smaller size.
LEMMA SubsetOfSize ==
    ASSUME NEW S, IsFiniteSet(S), NEW k \in Nat, k <= Cardinality(S)
    PROVE  \E T \in SUBSET S : Cardinality(T) = k /\ IsFiniteSet(T)
<1> DEFINE n == Cardinality(S)
<1>1. n \in Nat /\ ExistsBijection(1 .. n, S)
  BY FS_CardinalityType
<1>2. PICK f \in Bijection(1 .. n, S) : TRUE
  BY <1>1 DEF ExistsBijection
<1>3. f \in [1 .. n -> S] /\ \A i, j \in 1 .. n : f[i] = f[j] => i = j
  BY <1>2 DEF Bijection, Injection, IsInjective
<1> HIDE DEF n
<1> DEFINE T == {f[i] : i \in 1 .. k}
           g == [i \in 1 .. k |-> f[i]]
<1>4. \A i \in 1 .. k : i \in 1 .. n
  BY <1>1 DEF n
<1>5. T \subseteq S
  BY <1>3, <1>4
<1>6. g \in [1 .. k -> T] /\ \A i, j \in 1 .. k : g[i] = g[j] => i = j
  BY <1>3, <1>4
<1>7. \A t \in T : \E i \in 1 .. k : g[i] = t
  OBVIOUS
<1>8. g \in Bijection(1 .. k, T)
  BY <1>6, <1>7 DEF Bijection, Injection, IsInjective, Surjection
<1>9. ExistsBijection(1 .. k, T)
  BY <1>8 DEF ExistsBijection
<1>10. Cardinality(T) = k
  BY <1>9, FS_CountingElements
<1>11. IsFiniteSet(T)
  BY <1>9, FS_NatBijection
<1> HIDE DEF T
<1> QED BY <1>5, <1>10, <1>11

\* The next slice: as many free calls as it needs, each with a position of the batch.
LEMMA SliceTaken ==
    ASSUME NEW b \in Batchers, NEW next \in 1 .. BatchLength, NEW size \in Nat,
           size <= BatchLength + 1 - next, size <= Cardinality(Free(b))
    PROVE  LET taken == CHOOSE s \in SUBSET Free(b) : Cardinality(s) = size
           IN  /\ taken \subseteq Free(b)
               /\ \A c \in taken : next + Cardinality({d \in taken : d < c}) \in Indices
<1> DEFINE taken == CHOOSE s \in SUBSET Free(b) : Cardinality(s) = size
<1>1. Free(b) \subseteq RawCallsOf(b) /\ IsFiniteSet(RawCallsOf(b)) /\ RawCallsOf(b) \subseteq Nat
  BY Numbers, FS_Interval DEF Free, RawCallsOf
<1>2. IsFiniteSet(Free(b)) /\ Free(b) \subseteq Nat
  BY <1>1, FS_Subset
<1>3. taken \in SUBSET Free(b) /\ Cardinality(taken) = size
  BY <1>2, SubsetOfSize
<1> HIDE DEF taken
<1>4. IsFiniteSet(taken) /\ taken \subseteq Nat
  BY <1>2, <1>3, FS_Subset
<1>5. ASSUME NEW c \in taken PROVE next + Cardinality({d \in taken : d < c}) \in Indices
  <2> DEFINE under == {d \in taken : d < c}
  <2>1. under \subseteq taken /\ c \notin under
    BY <1>4
  <2>2. IsFiniteSet(under) /\ Cardinality(under) \in Nat /\ Cardinality(under) <= Cardinality(taken) /\ under # taken
    BY <2>1, <1>4, FS_Subset, FS_CardinalityType
  <2>3. Cardinality(under) # Cardinality(taken)
    BY <2>1, <2>2, <1>4, FS_Subset
  <2>4. \A n \in Nat : n <= size /\ n # size => next + n \in 1 .. BatchLength
    BY Numbers
  <2> QED BY <2>2, <2>3, <2>4, <1>3 DEF Indices
<1> QED BY <1>3, <1>5 DEF taken

-----------------------------------------------------------------------------
(* The failover. *)

\* The invariants hold before the first call.
LEMMA RpcInitially == RpcInit => NetInv /\ WholeInv
<1> SUFFICES ASSUME RpcInit PROVE NetInv /\ WholeInv
  OBVIOUS
<1>1. NetInv
  BY Numbers DEF RpcInit, NetInv, Endpoints
<1>2. fetch \in FetchRows /\ fetch.step = "hash" /\ fetch.parseErrors = 0
  <2>1. PICK m \in BOOLEAN, t \in BOOLEAN : fetch = NewFetch(m, t)
    BY DEF RpcInit, Fetches
  <2>2. fetch = [step |-> "hash", parseErrors |-> 0, malformed |-> m, txIndex |-> t]
    BY <2>1 DEF NewFetch
  <2>3. 0 \in 0 .. ReassembleAfter
    BY Numbers
  <2> QED BY <2>2, <2>3 DEF FetchRows, Steps
<1>3. call = [c \in Calls |-> NoCall] /\ batch = [b \in Batchers |-> NoBatch]
  BY DEF RpcInit
<1>4. ShapeInv
  BY <1>2, <1>3, Shapes DEF ShapeInv
<1>5. NoCall.owner = "none" /\ NoCall.pc = "idle" /\ "none" \notin Batchers /\ NoBatch.pc = "idle" /\ "reassembly" \in Batchers
  BY DEF NoCall, NoBatch, Batchers
<1>6. \A b \in Batchers : batch[b] = NoBatch
  BY <1>3
<1>7. OwnerInv /\ PathInv
  BY <1>3, <1>5, <1>6, Shapes DEF OwnerInv, PathInv
<1>8. BatchInOrder
  BY <1>6, Shapes DEF BatchInOrder, Awaited
<1>9. \A i \in Indices : ~ batch["reassembly"].got[i].hex
  BY <1>5, <1>6, Shapes DEF Awaited
<1>10. ContentInv
  BY <1>2, <1>9 DEF ContentInv, EscalatesOnContent, NoHoles
<1> QED BY <1>1, <1>4, <1>7, <1>8, <1>10 DEF WholeInv

\* A failure counts up to the threshold, and then the next endpoint is active.
LEMMA FailureCounted ==
    ASSUME NetInv, NEW c \in Calls, NoteConnectionFailure(c)
    PROVE  active' \in Endpoints /\ failures' \in 0 .. FailoverThreshold - 1
<1>1. (active + 1) % EndpointCount \in Endpoints
  BY Numbers DEF NetInv, Endpoints
<1>2. 0 \in 0 .. FailoverThreshold - 1 /\ (~ Enough(failures + 1) => failures + 1 \in 0 .. FailoverThreshold - 1)
  BY Numbers DEF NetInv, Enough
<1>3. CASE EndpointCount < 2
  BY <1>3 DEF NoteConnectionFailure, NetInv
<1>4. CASE ~(EndpointCount < 2)
  BY <1>1, <1>2, <1>4 DEF NoteConnectionFailure, NetInv
<1> QED BY <1>3, <1>4

\* No step leaves the ranges of the failover's counters.
LEMMA NetInductive == NetInv /\ [RpcNext]_rpcVars => NetInv'
<1> SUFFICES ASSUME NetInv, [RpcNext]_rpcVars PROVE NetInv'
  OBVIOUS
<1>f. RpcFault => rpcFaults' \in 0 .. RpcFaultBound
  BY Numbers DEF RpcFault, NetInv
<1>r. RpcReached => active' \in Endpoints /\ failures' \in 0 .. FailoverThreshold - 1
  BY Numbers DEF RpcReached, NetInv
<1>1. CASE EndpointFlips
  BY <1>1, <1>f DEF EndpointFlips, NetInv
<1>2. CASE UNCHANGED <<reachable, active, failures, rpcFaults>>
  BY <1>2 DEF NetInv
<1>3. CASE BlockCallAnswered \/ BlockCallRefused
  BY <1>3, <1>f, <1>r DEF BlockCallAnswered, BlockCallRefused, NetInv
<1>4. CASE BlockCallLost
  BY <1>4, FailureCounted, Shapes DEF BlockCallLost, NetInv
<1>5. ASSUME NEW c \in RawCalls, RawAnswered(c) \/ RawRefused(c) PROVE NetInv'
  BY <1>5, <1>f, <1>r DEF RawAnswered, RawRefused, NetInv
<1>6. ASSUME NEW c \in RawCalls, RawLost(c) PROVE NetInv'
  BY <1>6, FailureCounted, Shapes DEF RawLost, NetInv
<1>7. CASE StartBlockCall \/ StripAuxPow \/ NextHeight
  BY <1>2, <1>7 DEF StartBlockCall, StripAuxPow, NextHeight
<1>8. ASSUME NEW c \in Calls, RpcPost(c) PROVE NetInv'
  BY <1>2, <1>8 DEF RpcPost
<1>9. ASSUME NEW b \in Batchers, Batches(b) PROVE NetInv'
  BY <1>2, <1>9 DEF Batches, StartBatch, StartSlice, BatchDone
<1> QED BY <1>1, <1>2, <1>3, <1>4, <1>5, <1>6, <1>7, <1>8, <1>9 DEF RpcNext, BlockPath, rpcVars

-----------------------------------------------------------------------------
(* The block path and the batches. *)

\* A call that goes on in its role changes nothing for its batch.
LEMMA CallMoves ==
    ASSUME WholeInv, NEW c \in Calls, NEW row \in CallRows, call' = [call EXCEPT ![c] = row],
           UNCHANGED <<batch, fetch>>,
           row.owner = call[c].owner, row.index = call[c].index, c = 0 => call[0].pc # "idle"
    PROVE  WholeInv'
<1>1. call' \in [Calls -> CallRows] /\ \A d \in Calls : call'[d].owner = call[d].owner /\ call'[d].index = call[d].index
  BY DEF WholeInv, ShapeInv
<1>2. ShapeInv'
  BY <1>1 DEF WholeInv, ShapeInv
<1>3. OwnerInv'
  BY <1>1, Shapes DEF WholeInv, OwnerInv
<1>4. call'[0].pc # "idle" => call[0].pc # "idle"
  BY Shapes DEF WholeInv, ShapeInv
<1>5. PathInv'
  BY <1>4 DEF WholeInv, PathInv
<1>6. BatchInOrder' /\ ContentInv'
  BY DEF WholeInv, BatchInOrder, ContentInv, EscalatesOnContent, NoHoles
<1> QED BY <1>2, <1>3, <1>5, <1>6 DEF WholeInv

\* The block path goes on while no reassembly runs.
LEMMA PathMoves ==
    ASSUME WholeInv, NEW row \in CallRows, call' = [call EXCEPT ![0] = row], UNCHANGED batch,
           NEW st \in Steps \ {"done"}, fetch' = [fetch EXCEPT !.step = st],
           fetch.step # "raw", row.pc # "idle" => CallFor(st),
           st \in {"pureHeader", "verbose", "raw"} => fetch.malformed
    PROVE  WholeInv'
<1>1. call' \in [Calls -> CallRows] /\ call'[0] = row /\ \A d \in RawCalls : call'[d] = call[d]
  BY Shapes DEF WholeInv, ShapeInv
<1>2. fetch' \in FetchRows /\ fetch'.step = st /\ fetch'.parseErrors = fetch.parseErrors
        /\ fetch'.malformed = fetch.malformed /\ fetch'.txIndex = fetch.txIndex
  BY DEF WholeInv, ShapeInv, FetchRows
<1>3. ShapeInv' /\ BatchInOrder'
  BY <1>1, <1>2 DEF WholeInv, ShapeInv, BatchInOrder
<1>4. OwnerInv'
  BY <1>1 DEF WholeInv, OwnerInv
<1>5. PathInv'
  BY <1>1, <1>2 DEF WholeInv, PathInv
<1>6. ContentInv'
  BY <1>2 DEF WholeInv, ContentInv, EscalatesOnContent, NoHoles
<1> QED BY <1>3, <1>4, <1>5, <1>6 DEF WholeInv

\* Between calls and batches, the fetch turns to another state of this block or the next.
LEMMA FetchMoves ==
    ASSUME WholeInv, UNCHANGED <<call, batch>>, fetch.step \in {"strip", "done"},
           NEW row \in FetchRows, fetch' = row, row.step \in {"hash", "done"},
           row.parseErrors > 0 => row.malformed, row.step = "done" => ~ row.malformed
    PROVE  WholeInv'
<1>1. ShapeInv' /\ BatchInOrder' /\ OwnerInv'
  BY DEF WholeInv, ShapeInv, BatchInOrder, OwnerInv
<1>2. "reassembly" \in Batchers /\ batch["reassembly"].pc # "run" /\ call[0].pc = "idle"
  BY DEF WholeInv, PathInv, Batchers, CallFor
<1>3. batch["reassembly"] = NoBatch
  BY <1>2 DEF WholeInv, ShapeInv, OwnerInv, BatchRows
<1>4. PathInv'
  BY <1>2 DEF PathInv
<1>5. \A i \in Indices : ~ batch["reassembly"].got[i].hex
  BY <1>3, Shapes DEF Awaited
<1>6. ContentInv'
  BY <1>5 DEF ContentInv, EscalatesOnContent, NoHoles
<1> QED BY <1>1, <1>4, <1>6 DEF WholeInv
\* The calls and steps of the block path keep the invariant.
LEMMA BlockPathKeeps == WholeInv /\ NetInv /\ (BlockPath \/ BlockCallRefused) => WholeInv'
<1> SUFFICES ASSUME WholeInv, NetInv, BlockPath \/ BlockCallRefused PROVE WholeInv'
  OBVIOUS
<1>a. call[0] \in CallRows /\ fetch \in FetchRows /\ fetch.step \in Steps /\ call \in [Calls -> CallRows]
  BY Shapes DEF WholeInv, ShapeInv, FetchRows
<1>b. NoCall.pc = "idle"
  BY DEF NoCall
<1>c. call[0].pc # "idle" => CallFor(fetch.step) /\ fetch.step # "raw"
  BY DEF WholeInv, PathInv, CallFor
<1>d. fetch' = fetch => fetch' = [fetch EXCEPT !.step = fetch.step]
  BY <1>a DEF FetchRows
<1>e. fetch.step \in {"pureHeader", "verbose", "raw"} => fetch.malformed
  BY DEF WholeInv, ContentInv, EscalatesOnContent
<1>1. CASE StartBlockCall
  <2> DEFINE row == [NoCall EXCEPT !.pc = "ready", !.owner = "block"]
  <2>1. row \in CallRows
    BY Shapes DEF NoCall, CallRows
  <2>2. call' = [call EXCEPT ![0] = row] /\ UNCHANGED <<batch, fetch>> /\ CallFor(fetch.step)
    BY <1>1 DEF StartBlockCall
  <2> HIDE DEF row
  <2>3. fetch.step \in Steps \ {"done"} /\ fetch.step # "raw"
    BY <2>2, <1>a DEF CallFor
  <2> QED BY <2>1, <2>2, <2>3, <1>d, <1>e, PathMoves
<1>2. CASE BlockCallAnswered
  <2>1. call[0].pc # "idle" /\ call' = [call EXCEPT ![0] = NoCall] /\ UNCHANGED batch
        /\ fetch' = [fetch EXCEPT !.step = BlockAnswered(fetch.step)]
    BY <1>2, <1>a DEF BlockCallAnswered, FetchRows
  <2>2. fetch.parseErrors >= ReassembleAfter => fetch.malformed
    BY <1>a, Numbers DEF WholeInv, ContentInv, FetchRows
  <2>3. BlockAnswered(fetch.step) \in Steps \ {"done"}
          /\ (BlockAnswered(fetch.step) \in {"pureHeader", "verbose", "raw"} => fetch.malformed)
    BY <2>1, <2>2, <1>c, <1>e DEF CallFor, BlockAnswered, Steps
  <2> QED BY <2>1, <2>3, <1>b, <1>c, Shapes, PathMoves
<1>3. ASSUME call[0].pc # "idle", call' = [call EXCEPT ![0] = NoCall], UNCHANGED batch, Throws(fetch.step) PROVE WholeInv'
  <2>1. fetch' = [fetch EXCEPT !.step = "hash"] /\ "hash" \in Steps \ {"done"}
    BY <1>3 DEF Throws, Steps
  <2> QED BY <2>1, <1>3, <1>b, <1>c, Shapes, PathMoves
<1>4. CASE BlockCallRefused
  BY <1>3, <1>4 DEF BlockCallRefused
<1>5. CASE BlockCallLost
  <2>1. CASE call[0].tries + 1 < RpcTries /\ call' = [call EXCEPT ![0].pc = "ready", ![0].at = 0, ![0].tries = @ + 1] /\ UNCHANGED fetch
    <3> DEFINE row == [call[0] EXCEPT !.pc = "ready", !.at = 0, !.tries = @ + 1]
    <3>1. row \in CallRows /\ row.owner = call[0].owner /\ row.index = call[0].index
      <4>1. call[0].tries + 1 \in 0 .. RpcTries - 1
        BY <2>1, <1>a, Numbers DEF CallRows
      <4> QED BY <4>1, <1>a, Shapes DEF CallRows
    <3>2. call' = [call EXCEPT ![0] = row]
      BY <2>1, <1>a, Shapes
    <3> HIDE DEF row
    <3>3. call[0].pc # "idle" /\ UNCHANGED <<batch, fetch>>
      BY <1>5, <2>1 DEF BlockCallLost
    <3> QED BY <3>1, <3>2, <3>3, Shapes, CallMoves
  <2>2. CASE call' = [call EXCEPT ![0] = NoCall] /\ Throws(fetch.step)
    BY <2>2, <1>3, <1>5 DEF BlockCallLost
  <2> QED BY <2>1, <2>2, <1>5 DEF BlockCallLost
<1>6. CASE StripAuxPow
  <2>1. fetch.step = "strip" /\ UNCHANGED <<call, batch>>
    BY <1>6 DEF StripAuxPow
  <2>2. CASE fetch.malformed
    <3> DEFINE n == IF fetch.parseErrors < ReassembleAfter THEN fetch.parseErrors + 1 ELSE fetch.parseErrors
    <3>1. n \in 0 .. ReassembleAfter
      BY <1>a, Numbers DEF FetchRows
    <3>2. fetch' = [fetch EXCEPT !.step = "hash", !.parseErrors = n]
      BY <2>2, <1>6, <1>a DEF StripAuxPow, FetchRows
    <3> HIDE DEF n
    <3>3. fetch' \in FetchRows /\ fetch'.step = "hash" /\ fetch'.malformed = fetch.malformed
      BY <3>1, <3>2, <1>a DEF FetchRows, Steps
    <3> QED BY <2>1, <2>2, <3>3, FetchMoves
  <2>3. CASE ~ fetch.malformed
    <3>1. fetch' = [fetch EXCEPT !.step = "done"]
      BY <2>3, <1>6 DEF StripAuxPow
    <3>2. fetch' \in FetchRows /\ fetch'.step = "done" /\ fetch'.malformed = fetch.malformed /\ fetch'.parseErrors = fetch.parseErrors
      BY <3>1, <1>a DEF FetchRows, Steps
    <3>3. fetch.parseErrors > 0 => fetch.malformed
      BY DEF WholeInv, ContentInv
    <3> QED BY <2>1, <2>3, <3>2, <3>3, FetchMoves
  <2> QED BY <2>2, <2>3
<1>7. CASE NextHeight
  <2>1. fetch.step = "done" /\ UNCHANGED <<call, batch>>
    BY <1>7 DEF NextHeight
  <2>2. PICK m \in BOOLEAN, t \in BOOLEAN : fetch' = [step |-> "hash", parseErrors |-> 0, malformed |-> m, txIndex |-> t]
    BY <1>7 DEF NextHeight, Fetches, NewFetch
  <2>3. 0 \in 0 .. ReassembleAfter
    BY Numbers
  <2>4. fetch' \in FetchRows /\ fetch'.step = "hash" /\ fetch'.parseErrors = 0
    BY <2>2, <2>3 DEF FetchRows, Steps
  <2> QED BY <2>1, <2>4, FetchMoves
<1> QED BY <1>1, <1>2, <1>4, <1>5, <1>6, <1>7 DEF BlockPath

\* Starting a batch, starting a slice and ending the batch keep it.
LEMMA BatchesKeep ==
    ASSUME WholeInv, NEW b \in Batchers, Batches(b)
    PROVE  WholeInv'
<1>a. batch \in [Batchers -> BatchRows] /\ batch[b] \in BatchRows /\ call \in [Calls -> CallRows] /\ fetch \in FetchRows
  BY DEF WholeInv, ShapeInv
<1>b. "reassembly" \in Batchers
  BY DEF Batchers
<1>1. CASE StartBatch(b)
  <2> DEFINE row == [batch[b] EXCEPT !.pc = "run"]
  <2>1. row \in BatchRows /\ row.pc = "run" /\ row.got = batch[b].got
    BY <1>a DEF BatchRows
  <2>2. batch' = [batch EXCEPT ![b] = row] /\ UNCHANGED <<call, fetch>> /\ (b = "reassembly" => fetch.step = "raw")
    BY <1>1, <1>a DEF StartBatch
  <2> HIDE DEF row
  <2>3. /\ batch' \in [Batchers -> BatchRows] /\ batch'[b] = row
        /\ \A e \in Batchers : batch'[e].got = batch[e].got /\ (e # b => batch'[e] = batch[e])
    BY <2>1, <2>2, <1>a
  <2>4. ShapeInv' /\ BatchInOrder'
    BY <2>2, <2>3 DEF WholeInv, ShapeInv, BatchInOrder
  <2>5. OwnerInv'
    BY <2>1, <2>2, <2>3 DEF WholeInv, OwnerInv
  <2>6. PathInv'
    BY <2>2, <2>3, <1>b DEF WholeInv, PathInv
  <2>7. ContentInv'
    BY <2>2, <2>3, <1>b DEF WholeInv, ContentInv, EscalatesOnContent, NoHoles
  <2> QED BY <2>4, <2>5, <2>6, <2>7 DEF WholeInv
<1>2. CASE StartSlice(b)
  <2> DEFINE size == Least(RpcConcurrency, BatchLength + 1 - batch[b].next)
             taken == CHOOSE s \in SUBSET Free(b) : Cardinality(s) = size
             Position(c) == batch[b].next + Cardinality({d \in taken : d < c})
  <2>1. /\ batch[b].pc = "run" /\ batch[b].next <= BatchLength /\ size <= Cardinality(Free(b)) /\ UNCHANGED fetch
        /\ call' = [c \in Calls |-> IF c \in taken THEN [NoCall EXCEPT !.pc = "ready", !.owner = b, !.index = Position(c)]
                                    ELSE call[c]]
        /\ batch' = [batch EXCEPT ![b].next = @ + size]
    BY <1>2 DEF StartSlice
  <2>2. batch[b].next \in 1 .. BatchLength /\ size \in Nat /\ size <= BatchLength + 1 - batch[b].next
    <3>1. batch[b].next \in 1 .. BatchLength + 1 /\ batch[b].next <= BatchLength
      BY <2>1, <1>a DEF BatchRows
    <3>2. \A n \in 1 .. BatchLength + 1 : n <= BatchLength =>
             /\ n \in 1 .. BatchLength /\ Least(RpcConcurrency, BatchLength + 1 - n) \in Nat
             /\ Least(RpcConcurrency, BatchLength + 1 - n) <= BatchLength + 1 - n
      BY Numbers DEF Least
    <3> QED BY <3>1, <3>2
  <2>3. batch[b].next + size \in 1 .. BatchLength + 1
    BY <2>2, Numbers
  <2> HIDE DEF size
  <2>4. taken \subseteq Free(b) /\ \A c \in taken : Position(c) \in Indices
    <3>1. size <= Cardinality(Free(b))
      BY <2>1
    <3> QED BY <2>2, <3>1, SliceTaken
  <2> HIDE DEF taken, Position
  <2>5. taken \subseteq RawCalls /\ 0 \notin taken
    <3>1. Free(b) \subseteq RawCalls
      BY Numbers DEF Free, RawCallsOf, RawCalls
    <3> QED BY <2>4, <3>1, Shapes
  <2>6. \A c \in taken : [NoCall EXCEPT !.pc = "ready", !.owner = b, !.index = Position(c)] \in CallRows
    <3>1. \A i \in Indices : i \in 0 .. BatchLength
      BY Numbers DEF Indices
    <3> QED BY <2>4, <3>1, Shapes DEF NoCall, CallRows
  <2>7. /\ call' \in [Calls -> CallRows]
        /\ \A c \in taken : call'[c].owner = b /\ call'[c].index \in Indices
        /\ \A c \in Calls : c \notin taken => call'[c] = call[c]
    <3>1. \A c \in taken : call'[c] = [NoCall EXCEPT !.pc = "ready", !.owner = b, !.index = Position(c)]
      BY <2>1, <2>5, Shapes
    <3>2. \A c \in Calls : c \notin taken => call'[c] = call[c]
      BY <2>1
    <3>3. call' \in [Calls -> CallRows]
      BY <2>1, <2>6, <1>a
    <3>4. \A c \in taken : call'[c].owner = b /\ call'[c].index \in Indices
      BY <2>4, <3>1 DEF NoCall
    <3> QED BY <3>2, <3>3, <3>4
  <2> DEFINE row == [batch[b] EXCEPT !.next = @ + size]
  <2>8. row \in BatchRows /\ row.pc = "run" /\ row.got = batch[b].got
    BY <2>1, <2>3, <1>a DEF BatchRows
  <2>9. batch' = [batch EXCEPT ![b] = row]
    BY <2>1, <1>a
  <2> HIDE DEF row
  <2>10. /\ batch' \in [Batchers -> BatchRows] /\ batch'[b] = row
         /\ \A e \in Batchers : /\ batch'[e].got = batch[e].got /\ batch'[e].pc = batch[e].pc
                                /\ (e # b => batch'[e] = batch[e])
    BY <2>1, <2>8, <2>9, <1>a
  <2>11. ShapeInv' /\ BatchInOrder'
    BY <2>1, <2>7, <2>10 DEF WholeInv, ShapeInv, BatchInOrder
  <2>12. OwnerInv'
    <3>1. ASSUME NEW c \in RawCalls, call'[c].owner \in Batchers
          PROVE  call'[c].index \in Indices /\ batch'[call'[c].owner].pc = "run"
      <4>1. CASE c \in taken
        BY <4>1, <2>7, <2>8, <2>10
      <4>2. CASE c \notin taken
        <5>1. call'[c] = call[c]
          BY <4>2, <2>7, Shapes
        <5> QED BY <5>1, <3>1, <2>10 DEF WholeInv, OwnerInv
      <4> QED BY <4>1, <4>2
    <3>2. \A e \in Batchers : batch'[e].pc = "idle" => batch'[e] = NoBatch
      BY <2>8, <2>10 DEF WholeInv, OwnerInv
    <3> QED BY <3>1, <3>2 DEF OwnerInv
  <2>13. PathInv'
    BY <2>1, <2>5, <2>7, <2>10, <1>b, Shapes DEF WholeInv, PathInv
  <2>14. ContentInv'
    BY <2>1, <2>10, <1>b DEF WholeInv, ContentInv, EscalatesOnContent, NoHoles
  <2> QED BY <2>11, <2>12, <2>13, <2>14 DEF WholeInv
<1>3. CASE BatchDone(b)
  <2>1. batch[b].pc = "run" /\ OwnCalls(b) = {} /\ batch' = [batch EXCEPT ![b] = NoBatch] /\ UNCHANGED call
    BY <1>3 DEF BatchDone
  <2>2. batch' \in [Batchers -> BatchRows] /\ batch'[b] = NoBatch /\ \A e \in Batchers : e # b => batch'[e] = batch[e]
    BY <2>1, <1>a, Shapes
  <2>3. BatchInOrder'
    BY <2>2, Shapes DEF WholeInv, BatchInOrder, Awaited
  <2>4. OwnerInv'
    <3>1. \A c \in RawCalls : call[c].owner # b
      BY <2>1 DEF OwnCalls
    <3> QED BY <3>1, <2>1, <2>2 DEF WholeInv, OwnerInv
  <2>5. CASE b = "mempool"
    <3>1. UNCHANGED fetch /\ batch'["reassembly"] = batch["reassembly"]
      BY <2>2, <2>5, <1>3, <1>b DEF BatchDone
    <3>2. ShapeInv' /\ PathInv' /\ ContentInv'
      BY <2>1, <2>2, <3>1 DEF WholeInv, ShapeInv, PathInv, ContentInv, EscalatesOnContent, NoHoles
    <3> QED BY <2>3, <2>4, <3>2 DEF WholeInv
  <2>6. CASE b = "reassembly"
    <3>1. fetch.step = "raw" /\ call[0].pc = "idle" /\ fetch.malformed
      BY <2>1, <2>6 DEF WholeInv, PathInv, CallFor, ContentInv, EscalatesOnContent
    <3>2. Whole(b) => fetch.txIndex
      <4>1. 1 \in Indices
        BY Numbers DEF Indices
      <4> QED BY <4>1, <2>6 DEF Whole, WholeInv, ContentInv
    <3>3. PICK st \in {"done", "hash"} : fetch' = [fetch EXCEPT !.step = st] /\ (st = "done" => Whole(b))
      BY <1>3, <2>6 DEF BatchDone
    <3>4. /\ fetch' \in FetchRows /\ fetch'.step = st /\ fetch'.parseErrors = fetch.parseErrors
          /\ fetch'.malformed = fetch.malformed /\ fetch'.txIndex = fetch.txIndex
      BY <3>3, <1>a DEF FetchRows, Steps
    <3>5. ShapeInv'
      BY <2>1, <2>2, <3>4, <1>a DEF ShapeInv
    <3>6. PathInv'
      BY <2>1, <2>2, <2>6, <3>1 DEF PathInv, NoBatch
    <3>7. \A i \in Indices : ~ batch'["reassembly"].got[i].hex
      BY <2>2, <2>6, Shapes DEF Awaited
    <3>8. ContentInv'
      BY <3>2, <3>3, <3>4, <3>7 DEF WholeInv, ContentInv, EscalatesOnContent, NoHoles
    <3> QED BY <2>3, <2>4, <3>5, <3>6, <3>8 DEF WholeInv
  <2> QED BY <2>5, <2>6 DEF Batchers
<1> QED BY <1>1, <1>2, <1>3 DEF Batches
\* An answer lands at the position its call stands for, or nowhere.
LEMMA AnswerKeeps ==
    ASSUME WholeInv, NEW c \in RawCalls, RawAnswered(c)
    PROVE  WholeInv'
<1>a. batch \in [Batchers -> BatchRows] /\ call \in [Calls -> CallRows] /\ call[c] \in CallRows /\ c # 0 /\ c \in Calls
  BY Shapes DEF WholeInv, ShapeInv
<1>b. "reassembly" \in Batchers /\ NoCall.owner = "none" /\ "none" \notin Batchers
  BY DEF Batchers, NoCall
<1> DEFINE o == call[c].owner
           value == (o = "reassembly" => fetch.txIndex)
<1>1. call' = [call EXCEPT ![c] = NoCall] /\ UNCHANGED fetch /\ batch' = Resolved(c, value)
  BY DEF RawAnswered
<1>2. call' \in [Calls -> CallRows] /\ call'[c] = NoCall /\ \A d \in Calls : d # c => call'[d] = call[d]
  BY <1>1, <1>a, Shapes
<1>3. CASE o \notin Batchers
  <2>1. UNCHANGED batch
    BY <1>1, <1>3 DEF Resolved
  <2>2. ShapeInv' /\ BatchInOrder'
    BY <1>1, <1>2, <2>1 DEF WholeInv, ShapeInv, BatchInOrder
  <2>3. OwnerInv'
    BY <1>2, <2>1, <1>b, Shapes DEF WholeInv, OwnerInv
  <2>4. PathInv' /\ ContentInv'
    BY <1>1, <1>2, <2>1, <1>a, Shapes DEF WholeInv, PathInv, ContentInv, EscalatesOnContent, NoHoles
  <2> QED BY <2>2, <2>3, <2>4 DEF WholeInv
<1>4. CASE o \in Batchers
  <2>1. call[c].index \in Indices /\ batch[o].pc = "run" /\ batch[o] \in BatchRows
    BY <1>4, <1>a DEF WholeInv, OwnerInv
  <2>2. PICK i \in Indices : i = call[c].index
    BY <2>1
  <2>3. PICK v \in BOOLEAN : v = value
    OBVIOUS
  <2>4. o = "reassembly" /\ v => fetch.txIndex
    BY <2>3
  <2> DEFINE row == [batch[o] EXCEPT !.got = [batch[o].got EXCEPT ![i] = [tx |-> i, hex |-> v]]]
  <2>5. batch' = [batch EXCEPT ![o].got[i] = [tx |-> i, hex |-> v]]
    BY <1>1, <1>4, <2>2, <2>3 DEF Resolved
  <2> HIDE DEF o, value
  <2>6. batch' = [batch EXCEPT ![o] = row]
    BY <2>1, <2>5, <1>4, <1>a
  <2>7. i \in 0 .. BatchLength
    BY Numbers DEF Indices
  <2>8. batch[o].got \in Answers
    BY <2>1 DEF BatchRows
  <2>9. /\ row \in BatchRows /\ row.pc = batch[o].pc /\ row.got[i] = [tx |-> i, hex |-> v]
        /\ \A j \in Indices : j # i => row.got[j] = batch[o].got[j]
    <3>1. [batch[o].got EXCEPT ![i] = [tx |-> i, hex |-> v]] \in Answers
      BY <2>7, <2>8 DEF Answers
    <3>2. row \in BatchRows /\ row.pc = batch[o].pc /\ row.got = [batch[o].got EXCEPT ![i] = [tx |-> i, hex |-> v]]
      BY <2>1, <3>1 DEF BatchRows
    <3> QED BY <3>2, <2>8 DEF Answers
  <2> HIDE DEF row
  <2>10. /\ batch' \in [Batchers -> BatchRows] /\ batch'[o] = row /\ \A e \in Batchers : e # o => batch'[e] = batch[e]
    BY <2>6, <2>9, <1>4, <1>a
  <2>11. ShapeInv'
    BY <1>1, <1>2, <2>10 DEF WholeInv, ShapeInv
  <2>12. BatchInOrder'
    BY <2>9, <2>10 DEF WholeInv, BatchInOrder
  <2>13. OwnerInv'
    <3>1. \A e \in Batchers : batch'[e].pc = batch[e].pc
      BY <2>9, <2>10
    <3>2. \A d \in RawCalls : call'[d].owner \in Batchers => call'[d] = call[d]
      BY <1>2, <1>b, Shapes
    <3>3. \A e \in Batchers : batch'[e].pc = "idle" => batch'[e] = NoBatch
      BY <3>1, <2>1, <2>10 DEF WholeInv, OwnerInv
    <3> QED BY <3>1, <3>2, <3>3 DEF WholeInv, OwnerInv
  <2>14. PathInv'
    BY <1>1, <1>2, <2>9, <2>10, <1>a, <1>b, Shapes DEF WholeInv, PathInv
  <2>15. ContentInv'
    <3>1. \A j \in Indices : batch'["reassembly"].got[j].hex => fetch.txIndex
      BY <2>4, <2>9, <2>10, <1>b DEF WholeInv, ContentInv
    <3> QED BY <3>1, <1>1 DEF WholeInv, ContentInv, EscalatesOnContent, NoHoles
  <2> QED BY <2>11, <2>12, <2>13, <2>14, <2>15 DEF WholeInv
<1> QED BY <1>3, <1>4

\* A failed attempt is repeated, or gives up the batch with every other call of it.
LEMMA FailureKeeps ==
    ASSUME WholeInv, NEW c \in RawCalls, call[c].pc = "flight", RawFails(c)
    PROVE  WholeInv'
<1>a. /\ batch \in [Batchers -> BatchRows] /\ call \in [Calls -> CallRows] /\ call[c] \in CallRows /\ fetch \in FetchRows
      /\ c # 0 /\ c \in Calls
  BY Shapes DEF WholeInv, ShapeInv
<1>b. "reassembly" \in Batchers /\ NoCall.owner = "none" /\ "none" \notin Batchers /\ "orphan" \notin Batchers
  BY DEF Batchers, NoCall
<1>1. CASE call[c].tries + 1 < RpcTries
  <2> DEFINE row == [call[c] EXCEPT !.pc = "ready", !.at = 0, !.tries = @ + 1]
  <2>1. row \in CallRows /\ row.owner = call[c].owner /\ row.index = call[c].index
    <3>1. call[c].tries + 1 \in 0 .. RpcTries - 1
      BY <1>1, <1>a, Numbers DEF CallRows
    <3> QED BY <3>1, <1>a, Shapes DEF CallRows
  <2>2. call' = [call EXCEPT ![c] = row] /\ UNCHANGED <<batch, fetch>>
    BY <1>1, <1>a DEF RawFails
  <2> HIDE DEF row
  <2> QED BY <2>1, <2>2, <1>a, CallMoves
<1>2. CASE ~(call[c].tries + 1 < RpcTries)
  <2> DEFINE b == call[c].owner
             Dropped(d) == [call[d] EXCEPT !.owner = "orphan", !.index = 0]
  <2>1. /\ call' = [d \in Calls |-> IF d = c THEN NoCall ELSE IF b \in Batchers /\ call[d].owner = b THEN Dropped(d) ELSE call[d]]
        /\ batch' = IF b \in Batchers THEN [batch EXCEPT ![b] = NoBatch] ELSE batch
        /\ IF b = "reassembly" THEN Throws("raw") ELSE UNCHANGED fetch
    BY <1>2 DEF RawFails
  <2>2. \A d \in Calls : Dropped(d) \in CallRows /\ Dropped(d).owner = "orphan" /\ Dropped(d).pc = call[d].pc
    <3>1. 0 \in 0 .. BatchLength
      BY Numbers
    <3> QED BY <3>1, <1>a DEF CallRows
  <2> HIDE DEF Dropped
  <2>3. /\ call' \in [Calls -> CallRows]
        /\ \A d \in Calls : call'[d].owner \in Batchers => call'[d] = call[d] /\ call[d].owner # b
        /\ call'[0].pc = call[0].pc
    <3>1. call' \in [Calls -> CallRows]
      BY <2>1, <2>2, <1>a, Shapes
    <3>2. \A d \in Calls : call'[d].owner \in Batchers => call'[d] = call[d] /\ call[d].owner # b
      BY <2>1, <2>2, <1>b
    <3>3. call'[0].pc = call[0].pc
      BY <2>1, <2>2, <1>a, Shapes
    <3> QED BY <3>1, <3>2, <3>3
  <2>4. CASE b \notin Batchers
    <3>1. UNCHANGED <<batch, fetch>>
      BY <2>1, <2>4, <1>b
    <3>2. ShapeInv' /\ BatchInOrder' /\ PathInv'
      BY <2>3, <3>1 DEF WholeInv, ShapeInv, BatchInOrder, PathInv
    <3>3. OwnerInv'
      BY <2>3, <3>1, Shapes DEF WholeInv, OwnerInv
    <3>4. ContentInv'
      BY <3>1 DEF WholeInv, ContentInv, EscalatesOnContent, NoHoles
    <3> QED BY <3>2, <3>3, <3>4 DEF WholeInv
  <2>5. CASE b \in Batchers
    <3>1. batch' \in [Batchers -> BatchRows] /\ batch'[b] = NoBatch /\ \A e \in Batchers : e # b => batch'[e] = batch[e]
      BY <2>1, <2>5, <1>a, Shapes
    <3>2. BatchInOrder'
      BY <3>1, Shapes DEF WholeInv, BatchInOrder, Awaited
    <3>3. OwnerInv'
      BY <2>3, <3>1, Shapes DEF WholeInv, OwnerInv
    <3>4. CASE b = "reassembly"
      <4>1. batch[b].pc = "run" /\ fetch.step = "raw" /\ call[0].pc = "idle"
        BY <2>5, <3>4 DEF WholeInv, OwnerInv, PathInv, CallFor
      <4>2. fetch' = [fetch EXCEPT !.step = "hash"]
        BY <2>1, <3>4 DEF Throws
      <4>3. /\ fetch' \in FetchRows /\ fetch'.step = "hash" /\ fetch'.parseErrors = fetch.parseErrors
            /\ fetch'.malformed = fetch.malformed
        BY <4>2, <1>a DEF FetchRows, Steps
      <4>4. ShapeInv'
        BY <2>3, <3>1, <4>3 DEF ShapeInv
      <4>5. PathInv'
        BY <2>3, <3>1, <3>4, <4>1 DEF PathInv, NoBatch
      <4>6. \A i \in Indices : ~ batch'["reassembly"].got[i].hex
        BY <3>1, <3>4, Shapes DEF Awaited
      <4>7. ContentInv'
        BY <4>3, <4>6 DEF WholeInv, ContentInv, EscalatesOnContent, NoHoles
      <4> QED BY <3>2, <3>3, <4>4, <4>5, <4>7 DEF WholeInv
    <3>5. CASE b # "reassembly"
      <4>1. UNCHANGED fetch /\ batch'["reassembly"] = batch["reassembly"]
        BY <2>1, <3>1, <3>5, <1>b
      <4>2. ShapeInv' /\ PathInv'
        BY <2>3, <3>1, <4>1 DEF WholeInv, ShapeInv, PathInv
      <4>3. ContentInv'
        BY <4>1 DEF WholeInv, ContentInv, EscalatesOnContent, NoHoles
      <4> QED BY <3>2, <3>3, <4>2, <4>3 DEF WholeInv
    <3> QED BY <3>4, <3>5
  <2> QED BY <2>4, <2>5
<1> QED BY <1>1, <1>2

\* No step of the connector breaks what is handed on.
LEMMA WholeInductive == NetInv /\ WholeInv /\ [RpcNext]_rpcVars => WholeInv'
<1> SUFFICES ASSUME NetInv, WholeInv, [RpcNext]_rpcVars PROVE WholeInv'
  OBVIOUS
<1>1. ASSUME NEW c \in Calls, RpcPost(c) PROVE WholeInv'
  <2> DEFINE row == [call[c] EXCEPT !.pc = "flight", !.at = active]
  <2>1. call \in [Calls -> CallRows] /\ call[c] \in CallRows /\ active \in Endpoints
    BY DEF WholeInv, ShapeInv, NetInv
  <2>2. row \in CallRows /\ row.owner = call[c].owner /\ row.index = call[c].index
    BY <2>1 DEF CallRows
  <2>3. call' = [call EXCEPT ![c] = row] /\ UNCHANGED <<batch, fetch>> /\ call[c].pc = "ready"
    BY <1>1, <2>1 DEF RpcPost
  <2> HIDE DEF row
  <2>4. c = 0 => call[0].pc # "idle"
    BY <2>3
  <2> QED BY <2>2, <2>3, <2>4, CallMoves
<1>2. CASE UNCHANGED <<call, batch, fetch>>
  BY <1>2 DEF WholeInv, ShapeInv, BatchInOrder, OwnerInv, PathInv, ContentInv, EscalatesOnContent, NoHoles
<1>3. ASSUME NEW c \in RawCalls, RawRefused(c) \/ RawLost(c) PROVE WholeInv'
  <2>1. call[c].pc = "flight" /\ RawFails(c)
    BY <1>3 DEF RawRefused, RawLost
  <2> QED BY <2>1, FailureKeeps
<1>4. CASE EndpointFlips \/ UNCHANGED rpcVars
  BY <1>2, <1>4 DEF EndpointFlips, rpcVars
<1> QED BY <1>1, <1>3, <1>4, BlockPathKeeps, BatchesKeep, AnswerKeeps DEF RpcNext

\* For every concurrency and batch length, whatever order the calls finish in and whatever
\* fails: answers by position, no block with a hole, and a reassembly only for bytes that
\* cannot be read (getRawTransactions, fetchBlockHex).
THEOREM WhatIsHandedOnIsWhole == RpcSpec => []BlocksWhole
<1>1. NetInv /\ WholeInv => BlocksWhole
  BY DEF NetInv, WholeInv, ShapeInv, ContentInv, BlocksWhole, RpcTypeOK, CallRows, BatchRows, Answers, FetchRows, Steps
<1> QED BY <1>1, RpcInitially, NetInductive, WholeInductive, PTL DEF RpcSpec
-----------------------------------------------------------------------------
(* Leaving an endpoint. *)

\* The calls in flight to an endpoint that is no longer active.
Stale == {c \in Calls : call[c].pc = "flight" /\ call[c].at # active}

\* Until a call to the active endpoint fails, every failure that was counted came from a
\* call that was in flight elsewhere when the endpoint became active.
EvidenceInv ==
    /\ left \in [evidence : BOOLEAN, stale : Nat] /\ here \in BOOLEAN
    /\ left.evidence
    /\ ~ here => failures + Cardinality(Stale) <= left.stale

\* Which calls are in flight, and to where, changes in three ways only.
FlightsEnd == \A d \in Calls : call'[d].pc = "flight" => call[d].pc = "flight" /\ call'[d].at = call[d].at
FlightsBegin == \A d \in Calls : call'[d].pc = "flight" =>
                    (call[d].pc = "flight" /\ call'[d].at = call[d].at) \/ call'[d].at = active
FlightLost(c) == /\ call'[c].pc # "flight"
                 /\ \A d \in Calls \ {c} : call'[d].pc = call[d].pc /\ call'[d].at = call[d].at

\* The stale calls are finitely many.
LEMMA StaleFinite ==
    IsFiniteSet(Stale) /\ Cardinality(Stale) \in Nat
BY Shapes, FS_Subset, FS_CardinalityType DEF Stale

\* No step makes a call stale but a rotation.
LEMMA StaleShrinks ==
    ASSUME NetInv, EvidenceInv, UNCHANGED <<active, here, left>>, failures' \in Nat, failures' <= failures, FlightsBegin
    PROVE  EvidenceInv'
<1>1. Stale' \subseteq Stale
  BY DEF Stale, FlightsBegin
<1>2. Cardinality(Stale') <= Cardinality(Stale) /\ Cardinality(Stale') \in Nat
  BY <1>1, StaleFinite, FS_Subset, FS_CardinalityType
<1>3. failures \in Nat /\ left.stale \in Nat
  BY Numbers DEF NetInv, EvidenceInv
<1>4. failures + Cardinality(Stale) <= left.stale => failures' + Cardinality(Stale') <= left.stale
  BY <1>2, <1>3, StaleFinite
<1> QED BY <1>4 DEF EvidenceInv

\* A lost call is one stale call less and one failure more, or it is evidence.
LEMMA LossCounted ==
    ASSUME NetInv, WholeInv, EvidenceInv, NEW c \in Calls, call[c].pc = "flight", FlightLost(c), NoteConnectionFailure(c)
    PROVE  EvidenceInv'
<1>1. CASE EndpointCount < 2
  <2>1. UNCHANGED <<active, failures, here, left>>
    BY <1>1 DEF NoteConnectionFailure
  <2>2. failures' \in Nat /\ failures' <= failures
    BY <2>1, Numbers DEF NetInv
  <2>3. FlightsBegin
    BY DEF FlightLost, FlightsBegin
  <2> QED BY <2>1, <2>2, <2>3, StaleShrinks
<1>2. CASE ~(EndpointCount < 2)
  <2> DEFINE to == (active + 1) % EndpointCount
             proof == here \/ call[c].at = active
             others == {d \in Calls \ {c} : call[d].pc = "flight" /\ call[d].at # to}
  <2>0. failures \in Nat /\ left.stale \in Nat
    BY Numbers DEF NetInv, EvidenceInv
  <2>1. CASE Enough(failures + 1)
    <3>1. /\ failures' = 0 /\ active' = to /\ here' = FALSE
          /\ left' = [evidence |-> (left.stale < FailoverThreshold => proof), stale |-> Cardinality(others)]
      BY <1>2, <2>1 DEF NoteConnectionFailure
    <3>2. Stale' = others
      BY <3>1 DEF Stale, FlightLost
    <3>3. Cardinality(others) \in Nat
      <4>1. IsFiniteSet(others)
        BY Shapes, FS_Subset
      <4> QED BY <4>1, FS_CardinalityType
    <3>4. left.stale < FailoverThreshold => proof
      <4> SUFFICES ASSUME ~ proof PROVE ~(left.stale < FailoverThreshold)
        OBVIOUS
      <4>1. c \in Stale /\ ~ here
        BY DEF Stale
      <4>2. Cardinality(Stale) # 0
        BY <4>1, StaleFinite, FS_EmptySet
      <4>3. failures + Cardinality(Stale) <= left.stale
        BY <4>1 DEF EvidenceInv
      <4> QED BY <2>0, <2>1, <4>2, <4>3, StaleFinite, Numbers DEF Enough
    <3> HIDE DEF proof, others
    <3>5. left' = [evidence |-> TRUE, stale |-> Cardinality(others)]
      BY <3>1, <3>4
    <3>6. left' \in [evidence : BOOLEAN, stale : Nat] /\ left'.evidence /\ left'.stale = Cardinality(others)
      BY <3>3, <3>5
    <3>7. failures' + Cardinality(Stale') <= left'.stale
      BY <3>1, <3>2, <3>3, <3>6
    <3> QED BY <3>1, <3>6, <3>7 DEF EvidenceInv
  <2>2. CASE ~ Enough(failures + 1)
    <3>1. failures' = failures + 1 /\ active' = active /\ here' = proof /\ left' = left
      BY <1>2, <2>2 DEF NoteConnectionFailure
    <3>2. CASE proof
      <4>1. here' = TRUE
        BY <3>1, <3>2 DEF EvidenceInv
      <4> QED BY <3>1, <4>1 DEF EvidenceInv
    <3>3. CASE ~ proof
      <4>1. c \in Stale /\ ~ here /\ here' = FALSE
        BY <3>1, <3>3 DEF Stale, EvidenceInv
      <4>2. Stale' = Stale \ {c}
        BY <3>1 DEF Stale, FlightLost
      <4>3. Cardinality(Stale') = Cardinality(Stale) - 1
        BY <4>1, <4>2, StaleFinite, FS_RemoveElement
      <4>4. failures + Cardinality(Stale) <= left.stale
        BY <4>1 DEF EvidenceInv
      <4>5. failures' + Cardinality(Stale') <= left'.stale
        BY <2>0, <3>1, <4>3, <4>4, StaleFinite
      <4> QED BY <3>1, <4>1, <4>5 DEF EvidenceInv
    <3> QED BY <3>2, <3>3
  <2> QED BY <2>1, <2>2
<1> QED BY <1>1, <1>2

\* A call that fails is out of flight, and no other call is touched in its flight.
LEMMA RawFailsEnds ==
    ASSUME WholeInv, NEW c \in RawCalls, RawFails(c)
    PROVE  FlightLost(c)
<1>a. call \in [Calls -> CallRows] /\ c \in Calls /\ NoCall.pc = "idle"
  BY Shapes DEF WholeInv, ShapeInv, NoCall
<1>1. CASE call[c].tries + 1 < RpcTries
  <2>1. call' = [call EXCEPT ![c].pc = "ready", ![c].at = 0, ![c].tries = @ + 1]
    BY <1>1 DEF RawFails
  <2>2. call'[c].pc = "ready" /\ \A d \in Calls : d # c => call'[d] = call[d]
    BY <2>1, <1>a DEF CallRows
  <2> QED BY <2>2 DEF FlightLost
<1>2. CASE ~(call[c].tries + 1 < RpcTries)
  <2>1. \A d \in Calls : IF d = c THEN call'[d] = NoCall
           ELSE call'[d] \in {call[d], [call[d] EXCEPT !.owner = "orphan", !.index = 0]}
    BY <1>2 DEF RawFails
  <2>2. \A d \in Calls : [call[d] EXCEPT !.owner = "orphan", !.index = 0].pc = call[d].pc
                         /\ [call[d] EXCEPT !.owner = "orphan", !.index = 0].at = call[d].at
    BY <1>a DEF CallRows
  <2> QED BY <2>1, <2>2, <1>a DEF FlightLost
<1> QED BY <1>1, <1>2

\* Every step keeps the evidence.
LEMMA EvidenceInductive == NetInv /\ WholeInv /\ EvidenceInv /\ [RpcNext]_rpcVars => EvidenceInv'
<1> SUFFICES ASSUME NetInv, WholeInv, EvidenceInv, [RpcNext]_rpcVars PROVE EvidenceInv'
  OBVIOUS
<1>a. call \in [Calls -> CallRows] /\ NoCall.pc = "idle" /\ failures \in Nat
  BY Numbers DEF WholeInv, ShapeInv, NoCall, NetInv
<1>b. ASSUME UNCHANGED <<active, failures, here, left>>, FlightsBegin PROVE EvidenceInv'
  BY <1>a, <1>b, StaleShrinks
<1>c. ASSUME RpcReached, FlightsBegin PROVE EvidenceInv'
  BY <1>a, <1>c, StaleShrinks DEF RpcReached
<1>1. CASE EndpointFlips \/ StripAuxPow \/ NextHeight \/ UNCHANGED rpcVars
  <2>1. UNCHANGED <<active, failures, here, left, call>>
    BY <1>1 DEF EndpointFlips, StripAuxPow, NextHeight, rpcVars
  <2> QED BY <2>1, <1>b DEF FlightsBegin
<1>2. ASSUME NEW c \in Calls, RpcPost(c) PROVE EvidenceInv'
  <2>1. UNCHANGED <<active, failures, here, left>> /\ call' = [call EXCEPT ![c].pc = "flight", ![c].at = active]
    BY <1>2 DEF RpcPost
  <2>2. call'[c].at = active /\ \A d \in Calls : d # c => call'[d] = call[d]
    BY <2>1, <1>a DEF CallRows
  <2> QED BY <2>1, <2>2, <1>b DEF FlightsBegin
<1>3. CASE StartBlockCall
  <2>1. UNCHANGED <<active, failures, here, left>> /\ call' = [call EXCEPT ![0] = [NoCall EXCEPT !.pc = "ready", !.owner = "block"]]
    BY <1>3 DEF StartBlockCall
  <2>2. call'[0].pc = "ready" /\ \A d \in Calls : d # 0 => call'[d] = call[d]
    BY <2>1, <1>a, Shapes DEF NoCall
  <2> QED BY <2>1, <2>2, <1>b DEF FlightsBegin
<1>4. CASE BlockCallAnswered \/ BlockCallRefused
  <2>1. RpcReached /\ call' = [call EXCEPT ![0] = NoCall]
    BY <1>4 DEF BlockCallAnswered, BlockCallRefused
  <2>2. FlightsBegin
    BY <2>1, <1>a, Shapes DEF FlightsBegin
  <2> QED BY <2>1, <2>2, <1>c
<1>5. CASE BlockCallLost
  <2>1. call[0].pc = "flight" /\ NoteConnectionFailure(0)
    BY <1>5 DEF BlockCallLost
  <2>2. call'[0].pc # "flight" /\ \A d \in Calls : d # 0 => call'[d] = call[d]
    BY <1>5, <1>a, Shapes DEF BlockCallLost, CallRows
  <2> QED BY <2>1, <2>2, Shapes, LossCounted DEF FlightLost
<1>6. ASSUME NEW c \in RawCalls, RawAnswered(c) PROVE EvidenceInv'
  <2>1. RpcReached /\ call' = [call EXCEPT ![c] = NoCall]
    BY <1>6 DEF RawAnswered
  <2>2. FlightsBegin
    BY <2>1, <1>a, Shapes DEF FlightsBegin
  <2> QED BY <2>1, <2>2, <1>c
<1>7. ASSUME NEW c \in RawCalls, RawRefused(c) PROVE EvidenceInv'
  <2>1. RpcReached /\ RawFails(c)
    BY <1>7 DEF RawRefused
  <2>2. FlightLost(c)
    BY <2>1, RawFailsEnds
  <2>3. FlightsBegin
    BY <2>2, Shapes DEF FlightLost, FlightsBegin
  <2> QED BY <2>1, <2>3, <1>c
<1>8. ASSUME NEW c \in RawCalls, RawLost(c) PROVE EvidenceInv'
  <2>1. call[c].pc = "flight" /\ NoteConnectionFailure(c) /\ RawFails(c)
    BY <1>8 DEF RawLost
  <2> QED BY <2>1, RawFailsEnds, LossCounted, Shapes
<1>9. ASSUME NEW b \in Batchers, StartBatch(b) \/ BatchDone(b) PROVE EvidenceInv'
  <2>1. UNCHANGED <<active, failures, here, left, call>>
    BY <1>9 DEF StartBatch, BatchDone
  <2> QED BY <2>1, <1>b DEF FlightsBegin
<1>10. ASSUME NEW b \in Batchers, StartSlice(b) PROVE EvidenceInv'
  <2>1. UNCHANGED <<active, failures, here, left>>
    BY <1>10 DEF StartSlice
  <2>2. \A d \in Calls : call'[d] = call[d] \/ \E n : call'[d] = [NoCall EXCEPT !.pc = "ready", !.owner = b, !.index = n]
    BY <1>10 DEF StartSlice
  <2>3. \A d \in Calls : call'[d] = call[d] \/ call'[d].pc = "ready"
    BY <2>2 DEF NoCall
  <2> QED BY <2>1, <2>3, <1>b DEF FlightsBegin
<1> QED
  BY <1>1, <1>2, <1>3, <1>4, <1>5, <1>6, <1>7, <1>8, <1>9, <1>10 DEF RpcNext, BlockPath, Batches

\* For any number of endpoints and calls and any threshold: an endpoint is left after a
\* failure of its own, unless a whole threshold of calls was in flight elsewhere when the
\* connector came to it (noteConnectionFailure).
THEOREM EndpointsLeftOnEvidence == RpcSpec => []LeftOnEvidence
<1>1. RpcInit => EvidenceInv
  <2> SUFFICES ASSUME RpcInit PROVE EvidenceInv
    OBVIOUS
  <2>1. Stale = {}
    BY DEF RpcInit, Stale, NoCall
  <2>2. Cardinality(Stale) = 0
    BY <2>1, FS_EmptySet
  <2>3. here = FALSE /\ failures = 0 /\ left = [evidence |-> TRUE, stale |-> 0]
    BY DEF RpcInit
  <2>4. left \in [evidence : BOOLEAN, stale : Nat] /\ left.evidence /\ left.stale = 0
    BY <2>3
  <2>5. failures + Cardinality(Stale) <= left.stale
    BY <2>2, <2>3, <2>4
  <2> QED BY <2>3, <2>4, <2>5 DEF EvidenceInv
<1>2. EvidenceInv => LeftOnEvidence
  BY DEF EvidenceInv, LeftOnEvidence
<1> QED BY <1>1, <1>2, RpcInitially, NetInductive, WholeInductive, EvidenceInductive, PTL DEF RpcSpec
=============================================================================
