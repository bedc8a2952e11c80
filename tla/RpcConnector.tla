---------------------------- MODULE RpcConnector ----------------------------
(***************************************************************************)
(* The decoder's access to its coin nodes: the single POST path with its   *)
(* failover between endpoints (chain/blockchain_connector.js,              *)
(* rpc_transport.js), the two retry ladders (rpcCallWithTimeoutRetry,      *)
(* getRawTransaction), the batches of raw transactions                     *)
(* (transaction_queries.js), and above them the fetch of one block with    *)
(* its escalation to per-transaction reassembly (block_queries.js,         *)
(* chain_integrity.js, block_ingest.js).                                   *)
(*                                                                         *)
(* Call 0 is the block path, which has one call out at a time; the others  *)
(* are the raw-transaction calls of the mempool refresh and of a           *)
(* reassembly. A batch that rejects leaves its other calls running.        *)
(***************************************************************************)
EXTENDS Naturals, FiniteSets

CONSTANTS
    EndpointCount,      \* NODE_URL and NODE_URL_FALLBACK
    FailoverThreshold,  \* NODE_FAILOVER_THRESHOLD
    RpcTries,           \* bound: attempts of a ladder (10 in the code)
    ReassembleAfter,    \* AUXPOW_REASSEMBLE_AFTER
    RpcConcurrency,     \* DECODER_RPC_CONCURRENCY
    BatchLength,        \* bound: txids of a batch
    RpcFaultBound       \* bound: endpoints going up or down, and error answers

ASSUME RpcAssumption ==
    /\ {EndpointCount, FailoverThreshold, RpcTries, ReassembleAfter, RpcConcurrency,
        BatchLength} \subseteq Nat \ {0}
    /\ RpcFaultBound \in Nat

VARIABLES
    reachable,  \* the endpoints that answer
    active,     \* activeEndpointIndex
    failures,   \* connectionFailures
    call,       \* the calls
    batch,      \* the two callers of getRawTransactions
    fetch,      \* the block being fetched
    rpcFaults,
    here,       \* history: a call to the active endpoint has failed since it became active
    left        \* history: what the last rotation was decided on

rpcVars == <<reachable, active, failures, call, batch, fetch, rpcFaults, here, left>>

Endpoints == 0 .. EndpointCount - 1
Batchers == {"mempool", "reassembly"}

\* Bound: a caller's next slice waits for the calls a rejected batch left running.
RawCallsOf(b) == IF b = "mempool" THEN 1 .. RpcConcurrency ELSE RpcConcurrency + 1 .. 2 * RpcConcurrency
RawCalls == 1 .. 2 * RpcConcurrency
Calls == {0} \cup RawCalls
Indices == 1 .. BatchLength

NoCall == [pc |-> "idle", at |-> 0, tries |-> 0, owner |-> "none", index |-> 0]
Awaited == [tx |-> 0, hex |-> FALSE]
NoBatch == [pc |-> "idle", next |-> 1, got |-> [i \in Indices |-> Awaited]]

\* fetchNextBlock at one height: malformed says that the AuxPoW section of this block
\* cannot be traversed, txIndex that the nodes serve its confirmed transactions.
NewFetch(bad, index) == [step |-> "hash", parseErrors |-> 0, malformed |-> bad, txIndex |-> index]
Fetches == {NewFetch(FALSE, TRUE), NewFetch(TRUE, TRUE), NewFetch(TRUE, FALSE)}

RpcInit ==
    /\ reachable \in SUBSET Endpoints
    /\ active = 0 /\ failures = 0
    /\ call = [c \in Calls |-> NoCall]
    /\ batch = [b \in Batchers |-> NoBatch]
    /\ fetch \in Fetches
    /\ rpcFaults = 0
    /\ here = FALSE
    /\ left = [evidence |-> TRUE, stale |-> 0]

RpcFault == rpcFaults < RpcFaultBound /\ rpcFaults' = rpcFaults + 1

\* A node goes down, or comes back.
EndpointFlips ==
    /\ RpcFault
    /\ \E e \in Endpoints : reachable' = IF e \in reachable THEN reachable \ {e} ELSE reachable \cup {e}
    /\ UNCHANGED <<active, failures, call, batch, fetch, here, left>>

-----------------------------------------------------------------------------
(* rpcPost and the failover. *)

\* The URL is read when the request is sent; a retry reads it again.
RpcPost(c) ==
    /\ call[c].pc = "ready"
    /\ call' = [call EXCEPT ![c].pc = "flight", ![c].at = active]
    /\ UNCHANGED <<reachable, active, failures, batch, fetch, rpcFaults, here, left>>

\* Any answer, an error answer too, proves the endpoint reachable.
RpcReached == failures' = 0 /\ UNCHANGED <<active, here, left>>

InFlightTo(e) == {c \in Calls : call[c].pc = "flight" /\ call[c].at = e}

\* Mutant: there is no rotation.
NoteConnectionFailureNever(c) ==
    /\ failures' = IF call[c].pc = "flight" THEN 0 ELSE failures
    /\ UNCHANGED <<active, here, left>>

\* Mutant: one failure too few.
EnoughEarly(n) == n + 1 >= FailoverThreshold

Enough(n) == n >= FailoverThreshold

\* The failing call counts against whatever endpoint is active now.
NoteConnectionFailure(c) ==
    LET rotate == Enough(failures + 1)
        to     == (active + 1) % EndpointCount
        proof  == here \/ call[c].at = active
    IN  IF EndpointCount < 2
        THEN UNCHANGED <<active, failures, here, left>>
        ELSE /\ failures' = IF rotate THEN 0 ELSE failures + 1
             /\ active' = IF rotate THEN to ELSE active
             /\ here' = IF rotate THEN FALSE ELSE proof
             /\ left' = IF rotate
                        THEN [evidence |-> left.stale < FailoverThreshold => proof,
                              stale |-> Cardinality({d \in Calls \ {c} : call[d].pc = "flight" /\ call[d].at # to})]
                        ELSE left

-----------------------------------------------------------------------------
(* Calls of the block path: rpcCallWithTimeoutRetry under fetchNextBlock. *)

\* The error leaves the ladder untagged: the pass ends, and the next one starts over.
Throws(step) == step # "done" /\ fetch' = [fetch EXCEPT !.step = "hash"]

CallFor(step) == step \in {"hash", "header", "block", "pureHeader", "verbose"}

\* The next RPC of the pass.
StartBlockCall ==
    /\ CallFor(fetch.step) /\ call[0].pc = "idle"
    /\ call' = [call EXCEPT ![0] = [NoCall EXCEPT !.pc = "ready", !.owner = "block"]]
    /\ UNCHANGED <<reachable, active, failures, batch, fetch, rpcFaults, here, left>>

\* fetchBlockHex: which RPC follows which.
BlockAnswered(step) ==
    CASE step = "hash" -> IF fetch.parseErrors >= ReassembleAfter THEN "pureHeader" ELSE "header"
      [] step = "header" -> "block"
      [] step = "block" -> "strip"
      [] step = "pureHeader" -> "verbose"
      [] step = "verbose" -> "raw"

BlockCallAnswered ==
    /\ call[0].pc = "flight" /\ call[0].at \in reachable
    /\ RpcReached
    /\ call' = [call EXCEPT ![0] = NoCall]
    /\ fetch' = [fetch EXCEPT !.step = BlockAnswered(@)]
    /\ UNCHANGED <<reachable, batch, rpcFaults>>

\* An error answer, over HTTP 200 or 500, or a result of the wrong shape.
BlockCallRefused ==
    /\ call[0].pc = "flight" /\ call[0].at \in reachable
    /\ RpcFault /\ RpcReached
    /\ call' = [call EXCEPT ![0] = NoCall]
    /\ Throws(fetch.step)
    /\ UNCHANGED <<reachable, batch>>

\* A timeout is tried again; the tenth, and every other socket error, is thrown.
BlockCallLost ==
    /\ call[0].pc = "flight" /\ call[0].at \notin reachable
    /\ NoteConnectionFailure(0)
    /\ \/ /\ call[0].tries + 1 < RpcTries
          /\ call' = [call EXCEPT ![0].pc = "ready", ![0].at = 0, ![0].tries = @ + 1]
          /\ UNCHANGED fetch
       \/ /\ call' = [call EXCEPT ![0] = NoCall]
          /\ Throws(fetch.step)
    /\ UNCHANGED <<reachable, batch, rpcFaults>>

\* stripAuxPowFromBlockHex, which ends in assertWholeBlock. Only its failure is tagged.
StripAuxPow ==
    /\ fetch.step = "strip"
    /\ fetch' = IF fetch.malformed
                THEN [fetch EXCEPT !.step = "hash", !.parseErrors = IF @ < ReassembleAfter THEN @ + 1 ELSE @]
                ELSE [fetch EXCEPT !.step = "done"]
    /\ UNCHANGED <<reachable, active, failures, call, batch, rpcFaults, here, left>>

\* The block is stored, and the loop turns to the next height.
NextHeight ==
    /\ fetch.step = "done"
    /\ fetch' \in Fetches
    /\ UNCHANGED <<reachable, active, failures, call, batch, rpcFaults, here, left>>

-----------------------------------------------------------------------------
(* getRawTransactions: sub-batches of RpcConcurrency calls, each with the  *)
(* ladder of getRawTransaction.                                            *)

StartBatch(b) ==
    /\ batch[b].pc = "idle"
    /\ b = "reassembly" => fetch.step = "raw"
    /\ batch' = [batch EXCEPT ![b].pc = "run"]
    /\ UNCHANGED <<reachable, active, failures, call, fetch, rpcFaults, here, left>>

OwnCalls(b) == {c \in RawCalls : call[c].owner = b}
Least(n, m) == IF n < m THEN n ELSE m
Free(b) == {c \in RawCallsOf(b) : call[c].pc = "idle"}

\* The next slice, once every call of the last one has resolved.
StartSlice(b) ==
    LET size == Least(RpcConcurrency, BatchLength + 1 - batch[b].next)
    IN  /\ batch[b].pc = "run" /\ OwnCalls(b) = {}
        /\ batch[b].next <= BatchLength
        /\ size <= Cardinality(Free(b))
        /\ LET taken == CHOOSE s \in SUBSET Free(b) : Cardinality(s) = size
           IN  call' = [c \in Calls |->
                   IF c \in taken
                   THEN [NoCall EXCEPT !.pc = "ready", !.owner = b,
                            !.index = batch[b].next + Cardinality({d \in taken : d < c})]
                   ELSE call[c]]
        /\ batch' = [batch EXCEPT ![b].next = @ + size]
        /\ UNCHANGED <<reachable, active, failures, fetch, rpcFaults, here, left>>

\* Mutant: the answers are kept in the order they arrive.
ResolvedArriving(c, value) ==
    LET b == call[c].owner
        first == CHOOSE i \in Indices : batch[b].got[i] = Awaited
                    /\ \A j \in Indices : j < i => batch[b].got[j] # Awaited
    IN  IF b \in Batchers THEN [batch EXCEPT ![b].got[first] = [tx |-> call[c].index, hex |-> value]] ELSE batch

\* Promise.all answers in request order. Nobody waits for a call of a rejected batch.
Resolved(c, value) ==
    IF call[c].owner \in Batchers
    THEN [batch EXCEPT ![call[c].owner].got[call[c].index] = [tx |-> call[c].index, hex |-> value]]
    ELSE batch

\* The node serves the transaction, or says that it holds none (-5, or nothing): a
\* confirmed one when it keeps no index. What a mempool has lost is MempoolRefresh's.
RawAnswered(c) ==
    /\ call[c].pc = "flight" /\ call[c].at \in reachable
    /\ RpcReached
    /\ batch' = Resolved(c, call[c].owner = "reassembly" => fetch.txIndex)
    /\ call' = [call EXCEPT ![c] = NoCall]
    /\ UNCHANGED <<reachable, fetch, rpcFaults>>

\* A failed attempt is tried again; the tenth rejects the call, and with it the
\* whole batch, at once: the other calls go on without it.
RawFails(c) ==
    IF call[c].tries + 1 < RpcTries
    THEN /\ call' = [call EXCEPT ![c].pc = "ready", ![c].at = 0, ![c].tries = @ + 1]
         /\ UNCHANGED <<batch, fetch>>
    ELSE LET b == call[c].owner
         IN  /\ call' = [d \in Calls |->
                   IF d = c THEN NoCall
                   ELSE IF b \in Batchers /\ call[d].owner = b
                   THEN [call[d] EXCEPT !.owner = "orphan", !.index = 0] ELSE call[d]]
             /\ batch' = IF b \in Batchers THEN [batch EXCEPT ![b] = NoBatch] ELSE batch
             /\ IF b = "reassembly" THEN Throws("raw") ELSE UNCHANGED fetch

RawRefused(c) ==
    /\ call[c].pc = "flight" /\ call[c].at \in reachable
    /\ RpcFault /\ RpcReached
    /\ RawFails(c)
    /\ UNCHANGED <<reachable>>

RawLost(c) ==
    /\ call[c].pc = "flight" /\ call[c].at \notin reachable
    /\ NoteConnectionFailure(c)
    /\ RawFails(c)
    /\ UNCHANGED <<reachable, rpcFaults>>

\* No transaction of the block is missing.
Whole(b) == \A i \in Indices : batch[b].got[i].hex

\* The batch resolves. A reassembly with a transaction missing fails the pass.
BatchDone(b) ==
    /\ batch[b].pc = "run" /\ OwnCalls(b) = {}
    /\ batch[b].next > BatchLength
    /\ batch' = [batch EXCEPT ![b] = NoBatch]
    /\ fetch' = IF b = "mempool" THEN fetch
                ELSE [fetch EXCEPT !.step = IF Whole(b) THEN "done" ELSE "hash"]
    /\ UNCHANGED <<reachable, active, failures, call, rpcFaults, here, left>>

BlockPath == StartBlockCall \/ BlockCallAnswered \/ BlockCallLost \/ StripAuxPow \/ NextHeight
Batches(b) == StartBatch(b) \/ StartSlice(b) \/ BatchDone(b)

RpcNext ==
    \/ BlockPath \/ BlockCallRefused \/ EndpointFlips
    \/ \E c \in Calls : RpcPost(c)
    \/ \E c \in RawCalls : RawAnswered(c) \/ RawRefused(c) \/ RawLost(c)
    \/ \E b \in Batchers : Batches(b)

\* The event loop serves every timer and socket; each request is answered or times out.
RpcFairness ==
    /\ WF_rpcVars(BlockPath)
    /\ \A c \in Calls : WF_rpcVars(RpcPost(c))
    /\ \A c \in RawCalls : WF_rpcVars(RawAnswered(c) \/ RawLost(c))
    /\ \A b \in Batchers : WF_rpcVars(Batches(b))

RpcSpec == RpcInit /\ [][RpcNext]_rpcVars /\ RpcFairness

-----------------------------------------------------------------------------
(* Correctness. *)

RpcTypeOK ==
    /\ reachable \subseteq Endpoints
    /\ active \in Endpoints
    /\ failures \in 0 .. FailoverThreshold - 1
    /\ call \in [Calls -> [pc : {"idle", "ready", "flight"}, at : Endpoints, tries : 0 .. RpcTries - 1,
                           owner : Batchers \cup {"none", "block", "orphan"}, index : 0 .. BatchLength]]
    /\ batch \in [Batchers -> [pc : {"idle", "run"}, next : 1 .. BatchLength + 1,
                               got : [Indices -> [tx : 0 .. BatchLength, hex : BOOLEAN]]]]
    /\ fetch.step \in {"hash", "header", "block", "strip", "pureHeader", "verbose", "raw", "done"}
    /\ fetch.parseErrors \in 0 .. ReassembleAfter
    /\ rpcFaults \in 0 .. RpcFaultBound

\* The answers of a batch line up with its txids, whatever order the calls finish in
\* and whatever calls of an earlier, rejected batch are still running: the mempool
\* refresh and the reassembly name each transaction by its position.
BatchInOrder ==
    \A b \in Batchers : \A i \in Indices :
        batch[b].got[i].tx \in {0, i}

\* Only a block whose bytes cannot be stripped is ever rebuilt transaction by
\* transaction: no outage, however long, points that fan-out at the node (fetchBlockHex).
EscalatesOnContent == fetch.step \in {"pureHeader", "verbose", "raw"} => fetch.malformed

\* A rebuilt block is accepted only from nodes that served each of its transactions.
NoHoles == fetch.step = "done" => ~ fetch.malformed \/ fetch.txIndex

\* The connector leaves an endpoint on a failure of that endpoint, unless a whole
\* threshold of calls was in flight elsewhere when it came to it (noteConnectionFailure).
LeftOnEvidence == left.evidence

\* While some node answers, the block path goes on: its next block arrives, or the
\* block cannot be rebuilt because the node keeps no transaction index.
BlocksKeepComing ==
    \/ []<>(reachable = {})
    \/ []<>(fetch.step = "done")
    \/ <>[](fetch.malformed /\ ~ fetch.txIndex)

\* What the block path and the batches hand on is whole: answers by position, no block
\* with a hole, and a reassembly only for bytes that cannot be read (getRawTransactions,
\* fetchBlockHex).
BlocksWhole == RpcTypeOK /\ BatchInOrder /\ NoHoles /\ EscalatesOnContent
=============================================================================
