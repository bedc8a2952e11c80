--------------------------- MODULE ServiceProcess ---------------------------
(***************************************************************************)
(* The decoder as one Node process: the parse loop and the health routes   *)
(* that lease connections of one pool (db/connection_lifecycle.js,         *)
(* db/reorg_halt.js, api.js, api/probe_routes.js, api/health_probe.js),    *)
(* and the drain that a signal starts (shutdown.js).                       *)
(*                                                                         *)
(* An action runs from one await to the next. The content of a block is    *)
(* ParseLoop's and TxIngest's; here a transaction is begun, used, and      *)
(* committed or rolled back.                                               *)
(***************************************************************************)
EXTENDS Naturals, Sequences

CONSTANTS
    PoolSize,       \* connectionLimit
    RequestCount,   \* bound: the HTTP requests in flight at a time
    SvcFaultBound   \* bound: failed queries, refused connections, uncaught exceptions

ASSUME SvcAssumption == PoolSize \in Nat \ {0} /\ RequestCount \in Nat /\ SvcFaultBound \in Nat

VARIABLES
    free,       \* the connections in the pool
    waiters,    \* who waits for pool.getConnection(), oldest first
    txConn,     \* transactionConnection
    txLock,     \* _transactionLock
    loop,       \* the parse loop
    req,        \* the requests
    proc,       \* the process: signals, flags, drain, exit code
    svcFaults,
    misled      \* history: the routes that answered healthy after the drain began

leaseVars == <<free, waiters, txConn, txLock>>
svcVars == <<free, waiters, txConn, txLock, loop, req, proc, svcFaults, misled>>

Conns == 1 .. PoolSize
NoConn == 0
Requests == 1 .. RequestCount
TheLoop == 0
NoRequest == [pc |-> "none", route |-> "status", ran |-> FALSE, dbOk |-> FALSE, conn |-> NoConn, own |-> FALSE]

\* The JSON-RPC health method reads the flag where /status does, /ready where /live does.
Routes == {"live", "status"}

SvcInit ==
    /\ free = Conns /\ waiters = <<>> /\ txConn = NoConn /\ txLock = FALSE
    /\ loop = [pc |-> "top", job |-> "store"]
    /\ req = [r \in Requests |-> NoRequest]
    /\ proc = [signalled |-> FALSE, running |-> TRUE, stopFlag |-> FALSE, server |-> "open",
               pools |-> "open", exit |-> "none"]
    /\ svcFaults = 0
    /\ misled = {}

Alive == proc.exit = "none"
SvcFault == svcFaults < SvcFaultBound /\ svcFaults' = svcFaults + 1

-----------------------------------------------------------------------------
(* The parse loop's transactions. *)

\* The stop flag is read at the top of an iteration only, so never inside a transaction.
LoopBreaks ==
    /\ Alive /\ loop.pc = "top" /\ proc.stopFlag
    /\ loop' = [loop EXCEPT !.pc = "broke"]
    /\ proc' = [proc EXCEPT !.running = FALSE]
    /\ UNCHANGED <<leaseVars, req, svcFaults, misled>>

\* beginTransaction: the lock, then the pool. A block is stored, or one is deleted.
LoopAsks(job) ==
    /\ Alive /\ loop.pc = "top" /\ ~ proc.stopFlag /\ ~ txLock
    /\ txLock' = TRUE
    /\ waiters' = Append(waiters, TheLoop)
    /\ loop' = [pc |-> "asked", job |-> job]
    /\ UNCHANGED <<free, txConn, req, proc, svcFaults, misled>>

\* releaseTransactionConnectionQuietly, and the lock.
ReleaseTx ==
    /\ free' = IF txConn = NoConn THEN free ELSE free \cup {txConn}
    /\ txConn' = NoConn /\ txLock' = FALSE

\* A failed begin rejects start() under a store, which ends the process; the retries
\* of verifyReorg meet it under a delete.
BeginThrows ==
    /\ loop' = [pc |-> IF loop.job = "store" THEN "dead" ELSE "top", job |-> "store"]
    /\ proc' = IF loop.job = "store" THEN [proc EXCEPT !.running = FALSE, !.exit = "failure"] ELSE proc

BeginFails ==
    /\ Alive /\ loop.pc = "begin" /\ SvcFault
    /\ ReleaseTx
    /\ BeginThrows
    /\ UNCHANGED <<waiters, req, misled>>

LoopBegins ==
    /\ Alive /\ loop.pc = "begin"
    /\ loop' = [loop EXCEPT !.pc = "work"]
    /\ UNCHANGED <<leaseVars, req, proc, svcFaults, misled>>

LoopWrites ==
    /\ Alive /\ loop.pc = "work"
    /\ loop' = [loop EXCEPT !.pc = "commit"]
    /\ UNCHANGED <<leaseVars, req, proc, svcFaults, misled>>

LoopCommits ==
    /\ Alive /\ loop.pc = "commit"
    /\ ReleaseTx
    /\ loop' = [pc |-> "top", job |-> "store"]
    /\ UNCHANGED <<waiters, req, proc, svcFaults, misled>>

\* endTransaction after a failed write or a failed commit; the pass starts over.
LoopRollsBack ==
    /\ Alive /\ loop.pc \in {"work", "commit"} /\ SvcFault
    /\ ReleaseTx
    /\ loop' = [pc |-> "top", job |-> "store"]
    /\ UNCHANGED <<waiters, req, proc, misled>>

LoopStep == LoopBreaks \/ LoopBegins \/ LoopWrites \/ LoopCommits \/ \E j \in {"store", "delete"} : LoopAsks(j)

-----------------------------------------------------------------------------
(* Health requests. *)

\* Mutant: a probe asks the handle, which lends it the loop's connection, and releases it.
PingLent == txConn # NoConn

PingLends == FALSE

\* /live reads the running flag first of all; then ping() leases a connection of its own.
Arrives(r, route) ==
    /\ Alive /\ proc.server = "open" /\ req[r].pc = "none"
    /\ req' = [req EXCEPT ![r] =
          [NoRequest EXCEPT !.route = route, !.ran = proc.running,
               !.pc = IF PingLends THEN "ping" ELSE "askPing",
               !.conn = IF PingLends THEN txConn ELSE NoConn]]
    /\ waiters' = IF PingLends THEN waiters ELSE Append(waiters, r)
    /\ UNCHANGED <<free, txConn, txLock, loop, proc, svcFaults, misled>>

\* The pool serves its oldest waiter, whose code goes on at once. readReorgHaltState
\* decides only now whether the lease is its own to release. Connections are alike, so
\* it does not matter which one is taken.
Granted ==
    /\ Alive /\ waiters # <<>> /\ free # {}
    /\ LET w == Head(waiters)
           c == CHOOSE d \in free : \A e \in free : d <= e IN
        /\ free' = free \ {c}
        /\ waiters' = Tail(waiters)
        /\ IF w = TheLoop
           THEN /\ txConn' = c
                /\ loop' = [loop EXCEPT !.pc = "begin"]
                /\ UNCHANGED req
           ELSE /\ req' = [req EXCEPT ![w].conn = c,
                              ![w].pc = IF @ = "askPing" THEN "ping" ELSE "read",
                              ![w].own = txConn = NoConn]
                /\ UNCHANGED <<txConn, loop>>
    /\ UNCHANGED <<txLock, proc, svcFaults, misled>>

\* The pool gives up on its oldest waiter: at once for a ping, after the retries of
\* getConnection for the others.
Refused ==
    /\ Alive /\ waiters # <<>> /\ SvcFault
    /\ LET w == Head(waiters) IN
        /\ waiters' = Tail(waiters)
        /\ IF w = TheLoop
           THEN ReleaseTx /\ BeginThrows /\ UNCHANGED req
           ELSE /\ req' = [req EXCEPT ![w].pc = IF @ = "askPing" THEN "cached" ELSE "answer"]
                /\ UNCHANGED <<free, txConn, txLock, loop, proc>>
    /\ UNCHANGED misled

\* ping() releases what it leased, whether SELECT 1 answered or not.
Pinged(r) ==
    /\ Alive /\ req[r].pc = "ping"
    /\ free' = free \cup {req[r].conn}
    /\ \/ /\ req' = [req EXCEPT ![r].pc = "marker", ![r].dbOk = TRUE, ![r].conn = NoConn, ![r].own = FALSE]
          /\ UNCHANGED svcFaults
       \/ /\ SvcFault
          /\ req' = [req EXCEPT ![r].pc = "cached", ![r].conn = NoConn, ![r].own = FALSE]
    /\ UNCHANGED <<waiters, txConn, txLock, loop, proc, misled>>

ProbeInFlight == \E r \in Requests : req[r].pc \in {"askMarker", "read"}

\* checkReorgHalt: the cached state within its interval, the probe already in flight,
\* or a read, which borrows the loop's connection when a transaction is open.
ReadsMarker(r) ==
    /\ Alive /\ req[r].pc = "marker"
    /\ \/ /\ ~ ProbeInFlight /\ txConn # NoConn
          /\ req' = [req EXCEPT ![r].pc = "read"]
          /\ UNCHANGED waiters
       \/ /\ ~ ProbeInFlight /\ txConn = NoConn
          /\ req' = [req EXCEPT ![r].pc = "askMarker"]
          /\ waiters' = Append(waiters, r)
       \/ /\ req' = [req EXCEPT ![r].pc = "cached"]
          /\ UNCHANGED waiters
    /\ UNCHANGED <<free, txConn, txLock, loop, proc, svcFaults, misled>>

\* The marker is read, or its read fails: the answer is the same to the caller.
MarkerRead(r) ==
    /\ Alive /\ req[r].pc = "read"
    /\ free' = IF req[r].own THEN free \cup {req[r].conn} ELSE free
    /\ req' = [req EXCEPT ![r].pc = "answer", ![r].conn = NoConn, ![r].own = FALSE]
    /\ UNCHANGED <<waiters, txConn, txLock, loop, proc, svcFaults, misled>>

SeenRunning(r) == IF req[r].route = "live" THEN req[r].ran ELSE proc.running

Answers(r) ==
    /\ Alive /\ req[r].pc \in {"cached", "answer"}
    /\ misled' = IF SeenRunning(r) /\ req[r].dbOk /\ ~ proc.running THEN misled \cup {req[r].route} ELSE misled
    /\ req' = [req EXCEPT ![r] = NoRequest]
    /\ UNCHANGED <<leaseVars, loop, proc, svcFaults>>

-----------------------------------------------------------------------------
(* Shutdown. *)

\* SIGTERM or SIGINT; the second one finds signalled set and is ignored.
Shutdown ==
    /\ Alive /\ ~ proc.signalled
    /\ proc' = [proc EXCEPT !.signalled = TRUE, !.running = FALSE, !.stopFlag = TRUE, !.server = "closing"]
    /\ UNCHANGED <<leaseVars, loop, req, svcFaults, misled>>

CloseServer ==
    /\ Alive /\ proc.server = "closing"
    /\ \A r \in Requests : req[r].pc = "none"
    /\ proc' = [proc EXCEPT !.server = "closed"]
    /\ UNCHANGED <<leaseVars, loop, req, svcFaults, misled>>

\* Mutant: the drain waits for the server alone.
LoopSettledAnyway == proc.stopFlag

LoopSettled == loop.pc = "broke"

\* A pool that refuses to close does not stop the drain.
CloseDatabases ==
    /\ Alive /\ proc.server = "closed" /\ LoopSettled /\ proc.pools = "open"
    /\ proc' = [proc EXCEPT !.pools = "closed"]
    /\ UNCHANGED <<leaseVars, loop, req, svcFaults, misled>>

DrainComplete ==
    /\ Alive /\ proc.pools = "closed"
    /\ proc' = [proc EXCEPT !.exit = "clean"]
    /\ UNCHANGED <<leaseVars, loop, req, svcFaults, misled>>

\* SHUTDOWN_TIMEOUT_MS is over.
HardExit ==
    /\ Alive /\ proc.signalled
    /\ proc' = [proc EXCEPT !.exit = "failure"]
    /\ UNCHANGED <<leaseVars, loop, req, svcFaults, misled>>

UncaughtException ==
    /\ Alive /\ SvcFault
    /\ proc' = [proc EXCEPT !.exit = "failure"]
    /\ UNCHANGED <<leaseVars, loop, req, misled>>

\* The supervisor may start the next process, whose boot is ParseLoop's.
Exited == ~ Alive /\ UNCHANGED svcVars

SvcNext ==
    \/ LoopStep \/ BeginFails \/ LoopRollsBack \/ Granted \/ Refused
    \/ \E r \in Requests, t \in Routes : Arrives(r, t)
    \/ \E r \in Requests : Pinged(r) \/ ReadsMarker(r) \/ MarkerRead(r) \/ Answers(r)
    \/ Shutdown \/ CloseServer \/ CloseDatabases \/ DrainComplete \/ HardExit \/ UncaughtException \/ Exited

\* Timers fire. Nothing is assumed of what the loop and the requests wait for.
SvcFairness == WF_svcVars(HardExit)

SvcSpec == SvcInit /\ [][SvcNext]_svcVars /\ SvcFairness

-----------------------------------------------------------------------------
(* Correctness. *)

\* The state has its shape: the pool holds connections only, whoever releases them.
SvcTypeOK ==
    /\ free \subseteq Conns /\ txConn \in Conns \cup {NoConn} /\ txLock \in BOOLEAN
    /\ loop.pc \in {"top", "asked", "begin", "work", "commit", "broke", "dead"} /\ loop.job \in {"store", "delete"}
    /\ req \in [Requests -> [pc : {"none", "askPing", "ping", "marker", "askMarker", "read", "cached", "answer"},
                             route : Routes, ran : BOOLEAN, dbOk : BOOLEAN, conn : Conns \cup {NoConn}, own : BOOLEAN]]
    /\ proc.server \in {"open", "closing", "closed"} /\ proc.exit \in {"none", "clean", "failure"}
    /\ svcFaults \in 0 .. SvcFaultBound /\ misled \subseteq Routes

\* While the loop has a transaction open, no one else can be given its connection, nor
\* give it back: a probe that releases it would let the pool lend a half-written block.
TxConnHeld ==
    /\ txConn # NoConn => txConn \notin free /\ \A r \in Requests : req[r].conn # txConn
    /\ \A r, s \in Requests : r # s /\ req[r].conn = req[s].conn => req[r].conn = NoConn
    /\ \A r \in Requests : req[r].conn \notin free

\* The lock is free whenever the loop is between transactions, whatever failed before:
\* the next beginTransaction never waits for a lock nobody will release.
LockFollowsTx == loop.pc = "top" => ~ txLock /\ txConn = NoConn

\* Exit code 0 means a drain that finished: the loop broke between blocks, no
\* transaction is open, every request was answered and the pools are closed.
CleanExitMeansDrained ==
    proc.exit = "clean" =>
        /\ loop.pc = "broke" /\ txConn = NoConn /\ proc.pools = "closed"
        /\ \A r \in Requests : req[r].pc = "none"

\* /status and the health method never answer healthy once the drain has begun, even to
\* a request that arrived before the signal.
StatusTellsDrain == "status" \notin misled

\* A signal ends the process, whatever the loop and the requests are waiting for.
SignalExits == proc.signalled ~> ~ Alive

\* When the loop is between transactions and no request is being served, every
\* connection is back in the pool (the lease snapshot of readReorgHaltState).
LeasesReturn == loop.pc = "top" /\ (\A r \in Requests : req[r].pc = "none") => free = Conns

\* The loop's transaction under everyone else who leases from its pool: the connection
\* is its own, and the lock is free when it is between transactions.
LeaseSafe == SvcTypeOK /\ TxConnHeld /\ LockFollowsTx

\* The drain a signal starts: code 0 tells of a finished one, the status route never
\* denies it, and the process ends whatever it is waiting for (createShutdown).
DrainSound == [](CleanExitMeansDrained /\ StatusTellsDrain) /\ SignalExits
=============================================================================
