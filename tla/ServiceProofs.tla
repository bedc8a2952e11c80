--------------------------- MODULE ServiceProofs ----------------------------
(***************************************************************************)
(* What holds of the services around the parse loop for every pool size,   *)
(* number of requests, threshold and buffer: the leases of the connection  *)
(* pool and the drain (ServiceProcess), the cache of the pending rows      *)
(* (MempoolFeed), the verdict of /live (HealthVerdict), the pending rows   *)
(* (MempoolRefresh) and the stream of log lines (LogShipper).              *)
(***************************************************************************)
EXTENDS ServiceProcess, HealthVerdict, MempoolFeed, MempoolRefresh, LogShipper,
        FiniteSetTheorems, NaturalsInduction, WellFoundedInduction, SequenceTheorems, TLAPS

-----------------------------------------------------------------------------
(* The pending rows' cache. *)

Ages == 0 .. Old

FeedTypeOK ==
    /\ handles \in BOOLEAN
    /\ cache \in [known : BOOLEAN, read : BOOLEAN, age : Ages]
    /\ {failedAge, readAge, startAge, openAge} \subseteq Ages
    /\ refresh \in [pc : {"none", "rows", "count"}, age : Ages, read : Ages, callers : Nat]

\* The rows in the cache are no older than its stamp, nor those of the read in flight
\* than the moment it began; and a cache never read was stamped before the handles opened.
RowsNoOlder ==
    /\ cache.known => IF cache.read THEN readAge <= cache.age ELSE openAge <= cache.age
    /\ refresh.read <= refresh.age
    /\ ~handles => openAge = 0

\* The last read began when its stamp says, or before it failed.
StartRemembered ==
    /\ refresh.pc # "none" => startAge = refresh.age
    /\ refresh.pc = "none" => failedAge <= startAge \/ (cache.known /\ cache.age <= startAge)

FeedInv == FeedTypeOK /\ RowsNoOlder /\ StartRemembered

\* Ages stay within their cap and keep their order when a tick passes.
LEMMA AgedMonotone ==
    \A a, b \in Ages : Aged(a) \in Ages /\ (a <= b => Aged(a) <= Aged(b))
BY FeedAssumption DEF Ages, Aged, Old

\* The invariant of the cache holds before any request.
LEMMA FeedInitially == FeedInit => FeedInv
<1> SUFFICES ASSUME FeedInit PROVE FeedInv
  OBVIOUS
<1>1. 0 \in Ages /\ Old \in Ages
  BY FeedAssumption DEF Ages, Old
<1>2. FeedTypeOK
  BY <1>1 DEF FeedInit, FeedTypeOK, NoRefresh
<1>3. RowsNoOlder /\ StartRemembered
  BY <1>1 DEF FeedInit, RowsNoOlder, StartRemembered, NoRefresh, Ages
<1> QED BY <1>2, <1>3 DEF FeedInv

\* Every request, every outcome of a read and every tick keeps the invariant.
LEMMA FeedInductive == FeedInv /\ [FeedNext]_feedVars => FeedInv'
<1> SUFFICES ASSUME FeedInv, [FeedNext]_feedVars PROVE FeedInv'
  OBVIOUS
<1> USE DEF FeedInv
<1>ages. 0 \in Ages /\ Old \in Ages /\ \A a \in Ages : a \in Nat /\ a <= Old
  BY FeedAssumption DEF Ages, Old
<1>0. CASE OpensHandles
  BY <1>0 DEF OpensHandles, FeedTypeOK, RowsNoOlder, StartRemembered
<1>1. CASE AnsweredAtOnce
  BY <1>1 DEF AnsweredAtOnce, FeedTypeOK, RowsNoOlder, StartRemembered
<1>u. CASE AnsweredUnread
  BY <1>u, <1>ages DEF AnsweredUnread, FeedTypeOK, RowsNoOlder, StartRemembered
<1>2. CASE AwaitsRead
  <2>1. CASE refresh.pc = "none"
    <3>1. /\ refresh' = [pc |-> "rows", age |-> 0, read |-> 0, callers |-> 1] /\ startAge' = 0
          /\ UNCHANGED <<handles, cache, failedAge, readAge, openAge>>
      BY <1>2, <2>1 DEF AwaitsRead, NoRefresh
    <3>2. FeedTypeOK'
      BY <3>1, <1>ages DEF FeedTypeOK
    <3>3. QED
      BY <3>1, <3>2 DEF RowsNoOlder, StartRemembered
  <2>2. CASE refresh.pc # "none"
    BY <1>2, <2>2 DEF AwaitsRead, JoinsRead, FeedTypeOK, RowsNoOlder, StartRemembered
  <2>3. QED BY <2>1, <2>2
<1>3. CASE RowsRead
  <2>1. /\ refresh.pc = "rows" /\ refresh' = [refresh EXCEPT !.pc = "count", !.read = 0]
        /\ UNCHANGED <<handles, cache, failedAge, readAge, startAge, openAge>>
    BY <1>3 DEF RowsRead
  <2>2. FeedTypeOK'
    BY <2>1, <1>ages DEF FeedTypeOK
  <2>3. refresh'.pc = "count" /\ refresh'.age = refresh.age /\ refresh'.read = 0 /\ refresh.age \in Nat
    BY <2>1, <1>ages DEF FeedTypeOK
  <2>4. QED
    BY <2>1, <2>2, <2>3 DEF RowsNoOlder, StartRemembered
<1>4. CASE CountRead
  BY <1>4, <1>ages DEF CountRead, StampAtStart, NoRefresh, FeedTypeOK, RowsNoOlder, StartRemembered
<1>5. CASE ReadFails
  BY <1>5, <1>ages DEF ReadFails, NoRefresh, FeedTypeOK, RowsNoOlder, StartRemembered
<1>6. CASE ClockTicks
  <2>1. /\ cache' = [cache EXCEPT !.age = Aged(cache.age)]
        /\ failedAge' = Aged(failedAge) /\ readAge' = Aged(readAge) /\ startAge' = Aged(startAge)
        /\ openAge' = IF handles THEN Aged(openAge) ELSE openAge
        /\ handles' = handles
    BY <1>6 DEF ClockTicks
  <2>2. /\ cache.age \in Ages /\ refresh.age \in Ages /\ refresh.read \in Ages
        /\ {failedAge, readAge, startAge, openAge} \subseteq Ages
        /\ cache \in [known : BOOLEAN, read : BOOLEAN, age : Ages] /\ handles \in BOOLEAN
    BY DEF FeedTypeOK
  <2>3. /\ cache'.age = Aged(cache.age) /\ cache'.known = cache.known /\ cache'.read = cache.read
        /\ cache' \in [known : BOOLEAN, read : BOOLEAN, age : Ages]
        /\ {failedAge', readAge', startAge', openAge'} \subseteq Ages
    BY <2>1, <2>2, AgedMonotone
  <2>4. /\ refresh'.pc = refresh.pc
        /\ refresh'.age = IF refresh.pc = "none" THEN refresh.age ELSE Aged(refresh.age)
        /\ refresh'.read = IF refresh.pc = "none" THEN refresh.read ELSE Aged(refresh.read)
        /\ refresh' \in [pc : {"none", "rows", "count"}, age : Ages, read : Ages, callers : Nat]
    <3>1. CASE refresh.pc = "none"
      BY <1>6, <3>1 DEF ClockTicks, FeedTypeOK
    <3>2. CASE refresh.pc # "none"
      BY <1>6, <2>2, <3>2, AgedMonotone DEF ClockTicks, FeedTypeOK
    <3>3. QED BY <3>1, <3>2
  <2>5. FeedTypeOK'
    BY <2>1, <2>2, <2>3, <2>4 DEF FeedTypeOK
  <2>6. RowsNoOlder'
    <3>1. cache.known /\ cache.read => readAge' <= cache'.age
      BY <2>1, <2>2, <2>3, AgedMonotone DEF RowsNoOlder
    <3>2. cache.known /\ ~cache.read => openAge' <= cache'.age
      <4>1. cache.known /\ ~cache.read => openAge <= cache.age /\ Aged(openAge) <= Aged(cache.age)
        BY <2>2, AgedMonotone DEF RowsNoOlder
      <4>2. ~handles => openAge' = 0 /\ 0 <= Aged(cache.age)
        BY <2>1, <2>2, <1>ages, AgedMonotone DEF RowsNoOlder
      <4> QED BY <2>1, <2>3, <4>1, <4>2
    <3>3. refresh'.read <= refresh'.age
      BY <2>2, <2>4, AgedMonotone DEF RowsNoOlder
    <3>4. ~handles' => openAge' = 0
      BY <2>1 DEF RowsNoOlder
    <3> QED BY <2>3, <3>1, <3>2, <3>3, <3>4 DEF RowsNoOlder
  <2>7. StartRemembered'
    <3>1. refresh.pc # "none" => startAge' = refresh'.age
      BY <2>1, <2>4 DEF StartRemembered
    <3>2. refresh.pc = "none" => failedAge' <= startAge' \/ (cache'.known /\ cache'.age <= startAge')
      BY <2>1, <2>2, <2>3, AgedMonotone DEF StartRemembered
    <3> QED BY <2>4, <3>1, <3>2 DEF StartRemembered
  <2> QED BY <2>5, <2>6, <2>7
<1>7. CASE UNCHANGED feedVars
  BY <1>7 DEF feedVars, FeedTypeOK, RowsNoOlder, StartRemembered
<1> QED BY <1>0, <1>1, <1>u, <1>2, <1>3, <1>4, <1>5, <1>6, <1>7 DEF FeedNext

\* What getmempool serves as fresh was read within the time-to-live, or is the empty
\* snapshot of a boot whose handles were not open a time-to-live ago; and two reads of the
\* database never begin closer together than the backoff (api/mempool_methods.js).
THEOREM FeedIsSound == FeedSpec => FeedSound
<1>1. FeedInv => (Fresh => IF cache.read THEN readAge < CacheTtl ELSE openAge < CacheTtl)
  BY FeedAssumption DEF FeedInv, FeedTypeOK, RowsNoOlder, Fresh, Ages, Old
<1>2. FeedInv /\ [FeedNext]_feedVars
        => [refresh.pc = "none" /\ refresh'.pc = "rows" => startAge >= CacheBackoff]_feedVars
  <2> SUFFICES ASSUME FeedInv, FeedNext, refresh.pc = "none", refresh'.pc = "rows"
               PROVE  startAge >= CacheBackoff
    BY DEF feedVars
  <2>1. AwaitsRead
    BY DEF FeedNext, OpensHandles, AnsweredAtOnce, AnsweredUnread, RowsRead, CountRead,
        ReadFails, ClockTicks
  <2>2. QED
    BY <2>1, FeedAssumption DEF AwaitsRead, Fresh, BackingOff, FeedInv, FeedTypeOK, StartRemembered, Ages, Old
<1>3. QED
  BY <1>1, <1>2, FeedInitially, FeedInductive, PTL DEF FeedSpec, FeedSound, ReadsAreSpaced

-----------------------------------------------------------------------------
(* The verdict of /live. *)

\* While the node is down every fetch error of the outage is one of the passes since the
\* last tick, or the tip is due and no pass reaches its fetch.
OutageInv ==
    /\ outage \in 0 .. RoundsPerTick
    /\ node = "up" => outage = 0
    /\ node = "down" => outage <= rounds \/ RefreshDue

\* A loop that goes round polled within the last tick.
PollInv ==
    iterating => age["poll"] <= 1 /\ (rounds > 0 => age["poll"] = 0)

HlthInv == HlthTypeOK /\ OutageInv /\ PollInv

\* The clocks count up to caps that are positive numbers.
LEMMA TopPositive == (\A c \in Clocks : Top(c) \in Nat \ {0}) /\ "tip" \in Clocks /\ "poll" \in Clocks
BY HlthAssumption DEF Clocks, Top, StaleAfter, SilentAfter

\* A pass resets some clocks, always the one of the poll, and leaves the others.
LEMMA PassAges ==
    ASSUME HlthTypeOK, NEW cs
    PROVE  /\ \A c \in Clocks : Pass(cs)[c] \in 0 .. Top(c)
           /\ Pass(cs)["poll"] = 0
           /\ "tip" \notin cs => Pass(cs)["tip"] = age["tip"]
BY TopPositive DEF HlthTypeOK, Pass

\* The tip of a pass is no further ahead than the node.
LEMMA PassTip == HlthTypeOK => TipOfPass \in [polled : BOOLEAN, info : BOOLEAN, ahead : 0 .. above]
BY DEF HlthTypeOK, TipOfPass

\* Without an answer of the node the tip stays as it is.
LEMMA TipWhenDown == node = "down" => Refreshed = {} /\ TipOfPass = tip
BY DEF Refreshed, TipOfPass

\* The invariant holds at boot.
LEMMA HlthInitially == HlthInit => HlthInv
<1> SUFFICES ASSUME HlthInit PROVE HlthInv
  OBVIOUS
<1>1. \A c \in Clocks : age[c] \in 0 .. Top(c)
  BY HlthAssumption DEF HlthInit, Clocks, Top, StaleAfter, SilentAfter
<1>2. HlthTypeOK
  BY <1>1, HlthAssumption DEF HlthInit, HlthTypeOK, NoTip
<1>3. OutageInv /\ PollInv
  BY HlthAssumption DEF HlthInit, OutageInv, PollInv, Clocks
<1> QED BY <1>2, <1>3 DEF HlthInv

\* A pass of the loop keeps the invariant.
LEMMA RoundKeeps == HlthInv /\ Round => HlthInv'
<1> SUFFICES ASSUME HlthInv, Round PROVE HlthInv'
  OBVIOUS
<1> USE DEF HlthInv
<1>round. rounds \in 0 .. RoundsPerTick /\ rounds' \in 1 .. RoundsPerTick /\ rounds' = rounds + 1 /\ iterating /\ iterating' = iterating
  BY HlthAssumption DEF Round, RoundIdles, RoundAtTip, RoundFetchFails, RoundClimbs, RoundStores, Fetching, NextPass, HlthTypeOK
<1>poll. (\A c \in Clocks : age'[c] \in 0 .. Top(c)) /\ age'["poll"] = 0
  BY PassAges DEF Round, RoundIdles, RoundAtTip, RoundFetchFails, RoundClimbs, RoundStores
<1>same. UNCHANGED <<hold, node>>
  BY DEF Round, RoundIdles, RoundAtTip, RoundFetchFails, RoundClimbs, RoundStores, Fetching
<1>down. node = "down" => UNCHANGED tip /\ age'["tip"] = age["tip"] /\ (RefreshDue => RefreshDue')
  <2> SUFFICES ASSUME node = "down" PROVE UNCHANGED tip /\ age'["tip"] = age["tip"] /\ (RefreshDue => RefreshDue')
    OBVIOUS
  <2>1. Refreshed = {} /\ TipOfPass = tip
    BY TipWhenDown
  <2>2. UNCHANGED tip
    BY <2>1 DEF Round, RoundIdles, RoundAtTip, RoundFetchFails, RoundClimbs, RoundStores
  <2>3. age' = Pass({})
    BY <2>1 DEF Round, RoundIdles, RoundAtTip, RoundFetchFails, RoundClimbs, RoundStores
  <2>4. age'["tip"] = age["tip"]
    BY <2>3, PassAges
  <2>5. QED
    BY <2>2, <2>4 DEF RefreshDue
<1>poll2. PollInv'
  BY <1>poll, <1>round DEF PollInv
<1>1. CASE RoundIdles \/ RoundAtTip
  <2>1. HlthTypeOK'
    BY <1>1, <1>round, <1>poll, <1>same, PassTip DEF RoundIdles, RoundAtTip, HlthTypeOK
  <2>2. outage' = outage
    BY <1>1 DEF RoundIdles, RoundAtTip
  <2>3. OutageInv'
    BY <2>2, <1>round, <1>same, <1>down DEF OutageInv
  <2> QED BY <2>1, <2>3, <1>poll2
<1>2. CASE RoundFetchFails
  <2>1. fetchErrors' \in 0 .. FetchAttempts
    BY <1>2, HlthAssumption DEF RoundFetchFails, Saturating, HlthTypeOK
  <2>2. HlthTypeOK'
    BY <1>2, <2>1, <1>round, <1>poll, <1>same, PassTip DEF RoundFetchFails, HlthTypeOK
  <2>3. ASSUME node = "up" PROVE OutageInv'
    BY <2>3, <1>2, <1>same DEF RoundFetchFails, OutageInv
  <2>4. ASSUME node = "down" PROVE OutageInv'
    <3>1. ~ RefreshDue
      BY <1>2, <2>4 DEF RoundFetchFails, Fetching, EndsOnFailedRefresh
    <3>2. outage <= rounds
      BY <3>1, <2>4 DEF OutageInv
    <3>3. outage' = outage + 1
      BY <3>2, <2>4, <1>2, <1>round, HlthAssumption DEF RoundFetchFails, Saturating, OutageInv
    <3> QED BY <3>2, <3>3, <2>4, <1>same, <1>round, HlthAssumption DEF OutageInv
  <2> QED BY <2>2, <2>3, <2>4, <1>poll2 DEF HlthTypeOK
<1>3. CASE RoundClimbs
  <2>1. HlthTypeOK'
    BY <1>3, <1>round, <1>poll, <1>same, PassTip, HlthAssumption DEF RoundClimbs, HlthTypeOK
  <2>2. OutageInv'
    BY <1>3, <1>same DEF RoundClimbs, OutageInv
  <2> QED BY <2>1, <2>2, <1>poll2
<1>4. CASE RoundStores
  <2>1. TipOfPass.ahead \in 1 .. above /\ above \in 0 .. 2
    BY <1>4, PassTip DEF RoundStores, Fetching, HlthTypeOK
  <2>2. above' \in 0 .. 2 /\ tip' \in [polled : BOOLEAN, info : BOOLEAN, ahead : 0 .. above']
    BY <1>4, <2>1, PassTip DEF RoundStores
  <2>3. HlthTypeOK'
    <3>1. fetchErrors' = 0 /\ ladder' = 0 /\ nextBlock' \in Blocks
      BY <1>4 DEF RoundStores
    <3>2. 0 \in 0 .. FetchAttempts /\ 0 \in 0 .. LadderSteps /\ rounds' \in 0 .. RoundsPerTick
      BY <1>round, HlthAssumption
    <3> QED BY <3>1, <3>2, <2>2, <1>round, <1>poll, <1>same DEF HlthTypeOK
  <2>4. OutageInv'
    BY <1>4, <1>same DEF RoundStores, OutageInv
  <2> QED BY <2>3, <2>4, <1>poll2
<1> QED BY <1>1, <1>2, <1>3, <1>4 DEF Round

\* So do time, the node, the operator and the supervisor.
LEMMA HlthInductive == HlthInv /\ [HlthNext]_hlthVars => HlthInv'
<1> SUFFICES ASSUME HlthInv, [HlthNext]_hlthVars PROVE HlthInv'
  OBVIOUS
<1> USE DEF HlthInv
<1>1. CASE Round
  BY <1>1, RoundKeeps
<1>2. CASE Tick
  <2>1. \A c \in Clocks : age'[c] = Saturating(age[c], Top(c)) /\ age'[c] \in 0 .. Top(c)
    BY <1>2, TopPositive DEF Tick, Saturating, HlthTypeOK
  <2>2. HlthTypeOK'
    BY <1>2, <2>1, HlthAssumption DEF Tick, HlthTypeOK
  <2>3. age'["tip"] \in Nat /\ age'["tip"] >= 1
    <3>1. Top("tip") = 3
      BY DEF Top, StaleAfter
    <3> QED BY <3>1, <2>1, TopPositive DEF Saturating, HlthTypeOK
  <2>4. RefreshDue'
    BY <2>3 DEF RefreshDue
  <2>5. OutageInv'
    BY <2>4, <1>2 DEF Tick, OutageInv
  <2>6. PollInv'
    <3>1. rounds' = 0 /\ iterating' = iterating /\ (iterating => rounds > 0)
      BY <1>2 DEF Tick
    <3>2. age["poll"] = 0 => age'["poll"] = 1
      BY <2>1, TopPositive DEF Saturating
    <3> QED BY <3>1, <3>2 DEF PollInv
  <2> QED BY <2>2, <2>5, <2>6
<1>3. CASE BlockArrives
  BY <1>3 DEF BlockArrives, HlthTypeOK, OutageInv, PollInv, RefreshDue
<1>4. CASE NodeGoesDown
  BY <1>4 DEF NodeGoesDown, HlthTypeOK, OutageInv, PollInv, RefreshDue
<1>5. CASE NodeComesBack
  BY <1>5, HlthAssumption DEF NodeComesBack, HlthTypeOK, OutageInv, PollInv, RefreshDue
<1>6. CASE Hangs
  BY <1>6 DEF Hangs, HlthTypeOK, OutageInv, PollInv, RefreshDue
<1>7. CASE Holds
  BY <1>7 DEF Holds, HlthTypeOK, OutageInv, PollInv, RefreshDue
<1>8. CASE Resumes
  <2>1. tip' \in [polled : BOOLEAN, info : BOOLEAN, ahead : 0 .. above] /\ (RefreshDue => RefreshDue')
    BY <1>8 DEF Resumes, HlthTypeOK, RefreshDue
  <2> QED BY <1>8, <2>1 DEF Resumes, HlthTypeOK, OutageInv, PollInv
<1>9. CASE Restarts
  <2>1. \A c \in Clocks : age'[c] \in 0 .. Top(c)
    BY <1>9, HlthAssumption DEF Restarts, Clocks, Top, StaleAfter, SilentAfter
  <2>2. HlthTypeOK'
    BY <1>9, <2>1, HlthAssumption DEF Restarts, HlthTypeOK, NoTip
  <2>3. RefreshDue'
    BY <1>9 DEF Restarts, NoTip, RefreshDue
  <2>4. OutageInv'
    BY <1>9, <2>3 DEF Restarts, OutageInv
  <2>5. PollInv'
    BY <1>9, TopPositive DEF Restarts, PollInv
  <2> QED BY <2>2, <2>4, <2>5
<1>10. CASE UNCHANGED hlthVars
  BY <1>10 DEF hlthVars, HlthTypeOK, OutageInv, PollInv, RefreshDue
<1> QED BY <1>1, <1>2, <1>3, <1>4, <1>5, <1>6, <1>7, <1>8, <1>9, <1>10 DEF HlthNext

\* Whatever the thresholds, an outage of the node never counts up to a wedge, and a loop
\* that goes round is answered 503 only when it is behind a tip it knows: the safety half
\* of the verdict (isStalled, isPollSilent).
THEOREM VerdictSafe == HlthSpec => [](HlthTypeOK /\ OutageIsNotAWedge /\ FlapFree)
<1>1. HlthInv => HlthTypeOK /\ OutageIsNotAWedge /\ FlapFree
  <2> SUFFICES ASSUME HlthInv PROVE HlthTypeOK /\ OutageIsNotAWedge /\ FlapFree
    OBVIOUS
  <2>1. OutageIsNotAWedge
    BY HlthAssumption DEF HlthInv, OutageInv, OutageIsNotAWedge
  <2>2. iterating => ~ IsPollSilent
    BY HlthAssumption, TopPositive DEF HlthInv, HlthTypeOK, PollInv, IsPollSilent, SilentAfter
  <2>3. FlapFree
    BY <2>2, TopPositive DEF FlapFree, Unhealthy, IsStalled, IsNodeHeightStale, HlthInv, HlthTypeOK, StaleAfter
  <2> QED BY <2>1, <2>3 DEF HlthInv
<1>2. QED
  BY <1>1, HlthInitially, HlthInductive, PTL DEF HlthSpec
-----------------------------------------------------------------------------
(* The leases and the drain. *)

LoopStages == {"top", "asked", "begin", "work", "commit", "broke", "dead"}
AskStages == {"askPing", "askMarker"}

\* The records of the loop and of the process.
SvcShape ==
    /\ loop \in [pc : LoopStages, job : {"store", "delete"}]
    /\ proc \in [signalled : BOOLEAN, running : BOOLEAN, stopFlag : BOOLEAN,
                 server : {"open", "closing", "closed"}, pools : {"open", "closed"},
                 exit : {"none", "clean", "failure"}]

\* The pool's queue names each asker once, and only askers: the loop after it took the
\* lock, a request that asked for a ping or for a marker.
QueueInv ==
    /\ waiters \in Seq({TheLoop} \cup Requests)
    /\ \A i, j \in 1 .. Len(waiters) : waiters[i] = waiters[j] => i = j
    /\ \A i \in 1 .. Len(waiters) :
          IF waiters[i] = TheLoop THEN loop.pc = "asked" ELSE req[waiters[i]].pc \in AskStages

\* The loop has no connection before the pool serves it, and none nor the lock between
\* two transactions.
TxInv ==
    /\ loop.pc \in {"top", "asked", "broke", "dead"} => txConn = NoConn
    /\ loop.pc \in {"top", "broke", "dead"} => ~ txLock

\* A request holds a connection while it pings or reads, and owns none it does not hold.
HoldInv ==
    \A r \in Requests :
        /\ req[r].conn # NoConn => req[r].pc \in {"ping", "read"}
        /\ req[r].pc = "ping" => req[r].conn # NoConn
        /\ req[r].own => req[r].conn # NoConn

\* What the stages of the drain wait for stays as it was found.
DrainInv ==
    /\ proc.server # "open" => proc.signalled
    /\ proc.server = "closed" => \A r \in Requests : req[r].pc = "none"
    /\ proc.pools = "closed" => proc.server = "closed" /\ loop.pc = "broke"
    /\ proc.exit = "clean" => proc.pools = "closed"

LeaseInv == SvcTypeOK /\ SvcShape /\ TxConnHeld /\ QueueInv /\ TxInv /\ HoldInv
SvcInv == LeaseInv /\ DrainInv /\ StatusTellsDrain

\* The numbers of connections and requests are positive.
LEMMA SvcNumbers ==
    /\ NoConn \notin Conns /\ TheLoop \notin Requests
    /\ Conns \subseteq Nat /\ Requests \subseteq Nat /\ 0 \in 0 .. SvcFaultBound
BY SvcAssumption DEF Conns, Requests, NoConn, TheLoop

\* The pool takes a connection that is in it.
LEMMA LeastFree ==
    ASSUME NEW F \in SUBSET Conns, F # {}
    PROVE  (CHOOSE d \in F : \A e \in F : d <= e) \in F
<1>1. F \subseteq Nat
  BY SvcNumbers
<1>2. PICK d \in F : \A e \in F : ~(<<e, d>> \in OpToRel(<, Nat))
  BY <1>1, NatLessThanWellFounded, WFMin
<1>3. \A e \in F : ~(e < d)
  BY <1>1, <1>2 DEF OpToRel
<1>4. \A e \in F : d <= e
  BY <1>1, <1>3
<1> QED BY <1>4

\* One who joins the queue is behind the others.
LEMMA Queued ==
    ASSUME QueueInv, NEW w \in {TheLoop} \cup Requests, \A i \in 1 .. Len(waiters) : waiters[i] # w,
           waiters' = Append(waiters, w)
    PROVE  /\ waiters' \in Seq({TheLoop} \cup Requests)
           /\ \A i, j \in 1 .. Len(waiters') : waiters'[i] = waiters'[j] => i = j
           /\ \A i \in 1 .. Len(waiters') : waiters'[i] = w \/ \E j \in 1 .. Len(waiters) : waiters'[i] = waiters[j]
<1>1. waiters \in Seq({TheLoop} \cup Requests)
  BY DEF QueueInv
<1>2. /\ waiters' \in Seq({TheLoop} \cup Requests) /\ Len(waiters') = Len(waiters) + 1 /\ Len(waiters) \in Nat
      /\ waiters'[Len(waiters) + 1] = w /\ \A i \in 1 .. Len(waiters) : waiters'[i] = waiters[i]
  BY <1>1
<1>3. \A i \in 1 .. Len(waiters') : i = Len(waiters) + 1 \/ i \in 1 .. Len(waiters)
  BY <1>2
<1> QED BY <1>2, <1>3 DEF QueueInv

\* Those behind the oldest move up, and none of them is the oldest.
LEMMA Dequeued ==
    ASSUME QueueInv, waiters # <<>>, waiters' = Tail(waiters)
    PROVE  /\ Head(waiters) \in {TheLoop} \cup Requests /\ 1 \in 1 .. Len(waiters) /\ Head(waiters) = waiters[1]
           /\ waiters' \in Seq({TheLoop} \cup Requests)
           /\ \A i, j \in 1 .. Len(waiters') : waiters'[i] = waiters'[j] => i = j
           /\ \A i \in 1 .. Len(waiters') : /\ waiters'[i] # Head(waiters)
                                          /\ \E j \in 1 .. Len(waiters) : waiters'[i] = waiters[j]
<1>1. waiters \in Seq({TheLoop} \cup Requests)
  BY DEF QueueInv
<1>2. /\ waiters' \in Seq({TheLoop} \cup Requests) /\ Len(waiters') = Len(waiters) - 1 /\ Len(waiters) \in Nat \ {0}
      /\ Head(waiters) = waiters[1] /\ \A i \in 1 .. Len(waiters') : waiters'[i] = waiters[i + 1]
  BY <1>1
<1>3. \A i \in 1 .. Len(waiters') : i + 1 \in 1 .. Len(waiters) /\ i + 1 # 1 /\ 1 \in 1 .. Len(waiters)
  BY <1>2
<1>4. \A i, j \in 1 .. Len(waiters') : i + 1 = j + 1 => i = j
  BY <1>2
<1>5. waiters[1] \in {TheLoop} \cup Requests
  BY <1>1, <1>2
<1>6. \A i, j \in 1 .. Len(waiters') : waiters'[i] = waiters'[j] => i = j
  <2> SUFFICES ASSUME NEW i \in 1 .. Len(waiters'), NEW j \in 1 .. Len(waiters'), waiters'[i] = waiters'[j]
               PROVE  i = j
    OBVIOUS
  <2>1. waiters[i + 1] = waiters[j + 1]
    BY <1>2
  <2>2. i + 1 = j + 1
    BY <2>1, <1>3 DEF QueueInv
  <2> QED BY <2>2, <1>4
<1>7. \A i \in 1 .. Len(waiters') : waiters[i + 1] # waiters[1]
  BY <1>3 DEF QueueInv
<1>8. 1 \in 1 .. Len(waiters)
  BY <1>2
<1> QED BY <1>2, <1>3, <1>5, <1>6, <1>7, <1>8
\* A free lock, full pool and empty queue to begin with.
LEMMA SvcInitially == SvcInit => SvcInv
<1> SUFFICES ASSUME SvcInit PROVE SvcInv
  OBVIOUS
<1> USE SvcNumbers DEF SvcInit, NoRequest
<1>1. SvcTypeOK
  BY DEF SvcTypeOK, Routes
<1>2. SvcShape /\ TxInv /\ DrainInv /\ StatusTellsDrain
  BY DEF SvcShape, LoopStages, TxInv, DrainInv, StatusTellsDrain
<1>3. TxConnHeld /\ HoldInv
  BY DEF TxConnHeld, HoldInv
<1>4. QueueInv
  BY DEF QueueInv
<1> QED BY <1>1, <1>2, <1>3, <1>4 DEF SvcInv, LeaseInv

\* What the parts of the invariant read of a step that leaves the leases alone.
LEMMA LoopMoves ==
    ASSUME LeaseInv, UNCHANGED <<leaseVars, req>>, loop.pc # "asked",
           loop' \in [pc : LoopStages \ {"asked"}, job : {"store", "delete"}],
           loop'.pc \in {"top", "broke", "dead"} => loop.pc \in {"top", "broke", "dead"}
    PROVE  TxConnHeld' /\ QueueInv' /\ TxInv' /\ HoldInv'
<1>1. TxConnHeld'
  BY DEF LeaseInv, TxConnHeld, leaseVars
<1>2. QueueInv'
  BY DEF LeaseInv, QueueInv, leaseVars
<1>3. TxInv'
  BY DEF LeaseInv, TxInv, leaseVars, LoopStages
<1>4. HoldInv'
  BY DEF LeaseInv, HoldInv
<1> QED BY <1>1, <1>2, <1>3, <1>4

\* The connection of a finished transaction goes back whole, and the lock with it.
LEMMA Released ==
    ASSUME LeaseInv, ReleaseTx, UNCHANGED req
    PROVE  TxConnHeld' /\ HoldInv' /\ free' \subseteq Conns /\ txConn' \in Conns \cup {NoConn} /\ txLock' \in BOOLEAN
<1>1. free' \subseteq Conns /\ txConn' = NoConn /\ txLock' = FALSE
  BY DEF LeaseInv, SvcTypeOK, ReleaseTx
<1>2. \A r \in Requests : req[r].conn \notin free'
  BY DEF LeaseInv, TxConnHeld, ReleaseTx
<1>3. TxConnHeld'
  BY <1>1, <1>2 DEF LeaseInv, TxConnHeld
<1>4. HoldInv'
  BY DEF LeaseInv, HoldInv
<1> QED BY <1>1, <1>3, <1>4

\* The steps of the parse loop keep the leases in order.
LEMMA LoopKeepsLeases == LeaseInv /\ (LoopStep \/ BeginFails \/ LoopRollsBack) => LeaseInv'
<1> SUFFICES ASSUME LeaseInv, LoopStep \/ BeginFails \/ LoopRollsBack PROVE LeaseInv'
  OBVIOUS
<1>a. SvcTypeOK /\ SvcShape /\ TxConnHeld /\ QueueInv /\ TxInv /\ HoldInv
  BY DEF LeaseInv
<1>f. svcFaults' \in 0 .. SvcFaultBound /\ misled' = misled /\ req' = req
  BY <1>a, SvcAssumption DEF LoopStep, LoopBreaks, LoopBegins, LoopWrites, LoopCommits, LoopAsks, BeginFails, LoopRollsBack,
        SvcFault, SvcTypeOK
<1>p. SvcShape'
  <2>1. ASSUME LoopBreaks PROVE SvcShape'
    BY <2>1, <1>a DEF LoopBreaks, SvcShape, LoopStages
  <2>2. ASSUME LoopBegins \/ LoopWrites PROVE SvcShape'
    BY <2>2, <1>a DEF LoopBegins, LoopWrites, SvcShape, LoopStages
  <2>3. ASSUME LoopCommits \/ LoopRollsBack PROVE SvcShape'
    BY <2>3, <1>a DEF LoopCommits, LoopRollsBack, SvcShape, LoopStages
  <2>4. ASSUME NEW j \in {"store", "delete"}, LoopAsks(j) PROVE SvcShape'
    BY <2>4, <1>a DEF LoopAsks, SvcShape, LoopStages
  <2>5. ASSUME BeginFails PROVE SvcShape'
    BY <2>5, <1>a DEF BeginFails, BeginThrows, SvcShape, LoopStages
  <2> QED BY <2>1, <2>2, <2>3, <2>4, <2>5 DEF LoopStep
<1>1. CASE LoopBreaks \/ LoopBegins \/ LoopWrites
  <2>1. UNCHANGED <<leaseVars, req>>
    BY <1>1 DEF LoopBreaks, LoopBegins, LoopWrites
  <2>2. loop.pc # "asked" /\ loop'.pc \in {"broke", "work", "commit"} /\ (loop'.pc = "broke" => loop.pc = "top")
    BY <1>1, <1>a DEF LoopBreaks, LoopBegins, LoopWrites, SvcShape
  <2>3. loop' \in [pc : LoopStages \ {"asked"}, job : {"store", "delete"}]
    BY <2>2, <1>p DEF SvcShape, LoopStages
  <2>4. TxConnHeld' /\ QueueInv' /\ TxInv' /\ HoldInv'
    BY <2>1, <2>2, <2>3, LoopMoves
  <2>5. SvcTypeOK'
    BY <2>1, <1>a, <1>f, <1>p DEF SvcTypeOK, SvcShape, LoopStages, leaseVars
  <2> QED BY <2>4, <2>5, <1>p DEF LeaseInv
<1>2. ASSUME NEW j \in {"store", "delete"}, LoopAsks(j) PROVE LeaseInv'
  <2>1. /\ loop.pc = "top" /\ txLock' = TRUE /\ waiters' = Append(waiters, TheLoop)
        /\ loop'.pc = "asked" /\ UNCHANGED <<free, txConn, req>>
    BY <1>2 DEF LoopAsks
  <2>2. \A i \in 1 .. Len(waiters) : waiters[i] # TheLoop
    BY <2>1, <1>a DEF QueueInv
  <2>3. QueueInv'
    BY <2>1, <2>2, <1>a, Queued DEF QueueInv
  <2>4. TxConnHeld' /\ HoldInv'
    BY <2>1, <1>a DEF TxConnHeld, HoldInv
  <2>5. TxInv'
    BY <2>1, <1>a DEF TxInv
  <2>6. SvcTypeOK'
    BY <2>1, <1>a, <1>f, <1>p DEF SvcTypeOK, SvcShape, LoopStages
  <2> QED BY <2>3, <2>4, <2>5, <2>6, <1>p DEF LeaseInv
<1>3. CASE LoopCommits \/ BeginFails \/ LoopRollsBack
  <2>1. ReleaseTx /\ UNCHANGED <<waiters, req>> /\ loop.pc # "asked" /\ loop'.pc \in {"top", "dead"}
    BY <1>3 DEF LoopCommits, BeginFails, LoopRollsBack, BeginThrows
  <2>2. TxConnHeld' /\ HoldInv' /\ free' \subseteq Conns /\ txConn' \in Conns \cup {NoConn} /\ txLock' \in BOOLEAN
    BY <2>1, Released
  <2>3. QueueInv'
    BY <2>1, <1>a DEF QueueInv
  <2>4. TxInv'
    BY <2>1 DEF ReleaseTx, TxInv
  <2>5. SvcTypeOK'
    BY <2>2, <1>a, <1>f, <1>p DEF SvcTypeOK, SvcShape, LoopStages
  <2> QED BY <2>2, <2>3, <2>4, <2>5, <1>p DEF LeaseInv
<1> QED BY <1>1, <1>2, <1>3 DEF LoopStep

\* Serving the oldest asker takes a connection that nobody holds.
LEMMA GrantKeepsLeases == LeaseInv /\ Granted => LeaseInv'
<1> SUFFICES ASSUME LeaseInv, Granted PROVE LeaseInv'
  OBVIOUS
<1>a. SvcTypeOK /\ SvcShape /\ TxConnHeld /\ QueueInv /\ TxInv /\ HoldInv
  BY DEF LeaseInv
<1> DEFINE w == Head(waiters)
           c == CHOOSE d \in free : \A e \in free : d <= e
<1>0. free \in SUBSET Conns /\ free # {} /\ waiters # <<>> /\ waiters' = Tail(waiters)
  BY <1>a DEF Granted, SvcTypeOK
<1>1. c \in free /\ c \in Conns /\ c # NoConn
  <2>1. c \in free
    BY <1>0, LeastFree
  <2> QED BY <2>1, <1>0, SvcNumbers
<1>2. /\ w \in {TheLoop} \cup Requests /\ 1 \in 1 .. Len(waiters) /\ w = waiters[1]
      /\ waiters' \in Seq({TheLoop} \cup Requests)
      /\ \A i, j \in 1 .. Len(waiters') : waiters'[i] = waiters'[j] => i = j
      /\ \A i \in 1 .. Len(waiters') : waiters'[i] # w /\ \E j \in 1 .. Len(waiters) : waiters'[i] = waiters[j]
  BY <1>a, Dequeued DEF Granted
<1>3. /\ free' = free \ {c} /\ UNCHANGED <<txLock, proc, svcFaults, misled>>
      /\ w = TheLoop => txConn' = c /\ loop' = [loop EXCEPT !.pc = "begin"] /\ req' = req
      /\ w # TheLoop => /\ req' = [req EXCEPT ![w].conn = c, ![w].pc = IF @ = "askPing" THEN "ping" ELSE "read",
                                          ![w].own = (txConn = NoConn)]
                        /\ UNCHANGED <<txConn, loop>>
  BY DEF Granted
<1> HIDE DEF w, c
<1>4. CASE w = TheLoop
  <2>1. txConn' = c /\ loop' = [loop EXCEPT !.pc = "begin"] /\ req' = req
    BY <1>3, <1>4
  <2>2. SvcShape'
    BY <2>1, <1>3, <1>a DEF SvcShape, LoopStages
  <2>3. SvcTypeOK'
    BY <2>1, <2>2, <1>1, <1>3, <1>a DEF SvcTypeOK, SvcShape, LoopStages
  <2>4. TxConnHeld'
    BY <2>1, <1>1, <1>3, <1>a DEF TxConnHeld
  <2>5. QueueInv'
    BY <2>1, <1>2, <1>4, <1>a DEF QueueInv
  <2>6. TxInv' /\ HoldInv'
    BY <2>1, <1>a DEF TxInv, HoldInv, SvcShape
  <2> QED BY <2>2, <2>3, <2>4, <2>5, <2>6 DEF LeaseInv
<1>5. CASE w \in Requests
  <2>1. w # TheLoop
    BY <1>5, SvcNumbers
  <2>2. PICK p \in {"ping", "read"}, o \in BOOLEAN :
           /\ req' = [req EXCEPT ![w] = [req[w] EXCEPT !.conn = c, !.pc = p, !.own = o]]
           /\ UNCHANGED <<txConn, loop>>
    <3>1. req' = [req EXCEPT ![w] = [req[w] EXCEPT !.conn = c, !.pc = IF req[w].pc = "askPing" THEN "ping" ELSE "read",
                                        !.own = (txConn = NoConn)]]
      BY <1>3, <2>1, <1>5, <1>a DEF SvcTypeOK
    <3>2. (txConn = NoConn) \in BOOLEAN
      OBVIOUS
    <3> QED BY <3>1, <3>2, <1>3, <2>1
  <2>3. /\ req'[w].conn = c /\ req'[w].pc = p /\ req'[w].own = o /\ req'[w].route = req[w].route
        /\ \A r \in Requests : r # w => req'[r] = req[r]
        /\ req' \in [Requests -> [pc : {"none", "askPing", "ping", "marker", "askMarker", "read", "cached", "answer"},
                             route : Routes, ran : BOOLEAN, dbOk : BOOLEAN, conn : Conns \cup {NoConn}, own : BOOLEAN]]
    BY <2>2, <1>5, <1>1, <1>a DEF SvcTypeOK
  <2>4. SvcShape'
    BY <2>2, <1>3, <1>a DEF SvcShape
  <2>5. SvcTypeOK'
    BY <2>2, <2>3, <1>3, <1>a DEF SvcTypeOK
  <2>6. TxConnHeld'
    BY <2>2, <2>3, <1>1, <1>3, <1>a DEF TxConnHeld
  <2>7. QueueInv'
    <3>1. \A i \in 1 .. Len(waiters') :
             IF waiters'[i] = TheLoop THEN loop'.pc = "asked" ELSE req'[waiters'[i]].pc \in AskStages
      <4> SUFFICES ASSUME NEW i \in 1 .. Len(waiters')
                   PROVE  IF waiters'[i] = TheLoop THEN loop'.pc = "asked" ELSE req'[waiters'[i]].pc \in AskStages
        OBVIOUS
      <4>1. PICK j \in 1 .. Len(waiters) : waiters'[i] = waiters[j]
        BY <1>2
      <4>2. waiters[j] # w /\ waiters[j] \in {TheLoop} \cup Requests
        BY <4>1, <1>2, <1>a DEF QueueInv
      <4> QED BY <4>1, <4>2, <2>2, <2>3, <1>a DEF QueueInv
    <3> QED BY <3>1, <1>2 DEF QueueInv
  <2>8. TxInv'
    BY <2>2, <1>3, <1>a DEF TxInv
  <2>9. HoldInv'
    BY <2>2, <2>3, <1>1, <1>a DEF HoldInv
  <2> QED BY <2>4, <2>5, <2>6, <2>7, <2>8, <2>9 DEF LeaseInv
<1> QED BY <1>2, <1>4, <1>5

\* A refused asker holds nothing, and the loop gives its lock back.
LEMMA RefusalKeepsLeases == LeaseInv /\ Refused => LeaseInv'
<1> SUFFICES ASSUME LeaseInv, Refused PROVE LeaseInv'
  OBVIOUS
<1>a. SvcTypeOK /\ SvcShape /\ TxConnHeld /\ QueueInv /\ TxInv /\ HoldInv
  BY DEF LeaseInv
<1> DEFINE w == Head(waiters)
<1>2. /\ w \in {TheLoop} \cup Requests /\ 1 \in 1 .. Len(waiters) /\ w = waiters[1]
      /\ waiters' \in Seq({TheLoop} \cup Requests)
      /\ \A i, j \in 1 .. Len(waiters') : waiters'[i] = waiters'[j] => i = j
      /\ \A i \in 1 .. Len(waiters') : waiters'[i] # w /\ \E j \in 1 .. Len(waiters) : waiters'[i] = waiters[j]
  BY <1>a, Dequeued DEF Refused
<1>3. svcFaults' \in 0 .. SvcFaultBound /\ misled' = misled
  BY <1>a, SvcAssumption DEF Refused, SvcFault, SvcTypeOK
<1>4. CASE w = TheLoop
  <2>1. ReleaseTx /\ BeginThrows /\ req' = req
    BY <1>4 DEF Refused
  <2>2. SvcShape' /\ loop'.pc \in {"top", "dead"}
    BY <2>1, <1>a DEF BeginThrows, SvcShape, LoopStages
  <2>3. TxConnHeld' /\ HoldInv' /\ free' \subseteq Conns /\ txConn' \in Conns \cup {NoConn} /\ txLock' \in BOOLEAN
    BY <2>1, Released
  <2>4. SvcTypeOK'
    BY <2>1, <2>2, <2>3, <1>3, <1>a DEF SvcTypeOK, SvcShape, LoopStages
  <2>5. QueueInv'
    BY <2>1, <1>2, <1>4, <1>a DEF QueueInv
  <2>6. TxInv'
    BY <2>1 DEF ReleaseTx, TxInv
  <2> QED BY <2>2, <2>3, <2>4, <2>5, <2>6 DEF LeaseInv
<1>5. CASE w \in Requests
  <2>1. w # TheLoop
    BY <1>5, SvcNumbers
  <2>2. PICK p \in {"cached", "answer"} : req' = [req EXCEPT ![w] = [req[w] EXCEPT !.pc = p]]
    <3>1. req' = [req EXCEPT ![w].pc = IF @ = "askPing" THEN "cached" ELSE "answer"]
      BY <2>1 DEF Refused
    <3>2. req' = [req EXCEPT ![w] = [req[w] EXCEPT !.pc = IF req[w].pc = "askPing" THEN "cached" ELSE "answer"]]
      BY <3>1, <1>5, <1>a DEF SvcTypeOK
    <3> QED BY <3>2
  <2>2b. UNCHANGED <<free, txConn, txLock, loop, proc>>
    BY <2>1 DEF Refused
  <2>3. /\ req'[w].conn = req[w].conn /\ req'[w].pc = p /\ req'[w].own = req[w].own
        /\ \A r \in Requests : r # w => req'[r] = req[r]
        /\ req' \in [Requests -> [pc : {"none", "askPing", "ping", "marker", "askMarker", "read", "cached", "answer"},
                             route : Routes, ran : BOOLEAN, dbOk : BOOLEAN, conn : Conns \cup {NoConn}, own : BOOLEAN]]
    BY <2>2, <1>5, <1>a DEF SvcTypeOK
  <2>4. SvcShape'
    BY <2>2b, <1>a DEF SvcShape
  <2>5. SvcTypeOK'
    BY <2>2b, <2>3, <1>3, <1>a DEF SvcTypeOK
  <2>6. TxConnHeld'
    <3>1. \A r \in Requests : req'[r].conn = req[r].conn
      BY <2>3
    <3> QED BY <3>1, <2>2b, <1>a DEF TxConnHeld
  <2>7. QueueInv'
    <3>1. \A i \in 1 .. Len(waiters') :
             IF waiters'[i] = TheLoop THEN loop'.pc = "asked" ELSE req'[waiters'[i]].pc \in AskStages
      <4> SUFFICES ASSUME NEW i \in 1 .. Len(waiters')
                   PROVE  IF waiters'[i] = TheLoop THEN loop'.pc = "asked" ELSE req'[waiters'[i]].pc \in AskStages
        OBVIOUS
      <4>1. PICK j \in 1 .. Len(waiters) : waiters'[i] = waiters[j]
        BY <1>2
      <4>2. waiters[j] # w /\ waiters[j] \in {TheLoop} \cup Requests
        BY <4>1, <1>2, <1>a DEF QueueInv
      <4> QED BY <4>1, <4>2, <2>2b, <2>3, <1>a DEF QueueInv
    <3> QED BY <3>1, <1>2 DEF QueueInv
  <2>8. TxInv'
    BY <2>2b, <1>a DEF TxInv
  <2>9. HoldInv'
    <3>1. req[w].pc \in AskStages
      BY <1>2, <2>1, <1>a DEF QueueInv
    <3>2. req[w].conn = NoConn
      BY <3>1, <1>5, <1>a DEF HoldInv, AskStages
    <3> QED BY <3>2, <2>3, <1>a DEF HoldInv
  <2> QED BY <2>4, <2>5, <2>6, <2>7, <2>8, <2>9 DEF LeaseInv
<1> QED BY <1>2, <1>4, <1>5
ReqStages == {"none", "askPing", "ping", "marker", "askMarker", "read", "cached", "answer"}
ReqRows == [pc : ReqStages, route : Routes, ran : BOOLEAN, dbOk : BOOLEAN, conn : Conns \cup {NoConn}, own : BOOLEAN]

\* A request that is not asking is in no queue, and a change of it moves nobody who is.
LEMMA RequestMoves ==
    ASSUME LeaseInv, NEW r \in Requests, NEW row \in ReqRows, req' = [req EXCEPT ![r] = row],
           UNCHANGED <<txConn, txLock, loop, proc>>, svcFaults' \in 0 .. SvcFaultBound, misled' \subseteq Routes,
           req[r].pc \notin AskStages,
           waiters' = waiters \/ (waiters' = Append(waiters, r) /\ row.pc \in AskStages),
           row.conn # NoConn => row.pc \in {"ping", "read"},
           row.pc = "ping" => row.conn # NoConn,
           row.own => row.conn # NoConn,
           row.conn \in {NoConn, req[r].conn},
           free' = free \/ (free' = free \cup {req[r].conn} /\ req[r].conn # NoConn /\ row.conn = NoConn)
    PROVE  LeaseInv'
<1>a. SvcTypeOK /\ SvcShape /\ TxConnHeld /\ QueueInv /\ TxInv /\ HoldInv
  BY DEF LeaseInv
<1>b. req \in [Requests -> ReqRows]
  BY <1>a DEF SvcTypeOK, ReqRows, ReqStages
<1>1. req' \in [Requests -> ReqRows] /\ req'[r] = row /\ \A s \in Requests : s # r => req'[s] = req[s]
  BY <1>b
<1>2. free' \subseteq Conns
  BY <1>a, <1>b DEF SvcTypeOK, ReqRows
<1>3. SvcTypeOK'
  BY <1>1, <1>2, <1>a DEF SvcTypeOK, ReqRows, ReqStages
<1>4. SvcShape' /\ TxInv'
  BY <1>a DEF SvcShape, TxInv
<1>5. TxConnHeld'
  <2>1. txConn # NoConn => txConn \notin free'
    BY <1>a DEF TxConnHeld
  <2>2. \A s \in Requests : req'[s].conn \in {NoConn, req[s].conn}
    BY <1>1
  <2>3. txConn # NoConn => \A s \in Requests : req'[s].conn # txConn
    BY <2>2, <1>a DEF TxConnHeld
  <2>4. \A s, t \in Requests : s # t /\ req'[s].conn = req'[t].conn => req'[s].conn = NoConn
    BY <2>2, <1>a DEF TxConnHeld
  <2>5. NoConn \notin free'
    BY <1>2, SvcNumbers
  <2>6. \A s \in Requests : req'[s].conn \notin free'
    BY <2>2, <2>5, <1>1, <1>a DEF TxConnHeld
  <2> QED BY <2>1, <2>3, <2>4, <2>6 DEF TxConnHeld
<1>6. HoldInv'
  BY <1>1, <1>a DEF HoldInv
<1>7. r # TheLoop /\ \A i \in 1 .. Len(waiters) : waiters[i] # r
  BY <1>a, SvcNumbers DEF QueueInv
<1>8. \A i \in 1 .. Len(waiters) : waiters[i] # TheLoop => req'[waiters[i]] = req[waiters[i]]
  BY <1>1, <1>7, <1>a DEF QueueInv
<1>9. CASE waiters' = waiters
  <2>1. QueueInv'
    BY <1>8, <1>9, <1>a DEF QueueInv
  <2> QED BY <2>1, <1>3, <1>4, <1>5, <1>6 DEF LeaseInv
<1>10. CASE waiters' = Append(waiters, r) /\ row.pc \in AskStages
  <2>1. /\ waiters' \in Seq({TheLoop} \cup Requests)
        /\ \A i, j \in 1 .. Len(waiters') : waiters'[i] = waiters'[j] => i = j
        /\ \A i \in 1 .. Len(waiters') : waiters'[i] = r \/ \E j \in 1 .. Len(waiters) : waiters'[i] = waiters[j]
    BY <1>7, <1>10, <1>a, Queued
  <2>2. QueueInv'
    BY <2>1, <1>1, <1>7, <1>8, <1>10, <1>a DEF QueueInv
  <2> QED BY <2>2, <1>3, <1>4, <1>5, <1>6 DEF LeaseInv
<1> QED BY <1>9, <1>10

\* The steps of a request keep the leases in order.
LEMMA RequestKeepsLeases ==
    ASSUME LeaseInv, NEW r \in Requests,
           (\E t \in Routes : Arrives(r, t)) \/ Pinged(r) \/ ReadsMarker(r) \/ MarkerRead(r) \/ Answers(r)
    PROVE  LeaseInv'
<1>a. SvcTypeOK /\ SvcShape /\ TxConnHeld /\ QueueInv /\ TxInv /\ HoldInv
  BY DEF LeaseInv
<1>b. req \in [Requests -> ReqRows] /\ req[r] \in ReqRows
  BY <1>a DEF SvcTypeOK, ReqRows, ReqStages
<1>c. svcFaults \in 0 .. SvcFaultBound /\ misled \subseteq Routes
  BY <1>a DEF SvcTypeOK
<1>1. ASSUME NEW t \in Routes, Arrives(r, t) PROVE LeaseInv'
  <2> DEFINE row == [NoRequest EXCEPT !.route = t, !.ran = proc.running, !.pc = "askPing", !.conn = NoConn]
  <2>1. /\ req[r].pc = "none" /\ waiters' = Append(waiters, r)
        /\ UNCHANGED <<free, txConn, txLock, loop, proc, svcFaults, misled>>
    BY <1>1 DEF Arrives, PingLends
  <2>2. req' = [req EXCEPT ![r] = row]
    BY <1>1 DEF Arrives, PingLends
  <2>3. row \in ReqRows /\ row.pc \in AskStages /\ row.conn = NoConn /\ row.own = FALSE /\ row.pc # "ping"
    BY <1>a DEF NoRequest, ReqRows, ReqStages, SvcShape, AskStages
  <2> HIDE DEF row
  <2>4. req[r].pc \notin AskStages
    BY <2>1 DEF AskStages
  <2> QED BY <2>1, <2>2, <2>3, <2>4, <1>c, RequestMoves
<1>2. CASE Pinged(r)
  <2>1. /\ req[r].pc = "ping" /\ free' = free \cup {req[r].conn} /\ UNCHANGED <<waiters, txConn, txLock, loop, proc, misled>>
        /\ svcFaults' \in 0 .. SvcFaultBound
    BY <1>2, <1>c, SvcAssumption DEF Pinged, SvcFault
  <2>2. PICK p \in {"marker", "cached"}, d \in BOOLEAN :
           req' = [req EXCEPT ![r] = [req[r] EXCEPT !.pc = p, !.dbOk = d, !.conn = NoConn, !.own = FALSE]]
    <3>1. CASE req' = [req EXCEPT ![r].pc = "marker", ![r].dbOk = TRUE, ![r].conn = NoConn, ![r].own = FALSE]
      <4>1. req' = [req EXCEPT ![r] = [req[r] EXCEPT !.pc = "marker", !.dbOk = TRUE, !.conn = NoConn, !.own = FALSE]]
        BY <3>1, <1>b
      <4> QED BY <4>1
    <3>2. CASE req' = [req EXCEPT ![r].pc = "cached", ![r].conn = NoConn, ![r].own = FALSE]
      <4>1. req' = [req EXCEPT ![r] = [req[r] EXCEPT !.pc = "cached", !.dbOk = req[r].dbOk, !.conn = NoConn, !.own = FALSE]]
        BY <3>2, <1>b DEF ReqRows
      <4>2. req[r].dbOk \in BOOLEAN
        BY <1>b DEF ReqRows
      <4> QED BY <4>1, <4>2
    <3> QED BY <3>1, <3>2, <1>2 DEF Pinged
  <2> DEFINE row == [req[r] EXCEPT !.pc = p, !.dbOk = d, !.conn = NoConn, !.own = FALSE]
  <2>3. row \in ReqRows /\ row.conn = NoConn /\ row.own = FALSE /\ row.pc # "ping"
    BY <1>b DEF ReqRows, ReqStages
  <2>4. req' = [req EXCEPT ![r] = row]
    BY <2>2
  <2> HIDE DEF row
  <2>5. req[r].pc \notin AskStages /\ req[r].conn # NoConn
    BY <2>1, <1>a DEF AskStages, HoldInv
  <2>6. misled' \subseteq Routes
    BY <2>1, <1>c
  <2> QED BY <2>1, <2>3, <2>4, <2>5, <2>6, RequestMoves
<1>3. CASE ReadsMarker(r)
  <2>1. req[r].pc = "marker" /\ UNCHANGED <<free, txConn, txLock, loop, proc, svcFaults, misled>>
    BY <1>3 DEF ReadsMarker
  <2>2. PICK p \in {"read", "askMarker", "cached"} :
           /\ req' = [req EXCEPT ![r] = [req[r] EXCEPT !.pc = p]]
           /\ waiters' = waiters \/ (waiters' = Append(waiters, r) /\ p = "askMarker")
    BY <1>3, <1>b DEF ReadsMarker
  <2> DEFINE row == [req[r] EXCEPT !.pc = p]
  <2>3. req[r].pc \notin AskStages /\ req[r].conn = NoConn /\ req[r].own = FALSE
    BY <2>1, <1>a, <1>b DEF AskStages, HoldInv, ReqRows
  <2>4. row \in ReqRows /\ row.conn = NoConn /\ row.own = FALSE /\ row.pc = p
    BY <2>3, <1>b DEF ReqRows, ReqStages
  <2>5. req' = [req EXCEPT ![r] = row]
    BY <2>2
  <2> HIDE DEF row
  <2>6. p # "ping" /\ (p = "askMarker" => row.pc \in AskStages)
    BY <2>4 DEF AskStages
  <2> QED BY <2>1, <2>2, <2>3, <2>4, <2>5, <2>6, <1>c, RequestMoves
<1>4. CASE MarkerRead(r)
  <2>1. /\ req[r].pc = "read" /\ UNCHANGED <<waiters, txConn, txLock, loop, proc, svcFaults, misled>>
        /\ free' = IF req[r].own THEN free \cup {req[r].conn} ELSE free
    BY <1>4 DEF MarkerRead
  <2> DEFINE row == [req[r] EXCEPT !.pc = "answer", !.conn = NoConn, !.own = FALSE]
  <2>2. req' = [req EXCEPT ![r] = row]
    BY <1>4, <1>b DEF MarkerRead
  <2>3. row \in ReqRows /\ row.conn = NoConn /\ row.own = FALSE /\ row.pc # "ping"
    BY <1>b DEF ReqRows, ReqStages
  <2> HIDE DEF row
  <2>4. req[r].pc \notin AskStages /\ (req[r].own => req[r].conn # NoConn)
    BY <2>1, <1>a DEF AskStages, HoldInv
  <2>5. free' = free \/ (free' = free \cup {req[r].conn} /\ req[r].conn # NoConn)
    BY <2>1, <2>4
  <2> QED BY <2>1, <2>2, <2>3, <2>4, <2>5, <1>c, RequestMoves
<1>5. CASE Answers(r)
  <2>1. req[r].pc \in {"cached", "answer"} /\ UNCHANGED <<leaseVars, loop, proc, svcFaults>> /\ req' = [req EXCEPT ![r] = NoRequest]
    BY <1>5 DEF Answers
  <2>2. misled' \subseteq Routes
    BY <1>5, <1>b, <1>c DEF Answers, ReqRows
  <2>3. NoRequest \in ReqRows /\ NoRequest.conn = NoConn /\ NoRequest.own = FALSE /\ NoRequest.pc # "ping"
    BY DEF NoRequest, ReqRows, ReqStages, Routes
  <2>4. req[r].pc \notin AskStages
    BY <2>1 DEF AskStages
  <2>5. UNCHANGED <<free, waiters, txConn, txLock>> /\ svcFaults' \in 0 .. SvcFaultBound
    BY <2>1, <1>c DEF leaseVars
  <2> QED BY <2>1, <2>2, <2>3, <2>4, <2>5, RequestMoves
<1> QED BY <1>1, <1>2, <1>3, <1>4, <1>5

\* A signal, a stage of the drain and the end of the process touch no lease.
LEMMA ProcessKeepsLeases ==
    LeaseInv /\ (Shutdown \/ CloseServer \/ CloseDatabases \/ DrainComplete \/ HardExit \/ UncaughtException) => LeaseInv'
<1> SUFFICES ASSUME LeaseInv, Shutdown \/ CloseServer \/ CloseDatabases \/ DrainComplete \/ HardExit \/ UncaughtException
             PROVE  LeaseInv'
  OBVIOUS
<1>a. SvcTypeOK /\ SvcShape /\ TxConnHeld /\ QueueInv /\ TxInv /\ HoldInv
  BY DEF LeaseInv
<1>1. UNCHANGED <<leaseVars, loop, req, misled>>
  BY DEF Shutdown, CloseServer, CloseDatabases, DrainComplete, HardExit, UncaughtException
<1>2. svcFaults' \in 0 .. SvcFaultBound
  BY <1>a, SvcAssumption DEF Shutdown, CloseServer, CloseDatabases, DrainComplete, HardExit, UncaughtException, SvcFault, SvcTypeOK
<1>3. SvcShape'
  BY <1>1, <1>a DEF SvcShape, Shutdown, CloseServer, CloseDatabases, DrainComplete, HardExit, UncaughtException
<1>4. SvcTypeOK'
  BY <1>1, <1>2, <1>3, <1>a DEF SvcTypeOK, SvcShape, leaseVars
<1>5. TxConnHeld' /\ TxInv' /\ HoldInv'
  BY <1>1, <1>a DEF TxConnHeld, TxInv, HoldInv, leaseVars
<1>6. QueueInv'
  BY <1>1, <1>a DEF QueueInv, leaseVars
<1> QED BY <1>3, <1>4, <1>5, <1>6 DEF LeaseInv

\* No step of any actor breaks the leases.
LEMMA LeaseInductive == LeaseInv /\ [SvcNext]_svcVars => LeaseInv'
<1> SUFFICES ASSUME LeaseInv, [SvcNext]_svcVars PROVE LeaseInv'
  OBVIOUS
<1>1. CASE UNCHANGED svcVars
  BY <1>1 DEF svcVars, LeaseInv, SvcTypeOK, SvcShape, TxConnHeld, QueueInv, TxInv, HoldInv
<1>2. CASE Exited
  BY <1>1, <1>2 DEF Exited
<1> QED
  BY <1>1, <1>2, LoopKeepsLeases, GrantKeepsLeases, RefusalKeepsLeases, RequestKeepsLeases, ProcessKeepsLeases DEF SvcNext
\* The stages of the drain: each waits for what the next relies on, and nothing undoes it.
LEMMA DrainInductive == LeaseInv /\ DrainInv /\ [SvcNext]_svcVars => DrainInv'
<1> SUFFICES ASSUME LeaseInv, DrainInv, [SvcNext]_svcVars PROVE DrainInv'
  OBVIOUS
<1>a. SvcShape /\ QueueInv
  BY DEF LeaseInv
<1>1. CASE LoopBreaks
  <2>1. loop.pc = "top" /\ loop'.pc = "broke" /\ proc' = [proc EXCEPT !.running = FALSE] /\ req' = req
    BY <1>1, <1>a DEF LoopBreaks, SvcShape
  <2> QED BY <2>1, <1>a DEF DrainInv, SvcShape
<1>2. CASE LoopBegins \/ LoopWrites \/ LoopCommits \/ LoopRollsBack \/ \E j \in {"store", "delete"} : LoopAsks(j)
  BY <1>2 DEF LoopBegins, LoopWrites, LoopCommits, LoopRollsBack, LoopAsks, DrainInv
<1>3. CASE BeginFails
  <2>1. loop.pc = "begin" /\ req' = req /\ (proc' = proc \/ proc' = [proc EXCEPT !.running = FALSE, !.exit = "failure"])
    BY <1>3 DEF BeginFails, BeginThrows
  <2> QED BY <2>1, <1>a DEF DrainInv, SvcShape
<1>4. CASE Granted
  <2>0. waiters # <<>> /\ waiters' = Tail(waiters) /\ proc' = proc
    BY <1>4 DEF Granted
  <2>1. PICK w \in {TheLoop} \cup Requests : w = Head(waiters) /\ w = waiters[1] /\ 1 \in 1 .. Len(waiters)
    BY <2>0, <1>a, Dequeued
  <2>2. CASE w = TheLoop
    <3>1. loop.pc = "asked" /\ req' = req
      BY <2>1, <2>2, <1>4, <1>a DEF Granted, QueueInv
    <3> QED BY <3>1, <2>0 DEF DrainInv
  <2>3. CASE w # TheLoop
    <3>1. req[w].pc \in AskStages /\ loop' = loop
      BY <2>1, <2>3, <1>4, <1>a DEF Granted, QueueInv
    <3>2. proc.server # "closed"
      BY <3>1, <2>1, <2>3 DEF DrainInv, AskStages
    <3> QED BY <3>1, <3>2, <2>0 DEF DrainInv
  <2> QED BY <2>2, <2>3
<1>5. CASE Refused
  <2>0. waiters # <<>> /\ waiters' = Tail(waiters)
    BY <1>5 DEF Refused
  <2>1. PICK w \in {TheLoop} \cup Requests : w = Head(waiters) /\ w = waiters[1] /\ 1 \in 1 .. Len(waiters)
    BY <2>0, <1>a, Dequeued
  <2>2. CASE w = TheLoop
    <3>1. loop.pc = "asked" /\ req' = req /\ (proc' = proc \/ proc' = [proc EXCEPT !.running = FALSE, !.exit = "failure"])
      BY <2>1, <2>2, <1>5, <1>a DEF Refused, QueueInv, BeginThrows
    <3> QED BY <3>1, <1>a DEF DrainInv, SvcShape
  <2>3. CASE w # TheLoop
    <3>1. req[w].pc \in AskStages /\ loop' = loop /\ proc' = proc
      BY <2>1, <2>3, <1>5, <1>a DEF Refused, QueueInv
    <3>2. proc.server # "closed"
      BY <3>1, <2>1, <2>3 DEF DrainInv, AskStages
    <3> QED BY <3>1, <3>2 DEF DrainInv
  <2> QED BY <2>2, <2>3
<1>6. ASSUME NEW r \in Requests, NEW t \in Routes, Arrives(r, t) PROVE DrainInv'
  BY <1>6 DEF Arrives, DrainInv
<1>7. ASSUME NEW r \in Requests, Pinged(r) \/ ReadsMarker(r) \/ MarkerRead(r) \/ Answers(r) PROVE DrainInv'
  BY <1>7 DEF Pinged, ReadsMarker, MarkerRead, Answers, DrainInv
<1>8. CASE Shutdown
  BY <1>8, <1>a DEF Shutdown, DrainInv, SvcShape
<1>9. CASE CloseServer
  BY <1>9, <1>a DEF CloseServer, DrainInv, SvcShape
<1>10. CASE CloseDatabases
  BY <1>10, <1>a DEF CloseDatabases, DrainInv, SvcShape, LoopSettled
<1>11. CASE DrainComplete
  BY <1>11, <1>a DEF DrainComplete, DrainInv, SvcShape
<1>12. CASE HardExit \/ UncaughtException
  BY <1>12, <1>a DEF HardExit, UncaughtException, DrainInv, SvcShape
<1>13. CASE UNCHANGED svcVars
  BY <1>13 DEF svcVars, DrainInv
<1> QED
  BY <1>1, <1>2, <1>3, <1>4, <1>5, <1>6, <1>7, <1>8, <1>9, <1>10, <1>11, <1>12, <1>13 DEF SvcNext, LoopStep, Exited

\* The status route reads the flag when it answers.
LEMMA StatusInductive == StatusTellsDrain /\ [SvcNext]_svcVars => StatusTellsDrain'
<1> SUFFICES ASSUME StatusTellsDrain, [SvcNext]_svcVars PROVE StatusTellsDrain'
  OBVIOUS
<1>1. ASSUME NEW r \in Requests, Answers(r) PROVE StatusTellsDrain'
  BY <1>1 DEF Answers, SeenRunning, StatusTellsDrain
<1>2. CASE UNCHANGED misled
  BY <1>2 DEF StatusTellsDrain
<1>3. ASSUME SvcNext PROVE UNCHANGED misled \/ \E r \in Requests : Answers(r)
  BY <1>3 DEF SvcNext, LoopStep, LoopBreaks, LoopBegins, LoopWrites, LoopCommits, LoopAsks, BeginFails, LoopRollsBack,
        Granted, Refused, Arrives, Pinged, ReadsMarker, MarkerRead, Shutdown, CloseServer, CloseDatabases, DrainComplete,
        HardExit, UncaughtException, Exited, svcVars
<1> QED BY <1>1, <1>2, <1>3 DEF svcVars

\* For every pool size and any number of requests: the connection of the open transaction
\* is the loop's alone, and its lock is free between transactions.
THEOREM LeasesAreSafe == SvcSpec => []LeaseSafe
<1>1. LeaseInv => LeaseSafe
  BY DEF LeaseInv, LeaseSafe, TxInv, LockFollowsTx
<1>2. SvcInit => LeaseInv
  BY SvcInitially DEF SvcInv
<1> QED BY <1>1, <1>2, LeaseInductive, PTL DEF SvcSpec

\* Exit code 0 means a finished drain, and the status route never denies that one has
\* begun: the safety half of DrainSound (createShutdown).
THEOREM DrainIsHonest == SvcSpec => [](CleanExitMeansDrained /\ StatusTellsDrain)
<1>1. SvcInv => CleanExitMeansDrained /\ StatusTellsDrain
  BY DEF SvcInv, LeaseInv, TxInv, DrainInv, CleanExitMeansDrained
<1>2. SvcInv /\ [SvcNext]_svcVars => SvcInv'
  BY LeaseInductive, DrainInductive, StatusInductive DEF SvcInv
<1> QED BY <1>1, <1>2, SvcInitially, PTL DEF SvcSpec
-----------------------------------------------------------------------------
(* The pending view. *)

CycleStages == {"idle", "list", "open", "diff", "fetch", "store"}

\* One cycle at a time, and the latch tells of it.
CycleInv ==
    /\ pool \cup lastSnap \cup departed \subseteq MemTxs
    /\ rows \in [MemTxs -> {"none", "text", "blank"}]
    /\ cycle \in [Slots -> [pc : CycleStages, todo : SUBSET MemTxs, hex : SUBSET MemTxs, open : BOOLEAN]]
    /\ mempoolBusy = (\E s \in Slots : cycle[s] # Idle)
    /\ \A s, t \in Slots : cycle[s] # Idle /\ cycle[t] # Idle => s = t

\* What a cycle has still to fetch or to store was in the list of the last diff, and a
\* batch with nothing to store is not waited for.
WorkInv ==
    /\ Stored \subseteq lastSnap
    /\ \A s \in Slots :
          /\ cycle[s].pc \in {"fetch", "store"} => cycle[s].todo \cup cycle[s].hex \subseteq lastSnap
          /\ cycle[s].pc = "store" <=> cycle[s].hex # {}

\* A stored row that the node, or the list about to be diffed, is without has departed.
DepartedInv ==
    /\ Stored \ pool \subseteq departed
    /\ \A s \in Slots : cycle[s].pc \in {"open", "diff"} => Stored \ cycle[s].todo \subseteq departed

MemInv == CycleInv /\ WorkInv /\ DepartedInv

\* A bounded, non-empty set of numbers has a largest element.
LEMMA LargestOfBounded ==
    ASSUME NEW S, S \subseteq Nat, NEW q \in S, NEW m \in Nat, \A x \in S : x <= m
    PROVE  \E x \in S : \A y \in S : x >= y
<1> DEFINE Above == {b \in Nat : \A x \in S : x <= b}
<1>1. Above \subseteq Nat /\ m \in Above
  OBVIOUS
<1>2. PICK b \in Above : \A c \in Above : ~(<<c, b>> \in OpToRel(<, Nat))
  BY <1>1, NatLessThanWellFounded, WFMin
<1>3. \A c \in Above : ~(c < b)
  BY <1>1, <1>2 DEF OpToRel
<1>4. b \in Nat /\ \A x \in S : x <= b
  OBVIOUS
<1> HIDE DEF Above
<1>5. b \in S
  <2> SUFFICES ASSUME b \notin S PROVE FALSE
    OBVIOUS
  <2>1. \A x \in S : x \in Nat /\ x < b
    BY <1>4
  <2>2. q \in Nat /\ q < b
    BY <2>1
  <2>3. b - 1 \in Nat /\ b - 1 < b
    BY <1>4, <2>2
  <2>4. \A x \in S : x <= b - 1
    BY <1>4, <2>1
  <2>5. b - 1 \in Above
    BY <2>3, <2>4 DEF Above
  <2> QED BY <2>3, <2>5, <1>3
<1> QED BY <1>4, <1>5

\* One more number is bounded too.
LEMMA BoundOneMore ==
    ASSUME NEW f, NEW k \in Nat, \A i \in 1 .. k + 1 : f[i] \in Nat, NEW m \in Nat, \A i \in 1 .. k : f[i] <= m
    PROVE  \E b \in Nat : \A i \in 1 .. k + 1 : f[i] <= b
<1>1. PICK a \in Nat : a = f[k + 1]
  OBVIOUS
<1>2. PICK b \in Nat : m <= b /\ a <= b
  <2>1. CASE a <= m
    BY <2>1
  <2>2. CASE m <= a
    BY <2>2
  <2> QED BY <2>1, <2>2
<1>3. ASSUME NEW i \in 1 .. k + 1 PROVE f[i] <= b
  <2>1. f[i] \in Nat
    OBVIOUS
  <2>2. i = k + 1 \/ i \in 1 .. k
    OBVIOUS
  <2> QED BY <2>1, <2>2, <1>1, <1>2
<1> QED BY <1>3

\* A finite, non-empty set of numbers has a largest element, which Max names.
LEMMA MaxOfFinite ==
    ASSUME NEW S, S \subseteq Nat, IsFiniteSet(S), S # {}
    PROVE  Max(S) \in S
<1>1. PICK n \in Nat : ExistsBijection(1 .. n, S)
  BY FS_NatBijection
<1>2. PICK f \in [1 .. n -> S] : \A x \in S : \E i \in 1 .. n : f[i] = x
  BY <1>1 DEF ExistsBijection, Bijection, Surjection
<1>3. \A i \in 1 .. n : f[i] \in Nat
  OBVIOUS
<1> DEFINE Bounded(k) == \E m \in Nat : \A i \in 1 .. k : f[i] <= m
           Bad == {k \in 0 .. n : ~ Bounded(k)}
<1>4. Bounded(0)
  <2>1. \A i \in 1 .. 0 : f[i] <= 0
    OBVIOUS
  <2> QED BY <2>1
<1>5. \A k \in 0 .. n : k + 1 <= n /\ Bounded(k) => Bounded(k + 1)
  <2> SUFFICES ASSUME NEW k \in 0 .. n, k + 1 <= n, NEW m \in Nat, \A i \in 1 .. k : f[i] <= m
               PROVE  Bounded(k + 1)
    OBVIOUS
  <2>1. \A i \in 1 .. k + 1 : f[i] \in Nat
    BY <1>3
  <2>2. k \in Nat
    OBVIOUS
  <2>3. \E b \in Nat : \A i \in 1 .. k + 1 : f[i] <= b
    BY <2>1, <2>2, BoundOneMore
  <2> QED BY <2>3
<1> HIDE DEF Bounded
<1>6. Bounded(n)
  <2> SUFFICES ASSUME ~ Bounded(n) PROVE FALSE
    OBVIOUS
  <2>1. Bad \subseteq Nat /\ n \in Bad
    OBVIOUS
  <2>2. PICK k \in Bad : \A j \in Bad : ~(<<j, k>> \in OpToRel(<, Nat))
    BY <2>1, NatLessThanWellFounded, WFMin
  <2>3. \A j \in Bad : ~(j < k)
    BY <2>1, <2>2 DEF OpToRel
  <2>4. k \in 0 .. n /\ ~ Bounded(k)
    OBVIOUS
  <2>5. k # 0
    BY <2>4, <1>4
  <2>6. PICK j \in 0 .. n : k = j + 1 /\ j < k
    <3>1. k - 1 \in 0 .. n /\ k = (k - 1) + 1 /\ k - 1 < k
      BY <2>4, <2>5
    <3> QED BY <3>1
  <2>7. Bounded(j)
    BY <2>3, <2>6
  <2> QED BY <2>4, <2>6, <2>7, <1>5
<1>7. PICK m \in Nat : \A i \in 1 .. n : f[i] <= m
  BY <1>6 DEF Bounded
<1>8. \A x \in S : x <= m
  BY <1>2, <1>7
<1>9. \E x \in S : \A y \in S : x >= y
  BY <1>8, LargestOfBounded
<1> QED BY <1>9 DEF Max

\* Nothing is stored and no cycle runs when the service comes up.
LEMMA MemInitially == MemInit => MemInv
<1> SUFFICES ASSUME MemInit PROVE MemInv
  OBVIOUS
<1>1. CycleInv
  BY DEF MemInit, CycleInv, Idle, CycleStages, Slots
<1>2. Stored = {}
  BY DEF MemInit, Stored
<1>3. WorkInv /\ DepartedInv
  BY <1>2 DEF MemInit, WorkInv, DepartedInv, Idle
<1> QED BY <1>1, <1>3 DEF MemInv
CycleRows == [pc : CycleStages, todo : SUBSET MemTxs, hex : SUBSET MemTxs, open : BOOLEAN]

\* A cycle ends, or goes on at row.
MovesTo(s, row) == (CycleEnds(s) /\ row = Idle) \/ (Goes(s, row) /\ row.pc # "idle")

\* While one cycle runs the other slot is idle, and stays so.
LEMMA CycleMoves ==
    ASSUME CycleInv, NEW s \in Slots, cycle[s].pc # "idle", NEW row \in CycleRows,
           MovesTo(s, row),
           rows' \in [MemTxs -> {"none", "text", "blank"}], pool' \cup lastSnap' \cup departed' \subseteq MemTxs
    PROVE  CycleInv' /\ cycle'[s] = row /\ \A t \in Slots : t # s => cycle'[t] = Idle
<1>1. cycle \in [Slots -> CycleRows]
  BY DEF CycleInv, CycleRows
<1>2. Idle.pc = "idle"
  BY DEF Idle
<1>3. cycle[s] # Idle /\ mempoolBusy = TRUE
  BY <1>2 DEF CycleInv
<1>4. \A t \in Slots : t # s => cycle[t] = Idle
  BY <1>3 DEF CycleInv
<1>5. cycle' = [cycle EXCEPT ![s] = row]
  BY DEF MovesTo, CycleEnds, Goes
<1>6. cycle' \in [Slots -> CycleRows] /\ cycle'[s] = row /\ \A t \in Slots : t # s => cycle'[t] = Idle
  BY <1>1, <1>4, <1>5
<1>7. \A t, u \in Slots : cycle'[t] # Idle /\ cycle'[u] # Idle => t = u
  BY <1>6
<1>8. mempoolBusy' = (\E t \in Slots : cycle'[t] # Idle)
  <2>1. CASE CycleEnds(s) /\ row = Idle
    BY <2>1, <1>6 DEF CycleEnds
  <2>2. CASE Goes(s, row) /\ row.pc # "idle"
    BY <2>2, <1>2, <1>3, <1>6 DEF Goes
  <2> QED BY <2>1, <2>2 DEF MovesTo
<1> QED BY <1>6, <1>7, <1>8 DEF CycleInv, CycleRows

\* A batch that is dealt with is followed by the next one, or by the end of the cycle.
LEMMA BatchMoves ==
    ASSUME CycleInv, NEW s \in Slots, NEW rest \in SUBSET MemTxs, BatchDone(s, rest)
    PROVE  \E row \in CycleRows :
              /\ MovesTo(s, row)
              /\ row.pc \in {"idle", "fetch"} /\ row.todo \subseteq rest /\ row.hex = {}
<1>1. cycle[s] \in CycleRows
  BY DEF CycleInv, CycleRows
<1>2. CASE rest = {}
  <2>1. Idle \in CycleRows /\ Idle.pc = "idle" /\ Idle.todo = {} /\ Idle.hex = {}
    BY DEF Idle, CycleRows, CycleStages
  <2>2. MovesTo(s, Idle)
    BY <1>2 DEF BatchDone, MovesTo
  <2> QED BY <2>1, <2>2
<1>3. CASE rest # {}
  <2> DEFINE row == [cycle[s] EXCEPT !.pc = "fetch", !.todo = rest, !.hex = {}]
  <2>1. row \in CycleRows /\ row.pc = "fetch" /\ row.todo = rest /\ row.hex = {}
    BY <1>1 DEF CycleRows, CycleStages
  <2>2. Goes(s, row)
    BY <1>3 DEF BatchDone
  <2>3. MovesTo(s, row)
    BY <2>1, <2>2 DEF MovesTo
  <2> HIDE DEF row
  <2> QED BY <2>1, <2>3
<1> QED BY <1>2, <1>3

\* A cycle that changes no row and only works off what it has keeps the invariant.
LEMMA WorkMoves ==
    ASSUME MemInv, NEW s \in Slots, cycle[s].pc # "idle", NEW row \in CycleRows,
           MovesTo(s, row),
           UNCHANGED <<pool, rows, lastSnap, departed>>,
           row.pc \in {"fetch", "store"} => row.todo \cup row.hex \subseteq lastSnap,
           row.pc = "store" <=> row.hex # {},
           row.pc \in {"open", "diff"} => Stored \ row.todo \subseteq departed
    PROVE  MemInv'
<1>1. CycleInv' /\ cycle'[s] = row /\ \A t \in Slots : t # s => cycle'[t] = Idle
  <2>1. pool' \cup lastSnap' \cup departed' \subseteq MemTxs /\ rows' \in [MemTxs -> {"none", "text", "blank"}]
    BY DEF MemInv, CycleInv
  <2>2. CycleInv
    BY DEF MemInv
  <2> QED BY <2>1, <2>2, CycleMoves
<1>2. Stored' = Stored
  BY DEF Stored
<1>3. WorkInv' /\ DepartedInv'
  BY <1>1, <1>2 DEF MemInv, WorkInv, DepartedInv, Idle
<1> QED BY <1>1, <1>3 DEF MemInv

\* The diff deletes only rows that the list was without, and leaves to store what it had.
LEMMA DiffMoves ==
    ASSUME MemInv, NEW s \in Slots, cycle[s].pc = "diff", NEW row \in CycleRows,
           MovesTo(s, row),
           Reconciles(s), UNCHANGED pool,
           row.pc \in {"idle", "fetch"}, row.hex = {}, row.todo \subseteq cycle[s].todo
    PROVE  MemInv' /\ \A t \in Stored : rows'[t] = "none" => t \in departed
<1>1. cycle[s].todo \subseteq MemTxs /\ pool \subseteq MemTxs /\ rows \in [MemTxs -> {"none", "text", "blank"}]
  BY DEF MemInv, CycleInv, CycleRows
<1>2. /\ rows' = [t \in MemTxs |-> IF t \in cycle[s].todo THEN rows[t] ELSE "none"]
      /\ lastSnap' = cycle[s].todo /\ departed' = (cycle[s].todo \cap Stored) \ pool
  BY DEF Reconciles
<1>3. rows' \in [MemTxs -> {"none", "text", "blank"}] /\ pool' \cup lastSnap' \cup departed' \subseteq MemTxs
  BY <1>1, <1>2
<1>4. CycleInv' /\ cycle'[s] = row /\ \A t \in Slots : t # s => cycle'[t] = Idle
  BY <1>3, CycleMoves DEF MemInv
<1>5. Stored' = Stored \cap cycle[s].todo
  BY <1>1, <1>2 DEF Stored
<1>6. WorkInv'
  BY <1>2, <1>4, <1>5 DEF WorkInv, Idle
<1>7. DepartedInv'
  BY <1>2, <1>4, <1>5 DEF DepartedInv, Idle
<1>8. \A t \in Stored : rows'[t] = "none" => t \in departed
  BY <1>2 DEF MemInv, DepartedInv, Stored
<1> QED BY <1>4, <1>6, <1>7, <1>8 DEF MemInv

\* The timer starts a cycle when none runs.
LEMMA StartKeeps == MemInv /\ StartsCycle /\ UNCHANGED pool => MemInv' /\ UNCHANGED rows
<1> SUFFICES ASSUME MemInv, StartsCycle, UNCHANGED pool PROVE MemInv' /\ UNCHANGED rows
  OBVIOUS
<1>1. CASE mempoolBusy
  BY <1>1 DEF StartsCycle, cycleVars, MemInv, CycleInv, WorkInv, DepartedInv, Stored
<1>2. CASE ~ mempoolBusy
  <2> DEFINE s == CHOOSE u \in Slots : cycle[u] = Idle
             row == [Idle EXCEPT !.pc = "list"]
  <2>1. \A t \in Slots : cycle[t] = Idle
    BY <1>2 DEF MemInv, CycleInv
  <2>2. s \in Slots /\ cycle[s] = Idle
    BY <2>1 DEF Slots
  <2>3. UNCHANGED <<rows, lastSnap, departed>> /\ mempoolBusy' = TRUE /\ cycle' = [cycle EXCEPT ![s].pc = "list"]
    BY <1>2 DEF StartsCycle
  <2> HIDE DEF s
  <2>4. cycle \in [Slots -> CycleRows]
    BY DEF MemInv, CycleInv, CycleRows
  <2>5. cycle' = [cycle EXCEPT ![s] = row]
    BY <2>2, <2>3, <2>4
  <2>6. row \in CycleRows /\ row # Idle /\ row.pc = "list" /\ row.hex = {}
    BY DEF Idle, CycleRows, CycleStages
  <2> HIDE DEF row
  <2>7. cycle' \in [Slots -> CycleRows] /\ cycle'[s] = row /\ \A t \in Slots : t # s => cycle'[t] = Idle
    BY <2>1, <2>2, <2>4, <2>5, <2>6
  <2>8. mempoolBusy' = (\E t \in Slots : cycle'[t] # Idle)
    BY <2>2, <2>3, <2>6, <2>7
  <2>9. \A t, u \in Slots : cycle'[t] # Idle /\ cycle'[u] # Idle => t = u
    BY <2>7
  <2>10. CycleInv'
    BY <2>3, <2>7, <2>8, <2>9 DEF MemInv, CycleInv, CycleRows
  <2>11. Stored' = Stored
    BY <2>3 DEF Stored
  <2>12. WorkInv' /\ DepartedInv'
    BY <2>3, <2>6, <2>7, <2>11 DEF MemInv, WorkInv, DepartedInv, Idle
  <2> QED BY <2>3, <2>10, <2>12 DEF MemInv
<1> QED BY <1>1, <1>2
\* A row is deleted only when its transaction has departed.
KeepsPresent == \A t \in Stored : rows'[t] = "none" => t \in departed

\* Every step of a cycle keeps the invariant, and deletes departed rows only.
LEMMA CycleKeeps ==
    ASSUME MemInv, NEW s \in Slots, CycleStep(s)
    PROVE  MemInv' /\ KeepsPresent
<1>a. CycleInv /\ WorkInv /\ DepartedInv
  BY DEF MemInv
<1>b. cycle[s] \in CycleRows /\ pool \subseteq MemTxs /\ rows \in [MemTxs -> {"none", "text", "blank"}] /\ UNCHANGED pool
  BY <1>a DEF CycleInv, CycleRows, CycleStep
<1>c. Idle \in CycleRows /\ Idle.pc = "idle" /\ Idle.todo = {} /\ Idle.hex = {}
  BY DEF Idle, CycleRows, CycleStages
<1>d. ASSUME UNCHANGED rows PROVE KeepsPresent
  BY <1>d DEF KeepsPresent, Stored
<1>1. CASE ListArrives(s)
  <2> DEFINE row == [cycle[s] EXCEPT !.pc = "open", !.todo = pool]
  <2>1. row \in CycleRows /\ row.pc = "open" /\ row.todo = pool /\ row.hex = cycle[s].hex
    BY <1>b DEF CycleRows, CycleStages
  <2>2. cycle[s].pc = "list" /\ UNCHANGED <<rows, lastSnap, departed>> /\ cycle[s].hex = {}
    BY <1>1, <1>a DEF ListArrives, WorkInv
  <2>3. MovesTo(s, row)
    BY <1>1, <2>1 DEF ListArrives, MovesTo
  <2> HIDE DEF row
  <2>4. Stored \ row.todo \subseteq departed
    BY <2>1, <1>a DEF DepartedInv
  <2>5. MemInv'
    BY <2>1, <2>2, <2>3, <2>4, <1>b, WorkMoves
  <2> QED BY <2>2, <2>5, <1>d
<1>2. CASE OpenSetLoaded(s) \/ OpenSetFails(s)
  <2>1. PICK o \in BOOLEAN : Goes(s, [cycle[s] EXCEPT !.pc = "diff", !.open = o])
    BY <1>2 DEF OpenSetLoaded, OpenSetFails
  <2> DEFINE row == [cycle[s] EXCEPT !.pc = "diff", !.open = o]
  <2>2. row \in CycleRows /\ row.pc = "diff" /\ row.todo = cycle[s].todo /\ row.hex = cycle[s].hex
    BY <1>b DEF CycleRows, CycleStages
  <2>3. cycle[s].pc = "open" /\ UNCHANGED <<rows, lastSnap, departed>> /\ cycle[s].hex = {}
    BY <1>2, <1>a DEF OpenSetLoaded, OpenSetFails, WorkInv
  <2>4. MovesTo(s, row)
    BY <2>1, <2>2 DEF MovesTo
  <2> HIDE DEF row
  <2>5. Stored \ row.todo \subseteq departed
    BY <2>2, <2>3, <1>a DEF DepartedInv
  <2>6. MemInv'
    BY <2>2, <2>3, <2>4, <2>5, <1>b, WorkMoves
  <2> QED BY <2>3, <2>6, <1>d
<1>3. CASE Diffed(s)
  <2>1. cycle[s].pc = "diff" /\ Reconciles(s)
    BY <1>3 DEF Diffed
  <2>2. CASE CycleEnds(s)
    <3>1. MovesTo(s, Idle)
      BY <2>2 DEF MovesTo
    <3> QED BY <2>1, <3>1, <1>b, <1>c, DiffMoves DEF KeepsPresent
  <2>3. CASE Goes(s, [cycle[s] EXCEPT !.pc = "fetch", !.todo = cycle[s].todo \ Stored])
    <3> DEFINE row == [cycle[s] EXCEPT !.pc = "fetch", !.todo = cycle[s].todo \ Stored]
    <3>1. row \in CycleRows /\ row.pc = "fetch" /\ row.todo \subseteq cycle[s].todo /\ row.hex = cycle[s].hex
      BY <1>b DEF CycleRows, CycleStages
    <3>2. MovesTo(s, row)
      BY <2>3, <3>1 DEF MovesTo
    <3> HIDE DEF row
    <3>3. cycle[s].hex = {}
      BY <2>1, <1>a DEF WorkInv
    <3> QED BY <2>1, <3>1, <3>2, <3>3, <1>b, DiffMoves DEF KeepsPresent
  <2> QED BY <2>2, <2>3, <1>3 DEF Diffed
<1>4. ASSUME NEW applied \in BOOLEAN, DiffFails(s, applied) PROVE MemInv' /\ KeepsPresent
  <2>1. cycle[s].pc = "diff" /\ MovesTo(s, Idle)
    BY <1>4 DEF DiffFails, MovesTo
  <2>2. CASE Reconciles(s)
    BY <2>1, <2>2, <1>b, <1>c, DiffMoves DEF KeepsPresent
  <2>3. CASE UNCHANGED <<rows, lastSnap, departed>>
    <3>1. MemInv'
      BY <2>1, <2>3, <1>b, <1>c, WorkMoves
    <3> QED BY <3>1, <2>3, <1>d
  <2> QED BY <2>2, <2>3, <1>4 DEF DiffFails
<1>5. CASE ListFails(s)
  <2>1. cycle[s].pc = "list" /\ MovesTo(s, Idle) /\ UNCHANGED <<rows, lastSnap, departed>>
    BY <1>5 DEF ListFails, MovesTo
  <2>2. MemInv'
    BY <2>1, <1>b, <1>c, WorkMoves
  <2> QED BY <2>1, <2>2, <1>d
<1>6. CASE BatchArrives(s) \/ BatchFails(s)
  <2> DEFINE chunk == Chunk(cycle[s].todo)
             rest == cycle[s].todo \ chunk
             hex == chunk \cap pool \cap Storable
  <2>1. cycle[s].pc = "fetch" /\ UNCHANGED <<rows, lastSnap, departed>>
    BY <1>6 DEF BatchArrives, BatchFails
  <2>2. chunk \subseteq cycle[s].todo /\ rest \in SUBSET MemTxs /\ cycle[s].todo \subseteq lastSnap /\ cycle[s].todo \subseteq MemTxs
    BY <2>1, <1>a, <1>b DEF Chunk, CycleRows, WorkInv
  <2>3. CASE BatchDone(s, rest)
    <3>1. PICK row \in CycleRows : MovesTo(s, row) /\ row.pc \in {"idle", "fetch"} /\ row.todo \subseteq rest /\ row.hex = {}
      BY <2>2, <2>3, <1>a, BatchMoves
    <3>2. row.todo \cup row.hex \subseteq lastSnap
      BY <2>2, <3>1
    <3>3. MemInv'
      BY <2>1, <3>1, <3>2, <1>b, WorkMoves
    <3> QED BY <3>3, <2>1, <1>d
  <2>4. CASE hex # {} /\ Goes(s, [cycle[s] EXCEPT !.pc = "store", !.todo = rest, !.hex = hex])
    <3> DEFINE row == [cycle[s] EXCEPT !.pc = "store", !.todo = rest, !.hex = hex]
    <3>1. row \in CycleRows /\ row.pc = "store" /\ row.todo = rest /\ row.hex = hex
      BY <2>2, <1>b DEF CycleRows, CycleStages
    <3>2. MovesTo(s, row)
      BY <2>4, <3>1 DEF MovesTo
    <3> HIDE DEF row
    <3>3. row.todo \cup row.hex \subseteq lastSnap /\ row.hex # {}
      BY <2>2, <2>4, <3>1
    <3>4. MemInv'
      BY <2>1, <3>1, <3>2, <3>3, <1>b, WorkMoves
    <3> QED BY <3>4, <2>1, <1>d
  <2> QED BY <2>3, <2>4, <1>6 DEF BatchArrives, BatchFails
<1>7. CASE RowStored(s) \/ RowFails(s)
  <2> DEFINE t == Max(cycle[s].hex)
  <2>1. cycle[s].pc = "store" /\ UNCHANGED lastSnap
    BY <1>7 DEF RowStored, RowFails
  <2>2. cycle[s].hex \subseteq MemTxs /\ cycle[s].todo \subseteq MemTxs /\ cycle[s].hex # {} /\ cycle[s].todo \cup cycle[s].hex \subseteq lastSnap
    BY <2>1, <1>a, <1>b DEF CycleRows, WorkInv
  <2>3. t \in cycle[s].hex
    <3>1. IsFiniteSet(cycle[s].hex) /\ cycle[s].hex \subseteq Nat
      BY <2>2, MemAssumption, FS_Subset
    <3> QED BY <3>1, <2>2, MaxOfFinite
  <2>4. IF cycle[s].hex = {t} THEN BatchDone(s, cycle[s].todo) ELSE Goes(s, [cycle[s] EXCEPT !.hex = @ \ {t}])
    BY <1>7 DEF RowStored, RowFails
  <2>5. RowFails(s) \/ /\ rows' = IF t \in Stored THEN rows ELSE [rows EXCEPT ![t] = RowOf(t, cycle[s].open)]
                       /\ departed' = IF t \in pool THEN departed \ {t} ELSE departed \cup {t}
    BY <1>7 DEF RowStored
  <2> HIDE DEF t
  <2>6. PICK row \in CycleRows : /\ MovesTo(s, row) /\ row.pc \in {"idle", "fetch", "store"}
                                 /\ row.todo \cup row.hex \subseteq lastSnap
                                 /\ row.pc = "store" <=> row.hex # {}
    <3>1. CASE cycle[s].hex = {t}
      BY <3>1, <2>2, <2>4, <1>a, BatchMoves
    <3>2. CASE cycle[s].hex # {t}
      <4> DEFINE row == [cycle[s] EXCEPT !.hex = @ \ {t}]
      <4>1. row \in CycleRows /\ row.pc = "store" /\ row.todo = cycle[s].todo /\ row.hex = cycle[s].hex \ {t}
        BY <2>1, <1>b DEF CycleRows, CycleStages
      <4>2. MovesTo(s, row)
        BY <3>2, <2>4, <4>1 DEF MovesTo
      <4> HIDE DEF row
      <4>3. row.todo \cup row.hex \subseteq lastSnap /\ row.hex # {}
        BY <4>1, <2>2, <2>3, <3>2
      <4> QED BY <4>1, <4>2, <4>3
    <3> QED BY <3>1, <3>2
  <2>7. CASE RowFails(s)
    <3>1. UNCHANGED <<rows, lastSnap, departed>>
      BY <2>7 DEF RowFails
    <3>2. MemInv'
      BY <2>1, <2>6, <3>1, <1>b, WorkMoves
    <3> QED BY <3>1, <3>2, <1>d
  <2>8. CASE /\ rows' = IF t \in Stored THEN rows ELSE [rows EXCEPT ![t] = RowOf(t, cycle[s].open)]
             /\ departed' = IF t \in pool THEN departed \ {t} ELSE departed \cup {t}
    <3>1. RowOf(t, cycle[s].open) \in {"text", "blank"} /\ t \in MemTxs
      BY <2>2, <2>3 DEF RowOf
    <3>2. rows' \in [MemTxs -> {"none", "text", "blank"}] /\ rows'[t] # "none" /\ \A u \in MemTxs : u # t => rows'[u] = rows[u]
      BY <2>8, <3>1, <1>b DEF Stored
    <3>3. pool' \cup lastSnap' \cup departed' \subseteq MemTxs
      BY <2>1, <2>8, <3>1, <1>a, <1>b DEF CycleInv
    <3>4. CycleInv' /\ cycle'[s] = row /\ \A u \in Slots : u # s => cycle'[u] = Idle
      BY <2>1, <2>6, <3>2, <3>3, <1>a, CycleMoves
    <3>5. Stored' = Stored \cup {t}
      BY <3>1, <3>2 DEF Stored
    <3>6. WorkInv'
      <4>1. Stored' \subseteq lastSnap'
        BY <2>1, <2>2, <2>3, <3>5, <1>a DEF WorkInv
      <4> QED BY <4>1, <2>1, <2>6, <3>4, <1>c DEF WorkInv
    <3>7. DepartedInv'
      <4>1. Stored' \ pool \subseteq departed'
        BY <2>8, <3>5, <1>a DEF DepartedInv
      <4> QED BY <4>1, <2>6, <3>4, <1>b, <1>c DEF DepartedInv
    <3>8. KeepsPresent
      BY <3>2 DEF KeepsPresent, Stored
    <3> QED BY <3>4, <3>6, <3>7, <3>8 DEF MemInv
  <2> QED BY <2>5, <2>7, <2>8
<1> QED BY <1>1, <1>2, <1>3, <1>4, <1>5, <1>6, <1>7 DEF CycleStep, CycleAdvances, CycleFaults

\* So does every step of the node, of the timer and of a cycle.
LEMMA MemInductive == MemInv /\ [MemNext]_memVars => MemInv' /\ KeepsPresent
<1> SUFFICES ASSUME MemInv, [MemNext]_memVars PROVE MemInv' /\ KeepsPresent
  OBVIOUS
<1>1. ASSUME NEW t \in MemTxs, PoolChanges(t) PROVE MemInv' /\ KeepsPresent
  <2>1. /\ pool' = IF t \in pool THEN pool \ {t} ELSE pool \cup {t}
        /\ departed' = IF t \in pool \cap Stored THEN departed \cup {t} ELSE departed
        /\ UNCHANGED <<rows, mempoolBusy, cycle, lastSnap>>
    BY <1>1 DEF PoolChanges
  <2>2. Stored' = Stored
    BY <2>1 DEF Stored
  <2>3. CycleInv'
    BY <2>1 DEF MemInv, CycleInv
  <2>4. WorkInv' /\ DepartedInv'
    BY <2>1, <2>2 DEF MemInv, WorkInv, DepartedInv
  <2>5. KeepsPresent
    BY <2>1 DEF KeepsPresent, Stored
  <2> QED BY <2>3, <2>4, <2>5 DEF MemInv
<1>2. CASE TimerStarts \/ TimerFires
  <2>1. StartsCycle /\ UNCHANGED pool
    BY <1>2 DEF TimerStarts, TimerFires
  <2> QED BY <2>1, StartKeeps DEF KeepsPresent, Stored
<1>3. CASE FallsBehind \/ UNCHANGED memVars
  <2>1. UNCHANGED <<pool, rows, mempoolBusy, cycle, lastSnap, departed>>
    BY <1>3 DEF FallsBehind, cycleVars, memVars
  <2> QED BY <2>1 DEF MemInv, CycleInv, WorkInv, DepartedInv, Stored, KeepsPresent
<1> QED BY <1>1, <1>2, <1>3, CycleKeeps DEF MemNext

\* One cycle runs at a time, every row comes from the last diff, and none is deleted that
\* the node has had ever since: the safety half of PendingFollowsNode (updateMempool).
THEOREM PendingIsSafe == MemSpec => [](MemTypeOK /\ RowsFollowTheDiff) /\ OnlyDepartedDeleted
<1>1. MemInv => MemTypeOK /\ RowsFollowTheDiff
  <2> SUFFICES ASSUME MemInv PROVE MemTypeOK /\ RowsFollowTheDiff
    OBVIOUS
  <2> DEFINE running == {s \in Slots : cycle[s] # Idle}
  <2>1. \A s, t \in running : s = t
    BY DEF MemInv, CycleInv
  <2>2. Cardinality(running) <= 1
    <3>1. CASE running = {}
      BY <3>1, FS_EmptySet
    <3>2. CASE running # {}
      <4>1. PICK s \in running : running = {s}
        BY <2>1, <3>2
      <4>2. Cardinality({s}) = 1
        BY FS_Singleton
      <4> QED BY <4>1, <4>2
    <3> QED BY <3>1, <3>2
  <2> QED BY <2>2 DEF MemInv, CycleInv, WorkInv, MemTypeOK, RowsFollowTheDiff
<1>2. MemInv /\ [MemNext]_memVars => MemInv'
  BY MemInductive
<1>3. MemInv /\ [MemNext]_memVars => [\A t \in Stored : rows'[t] = "none" => t \in departed]_memVars
  BY MemInductive DEF KeepsPresent
<1> QED BY <1>1, <1>2, <1>3, MemInitially, PTL DEF MemSpec, OnlyDepartedDeleted
-----------------------------------------------------------------------------
(* The stream of log lines: sequences of increasing numbers. *)

Increasing(s) == \A i, j \in 1 .. Len(s) : i < j => s[i] < s[j]
Below(S, T) == \A x \in S, y \in T : x < y

\* The lines of a sequence.
LEMMA RangeOf ==
    ASSUME NEW s \in Seq(Nat)
    PROVE  /\ Len(s) \in Nat /\ DOMAIN s = 1 .. Len(s)
           /\ Range(s) \subseteq Nat
           /\ \A x : x \in Range(s) <=> \E i \in 1 .. Len(s) : s[i] = x
           /\ \A i \in 1 .. Len(s) : s[i] \in Range(s) /\ s[i] \in Nat
BY DEF Range

\* A line appended.
LEMMA Appended ==
    ASSUME NEW s \in Seq(Nat), NEW x \in Nat, Increasing(s), Below(Range(s), {x})
    PROVE  /\ s \o <<x>> \in Seq(Nat) /\ Len(s \o <<x>>) = Len(s) + 1
           /\ Increasing(s \o <<x>>) /\ Range(s \o <<x>>) = Range(s) \cup {x}
<1> DEFINE t == s \o <<x>>
<1>1. t \in Seq(Nat) /\ Len(t) = Len(s) + 1 /\ Len(s) \in Nat
  OBVIOUS
<1>2. \A i \in 1 .. Len(s) : t[i] = s[i]
  OBVIOUS
<1>3. t[Len(s) + 1] = x
  OBVIOUS
<1> HIDE DEF t
<1>4. \A i \in 1 .. Len(t) : i \in 1 .. Len(s) \/ i = Len(s) + 1
  BY <1>1
<1>5. Increasing(t)
  <2> SUFFICES ASSUME NEW i \in 1 .. Len(t), NEW j \in 1 .. Len(t), i < j
               PROVE  t[i] < t[j]
    BY DEF Increasing
  <2>1. i \in 1 .. Len(s) /\ t[i] = s[i] /\ s[i] \in Range(s)
    BY <1>1, <1>2, RangeOf
  <2>2. CASE j \in 1 .. Len(s)
    BY <1>2, <2>1, <2>2 DEF Increasing
  <2>3. CASE j = Len(s) + 1
    BY <1>3, <2>1, <2>3 DEF Below
  <2> QED BY <1>4, <2>2, <2>3
<1>6. Range(t) = Range(s) \cup {x}
  <2>1. \A y : y \in Range(t) <=> \E i \in 1 .. Len(t) : t[i] = y
    BY <1>1, RangeOf
  <2>2. \A y : y \in Range(s) <=> \E i \in 1 .. Len(s) : s[i] = y
    BY RangeOf
  <2>3. \A i \in 1 .. Len(s) : i \in 1 .. Len(t)
    BY <1>1
  <2>4. Len(s) + 1 \in 1 .. Len(t)
    BY <1>1
  <2> QED BY <1>2, <1>3, <1>4, <2>1, <2>2, <2>3, <2>4
<1> QED BY <1>1, <1>5, <1>6 DEF t

\* a and b are the first n and the other elements of s, which has m.
Cut(s, m, n, a, b) ==
    /\ s \in Seq(Nat) /\ m \in Nat /\ m = Len(s) /\ n \in Nat /\ n <= m /\ Increasing(s)
    /\ a \in Seq(Nat) /\ Len(a) = n /\ \A i \in 1 .. n : a[i] = s[i]
    /\ b \in Seq(Nat) /\ Len(b) = m - n /\ \A i \in 1 .. m - n : b[i] = s[n + i]

\* A sequence cut in two: the parts, described by their elements.
LEMMA Parts ==
    ASSUME NEW s, NEW m, NEW n, NEW a, NEW b, Cut(s, m, n, a, b)
    PROVE  /\ Increasing(a) /\ Increasing(b) /\ Below(Range(a), Range(b))
           /\ Range(s) = Range(a) \cup Range(b)
<1> USE DEF Cut
<1>1. \A i \in 1 .. n : i \in 1 .. m
  OBVIOUS
<1>2. \A i \in 1 .. m - n : n + i \in 1 .. m
  OBVIOUS
<1>3. Increasing(a)
  BY <1>1 DEF Increasing
<1>4. Increasing(b)
  <2> SUFFICES ASSUME NEW i \in 1 .. m - n, NEW j \in 1 .. m - n, i < j
               PROVE  b[i] < b[j]
    BY DEF Increasing
  <2>1. n + i \in 1 .. m /\ n + j \in 1 .. m
    BY <1>2
  <2>2. n + i < n + j
    OBVIOUS
  <2>3. s[n + i] < s[n + j]
    BY <2>1, <2>2 DEF Increasing
  <2> QED BY <2>3
<1>5. Below(Range(a), Range(b))
  <2> SUFFICES ASSUME NEW x \in Range(a), NEW y \in Range(b)
               PROVE  x < y
    BY DEF Below
  <2>1. PICK i \in 1 .. n : a[i] = x
    BY RangeOf
  <2>2. PICK j \in 1 .. m - n : b[j] = y
    BY RangeOf
  <2>3. i \in 1 .. m /\ n + j \in 1 .. m
    BY <1>1, <1>2
  <2>4. i < n + j
    OBVIOUS
  <2>5. s[i] < s[n + j]
    BY <2>3, <2>4 DEF Increasing
  <2> QED BY <2>1, <2>2, <2>5
<1>6. Range(s) = Range(a) \cup Range(b)
  <2>1. /\ \A y : y \in Range(s) <=> \E i \in 1 .. m : s[i] = y
        /\ \A y : y \in Range(a) <=> \E i \in 1 .. n : a[i] = y
        /\ \A y : y \in Range(b) <=> \E i \in 1 .. m - n : b[i] = y
    <3>1. \A y : y \in Range(s) <=> \E i \in 1 .. m : s[i] = y
      BY RangeOf
    <3>2. \A y : y \in Range(a) <=> \E i \in 1 .. n : a[i] = y
      BY RangeOf
    <3>3. \A y : y \in Range(b) <=> \E i \in 1 .. m - n : b[i] = y
      BY RangeOf
    <3> QED BY <3>1, <3>2, <3>3
  <2>2. ASSUME NEW y \in Range(s) PROVE y \in Range(a) \cup Range(b)
    <3>1. PICK i \in 1 .. m : s[i] = y
      BY <2>1
    <3>2. CASE i \in 1 .. n
      BY <2>1, <3>1, <3>2
    <3>3. CASE i \notin 1 .. n
      <4>1. i - n \in 1 .. m - n /\ n + (i - n) = i
        BY <3>3
      <4>2. b[i - n] = s[i]
        BY <4>1
      <4> QED BY <2>1, <3>1, <4>1, <4>2
    <3> QED BY <3>2, <3>3
  <2>3. ASSUME NEW y \in Range(a) PROVE y \in Range(s)
    BY <1>1, <2>1
  <2>4. ASSUME NEW y \in Range(b) PROVE y \in Range(s)
    <3>1. PICK j \in 1 .. m - n : b[j] = y
      BY <2>1
    <3>2. n + j \in 1 .. m /\ s[n + j] = y
      BY <1>2, <3>1
    <3> QED BY <2>1, <3>2
  <2> QED BY <2>2, <2>3, <2>4
<1> QED BY <1>3, <1>4, <1>5, <1>6

\* a and b are s cut after its n-th element.
Halves(s, n, a, b) ==
    /\ s \in Seq(Nat) /\ n \in 0 .. Len(s) /\ Increasing(s)
    /\ a = SubSeq(s, 1, n) /\ b = SubSeq(s, n + 1, Len(s))

\* The same of the two subsequences.
LEMMA Split ==
    ASSUME NEW s, NEW n, NEW a, NEW b, Halves(s, n, a, b)
    PROVE  /\ a \in Seq(Nat) /\ b \in Seq(Nat) /\ Len(a) = n /\ Len(b) = Len(s) - n
           /\ Increasing(a) /\ Increasing(b) /\ Below(Range(a), Range(b))
           /\ Range(s) = Range(a) \cup Range(b)
<1>1. Len(s) \in Nat /\ n \in Nat /\ n <= Len(s) /\ s \in Seq(Nat) /\ Increasing(s)
  BY DEF Halves
<1>2. a \in Seq(Nat) /\ Len(a) = n /\ \A i \in 1 .. n : a[i] = s[i]
  BY DEF Halves
<1>3. b \in Seq(Nat) /\ Len(b) = Len(s) - n /\ \A i \in 1 .. Len(s) - n : b[i] = s[n + i]
  BY DEF Halves
<1>4. /\ Increasing(a) /\ Increasing(b) /\ Below(Range(a), Range(b))
      /\ Range(s) = Range(a) \cup Range(b)
  <2>1. Cut(s, Len(s), n, a, b)
    BY <1>1, <1>2, <1>3 DEF Cut
  <2> QED BY <2>1, Parts
<1> QED BY <1>2, <1>3, <1>4

\* One put in front of another.
LEMMA Joined ==
    ASSUME NEW a \in Seq(Nat), NEW b \in Seq(Nat), Increasing(a), Increasing(b), Below(Range(a), Range(b)),
           NEW s, s = a \o b
    PROVE  /\ s \in Seq(Nat) /\ Len(s) = Len(a) + Len(b)
           /\ Increasing(s) /\ Range(s) = Range(a) \cup Range(b)
<1>1. s \in Seq(Nat) /\ Len(s) = Len(a) + Len(b) /\ Len(a) \in Nat /\ Len(b) \in Nat
  OBVIOUS
<1>2. \A i \in 1 .. Len(a) : s[i] = a[i] /\ i \in 1 .. Len(s)
  OBVIOUS
<1>3. \A i \in 1 .. Len(s) : i > Len(a) => s[i] = b[i - Len(a)] /\ i - Len(a) \in 1 .. Len(b)
  OBVIOUS
<1>4. Increasing(s)
  <2> SUFFICES ASSUME NEW i \in 1 .. Len(s), NEW j \in 1 .. Len(s), i < j
               PROVE  s[i] < s[j]
    BY DEF Increasing
  <2>1. CASE j \in 1 .. Len(a)
    <3>1. i \in 1 .. Len(a)
      BY <2>1
    <3> QED BY <1>2, <2>1, <3>1 DEF Increasing
  <2>2. CASE i \in 1 .. Len(a) /\ j \notin 1 .. Len(a)
    <3>1. s[i] \in Range(a)
      BY <1>2, <2>2, RangeOf
    <3>2. j > Len(a)
      BY <1>1, <2>2
    <3>3. s[j] \in Range(b)
      BY <1>3, <3>2, RangeOf
    <3> QED BY <3>1, <3>3 DEF Below
  <2>3. CASE i \notin 1 .. Len(a)
    <3>1. i > Len(a) /\ j > Len(a) /\ i - Len(a) < j - Len(a)
      BY <1>1, <2>3
    <3> QED BY <1>3, <3>1 DEF Increasing
  <2> QED BY <2>1, <2>2, <2>3
<1>5. Range(s) = Range(a) \cup Range(b)
  <2>1. /\ \A y : y \in Range(s) <=> \E i \in 1 .. Len(s) : s[i] = y
        /\ \A y : y \in Range(a) <=> \E i \in 1 .. Len(a) : a[i] = y
        /\ \A y : y \in Range(b) <=> \E i \in 1 .. Len(b) : b[i] = y
    BY <1>1, RangeOf
  <2>2. ASSUME NEW y \in Range(s) PROVE y \in Range(a) \cup Range(b)
    <3>1. PICK i \in 1 .. Len(s) : s[i] = y
      BY <2>1
    <3>2. CASE i \in 1 .. Len(a)
      BY <1>2, <2>1, <3>1, <3>2
    <3>3. CASE i > Len(a)
      BY <1>3, <2>1, <3>1, <3>3
    <3>4. i \in 1 .. Len(a) \/ i > Len(a)
      BY <1>1
    <3> QED BY <3>2, <3>3, <3>4
  <2>3. ASSUME NEW y \in Range(a) PROVE y \in Range(s)
    BY <1>2, <2>1
  <2>4. ASSUME NEW y \in Range(b) PROVE y \in Range(s)
    <3>1. PICK i \in 1 .. Len(b) : b[i] = y
      BY <2>1
    <3>2. i + Len(a) \in 1 .. Len(s) /\ i + Len(a) > Len(a) /\ (i + Len(a)) - Len(a) = i
      BY <1>1
    <3>3. s[i + Len(a)] = b[i]
      BY <1>3, <3>2
    <3> QED BY <2>1, <3>1, <3>2, <3>3
  <2> QED BY <2>2, <2>3, <2>4
<1> QED BY <1>1, <1>4, <1>5

\* As many lines as the sequence is long.
LEMMA LineCount ==
    ASSUME NEW s \in Seq(Nat), Increasing(s)
    PROVE  IsFiniteSet(Range(s)) /\ Cardinality(Range(s)) = Len(s)
<1>1. Len(s) \in Nat /\ DOMAIN s = 1 .. Len(s)
  BY RangeOf
<1>2. s \in Bijection(1 .. Len(s), Range(s))
  <2>1. s \in [1 .. Len(s) -> Range(s)]
    BY <1>1, RangeOf
  <2>2. \A i, j \in 1 .. Len(s) : s[i] = s[j] => i = j
    <3> SUFFICES ASSUME NEW i \in 1 .. Len(s), NEW j \in 1 .. Len(s), i # j
                 PROVE  s[i] # s[j]
      OBVIOUS
    <3>1. i < j \/ j < i
      BY <1>1
    <3>2. s[i] \in Nat /\ s[j] \in Nat /\ (s[i] < s[j] \/ s[j] < s[i])
      BY <3>1, RangeOf DEF Increasing
    <3> QED BY <3>2
  <2>3. \A y \in Range(s) : \E i \in 1 .. Len(s) : s[i] = y
    BY RangeOf
  <2>4. s \in Injection(1 .. Len(s), Range(s))
    BY <2>1, <2>2 DEF Injection, IsInjective
  <2>5. s \in Surjection(1 .. Len(s), Range(s))
    BY <2>1, <2>3 DEF Surjection
  <2> QED BY <2>4, <2>5 DEF Bijection
<1>3. IsFiniteSet(1 .. Len(s)) /\ Cardinality(1 .. Len(s)) = Len(s)
  <2>1. PICK m \in Nat : m = Len(s)
    BY <1>1
  <2>2. IsFiniteSet(1 .. m) /\ Cardinality(1 .. m) = IF 1 > m THEN 0 ELSE m - 1 + 1
    BY FS_Interval
  <2>3. Cardinality(1 .. m) = m
    BY <2>2
  <2> QED BY <2>1, <2>2, <2>3
<1> QED BY <1>2, <1>3, FS_Bijection DEF ExistsBijection

\* Where the lines are: waiting, in flight, at the collector, dropped.
Placed(B, S, col, los, e) ==
    /\ B \cup S \cup col \cup los = 1 .. e
    /\ Below(S, B) /\ Below(los, B) /\ los \cap S = {}
    /\ \A m \in col, x \in B \cup S : x \in col \/ m < x

\* A line is logged; h, the oldest waiting, makes room when drop holds it.
LEMMA LogPlaced ==
    ASSUME NEW e \in Nat, NEW B, NEW S, NEW col, NEW los, Placed(B, S, col, los, e),
           NEW drop \in SUBSET B, NEW R, R \subseteq B, drop \cup R = B, Below(drop, R)
    PROVE  Placed(R \cup {e + 1}, S, col, los \cup drop, e + 1)
<1>1. 1 .. (e + 1) = (1 .. e) \cup {e + 1} /\ \A x \in 1 .. e : x < e + 1
  OBVIOUS
<1>2. B \cup S \cup col \cup los = 1 .. e
  BY DEF Placed
<1>3. (R \cup {e + 1}) \cup S \cup col \cup (los \cup drop) = 1 .. (e + 1)
  BY <1>1, <1>2
<1>4. Below(S, R \cup {e + 1})
  BY <1>1, <1>2 DEF Placed, Below
<1>5. Below(los \cup drop, R \cup {e + 1})
  BY <1>1, <1>2 DEF Placed, Below
<1>6. (los \cup drop) \cap S = {}
  <2>1. \A x \in drop : x \notin S
    BY <1>2 DEF Placed, Below
  <2> QED BY <2>1 DEF Placed
<1>7. ASSUME NEW m \in col, NEW x \in (R \cup {e + 1}) \cup S
      PROVE  x \in col \/ m < x
  BY <1>1, <1>2 DEF Placed
<1> QED BY <1>3, <1>4, <1>5, <1>6, <1>7 DEF Placed

\* The oldest lines of the buffer go out.
LEMMA FlushPlaced ==
    ASSUME NEW e, NEW B, NEW col, NEW los, Placed(B, {}, col, los, e), B \subseteq Nat, los \subseteq Nat,
           NEW B1, NEW S1, B1 \cup S1 = B, Below(S1, B1)
    PROVE  Placed(B1, S1, col, los, e) /\ Below(los, S1)
<1>1. Below(los, B1) /\ Below(los, S1)
  BY DEF Placed, Below
<1>2. los \cap S1 = {}
  <2> SUFFICES ASSUME NEW x \in los, x \in S1 PROVE FALSE
    OBVIOUS
  <2>1. x \in Nat /\ x < x
    BY <1>1 DEF Below
  <2> QED BY <2>1
<1>3. B1 \cup S1 \cup col \cup los = 1 .. e
  BY DEF Placed
<1>4. \A m \in col, x \in B1 \cup S1 : x \in col \/ m < x
  BY DEF Placed
<1> QED BY <1>1, <1>2, <1>3, <1>4 DEF Placed

\* The batch is acknowledged.
LEMMA ShippedPlaced ==
    ASSUME NEW e, NEW B, NEW S, NEW col, NEW los, Placed(B, S, col, los, e)
    PROVE  Placed(B, {}, col \cup S, los, e)
<1>1. B \cup {} \cup (col \cup S) \cup los = 1 .. e
  BY DEF Placed
<1>2. Below({}, B) /\ Below(los, B)
  BY DEF Placed, Below
<1>3. \A m \in col \cup S, x \in B \cup {} : x \in col \cup S \/ m < x
  BY DEF Placed, Below
<1> QED BY <1>1, <1>2, <1>3 DEF Placed

\* The batch fails: K is put back, the rest given up, and the collector may have it all.
LEMMA FailedPlaced ==
    ASSUME NEW e, NEW B, NEW S, NEW col, NEW los, Placed(B, S, col, los, e), B \subseteq Nat, S \subseteq Nat,
           NEW K \in SUBSET S, Below(S \ K, K), K = {} \/ Below(los, S),
           NEW c, c = col \/ c = col \cup S
    PROVE  Placed(K \cup B, {}, c, los \cup (S \ K), e)
<1>1. (K \cup B) \cup {} \cup c \cup (los \cup (S \ K)) = 1 .. e
  BY DEF Placed
<1>2. Below({}, K \cup B) /\ Below(los \cup (S \ K), K \cup B)
  BY DEF Placed, Below
<1>3. \A m \in c, x \in (K \cup B) \cup {} : x \in c \/ m < x
  BY DEF Placed, Below
<1> QED BY <1>1, <1>2, <1>3 DEF Placed

-----------------------------------------------------------------------------
(* flush() and the requeue of a failed batch. *)

\* What flush() makes of the buffer buf: nothing while a batch is out, its head otherwise.
LEMMA FlushedParts ==
    ASSUME ShipAssumption, NEW buf \in Seq(Nat), Increasing(buf),
           NEW b, b = Flushed(buf).buffer, NEW s, s = Flushed(buf).sending
    PROVE  \/ b = buf /\ s = sending
           \/ /\ sending = <<>> /\ b \in Seq(Nat) /\ s \in Seq(Nat)
              /\ Increasing(b) /\ Increasing(s) /\ Below(Range(s), Range(b))
              /\ Range(b) \cup Range(s) = Range(buf)
              /\ Len(b) + Len(s) = Len(buf) /\ Len(b) <= Len(buf) /\ Len(s) <= ShipBatch
<1>1. CASE sending /= <<>> \/ buf = <<>>
  BY <1>1 DEF Flushed
<1>2. CASE ~(sending /= <<>> \/ buf = <<>>)
  <2>1. PICK n : n = IF Len(buf) < ShipBatch THEN Len(buf) ELSE ShipBatch
    OBVIOUS
  <2>2. ShipBatch \in Nat /\ Len(buf) \in Nat
    BY DEF ShipAssumption
  <2>3. n \in 0 .. Len(buf) /\ n <= ShipBatch
    BY <2>1, <2>2
  <2>4. b = SubSeq(buf, n + 1, Len(buf)) /\ s = SubSeq(buf, 1, n)
    BY <1>2, <2>1 DEF Flushed
  <2>5. Halves(buf, n, s, b)
    BY <2>3, <2>4 DEF Halves
  <2>6. /\ s \in Seq(Nat) /\ b \in Seq(Nat) /\ Len(s) = n /\ Len(b) = Len(buf) - n
        /\ Increasing(s) /\ Increasing(b) /\ Below(Range(s), Range(b))
        /\ Range(buf) = Range(s) \cup Range(b)
    BY <2>5, Split
  <2>7. Len(b) + Len(s) = Len(buf) /\ Len(b) <= Len(buf) /\ Len(s) <= ShipBatch
    BY <2>2, <2>3, <2>6
  <2> QED BY <1>2, <2>6, <2>7
<1> QED BY <1>1, <1>2

\* What is put back: the newest lines of the batch, and no more than there is room for.
LEMMA RequeuedParts ==
    ASSUME ShipAssumption, buffer \in Seq(Nat), sending \in Seq(Nat), Increasing(sending),
           Len(buffer) <= MaxBuffer, NEW keep, keep = Requeued(Room)
    PROVE  /\ keep \in Seq(Nat) /\ Increasing(keep)
           /\ Range(keep) \subseteq Range(sending)
           /\ Below(Range(sending) \ Range(keep), Range(keep))
           /\ Len(keep) <= Len(sending) /\ Len(keep) + Len(buffer) <= MaxBuffer
           /\ Len(buffer) = MaxBuffer => Range(keep) = {}
<1>1. PICK n \in Nat : n = Len(sending)
  OBVIOUS
<1>2. PICK k \in Nat : k = Len(buffer)
  OBVIOUS
<1>3. MaxBuffer \in Nat /\ k <= MaxBuffer
  BY <1>2 DEF ShipAssumption
<1>4. PICK r \in Nat : r = Room /\ r + k = MaxBuffer
  BY <1>2, <1>3 DEF Room
<1>5. PICK o \in Nat : o = IF n > r THEN n - r ELSE 0
  <2>1. n > r => n - r \in Nat
    OBVIOUS
  <2> QED BY <2>1
<1>6. o \in 0 .. Len(sending) /\ o + 1 = IF n > r THEN n - r + 1 ELSE 1
  BY <1>1, <1>4, <1>5
<1>7. keep = SubSeq(sending, o + 1, Len(sending))
  BY <1>1, <1>4, <1>6 DEF Requeued
<1>8. PICK rest : rest = SubSeq(sending, 1, o)
  OBVIOUS
<1>9. Halves(sending, o, rest, keep)
  BY <1>6, <1>7, <1>8 DEF Halves
<1>10. /\ keep \in Seq(Nat) /\ rest \in Seq(Nat) /\ Len(keep) = Len(sending) - o
      /\ Increasing(keep) /\ Below(Range(rest), Range(keep))
      /\ Range(sending) = Range(rest) \cup Range(keep)
  BY <1>9, Split
<1>11. Below(Range(sending) \ Range(keep), Range(keep)) /\ Range(keep) \subseteq Range(sending)
  BY <1>10 DEF Below
<1>12. PICK l \in Nat : l = Len(keep) /\ l = n - o
  <2>1. Len(keep) \in Nat /\ Len(keep) = n - o
    BY <1>1, <1>10
  <2> QED BY <2>1
<1>13. l <= n /\ l <= r
  BY <1>5, <1>12
<1>14. Len(keep) <= Len(sending) /\ Len(keep) + Len(buffer) <= MaxBuffer
  BY <1>1, <1>2, <1>3, <1>4, <1>12, <1>13
<1>15. ASSUME Len(buffer) = MaxBuffer PROVE Range(keep) = {}
  <2>1. l = 0
    BY <1>2, <1>3, <1>4, <1>13, <1>15
  <2>2. \A x : x \notin Range(keep)
    BY <1>10, <1>12, <2>1, RangeOf
  <2> QED BY <2>2
<1> QED BY <1>10, <1>11, <1>14, <1>15

-----------------------------------------------------------------------------
(* The invariant of the shipper. *)

\* The two sequences a line can wait in, within their caps.
QueuesOK ==
    /\ buffer \in Seq(Nat) /\ Increasing(buffer) /\ Len(buffer) <= MaxBuffer
    /\ sending \in Seq(Nat) /\ Increasing(sending) /\ Len(sending) <= ShipBatch

StatsOK ==
    /\ stats \in [emitted : Nat, shipped : Nat, dropped : Nat]
    /\ stats.emitted <= LineBound
    /\ stats.emitted = stats.shipped + stats.dropped + Len(buffer) + Len(sending)
    /\ IsFiniteSet(lost) /\ stats.dropped = Cardinality(lost)

LinesPlaced == Placed(Range(buffer), Range(sending), collected, lost, stats.emitted)

\* A line newer than the batch in flight is dropped only from a full buffer, and then the
\* batch has no room to come back to.
BatchOutdated == Len(buffer) = MaxBuffer \/ Below(lost, Range(sending))

ShipInv == QueuesOK /\ StatsOK /\ LinesPlaced /\ BatchOutdated

\* An empty sequence has no lines.
LEMMA NoLines == <<>> \in Seq(Nat) /\ Len(<<>>) = 0 /\ Range(<<>>) = {} /\ Increasing(<<>>)
BY DEF Range, Increasing

\* A call of flush() with buf in the buffer.
LEMMA FlushStep ==
    ASSUME ShipAssumption, NEW buf \in Seq(Nat), Increasing(buf), Len(buf) <= MaxBuffer,
           sending \in Seq(Nat), Increasing(sending), Len(sending) <= ShipBatch,
           NEW col, NEW los, los \subseteq Nat, NEW e,
           Placed(Range(buf), Range(sending), col, los, e),
           Len(buf) = MaxBuffer \/ Below(los, Range(sending)),
           Flushes(buf)
    PROVE  /\ QueuesOK' /\ Placed(Range(buffer'), Range(sending'), col, los, e)
           /\ Len(buffer') + Len(sending') = Len(buf) + Len(sending)
           /\ Len(buffer') = MaxBuffer \/ Below(los, Range(sending'))
<1> DEFINE b == Flushed(buf).buffer
           s == Flushed(buf).sending
<1>1. buffer' = b /\ sending' = s
  BY DEF Flushes
<1>2. \/ b = buf /\ s = sending
      \/ /\ sending = <<>> /\ b \in Seq(Nat) /\ s \in Seq(Nat)
         /\ Increasing(b) /\ Increasing(s) /\ Below(Range(s), Range(b))
         /\ Range(b) \cup Range(s) = Range(buf)
         /\ Len(b) + Len(s) = Len(buf) /\ Len(b) <= Len(buf) /\ Len(s) <= ShipBatch
  BY FlushedParts
<1> HIDE DEF b, s
<1>3. CASE b = buf /\ s = sending
  BY <1>1, <1>3 DEF QueuesOK, Increasing
<1>4. CASE ~(b = buf /\ s = sending)
  <2>1. Range(sending) = {} /\ Len(sending) = 0 /\ sending = <<>>
    BY <1>2, <1>4, NoLines
  <2>2. Placed(Range(b), Range(s), col, los, e) /\ Below(los, Range(s))
    <3>1. Range(buf) \subseteq Nat
      BY RangeOf
    <3>2. Placed(Range(buf), {}, col, los, e)
      BY <2>1
    <3> QED BY <1>2, <1>4, <3>1, <3>2, FlushPlaced
  <2>3. Len(b) <= MaxBuffer
    <3>1. PICK l \in Nat : l = Len(b)
      BY <1>2, <1>4
    <3>2. PICK k \in Nat : k = Len(buf)
      OBVIOUS
    <3>3. MaxBuffer \in Nat
      BY DEF ShipAssumption
    <3> QED BY <1>2, <1>4, <3>1, <3>2, <3>3
  <2>4. QueuesOK'
    BY <1>1, <1>2, <1>4, <2>3 DEF QueuesOK, Increasing
  <2>5. Len(b) + Len(s) = Len(buf) + Len(sending)
    BY <1>2, <1>4, <2>1
  <2> QED BY <1>1, <2>2, <2>4, <2>5
<1> QED BY <1>3, <1>4

\* One line more, one fewer: what the counters say of it.
LEMMA Counted ==
    ASSUME NEW st \in [emitted : Nat, shipped : Nat, dropped : Nat], NEW d \in Nat,
           NEW r, r = [st EXCEPT !.emitted = @ + 1, !.dropped = @ + d]
    PROVE  /\ r \in [emitted : Nat, shipped : Nat, dropped : Nat]
           /\ r.emitted = st.emitted + 1 /\ r.shipped = st.shipped /\ r.dropped = st.dropped + d
<1>1. st.emitted \in Nat /\ st.dropped \in Nat
  OBVIOUS
<1>2. PICK e \in Nat : e = st.emitted + 1
  BY <1>1
<1>3. PICK g \in Nat : g = st.dropped + d
  BY <1>1
<1>4. r = [[st EXCEPT !.emitted = e] EXCEPT !.dropped = g]
  BY <1>2, <1>3
<1>5. [st EXCEPT !.emitted = e] \in [emitted : Nat, shipped : Nat, dropped : Nat]
  OBVIOUS
<1>6. r \in [emitted : Nat, shipped : Nat, dropped : Nat]
  BY <1>4, <1>5
<1>7. r.emitted = e /\ r.shipped = st.shipped /\ r.dropped = g
  BY <1>4
<1> QED BY <1>2, <1>3, <1>6, <1>7

\* What a new line leaves of the buffer, and what it pushes out.
MadeRoom(rest, drop) ==
    /\ rest = IF Len(buffer) >= MaxBuffer THEN Tail(buffer) ELSE buffer
    /\ drop = IF Len(buffer) >= MaxBuffer THEN {Head(buffer)} ELSE {}

\* The oldest line of a full buffer makes room, nothing otherwise.
LEMMA RoomMade ==
    ASSUME ShipAssumption, QueuesOK, NEW rest, NEW drop, MadeRoom(rest, drop)
    PROVE  /\ rest \in Seq(Nat) /\ Increasing(rest)
           /\ Range(rest) \cup drop = Range(buffer) /\ Below(drop, Range(rest))
           /\ Len(rest) + 1 <= MaxBuffer
           /\ \/ /\ Len(buffer) = MaxBuffer /\ Len(rest) + 1 = Len(buffer)
                 /\ drop = {Head(buffer)} /\ Head(buffer) \in Range(buffer)
              \/ Len(buffer) < MaxBuffer /\ drop = {} /\ rest = buffer
<1> USE DEF QueuesOK, MadeRoom
<1>1. PICK k \in Nat : k = Len(buffer)
  OBVIOUS
<1>2. MaxBuffer \in Nat /\ MaxBuffer > 0 /\ k <= MaxBuffer
  BY <1>1 DEF ShipAssumption
<1>3. CASE k = MaxBuffer
  <2>1. k >= 1 /\ k >= MaxBuffer
    BY <1>2, <1>3
  <2>2. buffer /= <<>> /\ 1 \in 0 .. Len(buffer)
    BY <1>1, <2>1
  <2>3. PICK h : h = SubSeq(buffer, 1, 1)
    OBVIOUS
  <2>4. rest = Tail(buffer) /\ drop = {Head(buffer)}
    BY <1>1, <2>1
  <2>5. Tail(buffer) = SubSeq(buffer, 1 + 1, Len(buffer))
    BY <2>2
  <2>6. Halves(buffer, 1, h, rest)
    BY <2>2, <2>3, <2>4, <2>5 DEF Halves
  <2>7. PICK n \in Nat : n = 1
    OBVIOUS
  <2>8. Halves(buffer, n, h, rest)
    BY <2>6, <2>7
  <2>9. /\ h \in Seq(Nat) /\ rest \in Seq(Nat) /\ Len(h) = n /\ Len(rest) = Len(buffer) - n
         /\ Increasing(rest) /\ Below(Range(h), Range(rest))
         /\ Range(buffer) = Range(h) \cup Range(rest)
    <3> HIDE DEF QueuesOK, MadeRoom
    <3> QED BY <2>8, Split
  <2>10. /\ h \in Seq(Nat) /\ rest \in Seq(Nat) /\ Len(h) = 1 /\ Len(rest) = Len(buffer) - 1
         /\ Increasing(rest) /\ Below(Range(h), Range(rest))
         /\ Range(buffer) = Range(h) \cup Range(rest)
    BY <2>7, <2>9
  <2>11. Range(h) = {Head(buffer)}
    <3>1. h[1] = buffer[1]
      BY <2>2, <2>3
    <3>2. Head(buffer) = buffer[1]
      BY <2>2
    <3>3. \A x : x \in Range(h) <=> \E i \in 1 .. Len(h) : h[i] = x
      BY <2>10, RangeOf, Zenon
    <3>4. \A x : x \in Range(h) <=> \E i \in 1 .. 1 : h[i] = x
      BY <2>10, <3>3
    <3>5. \A i : i \in 1 .. 1 <=> i = 1
      OBVIOUS
    <3> QED BY <3>1, <3>4, <3>5, <3>2
  <2>12. Len(rest) + 1 = k
    BY <1>1, <2>10
  <2> QED BY <1>1, <1>3, <2>4, <2>10, <2>11, <2>12
<1>4. CASE k < MaxBuffer
  <2>1. rest = buffer /\ drop = {}
    BY <1>1, <1>2, <1>4
  <2>2. Len(rest) + 1 <= MaxBuffer /\ Len(buffer) < MaxBuffer
    BY <1>1, <1>2, <1>4, <2>1
  <2> QED BY <2>1, <2>2 DEF Below
<1> QED BY <1>2, <1>3, <1>4

-----------------------------------------------------------------------------
(* Every step keeps it. *)

\* Numbers of lines.
LEMMA Lengths ==
    ASSUME QueuesOK
    PROVE  Len(buffer) \in Nat /\ Len(sending) \in Nat
BY DEF QueuesOK

\* The lines are numbers.
LEMMA LinesAreNumbers ==
    ASSUME QueuesOK, LinesPlaced, stats.emitted \in Nat
    PROVE  /\ Range(buffer) \subseteq 1 .. stats.emitted /\ Range(sending) \subseteq 1 .. stats.emitted
           /\ lost \subseteq 1 .. stats.emitted /\ collected \subseteq 1 .. stats.emitted
           /\ lost \cap Range(buffer) = {}
<1>1. Range(buffer) \cup Range(sending) \cup collected \cup lost = 1 .. stats.emitted
  BY DEF LinesPlaced, Placed
<1>2. ASSUME NEW x \in lost, x \in Range(buffer) PROVE FALSE
  <2>1. x < x
    BY <1>2 DEF LinesPlaced, Placed, Below
  <2>2. x \in Nat
    BY <1>1
  <2> QED BY <2>1, <2>2
<1> QED BY <1>1, <1>2

\* A line is logged.
LEMMA LogKeeps ==
    ASSUME ShipAssumption, ShipInv, Log
    PROVE  ShipInv'
<1>1. stats \in [emitted : Nat, shipped : Nat, dropped : Nat]
  BY DEF ShipInv, StatsOK
<1>2. PICK e \in Nat : e = stats.emitted
  BY <1>1
<1>3. PICK rest : rest = IF Len(buffer) >= MaxBuffer THEN Tail(buffer) ELSE buffer
  OBVIOUS
<1>4. PICK drop : drop = IF Len(buffer) >= MaxBuffer THEN {Head(buffer)} ELSE {}
  OBVIOUS
<1>5. PICK buf : buf = rest \o <<e + 1>>
  OBVIOUS
<1>6. PICK d \in Nat : d = IF Len(buffer) >= MaxBuffer THEN 1 ELSE 0
  OBVIOUS
<1>7. /\ e < LineBound
      /\ stats' = [stats EXCEPT !.emitted = @ + 1, !.dropped = @ + d]
      /\ lost' = lost \cup drop
      /\ Flushes(buf) \/ (buffer' = buf /\ sending' = sending)
      /\ collected' = collected
  BY <1>2, <1>3, <1>4, <1>5, <1>6 DEF Log
<1>8. /\ rest \in Seq(Nat) /\ Increasing(rest)
      /\ Range(rest) \cup drop = Range(buffer) /\ Below(drop, Range(rest))
      /\ Len(rest) + 1 <= MaxBuffer
      /\ \/ /\ Len(buffer) = MaxBuffer /\ Len(rest) + 1 = Len(buffer)
            /\ drop = {Head(buffer)} /\ Head(buffer) \in Range(buffer)
         \/ Len(buffer) < MaxBuffer /\ drop = {} /\ rest = buffer
  <2>1. QueuesOK /\ MadeRoom(rest, drop)
    BY <1>3, <1>4 DEF ShipInv, MadeRoom
  <2> QED BY <2>1, RoomMade
<1>9. PICK k \in Nat : k = Len(buffer)
  BY Lengths DEF ShipInv
<1>10. PICK n \in Nat : n = Len(sending)
  BY Lengths DEF ShipInv
<1>11. PICK r \in Nat : r = Len(rest)
  BY <1>8
<1>12. MaxBuffer \in Nat /\ LineBound \in Nat
  BY DEF ShipAssumption
<1>13. r + d = k /\ r + 1 <= MaxBuffer
  BY <1>6, <1>8, <1>9, <1>11, <1>12
<1>14. /\ Range(buffer) \subseteq 1 .. e /\ Range(sending) \subseteq 1 .. e /\ lost \subseteq 1 .. e
       /\ lost \cap Range(buffer) = {}
  BY <1>2, LinesAreNumbers DEF ShipInv
<1>15. Below(Range(rest), {e + 1})
  BY <1>8, <1>14 DEF Below
<1>16. /\ buf \in Seq(Nat) /\ Len(buf) = r + 1 /\ Increasing(buf) /\ Range(buf) = Range(rest) \cup {e + 1}
  BY <1>5, <1>8, <1>11, <1>15, Appended
<1>17. Placed(Range(buf), Range(sending), collected, lost \cup drop, e + 1)
  <2>1. Placed(Range(buffer), Range(sending), collected, lost, e)
    BY <1>2 DEF ShipInv, LinesPlaced
  <2>2. drop \in SUBSET Range(buffer) /\ Range(rest) \subseteq Range(buffer) /\ drop \cup Range(rest) = Range(buffer)
    BY <1>8
  <2>3. Placed(Range(rest) \cup {e + 1}, Range(sending), collected, lost \cup drop, e + 1)
    BY <1>8, <2>1, <2>2, LogPlaced
  <2> QED BY <1>16, <2>3
<1>18. Len(buf) = MaxBuffer \/ Below(lost \cup drop, Range(sending))
  <2>1. CASE k = MaxBuffer
    BY <1>8, <1>9, <1>11, <1>12, <1>16, <2>1
  <2>2. CASE k < MaxBuffer
    <3>1. drop = {} /\ Len(buffer) /= MaxBuffer
      BY <1>8, <1>9, <1>12, <2>2
    <3> QED BY <3>1 DEF ShipInv, BatchOutdated
  <2> QED BY <1>8, <1>9, <2>1, <2>2
<1>19. /\ QueuesOK' /\ Placed(Range(buffer'), Range(sending'), collected, lost \cup drop, e + 1)
       /\ Len(buffer') + Len(sending') = (r + 1) + n
       /\ Len(buffer') = MaxBuffer \/ Below(lost \cup drop, Range(sending'))
  <2>1. CASE Flushes(buf)
    <3>1. sending \in Seq(Nat) /\ Increasing(sending) /\ Len(sending) <= ShipBatch
      BY DEF ShipInv, QueuesOK
    <3>2. Len(buf) <= MaxBuffer
      BY <1>13, <1>16
    <3>3. lost \cup drop \subseteq Nat
      <4>1. drop \subseteq 1 .. e
        BY <1>8, <1>14
      <4> QED BY <1>14, <4>1
    <3>4. /\ QueuesOK' /\ Placed(Range(buffer'), Range(sending'), collected, lost \cup drop, e + 1)
          /\ Len(buffer') + Len(sending') = Len(buf) + Len(sending)
          /\ Len(buffer') = MaxBuffer \/ Below(lost \cup drop, Range(sending'))
      BY <1>16, <1>17, <1>18, <2>1, <3>1, <3>2, <3>3, FlushStep
    <3> QED BY <1>10, <1>16, <3>4
  <2>2. CASE buffer' = buf /\ sending' = sending
    <3>1. QueuesOK'
      BY <1>13, <1>16, <2>2 DEF ShipInv, QueuesOK, Increasing
    <3> QED BY <1>10, <1>16, <1>17, <1>18, <2>2, <3>1
  <2> QED BY <1>7, <2>1, <2>2
<1>20. /\ stats' \in [emitted : Nat, shipped : Nat, dropped : Nat]
       /\ stats'.emitted = e + 1 /\ stats'.shipped = stats.shipped /\ stats'.dropped = stats.dropped + d
  BY <1>1, <1>2, <1>7, Counted
<1>21. StatsOK'
  <2>1. stats'.emitted <= LineBound
    BY <1>7, <1>12, <1>20
  <2>2. stats'.emitted = stats'.shipped + stats'.dropped + Len(buffer') + Len(sending')
    <3>1. PICK a \in Nat, c \in Nat : a = stats.shipped /\ c = stats.dropped
      BY <1>1
    <3>2. e = a + c + k + n
      BY <1>2, <1>9, <1>10, <3>1 DEF ShipInv, StatsOK
    <3>3. PICK x \in Nat, y \in Nat : x = Len(buffer') /\ y = Len(sending')
      BY <1>19 DEF QueuesOK
    <3>4. x + y = (r + 1) + n
      BY <1>19, <3>3
    <3>5. e + 1 = a + (c + d) + x + y
      BY <1>13, <3>2, <3>4
    <3> QED BY <1>20, <3>1, <3>3, <3>5
  <2>3. IsFiniteSet(lost') /\ stats'.dropped = Cardinality(lost')
    <3>1. IsFiniteSet(lost) /\ stats.dropped = Cardinality(lost)
      BY DEF ShipInv, StatsOK
    <3>2. CASE k = MaxBuffer
      <4>1. drop = {Head(buffer)} /\ Head(buffer) \notin lost /\ d = 1
        BY <1>6, <1>8, <1>9, <1>12, <1>14, <3>2
      <4>2. /\ IsFiniteSet(lost \cup {Head(buffer)})
            /\ Cardinality(lost \cup {Head(buffer)}) = Cardinality(lost) + 1
        BY <3>1, <4>1, FS_AddElement
      <4> QED BY <1>7, <1>20, <3>1, <4>1, <4>2
    <3>3. CASE k < MaxBuffer
      <4>1. drop = {} /\ d = 0 /\ lost' = lost
        BY <1>6, <1>7, <1>8, <1>9, <1>12, <3>3
      <4> QED BY <1>1, <1>20, <3>1, <4>1
    <3> QED BY <1>8, <1>9, <3>2, <3>3
  <2> QED BY <1>20, <2>1, <2>2, <2>3 DEF StatsOK
<1>22. LinesPlaced' /\ BatchOutdated'
  BY <1>7, <1>19, <1>20 DEF LinesPlaced, BatchOutdated
<1> QED BY <1>19, <1>21, <1>22 DEF ShipInv

\* flush() moves lines, and counts nothing.
LEMMA FlushKeeps ==
    ASSUME ShipAssumption, ShipInv, Flushes(buffer), UNCHANGED <<stats, collected, lost>>
    PROVE  ShipInv'
<1>1. /\ buffer \in Seq(Nat) /\ Increasing(buffer) /\ Len(buffer) <= MaxBuffer
      /\ sending \in Seq(Nat) /\ Increasing(sending) /\ Len(sending) <= ShipBatch
  BY DEF ShipInv, QueuesOK
<1>2. stats.emitted \in Nat
  BY DEF ShipInv, StatsOK
<1>3. lost \subseteq Nat
  BY <1>2, LinesAreNumbers DEF ShipInv
<1>4. /\ Placed(Range(buffer), Range(sending), collected, lost, stats.emitted)
      /\ Len(buffer) = MaxBuffer \/ Below(lost, Range(sending))
  BY DEF ShipInv, LinesPlaced, BatchOutdated
<1>5. /\ QueuesOK' /\ Placed(Range(buffer'), Range(sending'), collected, lost, stats.emitted)
      /\ Len(buffer') + Len(sending') = Len(buffer) + Len(sending)
      /\ Len(buffer') = MaxBuffer \/ Below(lost, Range(sending'))
  BY <1>1, <1>3, <1>4, FlushStep
<1>6. StatsOK'
  <2>1. PICK a \in Nat, c \in Nat : a = stats.shipped /\ c = stats.dropped
    BY DEF ShipInv, StatsOK
  <2>2. PICK x \in Nat, y \in Nat : x = Len(buffer') /\ y = Len(sending')
    BY <1>5 DEF QueuesOK
  <2>3. PICK k \in Nat, n \in Nat : k = Len(buffer) /\ n = Len(sending)
    BY <1>1
  <2>4. stats.emitted = a + c + k + n
    BY <2>1, <2>3 DEF ShipInv, StatsOK
  <2>5. x + y = k + n
    BY <1>5, <2>2, <2>3
  <2>6. stats.emitted = a + c + x + y
    BY <2>4, <2>5
  <2>7. /\ stats \in [emitted : Nat, shipped : Nat, dropped : Nat] /\ stats.emitted <= LineBound
        /\ IsFiniteSet(lost) /\ stats.dropped = Cardinality(lost)
    BY DEF ShipInv, StatsOK
  <2> QED BY <2>1, <2>2, <2>6, <2>7 DEF StatsOK
<1>7. LinesPlaced' /\ BatchOutdated'
  BY <1>5 DEF LinesPlaced, BatchOutdated
<1> QED BY <1>5, <1>6, <1>7 DEF ShipInv

\* The batch is acknowledged.
LEMMA ShippedKeeps ==
    ASSUME ShipAssumption, ShipInv, BatchShipped
    PROVE  ShipInv'
<1>1. stats \in [emitted : Nat, shipped : Nat, dropped : Nat]
  BY DEF ShipInv, StatsOK
<1>2. PICK k \in Nat, n \in Nat : k = Len(buffer) /\ n = Len(sending)
  BY Lengths DEF ShipInv
<1>3. PICK a \in Nat, c \in Nat : a = stats.shipped /\ c = stats.dropped
  BY <1>1
<1>4. stats' = [stats EXCEPT !.shipped = a + n]
  BY <1>2, <1>3 DEF BatchShipped
<1>5. PICK g \in Nat : g = a + n
  OBVIOUS
<1>6. /\ stats' \in [emitted : Nat, shipped : Nat, dropped : Nat]
      /\ stats'.emitted = stats.emitted /\ stats'.shipped = g /\ stats'.dropped = stats.dropped
  BY <1>1, <1>4, <1>5
<1>7. /\ buffer' = buffer /\ sending' = <<>> /\ lost' = lost /\ collected' = collected \cup Range(sending)
  BY DEF BatchShipped
<1>8. ShipBatch \in Nat
  BY DEF ShipAssumption
<1>9. Range(sending') = {} /\ Len(sending') = 0
  BY <1>7, NoLines
<1>10. QueuesOK'
  BY <1>7, <1>8, <1>9, NoLines DEF ShipInv, QueuesOK, Increasing
<1>11. StatsOK'
  <2>1. stats.emitted = a + c + k + n
    BY <1>2, <1>3 DEF ShipInv, StatsOK
  <2>2. stats.emitted = g + c + k + 0
    BY <1>5, <2>1
  <2>3. stats.emitted <= LineBound /\ IsFiniteSet(lost) /\ stats.dropped = Cardinality(lost)
    BY DEF ShipInv, StatsOK
  <2> QED BY <1>2, <1>3, <1>6, <1>7, <1>9, <2>2, <2>3 DEF StatsOK
<1>12. LinesPlaced'
  <2>1. Placed(Range(buffer), {}, collected \cup Range(sending), lost, stats.emitted)
    BY ShippedPlaced DEF ShipInv, LinesPlaced
  <2> QED BY <1>6, <1>7, <1>9, <2>1 DEF LinesPlaced
<1>13. BatchOutdated'
  BY <1>9 DEF BatchOutdated, Below
<1> QED BY <1>10, <1>11, <1>12, <1>13 DEF ShipInv

\* The batch fails, and what the buffer has room for is put back.
LEMMA FailedKeeps ==
    ASSUME ShipAssumption, ShipInv, NEW delivered \in BOOLEAN, BatchFailed(delivered)
    PROVE  ShipInv'
<1>1. stats \in [emitted : Nat, shipped : Nat, dropped : Nat]
  BY DEF ShipInv, StatsOK
<1>2. PICK k \in Nat, n \in Nat : k = Len(buffer) /\ n = Len(sending)
  BY Lengths DEF ShipInv
<1>3. PICK a \in Nat, c \in Nat : a = stats.shipped /\ c = stats.dropped
  BY <1>1
<1>4. PICK keep : keep = Requeued(Room)
  OBVIOUS
<1>5. /\ buffer \in Seq(Nat) /\ Increasing(buffer) /\ Len(buffer) <= MaxBuffer
      /\ sending \in Seq(Nat) /\ Increasing(sending)
  BY DEF ShipInv, QueuesOK
<1>6. /\ keep \in Seq(Nat) /\ Increasing(keep) /\ Range(keep) \subseteq Range(sending)
      /\ Below(Range(sending) \ Range(keep), Range(keep))
      /\ Len(keep) <= Len(sending) /\ Len(keep) + Len(buffer) <= MaxBuffer
      /\ Len(buffer) = MaxBuffer => Range(keep) = {}
  BY <1>4, <1>5, RequeuedParts
<1>7. /\ stats' = [stats EXCEPT !.dropped = @ + (Len(sending) - Len(keep))]
      /\ lost' = lost \cup (Range(sending) \ Range(keep))
      /\ buffer' = keep \o buffer /\ sending' = <<>>
      /\ collected' = collected \/ collected' = collected \cup Range(sending)
  BY <1>4 DEF BatchFailed, PutBack, GivenUp
<1>8. PICK l \in Nat : l = Len(keep) /\ l <= n
  BY <1>2, <1>6
<1>9. PICK x \in Nat : x = n - l
  BY <1>8
<1>10. PICK g \in Nat : g = c + x
  OBVIOUS
<1>11. stats' = [stats EXCEPT !.dropped = g]
  BY <1>2, <1>3, <1>7, <1>8, <1>9, <1>10
<1>12. /\ stats' \in [emitted : Nat, shipped : Nat, dropped : Nat]
       /\ stats'.emitted = stats.emitted /\ stats'.shipped = stats.shipped /\ stats'.dropped = g
  BY <1>1, <1>11
<1>13. Range(sending') = {} /\ Len(sending') = 0
  BY <1>7, NoLines
<1>14. Below(Range(keep), Range(buffer))
  BY <1>6 DEF ShipInv, LinesPlaced, Placed, Below
<1>15. PICK s : s = keep \o buffer
  OBVIOUS
<1>16. /\ s \in Seq(Nat) /\ Len(s) = Len(keep) + Len(buffer)
       /\ Increasing(s) /\ Range(s) = Range(keep) \cup Range(buffer)
  BY <1>5, <1>6, <1>14, <1>15, Joined
<1>17. buffer' = s
  BY <1>7, <1>15
<1>18. QueuesOK'
  <2>1. ShipBatch \in Nat
    BY DEF ShipAssumption
  <2>2. Len(s) <= MaxBuffer
    BY <1>6, <1>16
  <2>3. buffer' \in Seq(Nat) /\ Increasing(buffer)' /\ Len(buffer') <= MaxBuffer
    BY <1>16, <1>17, <2>2 DEF Increasing
  <2>4. sending' \in Seq(Nat) /\ Increasing(sending)' /\ Len(sending') <= ShipBatch
    BY <1>7, <1>13, <2>1, NoLines DEF Increasing
  <2> QED BY <2>3, <2>4 DEF QueuesOK
<1>19. Range(sending) \subseteq Nat /\ Range(buffer) \subseteq Nat
  BY <1>5, RangeOf
<1>20. StatsOK'
  <2>1. stats.emitted = a + c + k + n
    BY <1>2, <1>3 DEF ShipInv, StatsOK
  <2>2. stats.emitted = a + g + (l + k) + 0
    BY <1>8, <1>9, <1>10, <2>1
  <2>3. Len(buffer') = l + k
    BY <1>2, <1>8, <1>16, <1>17
  <2>4. stats.emitted <= LineBound /\ IsFiniteSet(lost) /\ c = Cardinality(lost)
    BY <1>3 DEF ShipInv, StatsOK
  <2>5. IsFiniteSet(lost') /\ Cardinality(lost') = g
    <3>1. IsFiniteSet(Range(sending)) /\ Cardinality(Range(sending)) = n
      BY <1>2, <1>5, LineCount
    <3>2. Cardinality(Range(keep)) = l
      BY <1>6, <1>8, LineCount
    <3>3. PICK D : D = Range(sending) \ Range(keep)
      OBVIOUS
    <3>4. Range(sending) \cap Range(keep) = Range(keep)
      BY <1>6
    <3>5. IsFiniteSet(D) /\ Cardinality(D) = Cardinality(Range(sending)) - Cardinality(Range(sending) \cap Range(keep))
      BY <3>1, <3>3, FS_Difference
    <3>6. Cardinality(D) = x
      BY <1>9, <3>1, <3>2, <3>4, <3>5
    <3>7. lost \cap D = {}
      BY <3>3 DEF ShipInv, LinesPlaced, Placed
    <3>8. /\ IsFiniteSet(lost \cup D)
          /\ Cardinality(lost \cup D) = Cardinality(lost) + Cardinality(D) - Cardinality(lost \cap D)
      BY <2>4, <3>5, FS_Union
    <3>9. Cardinality(lost \cap D) = 0
      BY <3>7, FS_EmptySet
    <3>10. Cardinality(lost \cup D) = g
      BY <1>10, <2>4, <3>6, <3>8, <3>9
    <3> QED BY <1>7, <3>3, <3>8, <3>10
  <2> QED BY <1>3, <1>12, <1>13, <2>2, <2>3, <2>4, <2>5 DEF StatsOK
<1>21. LinesPlaced'
  <2>1. Placed(Range(buffer), Range(sending), collected, lost, stats.emitted)
    BY DEF ShipInv, LinesPlaced
  <2>2. Range(keep) = {} \/ Below(lost, Range(sending))
    BY <1>6 DEF ShipInv, BatchOutdated
  <2>3. Placed(Range(keep) \cup Range(buffer), {}, collected', lost \cup (Range(sending) \ Range(keep)), stats.emitted)
    BY <1>6, <1>7, <1>19, <2>1, <2>2, FailedPlaced
  <2> QED BY <1>7, <1>12, <1>13, <1>16, <1>17, <2>3 DEF LinesPlaced
<1>22. BatchOutdated'
  BY <1>13 DEF BatchOutdated, Below
<1> QED BY <1>18, <1>20, <1>21, <1>22 DEF ShipInv

\* The invariant of the shipper is inductive.
LEMMA ShipInvariant == ShipSpec => []ShipInv
<1>1. ShipInit => ShipInv
  <2> SUFFICES ASSUME ShipInit PROVE ShipInv
    OBVIOUS
  <2>1. buffer = <<>> /\ sending = <<>> /\ lost = {} /\ collected = {} /\ stats = [emitted |-> 0, shipped |-> 0, dropped |-> 0]
    BY DEF ShipInit
  <2>2. MaxBuffer \in Nat /\ ShipBatch \in Nat /\ LineBound \in Nat
    BY ShipAssumption DEF ShipAssumption
  <2>3. QueuesOK
    BY <2>1, <2>2, NoLines DEF QueuesOK
  <2>4. StatsOK
    BY <2>1, <2>2, NoLines, FS_EmptySet DEF StatsOK
  <2>5. LinesPlaced /\ BatchOutdated
    BY <2>1, NoLines DEF LinesPlaced, BatchOutdated, Placed, Below
  <2> QED BY <2>3, <2>4, <2>5 DEF ShipInv
<1>2. ShipInv /\ [ShipNext]_shipVars => ShipInv'
  <2> SUFFICES ASSUME ShipInv, [ShipNext]_shipVars PROVE ShipInv'
    OBVIOUS
  <2>1. CASE Log
    BY <2>1, LogKeeps, ShipAssumption
  <2>2. CASE FlushTimer
    BY <2>2, FlushKeeps, ShipAssumption DEF FlushTimer
  <2>3. CASE StopShipper
    BY <2>3, FlushKeeps, ShipAssumption DEF StopShipper
  <2>4. CASE BatchShipped
    BY <2>4, ShippedKeeps, ShipAssumption
  <2>5. CASE \E delivered \in BOOLEAN : BatchFailed(delivered)
    BY <2>5, FailedKeeps, ShipAssumption
  <2>6. CASE UNCHANGED shipVars
    BY <2>6 DEF shipVars, ShipInv, QueuesOK, StatsOK, LinesPlaced, BatchOutdated, Increasing
  <2> QED BY <2>1, <2>2, <2>3, <2>4, <2>5, <2>6 DEF ShipNext
<1> QED BY <1>1, <1>2, PTL DEF ShipSpec

\* The safety half of StreamKept, for every cap, batch size and number of faults: every
\* line logged is acknowledged, counted as dropped, waiting or in flight; a full buffer
\* gives up its oldest lines, also when a batch is put back; and the collector sees no
\* line for the first time after a newer one (logShipper.js, _enqueue and flush).
THEOREM StreamIsSafe ==
    ShipSpec => [](ShipTypeOK /\ LinesAccounted /\ NewestKept) /\ StreamInOrder
<1>1. ShipInv => ShipTypeOK /\ LinesAccounted /\ NewestKept
  <2> SUFFICES ASSUME ShipInv PROVE ShipTypeOK /\ LinesAccounted /\ NewestKept
    OBVIOUS
  <2>1. PICK k \in Nat, n \in Nat : k = Len(buffer) /\ n = Len(sending)
    BY Lengths DEF ShipInv
  <2>2. PICK a \in Nat, c \in Nat, e \in Nat : a = stats.shipped /\ c = stats.dropped /\ e = stats.emitted
    BY DEF ShipInv, StatsOK
  <2>3. LineBound \in Nat /\ MaxBuffer \in Nat /\ ShipBatch \in Nat
    BY ShipAssumption DEF ShipAssumption
  <2>4. e = a + c + k + n /\ e <= LineBound /\ c = Cardinality(lost)
    BY <2>1, <2>2 DEF ShipInv, StatsOK
  <2>5. {k, n} \subseteq 0 .. LineBound
    BY <2>3, <2>4
  <2>6. /\ Range(buffer) \subseteq 1 .. e /\ Range(sending) \subseteq 1 .. e
        /\ lost \subseteq 1 .. e /\ collected \subseteq 1 .. e
    BY <2>2, LinesAreNumbers DEF ShipInv
  <2>7. /\ buffer \in Seq(Nat) /\ Increasing(buffer) /\ Len(buffer) <= MaxBuffer
        /\ sending \in Seq(Nat) /\ Increasing(sending) /\ Len(sending) <= ShipBatch
    BY DEF ShipInv, QueuesOK
  <2>8. PICK held : held = sending \o buffer
    OBVIOUS
  <2>9. Below(Range(sending), Range(buffer))
    BY DEF ShipInv, LinesPlaced, Placed
  <2>10. /\ held \in Seq(Nat) /\ Len(held) = Len(sending) + Len(buffer)
         /\ Increasing(held) /\ Range(held) = Range(sending) \cup Range(buffer)
    BY <2>7, <2>8, <2>9, Joined
  <2>11. /\ \A i \in DOMAIN held : held[i] \in 1 .. e
         /\ \A i, j \in DOMAIN held : i < j => held[i] < held[j]
    <3>1. DOMAIN held = 1 .. Len(held) /\ \A i \in 1 .. Len(held) : held[i] \in Range(held)
      BY <2>10, RangeOf
    <3>2. Range(held) \subseteq 1 .. e
      BY <2>6, <2>10
    <3> QED BY <2>10, <3>1, <3>2 DEF Increasing
  <2>12. ShipTypeOK
    <3>1. collected \cup lost \subseteq 1 .. e
      BY <2>6
    <3> QED BY <2>1, <2>2, <2>4, <2>5, <2>7, <2>8, <2>11, <3>1 DEF ShipTypeOK
  <2>13. LinesAccounted
    BY DEF ShipInv, StatsOK, LinesPlaced, Placed, LinesAccounted
  <2>14. NewestKept
    <3>1. DOMAIN buffer = 1 .. Len(buffer) /\ \A i \in 1 .. Len(buffer) : buffer[i] \in Range(buffer)
      BY <2>7, RangeOf
    <3> QED BY <3>1 DEF NewestKept, ShipInv, LinesPlaced, Placed, Below
  <2> QED BY <2>12, <2>13, <2>14
<1>2. ShipInv /\ [ShipNext]_shipVars => [\A l \in collected' \ collected : \A m \in collected : m < l]_shipVars
  <2> SUFFICES ASSUME ShipInv, ShipNext, NEW l \in collected' \ collected, NEW m \in collected
               PROVE  m < l
    OBVIOUS
  <2>1. collected' = collected \/ collected' = collected \cup Range(sending)
    BY DEF ShipNext, Log, FlushTimer, StopShipper, BatchShipped, BatchFailed
  <2>2. l \in Range(sending)
    BY <2>1
  <2> QED BY <2>2 DEF ShipInv, LinesPlaced, Placed
<1> QED BY <1>1, <1>2, ShipInvariant, PTL DEF ShipSpec, StreamInOrder
=============================================================================
