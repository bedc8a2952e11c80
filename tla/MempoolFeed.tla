---------------------------- MODULE MempoolFeed ----------------------------
(***************************************************************************)
(* getmempool (api/mempool_methods.js): the pending rows are read from the *)
(* database at most once per time-to-live, by one read that every request  *)
(* of a burst awaits, and a failed read is not repeated before a backoff.  *)
(* The server listens before bootDecoder has opened the database: until    *)
(* then an empty snapshot, never read, is cached the same way.  Time is    *)
(* counted in ticks, and ages no further than they matter.                 *)
(***************************************************************************)
EXTENDS Naturals

CONSTANTS
    CacheTtl,       \* GETMEMPOOL_CACHE_MS
    CacheBackoff,   \* min(1000, ttl)
    Callers,        \* bound: requests that await one read
    FeedFaultBound  \* bound: reads that fail

ASSUME FeedAssumption ==
    /\ {CacheTtl, CacheBackoff, Callers} \subseteq Nat \ {0}
    /\ CacheBackoff <= CacheTtl
    /\ FeedFaultBound \in Nat

VARIABLES
    handles,    \* decoder.mempoolDb || decoder.db: whether the database is open
    cache,      \* state.cache: whether there is one, read (read_ok_at), its stamp's age
    failedAge,  \* the age of state.failedAt
    refresh,    \* state.refresh: the read in flight and the requests awaiting it
    answers,    \* what the last read's callers were told: stale or not
    readFaults,
    readAge,    \* history: the age of the cached rows themselves
    startAge,   \* history: the time since the last read began
    openAge     \* history: the time since the handles were opened, 0 before

feedVars == <<handles, cache, failedAge, refresh, answers, readFaults, readAge, startAge, openAge>>

NoRefresh == [pc |-> "none", age |-> 0, read |-> 0, callers |-> 0]
Old == CacheTtl + 1

FeedInit ==
    /\ handles = FALSE
    /\ cache = [known |-> FALSE, read |-> FALSE, age |-> Old]
    /\ failedAge = Old /\ refresh = NoRefresh
    /\ answers = {} /\ readFaults = 0
    /\ readAge = Old /\ startAge = Old /\ openAge = 0

Fresh == cache.known /\ cache.age < CacheTtl
BackingOff == failedAge < CacheBackoff

\* openDatabaseHandles, once in the boot that runs beside the server.
OpensHandles ==
    /\ ~handles /\ handles' = TRUE
    /\ UNCHANGED <<cache, failedAge, refresh, answers, readFaults, readAge, startAge, openAge>>

\* A request within the time-to-live, or within the backoff of a failed read: answered
\* from the cache, in the second case marked stale.
AnsweredAtOnce ==
    /\ Fresh \/ (handles /\ BackingOff)
    /\ answers' = {IF Fresh THEN "cached" ELSE "stale"}
    /\ UNCHANGED <<handles, cache, failedAge, refresh, readFaults, readAge, startAge, openAge>>

\* Any other request before the handles are open: an empty snapshot is stamped and
\* cached, and answered as not stale, with no read behind it.
AnsweredUnread ==
    /\ ~Fresh /\ ~handles
    /\ cache' = [known |-> TRUE, read |-> FALSE, age |-> 0]
    /\ answers' = {"unread"}
    /\ UNCHANGED <<handles, failedAge, refresh, readFaults, readAge, startAge, openAge>>

\* Any other request once they are open starts the read, or joins it.
JoinsRead == [refresh EXCEPT !.callers = @ + 1]
AwaitsRead ==
    /\ ~Fresh /\ handles /\ ~BackingOff
    /\ refresh.callers < Callers
    /\ IF refresh.pc = "none"
         THEN refresh' = [NoRefresh EXCEPT !.pc = "rows", !.callers = 1] /\ startAge' = 0
         ELSE refresh' = JoinsRead /\ UNCHANGED startAge
    /\ UNCHANGED <<handles, cache, failedAge, answers, readFaults, readAge, openAge>>

\* readMempoolSnapshot: getMempoolTransactions, then getMempoolTransactionCount.
RowsRead ==
    /\ refresh.pc = "rows"
    /\ refresh' = [refresh EXCEPT !.pc = "count", !.read = 0]
    /\ UNCHANGED <<handles, cache, failedAge, answers, readFaults, readAge, startAge, openAge>>

\* Mutant: stamped with the moment the read ended.
StampAtEnd == 0

\* The cache is stamped with the moment the read began.
StampAtStart == refresh.age
CountRead ==
    /\ refresh.pc = "count"
    /\ cache' = [known |-> TRUE, read |-> TRUE, age |-> StampAtStart]
    /\ readAge' = refresh.read
    /\ failedAge' = Old
    /\ answers' = {"read"} /\ refresh' = NoRefresh
    /\ UNCHANGED <<handles, readFaults, startAge, openAge>>
ReadFails ==
    /\ refresh.pc /= "none"
    /\ readFaults < FeedFaultBound /\ readFaults' = readFaults + 1
    /\ failedAge' = 0
    /\ answers' = {"stale"} /\ refresh' = NoRefresh
    /\ UNCHANGED <<handles, cache, readAge, startAge, openAge>>

Aged(age) == IF age < Old THEN age + 1 ELSE age
ClockTicks ==
    /\ cache' = [cache EXCEPT !.age = Aged(@)]
    /\ refresh' = IF refresh.pc = "none" THEN refresh ELSE [refresh EXCEPT !.age = Aged(@), !.read = Aged(@)]
    /\ failedAge' = Aged(failedAge)
    /\ readAge' = Aged(readAge) /\ startAge' = Aged(startAge)
    /\ openAge' = IF handles THEN Aged(openAge) ELSE openAge
    /\ UNCHANGED <<handles, answers, readFaults>>

FeedNext == OpensHandles \/ AnsweredAtOnce \/ AnsweredUnread \/ AwaitsRead \/ RowsRead
            \/ CountRead \/ ReadFails \/ ClockTicks

FeedSpec == FeedInit /\ [][FeedNext]_feedVars
-----------------------------------------------------------------------------
\* A burst of requests costs one database read per backoff: two reads never begin
\* closer together, whether they succeed, fail or are still running.
ReadsAreSpaced ==
    [][refresh.pc = "none" /\ refresh'.pc = "rows" => startAge >= CacheBackoff]_feedVars

\* The cache in front of the pending rows: what it serves as fresh was read within the
\* time-to-live, however long the read itself took, or it is the empty snapshot of a boot
\* whose database was not open a time-to-live ago; and a burst of callers, or a failing
\* database, costs one read a backoff (api/mempool_methods.js).
FeedSound ==
    /\ [](Fresh => IF cache.read THEN readAge < CacheTtl ELSE openAge < CacheTtl)
    /\ ReadsAreSpaced
=============================================================================
