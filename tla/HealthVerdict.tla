--------------------------- MODULE HealthVerdict ----------------------------
(***************************************************************************)
(* The liveness verdict of GET /live (sync_status.js, api/probe_routes.js) *)
(* over the clocks that the parse loop keeps, with the supervisor that     *)
(* restarts the container when the answer is 503.                          *)
(*                                                                         *)
(* A tick is one refresh interval (BLOCKCHAIN_INFO_REFRESH_MS). An age     *)
(* counts the ticks since an event and stops at one more than the largest  *)
(* threshold it is compared with. The loop goes round at least once a      *)
(* tick unless it hangs.                                                   *)
(***************************************************************************)
EXTENDS Naturals

CONSTANTS
    StallAfter,     \* STALL_ALERT_MS in ticks (30 in the code)
    FetchAttempts,  \* STALL_FETCH_ATTEMPTS (20 in the code)
    RoundsPerTick,  \* fetch attempts that fit in a tick (10 in the code, 3 s apart)
    LadderSteps,    \* the retries that the poison positions of a block cost
    HlthFaultBound  \* bound: outages, hangs and holds

ASSUME HlthAssumption ==
    /\ {StallAfter, FetchAttempts, RoundsPerTick, LadderSteps} \subseteq Nat \ {0}
    /\ RoundsPerTick < FetchAttempts
    /\ HlthFaultBound \in Nat

StaleAfter == 2
SilentAfter == 2 * StallAfter

VARIABLES
    age,        \* ticks since: the last tip refresh, the last block, the last ladder step, the last pass
    above,      \* the blocks of the node above the stored tip (2 stands for more)
    tip,        \* the cached tip: polled ever, lastBlockchainInfo set, and how far it is ahead
    fetchErrors,\* _fetchErrorCount
    ladder,     \* attempts of the quarantine ladder at this block
    hold,       \* "parked" on a halt, "wait" for a proof, or "none"
    iterating,  \* FALSE: the loop hangs inside an await, or is gone
    node,       \* "up" or "down"
    nextBlock,  \* the block above the stored tip: "good", "unserved" by the node, or "poison"
    rounds,     \* passes since the last tick
    hlthFaults,
    outage         \* history: fetch errors of the present outage

hlthVars == <<age, above, tip, fetchErrors, ladder, hold, iterating, node, nextBlock, rounds, hlthFaults, outage>>

Saturating(n, top) == IF n < top THEN n + 1 ELSE n
Clocks == {"tip", "advance", "ladder", "poll"}
Top(c) == CASE c = "tip" -> StaleAfter + 1 [] c = "poll" -> SilentAfter + 1 [] OTHER -> StallAfter + 1
Blocks == {"good", "unserved", "poison"}

NoTip == [polled |-> FALSE, info |-> FALSE, ahead |-> 0]

HlthInit ==
    /\ age = [c \in Clocks |-> IF c = "ladder" THEN StallAfter + 1 ELSE 0]
    /\ above \in 0 .. 2 /\ tip = NoTip
    /\ fetchErrors = 0 /\ ladder = 0
    /\ hold = "none" /\ iterating = TRUE /\ node = "up"
    /\ nextBlock \in Blocks
    /\ rounds = 0 /\ hlthFaults = 0 /\ outage = 0

HlthFault == hlthFaults < HlthFaultBound /\ hlthFaults' = hlthFaults + 1

-----------------------------------------------------------------------------
(* The verdict. *)

IsNodeHeightStale == tip.polled /\ age["tip"] > StaleAfter

\* Mutant: the ladder is not progress.
ProgressAgeCommitted == age["advance"]

ProgressAge == IF age["ladder"] < age["advance"] THEN age["ladder"] ELSE age["advance"]

IsStalled ==
    /\ hold = "none"
    /\ tip.polled /\ tip.ahead > 1
    /\ ~ IsNodeHeightStale
    /\ fetchErrors >= FetchAttempts \/ ProgressAge > StallAfter

IsPollSilent == age["poll"] > SilentAfter

\* What /live answers 503 on, with the database reachable and start() not settled.
Unhealthy == IsStalled \/ IsPollSilent

-----------------------------------------------------------------------------
(* One pass of the loop. *)

RefreshDue == ~ tip.info \/ tip.ahead = 0 \/ age["tip"] >= 1

EndsOnFailedRefresh == RefreshDue /\ node = "down"

Pass(cs) == [c \in Clocks |-> IF c \in cs \cup {"poll"} THEN 0 ELSE age[c]]
Refreshed == IF RefreshDue /\ node = "up" THEN {"tip"} ELSE {}

NextPass == iterating /\ rounds < RoundsPerTick /\ rounds' = rounds + 1

\* The tip that the pass works with.
TipOfPass == IF Refreshed = {} THEN tip ELSE [polled |-> TRUE, info |-> TRUE, ahead |-> above]

\* Parked, waiting for a proof, or the node does not answer: nothing is fetched.
RoundIdles ==
    /\ NextPass
    /\ hold # "none" \/ EndsOnFailedRefresh
    /\ age' = Pass(IF hold = "parked" THEN {} ELSE Refreshed)
    /\ tip' = IF hold = "parked" THEN tip ELSE TipOfPass
    /\ UNCHANGED <<above, fetchErrors, ladder, hold, iterating, node, nextBlock, hlthFaults, outage>>

\* The stored tip is the node's.
RoundAtTip ==
    /\ NextPass
    /\ hold = "none" /\ ~ EndsOnFailedRefresh /\ TipOfPass.ahead = 0
    /\ tip' = TipOfPass
    /\ age' = Pass(Refreshed)
    /\ UNCHANGED <<above, fetchErrors, ladder, hold, iterating, node, nextBlock, hlthFaults, outage>>

Fetching ==
    /\ NextPass
    /\ hold = "none" /\ ~ EndsOnFailedRefresh /\ TipOfPass.ahead > 0
    /\ UNCHANGED <<hold, iterating, node, hlthFaults>>

\* fetchNextBlock fails: the node is down, or does not serve this block.
RoundFetchFails ==
    /\ Fetching /\ (node = "down" \/ nextBlock = "unserved")
    /\ tip' = TipOfPass /\ age' = Pass(Refreshed)
    /\ fetchErrors' = Saturating(fetchErrors, FetchAttempts)
    /\ outage' = IF node = "down" THEN Saturating(outage, FetchAttempts) ELSE outage
    /\ UNCHANGED <<above, ladder, nextBlock>>

\* A transaction of the block throws: one more step of the quarantine ladder.
RoundClimbs ==
    /\ Fetching /\ node = "up" /\ nextBlock = "poison" /\ ladder < LadderSteps
    /\ tip' = TipOfPass /\ age' = Pass(Refreshed \cup {"ladder"})
    /\ fetchErrors' = 0 /\ ladder' = ladder + 1
    /\ UNCHANGED <<above, nextBlock, outage>>

RoundStores ==
    /\ Fetching /\ node = "up" /\ nextBlock # "unserved"
    /\ nextBlock = "poison" => ladder = LadderSteps
    /\ above' = above - 1
    /\ tip' = [TipOfPass EXCEPT !.ahead = @ - 1]
    /\ age' = Pass(Refreshed \cup {"advance"})
    /\ fetchErrors' = 0 /\ ladder' = 0
    /\ nextBlock' \in Blocks
    /\ UNCHANGED outage

-----------------------------------------------------------------------------
(* Time, the node, and the supervisor. *)

Tick ==
    /\ iterating => rounds > 0
    /\ rounds' = 0
    /\ age' = [c \in Clocks |-> Saturating(age[c], Top(c))]
    /\ UNCHANGED <<above, tip, fetchErrors, ladder, hold, iterating, node, nextBlock, hlthFaults, outage>>

BlockArrives ==
    /\ node = "up" /\ above < 2
    /\ above' = above + 1
    /\ UNCHANGED <<age, tip, fetchErrors, ladder, hold, iterating, node, nextBlock, rounds, hlthFaults, outage>>

NodeGoesDown ==
    /\ node = "up" /\ HlthFault
    /\ node' = "down"
    /\ UNCHANGED <<age, above, tip, fetchErrors, ladder, hold, iterating, nextBlock, rounds, outage>>

NodeComesBack ==
    /\ node = "down"
    /\ node' = "up" /\ outage' = 0
    /\ UNCHANGED <<age, above, tip, fetchErrors, ladder, hold, iterating, nextBlock, rounds, hlthFaults>>

Hangs ==
    /\ iterating /\ HlthFault
    /\ iterating' = FALSE
    /\ UNCHANGED <<age, above, tip, fetchErrors, ladder, hold, node, nextBlock, rounds, outage>>

\* A reorg is refused (parkOnReorgHalt), or is not proved yet (setReorgWait).
Holds ==
    /\ iterating /\ hold = "none" /\ HlthFault
    /\ hold' \in {"parked", "wait"}
    /\ UNCHANGED <<age, above, tip, fetchErrors, ladder, iterating, node, nextBlock, rounds, outage>>

\* The operator clears the halt, or the proof arrives.
Resumes ==
    /\ iterating /\ hold # "none"
    /\ hold' = "none"
    /\ tip' = IF hold = "parked" THEN [tip EXCEPT !.info = FALSE] ELSE tip
    /\ UNCHANGED <<age, above, fetchErrors, ladder, iterating, node, nextBlock, rounds, hlthFaults, outage>>

\* Autoheal restarts the container. The marker, and the park it causes, survive; the
\* retry counts and the clocks do not.
Restarts ==
    /\ Unhealthy
    /\ age' = [c \in Clocks |-> IF c = "ladder" THEN StallAfter + 1 ELSE 0]
    /\ tip' = NoTip
    /\ fetchErrors' = 0 /\ ladder' = 0 /\ rounds' = 0
    /\ iterating' = TRUE
    /\ hold' = IF hold = "wait" THEN "none" ELSE hold
    /\ UNCHANGED <<above, node, nextBlock, hlthFaults, outage>>

Round == RoundIdles \/ RoundAtTip \/ RoundFetchFails \/ RoundClimbs \/ RoundStores

HlthNext == Round \/ Tick \/ BlockArrives \/ NodeGoesDown \/ NodeComesBack \/ Hangs \/ Holds \/ Resumes \/ Restarts

\* Time passes, a loop that does not hang goes round, and autoheal acts on the answer.
HlthFairness == WF_hlthVars(Round) /\ WF_hlthVars(Tick) /\ WF_hlthVars(Restarts)

HlthSpec == HlthInit /\ [][HlthNext]_hlthVars /\ HlthFairness

-----------------------------------------------------------------------------
(* Correctness. *)

\* The state has its shape, and the remembered tip is never further ahead than the node.
HlthTypeOK ==
    /\ \A c \in Clocks : age[c] \in 0 .. Top(c)
    /\ above \in 0 .. 2 /\ tip \in [polled : BOOLEAN, info : BOOLEAN, ahead : 0 .. above]
    /\ fetchErrors \in 0 .. FetchAttempts /\ ladder \in 0 .. LadderSteps
    /\ hold \in {"none", "parked", "wait"} /\ iterating \in BOOLEAN /\ node \in {"up", "down"}
    /\ nextBlock \in Blocks /\ rounds \in 0 .. RoundsPerTick

\* One outage of the node, however long, never counts up to a wedge: the passes that
\* cannot refresh the tip end before the fetch, so autoheal does not restart a decoder
\* for a node that is down (isStalled, refreshChainTip).
OutageIsNotAWedge == outage < FetchAttempts

\* A loop that goes round is answered 503 only when the node's tip is ahead of it and
\* known to be: never for idling at the tip, a park, a wait or a frozen tip.
FlapFree == iterating /\ Unhealthy => tip.ahead > 1 /\ hold = "none" /\ age["tip"] <= StaleAfter

\* A loop that hangs is restarted, even one that hung at the tip with nothing to do.
HungIsRestarted == ~ iterating ~> iterating

\* The ladder of a block full of poison positions comes to its end although it outlasts
\* the stall window: the verdict does not restart it from the beginning for ever.
LadderEnds ==
    nextBlock = "poison" /\ above > 0 ~>
        ladder = LadderSteps \/ node = "down" \/ hold # "none" \/ ~ iterating

\* The verdict the supervisor acts on: it restarts a loop that hangs, and neither an
\* outage of the node, a park, an idle tip nor a long quarantine ladder is taken for one
\* (isStalled, isPollSilent, getLiveProbeState).
VerdictSound ==
    /\ [](HlthTypeOK /\ OutageIsNotAWedge /\ FlapFree)
    /\ HungIsRestarted /\ LadderEnds
=============================================================================
