----------------------------- MODULE MCServices -----------------------------
(***************************************************************************)
(* The services around the parse loop, each checked on its own: a          *)
(* behaviour is about one of the Parts, whose variables move while those   *)
(* of the others keep their initial values.                                *)
(***************************************************************************)
EXTENDS ServiceProcess, HealthVerdict, LogShipper, MempoolRefresh, MempoolFeed

CONSTANT Parts

VARIABLE part

MCKind == <<"action", "undecodable", "pays", "gated">>

ServiceVars == <<svcVars, hlthVars, shipVars, memVars, feedVars, part>>

Init ==
    /\ part \in Parts
    /\ SvcInit /\ HlthInit /\ ShipInit /\ MemInit /\ FeedInit
    /\ part /= "health" => above = 0 /\ nextBlock = "unserved"
    /\ part /= "mempool" => pool = {}

Only(p) == part = p /\ UNCHANGED part

Next ==
    \/ Only("process") /\ SvcNext /\ UNCHANGED <<hlthVars, shipVars, memVars, feedVars>>
    \/ Only("health") /\ HlthNext /\ UNCHANGED <<svcVars, shipVars, memVars, feedVars>>
    \/ Only("logs") /\ ShipNext /\ UNCHANGED <<svcVars, hlthVars, memVars, feedVars>>
    \/ Only("mempool") /\ MemNext /\ UNCHANGED <<svcVars, hlthVars, shipVars, feedVars>>
    \/ Only("feed") /\ FeedNext /\ UNCHANGED <<svcVars, hlthVars, shipVars, memVars>>

Fairness ==
    \/ part = "process" /\ SvcFairness
    \/ part = "health" /\ HlthFairness
    \/ part = "logs" /\ ShipFairness
    \/ part = "mempool" /\ MemFairness
    \/ part = "feed"

Spec == Init /\ [][Next]_ServiceVars /\ Fairness

=============================================================================
