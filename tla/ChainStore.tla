----------------------------- MODULE ChainStore -----------------------------
(***************************************************************************)
(* What the block loop promises a reader of its database: a stored chain   *)
(* that only grows at its tip, and only shrinks from it.  A rollback stays *)
(* inside the purge window, so that everything it removes can be restored; *)
(* past the window a block goes only after a halt was recorded, and never  *)
(* more than two windows of them.  ParseLoop implements this module.       *)
(***************************************************************************)
EXTENDS Integers, Sequences

CONSTANTS Blocks, Window   \* a block is the path of labels from the first one

VARIABLES
    chain,    \* the blocks table
    depth,    \* heights rolled back and not stored again
    purged,   \* the highest block whose expiries are gone for good
    halts,    \* halts recorded so far
    live,     \* the newest halt has not been cleared
    lost      \* rollbacks that nobody acknowledged

storeVars == <<chain, depth, purged, halts, live, lost>>

StoreInit ==
    chain = <<>> /\ depth = 0 /\ purged = 0 /\ halts = 0 /\ live = FALSE /\ lost = 0

Extend(b) ==
    /\ Len(b) = Len(chain) + 1
    /\ chain # <<>> => SubSeq(b, 1, Len(chain)) = chain[Len(chain)]
    /\ chain' = Append(chain, b)
    /\ depth' = IF depth = 0 THEN 0 ELSE depth - 1
    /\ UNCHANGED <<purged, halts, live, lost>>

DropTip ==
    /\ chain # <<>>
    /\ chain' = SubSeq(chain, 1, Len(chain) - 1)
    /\ depth' = depth + 1

\* Everything the block's expiries changed can still be restored.
RollBack ==
    /\ ~live
    /\ Len(chain) + lost > purged /\ depth < Window + lost
    /\ DropTip
    /\ lost' = lost \/ lost' = lost + 1
    /\ UNCHANGED <<purged, halts, live>>

\* A rollback past the window condemns the database, which a halt has recorded.
Condemn ==
    /\ halts > 0 /\ depth < 2 * Window + lost
    /\ DropTip
    /\ UNCHANGED <<purged, halts, live, lost>>

Purge ==
    /\ purged < Len(chain) - Window
    /\ purged' = Len(chain) - Window
    /\ UNCHANGED <<chain, depth, halts, live, lost>>

Halt ==
    /\ ~live
    /\ live' = TRUE /\ halts' = halts + 1
    /\ UNCHANGED <<chain, depth, purged, lost>>

ClearHalt ==
    /\ live
    /\ live' = FALSE
    /\ UNCHANGED <<chain, depth, purged, halts, lost>>

StoreNext ==
    (\E b \in Blocks : Extend(b)) \/ RollBack \/ Condemn \/ Purge \/ Halt \/ ClearHalt

StoreSpec == StoreInit /\ [][StoreNext]_storeVars
=============================================================================
