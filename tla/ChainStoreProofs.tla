-------------------------- MODULE ChainStoreProofs --------------------------
(***************************************************************************)
(* Proof that ParseLoop implements ChainStore, for every block tree, safe  *)
(* depth, bound and set of actors.  The steps that touch what a reader     *)
(* sees are few: each is matched with one action of ChainStore, from the   *)
(* inductive invariant of ParseLoopProofs; every other step is a stutter.  *)
(***************************************************************************)
EXTENDS ParseLoopProofs

\* The state a reader of the database sees, and its history.
seenVars == <<stored, highest, purgedTo, haltId, haltLive, unacked>>

\* A step that changes none of it is a stutter of ChainStore.
LEMMA QuietStep ==
  ASSUME UNCHANGED seenVars
  PROVE  UNCHANGED Store!storeVars
  BY DEF seenVars, Store!storeVars, StoredTip

\* The halted walk starts from a written marker row, and no row is ever taken back.
LEMMA MarkedInvStep ==
  ASSUME LoopInv, MarkedInv, [Next]_vars
  PROVE  MarkedInv'
  <1> USE DEF LoopInv, TypeOK, MarkedInv, HaltedPcs,
          nodeVars, dbVars, histVars, loopVars, walkVars, parkVars, cliVars
  <1>1. CASE UNCHANGED vars
    BY <1>1 DEF vars
  <1>2. CASE Boot \/ BootPark
    BY <1>2 DEF Boot, BootPark
  <1>3. CASE Park
    BY <1>3 DEF Park, ParkCheck, ResumeCached, ResumeProbe, ResumeUnread
  <1>4. CASE TipStep
    BY <1>4 DEF TipStep, RefreshRefused, Refresh, NoRefresh, SettleTip, SettleGivesUp,
        CompareTips, SettleSwap, SwapGivesUp, Again, EndPass, ForgetWalk
  <1>5. CASE IngestStep
    BY <1>5 DEF IngestStep, FetchNextBlock, FetchFails, RetryUndecodableBlock,
        DetectReorg, CommitBlock, StoreFails, PurgeExpired, Again, Rederive,
        EndPass, ForgetWalk
  <1>6. CASE WalkStep
    BY <1>6 DEF WalkStep, VerifyReorgEntry, VerifyReorgAborts,
        ReadPriorRollbackDepth, WalkEmpty, WalkAboveTip, WalkCompare, WalkReadFails,
        RefreshReorgTip, SettleReorgTip, ReorgTipRefused, ReorgWait, AboveTipDiffers,
        AboveTipProven, ProveReorgedAway, DeleteBlock, DeleteUnacked, DeleteFails,
        DeleteGivesUp, ParkOnHalt, LoseMemory, Rederive, Again, EndPass, ForgetWalk
  <1>7. CASE HaltStep
    <2>1. CASE MarkConfirmed
      <3>1. ~haltLive /\ haltId \in Nat
        BY <2>1 DEF MarkConfirmed, GuardInv, PreHaltPcs, DbTypes
      <3> QED
        BY <2>1, <3>1 DEF MarkConfirmed, WriteHaltRow
    <2>2. CASE ~MarkConfirmed
      BY <1>7, <2>2 DEF HaltStep, HaltReorg, MarkUnconfirmed, HaltedSkip,
          HaltedFirstReading, HaltedReadStops, HaltedSecondReading, HaltedProof,
          HaltedDelete, HaltedDeleteStops, HaltedWalkStops, ParkOnHalt, EndPass, ForgetWalk
    <2> QED
      BY <2>1, <2>2
  <1>8. CASE Outside
    BY <1>8 DEF Outside, Calm, Crash, ProbeRead, ProbeAnswer, ClearPin,
        ClearRefused, ClearCheck, ClearReread, ClearWrite, NodeMove, LoseMemory, ForgetWalk
  <1> QED
    BY <1>1, <1>2, <1>3, <1>4, <1>5, <1>6, <1>7, <1>8 DEF Next, DecoderStep

\* storeBlock extends the chain by one block on its tip and shortens the rollback.
LEMMA CommitExtends ==
  ASSUME LoopInv, CommitBlock
  PROVE  \E b \in Blocks : Store!Extend(b)
  <1> USE DEF LoopInv
  <1>1. /\ cursor = StoredTip /\ StoredTip \in Nat /\ highest \in Nat
        /\ held \in Blocks /\ stored \in Seq(Blocks)
    BY TableFacts DEF CommitBlock, TypeOK, LoopTypes, HistTypes, DbTypes
  <1>2. /\ Len(held) = StoredTip + 1
        /\ StoredTip >= 1 => Parent(held) = stored[StoredTip]
    BY <1>1 DEF CommitBlock, CursorInv
  <1>3. StoredTip' = StoredTip + 1
    BY AppendFacts DEF CommitBlock
  <1>4. stored # <<>> => StoredTip >= 1
    BY <1>1, EmptySeq DEF StoredTip
  <1>5. stored # <<>> => SubSeq(held, 1, Len(stored)) = stored[Len(stored)]
    BY <1>1, <1>2, <1>4 DEF StoredTip, Parent, Hash
  <1>6. (highest - StoredTip)' = IF highest - StoredTip = 0 THEN 0 ELSE highest - StoredTip - 1
    BY <1>1, <1>3 DEF CommitBlock, DepthInv, Max2
  <1>7. Store!Extend(held)
    BY <1>1, <1>2, <1>5, <1>6 DEF CommitBlock, Store!Extend, StoredTip
  <1> QED
    BY <1>1, <1>7

\* A delete takes the tip off and deepens the rollback by one.
LEMMA DeleteDrops ==
  ASSUME TypeOK, DeleteTop, StoredTip >= 1, highest' = highest
  PROVE  Store!DropTip
  <1>1. StoredTip \in Nat /\ StoredTip' = StoredTip - 1 /\ highest \in Nat
    BY DeleteTopFacts, TableFacts DEF TypeOK, HistTypes
  <1>2. stored # <<>>
    BY <1>1, EmptySeq DEF StoredTip
  <1>3. (highest - StoredTip)' = highest - StoredTip + 1
    BY <1>1
  <1>4. stored' = SubSeq(stored, 1, Len(stored) - 1)
    BY DEF DeleteTop, StoredTip
  <1> QED
    BY <1>2, <1>3, <1>4 DEF Store!DropTip

\* Before the halt a delete is a rollback within the window.
LEMMA DeleteRollsBack ==
  ASSUME LoopInv, DeleteBlock \/ DeleteUnacked
  PROVE  Store!RollBack
  <1> USE DEF LoopInv
  <1>1. /\ pc = "delete" /\ DeleteTop /\ highest' = highest
        /\ UNCHANGED <<purgedTo, haltId, haltLive>>
        /\ unacked' = unacked \/ unacked' = unacked + 1
    BY DEF DeleteBlock, DeleteUnacked
  <1>2. /\ StoredTip \in Nat /\ highest \in Nat /\ unacked \in Nat /\ purgedTo \in Nat
        /\ AlreadyRolledBack \in Nat /\ SafeDepth \in Nat
    BY TableFacts, SafeDepthAssumption
       DEF TypeOK, HistTypes, DbTypes, WalkTypes, AlreadyRolledBack
  <1>3. StoredTip >= 1 /\ AlreadyRolledBack < SafeDepth
    BY <1>1 DEF WalkInv
  <1>4. /\ AlreadyRolledBack + unacked >= highest - StoredTip
        /\ purgedTo = 0 \/ purgedTo + SafeDepth <= highest
    BY <1>1 DEF DepthInv, PreHaltPcs
  <1>5. StoredTip + unacked > purgedTo /\ highest - StoredTip < SafeDepth + unacked
    BY <1>2, <1>3, <1>4
  <1>6. ~haltLive
    BY <1>1 DEF GuardInv, PreHaltPcs
  <1>7. Store!DropTip
    BY <1>1, <1>3, DeleteDrops
  <1> QED
    BY <1>1, <1>5, <1>6, <1>7 DEF Store!RollBack, StoredTip

\* A delete of the halted walk stays within two windows and follows a halt row.
LEMMA HaltedDeleteCondemns ==
  ASSUME LoopInv, LoopInv', MarkedInv, HaltedDelete
  PROVE  Store!Condemn
  <1> USE DEF LoopInv
  <1>1. /\ pc = "hDelete" /\ DeleteTop /\ highest' = highest
        /\ UNCHANGED <<purgedTo, haltId, haltLive, unacked>>
    BY DEF HaltedDelete
  <1>2. /\ StoredTip \in Nat /\ highest \in Nat /\ unacked \in Nat /\ haltId \in Nat
        /\ readAt \in Nat /\ SafeDepth \in Nat
    BY TableFacts, SafeDepthAssumption DEF TypeOK, HistTypes, DbTypes, WalkTypes
  <1>3. StoredTip >= 1
    BY <1>1, <1>2 DEF WalkInv
  <1>4. StoredTip' = StoredTip - 1
    BY <1>1, <1>3, DeleteTopFacts
  <1>5. highest - StoredTip < 2 * SafeDepth + unacked
    BY <1>1, <1>2, <1>4 DEF DepthInv, TwoWindows
  <1>6. haltId > 0
    BY <1>1, <1>2 DEF MarkedInv, HaltedPcs
  <1>7. Store!DropTip
    BY <1>1, <1>3, DeleteDrops
  <1> QED
    BY <1>1, <1>5, <1>6, <1>7 DEF Store!Condemn, StoredTip

\* A purge reaches the window's distance below the block just stored, or nothing.
LEMMA PurgeIsPurge ==
  ASSUME LoopInv, PurgeExpired
  PROVE  Store!Purge \/ UNCHANGED Store!storeVars
  <1> USE DEF LoopInv
  <1>1. /\ StoredTip \in Nat /\ purgedTo \in Nat /\ SafeDepth \in Nat
        /\ cursor \in Nat /\ cursor + 1 = StoredTip
    BY TableFacts, SafeDepthAssumption
       DEF TypeOK, DbTypes, LoopTypes, CursorInv, StoreExtends, PurgeExpired
  <1>2. purgedTo' = purgedTo \/ (purgedTo < StoredTip - SafeDepth /\ purgedTo' = StoredTip - SafeDepth)
    <2>1. purgedTo' = Max2(purgedTo, StoredTip - SafeDepth) \/ purgedTo' = purgedTo
      BY <1>1 DEF PurgeExpired
    <2>2. StoredTip - SafeDepth \in Int
      BY <1>1
    <2> QED
      BY <1>1, <2>1, <2>2 DEF Max2
  <1>3. UNCHANGED <<stored, highest, haltId, haltLive, unacked>>
    BY DEF PurgeExpired, histVars
  <1>4. CASE purgedTo' = purgedTo
    BY <1>3, <1>4, QuietStep DEF seenVars
  <1>5. CASE purgedTo < StoredTip - SafeDepth /\ purgedTo' = StoredTip - SafeDepth
    <2>1. UNCHANGED (highest - StoredTip)
      BY <1>3 DEF StoredTip
    <2> QED
      BY <1>3, <1>5, <2>1 DEF Store!Purge, StoredTip
  <1> QED
    BY <1>2, <1>4, <1>5

\* Writing a halt row is a halt, or nothing when one is live already.
LEMMA MarkIsHalt ==
  ASSUME TypeOK, WriteHaltRow \/ UNCHANGED <<haltLive, haltId>>,
         UNCHANGED <<stored, highest, purgedTo, unacked>>
  PROVE  Store!Halt \/ UNCHANGED Store!storeVars
  <1>1. haltLive \in BOOLEAN
    BY DEF TypeOK, DbTypes
  <1>2. CASE haltLive
    BY <1>1, <1>2 DEF WriteHaltRow, Store!storeVars, StoredTip
  <1>3. CASE ~haltLive
    BY <1>3 DEF WriteHaltRow, Store!Halt, Store!storeVars, StoredTip
  <1> QED
    BY <1>2, <1>3

\* The operator's clear is a clear, or nothing when no halt is live.
LEMMA ClearIsClear ==
  ASSUME TypeOK, ClearWrite
  PROVE  Store!ClearHalt \/ UNCHANGED Store!storeVars
  <1>1. /\ haltLive \in BOOLEAN /\ haltLive' = FALSE
        /\ UNCHANGED <<stored, highest, purgedTo, haltId, unacked>>
    BY DEF TypeOK, DbTypes, ClearWrite, histVars
  <1> QED
    BY <1>1 DEF Store!ClearHalt, Store!storeVars, StoredTip

\* Every step of the loop, its environment and the operator is a step of ChainStore
\* or leaves what it shows unchanged.
LEMMA StoreStep ==
  ASSUME LoopInv, LoopInv', MarkedInv, [Next]_vars
  PROVE  [Store!StoreNext]_(Store!storeVars)
  <1> USE DEF nodeVars, dbVars, histVars, loopVars, walkVars, parkVars, cliVars
  <1>0. TypeOK
    BY DEF LoopInv
  <1>1. CASE UNCHANGED vars
    <2>1. UNCHANGED seenVars
      BY <1>1 DEF vars, seenVars
    <2> QED
      BY <2>1, QuietStep
  <1>2. CASE Boot \/ BootPark
    <2>1. UNCHANGED seenVars
      BY <1>2 DEF Boot, BootPark, seenVars
    <2> QED
      BY <2>1, QuietStep
  <1>3. CASE Park
    <2>1. UNCHANGED seenVars
      BY <1>3 DEF Park, ParkCheck, ResumeCached, ResumeProbe, ResumeUnread, seenVars
    <2> QED
      BY <2>1, QuietStep
  <1>4. CASE TipStep
    <2>1. UNCHANGED seenVars
      BY <1>4 DEF TipStep, RefreshRefused, Refresh, NoRefresh, SettleTip, SettleGivesUp,
          CompareTips, SettleSwap, SwapGivesUp, Again, EndPass, ForgetWalk, seenVars
    <2> QED
      BY <2>1, QuietStep
  <1>5. CASE IngestStep
    <2>1. CASE CommitBlock
      BY <2>1, CommitExtends DEF Store!StoreNext
    <2>2. CASE PurgeExpired
      BY <2>2, PurgeIsPurge DEF Store!StoreNext
    <2>3. CASE ~(CommitBlock \/ PurgeExpired)
      <3>1. UNCHANGED seenVars
        BY <1>5, <2>3 DEF IngestStep, FetchNextBlock, FetchFails, RetryUndecodableBlock,
            DetectReorg, StoreFails, seenVars
      <3> QED
        BY <3>1, QuietStep
    <2> QED
      BY <2>1, <2>2, <2>3
  <1>6. CASE WalkStep
    <2>1. CASE DeleteBlock \/ DeleteUnacked
      BY <2>1, DeleteRollsBack DEF Store!StoreNext
    <2>2. CASE DeleteGivesUp
      <3>1. /\ WriteHaltRow \/ UNCHANGED <<haltLive, haltId>>
            /\ UNCHANGED <<stored, highest, purgedTo, unacked>>
        BY <2>2 DEF DeleteGivesUp
      <3> QED
        BY <1>0, <3>1, MarkIsHalt DEF Store!StoreNext
    <2>3. CASE ~(DeleteBlock \/ DeleteUnacked \/ DeleteGivesUp)
      <3>1. UNCHANGED seenVars
        BY <1>6, <2>3 DEF WalkStep, VerifyReorgEntry, VerifyReorgAborts,
            ReadPriorRollbackDepth, WalkEmpty, WalkAboveTip, WalkCompare, WalkReadFails,
            RefreshReorgTip, SettleReorgTip, ReorgTipRefused, ReorgWait, AboveTipDiffers,
            AboveTipProven, ProveReorgedAway, DeleteFails, LoseMemory, seenVars
      <3> QED
        BY <3>1, QuietStep
    <2> QED
      BY <2>1, <2>2, <2>3
  <1>7. CASE HaltStep
    <2>1. CASE HaltedDelete
      BY <2>1, HaltedDeleteCondemns DEF Store!StoreNext
    <2>2. CASE MarkConfirmed \/ MarkUnconfirmed
      <3>1. /\ WriteHaltRow \/ UNCHANGED <<haltLive, haltId>>
            /\ UNCHANGED <<stored, highest, purgedTo, unacked>>
        BY <2>2 DEF MarkConfirmed, MarkUnconfirmed
      <3> QED
        BY <1>0, <3>1, MarkIsHalt DEF Store!StoreNext
    <2>3. CASE ~(HaltedDelete \/ MarkConfirmed \/ MarkUnconfirmed)
      <3>1. UNCHANGED seenVars
        BY <1>7, <2>3 DEF HaltStep, HaltReorg, HaltedSkip, HaltedFirstReading,
            HaltedReadStops, HaltedSecondReading, HaltedProof, HaltedDeleteStops,
            HaltedWalkStops, seenVars
      <3> QED
        BY <3>1, QuietStep
    <2> QED
      BY <2>1, <2>2, <2>3
  <1>8. CASE Outside
    <2>1. CASE ClearWrite
      BY <1>0, <2>1, ClearIsClear DEF Store!StoreNext
    <2>2. CASE ~ClearWrite
      <3>1. UNCHANGED seenVars
        BY <1>8, <2>2 DEF Outside, Calm, Crash, ProbeRead, ProbeAnswer, ClearPin,
            ClearRefused, ClearCheck, ClearReread, NodeMove, LoseMemory, seenVars
      <3> QED
        BY <3>1, QuietStep
    <2> QED
      BY <2>1, <2>2
  <1> QED
    BY <1>1, <1>2, <1>3, <1>4, <1>5, <1>6, <1>7, <1>8 DEF Next, DecoderStep

\* An empty table is an empty chain.
LEMMA StoreStart == Init => Store!StoreInit
  <1>1. Init => StoredTip = 0
    BY DEF Init, StoredTip
  <1> QED
    BY <1>1 DEF Init, Store!StoreInit

\* The block loop implements ChainStore for every block tree, safe depth and bound:
\* through reorgs, crashes, lost acknowledgements, halts and clears its database only
\* grows at the tip, rolls back within the window, and loses more only after a halt
\* was recorded.
THEOREM LoopImplementsStore == Spec => ImplementsStore
  <1>1. Init => MarkedInv
    BY DEF Init, MarkedInv, HaltedPcs
  <1>2. LoopInv /\ MarkedInv /\ [Next]_vars => MarkedInv'
    BY MarkedInvStep
  <1>3. LoopInv /\ LoopInv' /\ MarkedInv /\ [Next]_vars => [Store!StoreNext]_(Store!storeVars)
    BY StoreStep
  <1> QED
    BY <1>1, <1>2, <1>3, StoreStart, LoopInvariant, PTL
       DEF Spec, ImplementsStore, Store!StoreSpec
=============================================================================
