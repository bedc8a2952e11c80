-------------------------- MODULE ParseLoopProofs --------------------------
(***************************************************************************)
(* Proofs that ParseLoop keeps its safety properties for every block tree, *)
(* every safe depth and every bound.  LoopInv (in ParseLoop) is inductive; *)
(* its parts are proved preserved one lemma each, and the theorems follow. *)
(* On top of it, LagInv covers a node that only lags, and SeenInv,         *)
(* StandingInv and CondemnedInv the halt marker and the park.              *)
(***************************************************************************)
EXTENDS ParseLoop, SequenceTheorems, FiniteSetTheorems, TLAPS

-----------------------------------------------------------------------------
(* Blocks: prefixes of the chains.                                          *)

\* The empty path, below the start height, is a block of every tree.
LEMMA GenesisIsBlock == <<>> \in Blocks
  <1>1. PICK c \in Chains : TRUE
    BY ChainsAssumption
  <1>2. c \in Seq(Labels) /\ Len(c) \in Nat
    BY ChainsAssumption, LenProperties
  <1>3. Hash(c, 0) = <<>>
    BY SubSeqEmpty DEF Hash
  <1> QED
    BY <1>2, <1>3 DEF Blocks

\* A block is a sequence of labels.
LEMMA BlockIsSeq ==
  ASSUME NEW b \in Blocks
  PROVE  b \in Seq(Labels) /\ Len(b) \in Nat
  <1>c. PICK c \in Chains : \E n \in 0..Len(c) : b = SubSeq(c, 1, n)
    BY DEF Blocks, Hash
  <1>1. PICK n \in 0..Len(c) : b = SubSeq(c, 1, n)
    BY <1>c
  <1>2. c \in Seq(Labels) /\ Len(c) \in Nat /\ \A i \in 1..n : c[i] \in Labels
    BY <1>1, ChainsAssumption, LenProperties, ElementOfSeq
  <1>3. b \in Seq(Labels)
    BY <1>1, <1>2, SubSeqProperties
  <1> QED
    BY <1>3, LenProperties

\* Every ancestor of a block is a block, at the height asked for.
LEMMA AncestorIsBlock ==
  ASSUME NEW b \in Blocks, NEW h \in 0..Len(b)
  PROVE  Hash(b, h) \in Blocks /\ Len(Hash(b, h)) = h
  <1>c. PICK c \in Chains : \E n \in 0..Len(c) : b = SubSeq(c, 1, n)
    BY DEF Blocks, Hash
  <1>1. PICK n \in 0..Len(c) : b = SubSeq(c, 1, n)
    BY <1>c
  <1>2. c \in Seq(Labels) /\ Len(c) \in Nat /\ \A i \in 1..n : c[i] \in Labels
    BY <1>1, ChainsAssumption, LenProperties, ElementOfSeq
  <1>3. Len(b) = n
    BY <1>1, <1>2, SubSeqProperties
  <1>4. b \in Seq(Labels) /\ \A i \in 1..h : b[i] \in Labels
    BY <1>3, BlockIsSeq, ElementOfSeq
  <1>5. Len(Hash(b, h)) = h
    BY <1>4, SubSeqProperties DEF Hash
  <1>6. Hash(b, h) = Hash(c, h)
    <2>1. CASE h = 0
      BY <2>1, SubSeqEmpty DEF Hash
    <2>2. CASE h > 0
      <3>1. h \in 1..n /\ n \in 1..Len(c)
        BY <2>2, <1>1, <1>2, <1>3
      <3>2. SubSeq(SubSeq(c, 1, n), 1, h) = SubSeq(c, 1, h)
        BY <3>1, <1>2, SubSeqOfSubSeq
      <3> QED
        BY <3>2, <1>1 DEF Hash
    <2> QED
      BY <2>1, <2>2, <1>3
  <1>7. h \in 0..Len(c)
    BY <1>2, <1>3
  <1> QED
    BY <1>5, <1>6, <1>7 DEF Blocks

\* Deleting the top block leaves a table one shorter that agrees below.
LEMMA DropTop ==
  ASSUME NEW S, NEW s \in Seq(S), Len(s) >= 1
  PROVE  /\ SubSeq(s, 1, Len(s) - 1) \in Seq(S)
         /\ Len(SubSeq(s, 1, Len(s) - 1)) = Len(s) - 1
         /\ \A i \in 1..(Len(s) - 1) : SubSeq(s, 1, Len(s) - 1)[i] = s[i]
  <1> DEFINE n == Len(s) - 1
  <1>1. n \in Nat /\ \A i \in 1..n : s[i] \in S
    BY LenProperties, ElementOfSeq
  <1> HIDE DEF n
  <1>2. /\ SubSeq(s, 1, n) \in Seq(S)
        /\ Len(SubSeq(s, 1, n)) = n
        /\ \A i \in 1..n : SubSeq(s, 1, n)[i] = s[i]
    BY <1>1, SubSeqProperties
  <1> QED
    BY <1>2 DEF n

-----------------------------------------------------------------------------
(* Type correctness.                                                        *)

\* The facts about the table that every step of a type proof needs.
LEMMA TableFacts ==
  ASSUME TypeOK
  PROVE  /\ StoredTip \in Nat /\ NodeHeight \in Nat
         /\ \A h \in 1..StoredTip : stored[h] \in Blocks
         /\ <<>> \in Blocks
         /\ \A h \in 0..NodeHeight : Hash(active, h) \in Blocks
  <1>1. StoredTip \in Nat /\ \A h \in 1..StoredTip : stored[h] \in Blocks
    BY LenProperties, ElementOfSeq DEF TypeOK, DbTypes, StoredTip
  <1>2. NodeHeight \in Nat
    BY BlockIsSeq DEF TypeOK, NodeTypes, NodeHeight
  <1>3. \A h \in 0..NodeHeight : Hash(active, h) \in Blocks
    BY AncestorIsBlock DEF TypeOK, NodeTypes, NodeHeight
  <1> QED
    BY <1>1, <1>2, <1>3, GenesisIsBlock

\* What a delete does to the table.
LEMMA DeleteTopFacts ==
  ASSUME TypeOK, StoredTip >= 1, DeleteTop
  PROVE  /\ stored' \in Seq(Blocks)
         /\ StoredTip' = StoredTip - 1
         /\ \A h \in 1..(StoredTip - 1) : stored'[h] = stored[h]
         /\ reorgRows' = reorgRows \cup {StoredTip}
         /\ reorgRows' \subseteq Nat \ {0}
         /\ lossy' \in BOOLEAN
  <1>1. /\ stored' \in Seq(Blocks)
        /\ StoredTip' = StoredTip - 1
        /\ \A h \in 1..(StoredTip - 1) : stored'[h] = stored[h]
    BY DropTop DEF TypeOK, DbTypes, DeleteTop, StoredTip
  <1>2. reorgRows' = reorgRows \cup {StoredTip} /\ reorgRows' \subseteq Nat \ {0}
    <2>1. reorgRows' = reorgRows \cup {StoredTip}
      BY DEF DeleteTop
    <2>2. StoredTip \in Nat \ {0} /\ reorgRows \subseteq Nat \ {0}
      BY TableFacts DEF TypeOK, DbTypes
    <2> QED
      BY <2>1, <2>2
  <1>3. lossy' \in BOOLEAN
    BY DEF DeleteTop
  <1> QED
    BY <1>1, <1>2, <1>3

\* What a commit does to the table.
LEMMA AppendFacts ==
  ASSUME TypeOK, stored' = Append(stored, held)
  PROVE  /\ stored' \in Seq(Blocks)
         /\ StoredTip' = StoredTip + 1
         /\ stored'[StoredTip + 1] = held
         /\ \A h \in 1..StoredTip : stored'[h] = stored[h]
  BY AppendProperties DEF TypeOK, DbTypes, LoopTypes, StoredTip

\* countReorgDeletesAboveTip answers the depth of the rollback.
LEMMA DepthCount ==
  ASSUME TypeOK, DepthIsDurable
  PROVE  /\ CountReorgDeletesAboveTip \in Nat
         /\ CountReorgDeletesAboveTip >= highest - StoredTip
  <1> DEFINE lo == StoredTip + 1
  <1>1. lo \in Int /\ highest \in Int /\ StoredTip \in Nat
    BY TableFacts DEF TypeOK, HistTypes
  <1>2. CountReorgDeletesAboveTip = Cardinality(lo..highest)
    BY DEF DepthIsDurable, CountReorgDeletesAboveTip
  <1>3. ~(lo > highest) => highest - lo + 1 = highest - StoredTip
    BY <1>1
  <1>4. lo > highest => highest - StoredTip <= 0
    BY <1>1
  <1> HIDE DEF lo
  <1>5. Cardinality(lo..highest) = IF lo > highest THEN 0 ELSE highest - lo + 1
    BY <1>1, FS_Interval
  <1> QED
    BY <1>1, <1>2, <1>3, <1>4, <1>5

\* A written marker is live.
LEMMA WriteHaltRowTypes ==
  ASSUME DbTypes, WriteHaltRow
  PROVE  haltLive' = TRUE /\ haltId' \in Nat
  BY DEF DbTypes, WriteHaltRow

\* The halted walk reads no height below the start height.
LEMMA LowestFacts ==
  ASSUME TypeOK
  PROVE  Lowest \in Nat /\ Lowest >= 1
  BY TableFacts, SafeDepthAssumption DEF TypeOK, WalkTypes, Lowest, Max2, AlreadyRolledBack

\* Adopting a marker keeps the flags Boolean.
LEMMA AdoptMarkerTypes ==
  ASSUME ParkTypes, NEW live \in BOOLEAN, AdoptMarker(live)
  PROVE  /\ memHalted' \in BOOLEAN /\ probeFailed' \in BOOLEAN /\ parkDue' \in BOOLEAN
         /\ persisted' \in {"null", "false", "true"}
  <1>1. CASE memHalted /\ persisted = "false" /\ ~live
    BY <1>1 DEF ParkTypes, AdoptMarker
  <1>2. CASE ~(memHalted /\ persisted = "false" /\ ~live)
    <2>1. memHalted' = live /\ probeFailed' = FALSE
      BY <1>2 DEF AdoptMarker
    <2>2. parkDue' \in BOOLEAN
      BY <1>2 DEF AdoptMarker
    <2>3. persisted' \in {"null", "false", "true"}
      BY <1>2 DEF ParkTypes, AdoptMarker
    <2> QED
      BY <2>1, <2>2, <2>3
  <1> QED
    BY <1>1, <1>2

\* No step leaves the types, given where the walk may be.  One step per part of
\* the state, under it one per group of actions, and under that one per action
\* that changes the part.
LEMMA TypeStep ==
  ASSUME TypeOK, WalkInv, DepthIsDurable, [Next]_vars
  PROVE  TypeOK'
  <1> USE TableFacts, SafeDepthAssumption, BoundsAssumption DEF TypeOK,
          nodeVars, dbVars, histVars, loopVars, walkVars, parkVars, probeVars, cliVars
  <1>1. NodeTypes'
    <2>1. CASE UNCHANGED vars
      BY <2>1 DEF vars, NodeTypes
    <2>2. CASE Boot \/ BootPark
      BY <2>2 DEF Boot, BootPark, AdoptMarker, ProbeFault, ParkFor, NodeTypes
    <2>3. CASE Park
      BY <2>3 DEF Park, ParkCheck, ResumeCached, ResumeProbe, ResumeUnread, ParkFor,
          LeavePark, AdoptMarker, ProbeFault, NodeTypes
    <2>4. CASE TipStep
      BY <2>4 DEF TipStep, RefreshRefused, Refresh, NoRefresh, SettleTip, SettleGivesUp,
          CompareTips, SettleSwap, SwapGivesUp, Again, EndPass, ForgetWalk, NodeTypes
    <2>5. CASE IngestStep
      BY <2>5 DEF IngestStep, FetchNextBlock, FetchFails, RetryUndecodableBlock,
          DetectReorg, CommitBlock, StoreFails, PurgeExpired, Again, Rederive, Max2,
          EndPass, ForgetWalk, NodeTypes
    <2>6. CASE WalkStep
      BY <2>6 DEF WalkStep, VerifyReorgEntry, VerifyReorgAborts, ReadPriorRollbackDepth,
          WalkEmpty, WalkAboveTip, WalkCompare, WalkReadFails, RefreshReorgTip,
          SettleReorgTip, ReorgTipRefused, ReorgWait, AboveTipDiffers, AboveTipProven,
          ProveReorgedAway, DeleteBlock, DeleteUnacked, DeleteFails, DeleteGivesUp,
          ParkOnHalt, LoseMemory, Rederive, Again, DeleteTop, WriteHaltRow, EndPass,
          ForgetWalk, NodeTypes
    <2>7. CASE HaltStep
      BY <2>7 DEF HaltStep, HaltReorg, MarkConfirmed, MarkUnconfirmed, HaltedSkip,
          HaltedFirstReading, HaltedReadStops, HaltedSecondReading, HaltedProof,
          HaltedDelete, HaltedDeleteStops, WriteHaltRow, ParkOnHalt, HaltedWalkStops,
          DeleteTop, EndPass, ForgetWalk, NodeTypes
    <2>8. CASE Outside
      BY <2>8 DEF Outside, Calm, Crash, ProbeRead, ProbeAnswer, ClearPin,
          ClearRefused, ClearCheck, ClearReread, ClearWrite, NodeMove, LoseMemory,
          AdoptMarker, ProbeFault, ForgetWalk, NodeTypes
    <2> QED
      BY <2>1, <2>2, <2>3, <2>4, <2>5, <2>6, <2>7, <2>8 DEF Next, DecoderStep
  <1>2. DbTypes'
    <2>1. CASE UNCHANGED vars
      BY <2>1 DEF vars, DbTypes
    <2>2. CASE Boot \/ BootPark
      BY <2>2 DEF Boot, BootPark, AdoptMarker, ProbeFault, ParkFor, DbTypes
    <2>3. CASE Park
      BY <2>3 DEF Park, ParkCheck, ResumeCached, ResumeProbe, ResumeUnread, ParkFor,
          LeavePark, AdoptMarker, ProbeFault, DbTypes
    <2>4. CASE TipStep
      BY <2>4 DEF TipStep, RefreshRefused, Refresh, NoRefresh, SettleTip, SettleGivesUp,
          CompareTips, SettleSwap, SwapGivesUp, Again, EndPass, ForgetWalk, DbTypes
    <2>5. CASE IngestStep
      <3>1. CASE CommitBlock
        BY <3>1, AppendFacts DEF CommitBlock, DbTypes
      <3>2. CASE PurgeExpired
        BY <3>2 DEF PurgeExpired, DbTypes, Max2, LoopTypes
      <3>3. CASE ~(CommitBlock \/ PurgeExpired)
        BY <2>5, <3>3 DEF IngestStep, FetchNextBlock, FetchFails, RetryUndecodableBlock,
            DetectReorg, StoreFails, Again, Rederive, EndPass, ForgetWalk, DbTypes
      <3> QED
        BY <3>1, <3>2, <3>3
    <2>6. CASE WalkStep
      <3>1. CASE DeleteBlock
        BY <3>1, DeleteTopFacts DEF DeleteBlock, DbTypes, WalkInv
      <3>2. CASE DeleteUnacked
        BY <3>2, DeleteTopFacts DEF DeleteUnacked, DbTypes, WalkInv
      <3>3. CASE DeleteGivesUp
        BY <3>3, WriteHaltRowTypes DEF DeleteGivesUp, DbTypes
      <3>4. CASE ~(DeleteBlock \/ DeleteUnacked \/ DeleteGivesUp)
        BY <2>6, <3>4 DEF WalkStep, VerifyReorgEntry, VerifyReorgAborts,
            ReadPriorRollbackDepth, WalkEmpty, WalkAboveTip, WalkCompare, WalkReadFails,
            RefreshReorgTip, SettleReorgTip, ReorgTipRefused, ReorgWait,
            AboveTipDiffers, AboveTipProven, ProveReorgedAway, DeleteFails, ParkOnHalt,
            LoseMemory, Rederive, Again, EndPass, ForgetWalk, DbTypes
      <3> QED
        BY <3>1, <3>2, <3>3, <3>4
    <2>7. CASE HaltStep
      <3>1. CASE MarkConfirmed
        BY <3>1, WriteHaltRowTypes DEF MarkConfirmed, DbTypes
      <3>2. CASE MarkUnconfirmed
        BY <3>2, WriteHaltRowTypes DEF MarkUnconfirmed, DbTypes
      <3>3. CASE HaltedDelete
        BY <3>3, DeleteTopFacts DEF HaltedDelete, DbTypes, WalkInv, WalkTypes, HaltedPcs
      <3>4. CASE ~(MarkConfirmed \/ MarkUnconfirmed \/ HaltedDelete)
        BY <2>7, <3>4 DEF HaltStep, HaltReorg, HaltedSkip, HaltedFirstReading,
            HaltedReadStops, HaltedSecondReading, HaltedProof, HaltedDeleteStops,
            HaltedWalkStops, ParkOnHalt, EndPass, ForgetWalk, DbTypes
      <3> QED
        BY <3>1, <3>2, <3>3, <3>4
    <2>8. CASE Outside
      BY <2>8 DEF Outside, Calm, Crash, ProbeRead, ProbeAnswer, ClearPin,
          ClearRefused, ClearCheck, ClearReread, ClearWrite, NodeMove, LoseMemory,
          AdoptMarker, ProbeFault, ForgetWalk, DbTypes
    <2> QED
      BY <2>1, <2>2, <2>3, <2>4, <2>5, <2>6, <2>7, <2>8 DEF Next, DecoderStep
  <1>3. HistTypes'
    <2>1. CASE UNCHANGED vars
      BY <2>1 DEF vars, HistTypes
    <2>2. CASE Boot \/ BootPark
      BY <2>2 DEF Boot, BootPark, AdoptMarker, ProbeFault, ParkFor, HistTypes, Max2
    <2>3. CASE Park
      BY <2>3 DEF Park, ParkCheck, ResumeCached, ResumeProbe, ResumeUnread, ParkFor,
          LeavePark, AdoptMarker, ProbeFault, HistTypes, Max2
    <2>4. CASE TipStep
      BY <2>4 DEF TipStep, RefreshRefused, Refresh, NoRefresh, SettleTip, SettleGivesUp,
          CompareTips, SettleSwap, SwapGivesUp, Again, EndPass, ForgetWalk, HistTypes,
          Max2
    <2>5. CASE IngestStep
      BY <2>5 DEF IngestStep, FetchNextBlock, FetchFails, RetryUndecodableBlock,
          DetectReorg, CommitBlock, StoreFails, PurgeExpired, Again, Rederive, Max2,
          EndPass, ForgetWalk, HistTypes
    <2>6. CASE WalkStep
      <3>1. CASE DeleteBlock
        BY <3>1, DeleteTopFacts DEF DeleteBlock, HistTypes, Max2, WalkInv
      <3>2. CASE DeleteUnacked
        BY <3>2, DeleteTopFacts DEF DeleteUnacked, HistTypes, Max2, WalkInv
      <3>3. CASE ~(DeleteBlock \/ DeleteUnacked)
        BY <2>6, <3>3 DEF WalkStep, VerifyReorgEntry, VerifyReorgAborts,
            ReadPriorRollbackDepth, WalkEmpty, WalkAboveTip, WalkCompare, WalkReadFails,
            RefreshReorgTip, SettleReorgTip, ReorgTipRefused, ReorgWait,
            AboveTipDiffers, AboveTipProven, ProveReorgedAway, DeleteFails,
            DeleteGivesUp, ParkOnHalt, LoseMemory, Rederive, Again, WriteHaltRow,
            EndPass, ForgetWalk, HistTypes, Max2
      <3> QED
        BY <3>1, <3>2, <3>3
    <2>7. CASE HaltStep
      <3>1. CASE HaltedDelete
        BY <3>1, DeleteTopFacts DEF HaltedDelete, HistTypes, Max2, WalkInv, WalkTypes,
            HaltedPcs
      <3>2. CASE ~(HaltedDelete)
        BY <2>7, <3>2 DEF HaltStep, HaltReorg, MarkConfirmed, MarkUnconfirmed,
            HaltedSkip, HaltedFirstReading, HaltedReadStops, HaltedSecondReading,
            HaltedProof, HaltedDeleteStops, WriteHaltRow, ParkOnHalt, HaltedWalkStops,
            EndPass, ForgetWalk, HistTypes, Max2
      <3> QED
        BY <3>1, <3>2
    <2>8. CASE Outside
      BY <2>8 DEF Outside, Calm, Crash, ProbeRead, ProbeAnswer, ClearPin,
          ClearRefused, ClearCheck, ClearReread, ClearWrite, NodeMove, LoseMemory,
          AdoptMarker, ProbeFault, ForgetWalk, HistTypes, Max2
    <2> QED
      BY <2>1, <2>2, <2>3, <2>4, <2>5, <2>6, <2>7, <2>8 DEF Next, DecoderStep
  <1>4. LoopTypes'
    <2>1. CASE UNCHANGED vars
      BY <2>1 DEF vars, LoopTypes
    <2>2. CASE Boot \/ BootPark
      BY <2>2 DEF Boot, BootPark, AdoptMarker, ProbeFault, ParkFor, LoopTypes, Pcs,
          NoInfo, Parsing, Perhaps, Max2
    <2>3. CASE Park
      BY <2>3 DEF Park, ParkCheck, ResumeCached, ResumeProbe, ResumeUnread, ParkFor,
          LeavePark, AdoptMarker, ProbeFault, LoopTypes, Pcs, NoInfo, Parsing, Perhaps,
          Max2
    <2>4. CASE TipStep
      BY <2>4 DEF TipStep, RefreshRefused, Refresh, NoRefresh, SettleTip, SettleGivesUp,
          CompareTips, SettleSwap, SwapGivesUp, Again, EndPass, ForgetWalk, LoopTypes,
          Pcs, NoInfo, Parsing, Perhaps, Max2
    <2>5. CASE IngestStep
      BY <2>5 DEF IngestStep, FetchNextBlock, FetchFails, RetryUndecodableBlock,
          DetectReorg, CommitBlock, StoreFails, PurgeExpired, Again, Rederive, Max2,
          EndPass, ForgetWalk, LoopTypes, Pcs, NoInfo, Parsing, Perhaps
    <2>6. CASE WalkStep
      BY <2>6 DEF WalkStep, VerifyReorgEntry, VerifyReorgAborts, ReadPriorRollbackDepth,
          WalkEmpty, WalkAboveTip, WalkCompare, WalkReadFails, RefreshReorgTip,
          SettleReorgTip, ReorgTipRefused, ReorgWait, AboveTipDiffers, AboveTipProven,
          ProveReorgedAway, DeleteBlock, DeleteUnacked, DeleteFails, DeleteGivesUp,
          ParkOnHalt, LoseMemory, Rederive, Again, DeleteTop, WriteHaltRow, EndPass,
          ForgetWalk, LoopTypes, Pcs, NoInfo, Parsing, Perhaps, Max2
    <2>7. CASE HaltStep
      BY <2>7 DEF HaltStep, HaltReorg, MarkConfirmed, MarkUnconfirmed, HaltedSkip,
          HaltedFirstReading, HaltedReadStops, HaltedSecondReading, HaltedProof,
          HaltedDelete, HaltedDeleteStops, WriteHaltRow, ParkOnHalt, HaltedWalkStops,
          DeleteTop, EndPass, ForgetWalk, LoopTypes, Pcs, NoInfo, Parsing, Perhaps, Max2
    <2>8. CASE Outside
      BY <2>8 DEF Outside, Calm, Crash, ProbeRead, ProbeAnswer, ClearPin,
          ClearRefused, ClearCheck, ClearReread, ClearWrite, NodeMove, LoseMemory,
          AdoptMarker, ProbeFault, ForgetWalk, LoopTypes, Pcs, NoInfo, Parsing, Perhaps,
          Max2
    <2> QED
      BY <2>1, <2>2, <2>3, <2>4, <2>5, <2>6, <2>7, <2>8 DEF Next, DecoderStep
  <1>5. WalkTypes'
    <2>1. CASE UNCHANGED vars
      BY <2>1 DEF vars, WalkTypes
    <2>2. CASE Boot \/ BootPark
      BY <2>2 DEF Boot, BootPark, AdoptMarker, ProbeFault, ParkFor, WalkTypes, NoInfo
    <2>3. CASE Park
      BY <2>3 DEF Park, ParkCheck, ResumeCached, ResumeProbe, ResumeUnread, ParkFor,
          LeavePark, AdoptMarker, ProbeFault, WalkTypes, NoInfo
    <2>4. CASE TipStep
      <3>1. CASE CompareTips
        BY <3>1 DEF CompareTips, WalkTypes, NoInfo, LoopTypes
      <3>2. CASE SettleSwap
        BY <3>2 DEF SettleSwap, WalkTypes, NoInfo, LoopTypes
      <3>3. CASE SwapGivesUp
        BY <3>3 DEF SwapGivesUp, WalkTypes, NoInfo, Again, EndPass, ForgetWalk
      <3>4. CASE ~(CompareTips \/ SettleSwap \/ SwapGivesUp)
        BY <2>4, <3>4 DEF TipStep, RefreshRefused, Refresh, NoRefresh, SettleTip,
            SettleGivesUp, WalkTypes, NoInfo
      <3> QED
        BY <3>1, <3>2, <3>3, <3>4
    <2>5. CASE IngestStep
      BY <2>5 DEF IngestStep, FetchNextBlock, FetchFails, RetryUndecodableBlock,
          DetectReorg, CommitBlock, StoreFails, PurgeExpired, Again, Rederive, Max2,
          EndPass, ForgetWalk, WalkTypes, NoInfo
    <2>6. CASE WalkStep
      <3>1. CASE VerifyReorgEntry
        BY <3>1 DEF VerifyReorgEntry, WalkTypes, NoInfo, ParkOnHalt, EndPass, ForgetWalk
      <3>2. CASE VerifyReorgAborts
        BY <3>2 DEF VerifyReorgAborts, WalkTypes, NoInfo, LoseMemory, ForgetWalk
      <3>3. CASE ReadPriorRollbackDepth
        BY <3>3, DepthCount DEF ReadPriorRollbackDepth, WalkTypes, NoInfo, LoopTypes
      <3>4. CASE RefreshReorgTip
        BY <3>4 DEF RefreshReorgTip, WalkTypes, NoInfo
      <3>5. CASE SettleReorgTip
        BY <3>5 DEF SettleReorgTip, WalkTypes, NoInfo
      <3>6. CASE ReorgTipRefused
        BY <3>6 DEF ReorgTipRefused, WalkTypes, NoInfo
      <3>7. CASE ReorgWait
        BY <3>7 DEF ReorgWait, WalkTypes, NoInfo, Again, EndPass, ForgetWalk
      <3>8. CASE DeleteGivesUp
        BY <3>8 DEF DeleteGivesUp, WalkTypes, NoInfo, LoseMemory, ForgetWalk
      <3>9. CASE WalkEmpty
        BY <3>9 DEF WalkEmpty, WalkTypes, NoInfo, Rederive, EndPass, ForgetWalk
      <3>10. CASE WalkCompare
        BY <3>10 DEF WalkCompare, WalkTypes, NoInfo, Rederive, EndPass, ForgetWalk
      <3>11. CASE ~(VerifyReorgEntry \/ VerifyReorgAborts \/
                    ReadPriorRollbackDepth \/ RefreshReorgTip \/ SettleReorgTip \/
                    ReorgTipRefused \/ ReorgWait \/ DeleteGivesUp \/ WalkEmpty \/
                    WalkCompare)
        BY <2>6, <3>11 DEF WalkStep, WalkAboveTip, WalkReadFails, AboveTipDiffers,
            AboveTipProven, ProveReorgedAway, DeleteBlock, DeleteUnacked, DeleteFails,
            DeleteTop, WalkTypes, NoInfo
      <3> QED
        BY <3>1, <3>2, <3>3, <3>4, <3>5, <3>6, <3>7, <3>8, <3>9, <3>10, <3>11
    <2>7. CASE HaltStep
      <3>1. CASE MarkConfirmed
        BY <3>1 DEF MarkConfirmed, WalkTypes, NoInfo
      <3>2. CASE MarkUnconfirmed
        BY <3>2 DEF MarkUnconfirmed, WalkTypes, NoInfo, ParkOnHalt, EndPass, ForgetWalk
      <3>3. CASE HaltedSkip
        BY <3>3, LowestFacts DEF HaltedSkip, WalkTypes, NoInfo
      <3>4. CASE HaltedFirstReading
        BY <3>4 DEF HaltedFirstReading, WalkTypes, NoInfo
      <3>5. CASE HaltedReadStops
        BY <3>5 DEF HaltedReadStops, WalkTypes, NoInfo, HaltedWalkStops, ParkOnHalt,
            EndPass, ForgetWalk
      <3>6. CASE HaltedSecondReading
        BY <3>6, LowestFacts DEF HaltedSecondReading, WalkTypes, NoInfo, WalkInv,
            ParkOnHalt, EndPass, ForgetWalk
      <3>7. CASE HaltedDeleteStops
        BY <3>7 DEF HaltedDeleteStops, WalkTypes, NoInfo, HaltedWalkStops, ParkOnHalt,
            EndPass, ForgetWalk
      <3>8. CASE ~(MarkConfirmed \/ MarkUnconfirmed \/ HaltedSkip \/
                    HaltedFirstReading \/ HaltedReadStops \/ HaltedSecondReading \/
                    HaltedDeleteStops)
        BY <2>7, <3>8 DEF HaltStep, HaltReorg, HaltedProof, HaltedDelete, DeleteTop,
            WalkTypes, NoInfo
      <3> QED
        BY <3>1, <3>2, <3>3, <3>4, <3>5, <3>6, <3>7, <3>8
    <2>8. CASE Outside
      BY <2>8 DEF Outside, Calm, Crash, ProbeRead, ProbeAnswer, ClearPin,
          ClearRefused, ClearCheck, ClearReread, ClearWrite, NodeMove, LoseMemory,
          AdoptMarker, ProbeFault, ForgetWalk, WalkTypes, NoInfo
    <2> QED
      BY <2>1, <2>2, <2>3, <2>4, <2>5, <2>6, <2>7, <2>8 DEF Next, DecoderStep
  <1>6. ParkTypes'
    <2>1. CASE UNCHANGED vars
      BY <2>1 DEF vars, ParkTypes
    <2>2. CASE Boot \/ BootPark
      <3>1. CASE Boot
        BY <3>1, AdoptMarkerTypes DEF Boot, ParkTypes, ProbeFault, DbTypes
      <3>2. CASE BootPark
        BY <3>2 DEF BootPark, ParkTypes, ParkFor
      <3> QED
        BY <2>2, <3>1, <3>2
    <2>3. CASE Park
      <3>1. CASE ParkCheck
        BY <3>1 DEF ParkCheck, ParkTypes, ParkFor
      <3>2. CASE ResumeCached
        BY <3>2 DEF ResumeCached, ParkTypes
      <3>3. CASE ResumeProbe
        BY <3>3, AdoptMarkerTypes DEF ResumeProbe, ParkTypes, ProbeFault, DbTypes
      <3>4. CASE ResumeUnread
        BY <3>4, AdoptMarkerTypes DEF ResumeUnread, ParkTypes, ProbeFault, DbTypes,
            ParkFor
      <3> QED
        BY <2>3, <3>1, <3>2, <3>3, <3>4 DEF Park
    <2>4. CASE TipStep
      BY <2>4 DEF TipStep, RefreshRefused, Refresh, NoRefresh, SettleTip, SettleGivesUp,
          CompareTips, SettleSwap, SwapGivesUp, Again, EndPass, ForgetWalk, ParkTypes
    <2>5. CASE IngestStep
      BY <2>5 DEF IngestStep, FetchNextBlock, FetchFails, RetryUndecodableBlock,
          DetectReorg, CommitBlock, StoreFails, PurgeExpired, Again, Rederive, Max2,
          EndPass, ForgetWalk, ParkTypes
    <2>6. CASE WalkStep
      BY <2>6 DEF WalkStep, VerifyReorgEntry, VerifyReorgAborts, ReadPriorRollbackDepth,
          WalkEmpty, WalkAboveTip, WalkCompare, WalkReadFails, RefreshReorgTip,
          SettleReorgTip, ReorgTipRefused, ReorgWait, AboveTipDiffers, AboveTipProven,
          ProveReorgedAway, DeleteBlock, DeleteUnacked, DeleteFails, DeleteGivesUp,
          ParkOnHalt, LoseMemory, Rederive, Again, DeleteTop, WriteHaltRow, EndPass,
          ForgetWalk, ParkTypes
    <2>7. CASE HaltStep
      BY <2>7 DEF HaltStep, HaltReorg, MarkConfirmed, MarkUnconfirmed, HaltedSkip,
          HaltedFirstReading, HaltedReadStops, HaltedSecondReading, HaltedProof,
          HaltedDelete, HaltedDeleteStops, WriteHaltRow, ParkOnHalt, HaltedWalkStops,
          DeleteTop, EndPass, ForgetWalk, ParkTypes
    <2>8. CASE Outside
      <3>1. CASE Crash
        BY <3>1 DEF Crash, ParkTypes, LoseMemory
      <3>2. CASE ProbeAnswer
        BY <3>2, AdoptMarkerTypes DEF ProbeAnswer, ParkTypes, ProbeFault
      <3>3. CASE ~(Crash \/ ProbeAnswer)
        BY <2>8, <3>3 DEF Outside, Calm, ProbeRead, ClearPin, ClearRefused, ClearCheck,
            ClearReread, ClearWrite, NodeMove, ParkTypes
      <3> QED
        BY <3>1, <3>2, <3>3
    <2> QED
      BY <2>1, <2>2, <2>3, <2>4, <2>5, <2>6, <2>7, <2>8 DEF Next, DecoderStep
  <1>7. OtherTypes'
    <2>1. CASE UNCHANGED vars
      BY <2>1 DEF vars, OtherTypes
    <2>2. CASE Boot \/ BootPark
      BY <2>2 DEF Boot, BootPark, AdoptMarker, ProbeFault, ParkFor, OtherTypes
    <2>3. CASE Park
      BY <2>3 DEF Park, ParkCheck, ResumeCached, ResumeProbe, ResumeUnread, ParkFor,
          LeavePark, AdoptMarker, ProbeFault, OtherTypes
    <2>4. CASE TipStep
      BY <2>4 DEF TipStep, RefreshRefused, Refresh, NoRefresh, SettleTip, SettleGivesUp,
          CompareTips, SettleSwap, SwapGivesUp, Again, EndPass, ForgetWalk, OtherTypes
    <2>5. CASE IngestStep
      BY <2>5 DEF IngestStep, FetchNextBlock, FetchFails, RetryUndecodableBlock,
          DetectReorg, CommitBlock, StoreFails, PurgeExpired, Again, Rederive, Max2,
          EndPass, ForgetWalk, OtherTypes
    <2>6. CASE WalkStep
      BY <2>6 DEF WalkStep, VerifyReorgEntry, VerifyReorgAborts, ReadPriorRollbackDepth,
          WalkEmpty, WalkAboveTip, WalkCompare, WalkReadFails, RefreshReorgTip,
          SettleReorgTip, ReorgTipRefused, ReorgWait, AboveTipDiffers, AboveTipProven,
          ProveReorgedAway, DeleteBlock, DeleteUnacked, DeleteFails, DeleteGivesUp,
          ParkOnHalt, LoseMemory, Rederive, Again, DeleteTop, WriteHaltRow, EndPass,
          ForgetWalk, OtherTypes
    <2>7. CASE HaltStep
      BY <2>7 DEF HaltStep, HaltReorg, MarkConfirmed, MarkUnconfirmed, HaltedSkip,
          HaltedFirstReading, HaltedReadStops, HaltedSecondReading, HaltedProof,
          HaltedDelete, HaltedDeleteStops, WriteHaltRow, ParkOnHalt, HaltedWalkStops,
          DeleteTop, EndPass, ForgetWalk, OtherTypes
    <2>8. CASE Outside
      <3>1. CASE Crash
        BY <3>1 DEF Crash, OtherTypes, LoseMemory
      <3>2. CASE ProbeRead
        BY <3>2 DEF ProbeRead, OtherTypes
      <3>3. CASE ClearPin
        BY <3>3 DEF ClearPin, OtherTypes, DbTypes
      <3>4. CASE ProbeAnswer
        <4>1. overtaken' \in BOOLEAN
          BY <3>4, Zenon DEF ProbeAnswer, OtherTypes
        <4> QED
          BY <3>4, <4>1 DEF ProbeAnswer, OtherTypes
      <3>5. CASE ~(Crash \/ ProbeRead \/ ClearPin \/ ProbeAnswer)
        BY <2>8, <3>5 DEF Outside, Calm, ClearRefused, ClearCheck, ClearReread,
            ClearWrite, NodeMove, OtherTypes
      <3> QED
        BY <3>1, <3>2, <3>3, <3>4, <3>5
    <2> QED
      BY <2>1, <2>2, <2>3, <2>4, <2>5, <2>6, <2>7, <2>8 DEF Next, DecoderStep
  <1> QED
    BY <1>1, <1>2, <1>3, <1>4, <1>5, <1>6, <1>7
-----------------------------------------------------------------------------
(* The walk.                                                                *)

\* Deleting height t marks it: the marked heights above t - 1 are t and those above.
LEMMA DeletedHeights ==
  ASSUME NEW rows \in SUBSET Nat, NEW t \in Nat, NEW top \in Nat, 1 <= t, t <= top,
         {h \in rows : h > t} = (t + 1)..top
  PROVE  {h \in rows \cup {t} : h > t - 1} = ((t - 1) + 1)..top
  <1>1. ASSUME NEW h \in Nat
        PROVE  h \in {g \in rows \cup {t} : g > t - 1} <=> h \in ((t - 1) + 1)..top
    <2>1. CASE h > t
      <3>1. h \in rows <=> h \in (t + 1)..top
        BY <2>1
      <3> QED
        BY <2>1, <3>1
    <2>2. CASE h <= t
      BY <2>2
    <2> QED
      BY <2>1, <2>2
  <1>2. \A h \in {g \in rows \cup {t} : g > t - 1} : h \in Nat
    OBVIOUS
  <1>3. \A h \in ((t - 1) + 1)..top : h \in Nat
    OBVIOUS
  <1> QED
    BY <1>1, <1>2, <1>3

\* A committed block leaves the REORG rows naming exactly what is still rolled back.
LEMMA ParseKeepsDepth ==
  ASSUME TypeOK, DepthInv, stored' = Append(stored, held), reorgRows' = reorgRows,
         highest' = Max2(highest, StoredTip + 1)
  PROVE  DepthIsDurable'
  <1>1. StoredTip' = StoredTip + 1
    BY AppendFacts
  <1>2. reorgRows \in SUBSET Nat /\ StoredTip \in Nat /\ highest \in Nat
    BY TableFacts DEF TypeOK, DbTypes, HistTypes
  <1>3. {h \in reorgRows : h > StoredTip} = (StoredTip + 1)..highest
    BY DEF DepthInv, DepthIsDurable, RolledBack
  <1> DEFINE newTop == Max2(highest, StoredTip + 1)
  <1>4. newTop \in Nat /\ (newTop = highest \/ (newTop = StoredTip + 1 /\ highest <= StoredTip))
    BY <1>2 DEF Max2
  <1>5. {h \in reorgRows : h > StoredTip + 1} = ((StoredTip + 1) + 1)..newTop
    <2> HIDE DEF newTop
    <2>1. ASSUME NEW h \in Nat
          PROVE  h \in {g \in reorgRows : g > StoredTip + 1}
                   <=> h \in ((StoredTip + 1) + 1)..newTop
      <3>1. (h \in reorgRows /\ h > StoredTip) <=> h \in (StoredTip + 1)..highest
        BY <1>3
      <3> QED
        BY <1>2, <1>4, <3>1
    <2>2. \A h \in {g \in reorgRows : g > StoredTip + 1} : h \in Nat
      BY <1>2
    <2>3. \A h \in ((StoredTip + 1) + 1)..newTop : h \in Nat
      BY <1>2, <1>4
    <2> QED
      BY <2>1, <2>2, <2>3
  <1>6. RolledBack' = {h \in reorgRows' : h > StoredTip'}
    BY DEF RolledBack
  <1>7. DepthIsDurable' <=> RolledBack' = (StoredTip' + 1)..highest'
    BY DEF DepthIsDurable
  <1> QED
    BY <1>1, <1>5, <1>6, <1>7

\* One more delete, counted or lost, is one more block below the highest.
LEMMA DeleteCounts ==
  ASSUME NEW p \in Nat, NEW d \in Nat, NEW d2 \in Nat, NEW u \in Nat, NEW u2 \in Nat,
         NEW top \in Nat, NEW t \in Nat,
         d2 + u2 = d + u + 1, p + d + u >= top - t
  PROVE  p + d2 + u2 >= top - (t - 1)
  OBVIOUS

\* A delete keeps the depth readable.
LEMMA DeleteKeepsDepth ==
  ASSUME TypeOK, DepthInv, StoredTip >= 1, DeleteTop, highest' = highest
  PROVE  DepthIsDurable'
  <1>1. StoredTip' = StoredTip - 1 /\ reorgRows' = reorgRows \cup {StoredTip}
    BY DeleteTopFacts
  <1>2. reorgRows \in SUBSET Nat /\ StoredTip \in Nat /\ highest \in Nat /\ StoredTip <= highest
    BY TableFacts DEF TypeOK, DbTypes, HistTypes, DepthInv
  <1>3. {h \in reorgRows : h > StoredTip} = (StoredTip + 1)..highest
    BY DEF DepthInv, DepthIsDurable, RolledBack
  <1>4. {h \in reorgRows \cup {StoredTip} : h > StoredTip - 1} = ((StoredTip - 1) + 1)..highest
    BY <1>2, <1>3, DeletedHeights
  <1>5. RolledBack' = {h \in reorgRows' : h > StoredTip'}
    BY DEF RolledBack
  <1>6. DepthIsDurable' <=> RolledBack' = (StoredTip' + 1)..highest'
    BY DEF DepthIsDurable
  <1> QED
    BY <1>1, <1>4, <1>5, <1>6

\* Every delete is preceded by the checks that bound it.
LEMMA WalkInvStep ==
  ASSUME LoopInv, [Next]_vars
  PROVE  WalkInv'
  <1> USE TableFacts, SafeDepthAssumption DEF LoopInv, TypeOK,
          nodeVars, dbVars, histVars, loopVars, walkVars, parkVars, probeVars, cliVars
  <1>1. CASE UNCHANGED vars
    BY <1>1 DEF vars, WalkInv, HaltedPcs, StoredTip,
          AlreadyRolledBack, Lowest, Max2, LoopTypes, WalkTypes
  <1>2. CASE Boot \/ BootPark
    BY <1>2 DEF Boot, BootPark, WalkInv, HaltedPcs, StoredTip, AlreadyRolledBack,
        Lowest, Max2, LoopTypes, WalkTypes
  <1>3. CASE Park
    BY <1>3 DEF Park, ParkCheck, ResumeCached, ResumeProbe, ResumeUnread, WalkInv,
        HaltedPcs, StoredTip, AlreadyRolledBack, Lowest, Max2, LoopTypes, WalkTypes
  <1>4. CASE TipStep
    BY <1>4 DEF TipStep, RefreshRefused, Refresh, NoRefresh, SettleTip, SettleGivesUp,
        CompareTips, SettleSwap, SwapGivesUp, Again, EndPass, ForgetWalk, WalkInv,
        HaltedPcs, StoredTip, AlreadyRolledBack, Lowest, Max2, LoopTypes, WalkTypes
  <1>5. CASE IngestStep
    BY <1>5 DEF IngestStep, FetchNextBlock, FetchFails, RetryUndecodableBlock,
        DetectReorg, CommitBlock, StoreFails, PurgeExpired, Again, Rederive, Max2,
        EndPass, ForgetWalk, WalkInv, HaltedPcs, StoredTip, AlreadyRolledBack, Lowest,
        LoopTypes, WalkTypes
  <1>6. CASE WalkStep
    <2>1. CASE DeleteBlock
      BY <2>1 DEF DeleteBlock, WalkInv, HaltedPcs, StoredTip, AlreadyRolledBack, Lowest,
          Max2, LoopTypes, WalkTypes
    <2>2. CASE DeleteUnacked
      BY <2>2 DEF DeleteUnacked, WalkInv, HaltedPcs, StoredTip, AlreadyRolledBack,
          Lowest, Max2, LoopTypes, WalkTypes
    <2>3. CASE DeleteGivesUp
      BY <2>3 DEF DeleteGivesUp, WalkInv, HaltedPcs, StoredTip, AlreadyRolledBack,
          Lowest, Max2, LoopTypes, WalkTypes, LoseMemory, ForgetWalk
    <2>4. CASE ProveReorgedAway
      BY <2>4 DEF ProveReorgedAway, WalkInv, HaltedPcs, StoredTip, AlreadyRolledBack,
          Lowest, Max2, LoopTypes, WalkTypes
    <2>5. CASE ~(DeleteBlock \/ DeleteUnacked \/ DeleteGivesUp \/ ProveReorgedAway)
      BY <1>6, <2>5 DEF WalkStep, VerifyReorgEntry, VerifyReorgAborts,
          ReadPriorRollbackDepth, WalkEmpty, WalkAboveTip, WalkCompare, WalkReadFails,
          RefreshReorgTip, SettleReorgTip, ReorgTipRefused, ReorgWait, AboveTipDiffers,
          AboveTipProven, DeleteFails, ParkOnHalt, LoseMemory, Rederive, Again, EndPass,
          ForgetWalk, WalkInv, HaltedPcs, StoredTip, AlreadyRolledBack, Lowest, Max2,
          LoopTypes, WalkTypes
    <2> QED
      BY <2>1, <2>2, <2>3, <2>4, <2>5
  <1>7. CASE HaltStep
    <2>1. CASE HaltedDelete
      BY <2>1, DeleteTopFacts DEF HaltedDelete, WalkInv, HaltedPcs, StoredTip,
          AlreadyRolledBack, Lowest, Max2, LoopTypes, WalkTypes
    <2>2. CASE HaltedFirstReading
      BY <2>2 DEF HaltedFirstReading, WalkInv, HaltedPcs, StoredTip, AlreadyRolledBack,
          Lowest, Max2, LoopTypes, WalkTypes
    <2>3. CASE MarkConfirmed
      BY <2>3 DEF MarkConfirmed, WalkInv, HaltedPcs, StoredTip, AlreadyRolledBack,
          Lowest, Max2, LoopTypes, WalkTypes
    <2>4. CASE HaltedSecondReading
      <3>1. stored' = stored /\ pc' \in {"hRead", "loop", "hProof"} /\ pc = "hRead2"
        BY <2>4 DEF HaltedSecondReading, ParkOnHalt, EndPass
      <3>2. CASE pc' = "hRead"
        <4>1. readAt' = readAt - 1
          BY <2>4, <3>2 DEF HaltedSecondReading, ParkOnHalt, EndPass
        <4> QED
          BY <3>1, <3>2, <4>1 DEF WalkInv, HaltedPcs, StoredTip, WalkTypes
      <3>3. CASE pc' = "hProof"
        <4>1. UNCHANGED <<readAt, prior, deleted>>
          BY <2>4, <3>3 DEF HaltedSecondReading, ParkOnHalt, EndPass
        <4> QED
          BY <3>1, <3>3, <4>1 DEF WalkInv, HaltedPcs, StoredTip, Lowest, AlreadyRolledBack
      <3>4. CASE pc' = "loop"
        BY <3>4 DEF WalkInv, HaltedPcs
      <3> QED
        BY <3>1, <3>2, <3>3, <3>4
    <2>5. CASE HaltedProof
      BY <2>5 DEF HaltedProof, WalkInv, HaltedPcs, StoredTip, AlreadyRolledBack, Lowest,
          Max2, LoopTypes, WalkTypes
    <2>6. CASE HaltedSkip
      BY <2>6 DEF HaltedSkip, WalkInv, HaltedPcs, StoredTip, AlreadyRolledBack, Lowest,
          Max2, LoopTypes, WalkTypes
    <2>7. CASE ~(HaltedDelete \/ HaltedFirstReading \/ MarkConfirmed \/
                 HaltedSecondReading \/ HaltedProof \/ HaltedSkip)
      BY <1>7, <2>7 DEF HaltStep, HaltReorg, MarkUnconfirmed, HaltedReadStops,
          HaltedDeleteStops, ParkOnHalt, HaltedWalkStops, EndPass, ForgetWalk, WalkInv,
          HaltedPcs, StoredTip, AlreadyRolledBack, Lowest, Max2, LoopTypes, WalkTypes
    <2> QED
      BY <2>1, <2>2, <2>3, <2>4, <2>5, <2>6, <2>7
  <1>8. CASE Outside
    BY <1>8 DEF Outside, Calm, Crash, ProbeRead, ProbeAnswer, ClearPin,
        ClearRefused, ClearCheck, ClearReread, ClearWrite, NodeMove, LoseMemory,
        ForgetWalk, WalkInv, HaltedPcs, StoredTip, AlreadyRolledBack, Lowest, Max2,
        LoopTypes, WalkTypes
  <1> QED
    BY <1>1, <1>2, <1>3, <1>4, <1>5, <1>6, <1>7, <1>8 DEF Next, DecoderStep

\* A halt becomes live only where the walk has ended or is about to be a halted one.
LEMMA GuardInvStep ==
  ASSUME LoopInv, [Next]_vars
  PROVE  GuardInv'
  <1> USE TableFacts, SafeDepthAssumption DEF LoopInv, TypeOK,
          nodeVars, dbVars, histVars, loopVars, walkVars, parkVars, probeVars, cliVars
  <1>1. CASE UNCHANGED vars
    BY <1>1 DEF vars, GuardInv, PreHaltPcs
  <1>2. CASE Boot \/ BootPark
    BY <1>2 DEF Boot, BootPark, GuardInv, PreHaltPcs
  <1>3. CASE Park
    BY <1>3 DEF Park, ParkCheck, ResumeCached, ResumeProbe, ResumeUnread, GuardInv,
        PreHaltPcs
  <1>4. CASE TipStep
    BY <1>4 DEF TipStep, RefreshRefused, Refresh, NoRefresh, SettleTip, SettleGivesUp,
        CompareTips, SettleSwap, SwapGivesUp, Again, EndPass, ForgetWalk, GuardInv,
        PreHaltPcs
  <1>5. CASE IngestStep
    BY <1>5 DEF IngestStep, FetchNextBlock, FetchFails, RetryUndecodableBlock,
        DetectReorg, CommitBlock, StoreFails, PurgeExpired, Again, Rederive, Max2,
        EndPass, ForgetWalk, GuardInv, PreHaltPcs
  <1>6. CASE WalkStep
    <2>1. CASE DeleteGivesUp
      BY <2>1 DEF DeleteGivesUp, GuardInv, PreHaltPcs, LoseMemory, ForgetWalk
    <2>2. CASE ~(DeleteGivesUp)
      BY <1>6, <2>2 DEF WalkStep, VerifyReorgEntry, VerifyReorgAborts,
          ReadPriorRollbackDepth, WalkEmpty, WalkAboveTip, WalkCompare, WalkReadFails,
          RefreshReorgTip, SettleReorgTip, ReorgTipRefused, ReorgWait, AboveTipDiffers,
          AboveTipProven, ProveReorgedAway, DeleteBlock, DeleteUnacked, DeleteFails,
          ParkOnHalt, LoseMemory, Rederive, Again, EndPass, ForgetWalk, GuardInv,
          PreHaltPcs
    <2> QED
      BY <2>1, <2>2
  <1>7. CASE HaltStep
    <2>1. CASE MarkConfirmed
      BY <2>1 DEF MarkConfirmed, GuardInv, PreHaltPcs
    <2>2. CASE MarkUnconfirmed
      BY <2>2 DEF MarkUnconfirmed, GuardInv, PreHaltPcs, ParkOnHalt, EndPass, ForgetWalk
    <2>3. CASE ~(MarkConfirmed \/ MarkUnconfirmed)
      BY <1>7, <2>3 DEF HaltStep, HaltReorg, HaltedSkip, HaltedFirstReading,
          HaltedReadStops, HaltedSecondReading, HaltedProof, HaltedDelete,
          HaltedDeleteStops, HaltedWalkStops, ParkOnHalt, EndPass, ForgetWalk, GuardInv,
          PreHaltPcs
    <2> QED
      BY <2>1, <2>2, <2>3
  <1>8. CASE Outside
    BY <1>8 DEF Outside, Calm, Crash, ProbeRead, ProbeAnswer, ClearPin,
        ClearRefused, ClearCheck, ClearReread, ClearWrite, NodeMove, LoseMemory,
        ForgetWalk, GuardInv, PreHaltPcs
  <1> QED
    BY <1>1, <1>2, <1>3, <1>4, <1>5, <1>6, <1>7, <1>8 DEF Next, DecoderStep

\* The count of rolled-back heights stays the depth, and no purge or delete overruns.
LEMMA DepthInvStep ==
  ASSUME LoopInv, [Next]_vars
  PROVE  DepthInv'
  <1> USE TableFacts, SafeDepthAssumption DEF LoopInv, TypeOK,
          nodeVars, dbVars, histVars, loopVars, walkVars, parkVars, probeVars, cliVars
  <1>1. CASE UNCHANGED vars
    BY <1>1 DEF vars, DepthInv, DepthIsDurable, TwoWindows,
          RolledBack, StoredTip, AlreadyRolledBack, PreHaltPcs, HaltedPcs, HistTypes,
          DbTypes, WalkTypes, LoopTypes
  <1>2. CASE Boot \/ BootPark
    BY <1>2 DEF Boot, BootPark, DepthInv, DepthIsDurable, TwoWindows, RolledBack,
        StoredTip, AlreadyRolledBack, PreHaltPcs, HaltedPcs, HistTypes, DbTypes,
        WalkTypes, LoopTypes
  <1>3. CASE Park
    BY <1>3 DEF Park, ParkCheck, ResumeCached, ResumeProbe, ResumeUnread, DepthInv,
        DepthIsDurable, TwoWindows, RolledBack, StoredTip, AlreadyRolledBack,
        PreHaltPcs, HaltedPcs, HistTypes, DbTypes, WalkTypes, LoopTypes
  <1>4. CASE TipStep
    BY <1>4 DEF TipStep, RefreshRefused, Refresh, NoRefresh, SettleTip, SettleGivesUp,
        CompareTips, SettleSwap, SwapGivesUp, Again, EndPass, ForgetWalk, DepthInv,
        DepthIsDurable, TwoWindows, RolledBack, StoredTip, AlreadyRolledBack,
        PreHaltPcs, HaltedPcs, HistTypes, DbTypes, WalkTypes, LoopTypes
  <1>5. CASE IngestStep
    <2>1. CASE CommitBlock
      <3>1. StoredTip' = StoredTip + 1 /\ reorgRows' = reorgRows /\ unacked' = unacked
        BY <2>1, AppendFacts DEF CommitBlock
      <3>2. highest' = Max2(highest, StoredTip + 1) /\ highest' \in Nat /\ highest' >= highest
            /\ highest' >= StoredTip + 1
        BY <2>1 DEF CommitBlock, Max2, HistTypes
      <3>3. DepthIsDurable'
        BY <2>1, ParseKeepsDepth DEF CommitBlock
      <3>4. TwoWindows'
        BY <3>1, <3>2 DEF DepthInv, TwoWindows, Max2, HistTypes
      <3>5. pc = "store" /\ cursor = StoredTip /\ pc' \in {"purge", "loop"}
            /\ purgedTo' = purgedTo /\ (pc' = "purge" => cursor' = cursor)
        BY <2>1 DEF CommitBlock
      <3> QED
        BY <3>1, <3>2, <3>3, <3>4, <3>5 DEF DepthInv, PreHaltPcs, HaltedPcs, HistTypes, DbTypes
    <2>2. CASE PurgeExpired
      BY <2>2 DEF PurgeExpired, DepthInv, DepthIsDurable, TwoWindows, RolledBack,
          StoredTip, AlreadyRolledBack, PreHaltPcs, HaltedPcs, HistTypes, DbTypes,
          WalkTypes, LoopTypes, Max2
    <2>3. CASE ~(CommitBlock \/ PurgeExpired)
      BY <1>5, <2>3 DEF IngestStep, FetchNextBlock, FetchFails, RetryUndecodableBlock,
          DetectReorg, StoreFails, Again, Rederive, EndPass, ForgetWalk, DepthInv,
          DepthIsDurable, TwoWindows, RolledBack, StoredTip, AlreadyRolledBack,
          PreHaltPcs, HaltedPcs, HistTypes, DbTypes, WalkTypes, LoopTypes
    <2> QED
      BY <2>1, <2>2, <2>3
  <1>6. CASE WalkStep
    <2>1. CASE ReadPriorRollbackDepth
      <3>1. /\ prior' \in Nat /\ prior' >= highest - StoredTip
            /\ deleted' = deleted /\ pc' = "walk"
            /\ UNCHANGED <<stored, reorgRows, highest, unacked, purgedTo, cursor>>
        BY <2>1, DepthCount DEF ReadPriorRollbackDepth, DepthInv
      <3>2. StoredTip' = StoredTip /\ RolledBack' = RolledBack
        BY <3>1 DEF StoredTip, RolledBack
      <3> QED
        BY <3>1, <3>2 DEF DepthInv, DepthIsDurable, TwoWindows, AlreadyRolledBack, HistTypes, WalkTypes
    <2>2. CASE DeleteBlock
      <3>1. /\ StoredTip >= 1 /\ AlreadyRolledBack < SafeDepth
            /\ pc' = "walk" /\ deleted' + unacked' = deleted + unacked + 1
            /\ deleted' \in Nat /\ unacked' \in Nat /\ unacked' >= unacked
            /\ UNCHANGED <<highest, purgedTo, prior>> /\ DeleteTop
        BY <2>2 DEF DeleteBlock, WalkInv, WalkTypes, HistTypes
      <3>2. StoredTip' = StoredTip - 1
        BY <3>1, DeleteTopFacts
      <3>3. DepthIsDurable'
        BY <3>1, DeleteKeepsDepth
      <3>4. AlreadyRolledBack + unacked >= highest - StoredTip
        BY <2>2 DEF DeleteBlock, DepthInv, PreHaltPcs
      <3>5. TwoWindows'
        BY <3>1, <3>2, <3>4 DEF TwoWindows, HistTypes, WalkTypes, AlreadyRolledBack
      <3>6. AlreadyRolledBack' + unacked' >= highest' - StoredTip'
        <4>1. AlreadyRolledBack = prior + deleted /\ AlreadyRolledBack' = prior + deleted'
          BY <3>1 DEF AlreadyRolledBack
        <4>2. {prior, deleted, unacked, highest} \subseteq Nat /\ highest' = highest
          BY <3>1 DEF HistTypes, WalkTypes
        <4>3. prior + deleted' + unacked' >= highest - (StoredTip - 1)
          BY <3>1, <3>4, <4>1, <4>2, DeleteCounts
        <4> QED
          BY <3>2, <4>1, <4>2, <4>3
      <3>7. StoredTip' <= highest' /\ (purgedTo' = 0 \/ purgedTo' + SafeDepth <= highest')
        BY <3>1, <3>2 DEF DepthInv, HistTypes
      <3> QED
        BY <3>1, <3>3, <3>5, <3>6, <3>7 DEF DepthInv
    <2>3. CASE DeleteUnacked
      <3>1. /\ StoredTip >= 1 /\ AlreadyRolledBack < SafeDepth
            /\ pc' = "walk" /\ deleted' + unacked' = deleted + unacked + 1
            /\ deleted' \in Nat /\ unacked' \in Nat /\ unacked' >= unacked
            /\ UNCHANGED <<highest, purgedTo, prior>> /\ DeleteTop
        BY <2>3 DEF DeleteUnacked, WalkInv, WalkTypes, HistTypes
      <3>2. StoredTip' = StoredTip - 1
        BY <3>1, DeleteTopFacts
      <3>3. DepthIsDurable'
        BY <3>1, DeleteKeepsDepth
      <3>4. AlreadyRolledBack + unacked >= highest - StoredTip
        BY <2>3 DEF DeleteUnacked, DepthInv, PreHaltPcs
      <3>5. TwoWindows'
        BY <3>1, <3>2, <3>4 DEF TwoWindows, HistTypes, WalkTypes, AlreadyRolledBack
      <3>6. AlreadyRolledBack' + unacked' >= highest' - StoredTip'
        <4>1. AlreadyRolledBack = prior + deleted /\ AlreadyRolledBack' = prior + deleted'
          BY <3>1 DEF AlreadyRolledBack
        <4>2. {prior, deleted, unacked, highest} \subseteq Nat /\ highest' = highest
          BY <3>1 DEF HistTypes, WalkTypes
        <4>3. prior + deleted' + unacked' >= highest - (StoredTip - 1)
          BY <3>1, <3>4, <4>1, <4>2, DeleteCounts
        <4> QED
          BY <3>2, <4>1, <4>2, <4>3
      <3>7. StoredTip' <= highest' /\ (purgedTo' = 0 \/ purgedTo' + SafeDepth <= highest')
        BY <3>1, <3>2 DEF DepthInv, HistTypes
      <3> QED
        BY <3>1, <3>3, <3>5, <3>6, <3>7 DEF DepthInv
    <2>4. CASE DeleteGivesUp
      BY <2>4 DEF DeleteGivesUp, DepthInv, DepthIsDurable, TwoWindows, RolledBack,
          StoredTip, AlreadyRolledBack, PreHaltPcs, HaltedPcs, HistTypes, DbTypes,
          WalkTypes, LoopTypes, LoseMemory
    <2>5. CASE ~(ReadPriorRollbackDepth \/ DeleteBlock \/ DeleteUnacked \/
                 DeleteGivesUp)
      BY <1>6, <2>5 DEF WalkStep, VerifyReorgEntry, VerifyReorgAborts, WalkEmpty,
          WalkAboveTip, WalkCompare, WalkReadFails, RefreshReorgTip, SettleReorgTip,
          ReorgTipRefused, ReorgWait, AboveTipDiffers, AboveTipProven, ProveReorgedAway,
          DeleteFails, ParkOnHalt, LoseMemory, Rederive, Again, EndPass, ForgetWalk,
          DepthInv, DepthIsDurable, TwoWindows, RolledBack, StoredTip,
          AlreadyRolledBack, PreHaltPcs, HaltedPcs, HistTypes, DbTypes, WalkTypes,
          LoopTypes
    <2> QED
      BY <2>1, <2>2, <2>3, <2>4, <2>5
  <1>7. CASE HaltStep
    <2>1. CASE HaltedDelete
      <3>1. /\ StoredTip >= 1 /\ readAt <= StoredTip - 1 /\ readAt >= Lowest
            /\ pc' = "hProof" /\ deleted' = deleted + 1
            /\ UNCHANGED <<highest, unacked, purgedTo, prior>>
        BY <2>1 DEF HaltedDelete, WalkInv, WalkTypes
      <3>2. StoredTip' = StoredTip - 1 /\ reorgRows' = reorgRows \cup {StoredTip}
        BY <2>1, <3>1, DeleteTopFacts DEF HaltedDelete
      <3>3. DepthIsDurable'
        BY <2>1, <3>1, DeleteKeepsDepth DEF HaltedDelete
      <3>4. AlreadyRolledBack + unacked >= highest - StoredTip
        BY <2>1 DEF HaltedDelete, DepthInv, HaltedPcs
      <3>5. Lowest >= StoredTip - (2 * SafeDepth - AlreadyRolledBack) /\ Lowest \in Nat
        BY LowestFacts DEF Lowest, Max2, WalkTypes, AlreadyRolledBack
      <3>6. TwoWindows'
        BY <3>1, <3>2, <3>4, <3>5 DEF TwoWindows, HistTypes, WalkTypes, AlreadyRolledBack
      <3>7. AlreadyRolledBack' + unacked' >= highest' - StoredTip'
        <4>1. AlreadyRolledBack = prior + deleted /\ AlreadyRolledBack' = prior + (deleted + 1)
          BY <3>1 DEF AlreadyRolledBack
        <4>2. {prior, deleted, unacked, highest} \subseteq Nat
          BY DEF HistTypes, WalkTypes
        <4>3. prior + (deleted + 1) + unacked >= highest - (StoredTip - 1)
          <5>1. deleted + 1 \in Nat /\ (deleted + 1) + unacked = deleted + unacked + 1
            BY <4>2
          <5> QED
            BY <3>4, <4>1, <4>2, <5>1, DeleteCounts
        <4> QED
          BY <3>1, <3>2, <4>1, <4>3
      <3>8. StoredTip' <= highest' /\ (purgedTo' = 0 \/ purgedTo' + SafeDepth <= highest')
        BY <3>1, <3>2 DEF DepthInv, HistTypes
      <3> QED
        BY <3>1, <3>3, <3>6, <3>7, <3>8 DEF DepthInv
    <2>2. CASE ~(HaltedDelete)
      BY <1>7, <2>2 DEF HaltStep, HaltReorg, MarkConfirmed, MarkUnconfirmed, HaltedSkip,
          HaltedFirstReading, HaltedReadStops, HaltedSecondReading, HaltedProof,
          HaltedDeleteStops, ParkOnHalt, HaltedWalkStops, EndPass, ForgetWalk, DepthInv,
          DepthIsDurable, TwoWindows, RolledBack, StoredTip, AlreadyRolledBack,
          PreHaltPcs, HaltedPcs, HistTypes, DbTypes, WalkTypes, LoopTypes
    <2> QED
      BY <2>1, <2>2
  <1>8. CASE Outside
    BY <1>8 DEF Outside, Calm, Crash, ProbeRead, ProbeAnswer, ClearPin,
        ClearRefused, ClearCheck, ClearReread, ClearWrite, NodeMove, LoseMemory,
        ForgetWalk, DepthInv, DepthIsDurable, TwoWindows, RolledBack, StoredTip,
        AlreadyRolledBack, PreHaltPcs, HaltedPcs, HistTypes, DbTypes, WalkTypes,
        LoopTypes
  <1> QED
    BY <1>1, <1>2, <1>3, <1>4, <1>5, <1>6, <1>7, <1>8 DEF Next, DecoderStep

\* A block is stored only on top of its parent.
LEMMA CursorInvStep ==
  ASSUME LoopInv, [Next]_vars
  PROVE  CursorInv'
  <1> USE TableFacts, SafeDepthAssumption DEF LoopInv, TypeOK,
          nodeVars, dbVars, histVars, loopVars, walkVars, parkVars, probeVars, cliVars
  <1>1. CASE UNCHANGED vars
    BY <1>1 DEF vars, CursorInv, StoreExtends, StoredTip,
          LoopTypes
  <1>2. CASE Boot \/ BootPark
    BY <1>2 DEF Boot, BootPark, CursorInv, StoreExtends, StoredTip, LoopTypes
  <1>3. CASE Park
    <2>1. CASE ResumeCached
      BY <2>1 DEF ResumeCached, CursorInv, StoreExtends, StoredTip, LoopTypes, LeavePark
    <2>2. CASE ResumeProbe
      BY <2>2 DEF ResumeProbe, CursorInv, StoreExtends, StoredTip, LoopTypes, LeavePark
    <2>3. CASE ResumeUnread
      <3>1. UNCHANGED <<stored, pc, held>> /\ cursor' \in {cursor, StoredTip} /\ pc = "loop"
        BY <2>3 DEF ResumeUnread, LeavePark
      <3> QED
        BY <3>1 DEF CursorInv, StoreExtends, StoredTip
    <2>4. CASE ~(ResumeCached \/ ResumeProbe \/ ResumeUnread)
      BY <1>3, <2>4 DEF Park, ParkCheck, CursorInv, StoreExtends, StoredTip, LoopTypes,
          LeavePark
    <2> QED
      BY <2>1, <2>2, <2>3, <2>4
  <1>4. CASE TipStep
    <2>1. CASE RefreshRefused
      BY <2>1 DEF RefreshRefused, CursorInv, StoreExtends, StoredTip, LoopTypes, Parsing
    <2>2. CASE Refresh
      BY <2>2 DEF Refresh, CursorInv, StoreExtends, StoredTip, LoopTypes, Parsing
    <2>3. CASE NoRefresh
      BY <2>3 DEF NoRefresh, CursorInv, StoreExtends, StoredTip, LoopTypes, Parsing
    <2>4. CASE SettleTip
      BY <2>4 DEF SettleTip, CursorInv, StoreExtends, StoredTip, LoopTypes, Parsing
    <2>5. CASE SettleGivesUp
      BY <2>5 DEF SettleGivesUp, CursorInv, StoreExtends, StoredTip, LoopTypes, Parsing
    <2>6. CASE CompareTips
      BY <2>6 DEF CompareTips, CursorInv, StoreExtends, StoredTip, LoopTypes, Parsing
    <2>7. CASE SettleSwap
      BY <2>7 DEF SettleSwap, CursorInv, StoreExtends, StoredTip, LoopTypes, Parsing
    <2>8. CASE SwapGivesUp
      BY <2>8 DEF SwapGivesUp, CursorInv, StoreExtends, StoredTip, LoopTypes, Again,
          EndPass
    <2> QED
      BY <1>4, <2>1, <2>2, <2>3, <2>4, <2>5, <2>6, <2>7, <2>8 DEF TipStep
  <1>5. CASE IngestStep
    <2>1. CASE FetchNextBlock
      BY <2>1, AncestorIsBlock DEF FetchNextBlock, CursorInv, StoreExtends, StoredTip,
          LoopTypes, NodeTypes, NodeHeight
    <2>2. CASE CommitBlock
      BY <2>2, AppendFacts DEF CommitBlock, CursorInv, StoreExtends, StoredTip,
          LoopTypes
    <2>3. CASE DetectReorg
      BY <2>3 DEF DetectReorg, CursorInv, StoreExtends, StoredTip, LoopTypes, Again,
          EndPass
    <2>4. CASE ~(FetchNextBlock \/ CommitBlock \/ DetectReorg)
      BY <1>5, <2>4 DEF IngestStep, FetchFails, RetryUndecodableBlock, StoreFails,
          PurgeExpired, Again, Rederive, Max2, EndPass, ForgetWalk, CursorInv,
          StoreExtends, StoredTip, LoopTypes
    <2> QED
      BY <2>1, <2>2, <2>3, <2>4
  <1>6. CASE WalkStep
    <2>1. CASE DeleteBlock
      BY <2>1, DeleteTopFacts DEF DeleteBlock, CursorInv, StoreExtends, StoredTip,
          LoopTypes, WalkInv
    <2>2. CASE DeleteUnacked
      BY <2>2, DeleteTopFacts DEF DeleteUnacked, CursorInv, StoreExtends, StoredTip,
          LoopTypes, WalkInv
    <2>3. CASE DeleteGivesUp
      BY <2>3 DEF DeleteGivesUp, CursorInv, StoreExtends, StoredTip, LoopTypes,
          LoseMemory
    <2>4. CASE ~(DeleteBlock \/ DeleteUnacked \/ DeleteGivesUp)
      BY <1>6, <2>4 DEF WalkStep, VerifyReorgEntry, VerifyReorgAborts,
          ReadPriorRollbackDepth, WalkEmpty, WalkAboveTip, WalkCompare, WalkReadFails,
          RefreshReorgTip, SettleReorgTip, ReorgTipRefused, ReorgWait, AboveTipDiffers,
          AboveTipProven, ProveReorgedAway, DeleteFails, ParkOnHalt, LoseMemory,
          Rederive, Again, EndPass, ForgetWalk, CursorInv, StoreExtends, StoredTip,
          LoopTypes
    <2> QED
      BY <2>1, <2>2, <2>3, <2>4
  <1>7. CASE HaltStep
    <2>1. CASE HaltedDelete
      BY <2>1, DeleteTopFacts DEF HaltedDelete, CursorInv, StoreExtends, StoredTip,
          LoopTypes, WalkInv, WalkTypes
    <2>2. CASE ~(HaltedDelete)
      BY <1>7, <2>2 DEF HaltStep, HaltReorg, MarkConfirmed, MarkUnconfirmed, HaltedSkip,
          HaltedFirstReading, HaltedReadStops, HaltedSecondReading, HaltedProof,
          HaltedDeleteStops, ParkOnHalt, HaltedWalkStops, EndPass, ForgetWalk,
          CursorInv, StoreExtends, StoredTip, LoopTypes
    <2> QED
      BY <2>1, <2>2
  <1>8. CASE Outside
    BY <1>8 DEF Outside, Calm, Crash, ProbeRead, ProbeAnswer, ClearPin,
        ClearRefused, ClearCheck, ClearReread, ClearWrite, NodeMove, LoseMemory,
        ForgetWalk, CursorInv, StoreExtends, StoredTip, LoopTypes
  <1> QED
    BY <1>1, <1>2, <1>3, <1>4, <1>5, <1>6, <1>7, <1>8 DEF Next, DecoderStep

\* The stored chain stays linked: only a child of its tip is appended, only its
\* top is cut.
LEMMA LinkedStep ==
  ASSUME LoopInv, [Next]_vars
  PROVE  Linked'
  <1> USE TableFacts DEF LoopInv, TypeOK,
          nodeVars, dbVars, histVars, loopVars, walkVars, parkVars, probeVars, cliVars
  <1>1. ASSUME stored' = stored
        PROVE  Linked'
    BY <1>1 DEF Linked, StoredTip
  <1>2. ASSUME DeleteTop, StoredTip >= 1
        PROVE  Linked'
    <2>1. StoredTip' = StoredTip - 1 /\ \A h \in 1..StoredTip - 1 : stored'[h] = stored[h]
      BY <1>2, DeleteTopFacts
    <2> QED
      BY <2>1 DEF Linked
  <1>3. CASE CommitBlock
    <2>1. /\ StoredTip' = StoredTip + 1 /\ stored'[StoredTip + 1] = held
          /\ \A h \in 1..StoredTip : stored'[h] = stored[h]
      BY <1>3, AppendFacts DEF CommitBlock
    <2>2. Len(held) = StoredTip + 1 /\ (StoredTip >= 1 => Parent(held) = stored[StoredTip])
      BY <1>3 DEF CommitBlock, CursorInv
    <2>3. ASSUME NEW h \in 1..(StoredTip + 1)
          PROVE  Len(stored'[h]) = h /\ (h >= 2 => Parent(stored'[h]) = stored'[h - 1])
      <3>1. CASE h = StoredTip + 1
        BY <2>1, <2>2, <3>1
      <3>2. CASE h <= StoredTip
        BY <2>1, <3>2 DEF Linked
      <3> QED
        BY <3>1, <3>2
    <2> QED
      BY <2>1, <2>3 DEF Linked, Parent, Hash
  <1>4. CASE DeleteBlock
    BY <1>2, <1>4 DEF DeleteBlock, WalkInv
  <1>5. CASE DeleteUnacked
    BY <1>2, <1>5 DEF DeleteUnacked, WalkInv
  <1>6. CASE HaltedDelete
    BY <1>2, <1>6 DEF HaltedDelete, WalkInv, WalkTypes
  <1>7. CASE UNCHANGED vars \/ Boot \/ BootPark \/ Park \/ TipStep
    BY <1>1, <1>7 DEF vars, Boot, BootPark, Park, ParkCheck, ResumeCached, ResumeProbe,
        ResumeUnread, TipStep, RefreshRefused, Refresh, NoRefresh, SettleTip, SettleGivesUp,
        CompareTips, SettleSwap, SwapGivesUp
  <1>8. CASE IngestStep /\ ~CommitBlock
    BY <1>1, <1>8 DEF IngestStep, FetchNextBlock, FetchFails, RetryUndecodableBlock,
        DetectReorg, StoreFails, PurgeExpired
  <1>9. CASE WalkStep /\ ~DeleteBlock /\ ~DeleteUnacked
    BY <1>1, <1>9 DEF WalkStep, VerifyReorgEntry, VerifyReorgAborts,
        ReadPriorRollbackDepth, WalkEmpty, WalkAboveTip, WalkCompare, WalkReadFails,
        RefreshReorgTip, SettleReorgTip, ReorgTipRefused, ReorgWait, AboveTipDiffers,
        AboveTipProven, ProveReorgedAway, DeleteFails, DeleteGivesUp
  <1>10. CASE HaltStep /\ ~HaltedDelete
    BY <1>1, <1>10 DEF HaltStep, HaltReorg, MarkConfirmed, MarkUnconfirmed, HaltedSkip,
        HaltedFirstReading, HaltedReadStops, HaltedSecondReading, HaltedProof,
        HaltedDeleteStops, HaltedWalkStops
  <1>11. CASE Outside
    BY <1>1, <1>11 DEF Outside, Calm, Crash, ProbeRead, ProbeAnswer, ClearPin,
        ClearRefused, ClearCheck, ClearReread, ClearWrite, NodeMove
  <1> QED
    BY <1>3, <1>4, <1>5, <1>6, <1>7, <1>8, <1>9, <1>10, <1>11 DEF Next, DecoderStep

-----------------------------------------------------------------------------
(* The theorems.                                                            *)

\* A first start of the process satisfies the inductive invariant.
LEMMA InitLoopInv == Init => LoopInv
  <1> SUFFICES ASSUME Init PROVE LoopInv
    OBVIOUS
  <1>1. stored = <<>> /\ StoredTip = 0
    BY DEF Init, StoredTip
  <1>2. TypeOK
    <2>1. NodeTypes /\ HistTypes /\ ParkTypes /\ OtherTypes
      BY DEF Init, NodeTypes, HistTypes, ParkTypes, OtherTypes
    <2>2. DbTypes
      BY EmptySeq DEF Init, DbTypes
    <2>3. LoopTypes /\ WalkTypes
      BY GenesisIsBlock DEF Init, LoopTypes, WalkTypes, Pcs
    <2> QED
      BY <2>1, <2>2, <2>3 DEF TypeOK
  <1>3. WalkInv /\ GuardInv /\ CursorInv
    BY <1>1 DEF Init, WalkInv, GuardInv, CursorInv, StoreExtends, HaltedPcs, PreHaltPcs
  <1>4. DepthInv
    <2>1. RolledBack = {} /\ highest = 0 /\ (StoredTip + 1)..highest = {}
      BY <1>1 DEF Init, RolledBack
    <2> QED
      BY <1>1, <2>1, SafeDepthAssumption DEF Init, DepthInv, DepthIsDurable, TwoWindows,
          HaltedPcs, PreHaltPcs
  <1>5. Linked
    BY <1>1 DEF Linked
  <1> QED
    BY <1>2, <1>3, <1>4, <1>5 DEF LoopInv

\* Every step of the loop, of its environment and of the operator keeps it.
LEMMA LoopInvStep == LoopInv /\ [Next]_vars => LoopInv'
  <1> SUFFICES ASSUME LoopInv, [Next]_vars PROVE LoopInv'
    OBVIOUS
  <1>1. TypeOK'
    BY TypeStep DEF LoopInv, DepthInv
  <1>2. WalkInv' /\ DepthInv' /\ GuardInv' /\ CursorInv' /\ Linked'
    BY WalkInvStep, DepthInvStep, GuardInvStep, CursorInvStep, LinkedStep
  <1> QED
    BY <1>1, <1>2 DEF LoopInv

\* The inductive invariant keeps pre-halt deletes above every purge.
LEMMA DeleteInWindow == LoopInv => DeleteWithinWindow
  <1> SUFFICES ASSUME LoopInv, pc = "delete"
               PROVE  StoredTip + unacked > purgedTo
    BY DEF DeleteWithinWindow
  <1>1. /\ StoredTip \in Nat /\ highest \in Nat /\ unacked \in Nat /\ purgedTo \in Nat
        /\ AlreadyRolledBack \in Nat /\ SafeDepth \in Nat
    BY TableFacts, SafeDepthAssumption
       DEF LoopInv, TypeOK, HistTypes, DbTypes, WalkTypes, AlreadyRolledBack
  <1>2. StoredTip >= 1 /\ AlreadyRolledBack < SafeDepth
    BY DEF LoopInv, WalkInv
  <1>3. AlreadyRolledBack + unacked >= highest - StoredTip
    BY DEF LoopInv, DepthInv, PreHaltPcs
  <1>4. purgedTo = 0 \/ purgedTo + SafeDepth <= highest
    BY DEF LoopInv, DepthInv
  <1> QED
    BY <1>1, <1>2, <1>3, <1>4

\* The inductive invariant of the block loop holds in every state it can reach.
THEOREM LoopInvariant == Spec => []LoopInv
  BY InitLoopInv, LoopInvStep, PTL DEF Spec

\* The parse loop's state keeps its types: the blocks table, the REORG rows, the
\* halt marker, the cursors of verifyReorg and the halt flags.
THEOREM TypeCorrect == Spec => []TypeOK
  <1>1. LoopInv => TypeOK
    BY DEF LoopInv
  <1> QED
    BY <1>1, LoopInvariant, PTL

\* The blocks table is one linked chain for every block tree the node can show,
\* across reorgs, crashes, failed commits and halted walks.
THEOREM ChainLinked == Spec => []Linked
  <1>1. LoopInv => Linked
    BY DEF LoopInv
  <1> QED
    BY <1>1, LoopInvariant, PTL

\* The block loop stores a block only directly above the stored tip.
THEOREM StoresAtTip == Spec => []StoreExtends
  <1>1. LoopInv => StoreExtends
    BY DEF LoopInv, CursorInv
  <1> QED
    BY <1>1, LoopInvariant, PTL

\* countReorgDeletesAboveTip is always the depth of the rollback in progress, so the
\* safe-depth ceiling survives restarts and repeated partial rollbacks.
THEOREM DepthDurable == Spec => []DepthIsDurable
  <1>1. LoopInv => DepthIsDurable
    BY DEF LoopInv, DepthInv
  <1> QED
    BY <1>1, LoopInvariant, PTL

\* verifyReorg never deletes a block that a hard purge has reached, save for deletes
\* whose acknowledgement was lost, for every window and every block tree.
THEOREM WindowHolds == Spec => []DeleteWithinWindow
  BY DeleteInWindow, LoopInvariant, PTL

\* No sequence of walks, restarts and halted walks leaves the stored chain more than
\* two safe-depth windows below its highest block, save for unacknowledged deletes.
THEOREM TwoWindowsHold == Spec => []TwoWindows
  <1>1. LoopInv => TwoWindows
    BY DEF LoopInv, DepthInv
  <1> QED
    BY <1>1, LoopInvariant, PTL

\* refuseHaltedRollback holds to the delete itself: no pre-halt delete runs under a
\* live REORG_HALT, whatever restarts, probes and operators do meanwhile.
THEOREM GuardHolds == Spec => []NoRollbackUnderHalt
  <1>1. LoopInv => NoRollbackUnderHalt
    BY DEF LoopInv, GuardInv, PreHaltPcs, NoRollbackUnderHalt
  <1> QED
    BY <1>1, LoopInvariant, PTL

-----------------------------------------------------------------------------
(* A node that only lags.                                                   *)

\* A block is an initial part of some chain of the node, height by height.
LEMMA BlockOfChain ==
  ASSUME NEW b \in Blocks
  PROVE  \E c \in Chains : Len(c) >= Len(b) /\ \A h \in 1..Len(b) : Hash(b, h) = Hash(c, h)
  <1>c. PICK c \in Chains : \E n \in 0..Len(c) : b = SubSeq(c, 1, n)
    BY DEF Blocks, Hash
  <1>1. PICK n \in 0..Len(c) : b = SubSeq(c, 1, n)
    BY <1>c
  <1>2. c \in Seq(Labels) /\ Len(c) \in Nat /\ \A i \in 1..n : c[i] \in Labels
    BY <1>1, ChainsAssumption, LenProperties, ElementOfSeq
  <1>3. Len(b) = n
    BY <1>1, <1>2, SubSeqProperties
  <1>4. ASSUME NEW h \in 1..Len(b)
        PROVE  Hash(b, h) = Hash(c, h)
    <2>1. h \in 1..n /\ n \in 1..Len(c)
      BY <1>2, <1>3
    <2>2. SubSeq(SubSeq(c, 1, n), 1, h) = SubSeq(c, 1, h)
      BY <2>1, <1>2, SubSeqOfSubSeq
    <2> QED
      BY <2>2, <1>1 DEF Hash
  <1> QED
    BY <1>2, <1>3, <1>4

\* Where the node's chains do not fork at a height, all blocks agree on it.
LEMMA UnforkedHeight ==
  ASSUME NEW b \in Blocks, NEW d \in Blocks, NEW h \in Nat, h >= 1, h <= Len(b),
         h <= Len(d), NeverForks(h)
  PROVE  Hash(b, h) = Hash(d, h)
  <1>1. Len(b) \in Nat /\ Len(d) \in Nat
    BY BlockIsSeq
  <1>2. PICK c \in Chains : Len(c) >= Len(b) /\ \A i \in 1..Len(b) : Hash(b, i) = Hash(c, i)
    BY BlockOfChain
  <1>3. PICK e \in Chains : Len(e) >= Len(d) /\ \A i \in 1..Len(d) : Hash(d, i) = Hash(e, i)
    BY BlockOfChain
  <1>4. Len(c) \in Nat /\ Len(e) \in Nat
    BY ChainsAssumption, LenProperties
  <1>5. Hash(c, h) = Hash(e, h)
    BY <1>1, <1>2, <1>3, <1>4 DEF NeverForks
  <1> QED
    BY <1>1, <1>2, <1>3, <1>5

\* ... and so the node shows the block that is stored there.
LEMMA UnforkedRead ==
  ASSUME TypeOK, Linked, NEW h \in 1..StoredTip, h <= NodeHeight, NeverForks(h)
  PROVE  Hash(active, h) = stored[h]
  <1>1. active \in Blocks /\ stored[h] \in Blocks /\ StoredTip \in Nat
    BY TableFacts DEF TypeOK, NodeTypes
  <1>2. Len(stored[h]) = h /\ h \in Nat /\ h >= 1
    BY <1>1 DEF Linked
  <1>3. Hash(stored[h], h) = stored[h]
    BY <1>1, <1>2, BlockIsSeq, SubSeqFull DEF Hash
  <1>4. Hash(active, h) = Hash(stored[h], h)
    BY <1>1, <1>2, UnforkedHeight DEF NodeHeight
  <1> QED
    BY <1>3, <1>4

\* The node's own readings stop every walk on a chain that never forks.
LEMMA LagInvStep ==
  ASSUME LoopInv, LagInv, [Next]_vars
  PROVE  LagInv'
  <1> DEFINE Unforked(n) == \A h \in 1..n : NeverForks(h)
             Walked == {"boundProof", "proof", "delete", "halt", "mark"} \cup HaltedPcs
  <1>1. /\ StoredTip \in Nat /\ NodeHeight \in Nat /\ highest \in Nat /\ StoredTip <= highest
        /\ nodeTip \in Nat \cup {NoInfo}
    BY TableFacts DEF LoopInv, TypeOK, HistTypes, WalkTypes, DepthInv
  <1>2. highest' \in Nat /\ highest' >= highest
    <2>1. CASE CommitBlock
      BY <2>1, <1>1 DEF CommitBlock, Max2
    <2>2. CASE ~CommitBlock
      <3>1. UNCHANGED highest
        BY <2>2 DEF Next, DecoderStep, Outside, vars, histVars, Boot, BootPark, Park, ParkCheck,
            ResumeCached, ResumeProbe, ResumeUnread, TipStep, RefreshRefused, Refresh, NoRefresh,
            SettleTip, SettleGivesUp, CompareTips, SettleSwap, SwapGivesUp, IngestStep,
            FetchNextBlock, FetchFails, RetryUndecodableBlock, DetectReorg, StoreFails,
            PurgeExpired, WalkStep, VerifyReorgEntry, VerifyReorgAborts,
            ReadPriorRollbackDepth, WalkEmpty, WalkAboveTip, WalkCompare, WalkReadFails,
            RefreshReorgTip, SettleReorgTip, ReorgTipRefused, ReorgWait, AboveTipDiffers,
            AboveTipProven, ProveReorgedAway, DeleteBlock, DeleteUnacked, DeleteFails,
            DeleteGivesUp, HaltStep, HaltReorg, MarkConfirmed, MarkUnconfirmed, HaltedSkip,
            HaltedFirstReading, HaltedReadStops, HaltedSecondReading, HaltedProof,
            HaltedDelete, HaltedDeleteStops, HaltedWalkStops,
            Calm, Crash, ProbeRead, ProbeAnswer, ClearPin, ClearRefused,
            ClearCheck, ClearReread, ClearWrite, NodeMove
      <3> QED
        BY <3>1, <1>1
    <2> QED
      BY <2>1, <2>2
  <1>3. Unforked(highest)' => Unforked(highest)
    BY <1>1, <1>2
  <1>4. Unforked(highest) /\ StoredTip >= 1 /\ StoredTip <= NodeHeight
          => Hash(active, StoredTip) = stored[StoredTip]
    BY <1>1, UnforkedRead DEF LoopInv
  <1>5. Unforked(highest) /\ nodeTip >= 1 /\ nodeTip <= NodeHeight /\ nodeTip < StoredTip
          => Hash(active, nodeTip) = stored[nodeTip]
    BY <1>1, UnforkedRead DEF LoopInv, NoInfo
  <1>6. /\ pc \in {"bound", "boundProof"} => nodeTip < StoredTip
        /\ Unforked(highest) => reorgRows = {} /\ haltId = 0 /\ ~haltLive /\ pc \notin Walked
    BY DEF LagInv
  <1> HIDE DEF Unforked
  <1>7. /\ (pc \in {"bound", "boundProof"} => nodeTip < StoredTip)'
        /\ Unforked(highest) => (reorgRows = {} /\ haltId = 0 /\ ~haltLive /\ pc \notin Walked)'
    <2> USE <1>1, <1>4, <1>5, <1>6 DEF HaltedPcs, StoredTip,
            nodeVars, dbVars, histVars, loopVars, walkVars, parkVars, probeVars, cliVars
    <2>1. CASE UNCHANGED vars
      BY <2>1 DEF vars
    <2>2. CASE Boot \/ BootPark
      BY <2>2 DEF Boot, BootPark
    <2>3. CASE Park
      <3>1. UNCHANGED <<pc, nodeTip, stored, reorgRows, haltId, haltLive>>
        BY <2>3 DEF Park, ParkCheck, ResumeCached, ResumeProbe, ResumeUnread
      <3> QED
        BY <3>1
    <2>4. CASE TipStep
      BY <2>4 DEF TipStep, RefreshRefused, Refresh, NoRefresh, SettleTip, SettleGivesUp,
          CompareTips, SettleSwap, SwapGivesUp, Again, EndPass, ForgetWalk
    <2>5. CASE IngestStep
      BY <2>5 DEF IngestStep, FetchNextBlock, FetchFails, RetryUndecodableBlock,
          DetectReorg, CommitBlock, StoreFails, PurgeExpired, Again, Rederive,
          EndPass, ForgetWalk
    <2>6. CASE WalkStep
      BY <2>6 DEF WalkStep, VerifyReorgEntry, VerifyReorgAborts,
          ReadPriorRollbackDepth, WalkEmpty, WalkAboveTip, WalkCompare, WalkReadFails,
          RefreshReorgTip, SettleReorgTip, ReorgTipRefused, ReorgWait, AboveTipDiffers,
          AboveTipProven, ProveReorgedAway, DeleteBlock, DeleteUnacked, DeleteFails,
          DeleteGivesUp, ParkOnHalt, LoseMemory, Rederive, Again, EndPass, ForgetWalk
    <2>7. CASE HaltStep
      BY <2>7 DEF HaltStep, HaltReorg, MarkConfirmed, MarkUnconfirmed, HaltedSkip,
          HaltedFirstReading, HaltedReadStops, HaltedSecondReading, HaltedProof,
          HaltedDelete, HaltedDeleteStops, HaltedWalkStops, ParkOnHalt, EndPass, ForgetWalk
    <2>8. CASE Outside
      BY <2>8 DEF Outside, Calm, Crash, ProbeRead, ProbeAnswer, ClearPin,
          ClearRefused, ClearCheck, ClearReread, ClearWrite, NodeMove, LoseMemory, ForgetWalk
    <2> QED
      BY <2>1, <2>2, <2>3, <2>4, <2>5, <2>6, <2>7, <2>8 DEF Next, DecoderStep
  <1> QED
    BY <1>3, <1>7 DEF LagInv, Unforked

-----------------------------------------------------------------------------
(* The condemned database and the park.                                     *)

\* A marker that is read live makes the process know of it.
LEMMA AdoptLive ==
  ASSUME AdoptMarker(haltLive), haltLive = TRUE
  PROVE  memHalted' = TRUE /\ probeFailed' = FALSE
  BY DEF AdoptMarker

\* The process knows of the halt it parks under, unless a late answer took it back.
LEMMA SeenInvStep ==
  ASSUME LoopInv, SeenInv, [Next]_vars
  PROVE  SeenInv'
  <1>0. (pc \in {"boot", "bootPark"} => parked = "no" /\ probe = "idle")'
    <2> USE DEF SeenInv, nodeVars, dbVars, histVars, loopVars, walkVars, parkVars, probeVars, cliVars
    <2>1. CASE UNCHANGED vars \/ Boot \/ BootPark
      BY <2>1 DEF vars, Boot, BootPark
    <2>2. CASE Park
      <3>1. pc' = "loop"
        BY <2>2 DEF Park, ParkCheck, ResumeCached, ResumeProbe, ResumeUnread
      <3> QED
        BY <3>1
    <2>3. CASE TipStep
      BY <2>3 DEF TipStep, RefreshRefused, Refresh, NoRefresh, SettleTip, SettleGivesUp,
          CompareTips, SettleSwap, SwapGivesUp, Again, EndPass, Parsing
    <2>4. CASE IngestStep
      BY <2>4 DEF IngestStep, FetchNextBlock, FetchFails, RetryUndecodableBlock,
          DetectReorg, CommitBlock, StoreFails, PurgeExpired, Again, Rederive, EndPass
    <2>5. CASE WalkStep
      BY <2>5 DEF WalkStep, VerifyReorgEntry, VerifyReorgAborts,
          ReadPriorRollbackDepth, WalkEmpty, WalkAboveTip, WalkCompare, WalkReadFails,
          RefreshReorgTip, SettleReorgTip, ReorgTipRefused, ReorgWait, AboveTipDiffers,
          AboveTipProven, ProveReorgedAway, DeleteBlock, DeleteUnacked, DeleteFails,
          DeleteGivesUp, ParkOnHalt, LoseMemory, Rederive, Again, EndPass
    <2>6. CASE HaltStep
      BY <2>6 DEF HaltStep, HaltReorg, MarkConfirmed, MarkUnconfirmed, HaltedSkip,
          HaltedFirstReading, HaltedReadStops, HaltedSecondReading, HaltedProof,
          HaltedDelete, HaltedDeleteStops, HaltedWalkStops, ParkOnHalt, EndPass
    <2>7. CASE Outside
      BY <2>7 DEF Outside, Calm, Crash, ProbeRead, ProbeDue, ProbeAnswer, ClearPin,
          ClearRefused, ClearCheck, ClearReread, ClearWrite, NodeMove, LoseMemory
    <2> QED
      BY <2>1, <2>2, <2>3, <2>4, <2>5, <2>6, <2>7 DEF Next, DecoderStep
  <1> SUFFICES ASSUME ~overtaken'
               PROVE  /\ (pc = "mark" => memHalted)'
                      /\ (haltLive /\ (pc \in HaltedPcs \/ parked = "halt") => memHalted)'
    BY <1>0 DEF SeenInv
  <1>1. ~overtaken => /\ pc = "mark" => memHalted
                      /\ haltLive /\ (pc \in HaltedPcs \/ parked = "halt") => memHalted
    BY DEF SeenInv
  <1> USE <1>1 DEF HaltedPcs, nodeVars, dbVars, histVars, loopVars, walkVars, parkVars, probeVars, cliVars
  <1>2. CASE UNCHANGED vars
    BY <1>2 DEF vars
  <1>3. CASE Boot \/ BootPark
    <2>1. CASE Boot
      BY <2>1, AdoptLive DEF Boot, ProbeFault
    <2>2. CASE BootPark
      BY <2>2 DEF BootPark, ParkFor
    <2> QED
      BY <1>3, <2>1, <2>2
  <1>4. CASE Park
    <2>1. CASE ParkCheck
      BY <2>1 DEF ParkCheck, ParkFor
    <2>2. CASE ResumeCached
      BY <2>2 DEF ResumeCached
    <2>3. CASE ResumeProbe
      BY <2>3, AdoptLive DEF ResumeProbe, ProbeFault
    <2>4. CASE ResumeUnread
      BY <2>4, AdoptLive DEF ResumeUnread, ProbeFault
    <2> QED
      BY <1>4, <2>1, <2>2, <2>3, <2>4 DEF Park
  <1>5. CASE TipStep
    BY <1>5 DEF TipStep, RefreshRefused, Refresh, NoRefresh, SettleTip, SettleGivesUp,
        CompareTips, SettleSwap, SwapGivesUp, Again, EndPass, ForgetWalk
  <1>6. CASE IngestStep
    BY <1>6 DEF IngestStep, FetchNextBlock, FetchFails, RetryUndecodableBlock,
        DetectReorg, CommitBlock, StoreFails, PurgeExpired, Again, Rederive,
        EndPass, ForgetWalk
  <1>7. CASE WalkStep
    BY <1>7 DEF WalkStep, VerifyReorgEntry, VerifyReorgAborts,
        ReadPriorRollbackDepth, WalkEmpty, WalkAboveTip, WalkCompare, WalkReadFails,
        RefreshReorgTip, SettleReorgTip, ReorgTipRefused, ReorgWait, AboveTipDiffers,
        AboveTipProven, ProveReorgedAway, DeleteBlock, DeleteUnacked, DeleteFails,
        DeleteGivesUp, ParkOnHalt, LoseMemory, Rederive, Again, EndPass, ForgetWalk
  <1>8. CASE HaltStep
    BY <1>8 DEF HaltStep, HaltReorg, MarkConfirmed, MarkUnconfirmed, HaltedSkip,
        HaltedFirstReading, HaltedReadStops, HaltedSecondReading, HaltedProof,
        HaltedDelete, HaltedDeleteStops, HaltedWalkStops, ParkOnHalt, EndPass, ForgetWalk
  <1>9. CASE Outside
    <2>1. CASE ProbeAnswer
      <3>1. /\ overtaken' = (overtaken \/ (memHalted /\ ~memHalted' /\ (haltLive \/ pc = "mark")))
            /\ haltLive' = haltLive /\ pc' = pc /\ parked' = parked
        BY <2>1 DEF ProbeAnswer
      <3> QED
        BY <3>1
    <2>2. CASE ~ProbeAnswer
      BY <1>9, <2>2 DEF Outside, Calm, Crash, ProbeRead, ClearPin,
          ClearRefused, ClearCheck, ClearReread, ClearWrite, NodeMove, LoseMemory, ForgetWalk
    <2> QED
      BY <2>1, <2>2
  <1> QED
    BY <1>2, <1>3, <1>4, <1>5, <1>6, <1>7, <1>8, <1>9 DEF Next, DecoderStep

\* Without an operator no halt is taken back, and only a halted walk condemns.
LEMMA StandingInvStep ==
  ASSUME LoopInv, StandingInv, [Next]_vars
  PROVE  StandingInv'
  <1> SUFFICES ASSUME ~Operator
               PROVE  /\ (cli = "idle")'
                      /\ (pc \in HaltedPcs => haltLive)'
                      /\ ((lossy /\ unacked = 0) => haltLive)'
    BY DEF StandingInv, CondemnedStaysHalted
  <1>1. /\ cli = "idle"
        /\ pc \in HaltedPcs => haltLive
        /\ (lossy /\ unacked = 0) => haltLive
    BY DEF StandingInv, CondemnedStaysHalted
  <1>2. /\ unacked \in Nat /\ StoredTip \in Nat /\ purgedTo \in Nat
        /\ pc = "delete" => StoredTip + unacked > purgedTo
    BY DeleteInWindow, TableFacts DEF LoopInv, TypeOK, HistTypes, DbTypes, DeleteWithinWindow
  <1> USE <1>1 DEF HaltedPcs, nodeVars, dbVars, histVars, loopVars, walkVars, parkVars, probeVars, cliVars
  <1>3. CASE UNCHANGED vars \/ Boot \/ BootPark
    BY <1>3 DEF vars, Boot, BootPark
  <1>4. CASE Park
    <2>1. UNCHANGED <<pc, cli, haltLive, lossy, unacked>>
      BY <1>4 DEF Park, ParkCheck, ResumeCached, ResumeProbe, ResumeUnread
    <2> QED
      BY <2>1
  <1>5. CASE TipStep
    BY <1>5 DEF TipStep, RefreshRefused, Refresh, NoRefresh, SettleTip, SettleGivesUp,
        CompareTips, SettleSwap, SwapGivesUp, Again, EndPass, ForgetWalk
  <1>6. CASE IngestStep
    BY <1>6 DEF IngestStep, FetchNextBlock, FetchFails, RetryUndecodableBlock,
        DetectReorg, CommitBlock, StoreFails, PurgeExpired, Again, Rederive,
        EndPass, ForgetWalk
  <1>7. CASE WalkStep
    <2>1. CASE DeleteBlock
      <3>1. /\ UNCHANGED <<cli, haltLive, unacked>> /\ pc' = "walk" /\ pc = "delete"
            /\ lossy' <=> lossy \/ StoredTip <= purgedTo
        BY <2>1 DEF DeleteBlock, DeleteTop
      <3>2. unacked = 0 => ~(StoredTip <= purgedTo)
        BY <3>1, <1>2
      <3> QED
        BY <3>1, <3>2
    <2>2. CASE DeleteUnacked
      BY <1>2, <2>2 DEF DeleteUnacked, DeleteTop
    <2>3. CASE DeleteGivesUp
      BY <2>3 DEF DeleteGivesUp, WriteHaltRow, LoseMemory, ForgetWalk
    <2>4. CASE ~(DeleteBlock \/ DeleteUnacked \/ DeleteGivesUp)
      BY <1>7, <2>4 DEF WalkStep, VerifyReorgEntry, VerifyReorgAborts,
          ReadPriorRollbackDepth, WalkEmpty, WalkAboveTip, WalkCompare, WalkReadFails,
          RefreshReorgTip, SettleReorgTip, ReorgTipRefused, ReorgWait, AboveTipDiffers,
          AboveTipProven, ProveReorgedAway, DeleteFails,
          ParkOnHalt, LoseMemory, Rederive, Again, EndPass, ForgetWalk
    <2> QED
      BY <2>1, <2>2, <2>3, <2>4
  <1>8. CASE HaltStep
    BY <1>8 DEF HaltStep, HaltReorg, MarkConfirmed, MarkUnconfirmed, WriteHaltRow, HaltedSkip,
        HaltedFirstReading, HaltedReadStops, HaltedSecondReading, HaltedProof,
        HaltedDelete, HaltedDeleteStops, HaltedWalkStops, ParkOnHalt, EndPass, ForgetWalk
  <1>9. CASE Outside
    BY <1>9 DEF Outside, Calm, Crash, ProbeRead, ProbeAnswer, ClearPin,
        ClearRefused, ClearCheck, ClearReread, ClearWrite, NodeMove, LoseMemory, ForgetWalk
  <1> QED
    BY <1>3, <1>4, <1>5, <1>6, <1>7, <1>8, <1>9 DEF Next, DecoderStep

\* What a late answer took back is remembered for good.
LEMMA OvertakenStays ==
  ASSUME [Next]_vars, ~overtaken'
  PROVE  ~overtaken
  <1> USE DEF probeVars
  <1>1. CASE UNCHANGED vars \/ Boot \/ BootPark \/ Park \/ TipStep
    BY <1>1 DEF vars, Boot, BootPark, Park, ParkCheck, ResumeCached, ResumeProbe,
        ResumeUnread, TipStep, RefreshRefused, Refresh, NoRefresh, SettleTip,
        SettleGivesUp, CompareTips, SettleSwap, SwapGivesUp
  <1>2. CASE IngestStep
    BY <1>2 DEF IngestStep, FetchNextBlock, FetchFails, RetryUndecodableBlock,
        DetectReorg, CommitBlock, StoreFails, PurgeExpired
  <1>3. CASE WalkStep
    BY <1>3 DEF WalkStep, VerifyReorgEntry, VerifyReorgAborts,
        ReadPriorRollbackDepth, WalkEmpty, WalkAboveTip, WalkCompare, WalkReadFails,
        RefreshReorgTip, SettleReorgTip, ReorgTipRefused, ReorgWait, AboveTipDiffers,
        AboveTipProven, ProveReorgedAway, DeleteBlock, DeleteUnacked, DeleteFails,
        DeleteGivesUp, LoseMemory
  <1>4. CASE HaltStep
    BY <1>4 DEF HaltStep, HaltReorg, MarkConfirmed, MarkUnconfirmed, HaltedSkip,
        HaltedFirstReading, HaltedReadStops, HaltedSecondReading, HaltedProof,
        HaltedDelete, HaltedDeleteStops, HaltedWalkStops
  <1>5. CASE Outside
    BY <1>5 DEF Outside, Calm, Crash, LoseMemory, ProbeRead, ProbeAnswer, ClearPin,
        ClearRefused, ClearCheck, ClearReread, ClearWrite, NodeMove
  <1> QED
    BY <1>1, <1>2, <1>3, <1>4, <1>5 DEF Next, DecoderStep

\* A database that is condemned stays in the halted walk, at a start or in a park: the
\* park check finds its rolled-back heights, and no probe finds its halt cleared.
LEMMA CondemnedInvStep ==
  ASSUME LoopInv, SeenInv, StandingInv, CondemnedInv, [Next]_vars
  PROVE  CondemnedInv'
  <1> DEFINE Held == \/ pc \in HaltedPcs \cup {"boot"}
                     \/ pc = "bootPark" /\ (memHalted \/ probeFailed)
                     \/ pc = "loop" /\ parked # "no"
  <1> SUFFICES ASSUME ~Operator, (lossy /\ unacked = 0 /\ ~overtaken)'
               PROVE  (StoredTip < highest)' /\ Held'
    BY DEF CondemnedInv
  <1>1. /\ unacked \in Nat /\ StoredTip \in Nat /\ purgedTo \in Nat /\ highest \in Nat
        /\ pc = "delete" => StoredTip + unacked > purgedTo
        /\ haltLive \in BOOLEAN /\ lossy \in BOOLEAN /\ StoredTip <= highest
    BY DeleteInWindow, TableFacts
       DEF LoopInv, TypeOK, HistTypes, DbTypes, DeleteWithinWindow, DepthInv
  <1>2. CASE HaltedDelete
    <2>1. pc' = "hProof" /\ highest' = highest /\ StoredTip >= 1
      BY <1>1, <1>2 DEF HaltedDelete, LoopInv, WalkInv, TypeOK, WalkTypes
    <2>2. StoredTip' = StoredTip - 1
      BY <1>2, <2>1, DeleteTopFacts DEF HaltedDelete, LoopInv
    <2> QED
      BY <1>1, <2>1, <2>2 DEF HaltedPcs
  <1>3. CASE ~HaltedDelete
    <2>0. ~overtaken
      BY OvertakenStays
    <2>1. lossy /\ unacked = 0
      <3>1. CASE DeleteBlock
        <4>1. /\ UNCHANGED unacked /\ pc = "delete"
              /\ lossy' <=> lossy \/ StoredTip <= purgedTo
          BY <3>1 DEF DeleteBlock, DeleteTop
        <4> QED
          BY <1>1, <4>1
      <3>2. CASE DeleteUnacked
        BY <1>1, <3>2 DEF DeleteUnacked
      <3>3. CASE ~DeleteBlock /\ ~DeleteUnacked
        <4>1. UNCHANGED <<lossy, unacked>>
          BY <1>3, <3>3 DEF Next, DecoderStep, Outside, vars, histVars, Boot, BootPark, Park,
            ParkCheck, ResumeCached, ResumeProbe, ResumeUnread, TipStep, RefreshRefused, Refresh,
            NoRefresh, SettleTip, SettleGivesUp, CompareTips, SettleSwap, SwapGivesUp, IngestStep,
            FetchNextBlock, FetchFails, RetryUndecodableBlock, DetectReorg, CommitBlock,
            StoreFails, PurgeExpired, WalkStep, VerifyReorgEntry, VerifyReorgAborts,
            ReadPriorRollbackDepth, WalkEmpty, WalkAboveTip, WalkCompare, WalkReadFails,
            RefreshReorgTip, SettleReorgTip, ReorgTipRefused, ReorgWait, AboveTipDiffers,
            AboveTipProven, ProveReorgedAway, DeleteFails,
            DeleteGivesUp, HaltStep, HaltReorg, MarkConfirmed, MarkUnconfirmed, HaltedSkip,
            HaltedFirstReading, HaltedReadStops, HaltedSecondReading, HaltedProof,
            HaltedDeleteStops, HaltedWalkStops,
            Calm, Crash, ProbeRead, ProbeAnswer, ClearPin, ClearRefused,
            ClearCheck, ClearReread, ClearWrite, NodeMove
        <4> QED
          BY <4>1
      <3> QED
        BY <3>1, <3>2, <3>3
    <2>2. /\ haltLive /\ StoredTip < highest /\ Held
          /\ pc \in {"boot", "bootPark"} => probe = "idle"
          /\ pc \in HaltedPcs \/ parked = "halt" => memHalted
      BY <2>0, <2>1 DEF CondemnedInv, StandingInv, CondemnedStaysHalted, SeenInv
    <2>3. CountReorgDeletesAboveTip # 0
      BY <1>1, <2>2, DepthCount DEF LoopInv, DepthInv
    <2> HIDE DEF CountReorgDeletesAboveTip
    <2>4. \A failed \in BOOLEAN, unreadable \in BOOLEAN :
             ParkFor(TRUE, failed, unreadable) # "no" /\ ParkFor(FALSE, TRUE, unreadable) # "no"
      BY <2>3 DEF ParkFor
    <2>5. memHalted \in BOOLEAN /\ probeFailed \in BOOLEAN
      BY DEF LoopInv, TypeOK, ParkTypes
    <2>6. Perhaps \subseteq BOOLEAN
      BY DEF Perhaps
    <2>7. Held' /\ UNCHANGED <<stored, highest>>
      <3> USE <1>3, <2>2, <2>5 DEF HaltedPcs, nodeVars, dbVars, histVars, loopVars, walkVars,
              parkVars, probeVars, cliVars
      <3>1. CASE UNCHANGED vars
        BY <3>1 DEF vars
      <3>2. CASE Boot
        <4>1. pc' = "bootPark" /\ UNCHANGED <<stored, highest>>
          BY <3>2 DEF Boot
        <4>2. memHalted' \/ probeFailed'
          BY <3>2, AdoptLive DEF Boot, ProbeFault
        <4> QED
          BY <4>1, <4>2
      <3>3. CASE BootPark
        <4>1. PICK u \in BOOLEAN : parked' = ParkFor(memHalted, probeFailed, u)
          BY <3>3, <2>6 DEF BootPark
        <4>2. parked' # "no"
          BY <4>1, <2>4, <3>3 DEF BootPark
        <4> QED
          BY <3>3, <4>2 DEF BootPark
      <3>4. CASE Park
        <4>1. UNCHANGED <<stored, highest, pc>> /\ pc = "loop"
          BY <3>4 DEF Park, ParkCheck, ResumeCached, ResumeProbe, ResumeUnread
        <4>2. CASE ParkCheck
          BY <4>1, <4>2 DEF ParkCheck
        <4>3. CASE ResumeCached
          BY <4>3 DEF ResumeCached
        <4>4. CASE ResumeProbe
          <5>0. /\ memHalted = TRUE /\ haltLive = TRUE
                /\ AdoptMarker(haltLive) \/ memHalted' = memHalted
            BY <4>4, <1>1 DEF ResumeProbe, ProbeFault
          <5>1. memHalted'
            BY <5>0, AdoptLive
          <5> QED
            BY <4>1, <4>4, <5>1 DEF ResumeProbe
        <4>5. CASE ResumeUnread
          <5>1. CASE ProbeFault /\ UNCHANGED parked
            BY <4>1, <5>1
          <5>2. CASE AdoptMarker(haltLive) /\ \E u \in Perhaps : parked' = ParkFor(memHalted', FALSE, u)
            <6>1. memHalted' = TRUE
              BY <5>2, AdoptLive
            <6>2. parked' # "no"
              BY <5>2, <6>1, <2>4, <2>6
            <6> QED
              BY <4>1, <6>2
          <5> QED
            BY <4>5, <5>1, <5>2 DEF ResumeUnread
        <4> QED
          BY <3>4, <4>2, <4>3, <4>4, <4>5 DEF Park
      <3>5. CASE TipStep
        BY <3>5 DEF TipStep, RefreshRefused, Refresh, NoRefresh, SettleTip, SettleGivesUp,
            CompareTips, SettleSwap, SwapGivesUp, Parsing
      <3>6. CASE IngestStep
        BY <3>6 DEF IngestStep, FetchNextBlock, FetchFails, RetryUndecodableBlock,
            DetectReorg, CommitBlock, StoreFails, PurgeExpired
      <3>7. CASE WalkStep
        BY <3>7 DEF WalkStep, VerifyReorgEntry, VerifyReorgAborts,
            ReadPriorRollbackDepth, WalkEmpty, WalkAboveTip, WalkCompare, WalkReadFails,
            RefreshReorgTip, SettleReorgTip, ReorgTipRefused, ReorgWait, AboveTipDiffers,
            AboveTipProven, ProveReorgedAway, DeleteBlock, DeleteUnacked, DeleteFails,
            DeleteGivesUp
      <3>8. CASE HaltStep
        BY <3>8 DEF HaltStep, HaltReorg, MarkConfirmed, MarkUnconfirmed, HaltedSkip,
            HaltedFirstReading, HaltedReadStops, HaltedSecondReading, HaltedProof,
            HaltedDeleteStops, HaltedWalkStops, ParkOnHalt, EndPass
      <3>9. CASE Outside
        <4>1. CASE Crash
          BY <4>1 DEF Crash, LoseMemory
        <4>2. CASE ~Crash
          BY <3>9, <4>2 DEF Outside, Calm, ProbeRead, ProbeAnswer, ProbeDue,
              ClearPin, ClearRefused, ClearCheck, ClearReread, ClearWrite, NodeMove
        <4> QED
          BY <4>1, <4>2
      <3> QED
        BY <3>1, <3>2, <3>3, <3>4, <3>5, <3>6, <3>7, <3>8, <3>9 DEF Next, DecoderStep
    <2> QED
      BY <2>2, <2>7 DEF StoredTip
  <1> QED
    BY <1>2, <1>3

\* All of it from the first start of the process.
LEMMA HaltInvariant == Spec => [](LoopInv /\ LagInv /\ SeenInv /\ StandingInv /\ CondemnedInv)
  <1>1. Init => LagInv /\ SeenInv /\ StandingInv /\ CondemnedInv
    BY DEF Init, LagInv, SeenInv, StandingInv, CondemnedInv, CondemnedStaysHalted, HaltedPcs
  <1>2. LoopInv /\ (LagInv /\ SeenInv /\ StandingInv /\ CondemnedInv) /\ [Next]_vars
          => (LagInv /\ SeenInv /\ StandingInv /\ CondemnedInv)'
    BY LagInvStep, SeenInvStep, StandingInvStep, CondemnedInvStep
  <1> QED
    BY <1>1, <1>2, InitLoopInv, LoopInvStep, PTL DEF Spec

\* A node that lags, restarts on a shorter chain or answers with stale tips costs no
\* block and raises no halt, for every tree of chains that agree as high as the decoder
\* has ever stored (settleTipBelow, requireAboveTipForkProof, requireReorgProof).
THEOREM LagHarmless == Spec => []LagIsHarmless
  <1>1. LagInv => LagIsHarmless
    BY DEF LagInv, LagIsHarmless
  <1> QED
    BY <1>1, HaltInvariant, PTL

\* Where nobody runs clear-reorg-halt, a database rolled back past its purges keeps its
\* halt live, for every window, tree and sequence of crashes and probes
\* (raiseSafeDepthHalt, markReorgHalted).
THEOREM HaltStands ==
  ASSUME ~Operator
  PROVE  Spec => []CondemnedStaysHalted
  <1>1. StandingInv => CondemnedStaysHalted
    BY DEF StandingInv
  <1> QED
    BY <1>1, HaltInvariant, PTL

\* ... and no block is ever stored on top of it again, unless a health probe that was
\* answered late has taken its halt back (parkOnRolledBackHalt, resumeFromUnreadPark).
THEOREM NotExtended ==
  ASSUME ~Operator
  PROVE  Spec => CondemnedNotExtended
  <1>1. LoopInv /\ CondemnedInv /\ [Next]_vars
          => [(lossy /\ unacked = 0 /\ ~overtaken) => Len(stored') <= Len(stored)]_vars
    <2> SUFFICES ASSUME LoopInv, CondemnedInv, [Next]_vars, lossy, unacked = 0, ~overtaken
                 PROVE  Len(stored') <= Len(stored)
      OBVIOUS
    <2>1. StoredTip \in Nat /\ pc # "store"
      BY TableFacts DEF LoopInv, CondemnedInv, HaltedPcs
    <2>2. CASE DeleteTop /\ StoredTip >= 1
      BY <2>1, <2>2, DeleteTopFacts DEF LoopInv, StoredTip
    <2>3. CASE UNCHANGED stored
      BY <2>1, <2>3 DEF StoredTip
    <2>4. UNCHANGED stored \/ (DeleteTop /\ StoredTip >= 1)
      <3>1. pc = "delete" \/ pc = "hDelete" => StoredTip >= 1
        BY <2>1 DEF LoopInv, WalkInv, TypeOK, WalkTypes
      <3> USE <2>1, <3>1 DEF dbVars
      <3>2. CASE UNCHANGED vars \/ Boot \/ BootPark \/ Park \/ TipStep
        BY <3>2 DEF vars, Boot, BootPark, Park, ParkCheck, ResumeCached, ResumeProbe,
            ResumeUnread, TipStep, RefreshRefused, Refresh, NoRefresh, SettleTip,
            SettleGivesUp, CompareTips, SettleSwap, SwapGivesUp
      <3>3. CASE IngestStep
        BY <3>3 DEF IngestStep, FetchNextBlock, FetchFails, RetryUndecodableBlock,
            DetectReorg, CommitBlock, StoreFails, PurgeExpired
      <3>4. CASE WalkStep
        BY <3>4 DEF WalkStep, VerifyReorgEntry, VerifyReorgAborts,
            ReadPriorRollbackDepth, WalkEmpty, WalkAboveTip, WalkCompare, WalkReadFails,
            RefreshReorgTip, SettleReorgTip, ReorgTipRefused, ReorgWait, AboveTipDiffers,
            AboveTipProven, ProveReorgedAway, DeleteBlock, DeleteUnacked, DeleteFails,
            DeleteGivesUp
      <3>5. CASE HaltStep
        BY <3>5 DEF HaltStep, HaltReorg, MarkConfirmed, MarkUnconfirmed, HaltedSkip,
            HaltedFirstReading, HaltedReadStops, HaltedSecondReading, HaltedProof,
            HaltedDelete, HaltedDeleteStops, HaltedWalkStops
      <3>6. CASE Outside
        BY <3>6 DEF Outside, Calm, Crash, ProbeRead, ProbeAnswer, ClearPin,
            ClearRefused, ClearCheck, ClearReread, ClearWrite, NodeMove
      <3> QED
        BY <3>2, <3>3, <3>4, <3>5, <3>6 DEF Next, DecoderStep
    <2> QED
      BY <2>2, <2>3, <2>4
  <1> QED
    BY <1>1, HaltInvariant, PTL DEF Spec, CondemnedNotExtended

\* A parked loop parses again only once its halt is no longer live, whatever operator,
\* crash or failed probe it meets, unless a health probe queried before the halt was
\* raised and answered after has taken it back (resumeFromReorgHaltPark, checkReorgHalt).
THEOREM ParkStands == Spec => ParkHolds
  <1>1. LoopInv /\ SeenInv /\ [Next]_vars
          => [(parked = "halt" /\ parked' = "no" /\ pc' # "boot") => ~haltLive \/ overtaken]_vars
    <2> SUFFICES ASSUME LoopInv, SeenInv, [Next]_vars, parked = "halt", parked' = "no",
                        pc' # "boot", haltLive, ~overtaken
                 PROVE  FALSE
      OBVIOUS
    <2>1. memHalted = TRUE /\ haltLive = TRUE /\ pc # "bootPark"
      BY DEF SeenInv, LoopInv, TypeOK, DbTypes, ParkTypes
    <2> USE <2>1 DEF parkVars
    <2>2. CASE UNCHANGED vars \/ Boot \/ BootPark
      BY <2>2 DEF vars, Boot, BootPark, SeenInv
    <2>3. CASE Park
      <3>1. CASE ParkCheck \/ ResumeCached \/ ResumeUnread
        BY <3>1 DEF ParkCheck, ResumeCached, ResumeUnread
      <3>2. CASE ResumeProbe
        <4>1. AdoptMarker(haltLive) \/ memHalted' = memHalted
          BY <3>2 DEF ResumeProbe, ProbeFault
        <4>2. memHalted'
          BY <4>1, AdoptLive
        <4> QED
          BY <3>2, <4>2 DEF ResumeProbe
      <3> QED
        BY <2>3, <3>1, <3>2 DEF Park
    <2>4. CASE TipStep \/ IngestStep
      BY <2>4 DEF TipStep, RefreshRefused, Refresh, NoRefresh, SettleTip,
          SettleGivesUp, CompareTips, SettleSwap, SwapGivesUp,
          IngestStep, FetchNextBlock, FetchFails, RetryUndecodableBlock,
          DetectReorg, CommitBlock, StoreFails, PurgeExpired
    <2>5. CASE WalkStep
      BY <2>5 DEF WalkStep, VerifyReorgEntry, VerifyReorgAborts, LoseMemory, ParkOnHalt,
          ReadPriorRollbackDepth, WalkEmpty, WalkAboveTip, WalkCompare, WalkReadFails,
          RefreshReorgTip, SettleReorgTip, ReorgTipRefused, ReorgWait, AboveTipDiffers,
          AboveTipProven, ProveReorgedAway, DeleteBlock, DeleteUnacked, DeleteFails,
          DeleteGivesUp
    <2>6. CASE HaltStep
      BY <2>6 DEF HaltStep, HaltReorg, MarkConfirmed, MarkUnconfirmed, HaltedSkip,
          HaltedFirstReading, HaltedReadStops, HaltedSecondReading, HaltedProof,
          HaltedDelete, HaltedDeleteStops, HaltedWalkStops, ParkOnHalt
    <2>7. CASE Outside
      BY <2>7 DEF Outside, Calm, Crash, ProbeRead, ProbeAnswer, ClearPin,
          ClearRefused, ClearCheck, ClearReread, ClearWrite, NodeMove, LoseMemory
    <2> QED
      BY <2>2, <2>3, <2>4, <2>5, <2>6, <2>7 DEF Next, DecoderStep
  <1> QED
    BY <1>1, HaltInvariant, PTL DEF Spec, ParkHolds
=============================================================================
