--------------------------- MODULE TxIngestProofs ---------------------------
(***************************************************************************)
(* Proofs about the ingest of a block's transactions.                      *)
(*                                                                         *)
(* TxIngest keeps the types, the index counter, the quarantine and the     *)
(* rows right for every set of chains, every content of their blocks and   *)
(* every retry bound: IngestInv is inductive.  tx_index is the same on     *)
(* every instance that stores a chain, for every chain none of whose       *)
(* blocks ends with a skipped transaction: ParityInv is inductive relative *)
(* to IngestInv and RowsInv.  It counts the places the counter has passed  *)
(* at the tip and at every height below it, because a rollback or a reorg  *)
(* reads the counter back from the table.                                  *)
(*                                                                         *)
(* A parse of one transaction (TxParsing) agrees with what the transaction *)
(* says and with what the ledger holds, for every transaction: ParseInv is *)
(* inductive and tells what the parse's locals hold at every lookup.       *)
(***************************************************************************)
EXTENDS TxIngest, TxParsing, FiniteSetTheorems, WellFoundedInduction, SequenceTheorems, TLAPS

\* What the open transaction and the ladder must hold for the audit and for the
\* quarantine to be right at the commit.
PoisonInv == \A k \in insertQuarantine : Kind(k[2], k[3]) = "poison"
CountsType(m) == /\ DOMAIN m \subseteq Keys
                 /\ \A k \in DOMAIN m : m[k] \in 1..(MaxRetries + 1)
LadderInv == /\ CountsType(parseCounts) /\ CountsType(insertCounts)
             /\ parseQuarantine \subseteq Keys /\ insertQuarantine \subseteq Keys
             /\ PoisonInv
AuditInv ==
    /\ \A h \in 1..Len(blocks) : \A p \in 1..LastPos(blocks[h]) :
          Kind(blocks[h], p) \in {"throw", "poison"} => <<blocks[h], p>> \in errs
    /\ held # None =>
          \A p \in 1..(pos - 1) : Kind(held, p) \in {"throw", "poison"} => <<held, p>> \in newErrs
\* Between blocks no row is waiting for a commit.
IdleInv == held = None => newRows = {}
IngestInv == /\ TypeOK /\ NoIndexCollision /\ OnlyPoisonQuarantined
             /\ PoisonInv /\ AuditInv /\ IdleInv

-----------------------------------------------------------------------------
(* The counter read back from the table. *)

\* A bounded, non-empty set of rows has a largest tx_index.
LEMMA LargestIndex ==
  ASSUME NEW R, R \subseteq Rows, R # {}, NEW n \in Nat, \A r \in R : r.idx <= n
  PROVE  \E r \in R : \A s \in R : s.idx <= r.idx
  <1> DEFINE Bounds == {b \in Nat : \A r \in R : r.idx <= b}
  <1>1. Bounds \subseteq Nat /\ Bounds # {}
    OBVIOUS
  <1>2. PICK b \in Bounds : \A c \in Bounds : ~(<<c, b>> \in OpToRel(<, Nat))
    BY <1>1, NatLessThanWellFounded, WFMin
  <1>3. \A c \in Bounds : ~(c < b)
    BY <1>2 DEF OpToRel
  <1>4. PICK q \in R : TRUE
    OBVIOUS
  <1>5. \A r \in R : r.idx \in Nat
    BY DEF Rows
  <1>6. b \in Nat /\ \A r \in R : r.idx <= b
    OBVIOUS
  <1>7. \E r \in R : r.idx = b
    <2>1. SUFFICES ASSUME \A r \in R : r.idx # b
                   PROVE  FALSE
      OBVIOUS
    <2>2. \A r \in R : r.idx < b
      BY <2>1, <1>5, <1>6
    <2>3. q.idx \in Nat /\ q.idx < b
      BY <2>2, <1>4, <1>5
    <2>4. b - 1 \in Nat /\ \A r \in R : r.idx <= b - 1
      BY <2>2, <2>3, <1>5, <1>6
    <2>5. b - 1 \in Bounds
      BY <2>4
    <2> QED
      BY <2>5, <1>3, <1>6
  <1> QED
    BY <1>7, <1>6

\* getLastTxIndex bounds the rows it reads.
LEMMA LastIndex ==
  ASSUME NEW R, R \subseteq Rows, NEW n \in Nat \cup {-1}, \A r \in R : r.idx <= n
  PROVE  /\ GetLastTxIndex(R) \in Nat \cup {-1}
         /\ \A r \in R : r.idx <= GetLastTxIndex(R)
  <1>1. CASE R = {}
    BY <1>1 DEF GetLastTxIndex
  <1>2. CASE R # {}
    <2>1. \A r \in R : r.idx \in Nat
      BY DEF Rows
    <2>2. PICK q \in R : TRUE
      BY <1>2
    <2>3. n \in Nat
      BY <2>1, <2>2
    <2>4. PICK r \in R : \A s \in R : s.idx <= r.idx
      BY <1>2, <2>3, LargestIndex
    <2>5. \E i \in {s.idx : s \in R} : \A s \in R : s.idx <= i
      BY <2>4
    <2> DEFINE m == CHOOSE i \in {s.idx : s \in R} : \A s \in R : s.idx <= i
    <2>6. m \in {s.idx : s \in R} /\ \A s \in R : s.idx <= m
      BY <2>5
    <2>7. GetLastTxIndex(R) = m
      BY <1>2 DEF GetLastTxIndex
    <2> HIDE DEF m
    <2> QED
      BY <2>1, <2>6, <2>7
  <1> QED
    BY <1>1, <1>2

\* endTransaction and resetAfterRollback leave the tables, drop what the block
\* wrote and read a counter that bounds the table.
LEMMA RollBackKeeps ==
  ASSUME TypeOK, NoIndexCollision, RollBackBlock
  PROVE  /\ blocks' = blocks /\ rows' = rows /\ errs' = errs
         /\ held' = None /\ pos' = 0 /\ newRows' = {} /\ newErrs' = {}
         /\ idx' \in Nat \cup {-1} /\ \A r \in rows : r.idx <= idx'
  <1>1. rows \subseteq Rows /\ idx \in Nat \cup {-1} /\ \A r \in rows : r.idx <= idx
    BY DEF TypeOK, NoIndexCollision, TakenIndexes
  <1>2. idx' = GetLastTxIndex(rows)
    BY DEF RollBackBlock
  <1>3. idx' \in Nat \cup {-1} /\ \A r \in rows : r.idx <= idx'
    BY <1>1, <1>2, LastIndex
  <1> QED
    BY <1>3 DEF RollBackBlock, CloseTransaction, tables

-----------------------------------------------------------------------------
(* Types. *)

\* A block of the node's chains has a number of transactions.
LEMMA BlockLength == \A b \in Hashes : Txs[b] \in Seq(Kinds) /\ LastPos(b) \in Nat
  BY ChainAssumption, LenProperties DEF LastPos

\* Deleting the top block leaves the blocks below it.
LEMMA ButLast ==
  ASSUME NEW S, NEW s \in Seq(S), s # <<>>
  PROVE  LET t == SubSeq(s, 1, Len(s) - 1)
         IN  /\ t \in Seq(S) /\ Len(t) = Len(s) - 1
             /\ \A h \in 1..Len(t) : h \in 1..Len(s) /\ t[h] = s[h]
  <1>1. PICK n \in Nat : Len(s) = n + 1
    <2>1. Len(s) \in Nat /\ Len(s) # 0
      BY EmptySeq, LenProperties
    <2>2. Len(s) - 1 \in Nat /\ Len(s) = (Len(s) - 1) + 1
      BY <2>1
    <2> QED
      BY <2>2
  <1>2. \A i \in 1..n : i \in 1..Len(s) /\ s[i] \in S
    BY <1>1, ElementOfSeq
  <1>3. /\ SubSeq(s, 1, n) \in Seq(S)
        /\ Len(SubSeq(s, 1, n)) = IF 1 <= n THEN n - 1 + 1 ELSE 0
        /\ \A i \in 1 .. n - 1 + 1 : SubSeq(s, 1, n)[i] = s[1 + i - 1]
    BY <1>2, SubSeqProperties
  <1>4. Len(s) - 1 = n
    BY <1>1
  <1> DEFINE t == SubSeq(s, 1, n)
  <1>5. Len(t) = n /\ \A i \in 1..n : t[i] = s[i]
    BY <1>3
  <1> QED
    BY <1>2, <1>3, <1>4, <1>5

\* The key of the transaction in hand.
LEMMA KeyType ==
  ASSUME TypeOK, held # None
  PROVE  QuarantineKey \in Keys /\ held \in Hashes /\ pos \in Nat \ {0}
                /\ QuarantineKey[2] = held /\ QuarantineKey[3] = pos
  <1>1. held \in Hashes /\ LastPos(held) \in Nat /\ pos \in 1..(LastPos(held) + 1)
    BY BlockLength DEF TypeOK
  <1>2. pos \in Nat \ {0}
    BY <1>1
  <1>3. NextHeight \in Nat \ {0}
    BY LenProperties DEF TypeOK, NextHeight
  <1> QED
    BY <1>1, <1>2, <1>3 DEF QuarantineKey, Keys

\* countAttempt keeps the counts in range.
LEMMA CountType ==
  ASSUME NEW m, CountsType(m), NEW k \in Keys
  PROVE  CountsType(CountAttempt(m, k))
  <1> DEFINE c == CountAttempt(m, k)
  <1>1. DOMAIN c = DOMAIN m \cup {k}
    BY DEF CountAttempt
  <1>2. ASSUME NEW x \in DOMAIN m \cup {k}
        PROVE  c[x] \in 1..(MaxRetries + 1)
    <2>1. CASE x # k
      <3>1. c[x] = m[x]
        BY <2>1 DEF CountAttempt
      <3> QED
        BY <2>1, <3>1 DEF CountsType
    <2>2. CASE x = k /\ k \in DOMAIN m
      <3>1. m[k] \in 1..(MaxRetries + 1) /\ Attempts(m, k) = m[k]
        BY <2>2 DEF CountsType, Attempts
      <3>2. c[x] = IF m[k] <= MaxRetries THEN m[k] + 1 ELSE m[k]
        BY <2>2, <3>1 DEF CountAttempt
      <3> QED
        BY <3>1, <3>2, RetriesAssumption
    <2>3. CASE x = k /\ k \notin DOMAIN m
      <3>1. Attempts(m, k) = 0
        BY <2>3 DEF Attempts
      <3>2. c[x] = 1
        BY <2>3, <3>1, RetriesAssumption DEF CountAttempt
      <3> QED
        BY <3>2, RetriesAssumption
    <2> QED
      BY <2>1, <2>2, <2>3
  <1> HIDE DEF c
  <1> QED
    BY <1>1, <1>2 DEF CountsType, c

\* Nothing is counted after a commit or a boot.
LEMMA NoCounts == CountsType(<<>>)
  <1>1. DOMAIN <<>> = {}
    OBVIOUS
  <1> QED
    BY <1>1 DEF CountsType

\* The ladder's part of the invariant.
LEMMA LadderHolds == IngestInv => LadderInv
  BY DEF IngestInv, TypeOK, LadderInv, CountsType

-----------------------------------------------------------------------------
(* The three ways a step ends: the block is rolled back, the loop moves to   *)
(* the next transaction, or the block's rows are written.                    *)

\* A step that leaves the loop and the tables alone keeps the invariant.
LEMMA OutsideInv ==
  ASSUME IngestInv, node' \in Chains, faults' \in BOOLEAN,
         UNCHANGED <<tables, work, idx, ladder>>
  PROVE  IngestInv'
  <1>1. /\ blocks' = blocks /\ rows' = rows /\ errs' = errs
        /\ held' = held /\ pos' = pos /\ newRows' = newRows /\ newErrs' = newErrs
        /\ idx' = idx /\ parseCounts' = parseCounts /\ parseQuarantine' = parseQuarantine
        /\ insertCounts' = insertCounts /\ insertQuarantine' = insertQuarantine
    BY DEF tables, work, ladder
  <1>2. TypeOK'
    BY <1>1 DEF IngestInv, TypeOK
  <1>3. NoIndexCollision' /\ OnlyPoisonQuarantined' /\ PoisonInv' /\ IdleInv'
    BY <1>1 DEF IngestInv, NoIndexCollision, TakenIndexes, OnlyPoisonQuarantined,
                PoisonInv, IdleInv
  <1>4. AuditInv'
    BY <1>1 DEF IngestInv, AuditInv
  <1> QED
    BY <1>2, <1>3, <1>4 DEF IngestInv

\* A stutter keeps it.
LEMMA StutterInv == IngestInv /\ UNCHANGED vars => IngestInv'
  <1> SUFFICES ASSUME IngestInv, UNCHANGED vars PROVE IngestInv'
    OBVIOUS
  <1>1. node \in Chains /\ faults \in BOOLEAN
    BY DEF IngestInv, TypeOK
  <1>2. node' = node /\ faults' = faults /\ UNCHANGED <<tables, work, idx, ladder>>
    BY DEF vars
  <1> QED
    BY <1>1, <1>2, OutsideInv

\* After a rollback of the open block the invariant holds, if the ladder does.
LEMMA RolledBackInv ==
  ASSUME IngestInv, RollBackBlock, node' \in Chains, faults' \in BOOLEAN, LadderInv'
  PROVE  IngestInv'
  <1>1. TypeOK /\ NoIndexCollision /\ OnlyPoisonQuarantined /\ AuditInv
    BY DEF IngestInv
  <1>2. /\ blocks' = blocks /\ rows' = rows /\ errs' = errs
        /\ held' = None /\ pos' = 0 /\ newRows' = {} /\ newErrs' = {}
        /\ idx' \in Nat \cup {-1} /\ \A r \in rows : r.idx <= idx'
    BY <1>1, RollBackKeeps
  <1>3. TypeOK'
    BY <1>1, <1>2 DEF TypeOK, LadderInv, CountsType
  <1>4. NoIndexCollision'
    BY <1>2 DEF NoIndexCollision, TakenIndexes
  <1>5. OnlyPoisonQuarantined'
    BY <1>1, <1>2 DEF OnlyPoisonQuarantined
  <1>6. AuditInv'
    BY <1>1, <1>2 DEF AuditInv
  <1>7. IdleInv'
    BY <1>2 DEF IdleInv
  <1> QED
    BY <1>3, <1>4, <1>5, <1>6, <1>7 DEF IngestInv, LadderInv

\* Moving past a transaction keeps it: a failing one has had its audit row.
LEMMA AdvancedInv ==
  ASSUME IngestInv, AtTransaction, NextTransaction,
         UNCHANGED <<node, faults, tables>>,
         newRows' \subseteq Rows, idx' \in Nat \cup {-1},
         \A r \in rows \cup newRows' : r.idx <= idx',
         \/ Kind(held, pos) \notin {"throw", "poison"} /\ newErrs' = newErrs
         \/ Kind(held, pos) \in {"throw", "poison"} /\ WriteParseError,
         LadderInv'
  PROVE  IngestInv'
  <1>1. TypeOK /\ NoIndexCollision /\ OnlyPoisonQuarantined /\ AuditInv
    BY DEF IngestInv
  <1>2. /\ held \in Hashes /\ held # None /\ LastPos(held) \in Nat
        /\ pos \in 1..LastPos(held) /\ pos' = pos + 1 /\ held' = held
    BY <1>1, BlockLength DEF TypeOK, AtTransaction, NextTransaction
  <1>3. /\ node' = node /\ faults' = faults
        /\ blocks' = blocks /\ rows' = rows /\ errs' = errs
    BY DEF tables
  <1>4. newErrs' \subseteq newErrs \cup {<<held, pos>>} /\ newErrs \subseteq newErrs'
    BY DEF WriteParseError
  <1>5. newErrs' \subseteq Places
    BY <1>1, <1>2, <1>4 DEF TypeOK, Places
  <1>6. TypeOK'
    <2>1. pos' \in Nat /\ pos' \in 1..(LastPos(held) + 1)
      BY <1>2
    <2> QED
      BY <1>1, <1>2, <1>3, <1>5, <2>1 DEF TypeOK, LadderInv, CountsType
  <1>7. NoIndexCollision'
    BY <1>3 DEF NoIndexCollision, TakenIndexes
  <1>8. OnlyPoisonQuarantined'
    BY <1>1, <1>3, <1>4 DEF OnlyPoisonQuarantined, WriteParseError
  <1>9. AuditInv'
    <2>1. ASSUME NEW p \in 1..(pos' - 1), Kind(held, p) \in {"throw", "poison"}
          PROVE  <<held, p>> \in newErrs'
      <3>1. CASE p = pos
        BY <2>1, <3>1 DEF WriteParseError
      <3>2. CASE p # pos
        <4>1. p \in 1..(pos - 1)
          BY <1>2, <3>2
        <4> QED
          BY <1>1, <1>2, <1>4, <2>1, <4>1 DEF AuditInv
      <3> QED
        BY <3>1, <3>2
    <2> QED
      BY <1>1, <1>2, <1>3, <2>1 DEF AuditInv
  <1>10. IdleInv'
    BY <1>2 DEF IdleInv
  <1> QED
    BY <1>6, <1>7, <1>8, <1>9, <1>10 DEF IngestInv, LadderInv

\* Writing the finished block's rows keeps it: its audit is complete by then.
LEMMA WrittenInv ==
  ASSUME IngestInv, BlockDone, WriteTables, UNCHANGED <<node, faults>>,
         idx' \in Nat \cup {-1}, \A r \in rows \cup newRows : r.idx <= idx',
         LadderInv'
  PROVE  IngestInv'
  <1>1. TypeOK /\ NoIndexCollision /\ OnlyPoisonQuarantined /\ AuditInv
    BY DEF IngestInv
  <1>2. /\ held \in Hashes /\ held # None /\ LastPos(held) \in Nat
        /\ pos = LastPos(held) + 1
    BY <1>1, BlockLength DEF TypeOK, BlockDone
  <1>3. /\ blocks' = Append(blocks, held)
        /\ rows' = rows \cup newRows /\ errs' = errs \cup newErrs
        /\ held' = None /\ pos' = 0 /\ newRows' = {} /\ newErrs' = {}
    BY DEF WriteTables, CloseTransaction
  <1>4. /\ blocks \in Seq(Hashes) /\ blocks' \in Seq(Hashes)
        /\ Len(blocks) \in Nat /\ Len(blocks') = Len(blocks) + 1
        /\ blocks'[Len(blocks) + 1] = held
        /\ \A h \in 1..Len(blocks) : blocks'[h] = blocks[h]
    BY <1>1, <1>2, <1>3, AppendProperties, LenProperties DEF TypeOK
  <1>5. TypeOK'
    BY <1>1, <1>3, <1>4 DEF TypeOK, LadderInv, CountsType
  <1>6. NoIndexCollision'
    BY <1>3 DEF NoIndexCollision, TakenIndexes
  <1>7. OnlyPoisonQuarantined'
    BY <1>1, <1>3 DEF OnlyPoisonQuarantined
  <1>8. AuditInv'
    <2>1. ASSUME NEW h \in 1..Len(blocks'), NEW p \in 1..LastPos(blocks'[h]),
                 Kind(blocks'[h], p) \in {"throw", "poison"}
          PROVE  <<blocks'[h], p>> \in errs'
      <3>1. CASE h = Len(blocks) + 1
        <4>1. blocks'[h] = held /\ p \in 1..(pos - 1)
          BY <1>2, <1>4, <2>1, <3>1
        <4> QED
          BY <1>1, <1>2, <1>3, <2>1, <4>1 DEF AuditInv
      <3>2. CASE h # Len(blocks) + 1
        <4>1. h \in 1..Len(blocks) /\ blocks'[h] = blocks[h]
          BY <1>4, <3>2
        <4> QED
          BY <1>1, <1>3, <2>1, <4>1 DEF AuditInv
      <3> QED
        BY <3>1, <3>2
    <2> QED
      BY <1>3, <2>1 DEF AuditInv
  <1>9. IdleInv'
    BY <1>3 DEF IdleInv
  <1> QED
    BY <1>5, <1>6, <1>7, <1>8, <1>9 DEF IngestInv, LadderInv

-----------------------------------------------------------------------------
(* The invariant. *)

\* A first boot.
LEMMA InitInv == Init => IngestInv
  <1> SUFFICES ASSUME Init PROVE IngestInv
    OBVIOUS
  <1>1. /\ node \in Chains /\ faults = TRUE /\ blocks = <<>> /\ rows = {} /\ errs = {}
        /\ held = None /\ pos = 0 /\ newRows = {} /\ newErrs = {} /\ idx = -1
        /\ parseQuarantine = {} /\ insertQuarantine = {}
        /\ CountsType(parseCounts) /\ CountsType(insertCounts)
    BY NoCounts DEF Init
  <1>2. blocks \in Seq(Hashes) /\ Len(blocks) = 0
    BY <1>1
  <1>3. TypeOK
    BY <1>1, <1>2 DEF TypeOK, CountsType
  <1>4. NoIndexCollision /\ OnlyPoisonQuarantined /\ PoisonInv
    BY <1>1 DEF NoIndexCollision, TakenIndexes, OnlyPoisonQuarantined, PoisonInv
  <1>5. AuditInv /\ IdleInv
    BY <1>1, <1>2 DEF AuditInv, IdleInv
  <1> QED
    BY <1>3, <1>4, <1>5 DEF IngestInv

\* The loop's own steps.
LEMMA LoopStepInv == IngestInv /\ LoopStep => IngestInv'
  <1> SUFFICES ASSUME IngestInv, LoopStep PROVE IngestInv'
    OBVIOUS
  <1>t. TypeOK /\ NoIndexCollision /\ OnlyPoisonQuarantined /\ PoisonInv /\ AuditInv
        /\ IdleInv
    BY DEF IngestInv
  <1>l. LadderInv
    BY LadderHolds
  <1>n. node \in Chains /\ faults \in BOOLEAN /\ idx \in Nat \cup {-1}
        /\ newRows \subseteq Rows /\ \A r \in rows \cup newRows : r.idx <= idx
    BY <1>t DEF TypeOK, NoIndexCollision, TakenIndexes
  <1>k. held # None => /\ QuarantineKey \in Keys /\ held \in Hashes /\ pos \in Nat \ {0}
                       /\ QuarantineKey[2] = held /\ QuarantineKey[3] = pos
    BY <1>t, KeyType
  <1>1. CASE BeginBlock
    <2>1. node \in Seq(Hashes) /\ Len(node) \in Nat /\ Len(blocks) \in Nat
      BY <1>t, ChainAssumption, LenProperties DEF TypeOK
    <2>2. NextHeight \in 1..Len(node)
      BY <1>1, <2>1 DEF BeginBlock, NextHeight
    <2>3. node[NextHeight] \in Hashes
      BY <2>1, <2>2, ElementOfSeq
    <2>4. /\ held' \in Hashes /\ pos' = 1 /\ LastPos(held') \in Nat
          /\ node' = node /\ faults' = faults /\ blocks' = blocks /\ rows' = rows
          /\ errs' = errs /\ newRows' = newRows /\ newErrs' = newErrs /\ idx' = idx
          /\ parseCounts' = parseCounts /\ parseQuarantine' = parseQuarantine
          /\ insertCounts' = insertCounts /\ insertQuarantine' = insertQuarantine
      BY <1>1, <2>3, BlockLength DEF BeginBlock, tables, ladder
    <2>5. TypeOK'
      BY <1>t, <2>4 DEF TypeOK
    <2>6. NoIndexCollision' /\ OnlyPoisonQuarantined' /\ PoisonInv'
      BY <1>t, <2>4 DEF NoIndexCollision, TakenIndexes, OnlyPoisonQuarantined, PoisonInv
    <2>7. AuditInv' /\ IdleInv'
      BY <1>1, <1>t, <2>4 DEF AuditInv, IdleInv, BeginBlock
    <2> QED
      BY <2>5, <2>6, <2>7 DEF IngestInv
  <1>2. CASE SkipQuarantinedTransaction
    <2>1. AtTransaction /\ NextTransaction /\ WriteParseError /\ held # None
          /\ QuarantineKey \in insertQuarantine
      BY <1>2 DEF SkipQuarantinedTransaction, AtTransaction
    <2>2. Kind(held, pos) = "poison"
      BY <1>t, <1>k, <2>1 DEF PoisonInv
    <2>3. UNCHANGED <<node, faults, tables>> /\ newRows' = newRows /\ idx' = idx /\ UNCHANGED ladder
      BY <1>2 DEF SkipQuarantinedTransaction
    <2>4. LadderInv'
      BY <1>l, <2>3 DEF LadderInv, PoisonInv, CountsType, ladder
    <2>5. rows' = rows
      BY <2>3 DEF tables
    <2> QED
      BY <1>n, <2>1, <2>2, <2>3, <2>4, <2>5, AdvancedInv
  <1>3. CASE ThrowQuarantined
    <2>1. AtTransaction /\ NextTransaction /\ WriteParseError /\ Kind(held, pos) = "throw"
      BY <1>3 DEF ThrowQuarantined, ParseThrows, ParsesNow
    <2>2. UNCHANGED <<node, faults, tables>> /\ newRows' = newRows /\ idx' = idx /\ UNCHANGED ladder
      BY <1>3 DEF ThrowQuarantined
    <2>3. LadderInv'
      BY <1>l, <2>2 DEF LadderInv, PoisonInv, CountsType, ladder
    <2> QED
      BY <1>n, <2>1, <2>2, <2>3, AdvancedInv
  <1>4. CASE ThrowRetried
    <2>1. RollBackBlock /\ held # None
      BY <1>4 DEF ThrowRetried, ParseThrows, ParsesNow, AtTransaction
    <2>2. CountsType(parseCounts')
      BY <1>4, <1>k, <1>l, <2>1, CountType DEF ThrowRetried, LadderInv
    <2>3. LadderInv'
      BY <1>4, <1>l, <2>2 DEF ThrowRetried, LadderInv, PoisonInv, CountsType
    <2>4. node' = node /\ faults' = faults
      BY <1>4 DEF ThrowRetried
    <2> QED
      BY <1>n, <2>1, <2>3, <2>4, RolledBackInv
  <1>5. CASE ThrowQuarantines
    <2>1. AtTransaction /\ NextTransaction /\ WriteParseError /\ Kind(held, pos) = "throw"
          /\ held # None
      BY <1>5 DEF ThrowQuarantines, ParseThrows, ParsesNow, AtTransaction
    <2>2. UNCHANGED <<node, faults, tables>> /\ newRows' = newRows /\ idx' = idx
      BY <1>5 DEF ThrowQuarantines
    <2>3. CountsType(parseCounts') /\ parseQuarantine' \subseteq Keys
      BY <1>5, <1>k, <1>l, <2>1, CountType DEF ThrowQuarantines, LadderInv
    <2>4. LadderInv'
      BY <1>5, <1>l, <2>3 DEF ThrowQuarantines, LadderInv, PoisonInv, CountsType
    <2> QED
      BY <1>n, <2>1, <2>2, <2>4, AdvancedInv
  <1>6. CASE IngestPlain
    <2>1. AtTransaction /\ NextTransaction /\ Kind(held, pos) = "plain" /\ newErrs' = newErrs
      BY <1>6 DEF IngestPlain, ParsesNow
    <2>2. UNCHANGED <<node, faults, tables>> /\ newRows' = newRows /\ idx' = idx /\ UNCHANGED ladder
      BY <1>6 DEF IngestPlain
    <2>3. LadderInv'
      BY <1>l, <2>2 DEF LadderInv, PoisonInv, CountsType, ladder
    <2> QED
      BY <1>n, <2>1, <2>2, <2>3, AdvancedInv
  <1>7. CASE IngestSkipped
    <2>1. AtTransaction /\ NextTransaction /\ Kind(held, pos) = "skip" /\ newErrs' = newErrs
      BY <1>7 DEF IngestSkipped, ParsesNow
    <2>2. UNCHANGED <<node, faults, tables>> /\ newRows' = newRows /\ idx' = idx + 1
          /\ UNCHANGED ladder
      BY <1>7 DEF IngestSkipped
    <2>3. LadderInv'
      BY <1>l, <2>2 DEF LadderInv, PoisonInv, CountsType, ladder
    <2>4. \A r \in rows \cup newRows : r.idx \in Nat
      BY <1>t DEF TypeOK, Rows
    <2>5. idx' \in Nat /\ \A r \in rows \cup newRows' : r.idx <= idx'
      BY <1>n, <2>2, <2>4
    <2> QED
      BY <1>n, <2>1, <2>2, <2>3, <2>5, AdvancedInv
  <1>8. CASE PersistTransaction
    <2>1. AtTransaction /\ Kind(held, pos) = "store" /\ held # None
      BY <1>8 DEF PersistTransaction, ParsesNow, AtTransaction
    <2>2. node' = node /\ faults' = faults /\ UNCHANGED ladder
      BY <1>8 DEF PersistTransaction
    <2>3. LadderInv'
      BY <1>l, <2>2 DEF LadderInv, PoisonInv, CountsType, ladder
    <2>4. CASE idx + 1 \in TakenIndexes
      BY <1>8, <1>n, <2>2, <2>3, <2>4, RolledBackInv DEF PersistTransaction
    <2>5. CASE idx + 1 \notin TakenIndexes
      <3>1. /\ idx' = idx + 1 /\ NextTransaction /\ UNCHANGED tables /\ newErrs' = newErrs
            /\ newRows' = newRows \cup {[idx |-> idx + 1, hash |-> held, pos |-> pos]}
        BY <1>8, <2>5 DEF PersistTransaction
      <3>2. idx' \in Nat /\ [idx |-> idx + 1, hash |-> held, pos |-> pos] \in Rows
        BY <1>k, <1>n, <2>1, <3>1 DEF Rows
      <3>3. \A r \in rows \cup newRows : r.idx \in Nat
        BY <1>t DEF TypeOK, Rows
      <3>4. newRows' \subseteq Rows /\ \A r \in rows \cup newRows' : r.idx <= idx'
        BY <1>n, <3>1, <3>2, <3>3
      <3> QED
        BY <2>1, <2>2, <2>3, <3>1, <3>2, <3>4, AdvancedInv
    <2> QED
      BY <2>4, <2>5
  <1>9. CASE InsertPoisonRow
    <2>1. RollBackBlock /\ held # None /\ Kind(held, pos) = "poison"
      BY <1>9 DEF InsertPoisonRow, ParsesNow, AtTransaction
    <2>2. CountsType(insertCounts')
      BY <1>9, <1>k, <1>l, <2>1, CountType DEF InsertPoisonRow, LadderInv
    <2>3. insertQuarantine' \subseteq insertQuarantine \cup {QuarantineKey}
      BY <1>9 DEF InsertPoisonRow
    <2>4. insertQuarantine' \subseteq Keys /\ PoisonInv'
      BY <1>k, <1>l, <2>1, <2>3 DEF LadderInv, PoisonInv
    <2>5. LadderInv'
      BY <1>9, <1>l, <2>2, <2>4 DEF InsertPoisonRow, LadderInv, CountsType
    <2>6. node' = node /\ faults' = faults
      BY <1>9 DEF InsertPoisonRow
    <2> QED
      BY <1>n, <2>1, <2>5, <2>6, RolledBackInv
  <1>10. CASE CommitBlock
    <2>1. BlockDone /\ WriteTables /\ UNCHANGED <<node, faults>> /\ idx' = idx
      BY <1>10 DEF CommitBlock
    <2>2. LadderInv'
      BY <1>10, NoCounts DEF CommitBlock, ClearQuarantineState, LadderInv, PoisonInv
    <2> QED
      BY <1>n, <2>1, <2>2, WrittenInv
  <1>11. CASE RollBackTop
    <2>1. rows' \subseteq rows /\ idx' = GetLastTxIndex(rows')
      BY <1>11 DEF RollBackTop
    <2>2. rows' \subseteq Rows /\ \A r \in rows' : r.idx <= idx
      BY <1>n, <1>t, <2>1 DEF TypeOK
    <2>3. idx' \in Nat \cup {-1} /\ \A r \in rows' : r.idx <= idx'
      BY <1>n, <2>1, <2>2, LastIndex
    <2>4. /\ held = None /\ held' = None /\ newRows' = newRows /\ newErrs' = newErrs
          /\ errs' = errs /\ pos' = pos /\ node' = node /\ faults' = faults
          /\ parseCounts' = parseCounts /\ parseQuarantine' = parseQuarantine
          /\ insertCounts' = insertCounts /\ insertQuarantine' = insertQuarantine
          /\ blocks' = SubSeq(blocks, 1, Len(blocks) - 1)
      BY <1>11 DEF RollBackTop, work, ladder
    <2>5. blocks \in Seq(Hashes) /\ Len(blocks) \in Nat /\ blocks # <<>>
      BY <1>11, <1>t, ChainAssumption, LenProperties, SubSeqEmpty, EmptySeq DEF TypeOK, RollBackTop, StoredIsPrefix
    <2>6. /\ blocks' \in Seq(Hashes) /\ Len(blocks') = Len(blocks) - 1
          /\ \A h \in 1..Len(blocks') : h \in 1..Len(blocks) /\ blocks'[h] = blocks[h]
      BY <2>4, <2>5, ButLast
    <2>7. TypeOK'
      BY <1>t, <2>2, <2>3, <2>4, <2>6 DEF TypeOK
    <2>8. NoIndexCollision' /\ IdleInv'
      BY <1>t, <2>3, <2>4 DEF NoIndexCollision, TakenIndexes, IdleInv
    <2>9. OnlyPoisonQuarantined' /\ PoisonInv'
      BY <1>t, <2>4 DEF OnlyPoisonQuarantined, PoisonInv
    <2>10. AuditInv'
      BY <1>t, <2>4, <2>6 DEF AuditInv
    <2> QED
      BY <2>7, <2>8, <2>9, <2>10 DEF IngestInv
  <1>12. CASE PollAtTip
    <2>1. UNCHANGED vars
      BY <1>12 DEF PollAtTip
    <2> QED
      BY <2>1, StutterInv
  <1> QED
    BY <1>1, <1>2, <1>3, <1>4, <1>5, <1>6, <1>7, <1>8, <1>9, <1>10, <1>11, <1>12 DEF LoopStep

\* The steps of the environment and the failures.
LEMMA FaultStepInv == IngestInv /\ FaultStep => IngestInv'
  <1> SUFFICES ASSUME IngestInv, FaultStep PROVE IngestInv'
    OBVIOUS
  <1>t. TypeOK /\ NoIndexCollision /\ OnlyPoisonQuarantined /\ PoisonInv /\ AuditInv
        /\ IdleInv
    BY DEF IngestInv
  <1>l. LadderInv
    BY LadderHolds
  <1>n. node \in Chains /\ faults \in BOOLEAN
    BY <1>t DEF TypeOK
  <1>u. UNCHANGED ladder => LadderInv'
    BY <1>l DEF LadderInv, PoisonInv, CountsType, ladder
  <1>r. ASSUME RollBackBlock, UNCHANGED <<node, faults, ladder>>
        PROVE  IngestInv'
    BY <1>n, <1>r, <1>u, RolledBackInv
  <1>1. CASE StoreBlockFault
    BY <1>1, <1>r DEF StoreBlockFault
  <1>2. CASE LookupFault
    BY <1>2, <1>r DEF LookupFault
  <1>3. CASE EventFault
    <2>1. RollBackBlock /\ UNCHANGED <<node, faults, parseQuarantine, insertCounts, insertQuarantine>>
      BY <1>3 DEF EventFault
    <2>2. \/ parseCounts' = parseCounts
          \/ held # None /\ parseCounts' = CountAttempt(parseCounts, QuarantineKey)
      BY <1>3 DEF EventFault, ParseThrows, ParsesNow, AtTransaction
    <2>3. CountsType(parseCounts')
      BY <1>l, <1>t, <2>2, KeyType, CountType DEF LadderInv
    <2>4. LadderInv'
      BY <1>l, <2>1, <2>3 DEF LadderInv, PoisonInv, CountsType
    <2> QED
      BY <1>n, <2>1, <2>4, RolledBackInv
  <1>4. CASE PersistFault
    BY <1>4, <1>r DEF PersistFault
  <1>5. CASE CommitFails
    BY <1>5, <1>r DEF CommitFails
  <1>6. CASE CommitUnacked
    <2>1. BlockDone /\ WriteTables /\ UNCHANGED <<node, faults>> /\ UNCHANGED ladder
          /\ idx' = GetLastTxIndex(rows')
      BY <1>6 DEF CommitUnacked
    <2>2. rows' = rows \cup newRows
      BY <2>1 DEF WriteTables
    <2>3. rows \cup newRows \subseteq Rows /\ idx \in Nat \cup {-1}
          /\ \A r \in rows \cup newRows : r.idx <= idx
      BY <1>t DEF TypeOK, NoIndexCollision, TakenIndexes
    <2>4. idx' \in Nat \cup {-1} /\ \A r \in rows \cup newRows : r.idx <= idx'
      BY <2>1, <2>2, <2>3, LastIndex
    <2> QED
      BY <1>u, <2>1, <2>4, WrittenInv
  <1>7. CASE Restart
    <2>1. RollBackBlock /\ ClearQuarantineState /\ node' = node /\ faults' = faults
      BY <1>7 DEF Restart
    <2>2. LadderInv'
      BY <2>1, NoCounts DEF ClearQuarantineState, LadderInv, PoisonInv
    <2> QED
      BY <1>n, <2>1, <2>2, RolledBackInv
  <1>8. CASE NodeMoves
    <2>1. node' \in Chains /\ faults' = faults /\ UNCHANGED <<tables, work, idx, ladder>>
      BY <1>8 DEF NodeMoves
    <2> QED
      BY <1>n, <2>1, OutsideInv
  <1>9. CASE FaultsEnd
    <2>1. node' = node /\ faults' = FALSE /\ UNCHANGED <<tables, work, idx, ladder>>
      BY <1>9 DEF FaultsEnd
    <2> QED
      BY <1>n, <2>1, OutsideInv
  <1> QED
    BY <1>1, <1>2, <1>3, <1>4, <1>5, <1>6, <1>7, <1>8, <1>9 DEF FaultStep

\* IngestInv holds in every state: no fault, retry, reorg or restart of the
\* ingest loop breaks it (ingestTransaction, storeBlock, resetAfterRollback).
THEOREM IngestInvariant == Spec => []IngestInv
  <1>1. IngestInv /\ [Next]_vars => IngestInv'
    BY LoopStepInv, FaultStepInv, StutterInv DEF Next
  <1> QED
    BY <1>1, InitInv, PTL DEF Spec

\* The tables, the open transaction, the counter and the retry state keep
\* their types whatever fails (storeBlock, handleParseFailure).
THEOREM TypeCorrect == Spec => []TypeOK
  <1>1. IngestInv => TypeOK
    BY DEF IngestInv
  <1> QED
    BY <1>1, IngestInvariant, PTL

\* No tx_index of the table or of the open block is above the counter, so the
\* next insert never meets a duplicate key (getLastTxIndex, resetAfterRollback).
THEOREM NoCollision == Spec => []NoIndexCollision
  <1>1. IngestInv => NoIndexCollision
    BY DEF IngestInv
  <1> QED
    BY <1>1, IngestInvariant, PTL

\* A PARSE_ERROR row is only ever written for a transaction that fails by
\* itself (handleParseFailure, insertTransactionRow).
THEOREM OnlyPoison == Spec => []OnlyPoisonQuarantined
  <1>1. IngestInv => OnlyPoisonQuarantined
    BY DEF IngestInv
  <1> QED
    BY <1>1, IngestInvariant, PTL

\* Every transaction of a stored block that fails by itself has its audit row
\* (skipQuarantinedTransaction, insertParseErrorEvent).
THEOREM Audited == Spec => []QuarantineAudited
  <1>1. IngestInv => QuarantineAudited
    BY DEF IngestInv, AuditInv, QuarantineAudited, ChainPlaces
  <1> QED
    BY <1>1, IngestInvariant, PTL

-----------------------------------------------------------------------------
(* The transactions table against the chain.  RowsInv is inductive relative  *)
(* to IngestInv: the open block's rows must already be right at the commit.  *)

\* A block of the table, and the one in hand, is at its height on some chain.
OnChain(b, h) == \E c \in Chains : h \in DOMAIN c /\ c[h] = b
HeightInv ==
    /\ \A h \in 1..Len(blocks) : OnChain(blocks[h], h)
    /\ held # None => OnChain(held, NextHeight)

\* Row r records the storable transaction at position p of block b.
Records(r, b, p) == r.hash = b /\ r.pos = p
Storable(b, p) == p \in 1..LastPos(b) /\ Kind(b, p) = "store"

\* The stored rows: one for each storable transaction of a stored block, in chain order.
StoredRowsInv ==
    /\ \A r \in rows : (\E h \in 1..Len(blocks) : blocks[h] = r.hash) /\ Storable(r.hash, r.pos)
    /\ \A h \in 1..Len(blocks) : \A p \in 1..LastPos(blocks[h]) :
          Kind(blocks[h], p) = "store" => \E r \in rows : Records(r, blocks[h], p)
    /\ \A r, s \in rows : r.hash = s.hash /\ r.pos = s.pos => r = s
    /\ \A r, s \in rows : \A h, g \in 1..Len(blocks) :
          blocks[h] = r.hash /\ blocks[g] = s.hash /\ Precedes(<<h, r.pos>>, <<g, s.pos>>)
             => r.idx < s.idx

\* The rows of the open transaction: the same for what it has passed of its block.
NewRowsInv ==
    held # None =>
       /\ \A r \in newRows : r.hash = held /\ r.pos < pos /\ Storable(held, r.pos)
       /\ \A p \in 1..(pos - 1) : Kind(held, p) = "store" => \E r \in newRows : Records(r, held, p)
       /\ \A r, s \in newRows : r.pos = s.pos => r = s
       /\ \A r, s \in newRows : r.pos < s.pos => r.idx < s.idx
       /\ \A r \in rows, s \in newRows : r.idx < s.idx

RowsInv == HeightInv /\ StoredRowsInv /\ NewRowsInv

\* A stored block is stored once, and the block in hand is not yet stored.
LEMMA OneHeight ==
  ASSUME TypeOK, HeightInv
  PROVE  /\ \A h, g \in 1..Len(blocks) : blocks[h] = blocks[g] => h = g
         /\ held # None => \A h \in 1..Len(blocks) : blocks[h] # held
  <1>1. Len(blocks) \in Nat
    BY LenProperties DEF TypeOK
  <1>2. \A b, h, g : OnChain(b, h) /\ OnChain(b, g) => h = g
    BY HashAssumption DEF OnChain
  <1> QED
    BY <1>1, <1>2 DEF HeightInv, NextHeight

\* What the invariant says of one row.
LEMMA RowTypes ==
  ASSUME IngestInv
  PROVE  /\ idx \in Nat \cup {-1} /\ \A r \in rows \cup newRows : r.idx \in Nat /\ r.idx <= idx
         /\ \A r \in rows \cup newRows : r.pos \in Nat /\ r.hash \in Hashes
  <1>1. idx \in Nat \cup {-1} /\ rows \cup newRows \subseteq Rows
    BY DEF IngestInv, TypeOK
  <1>2. \A r \in rows \cup newRows : r.idx \in Nat /\ r.pos \in Nat /\ r.hash \in Hashes
    BY <1>1 DEF Rows
  <1>3. \A r \in rows \cup newRows : r.idx <= idx
    BY DEF IngestInv, NoIndexCollision, TakenIndexes
  <1> QED
    BY <1>1, <1>2, <1>3

\* After a rollback of the open block, or with nothing done, the stored rows are as they were.
LEMMA RolledBackRows ==
  ASSUME RowsInv, UNCHANGED <<blocks, rows>>, held' = None
  PROVE  RowsInv'
  <1>1. HeightInv'
    BY DEF RowsInv, HeightInv
  <1>2. StoredRowsInv'
    BY DEF RowsInv, StoredRowsInv
  <1>3. NewRowsInv'
    BY DEF NewRowsInv
  <1> QED
    BY <1>1, <1>2, <1>3 DEF RowsInv

\* Moving past a transaction: a storable one has left its row, under the highest index.
LEMMA AdvancedRows ==
  ASSUME IngestInv, RowsInv, AtTransaction, NextTransaction, UNCHANGED <<blocks, rows>>,
         \/ Kind(held, pos) # "store" /\ newRows' = newRows
         \/ /\ Kind(held, pos) = "store"
            /\ newRows' = newRows \cup {[idx |-> idx + 1, hash |-> held, pos |-> pos]}
  PROVE  RowsInv'
  <1>1. /\ held \in Hashes /\ held # None /\ LastPos(held) \in Nat
        /\ pos \in 1..LastPos(held) /\ pos' = pos + 1 /\ held' = held
    BY BlockLength DEF IngestInv, TypeOK, AtTransaction, NextTransaction
  <1>2. /\ idx \in Nat \cup {-1} /\ \A r \in rows \cup newRows : r.idx \in Nat /\ r.idx <= idx
        /\ \A r \in newRows : r.pos \in Nat
    BY RowTypes
  <1>3. HeightInv'
    BY <1>1 DEF RowsInv, HeightInv, NextHeight
  <1>4. StoredRowsInv'
    <2>1. blocks' = blocks /\ rows' = rows /\ StoredRowsInv
      BY DEF RowsInv
    <2> QED
      BY <2>1 DEF StoredRowsInv
  <1>5. NewRowsInv
    BY DEF RowsInv
  <1>6. NewRowsInv'
    <2>1. CASE Kind(held, pos) # "store" /\ newRows' = newRows
      <3>1. \A p \in 1..(pos' - 1) : p = pos \/ p \in 1..(pos - 1)
        BY <1>1
      <3> QED
        BY <1>1, <1>2, <1>5, <2>1, <3>1 DEF NewRowsInv, Storable
    <2>2. CASE /\ Kind(held, pos) = "store"
               /\ newRows' = newRows \cup {[idx |-> idx + 1, hash |-> held, pos |-> pos]}
      <3> DEFINE n == [idx |-> idx + 1, hash |-> held, pos |-> pos]
      <3>1. n.idx = idx + 1 /\ n.hash = held /\ n.pos = pos /\ newRows' = newRows \cup {n}
        BY <2>2
      <3> HIDE DEF n
      <3>2. \A p \in 1..(pos' - 1) : p = pos \/ p \in 1..(pos - 1)
        BY <1>1
      <3>3. \A r \in newRows' : r.hash = held /\ r.pos < pos' /\ Storable(held, r.pos)
        BY <1>1, <1>2, <1>5, <2>2, <3>1 DEF NewRowsInv, Storable
      <3>4. \A p \in 1..(pos' - 1) : Kind(held, p) = "store" => \E r \in newRows' : Records(r, held, p)
        BY <1>1, <1>5, <3>1, <3>2 DEF NewRowsInv, Records
      <3>5. \A r \in newRows : r.pos < pos /\ r.pos # pos
        BY <1>1, <1>2, <1>5 DEF NewRowsInv
      <3>6. \A r, s \in newRows' : r.pos = s.pos => r = s
        BY <1>1, <1>5, <3>1, <3>5 DEF NewRowsInv
      <3>7. \A r \in rows \cup newRows : r.idx < idx + 1
        BY <1>2
      <3>8. \A r, s \in newRows' : r.pos < s.pos => r.idx < s.idx
        <4>1. \A r \in newRows : ~(n.pos < r.pos)
          BY <1>1, <1>2, <3>1, <3>5
        <4> QED
          BY <1>1, <1>5, <3>1, <3>7, <4>1 DEF NewRowsInv
      <3>9. \A r \in rows, s \in newRows' : r.idx < s.idx
        BY <1>1, <1>5, <3>1, <3>7 DEF NewRowsInv
      <3> QED
        BY <1>1, <3>3, <3>4, <3>6, <3>8, <3>9 DEF NewRowsInv
    <2> QED
      BY <2>1, <2>2
  <1> QED
    BY <1>3, <1>4, <1>6 DEF RowsInv

\* Committing the finished block: its rows join the table above all others.
LEMMA WrittenRows ==
  ASSUME IngestInv, RowsInv, BlockDone, WriteTables
  PROVE  RowsInv'
  <1>1. /\ held \in Hashes /\ held # None /\ LastPos(held) \in Nat
        /\ pos = LastPos(held) + 1
    BY BlockLength DEF IngestInv, TypeOK, BlockDone
  <1>2. rows' = rows \cup newRows /\ held' = None /\ blocks' = Append(blocks, held)
    BY DEF WriteTables, CloseTransaction
  <1>3. /\ Len(blocks) \in Nat /\ Len(blocks') = Len(blocks) + 1
        /\ blocks'[Len(blocks) + 1] = held
        /\ \A h \in 1..Len(blocks) : blocks'[h] = blocks[h]
    BY <1>1, <1>2, AppendProperties, LenProperties DEF IngestInv, TypeOK
  <1>4. \A h \in 1..Len(blocks') : h = Len(blocks) + 1 \/ h \in 1..Len(blocks)
    BY <1>3
  <1>5. HeightInv /\ StoredRowsInv /\ NewRowsInv
    BY DEF RowsInv
  <1>6. HeightInv'
    BY <1>1, <1>2, <1>3, <1>4, <1>5 DEF HeightInv, NextHeight
  <1>7. NewRowsInv'
    BY <1>2 DEF NewRowsInv
  <1>8. \A h \in 1..Len(blocks) : blocks[h] # held
    BY <1>1, <1>5, OneHeight DEF IngestInv
  <1>9. \A r \in rows : r.hash # held
    BY <1>5, <1>8 DEF StoredRowsInv
  <1>10. \A r \in newRows : r.hash = held /\ Storable(held, r.pos)
    BY <1>1, <1>5 DEF NewRowsInv
  <1>11. Len(blocks) + 1 \in 1..Len(blocks') /\ \A h \in 1..Len(blocks) : h \in 1..Len(blocks')
    BY <1>3
  <1>12. \A r \in rows' : (\E h \in 1..Len(blocks') : blocks'[h] = r.hash) /\ Storable(r.hash, r.pos)
    BY <1>2, <1>3, <1>5, <1>10, <1>11 DEF StoredRowsInv
  <1>13. ASSUME NEW h \in 1..Len(blocks'), NEW p \in 1..LastPos(blocks'[h]), Kind(blocks'[h], p) = "store"
         PROVE  \E r \in rows' : Records(r, blocks'[h], p)
    <2>1. CASE h = Len(blocks) + 1
      <3>1. blocks'[h] = held /\ p \in 1..(pos - 1)
        BY <1>1, <1>3, <1>13, <2>1
      <3>2. \E r \in newRows : Records(r, held, p)
        BY <1>1, <1>5, <1>13, <3>1 DEF NewRowsInv
      <3> QED
        BY <1>2, <3>1, <3>2
    <2>2. CASE h \in 1..Len(blocks)
      BY <1>2, <1>3, <1>5, <1>13, <2>2 DEF StoredRowsInv
    <2> QED
      BY <1>4, <2>1, <2>2
  <1>14. \A r, s \in rows' : r.hash = s.hash /\ r.pos = s.pos => r = s
    BY <1>1, <1>2, <1>5, <1>9, <1>10 DEF StoredRowsInv, NewRowsInv
  <1>15. ASSUME NEW r \in rows', NEW s \in rows', NEW h \in 1..Len(blocks'), NEW g \in 1..Len(blocks'),
                blocks'[h] = r.hash, blocks'[g] = s.hash, Precedes(<<h, r.pos>>, <<g, s.pos>>)
         PROVE  r.idx < s.idx
    <2>1. h \in Int /\ g \in Int /\ (h < g \/ (h = g /\ r.pos < s.pos))
      BY <1>15, <1>3 DEF Precedes
    <2>2. \A q \in rows : \A k \in 1..Len(blocks') : blocks'[k] = q.hash => k \in 1..Len(blocks) /\ blocks[k] = q.hash
      BY <1>3, <1>4, <1>9
    <2>3. \A q \in newRows : \A k \in 1..Len(blocks') : blocks'[k] = q.hash => k = Len(blocks) + 1
      BY <1>3, <1>4, <1>8, <1>10
    <2>4. CASE r \in rows /\ s \in rows
      BY <1>5, <1>15, <2>2, <2>4 DEF StoredRowsInv
    <2>5. CASE r \in rows /\ s \in newRows
      BY <1>1, <1>5, <2>5 DEF NewRowsInv
    <2>6. CASE r \in newRows /\ s \in rows
      <3>1. h = Len(blocks) + 1 /\ g \in 1..Len(blocks)
        BY <1>15, <2>2, <2>3, <2>6
      <3> QED
        BY <1>3, <2>1, <3>1
    <2>7. CASE r \in newRows /\ s \in newRows
      <3>1. h = g
        BY <1>15, <2>3, <2>7
      <3>2. r.pos < s.pos
        BY <2>1, <3>1
      <3> QED
        BY <1>1, <1>5, <2>7, <3>2 DEF NewRowsInv
    <2> QED
      BY <1>2, <2>4, <2>5, <2>6, <2>7
  <1>16. StoredRowsInv'
    BY <1>12, <1>13, <1>14, <1>15 DEF StoredRowsInv
  <1> QED
    BY <1>6, <1>7, <1>16 DEF RowsInv

\* Deleting the top block takes its rows and no others.
LEMMA DeletedRows ==
  ASSUME IngestInv, RowsInv, RollBackTop
  PROVE  RowsInv'
  <1>1. held' = None /\ blocks' = SubSeq(blocks, 1, Len(blocks) - 1)
    BY DEF RollBackTop, work
  <1>2. blocks \in Seq(Hashes) /\ Len(blocks) \in Nat /\ blocks # <<>>
    BY ChainAssumption, LenProperties, SubSeqEmpty, EmptySeq
       DEF IngestInv, TypeOK, RollBackTop, StoredIsPrefix
  <1>3. /\ Len(blocks') = Len(blocks) - 1
        /\ \A h \in 1..Len(blocks') : h \in 1..Len(blocks) /\ blocks'[h] = blocks[h]
    BY <1>1, <1>2, ButLast
  <1> DEFINE top == blocks[Len(blocks)]
  <1>4. rows' = {r \in rows : r.hash # top}
    BY DEF RollBackTop
  <1>5. Len(blocks) \in 1..Len(blocks)
    BY <1>2, EmptySeq, LenProperties
  <1>6. \A h \in 1..Len(blocks) : h = Len(blocks) \/ h \in 1..Len(blocks')
    BY <1>2, <1>3
  <1>7. \A h \in 1..Len(blocks') : blocks[h] # top
    <2>1. \A h \in 1..Len(blocks') : h # Len(blocks)
      BY <1>2, <1>3
    <2> QED
      BY <1>3, <1>5, <2>1, OneHeight DEF RowsInv, IngestInv
  <1> HIDE DEF top
  <1>8. HeightInv /\ StoredRowsInv
    BY DEF RowsInv
  <1>9. HeightInv'
    BY <1>1, <1>3, <1>8 DEF HeightInv
  <1>10. NewRowsInv'
    BY <1>1 DEF NewRowsInv
  <1>11. \A r \in rows' : r \in rows /\ r.hash # top
    BY <1>4
  <1>12. \A r \in rows' : (\E h \in 1..Len(blocks') : blocks'[h] = r.hash) /\ Storable(r.hash, r.pos)
    BY <1>3, <1>6, <1>8, <1>11 DEF StoredRowsInv, top
  <1>13. ASSUME NEW h \in 1..Len(blocks'), NEW p \in 1..LastPos(blocks'[h]), Kind(blocks'[h], p) = "store"
         PROVE  \E r \in rows' : Records(r, blocks'[h], p)
    <2>1. PICK r \in rows : Records(r, blocks[h], p)
      BY <1>3, <1>8, <1>13 DEF StoredRowsInv
    <2>2. r \in rows'
      BY <1>4, <1>7, <2>1 DEF Records
    <2> QED
      BY <1>3, <2>1, <2>2
  <1>14. \A r, s \in rows' : r.hash = s.hash /\ r.pos = s.pos => r = s
    BY <1>8, <1>11 DEF StoredRowsInv
  <1>15. \A r, s \in rows' : \A h, g \in 1..Len(blocks') :
            blocks'[h] = r.hash /\ blocks'[g] = s.hash /\ Precedes(<<h, r.pos>>, <<g, s.pos>>)
               => r.idx < s.idx
    BY <1>3, <1>8, <1>11 DEF StoredRowsInv
  <1>16. StoredRowsInv'
    BY <1>12, <1>13, <1>14, <1>15 DEF StoredRowsInv
  <1> QED
    BY <1>9, <1>10, <1>16 DEF RowsInv

\* Every step keeps the rows in line with the chain.
LEMMA RowsStep ==
  ASSUME IngestInv, RowsInv, [Next]_vars
  PROVE  RowsInv'
  <1>r. ASSUME RollBackBlock PROVE RowsInv'
    BY <1>r, RolledBackRows DEF RollBackBlock, CloseTransaction, tables
  <1>a. ASSUME AtTransaction, NextTransaction, UNCHANGED <<tables, newRows>>,
               Kind(held, pos) # "store"
        PROVE  RowsInv'
    BY <1>a, AdvancedRows DEF tables
  <1>o. ASSUME UNCHANGED <<tables, work>> PROVE RowsInv'
    <2>1. /\ blocks' = blocks /\ rows' = rows /\ held' = held /\ pos' = pos /\ newRows' = newRows
      BY <1>o DEF tables, work
    <2>2. HeightInv'
      BY <2>1 DEF RowsInv, HeightInv, NextHeight
    <2>3. StoredRowsInv'
      BY <2>1 DEF RowsInv, StoredRowsInv
    <2>4. NewRowsInv'
      BY <2>1 DEF RowsInv, NewRowsInv
    <2> QED
      BY <2>2, <2>3, <2>4 DEF RowsInv
  <1>1. CASE BeginBlock
    <2>1. /\ blocks' = blocks /\ rows' = rows /\ held' = node[NextHeight] /\ pos' = 1
          /\ newRows' = {} /\ NextHeight' = NextHeight
      BY <1>1 DEF BeginBlock, tables, IngestInv, IdleInv, NextHeight
    <2>2. node \in Chains /\ node \in Seq(Hashes) /\ Len(node) \in Nat /\ Len(blocks) \in Nat
      BY ChainAssumption, LenProperties DEF IngestInv, TypeOK
    <2>3. NextHeight \in DOMAIN node
      BY <1>1, <2>2, LenProperties DEF BeginBlock, NextHeight
    <2>4. OnChain(node[NextHeight], NextHeight)
      BY <2>2, <2>3 DEF OnChain
    <2>5. HeightInv'
      BY <2>1, <2>4 DEF RowsInv, HeightInv
    <2>6. StoredRowsInv'
      <3>1. StoredRowsInv
        BY DEF RowsInv
      <3>2. blocks' = blocks /\ rows' = rows
        BY <2>1
      <3> QED
        BY <3>1, <3>2 DEF StoredRowsInv
    <2>7. NewRowsInv'
      BY <2>1 DEF NewRowsInv
    <2> QED
      BY <2>5, <2>6, <2>7 DEF RowsInv
  <1>2. CASE SkipQuarantinedTransaction
    <2>1. AtTransaction /\ NextTransaction /\ UNCHANGED <<tables, newRows>>
          /\ held # None /\ QuarantineKey \in insertQuarantine
      BY <1>2 DEF SkipQuarantinedTransaction, AtTransaction
    <2>2. Kind(held, pos) = "poison"
      BY <2>1, KeyType DEF IngestInv, PoisonInv
    <2> QED
      BY <1>a, <2>1, <2>2
  <1>3. CASE ThrowQuarantined
    BY <1>3, <1>a DEF ThrowQuarantined, ParseThrows, ParsesNow
  <1>4. CASE ThrowRetried
    BY <1>4, <1>r DEF ThrowRetried
  <1>5. CASE ThrowQuarantines
    BY <1>5, <1>a DEF ThrowQuarantines, ParseThrows, ParsesNow
  <1>6. CASE IngestPlain
    BY <1>6, <1>a DEF IngestPlain, ParsesNow
  <1>7. CASE IngestSkipped
    BY <1>7, <1>a DEF IngestSkipped, ParsesNow
  <1>8. CASE PersistTransaction
    <2>1. CASE idx + 1 \in TakenIndexes
      BY <1>8, <1>r, <2>1 DEF PersistTransaction
    <2>2. CASE idx + 1 \notin TakenIndexes
      BY <1>8, <2>2, AdvancedRows DEF PersistTransaction, ParsesNow, tables
    <2> QED
      BY <2>1, <2>2
  <1>9. CASE InsertPoisonRow
    BY <1>9, <1>r DEF InsertPoisonRow
  <1>10. CASE CommitBlock
    BY <1>10, WrittenRows DEF CommitBlock
  <1>11. CASE RollBackTop
    BY <1>11, DeletedRows
  <1>12. CASE PollAtTip \/ UNCHANGED vars
    BY <1>12, <1>o DEF PollAtTip, vars
  <1>13. CASE FaultStep
    <2>1. \/ RollBackBlock \/ UNCHANGED <<tables, work>> \/ (BlockDone /\ WriteTables)
      BY <1>13 DEF FaultStep, StoreBlockFault, LookupFault, EventFault, PersistFault, CommitFails,
                   CommitUnacked, Restart, NodeMoves, FaultsEnd
    <2> QED
      BY <1>r, <1>o, <2>1, WrittenRows
  <1> QED
    BY <1>1, <1>2, <1>3, <1>4, <1>5, <1>6, <1>7, <1>8, <1>9, <1>10, <1>11, <1>12, <1>13
       DEF Next, LoopStep

\* The property from the invariant.
LEMMA RowsFollow ==
  ASSUME IngestInv, RowsInv
  PROVE  RowsMatchChain
  <1>1. Len(blocks) \in Nat /\ \A h \in 1..Len(blocks) : LastPos(blocks[h]) \in Nat
    BY BlockLength, LenProperties, ElementOfSeq DEF IngestInv, TypeOK
  <1>2. \A r \in rows : \E h \in 1..Len(blocks) : blocks[h] = r.hash
    BY DEF RowsInv, StoredRowsInv
  <1>3. \A r \in rows : r.idx \in Nat /\ r.pos \in Nat
    BY RowTypes
  <1>4. ASSUME NEW r \in rows, NEW h \in 1..Len(blocks), blocks[h] = r.hash
        PROVE  PlaceOf(r) = <<h, r.pos>>
    <2> DEFINE c == CHOOSE k \in 1..Len(blocks) : blocks[k] = r.hash
    <2>1. c \in 1..Len(blocks) /\ blocks[c] = r.hash
      BY <1>4
    <2> HIDE DEF c
    <2>2. c = h
      BY <1>4, <2>1, OneHeight DEF RowsInv, IngestInv
    <2> QED
      BY <2>2 DEF PlaceOf, c
  <1>5. ASSUME NEW r \in rows
        PROVE  PlaceOf(r) \in ChainPlaces({"store"})
    <2>1. PICK h \in 1..Len(blocks) : blocks[h] = r.hash
      BY <1>2
    <2>2. r.pos \in 1..LastPos(blocks[h]) /\ Kind(blocks[h], r.pos) = "store"
      BY <2>1 DEF RowsInv, StoredRowsInv, Storable
    <2> QED
      BY <1>4, <2>1, <2>2 DEF ChainPlaces
  <1>6. ASSUME NEW x \in ChainPlaces({"store"})
        PROVE  \E r \in rows : x = PlaceOf(r)
    <2>1. PICK h \in 1..Len(blocks) : \E p \in 1..LastPos(blocks[h]) : x = <<h, p>> /\ Kind(blocks[h], p) = "store"
      BY <1>6 DEF ChainPlaces
    <2>2. PICK p \in 1..LastPos(blocks[h]) : x = <<h, p>> /\ Kind(blocks[h], p) = "store"
      BY <2>1
    <2>3. PICK r \in rows : Records(r, blocks[h], p)
      BY <2>2 DEF RowsInv, StoredRowsInv
    <2> QED
      BY <1>4, <2>2, <2>3 DEF Records
  <1>7. ASSUME NEW r \in rows, NEW s \in rows
        PROVE  Precedes(PlaceOf(r), PlaceOf(s)) <=> r.idx < s.idx
    <2>1. PICK h \in 1..Len(blocks) : blocks[h] = r.hash
      BY <1>2
    <2>2. PICK g \in 1..Len(blocks) : blocks[g] = s.hash
      BY <1>2
    <2>3. PlaceOf(r) = <<h, r.pos>> /\ PlaceOf(s) = <<g, s.pos>>
      BY <1>4, <2>1, <2>2
    <2>4. Precedes(<<h, r.pos>>, <<g, s.pos>>) => r.idx < s.idx
      BY <2>1, <2>2 DEF RowsInv, StoredRowsInv
    <2>5. Precedes(<<g, s.pos>>, <<h, r.pos>>) => s.idx < r.idx
      BY <2>1, <2>2 DEF RowsInv, StoredRowsInv
    <2>6. \/ Precedes(<<h, r.pos>>, <<g, s.pos>>) \/ Precedes(<<g, s.pos>>, <<h, r.pos>>)
          \/ (h = g /\ r.pos = s.pos)
      BY <1>1, <1>3 DEF Precedes
    <2>7. h = g /\ r.pos = s.pos => r = s
      BY <2>1, <2>2 DEF RowsInv, StoredRowsInv
    <2>8. r.idx \in Nat /\ s.idx \in Nat
      BY <1>3
    <2> QED
      BY <2>3, <2>4, <2>5, <2>6, <2>7, <2>8
  <1> QED
    BY <1>2, <1>5, <1>6, <1>7 DEF RowsMatchChain

\* RowsInv holds in every state.
LEMMA RowsInvariant == Spec => [](IngestInv /\ RowsInv)
  <1>1. Init => RowsInv
    BY DEF Init, RowsInv, HeightInv, StoredRowsInv, NewRowsInv
  <1>2. IngestInv /\ RowsInv /\ [Next]_vars => RowsInv'
    BY RowsStep
  <1> QED
    BY <1>1, <1>2, IngestInvariant, PTL DEF Spec

\* The transactions table is the stored chain's storable transactions, one row
\* each and in chain order, through every fault, reorg and restart.
THEOREM RowsMatch == Spec => []RowsMatchChain
  BY RowsInvariant, RowsFollow, PTL

-----------------------------------------------------------------------------
(* The same tx_index on every instance.                                      *)

\* A tx_index is consumed by what is stored and by what the storage gate skips.
Consumes(b, p) == Kind(b, p) \in {"store", "skip"}

\* The consuming places of the first n stored blocks, those of them before
\* place <<h, p>>, and those of the block in hand before position p.
PlacesTo(n) ==
    {x \in (1..n) \X Nat : x[2] \in 1..LastPos(blocks[x[1]]) /\ Consumes(blocks[x[1]], x[2])}
PlacesBefore(h, p) == {x \in PlacesTo(h) : x[1] < h \/ x[2] < p}
HeldPlaces(p) ==
    {x \in {NextHeight} \X Nat : x[2] \in 1..(p - 1) /\ Consumes(held, x[2])}
Passed == PlacesTo(Len(blocks)) \cup (IF held = None THEN {} ELSE HeldPlaces(pos))
RowsTo(n) == {r \in rows : \E h \in 1..n : blocks[h] = r.hash}

\* In no block is the last consumed tx_index that of a skipped transaction.
NoTrailingSkips ==
    \A b \in Hashes : \A p \in 1..LastPos(b) :
        Kind(b, p) = "skip" => \E q \in (p + 1)..LastPos(b) : Kind(b, q) = "store"

\* The position in hand is past a skip that no stored transaction has followed.
SkipPending ==
    \E p \in 1..(pos - 1) : /\ Kind(held, p) = "skip"
                            /\ \A q \in (p + 1)..(pos - 1) : Kind(held, q) # "store"

\* The counter counts the places passed, at every height the loop may be thrown
\* back to as well, and a row has the count of the places before it.
CounterInv ==
    /\ IsFiniteSet(Passed) /\ Cardinality(Passed) = idx + 1
    /\ held # None => idx = GetLastTxIndex(rows \cup newRows) \/ SkipPending
PrefixInv ==
    \A n \in 0..Len(blocks) : /\ IsFiniteSet(PlacesTo(n))
                              /\ Cardinality(PlacesTo(n)) = GetLastTxIndex(RowsTo(n)) + 1
CountedInv ==
    /\ \A r \in rows : \A h \in 1..Len(blocks) :
          blocks[h] = r.hash => r.idx = Cardinality(PlacesBefore(h, r.pos))
    /\ held # None => \A r \in newRows :
          r.idx = Cardinality(PlacesTo(Len(blocks)) \cup HeldPlaces(r.pos))
ParityInv == CounterInv /\ PrefixInv /\ CountedInv

-----------------------------------------------------------------------------

\* getLastTxIndex reads the index of the row that bounds the others.
LEMMA LargestRow ==
  ASSUME NEW R, R \subseteq Rows, NEW n \in R, \A r \in R : r.idx <= n.idx
  PROVE  GetLastTxIndex(R) = n.idx
  <1>1. \A r \in R : r.idx \in Nat
    BY DEF Rows
  <1> DEFINE I == {r.idx : r \in R}
             m == CHOOSE i \in I : \A r \in R : r.idx <= i
  <1>2. n.idx \in I
    OBVIOUS
  <1>3. m \in I /\ \A r \in R : r.idx <= m
    BY <1>2
  <1>4. m <= n.idx /\ n.idx <= m /\ m \in Nat
    BY <1>1, <1>3
  <1>5. GetLastTxIndex(R) = m
    BY DEF GetLastTxIndex
  <1> HIDE DEF m
  <1> QED
    BY <1>1, <1>4, <1>5

\* The rows of all the stored blocks are all the rows.
LEMMA AllRows == ASSUME RowsInv PROVE RowsTo(Len(blocks)) = rows
  BY DEF RowsInv, StoredRowsInv, RowsTo

\* Places of lower blocks depend on those blocks alone.
LEMMA SamePlaces ==
  ASSUME NEW n \in Nat, \A h \in 1..n : blocks'[h] = blocks[h]
  PROVE  /\ PlacesTo(n)' = PlacesTo(n)
         /\ \A h \in 1..n : \A p : PlacesBefore(h, p)' = PlacesBefore(h, p)
  <1>1. ASSUME NEW k \in Nat, k <= n
        PROVE  PlacesTo(k)' = PlacesTo(k)
    <2>1. \A x \in (1..k) \X Nat : x[1] \in 1..n /\ blocks'[x[1]] = blocks[x[1]]
      BY <1>1
    <2> QED
      BY <2>1 DEF PlacesTo
  <1> QED
    BY <1>1 DEF PlacesBefore

\* A step that rolls the open block back, or does nothing, keeps the counts.
LEMMA RolledBackCount ==
  ASSUME IngestInv, RowsInv, ParityInv, UNCHANGED <<blocks, rows>>, held' = None,
         idx' = GetLastTxIndex(rows)
  PROVE  ParityInv'
  <1>1. blocks' = blocks /\ rows' = rows /\ Len(blocks) \in Nat /\ Len(blocks) \in 0..Len(blocks)
    BY LenProperties DEF IngestInv, TypeOK
  <1>2. \A n : PlacesTo(n)' = PlacesTo(n) /\ RowsTo(n)' = RowsTo(n)
    BY <1>1 DEF PlacesTo, RowsTo
  <1>3. PrefixInv'
    BY <1>1, <1>2 DEF ParityInv, PrefixInv
  <1>4. Passed' = PlacesTo(Len(blocks))
    BY <1>1, <1>2 DEF Passed
  <1>5. CounterInv'
    BY <1>1, <1>4, AllRows DEF ParityInv, PrefixInv, CounterInv
  <1>6. CountedInv'
    BY <1>1, <1>2 DEF ParityInv, CountedInv, PlacesBefore
  <1> QED
    BY <1>3, <1>5, <1>6 DEF ParityInv

\* Moving past a transaction counts it if it consumes an index.
LEMMA AdvancedCount ==
  ASSUME IngestInv, RowsInv, ParityInv, AtTransaction, NextTransaction, UNCHANGED <<blocks, rows>>,
         \/ ~Consumes(held, pos) /\ newRows' = newRows /\ idx' = idx
         \/ Kind(held, pos) = "skip" /\ newRows' = newRows /\ idx' = idx + 1
         \/ /\ Kind(held, pos) = "store" /\ idx' = idx + 1
            /\ newRows' = newRows \cup {[idx |-> idx + 1, hash |-> held, pos |-> pos]}
  PROVE  ParityInv'
  <1>1. /\ held \in Hashes /\ held # None /\ LastPos(held) \in Nat
        /\ pos \in 1..LastPos(held) /\ pos' = pos + 1 /\ held' = held
        /\ blocks' = blocks /\ rows' = rows /\ Len(blocks) \in Nat
    BY BlockLength, LenProperties DEF IngestInv, TypeOK, AtTransaction, NextTransaction
  <1>2. /\ idx \in Nat \cup {-1} /\ \A r \in rows \cup newRows : r.idx \in Nat /\ r.idx <= idx
        /\ \A r \in newRows : r.pos \in Nat
    BY RowTypes
  <1>3. /\ \A n : PlacesTo(n)' = PlacesTo(n) /\ RowsTo(n)' = RowsTo(n)
        /\ \A p : HeldPlaces(p)' = HeldPlaces(p)
        /\ NextHeight' = NextHeight
    BY <1>1 DEF PlacesTo, RowsTo, HeldPlaces, NextHeight
  <1>4. PrefixInv'
    BY <1>1, <1>3 DEF ParityInv, PrefixInv
  <1> DEFINE x == <<NextHeight, pos>>
  <1>5. /\ Consumes(held, pos) => HeldPlaces(pos + 1) = HeldPlaces(pos) \cup {x}
        /\ ~Consumes(held, pos) => HeldPlaces(pos + 1) = HeldPlaces(pos)
    <2>1. \A q \in Nat : q \in 1..(pos + 1 - 1) <=> q \in 1..(pos - 1) \/ q = pos
      BY <1>1
    <2> QED
      BY <1>1, <2>1 DEF HeldPlaces
  <1>6. x \notin Passed
    <2>1. x \notin HeldPlaces(pos)
      BY <1>1 DEF HeldPlaces
    <2>2. x \notin PlacesTo(Len(blocks))
      BY <1>1 DEF PlacesTo, NextHeight
    <2> QED
      BY <1>1, <2>1, <2>2 DEF Passed
  <1>7. Passed = PlacesTo(Len(blocks)) \cup HeldPlaces(pos)
        /\ Passed' = PlacesTo(Len(blocks)) \cup HeldPlaces(pos + 1)
    BY <1>1, <1>3 DEF Passed
  <1>8. IsFiniteSet(Passed) /\ Cardinality(Passed) = idx + 1
        /\ (idx = GetLastTxIndex(rows \cup newRows) \/ SkipPending)
    BY <1>1 DEF ParityInv, CounterInv
  <1>9. IsFiniteSet(Passed \cup {x}) /\ Cardinality(Passed \cup {x}) = Cardinality(Passed) + 1
    BY <1>6, <1>8, FS_AddElement
  <1>10. /\ \A r \in rows : \A h \in 1..Len(blocks) :
              blocks[h] = r.hash => r.idx = Cardinality(PlacesBefore(h, r.pos))
         /\ \A r \in newRows : r.idx = Cardinality(PlacesTo(Len(blocks)) \cup HeldPlaces(r.pos))
    BY <1>1 DEF ParityInv, CountedInv
  <1>11. /\ \A r \in rows' : \A h \in 1..Len(blocks') :
              blocks'[h] = r.hash => r.idx = Cardinality(PlacesBefore(h, r.pos)')
    BY <1>1, <1>3, <1>10 DEF PlacesBefore
  <1>12. \A q \in 1..(pos' - 1) : q = pos \/ q \in 1..(pos - 1)
    BY <1>1
  <1> HIDE DEF x
  <1>13. CASE ~Consumes(held, pos) /\ newRows' = newRows /\ idx' = idx
    <2>1. Passed' = Passed /\ Cardinality(Passed') = idx' + 1 /\ IsFiniteSet(Passed')
      BY <1>5, <1>7, <1>8, <1>13
    <2>2. SkipPending => SkipPending'
      <3>1. SUFFICES ASSUME NEW p \in 1..(pos - 1), Kind(held, p) = "skip",
                            \A q \in (p + 1)..(pos - 1) : Kind(held, q) # "store"
                     PROVE  SkipPending'
        BY DEF SkipPending
      <3>2. p \in 1..(pos' - 1) /\ \A q \in (p + 1)..(pos' - 1) : q = pos \/ q \in (p + 1)..(pos - 1)
        BY <1>1, <3>1
      <3>3. Kind(held, pos) # "store"
        BY <1>13 DEF Consumes
      <3> QED
        BY <1>1, <3>1, <3>2, <3>3 DEF SkipPending
    <2>3. CounterInv'
      BY <1>1, <1>8, <1>13, <2>1, <2>2 DEF CounterInv
    <2>4. CountedInv'
      BY <1>1, <1>3, <1>10, <1>11, <1>13 DEF CountedInv
    <2> QED
      BY <1>4, <2>3, <2>4 DEF ParityInv
  <1>14. CASE Kind(held, pos) = "skip" /\ newRows' = newRows /\ idx' = idx + 1
    <2>1. Passed' = Passed \cup {x}
      BY <1>5, <1>7, <1>14 DEF Consumes
    <2>2. Cardinality(Passed') = idx' + 1 /\ IsFiniteSet(Passed')
      BY <1>2, <1>8, <1>9, <1>14, <2>1
    <2>3. SkipPending'
      <3>1. pos \in 1..(pos' - 1) /\ (pos + 1)..(pos' - 1) = {}
        BY <1>1
      <3> QED
        BY <1>1, <1>14, <3>1 DEF SkipPending
    <2>4. CounterInv'
      BY <1>1, <2>2, <2>3 DEF CounterInv
    <2>5. CountedInv'
      BY <1>1, <1>3, <1>10, <1>11, <1>14 DEF CountedInv
    <2> QED
      BY <1>4, <2>4, <2>5 DEF ParityInv
  <1>15. CASE /\ Kind(held, pos) = "store" /\ idx' = idx + 1
              /\ newRows' = newRows \cup {[idx |-> idx + 1, hash |-> held, pos |-> pos]}
    <2> DEFINE n == [idx |-> idx + 1, hash |-> held, pos |-> pos]
    <2>1. n.idx = idx + 1 /\ n.hash = held /\ n.pos = pos /\ newRows' = newRows \cup {n}
      BY <1>15
    <2>2. n \in Rows
      BY <1>1, <1>2 DEF Rows
    <2> HIDE DEF n
    <2>3. Passed' = Passed \cup {x}
      BY <1>5, <1>7, <1>15 DEF Consumes
    <2>4. Cardinality(Passed') = idx' + 1 /\ IsFiniteSet(Passed')
      BY <1>2, <1>8, <1>9, <1>15, <2>3
    <2>5. GetLastTxIndex(rows \cup newRows') = n.idx
      <3>1. rows \cup newRows' \subseteq Rows
        BY <2>1, <2>2 DEF IngestInv, TypeOK
      <3>2. \A r \in rows \cup newRows' : r.idx <= n.idx
        BY <1>2, <2>1
      <3>3. n \in rows \cup newRows'
        BY <2>1
      <3> QED
        BY <3>1, <3>2, <3>3, LargestRow
    <2>6. CounterInv'
      BY <1>1, <1>15, <2>1, <2>4, <2>5 DEF CounterInv
    <2>7. n.idx = Cardinality(PlacesTo(Len(blocks)) \cup HeldPlaces(n.pos))
      BY <1>7, <1>8, <2>1
    <2>8. CountedInv'
      BY <1>1, <1>3, <1>10, <1>11, <2>1, <2>7 DEF CountedInv
    <2> QED
      BY <1>4, <2>6, <2>8 DEF ParityInv
  <1> QED
    BY <1>13, <1>14, <1>15

\* Committing the block: the highest index consumed is a row's.
LEMMA WrittenCount ==
  ASSUME NoTrailingSkips, IngestInv, RowsInv, ParityInv, BlockDone, WriteTables,
         idx' = idx \/ idx' = GetLastTxIndex(rows')
  PROVE  ParityInv'
  <1>1. /\ held \in Hashes /\ held # None /\ LastPos(held) \in Nat
        /\ pos = LastPos(held) + 1
    BY BlockLength DEF IngestInv, TypeOK, BlockDone
  <1>2. rows' = rows \cup newRows /\ held' = None /\ blocks' = Append(blocks, held)
    BY DEF WriteTables, CloseTransaction
  <1>3. /\ Len(blocks) \in Nat /\ Len(blocks') = Len(blocks) + 1
        /\ blocks'[Len(blocks) + 1] = held
        /\ \A h \in 1..Len(blocks) : blocks'[h] = blocks[h]
    BY <1>1, <1>2, AppendProperties, LenProperties DEF IngestInv, TypeOK
  <1>n. PICK n1 \in Nat : n1 = Len(blocks) + 1
    BY <1>3
  <1>4. \A h \in 1..Len(blocks') : h = Len(blocks) + 1 \/ h \in 1..Len(blocks)
    BY <1>3
  <1>5. \A h \in 1..Len(blocks) : blocks[h] # held
    BY <1>1, OneHeight DEF IngestInv, RowsInv
  <1>6. \A r \in newRows : r.hash = held /\ Storable(held, r.pos)
    BY <1>1 DEF RowsInv, NewRowsInv
  <1>7. ASSUME NEW n \in 0..Len(blocks)
        PROVE  PlacesTo(n)' = PlacesTo(n) /\ RowsTo(n)' = RowsTo(n)
               /\ \A h \in 1..n : \A p : PlacesBefore(h, p)' = PlacesBefore(h, p)
    <2>1. n \in Nat /\ \A h \in 1..n : h \in 1..Len(blocks) /\ blocks'[h] = blocks[h]
      BY <1>3
    <2>2. RowsTo(n)' = RowsTo(n)
      BY <1>2, <1>5, <1>6, <2>1 DEF RowsTo
    <2> QED
      BY <2>1, <2>2, SamePlaces
  <1>8. idx = GetLastTxIndex(rows \cup newRows)
    <2>1. ~SkipPending
      BY <1>1 DEF NoTrailingSkips, SkipPending
    <2> QED
      BY <1>1, <2>1 DEF ParityInv, CounterInv
  <1>9. idx' = idx
    BY <1>2, <1>8
  <1>10. PlacesTo(n1)' = Passed
    <2>1. ASSUME NEW x
          PROVE  x \in PlacesTo(n1)' <=> x \in Passed
      <3>1. x \in Passed <=> x \in PlacesTo(Len(blocks)) \/ x \in HeldPlaces(pos)
        BY <1>1 DEF Passed
      <3>2. CASE x \in (1..Len(blocks)) \X Nat
        <4>1. x[1] \in 1..Len(blocks) /\ x[1] \in 1..(Len(blocks) + 1) /\ x[1] # Len(blocks) + 1
              /\ x \in (1..(Len(blocks) + 1)) \X Nat
          BY <1>3, <3>2
        <4> QED
          BY <1>3, <1>n, <3>1, <3>2, <4>1 DEF PlacesTo, HeldPlaces, NextHeight
      <3>3. CASE x \in {Len(blocks) + 1} \X Nat
        <4>1. x[1] = Len(blocks) + 1 /\ x[1] \notin 1..Len(blocks)
              /\ x \in (1..(Len(blocks) + 1)) \X Nat
          BY <1>3, <3>3
        <4>2. blocks'[x[1]] = held /\ (pos - 1) = LastPos(held)
          BY <1>1, <1>3, <4>1
        <4> QED
          BY <1>n, <3>1, <3>3, <4>1, <4>2 DEF PlacesTo, HeldPlaces, NextHeight
      <3>4. x \in PlacesTo(n1)' => x \in (1..Len(blocks)) \X Nat \/ x \in {Len(blocks) + 1} \X Nat
        BY <1>3, <1>n DEF PlacesTo
      <3>5. x \in Passed => x \in (1..Len(blocks)) \X Nat \/ x \in {Len(blocks) + 1} \X Nat
        BY <3>1 DEF PlacesTo, HeldPlaces, NextHeight
      <3> QED
        BY <3>2, <3>3, <3>4, <3>5
    <2> QED
      BY <2>1
  <1>11. RowsTo(n1)' = rows \cup newRows
    <2>1. RowsTo(n1)' \subseteq rows'
      BY DEF RowsTo
    <2>2. \A r \in rows : \E h \in 1..(Len(blocks) + 1) : blocks'[h] = r.hash
      BY <1>3 DEF RowsInv, StoredRowsInv
    <2>3. Len(blocks) + 1 \in 1..(Len(blocks) + 1)
      BY <1>3
    <2> QED
      BY <1>2, <1>3, <1>n, <1>6, <2>1, <2>2, <2>3 DEF RowsTo
  <1>12. IsFiniteSet(Passed) /\ Cardinality(Passed) = idx + 1
    BY DEF ParityInv, CounterInv
  <1>13. PrefixInv'
    <2>1. ASSUME NEW n \in 0..Len(blocks')
          PROVE  IsFiniteSet(PlacesTo(n)') /\ Cardinality(PlacesTo(n)') = GetLastTxIndex(RowsTo(n)') + 1
      <3>1. CASE n = Len(blocks) + 1
        BY <1>8, <1>n, <1>10, <1>11, <1>12, <3>1
      <3>2. CASE n # Len(blocks) + 1
        <4>1. n \in 0..Len(blocks)
          BY <1>3, <3>2
        <4> QED
          BY <1>7, <4>1 DEF ParityInv, PrefixInv
      <3> QED
        BY <3>1, <3>2
    <2> QED
      BY <2>1 DEF PrefixInv, GetLastTxIndex
  <1>14. CounterInv'
    <2>1. Passed' = Passed
      BY <1>2, <1>3, <1>n, <1>10 DEF Passed
    <2> QED
      BY <1>2, <1>9, <1>12, <2>1 DEF CounterInv
  <1>15. ASSUME NEW r \in rows', NEW h \in 1..Len(blocks'), blocks'[h] = r.hash
         PROVE  r.idx = Cardinality(PlacesBefore(h, r.pos)')
    <2>1. CASE r \in rows
      <3>1. r.hash # held
        BY <1>5, <2>1 DEF RowsInv, StoredRowsInv
      <3>2. h \in 1..Len(blocks) /\ blocks[h] = r.hash /\ Len(blocks) \in 0..Len(blocks)
        BY <1>3, <1>4, <1>15, <3>1
      <3>3. PlacesBefore(h, r.pos)' = PlacesBefore(h, r.pos)
        BY <1>7, <3>2
      <3> QED
        BY <2>1, <3>2, <3>3 DEF ParityInv, CountedInv
    <2>2. CASE r \in newRows
      <3>1. h = Len(blocks) + 1
        BY <1>3, <1>4, <1>5, <1>6, <1>15, <2>2
      <3>2. r.pos \in 1..LastPos(held)
        BY <1>6, <2>2 DEF Storable
      <3>3. PlacesBefore(h, r.pos)' = {x \in Passed : x[1] < h \/ x[2] < r.pos}
        BY <1>10, <1>n, <3>1 DEF PlacesBefore
      <3>4. Passed = PlacesTo(Len(blocks)) \cup HeldPlaces(pos)
        BY <1>1 DEF Passed
      <3>5. \A x \in PlacesTo(Len(blocks)) : x[1] < h
        BY <1>3, <3>1 DEF PlacesTo
      <3>6. \A x : x \in HeldPlaces(r.pos) <=> x \in HeldPlaces(pos) /\ (x[1] < h \/ x[2] < r.pos)
        <4>1. \A x \in HeldPlaces(pos) : ~(x[1] < h)
          BY <1>3, <3>1 DEF HeldPlaces, NextHeight
        <4>2. \A q \in Nat : q \in 1..(r.pos - 1) <=> q \in 1..(pos - 1) /\ q < r.pos
          BY <1>1, <3>2
        <4> QED
          BY <4>1, <4>2 DEF HeldPlaces
      <3>7. PlacesBefore(h, r.pos)' = PlacesTo(Len(blocks)) \cup HeldPlaces(r.pos)
        BY <3>3, <3>4, <3>5, <3>6
      <3> QED
        BY <1>1, <2>2, <3>7 DEF ParityInv, CountedInv
    <2> QED
      BY <1>2, <2>1, <2>2
  <1>16. CountedInv'
    BY <1>2, <1>15 DEF CountedInv
  <1> QED
    BY <1>13, <1>14, <1>16 DEF ParityInv

\* Deleting the top block: the counter is back at the count of what is left.
LEMMA DeletedCount ==
  ASSUME IngestInv, RowsInv, ParityInv, RollBackTop
  PROVE  ParityInv'
  <1>1. held' = None /\ blocks' = SubSeq(blocks, 1, Len(blocks) - 1) /\ idx' = GetLastTxIndex(rows')
    BY DEF RollBackTop, work
  <1>2. blocks \in Seq(Hashes) /\ Len(blocks) \in Nat /\ blocks # <<>>
    BY ChainAssumption, LenProperties, SubSeqEmpty, EmptySeq
       DEF IngestInv, TypeOK, RollBackTop, StoredIsPrefix
  <1>3. /\ Len(blocks') = Len(blocks) - 1 /\ Len(blocks') \in Nat
        /\ \A h \in 1..Len(blocks') : h \in 1..Len(blocks) /\ blocks'[h] = blocks[h]
    BY <1>1, <1>2, ButLast, EmptySeq, LenProperties
  <1> DEFINE top == blocks[Len(blocks)]
  <1>4. rows' = {r \in rows : r.hash # top}
    BY DEF RollBackTop
  <1>5. \A h \in 1..Len(blocks') : blocks[h] # top
    <2>1. Len(blocks) \in 1..Len(blocks) /\ \A h \in 1..Len(blocks') : h # Len(blocks)
      BY <1>2, <1>3
    <2> QED
      BY <1>3, <2>1, OneHeight DEF RowsInv, IngestInv
  <1> HIDE DEF top
  <1>6. ASSUME NEW n \in 0..Len(blocks')
        PROVE  /\ PlacesTo(n)' = PlacesTo(n) /\ RowsTo(n)' = RowsTo(n) /\ n \in 0..Len(blocks)
               /\ \A h \in 1..n : \A p : PlacesBefore(h, p)' = PlacesBefore(h, p)
    <2>1. n \in Nat /\ n \in 0..Len(blocks)
          /\ \A h \in 1..n : h \in 1..Len(blocks') /\ blocks'[h] = blocks[h]
      BY <1>2, <1>3
    <2>2. RowsTo(n)' = RowsTo(n)
      BY <1>4, <1>5, <2>1 DEF RowsTo
    <2> QED
      BY <2>1, <2>2, SamePlaces
  <1>n. PICK n1 \in 0..Len(blocks') : n1 = Len(blocks')
    BY <1>3
  <1>7. PrefixInv'
    BY <1>6 DEF ParityInv, PrefixInv
  <1>8. rows' = RowsTo(n1)'
    <2>1. RowsInv'
      BY DeletedRows
    <2> QED
      BY <1>n, <2>1 DEF RowsTo, RowsInv, StoredRowsInv
  <1>9. Passed' = PlacesTo(n1)'
    BY <1>1, <1>n DEF Passed
  <1>10. IsFiniteSet(PlacesTo(n1)') /\ Cardinality(PlacesTo(n1)') = GetLastTxIndex(RowsTo(n1)') + 1
    BY <1>6, <1>n DEF ParityInv, PrefixInv
  <1>11. CounterInv'
    BY <1>1, <1>8, <1>9, <1>10 DEF CounterInv
  <1>12. \A r \in rows' : \A h \in 1..Len(blocks') :
            blocks'[h] = r.hash => r.idx = Cardinality(PlacesBefore(h, r.pos)')
    BY <1>3, <1>4, <1>6, <1>n DEF ParityInv, CountedInv
  <1>13. CountedInv'
    BY <1>1, <1>12 DEF CountedInv
  <1> QED
    BY <1>7, <1>11, <1>13 DEF ParityInv

\* Every step keeps the counts.
LEMMA ParityStep ==
  ASSUME NoTrailingSkips, IngestInv, RowsInv, ParityInv, [Next]_vars
  PROVE  ParityInv'
  <1>r. ASSUME RollBackBlock PROVE ParityInv'
    BY <1>r, RolledBackCount DEF RollBackBlock, CloseTransaction, tables
  <1>a. ASSUME AtTransaction, NextTransaction, UNCHANGED <<tables, newRows, idx>>,
               Kind(held, pos) \in {"plain", "throw", "poison"}
        PROVE  ParityInv'
    BY <1>a, AdvancedCount DEF tables, Consumes
  <1>o. ASSUME UNCHANGED <<tables, work, idx>> PROVE ParityInv'
    <2>1. /\ blocks' = blocks /\ rows' = rows /\ held' = held /\ pos' = pos /\ newRows' = newRows
          /\ idx' = idx
      BY <1>o DEF tables, work
    <2>2. /\ \A n : PlacesTo(n)' = PlacesTo(n) /\ RowsTo(n)' = RowsTo(n)
          /\ \A p : HeldPlaces(p)' = HeldPlaces(p)
      BY <2>1 DEF PlacesTo, RowsTo, HeldPlaces, NextHeight
    <2>3. Passed' = Passed /\ SkipPending' = SkipPending
      BY <2>1, <2>2 DEF Passed, SkipPending
    <2>4. CounterInv'
      BY <2>1, <2>3 DEF ParityInv, CounterInv
    <2>5. PrefixInv'
      BY <2>1, <2>2 DEF ParityInv, PrefixInv
    <2>6. CountedInv'
      BY <2>1, <2>2 DEF ParityInv, CountedInv, PlacesBefore
    <2> QED
      BY <2>4, <2>5, <2>6 DEF ParityInv
  <1>1. CASE BeginBlock
    <2>1. /\ blocks' = blocks /\ rows' = rows /\ held' = node[NextHeight] /\ pos' = 1
          /\ newRows' = {} /\ NextHeight' = NextHeight /\ idx' = idx /\ held = None
      BY <1>1 DEF BeginBlock, tables, IngestInv, IdleInv, NextHeight
    <2>2. /\ \A n : PlacesTo(n)' = PlacesTo(n) /\ RowsTo(n)' = RowsTo(n)
      BY <2>1 DEF PlacesTo, RowsTo
    <2>3. HeldPlaces(1)' = {}
      BY DEF HeldPlaces
    <2>4. Passed = PlacesTo(Len(blocks)) /\ Passed' = Passed
      BY <2>1, <2>2, <2>3 DEF Passed
    <2>5. idx = GetLastTxIndex(rows)
      <3>1. Len(blocks) \in 0..Len(blocks)
        BY LenProperties DEF IngestInv, TypeOK
      <3>2. Cardinality(Passed) = GetLastTxIndex(rows) + 1 /\ Cardinality(Passed) = idx + 1
        BY <2>4, <3>1, AllRows DEF ParityInv, PrefixInv, CounterInv
      <3>3. GetLastTxIndex(rows) \in Int /\ idx \in Int
        BY RowTypes, LastIndex DEF IngestInv, TypeOK
      <3> QED
        BY <3>2, <3>3
    <2>6. CounterInv'
      BY <2>1, <2>4, <2>5 DEF ParityInv, CounterInv
    <2>7. PrefixInv'
      BY <2>1, <2>2 DEF ParityInv, PrefixInv
    <2>8. CountedInv'
      BY <2>1, <2>2 DEF ParityInv, CountedInv, PlacesBefore
    <2> QED
      BY <2>6, <2>7, <2>8 DEF ParityInv
  <1>2. CASE SkipQuarantinedTransaction
    <2>1. AtTransaction /\ NextTransaction /\ UNCHANGED <<tables, newRows, idx>>
          /\ held # None /\ QuarantineKey \in insertQuarantine
      BY <1>2 DEF SkipQuarantinedTransaction, AtTransaction
    <2>2. Kind(held, pos) = "poison"
      BY <2>1, KeyType DEF IngestInv, PoisonInv
    <2> QED
      BY <1>a, <2>1, <2>2
  <1>3. CASE ThrowQuarantined
    BY <1>3, <1>a DEF ThrowQuarantined, ParseThrows, ParsesNow
  <1>4. CASE ThrowRetried
    BY <1>4, <1>r DEF ThrowRetried
  <1>5. CASE ThrowQuarantines
    BY <1>5, <1>a DEF ThrowQuarantines, ParseThrows, ParsesNow
  <1>6. CASE IngestPlain
    BY <1>6, <1>a DEF IngestPlain, ParsesNow
  <1>7. CASE IngestSkipped
    BY <1>7, AdvancedCount DEF IngestSkipped, ParsesNow, tables
  <1>8. CASE PersistTransaction
    <2>1. CASE idx + 1 \in TakenIndexes
      BY <1>8, <1>r, <2>1 DEF PersistTransaction
    <2>2. CASE idx + 1 \notin TakenIndexes
      BY <1>8, <2>2, AdvancedCount DEF PersistTransaction, ParsesNow, tables
    <2> QED
      BY <2>1, <2>2
  <1>9. CASE InsertPoisonRow
    BY <1>9, <1>r DEF InsertPoisonRow
  <1>10. CASE CommitBlock
    BY <1>10, WrittenCount DEF CommitBlock
  <1>11. CASE RollBackTop
    BY <1>11, DeletedCount
  <1>12. CASE PollAtTip \/ UNCHANGED vars
    BY <1>12, <1>o DEF PollAtTip, vars
  <1>13. CASE FaultStep
    <2>1. \/ RollBackBlock \/ UNCHANGED <<tables, work, idx>>
          \/ (BlockDone /\ WriteTables /\ idx' = GetLastTxIndex(rows'))
      BY <1>13 DEF FaultStep, StoreBlockFault, LookupFault, EventFault, PersistFault, CommitFails,
                   CommitUnacked, Restart, NodeMoves, FaultsEnd
    <2> QED
      BY <1>r, <1>o, <2>1, WrittenCount
  <1> QED
    BY <1>1, <1>2, <1>3, <1>4, <1>5, <1>6, <1>7, <1>8, <1>9, <1>10, <1>11, <1>12, <1>13
       DEF Next, LoopStep

\* The property from the invariant.
LEMMA ParityFollows ==
  ASSUME IngestInv, RowsInv, ParityInv
  PROVE  TxIndexParity
  <1>1. SUFFICES ASSUME NEW r \in rows
                 PROVE  r.idx = CleanIndex(PlaceOf(r))
    BY DEF TxIndexParity
  <1>2. Len(blocks) \in Nat /\ \A h \in 1..Len(blocks) : LastPos(blocks[h]) \in Nat
    BY BlockLength, LenProperties, ElementOfSeq DEF IngestInv, TypeOK
  <1>3. \E k \in 1..Len(blocks) : blocks[k] = r.hash
    BY DEF RowsInv, StoredRowsInv
  <1> DEFINE h == CHOOSE k \in 1..Len(blocks) : blocks[k] = r.hash
  <1>4. h \in 1..Len(blocks) /\ blocks[h] = r.hash /\ PlaceOf(r) = <<h, r.pos>>
    BY <1>3 DEF PlaceOf
  <1> HIDE DEF h
  <1>5. \A y : y \in ChainPlaces({"store", "skip"}) <=> y \in PlacesTo(Len(blocks))
    BY <1>2 DEF ChainPlaces, PlacesTo, Consumes
  <1>6. \A y \in PlacesTo(Len(blocks)) : y[1] \in Nat /\ y[2] \in Nat
    BY <1>2 DEF PlacesTo
  <1>7. \A y : y \in PlacesTo(h) <=> y \in PlacesTo(Len(blocks)) /\ y[1] <= h
    BY <1>2, <1>4 DEF PlacesTo
  <1>8. \A y : (y \in PlacesTo(Len(blocks)) /\ Precedes(y, <<h, r.pos>>)) <=> y \in PlacesBefore(h, r.pos)
    <2>1. h \in Nat /\ r.pos \in Nat
      BY <1>2, <1>4, RowTypes
    <2>2. \A y : Precedes(y, <<h, r.pos>>) <=> y[1] < h \/ (y[1] = h /\ y[2] < r.pos)
      BY DEF Precedes
    <2>3. \A y \in PlacesTo(Len(blocks)) :
             (y[1] < h \/ (y[1] = h /\ y[2] < r.pos)) <=> (y[1] <= h /\ (y[1] < h \/ y[2] < r.pos))
      BY <1>6, <2>1
    <2> QED
      BY <1>7, <2>2, <2>3 DEF PlacesBefore
  <1>9. {y \in ChainPlaces({"store", "skip"}) : Precedes(y, <<h, r.pos>>)} = PlacesBefore(h, r.pos)
    BY <1>5, <1>8
  <1> QED
    BY <1>4, <1>9 DEF ParityInv, CountedInv, CleanIndex

\* While no block ends its consumed indexes with a skipped transaction, every
\* instance gives a stored chain's transactions the same tx_index, through every
\* rollback, reorg and restart.  Without that hypothesis it does not: a skip at
\* the end of a block is forgotten when the counter is read back.
THEOREM ParityHolds ==
  ASSUME NoTrailingSkips
  PROVE  Spec => []TxIndexParity
  <1>1. Init => ParityInv
    <2>1. SUFFICES ASSUME Init PROVE ParityInv
      OBVIOUS
    <2>2. blocks = <<>> /\ Len(blocks) = 0 /\ rows = {} /\ held = None /\ idx = -1
      BY <2>1 DEF Init
    <2>3. \A n \in 0..Len(blocks) : PlacesTo(n) = {} /\ RowsTo(n) = {}
      BY <2>2 DEF PlacesTo, RowsTo
    <2>4. Passed = {}
      BY <2>2, <2>3 DEF Passed
    <2>5. GetLastTxIndex({}) = -1
      BY DEF GetLastTxIndex
    <2>6. IsFiniteSet({}) /\ Cardinality({}) = 0
      BY FS_EmptySet
    <2>7. CounterInv
      BY <2>2, <2>4, <2>6 DEF CounterInv
    <2>8. PrefixInv
      BY <2>3, <2>5, <2>6 DEF PrefixInv
    <2>9. CountedInv
      BY <2>2 DEF CountedInv
    <2> QED
      BY <2>7, <2>8, <2>9 DEF ParityInv
  <1>2. IngestInv /\ RowsInv /\ ParityInv /\ [Next]_vars => ParityInv'
    BY ParityStep
  <1>3. IngestInv /\ RowsInv /\ ParityInv => TxIndexParity
    BY ParityFollows
  <1> QED
    BY <1>1, <1>2, <1>3, RowsInvariant, PTL DEF Spec

-----------------------------------------------------------------------------
(* One transaction: where a parse is, and what its locals hold there.        *)

\* The spender of the commit is asked for, not the commit's own.
Reveals == parse.envelope \/ WalksBack(OutputAt(FirstPrev).script)

IsParse(p) == /\ p.funding \in BOOLEAN /\ p.envelope \in BOOLEAN /\ p.wantsSource \in BOOLEAN
              /\ p = [payload |-> p.payload, funding |-> p.funding, envelope |-> p.envelope,
                      wantsSource |-> p.wantsSource, source |-> p.source, firstHop |-> p.firstHop]

\* Above the second gate an action next to an envelope is the envelope's own.
SoleCarrier(p) ==
    CarrierRecognitionActive /\ EnvelopeInputs /= {} /\ ActionOf(p.payload) /= Nothing =>
        Carriers = {} /\ Cardinality(EnvelopeInputs) = 1

HopKnown == parse.firstHop = FirstPrev[1] /\ FirstPrev[1] \in DOMAIN Ledger

\* No lookup starts before the transaction is settled, and the first hop is
\* fetched before what it is needed for.
ParseInv ==
    /\ tx \in Transactions /\ IsParse(parse) /\ step \in {"start"} \cup Lookups \cup Ends
    /\ step \in Lookups \cup {"parsed"} => SoleCarrier(parse)
    /\ step \in {"commit", "prevout", "fees"} => parse.source = Nothing /\ parse.firstHop = Nothing
    /\ step = "commit" => parse.envelope
    /\ step = "prevout" => ~parse.envelope /\ parse.wantsSource
    /\ step = "fees" => ~parse.wantsSource
    /\ step = "funder" => parse.wantsSource /\ Reveals /\ HopKnown /\ parse.source = Nothing
    /\ step = "parsed" =>
          /\ parse.source = IF parse.wantsSource THEN Sender ELSE Nothing
          /\ parse.funding /\ FeeAddress /= Nothing => HopKnown

\* The arbitration leaves one carrier at the most.
LEMMA ArbitrationSole == SoleCarrier(Decompiled)
  <1>1. Decompiled.payload = ArbitratedPayload
    BY DEF Decompiled
  <1>2. CASE EnvelopeCarries
    <2>1. CarrierRecognitionActive => Carriers = {}
      BY <1>2 DEF EnvelopeCarries, OtherCarrier
    <2>2. EnvelopeInputs = {1}
      BY <1>2 DEF EnvelopeCarries
    <2>3. Cardinality(EnvelopeInputs) = 1
      BY <2>2, FS_Singleton
    <2> QED
      BY <2>1, <2>3 DEF SoleCarrier
  <1>3. CASE ~EnvelopeCarries /\ EnvelopeInputs # {}
    <2>1. ArbitratedPayload = <<>>
      BY <1>3 DEF ArbitratedPayload, EnvelopeRejected
    <2>2. ActionOf(<<>>) = Nothing
      BY DEF ActionOf
    <2> QED
      BY <1>1, <2>1, <2>2 DEF SoleCarrier
  <1> QED
    BY <1>2, <1>3 DEF SoleCarrier


\* What a step that leaves the transaction alone leaves of its carriers.
LEMMA TransactionKept ==
  ASSUME UNCHANGED <<network, tx, height>>
  PROVE  /\ FirstPrev' = FirstPrev /\ FunderNext' = FunderNext
         /\ \A script : WalksBack(script)' <=> WalksBack(script)
         /\ \A p : SoleCarrier(p)' <=> SoleCarrier(p)
  <1>1. network' = network /\ tx' = tx /\ height' = height
    OBVIOUS
  <1>2. FirstPrev' = FirstPrev
    BY <1>1 DEF FirstPrev
  <1>3. FunderNext' = FunderNext
    BY <1>2 DEF FunderNext
  <1>4. \A script : WalksBack(script)' <=> WalksBack(script)
    BY <1>1 DEF WalksBack
  <1>5. EnvelopeInputs' = EnvelopeInputs /\ Carriers' = Carriers
        /\ (CarrierRecognitionActive' <=> CarrierRecognitionActive)
    BY <1>1 DEF EnvelopeInputs, EnvelopeActive, Carriers, CarrierRecognitionActive
  <1>6. \A p : SoleCarrier(p)' <=> SoleCarrier(p)
    BY <1>5 DEF SoleCarrier
  <1> QED
    BY <1>2, <1>3, <1>4, <1>6

\* A parse of the transaction that asks for nothing else has its answer.
LEMMA DecompiledFields ==
  /\ IsParse(Decompiled) /\ Decompiled.source = Nothing /\ Decompiled.firstHop = Nothing
  /\ Decompiled.envelope <=> EnvelopeCarries
  <1>1. Decompiled.source = Nothing /\ Decompiled.firstHop = Nothing
    BY DEF Decompiled
  <1>2. /\ Decompiled.funding \in BOOLEAN /\ Decompiled.wantsSource \in BOOLEAN
        /\ Decompiled.envelope \in BOOLEAN /\ (Decompiled.envelope <=> EnvelopeCarries)
    BY DEF Decompiled, EnvelopeCarries
  <1>3. Decompiled = [payload |-> Decompiled.payload, funding |-> Decompiled.funding,
                      envelope |-> Decompiled.envelope, wantsSource |-> Decompiled.wantsSource,
                      source |-> Decompiled.source, firstHop |-> Decompiled.firstHop]
    BY Zenon DEF Decompiled
  <1> QED
    BY <1>1, <1>2, <1>3 DEF IsParse

\* A parse that begins.
LEMMA BeginsInv ==
  ASSUME ParseInv, ParseBegins
  PROVE  ParseInv'
  <1>1. /\ step = "start" /\ UNCHANGED <<network, tx, height>>
        /\ \/ step' \in {"null", "thrown"} /\ parse' = parse
           \/ /\ parse' = Decompiled
              /\ step' = IF EnvelopeCarries THEN "commit"
                         ELSE IF Decompiled.wantsSource THEN "prevout" ELSE FeesNext(Decompiled)
    BY DEF ParseBegins
  <1>2. \A p : SoleCarrier(p)' <=> SoleCarrier(p)
    BY <1>1, TransactionKept
  <1>3. CASE step' \in {"null", "thrown"} /\ parse' = parse
    BY <1>1, <1>3 DEF ParseInv, Lookups, Ends
  <1>4. CASE /\ parse' = Decompiled
             /\ step' = IF EnvelopeCarries THEN "commit"
                        ELSE IF Decompiled.wantsSource THEN "prevout" ELSE FeesNext(Decompiled)
    <2>1. PICK p : p = Decompiled
      OBVIOUS
    <2>2. /\ IsParse(p) /\ p.source = Nothing /\ p.firstHop = Nothing
          /\ (p.envelope <=> EnvelopeCarries) /\ SoleCarrier(p)'
      BY <1>2, <2>1, ArbitrationSole, DecompiledFields
    <2>3. FeesNext(p) = IF p.funding /\ FeeAddress /= Nothing THEN "fees" ELSE "parsed"
      BY <2>2 DEF FeesNext
    <2>4. parse' = p /\ step' = IF p.envelope THEN "commit"
                                ELSE IF p.wantsSource THEN "prevout" ELSE FeesNext(p)
      BY <1>4, <2>1, <2>2
    <2> QED
      BY <1>1, <2>2, <2>3, <2>4 DEF ParseInv, Lookups, Ends
  <1> QED
    BY <1>1, <1>3, <1>4

\* The lookups are of confirmed transactions.
LEMMA HopIsNamed ==
  ASSUME FirstPrev[1] \in DOMAIN Ledger PROVE FirstPrev[1] # Nothing
  BY ParsingAssumption

\* A record of the parse, q, is p but for its first hop or its source, v.
Agree(q, p) ==
    /\ IsParse(q) /\ q.payload = p.payload /\ (q.funding <=> p.funding)
    /\ (q.envelope <=> p.envelope) /\ (q.wantsSource <=> p.wantsSource)
Hopped(q, p, v) == Agree(q, p) /\ q.source = p.source /\ q.firstHop = v
Sourced(q, p, v) == Agree(q, p) /\ q.source = v /\ q.firstHop = p.firstHop

\* What setting one of them leaves.
LEMMA ParseFields ==
  ASSUME NEW p, IsParse(p), NEW v
  PROVE  Hopped([p EXCEPT !.firstHop = v], p, v) /\ Sourced([p EXCEPT !.source = v], p, v)
  BY DEF IsParse, Agree, Hopped, Sourced

\* The commit of an envelope arrives.
LEMMA CommitInv ==
  ASSUME ParseInv, CommitArrives
  PROVE  ParseInv'
  <1>1. /\ step = "commit" /\ UNCHANGED <<network, tx, height>> /\ FirstPrev[1] \in DOMAIN Ledger
        /\ parse' = [parse EXCEPT !.firstHop = FirstPrev[1]]
        /\ step' = IF parse.wantsSource THEN FunderNext ELSE "parsed"
    BY DEF CommitArrives, Arrives, Answered, LookupOf
  <1>2. /\ FirstPrev' = FirstPrev /\ \A p : SoleCarrier(p)' <=> SoleCarrier(p)
    BY <1>1, TransactionKept
  <1>3. /\ IsParse(parse) /\ SoleCarrier(parse) /\ parse.envelope /\ parse.source = Nothing
        /\ tx \in Transactions
    BY <1>1 DEF ParseInv, Lookups
  <1>4. Hopped(parse', parse, FirstPrev[1])
    BY <1>1, <1>3, ParseFields, Zenon
  <1>5. SoleCarrier(parse)'
    BY <1>2, <1>3, <1>4 DEF SoleCarrier, Hopped, Sourced, Agree
  <1>6. HopKnown' /\ Reveals'
    BY <1>1, <1>2, <1>3, <1>4 DEF HopKnown, Reveals, Hopped, Sourced, Agree
  <1>7. step' \in {"funder", "thrown", "parsed"} /\ (step' = "parsed" => ~parse.wantsSource)
        /\ (step' = "funder" => parse.wantsSource)
    BY <1>1, <1>3 DEF FunderNext, IsParse
  <1> QED
    BY <1>1, <1>3, <1>4, <1>5, <1>6, <1>7 DEF ParseInv, Lookups, Ends, Hopped, Sourced, Agree

\* The transaction of the first input's output arrives.
LEMMA PrevoutInv ==
  ASSUME ParseInv, PrevoutArrives
  PROVE  ParseInv'
  <1> DEFINE out == OutputAt(FirstPrev)
             hop == [parse EXCEPT !.firstHop = FirstPrev[1]]
  <1>1. /\ step = "prevout" /\ UNCHANGED <<network, tx, height>> /\ FirstPrev[1] \in DOMAIN Ledger
        /\ \/ WalksBack(out.script) /\ parse' = hop /\ step' = FunderNext
           \/ /\ ~WalksBack(out.script) /\ parse' = [hop EXCEPT !.source = out.address]
              /\ step' = FeesNext(hop)
    BY DEF PrevoutArrives, Arrives, Answered, LookupOf
  <1>2. /\ FirstPrev' = FirstPrev /\ \A p : SoleCarrier(p)' <=> SoleCarrier(p)
        /\ \A script : WalksBack(script)' <=> WalksBack(script)
    BY <1>1, TransactionKept
  <1>3. /\ IsParse(parse) /\ SoleCarrier(parse) /\ ~parse.envelope /\ parse.wantsSource
        /\ parse.source = Nothing /\ tx \in Transactions
    BY <1>1 DEF ParseInv, Lookups
  <1>4. Hopped(hop, parse, FirstPrev[1])
    BY <1>3, ParseFields, Zenon
  <1>5. PICK o : o = out
    OBVIOUS
  <1>6. OutputAt(FirstPrev)' = o
    BY <1>2, <1>5 DEF OutputAt
  <1> HIDE DEF out, hop
  <1>7. CASE WalksBack(out.script) /\ parse' = hop /\ step' = FunderNext
    <2>1. SoleCarrier(parse)'
      BY <1>2, <1>3, <1>4, <1>7 DEF SoleCarrier, Hopped, Sourced, Agree
    <2>2. HopKnown' /\ Reveals'
      BY <1>1, <1>2, <1>4, <1>5, <1>6, <1>7 DEF HopKnown, Reveals, Hopped, Sourced, Agree
    <2>3. step' \in {"funder", "thrown"}
      BY <1>7 DEF FunderNext
    <2> QED
      BY <1>1, <1>3, <1>4, <1>7, <2>1, <2>2, <2>3 DEF ParseInv, Lookups, Ends, Hopped, Sourced, Agree
  <1>8. CASE ~WalksBack(out.script) /\ parse' = [hop EXCEPT !.source = out.address] /\ step' = FeesNext(hop)
    <2>1. Sourced(parse', hop, out.address)
      <3>1. IsParse(hop)
        BY <1>4 DEF Hopped, Agree
      <3> QED
        BY <1>8, <3>1, ParseFields, Zenon
    <2>2. SoleCarrier(parse)'
      BY <1>2, <1>3, <1>4, <2>1 DEF SoleCarrier, Hopped, Sourced, Agree
    <2>3. HopKnown'
      BY <1>1, <1>2, <1>4, <2>1 DEF HopKnown, Hopped, Sourced, Agree
    <2>4. step' = "parsed"
      BY <1>1, <1>4, <1>8, HopIsNamed DEF FeesNext, Hopped, Sourced, Agree
    <2>5. Sender' = o.address
      <3>1. ~(parse'.envelope \/ WalksBack(o.script)')
        BY <1>2, <1>3, <1>4, <1>5, <1>8, <2>1 DEF Hopped, Sourced, Agree
      <3> QED
        BY <1>6, <3>1 DEF Sender
    <2> QED
      BY <1>1, <1>3, <1>4, <1>5, <2>1, <2>2, <2>3, <2>4, <2>5 DEF ParseInv, Lookups, Ends, Hopped, Sourced, Agree
  <1> QED
    BY <1>1, <1>7, <1>8

\* The funder of the commit arrives: its output is the sender's.
LEMMA FunderInv ==
  ASSUME ParseInv, FunderArrives
  PROVE  ParseInv'
  <1> DEFINE owner == OutputAt(Ledger[FirstPrev[1]].from).address
  <1>1. /\ step = "funder" /\ UNCHANGED <<network, tx, height>>
        /\ parse' = [parse EXCEPT !.source = owner] /\ step' = FeesNext(parse)
    BY DEF FunderArrives, Arrives, Answered
  <1>2. /\ FirstPrev' = FirstPrev /\ \A p : SoleCarrier(p)' <=> SoleCarrier(p)
        /\ \A script : WalksBack(script)' <=> WalksBack(script)
    BY <1>1, TransactionKept
  <1>3. /\ IsParse(parse) /\ SoleCarrier(parse) /\ parse.wantsSource /\ Reveals /\ HopKnown
        /\ tx \in Transactions
    BY <1>1 DEF ParseInv, Lookups
  <1>4. Sourced(parse', parse, owner)
    BY <1>1, <1>3, ParseFields, Zenon
  <1>5. SoleCarrier(parse)'
    BY <1>2, <1>3, <1>4 DEF SoleCarrier, Hopped, Sourced, Agree
  <1>6. HopKnown'
    BY <1>2, <1>3, <1>4 DEF HopKnown, Hopped, Sourced, Agree
  <1>7. step' = "parsed"
    BY <1>1, <1>3, HopIsNamed DEF FeesNext, HopKnown
  <1>8. PICK script : script = OutputAt(FirstPrev).script
    OBVIOUS
  <1>9. OutputAt(FirstPrev).script' = script /\ OutputAt(Ledger[FirstPrev[1]].from)' = OutputAt(Ledger[FirstPrev[1]].from)
    BY <1>2, <1>8 DEF OutputAt
  <1>10. parse'.envelope \/ WalksBack(script)'
    BY <1>2, <1>3, <1>4, <1>8 DEF Reveals, Hopped, Sourced, Agree
  <1>11. Sender' = owner
    BY <1>9, <1>10 DEF Sender
  <1> QED
    BY <1>1, <1>3, <1>4, <1>5, <1>6, <1>7, <1>11 DEF ParseInv, Lookups, Ends, Hopped, Sourced, Agree

\* The commit of a reveal without a source arrives.
LEMMA FeesInv ==
  ASSUME ParseInv, FeesArrive
  PROVE  ParseInv'
  <1>1. /\ step = "fees" /\ UNCHANGED <<network, tx, height>> /\ FirstPrev[1] \in DOMAIN Ledger
        /\ parse' = [parse EXCEPT !.firstHop = FirstPrev[1]] /\ step' = "parsed"
    BY DEF FeesArrive, Arrives, Answered, LookupOf
  <1>2. /\ FirstPrev' = FirstPrev /\ \A p : SoleCarrier(p)' <=> SoleCarrier(p)
    BY <1>1, TransactionKept
  <1>3. /\ IsParse(parse) /\ SoleCarrier(parse) /\ ~parse.wantsSource /\ parse.source = Nothing
        /\ tx \in Transactions
    BY <1>1 DEF ParseInv, Lookups
  <1>4. Hopped(parse', parse, FirstPrev[1])
    BY <1>1, <1>3, ParseFields, Zenon
  <1>5. SoleCarrier(parse)'
    BY <1>2, <1>3, <1>4 DEF SoleCarrier, Hopped, Sourced, Agree
  <1>6. HopKnown'
    BY <1>1, <1>2, <1>4 DEF HopKnown, Hopped, Sourced, Agree
  <1> QED
    BY <1>1, <1>3, <1>4, <1>5, <1>6 DEF ParseInv, Lookups, Ends, Hopped, Sourced, Agree

\* One step of any kind.
LEMMA ParseStep == ParseInv /\ [ParseNext]_parseVars => ParseInv'
  <1> SUFFICES ASSUME ParseInv, [ParseNext]_parseVars PROVE ParseInv'
    OBVIOUS
  <1>1. ASSUME UNCHANGED parseVars PROVE ParseInv'
    <2>1. UNCHANGED <<network, tx, height>> /\ parse' = parse /\ step' = step
      BY <1>1 DEF parseVars
    <2>2. /\ FirstPrev' = FirstPrev /\ \A p : SoleCarrier(p)' <=> SoleCarrier(p)
          /\ \A script : WalksBack(script)' <=> WalksBack(script)
      BY <2>1, TransactionKept
    <2>3. PICK script : script = OutputAt(FirstPrev).script
      OBVIOUS
    <2>4. OutputAt(FirstPrev)' = OutputAt(FirstPrev) /\ OutputAt(FirstPrev).script' = script
          /\ OutputAt(Ledger[FirstPrev[1]].from)' = OutputAt(Ledger[FirstPrev[1]].from)
      BY <2>2, <2>3 DEF OutputAt
    <2>5. Reveals => Reveals'
      BY <2>1, <2>2, <2>3, <2>4 DEF Reveals
    <2>6. Sender' = Sender
      BY <2>1, <2>2, <2>3, <2>4 DEF Sender
    <2>7. HopKnown => HopKnown'
      BY <2>1, <2>2 DEF HopKnown
    <2>8. SoleCarrier(parse) => SoleCarrier(parse)'
      BY <2>1, <2>2 DEF SoleCarrier
    <2> QED
      BY <2>1, <2>5, <2>6, <2>7, <2>8 DEF ParseInv
  <1>2. ASSUME ParseEnded PROVE ParseInv'
    BY <1>1, <1>2 DEF ParseEnded
  <1>3. ASSUME NEW s \in Lookups, Undecodable(s) PROVE ParseInv'
    BY <1>3 DEF Undecodable, ParseInv, Lookups, Ends
  <1>4. ASSUME NEW s \in Lookups, LookupFails(s) PROVE ParseInv'
    <2>1. IsParse(NoParse)
      BY DEF IsParse, NoParse
    <2> QED
      BY <1>4, <2>1 DEF LookupFails, LookupMissing, ParseInv, Lookups, Ends
  <1> QED
    BY <1>1, <1>2, <1>3, <1>4, BeginsInv, CommitInv, PrevoutInv, FunderInv, FeesInv
       DEF ParseNext, ParseAdvances

\* The fee outputs of a commit are recorded once each.
LEMMA FeeOutputs ==
  ASSUME ParseInv, step = "parsed"
  PROVE  /\ Cardinality(FundingFees) = IF parse.funding THEN Cardinality(CommitFees) ELSE 0
         /\ \A i \in CommitFees : parse.funding =>
               [vout |-> FundingVoutBase + i - 1, address |-> FeeAddress] \in FundingFees
         /\ \A o, q \in FundingFees : o.vout = q.vout => o = q
         /\ \A o \in FundingFees : o.vout \in Int /\ o.vout >= FundingVoutBase
  <1> DEFINE Fee(i) == [vout |-> FundingVoutBase + i - 1, address |-> FeeAddress]
  <1>1. CASE ~parse.funding \/ FeeAddress = Nothing
    <2>1. FundingFees = {} /\ Cardinality({}) = 0
      BY <1>1, FS_EmptySet DEF FundingFees
    <2>2. parse.funding => CommitFees = {}
      BY <1>1 DEF CommitFees
    <2> QED
      BY <2>1, <2>2
  <1>2. CASE parse.funding /\ FeeAddress /= Nothing
    <2>1. parse.firstHop = FirstPrev[1] /\ FirstPrev[1] \in DOMAIN Ledger /\ FirstPrev[1] # Nothing
      BY <1>2, HopIsNamed DEF ParseInv, HopKnown
    <2>2. PICK n \in Nat : DOMAIN Ledger[FirstPrev[1]].outs = 1..n
      BY <2>1, ParsingAssumption DEF IsList
    <2>3. CommitFees \subseteq 1..n
      BY <2>2 DEF CommitFees
    <2>4. FundingFees = {Fee(i) : i \in CommitFees}
      BY <1>2, <2>1 DEF FundingFees, CommitFees
    <2>5. FundingVoutBase \in Nat
      BY ParsingAssumption
    <2>6. \A i \in 1..n : Fee(i).vout = FundingVoutBase + i - 1 /\ Fee(i).vout >= FundingVoutBase
                          /\ Fee(i).vout \in Int
      BY <2>5
    <2>7. \A i, j \in 1..n : Fee(i) = Fee(j) => i = j
      BY <2>5, <2>6
    <2>8. \A i, j \in 1..n : Fee(i).vout = Fee(j).vout => Fee(i) = Fee(j)
      BY <2>5, <2>6
    <2> HIDE DEF Fee
    <2>9. IsFiniteSet(CommitFees)
      <3>1. IsFiniteSet(1..n)
        BY FS_Interval
      <3> QED
        BY <2>3, <3>1, FS_Subset
    <2>10. Cardinality(FundingFees) = Cardinality(CommitFees)
      <3> DEFINE f == [i \in CommitFees |-> Fee(i)]
      <3>1. f \in Bijection(CommitFees, FundingFees)
        <4>1. f \in [CommitFees -> FundingFees] /\ DOMAIN f = CommitFees
          BY <2>4, Zenon
        <4>2. \A i \in CommitFees : f[i] = Fee(i)
          OBVIOUS
        <4>3. \A i, j \in CommitFees : f[i] = f[j] => i = j
          BY <2>3, <2>7, <4>2
        <4>4. \A o \in FundingFees : \E i \in CommitFees : f[i] = o
          BY <2>4, <4>2
        <4> HIDE DEF f
        <4> QED
          <5>1. f \in Injection(CommitFees, FundingFees)
            BY <4>1, <4>3 DEF Injection, IsInjective
          <5>2. f \in Surjection(CommitFees, FundingFees)
            BY <4>1, <4>4 DEF Surjection
          <5> QED
            BY <5>1, <5>2 DEF Bijection
      <3> HIDE DEF f
      <3>2. ExistsBijection(CommitFees, FundingFees)
        BY <3>1 DEF ExistsBijection
      <3> QED
        BY <2>9, <3>1, <3>2, FS_Bijection
    <2>11. \A i \in CommitFees : Fee(i) \in FundingFees
      BY <2>4
    <2>12. \A o, q \in FundingFees : o.vout = q.vout => o = q
      BY <2>3, <2>4, <2>8
    <2>13. \A o \in FundingFees : o.vout \in Int /\ o.vout >= FundingVoutBase
      BY <2>3, <2>4, <2>6
    <2> QED
      BY <1>2, <2>10, <2>11, <2>12, <2>13 DEF Fee
  <1> QED
    BY <1>1, <1>2

\* A transaction's own outputs have vouts below the funding domain, one each.
LEMMA OwnVouts ==
  ASSUME tx \in Transactions
  PROVE  /\ \A o, q \in OwnOutputs : o.vout = q.vout => o = q
         /\ \A o \in OwnOutputs : o.vout \in Int /\ o.vout < FundingVoutBase
  <1>1. PICK n \in Nat : n <= FundingVoutBase /\ DOMAIN tx.outs = 1..n
    BY ParsingAssumption DEF IsList
  <1>2. FundingVoutBase \in Nat
    BY ParsingAssumption
  <1> DEFINE Own(i) == [vout |-> i - 1, address |-> tx.outs[i].address]
  <1>3. \A o \in OwnOutputs : \E i \in 1..n : o = Own(i)
    BY <1>1 DEF OwnOutputs
  <1>4. \A i \in 1..n : Own(i).vout \in Int /\ Own(i).vout = i - 1 /\ Own(i).vout < FundingVoutBase
    BY <1>1, <1>2
  <1>5. \A i, j \in 1..n : Own(i).vout = Own(j).vout => Own(i) = Own(j)
    BY <1>4
  <1> HIDE DEF Own
  <1> QED
    BY <1>3, <1>4, <1>5

\* However many lookups fail, a parse that ends names the one who paid, records
\* the fees of a reveal's commit and each vout once, and takes an envelope for
\* the action only where nothing else carries one (fetchPrevoutTransaction,
\* attributeFundingFees, arbitrateEnvelope).
THEOREM ParseAgreement == ParseSpec => []ParseAgrees
  <1>1. ParseInit => ParseInv
    <2>1. IsParse(NoParse)
      BY DEF IsParse, NoParse
    <2> QED
      BY <2>1 DEF ParseInit, ParseInv, Lookups, Ends
  <1>2. ParseInv => ParseAgrees
    <2> SUFFICES ASSUME ParseInv, step = "parsed"
                 PROVE  /\ parse.source = IF parse.wantsSource THEN Sender ELSE Nothing
                        /\ Cardinality(FundingFees) = IF parse.funding THEN Cardinality(CommitFees) ELSE 0
                        /\ \A i \in CommitFees : parse.funding =>
                               [vout |-> FundingVoutBase + i - 1, address |-> FeeAddress] \in RecordedOutputs
                        /\ \A o, q \in RecordedOutputs : o.vout = q.vout => o = q
                        /\ SoleCarrier(parse)
      BY DEF ParseAgrees, SoleCarrier
    <2>1. /\ parse.source = IF parse.wantsSource THEN Sender ELSE Nothing
          /\ SoleCarrier(parse) /\ tx \in Transactions
      BY DEF ParseInv
    <2>2. \A o, q \in RecordedOutputs : o.vout = q.vout => o = q
      <3>1. FundingVoutBase \in Nat
        BY ParsingAssumption
      <3> QED
        BY <2>1, <3>1, FeeOutputs, OwnVouts DEF RecordedOutputs
    <2> QED
      BY <2>1, <2>2, FeeOutputs DEF RecordedOutputs
  <1> QED
    BY <1>1, <1>2, ParseStep, PTL DEF ParseSpec
=============================================================================
