-------------------------- MODULE DispenserProofs --------------------------
(***************************************************************************)
(* Proofs that the dispensers table is reversible: for every chain of      *)
(* blocks, every order of registrations, edits, failures, purges and       *)
(* rollbacks, and every safe depth, the table is the one a decode from     *)
(* scratch writes, less the purged rows, and no purged row comes back.     *)
(* DispenserInv is inductive.                                              *)
(*                                                                         *)
(* And that the table serves the indexer: where all gates are in force, no *)
(* payment to a dispenser the indexer may still fill is missed.            *)
(* CaptureInv is inductive relative to DispenserInv: it compares the marks *)
(* of the table with the closing times of the indexer's dispensers, over   *)
(* block times that may run backwards.                                     *)
(***************************************************************************)
EXTENDS DispenserTable, WellFoundedInduction, SequenceTheorems, TLAPS

\* The clean table after block h.
CleanAt(h) == IF h = 0 THEN {} ELSE past[h].clean
\* What the purges have left of a table.
Kept(R, G) == {r \in R : Key(r) \notin G}

\* A table of the first h blocks: rows of those blocks, marked no earlier than
\* they were made, one per key.
RowsOk(R, h) ==
    /\ R \subseteq RowType
    /\ \A r \in R : r.at <= h /\ r.mark <= h /\ (r.mark # NoMark => r.at <= r.mark)
    /\ \A r, s \in R : Key(r) = Key(s) => r = s

\* Table B of block h grows out of table A of the block below: no row is lost,
\* the rows of other blocks were there, and a marked one is as it was.
Follows(A, B, h) ==
    /\ \A r \in A : \E s \in B : Key(s) = Key(r)
    /\ \A s \in B : s.at = h \/ \E r \in A : Key(r) = Key(s)
    /\ \A r \in A, s \in B : Key(r) = Key(s) =>
          /\ s.src = r.src
          /\ r.mark = NoMark => s.mark \in {NoMark, h}
          /\ r.mark # NoMark => s = r

Undoes(u, h, r) == UndoKey(u) = <<h, r.at, r.n, r.addr>>

\* The undo rows U of block h hold what A held of every kept row B has changed.
UndoOk(A, B, U, h, G) ==
    \A r \in A, s \in B : Key(r) = Key(s) /\ Key(r) \notin G =>
        /\ \A u \in U : Undoes(u, h, r) =>
              r.mark = NoMark /\ u.exp = r.exp /\ u.mark \in {NoMark, h}
        /\ (\A u \in U : ~Undoes(u, h, r)) => s.exp = r.exp

\* Below this height no block is rolled back any more.
PurgeFloor == peak - SafeDepth

IndexerType == [at : Nat, n : Nat, exp0 : Int, addr : Addresses, src : Addresses, exp : Int,
                status : {"open", "cancelling", "closed"}, closeAt : Int]
PastType == [clean : SUBSET RowType, indexer : SUBSET IndexerType]

BoundInv == /\ past \in Seq(PastType) /\ Len(past) = Tip /\ indexer \subseteq IndexerType
            /\ peak - Tip <= Depth
            /\ \A u \in undo : u.block <= Tip
            /\ \A k \in gone : k[1] \in Nat /\ k[1] <= Tip
ChainInv == \A h \in 1..Tip : /\ RowsOk(CleanAt(h), h)
                              /\ Follows(CleanAt(h - 1), CleanAt(h), h)
FrozenInv == \A g, h \in 1..Tip : g <= h =>
                \A r \in CleanAt(h) : r.mark # NoMark /\ r.mark <= g => r \in CleanAt(g)
UndoInv == \A h \in 1..Tip : h > PurgeFloor => UndoOk(CleanAt(h - 1), CleanAt(h), undo, h, gone)
GoneInv == \A h \in 1..Tip : h >= PurgeFloor =>
              \A r \in CleanAt(h) : Key(r) \in gone => r.mark # NoMark /\ r.mark <= PurgeFloor
TableInv == rows = Kept(CleanAt(Tip), gone) /\ (pc # "open" => clean = CleanAt(Tip))
OpenInv ==
    pc = "open" =>
        /\ newRows = Kept(clean, gone)
        /\ RowsOk(clean, Height) /\ Follows(CleanAt(Tip), clean, Height)
        /\ UndoOk(CleanAt(Tip), clean, newUndo, Height, gone)
        /\ \A r \in clean : r.at = Height => r.n <= txs
        /\ undo \subseteq newUndo /\ \A u \in newUndo \ undo : u.block = Height

DispenserInv == TypeOK /\ BoundInv /\ ChainInv /\ FrozenInv /\ UndoInv /\ GoneInv /\ TableInv /\ OpenInv

-----------------------------------------------------------------------------
(* Rows and keys. *)

\* A row is its fields.
LEMMA RowFields ==
  ASSUME NEW r \in RowType, NEW s \in RowType,
         Key(r) = Key(s), r.src = s.src, r.exp = s.exp, r.mark = s.mark
  PROVE  r = s
  <1>1. r.at = s.at /\ r.n = s.n /\ r.addr = s.addr
    BY DEF Key
  <1> QED
    BY <1>1 DEF RowType

\* The key of a row in its table, and of its undo rows.
LEMMA KeyFields ==
  ASSUME NEW r, NEW s
  PROVE  /\ Key(r) = Key(s) <=> r.at = s.at /\ r.n = s.n /\ r.addr = s.addr
         /\ Key(r)[1] = r.at
         /\ \A u, h : Undoes(u, h, r) <=> u.block = h /\ u.at = r.at /\ u.n = r.n /\ u.addr = r.addr
  BY DEF Key, Undoes, UndoKey

-----------------------------------------------------------------------------
(* A statement of block h changes rows one by one: f is what it makes of each *)
(* row of B.                                                                  *)

\* A row a statement of block h has left as it was, or has found and left open
\* or marked by this block.
Touches(q, r, h) ==
    /\ Key(q) = Key(r) /\ q.src = r.src
    /\ q = r \/ (r.mark \in {NoMark, h} /\ q.mark \in {NoMark, h})

\* What it leaves is a table of the block again, and the purge commutes with it.
LEMMA StatementRows ==
  ASSUME NEW A, NEW B, NEW G, NEW h \in Nat \ {0}, NEW f \in [B -> RowType],
         RowsOk(A, h - 1), RowsOk(B, h), Follows(A, B, h),
         \A r \in B : Touches(f[r], r, h)
  PROVE  LET B2 == {f[r] : r \in B}
         IN  /\ RowsOk(B2, h) /\ Follows(A, B2, h)
             /\ Kept(B2, G) = {f[r] : r \in Kept(B, G)}
  <1> DEFINE B2 == {f[r] : r \in B}
  <1>0. B \subseteq RowType /\ A \subseteq RowType
    BY DEF RowsOk
  <1>1. \A q \in B2 : \E r \in B : q = f[r] /\ Touches(q, r, h)
    OBVIOUS
  <1>2. \A r \in B : f[r] \in B2 /\ f[r] \in RowType
    OBVIOUS
  <1>3. \A r \in B : /\ Key(f[r]) = Key(r) /\ f[r].src = r.src /\ f[r].at = r.at
                     /\ f[r] = r \/ (r.mark \in {NoMark, h} /\ f[r].mark \in {NoMark, h})
    BY KeyFields DEF Touches
  <1>4. RowsOk(B2, h)
    <2>1. B2 \subseteq RowType
      OBVIOUS
    <2>2. ASSUME NEW r \in B
          PROVE  f[r].at <= h /\ f[r].mark <= h /\ (f[r].mark # NoMark => f[r].at <= f[r].mark)
      <3>1. r.at <= h /\ r.mark <= h /\ (r.mark # NoMark => r.at <= r.mark)
        BY DEF RowsOk
      <3> QED
        BY <1>3, <3>1 DEF NoMark
    <2>3. \A q, s \in B2 : Key(q) = Key(s) => q = s
      BY <1>1, <1>3 DEF RowsOk
    <2> QED
      BY <2>1, <2>2, <2>3 DEF RowsOk
  <1>5. Follows(A, B2, h)
    <2>1. \A r \in A : \E s \in B2 : Key(s) = Key(r)
      BY <1>2, <1>3 DEF Follows
    <2>2. \A s \in B2 : s.at = h \/ \E r \in A : Key(r) = Key(s)
      BY <1>1, <1>3 DEF Follows
    <2>3. ASSUME NEW r \in A, NEW s \in B, Key(r) = Key(f[s])
          PROVE  /\ f[s].src = r.src
                 /\ r.mark = NoMark => f[s].mark \in {NoMark, h}
                 /\ r.mark # NoMark => f[s] = r
      <3>1. Key(r) = Key(s)
        BY <1>3, <2>3
      <3>2. /\ s.src = r.src
            /\ r.mark = NoMark => s.mark \in {NoMark, h}
            /\ r.mark # NoMark => s = r
        BY <3>1 DEF Follows
      <3>3. r.mark # h
        BY <1>0 DEF RowsOk, RowType
      <3> QED
        BY <1>3, <3>2, <3>3
    <2> QED
      BY <2>1, <2>2, <2>3 DEF Follows
  <1>6. Kept(B2, G) = {f[r] : r \in Kept(B, G)}
    BY <1>3 DEF Kept
  <1> QED
    BY <1>4, <1>5, <1>6

\* The expiry pass: it changes no expiration, so the undo rows stay right.
LEMMA ExpiryRows ==
  ASSUME NEW A, NEW B, NEW U, NEW G, NEW h \in Nat \ {0}, NEW t \in Int,
         RowsOk(A, h - 1), RowsOk(B, h), Follows(A, B, h), UndoOk(A, B, U, h, G)
  PROVE  LET B2 == DeleteOpenDispensers(B, h, t)
         IN  /\ RowsOk(B2, h) /\ Follows(A, B2, h) /\ UndoOk(A, B2, U, h, G)
             /\ Kept(B2, G) = DeleteOpenDispensers(Kept(B, G), h, t)
             /\ \A q \in B2 : \E r \in B : Key(q) = Key(r)
  <1> DEFINE g(r) == IF r.exp < t /\ r.mark = NoMark THEN [r EXCEPT !.mark = h] ELSE r
             f == [r \in B |-> g(r)]
             B2 == DeleteOpenDispensers(B, h, t)
  <1>1. B \subseteq RowType
    BY DEF RowsOk
  <1>2. \A r \in B : g(r) \in RowType /\ Touches(g(r), r, h) /\ g(r).exp = r.exp
    BY <1>1 DEF RowType, Touches, Key
  <1>3. f \in [B -> RowType] /\ \A r \in B : f[r] = g(r)
    BY <1>2
  <1>4. B2 = {f[r] : r \in B} /\ DeleteOpenDispensers(Kept(B, G), h, t) = {f[r] : r \in Kept(B, G)}
    BY <1>3 DEF DeleteOpenDispensers, Kept
  <1>5. \A r \in B : Touches(f[r], r, h) /\ f[r].exp = r.exp
    BY <1>2, <1>3
  <1> HIDE DEF f, B2
  <1>6. RowsOk(B2, h) /\ Follows(A, B2, h) /\ Kept(B2, G) = {f[r] : r \in Kept(B, G)}
    BY <1>3, <1>4, <1>5, StatementRows
  <1>7. \A q \in B2 : \E r \in B : Key(q) = Key(r) /\ q.exp = r.exp
    BY <1>4, <1>5 DEF Touches
  <1>8. UndoOk(A, B2, U, h, G)
    BY <1>7 DEF UndoOk
  <1> QED
    BY <1>4, <1>6, <1>7, <1>8 DEF B2

\* An edit: the rows it reaches have their values of the block's start in the
\* undo rows, this edit's or an earlier one's.
LEMMA EditRows ==
  ASSUME NEW A, NEW B, NEW U, NEW G, NEW s, NEW e \in Int,
         TypeOK, RowsOk(A, Tip), RowsOk(B, Height), Follows(A, B, Height),
         UndoOk(A, B, U, Height, G)
  PROVE  LET B2 == ExtendOpenDispensers(B, s, e)
             U2 == RecordDispenserExtensionUndo(Kept(B, G), U, s)
         IN  /\ RowsOk(B2, Height) /\ Follows(A, B2, Height) /\ UndoOk(A, B2, U2, Height, G)
             /\ Kept(B2, G) = ExtendOpenDispensers(Kept(B, G), s, e)
             /\ \A q \in B2 : \E r \in B : Key(q) = Key(r)
             /\ U \subseteq U2 /\ \A u \in U2 \ U : u.block = Height
             /\ U \subseteq UndoType => U2 \subseteq UndoType
  <1> DEFINE h == Height
             g(r) == IF EditReaches(r, s)
                     THEN [r EXCEPT !.exp = IF @ < e THEN e ELSE @, !.mark = NoMark] ELSE r
             f == [r \in B |-> g(r)]
             B2 == ExtendOpenDispensers(B, s, e)
             New(r) == [block |-> h, at |-> r.at, n |-> r.n, addr |-> r.addr,
                        exp |-> r.exp, mark |-> r.mark]
             U2 == RecordDispenserExtensionUndo(Kept(B, G), U, s)
  <1>0. h \in Nat \ {0} /\ Tip = h - 1
    BY LenProperties DEF TypeOK, Height, Tip
  <1>1. B \subseteq RowType /\ A \subseteq RowType
    BY DEF RowsOk
  <1>2. \A r \in B : g(r) \in RowType /\ Touches(g(r), r, h)
    BY <1>1 DEF RowType, Touches, Key, EditReaches, NoMark
  <1>3. f \in [B -> RowType] /\ \A r \in B : f[r] = g(r)
    BY <1>2
  <1>4. B2 = {f[r] : r \in B} /\ ExtendOpenDispensers(Kept(B, G), s, e) = {f[r] : r \in Kept(B, G)}
    BY <1>3 DEF ExtendOpenDispensers, Kept
  <1>5. \A r \in B : Touches(f[r], r, h) /\ (~EditReaches(r, s) => f[r] = r)
    BY <1>2, <1>3
  <1> HIDE DEF f, B2
  <1>6. RowsOk(B2, h) /\ Follows(A, B2, h) /\ Kept(B2, G) = {f[r] : r \in Kept(B, G)}
    <2>1. RowsOk(A, h - 1) /\ RowsOk(B, h) /\ Follows(A, B, h)
      BY <1>0
    <2>2. \A r \in B : Touches(f[r], r, h)
      BY <1>5
    <2>3. h \in Nat \ {0} /\ f \in [B -> RowType]
      BY <1>0, <1>3
    <2> HIDE DEF h, U2
    <2> QED
      BY <1>4, <2>1, <2>2, <2>3, StatementRows
  <1>7. \A q \in B2 : \E r \in B : q = f[r] /\ Key(q) = Key(r)
    BY <1>4, <1>5 DEF Touches
  <1>8. /\ U \subseteq U2
        /\ \A u \in U2 : u \in U \/ \E r \in Kept(B, G) : /\ EditReaches(r, s) /\ u = New(r)
                                                      /\ \A v \in U : UndoKey(v) # UndoKey(u)
        /\ \A r \in Kept(B, G) : EditReaches(r, s) =>
              New(r) \in U2 \/ \E v \in U : UndoKey(v) = UndoKey(New(r))
    BY DEF RecordDispenserExtensionUndo
  <1>9. \A r \in B : /\ New(r).block = h /\ New(r).at = r.at /\ New(r).n = r.n /\ New(r).addr = r.addr
                     /\ New(r).exp = r.exp /\ New(r).mark = r.mark
                     /\ New(r) \in UndoType
    BY <1>0, <1>1 DEF RowType, UndoType
  <1>10. \A r \in B : \A w : Undoes(New(r), h, w) <=> Key(w) = Key(r)
    BY <1>9, KeyFields
  <1>11. \A r \in B : UndoKey(New(r)) = <<h, r.at, r.n, r.addr>>
    BY DEF UndoKey
  <1> HIDE DEF New, U2
  <1>12. ASSUME NEW r \in A, NEW q \in B, Key(r) = Key(q), Key(r) \notin G
         PROVE  /\ \A u \in U2 : Undoes(u, h, r) =>
                      r.mark = NoMark /\ u.exp = r.exp /\ u.mark \in {NoMark, h}
                /\ (\A u \in U2 : ~Undoes(u, h, r)) => f[q].exp = r.exp
    <2>1. /\ \A u \in U : Undoes(u, h, r) =>
                r.mark = NoMark /\ u.exp = r.exp /\ u.mark \in {NoMark, h}
          /\ (\A u \in U : ~Undoes(u, h, r)) => q.exp = r.exp
      BY <1>12 DEF UndoOk
    <2>2. q \in Kept(B, G) /\ Key(q) \notin G
      BY <1>12 DEF Kept
    <2>3. q.at = r.at /\ q.n = r.n /\ q.addr = r.addr
      BY <1>12, KeyFields
    <2>4. EditReaches(q, s) => r.mark = NoMark /\ q.mark \in {NoMark, h}
      <3>1. r.mark # NoMark => q = r
        BY <1>12 DEF Follows
      <3>2. r.mark # h
        BY <1>0, <1>1 DEF RowsOk, RowType
      <3> QED
        BY <3>1, <3>2 DEF EditReaches
    <2>5. ASSUME NEW u \in U2, u \notin U, Undoes(u, h, r)
          PROVE  r.mark = NoMark /\ u.exp = r.exp /\ u.mark \in {NoMark, h}
      <3>1. PICK w \in Kept(B, G) : EditReaches(w, s) /\ u = New(w) /\ \A v \in U : UndoKey(v) # UndoKey(u)
        BY <1>8, <2>5
      <3>2. w \in B
        BY DEF Kept
      <3>3. w = q
        BY <1>10, <1>12, <2>5, <3>1, <3>2 DEF RowsOk
      <3>4. \A v \in U : ~Undoes(v, h, r)
        BY <1>11, <2>3, <3>1, <3>3 DEF Undoes
      <3> QED
        BY <1>9, <2>1, <2>4, <3>1, <3>3, <3>4
    <2>6. (\A u \in U2 : ~Undoes(u, h, r)) => f[q].exp = r.exp
      <3>1. SUFFICES ASSUME \A u \in U2 : ~Undoes(u, h, r) PROVE f[q].exp = r.exp
        OBVIOUS
      <3>2. \A u \in U : ~Undoes(u, h, r)
        BY <1>8, <3>1
      <3>3. ~EditReaches(q, s)
        <4>1. \A v \in U : UndoKey(v) # UndoKey(New(q))
          BY <1>11, <2>3, <3>2 DEF Undoes
        <4> QED
          BY <1>8, <1>10, <1>12, <2>2, <3>1, <4>1
      <3> QED
        BY <1>5, <2>1, <3>2, <3>3
    <2> QED
      BY <2>1, <2>5, <2>6
  <1>13. UndoOk(A, B2, U2, h, G)
    BY <1>7, <1>12 DEF UndoOk
  <1>14. U \subseteq U2 /\ \A u \in U2 \ U : u.block = h
    BY <1>8, <1>9 DEF Kept
  <1>15. U \subseteq UndoType => U2 \subseteq UndoType
    BY <1>8, <1>9 DEF Kept
  <1> QED
    BY <1>4, <1>6, <1>7, <1>13, <1>14, <1>15 DEF B2, U2

\* restoreDispenserExtensions and the deletes of a rolled back block h give the
\* kept part of the table below it.
LEMMA RestoredRows ==
  ASSUME NEW A, NEW B, NEW G, NEW h \in Nat \ {0},
         RowsOk(A, h - 1), RowsOk(B, h), Follows(A, B, h), UndoOk(A, B, undo, h, G)
  PROVE  DeleteBlockRows(Kept(B, G), h) = Kept(A, G)
  <1> DEFINE g(q) == ClearMark(Restored(q, h), h)
  <1>1. B \subseteq RowType /\ A \subseteq RowType
    BY DEF RowsOk
  <1>2. ASSUME NEW q \in B
        PROVE  g(q).at = q.at
    BY <1>1 DEF ClearMark, Restored, RowType
  <1>3. ASSUME NEW r \in A, NEW q \in B, Key(r) = Key(q), Key(r) \notin G
        PROVE  g(q) = r
    <2>1. q.at = r.at /\ q.n = r.n /\ q.addr = r.addr /\ q.src = r.src
      BY <1>3, KeyFields DEF Follows
    <2>2. /\ r.mark = NoMark => q.mark \in {NoMark, h}
          /\ r.mark # NoMark => q = r
      BY <1>3 DEF Follows
    <2>3. r.mark # h /\ NoMark # h /\ q \in RowType /\ r \in RowType
      BY <1>1 DEF RowsOk, RowType, NoMark
    <2>4. CASE \A u \in undo : ~Undoes(u, h, r)
      <3>1. q.exp = r.exp
        BY <1>3, <2>4 DEF UndoOk
      <3>2. Restored(q, h) = q
        BY <2>1, <2>4 DEF Restored, Undoes
      <3>3. CASE r.mark # NoMark
        BY <2>2, <2>3, <3>2, <3>3 DEF ClearMark
      <3>4. CASE r.mark = NoMark
        <4>1. g(q) \in RowType /\ g(q).mark = NoMark /\ g(q).exp = q.exp /\ g(q).src = q.src /\ Key(g(q)) = Key(q)
          BY <2>2, <2>3, <3>2, <3>4 DEF ClearMark, RowType, NoMark, Key
        <4> QED
          BY <1>3, <2>1, <2>3, <3>1, <3>4, <4>1, RowFields
      <3> QED
        BY <3>3, <3>4
    <2>5. CASE \E u \in undo : Undoes(u, h, r)
      <3> DEFINE u == CHOOSE v \in undo : UndoKey(v) = <<h, q.at, q.n, q.addr>>
      <3>1. (\E v \in undo : UndoKey(v) = <<h, q.at, q.n, q.addr>>) /\ u \in undo /\ Undoes(u, h, r)
        BY <2>1, <2>5 DEF Undoes
      <3>2. Restored(q, h) = [q EXCEPT !.exp = u.exp, !.mark = IF u.mark = h THEN NoMark ELSE u.mark]
        BY <3>1 DEF Restored
      <3> HIDE DEF u
      <3>3. r.mark = NoMark /\ u.exp = r.exp /\ u.mark \in {NoMark, h}
        BY <1>3, <3>1 DEF UndoOk
      <3>4. Restored(q, h) = [q EXCEPT !.exp = r.exp, !.mark = NoMark]
        BY <3>2, <3>3
      <3>5. Restored(q, h) = r
        <4>1. Restored(q, h) \in RowType /\ Restored(q, h).mark = NoMark /\ Restored(q, h).exp = r.exp
              /\ Restored(q, h).src = q.src /\ Key(Restored(q, h)) = Key(q)
          <5>1. r.exp \in Int /\ NoMark \in Nat
            BY <2>3 DEF RowType, NoMark
          <5>2. [q EXCEPT !.exp = r.exp, !.mark = NoMark] \in RowType
            BY <2>3, <5>1 DEF RowType
          <5>3. /\ Restored(q, h).mark = NoMark /\ Restored(q, h).exp = r.exp /\ Restored(q, h).src = q.src
                /\ Restored(q, h).at = q.at /\ Restored(q, h).n = q.n /\ Restored(q, h).addr = q.addr
            BY <2>3, <3>4 DEF RowType
          <5> QED
            BY <3>4, <5>2, <5>3, KeyFields
        <4> QED
          BY <1>3, <2>1, <2>3, <3>3, <4>1, RowFields
      <3> QED
        BY <2>3, <3>5 DEF ClearMark
    <2> QED
      BY <2>4, <2>5
  <1>4. DeleteBlockRows(Kept(B, G), h) = {r \in {g(q) : q \in Kept(B, G)} : r.at # h}
    BY DEF DeleteBlockRows
  <1> HIDE DEF g
  <1>5. \A q \in Kept(B, G) : q \in B /\ Key(q) \notin G
    BY DEF Kept
  <1>6. ASSUME NEW q \in Kept(B, G), g(q).at # h
        PROVE  g(q) \in Kept(A, G)
    <2>1. q.at # h
      BY <1>2, <1>5, <1>6
    <2>2. PICK r \in A : Key(r) = Key(q)
      BY <1>5, <2>1 DEF Follows
    <2> QED
      BY <1>3, <1>5, <2>2 DEF Kept
  <1>7. ASSUME NEW r \in Kept(A, G)
        PROVE  \E q \in Kept(B, G) : r = g(q) /\ r.at # h
    <2>1. r \in A /\ Key(r) \notin G
      BY DEF Kept
    <2>2. PICK q \in B : Key(q) = Key(r)
      BY <2>1 DEF Follows
    <2>3. r.at # h
      BY <1>1, <2>1 DEF RowsOk, RowType
    <2> QED
      BY <1>3, <2>1, <2>2, <2>3 DEF Kept
  <1> QED
    BY <1>4, <1>6, <1>7

-----------------------------------------------------------------------------
(* What every step starts from. *)

\* Heights, and the table below the block in hand.
LEMMA AtTip ==
  ASSUME DispenserInv
  PROVE  /\ Tip \in Nat /\ Height \in Nat \ {0} /\ Height = Tip + 1 /\ Height - 1 = Tip
         /\ RowsOk(CleanAt(Tip), Tip) /\ CleanAt(Tip) \subseteq RowType
         /\ peak \in Nat /\ Tip <= peak /\ peak - Tip <= Depth /\ PurgeFloor \in Int /\ PurgeFloor <= Tip
         /\ SafeDepth \in Nat /\ Depth \in Nat /\ Depth <= SafeDepth
  <1>1. Tip \in Nat /\ Height \in Nat \ {0} /\ Height = Tip + 1 /\ Height - 1 = Tip
    BY LenProperties DEF DispenserInv, TypeOK, Tip, Height
  <1>2. RowsOk(CleanAt(Tip), Tip)
    <2>1. CASE Tip = 0
      BY <2>1 DEF CleanAt, RowsOk
    <2>2. CASE Tip # 0
      <3>1. Tip \in 1..Tip
        BY <1>1, <2>2
      <3> QED
        BY <3>1 DEF DispenserInv, ChainInv
    <2> QED
      BY <2>1, <2>2
  <1>3. peak \in Nat /\ Tip <= peak /\ peak - Tip <= Depth
    BY DEF DispenserInv, TypeOK, BoundInv
  <1>4. SafeDepth \in Nat /\ Depth \in Nat /\ Depth <= SafeDepth
    BY DepthAssumption
  <1> QED
    BY <1>1, <1>2, <1>3, <1>4 DEF RowsOk, PurgeFloor

\* A row of the clean table that a purge has deleted is marked below the floor.
LEMMA GoneMarked ==
  ASSUME DispenserInv, NEW r \in CleanAt(Tip), Key(r) \in gone
  PROVE  r.mark # NoMark /\ r.mark <= PurgeFloor
  <1>1. Tip \in 1..Tip /\ Tip >= PurgeFloor
    <2>1. Tip # 0
      BY DEF CleanAt
    <2> QED
      BY <2>1, AtTip
  <1> QED
    BY <1>1 DEF DispenserInv, GoneInv

\* The stored blocks' part of the invariant, while no block or purge is committed.
LEMMA DurableKept ==
  ASSUME DispenserInv, UNCHANGED <<times, rows, undo, past, gone, peak>>,
         indexer' \subseteq IndexerType
  PROVE  /\ BoundInv' /\ ChainInv' /\ FrozenInv' /\ UndoInv' /\ GoneInv'
         /\ rows' = Kept(CleanAt(Tip), gone)' /\ Tip' = Tip /\ Height' = Height
         /\ \A h : CleanAt(h)' = CleanAt(h)
  <1>1. /\ times' = times /\ rows' = rows /\ undo' = undo /\ past' = past /\ gone' = gone
        /\ peak' = peak
    OBVIOUS
  <1>2. Tip' = Tip /\ Height' = Height /\ PurgeFloor' = PurgeFloor /\ \A h : CleanAt(h)' = CleanAt(h)
    BY <1>1 DEF Tip, Height, PurgeFloor, CleanAt
  <1>3. BoundInv'
    BY <1>1, <1>2 DEF DispenserInv, BoundInv
  <1>4. ChainInv' /\ FrozenInv'
    BY <1>1, <1>2 DEF DispenserInv, ChainInv, FrozenInv
  <1>5. UndoInv'
    BY <1>1, <1>2 DEF DispenserInv, UndoInv
  <1>6. GoneInv'
    BY <1>1, <1>2 DEF DispenserInv, GoneInv
  <1> QED
    BY <1>1, <1>2, <1>3, <1>4, <1>5, <1>6 DEF DispenserInv, TableInv

\* Inside a block the kept rows have their types.
LEMMA KeptTypes ==
  ASSUME NEW R, NEW h, NEW G, RowsOk(R, h) PROVE Kept(R, G) \subseteq RowType
  BY DEF RowsOk, Kept

-----------------------------------------------------------------------------
(* The actions. *)

\* A block begins with the table below it, expired by its own time or not.
LEMMA BeginInv ==
  ASSUME DispenserInv, NEW step \in TimeSteps, BeginBlock(step)
  PROVE  DispenserInv'
  <1> DEFINE t == IF Tip = 0 THEN FirstTime ELSE times[Tip] + step
             A == CleanAt(Tip)
  <1>1. /\ pc = "idle" /\ pc' = "open" /\ now' = t /\ newRows' = StartOfBlock(rows, t)
        /\ capture' = GetAllOpenDispenserAddresses(newRows', t)
        /\ clean' = StartOfBlock(clean, t) /\ newUndo' = undo /\ txs' = 0
        /\ UNCHANGED <<times, rows, undo, past, gone, peak>> /\ indexer' = indexer
    BY DEF BeginBlock, durable
  <1>2. t \in Int
    BY AtTip, ElementOfSeq, TimeAssumption DEF DispenserInv, TypeOK, Tip
  <1>3. rows = Kept(A, gone) /\ clean = A
    BY <1>1 DEF DispenserInv, TableInv
  <1>4. Height \in Nat \ {0} /\ RowsOk(A, Height - 1) /\ RowsOk(A, Tip) /\ Tip \in Nat /\ Height = Tip + 1
    BY AtTip
  <1>5. A \subseteq RowType /\ RowsOk(A, Height)
    BY <1>4 DEF RowsOk, RowType
  <1>6. Follows(A, A, Height)
    BY <1>4 DEF Follows, RowsOk
  <1>7. \A u \in undo : u.block # Height
    <2>1. \A u \in undo : u.block \in Nat /\ u.block <= Tip
      BY DEF DispenserInv, TypeOK, BoundInv, UndoType
    <2> QED
      BY <1>4, <2>1
  <1>8. UndoOk(A, A, undo, Height, gone)
    <2>1. \A r \in A : \A u \in undo : ~Undoes(u, Height, r)
      BY <1>7 DEF Undoes, UndoKey
    <2> QED
      BY <1>4, <2>1 DEF UndoOk, RowsOk
  <1> HIDE DEF t, A
  <1>9. /\ RowsOk(clean', Height) /\ Follows(A, clean', Height)
        /\ UndoOk(A, clean', undo, Height, gone)
        /\ newRows' = Kept(clean', gone)
        /\ \A q \in clean' : \E r \in A : Key(q) = Key(r)
    <2>1. CASE t >= RealignAt
      BY <1>1, <1>3, <1>5, <1>6, <1>8, <2>1 DEF StartOfBlock
    <2>2. CASE ~(t >= RealignAt)
      <3>1. /\ clean' = DeleteOpenDispensers(A, Height, t)
            /\ newRows' = DeleteOpenDispensers(Kept(A, gone), Height, t)
        BY <1>1, <1>3, <2>2 DEF StartOfBlock
      <3> QED
        BY <1>2, <1>4, <1>5, <1>6, <1>8, <3>1, ExpiryRows
    <2> QED
      BY <2>1, <2>2
  <1>10. \A r \in clean' : r.at # Height
    BY <1>4, <1>5, <1>9, KeyFields DEF RowsOk, RowType
  <1>11. /\ BoundInv' /\ ChainInv' /\ FrozenInv' /\ UndoInv' /\ GoneInv'
         /\ rows' = Kept(CleanAt(Tip), gone)' /\ Tip' = Tip /\ Height' = Height
         /\ \A h : CleanAt(h)' = CleanAt(h)
    <2>1. indexer' \subseteq IndexerType
      BY <1>1 DEF DispenserInv, BoundInv
    <2> QED
      BY <1>1, <2>1, DurableKept
  <1>12. TableInv'
    BY <1>1, <1>11 DEF TableInv
  <1>13. OpenInv'
    <2>1. CleanAt(Tip)' = A
      BY <1>11 DEF A
    <2> QED
      BY <1>1, <1>9, <1>10, <1>11, <2>1 DEF OpenInv
  <1>14. TypeOK'
    <2>1. newRows' \subseteq RowType
      BY <1>9, KeptTypes
    <2>2. capture' \subseteq Addresses
      BY <1>1, <2>1 DEF GetAllOpenDispenserAddresses, RowType
    <2> QED
      BY <1>1, <1>2, <1>11, <2>1, <2>2 DEF DispenserInv, TypeOK
  <1> QED
    BY <1>11, <1>12, <1>13, <1>14 DEF DispenserInv

\* A step inside the block: its rows and undo rows, and nothing stored.
LEMMA InsideInv ==
  ASSUME DispenserInv, pc = "open", pc' = "open",
         UNCHANGED <<times, rows, undo, past, gone, peak, now>>,
         indexer' \subseteq IndexerType, capture' \subseteq Addresses, txs' \in Nat,
         newUndo' \subseteq UndoType, newRows' = Kept(clean', gone),
         RowsOk(clean', Height), Follows(CleanAt(Tip), clean', Height),
         UndoOk(CleanAt(Tip), clean', newUndo', Height, gone),
         \A r \in clean' : r.at = Height => r.n <= txs',
         undo \subseteq newUndo', \A u \in newUndo' \ undo : u.block = Height
  PROVE  DispenserInv'
  <1>1. /\ BoundInv' /\ ChainInv' /\ FrozenInv' /\ UndoInv' /\ GoneInv'
        /\ rows' = Kept(CleanAt(Tip), gone)' /\ Tip' = Tip /\ Height' = Height
        /\ \A h : CleanAt(h)' = CleanAt(h)
    BY DurableKept
  <1>2. TableInv'
    BY <1>1 DEF TableInv
  <1>3. OpenInv'
    <2>1. CleanAt(Tip)' = CleanAt(Tip) /\ gone' = gone /\ undo' = undo
      BY <1>1
    <2> QED
      BY <1>1, <2>1 DEF OpenInv
  <1>4. TypeOK'
    <2>1. newRows' \subseteq RowType
      BY KeptTypes
    <2> QED
      BY <1>1, <2>1 DEF DispenserInv, TypeOK
  <1> QED
    BY <1>1, <1>2, <1>3, <1>4 DEF DispenserInv

\* The largest of several expirations is one of them.
LEMMA LargestIn ==
  ASSUME NEW offs \in SUBSET Offsets, offs # {}, now \in Int
  PROVE  LET exps == {now + o : o \in offs}
         IN  Largest(exps) \in exps /\ exps \subseteq Int /\ \A e \in exps : e <= Largest(exps)
  <1>1. offs \subseteq Nat /\ Offsets \subseteq Nat
    BY TimeAssumption
  <1>2. PICK m \in Nat : \A o \in offs : o <= m
    BY <1>1, OffsetAssumption
  <1> DEFINE Bounds == {b \in Nat : \A o \in offs : o <= b}
  <1>3. Bounds \subseteq Nat /\ Bounds # {}
    BY <1>2
  <1>4. PICK b \in Bounds : \A c \in Bounds : ~(<<c, b>> \in OpToRel(<, Nat))
    BY <1>3, NatLessThanWellFounded, WFMin
  <1>5. \A c \in Bounds : ~(c < b)
    BY <1>4 DEF OpToRel
  <1>6. b \in offs
    <2>1. SUFFICES ASSUME b \notin offs PROVE FALSE
      OBVIOUS
    <2>2. \A o \in offs : o \in Nat /\ o < b
      BY <1>1, <2>1
    <2>3. b - 1 \in Nat /\ \A o \in offs : o <= b - 1
      BY <2>2
    <2> QED
      BY <1>5, <2>3
  <1> DEFINE exps == {now + o : o \in offs}
  <1>7. \A e \in exps : e \in Int /\ e <= now + b
    BY <1>1
  <1>8. \E e \in exps : \A f \in exps : f <= e
    BY <1>6, <1>7
  <1> QED
    BY <1>7, <1>8 DEF Largest

\* A registration adds a row under a key no table and no purge has seen.
LEMMA RegisterInv ==
  ASSUME DispenserInv, NEW s \in Addresses, NEW a \in Addresses,
         NEW offs \in (SUBSET Offsets) \ {{}}, RegisterDispenser(s, a, offs)
  PROVE  DispenserInv'
  <1> DEFINE exps == {now + o : o \in offs}
             row == [at |-> Height, n |-> txs + 1, addr |-> a, src |-> s,
                     exp |-> Largest(exps), mark |-> NoMark]
             A == CleanAt(Tip)
  <1>1. /\ pc = "open" /\ pc' = "open" /\ newRows' = newRows \cup {row} /\ clean' = clean \cup {row}
        /\ indexer' = indexer \cup IndexerCreates(s, a, exps)
        /\ capture' = capture \cup {a} /\ txs' = txs + 1 /\ newUndo' = newUndo
        /\ UNCHANGED <<times, rows, undo, past, gone, peak, now>>
    BY DEF RegisterDispenser, durable
  <1>2. /\ newRows = Kept(clean, gone) /\ RowsOk(clean, Height) /\ Follows(A, clean, Height)
        /\ UndoOk(A, clean, newUndo, Height, gone)
        /\ \A r \in clean : r.at = Height => r.n <= txs
        /\ undo \subseteq newUndo /\ \A u \in newUndo \ undo : u.block = Height
    BY <1>1 DEF DispenserInv, OpenInv
  <1>3. now \in Int /\ txs \in Nat /\ newUndo \subseteq UndoType /\ capture \subseteq Addresses
    BY DEF DispenserInv, TypeOK
  <1>4. Largest(exps) \in Int /\ exps \subseteq Int
    BY <1>3, LargestIn
  <1>5. /\ Height \in Nat \ {0} /\ Tip \in Nat /\ Height = Tip + 1 /\ RowsOk(A, Tip) /\ A \subseteq RowType
    BY AtTip
  <1> HIDE DEF exps
  <1>6. row \in RowType /\ row.at = Height /\ row.n = txs + 1 /\ row.mark = NoMark
    BY <1>3, <1>4, <1>5 DEF RowType, NoMark
  <1> HIDE DEF row, A
  <1>7. \A r \in clean : Key(r) # Key(row)
    <2>1. \A r \in clean : r.n \in Nat
      BY <1>2 DEF RowsOk, RowType
    <2> QED
      BY <1>2, <1>3, <1>6, <2>1, KeyFields
  <1>8. \A r \in A : Key(r) # Key(row)
    <2>1. \A r \in A : r.at # Height
      BY <1>5 DEF RowsOk, RowType
    <2> QED
      BY <1>6, <2>1, KeyFields
  <1>9. Key(row) \notin gone
    <2>1. \A k \in gone : k[1] <= Tip
      BY DEF DispenserInv, BoundInv
    <2>2. Key(row)[1] = Height
      BY <1>6 DEF Key
    <2> QED
      BY <1>5, <2>1, <2>2
  <1>10. newRows' = Kept(clean', gone)
    BY <1>1, <1>2, <1>9 DEF Kept
  <1>11. RowsOk(clean', Height)
    <2>1. \A r \in clean' : /\ r \in RowType /\ r.at <= Height /\ r.mark <= Height
                             /\ (r.mark # NoMark => r.at <= r.mark)
      BY <1>1, <1>2, <1>5, <1>6 DEF RowsOk, NoMark
    <2>2. \A r, q \in clean' : Key(r) = Key(q) => r = q
      BY <1>1, <1>2, <1>7 DEF RowsOk
    <2> QED
      BY <2>1, <2>2 DEF RowsOk
  <1>12. Follows(A, clean', Height)
    BY <1>1, <1>2, <1>6, <1>8 DEF Follows
  <1>13. UndoOk(A, clean', newUndo', Height, gone)
    BY <1>1, <1>2, <1>8 DEF UndoOk
  <1>14. \A r \in clean' : r.at = Height => r.n <= txs'
    <2>1. \A r \in clean : r.n \in Nat
      BY <1>2 DEF RowsOk, RowType
    <2> QED
      BY <1>1, <1>2, <1>3, <1>6, <2>1
  <1>15. indexer' \subseteq IndexerType
    <2>1. indexer \subseteq IndexerType
      BY DEF DispenserInv, BoundInv
    <2>2. IndexerCreates(s, a, exps) \subseteq IndexerType
      BY <1>3, <1>4, <1>5 DEF IndexerCreates, IndexerType
    <2> QED
      BY <1>1, <2>1, <2>2
  <1>16. /\ capture' \subseteq Addresses /\ txs' \in Nat /\ newUndo' \subseteq UndoType
         /\ undo \subseteq newUndo' /\ \A u \in newUndo' \ undo : u.block = Height
    BY <1>1, <1>2, <1>3
  <1> QED
    BY <1>1, <1>10, <1>11, <1>12, <1>13, <1>14, <1>15, <1>16, InsideInv DEF A

\* An edit extends the rows it reaches, the clean table's and the stored one's alike.
LEMMA EditInv ==
  ASSUME DispenserInv, NEW s \in Addresses, NEW off \in Offsets, EditDispenser(s, off)
  PROVE  DispenserInv'
  <1> DEFINE e == now + off
             A == CleanAt(Tip)
  <1>1. /\ pc = "open" /\ pc' = "open"
        /\ newUndo' = RecordDispenserExtensionUndo(newRows, newUndo, s)
        /\ newRows' = ExtendOpenDispensers(newRows, s, e)
        /\ clean' = ExtendOpenDispensers(clean, s, e)
        /\ txs' = txs + 1 /\ capture' = capture
        /\ UNCHANGED <<times, rows, undo, past, gone, peak, now>>
    BY DEF EditDispenser, durable
  <1>2. \/ indexer' = indexer
        \/ \E d \in indexer : indexer' = (indexer \ {d}) \cup {[d EXCEPT !.exp = e]}
    BY DEF EditDispenser
  <1>3. /\ newRows = Kept(clean, gone) /\ RowsOk(clean, Height) /\ Follows(A, clean, Height)
        /\ UndoOk(A, clean, newUndo, Height, gone)
        /\ \A r \in clean : r.at = Height => r.n <= txs
        /\ undo \subseteq newUndo /\ \A u \in newUndo \ undo : u.block = Height
    BY <1>1 DEF DispenserInv, OpenInv
  <1>4. TypeOK /\ now \in Int /\ txs \in Nat /\ newUndo \subseteq UndoType /\ capture \subseteq Addresses
    BY DEF DispenserInv, TypeOK
  <1>5. e \in Int
    BY <1>4, TimeAssumption
  <1>6. RowsOk(A, Tip)
    BY AtTip
  <1> HIDE DEF A, e
  <1>7. /\ RowsOk(clean', Height) /\ Follows(A, clean', Height) /\ UndoOk(A, clean', newUndo', Height, gone)
        /\ Kept(clean', gone) = newRows'
        /\ \A q \in clean' : \E r \in clean : Key(q) = Key(r)
        /\ newUndo \subseteq newUndo' /\ \A u \in newUndo' \ newUndo : u.block = Height
        /\ newUndo' \subseteq UndoType
    BY <1>1, <1>3, <1>4, <1>5, <1>6, EditRows
  <1>8. \A r \in clean' : r.at = Height => r.n <= txs'
    <2>1. \A r \in clean : r.n \in Nat
      BY <1>3 DEF RowsOk, RowType
    <2>2. \A q \in clean' : \E r \in clean : q.at = r.at /\ q.n = r.n
      BY <1>7, KeyFields
    <2> QED
      BY <1>1, <1>3, <1>4, <2>1, <2>2
  <1>9. indexer' \subseteq IndexerType
    <2>1. indexer \subseteq IndexerType
      BY DEF DispenserInv, BoundInv
    <2> QED
      BY <1>2, <1>5, <2>1 DEF IndexerType
  <1>10. /\ capture' \subseteq Addresses /\ txs' \in Nat
         /\ undo \subseteq newUndo' /\ \A u \in newUndo' \ undo : u.block = Height
    BY <1>1, <1>3, <1>4, <1>7
  <1> QED
    BY <1>1, <1>7, <1>8, <1>9, <1>10, InsideInv DEF A

\* A cancel is the indexer's alone.
LEMMA CancelInv ==
  ASSUME DispenserInv, CancelDispenser
  PROVE  DispenserInv'
  <1>1. /\ pc = "open" /\ pc' = "open" /\ newUndo' = newUndo /\ newRows' = newRows
        /\ clean' = clean /\ txs' = txs + 1 /\ capture' = capture
        /\ UNCHANGED <<times, rows, undo, past, gone, peak, now>>
    BY DEF CancelDispenser, durable, history
  <1>2. PICK d \in indexer :
           indexer' = (indexer \ {d}) \cup
                      {[d EXCEPT !.status = "cancelling", !.closeAt = now + GraceSeconds]}
    BY DEF CancelDispenser
  <1>3. now \in Int /\ txs \in Nat /\ newUndo \subseteq UndoType /\ capture \subseteq Addresses
        /\ now + GraceSeconds \in Int
    BY GraceAssumption DEF DispenserInv, TypeOK
  <1>4. indexer' \subseteq IndexerType
    <2>1. indexer \subseteq IndexerType
      BY DEF DispenserInv, BoundInv
    <2>2. [d EXCEPT !.status = "cancelling", !.closeAt = now + GraceSeconds] \in IndexerType
      BY <1>3, <2>1 DEF IndexerType
    <2> QED
      BY <1>2, <2>1, <2>2
  <1>5. /\ newRows' = Kept(clean', gone) /\ RowsOk(clean', Height) /\ Follows(CleanAt(Tip), clean', Height)
        /\ UndoOk(CleanAt(Tip), clean', newUndo', Height, gone)
        /\ \A r \in clean : r.at = Height => r.n <= txs
        /\ undo \subseteq newUndo' /\ \A u \in newUndo' \ undo : u.block = Height
    BY <1>1 DEF DispenserInv, OpenInv
  <1>6. \A r \in clean' : r.at = Height => r.n <= txs'
    <2>1. \A r \in clean : r.n \in Nat
      BY <1>1, <1>5 DEF RowsOk, RowType
    <2> QED
      BY <1>1, <1>3, <1>5, <2>1
  <1>7. capture' \subseteq Addresses /\ txs' \in Nat /\ newUndo' \subseteq UndoType
    BY <1>1, <1>3
  <1> QED
    BY <1>1, <1>4, <1>5, <1>6, <1>7, InsideInv

\* A commit stores the block's table on top of the others.
LEMMA CommitInv ==
  ASSUME DispenserInv, CommitBlock
  PROVE  DispenserInv'
  <1> DEFINE A == CleanAt(Tip)
  <1>1. /\ pc = "open" /\ pc' = "purge" /\ times' = Append(times, now)
        /\ rows' = EndOfBlock(newRows) /\ undo' = newUndo /\ clean' = EndOfBlock(clean)
        /\ indexer' = IndexerEndBlock(indexer)
        /\ past' = Append(past, [clean |-> clean', indexer |-> indexer'])
        /\ peak' = IF peak < Height THEN Height ELSE peak
        /\ now' = 0 /\ capture' = {} /\ txs' = 0 /\ newRows' = {} /\ newUndo' = {} /\ gone' = gone
    BY DEF CommitBlock
  <1>2. /\ newRows = Kept(clean, gone) /\ RowsOk(clean, Height) /\ Follows(A, clean, Height)
        /\ UndoOk(A, clean, newUndo, Height, gone)
        /\ undo \subseteq newUndo /\ \A u \in newUndo \ undo : u.block = Height
    BY <1>1 DEF DispenserInv, OpenInv
  <1>3. TypeOK /\ BoundInv /\ ChainInv /\ FrozenInv /\ UndoInv /\ GoneInv
    BY DEF DispenserInv
  <1>4. /\ Tip \in Nat /\ Height \in Nat \ {0} /\ Height = Tip + 1 /\ Height - 1 = Tip
        /\ RowsOk(A, Tip) /\ RowsOk(A, Height - 1)
        /\ peak \in Nat /\ Tip <= peak /\ peak - Tip <= Depth /\ PurgeFloor \in Int /\ PurgeFloor <= Tip
        /\ SafeDepth \in Nat /\ Depth \in Nat
    BY AtTip
  <1> HIDE DEF A
  <1>5. /\ RowsOk(clean', Height) /\ Follows(A, clean', Height)
        /\ UndoOk(A, clean', newUndo, Height, gone) /\ rows' = Kept(clean', gone)
    <2>1. CASE now >= RealignAt
      <3>1. /\ clean' = DeleteOpenDispensers(clean, Height, now)
            /\ rows' = DeleteOpenDispensers(Kept(clean, gone), Height, now)
        BY <1>1, <1>2, <2>1 DEF EndOfBlock
      <3>2. now \in Int
        BY <1>3 DEF TypeOK
      <3> QED
        BY <1>2, <1>4, <3>1, <3>2, ExpiryRows
    <2>2. CASE ~(now >= RealignAt)
      BY <1>1, <1>2, <2>2 DEF EndOfBlock
    <2> QED
      BY <2>1, <2>2
  <1>6. indexer' \subseteq IndexerType
    BY <1>1, <1>3 DEF BoundInv, IndexerEndBlock, IndexerType
  <1> DEFINE e == [clean |-> clean', indexer |-> indexer']
  <1>7. e \in PastType /\ e.clean = clean'
    BY <1>5, <1>6 DEF PastType, RowsOk
  <1> HIDE DEF e
  <1>8. /\ past' \in Seq(PastType) /\ Len(past') = Tip + 1 /\ past'[Tip + 1] = e
        /\ \A h \in 1..Tip : past'[h] = past[h]
    BY <1>1, <1>3, <1>7, AppendProperties DEF BoundInv, e
  <1>9. times' \in Seq(Int) /\ Len(times') = Tip + 1
    BY <1>1, <1>3, AppendProperties DEF TypeOK, Tip
  <1>10. PICK H \in Nat : H = Height
    BY <1>4
  <1>11. Tip' = H /\ \A h \in 0..Tip : CleanAt(h)' = CleanAt(h)
    BY <1>4, <1>8, <1>9, <1>10 DEF Tip, CleanAt
  <1>12. CleanAt(H)' = clean' /\ CleanAt(H - 1)' = A
    <2>1. CleanAt(H)' = clean'
      BY <1>4, <1>7, <1>8, <1>10 DEF CleanAt
    <2>2. H - 1 = Tip /\ H - 1 \in 0..Tip
      BY <1>4, <1>10
    <2>3. CleanAt(H - 1)' = CleanAt(H - 1)
      BY <1>11, <2>2
    <2> QED
      BY <2>1, <2>2, <2>3 DEF A
  <1>13. \A h \in 1..H : h = H \/ h \in 1..Tip
    BY <1>4, <1>10
  <1>14. \A h \in 1..Tip : h - 1 \in 0..Tip /\ h \in 0..Tip
    BY <1>4
  <1>15. /\ PurgeFloor' \in Int /\ PurgeFloor <= PurgeFloor'
         /\ peak' \in Nat /\ H <= peak' /\ peak' - H <= Depth
    BY <1>1, <1>4, <1>10 DEF PurgeFloor
  <1>16. BoundInv'
    <2>1. \A u \in newUndo : u.block <= H
      <3>1. \A u \in undo : u.block \in Nat /\ u.block <= Tip
        BY <1>3 DEF BoundInv, TypeOK, UndoType
      <3>2. \A u \in undo : u.block <= H
        BY <1>4, <1>10, <3>1
      <3>3. \A u \in newUndo \ undo : u.block = H
        BY <1>2, <1>10
      <3> QED
        BY <1>10, <3>2, <3>3
    <2>2. \A k \in gone : k[1] \in Nat /\ k[1] <= H
      <3>1. \A k \in gone : k[1] \in Nat /\ k[1] <= Tip
        BY <1>3 DEF BoundInv
      <3> QED
        BY <1>4, <1>10, <3>1
    <2> QED
      BY <1>1, <1>4, <1>6, <1>8, <1>10, <1>11, <1>15, <2>1, <2>2 DEF BoundInv
  <1>17. ChainInv'
    <2>1. ASSUME NEW h \in 1..H
          PROVE  RowsOk(CleanAt(h)', h) /\ Follows(CleanAt(h - 1)', CleanAt(h)', h)
      <3>1. CASE h = H
        BY <1>5, <1>10, <1>12, <3>1
      <3>2. CASE h \in 1..Tip
        BY <1>3, <1>11, <1>14, <3>2 DEF ChainInv
      <3> QED
        BY <1>13, <3>1, <3>2
    <2> QED
      BY <1>11, <2>1 DEF ChainInv
  <1>18. ASSUME NEW r \in clean', r.at # H
         PROVE  \E a \in A : /\ Key(a) = Key(r)
                             /\ a.mark = NoMark => r.mark \in {NoMark, H}
                             /\ a.mark # NoMark => r = a
    BY <1>5, <1>10, <1>18 DEF Follows
  <1>19. FrozenInv'
    <2>1. ASSUME NEW g \in 1..H, NEW h \in 1..H, g <= h,
                 NEW r \in CleanAt(h)', r.mark # NoMark, r.mark <= g
          PROVE  r \in CleanAt(g)'
      <3>1. CASE h \in 1..Tip
        <4>1. g \in 1..Tip
          BY <1>4, <2>1, <3>1
        <4> QED
          BY <1>3, <1>11, <1>14, <2>1, <3>1, <4>1 DEF FrozenInv
      <3>2. CASE h = H /\ g = H
        BY <2>1, <3>2
      <3>3. CASE h = H /\ g \in 1..Tip
        <4>1. r \in clean'
          BY <1>12, <2>1, <3>3
        <4>2. r.at <= r.mark /\ r.at \in Nat /\ r.mark \in Nat
          BY <1>5, <2>1, <4>1 DEF RowsOk, RowType
        <4>3. r.at # H /\ r.mark # H
          BY <1>4, <1>10, <2>1, <3>3, <4>2
        <4>4. r \in A
          BY <1>18, <2>1, <4>1, <4>3
        <4>5. Tip \in 1..Tip /\ g <= Tip
          BY <1>4, <3>3
        <4> QED
          BY <1>3, <1>11, <1>14, <2>1, <3>3, <4>4, <4>5 DEF FrozenInv, A
      <3> QED
        BY <1>13, <3>1, <3>2, <3>3
    <2> QED
      BY <1>11, <2>1 DEF FrozenInv
  <1>20. UndoInv'
    <2>1. ASSUME NEW h \in 1..H, h > PurgeFloor'
          PROVE  UndoOk(CleanAt(h - 1)', CleanAt(h)', newUndo, h, gone)
      <3>1. CASE h = H
        BY <1>5, <1>10, <1>12, <3>1
      <3>2. CASE h \in 1..Tip
        <4>1. h > PurgeFloor
          BY <1>4, <1>15, <2>1
        <4>2. UndoOk(CleanAt(h - 1), CleanAt(h), undo, h, gone)
          BY <1>3, <3>2, <4>1 DEF UndoInv
        <4>3. h # Height
          BY <1>4, <3>2
        <4>4. \A r : \A u \in newUndo : Undoes(u, h, r) => u \in undo
          BY <1>2, <4>3 DEF Undoes, UndoKey
        <4>5. UndoOk(CleanAt(h - 1), CleanAt(h), newUndo, h, gone)
          BY <1>2, <4>2, <4>4 DEF UndoOk
        <4> QED
          BY <1>11, <1>14, <3>2, <4>5
      <3> QED
        BY <1>13, <3>1, <3>2
    <2> QED
      BY <1>1, <1>11, <2>1 DEF UndoInv
  <1>21. GoneInv'
    <2>1. ASSUME NEW h \in 1..H, h >= PurgeFloor', NEW r \in CleanAt(h)', Key(r) \in gone
          PROVE  r.mark # NoMark /\ r.mark <= PurgeFloor'
      <3>1. r.mark # NoMark /\ r.mark <= PurgeFloor /\ r \in RowType
        <4>1. CASE h = H
          <5>1. r \in clean' /\ Key(r)[1] <= Tip /\ Key(r)[1] = r.at
            BY <1>3, <1>12, <2>1, <4>1 DEF BoundInv, Key
          <5>2. r.at # H
            BY <1>4, <1>10, <5>1
          <5>3. PICK a \in A : Key(a) = Key(r) /\ (a.mark # NoMark => r = a)
            BY <1>18, <5>1, <5>2
          <5>4. a.mark # NoMark /\ a.mark <= PurgeFloor
            BY <2>1, <5>3, GoneMarked DEF A
          <5> QED
            BY <1>5, <5>1, <5>3, <5>4 DEF RowsOk
        <4>2. CASE h \in 1..Tip
          <5>1. h >= PurgeFloor /\ CleanAt(h)' = CleanAt(h)
            BY <1>4, <1>11, <1>14, <1>15, <2>1, <4>2
          <5> QED
            BY <1>3, <2>1, <4>2, <5>1 DEF GoneInv, ChainInv, RowsOk
        <4> QED
          BY <1>13, <4>1, <4>2
      <3> QED
        BY <1>4, <1>15, <3>1 DEF RowType
    <2> QED
      BY <1>1, <1>11, <2>1 DEF GoneInv
  <1>22. TableInv'
    BY <1>1, <1>5, <1>11, <1>12 DEF TableInv
  <1>23. OpenInv'
    BY <1>1 DEF OpenInv
  <1>24. TypeOK'
    <2>1. rows' \subseteq RowType /\ \A r \in rows' : r.at <= H /\ r.mark <= H
      BY <1>5, <1>10 DEF Kept, RowsOk
    <2> QED
      BY <1>1, <1>3, <1>9, <1>11, <1>15, <2>1 DEF TypeOK
  <1> QED
    BY <1>16, <1>17, <1>19, <1>20, <1>21, <1>22, <1>23, <1>24 DEF DispenserInv

\* What leaves the stored tables alone and no block open.
LEMMA IdleInv ==
  ASSUME DispenserInv, UNCHANGED <<times, rows, undo, past, gone, peak>>,
         pc' \in {"idle", "purge"}, indexer' \subseteq IndexerType, clean' = CleanAt(Tip),
         now' \in Int, capture' \subseteq Addresses, txs' \in Nat,
         newRows' \subseteq RowType, newUndo' \subseteq UndoType
  PROVE  DispenserInv'
  <1>1. /\ BoundInv' /\ ChainInv' /\ FrozenInv' /\ UndoInv' /\ GoneInv'
        /\ rows' = Kept(CleanAt(Tip), gone)' /\ Tip' = Tip /\ Height' = Height
        /\ \A h : CleanAt(h)' = CleanAt(h)
    BY DurableKept
  <1>2. TableInv'
    <2>1. CleanAt(Tip)' = CleanAt(Tip)
      BY <1>1
    <2> QED
      BY <1>1, <2>1 DEF TableInv
  <1>3. OpenInv'
    BY DEF OpenInv
  <1>4. TypeOK'
    BY <1>1 DEF DispenserInv, TypeOK
  <1> QED
    BY <1>1, <1>2, <1>3, <1>4 DEF DispenserInv

\* A failed block leaves the stored tables.
LEMMA AbortInv ==
  ASSUME DispenserInv, AbortBlock
  PROVE  DispenserInv'
  <1>1. /\ pc' = "idle" /\ now' = 0 /\ capture' = {} /\ txs' = 0 /\ newRows' = {} /\ newUndo' = {}
        /\ clean' = CleanAt(Tip)
        /\ UNCHANGED <<times, rows, undo, past, gone, peak>>
    BY DEF AbortBlock, durable, CleanAt
  <1>2. indexer' \subseteq IndexerType
    <2>1. CASE Tip = 0
      BY <2>1 DEF AbortBlock
    <2>2. CASE Tip # 0
      <3>1. past[Tip] \in PastType
        BY <2>2, AtTip, ElementOfSeq DEF DispenserInv, BoundInv
      <3> QED
        BY <2>2, <3>1 DEF AbortBlock, PastType
    <2> QED
      BY <2>1, <2>2
  <1> QED
    BY <1>1, <1>2, IdleInv

\* A purge deletes rows whose mark no rollback can take back.
LEMMA PurgeInv ==
  ASSUME DispenserInv, PurgeExpiredDispensers
  PROVE  DispenserInv'
  <1>1. /\ pc = "purge" /\ pc' = "idle" /\ times' = times /\ past' = past /\ peak' = peak
        /\ indexer' = indexer /\ clean' = clean /\ now' = now /\ capture' = capture
        /\ txs' = txs /\ newRows' = newRows /\ newUndo' = newUndo
    BY DEF PurgeExpiredDispensers, work
  <1>2. TypeOK /\ BoundInv /\ ChainInv /\ FrozenInv /\ UndoInv /\ GoneInv /\ TableInv
    BY DEF DispenserInv
  <1>3. clean = CleanAt(Tip) /\ rows = Kept(CleanAt(Tip), gone)
    BY <1>1, <1>2 DEF TableInv
  <1>4. CASE SafeHeight < 0
    <2>1. UNCHANGED <<times, rows, undo, past, gone, peak>>
      BY <1>1, <1>4 DEF PurgeExpiredDispensers
    <2>2. /\ indexer' \subseteq IndexerType /\ now' \in Int /\ capture' \subseteq Addresses /\ txs' \in Nat
          /\ newRows' \subseteq RowType /\ newUndo' \subseteq UndoType
      BY <1>1, <1>2 DEF TypeOK, BoundInv
    <2> QED
      BY <1>1, <1>3, <2>1, <2>2, IdleInv
  <1>5. CASE ~(SafeHeight < 0)
    <2> DEFINE D == {q \in rows : Purgeable(q)}
    <2>1. /\ rows' = {r \in rows : ~Purgeable(r)} /\ gone' = gone \cup {Key(r) : r \in D}
          /\ undo' \subseteq undo /\ \A u \in undo : u.block > SafeHeight => u \in undo'
      BY <1>5 DEF PurgeExpiredDispensers
    <2>2. /\ Tip \in Nat /\ RowsOk(CleanAt(Tip), Tip) /\ CleanAt(Tip) \subseteq RowType
          /\ peak \in Nat /\ Tip <= peak /\ PurgeFloor \in Int /\ PurgeFloor <= Tip /\ SafeDepth \in Nat
      BY AtTip
    <2>3. SafeHeight \in Int /\ SafeHeight <= PurgeFloor
      BY <2>2 DEF SafeHeight, PurgeFloor
    <2>4. \A q \in D : /\ q \in CleanAt(Tip) /\ q \in RowType /\ q \in rows
                       /\ q.mark # NoMark /\ q.mark <= PurgeFloor /\ q.at <= Tip
      <3>1. \A q \in D : q \in CleanAt(Tip) /\ q \in rows /\ q.mark # NoMark /\ q.mark <= SafeHeight
        BY <1>3 DEF Purgeable, Kept
      <3>2. \A q \in D : q \in RowType /\ q.mark \in Nat /\ q.at <= Tip
        BY <2>2, <3>1 DEF RowsOk, RowType
      <3>3. \A m \in Nat : m <= SafeHeight => m <= PurgeFloor
        BY <2>2, <2>3
      <3> HIDE DEF D
      <3> QED
        BY <3>1, <3>2, <3>3
    <2>5. \A r \in rows : r \in CleanAt(Tip) /\ r \in RowType
      BY <1>3, <2>2 DEF Kept
    <2>6. Tip' = Tip /\ PurgeFloor' = PurgeFloor /\ \A h : CleanAt(h)' = CleanAt(h)
      BY <1>1 DEF Tip, PurgeFloor, CleanAt
    <2>7. rows' = Kept(CleanAt(Tip), gone')
      <3>1. \A r \in rows : Key(r) \in {Key(q) : q \in D} => r \in D
        BY <2>2, <2>4, <2>5 DEF RowsOk
      <3>2. \A r \in CleanAt(Tip) : Key(r) \notin gone => r \in rows
        BY <1>3 DEF Kept
      <3>3. \A r \in rows : Key(r) \notin gone
        BY <1>3 DEF Kept
      <3>4. \A r \in rows' : r \in CleanAt(Tip) /\ Key(r) \notin gone'
        <4>1. \A r \in rows' : r \in rows /\ r \notin D
          BY <2>1
        <4>2. \A k \in gone' : k \in gone \/ k \in {Key(q) : q \in D}
          BY <2>1
        <4> HIDE DEF D
        <4> QED
          BY <2>5, <3>1, <3>3, <4>1, <4>2
      <3>5. \A r \in CleanAt(Tip) : Key(r) \notin gone' => r \in rows'
        BY <2>1, <3>2
      <3> QED
        BY <3>4, <3>5 DEF Kept
    <2> HIDE DEF D
    <2>8. BoundInv'
      <3>1. \A k \in gone' : k[1] \in Nat /\ k[1] <= Tip
        <4>1. \A q \in D : Key(q)[1] = q.at /\ q.at \in Nat
          BY <2>4 DEF Key, RowType
        <4> QED
          BY <1>2, <2>1, <2>4, <4>1 DEF BoundInv
      <3> QED
        BY <1>1, <1>2, <2>1, <2>6, <3>1 DEF BoundInv
    <2>9. ChainInv' /\ FrozenInv'
      BY <1>2, <2>6 DEF ChainInv, FrozenInv
    <2>10. UndoInv'
      <3>1. ASSUME NEW h \in 1..Tip, h > PurgeFloor
            PROVE  UndoOk(CleanAt(h - 1), CleanAt(h), undo', h, gone')
        <4>1. UndoOk(CleanAt(h - 1), CleanAt(h), undo, h, gone)
          BY <1>2, <3>1 DEF UndoInv
        <4>2. h > SafeHeight
          BY <2>2, <2>3, <3>1
        <4>3. \A r : \A u \in undo : Undoes(u, h, r) => u \in undo'
          BY <2>1, <4>2 DEF Undoes, UndoKey
        <4>4. gone \subseteq gone' /\ undo' \subseteq undo
          BY <2>1
        <4> QED
          BY <4>1, <4>3, <4>4 DEF UndoOk
      <3> QED
        BY <2>6, <3>1 DEF UndoInv
    <2>11. GoneInv'
      <3>1. ASSUME NEW h \in 1..Tip, h >= PurgeFloor, NEW r \in CleanAt(h), Key(r) \in gone'
            PROVE  r.mark # NoMark /\ r.mark <= PurgeFloor
        <4>1. CASE Key(r) \in gone
          BY <1>2, <3>1, <4>1 DEF GoneInv
        <4>2. CASE Key(r) \notin gone
          <5>1. PICK q \in D : Key(r) = Key(q)
            BY <2>1, <3>1, <4>2
          <5>2. q.mark \in Nat /\ q.mark <= h
            BY <2>2, <2>4, <3>1 DEF RowType
          <5>3. Tip \in 1..Tip /\ h <= Tip
            BY <2>2
          <5>4. q \in CleanAt(h)
            BY <1>2, <2>4, <5>2, <5>3 DEF FrozenInv
          <5>5. r = q
            BY <1>2, <5>1, <5>4 DEF ChainInv, RowsOk
          <5> QED
            BY <2>4, <5>5
        <4> QED
          BY <4>1, <4>2
      <3> QED
        BY <2>6, <3>1 DEF GoneInv
    <2>12. TableInv'
      <3>1. CleanAt(Tip)' = CleanAt(Tip)
        BY <2>6
      <3> QED
        BY <1>1, <1>3, <2>7, <3>1 DEF TableInv
    <2>13. OpenInv'
      BY <1>1 DEF OpenInv
    <2>14. TypeOK'
      BY <1>1, <1>2, <2>1, <2>6 DEF TypeOK
    <2> QED
      BY <2>8, <2>9, <2>10, <2>11, <2>12, <2>13, <2>14 DEF DispenserInv
  <1> QED
    BY <1>4, <1>5

\* Deleting the top block leaves the blocks below it.
LEMMA ButLast ==
  ASSUME NEW S, NEW s \in Seq(S), s # <<>>
  PROVE  LET t == SubSeq(s, 1, Len(s) - 1)
         IN  /\ t \in Seq(S) /\ Len(t) = Len(s) - 1
             /\ \A h \in 1..Len(t) : h \in 1..Len(s) /\ t[h] = s[h]
  <1>1. PICK n \in Nat : Len(s) = n + 1
    <2>1. Len(s) \in Nat /\ Len(s) # 0
      BY EmptySeq, LenProperties
    <2>2. Len(s) - 1 \in Nat /\ Len(s) = (Len(s) - 1) + 1
      BY <2>1
    <2> QED
      BY <2>2
  <1>2. \A i \in 1..n : i \in 1..Len(s) /\ s[i] \in S
    BY <1>1, ElementOfSeq
  <1>3. /\ SubSeq(s, 1, n) \in Seq(S)
        /\ Len(SubSeq(s, 1, n)) = IF 1 <= n THEN n - 1 + 1 ELSE 0
        /\ \A i \in 1 .. n - 1 + 1 : SubSeq(s, 1, n)[i] = s[1 + i - 1]
    BY <1>2, SubSeqProperties
  <1>4. Len(s) - 1 = n
    BY <1>1
  <1> DEFINE t == SubSeq(s, 1, n)
  <1>5. Len(t) = n /\ \A i \in 1..n : t[i] = s[i]
    BY <1>3
  <1> QED
    BY <1>2, <1>3, <1>4, <1>5

\* A rollback gives back the table of the block below.
LEMMA RollBackInv ==
  ASSUME DispenserInv, RollBackTop
  PROVE  DispenserInv'
  <1>1. /\ pc = "idle" /\ pc' = "idle" /\ Tip > 0 /\ peak - Tip < Depth /\ peak' = peak
        /\ rows' = DeleteBlockRows(rows, Tip) /\ undo' = {u \in undo : u.block # Tip}
        /\ times' = SubSeq(times, 1, Tip - 1) /\ past' = SubSeq(past, 1, Tip - 1)
        /\ clean' = IF Tip = 1 THEN {} ELSE past[Tip - 1].clean
        /\ indexer' = IF Tip = 1 THEN {} ELSE past[Tip - 1].indexer
        /\ gone' = {k \in gone : k[1] # Tip}
        /\ now' = now /\ capture' = capture
        /\ txs' = txs /\ newRows' = newRows /\ newUndo' = newUndo
    BY DEF RollBackTop, work
  <1>2. TypeOK /\ BoundInv /\ ChainInv /\ FrozenInv /\ UndoInv /\ GoneInv /\ TableInv
    BY DEF DispenserInv
  <1>3. /\ Tip \in Nat /\ peak \in Nat /\ Tip <= peak /\ SafeDepth \in Nat /\ Depth \in Nat
        /\ Depth <= SafeDepth /\ PurgeFloor \in Int /\ PurgeFloor <= Tip
    BY AtTip
  <1>4. PICK n \in Nat : n = Tip - 1 /\ n + 1 = Tip
    BY <1>1, <1>3
  <1>5. /\ times' \in Seq(Int) /\ Len(times') = n
        /\ past' \in Seq(PastType) /\ Len(past') = n /\ \A h \in 1..n : past'[h] = past[h]
    <2>1. times \in Seq(Int) /\ times # <<>> /\ Len(times) = Tip
      BY <1>1, <1>2, <1>3, EmptySeq DEF TypeOK, Tip
    <2>2. past \in Seq(PastType) /\ past # <<>> /\ Len(past) = Tip
      BY <1>1, <1>2, <1>3, EmptySeq DEF BoundInv
    <2> QED
      BY <1>1, <1>4, <2>1, <2>2, ButLast
  <1>6. Tip' = n /\ PurgeFloor' = PurgeFloor /\ \A h \in 0..n : CleanAt(h)' = CleanAt(h)
    BY <1>1, <1>5 DEF Tip, PurgeFloor, CleanAt
  <1>7. \A h \in 1..n : h \in 1..Tip /\ h - 1 \in 0..n /\ h \in 0..n /\ h # Tip
    BY <1>4
  <1>8. /\ RowsOk(CleanAt(n), n) /\ RowsOk(CleanAt(Tip), Tip) /\ Follows(CleanAt(n), CleanAt(Tip), Tip)
        /\ UndoOk(CleanAt(n), CleanAt(Tip), undo, Tip, gone)
    <2>1. Tip \in 1..Tip /\ Tip > PurgeFloor
      BY <1>1, <1>3 DEF PurgeFloor
    <2>2. RowsOk(CleanAt(n), n)
      <3>1. CASE n = 0
        BY <3>1 DEF CleanAt, RowsOk
      <3>2. CASE n # 0
        BY <1>2, <1>4, <3>2 DEF ChainInv
      <3> QED
        BY <3>1, <3>2
    <2> QED
      BY <1>2, <1>4, <2>1, <2>2 DEF ChainInv, UndoInv
  <1>9. \A h \in 0..n : \A r \in CleanAt(h) : r.at # Tip
    <2>1. ASSUME NEW h \in 0..n, NEW r \in CleanAt(h)
          PROVE  r.at # Tip
      <3>1. h \in 1..Tip
        BY <1>4 DEF CleanAt
      <3>2. r.at <= h /\ r.at \in Nat
        BY <1>2, <3>1 DEF ChainInv, RowsOk, RowType
      <3> QED
        BY <1>4, <3>2
    <2> QED
      BY <2>1
  <1>10. \A h \in 0..n : \A r \in CleanAt(h) : Key(r) \in gone' <=> Key(r) \in gone
    BY <1>1, <1>9 DEF Key
  <1>11. rows' = Kept(CleanAt(n), gone')
    <2>1. rows = Kept(CleanAt(Tip), gone)
      BY <1>2 DEF TableInv
    <2>2. rows' = Kept(CleanAt(n), gone)
      BY <1>1, <1>3, <1>4, <1>8, <2>1, RestoredRows
    <2>3. n \in 0..n
      OBVIOUS
    <2> QED
      BY <1>10, <2>2, <2>3 DEF Kept
  <1>12. clean' = CleanAt(n)
    BY <1>1, <1>4 DEF CleanAt
  <1>13. indexer' \subseteq IndexerType
    <2>1. CASE Tip = 1
      BY <1>1, <2>1
    <2>2. CASE Tip # 1
      <3>1. Tip - 1 \in 1..Len(past)
        BY <1>1, <1>2, <1>3, <2>2 DEF BoundInv
      <3>2. past[Tip - 1] \in PastType
        BY <1>2, <3>1, ElementOfSeq DEF BoundInv
      <3> QED
        BY <1>1, <2>2, <3>2 DEF PastType
    <2> QED
      BY <2>1, <2>2
  <1>14. BoundInv'
    <2>1. \A u \in undo' : u.block <= n
      <3>1. \A u \in undo' : u.block \in Nat /\ u.block <= Tip /\ u.block # Tip
        BY <1>1, <1>2 DEF BoundInv, TypeOK, UndoType
      <3> QED
        BY <1>4, <3>1
    <2>2. \A k \in gone' : k[1] \in Nat /\ k[1] <= n
      <3>1. \A k \in gone' : k[1] \in Nat /\ k[1] <= Tip /\ k[1] # Tip
        BY <1>1, <1>2 DEF BoundInv
      <3> QED
        BY <1>4, <3>1
    <2>3. peak - n <= Depth
      BY <1>1, <1>3, <1>4
    <2> QED
      BY <1>1, <1>5, <1>6, <1>13, <2>1, <2>2, <2>3 DEF BoundInv
  <1>15. ChainInv'
    BY <1>2, <1>6, <1>7 DEF ChainInv
  <1>16. FrozenInv'
    BY <1>2, <1>6, <1>7 DEF FrozenInv
  <1>17. UndoInv'
    <2>1. ASSUME NEW h \in 1..n, h > PurgeFloor
          PROVE  UndoOk(CleanAt(h - 1), CleanAt(h), undo', h, gone')
      <3>1. UndoOk(CleanAt(h - 1), CleanAt(h), undo, h, gone)
        BY <1>2, <1>7, <2>1 DEF UndoInv
      <3>2. \A r : \A u \in undo : Undoes(u, h, r) => u \in undo'
        BY <1>1, <1>7 DEF Undoes, UndoKey
      <3>3. undo' \subseteq undo /\ \A r \in CleanAt(h - 1) : Key(r) \in gone' <=> Key(r) \in gone
        BY <1>1, <1>7, <1>10
      <3> QED
        BY <3>1, <3>2, <3>3 DEF UndoOk
    <2> QED
      BY <1>6, <1>7, <2>1 DEF UndoInv
  <1>18. GoneInv'
    <2>1. gone' \subseteq gone
      BY <1>1
    <2> QED
      BY <1>2, <1>6, <1>7, <2>1 DEF GoneInv
  <1>19. TableInv'
    <2>1. CleanAt(n)' = CleanAt(n)
      BY <1>6
    <2> QED
      BY <1>6, <1>11, <1>12, <2>1 DEF TableInv
  <1>20. OpenInv'
    BY <1>1 DEF OpenInv
  <1>21. TypeOK'
    <2>1. rows' \subseteq RowType /\ \A r \in rows' : r.at <= n /\ r.mark <= n
      BY <1>8, <1>11 DEF Kept, RowsOk
    <2>2. undo' \subseteq undo /\ n <= peak
      BY <1>1, <1>3, <1>4
    <2> QED
      BY <1>1, <1>2, <1>5, <1>6, <2>1, <2>2 DEF TypeOK
  <1> QED
    BY <1>14, <1>15, <1>16, <1>17, <1>18, <1>19, <1>20, <1>21 DEF DispenserInv

-----------------------------------------------------------------------------
(* The theorems. *)

\* A first boot.
LEMMA InitInv == Init => DispenserInv
  <1> SUFFICES ASSUME Init PROVE DispenserInv
    OBVIOUS
  <1>1. /\ times = <<>> /\ rows = {} /\ undo = {} /\ pc = "idle" /\ now = 0 /\ capture = {} /\ txs = 0
        /\ newRows = {} /\ newUndo = {} /\ peak = 0 /\ indexer = {} /\ clean = {} /\ past = <<>>
        /\ gone = {}
    BY DEF Init
  <1>2. Tip = 0 /\ Len(past) = 0 /\ times \in Seq(Int) /\ past \in Seq(PastType)
    BY <1>1 DEF Tip
  <1>3. TypeOK
    BY <1>1, <1>2 DEF TypeOK
  <1>4. BoundInv
    BY <1>1, <1>2, DepthAssumption DEF BoundInv
  <1>5. ChainInv /\ FrozenInv /\ UndoInv /\ GoneInv
    BY <1>2 DEF ChainInv, FrozenInv, UndoInv, GoneInv
  <1>6. TableInv /\ OpenInv
    BY <1>1, <1>2 DEF TableInv, OpenInv, CleanAt, Kept
  <1> QED
    BY <1>3, <1>4, <1>5, <1>6 DEF DispenserInv

\* One step of any kind.
LEMMA DispenserStep == DispenserInv /\ [Next]_vars => DispenserInv'
  <1> SUFFICES ASSUME DispenserInv, [Next]_vars PROVE DispenserInv'
    OBVIOUS
  <1>1. ASSUME UNCHANGED vars PROVE DispenserInv'
    <2>1. /\ UNCHANGED <<times, rows, undo, past, gone, peak>>
          /\ pc' = pc /\ indexer' = indexer /\ clean' = clean /\ now' = now /\ capture' = capture
          /\ txs' = txs /\ newRows' = newRows /\ newUndo' = newUndo
      BY <1>1 DEF vars, durable, work, history
    <2>2. TypeOK /\ BoundInv /\ TableInv /\ OpenInv
      BY DEF DispenserInv
    <2>3. CASE pc = "open"
      BY <2>1, <2>2, <2>3, InsideInv DEF TypeOK, BoundInv, OpenInv
    <2>4. CASE pc # "open"
      BY <2>1, <2>2, <2>4, IdleInv DEF TypeOK, BoundInv, TableInv
    <2> QED
      BY <2>3, <2>4
  <1>2. ASSUME PurgeFails PROVE DispenserInv'
    <2>1. /\ UNCHANGED <<times, rows, undo, past, gone, peak>>
          /\ pc = "purge" /\ pc' = "idle" /\ indexer' = indexer /\ clean' = clean /\ now' = now
          /\ capture' = capture /\ txs' = txs /\ newRows' = newRows /\ newUndo' = newUndo
      BY <1>2 DEF PurgeFails, durable, work, history
    <2>2. TypeOK /\ BoundInv /\ TableInv
      BY DEF DispenserInv
    <2> QED
      BY <2>1, <2>2, IdleInv DEF TypeOK, BoundInv, TableInv
  <1>3. ASSUME Done PROVE DispenserInv'
    BY <1>1, <1>3 DEF Done
  <1> QED
    BY <1>1, <1>2, <1>3, BeginInv, RegisterInv, EditInv, CancelInv, CommitInv, AbortInv, PurgeInv,
       RollBackInv DEF Next

\* DispenserInv holds in every state: the stored tables, the undo rows and the
\* keys of the purged rows stay in line with the history of the clean table
\* (storeBlock, purgeExpiredDispensers, deleteBlockRows).
THEOREM DispenserInvariant == Spec => []DispenserInv
  BY InitInv, DispenserStep, PTL DEF Spec

\* Between blocks the table is the one a decode of the stored chain from its
\* first block writes, less the purged rows, whatever was registered, edited,
\* aborted, purged and rolled back (restoreDispenserExtensions, deleteBlockRows).
THEOREM TableReversible == Spec => []Reversible
  <1>1. DispenserInv => Reversible
    BY DEF DispenserInv, TableInv, Reversible, Kept
  <1> QED
    BY <1>1, DispenserInvariant, PTL

\* No rollback within the safe depth reopens a purged dispenser, and no mark of
\* a stored row names a block that is gone (purgeExpiredDispensers,
\* assertWithinSafeDepth).
THEOREM PurgedExpired == Spec => []PurgedStayExpired
  <1>1. DispenserInv => PurgedStayExpired
    <2> SUFFICES ASSUME DispenserInv, NEW r \in clean, Key(r) \in gone
                 PROVE  r.mark # NoMark
      BY DEF PurgedStayExpired, DispenserInv
    <2>1. CASE pc # "open"
      BY <2>1, GoneMarked DEF DispenserInv, TableInv
    <2>2. CASE pc = "open"
      <3>1. Follows(CleanAt(Tip), clean, Height)
        BY <2>2 DEF DispenserInv, OpenInv
      <3>2. r.at # Height
        <4>1. Key(r)[1] = r.at /\ Key(r)[1] \in Nat /\ Key(r)[1] <= Tip
          BY DEF DispenserInv, BoundInv, Key
        <4> QED
          BY <4>1, AtTip
      <3>3. PICK a \in CleanAt(Tip) : Key(a) = Key(r)
        BY <3>1, <3>2 DEF Follows
      <3>4. a.mark # NoMark
        BY <3>3, GoneMarked
      <3> QED
        BY <3>1, <3>3, <3>4 DEF Follows
    <2> QED
      BY <2>1, <2>2
  <1> QED
    BY <1>1, DispenserInvariant, PTL

-----------------------------------------------------------------------------
(* The capture set above the gates: every dispenser the indexer still fills  *)
(* has a row that keeps its address captured.                                *)

\* The indexer's dispensers after block h, and the key of a dispenser's row.
IndexerAt(h) == IF h = 0 THEN {} ELSE past[h].indexer
NameOf(d) == <<d.at, d.n, d.addr>>

\* The gates have been in force at the times T of the first h blocks.
ArmedTo(T, h) == \A g \in 1..h : GatesArmed(T[g])

\* The row of a dispenser that is filled: it outlives it, and stays unmarked as
\* long as the dispenser is open.
Backs(r, d) ==
    /\ Key(r) = NameOf(d) /\ r.src = d.src /\ d.exp <= r.exp
    /\ d.status = "open" => r.mark = NoMark

\* The row of a cancelled dispenser was open at the time of the cancel.
OpenAtCancel(T, r, d) ==
    LET cancelled == d.closeAt - GraceSeconds
    IN  r.exp >= cancelled \/ (r.mark # NoMark /\ T[r.mark] >= cancelled)

\* After block h every dispenser D that is filled has such a row in R, and a
\* cancelled one has not closed yet.
Carried(T, D, R, h) ==
    \A d \in D : Fillable(d) =>
        \E r \in R : /\ Backs(r, d)
                     /\ d.status = "cancelling" => T[h] < d.closeAt /\ OpenAtCancel(T, r, d)

\* The same inside the block in hand, where the cancel may be this block's.
Held(d) ==
    \E r \in clean :
        /\ Backs(r, d)
        /\ d.status = "cancelling" =>
              \/ OpenAtCancel(times, r, d)
              \/ r.mark = NoMark /\ d.closeAt = now + GraceSeconds
CapturedOrPurged(d) == d.addr \in capture \/ (reorged /\ NameOf(d) \in gone)

ServedInv == pc # "open" => indexer = IndexerAt(Tip)
CarriedInv == \A h \in 1..Tip : ArmedTo(times, h) => Carried(times, IndexerAt(h), CleanAt(h), h)
UnpurgedInv == ~reorged /\ ArmedTo(times, Tip) =>
                  \A d \in IndexerAt(Tip) : Fillable(d) => NameOf(d) \notin gone
DecodeInv ==
    pc = "open" /\ ArmedTo(times, Tip) /\ GatesArmed(now) =>
        /\ \A r \in clean : r.mark <= Tip
        /\ \A d \in indexer : Fillable(d) =>
              Held(d) /\ CapturedOrPurged(d) /\ (reorged \/ NameOf(d) \notin gone)

CaptureInv == ServedInv /\ CarriedInv /\ UnpurgedInv /\ DecodeInv

\* What a block says of the blocks below it depends on their times only.
LEMMA CarriedAt ==
  ASSUME NEW T, NEW T2, NEW h \in Nat \ {0}, NEW D, NEW R, RowsOk(R, h),
         \A g \in 1..h : T2[g] = T[g]
  PROVE  /\ ArmedTo(T2, h) <=> ArmedTo(T, h)
         /\ Carried(T, D, R, h) => Carried(T2, D, R, h)
  <1>1. \A r \in R : r.mark # NoMark => r.mark \in 1..h
    BY DEF RowsOk, RowType, NoMark
  <1>2. h \in 1..h
    OBVIOUS
  <1>3. \A r \in R : \A d : OpenAtCancel(T, r, d) => OpenAtCancel(T2, r, d)
    BY <1>1 DEF OpenAtCancel
  <1> QED
    BY <1>2, <1>3 DEF ArmedTo, Carried

\* The stored part, while no block is stored, purged or rolled back.
LEMMA StoredKept ==
  ASSUME CaptureInv, UNCHANGED <<times, past, gone, reorged>>
  PROVE  /\ CarriedInv' /\ UnpurgedInv' /\ Tip' = Tip
         /\ \A h : IndexerAt(h)' = IndexerAt(h)
  <1>1. times' = times /\ past' = past /\ gone' = gone /\ reorged' = reorged
    OBVIOUS
  <1>2. Tip' = Tip /\ \A h : IndexerAt(h)' = IndexerAt(h) /\ CleanAt(h)' = CleanAt(h)
    BY <1>1 DEF Tip, IndexerAt, CleanAt
  <1>3. CarriedInv'
    BY <1>1, <1>2 DEF CaptureInv, CarriedInv
  <1>4. UnpurgedInv'
    BY <1>1, <1>2 DEF CaptureInv, UnpurgedInv
  <1> QED
    BY <1>2, <1>3, <1>4

\* The floor of a block is no later than the one its parent's time gives.
LEMMA FloorBelowParent ==
  ASSUME DispenserInv, Tip # 0, NEW t \in Int, ParentFloorAt <= t
  PROVE  /\ times[Tip] \in Int /\ CancelGraceFloor(t) \in Int
         /\ CancelGraceFloor(t) <= times[Tip] - GraceSeconds
  <1>1. Tip \in 1..Len(times) /\ Tip > 0
    BY AtTip DEF Tip
  <1>2. PICK p \in Int : p = times[Tip]
    BY <1>1, ElementOfSeq DEF DispenserInv, TypeOK
  <1>3. ParentFloorAt \in Int /\ GraceSeconds \in Int
    BY GateAssumption, GraceAssumption
  <1>4. CancelGraceFloor(t) = (IF p < t THEN p ELSE t) - GraceSeconds
    BY <1>1, <1>2, <1>3 DEF CancelGraceFloor
  <1> QED
    BY <1>2, <1>3, <1>4

\* A block begins: the rows of the dispensers still filled are within grace.
LEMMA BeginCaptures ==
  ASSUME DispenserInv, CaptureInv, NEW step \in TimeSteps, BeginBlock(step)
  PROVE  CaptureInv'
  <1> DEFINE t == IF Tip = 0 THEN FirstTime ELSE times[Tip] + step
  <1>1. /\ pc = "idle" /\ pc' = "open" /\ now' = t /\ newRows' = StartOfBlock(rows, t)
        /\ capture' = GetAllOpenDispenserAddresses(newRows', t)
        /\ clean' = StartOfBlock(clean, t) /\ indexer' = indexer
        /\ UNCHANGED <<times, past, gone, reorged>>
    BY DEF BeginBlock, durable
  <1>2. t \in Int
    BY AtTip, ElementOfSeq, TimeAssumption DEF DispenserInv, TypeOK, Tip
  <1>3. rows = Kept(CleanAt(Tip), gone) /\ clean = CleanAt(Tip) /\ indexer = IndexerAt(Tip)
    BY <1>1 DEF DispenserInv, TableInv, CaptureInv, ServedInv
  <1> HIDE DEF t
  <1>4. CarriedInv' /\ UnpurgedInv' /\ Tip' = Tip
    BY <1>1, StoredKept
  <1>5. ServedInv'
    BY <1>1 DEF ServedInv
  <1>6. DecodeInv'
    <2>1. SUFFICES ASSUME ArmedTo(times, Tip), GatesArmed(t)
                   PROVE  DecodeInv'
      BY <1>1, <1>4 DEF DecodeInv
    <2>2. RealignAt <= t /\ CancelGraceAt <= t /\ ParentFloorAt <= t
      BY <2>1 DEF GatesArmed
    <2>3. t >= RealignAt /\ t >= CancelGraceAt
      BY <1>2, <2>2, GateAssumption
    <2>4. clean' = CleanAt(Tip) /\ newRows' = rows
      BY <1>1, <1>3, <2>3 DEF StartOfBlock
    <2>5. RowsOk(CleanAt(Tip), Tip) /\ Tip \in Nat /\ Height = Tip + 1 /\ CleanAt(Tip) \subseteq RowType
      BY AtTip
    <2>6. \A r \in clean' : r.mark <= Tip
      BY <2>4, <2>5 DEF RowsOk
    <2>7. ASSUME NEW d \in indexer, Fillable(d)
          PROVE  Held(d)' /\ CapturedOrPurged(d)' /\ (reorged \/ NameOf(d) \notin gone)
      <3>1. Tip # 0 /\ Tip \in 1..Tip
        BY <1>3, <2>5, <2>7 DEF IndexerAt
      <3>2. PICK r \in CleanAt(Tip) :
               /\ Backs(r, d)
               /\ d.status = "cancelling" => times[Tip] < d.closeAt /\ OpenAtCancel(times, r, d)
        BY <1>3, <2>1, <2>7, <3>1 DEF CaptureInv, CarriedInv, Carried
      <3>3. Held(d)'
        BY <1>1, <2>4, <3>2 DEF Held
      <3>4. reorged \/ NameOf(d) \notin gone
        BY <1>3, <2>1, <2>7 DEF CaptureInv, UnpurgedInv
      <3>5. ASSUME NameOf(d) \notin gone
            PROVE  d.addr \in capture'
        <4>1. r \in rows /\ r.addr = d.addr /\ r \in RowType
          BY <1>3, <2>5, <3>2, <3>5 DEF Kept, Backs, Key, NameOf
        <4>2. CASE d.status = "open"
          BY <1>1, <2>4, <3>2, <4>1, <4>2 DEF Backs, GetAllOpenDispenserAddresses
        <4>3. CASE d.status = "cancelling"
          <5>1. /\ times[Tip] \in Int /\ CancelGraceFloor(t) \in Int
                /\ CancelGraceFloor(t) <= times[Tip] - GraceSeconds
            BY <1>2, <2>2, <3>1, FloorBelowParent
          <5>2. d.closeAt \in Int /\ r.exp \in Int /\ GraceSeconds \in Int
            BY <4>1, GraceAssumption DEF DispenserInv, BoundInv, IndexerType, RowType
          <5>3. CASE r.exp >= d.closeAt - GraceSeconds
            <6>1. r.exp >= CancelGraceFloor(t)
              BY <3>2, <4>3, <5>1, <5>2, <5>3
            <6> QED
              BY <1>1, <2>3, <2>4, <4>1, <6>1 DEF GetAllOpenDispenserAddresses
          <5>4. CASE r.mark # NoMark /\ times[r.mark] >= d.closeAt - GraceSeconds
            <6>1. r.mark \in 1..Tip
              BY <2>5, <4>1, <5>4 DEF RowsOk, RowType, NoMark
            <6>2. times[r.mark] \in Int /\ TimeOf(r.mark, t) = times[r.mark]
              BY <2>5, <6>1, ElementOfSeq DEF DispenserInv, TypeOK, Tip, TimeOf
            <6>3. times[r.mark] >= CancelGraceFloor(t)
              BY <3>2, <4>3, <5>1, <5>2, <5>4, <6>2
            <6> QED
              BY <1>1, <2>3, <2>4, <4>1, <6>2, <6>3 DEF GetAllOpenDispenserAddresses
          <5> QED
            BY <3>2, <4>3, <5>3, <5>4 DEF OpenAtCancel
        <4> QED
          BY <2>7, <4>2, <4>3 DEF Fillable
      <3> QED
        BY <1>1, <3>3, <3>4, <3>5 DEF CapturedOrPurged
    <2> QED
      BY <1>1, <1>4, <2>6, <2>7 DEF DecodeInv
  <1> QED
    BY <1>4, <1>5, <1>6 DEF CaptureInv

\* A statement of the block in hand keeps what it found in line with the rest.
LEMMA InsideCaptures ==
  ASSUME DispenserInv, CaptureInv, pc = "open", pc' = "open",
         UNCHANGED <<times, past, gone, reorged, now>>, capture \subseteq capture',
         ArmedTo(times, Tip) /\ GatesArmed(now) /\ DecodeInv =>
            /\ \A r \in clean' : r.mark <= Tip
            /\ \A d \in indexer' : Fillable(d) =>
                  /\ Held(d)'
                  /\ \/ d.addr \in capture' /\ NameOf(d) \notin gone
                     \/ \E b \in indexer : NameOf(b) = NameOf(d) /\ b.addr = d.addr /\ Fillable(b)
  PROVE  CaptureInv'
  <1>1. times' = times /\ past' = past /\ gone' = gone /\ reorged' = reorged /\ now' = now
    OBVIOUS
  <1>2. CarriedInv' /\ UnpurgedInv' /\ Tip' = Tip
    BY <1>1, StoredKept
  <1>3. ServedInv'
    BY DEF ServedInv
  <1>4. DecodeInv'
    <2>1. SUFFICES ASSUME ArmedTo(times, Tip), GatesArmed(now)
                   PROVE  /\ \A r \in clean' : r.mark <= Tip
                          /\ \A d \in indexer' : Fillable(d) =>
                                /\ Held(d)' /\ CapturedOrPurged(d)'
                                /\ (reorged \/ NameOf(d) \notin gone)
      BY <1>1, <1>2 DEF DecodeInv
    <2>2. DecodeInv
      BY DEF CaptureInv
    <2>3. ASSUME NEW d \in indexer', Fillable(d)
          PROVE  Held(d)' /\ CapturedOrPurged(d)' /\ (reorged \/ NameOf(d) \notin gone)
      <3>1. CASE d.addr \in capture' /\ NameOf(d) \notin gone
        BY <2>1, <2>2, <2>3, <3>1 DEF CapturedOrPurged
      <3>2. ASSUME NEW b \in indexer, NameOf(b) = NameOf(d), b.addr = d.addr, Fillable(b)
            PROVE  CapturedOrPurged(d)' /\ (reorged \/ NameOf(d) \notin gone)
        <4>1. CapturedOrPurged(b) /\ (reorged \/ NameOf(b) \notin gone)
          BY <2>1, <2>2, <3>2 DEF DecodeInv
        <4> QED
          BY <1>1, <3>2, <4>1 DEF CapturedOrPurged
      <3> QED
        BY <2>1, <2>2, <2>3, <3>1, <3>2
    <2> QED
      BY <2>1, <2>2, <2>3
  <1> QED
    BY <1>2, <1>3, <1>4 DEF CaptureInv

\* A registration adds the row of every dispenser its transaction creates, and
\* their address to the capture set.
LEMMA RegisterCaptures ==
  ASSUME DispenserInv, CaptureInv, NEW s \in Addresses, NEW a \in Addresses,
         NEW offs \in (SUBSET Offsets) \ {{}}, RegisterDispenser(s, a, offs)
  PROVE  CaptureInv'
  <1> DEFINE exps == {now + o : o \in offs}
             row == [at |-> Height, n |-> txs + 1, addr |-> a, src |-> s,
                     exp |-> Largest(exps), mark |-> NoMark]
  <1>1. /\ pc = "open" /\ pc' = "open" /\ clean' = clean \cup {row}
        /\ indexer' = indexer \cup IndexerCreates(s, a, exps) /\ capture' = capture \cup {a}
        /\ UNCHANGED <<times, past, gone, reorged, now>>
    BY DEF RegisterDispenser, durable
  <1>2. now \in Int /\ txs \in Nat
    BY DEF DispenserInv, TypeOK
  <1>3. \A e \in exps : e \in Int /\ e <= Largest(exps)
    BY <1>2, LargestIn
  <1>4. Tip \in Nat /\ Height = Tip + 1
    BY AtTip
  <1> HIDE DEF exps
  <1>5. /\ Key(row) = <<Height, txs + 1, a>> /\ row.src = s /\ row.mark = NoMark
        /\ row.exp = Largest(exps)
    BY DEF Key
  <1> HIDE DEF row
  <1>6. \A d \in IndexerCreates(s, a, exps) :
           /\ NameOf(d) = <<Height, txs + 1, a>> /\ d.addr = a /\ d.src = s /\ d.exp \in exps
           /\ d.status = "open"
    BY DEF IndexerCreates, NameOf
  <1>7. \A d \in IndexerCreates(s, a, exps) : Backs(row, d)
    BY <1>3, <1>5, <1>6 DEF Backs
  <1>8. \A d \in IndexerCreates(s, a, exps) : Held(d)'
    BY <1>1, <1>6, <1>7 DEF Held
  <1>9. \A d : Held(d) => Held(d)'
    BY <1>1 DEF Held
  <1>10. \A d \in IndexerCreates(s, a, exps) : NameOf(d) \notin gone
    <2>1. \A k \in gone : k[1] \in Nat /\ k[1] <= Tip
      BY DEF DispenserInv, BoundInv
    <2>2. <<Height, txs + 1, a>>[1] = Height
      OBVIOUS
    <2> QED
      BY <1>4, <1>6, <2>1, <2>2
  <1>11. ASSUME ArmedTo(times, Tip), GatesArmed(now), DecodeInv
         PROVE  /\ \A r \in clean' : r.mark <= Tip
                /\ \A d \in indexer' : Fillable(d) =>
                      /\ Held(d)'
                      /\ \/ d.addr \in capture' /\ NameOf(d) \notin gone
                         \/ \E b \in indexer : NameOf(b) = NameOf(d) /\ b.addr = d.addr /\ Fillable(b)
    <2>1. /\ \A r \in clean : r.mark <= Tip
          /\ \A d \in indexer : Fillable(d) => Held(d)
      BY <1>1, <1>11 DEF DecodeInv
    <2>2. \A r \in clean' : r.mark <= Tip
      BY <1>1, <1>4, <1>5, <2>1 DEF NoMark
    <2> QED
      BY <1>1, <1>6, <1>8, <1>9, <1>10, <2>1, <2>2
  <1> QED
    BY <1>1, <1>11, InsideCaptures

\* An edit extends the row of the dispenser the indexer edits, and shortens none.
LEMMA EditCaptures ==
  ASSUME DispenserInv, CaptureInv, NEW s \in Addresses, NEW off \in Offsets, EditDispenser(s, off)
  PROVE  CaptureInv'
  <1> DEFINE e == now + off
             g(r) == IF EditReaches(r, s)
                     THEN [r EXCEPT !.exp = IF @ < e THEN e ELSE @, !.mark = NoMark] ELSE r
  <1>1. /\ pc = "open" /\ pc' = "open" /\ clean' = ExtendOpenDispensers(clean, s, e)
        /\ capture' = capture /\ UNCHANGED <<times, past, gone, reorged, now>>
    BY DEF EditDispenser, durable
  <1>2. \/ indexer' = indexer
        \/ \E d \in indexer :
              /\ d.status = "open" /\ s \in {d.addr, d.src}
              /\ indexer' = (indexer \ {d}) \cup {[d EXCEPT !.exp = e]}
    BY DEF EditDispenser
  <1>3. clean' = {g(r) : r \in clean}
    BY <1>1 DEF ExtendOpenDispensers
  <1>4. e \in Int /\ RowsOk(clean, Height) /\ Height = Tip + 1 /\ Tip \in Nat /\ indexer \subseteq IndexerType
    BY <1>1, AtTip, TimeAssumption DEF DispenserInv, OpenInv, TypeOK, BoundInv
  <1> HIDE DEF e
  <1>5. ASSUME NEW r \in clean, r.mark <= Tip
        PROVE  /\ Key(g(r)) = Key(r) /\ g(r).src = r.src /\ g(r).mark = r.mark /\ g(r).exp \in Int
               /\ r.exp \in Int /\ r.exp <= g(r).exp /\ (EditReaches(r, s) => e <= g(r).exp)
    <2>1. r \in RowType
      BY <1>4 DEF RowsOk
    <2>2. EditReaches(r, s) => r.mark = NoMark
      BY <1>4, <1>5, <2>1 DEF EditReaches, RowType
    <2> QED
      BY <1>4, <2>1, <2>2 DEF RowType, Key
  <1> HIDE DEF g
  <1>6. ASSUME NEW r \in clean, r.mark <= Tip, NEW d \in indexer, Backs(r, d)
        PROVE  /\ Backs(g(r), d)
               /\ OpenAtCancel(times, r, d) => OpenAtCancel(times, g(r), d)
               /\ g(r).mark = r.mark
    <2>1. d.exp \in Int /\ d.closeAt - GraceSeconds \in Int
      BY <1>4, GraceAssumption DEF IndexerType
    <2> QED
      BY <1>5, <1>6, <2>1 DEF Backs, OpenAtCancel
  <1>7. ASSUME NEW d \in indexer, Held(d), \A r \in clean : r.mark <= Tip
        PROVE  Held(d)'
    <2>1. PICK r \in clean :
             /\ Backs(r, d)
             /\ d.status = "cancelling" =>
                   \/ OpenAtCancel(times, r, d)
                   \/ r.mark = NoMark /\ d.closeAt = now + GraceSeconds
      BY <1>7 DEF Held
    <2>2. g(r) \in clean'
      BY <1>3
    <2> QED
      BY <1>1, <1>6, <1>7, <2>1, <2>2 DEF Held
  <1>8. ASSUME NEW d \in indexer, NEW b, b = [d EXCEPT !.exp = e],
               d.status = "open", s \in {d.addr, d.src}, Held(d),
               \A r \in clean : r.mark <= Tip
        PROVE  Held(b)'
    <2>1. NameOf(b) = NameOf(d) /\ b.src = d.src /\ b.status = "open" /\ b.exp = e
      BY <1>4, <1>8 DEF IndexerType, NameOf
    <2>2. PICK r \in clean : Backs(r, d)
      BY <1>8 DEF Held
    <2>3. r.addr = d.addr /\ r.src = d.src /\ r.mark = NoMark
      BY <1>8, <2>2 DEF Backs, Key, NameOf
    <2>4. EditReaches(r, s)
      BY <1>8, <2>3 DEF EditReaches
    <2>5. Backs(g(r), b)
      BY <1>5, <1>8, <2>1, <2>2, <2>3, <2>4 DEF Backs
    <2>6. g(r) \in clean'
      BY <1>3
    <2> QED
      BY <2>1, <2>5, <2>6 DEF Held
  <1>9. ASSUME ArmedTo(times, Tip), GatesArmed(now), DecodeInv
        PROVE  /\ \A r \in clean' : r.mark <= Tip
               /\ \A d \in indexer' : Fillable(d) =>
                     /\ Held(d)'
                     /\ \E b \in indexer : NameOf(b) = NameOf(d) /\ b.addr = d.addr /\ Fillable(b)
    <2>1. /\ \A r \in clean : r.mark <= Tip
          /\ \A d \in indexer : Fillable(d) => Held(d)
      BY <1>1, <1>9 DEF DecodeInv
    <2>2. \A r \in clean' : r.mark <= Tip
      BY <1>3, <1>5, <2>1
    <2>3. CASE indexer' = indexer
      BY <1>7, <2>1, <2>2, <2>3
    <2>4. ASSUME NEW d \in indexer, d.status = "open", s \in {d.addr, d.src},
                 indexer' = (indexer \ {d}) \cup {[d EXCEPT !.exp = e]}
          PROVE  \A b \in indexer' : Fillable(b) =>
                    /\ Held(b)'
                    /\ \E c \in indexer : NameOf(c) = NameOf(b) /\ c.addr = b.addr /\ Fillable(c)
      <3> PICK b : b = [d EXCEPT !.exp = e]
        OBVIOUS
      <3>1. Fillable(d) /\ NameOf(b) = NameOf(d) /\ b.addr = d.addr
        BY <1>4, <2>4 DEF IndexerType, NameOf, Fillable
      <3>2. Held(b)'
        BY <1>8, <2>1, <2>4, <3>1
      <3> QED
        BY <1>7, <2>1, <2>4, <3>1, <3>2
    <2> QED
      BY <1>2, <2>2, <2>3, <2>4
  <1> QED
    BY <1>1, <1>9, InsideCaptures

\* A cancel leaves the dispenser filled until its close, and its row was open.
LEMMA CancelCaptures ==
  ASSUME DispenserInv, CaptureInv, CancelDispenser
  PROVE  CaptureInv'
  <1>1. /\ pc = "open" /\ pc' = "open" /\ clean' = clean /\ capture' = capture
        /\ UNCHANGED <<times, past, gone, reorged, now>>
    BY DEF CancelDispenser, durable, history
  <1>2. PICK d \in indexer :
           /\ d.status = "open"
           /\ indexer' = (indexer \ {d}) \cup
                         {[d EXCEPT !.status = "cancelling", !.closeAt = now + GraceSeconds]}
    BY DEF CancelDispenser
  <1>0. PICK b : b = [d EXCEPT !.status = "cancelling", !.closeAt = now + GraceSeconds]
    OBVIOUS
  <1>3. indexer \subseteq IndexerType
    BY DEF DispenserInv, BoundInv
  <1>4. /\ NameOf(b) = NameOf(d) /\ b.addr = d.addr /\ b.src = d.src /\ b.exp = d.exp
        /\ b.status = "cancelling" /\ b.closeAt = now + GraceSeconds
    BY <1>0, <1>3 DEF IndexerType, NameOf
  <1>5. Held(d) => Held(b)'
    <2>1. SUFFICES ASSUME NEW r \in clean, Backs(r, d) PROVE Held(b)'
      BY DEF Held
    <2>2. Backs(r, b) /\ r.mark = NoMark
      BY <1>2, <1>4, <2>1 DEF Backs
    <2> QED
      BY <1>1, <1>4, <2>2 DEF Held
  <1>6. \A c : Held(c) => Held(c)'
    BY <1>1 DEF Held
  <1>7. ASSUME ArmedTo(times, Tip), GatesArmed(now), DecodeInv
        PROVE  /\ \A r \in clean' : r.mark <= Tip
               /\ \A c \in indexer' : Fillable(c) =>
                     /\ Held(c)'
                     /\ \E a \in indexer : NameOf(a) = NameOf(c) /\ a.addr = c.addr /\ Fillable(a)
    <2>1. /\ \A r \in clean : r.mark <= Tip
          /\ \A c \in indexer : Fillable(c) => Held(c)
      BY <1>1, <1>7 DEF DecodeInv
    <2>2. Fillable(d) /\ indexer' = (indexer \ {d}) \cup {b}
      BY <1>0, <1>2 DEF Fillable
    <2> QED
      BY <1>1, <1>4, <1>5, <1>6, <2>1, <2>2
  <1> QED
    BY <1>1, <1>7, InsideCaptures

\* A commit closes what has run out, and marks no row of an open dispenser; the
\* row of a dispenser cancelled in this block is open now or marked now.
LEMMA CommitCaptures ==
  ASSUME DispenserInv, CaptureInv, CommitBlock
  PROVE  CaptureInv'
  <1>1. /\ pc = "open" /\ pc' = "purge" /\ times' = Append(times, now)
        /\ clean' = EndOfBlock(clean) /\ indexer' = IndexerEndBlock(indexer)
        /\ past' = Append(past, [clean |-> clean', indexer |-> indexer'])
        /\ gone' = gone /\ reorged' = reorged
    BY DEF CommitBlock
  <1>2. PICK k \in Nat \ {0} : k = Height /\ k = Tip + 1 /\ Tip \in Nat
    BY AtTip
  <1>3. /\ Tip' = k /\ times'[k] = now
        /\ \A h \in 1..Tip : times'[h] = times[h] /\ past'[h] = past[h]
        /\ past'[k] = [clean |-> clean', indexer |-> indexer']
    <2>1. times \in Seq(Int) /\ now \in Int /\ past \in Seq(PastType) /\ Len(past) = Len(times)
      BY DEF DispenserInv, TypeOK, BoundInv, Tip
    <2>2. [clean |-> clean', indexer |-> indexer'] \in [clean : {clean'}, indexer : {indexer'}]
      OBVIOUS
    <2>3. past \in Seq(PastType \cup [clean : {clean'}, indexer : {indexer'}])
      BY <2>1
    <2> QED
      BY <1>1, <1>2, <2>1, <2>2, <2>3, AppendProperties DEF Tip, Height
  <1>4. /\ \A h \in 0..Tip : IndexerAt(h)' = IndexerAt(h) /\ CleanAt(h)' = CleanAt(h)
        /\ IndexerAt(k)' = indexer' /\ CleanAt(k)' = clean'
    BY <1>2, <1>3 DEF IndexerAt, CleanAt
  <1>5. RowsOk(clean', k) /\ clean \subseteq RowType /\ now \in Int /\ indexer \subseteq IndexerType
    <2>1. DispenserInv'
      BY CommitInv
    <2>2. k \in 1..Tip' /\ RowsOk(CleanAt(k)', k)
      BY <1>2, <1>3, <2>1 DEF DispenserInv, ChainInv
    <2>3. RowsOk(clean, k)
      BY <1>1, <1>2 DEF DispenserInv, OpenInv
    <2> QED
      BY <1>4, <2>2, <2>3 DEF RowsOk, DispenserInv, TypeOK, BoundInv
  <1>6. ServedInv'
    BY <1>1, <1>3, <1>4 DEF ServedInv
  <1>7. DecodeInv'
    BY <1>1 DEF DecodeInv
  <1>8. ASSUME ArmedTo(times', k)
        PROVE  /\ ArmedTo(times, Tip) /\ GatesArmed(now)
               /\ clean' = DeleteOpenDispensers(clean, k, now)
               /\ \A r \in clean : r.mark <= Tip
               /\ \A d \in indexer : Fillable(d) => Held(d) /\ (reorged \/ NameOf(d) \notin gone)
    <2>1. k \in 1..k /\ \A h \in 1..Tip : h \in 1..k
      BY <1>2
    <2>2. GatesArmed(now) /\ ArmedTo(times, Tip)
      BY <1>3, <1>8, <2>1 DEF ArmedTo
    <2>3. now >= RealignAt
      BY <1>5, <2>2, GateAssumption DEF GatesArmed
    <2> QED
      BY <1>1, <1>2, <2>2, <2>3 DEF EndOfBlock, CaptureInv, DecodeInv
  <1>9. ASSUME NEW d \in indexer', Fillable(d)
        PROVE  /\ d \in indexer
               /\ d.status = "open" => now <= d.exp
               /\ d.status = "cancelling" => now < d.closeAt
    <2>1. PICK b \in indexer :
             d = IF \/ b.status = "open" /\ b.exp < now
                    \/ b.status = "cancelling" /\ now >= b.closeAt
                 THEN [b EXCEPT !.status = "closed"] ELSE b
      BY <1>1 DEF IndexerEndBlock
    <2>2. b \in IndexerType /\ b.exp \in Int /\ b.closeAt \in Int
      BY <1>5 DEF IndexerType
    <2>3. d = b
      BY <1>9, <2>1, <2>2 DEF IndexerType, Fillable
    <2> QED
      BY <1>5, <2>1, <2>2, <2>3 DEF IndexerType
  <1>10. ASSUME ArmedTo(times', k)
         PROVE  Carried(times', indexer', clean', k)
    <2>1. SUFFICES ASSUME NEW d \in indexer', Fillable(d)
                   PROVE  \E q \in clean' :
                             /\ Backs(q, d)
                             /\ d.status = "cancelling" =>
                                   now < d.closeAt /\ OpenAtCancel(times', q, d)
      BY <1>3 DEF Carried
    <2>2. d \in indexer /\ Held(d) /\ d \in IndexerType
      BY <1>5, <1>8, <1>9, <1>10, <2>1
    <2>3. PICK r \in clean :
             /\ Backs(r, d)
             /\ d.status = "cancelling" =>
                   \/ OpenAtCancel(times, r, d)
                   \/ r.mark = NoMark /\ d.closeAt = now + GraceSeconds
      BY <2>2 DEF Held
    <2> DEFINE q == IF r.exp < now /\ r.mark = NoMark THEN [r EXCEPT !.mark = k] ELSE r
    <2>4. q \in clean'
      BY <1>8, <1>10 DEF DeleteOpenDispensers
    <2>5. /\ Key(q) = Key(r) /\ q.src = r.src /\ q.exp = r.exp /\ r \in RowType /\ r.exp \in Int
          /\ r.exp < now /\ r.mark = NoMark => q.mark = k
          /\ ~(r.exp < now /\ r.mark = NoMark) => q.mark = r.mark
      BY <1>5 DEF RowType, Key
    <2> HIDE DEF q
    <2>6. d.exp \in Int /\ d.closeAt \in Int /\ GraceSeconds \in Int /\ d.exp <= r.exp
      BY <2>2, <2>3, GraceAssumption DEF IndexerType, Backs
    <2>7. Backs(q, d)
      <3>1. d.status = "open" => ~(r.exp < now)
        BY <1>5, <1>9, <2>1, <2>5, <2>6
      <3> QED
        BY <2>3, <2>5, <3>1 DEF Backs
    <2>8. ASSUME d.status = "cancelling"
          PROVE  now < d.closeAt /\ OpenAtCancel(times', q, d)
      <3>1. CASE r.exp >= d.closeAt - GraceSeconds
        BY <1>9, <2>1, <2>5, <2>8, <3>1 DEF OpenAtCancel
      <3>2. CASE r.mark # NoMark /\ times[r.mark] >= d.closeAt - GraceSeconds
        <4>1. r.mark \in 1..Tip
          BY <1>2, <1>8, <1>10, <2>5, <3>2 DEF RowType, NoMark
        <4>2. times'[q.mark] = times[r.mark] /\ q.mark = r.mark
          BY <1>3, <2>5, <3>2, <4>1
        <4> QED
          BY <1>9, <2>1, <2>8, <3>2, <4>2 DEF OpenAtCancel
      <3>3. CASE r.mark = NoMark /\ d.closeAt = now + GraceSeconds
        <4>1. d.closeAt - GraceSeconds = now
          BY <1>5, <2>6, <3>3
        <4>2. CASE r.exp < now
          <5>1. q.mark = k /\ k # NoMark
            BY <1>2, <2>5, <3>3, <4>2 DEF NoMark
          <5>2. times'[q.mark] = now /\ now >= now
            BY <1>3, <1>5, <5>1
          <5> QED
            BY <1>9, <2>1, <2>8, <4>1, <5>1, <5>2 DEF OpenAtCancel
        <4>3. CASE ~(r.exp < now)
          BY <1>5, <1>9, <2>1, <2>5, <2>8, <4>1, <4>3 DEF OpenAtCancel
        <4> QED
          BY <4>2, <4>3
      <3> QED
        BY <2>3, <2>8, <3>1, <3>2, <3>3 DEF OpenAtCancel
    <2> QED
      BY <2>4, <2>7, <2>8
  <1>11. CarriedInv'
    <2>1. SUFFICES ASSUME NEW h \in 1..Tip', ArmedTo(times', h)
                   PROVE  Carried(times', IndexerAt(h)', CleanAt(h)', h)
      BY DEF CarriedInv
    <2>2. CASE h = k
      BY <1>4, <1>10, <2>1, <2>2
    <2>3. CASE h # k
      <3>1. h \in 1..Tip /\ h \in 0..Tip /\ h \in Nat \ {0} /\ \A g \in 1..h : g \in 1..Tip
        BY <1>2, <1>3, <2>3
      <3>2. RowsOk(CleanAt(h), h) /\ \A g \in 1..h : times'[g] = times[g]
        BY <1>3, <3>1 DEF DispenserInv, ChainInv
      <3>3. ArmedTo(times, h) /\ (Carried(times, IndexerAt(h), CleanAt(h), h)
                                    => Carried(times', IndexerAt(h), CleanAt(h), h))
        BY <2>1, <3>1, <3>2, CarriedAt
      <3> QED
        BY <1>4, <3>1, <3>3 DEF CaptureInv, CarriedInv
    <2> QED
      BY <2>2, <2>3
  <1>12. UnpurgedInv'
    <2>1. ASSUME ArmedTo(times', k), ~reorged, NEW d \in indexer', Fillable(d)
          PROVE  NameOf(d) \notin gone
      BY <1>8, <1>9, <2>1
    <2> QED
      BY <1>1, <1>3, <1>4, <2>1 DEF UnpurgedInv
  <1> QED
    BY <1>6, <1>7, <1>11, <1>12 DEF CaptureInv

\* What leaves the stored blocks alone and no block open.
LEMMA IdleCaptures ==
  ASSUME CaptureInv, UNCHANGED <<times, past, gone, reorged>>, pc' # "open",
         indexer' = IndexerAt(Tip)
  PROVE  CaptureInv'
  <1>1. CarriedInv' /\ UnpurgedInv' /\ Tip' = Tip /\ \A h : IndexerAt(h)' = IndexerAt(h)
    BY StoredKept
  <1>2. IndexerAt(Tip)' = IndexerAt(Tip)
    BY <1>1
  <1>3. ServedInv' /\ DecodeInv'
    BY <1>2 DEF ServedInv, DecodeInv
  <1> QED
    BY <1>1, <1>3 DEF CaptureInv

\* The purge's floor is older than the cancel of every dispenser still filled.
LEMMA PurgeCaptures ==
  ASSUME DispenserInv, CaptureInv, PurgeExpiredDispensers
  PROVE  CaptureInv'
  <1>1. /\ pc = "purge" /\ pc' = "idle" /\ times' = times /\ past' = past
        /\ indexer' = indexer /\ reorged' = reorged
    BY DEF PurgeExpiredDispensers
  <1>2. gone' = gone \/ gone' = gone \cup {Key(r) : r \in {q \in rows : Purgeable(q)}}
    BY DEF PurgeExpiredDispensers
  <1>3. rows = Kept(CleanAt(Tip), gone) /\ indexer = IndexerAt(Tip)
    BY <1>1 DEF DispenserInv, TableInv, CaptureInv, ServedInv
  <1>4. Tip' = Tip /\ \A h : IndexerAt(h)' = IndexerAt(h) /\ CleanAt(h)' = CleanAt(h)
    BY <1>1 DEF Tip, IndexerAt, CleanAt
  <1>5. CarriedInv'
    BY <1>1, <1>4 DEF CaptureInv, CarriedInv
  <1>6. ServedInv' /\ DecodeInv'
    <2>1. IndexerAt(Tip)' = IndexerAt(Tip)
      BY <1>4
    <2> QED
      BY <1>1, <1>3, <2>1 DEF ServedInv, DecodeInv
  <1>7. ASSUME ArmedTo(times, Tip), NEW d \in IndexerAt(Tip), Fillable(d),
               NEW q \in rows, Purgeable(q), Key(q) = NameOf(d)
        PROVE  FALSE
    <2>1. Tip \in Nat /\ RowsOk(CleanAt(Tip), Tip)
      BY AtTip
    <2>2. Tip \in 1..Tip
      BY <1>7, <2>1 DEF IndexerAt
    <2>3. PICK r \in CleanAt(Tip) :
             /\ Backs(r, d)
             /\ d.status = "cancelling" => times[Tip] < d.closeAt /\ OpenAtCancel(times, r, d)
      BY <1>7, <2>2 DEF CaptureInv, CarriedInv, Carried
    <2>4. r = q
      BY <1>3, <1>7, <2>1, <2>3 DEF RowsOk, Kept, Backs
    <2>5. times[Tip] \in Int /\ times[Tip] >= PurgeGraceAt
      <3>1. times[Tip] \in Int
        BY <2>2, ElementOfSeq DEF DispenserInv, TypeOK, Tip
      <3>2. PurgeGraceAt <= times[Tip]
        BY <1>7, <2>2 DEF ArmedTo, GatesArmed
      <3> QED
        BY <3>1, <3>2, GateAssumption
    <2>6. r.mark # NoMark /\ r.exp < times[Tip] - GraceSeconds /\ times[r.mark] < times[Tip] - GraceSeconds
      BY <1>7, <2>4, <2>5 DEF Purgeable, PurgeGraceFloor
    <2>7. d.status = "cancelling"
      BY <1>7, <2>3, <2>6 DEF Fillable, Backs
    <2>8. r.mark \in 1..Tip /\ r.exp \in Int
      BY <2>1, <2>6 DEF RowsOk, RowType, NoMark
    <2>9. times[r.mark] \in Int
      BY <2>8, ElementOfSeq DEF DispenserInv, TypeOK, Tip
    <2>10. d \in IndexerType
      BY <1>3, <1>7 DEF DispenserInv, BoundInv
    <2>11. d.closeAt \in Int /\ GraceSeconds \in Int
      BY <2>10, GraceAssumption DEF IndexerType
    <2> QED
      BY <2>3, <2>5, <2>6, <2>7, <2>8, <2>9, <2>11 DEF OpenAtCancel
  <1>8. UnpurgedInv'
    <2>1. SUFFICES ASSUME ~reorged, ArmedTo(times, Tip), NEW d \in IndexerAt(Tip), Fillable(d)
                   PROVE  NameOf(d) \notin gone'
      <3>1. IndexerAt(Tip)' = IndexerAt(Tip)
        BY <1>4
      <3> QED
        BY <1>1, <1>4, <3>1 DEF UnpurgedInv
    <2>2. NameOf(d) \notin gone
      BY <2>1 DEF CaptureInv, UnpurgedInv
    <2>3. NameOf(d) \notin {Key(r) : r \in {q \in rows : Purgeable(q)}}
      BY <1>7, <2>1
    <2> QED
      BY <1>2, <2>2, <2>3
  <1> QED
    BY <1>5, <1>6, <1>8 DEF CaptureInv

\* A rollback gives back the dispensers of the block below.
LEMMA RollBackCaptures ==
  ASSUME DispenserInv, CaptureInv, RollBackTop
  PROVE  CaptureInv'
  <1>1. /\ pc = "idle" /\ pc' = "idle" /\ Tip > 0
        /\ times' = SubSeq(times, 1, Tip - 1) /\ past' = SubSeq(past, 1, Tip - 1)
        /\ indexer' = IF Tip = 1 THEN {} ELSE past[Tip - 1].indexer
        /\ reorged' = TRUE
    BY DEF RollBackTop
  <1>2. PICK n \in Nat : n = Tip - 1 /\ n + 1 = Tip
    BY <1>1, AtTip
  <1>3. /\ Len(times') = n /\ \A h \in 1..n : times'[h] = times[h]
        /\ \A h \in 1..n : past'[h] = past[h]
    <2>1. times \in Seq(Int) /\ times # <<>> /\ Len(times) = Tip
      BY <1>1, <1>2, EmptySeq DEF DispenserInv, TypeOK, Tip
    <2>2. past \in Seq(PastType) /\ past # <<>> /\ Len(past) = Tip
      BY <1>1, <1>2, EmptySeq DEF DispenserInv, BoundInv
    <2> QED
      BY <1>1, <1>2, <2>1, <2>2, ButLast
  <1>4. Tip' = n /\ \A h \in 0..n : IndexerAt(h)' = IndexerAt(h) /\ CleanAt(h)' = CleanAt(h)
    BY <1>3 DEF Tip, IndexerAt, CleanAt
  <1>5. ServedInv'
    <2>1. indexer' = IndexerAt(n) /\ n \in 0..n
      BY <1>1, <1>2 DEF IndexerAt
    <2> QED
      BY <1>4, <2>1 DEF ServedInv
  <1>6. CarriedInv'
    <2>1. SUFFICES ASSUME NEW h \in 1..n, ArmedTo(times', h)
                   PROVE  Carried(times', IndexerAt(h)', CleanAt(h)', h)
      BY <1>4 DEF CarriedInv
    <2>2. h \in 1..Tip /\ h \in 0..n /\ h \in Nat \ {0} /\ \A g \in 1..h : g \in 1..n
      BY <1>2
    <2>3. RowsOk(CleanAt(h), h) /\ \A g \in 1..h : times'[g] = times[g]
      BY <1>3, <2>2 DEF DispenserInv, ChainInv
    <2>4. ArmedTo(times, h) /\ (Carried(times, IndexerAt(h), CleanAt(h), h)
                                  => Carried(times', IndexerAt(h), CleanAt(h), h))
      BY <2>1, <2>2, <2>3, CarriedAt
    <2> QED
      BY <1>4, <2>2, <2>4 DEF CaptureInv, CarriedInv
  <1>7. UnpurgedInv' /\ DecodeInv'
    BY <1>1 DEF UnpurgedInv, DecodeInv
  <1> QED
    BY <1>5, <1>6, <1>7 DEF CaptureInv

\* One step of any kind.
LEMMA CaptureStep == DispenserInv /\ CaptureInv /\ [Next]_vars => CaptureInv'
  <1> SUFFICES ASSUME DispenserInv, CaptureInv, [Next]_vars PROVE CaptureInv'
    OBVIOUS
  <1>1. ASSUME UNCHANGED vars PROVE CaptureInv'
    <2>1. /\ UNCHANGED <<times, past, gone, reorged, now>>
          /\ pc' = pc /\ indexer' = indexer /\ clean' = clean /\ capture' = capture
      BY <1>1 DEF vars, durable, work, history
    <2>2. CASE pc = "open"
      <3>1. \A d : Held(d) => Held(d)'
        BY <2>1 DEF Held
      <3>2. ArmedTo(times, Tip) /\ GatesArmed(now) /\ DecodeInv =>
              /\ \A r \in clean' : r.mark <= Tip
              /\ \A d \in indexer' : Fillable(d) => Held(d)'
        BY <2>1, <2>2, <3>1 DEF DecodeInv
      <3> QED
        BY <2>1, <2>2, <3>2, InsideCaptures
    <2>3. CASE pc # "open"
      BY <2>1, <2>3, IdleCaptures DEF CaptureInv, ServedInv
    <2> QED
      BY <2>2, <2>3
  <1>2. ASSUME AbortBlock PROVE CaptureInv'
    BY <1>2, IdleCaptures DEF AbortBlock, durable, IndexerAt
  <1>3. ASSUME PurgeFails PROVE CaptureInv'
    BY <1>3, IdleCaptures DEF PurgeFails, durable, history, CaptureInv, ServedInv
  <1>4. ASSUME Done PROVE CaptureInv'
    BY <1>1, <1>4 DEF Done
  <1> QED
    BY <1>1, <1>2, <1>3, <1>4, BeginCaptures, RegisterCaptures, EditCaptures, CancelCaptures,
       CommitCaptures, PurgeCaptures, RollBackCaptures DEF Next

\* Where every gate has been in force since the first block, the capture set of
\* a block in hand has the address of every dispenser the indexer still fills,
\* whatever was edited, cancelled, purged and rolled back before it; only a reorg
\* that replaced the block of a purge can have lost a row
\* (getAllOpenDispenserAddresses, cancelGraceFloor, purgeGraceFloor).
THEOREM PaymentsInGrace == Spec => []ArmedCaptured
  <1>1. Init => CaptureInv
    <2> SUFFICES ASSUME Init PROVE CaptureInv
      OBVIOUS
    <2>1. times = <<>> /\ pc = "idle" /\ indexer = {} /\ Tip = 0
      BY DEF Init, Tip
    <2> QED
      BY <2>1 DEF CaptureInv, ServedInv, CarriedInv, UnpurgedInv, DecodeInv, IndexerAt
  <1>2. CaptureInv => ArmedCaptured
    BY DEF CaptureInv, DecodeInv, ArmedCaptured, UnpurgedCaptured, CapturedOrPurged, ArmedTo, NameOf
  <1> QED
    BY <1>1, <1>2, DispenserInvariant, CaptureStep, PTL DEF Spec
=============================================================================
