--------------------------- MODULE ProtocolProofs ---------------------------
(***************************************************************************)
(* Proofs that the decoder answers what the indexer answers.               *)
(*                                                                         *)
(* A BATCH the decoder refuses for its cost is one the indexer refuses,    *)
(* whatever the commands, their weights and the limits (BatchCapture).     *)
(* Every dispenser the indexer would create from an output has a row and   *)
(* every row is backed by a command the indexer could accept: CaptureInv   *)
(* is inductive (OutputCapture).  The decoder and the indexer find the     *)
(* same median time, it never falls along a chain, and nothing expires     *)
(* early: ClockInv is inductive (ProtocolTime).                            *)
(*                                                                         *)
(* Sums and sorted windows are reached by a least counterexample: a        *)
(* non-empty set of naturals has a least member (LeastOf).                 *)
(***************************************************************************)
EXTENDS ProtocolTime, BatchCapture, OutputCapture, FiniteSetTheorems, WellFoundedInduction,
        SequenceTheorems, TLAPS

-----------------------------------------------------------------------------
(* Sums, and the cost of a BATCH.                                            *)

\* A set of naturals that is not empty has a least member.
LEMMA LeastOf ==
  ASSUME NEW S \in SUBSET Nat, S /= {}
  PROVE  \E n \in S : n \in Nat /\ \A m \in S : n <= m
  <1>1. PICK n \in S : \A m \in S : ~(<<m, n>> \in OpToRel(<, Nat))
    BY WFMin, NatLessThanWellFounded
  <1>2. \A m \in S : ~(m < n)
    BY <1>1 DEF OpToRel
  <1> QED
    BY <1>2

\* The running sums of a list of weights: what Total ends with.
RunningSums(w) ==
    {s \in [0..Len(w) -> Nat] : s[0] = 0 /\ \A i \in 1..Len(w) : s[i] = s[i - 1] + w[i]}

\* Every list of weights has running sums.
LEMMA SumsExist ==
  ASSUME NEW w \in Seq(Nat)
  PROVE  RunningSums(w) /= {}
  <1> DEFINE Bad == {n \in Nat : \E u \in Seq(Nat) : Len(u) = n /\ RunningSums(u) = {}}
  <1> SUFFICES ASSUME Bad /= {} PROVE FALSE
    OBVIOUS
  <1>1. PICK n \in Bad : n \in Nat /\ \A m \in Bad : n <= m
    BY LeastOf
  <1>2. PICK u \in Seq(Nat) : n \in Nat /\ Len(u) = n /\ RunningSums(u) = {}
    BY <1>1
  <1>3. CASE n = 0
    <2> DEFINE s == [i \in 0..0 |-> 0]
    <2>1. s \in [0..Len(u) -> Nat] /\ s[0] = 0 /\ \A i \in 1..Len(u) : s[i] = s[i - 1] + u[i]
      BY <1>2, <1>3
    <2> HIDE DEF s
    <2> QED
      BY <1>2, <2>1 DEF RunningSums
  <1>4. CASE n > 0
    <2> DEFINE v == [i \in 1..(n - 1) |-> u[i]]
    <2>1. v \in Seq(Nat) /\ Len(v) = n - 1 /\ \A i \in 1..(n - 1) : v[i] = u[i]
      BY <1>2, <1>4
    <2> HIDE DEF v
    <2>2. n - 1 \notin Bad
      BY <1>1, <1>2, <1>4
    <2>3. RunningSums(v) /= {}
      <3>1. n - 1 \in Nat
        BY <1>2, <1>4
      <3>2. \A k \in Nat : k \notin Bad => \A x \in Seq(Nat) : Len(x) = k => RunningSums(x) /= {}
        OBVIOUS
      <3> HIDE DEF Bad
      <3> QED
        BY <2>1, <2>2, <3>1, <3>2
    <2> HIDE DEF Bad
    <2>4. PICK r \in [0..(n - 1) -> Nat] : r[0] = 0 /\ \A i \in 1..(n - 1) : r[i] = r[i - 1] + v[i]
      BY <2>1, <2>3 DEF RunningSums
    <2> DEFINE s == [i \in 0..n |-> IF i = n THEN r[n - 1] + u[n] ELSE r[i]]
    <2>5. s \in [0..n -> Nat]
      BY <1>2, <1>4
    <2>6. s[0] = 0 /\ \A i \in 1..n : s[i] = s[i - 1] + u[i]
      <3>1. s[0] = 0
        BY <1>2, <1>4, <2>4
      <3>2. \A i \in 1..(n - 1) : s[i] = r[i] /\ s[i - 1] = r[i - 1]
        BY <1>2, <1>4
      <3>3. s[n] = r[n - 1] + u[n] /\ s[n - 1] = r[n - 1]
        BY <1>2, <1>4
      <3>4. \A i \in 1..(n - 1) : r[i] = r[i - 1] + u[i]
        BY <2>1, <2>4
      <3> HIDE DEF s
      <3>5. \A i \in 1..(n - 1) : s[i] = s[i - 1] + u[i]
        BY <3>2, <3>4
      <3>6. \A i \in 1..n : i = n \/ i \in 1..(n - 1)
        BY <1>2
      <3> QED
        BY <3>1, <3>3, <3>5, <3>6
    <2> HIDE DEF s
    <2> QED
      BY <1>2, <2>5, <2>6 DEF RunningSums
  <1> QED
    BY <1>2, <1>3, <1>4

\* Total is the last of the running sums.
LEMMA TotalIsLast ==
  ASSUME NEW w \in Seq(Nat)
  PROVE  \E s \in RunningSums(w) : Total(w) = s[Len(w)]
  <1> DEFINE R(s) == s = [i \in 0..Len(w) |-> IF i = 0 THEN 0 ELSE s[i - 1] + w[i]]
  <1> DEFINE c == CHOOSE s : R(s)
  <1>1. PICK t : t \in RunningSums(w)
    BY SumsExist
  <1>2. R(t)
    <2>1. t \in [0..Len(w) -> Nat] /\ \A i \in 0..Len(w) : t[i] = IF i = 0 THEN 0 ELSE t[i - 1] + w[i]
      BY <1>1 DEF RunningSums
    <2> QED
      BY <2>1
  <1>3. R(c)
    BY <1>2, Zenon
  <1>4. Total(w) = c[Len(w)]
    BY Zenon DEF Total
  <1> HIDE DEF c
  <1>5. PICK n \in Nat : n = Len(w)
    OBVIOUS
  <1>6. \A i \in 0..n : c[i] = IF i = 0 THEN 0 ELSE c[i - 1] + w[i]
    BY <1>3, <1>5
  <1>7. c[0] = 0 /\ \A i \in 1..n : c[i] = c[i - 1] + w[i]
    BY <1>5, <1>6
  <1>8. \A i \in 0..n : c[i] \in Nat
    <2> DEFINE Bad == {k \in 0..n : c[k] \notin Nat}
    <2> SUFFICES ASSUME Bad /= {} PROVE FALSE
      OBVIOUS
    <2> Bad \in SUBSET Nat
      BY <1>5
    <2>1. PICK k \in Bad : k \in Nat /\ \A m \in Bad : k <= m
      <3> HIDE DEF Bad
      <3> QED
        BY LeastOf
    <2>2. k \in 0..n /\ c[k] \notin Nat /\ k /= 0
      BY <1>7, <2>1
    <2>3. k - 1 \in 0..n /\ c[k - 1] \in Nat /\ k \in 1..n
      BY <2>1, <2>2
    <2> HIDE DEF Bad
    <2>4. w[k] \in Nat
      BY <1>5, <2>3
    <2> QED
      BY <1>7, <2>2, <2>3, <2>4
  <1>9. DOMAIN c = 0..n /\ c = [i \in 0..n |-> c[i]]
    <2>1. DOMAIN c = 0..n
      BY <1>3, <1>5
    <2>2. c = [i \in DOMAIN c |-> c[i]]
      BY <1>3
    <2> QED
      BY <2>1, <2>2
  <1> HIDE DEF R
  <1>10. c \in [0..n -> Nat]
    BY <1>8, <1>9
  <1> QED
    BY <1>4, <1>5, <1>7, <1>10 DEF RunningSums

\* A list of smaller weights has a smaller total.
LEMMA TotalGrows ==
  ASSUME NEW v \in Seq(Nat), NEW w \in Seq(Nat), Len(v) = Len(w),
         \A i \in 1..Len(w) : v[i] <= w[i]
  PROVE  Total(v) \in Nat /\ Total(w) \in Nat /\ Total(v) <= Total(w)
  <1>1. PICK n \in Nat : n = Len(w) /\ n = Len(v)
    OBVIOUS
  <1>2. PICK r \in [0..n -> Nat] :
            r[0] = 0 /\ (\A i \in 1..n : r[i] = r[i - 1] + v[i]) /\ Total(v) = r[n]
    BY <1>1, TotalIsLast DEF RunningSums
  <1>3. PICK s \in [0..n -> Nat] :
            s[0] = 0 /\ (\A i \in 1..n : s[i] = s[i - 1] + w[i]) /\ Total(w) = s[n]
    BY <1>1, TotalIsLast DEF RunningSums
  <1>4. \A m \in 0..n : r[m] <= s[m]
    <2> DEFINE Bad == {m \in 0..n : ~(r[m] <= s[m])}
    <2> SUFFICES ASSUME Bad /= {} PROVE FALSE
      OBVIOUS
    <2> Bad \in SUBSET Nat
      OBVIOUS
    <2>1. PICK m \in Bad : m \in Nat /\ \A k \in Bad : m <= k
      <3> HIDE DEF Bad
      <3> QED
        BY LeastOf
    <2>2. m \in 0..n /\ ~(r[m] <= s[m]) /\ m /= 0
      BY <1>2, <1>3, <2>1
    <2>3. m \in 1..n /\ m - 1 \in 0..n /\ r[m - 1] <= s[m - 1]
      BY <2>1, <2>2
    <2> HIDE DEF Bad
    <2>4. v[m] \in Nat /\ w[m] \in Nat /\ v[m] <= w[m]
      BY <1>1, <2>3
    <2>5. r[m] = r[m - 1] + v[m] /\ s[m] = s[m - 1] + w[m]
      BY <1>2, <1>3, <2>3
    <2>6. r[m - 1] \in Nat /\ s[m - 1] \in Nat
      BY <2>3
    <2>7. r[m] \in Nat /\ s[m] \in Nat
      BY <2>2
    <2>8. \A a, b, c, d \in Nat : a <= b /\ c <= d => a + c <= b + d
      OBVIOUS
    <2>9. r[m - 1] + v[m] <= s[m - 1] + w[m]
      BY <2>3, <2>4, <2>6, <2>8
    <2> QED
      BY <2>2, <2>5, <2>9
  <1> QED
    BY <1>1, <1>2, <1>3, <1>4

\* The greatest member of a bounded set of naturals is what Max chooses.
LEMMA MaxOf ==
  ASSUME NEW S \in SUBSET Nat, S /= {}, NEW b \in Nat, \A x \in S : x <= b
  PROVE  Max(S) \in S /\ Max(S) \in Nat /\ \A x \in S : x <= Max(S)
  <1> DEFINE Bounds == {c \in Nat : \A x \in S : x <= c}
  <1>1. PICK c \in Bounds : c \in Nat /\ \A d \in Bounds : c <= d
    <2>1. Bounds \in SUBSET Nat /\ Bounds /= {}
      OBVIOUS
    <2> HIDE DEF Bounds
    <2> QED
      BY <2>1, LeastOf
  <1>2. c \in S
    <2> SUFFICES ASSUME c \notin S PROVE FALSE
      OBVIOUS
    <2>1. \A x \in S : x \in Nat /\ x < c
      BY <1>1
    <2>2. c - 1 \in Nat /\ \A x \in S : x <= c - 1
      <3>1. \A x, y \in Nat : x < y => y - 1 \in Nat /\ x <= y - 1
        OBVIOUS
      <3>2. c \in Nat
        BY <1>1
      <3> HIDE DEF Bounds
      <3> QED
        BY <2>1, <3>1, <3>2
    <2>3. c - 1 \in Bounds
      BY <2>2
    <2> QED
      BY <1>1, <2>3
  <1>3. \E x \in S : \A y \in S : x >= y
    BY <1>1, <1>2
  <1>4. Max(S) \in S /\ \A y \in S : Max(S) >= y
    BY <1>3, Zenon DEF Max
  <1> QED
    BY <1>4

\* The least member of a set of naturals is what Min chooses.
LEMMA MinOf ==
  ASSUME NEW S \in SUBSET Nat, S /= {}
  PROVE  Min(S) \in S /\ Min(S) \in Nat /\ \A x \in S : Min(S) <= x
  <1>1. \E x \in S : \A y \in S : x <= y
    BY LeastOf
  <1>2. Min(S) \in S /\ \A y \in S : Min(S) <= y
    BY <1>1, Zenon DEF Min
  <1> QED
    BY <1>2

-----------------------------------------------------------------------------
(* The commands of a batch. *)

\* The decoder and the indexer read the same tick in a command, whether its
\* version is there or implied (TickOf, IndexerTick).
LEMMA SameTick ==
  ASSUME NEW c \in Commands
  PROVE  TickOf(c.params) = IndexerTick(c)
  <1>1. PICK p \in Seq(STRING) : p = c.params
    BY WeightAssumption
  <1>2. CASE p = <<>>
    BY <1>1, <1>2 DEF TickOf, IndexerTick, IsLegacyActionFormat
  <1>3. CASE p /= <<>> /\ p[1] \notin ShortNumbers
    <2>1. PICK q : q = <<"0">> \o p
      OBVIOUS
    <2>2. Len(q) >= 2 /\ q[2] = p[1]
      BY <1>3, <2>1
    <2>3. TickOf(p) = p[1]
      BY <1>3, <2>1, <2>2 DEF TickOf, IsLegacyActionFormat
    <2>4. IndexerTick(c) = p[1]
      BY <1>1, <1>3 DEF IndexerTick
    <2> QED
      BY <1>1, <2>3, <2>4
  <1>4. CASE p /= <<>> /\ p[1] \in ShortNumbers
    <2>1. TickOf(p) = IF Len(p) < 2 THEN NoTick ELSE p[2]
      BY <1>4 DEF TickOf, IsLegacyActionFormat
    <2>2. Len(p) \in Nat /\ Len(p) >= 1 /\ Head(p) = p[1]
      BY <1>4
    <2>3. CASE Len(p) = 1
      <3>1. IndexerTick(c) = NoTick
        BY <1>1, <1>4, <2>2, <2>3, Zenon DEF IndexerTick
      <3> QED
        BY <1>1, <2>1, <2>3, <3>1
    <2>4. CASE Len(p) /= 1
      <3>1. IndexerTick(c) = p[2]
        <4>1. /\ ~(c.params = <<>>)
              /\ ~(c.params /= <<>> /\ Head(c.params) \notin ShortNumbers)
              /\ ~(Len(c.params) = 1 /\ Head(c.params) \in ShortNumbers)
          BY <1>1, <1>4, <2>2, <2>4
        <4> QED
          BY <1>1, <4>1, Zenon DEF IndexerTick
      <3>2. ~(Len(p) < 2)
        <4>1. \A n \in Nat : n >= 1 /\ n /= 1 => ~(n < 2)
          OBVIOUS
        <4> QED
          BY <2>2, <2>4, <4>1, Zenon
      <3> QED
        BY <1>1, <2>1, <3>1, <3>2, Zenon
    <2> QED
      BY <2>3, <2>4
  <1> QED
    BY <1>2, <1>3, <1>4

\* The commands that count under a capped key are those the indexer caps, child
\* issuances aside (SubCommandLimitKey).
LEMMA SameCounts ==
  ASSUME NEW list \in Seq(Commands)
  PROVE  /\ Under(list, "BATCH") = Named(list, "BATCH")
         /\ Under(list, "MINT") = Named(list, "MINT")
         /\ Under(list, "DEPLOY") = Named(list, "DEPLOY")
         /\ Under(list, "ISSUE") = {i \in Named(list, "ISSUE") : ~IsChildIssue(list[i])}
         /\ \A name : /\ Under(list, name) \subseteq 1..Len(list)
                      /\ IsFiniteSet(Under(list, name)) /\ Cardinality(Under(list, name)) \in Nat
                      /\ Cardinality(Under(list, name)) <= Len(list)
  <1>1. \A i \in DOMAIN list : list[i] \in Commands
    OBVIOUS
  <1>2. \A i \in DOMAIN list :
            IsChildIssue(list[i]) <=> TickOf(list[i].params) \in Dotted \ Caret
    BY <1>1, SameTick DEF IsChildIssue, Dotted, Caret
  <1>3. \A i \in DOMAIN list : SubCommandLimitKey(list[i]) =
            IF ExpandAliasName(list[i].name) = "ISSUE" /\ IsChildIssue(list[i])
            THEN ChildIssueKey ELSE ExpandAliasName(list[i].name)
    BY <1>2 DEF SubCommandLimitKey
  <1>4. Under(list, "ISSUE") = {i \in Named(list, "ISSUE") : ~IsChildIssue(list[i])}
    BY <1>3 DEF Under, Named, ChildIssueKey
  <1>5. \A name \in {"BATCH", "MINT", "DEPLOY"} : Under(list, name) = Named(list, name)
    BY <1>3 DEF Under, Named, ChildIssueKey
  <1>6. ASSUME NEW name
        PROVE  /\ Under(list, name) \subseteq 1..Len(list)
               /\ IsFiniteSet(Under(list, name)) /\ Cardinality(Under(list, name)) \in Nat
               /\ Cardinality(Under(list, name)) <= Len(list)
    <2>1. Under(list, name) \in SUBSET (1..Len(list))
      BY DEF Under
    <2>2. IsFiniteSet(1..Len(list)) /\ Cardinality(1..Len(list)) = Len(list)
      <3>1. PICK n \in Nat : n = Len(list)
        OBVIOUS
      <3>2. IsFiniteSet(1..n) /\ Cardinality(1..n) = IF 1 > n THEN 0 ELSE n - 1 + 1
        BY FS_Interval
      <3> QED
        BY <3>1, <3>2
    <2> QED
      BY <2>1, <2>2, FS_Subset, FS_CardinalityType
  <1> QED
    BY <1>4, <1>5, <1>6

\* More than one member: two that differ.
LEMMA SeveralOf ==
  ASSUME NEW S, IsFiniteSet(S)
  PROVE  /\ Cardinality(S) > 1 <=> \E x, y \in S : x /= y
         /\ Cardinality(S) > 0 <=> S /= {}
  <1>1. Cardinality(S) \in Nat
    BY FS_CardinalityType
  <1>2. Cardinality(S) = 0 <=> S = {}
    BY FS_EmptySet
  <1>3. Cardinality(S) = 1 <=> \E x : S = {x}
    BY FS_Singleton
  <1>4. (\E x, y \in S : x /= y) <=> S /= {} /\ ~\E x : S = {x}
    OBVIOUS
  <1> QED
    BY <1>1, <1>2, <1>3, <1>4

\* The most MINTs of one tick are more than one when two name it.
LEMMA MostMints ==
  ASSUME NEW list \in Seq(Commands)
  PROVE  MaxIdenticalMintTicks(list) > 1 <=>
            \E i, j \in Named(list, "MINT") : i /= j /\ IndexerTick(list[i]) = IndexerTick(list[j])
  <1> DEFINE mints == Under(list, "MINT")
             Same(i) == {j \in mints : TickOf(list[j].params) = TickOf(list[i].params)}
             sizes == {Cardinality(Same(i)) : i \in mints}
  <1>1. mints = Named(list, "MINT") /\ mints \subseteq DOMAIN list /\ IsFiniteSet(mints)
    BY SameCounts
  <1>2. \A i \in mints : TickOf(list[i].params) = IndexerTick(list[i])
    BY <1>1, SameTick
  <1>3. PICK n \in Nat : n = Cardinality(mints)
    BY SameCounts
  <1>4. ASSUME NEW i \in mints
        PROVE  /\ IsFiniteSet(Same(i)) /\ Cardinality(Same(i)) \in Nat /\ Cardinality(Same(i)) <= n
               /\ Cardinality(Same(i)) > 1 <=> \E j \in mints : i /= j /\ IndexerTick(list[i]) = IndexerTick(list[j])
    <2>1. Same(i) \in SUBSET mints
      OBVIOUS
    <2>2. IsFiniteSet(Same(i)) /\ Cardinality(Same(i)) <= n /\ Cardinality(Same(i)) \in Nat
      <3> HIDE DEF Same, mints
      <3> QED
        BY <1>1, <1>3, <2>1, FS_Subset, FS_CardinalityType
    <2>3. Cardinality(Same(i)) > 1 <=> \E x, y \in Same(i) : x /= y
      <3> HIDE DEF Same
      <3> QED
        BY <2>2, SeveralOf
    <2>4. \A j \in mints : j \in Same(i) <=> IndexerTick(list[i]) = IndexerTick(list[j])
      BY <1>2
    <2> HIDE DEF Same, mints
    <2>5. i \in Same(i)
      BY <2>4
    <2>6. (\E x, y \in Same(i) : x /= y) <=> \E j \in mints : i /= j /\ IndexerTick(list[i]) = IndexerTick(list[j])
      BY <2>1, <2>4, <2>5
    <2> QED
      BY <2>2, <2>3, <2>6
  <1>5. MaxIdenticalMintTicks(list) = Max({0} \cup sizes)
    BY DEF MaxIdenticalMintTicks
  <1> HIDE DEF Same
  <1>6. /\ {0} \cup sizes \in SUBSET Nat /\ {0} \cup sizes /= {}
        /\ \A x \in {0} \cup sizes : x <= n
    BY <1>3, <1>4
  <1>7. /\ Max({0} \cup sizes) \in {0} \cup sizes /\ Max({0} \cup sizes) \in Nat
        /\ \A x \in {0} \cup sizes : x <= Max({0} \cup sizes)
    <2> HIDE DEF sizes
    <2> QED
      BY <1>3, <1>6, MaxOf
  <1>8. PICK m \in Nat : m = Max({0} \cup sizes)
    BY <1>7
  <1>9. m > 1 <=> \E i \in mints : Cardinality(Same(i)) > 1
    <2>1. m > 1 => \E i \in mints : Cardinality(Same(i)) > 1
      BY <1>7, <1>8
    <2>2. ASSUME NEW i \in mints, Cardinality(Same(i)) > 1
          PROVE  m > 1
      <3>1. Cardinality(Same(i)) <= m
        BY <1>7, <1>8
      <3> QED
        BY <1>4, <2>2, <3>1
    <2> QED
      BY <2>1, <2>2
  <1> HIDE DEF mints, sizes
  <1> QED
    BY <1>1, <1>4, <1>5, <1>8, <1>9

\* A batch is over a limit for one of the causes the indexer lists
\* (OverActionLimit).
LEMMA SameLimits ==
  ASSUME NEW list \in Seq(Commands)
  PROVE  OverActionLimit(list) <=> ListedCauses(list) \cap {"nested", "issues", "mints", "deploys"} /= {}
  <1> DEFINE Over(action) == IF action = "MINT" THEN MaxIdenticalMintTicks(list) > 1
                             ELSE Cardinality(Under(list, action)) > ActionLimits[action]
  <1>1. DOMAIN ActionLimits = {"BATCH", "ISSUE", "MINT", "DEPLOY"} /\ ActionLimits["MINT"] = 1
        /\ ActionLimits["BATCH"] = 0 /\ ActionLimits["ISSUE"] = 1 /\ ActionLimits["DEPLOY"] = 1
    BY DEF ActionLimits
  <1>2. OverActionLimit(list) <=> \E action \in {"BATCH", "ISSUE", "MINT", "DEPLOY"} : Over(action)
    BY <1>1 DEF OverActionLimit
  <1>3. Over("BATCH") <=> Named(list, "BATCH") /= {}
    BY <1>1, SameCounts, SeveralOf
  <1>4. Over("ISSUE") <=> Cardinality({i \in Named(list, "ISSUE") : ~IsChildIssue(list[i])}) > 1
    BY <1>1, SameCounts
  <1>5. Over("MINT") <=>
            \E i, j \in Named(list, "MINT") : i /= j /\ IndexerTick(list[i]) = IndexerTick(list[j])
    BY MostMints
  <1>6. Over("DEPLOY") <=> Cardinality(Named(list, "DEPLOY")) > 1
    BY <1>1, SameCounts
  <1> HIDE DEF Over
  <1>7. /\ "nested" \in ListedCauses(list) <=> Named(list, "BATCH") /= {}
        /\ "issues" \in ListedCauses(list) <=>
               Cardinality({i \in Named(list, "ISSUE") : ~IsChildIssue(list[i])}) > 1
        /\ "mints" \in ListedCauses(list) <=>
               \E i, j \in Named(list, "MINT") : i /= j /\ IndexerTick(list[i]) = IndexerTick(list[j])
        /\ "deploys" \in ListedCauses(list) <=> Cardinality(Named(list, "DEPLOY")) > 1
    BY DEF ListedCauses
  <1> QED
    BY <1>2, <1>3, <1>4, <1>5, <1>6, <1>7

\* The decoder charges no command more than the indexer does
\* (SubCommandCostWeight).
LEMMA NeverHeavier ==
  ASSUME NEW list \in Seq(Commands)
  PROVE  /\ BatchCostWeight(list) \in Nat
         /\ BatchCostWeight(list) <= Total([i \in DOMAIN list |-> IndexerWeight(list[i])])
         /\ Total([i \in DOMAIN list |-> IndexerWeight(list[i])]) \in Nat
  <1> DEFINE v == [i \in DOMAIN list |-> SubCommandCostWeight(list[i])]
             w == [i \in DOMAIN list |-> IndexerWeight(list[i])]
  <1>1. \A name : WeightIn(name) \in Nat \ {0}
    BY WeightAssumption DEF WeightIn
  <1>2. \A c : /\ SubCommandCostWeight(c) \in Nat /\ IndexerWeight(c) \in Nat
               /\ SubCommandCostWeight(c) <= IndexerWeight(c)
    BY <1>1 DEF SubCommandCostWeight, IndexerWeight
  <1>3. DOMAIN list = 1..Len(list) /\ Len(list) \in Nat
    OBVIOUS
  <1>4. v \in Seq(Nat) /\ Len(v) = Len(list) /\ w \in Seq(Nat) /\ Len(w) = Len(list)
    BY <1>2, <1>3
  <1>5. \A i \in 1..Len(w) : v[i] <= w[i]
    BY <1>2, <1>3, <1>4
  <1>6. BatchCostWeight(list) = Total(v)
    BY DEF BatchCostWeight
  <1> HIDE DEF v, w
  <1>7. Total(v) \in Nat /\ Total(w) \in Nat /\ Total(v) <= Total(w)
    BY <1>4, <1>5, TotalGrows
  <1> QED
    BY <1>6, <1>7 DEF w

\* Whatever commands a batch is built of, capture reads what the indexer runs and
\* nothing of a batch whose list shows why it is rejected (captureCommands,
\* hasProvablyRejectedBatch).
THEOREM CaptureMirrors == BatchSpec => []CaptureMirrorsIndexer
  <1> DEFINE Inv == commands \in Seq(Commands)
  <1>1. BatchInit => Inv
    BY DEF BatchInit
  <1>2. Inv /\ [BatchNext]_batchVars => Inv'
    BY DEF BatchNext, AddCommand, batchVars
  <1>3. Inv => CaptureMirrorsIndexer
    <2> SUFFICES ASSUME Inv PROVE CaptureMirrorsIndexer
      OBVIOUS
    <2> DEFINE over == Len(commands) > (IF weighting THEN WeightBudget ELSE CommandLimit)
               empty == \E i \in DOMAIN commands : commands[i].name = ""
               heavy == weighting /\ BatchCostWeight(commands) > WeightBudget
               limited == ListedCauses(commands) \cap {"nested", "issues", "mints", "deploys"} /= {}
    <2>1. HasProvablyRejectedBatch(commands) <=> over \/ empty \/ limited \/ heavy
      BY SameLimits DEF HasProvablyRejectedBatch, HasProvablyRejectedSubCommand
    <2>2. /\ "count" \in ListedCauses(commands) <=> over
          /\ "empty" \in ListedCauses(commands) <=> empty
          /\ ListedCauses(commands) \subseteq {"count", "empty", "nested", "issues", "mints", "deploys"}
      BY DEF ListedCauses
    <2>3. "weight" \in PrivateCauses(commands) <=>
              weighting /\ Total([i \in DOMAIN commands |-> IndexerWeight(commands[i])]) > WeightBudget
      BY DEF PrivateCauses
    <2>4. heavy => "weight" \in PrivateCauses(commands)
      BY <2>3, NeverHeavier, WeightAssumption
    <2> HIDE DEF over, empty, heavy
    <2>5. ListedCauses(commands) /= {} => over \/ empty \/ limited
      BY <2>2
    <2>6. over \/ empty \/ limited => ListedCauses(commands) /= {}
      BY <2>2
    <2>7. NeverSuppressed
      BY <2>1, <2>4, <2>6 DEF NeverSuppressed, Dispatched, CaptureCommands
    <2>8. RejectedCapturesNothing
      BY <2>1, <2>5 DEF RejectedCapturesNothing, CaptureCommands
    <2> QED
      BY <2>7, <2>8 DEF CaptureMirrorsIndexer
  <1> QED
    BY <1>1, <1>2, <1>3, PTL DEF BatchSpec

-----------------------------------------------------------------------------
(* The rows and the dispensers of one transaction. *)

\* Above the gates the decoder takes exactly the expirations the indexer does,
\* wide ones as the widest it can store (normalizeDispenserExpiration).
LEMMA ExpirationsAgree ==
  ASSUME captureArmed = TRUE, NEW token \in Tokens
  PROVE  /\ IndexerExpiration(token) /= NoExpiration <=> ExpirationOf(token) /= NoExpiration
         /\ ExpirationOf(token) /= NoExpiration =>
               /\ ExpirationOf(token) \in Nat /\ ExpirationOf(token) <= MaxSafe
               /\ ExpirationOf(token) >= IndexerExpiration(token) \/ ExpirationOf(token) = MaxSafe
  <1>1. DefaultDays \in Nat /\ MaxSafe \in Nat /\ DefaultDays <= MaxSafe /\ MaxSafe >= 3
    BY CreateAssumption
  <1>2. CASE token = "omitted"
    <2>1. ExpirationOf(token) = DefaultDays /\ IndexerExpiration(token) = DefaultDays
      BY <1>2, Zenon DEF ExpirationOf, IndexerExpiration
    <2> QED
      BY <1>1, <2>1 DEF NoExpiration
  <1>3. CASE token = "wide"
    <2>1. ExpirationOf(token) = MaxSafe /\ IndexerExpiration(token) = MaxSafe + 1
      BY <1>3 DEF ExpirationOf, IndexerExpiration, WireValue
    <2> QED
      BY <1>1, <2>1 DEF NoExpiration
  <1>4. CASE token = "almost"
    <2>1. ExpirationOf(token) = NoExpiration /\ IndexerExpiration(token) = NoExpiration
      BY <1>4 DEF ExpirationOf, IndexerExpiration, WireValue
    <2> QED
      BY <2>1
  <1>5. CASE token = "soon"
    <2>1. ExpirationOf(token) = 1 /\ IndexerExpiration(token) = 1
      BY <1>5 DEF ExpirationOf, IndexerExpiration, WireValue, AsNumber
    <2> QED
      BY <1>1, <2>1 DEF NoExpiration
  <1>6. CASE token = "late"
    <2>1. ExpirationOf(token) = 3 /\ IndexerExpiration(token) = 3
      BY <1>6 DEF ExpirationOf, IndexerExpiration, WireValue, AsNumber
    <2> QED
      BY <1>1, <2>1 DEF NoExpiration
  <1>7. CASE token \in {"overflow", "fraction"}
    <2>1. ExpirationOf(token) = NoExpiration /\ IndexerExpiration(token) = NoExpiration
      BY <1>7 DEF ExpirationOf, IndexerExpiration, WireValue, AsNumber
    <2> QED
      BY <2>1
  <1> QED
    BY <1>2, <1>3, <1>4, <1>5, <1>6, <1>7 DEF Tokens

\* A create with an oracle the decoder can read.
Names(c) == c.oracle /= None /\ c.oracle \notin Unresolved

\* What a command that is a create is made of.
IsCreate(c) ==
    /\ c.kind = "create" /\ c.token \in Tokens
    /\ c.oracle \in {None} \cup Unresolved \cup Payees

\* The creates among the commands of a list.
LEMMA CreatesOf ==
  ASSUME NEW list \in Lists
  PROVE  /\ DOMAIN list \subseteq Nat
         /\ \A i \in DOMAIN list : list[i].kind = "create" => IsCreate(list[i])
  <1>1. PICK n \in 1..BatchBound : list \in [1..n -> Creates \cup {Refill, CoinPay}]
    BY DEF Lists
  <1>2. Refill.kind /= "create" /\ CoinPay.kind /= "create"
    BY DEF Refill, CoinPay
  <1> QED
    BY <1>1, <1>2, CreateAssumption DEF IsCreate

\* The dispenser the indexer opens for a create.
OpenedBy(c, source, n) ==
    [tx |-> n, get |-> Operating(c, source), src |-> source, oracle |-> c.oracle,
     exp |-> IndexerExpiration(c.token)]

\* Above the gates the indexer opens each create the decoder takes, unless its
\* oracle cannot be read: a readable oracle's fee is stored
\* (dispenserOpensForThisChain, capturePaymentOutputs).
LEMMA TakenIsOpened ==
  ASSUME captureArmed = TRUE, NEW list \in Lists, NEW source, NEW n,
         NEW i \in DOMAIN list, Accepted(list[i]), list[i].oracle \notin Unresolved
  PROVE  OpenedBy(list[i], source, n) \in IndexerOpens(list, source, n, StoredOutputs(list, source))
  <1> DEFINE c == list[i]
  <1>1. c.kind = "create" /\ c.name = "DISPENSER" /\ c.coin = "own"
        /\ ExpirationOf(c.token) /= NoExpiration
    BY DEF Accepted, IsDispenser
  <1>2. IsCreate(c)
    BY <1>1, CreatesOf
  <1>3. c \in ListOf(list)
    BY DEF ListOf
  <1> HIDE DEF c
  <1>4. IndexerExpiration(c.token) /= NoExpiration
    BY <1>1, <1>2, ExpirationsAgree DEF IsCreate
  <1>5. c.oracle = None \/ c.oracle \in StoredOutputs(list, source)
    <2> SUFFICES ASSUME c.oracle /= None PROVE c.oracle \in StoredOutputs(list, source)
      OBVIOUS
    <2>1. c.oracle \in Payees /\ c.oracle \notin Unresolved
      BY <1>2 DEF IsCreate, c
    <2>2. OraclesOf(c, source) = {c.oracle} \ (Unresolved \cup {None})
      BY <1>1, Zenon DEF OraclesOf
    <2>3. c.oracle \in UNION {OraclesOf(x, source) : x \in ListOf(list)}
      BY <1>3, <2>1, <2>2
    <2> QED
      BY <2>1, <2>3 DEF StoredOutputs
  <1> QED
    BY <1>1, <1>3, <1>4, <1>5 DEF IndexerOpens, OpenedBy, c

\* Above the gates the decoder takes each create the indexer opens on an address
\* it can read (pushV0DispenserCreate, normalizeDispenserExpiration).
LEMMA OpenedIsTaken ==
  ASSUME captureArmed = TRUE, NEW list \in Lists, NEW source, NEW n, NEW outs,
         NEW d \in IndexerOpens(list, source, n, outs)
  PROVE  \E i \in DOMAIN list :
            /\ d = OpenedBy(list[i], source, n)
            /\ IsCreate(list[i]) /\ (list[i].oracle = None \/ list[i].oracle \in outs)
            /\ d.get \notin Unresolved => Accepted(list[i])
  <1>1. PICK c \in ListOf(list) :
            /\ c.kind = "create" /\ c.name = "DISPENSER" /\ c.coin = "own"
            /\ IndexerExpiration(c.token) /= NoExpiration
            /\ c.oracle = None \/ c.oracle \in outs
            /\ d = OpenedBy(c, source, n)
    BY DEF IndexerOpens, OpenedBy
  <1>2. PICK i \in DOMAIN list : c = list[i]
    BY DEF ListOf
  <1>3. IsCreate(c)
    BY <1>1, <1>2, CreatesOf
  <1>4. ExpirationOf(c.token) /= NoExpiration
    BY <1>1, <1>3, ExpirationsAgree DEF IsCreate
  <1>5. d.get \notin Unresolved => c.get \notin Unresolved
    BY <1>1 DEF OpenedBy, Operating, Unresolved, None
  <1> QED
    BY <1>1, <1>2, <1>3, <1>4, <1>5 DEF Accepted, IsDispenser

\* What the row of a create holds: its address, its source, an expiration that
\* covers it, and the oracle of a create that shares the row and names one.
RowHolds(r, list, source, n, i) ==
    /\ r.tx = n /\ r.id = AddressId[Operating(list[i], source)]
    /\ r.src = IF AddressId[source] = r.id THEN NoId ELSE AddressId[source]
    /\ r.exp \in Nat /\ ExpirationOf(list[i].token) <= r.exp /\ r.exp <= MaxSafe
    /\ Names(list[i]) => \E k \in DOMAIN list :
           /\ Accepted(list[k]) /\ Names(list[k])
           /\ AddressId[Operating(list[k], source)] = r.id /\ r.oracle = list[k].oracle

\* Above the gates each create the decoder takes has a row that holds it
\* (collapseDispenserRegistrations, registerDispenser).
LEMMA TakenIsHeld ==
  ASSUME captureArmed = TRUE, NEW list \in Lists, NEW source, NEW n,
         NEW i \in DOMAIN list, Accepted(list[i])
  PROVE  \E r \in RegisteredRows(Candidates(list, source), source, n) :
            RowHolds(r, list, source, n, i)
  <1> DEFINE taken == {j \in DOMAIN list : Accepted(list[j])}
             Cand(j) == [addr |-> Operating(list[j], source),
                         oracle |-> IF list[j].oracle \in Unresolved THEN None ELSE list[j].oracle,
                         exp |-> ExpirationOf(list[j].token)]
  <1>1. PICK cands : cands = Candidates(list, source)
    OBVIOUS
  <1>2. DOMAIN cands = taken /\ \A j \in taken : cands[j] = Cand(j)
    BY <1>1 DEF Candidates
  <1>3. \A j \in taken : /\ cands[j].addr = Operating(list[j], source)
                         /\ cands[j].oracle = IF list[j].oracle \in Unresolved THEN None ELSE list[j].oracle
                         /\ cands[j].exp = ExpirationOf(list[j].token)
    BY <1>2
  <1> HIDE DEF Cand
  <1>4. i \in taken /\ taken \in SUBSET Nat
    BY CreatesOf
  <1>5. \A j \in taken : /\ cands[j].exp \in Nat /\ cands[j].exp <= MaxSafe
                         /\ Accepted(list[j]) /\ j \in DOMAIN list /\ IsCreate(list[j])
    <2>1. \A j \in taken : IsCreate(list[j]) /\ ExpirationOf(list[j].token) /= NoExpiration
      BY CreatesOf DEF Accepted, IsDispenser
    <2> QED
      BY <1>3, <2>1, ExpirationsAgree DEF IsCreate
  <1> HIDE DEF taken
  <1>6. PICK id : id = AddressId[Operating(list[i], source)]
    OBVIOUS
  <1>7. PICK first : first = Min({j \in DOMAIN cands : AddressId[cands[j].addr] = id})
    OBVIOUS
  <1>8. first \in taken /\ AddressId[cands[first].addr] = id
    <2>1. i \in {j \in DOMAIN cands : AddressId[cands[j].addr] = id}
      BY <1>2, <1>3, <1>4, <1>6
    <2>2. {j \in DOMAIN cands : AddressId[cands[j].addr] = id} \in SUBSET Nat
      BY <1>2, <1>4
    <2>3. first \in {j \in DOMAIN cands : AddressId[cands[j].addr] = id}
      BY <1>7, <2>1, <2>2, MinOf
    <2> QED
      BY <1>2, <2>3
  <1>9. PICK group : group = {j \in DOMAIN cands : SameKey(cands[j], cands[first])}
    OBVIOUS
  <1>10. group \subseteq taken /\ i \in group
         /\ \A j \in group : AddressId[Operating(list[j], source)] = id
    <2>1. \A j \in DOMAIN cands : j \in group <=> AddressId[cands[j].addr] = id
      BY <1>8, <1>9 DEF SameKey
    <2> QED
      BY <1>2, <1>3, <1>4, <1>6, <1>9, <2>1
  <1>11. PICK r : r = [tx |-> n, id |-> id,
                       src |-> IF AddressId[source] = id THEN NoId ELSE AddressId[source],
                       oracle |-> CollapsedOracle(cands, group),
                       exp |-> CollapsedExpiration(cands, group)]
    OBVIOUS
  <1>12. r \in RegisteredRows(cands, source, n)
    <2>1. id \in {AddressId[cands[j].addr] : j \in DOMAIN cands}
      BY <1>2, <1>3, <1>4, <1>6
    <2> QED
      BY <1>7, <1>9, <1>11, <2>1, Zenon DEF RegisteredRows
  <1>13. CollapsedExpiration(cands, group) \in Nat
         /\ ExpirationOf(list[i].token) <= CollapsedExpiration(cands, group)
         /\ CollapsedExpiration(cands, group) <= MaxSafe
    <2> DEFINE exps == {cands[j].exp : j \in group}
    <2>1. exps \in SUBSET Nat /\ (\A x \in exps : x <= MaxSafe) /\ ExpirationOf(list[i].token) \in exps
      BY <1>3, <1>4, <1>5, <1>10
    <2>2. CollapsedExpiration(cands, group) = Max(exps)
      BY DEF CollapsedExpiration
    <2> HIDE DEF exps
    <2>3. MaxSafe \in Nat
      BY CreateAssumption
    <2>4. Max(exps) \in exps /\ Max(exps) \in Nat /\ \A x \in exps : x <= Max(exps)
      BY <2>1, <2>3, MaxOf
    <2> QED
      BY <2>1, <2>2, <2>4
  <1>14. ASSUME Names(list[i])
         PROVE  \E k \in group : Names(list[k]) /\ CollapsedOracle(cands, group) = list[k].oracle
    <2> DEFINE naming == {j \in group : cands[j].oracle /= None}
    <2>1. i \in naming /\ naming \in SUBSET Nat
      BY <1>3, <1>4, <1>10, <1>14 DEF Names
    <2>2. CollapsedOracle(cands, group) = cands[Min(naming)].oracle
      BY <2>1 DEF CollapsedOracle
    <2>3. PICK k : k = Min(naming)
      OBVIOUS
    <2>4. k \in naming
      <3> HIDE DEF naming
      <3> QED
        BY <2>1, <2>3, MinOf
    <2>5. k \in group /\ k \in taken /\ cands[k].oracle /= None
      BY <1>10, <2>4
    <2> HIDE DEF naming
    <2>6. Names(list[k]) /\ cands[k].oracle = list[k].oracle
      BY <1>3, <2>5 DEF Names
    <2> QED
      BY <2>2, <2>3, <2>5, <2>6
  <1>15. /\ r.tx = n /\ r.id = id
         /\ r.src = IF AddressId[source] = r.id THEN NoId ELSE AddressId[source]
         /\ r.oracle = CollapsedOracle(cands, group) /\ r.exp = CollapsedExpiration(cands, group)
    BY <1>11
  <1>16. RowHolds(r, list, source, n, i)
    BY <1>5, <1>6, <1>10, <1>13, <1>14, <1>15 DEF RowHolds
  <1> QED
    BY <1>1, <1>12, <1>16

\* Above the gates a row comes of a create the decoder takes.
LEMMA RowIsTaken ==
  ASSUME NEW list, NEW source, NEW n,
         NEW r \in RegisteredRows(Candidates(list, source), source, n)
  PROVE  r.tx = n /\ \E i \in DOMAIN list :
            Accepted(list[i]) /\ r.id = AddressId[Operating(list[i], source)]
  <1>1. PICK cands : cands = Candidates(list, source)
    OBVIOUS
  <1>2. \A j \in DOMAIN cands : j \in DOMAIN list /\ Accepted(list[j])
                                /\ cands[j].addr = Operating(list[j], source)
    BY <1>1 DEF Candidates
  <1>3. r.tx = n /\ \E j \in DOMAIN cands : r.id = AddressId[cands[j].addr]
    <2> DEFINE first(id) == Min({j \in DOMAIN cands : AddressId[cands[j].addr] = id})
               group(id) == {j \in DOMAIN cands : SameKey(cands[j], cands[first(id)])}
               Row(id) == [tx |-> n, id |-> id,
                           src |-> IF AddressId[source] = id THEN NoId ELSE AddressId[source],
                           oracle |-> CollapsedOracle(cands, group(id)),
                           exp |-> CollapsedExpiration(cands, group(id))]
    <2>1. RegisteredRows(cands, source, n) = {Row(id) : id \in {AddressId[cands[j].addr] : j \in DOMAIN cands}}
      BY Zenon DEF RegisteredRows
    <2>2. \A id : Row(id).tx = n /\ Row(id).id = id
      OBVIOUS
    <2> HIDE DEF Row
    <2> QED
      BY <1>1, <2>1, <2>2
  <1> QED
    BY <1>2, <1>3

-----------------------------------------------------------------------------
(* The registry and the indexer's dispensers along a chain of transactions. *)

\* A dispenser the indexer opened is backed by a row of its transaction and
\* address, which names the oracle of one of the dispensers that share it.
Backed(d) ==
    \E r \in registry :
        /\ r.tx = d.tx /\ r.id = AddressId[d.get]
        /\ r.exp >= d.exp \/ r.exp = MaxSafe
        /\ r.src = IF AddressId[d.src] = r.id THEN NoId ELSE AddressId[d.src]
        /\ d.oracle /= None =>
               \E e \in opened : /\ e.tx = d.tx /\ AddressId[e.get] = AddressId[d.get]
                                 /\ e.oracle /= None /\ r.oracle = e.oracle

\* Rows and dispensers are of transactions so far, and every dispenser the
\* decoder can read is backed.
CaptureInv ==
    /\ lastTx.n \in Nat
    /\ \A r \in registry : r.tx \in Nat /\ r.tx <= lastTx.n
    /\ \A d \in opened : d.tx \in Nat /\ d.tx <= lastTx.n /\ d.oracle \in {None} \cup Payees
    /\ captureArmed = TRUE => \A d \in opened : d.get \notin Unresolved => Backed(d)
    /\ RegistersOnlyOpen /\ RefillFeeSeen

\* The oracle of a backed dispenser is among those a refill of its source pays,
\* if its row is its own (getOpenDispenserOracleAddressesBySource).
LEMMA BackedIsPaid ==
  ASSUME captureArmed = TRUE, NEW d \in opened, Backed(d), d.oracle \in Payees,
         NEW source, AddressId[source] \in {AddressId[d.get], AddressId[d.src]},
         \A e \in opened : e.tx = d.tx /\ AddressId[e.get] = AddressId[d.get] /\ e.oracle /= None
                              => e.oracle = d.oracle,
         NEW list, Refill \in ListOf(list)
  PROVE  d.oracle \in StoredOutputs(list, source)
  <1>1. d.oracle /= None
    BY DEF Payees, None
  <1>2. PICK r \in registry :
            /\ r.id = AddressId[d.get]
            /\ r.src = IF AddressId[d.src] = r.id THEN NoId ELSE AddressId[d.src]
            /\ r.oracle = d.oracle
    BY <1>1 DEF Backed
  <1>3. r \in RowsOfSource(source)
    BY <1>1, <1>2 DEF RowsOfSource
  <1>4. d.oracle \in RefillOracles(source)
    BY <1>2, <1>3 DEF RefillOracles
  <1>5. OraclesOf(Refill, source) = RefillOracles(source)
    BY DEF OraclesOf, Refill
  <1>6. d.oracle \in UNION {OraclesOf(x, source) : x \in ListOf(list)}
    BY <1>4, <1>5
  <1> QED
    BY <1>6 DEF StoredOutputs

\* One more transaction leaves every dispenser backed, its own ones by their rows.
LEMMA PersistBacks ==
  ASSUME CaptureInv, NEW source, NEW list \in Lists, PersistTransaction(source, list)
  PROVE  CaptureInv'
  <1>1. PICK n \in Nat : n = lastTx.n + 1
    BY DEF CaptureInv
  <1>2. PICK outs : outs = StoredOutputs(list, source)
    OBVIOUS
  <1>3. PICK rows : rows = RegisteredRows(Candidates(list, source), source, n)
    OBVIOUS
  <1>4. PICK opens : opens = IndexerOpens(list, source, n, outs)
    OBVIOUS
  <1>5. /\ registry' = registry \cup rows /\ opened' = opened \cup opens
        /\ lastTx' = [n |-> n, source |-> source, list |-> list, stored |-> outs]
        /\ captureArmed' = captureArmed
    BY <1>1, <1>2, <1>3, <1>4 DEF PersistTransaction
  <1>6. lastTx'.n = n /\ lastTx'.source = source /\ lastTx'.list = list /\ lastTx'.stored = outs
    BY <1>5
  <1>7. lastTx.n \in Nat /\ lastTx.n < n
    BY <1>1 DEF CaptureInv
  <1>8. \A r \in rows : r.tx = n
    BY <1>3, RowIsTaken
  <1>9. \A d \in opens : d.tx = n /\ d.oracle \in {None} \cup Payees
    <2>1. outs \subseteq Payees
      BY <1>2 DEF StoredOutputs
    <2> QED
      BY <1>4, <2>1 DEF IndexerOpens
  <1>10. \A r \in registry' : r.tx \in Nat /\ r.tx <= n
    BY <1>5, <1>7, <1>8 DEF CaptureInv
  <1>11. \A d \in opened' : d.tx \in Nat /\ d.tx <= n /\ d.oracle \in {None} \cup Payees
    BY <1>5, <1>7, <1>9 DEF CaptureInv
  <1>12. ASSUME captureArmed = TRUE, NEW d \in opened', d.get \notin Unresolved
         PROVE  Backed(d)'
    <2>1. CASE d \in opened
      <3>1. PICK r \in registry :
                /\ r.tx = d.tx /\ r.id = AddressId[d.get]
                /\ r.exp >= d.exp \/ r.exp = MaxSafe
                /\ r.src = IF AddressId[d.src] = r.id THEN NoId ELSE AddressId[d.src]
                /\ d.oracle /= None =>
                       \E e \in opened : /\ e.tx = d.tx /\ AddressId[e.get] = AddressId[d.get]
                                         /\ e.oracle /= None /\ r.oracle = e.oracle
        BY <1>12, <2>1 DEF CaptureInv, Backed
      <3> QED
        BY <1>5, <3>1 DEF Backed
    <2>2. CASE d \in opens
      <3>1. PICK i \in DOMAIN list :
                /\ d = OpenedBy(list[i], source, n) /\ IsCreate(list[i]) /\ Accepted(list[i])
                /\ list[i].oracle = None \/ list[i].oracle \in outs
        BY <1>4, <1>12, <2>2, OpenedIsTaken
      <3>2. PICK r \in rows : RowHolds(r, list, source, n, i)
        BY <1>3, <1>12, <3>1, TakenIsHeld
      <3>3. /\ d.tx = n /\ d.get = Operating(list[i], source) /\ d.src = source
            /\ d.oracle = list[i].oracle /\ d.exp = IndexerExpiration(list[i].token)
        BY <3>1 DEF OpenedBy
      <3>4. r.exp >= d.exp \/ r.exp = MaxSafe
        <4>1. /\ ExpirationOf(list[i].token) \in Nat /\ ExpirationOf(list[i].token) <= MaxSafe
              /\ ExpirationOf(list[i].token) >= d.exp \/ ExpirationOf(list[i].token) = MaxSafe
          BY <1>12, <3>1, <3>3, ExpirationsAgree DEF Accepted, IsCreate
        <4>2. d.exp \in Int
          BY <3>1, <3>3, CreateAssumption DEF IndexerExpiration, WireValue, IsCreate, Tokens, NoExpiration
        <4>3. r.exp \in Nat /\ ExpirationOf(list[i].token) <= r.exp /\ r.exp <= MaxSafe /\ MaxSafe \in Nat
          BY <3>2, CreateAssumption DEF RowHolds
        <4> QED
          BY <4>1, <4>2, <4>3
      <3>5. ASSUME d.oracle /= None
            PROVE  \E e \in opened' : /\ e.tx = d.tx /\ AddressId[e.get] = AddressId[d.get]
                                      /\ e.oracle /= None /\ r.oracle = e.oracle
        <4>1. Names(list[i])
          <5>1. outs \subseteq Payees
            BY <1>2 DEF StoredOutputs
          <5> QED
            BY <3>1, <3>3, <3>5, <5>1 DEF Names, Payees, Unresolved
        <4>2. PICK k \in DOMAIN list :
                  /\ Accepted(list[k]) /\ Names(list[k])
                  /\ AddressId[Operating(list[k], source)] = r.id /\ r.oracle = list[k].oracle
          BY <3>2, <4>1 DEF RowHolds
        <4>3. OpenedBy(list[k], source, n) \in opens
          BY <1>2, <1>4, <1>12, <4>2, TakenIsOpened DEF Names
        <4>4. PICK e : e = OpenedBy(list[k], source, n)
          OBVIOUS
        <4>5. e.tx = n /\ e.get = Operating(list[k], source) /\ e.oracle = list[k].oracle
          BY <4>4 DEF OpenedBy
        <4> QED
          BY <1>5, <3>2, <3>3, <4>2, <4>3, <4>4, <4>5 DEF RowHolds, Names
      <3> QED
        BY <1>5, <3>2, <3>3, <3>4, <3>5 DEF Backed, RowHolds
    <2> QED
      BY <1>5, <2>1, <2>2
  <1>13. ASSUME captureArmed = TRUE, NEW r \in registry', r.tx = n
         PROVE  \/ \E d \in opened' : d.tx = r.tx /\ AddressId[d.get] = r.id
                \/ \E c \in ListOf(list) : c.kind = "create" /\ c.oracle \in Unresolved
    <2>1. r \in rows
      BY <1>5, <1>7, <1>13 DEF CaptureInv
    <2>2. PICK i \in DOMAIN list : Accepted(list[i]) /\ r.id = AddressId[Operating(list[i], source)]
      BY <1>3, <2>1, RowIsTaken
    <2>3. CASE list[i].oracle \in Unresolved
      BY <2>2, <2>3 DEF ListOf, Accepted, IsDispenser
    <2>4. CASE list[i].oracle \notin Unresolved
      <3>1. OpenedBy(list[i], source, n) \in opens
        BY <1>2, <1>4, <1>13, <2>2, <2>4, TakenIsOpened
      <3>2. PICK d : d = OpenedBy(list[i], source, n)
        OBVIOUS
      <3>3. d.tx = n /\ d.get = Operating(list[i], source)
        BY <3>2 DEF OpenedBy
      <3> QED
        BY <1>5, <1>13, <2>2, <3>1, <3>2, <3>3
    <2> QED
      BY <2>3, <2>4
  <1>14. RegistersOnlyOpen'
    BY <1>5, <1>6, <1>13 DEF RegistersOnlyOpen, ListOf
  <1>15. ASSUME captureArmed = TRUE, Refill \in ListOf(list), NEW d \in opened',
                d.tx < n, d.oracle /= None, d.get \notin Unresolved,
                AddressId[source] \in {AddressId[d.get], AddressId[d.src]},
                \A e \in opened' : e.tx = d.tx /\ AddressId[e.get] = AddressId[d.get] /\ e.oracle /= None
                                       => e.oracle = d.oracle
         PROVE  d.oracle \in outs
    <2>1. d \in opened
      BY <1>5, <1>9, <1>15
    <2>2. Backed(d) /\ d.oracle \in Payees
      BY <1>15, <2>1 DEF CaptureInv
    <2>3. \A e \in opened : e.tx = d.tx /\ AddressId[e.get] = AddressId[d.get] /\ e.oracle /= None
                                => e.oracle = d.oracle
      BY <1>5, <1>15
    <2> QED
      BY <1>2, <1>15, <2>1, <2>2, <2>3, BackedIsPaid
  <1>16. RefillFeeSeen'
    BY <1>5, <1>6, <1>15 DEF RefillFeeSeen, ListOf
  <1> QED
    BY <1>1, <1>5, <1>6, <1>10, <1>11, <1>12, <1>14, <1>16 DEF CaptureInv

\* Whatever transactions come, the registry and the stored outputs agree with the
\* indexer: an open dispenser is held open as long as the indexer holds it, a row
\* belongs to one, and the oracle fee of a refill is stored
\* (persistTransaction, collapseDispenserRegistrations, capturePaymentOutputs).
THEOREM RegistryMirrors == CaptureSpec => []RegistryMirrorsIndexer
  <1>1. CaptureInit => CaptureInv
    <2> SUFFICES ASSUME CaptureInit PROVE CaptureInv
      OBVIOUS
    <2>1. lastTx.n = 0 /\ lastTx.list = <<>>
      BY DEF CaptureInit
    <2>2. registry = {} /\ opened = {}
      BY DEF CaptureInit
    <2> QED
      BY <2>1, <2>2 DEF CaptureInv, RegistersOnlyOpen, RefillFeeSeen
  <1>2. CaptureInv /\ [CaptureNext]_captureVars => CaptureInv'
    <2>1. CASE CaptureNext
      BY <2>1, PersistBacks DEF CaptureNext
    <2>2. CASE UNCHANGED captureVars
      BY <2>2 DEF captureVars, CaptureInv, Backed, RegistersOnlyOpen, RefillFeeSeen, ListOf
    <2> QED
      BY <2>1, <2>2
  <1>3. CaptureInv /\ captureArmed \in BOOLEAN => RegistryMirrorsIndexer
    BY DEF CaptureInv, RegistryMirrorsIndexer, OpenIsHeldOpen, Backed
  <1>4. CaptureInit => captureArmed \in BOOLEAN
    BY DEF CaptureInit
  <1>5. captureArmed \in BOOLEAN /\ [CaptureNext]_captureVars => (captureArmed \in BOOLEAN)'
    BY DEF CaptureNext, PersistTransaction, captureVars
  <1> QED
    BY <1>1, <1>2, <1>3, <1>4, <1>5, PTL DEF CaptureSpec

-----------------------------------------------------------------------------
(* Medians. *)

\* The entries of a list of naturals are naturals.
LEMMA EntriesOf ==
  ASSUME NEW w \in Seq(Nat)
  PROVE  Len(w) \in Nat /\ \A i \in 1..Len(w) : w[i] \in Nat
  OBVIOUS

\* Every list that is not empty has a greatest entry.
LEMMA GreatestAt ==
  ASSUME NEW w \in Seq(Nat), w /= <<>>
  PROVE  \E k \in 1..Len(w) : \A i \in 1..Len(w) : w[i] <= w[k]
  <1> DEFINE Bad == {n \in Nat : n > 0 /\ \E u \in Seq(Nat) :
                       Len(u) = n /\ ~\E k \in 1..n : \A i \in 1..n : u[i] <= u[k]}
  <1> SUFFICES ASSUME Bad /= {} PROVE FALSE
    <2>1. PICK n \in Nat : n = Len(w) /\ n > 0
      OBVIOUS
    <2>2. n \notin Bad
      OBVIOUS
    <2> QED
      BY <2>1, <2>2
  <1>1. PICK n \in Bad : n \in Nat /\ \A m \in Bad : n <= m
    <2>1. Bad \in SUBSET Nat
      OBVIOUS
    <2> HIDE DEF Bad
    <2> QED
      BY <2>1, LeastOf
  <1>2. PICK u \in Seq(Nat) : n > 0 /\ Len(u) = n /\ ~\E k \in 1..n : \A i \in 1..n : u[i] <= u[k]
    BY <1>1
  <1>3. n /= 1
    BY <1>2
  <1>4. n - 1 \in Nat /\ n - 1 > 0 /\ n - 1 \notin Bad
    <2>1. n - 1 \in Nat /\ n - 1 > 0 /\ ~(n <= n - 1)
      BY <1>1, <1>2, <1>3
    <2> HIDE DEF Bad
    <2> QED
      BY <1>1, <2>1
  <1> DEFINE v == [i \in 1..(n - 1) |-> u[i]]
  <1>5. v \in Seq(Nat) /\ Len(v) = n - 1 /\ \A i \in 1..(n - 1) : v[i] = u[i]
    <2> HIDE DEF Bad
    <2>1. \A i \in 1..(n - 1) : u[i] \in Nat
      <3>1. \A i \in 1..n : u[i] \in Nat
        BY <1>2, EntriesOf, Zenon
      <3> QED
        BY <1>1, <3>1
    <2> QED
      BY <1>4, <2>1
  <1> HIDE DEF v
  <1>6. PICK k \in 1..(n - 1) : \A i \in 1..(n - 1) : v[i] <= v[k]
    BY <1>4, <1>5
  <1> HIDE DEF Bad
  <1>7. \A i \in 1..n : u[i] \in Nat /\ (i = n \/ i \in 1..(n - 1))
    <2>1. \A i \in 1..n : u[i] \in Nat
      BY <1>2, EntriesOf, Zenon
    <2>2. \A i \in 1..n : i = n \/ i \in 1..(n - 1)
      BY <1>1
    <2> QED
      BY <2>1, <2>2
  <1>8. n \in 1..n /\ k \in 1..n
    BY <1>1, <1>4
  <1>9. CASE u[n] <= u[k]
    BY <1>2, <1>5, <1>6, <1>7, <1>8, <1>9
  <1>10. CASE ~(u[n] <= u[k])
    <2>1. \A i \in 1..(n - 1) : u[i] <= u[k]
      BY <1>5, <1>6
    <2>2. ASSUME NEW i \in 1..n PROVE u[i] <= u[n]
      <3>1. u[n] \in Nat /\ u[k] \in Nat /\ u[i] \in Nat
        BY <1>7, <1>8
      <3>2. i = n \/ u[i] <= u[k]
        BY <1>7, <2>1
      <3> QED
        BY <1>10, <3>1, <3>2
    <2> QED
      BY <1>2, <1>8, <2>2
  <1> QED
    BY <1>9, <1>10

\* p puts the places of w in the order of what they hold.
Orders(p, w) ==
    /\ p \in [1..Len(w) -> 1..Len(w)]
    /\ \A i, j \in 1..Len(w) : i < j => p[i] /= p[j] /\ w[p[i]] <= w[p[j]]

\* Every list can be put in order.
LEMMA OrderExists ==
  ASSUME NEW w \in Seq(Nat)
  PROVE  \E p : Orders(p, w)
  <1> DEFINE Bad == {n \in Nat : \E u \in Seq(Nat) : Len(u) = n /\ ~\E p : Orders(p, u)}
  <1> SUFFICES ASSUME Bad /= {} PROVE FALSE
    <2>1. PICK n \in Nat : n = Len(w)
      OBVIOUS
    <2>2. n \notin Bad
      OBVIOUS
    <2> QED
      BY <2>1, <2>2
  <1>1. PICK n \in Bad : n \in Nat /\ \A m \in Bad : n <= m
    <2>1. Bad \in SUBSET Nat
      OBVIOUS
    <2> HIDE DEF Bad
    <2> QED
      BY <2>1, LeastOf
  <1>2. PICK u \in Seq(Nat) : Len(u) = n /\ ~\E p : Orders(p, u)
    BY <1>1
  <1>3. n > 0
    <2> SUFFICES ASSUME n = 0 PROVE FALSE
      BY <1>1
    <2> DEFINE p == [i \in 1..0 |-> i]
    <2>1. Orders(p, u)
      BY <1>2 DEF Orders
    <2> QED
      BY <1>2, <2>1
  <1>4. PICK k \in 1..n : \A i \in 1..n : u[i] <= u[k]
    <2>1. u /= <<>>
      BY <1>2, <1>3
    <2> QED
      BY <1>2, <2>1, GreatestAt
  <1>5. n - 1 \in Nat /\ n - 1 \notin Bad
    BY <1>1, <1>3
  <1> DEFINE v == [i \in 1..(n - 1) |-> IF i = k THEN u[n] ELSE u[i]]
  <1>6. v \in Seq(Nat) /\ Len(v) = n - 1 /\ \A i \in 1..(n - 1) : v[i] = IF i = k THEN u[n] ELSE u[i]
    BY <1>2, <1>3, <1>5
  <1> HIDE DEF v
  <1>7. PICK q : Orders(q, v)
    BY <1>5, <1>6
  <1> HIDE DEF Bad
  <1>8. /\ q \in [1..(n - 1) -> 1..(n - 1)]
        /\ \A i, j \in 1..(n - 1) : i < j => q[i] /= q[j] /\ v[q[i]] <= v[q[j]]
    BY <1>6, <1>7 DEF Orders
  <1> DEFINE p == [i \in 1..n |-> IF i = n THEN k ELSE IF q[i] = k THEN n ELSE q[i]]
  <1>9. p \in [1..n -> 1..n]
    BY <1>1, <1>3, <1>8
  <1>10. p[n] = k /\ \A i \in 1..(n - 1) : p[i] = IF q[i] = k THEN n ELSE q[i]
    BY <1>1, <1>3
  <1> HIDE DEF p
  <1>11. \A i \in 1..(n - 1) : /\ q[i] \in 1..(n - 1) /\ u[p[i]] = v[q[i]]
                              /\ p[i] /= k /\ p[i] \in 1..n
    <2> TAKE i \in 1..(n - 1)
    <2>1. q[i] \in 1..(n - 1)
      BY <1>8
    <2>2. CASE q[i] = k
      <3>1. p[i] = n /\ v[q[i]] = u[n] /\ k /= n
        BY <1>6, <1>10, <2>1, <2>2
      <3> QED
        BY <1>1, <1>3, <2>1, <3>1
    <2>3. CASE q[i] /= k
      <3>1. p[i] = q[i] /\ v[q[i]] = u[q[i]]
        BY <1>6, <1>10, <2>1, <2>3
      <3>2. \A x \in 1..(n - 1) : x \in 1..n
        BY <1>1
      <3> QED
        BY <2>1, <2>3, <3>1, <3>2
    <2> QED
      BY <2>2, <2>3
  <1>12. \A i, j \in 1..(n - 1) : q[i] /= q[j] => p[i] /= p[j]
    BY <1>1, <1>8, <1>10
  <1>13. \A i, j \in 1..n : i < j => p[i] /= p[j] /\ u[p[i]] <= u[p[j]]
    <2> SUFFICES ASSUME NEW i \in 1..n, NEW j \in 1..n, i < j
                 PROVE  p[i] /= p[j] /\ u[p[i]] <= u[p[j]]
      OBVIOUS
    <2>1. i \in 1..(n - 1)
      BY <1>1
    <2>2. CASE j = n
      BY <1>4, <1>10, <1>11, <2>1, <2>2
    <2>3. CASE j /= n
      <3>1. j \in 1..(n - 1)
        BY <1>1, <2>3
      <3> QED
        BY <1>8, <1>11, <1>12, <2>1, <3>1
    <2> QED
      BY <2>2, <2>3
  <1>14. Orders(p, u)
    BY <1>2, <1>9, <1>13 DEF Orders
  <1> QED
    BY <1>2, <1>14

\* InOrder puts a list in order.
LEMMA InOrderOrders ==
  ASSUME NEW w \in Seq(Nat)
  PROVE  Orders(InOrder(w), w)
  <1> DEFINE P(p) == \A i, j \in 1..Len(w) : i < j => p[i] /= p[j] /\ w[p[i]] <= w[p[j]]
  <1>1. \E p \in [1..Len(w) -> 1..Len(w)] : P(p)
    BY OrderExists DEF Orders
  <1>2. InOrder(w) = CHOOSE p \in [1..Len(w) -> 1..Len(w)] : P(p)
    BY Zenon DEF InOrder
  <1>3. InOrder(w) \in [1..Len(w) -> 1..Len(w)] /\ P(InOrder(w))
    <2> HIDE DEF P
    <2> QED
      BY <1>1, <1>2, Zenon
  <1> QED
    BY <1>3 DEF Orders

\* The median of a list, and the places of what is below it and up to it.
MedianOf(w) == w[InOrder(w)[Len(w) \div 2 + 1]]
Below(w, v) == {k \in 1..Len(w) : w[k] < v}
UpTo(w, v) == {k \in 1..Len(w) : w[k] <= v}

\* Renaming the members of a finite set one to one keeps their number.
LEMMA SameSize ==
  ASSUME NEW S, IsFiniteSet(S), NEW T, NEW f, T = {f[x] : x \in S},
         \A x, y \in S : x /= y => f[x] /= f[y]
  PROVE  IsFiniteSet(T) /\ Cardinality(T) = Cardinality(S)
  <1> DEFINE g == [x \in S |-> f[x]]
  <1>1. g \in Injection(S, T)
    BY DEF Injection, IsInjective
  <1>2. g \in Surjection(S, T)
    BY DEF Surjection
  <1>3. ExistsBijection(S, T)
    <2> HIDE DEF g
    <2> QED
      BY <1>1, <1>2 DEF ExistsBijection, Bijection
  <1> QED
    BY <1>3, FS_Bijection

\* At most half of a list is below its median, and more than half is not above.
LEMMA MedianCounts ==
  ASSUME NEW w \in Seq(Nat), w /= <<>>
  PROVE  /\ \E k \in 1..Len(w) : MedianOf(w) = w[k]
         /\ MedianOf(w) \in Nat
         /\ 2 * Cardinality(Below(w, MedianOf(w))) <= Len(w)
         /\ 2 * Cardinality(UpTo(w, MedianOf(w))) > Len(w)
         /\ \A v : /\ IsFiniteSet(Below(w, v)) /\ Cardinality(Below(w, v)) \in Nat
                   /\ IsFiniteSet(UpTo(w, v)) /\ Cardinality(UpTo(w, v)) \in Nat
  <1>1. PICK n \in Nat : n = Len(w) /\ n > 0
    OBVIOUS
  <1>2. PICK p : p = InOrder(w)
    OBVIOUS
  <1>3. /\ p \in [1..n -> 1..n]
        /\ \A i, j \in 1..n : i < j => p[i] /= p[j] /\ w[p[i]] <= w[p[j]]
    BY <1>1, <1>2, InOrderOrders DEF Orders
  <1>4. PICK h \in 1..n : h = n \div 2 + 1 /\ 2 * (h - 1) <= n /\ 2 * h > n
    BY <1>1
  <1>5. PICK m \in Nat : m = w[p[h]] /\ m = MedianOf(w)
    BY <1>1, <1>2, <1>3, <1>4 DEF MedianOf
  <1>6. p[h] \in 1..n /\ w[p[h]] = m /\ m <= m
    BY <1>3, <1>5
  <1>7. \A v : /\ IsFiniteSet(Below(w, v)) /\ Cardinality(Below(w, v)) \in Nat
               /\ IsFiniteSet(UpTo(w, v)) /\ Cardinality(UpTo(w, v)) \in Nat
    <2>1. IsFiniteSet(1..n)
      BY FS_Interval
    <2>2. \A v : Below(w, v) \in SUBSET (1..n) /\ UpTo(w, v) \in SUBSET (1..n)
      BY <1>1 DEF Below, UpTo
    <2> QED
      BY <2>1, <2>2, FS_Subset, FS_CardinalityType
  <1>8. ASSUME NEW a \in 1..n, NEW b \in 1..n, a <= b
        PROVE  /\ IsFiniteSet({p[x] : x \in a..b}) /\ Cardinality({p[x] : x \in a..b}) = b - a + 1
               /\ {p[x] : x \in a..b} \subseteq 1..n
    <2> DEFINE f == [x \in a..b |-> p[x]]
    <2>1. \A x \in a..b : x \in 1..n /\ f[x] = p[x]
      BY <1>8
    <2>2. \A x, y \in a..b : x /= y => f[x] /= f[y]
      <3> SUFFICES ASSUME NEW x \in a..b, NEW y \in a..b, x /= y PROVE f[x] /= f[y]
        OBVIOUS
      <3>1. x < y \/ y < x
        BY <1>8
      <3> HIDE DEF f
      <3> QED
        BY <1>3, <2>1, <3>1
    <2>3. IsFiniteSet(a..b) /\ Cardinality(a..b) = b - a + 1
      <3>1. a \in Int /\ b \in Int /\ ~(a > b)
        BY <1>8
      <3> QED
        BY <3>1, FS_Interval
    <2>4. {p[x] : x \in a..b} = {f[x] : x \in a..b}
      OBVIOUS
    <2> HIDE DEF f
    <2>5. IsFiniteSet({p[x] : x \in a..b}) /\ Cardinality({p[x] : x \in a..b}) = b - a + 1
      BY <2>2, <2>3, <2>4, SameSize
    <2> QED
      BY <1>3, <2>1, <2>5
  <1>9. \A x \in 1..n : p[x] \in 1..n /\ w[p[x]] \in Nat
    <2>1. \A k \in 1..n : w[k] \in Nat
      BY <1>1
    <2> QED
      BY <1>3, <2>1
  <1>10. 2 * Cardinality(UpTo(w, m)) > n
    <2> DEFINE T == {p[x] : x \in 1..h}
    <2>1. IsFiniteSet(T) /\ Cardinality(T) = h
      <3>1. 1 \in 1..n /\ 1 <= h /\ h - 1 + 1 = h
        BY <1>1
      <3>2. IsFiniteSet(T) /\ Cardinality(T) = h - 1 + 1
        BY <1>8, <3>1
      <3> QED
        BY <3>1, <3>2
    <2>2. ASSUME NEW x \in 1..h PROVE x \in 1..n /\ w[p[x]] <= m
      <3>1. x \in 1..n /\ (x = h \/ x < h)
        BY <1>1
      <3>2. CASE x = h
        BY <1>6, <3>1, <3>2, Zenon
      <3>3. CASE x < h
        BY <1>3, <1>6, <3>1, <3>3
      <3> QED
        BY <3>1, <3>2, <3>3
    <2>3. T \in SUBSET UpTo(w, m)
      BY <1>1, <1>3, <2>2 DEF UpTo
    <2> HIDE DEF T
    <2>4. h <= Cardinality(UpTo(w, m)) /\ Cardinality(UpTo(w, m)) \in Nat
      BY <1>7, <2>1, <2>3, FS_Subset
    <2> QED
      BY <1>1, <1>4, <2>4
  <1>11. 2 * Cardinality(Below(w, m)) <= n
    <2> DEFINE T == {p[x] : x \in h..n}
    <2>1. IsFiniteSet(T) /\ Cardinality(T) = n - h + 1 /\ T \subseteq 1..n
      <3>1. n \in 1..n /\ h <= n
        BY <1>1
      <3> QED
        BY <1>8, <3>1
    <2>2. ASSUME NEW x \in h..n PROVE x \in 1..n /\ ~(w[p[x]] < m)
      <3>1. x \in 1..n /\ (x = h \/ h < x)
        BY <1>1
      <3>2. m <= w[p[x]] /\ w[p[x]] \in Nat
        <4>1. CASE x = h
          BY <1>6, <1>9, <3>1, <4>1, Zenon
        <4>2. CASE h < x
          BY <1>3, <1>6, <1>9, <3>1, <4>2
        <4> QED
          BY <3>1, <4>1, <4>2
      <3> QED
        BY <1>5, <3>1, <3>2
    <2>3. T \cap Below(w, m) = {}
      BY <2>2 DEF Below
    <2>4. Below(w, m) \subseteq 1..n
      BY <1>1 DEF Below
    <2> HIDE DEF T
    <2>5. /\ IsFiniteSet(T \cup Below(w, m))
          /\ Cardinality(T \cup Below(w, m)) =
                Cardinality(T) + Cardinality(Below(w, m)) - Cardinality(T \cap Below(w, m))
      BY <1>7, <2>1, FS_Union
    <2>6. IsFiniteSet(1..n) /\ Cardinality(1..n) = n
      <3>1. IsFiniteSet(1..n) /\ Cardinality(1..n) = IF 1 > n THEN 0 ELSE n - 1 + 1
        BY FS_Interval
      <3> QED
        BY <1>1, <3>1
    <2>7. T \cup Below(w, m) \in SUBSET (1..n)
      BY <2>1, <2>4
    <2>8. Cardinality(T \cup Below(w, m)) <= n
      BY <2>6, <2>7, FS_Subset
    <2>9. Cardinality(T \cap Below(w, m)) = 0
      BY <2>3, FS_EmptySet
    <2>10. PICK c \in Nat : c = Cardinality(Below(w, m))
      BY <1>7
    <2>11. n - h + 1 + c <= n
      BY <2>1, <2>5, <2>8, <2>9, <2>10
    <2> QED
      BY <1>1, <1>4, <2>10, <2>11
  <1> QED
    BY <1>1, <1>5, <1>6, <1>7, <1>10, <1>11

\* A list that drops its oldest entries, or none, and gains one above its median
\* at the front has no smaller median.
LEMMA MedianMoves ==
  ASSUME NEW v \in Seq(Nat), v /= <<>>, NEW w \in Seq(Nat),
         Len(v) <= Len(w), Len(w) <= Len(v) + 1,
         \A k \in 1..Len(w) : k > 1 => w[k] = v[k - 1],
         w[1] > MedianOf(v)
  PROVE  MedianOf(v) <= MedianOf(w)
  <1>1. PICK a, b \in Nat : a = Len(v) /\ b = Len(w) /\ a > 0 /\ a <= b /\ b <= a + 1
    OBVIOUS
  <1>2. PICK m \in Nat : m = MedianOf(v)
    BY MedianCounts
  <1>3. w /= <<>>
    BY <1>1
  <1>4. PICK l \in Nat : l = MedianOf(w)
    BY <1>3, MedianCounts
  <1> SUFFICES ASSUME l < m PROVE FALSE
    BY <1>2, <1>4
  <1>5. PICK less \in Nat : less = Cardinality(Below(v, m)) /\ 2 * less <= a
    BY <1>1, <1>2, MedianCounts
  <1>6. PICK most \in Nat : most = Cardinality(UpTo(w, l)) /\ 2 * most > b
    BY <1>1, <1>3, <1>4, MedianCounts
  <1>7. \A k \in UpTo(w, l) : k \in Nat /\ k - 1 \in Below(v, m)
    <2> SUFFICES ASSUME NEW k \in UpTo(w, l) PROVE k \in Nat /\ k - 1 \in Below(v, m)
      OBVIOUS
    <2>1. k \in 1..b /\ w[k] <= l
      BY <1>1 DEF UpTo
    <2>2. w[k] \in Nat /\ w[1] \in Nat
      <3>1. 1 \in 1..b
        BY <1>1
      <3> QED
        BY <1>1, <2>1, <3>1, EntriesOf
    <2>3. k /= 1
      BY <1>2, <2>1, <2>2
    <2>4. k - 1 \in 1..a /\ w[k] = v[k - 1]
      BY <1>1, <2>1, <2>3
    <2>5. v[k - 1] < m
      BY <2>1, <2>2, <2>4
    <2> QED
      BY <1>1, <2>1, <2>4, <2>5 DEF Below
  <1> DEFINE f == [k \in UpTo(w, l) |-> k - 1]
             T == {f[k] : k \in UpTo(w, l)}
  <1>8. /\ T \subseteq Below(v, m)
        /\ \A x, y \in UpTo(w, l) : x /= y => f[x] /= f[y]
    BY <1>7
  <1>9. IsFiniteSet(UpTo(w, l)) /\ IsFiniteSet(Below(v, m))
    BY <1>3, MedianCounts
  <1>10. Cardinality(T) = most
    <2> HIDE DEF f
    <2> QED
      BY <1>6, <1>8, <1>9, SameSize
  <1> HIDE DEF T
  <1>11. most <= less
    BY <1>5, <1>8, <1>9, <1>10, FS_Subset
  <1> QED
    BY <1>1, <1>5, <1>6, <1>11

-----------------------------------------------------------------------------
(* The window of a stored block. *)

\* The stamps below the i-th row, newest first, as far as the window goes.
WindowOf(rows, i) == [k \in 1..Lesser(Span, i - 1) |-> rows[i - k].raw]

\* A list of rows, each with a stamp.
AreRows(rows) == (\E S : rows \in Seq(S)) /\ \A i \in 1..Len(rows) : rows[i].raw \in Nat \ {0}

\* A window is a list of stamps.
LEMMA WindowIs ==
  ASSUME NEW rows, AreRows(rows), NEW i \in 1..(Len(rows) + 1)
  PROVE  /\ WindowOf(rows, i) \in Seq(Nat) /\ Len(WindowOf(rows, i)) = Lesser(Span, i - 1)
         /\ Lesser(Span, i - 1) \in Nat /\ Lesser(Span, i - 1) <= i - 1 /\ Lesser(Span, i - 1) <= Span
         /\ \A k \in 1..Lesser(Span, i - 1) :
               /\ i - k \in 1..Len(rows) /\ WindowOf(rows, i)[k] = rows[i - k].raw
               /\ rows[i - k].raw \in Nat \ {0}
         /\ i > 1 => WindowOf(rows, i) /= <<>>
  <1>1. Span \in Nat \ {0} /\ Len(rows) \in Nat
    BY SpanAssumption DEF AreRows
  <1>2. PICK s \in Nat : s = Lesser(Span, i - 1) /\ s <= i - 1 /\ s <= Span /\ (i > 1 => s > 0)
    BY <1>1 DEF Lesser
  <1>3. \A k \in 1..s : i - k \in 1..Len(rows)
    BY <1>1, <1>2
  <1>4. \A k \in 1..s : rows[i - k].raw \in Nat \ {0}
    BY <1>3 DEF AreRows
  <1>5. WindowOf(rows, i) = [k \in 1..s |-> rows[i - k].raw]
    BY <1>2 DEF WindowOf
  <1>6. WindowOf(rows, i) \in Seq(Nat) /\ Len(WindowOf(rows, i)) = s
    BY <1>2, <1>4, <1>5
  <1> QED
    BY <1>2, <1>3, <1>4, <1>5, <1>6

\* The places a window stands for, in whatever list they are counted.
LEMMA FlippedSize ==
  ASSUME NEW S, IsFiniteSet(S), S \subseteq Int, NEW c \in Int
  PROVE  IsFiniteSet({c - k : k \in S}) /\ Cardinality({c - k : k \in S}) = Cardinality(S)
  <1> DEFINE f == [k \in S |-> c - k]
  <1>1. {c - k : k \in S} = {f[k] : k \in S}
    OBVIOUS
  <1>2. \A x, y \in S : x /= y => f[x] /= f[y]
    OBVIOUS
  <1> HIDE DEF f
  <1> QED
    BY <1>1, <1>2, SameSize

\* The median of what was read back is the median of the window, if enough was
\* read (medianTimePast, fetchBlockTimes).
LEMMA MedianOfRead ==
  ASSUME NEW rows, AreRows(rows), NEW i \in 1..(Len(rows) + 1),
         NEW times, (\E S : times \in Seq(S)), Lesser(Span, i - 1) <= Len(times), Len(times) <= i - 1,
         \A k \in 1..Len(times) : times[k] = rows[i - k].raw
  PROVE  MedianTimePast(times) = IF i = 1 THEN NoTime ELSE MedianOf(WindowOf(rows, i))
  <1>1. Span \in Nat \ {0} /\ Len(rows) \in Nat /\ Len(times) \in Nat
    BY SpanAssumption DEF AreRows
  <1>2. PICK s \in Nat : s = Lesser(Span, i - 1) /\ s <= i - 1 /\ (i > 1 => s > 0)
    BY <1>1 DEF Lesser
  <1>3. Lesser(Span, Len(times)) = s
    BY <1>1, <1>2 DEF Lesser
  <1>4. PICK w : w = SubSeq(times, 1, s)
    OBVIOUS
  <1>5. Len(w) = s /\ DOMAIN w = 1..s /\ \A k \in 1..s : w[k] = times[k]
    BY <1>1, <1>2, <1>4
  <1>6. MedianTimePast(times) = IF w = <<>> THEN NoTime ELSE MedianOf(w)
    BY <1>3, <1>4, Zenon DEF MedianTimePast, MedianOf
  <1>7. \A k \in 1..s : w[k] = rows[i - k].raw
    <2>1. \A k \in 1..s : k \in 1..Len(times)
      BY <1>1, <1>2
    <2> QED
      BY <1>5, <2>1
  <1>8. w = WindowOf(rows, i)
    <2>1. w = [k \in 1..s |-> w[k]]
      BY <1>1, <1>2, <1>4, <1>5
    <2> QED
      BY <1>2, <1>7, <2>1 DEF WindowOf
  <1>9. w = <<>> <=> i = 1
    BY <1>2, <1>4, <1>5
  <1> QED
    BY <1>6, <1>8, <1>9

\* The window below a row depends on the rows below it alone.
LEMMA WindowKept ==
  ASSUME NEW rows, NEW new, NEW i \in Nat, i > 0,
         \A j \in 1..(i - 1) : new[j] = rows[j]
  PROVE  WindowOf(new, i) = WindowOf(rows, i)
  <1>1. Span \in Nat
    BY SpanAssumption
  <1>2. PICK s \in Nat : s = Lesser(Span, i - 1) /\ s <= i - 1
    BY <1>1 DEF Lesser
  <1>3. \A k \in 1..s : i - k \in 1..(i - 1)
    BY <1>2
  <1>4. \A k \in 1..s : new[i - k].raw = rows[i - k].raw
    BY <1>3
  <1> QED
    BY <1>2, <1>4 DEF WindowOf

\* The stamps read back are those of the newest rows (fetchBlockTimes).
LEMMA ReadBack ==
  ASSUME AreRows(stored), NEW span \in Nat, NEW times, times = FetchBlockTimes(span)
  PROVE  /\ times \in Seq(Nat) /\ Len(times) = Lesser(span, Len(stored))
         /\ \A k \in 1..Len(times) : times[k] = stored[Len(stored) + 1 - k].raw
  <1>1. PICK n \in Nat : n = Len(stored) /\ DOMAIN stored = 1..n
    BY DEF AreRows
  <1>2. \A j \in 1..n : stored[j].raw \in Nat
    BY <1>1 DEF AreRows
  <1>3. PICK all : all = StampsOf(stored)
    OBVIOUS
  <1>4. all = [j \in 1..n |-> stored[j].raw]
    BY <1>1, <1>3 DEF StampsOf
  <1>5. all \in Seq(Nat) /\ Len(all) = n
    BY <1>2, <1>4
  <1>6. PICK back : back = Reverse(all)
    OBVIOUS
  <1>7. back = [k \in 1..n |-> all[(n - k) + 1]]
    BY <1>5, <1>6 DEF Reverse
  <1>8. \A k \in 1..n : n - k + 1 \in 1..n /\ back[k] = stored[n + 1 - k].raw
    <2>1. \A k \in 1..n : n - k + 1 \in 1..n /\ n - k + 1 = n + 1 - k
      OBVIOUS
    <2> QED
      BY <1>4, <1>7, <2>1
  <1>9. back \in Seq(Nat) /\ Len(back) = n
    <2>1. \A k \in 1..n : all[(n - k) + 1] \in Nat
      BY <1>2, <1>4, <1>8
    <2> QED
      BY <1>7, <2>1
  <1>10. PICK s \in Nat : s = Lesser(span, n) /\ s <= n
    BY DEF Lesser
  <1>11. times = SubSeq(back, 1, s)
    BY <1>3, <1>6, <1>9, <1>10 DEF FetchBlockTimes
  <1>12. times \in Seq(Nat) /\ Len(times) = s /\ \A k \in 1..s : times[k] = back[k]
    BY <1>9, <1>10, <1>11
  <1>13. \A k \in 1..s : k \in 1..n
    BY <1>10
  <1> QED
    BY <1>1, <1>8, <1>10, <1>12, <1>13

\* The time a row is decoded at: on an MTP network the lesser of its stamp and
\* the median of its window.
Resolved(rows, i, on) ==
    IF on /\ i > 1 THEN Lesser(MedianOf(WindowOf(rows, i)), rows[i].raw) ELSE rows[i].raw

\* The median of a window that is not empty is a stamp.
LEMMA MedianIsStamp ==
  ASSUME NEW rows, AreRows(rows), NEW i \in 2..(Len(rows) + 1)
  PROVE  MedianOf(WindowOf(rows, i)) \in Nat \ {0}
  <1>1. i \in 1..(Len(rows) + 1) /\ i > 1
    BY DEF AreRows
  <1>2. WindowOf(rows, i) \in Seq(Nat) /\ WindowOf(rows, i) /= <<>>
    BY <1>1, WindowIs
  <1>3. PICK k \in 1..Len(WindowOf(rows, i)) : MedianOf(WindowOf(rows, i)) = WindowOf(rows, i)[k]
    BY <1>2, MedianCounts
  <1>4. /\ Len(WindowOf(rows, i)) = Lesser(Span, i - 1)
        /\ \A j \in 1..Lesser(Span, i - 1) :
               WindowOf(rows, i)[j] = rows[i - j].raw /\ rows[i - j].raw \in Nat \ {0}
    BY <1>1, WindowIs
  <1> QED
    BY <1>3, <1>4

\* What a new row is resolved to: its own time by its window, its parent's by the
\* parent's window (resolveBlockTimeContext).
LEMMA ContextIs ==
  ASSUME AreRows(stored), mtp \in BOOLEAN, NEW raw \in Nat \ {0},
         NEW n, n = Len(stored), NEW ctx, ctx = BlockTimeContext(raw)
  PROVE  /\ ctx.raw = raw
         /\ ctx.protocol = IF mtp /\ n > 0 THEN Lesser(MedianOf(WindowOf(stored, n + 1)), raw) ELSE raw
         /\ n > 0 /\ ParentFloorActive(raw) => ctx.parent = Resolved(stored, n, mtp)
  <1>1. n \in Nat /\ n + 1 \in 1..(n + 1) /\ (n + 1) - 1 = n
    BY DEF AreRows
  <1>2. Span \in Nat \ {0}
    BY SpanAssumption
  <1>3. PICK span \in Nat : /\ span = HistorySpan(raw)
                            /\ mtp => span >= Span
                            /\ mtp /\ ParentFloorActive(raw) => span = Span + 1
                            /\ ~mtp /\ ParentFloorActive(raw) => span = 1
    BY <1>2 DEF HistorySpan
  <1>4. PICK times : times = FetchBlockTimes(span)
    OBVIOUS
  <1>5. /\ times \in Seq(Nat) /\ Len(times) = Lesser(span, n)
        /\ \A k \in 1..Len(times) : times[k] = stored[n + 1 - k].raw
    BY <1>3, <1>4, ReadBack
  <1>6. /\ ctx.raw = raw /\ ctx.protocol = ResolvedTime(raw, times)
        /\ ctx.parent = IF times = <<>> THEN NoTime ELSE ResolvedTime(times[1], Tail(times))
    BY <1>3, <1>4 DEF BlockTimeContext
  <1>7. ctx.protocol = IF mtp /\ n > 0 THEN Lesser(MedianOf(WindowOf(stored, n + 1)), raw) ELSE raw
    <2>1. CASE ~mtp
      BY <1>6, <2>1 DEF ResolvedTime
    <2>2. CASE mtp
      <3>1. Lesser(Span, (n + 1) - 1) <= Len(times) /\ Len(times) <= (n + 1) - 1
        BY <1>1, <1>2, <1>3, <1>5, <2>2 DEF Lesser
      <3>2. MedianTimePast(times) = IF n + 1 = 1 THEN NoTime ELSE MedianOf(WindowOf(stored, n + 1))
        BY <1>1, <1>5, <3>1, MedianOfRead
      <3>3. n > 0 => MedianOf(WindowOf(stored, n + 1)) \in Nat \ {0}
        BY <1>1, MedianIsStamp
      <3>4. CASE n = 0
        <4>1. MedianTimePast(times) = NoTime
          BY <3>2, <3>4
        <4> QED
          BY <1>6, <3>4, <4>1 DEF ResolvedTime
      <3>5. CASE n > 0
        <4>1. MedianTimePast(times) = MedianOf(WindowOf(stored, n + 1)) /\ MedianTimePast(times) /= NoTime
          BY <1>1, <3>2, <3>3, <3>5 DEF NoTime
        <4> QED
          BY <1>6, <2>2, <3>5, <4>1 DEF ResolvedTime
      <3> QED
        BY <1>1, <3>4, <3>5
    <2> QED
      BY <2>1, <2>2
  <1>8. ASSUME n > 0, ParentFloorActive(raw)
        PROVE  ctx.parent = Resolved(stored, n, mtp)
    <2>1. Len(times) > 0 /\ times /= <<>>
      BY <1>1, <1>2, <1>3, <1>5, <1>8 DEF Lesser
    <2>2. times[1] = stored[n].raw
      <3>1. 1 \in 1..Len(times) /\ n + 1 - 1 = n
        BY <1>1, <1>5, <2>1
      <3> QED
        BY <1>5, <3>1
    <2>3. ctx.parent = ResolvedTime(stored[n].raw, Tail(times))
      BY <1>6, <2>1, <2>2
    <2>4. CASE ~mtp
      BY <2>3, <2>4 DEF ResolvedTime, Resolved
    <2>5. CASE mtp
      <3>1. PICK rest : rest = Tail(times)
        OBVIOUS
      <3>2. /\ rest \in Seq(Nat) /\ Len(rest) = Len(times) - 1
            /\ \A k \in 1..Len(rest) : rest[k] = times[k + 1]
        BY <1>5, <2>1, <3>1
      <3>3. Lesser(Span, n - 1) <= Len(rest) /\ Len(rest) <= n - 1
        BY <1>1, <1>2, <1>3, <1>5, <1>8, <2>5, <3>2 DEF Lesser
      <3>4. \A k \in 1..Len(rest) : rest[k] = stored[n - k].raw
        <4>1. \A k \in 1..Len(rest) : k + 1 \in 1..Len(times) /\ n + 1 - (k + 1) = n - k
          BY <1>1, <1>5, <3>2
        <4> QED
          BY <1>5, <3>2, <4>1
      <3>5. n \in 1..(Len(stored) + 1)
        BY <1>1, <1>8
      <3>6. MedianTimePast(rest) = IF n = 1 THEN NoTime ELSE MedianOf(WindowOf(stored, n))
        <4>1. \E S : rest \in Seq(S)
          BY <3>2
        <4> HIDE DEF MedianOf, WindowOf
        <4> QED
          BY <3>3, <3>4, <3>5, <4>1, MedianOfRead
      <3>7. n > 1 => MedianOf(WindowOf(stored, n)) \in Nat \ {0}
        BY <1>1, MedianIsStamp
      <3>8. CASE n = 1
        <4>1. MedianTimePast(rest) = NoTime
          BY <3>6, <3>8
        <4> QED
          BY <2>3, <3>1, <3>8, <4>1 DEF ResolvedTime, Resolved
      <3>9. CASE n > 1
        <4>1. MedianTimePast(rest) = MedianOf(WindowOf(stored, n)) /\ MedianTimePast(rest) /= NoTime
          BY <3>6, <3>7, <3>9 DEF NoTime
        <4> QED
          BY <2>3, <2>5, <3>1, <3>9, <4>1 DEF ResolvedTime, Resolved
      <3> QED
        BY <1>1, <1>8, <3>8, <3>9
    <2> QED
      BY <2>4, <2>5
  <1> QED
    BY <1>6, <1>7, <1>8

\* The entries of a joined list past the first part are those of the second.
LEMMA JoinedAt ==
  ASSUME NEW a \in Seq(Nat), NEW b \in Seq(Nat), NEW s, s = a \o b
  PROVE  /\ s \in Seq(Nat) /\ Len(s) = Len(a) + Len(b) /\ Len(a) \in Nat /\ Len(b) \in Nat
         /\ \A k \in 1..Len(s) : k > Len(a) => s[k] = b[k - Len(a)]
  <1>1. s \in Seq(Nat) /\ Len(s) = Len(a) + Len(b) /\ Len(a) \in Nat /\ Len(b) \in Nat
    OBVIOUS
  <1>2. \A k \in 1..Len(s) : k > Len(a) => s[k] = b[k - Len(a)]
    OBVIOUS
  <1> QED
    BY <1>1, <1>2

\* A stamp the node accepts is later than the median of the window, where the
\* window holds all the node looks at: from genesis on, or once it is full.
LEMMA AcceptedIsLater ==
  ASSUME AreRows(stored), NEW n \in Nat \ {0}, n = Len(stored), NEW b \in Seq(Nat),
         b = <<>> \/ n >= Span, NEW raw \in Nat, NodeAccepts(b \o StampsOf(stored), raw)
  PROVE  raw > MedianOf(WindowOf(stored, n + 1))
  <1>1. Span \in Nat \ {0} /\ DOMAIN stored = 1..n
    BY SpanAssumption DEF AreRows
  <1>2. PICK w : w = WindowOf(stored, n + 1)
    OBVIOUS
  <1>3. PICK s \in Nat : /\ s = Lesser(Span, n) /\ s <= n /\ s <= Span /\ s > 0
                         /\ s = Span \/ s = n
                         /\ n >= Span => s = Span
    BY <1>1 DEF Lesser
  <1>4. PICK i \in 1..(Len(stored) + 1) : i = n + 1 /\ i - 1 = n /\ i > 1
    OBVIOUS
  <1>5. /\ w \in Seq(Nat) /\ Len(w) = s /\ w /= <<>>
        /\ \A k \in 1..s : w[k] = stored[i - k].raw
    <2>1. Lesser(Span, i - 1) = s
      BY <1>3, <1>4
    <2>2. w = WindowOf(stored, i)
      BY <1>2, <1>4
    <2>3. /\ WindowOf(stored, i) \in Seq(Nat) /\ Len(WindowOf(stored, i)) = Lesser(Span, i - 1)
          /\ \A k \in 1..Lesser(Span, i - 1) : WindowOf(stored, i)[k] = stored[i - k].raw
          /\ WindowOf(stored, i) /= <<>>
      BY <1>4, WindowIs
    <2> QED
      BY <2>1, <2>2, <2>3
  <1>6. PICK all : all = StampsOf(stored)
    OBVIOUS
  <1>7. all \in Seq(Nat) /\ Len(all) = n /\ \A j \in 1..n : all[j] = stored[j].raw
    <2>1. all = [j \in 1..n |-> stored[j].raw]
      BY <1>1, <1>6 DEF StampsOf
    <2>2. \A j \in 1..n : stored[j].raw \in Nat
      BY DEF AreRows
    <2> QED
      BY <2>1, <2>2
  <1>8. PICK chain : chain = b \o all
    OBVIOUS
  <1>9. PICK l \in Nat : l = Len(b) /\ (l = 0 \/ s = Span) /\ (l = 0 => s = Span \/ s = n)
    <2>1. b = <<>> => Len(b) = 0
      OBVIOUS
    <2> QED
      BY <1>3, <2>1
  <1>10. Len(chain) = l + n /\ DOMAIN chain = 1..(l + n) /\ \A j \in 1..n : chain[l + j] = all[j]
    <2>1. chain \in Seq(Nat) /\ Len(chain) = Len(b) + Len(all)
      BY <1>7, <1>8, JoinedAt
    <2>2. \A j \in 1..n : chain[l + j] = all[j]
      <3>1. \A k \in 1..(l + n) : k > l => chain[k] = all[k - l]
        <4>1. \A k \in 1..Len(chain) : k > Len(b) => chain[k] = all[k - Len(b)]
          BY <1>7, <1>8, JoinedAt
        <4> QED
          BY <1>7, <1>9, <2>1, <4>1
      <3>2. \A j \in 1..n : l + j \in 1..(l + n) /\ l + j > l /\ (l + j) - l = j
        BY <1>9
      <3> QED
        BY <3>1, <3>2
    <2>3. Len(chain) = l + n
      BY <1>7, <1>9, <2>1
    <2>4. DOMAIN chain = 1..(l + n)
      BY <2>1, <2>3
    <2> QED
      BY <2>2, <2>3, <2>4
  <1> DEFINE Flip(S) == {(l + n + 1) - k : k \in S}
             window == {j \in DOMAIN chain : j > Len(chain) - Span}
             Lower(v) == {j \in window : chain[j] < v}
             Upto(v) == {j \in window : chain[j] <= v}
  <1>11. window = Flip(1..s)
    <2>1. ASSUME NEW j \in window PROVE j \in Flip(1..s)
      <3>1. (l + n + 1) - j \in 1..s /\ j = (l + n + 1) - ((l + n + 1) - j)
        BY <1>1, <1>3, <1>9, <1>10
      <3> QED
        BY <3>1
    <2>2. ASSUME NEW k \in 1..s PROVE (l + n + 1) - k \in window
      BY <1>1, <1>3, <1>9, <1>10
    <2> QED
      BY <2>1, <2>2
  <1>12. \A k \in 1..s : chain[(l + n + 1) - k] = w[k]
    <2>1. \A k \in 1..s : n + 1 - k \in 1..n /\ (l + n + 1) - k = l + (n + 1 - k)
      BY <1>3
    <2> QED
      <3> SUFFICES ASSUME NEW k \in 1..s PROVE chain[(l + n + 1) - k] = w[k]
        OBVIOUS
      <3>1. PICK j \in 1..n : j = n + 1 - k /\ (l + n + 1) - k = l + j /\ i - k = j
        <4>1. i - k = n + 1 - k
          BY <1>4
        <4> QED
          BY <2>1, <4>1
      <3>2. w[k] = stored[j].raw
        BY <1>5, <3>1, Zenon
      <3>3. chain[l + j] = stored[j].raw
        BY <1>7, <1>10
      <3> QED
        BY <3>1, <3>2, <3>3
  <1>13. \A v : Lower(v) = Flip(Below(w, v)) /\ Upto(v) = Flip(UpTo(w, v))
    <2> HIDE DEF window
    <2> QED
      BY <1>5, <1>11, <1>12 DEF Below, UpTo
  <1>14. ASSUME NEW S \in SUBSET (1..s)
         PROVE  Cardinality(Flip(S)) = Cardinality(S)
    <2>1. IsFiniteSet(S) /\ S \subseteq Int /\ l + n + 1 \in Int
      <3>1. IsFiniteSet(1..s)
        BY FS_Interval
      <3>2. IsFiniteSet(S)
        BY <3>1, FS_Subset
      <3>3. S \subseteq Int
        OBVIOUS
      <3> QED
        BY <1>9, <3>2, <3>3
    <2> QED
      BY <2>1, FlippedSize
  <1>15. \A v : Below(w, v) \in SUBSET (1..s) /\ UpTo(w, v) \in SUBSET (1..s)
    BY <1>5 DEF Below, UpTo
  <1>16. Cardinality(window) = s
    <2>1. Cardinality(1..s) = s
      <3>1. Cardinality(1..s) = IF 1 > s THEN 0 ELSE s - 1 + 1
        BY FS_Interval
      <3> QED
        BY <3>1
    <2> HIDE DEF Flip, window
    <2> QED
      BY <1>11, <1>14, <2>1
  <1>17. PICK m : m = MedianOf(w)
    OBVIOUS
  <1>18. /\ 2 * Cardinality(Below(w, m)) <= s /\ 2 * Cardinality(UpTo(w, m)) > s
         /\ \E k \in 1..s : m = w[k]
    BY <1>5, <1>17, MedianCounts
  <1>19. m \in {chain[j] : j \in window}
    BY <1>11, <1>12, <1>18
  <1>20. Cardinality(Lower(m)) = Cardinality(Below(w, m))
         /\ Cardinality(Upto(m)) = Cardinality(UpTo(w, m))
    <2> HIDE DEF Flip, Lower, Upto
    <2> QED
      BY <1>13, <1>14, <1>15
  <1>21. \A v \in {chain[j] : j \in window} :
             2 * Cardinality(Lower(v)) <= Cardinality(window) /\ 2 * Cardinality(Upto(v)) > Cardinality(window)
                 => raw > v
    BY <1>6, <1>8, Zenon DEF NodeAccepts
  <1> HIDE DEF window, Lower, Upto
  <1> QED
    BY <1>2, <1>16, <1>17, <1>18, <1>19, <1>20, <1>21

-----------------------------------------------------------------------------
(* The stored chain. *)

\* Every row holds the time its window gives, and the time its parent holds; and
\* its stamp is later than the median of a window that is all the node looks at.
RowsSound(rows, on, low) ==
    /\ AreRows(rows)
    /\ \A i \in 1..Len(rows) :
        /\ rows[i].protocol = Resolved(rows, i, on)
        /\ i > 1 /\ ParentFloorActive(rows[i].raw) => rows[i].parent = rows[i - 1].protocol
        /\ i > 1 /\ (low = <<>> \/ i - 1 >= Span) => rows[i].raw > MedianOf(WindowOf(rows, i))

ClockInv == mtp \in BOOLEAN /\ below \in Seq(Nat) /\ RowsSound(stored, mtp, below)

\* A chain whose blocks below a place stay has the same rows there, soundly.
LEMMA SoundBelow ==
  ASSUME NEW rows, NEW on, NEW low, RowsSound(rows, on, low),
         NEW new, NEW i \in 1..Len(rows), \A j \in 1..i : new[j] = rows[j]
  PROVE  /\ new[i].protocol = Resolved(new, i, on)
         /\ i > 1 /\ ParentFloorActive(new[i].raw) => new[i].parent = new[i - 1].protocol
         /\ i > 1 /\ (low = <<>> \/ i - 1 >= Span) => new[i].raw > MedianOf(WindowOf(new, i))
  <1>1. Len(rows) \in Nat
    BY DEF RowsSound, AreRows
  <1>2. new[i] = rows[i] /\ i \in Nat /\ i > 0 /\ \A j \in 1..(i - 1) : new[j] = rows[j]
    BY <1>1
  <1>3. WindowOf(new, i) = WindowOf(rows, i)
    BY <1>2, WindowKept
  <1>4. i > 1 => i - 1 \in 1..(i - 1)
    BY <1>2
  <1>5. i > 1 => new[i - 1] = rows[i - 1]
    BY <1>2, <1>4
  <1> QED
    BY <1>2, <1>3, <1>5 DEF RowsSound, Resolved

\* A block stored at the time it is resolved to leaves the chain sound
\* (storeBlock, resolveBlockTimeContext).
LEMMA StampSound ==
  ASSUME ClockInv, NEW raw \in Stamps, StampBlock(raw)
  PROVE  ClockInv'
  <1>1. PICK rows, on, low : rows = stored /\ on = mtp /\ low = below
    OBVIOUS
  <1>2. PICK n \in Nat : n = Len(rows)
    BY <1>1 DEF ClockInv, RowsSound, AreRows
  <1>3. raw \in Nat \ {0}
    BY SpanAssumption
  <1>4. PICK ctx : ctx = BlockTimeContext(raw)
    OBVIOUS
  <1>5. PICK new : new = Append(rows, ctx)
    OBVIOUS
  <1>6. stored' = new /\ mtp' = on /\ below' = low
    BY <1>1, <1>4, <1>5 DEF StampBlock
  <1>7. AreRows(rows) /\ RowsSound(rows, on, low) /\ on \in BOOLEAN /\ low \in Seq(Nat)
    BY <1>1 DEF ClockInv, RowsSound
  <1>8. /\ \E S : new \in Seq(S)
        /\ Len(new) = n + 1 /\ new[n + 1] = ctx /\ \A j \in 1..n : new[j] = rows[j]
    <2>1. PICK S : rows \in Seq(S)
      BY <1>7 DEF AreRows
    <2>2. rows \in Seq(S \cup {ctx}) /\ ctx \in S \cup {ctx}
      BY <2>1
    <2>3. new \in Seq(S \cup {ctx})
      BY <1>5, <2>2
    <2> QED
      BY <1>2, <1>5, <2>2, <2>3
  <1>9. /\ ctx.raw = raw
        /\ ctx.protocol = IF on /\ n > 0 THEN Lesser(MedianOf(WindowOf(rows, n + 1)), raw) ELSE raw
        /\ n > 0 /\ ParentFloorActive(raw) => ctx.parent = Resolved(rows, n, on)
    BY <1>1, <1>2, <1>3, <1>4, <1>7, ContextIs
  <1>10. AreRows(new)
    <2>1. \A j \in 1..(n + 1) : j \in 1..n \/ j = n + 1
      OBVIOUS
    <2>2. \A j \in 1..n : new[j].raw \in Nat \ {0}
      BY <1>2, <1>7, <1>8 DEF AreRows
    <2> QED
      BY <1>3, <1>8, <1>9, <2>1, <2>2 DEF AreRows
  <1>11. WindowOf(new, n + 1) = WindowOf(rows, n + 1)
    BY <1>8, WindowKept
  <1>12. new[n + 1].protocol = Resolved(new, n + 1, on)
    BY <1>8, <1>9, <1>11 DEF Resolved
  <1>13. n + 1 > 1 /\ ParentFloorActive(new[n + 1].raw) => new[n + 1].parent = new[n + 1 - 1].protocol
    <2> SUFFICES ASSUME n > 0, ParentFloorActive(raw) PROVE new[n + 1].parent = new[n].protocol
      BY <1>8, <1>9
    <2>1. n \in 1..Len(rows)
      BY <1>2
    <2>2. new[n] = rows[n] /\ rows[n].protocol = Resolved(rows, n, on)
      BY <1>2, <1>7, <1>8, <2>1 DEF RowsSound
    <2> QED
      BY <1>8, <1>9, <2>2
  <1>14. n + 1 > 1 /\ (low = <<>> \/ n + 1 - 1 >= Span) => new[n + 1].raw > MedianOf(WindowOf(new, n + 1))
    <2> SUFFICES ASSUME n > 0, low = <<>> \/ n >= Span PROVE raw > MedianOf(WindowOf(rows, n + 1))
      BY <1>8, <1>9, <1>11
    <2>1. NodeAccepts(low \o StampsOf(stored), raw)
      BY <1>1 DEF StampBlock
    <2> QED
      BY <1>1, <1>2, <1>3, <1>7, <2>1, AcceptedIsLater
  <1>15. RowsSound(new, on, low)
    <2>1. \A i \in 1..(n + 1) : i = n + 1 \/ i \in 1..n
      OBVIOUS
    <2>2. \A i \in 1..n : \A j \in 1..i : new[j] = rows[j]
      BY <1>8
    <2>3. \A i \in 1..n :
             /\ new[i].protocol = Resolved(new, i, on)
             /\ i > 1 /\ ParentFloorActive(new[i].raw) => new[i].parent = new[i - 1].protocol
             /\ i > 1 /\ (low = <<>> \/ i - 1 >= Span) => new[i].raw > MedianOf(WindowOf(new, i))
      BY <1>2, <1>7, <2>2, SoundBelow
    <2> QED
      BY <1>8, <1>10, <1>12, <1>13, <1>14, <2>1, <2>3 DEF RowsSound
  <1> QED
    BY <1>6, <1>7, <1>15 DEF ClockInv

\* A chain without its top block is sound (deleteBlockByIndex).
LEMMA UnstampSound ==
  ASSUME ClockInv, UnstampBlock
  PROVE  ClockInv'
  <1>1. PICK rows, on, low : rows = stored /\ on = mtp /\ low = below
    OBVIOUS
  <1>2. PICK n \in Nat : n = Len(rows) /\ n > 0
    BY <1>1 DEF ClockInv, RowsSound, AreRows, UnstampBlock
  <1>3. PICK new : new = SubSeq(rows, 1, n - 1)
    OBVIOUS
  <1>4. stored' = new /\ mtp' = on /\ below' = low
    BY <1>1, <1>2, <1>3 DEF UnstampBlock, Front
  <1>5. AreRows(rows) /\ RowsSound(rows, on, low) /\ on \in BOOLEAN /\ low \in Seq(Nat)
    BY <1>1 DEF ClockInv, RowsSound
  <1>6. /\ \E S : new \in Seq(S)
        /\ Len(new) = n - 1 /\ \A j \in 1..(n - 1) : new[j] = rows[j]
    <2>1. PICK S : rows \in Seq(S)
      BY <1>5 DEF AreRows
    <2>2. n - 1 \in Nat /\ 1 \in Nat /\ n - 1 <= Len(rows)
      BY <1>2
    <2>3. new \in Seq(S) /\ Len(new) = n - 1
      BY <1>2, <1>3, <2>1, <2>2
    <2>4. \A j \in 1..(n - 1) : new[j] = rows[j]
      BY <1>2, <1>3, <2>1, <2>2
    <2> QED
      BY <2>3, <2>4
  <1>7. \A i \in 1..(n - 1) : i \in 1..Len(rows) /\ \A j \in 1..i : new[j] = rows[j]
    BY <1>2, <1>6
  <1>8. AreRows(new)
    BY <1>5, <1>6, <1>7 DEF AreRows
  <1>9. \A i \in 1..(n - 1) :
           /\ new[i].protocol = Resolved(new, i, on)
           /\ i > 1 /\ ParentFloorActive(new[i].raw) => new[i].parent = new[i - 1].protocol
           /\ i > 1 /\ (low = <<>> \/ i - 1 >= Span) => new[i].raw > MedianOf(WindowOf(new, i))
    BY <1>5, <1>7, SoundBelow
  <1>10. RowsSound(new, on, low)
    BY <1>6, <1>8, <1>9 DEF RowsSound
  <1> QED
    BY <1>4, <1>5, <1>10 DEF ClockInv

\* A sound chain's rows are at the median of their window, from the second on,
\* where the stamp is later than it.
LEMMA AtMedian ==
  ASSUME NEW rows, NEW low, RowsSound(rows, TRUE, low), NEW i \in 2..Len(rows),
         low = <<>> \/ i - 1 >= Span
  PROVE  /\ rows[i].protocol = MedianOf(WindowOf(rows, i))
         /\ rows[i].raw > MedianOf(WindowOf(rows, i))
  <1>1. Len(rows) \in Nat /\ AreRows(rows) /\ i \in 1..Len(rows) /\ i > 1 /\ i \in 2..(Len(rows) + 1)
    BY DEF RowsSound, AreRows
  <1>2. rows[i].raw > MedianOf(WindowOf(rows, i))
    BY <1>1 DEF RowsSound
  <1>3. rows[i].protocol = Lesser(MedianOf(WindowOf(rows, i)), rows[i].raw)
    BY <1>1 DEF RowsSound, Resolved
  <1>4. rows[i].raw \in Nat
    BY <1>1 DEF AreRows
  <1>5. MedianOf(WindowOf(rows, i)) \in Nat
    BY <1>1, MedianIsStamp
  <1> QED
    BY <1>2, <1>3, <1>4, <1>5 DEF Lesser

\* On a sound chain protocol time never runs backwards (protocolTime).
LEMMA NeverBack ==
  ASSUME NEW rows, NEW low, RowsSound(rows, TRUE, low), NEW i \in 2..Len(rows),
         low = <<>> \/ i - 1 > Span
  PROVE  rows[i - 1].protocol <= rows[i].protocol
  <1>1. Span \in Nat \ {0} /\ Len(rows) \in Nat /\ AreRows(rows) /\ i - 1 \in 1..Len(rows)
    BY SpanAssumption DEF RowsSound, AreRows
  <1>2. /\ rows[i].protocol = MedianOf(WindowOf(rows, i))
        /\ rows[i].raw > MedianOf(WindowOf(rows, i))
    <2>1. low = <<>> \/ i - 1 >= Span
      BY <1>1
    <2> QED
      BY <2>1, AtMedian
  <1>3. i \in 1..(Len(rows) + 1) /\ i > 1
    BY <1>1
  <1>4. PICK w : w = WindowOf(rows, i)
    OBVIOUS
  <1>5. PICK b \in Nat : b = Lesser(Span, i - 1) /\ b > 0 /\ (b = Span \/ b = i - 1) /\ b <= i - 1 /\ b <= Span
    BY <1>1, <1>3 DEF Lesser
  <1>6. /\ w \in Seq(Nat) /\ Len(w) = b /\ w /= <<>>
        /\ \A k \in 1..b : w[k] = rows[i - k].raw
    <2>1. /\ WindowOf(rows, i) \in Seq(Nat) /\ Len(WindowOf(rows, i)) = Lesser(Span, i - 1)
          /\ \A k \in 1..Lesser(Span, i - 1) : WindowOf(rows, i)[k] = rows[i - k].raw
          /\ WindowOf(rows, i) /= <<>>
      BY <1>1, <1>3, WindowIs
    <2> QED
      BY <1>4, <1>5, <2>1
  <1>7. w[1] = rows[i - 1].raw /\ rows[i - 1].raw \in Nat
    <2>1. 1 \in 1..b
      BY <1>5
    <2> QED
      BY <1>1, <1>6, <2>1 DEF AreRows
  <1>8. CASE i = 2
    <2>1. rows[1].protocol = rows[1].raw
      BY <1>1, <1>8 DEF RowsSound, Resolved
    <2>2. b = 1
      BY <1>1, <1>5, <1>8
    <2>3. PICK k \in 1..1 : MedianOf(w) = w[k]
      BY <1>6, <2>2, MedianCounts
    <2>4. MedianOf(w) = rows[1].raw
      BY <1>7, <1>8, <2>3
    <2> QED
      BY <1>2, <1>4, <1>7, <1>8, <2>1, <2>4
  <1>9. CASE i > 2
    <2>1. PICK h \in 2..Len(rows) : h = i - 1 /\ (low = <<>> \/ h - 1 >= Span)
      BY <1>1, <1>9
    <2>2. /\ rows[h].protocol = MedianOf(WindowOf(rows, h))
          /\ rows[h].raw > MedianOf(WindowOf(rows, h))
      BY <2>1, AtMedian
    <2>3. PICK v : v = WindowOf(rows, h)
      OBVIOUS
    <2>4. PICK a \in Nat : a = Lesser(Span, h - 1) /\ (a = Span \/ a = h - 1) /\ a <= h - 1 /\ a <= Span
      BY <1>1, <2>1 DEF Lesser
    <2>5. h \in 1..(Len(rows) + 1) /\ h > 1
      BY <1>1, <2>1
    <2>6. /\ v \in Seq(Nat) /\ Len(v) = a /\ v /= <<>>
          /\ \A k \in 1..a : v[k] = rows[h - k].raw
      <3>1. /\ WindowOf(rows, h) \in Seq(Nat) /\ Len(WindowOf(rows, h)) = Lesser(Span, h - 1)
            /\ \A k \in 1..Lesser(Span, h - 1) : WindowOf(rows, h)[k] = rows[h - k].raw
            /\ WindowOf(rows, h) /= <<>>
        BY <1>1, <2>5, WindowIs
      <3> QED
        BY <2>3, <2>4, <3>1
    <2>7. a <= b /\ b <= a + 1
      BY <1>1, <1>5, <2>1, <2>4
    <2>8. \A k \in 1..b : k > 1 => w[k] = v[k - 1]
      <3> SUFFICES ASSUME NEW k \in 1..b, k > 1 PROVE w[k] = v[k - 1]
        OBVIOUS
      <3>1. k - 1 \in 1..a /\ h - (k - 1) = i - k
        BY <2>1, <2>7
      <3> QED
        BY <1>6, <2>6, <3>1
    <2>9. w[1] > MedianOf(v)
      BY <1>7, <2>1, <2>2, <2>3
    <2>10. MedianOf(v) <= MedianOf(w)
      BY <1>6, <2>6, <2>7, <2>8, <2>9, MedianMoves
    <2> QED
      BY <1>2, <1>4, <2>1, <2>2, <2>3, <2>10
  <1> QED
    BY <1>1, <1>8, <1>9

\* On a sound chain no row is at a time later than its stamp, nor than more than
\* half of its window (protocolTime, medianTimePast).
LEMMA NoneEarly ==
  ASSUME NEW rows, NEW low, RowsSound(rows, TRUE, low), NEW i \in 2..Len(rows),
         NEW window, window = {j \in 1..(i - 1) : j >= i - Span}
  PROVE  /\ rows[i].protocol <= rows[i].raw
         /\ 2 * Cardinality({j \in window : rows[j].raw < rows[i].protocol}) <= Cardinality(window)
  <1>1. /\ Span \in Nat \ {0} /\ Len(rows) \in Nat /\ AreRows(rows)
        /\ i \in 1..Len(rows) /\ i > 1 /\ i \in 1..(Len(rows) + 1) /\ i \in 2..(Len(rows) + 1)
    BY SpanAssumption DEF RowsSound, AreRows
  <1>2. PICK w : w = WindowOf(rows, i)
    OBVIOUS
  <1>3. PICK s \in Nat : s = Lesser(Span, i - 1) /\ s <= i - 1 /\ s <= Span /\ (s = Span \/ s = i - 1)
    BY <1>1 DEF Lesser
  <1>4. /\ w \in Seq(Nat) /\ Len(w) = s /\ w /= <<>>
        /\ \A k \in 1..s : w[k] = rows[i - k].raw /\ rows[i - k].raw \in Nat
    BY <1>1, <1>2, <1>3, WindowIs
  <1>5. PICK m \in Nat : m = MedianOf(w)
    BY <1>4, MedianCounts
  <1>6. PICK raw \in Nat : raw = rows[i].raw
    BY <1>1 DEF AreRows
  <1>7. PICK t \in Nat : t = rows[i].protocol /\ t <= m /\ t <= raw
    <2>1. rows[i].protocol = Lesser(m, raw)
      BY <1>1, <1>2, <1>5, <1>6 DEF RowsSound, Resolved
    <2> QED
      BY <1>5, <1>6, <2>1 DEF Lesser
  <1> DEFINE Flip(S) == {i - k : k \in S}
             early == {j \in window : rows[j].raw < t}
  <1>8. window = Flip(1..s)
    <2>1. ASSUME NEW j \in window PROVE j \in Flip(1..s)
      <3>1. i - j \in 1..s /\ j = i - (i - j)
        BY <1>1, <1>3
      <3> QED
        BY <3>1
    <2>2. ASSUME NEW k \in 1..s PROVE i - k \in window
      BY <1>1, <1>3
    <2> QED
      BY <2>1, <2>2
  <1>9. early = Flip(Below(w, t))
    BY <1>4, <1>8 DEF Below
  <1>10. ASSUME NEW S \in SUBSET (1..s)
         PROVE  IsFiniteSet(S) /\ Cardinality(Flip(S)) = Cardinality(S)
    <2>1. IsFiniteSet(1..s)
      BY FS_Interval
    <2>2. IsFiniteSet(S)
      BY <2>1, FS_Subset
    <2>3. S \subseteq Int /\ i \in Int
      OBVIOUS
    <2> QED
      BY <2>2, <2>3, FlippedSize
  <1>11. Below(w, t) \in SUBSET (1..s) /\ Below(w, m) \in SUBSET (1..s) /\ Below(w, t) \subseteq Below(w, m)
    <2>1. \A k \in 1..s : w[k] \in Nat
      BY <1>4
    <2>2. \A k \in 1..s : w[k] < t => w[k] < m
      BY <1>7, <2>1
    <2> QED
      BY <1>4, <2>2 DEF Below
  <1> HIDE DEF Flip, early
  <1>12. Cardinality(window) = s
    <2>1. Cardinality(1..s) = IF 1 > s THEN 0 ELSE s - 1 + 1
      BY FS_Interval
    <2>2. Cardinality(1..s) = s
      BY <2>1
    <2> QED
      BY <1>8, <1>10, <2>2
  <1>13. Cardinality(early) = Cardinality(Below(w, t))
    BY <1>9, <1>10, <1>11
  <1>14. PICK c \in Nat : c = Cardinality(Below(w, m)) /\ 2 * c <= s
    BY <1>4, <1>5, MedianCounts
  <1>15. PICK d \in Nat : d = Cardinality(Below(w, t)) /\ d <= c
    <2>1. IsFiniteSet(Below(w, m)) /\ Cardinality(Below(w, t)) \in Nat
      BY <1>4, MedianCounts
    <2>2. Cardinality(Below(w, t)) <= c
      BY <1>11, <1>14, <2>1, FS_Subset
    <2> QED
      BY <2>1, <2>2
  <1>16. 2 * Cardinality(early) <= Cardinality(window)
    BY <1>12, <1>13, <1>14, <1>15
  <1>17. early = {j \in window : rows[j].raw < rows[i].protocol}
    BY <1>7 DEF early
  <1> QED
    BY <1>6, <1>7, <1>16, <1>17

\* Whatever the miners stamp and whatever is rolled back, protocol time never
\* runs backwards, parent and child agree on it, and no single stamp opens a gate
\* early (resolveBlockTimeContext, protocolTime, medianTimePast).
THEOREM ProtocolTimeHolds == ClockSpec => []ProtocolTimeSound
  <1>1. ClockInit => ClockInv
    <2> SUFFICES ASSUME ClockInit PROVE ClockInv
      OBVIOUS
    <2>1. below \in Seq(Nat)
      <3>1. PICK n \in 0..BelowBound : below \in [1..n -> Stamps]
        BY DEF ClockInit
      <3>2. \A i \in 1..n : below[i] \in Nat
        BY <3>1, SpanAssumption
      <3>3. below = [i \in 1..n |-> below[i]] /\ n \in Nat
        BY <3>1
      <3> QED
        BY <3>2, <3>3
    <2>2. stored = <<>> /\ mtp \in BOOLEAN
      BY DEF ClockInit
    <2>3. \E S : stored \in Seq(S)
      <3>1. stored \in Seq(Nat)
        BY <2>2
      <3> QED
        BY <3>1
    <2> QED
      BY <2>1, <2>2, <2>3 DEF ClockInv, RowsSound, AreRows
  <1>2. ClockInv /\ [ClockNext]_clockVars => ClockInv'
    <2> SUFFICES ASSUME ClockInv, [ClockNext]_clockVars PROVE ClockInv'
      OBVIOUS
    <2>1. ASSUME NEW raw \in Stamps, StampBlock(raw) PROVE ClockInv'
      BY <2>1, StampSound
    <2>2. CASE UnstampBlock
      BY <2>2, UnstampSound
    <2>3. CASE UNCHANGED clockVars
      <3>1. PICK rows, on, low : rows = stored /\ on = mtp /\ low = below
        OBVIOUS
      <3>2. stored' = rows /\ mtp' = on /\ below' = low
        BY <2>3, <3>1 DEF clockVars
      <3>3. on \in BOOLEAN /\ low \in Seq(Nat) /\ RowsSound(rows, on, low)
        BY <3>1 DEF ClockInv
      <3> QED
        BY <3>2, <3>3 DEF ClockInv
    <2> QED
      BY <2>1, <2>2, <2>3 DEF ClockNext
  <1>3. ClockInv => ProtocolTimeSound
    <2> SUFFICES ASSUME ClockInv PROVE ProtocolTimeSound
      OBVIOUS
    <2>1. RowsSound(stored, mtp, below) /\ Len(stored) \in Nat
      BY DEF ClockInv, RowsSound, AreRows
    <2>2. ClockNeverRunsBack
      <3> SUFFICES ASSUME mtp, NEW i \in 2..Len(stored), below = <<>> \/ i - 1 > Span
                   PROVE  stored[i - 1].protocol <= stored[i].protocol
        BY DEF ClockNeverRunsBack
      <3>1. mtp = TRUE
        BY DEF ClockInv
      <3> QED
        BY <2>1, <3>1, NeverBack
    <2>3. ParentTimeAgrees
      <3>1. \A i \in 2..Len(stored) : i \in 1..Len(stored) /\ i > 1
        BY <2>1
      <3> QED
        BY <2>1, <3>1 DEF ParentTimeAgrees, RowsSound
    <2>4. NoGateOpensEarly
      <3> SUFFICES ASSUME mtp, NEW i \in 2..Len(stored), NEW window, window = {j \in 1..(i - 1) : j >= i - Span}
                   PROVE  /\ stored[i].protocol <= stored[i].raw
                          /\ 2 * Cardinality({j \in window : stored[j].raw < stored[i].protocol})
                               <= Cardinality(window)
        BY DEF NoGateOpensEarly
      <3>1. mtp = TRUE
        BY DEF ClockInv
      <3> QED
        BY <2>1, <3>1, NoneEarly
    <2> QED
      BY <2>2, <2>3, <2>4 DEF ProtocolTimeSound
  <1> QED
    BY <1>1, <1>2, <1>3, PTL DEF ClockSpec
=============================================================================
