--------------------------- MODULE ExactStateProofs ---------------------------
(***************************************************************************)
(* Proofs about the exact distinct and uniqueness state, for every column, *)
(* all budgets, every fan-in and whatever happens to disk and run files.   *)
(*                                                                         *)
(* The records of the column are at every moment divided between the runs  *)
(* and the segment, each run sorted.  Spilling sorts a part, compaction    *)
(* merges sorted parts, and the merge at the end puts all records in the   *)
(* one order they have; counting goes through them in that order.          *)
(***************************************************************************)
EXTENDS ExactState, FiniteSetTheorems, SequenceTheorems, WellFoundedInduction,
        NaturalsInduction, TLAPS

Arena == INSTANCE SequenceFolds WITH Op <- AddLength
Temp == INSTANCE SequenceFolds WITH Op <- AddUnits
Heap == INSTANCE SequenceFolds WITH Op <- Pop
Counts == INSTANCE SequenceFolds WITH Op <- CountRecord

-----------------------------------------------------------------------------
(* The order of records *)

Pairs == Int \X Int

\* A sequence in the order of records, without repetitions.
Sorted(s) == \A i, j \in DOMAIN s : i < j => Before(s[i], s[j])

\* What is before a record.
Below(S, r) == {q \in S : Before(q, r)}

\* The order is total and strict.
LEMMA TotalOrder ==
    ASSUME NEW a \in Pairs, NEW b \in Pairs, NEW c \in Pairs
    PROVE  /\ ~Before(a, a)
           /\ Before(a, b) => ~Before(b, a)
           /\ Before(a, b) /\ Before(b, c) => Before(a, c)
           /\ Before(a, b) \/ Before(b, a) \/ a = b
BY DEF Before, Pairs

\* How many records of a set are before one of them.
LEMMA RankType ==
    ASSUME NEW S, IsFiniteSet(S), S \subseteq Pairs, NEW r \in S
    PROVE  /\ IsFiniteSet(Below(S, r)) /\ Cardinality(S) \in Nat \ {0}
           /\ Cardinality(Below(S, r)) \in 0..Cardinality(S) - 1
<1>1. IsFiniteSet(S \ {r}) /\ Cardinality(S \ {r}) = Cardinality(S) - 1
  BY FS_RemoveElement
<1>2. Cardinality(S) \in Nat /\ Cardinality(S \ {r}) \in Nat
  BY <1>1, FS_CardinalityType
<1>3. Below(S, r) \in SUBSET (S \ {r})
  BY TotalOrder DEF Below
<1>4. IsFiniteSet(Below(S, r)) /\ Cardinality(Below(S, r)) <= Cardinality(S \ {r})
  BY <1>1, <1>3, FS_Subset
<1>5. Cardinality(Below(S, r)) \in Nat
  BY <1>4, FS_CardinalityType
<1>6. QED
  BY <1>1, <1>2, <1>4, <1>5

\* More records are before a later one.
LEMMA RankGrows ==
    ASSUME NEW S, IsFiniteSet(S), S \subseteq Pairs, NEW q \in S, NEW r \in S, Before(q, r)
    PROVE  Cardinality(Below(S, q)) < Cardinality(Below(S, r))
<1>1. Below(S, q) \cup {q} \in SUBSET Below(S, r)
  BY TotalOrder DEF Below
<1>2. q \notin Below(S, q)
  BY TotalOrder DEF Below
<1>3. Cardinality(Below(S, q) \cup {q}) = Cardinality(Below(S, q)) + 1
  BY <1>2, RankType, FS_AddElement
<1>4. Cardinality(Below(S, q) \cup {q}) <= Cardinality(Below(S, r))
  BY <1>1, RankType, FS_Subset
<1>5. Cardinality(Below(S, q)) \in Nat /\ Cardinality(Below(S, r)) \in Nat
  BY RankType
<1>6. QED
  BY <1>3, <1>4, <1>5

\* No two records have as many before them.
LEMMA RankOfOne ==
    ASSUME NEW S, IsFiniteSet(S), S \subseteq Pairs, NEW q \in S, NEW r \in S,
           Cardinality(Below(S, q)) = Cardinality(Below(S, r))
    PROVE  q = r
<1>1. Cardinality(Below(S, q)) \in Nat
  BY RankType
<1>2. ~Before(q, r) /\ ~Before(r, q)
  BY <1>1, RankGrows
<1>3. q \in Pairs /\ r \in Pairs
  OBVIOUS
<1>4. QED
  BY <1>2, <1>3, TotalOrder

\* Every place in a set is taken.
LEMMA RankExists ==
    ASSUME NEW S, IsFiniteSet(S), S \subseteq Pairs, NEW n \in 0..Cardinality(S) - 1
    PROVE  \E r \in S : Cardinality(Below(S, r)) = n
<1> DEFINE T == 0..Cardinality(S) - 1
           f == [r \in S |-> Cardinality(Below(S, r))]
<1>1. Cardinality(S) \in Nat
  BY FS_CardinalityType
<1>2. IsFiniteSet(T) /\ Cardinality(T) = Cardinality(S)
  <2>1. 0 \in Int /\ Cardinality(S) - 1 \in Int
    BY <1>1
  <2>2. QED
    BY <1>1, <2>1, FS_Interval
<1>3. f \in [S -> T]
  BY RankType
<1>4. \A q, r \in S : f[q] = f[r] => q = r
  BY RankOfOne
<1>5. f \in Injection(S, T)
  BY <1>3, <1>4 DEF Injection, IsInjective
<1> HIDE DEF T
<1>6. f \in Surjection(S, T)
  <2> HIDE DEF f
  <2>1. QED
    BY <1>2, <1>5, FS_Injection
<1>7. \E r \in S : f[r] = n
  <2>1. n \in T
    BY DEF T
  <2>2. QED
    BY <1>6, <2>1 DEF Surjection
<1>8. QED
  BY <1>7

\* A set in order is a sequence of all its records, sorted.
LEMMA InOrderSorts ==
    ASSUME NEW S, IsFiniteSet(S), S \subseteq Pairs
    PROVE  /\ InOrder(S) \in Seq(S) /\ Len(InOrder(S)) = Cardinality(S)
           /\ Range(InOrder(S)) = S /\ Sorted(InOrder(S))
<1> DEFINE s == InOrder(S)
           n == Cardinality(S)
<1>1. n \in Nat
  BY FS_CardinalityType
<1>2. s = [k \in 1..n |-> CHOOSE r \in S : Cardinality(Below(S, r)) = k - 1]
  BY DEF InOrder, Below
<1> HIDE DEF s, n
<1>3. ASSUME NEW k \in 1..n PROVE s[k] \in S /\ Cardinality(Below(S, s[k])) = k - 1
  <2>1. k - 1 \in 0..Cardinality(S) - 1
    BY <1>1 DEF n
  <2>2. \E r \in S : Cardinality(Below(S, r)) = k - 1
    BY <2>1, RankExists
  <2>3. s[k] = CHOOSE r \in S : Cardinality(Below(S, r)) = k - 1
    BY <1>2
  <2>4. QED
    BY <2>2, <2>3
<1>4. s \in [1..n -> S]
  BY <1>2, <1>3
<1>5. s \in Seq(S) /\ Len(s) = n /\ DOMAIN s = 1..n
  BY <1>1, <1>4
<1>6. ASSUME NEW r \in S PROVE r \in Range(s)
  <2>1. Cardinality(Below(S, r)) \in 0..n - 1
    BY RankType DEF n
  <2>2. Cardinality(Below(S, r)) + 1 \in 1..n
    BY <1>1, <2>1
  <2>3. PICK k \in 1..n : k = Cardinality(Below(S, r)) + 1
    BY <2>2
  <2>4. s[k] \in S /\ Cardinality(Below(S, s[k])) = Cardinality(Below(S, r))
    BY <1>3, <2>1, <2>3
  <2>5. s[k] = r
    BY <2>4, RankOfOne
  <2>6. QED
    BY <1>5, <2>5 DEF Range
<1>7. Range(s) = S
  BY <1>3, <1>5, <1>6 DEF Range
<1>8. ASSUME NEW i \in 1..n, NEW j \in 1..n, i < j PROVE Before(s[i], s[j])
  <2>1. /\ s[i] \in S /\ s[j] \in S
        /\ Cardinality(Below(S, s[i])) = i - 1 /\ Cardinality(Below(S, s[j])) = j - 1
    BY <1>3
  <2>2. s[i] # s[j]
    BY <1>1, <1>8, <2>1
  <2>3. ~Before(s[j], s[i])
    <3>1. SUFFICES ASSUME Before(s[j], s[i]) PROVE FALSE
      OBVIOUS
    <3>2. Cardinality(Below(S, s[j])) < Cardinality(Below(S, s[i]))
      BY <2>1, <3>1, RankGrows
    <3>3. QED
      BY <1>1, <1>8, <2>1, <3>2
  <2>4. QED
    BY <2>1, <2>2, <2>3, TotalOrder
<1>9. QED
  BY <1>5, <1>7, <1>8 DEF Sorted, s, n

\* A sorted sequence repeats nothing.
LEMMA SortedCounts ==
    ASSUME NEW s \in Seq(Pairs), Sorted(s)
    PROVE  /\ IsFiniteSet(Range(s)) /\ Cardinality(Range(s)) = Len(s)
           /\ Range(s) \subseteq Pairs
           /\ \A i, j \in DOMAIN s : s[i] = s[j] => i = j
<1>1. Len(s) \in Nat /\ DOMAIN s = 1..Len(s) /\ \A i \in 1..Len(s) : s[i] \in Pairs
  OBVIOUS
<1>2. ASSUME NEW i \in DOMAIN s, NEW j \in DOMAIN s, s[i] = s[j] PROVE i = j
  <2>1. i \in Int /\ j \in Int /\ s[i] \in Pairs
    BY <1>1
  <2>2. ~(i < j) /\ ~(j < i)
    BY <1>2, <2>1, TotalOrder DEF Sorted
  <2>3. QED
    BY <2>1, <2>2
<1>3. Range(s) = {s[i] : i \in 1..Len(s)}
  BY <1>1 DEF Range
<1>4. s \in Bijection(1..Len(s), Range(s))
  <2>1. s \in [1..Len(s) -> Range(s)]
    BY <1>1, <1>3
  <2>2. s \in Injection(1..Len(s), Range(s))
    BY <1>1, <1>2, <2>1 DEF Injection, IsInjective
  <2>3. s \in Surjection(1..Len(s), Range(s))
    BY <1>3, <2>1 DEF Surjection
  <2>4. QED
    BY <2>2, <2>3 DEF Bijection
<1>5. ExistsBijection(1..Len(s), Range(s))
  BY <1>4 DEF ExistsBijection
<1>6. IsFiniteSet(Range(s)) /\ Cardinality(Range(s)) = Len(s)
  BY <1>1, <1>5, FS_NatBijection, FS_CountingElements
<1>7. QED
  BY <1>1, <1>2, <1>3, <1>6

\* There is one sorted sequence of given records.
LEMMA SortedIsInOrder ==
    ASSUME NEW s \in Seq(Pairs), Sorted(s)
    PROVE  InOrder(Range(s)) = s
<1> DEFINE S == Range(s)
           t == InOrder(S)
<1>1. /\ IsFiniteSet(S) /\ Cardinality(S) = Len(s) /\ S \subseteq Pairs
      /\ \A i, j \in DOMAIN s : s[i] = s[j] => i = j
  BY SortedCounts
<1>2. ASSUME NEW u \in Seq(Pairs), Sorted(u), Range(u) = S, NEW k \in 1..Len(u)
      PROVE  Cardinality(Below(S, u[k])) = k - 1
  <2>1. DOMAIN u = 1..Len(u) /\ Len(u) \in Nat /\ \A i \in 1..Len(u) : u[i] \in Pairs
    OBVIOUS
  <2>2. \A i, j \in DOMAIN u : u[i] = u[j] => i = j
    BY <1>2, SortedCounts
  <2>3. Below(S, u[k]) = {u[i] : i \in 1..k - 1}
    <3>1. ASSUME NEW i \in 1..k - 1 PROVE u[i] \in Below(S, u[k])
      <4>1. i \in DOMAIN u /\ k \in DOMAIN u /\ i < k
        BY <2>1
      <4>2. Before(u[i], u[k])
        BY <1>2, <4>1 DEF Sorted
      <4>3. u[i] \in Range(u)
        BY <4>1 DEF Range
      <4>4. QED
        BY <1>2, <4>2, <4>3 DEF Below
    <3>2. ASSUME NEW x \in Below(S, u[k]) PROVE \E i \in 1..k - 1 : x = u[i]
      <4>1. PICK i \in 1..Len(u) : x = u[i]
        BY <1>2, <2>1 DEF Below, Range
      <4>2. Before(u[i], u[k])
        BY <4>1 DEF Below
      <4>3. ~(k < i) /\ i # k
        BY <1>2, <2>1, <4>2, TotalOrder DEF Sorted
      <4>4. i \in 1..k - 1
        BY <2>1, <4>3
      <4>5. QED
        BY <4>1, <4>4
    <3>3. QED
      BY <3>1, <3>2
  <2> DEFINE f == [i \in 1..k - 1 |-> u[i]]
             T == {u[i] : i \in 1..k - 1}
  <2>4. f \in Bijection(1..k - 1, T)
    <3>1. f \in [1..k - 1 -> T]
      OBVIOUS
    <3>2. \A i, j \in 1..k - 1 : f[i] = f[j] => i = j
      <4>1. \A i \in 1..k - 1 : i \in DOMAIN u /\ f[i] = u[i]
        BY <2>1
      <4> HIDE DEF f
      <4>2. QED
        BY <2>2, <4>1
    <3>3. f \in Injection(1..k - 1, T)
      BY <3>1, <3>2 DEF Injection, IsInjective
    <3>4. f \in Surjection(1..k - 1, T)
      BY <3>1 DEF Surjection
    <3>5. QED
      BY <3>3, <3>4 DEF Bijection
  <2>5. ExistsBijection(1..k - 1, T)
    BY <2>4 DEF ExistsBijection
  <2>6. Cardinality(T) = k - 1
    <3>1. k - 1 \in Nat
      BY <2>1
    <3> HIDE DEF T
    <3>2. QED
      BY <2>5, <3>1, FS_CountingElements
  <2>7. QED
    BY <2>3, <2>6
<1>3. t \in Seq(S) /\ Len(t) = Len(s) /\ Range(t) = S /\ Sorted(t)
  BY <1>1, InOrderSorts
<1>4. t \in Seq(Pairs)
  BY <1>1, <1>3
<1>5. Len(s) \in Nat /\ DOMAIN s = 1..Len(s) /\ DOMAIN t = 1..Len(s)
  BY <1>3
<1>6. ASSUME NEW k \in 1..Len(s) PROVE t[k] = s[k]
  <2>1. Cardinality(Below(S, t[k])) = k - 1 /\ Cardinality(Below(S, s[k])) = k - 1
    <3> HIDE DEF t, S
    <3>1. Range(s) = S /\ k \in 1..Len(t)
      BY <1>3 DEF S
    <3>2. Cardinality(Below(S, t[k])) = k - 1
      BY <1>2, <1>3, <1>4, <3>1
    <3>3. Cardinality(Below(S, s[k])) = k - 1
      BY <1>2, <3>1
    <3>4. QED
      BY <3>2, <3>3
  <2>2. t[k] \in S /\ s[k] \in S
    <3>1. k \in DOMAIN t /\ k \in DOMAIN s
      BY <1>5
    <3> HIDE DEF t
    <3>2. t[k] \in Range(t) /\ s[k] \in Range(s)
      BY <3>1 DEF Range
    <3>3. QED
      BY <1>3, <3>2
  <2>3. QED
    <3> HIDE DEF t, S
    <3>1. QED
      BY <1>1, <2>1, <2>2, RankOfOne
<1>7. t = s
  <2> HIDE DEF t
  <2>1. QED
    BY <1>3, <1>4, <1>5, <1>6
<1>8. QED
  BY <1>7

-----------------------------------------------------------------------------
(* Counting *)

\* The records of a column, the first row of a value, and the records that repeat one.
RowsOf(c) == {<<c[i], i>> : i \in DOMAIN c}
First(c, v) == Min({i \in DOMAIN c : c[i] = v})
Repeated(c, S) == {r \in S : r[2] # First(c, r[1])}

\* The samples that are kept of repeating records in order.
Sampled(c, t) == [k \in 1..Min({MaxSamples, Len(t)}) |-> <<First(c, t[k][1]), t[k][2]>>]

\* What has been counted after the first k records.
SeenValues(s, k) == {s[i][1] : i \in 1..k}
SeenRecords(s, k) == {s[i] : i \in 1..k}
Counted(c, s, k) ==
    [distinct   |-> Cardinality(SeenValues(s, k)),
     duplicates |-> k - Cardinality(SeenValues(s, k)),
     samples    |-> Sampled(c, InOrder(Repeated(c, SeenRecords(s, k)))),
     first      |-> IF k = 0 THEN << >> ELSE <<s[k][1], First(c, s[k][1])>>]

\* The smaller of two numbers.
LEMMA MinOfTwo ==
    ASSUME NEW m \in Int, NEW n \in Int
    PROVE  Min({m, n}) = IF m <= n THEN m ELSE n
BY DEF Min

\* The larger of two numbers.
LEMMA MaxOfTwo ==
    ASSUME NEW m \in Int, NEW n \in Int
    PROVE  Max({m, n}) = IF m >= n THEN m ELSE n
BY DEF Max

\* A set of numbers that is not empty has a least one.
LEMMA LeastExists ==
    ASSUME NEW S \in SUBSET Nat, S # {}
    PROVE  Min(S) \in S /\ \A n \in S : Min(S) <= n
<1>1. PICK m \in S : \A n \in S : <<n, m>> \notin OpToRel(<, Nat)
  BY NatLessThanWellFounded, WFMin
<1>2. \A n \in S : ~ (n < m)
  BY <1>1 DEF OpToRel
<1>3. \A n \in S : m <= n
  BY <1>2
<1>4. QED
  BY <1>3 DEF Min

\* The first row of a value has it, and no other row that has it is smaller.
LEMMA FirstRows ==
    ASSUME NEW c \in Seq(Values), NEW i \in DOMAIN c
    PROVE  /\ First(c, c[i]) \in DOMAIN c /\ c[First(c, c[i])] = c[i]
           /\ First(c, c[i]) <= i
<1> DEFINE S == {j \in DOMAIN c : c[j] = c[i]}
<1>1. S \in SUBSET Nat /\ i \in S
  OBVIOUS
<1>2. First(c, c[i]) = Min(S)
  BY DEF First
<1> HIDE DEF S
<1>3. Min(S) \in S /\ Min(S) <= i
  BY <1>1, LeastExists
<1>4. QED
  BY <1>2, <1>3 DEF S

\* The record of each row is one of the records, and they are pairs of numbers.
LEMMA RowsTyped ==
    ASSUME NEW c \in Seq(Values)
    PROVE  /\ RowsOf(c) \subseteq Pairs
           /\ \A r \in RowsOf(c) : r = <<r[1], r[2]>> /\ r[2] \in DOMAIN c /\ c[r[2]] = r[1]
<1>1. ASSUME NEW i \in DOMAIN c
      PROVE  <<c[i], i>> \in Pairs
  <2>1. c[i] \in Values /\ i \in Int
    OBVIOUS
  <2>2. c[i] \in Int
    BY <2>1, BoundsAssumption
  <2>3. QED
    BY <2>1, <2>2 DEF Pairs
<1>2. QED
  BY <1>1 DEF RowsOf

\* In sorted records a value is new exactly in its first row.
LEMMA NewInFirstRow ==
    ASSUME NEW c \in Seq(Values), NEW s \in Seq(Pairs), Sorted(s), Range(s) = RowsOf(c),
           NEW k \in Nat, k < Len(s)
    PROVE  /\ s[k + 1] \in RowsOf(c)
           /\ (k > 0 /\ s[k][1] = s[k + 1][1]) =>
                /\ s[k + 1][2] # First(c, s[k + 1][1])
                /\ s[k + 1][1] \in SeenValues(s, k)
           /\ ~(k > 0 /\ s[k][1] = s[k + 1][1]) =>
                /\ s[k + 1][2] = First(c, s[k + 1][1])
                /\ s[k + 1][1] \notin SeenValues(s, k)
<1> DEFINE r == s[k + 1]
<1>1. /\ Len(s) \in Nat /\ DOMAIN s = 1..Len(s) /\ k + 1 \in DOMAIN s
      /\ \A i \in DOMAIN s : s[i] \in RowsOf(c)
  BY DEF Range
<1>2. /\ r \in RowsOf(c) /\ r = <<r[1], r[2]>> /\ r[2] \in DOMAIN c /\ c[r[2]] = r[1]
      /\ r[1] \in Int /\ r[2] \in Int
  <2>1. r \in RowsOf(c)
    BY <1>1
  <2>2. QED
    BY <2>1, RowsTyped DEF Pairs
<1>3. /\ First(c, r[1]) \in DOMAIN c /\ c[First(c, r[1])] = r[1] /\ First(c, r[1]) <= r[2]
      /\ First(c, r[1]) \in Int
  BY <1>2, FirstRows
<1>4. \A i \in DOMAIN s : s[i][1] \in Int /\ s[i][2] \in Int
  BY <1>1, RowsTyped DEF Pairs
<1>5. \A i, j \in DOMAIN s : i < j =>
        s[i][1] < s[j][1] \/ (s[i][1] = s[j][1] /\ s[i][2] < s[j][2])
  BY DEF Sorted, Before
<1> HIDE DEF r
<1>6. ASSUME k > 0, s[k][1] = r[1]
      PROVE  r[2] # First(c, r[1]) /\ r[1] \in SeenValues(s, k)
  <2>1. k \in DOMAIN s
    BY <1>1, <1>6
  <2>2. s[k][2] < r[2]
    <3>1. k < k + 1 /\ k + 1 \in DOMAIN s /\ s[k + 1] = r
      BY <1>1 DEF r
    <3>2. s[k][1] < r[1] \/ (s[k][1] = r[1] /\ s[k][2] < r[2])
      BY <1>5, <2>1, <3>1
    <3>3. QED
      BY <1>2, <1>6, <3>2
  <2>3. s[k][2] \in DOMAIN c /\ c[s[k][2]] = s[k][1]
    BY <1>1, <2>1, RowsTyped
  <2>4. First(c, s[k][1]) <= s[k][2]
    BY <2>3, FirstRows
  <2>5. k \in 1..k
    BY <1>6
  <2>6. QED
    BY <1>2, <1>3, <1>4, <1>6, <2>1, <2>2, <2>4, <2>5 DEF SeenValues
<1>7. ASSUME ~(k > 0 /\ s[k][1] = r[1])
      PROVE  r[1] \notin SeenValues(s, k)
  <2>1. SUFFICES ASSUME NEW j \in 1..k, s[j][1] = r[1] PROVE FALSE
    BY DEF SeenValues
  <2>2. j \in DOMAIN s /\ k \in DOMAIN s /\ k > 0 /\ k < k + 1
    BY <1>1
  <2>3. s[k][1] < r[1]
    BY <1>1, <1>2, <1>4, <1>5, <1>7, <2>2 DEF r
  <2>4. s[j][1] <= s[k][1]
    BY <1>4, <1>5, <2>2
  <2>5. QED
    BY <1>2, <1>4, <2>1, <2>2, <2>3, <2>4
<1>8. ASSUME r[1] \notin SeenValues(s, k)
      PROVE  r[2] = First(c, r[1])
  <2>1. <<r[1], First(c, r[1])>> \in RowsOf(c)
    BY <1>3 DEF RowsOf
  <2>2. PICK j \in DOMAIN s : s[j] = <<r[1], First(c, r[1])>>
    BY <2>1 DEF Range
  <2>3. j \notin 1..k
    BY <1>8, <2>2 DEF SeenValues
  <2>4. j >= k + 1
    BY <1>1, <2>3
  <2>5. j = k + 1
    <3>1. SUFFICES ASSUME j > k + 1 PROVE FALSE
      BY <1>1, <2>4
    <3>2. r[2] < First(c, r[1])
      BY <1>1, <1>2, <1>5, <2>2, <3>1 DEF r
    <3>3. QED
      BY <1>2, <1>3, <3>2
  <2>6. QED
    BY <2>2, <2>5 DEF r
<1>9. QED
  BY <1>2, <1>6, <1>7, <1>8 DEF r

\* A record behind all others comes last in their order.
LEMMA InOrderAppend ==
    ASSUME NEW S, IsFiniteSet(S), S \subseteq Pairs, NEW r \in Pairs,
           \A q \in S : Before(q, r)
    PROVE  InOrder(S \cup {r}) = Append(InOrder(S), r)
<1> DEFINE t == InOrder(S)
           u == Append(t, r)
<1>1. t \in Seq(S) /\ Len(t) \in Nat /\ Range(t) = S /\ Sorted(t) /\ DOMAIN t = 1..Len(t)
  BY InOrderSorts
<1> HIDE DEF t
<1>2. t \in Seq(Pairs)
  BY <1>1
<1>3. /\ u \in Seq(Pairs) /\ DOMAIN u = 1..Len(t) + 1 /\ u[Len(t) + 1] = r
      /\ \A i \in 1..Len(t) : u[i] = t[i] /\ t[i] \in S
  BY <1>1, <1>2
<1> HIDE DEF u
<1>4. Range(u) = S \cup {r}
  <2>1. \A x \in Range(u) : x \in S \cup {r}
    BY <1>1, <1>3 DEF Range
  <2>2. r \in Range(u)
    BY <1>1, <1>3 DEF Range
  <2>3. \A x \in S : x \in Range(u)
    BY <1>1, <1>3 DEF Range
  <2>4. QED
    BY <2>1, <2>2, <2>3
<1>5. Sorted(u)
  <2>1. ASSUME NEW i \in 1..Len(t) + 1, NEW j \in 1..Len(t) + 1, i < j
        PROVE  Before(u[i], u[j])
    <3>1. i \in 1..Len(t)
      BY <1>1, <2>1
    <3>2. CASE j = Len(t) + 1
      BY <1>3, <3>1, <3>2
    <3>3. CASE j \in 1..Len(t)
      BY <1>1, <1>3, <2>1, <3>1, <3>3 DEF Sorted
    <3>4. QED
      BY <1>1, <3>2, <3>3
  <2>2. QED
    BY <1>3, <2>1 DEF Sorted
<1>6. QED
  BY <1>3, <1>4, <1>5, SortedIsInOrder DEF u, t

\* One more repeating record is sampled if there is room.
LEMMA SampledAppend ==
    ASSUME NEW c, NEW t \in Seq(Pairs), NEW r \in Pairs
    PROVE  Sampled(c, Append(t, r)) =
             IF Len(Sampled(c, t)) < MaxSamples
             THEN Append(Sampled(c, t), <<First(c, r[1]), r[2]>>) ELSE Sampled(c, t)
<1> DEFINE u == Append(t, r)
           n == Len(t)
           F(q) == <<First(c, q[1]), q[2]>>
           T == {F(q) : q \in Pairs}
<1>1. n \in Nat /\ MaxSamples \in Nat
  BY BoundsAssumption
<1>2. /\ Len(u) = n + 1 /\ u[n + 1] = r /\ \A k \in 1..n : u[k] = t[k] /\ t[k] \in Pairs
  OBVIOUS
<1>3. /\ Min({MaxSamples, n}) = IF MaxSamples <= n THEN MaxSamples ELSE n
      /\ Min({MaxSamples, n + 1}) = IF MaxSamples <= n + 1 THEN MaxSamples ELSE n + 1
  BY <1>1, MinOfTwo
<1>4. /\ Sampled(c, t) = [k \in 1..Min({MaxSamples, n}) |-> F(t[k])]
      /\ Sampled(c, u) = [k \in 1..Min({MaxSamples, n + 1}) |-> F(u[k])]
  BY <1>2 DEF Sampled
<1> HIDE DEF u, n
<1>5. CASE MaxSamples <= n
  <2>1. \A k \in 1..MaxSamples : u[k] = t[k]
    BY <1>1, <1>2, <1>5
  <2>2. Sampled(c, u) = Sampled(c, t)
    <3>1. \A k \in 1..MaxSamples : F(u[k]) = F(t[k])
      BY <2>1
    <3>2. Min({MaxSamples, n}) = MaxSamples /\ Min({MaxSamples, n + 1}) = MaxSamples
      BY <1>1, <1>3, <1>5
    <3> HIDE DEF F
    <3>3. QED
      BY <1>4, <3>1, <3>2
  <2>3. Len(Sampled(c, t)) = MaxSamples
    BY <1>1, <1>3, <1>4, <1>5
  <2>4. QED
    BY <1>1, <2>2, <2>3 DEF u
<1>6. CASE n < MaxSamples
  <2>1. /\ Sampled(c, t) = [k \in 1..n |-> F(t[k])]
        /\ Sampled(c, u) = [k \in 1..n + 1 |-> F(u[k])]
    BY <1>1, <1>3, <1>4, <1>6
  <2>2. \A k \in 1..n : F(t[k]) \in T
    BY <1>2
  <2>3. F(r) \in T
    OBVIOUS
  <2> HIDE DEF T, F
  <2>4. Sampled(c, t) \in Seq(T) /\ Len(Sampled(c, t)) = n
    BY <1>1, <2>1, <2>2
  <2>5. Append(Sampled(c, t), F(r)) = [k \in 1..n + 1 |-> IF k = n + 1 THEN F(r) ELSE F(t[k])]
    BY <1>1, <2>1, <2>3, <2>4
  <2>6. \A k \in 1..n + 1 : F(u[k]) = IF k = n + 1 THEN F(r) ELSE F(t[k])
    BY <1>1, <1>2
  <2>7. Sampled(c, u) = Append(Sampled(c, t), F(r))
    BY <2>1, <2>5, <2>6
  <2>8. QED
    BY <1>6, <2>4, <2>7 DEF F, u
<1>7. QED
  BY <1>1, <1>5, <1>6

\* A count has four fields.
Shaped(acc) == acc = [distinct |-> acc.distinct, duplicates |-> acc.duplicates,
                      samples |-> acc.samples, first |-> acc.first]

\* Two of them change with a duplicate.
LEMMA CountDuplicate ==
    ASSUME NEW acc, Shaped(acc), NEW x, NEW y
    PROVE  [acc EXCEPT !.duplicates = x, !.samples = y]
             = [distinct |-> acc.distinct, duplicates |-> x, samples |-> y, first |-> acc.first]
<1> DEFINE b == [acc EXCEPT !.duplicates = x, !.samples = y]
           c == [distinct |-> acc.distinct, duplicates |-> x, samples |-> y, first |-> acc.first]
<1>1. /\ DOMAIN b = DOMAIN c /\ b.distinct = c.distinct /\ b.duplicates = c.duplicates
      /\ b.samples = c.samples /\ b.first = c.first
  BY DEF Shaped
<1>2. /\ b = [i \in DOMAIN b |-> b[i]] /\ c = [i \in DOMAIN c |-> c[i]]
      /\ DOMAIN c = {"distinct", "duplicates", "samples", "first"}
  OBVIOUS
<1> HIDE DEF b, c
<1>3. b = c
  BY <1>1, <1>2
<1>4. QED
  BY <1>3 DEF b, c

\* Two others change with a new value.
LEMMA CountNew ==
    ASSUME NEW acc, Shaped(acc), NEW x, NEW y
    PROVE  [acc EXCEPT !.distinct = x, !.first = y]
             = [distinct |-> x, duplicates |-> acc.duplicates, samples |-> acc.samples, first |-> y]
<1> DEFINE b == [acc EXCEPT !.distinct = x, !.first = y]
           c == [distinct |-> x, duplicates |-> acc.duplicates, samples |-> acc.samples,
                 first |-> y]
<1>1. /\ DOMAIN b = DOMAIN c /\ b.distinct = c.distinct /\ b.duplicates = c.duplicates
      /\ b.samples = c.samples /\ b.first = c.first
  BY DEF Shaped
<1>2. /\ b = [i \in DOMAIN b |-> b[i]] /\ c = [i \in DOMAIN c |-> c[i]]
      /\ DOMAIN c = {"distinct", "duplicates", "samples", "first"}
  OBVIOUS
<1> HIDE DEF b, c
<1>3. b = c
  BY <1>1, <1>2
<1>4. QED
  BY <1>3 DEF b, c

\* The count after some record.
LEMMA CountedAfter ==
    ASSUME NEW c, NEW s, NEW m, m # 0
    PROVE  Counted(c, s, m) =
             [distinct   |-> Cardinality(SeenValues(s, m)),
              duplicates |-> m - Cardinality(SeenValues(s, m)),
              samples    |-> Sampled(c, InOrder(Repeated(c, SeenRecords(s, m)))),
              first      |-> <<s[m][1], First(c, s[m][1])>>]
BY DEF Counted

\* One more record of sorted records is counted.
LEMMA CountStep ==
    ASSUME NEW c \in Seq(Values), NEW s \in Seq(Pairs), Sorted(s), Range(s) = RowsOf(c),
           NEW k \in Nat, k < Len(s)
    PROVE  CountRecord(Counted(c, s, k), s[k + 1]) = Counted(c, s, k + 1)
<1> DEFINE r == s[k + 1]
           V == SeenValues(s, k)
           R == SeenRecords(s, k)
           D == Repeated(c, R)
<1>1. Len(s) \in Nat /\ DOMAIN s = 1..Len(s) /\ k + 1 \in DOMAIN s
  OBVIOUS
<1>2. \A i \in 1..k : i \in DOMAIN s /\ s[i] \in Pairs /\ Before(s[i], r)
  BY <1>1 DEF Sorted
<1>3. r \in Pairs /\ r = <<r[1], r[2]>>
  BY <1>1 DEF Pairs
<1>4. IsFiniteSet(R) /\ R \subseteq Pairs /\ \A q \in R : Before(q, r)
  <2>1. R \subseteq Range(s)
    BY <1>2 DEF Range, SeenRecords
  <2>2. QED
    BY <1>2, <2>1, SortedCounts, FS_Subset DEF SeenRecords
<1>5. IsFiniteSet(D) /\ D \subseteq Pairs /\ \A q \in D : Before(q, r)
  <2>1. D \subseteq R
    BY DEF Repeated
  <2>2. QED
    BY <1>4, <2>1, FS_Subset
<1>6. IsFiniteSet(V)
  <2>1. V = {s[i][1] : i \in 1..k}
    BY DEF SeenValues
  <2> DEFINE f == [i \in 1..k |-> s[i][1]]
  <2>2. f \in Surjection(1..k, V)
    BY <2>1 DEF Surjection
  <2>3. IsFiniteSet(1..k)
    BY FS_Interval
  <2> HIDE DEF f, V
  <2>4. QED
    BY <2>2, <2>3, FS_Surjection
<1>7. SeenValues(s, k + 1) = V \cup {r[1]} /\ SeenRecords(s, k + 1) = R \cup {r}
  <2>1. 1..k + 1 = (1..k) \cup {k + 1}
    OBVIOUS
  <2>2. QED
    BY <2>1 DEF SeenValues, SeenRecords
<1>8. Repeated(c, SeenRecords(s, k + 1)) = IF r[2] = First(c, r[1]) THEN D ELSE D \cup {r}
  BY <1>7 DEF Repeated
<1>9. /\ Cardinality(V) \in Nat
      /\ Cardinality(V \cup {r[1]}) = IF r[1] \in V THEN Cardinality(V) ELSE Cardinality(V) + 1
  BY <1>6, FS_AddElement, FS_CardinalityType
<1>10. InOrder(D \cup {r}) = Append(InOrder(D), r) /\ InOrder(D) \in Seq(Pairs)
  <2> HIDE DEF D, r
  <2>1. InOrder(D) \in Seq(D)
    BY <1>5, InOrderSorts
  <2>2. InOrder(D) \in Seq(Pairs)
    BY <1>5, <2>1
  <2>3. InOrder(D \cup {r}) = Append(InOrder(D), r)
    BY <1>3, <1>5, InOrderAppend
  <2>4. QED
    BY <2>2, <2>3
<1>11. Sampled(c, InOrder(D \cup {r})) =
         IF Len(Sampled(c, InOrder(D))) < MaxSamples
         THEN Append(Sampled(c, InOrder(D)), <<First(c, r[1]), r[2]>>) ELSE Sampled(c, InOrder(D))
  BY <1>3, <1>10, SampledAppend
<1> DEFINE acc == Counted(c, s, k)
           after == Counted(c, s, k + 1)
           known == k > 0 /\ s[k][1] = r[1]
<1>12. /\ acc.distinct = Cardinality(V) /\ acc.duplicates = k - Cardinality(V)
       /\ acc.samples = Sampled(c, InOrder(D))
       /\ acc.first = IF k = 0 THEN << >> ELSE <<s[k][1], First(c, s[k][1])>>
       /\ Shaped(acc)
  BY DEF Counted, Shaped
<1>13. /\ after.distinct = Cardinality(V \cup {r[1]})
       /\ after.duplicates = k + 1 - Cardinality(V \cup {r[1]})
       /\ after.samples = Sampled(c, InOrder(Repeated(c, SeenRecords(s, k + 1))))
       /\ after.first = <<r[1], First(c, r[1])>>
       /\ Shaped(after)
  <2> DEFINE m == k + 1
  <2>1. m # 0 /\ after = Counted(c, s, m) /\ m = k + 1
    OBVIOUS
  <2> HIDE DEF after, V, m
  <2>2. after = [distinct   |-> Cardinality(SeenValues(s, m)),
                 duplicates |-> m - Cardinality(SeenValues(s, m)),
                 samples    |-> Sampled(c, InOrder(Repeated(c, SeenRecords(s, m)))),
                 first      |-> <<s[m][1], First(c, s[m][1])>>]
    BY <2>1, CountedAfter
  <2>3. /\ after.distinct = Cardinality(SeenValues(s, m))
        /\ after.duplicates = m - Cardinality(SeenValues(s, m))
        /\ after.samples = Sampled(c, InOrder(Repeated(c, SeenRecords(s, m))))
        /\ after.first = <<s[m][1], First(c, s[m][1])>>
        /\ Shaped(after)
    BY ONLY <2>2 DEF Shaped
  <2>4. SeenValues(s, m) = V \cup {r[1]} /\ s[m] = r
    BY <1>7, <2>1
  <2> HIDE DEF r
  <2>5. after.distinct = Cardinality(V \cup {r[1]})
    BY ONLY <2>3, <2>4
  <2>6. after.duplicates = k + 1 - Cardinality(V \cup {r[1]})
    <3>1. after.duplicates = m - after.distinct
      BY ONLY <2>3
    <3>2. after.duplicates = k + 1 - after.distinct
      <4>1. after.distinct \in Nat
        BY <1>9, <2>5
      <4>2. QED
        BY <2>1, <3>1, <4>1
    <3>3. QED
      BY ONLY Zenon, <2>5, <3>2
  <2>7. after.samples = Sampled(c, InOrder(Repeated(c, SeenRecords(s, k + 1))))
    BY ONLY <2>1, <2>3
  <2>8. after.first = <<r[1], First(c, r[1])>>
    BY ONLY <2>3, <2>4
  <2>9. QED
    BY <2>3, <2>5, <2>6, <2>7, <2>8
<1>14. known <=> (acc.first # << >> /\ acc.first[1] = r[1])
  BY <1>12
<1>15. /\ known => r[2] # First(c, r[1]) /\ r[1] \in V
       /\ ~known => r[2] = First(c, r[1]) /\ r[1] \notin V
  BY NewInFirstRow
<1> HIDE DEF acc, after, known, r, V, R, D
<1>16. CASE known
  <2>1. acc.first = <<r[1], First(c, r[1])>>
    BY <1>12, <1>16 DEF known
  <2> DEFINE x == acc.duplicates + 1
             y == IF Len(acc.samples) < MaxSamples
                  THEN Append(acc.samples, <<First(c, r[1]), r[2]>>) ELSE acc.samples
  <2>2. CountRecord(acc, r) = [acc EXCEPT !.duplicates = x, !.samples = y]
    <3>1. acc.first[2] = First(c, r[1])
      BY <2>1
    <3>2. CountRecord(acc, r) =
            [acc EXCEPT !.duplicates = acc.duplicates + 1,
                        !.samples = IF Len(acc.samples) < MaxSamples
                                    THEN Append(acc.samples, <<acc.first[2], r[2]>>)
                                    ELSE acc.samples]
      BY <1>14, <1>16 DEF CountRecord
    <3>3. QED
      BY <3>1, <3>2
  <2> HIDE DEF x, y
  <2>3. CountRecord(acc, r) =
          [distinct |-> acc.distinct, duplicates |-> x, samples |-> y, first |-> acc.first]
    BY ONLY <1>12, <2>2, CountDuplicate
  <2>4. /\ Cardinality(V \cup {r[1]}) = Cardinality(V)
        /\ k - Cardinality(V) + 1 = k + 1 - Cardinality(V)
    BY <1>9, <1>15, <1>16
  <2>5. Repeated(c, SeenRecords(s, k + 1)) = D \cup {r}
    BY <1>8, <1>15, <1>16
  <2>6. x = k + 1 - Cardinality(V \cup {r[1]})
    BY <1>9, <1>12, <2>4 DEF x
  <2>7. y = Sampled(c, InOrder(Repeated(c, SeenRecords(s, k + 1))))
    BY <1>11, <1>12, <2>5 DEF y
  <2>8. /\ acc.distinct = after.distinct /\ x = after.duplicates
        /\ y = after.samples /\ acc.first = after.first
    BY <1>12, <1>13, <2>1, <2>4, <2>6, <2>7
  <2>9. CountRecord(acc, r) = after
    BY ONLY <1>13, <2>3, <2>8 DEF Shaped
  <2>10. QED
    BY <2>9 DEF acc, after, r
<1>17. CASE ~known
  <2>1. CountRecord(acc, r) = [acc EXCEPT !.distinct = @ + 1, !.first = r]
    BY <1>14, <1>17 DEF CountRecord
  <2>2. CountRecord(acc, r) =
          [distinct |-> acc.distinct + 1, duplicates |-> acc.duplicates,
           samples |-> acc.samples, first |-> r]
    BY ONLY <1>12, <2>1, CountNew
  <2>3. /\ Cardinality(V \cup {r[1]}) = Cardinality(V) + 1
        /\ k - Cardinality(V) = k + 1 - (Cardinality(V) + 1)
    BY <1>9, <1>15, <1>17
  <2>4. Repeated(c, SeenRecords(s, k + 1)) = D
    BY <1>8, <1>15, <1>17
  <2>5. r = <<r[1], First(c, r[1])>>
    BY <1>3, <1>15, <1>17
  <2>6. /\ acc.distinct + 1 = after.distinct /\ acc.duplicates = after.duplicates
        /\ acc.samples = after.samples /\ r = after.first
    BY <1>9, <1>12, <1>13, <2>3, <2>4, <2>5
  <2>7. CountRecord(acc, r) = after
    BY ONLY <1>13, <2>2, <2>6 DEF Shaped
  <2>8. QED
    BY <2>7 DEF acc, after, r
<1>18. QED
  BY <1>16, <1>17

\* The number of different values of a column.
LEMMA ValuesCounted ==
    ASSUME NEW c \in Seq(Values)
    PROVE  IsFiniteSet(Range(c)) /\ {r[1] : r \in RowsOf(c)} = Range(c)
           /\ IsFiniteSet(RowsOf(c)) /\ Cardinality(RowsOf(c)) = Len(c)
<1>1. Len(c) \in Nat /\ DOMAIN c = 1..Len(c)
  OBVIOUS
<1>2. {r[1] : r \in RowsOf(c)} = Range(c)
  <2>1. ASSUME NEW r \in RowsOf(c) PROVE r[1] \in Range(c)
    BY RowsTyped DEF Range
  <2>2. ASSUME NEW v \in Range(c) PROVE \E r \in RowsOf(c) : v = r[1]
    <3>1. PICK i \in DOMAIN c : v = c[i]
      BY DEF Range
    <3>2. <<c[i], i>> \in RowsOf(c) /\ <<c[i], i>>[1] = v
      BY <3>1 DEF RowsOf
    <3>3. QED
      BY <3>2
  <2>3. QED
    BY <2>1, <2>2
<1> DEFINE f == [i \in 1..Len(c) |-> <<c[i], i>>]
<1>3. f \in Bijection(1..Len(c), RowsOf(c))
  <2>1. f \in [1..Len(c) -> RowsOf(c)]
    BY <1>1 DEF RowsOf
  <2>2. f \in Injection(1..Len(c), RowsOf(c))
    BY <2>1 DEF Injection, IsInjective
  <2>3. f \in Surjection(1..Len(c), RowsOf(c))
    BY <1>1, <2>1 DEF Surjection, RowsOf
  <2>4. QED
    BY <2>2, <2>3 DEF Bijection
<1>4. ExistsBijection(1..Len(c), RowsOf(c))
  BY <1>3 DEF ExistsBijection
<1>5. IsFiniteSet(RowsOf(c)) /\ Cardinality(RowsOf(c)) = Len(c)
  BY <1>1, <1>4, FS_NatBijection, FS_CountingElements
<1>6. IsFiniteSet(Range(c))
  <2>1. c \in Surjection(1..Len(c), Range(c))
    BY <1>1 DEF Surjection, Range
  <2>2. IsFiniteSet(1..Len(c))
    BY <1>1, FS_Interval
  <2>3. QED
    BY <2>1, <2>2, FS_Surjection
<1>7. QED
  BY <1>2, <1>5, <1>6

\* What counting makes of the sorted records of a column.
LEMMA CountsColumn ==
    ASSUME NEW c \in Seq(Values), NEW s \in Seq(Pairs), Sorted(s), Range(s) = RowsOf(c)
    PROVE  /\ Count(s).distinct = Cardinality(Range(c))
           /\ Count(s).duplicates = Len(c) - Cardinality(Range(c))
           /\ Count(s).samples = Sampled(c, InOrder(Repeated(c, RowsOf(c))))
<1> DEFINE acc(k) == Counts!Fold(NothingCounted, SubSeq(s, 1, k))
           B == {k \in Nat : k <= Len(s) => acc(k) = Counted(c, s, k)}
<1>1. 0 \in B
  <2>1. SeenValues(s, 0) = {} /\ SeenRecords(s, 0) = {}
    BY DEF SeenValues, SeenRecords
  <2>2. Repeated(c, {}) = {}
    BY DEF Repeated
  <2>3. InOrder({}) = << >>
    <3>1. Cardinality({}) = 0 /\ IsFiniteSet({})
      BY FS_EmptySet
    <3>2. InOrder({}) \in Seq({}) /\ Len(InOrder({})) = 0
      BY <3>1, InOrderSorts
    <3>3. QED
      BY <3>2
  <2>4. Sampled(c, << >>) = << >>
    <3>1. MaxSamples \in Nat /\ Len(<< >>) = 0
      BY BoundsAssumption
    <3>2. Min({MaxSamples, 0}) = IF MaxSamples <= 0 THEN MaxSamples ELSE 0
      BY <3>1, MinOfTwo, 0 \in Int
    <3>3. Min({MaxSamples, Len(<< >>)}) = 0
      BY <3>1, <3>2
    <3>4. 1..Min({MaxSamples, Len(<< >>)}) = {}
      BY <3>3
    <3>5. Sampled(c, << >>) = << >>
      <4>1. Sampled(c, << >>) = [k \in {} |-> <<First(c, << >>[k][1]), << >>[k][2]>>]
      BY ONLY Zenon, <3>4 DEF Sampled
    <4>2. QED
      BY <4>1
    <3>6. QED
      BY <3>5
  <2>5. Counted(c, s, 0) = NothingCounted
    <3>1. Cardinality(SeenValues(s, 0)) = 0
      <4>1. Cardinality({}) = 0
        BY FS_EmptySet
      <4> HIDE DEF B, acc
      <4>2. QED
        BY Zenon, <2>1, <4>1
    <3>2. Sampled(c, InOrder(Repeated(c, SeenRecords(s, 0)))) = << >>
      <4>1. Repeated(c, SeenRecords(s, 0)) = {}
        BY <2>1, <2>2
      <4>2. QED
        BY <2>3, <2>4, <4>1
    <3>3. QED
      BY ONLY <3>1, <3>2 DEF Counted, NothingCounted
  <2>6. acc(0) = NothingCounted
    BY Counts!FoldEnds
  <2>7. QED
    BY <2>5, <2>6
<1>2. ASSUME NEW k \in B PROVE k + 1 \in B
  <2>1. SUFFICES ASSUME k + 1 <= Len(s) PROVE acc(k + 1) = Counted(c, s, k + 1)
    OBVIOUS
  <2>2. k \in Nat /\ k < Len(s) /\ acc(k) = Counted(c, s, k)
    BY <2>1
  <2>3. acc(k + 1) = CountRecord(acc(k), s[k + 1])
    BY <2>2, Counts!FoldStep
  <2>4. QED
    BY <2>2, <2>3, CountStep
<1>3. B = Nat
  <2>1. B \in SUBSET Nat
    OBVIOUS
  <2> HIDE DEF B
  <2>2. QED
    BY <1>1, <1>2, <2>1, Counts!NatSetInduction
<1>4. Len(s) \in Nat /\ DOMAIN s = 1..Len(s)
  OBVIOUS
<1>5. acc(Len(s)) = Counted(c, s, Len(s))
  <2>1. Len(s) \in B
    BY <1>3, <1>4
  <2>2. QED
    BY <1>4, <2>1
<1>6. Count(s) = acc(Len(s))
  <2>1. Counts!Fold(NothingCounted, SubSeq(s, 1, Len(s))) = Counts!Fold(NothingCounted, s)
    BY ONLY s \in Seq(Pairs), Counts!FoldEnds
  <2>2. Count(s) = Counts!Fold(NothingCounted, s)
    BY DEF Count, Counts!Fold, FoldLeft, Counts!FoldLeft, MapThenFoldSet,
           Counts!MapThenFoldSet, Max, Counts!Max
  <2>3. QED
    BY <2>1, <2>2
<1>7. SeenRecords(s, Len(s)) = RowsOf(c)
  BY <1>4 DEF SeenRecords, Range
<1>8. SeenValues(s, Len(s)) = {r[1] : r \in RowsOf(c)}
  BY <1>4, <1>7 DEF SeenValues, SeenRecords
<1>9. Len(s) = Len(c)
  BY SortedCounts, ValuesCounted
<1>10. SeenValues(s, Len(s)) = Range(c)
  BY <1>8, ValuesCounted
<1> HIDE DEF acc
<1>11. QED
  BY <1>5, <1>6, <1>7, <1>9, <1>10 DEF Counted
-----------------------------------------------------------------------------
(* Merging *)

\* The records that are still to be read.
Rest(left) == UNION {Range(left[i]) : i \in DOMAIN left}

\* What has been popped is sorted and before what is left.
Merging(p, k, total) ==
    /\ \A i \in DOMAIN p.left : p.left[i] \in Seq(Pairs) /\ Sorted(p.left[i])
    /\ \A i, j \in DOMAIN p.left : i # j => Range(p.left[i]) \cap Range(p.left[j]) = {}
    /\ p.out \in Seq(Pairs) /\ Len(p.out) = k /\ Sorted(p.out)
    /\ \A r \in Range(p.out) : \A q \in Rest(p.left) : Before(r, q)
    /\ Range(p.out) \cup Rest(p.left) = total

\* The first of sorted records is taken off.
LEMMA TailSorted ==
    ASSUME NEW s \in Seq(Pairs), Sorted(s), s # << >>
    PROVE  /\ s[1] \in Pairs /\ Tail(s) \in Seq(Pairs) /\ Sorted(Tail(s))
           /\ Range(s) = Range(Tail(s)) \cup {s[1]}
           /\ \A q \in Range(Tail(s)) : Before(s[1], q)
<1> DEFINE t == Tail(s)
<1>1. /\ Len(s) \in Nat \ {0} /\ DOMAIN s = 1..Len(s) /\ s[1] \in Pairs
      /\ t \in Seq(Pairs) /\ Len(t) = Len(s) - 1 /\ DOMAIN t = 1..Len(t)
      /\ \A i \in 1..Len(t) : t[i] = s[i + 1]
  OBVIOUS
<1> HIDE DEF t
<1>2. Sorted(t)
  <2>1. ASSUME NEW i \in 1..Len(t), NEW j \in 1..Len(t), i < j PROVE Before(t[i], t[j])
    <3>1. i + 1 \in DOMAIN s /\ j + 1 \in DOMAIN s /\ i + 1 < j + 1
      BY <1>1, <2>1
    <3>2. Before(s[i + 1], s[j + 1])
      BY <3>1 DEF Sorted
    <3>3. QED
      BY <1>1, <3>2
  <2>2. QED
    BY <1>1, <2>1 DEF Sorted
<1>3. \A q \in Range(t) : q \in Range(s) /\ Before(s[1], q)
  <2>1. ASSUME NEW i \in 1..Len(t) PROVE t[i] \in Range(s) /\ Before(s[1], t[i])
    <3>1. 1 \in DOMAIN s /\ i + 1 \in DOMAIN s /\ 1 < i + 1 /\ t[i] = s[i + 1]
      BY <1>1
    <3>2. QED
      BY <3>1 DEF Sorted, Range
  <2>2. QED
    BY <1>1, <2>1 DEF Range
<1>4. \A x \in Range(s) : x \in Range(t) \cup {s[1]}
  <2>1. ASSUME NEW i \in 1..Len(s), i # 1 PROVE s[i] \in Range(t)
    <3>1. i - 1 \in DOMAIN t /\ t[i - 1] = s[i]
      BY <1>1, <2>1
    <3>2. QED
      BY <3>1 DEF Range
  <2>2. QED
    BY <1>1, <2>1 DEF Range
<1>5. s[1] \in Range(s)
  BY <1>1 DEF Range
<1>6. QED
  BY <1>1, <1>2, <1>3, <1>4, <1>5 DEF t

\* A record behind sorted records is added.
LEMMA AppendSorted ==
    ASSUME NEW t \in Seq(Pairs), Sorted(t), NEW r \in Pairs, \A q \in Range(t) : Before(q, r)
    PROVE  /\ Append(t, r) \in Seq(Pairs) /\ Sorted(Append(t, r))
           /\ Len(Append(t, r)) = Len(t) + 1 /\ Range(Append(t, r)) = Range(t) \cup {r}
<1> DEFINE u == Append(t, r)
<1>1. /\ Len(t) \in Nat /\ DOMAIN t = 1..Len(t)
      /\ u \in Seq(Pairs) /\ DOMAIN u = 1..Len(t) + 1 /\ u[Len(t) + 1] = r
      /\ Len(u) = Len(t) + 1 /\ \A i \in 1..Len(t) : u[i] = t[i]
  OBVIOUS
<1> HIDE DEF u
<1>2. Range(u) = Range(t) \cup {r}
  <2>1. \A x \in Range(u) : x \in Range(t) \cup {r}
    BY <1>1 DEF Range
  <2>2. r \in Range(u)
    BY <1>1 DEF Range
  <2>3. \A x \in Range(t) : x \in Range(u)
    BY <1>1 DEF Range
  <2>4. QED
    BY <2>1, <2>2, <2>3
<1>3. Sorted(u)
  <2>1. ASSUME NEW i \in 1..Len(t) + 1, NEW j \in 1..Len(t) + 1, i < j
        PROVE  Before(u[i], u[j])
    <3>1. i \in 1..Len(t)
      BY <1>1, <2>1
    <3>2. CASE j = Len(t) + 1
      BY <1>1, <3>1, <3>2 DEF Range
    <3>3. CASE j \in 1..Len(t)
      BY <1>1, <2>1, <3>1, <3>3 DEF Sorted
    <3>4. QED
      BY <1>1, <3>2, <3>3
  <2>2. QED
    BY <1>1, <2>1 DEF Sorted
<1>4. QED
  BY <1>1, <1>2, <1>3 DEF u

\* A finite set of records has one that no other is before.
LEMMA LeastRecord ==
    ASSUME NEW S, IsFiniteSet(S), S \subseteq Pairs, S # {}
    PROVE  \E r \in S : \A q \in S : ~Before(q, r)
<1>1. Cardinality(S) \in Nat /\ Cardinality(S) # 0
  BY FS_EmptySet, FS_CardinalityType
<1>2. 0 \in 0..Cardinality(S) - 1
  BY <1>1
<1>3. PICK r \in S : Cardinality(Below(S, r)) = 0
  BY <1>2, RankExists
<1>4. Below(S, r) = {}
  BY <1>3, RankType, FS_EmptySet
<1>5. QED
  BY <1>4 DEF Below

\* Which cursors have a record, and the least of them.
Live(left) == {i \in DOMAIN left : left[i] # << >>}
Least(left) == CHOOSE i \in Live(left) : \A j \in Live(left) \ {i} :
                   ~Before(left[j][1], left[i][1])

\* The least cursor is one of them.
LEMMA LeastCursor ==
    ASSUME NEW n \in Nat, NEW left, DOMAIN left = 1..n, Live(left) # {},
           \A i \in 1..n : left[i] \in Seq(Pairs)
    PROVE  /\ Least(left) \in Live(left)
           /\ \A j \in Live(left) \ {Least(left)} : ~Before(left[j][1], left[Least(left)][1])
<1> DEFINE H == {left[i][1] : i \in Live(left)}
           f == [i \in Live(left) |-> left[i][1]]
<1>1. Live(left) \in SUBSET (1..n)
  BY DEF Live
<1>2. IsFiniteSet(Live(left))
  <2>1. IsFiniteSet(1..n)
    BY FS_Interval
  <2>2. QED
    BY <1>1, <2>1, FS_Subset
<1>3. f \in Surjection(Live(left), H)
  BY DEF Surjection
<1>4. IsFiniteSet(H)
  <2> HIDE DEF f, H
  <2>1. QED
    BY <1>2, <1>3, FS_Surjection
<1>5. H \subseteq Pairs /\ H # {}
  <2>1. ASSUME NEW i \in Live(left) PROVE left[i][1] \in Pairs
    <3>1. left[i] \in Seq(Pairs) /\ left[i] # << >>
      BY <1>1 DEF Live
    <3>2. QED
      BY <3>1
  <2>2. QED
    BY <2>1
<1>6. PICK r \in H : \A q \in H : ~Before(q, r)
  <2> HIDE DEF H
  <2>1. QED
    BY <1>4, <1>5, LeastRecord
<1>7. PICK i \in Live(left) : r = left[i][1]
  BY <1>6
<1>8. \A j \in Live(left) : left[j][1] \in H
  OBVIOUS
<1>9. \A j \in Live(left) \ {i} : ~Before(left[j][1], left[i][1])
  BY <1>6, <1>7, <1>8
<1>10. QED
  BY <1>9 DEF Least

\* A pop takes the least record of all that are left.
LEMMA PopKeeps ==
    ASSUME NEW n \in Nat, NEW p, DOMAIN p.left = 1..n, NEW k \in Nat, NEW total,
           Merging(p, k, total), Live(p.left) # {}, NEW any
    PROVE  DOMAIN Pop(p, any).left = 1..n /\ Merging(Pop(p, any), k + 1, total)
<1> DEFINE left == p.left
           out == p.out
           l == Least(left)
           r == left[l][1]
           after == [left EXCEPT ![l] = Tail(@)]
<1>1. Pop(p, any) = [left |-> after, out |-> Append(out, r)]
  BY DEF Pop, Least, Live
<1>2. /\ \A i \in 1..n : left[i] \in Seq(Pairs) /\ Sorted(left[i])
      /\ \A i, j \in 1..n : i # j => Range(left[i]) \cap Range(left[j]) = {}
      /\ out \in Seq(Pairs) /\ Len(out) = k /\ Sorted(out)
      /\ \A a \in Range(out) : \A q \in Rest(left) : Before(a, q)
      /\ Range(out) \cup Rest(left) = total
      /\ DOMAIN left = 1..n
  BY DEF Merging
<1>3. /\ l \in Live(left)
      /\ \A j \in Live(left) \ {l} : ~Before(left[j][1], r)
  BY <1>2, LeastCursor
<1>4. l \in 1..n /\ left[l] # << >>
  BY <1>2, <1>3 DEF Live
<1> HIDE DEF left, out, l
<1>5. /\ r \in Pairs /\ Tail(left[l]) \in Seq(Pairs) /\ Sorted(Tail(left[l]))
      /\ Range(left[l]) = Range(Tail(left[l])) \cup {r}
      /\ \A q \in Range(Tail(left[l])) : Before(r, q)
  BY <1>2, <1>4, TailSorted
<1>6. /\ DOMAIN after = 1..n /\ after[l] = Tail(left[l])
      /\ \A i \in 1..n : i # l => after[i] = left[i]
  BY <1>2, <1>4
<1> HIDE DEF r, after
<1>7. /\ \A i \in 1..n : after[i] \in Seq(Pairs) /\ Sorted(after[i])
      /\ \A i \in 1..n : Range(after[i]) \subseteq Range(left[i])
  BY <1>2, <1>5, <1>6
<1>8. \A i, j \in 1..n : i # j => Range(after[i]) \cap Range(after[j]) = {}
  BY <1>2, <1>7
<1>9. r \in Rest(left) /\ Rest(after) \subseteq Rest(left)
  BY <1>2, <1>4, <1>5, <1>6, <1>7 DEF Rest
<1>10. Rest(left) = Rest(after) \cup {r}
  <2>1. ASSUME NEW i \in 1..n, NEW q \in Range(left[i]) PROVE q \in Rest(after) \cup {r}
    <3>1. CASE i = l
      BY <1>4, <1>5, <1>6, <2>1, <3>1 DEF Rest
    <3>2. CASE i # l
      BY <1>6, <2>1, <3>2 DEF Rest
    <3>3. QED
      BY <3>1, <3>2
  <2>2. \A q \in Rest(left) : q \in Rest(after) \cup {r}
    BY <1>2, <2>1 DEF Rest
  <2>3. QED
    BY <1>9, <2>2
<1>11. \A q \in Rest(after) : Before(r, q)
  <2>1. ASSUME NEW i \in 1..n, NEW q \in Range(after[i]) PROVE Before(r, q)
    <3>1. CASE i = l
      BY <1>5, <1>6, <2>1, <3>1
    <3>2. CASE i # l
      <4>1. q \in Range(left[i]) /\ left[i] \in Seq(Pairs) /\ Sorted(left[i])
        BY <1>2, <1>6, <2>1, <3>2
      <4>2. left[i] # << >>
        BY <4>1 DEF Range
      <4>3. /\ left[i][1] \in Pairs /\ left[i][1] \in Range(left[i])
            /\ q = left[i][1] \/ Before(left[i][1], q)
        BY <4>1, <4>2, TailSorted
      <4>4. i \in Live(left)
        BY <1>2, <4>2 DEF Live
      <4>5. ~Before(left[i][1], r)
        BY <1>3, <3>2, <4>4 DEF r
      <4>6. left[i][1] # r
        BY <1>2, <1>4, <1>5, <3>2, <4>3
      <4>7. Before(r, left[i][1])
        BY <1>5, <4>3, <4>5, <4>6, TotalOrder
      <4>8. q \in Pairs
        BY <4>1 DEF Range
      <4>9. QED
        BY <1>5, <4>3, <4>7, <4>8, TotalOrder
    <3>3. QED
      BY <3>1, <3>2
  <2>2. QED
    BY <1>6, <2>1 DEF Rest
<1>12. /\ Append(out, r) \in Seq(Pairs) /\ Sorted(Append(out, r))
       /\ Len(Append(out, r)) = k + 1 /\ Range(Append(out, r)) = Range(out) \cup {r}
  BY <1>2, <1>5, <1>9, AppendSorted
<1>13. \A a \in Range(Append(out, r)) : \A q \in Rest(after) : Before(a, q)
  BY <1>2, <1>9, <1>11, <1>12
<1>14. Range(Append(out, r)) \cup Rest(after) = total
  BY <1>2, <1>10, <1>12
<1>15. Pop(p, any).left = after /\ Pop(p, any).out = Append(out, r)
  BY <1>1 DEF left, out, l, after, r
<1> DEFINE p2 == Pop(p, any)
<1> HIDE DEF p2
<1>16. p2.left = after /\ p2.out = Append(out, r)
  BY <1>15 DEF p2
<1>17. DOMAIN p2.left = 1..n /\ Merging(p2, k + 1, total)
  BY <1>6, <1>7, <1>8, <1>12, <1>13, <1>14, <1>16 DEF Merging
<1>18. QED
  BY <1>17 DEF p2

\* As many records are merged as the runs hold.
LEMMA RestCounts ==
    ASSUME NEW L \in Seq(Seq(Pairs)), \A i \in DOMAIN L : Sorted(L[i]),
           \A i, j \in DOMAIN L : i # j => Range(L[i]) \cap Range(L[j]) = {}
    PROVE  /\ FlattenSeq(L) \in Seq(Pairs)
           /\ IsFiniteSet(Rest(L)) /\ Len(FlattenSeq(L)) = Cardinality(Rest(L))
<1> DEFINE n == Len(L)
           K == [i \in 1..n |-> Range(L[i])]
           N == Heap!Numbered(K, n)
           f == [x \in N |-> x[2]]
<1>1. n \in Nat /\ DOMAIN L = 1..n /\ \A i \in 1..n : L[i] \in Seq(Pairs)
  OBVIOUS
<1>2. \A i \in 1..n : IsFiniteSet(K[i]) /\ Len(L[i]) = Cardinality(K[i])
  BY <1>1, SortedCounts
<1>3. /\ \A x \in N : \E i \in 1..n : x[2] \in Range(L[i]) /\ x = <<i, x[2]>>
      /\ \A i \in 1..n : \A y \in Range(L[i]) : <<i, y>> \in N
  BY DEF Heap!Numbered
<1> HIDE DEF K
<1>4. IsFiniteSet(N) /\ Len(FlattenSeq(L)) = Cardinality(N)
  BY <1>2, Heap!FlattenCounts
     DEF IsFiniteSet, Heap!IsFiniteSet, Cardinality, Heap!Cardinality, FlattenSeq, Heap!FlattenSeq
<1>5. Rest(L) = UNION {Range(L[i]) : i \in 1..n}
  BY <1>1 DEF Rest
<1> HIDE DEF N, n
<1>6. f \in [N -> Rest(L)]
  BY <1>3, <1>5
<1>7. f \in Injection(N, Rest(L))
  <2>1. ASSUME NEW x \in N, NEW y \in N, x[2] = y[2] PROVE x = y
    <3>1. PICK i \in 1..n : x[2] \in Range(L[i]) /\ x = <<i, x[2]>>
      BY <1>3
    <3>2. PICK j \in 1..n : y[2] \in Range(L[j]) /\ y = <<j, y[2]>>
      BY <1>3
    <3>3. i = j
      BY <1>1, <2>1, <3>1, <3>2
    <3>4. QED
      BY <2>1, <3>1, <3>2, <3>3
  <2>2. \A x, y \in N : f[x] = f[y] => x = y
    BY <2>1
  <2> HIDE DEF f
  <2>3. QED
    BY <1>6, <2>2 DEF Injection, IsInjective
<1>8. f \in Surjection(N, Rest(L))
  <2>1. ASSUME NEW y \in Rest(L) PROVE \E x \in N : f[x] = y
    <3>1. PICK i \in 1..n : y \in Range(L[i])
      BY <1>5
    <3>2. <<i, y>> \in N /\ f[<<i, y>>] = y
      BY <1>3, <3>1
    <3>3. QED
      BY <3>2
  <2> HIDE DEF f
  <2>2. QED
    BY <1>6, <2>1 DEF Surjection
<1> HIDE DEF f
<1>9. ExistsBijection(N, Rest(L))
  BY <1>7, <1>8 DEF ExistsBijection, Bijection
<1>10. IsFiniteSet(Rest(L)) /\ Cardinality(Rest(L)) = Cardinality(N)
  BY <1>4, <1>9, FS_Bijection
<1>11. FlattenSeq(L) \in Seq(Pairs)
  BY Heap!FlattenType DEF FlattenSeq, Heap!FlattenSeq
<1>12. QED
  BY <1>4, <1>10, <1>11

\* The k-way merge of sorted runs of different records is sorted and has them all.
LEMMA HeapSorts ==
    ASSUME NEW L \in Seq(Seq(Pairs)), \A i \in DOMAIN L : Sorted(L[i]),
           \A i, j \in DOMAIN L : i # j => Range(L[i]) \cap Range(L[j]) = {},
           NEW out, out = Heap!Fold([left |-> L, out |-> << >>], FlattenSeq(L)).out
    PROVE  out \in Seq(Pairs) /\ Sorted(out) /\ Range(out) = Rest(L)
<1> DEFINE n == Len(L)
           F == FlattenSeq(L)
           base == [left |-> L, out |-> << >>]
           acc(k) == Heap!Fold(base, SubSeq(F, 1, k))
           B == {k \in Nat : k <= Len(F) => /\ DOMAIN acc(k).left = 1..n
                                             /\ Merging(acc(k), k, Rest(L))}
<1>1. /\ n \in Nat /\ DOMAIN L = 1..n /\ \A i \in 1..n : L[i] \in Seq(Pairs)
      /\ F \in Seq(Pairs) /\ Len(F) \in Nat
      /\ IsFiniteSet(Rest(L)) /\ Len(F) = Cardinality(Rest(L))
  BY RestCounts
<1> HIDE DEF F
<1>2. 0 \in B
  <2>1. acc(0) = base
    BY <1>1, Heap!FoldEnds
  <2>2. base.left = L /\ base.out = << >>
    OBVIOUS
  <2>3. << >> \in Seq(Pairs) /\ Len(<< >>) = 0 /\ Sorted(<< >>) /\ Range(<< >>) = {}
    BY DEF Sorted, Range
  <2> HIDE DEF base, n
  <2>4. Merging(base, 0, Rest(L))
    BY <1>1, <2>2, <2>3 DEF Merging
  <2>5. QED
    BY <1>1, <2>1, <2>2, <2>4
<1>3. ASSUME NEW k \in B PROVE k + 1 \in B
  <2>1. SUFFICES ASSUME k + 1 <= Len(F)
                 PROVE  DOMAIN acc(k + 1).left = 1..n /\ Merging(acc(k + 1), k + 1, Rest(L))
    BY <1>3
  <2>2. /\ k \in Nat /\ k < Len(F)
        /\ DOMAIN acc(k).left = 1..n /\ Merging(acc(k), k, Rest(L))
    BY <1>1, <1>3, <2>1
  <2>3. acc(k + 1) = Pop(acc(k), F[k + 1])
    BY <1>1, <2>2, Heap!FoldStep
  <2> DEFINE p == acc(k)
  <2> HIDE DEF base, n, acc, B
  <2>4. Live(p.left) # {}
    <3>1. SUFFICES ASSUME Live(p.left) = {} PROVE FALSE
      OBVIOUS
    <3>2. Rest(p.left) = {}
      <4>1. \A i \in DOMAIN p.left : p.left[i] = << >>
        BY <3>1 DEF Live
      <4>2. \A i \in DOMAIN p.left : Range(p.left[i]) = {}
        BY <4>1 DEF Range
      <4>3. ASSUME NEW q \in Rest(p.left) PROVE FALSE
        <5>1. PICK i \in DOMAIN p.left : q \in Range(p.left[i])
          BY DEF Rest
        <5>2. QED
          BY <4>2, <5>1
      <4>4. QED
        BY <4>3
    <3>3. Range(p.out) = Rest(L) /\ p.out \in Seq(Pairs) /\ Sorted(p.out) /\ Len(p.out) = k
      BY <2>2, <3>2 DEF Merging
    <3>4. Cardinality(Rest(L)) = k
      BY <3>3, SortedCounts
    <3>5. QED
      BY <1>1, <2>2, <3>4
  <2>5. DOMAIN Pop(p, F[k + 1]).left = 1..n /\ Merging(Pop(p, F[k + 1]), k + 1, Rest(L))
    BY <1>1, <2>2, <2>4, PopKeeps
  <2>6. QED
    BY <2>3, <2>5
<1>4. B = Nat
  <2>1. B \in SUBSET Nat
    OBVIOUS
  <2> HIDE DEF B
  <2>2. QED
    BY <1>2, <1>3, <2>1, Heap!NatSetInduction
<1>5. acc(Len(F)) = Heap!Fold(base, F)
  BY <1>1, Heap!FoldEnds
<1>6. Merging(acc(Len(F)), Len(F), Rest(L))
  BY <1>1, <1>4
<1>7. acc(Len(F)).out = out
  BY <1>5 DEF F
<1> HIDE DEF acc, base, B
<1>8. /\ out \in Seq(Pairs) /\ Sorted(out) /\ Len(out) = Len(F)
      /\ Range(out) \subseteq Rest(L)
  BY <1>6, <1>7 DEF Merging
<1>9. Cardinality(Range(out)) = Cardinality(Rest(L)) /\ Range(out) \in SUBSET Rest(L)
  BY <1>1, <1>8, SortedCounts
<1>10. Range(out) = Rest(L)
  BY <1>1, <1>9, FS_Subset
<1>11. QED
  BY <1>8, <1>10

\* What merging makes of runs.
Contents(rs) == [i \in DOMAIN rs |-> rs[i].content]
LEMMA MergeSorts ==
    ASSUME NEW rs, NEW n \in Nat, DOMAIN rs = 1..n,
           \A i \in 1..n : rs[i].content \in Seq(Pairs) /\ Sorted(rs[i].content),
           \A i, j \in 1..n : i # j => Range(rs[i].content) \cap Range(rs[j].content) = {}
    PROVE  /\ Merge(rs) \in Seq(Pairs) /\ Sorted(Merge(rs))
           /\ Range(Merge(rs)) = UNION {Range(rs[i].content) : i \in 1..n}
<1> DEFINE L == Contents(rs)
           out == Merge(rs)
<1>1. /\ DOMAIN L = 1..n /\ \A i \in 1..n : L[i] = rs[i].content
  BY DEF Contents
<1>2. out = Heap!Fold([left |-> L, out |-> << >>], FlattenSeq(L)).out
  BY DEF Merge, Contents, Heap!Fold, FoldLeft, Heap!FoldLeft, MapThenFoldSet,
         Heap!MapThenFoldSet, Max, Heap!Max
<1>3. L \in Seq(Seq(Pairs))
  <2>1. L \in [1..n -> Seq(Pairs)]
    BY <1>1 DEF Contents
  <2>2. QED
    BY <2>1
<1> HIDE DEF L, out
<1>4. out \in Seq(Pairs) /\ Sorted(out) /\ Range(out) = Rest(L)
  BY <1>1, <1>2, <1>3, HeapSorts
<1>5. Rest(L) = UNION {Range(rs[i].content) : i \in 1..n}
  BY <1>1 DEF Rest
<1>6. QED
  BY <1>4, <1>5 DEF out
-----------------------------------------------------------------------------
(* Charges *)

Halves == INSTANCE SequenceFolds WITH Op <- Halve

\* A run with any content; what its longest record is does not matter here.
Run == [content : Seq(Records), checksum : Seq(Records), units : Nat,
        longest : {LongestRecord(t) : t \in Seq(Records)}]

\* The sizes and limits are numbers.
LEMMA Numbers ==
    /\ FanIn \in Nat /\ FanIn > 1 /\ MaxArena \in Nat /\ MaxRows \in Nat
    /\ SampleUnits \in Nat /\ MemoryCap \in Nat /\ TempCap \in Nat
    /\ MaxPressure \in Nat /\ SampleUnits <= MemoryCap
BY BoundsAssumption

\* Records are pairs of numbers, and values have lengths.
LEMMA RecordsTyped ==
    ASSUME NEW r \in Records
    PROVE  /\ r \in Pairs /\ r = <<r[1], r[2]>> /\ r[1] \in Values /\ r[2] \in 1..MaxRows
           /\ ValueLength(r[1]) \in Nat /\ Length[r[1]] \in Nat
<1>1. r = <<r[1], r[2]>> /\ r[1] \in Values /\ r[2] \in 1..MaxRows
  BY DEF Records
<1>2. r[1] \in Int /\ r[2] \in Int
  BY <1>1, BoundsAssumption
<1>3. r \in Pairs
  BY <1>1, <1>2 DEF Pairs
<1>4. Length[r[1]] \in Nat
  BY <1>1, BoundsAssumption
<1>5. QED
  BY <1>1, <1>3, <1>4 DEF ValueLength

\* What the records of a segment fill.
LEMMA ArenaType ==
    ASSUME NEW s \in Seq(Records)
    PROVE  ArenaLength(s) \in Nat
<1>1. ArenaLength(s) = IF mode.kind = "bytes" THEN Arena!Fold(0, s) ELSE 0
  BY DEF ArenaLength, Arena!Fold, FoldLeft, Arena!FoldLeft, MapThenFoldSet,
         Arena!MapThenFoldSet, Max, Arena!Max
<1>2. \A n \in Nat, x \in Records : AddLength(n, x) \in Nat
  BY RecordsTyped DEF AddLength
<1>3. Arena!Fold(0, s) \in Nat
  BY <1>2, Arena!FoldKeeps
<1>4. QED
  BY <1>1, <1>3

\* The arena that records fill grows with each.
LEMMA ArenaGrows ==
    ASSUME NEW s \in Seq(Records), NEW r \in Records
    PROVE  /\ ArenaLength(<< >>) = 0
           /\ ArenaLength(Append(s, r)) = ArenaLength(s) + ValueLength(r[1])
<1> DEFINE F(t) == Arena!Fold(0, t)
<1>1. \A t : ArenaLength(t) = IF mode.kind = "bytes" THEN F(t) ELSE 0
  BY DEF ArenaLength, Arena!Fold, FoldLeft, Arena!FoldLeft, MapThenFoldSet,
         Arena!MapThenFoldSet, Max, Arena!Max
<1>4. F(<< >>) = 0
  BY Arena!FoldEmpty
<1>5. F(Append(s, r)) = F(s) + Length[r[1]]
  <2>1. F(Append(s, r)) = AddLength(F(s), r)
    BY Arena!FoldAppend
  <2>2. QED
    BY <2>1 DEF AddLength
<1> HIDE DEF F
<1>6. 0 + 0 = 0
  OBVIOUS
<1>7. QED
  BY <1>1, <1>4, <1>5, <1>6 DEF ValueLength

\* A run that was just written.
LEMMA NewRunTyped ==
    ASSUME NEW s \in Seq(Records)
    PROVE  /\ NewRun(s) \in Run /\ NewRun(s).content = s /\ NewRun(s).checksum = s
           /\ Verified(NewRun(s)) /\ NewRun(s).units \in Nat
<1>1. Header + Len(s) + ArenaLength(s) \in Nat
  <2>1. ArenaLength(s) \in Nat
    BY ArenaType
  <2>2. QED
    BY <2>1, BoundsAssumption
<1>2. LongestRecord(s) \in {LongestRecord(t) : t \in Seq(Records)}
  OBVIOUS
<1>3. QED
  BY <1>1, <1>2 DEF NewRun, Run, Verified

\* The temporary storage of a sequence of runs.
LEMMA TempGrows ==
    ASSUME NEW rs \in Seq(Run), NEW r \in Run
    PROVE  /\ TempUsed(rs) \in Nat /\ TempUsed(<< >>) = 0
           /\ TempUsed(Append(rs, r)) = TempUsed(rs) + r.units
<1> DEFINE F(t) == Temp!Fold(0, t)
<1>1. \A t : TempUsed(t) = F(t)
  BY DEF TempUsed, Temp!Fold, FoldLeft, Temp!FoldLeft, MapThenFoldSet,
         Temp!MapThenFoldSet, Max, Temp!Max
<1>2. \A n \in Nat, x \in Run : AddUnits(n, x) \in Nat
  BY DEF AddUnits, Run
<1>3. F(rs) \in Nat
  BY <1>2, Temp!FoldKeeps
<1>4. F(<< >>) = 0
  BY Temp!FoldEmpty
<1>5. F(Append(rs, r)) = F(rs) + r.units
  <2>1. F(Append(rs, r)) = AddUnits(F(rs), r)
    BY Temp!FoldAppend
  <2>2. QED
    BY <2>1 DEF AddUnits
<1> HIDE DEF F
<1>6. QED
  BY <1>1, <1>3, <1>4, <1>5

\* Runs in front of others are replaced by one.
LEMMA TempReplaced ==
    ASSUME NEW rs \in Seq(Run), NEW m \in 0..Len(rs), NEW r \in Run
    PROVE  TempUsed(<<r>> \o SubSeq(rs, m + 1, Len(rs))) <= TempUsed(rs) + r.units
<1> DEFINE F(b, t) == Temp!Fold(b, t)
           first == SubSeq(rs, 1, m)
           rest == SubSeq(rs, m + 1, Len(rs))
           none == << >>
           one == Append(none, r)
<1>1. \A t : TempUsed(t) = F(0, t)
  BY DEF TempUsed, Temp!Fold, FoldLeft, Temp!FoldLeft, MapThenFoldSet,
         Temp!MapThenFoldSet, Max, Temp!Max
<1>2. \A n \in Nat, x \in Run : AddUnits(n, x) \in Nat /\ AddUnits(n, x) = n + x.units
                               /\ x.units \in Nat
  BY DEF AddUnits, Run
<1>3. /\ first \in Seq(Run) /\ rest \in Seq(Run) /\ one \in Seq(Run)
      /\ rs = first \o rest /\ none \in Seq(Run) /\ one = <<r>>
  <2>1. first \in Seq(Run) /\ rest \in Seq(Run) /\ one \in Seq(Run) /\ none \in Seq(Run)
        /\ one = <<r>>
    OBVIOUS
  <2>2. Len(rs) \in Nat /\ 1 \in 1..Len(rs) + 1 /\ m \in 1 - 1..Len(rs) /\ Len(rs) \in m..Len(rs)
    OBVIOUS
  <2>3. SubSeq(rs, 1, m) \o SubSeq(rs, m + 1, Len(rs)) = SubSeq(rs, 1, Len(rs))
    BY <2>2, ConcatAdjacentSubSeq
  <2>4. QED
    BY <2>1, <2>3, SubSeqFull
<1> HIDE DEF first, rest, one, none
<1>4. ASSUME NEW a \in Nat PROVE F(a, rest) = a + F(0, rest) /\ F(0, rest) \in Nat
  <2> DEFINE R == {p \in Nat \X Nat : p[1] = a + p[2]}
  <2>1. <<a, 0>> \in R
    OBVIOUS
  <2>2. \A x \in Run : \A u, v : <<u, v>> \in R => <<AddUnits(u, x), AddUnits(v, x)>> \in R
    <3>1. ASSUME NEW x \in Run, NEW u, NEW v, <<u, v>> \in R
          PROVE  <<AddUnits(u, x), AddUnits(v, x)>> \in R
      <4>1. u \in Nat /\ v \in Nat /\ u = a + v
        BY <3>1
      <4>2. AddUnits(u, x) = u + x.units /\ AddUnits(v, x) = v + x.units /\ x.units \in Nat
        BY <1>2, <4>1
      <4>3. QED
        BY <4>1, <4>2
    <3>2. QED
      BY <3>1
  <2>3. <<F(a, rest), F(0, rest)>> \in R
    <3> HIDE DEF R
    <3>1. QED
      BY <1>3, <2>1, <2>2, Temp!FoldsAgree
  <2> HIDE DEF F
  <2>4. QED
    BY <2>3
<1>5. F(0, first) \in Nat
  BY <1>2, <1>3, Temp!FoldKeeps
<1>6. F(0, rs) = F(F(0, first), rest)
  BY ONLY <1>3, Temp!FoldConcat
<1>7. F(0, one \o rest) = F(F(0, one), rest)
  <2>1. one \in Seq(Run) /\ rest \in Seq(Run)
    BY <1>3
  <2>2. QED
    BY ONLY <2>1, Temp!FoldConcat
<1>8. F(0, one) = r.units
  <2>1. F(0, Append(none, r)) = AddUnits(F(0, none), r)
    BY <1>3, Temp!FoldAppend
  <2>2. F(0, none) = 0
    BY Temp!FoldEmpty DEF none
  <2> HIDE DEF F
  <2>3. QED
    BY <1>2, <2>1, <2>2 DEF one
<1> HIDE DEF F
<1>9. F(0, one \o rest) = r.units + F(0, rest) /\ F(0, rest) \in Nat /\ r.units \in Nat
  BY <1>2, <1>4, <1>7, <1>8
<1>10. F(0, rs) = F(0, first) + F(0, rest)
  BY <1>4, <1>5, <1>6
<1>11. QED
  BY <1>1, <1>3, <1>5, <1>9, <1>10 DEF rest

\* Halving makes no size larger.
LEMMA HalvedType ==
    ASSUME NEW n \in Nat, NEW k \in Nat
    PROVE  Halved(n, k) \in 0..n
<1> DEFINE t == [i \in 1..k |-> i]
<1>1. Halved(n, k) = Halves!Fold(n, t)
  BY DEF Halved, Halves!Fold, FoldLeft, Halves!FoldLeft, MapThenFoldSet,
         Halves!MapThenFoldSet, Max, Halves!Max
<1>2. t \in Seq(Nat)
  OBVIOUS
<1>3. n \in 0..n
  OBVIOUS
<1>4. \A m \in 0..n, x \in Nat : Halve(m, x) \in 0..n
  BY DEF Halve
<1> DEFINE R == 0..n
<1> HIDE DEF t
<1>5. Halves!Fold(n, t) \in R
  <2>1. n \in R /\ \A m \in R, x \in Nat : Halve(m, x) \in R
    BY <1>3, <1>4
  <2> HIDE DEF R
  <2>2. QED
    BY <1>2, <2>1, Halves!FoldKeeps
<1>6. QED
  BY <1>1, <1>5
-----------------------------------------------------------------------------
(* The state of an operation *)

Segments == [records : Seq(Records), capacity : Nat, arena : 0..MaxArena]
Errors == {"none", "limit", "io", "corrupt", "cancelled"}
Locals == [segment : Segments, runs : Seq(Run), compactions : Nat, widest : 0..FanIn,
           err : Errors]

\* The records that were written to runs.
Written(rs) == UNION {Range(rs[i].checksum) : i \in DOMAIN rs}

\* The records are inside what was charged for them.
Fits(seg) == Len(seg.records) <= seg.capacity /\ ArenaLength(seg.records) <= seg.arena

\* At most n runs, each sorted and charged, and none without a directory.
Ordered(rs, n) ==
    /\ Len(rs) <= n /\ TempUsed(rs) <= TempCap
    /\ ~mode.directory => rs = << >>
    /\ \A i \in DOMAIN rs : /\ Sorted(rs[i].checksum)
                            /\ rs[i].units = NewRun(rs[i].checksum).units

\* Each record of the column is in the segment or in one run.
Divided(seg, rs, c) ==
    /\ Range(seg.records) \cup Written(rs) = RowsOf(c)
    /\ Range(seg.records) \cap Written(rs) = {}
    /\ \A i, j \in DOMAIN rs : i # j => Range(rs[i].checksum) \cap Range(rs[j].checksum) = {}

\* What holds between the steps of an operation, with at most n runs.
Held(s, c, n) ==
    /\ Fits(s.segment)
    /\ Ordered(s.runs, n)
    /\ Divided(s.segment, s.runs, c)
    /\ MemoryFits(s, 0)

\* Some run was damaged.
Damaged(rs) == \E i \in DOMAIN rs : ~Verified(rs[i])

\* A value that no cursor accepts.
TooLong(c) == \E i \in DOMAIN c : ValueLength(c[i]) > MaxRecord

\* What ends an operation changes only the error.
LEMMA Failed ==
    ASSUME NEW s \in Locals, NEW e \in Errors
    PROVE  /\ Fail(s, e) \in Locals /\ Fail(s, e).err = e
           /\ Fail(s, e).runs = s.runs /\ Fail(s, e).segment = s.segment
BY DEF Locals, Fail

\* Another segment.
LEMMA OtherSegment ==
    ASSUME NEW s \in Locals, NEW seg \in Segments
    PROVE  /\ [s EXCEPT !.segment = seg] \in Locals
           /\ [s EXCEPT !.segment = seg].segment = seg
           /\ [s EXCEPT !.segment = seg].runs = s.runs
           /\ [s EXCEPT !.segment = seg].err = s.err
BY DEF Locals

\* Their types.
LEMMA LocalTypes ==
    ASSUME NEW s \in Locals
    PROVE  /\ s.segment \in Segments /\ s.segment.records \in Seq(Records)
           /\ s.segment.capacity \in Nat /\ s.segment.arena \in 0..MaxArena
           /\ s.runs \in Seq(Run) /\ s.compactions \in Nat /\ s.widest \in 0..FanIn
           /\ s.err \in Errors /\ Len(s.segment.records) \in Nat
           /\ Charge(s.segment) \in Nat
<1> DEFINE seg == s.segment
<1>1. /\ seg \in Segments /\ s.runs \in Seq(Run) /\ s.compactions \in Nat
      /\ s.widest \in 0..FanIn /\ s.err \in Errors
  BY DEF Locals
<1> HIDE DEF seg
<1>2. /\ seg.records \in Seq(Records) /\ seg.capacity \in Nat /\ seg.arena \in 0..MaxArena
  BY <1>1 DEF Segments
<1>3. Len(seg.records) \in Nat
  BY <1>2
<1>4. Charge(seg) \in Nat
  BY <1>2, Numbers DEF Charge
<1>5. QED
  BY <1>1, <1>2, <1>3, <1>4 DEF seg

\* No segment has no charge.
LEMMA NoSegmentFits ==
    /\ NoSegment \in Segments /\ Fits(NoSegment) /\ Charge(NoSegment) = 0
    /\ Range(NoSegment.records) = {} /\ NoSegment.capacity = 0
<1>1. MaxArena \in Nat
  BY Numbers
<1>2. << >> \in Seq(Records) /\ 0 \in 0..MaxArena /\ Len(<< >>) = 0
  BY <1>1
<1>3. /\ NoSegment.records = << >> /\ NoSegment.capacity = 0 /\ NoSegment.arena = 0
      /\ NoSegment \in Segments
  BY <1>2 DEF NoSegment, Segments
<1>4. ArenaLength(<< >>) = 0
  <2>1. Arena!Fold(0, << >>) = 0
    BY Arena!FoldEmpty
  <2>2. ArenaLength(<< >>) = IF mode.kind = "bytes" THEN Arena!Fold(0, << >>) ELSE 0
    BY DEF ArenaLength, Arena!Fold, FoldLeft, Arena!FoldLeft, MapThenFoldSet,
           Arena!MapThenFoldSet, Max, Arena!Max
  <2>3. QED
    BY <2>1, <2>2
<1>5. Fits(NoSegment)
  BY <1>2, <1>3, <1>4 DEF Fits
<1>6. Range(<< >>) = {}
  BY DEF Range
<1>7. Charge(NoSegment) = 0
  BY <1>3 DEF Charge
<1>8. QED
  BY <1>3, <1>5, <1>6, <1>7

\* Memory is enough for a segment and enough without it.
LEMMA MemoryWithout ==
    ASSUME NEW s \in Locals, pressure \in Nat, MemoryFits(s, 0),
           NEW t \in Locals, t.segment = NoSegment
    PROVE  MemoryFits(t, 0)
<1>1. Charge(s.segment) \in Nat /\ SampleUnits \in Nat /\ MemoryCap \in Nat
  BY LocalTypes, Numbers
<1>2. SampleUnits + pressure + Charge(s.segment) + 0 <= MemoryCap
  BY DEF MemoryFits
<1>3. SampleUnits + pressure + 0 + 0 <= MemoryCap
  BY <1>1, <1>2
<1>4. QED
  BY <1>3, NoSegmentFits DEF MemoryFits

\* One more run.
LEMMA WrittenAppend ==
    ASSUME NEW rs \in Seq(Run), NEW r \in Run
    PROVE  /\ Append(rs, r) \in Seq(Run) /\ Len(Append(rs, r)) = Len(rs) + 1
           /\ DOMAIN Append(rs, r) = 1..Len(rs) + 1 /\ DOMAIN rs = 1..Len(rs)
           /\ Len(rs) \in Nat
           /\ \A i \in DOMAIN rs : Append(rs, r)[i] = rs[i]
           /\ Append(rs, r)[Len(rs) + 1] = r
           /\ Written(Append(rs, r)) = Written(rs) \cup Range(r.checksum)
<1> DEFINE u == Append(rs, r)
<1>1. /\ u \in Seq(Run) /\ Len(u) = Len(rs) + 1 /\ DOMAIN u = 1..Len(rs) + 1
      /\ DOMAIN rs = 1..Len(rs) /\ Len(rs) \in Nat
      /\ \A i \in DOMAIN rs : u[i] = rs[i]
      /\ u[Len(rs) + 1] = r
  OBVIOUS
<1> HIDE DEF u
<1>2. DOMAIN u = DOMAIN rs \cup {Len(rs) + 1}
  BY <1>1
<1>3. ASSUME NEW x \in Written(u) PROVE x \in Written(rs) \cup Range(r.checksum)
  <2>1. PICK i \in DOMAIN u : x \in Range(u[i].checksum)
    BY DEF Written
  <2>2. CASE i \in DOMAIN rs
    <3>1. x \in Range(rs[i].checksum)
      BY <1>1, <2>1, <2>2
    <3>2. QED
      BY <2>2, <3>1 DEF Written
  <2>3. CASE i = Len(rs) + 1
    BY <1>1, <2>1, <2>3
  <2>4. QED
    BY <1>2, <2>2, <2>3
<1>4. ASSUME NEW x \in Written(rs) PROVE x \in Written(u)
  <2>1. PICK i \in DOMAIN rs : x \in Range(rs[i].checksum)
    BY DEF Written
  <2>2. i \in DOMAIN u /\ x \in Range(u[i].checksum)
    BY <1>1, <1>2, <2>1
  <2>3. QED
    BY <2>2 DEF Written
<1>5. ASSUME NEW x \in Range(r.checksum) PROVE x \in Written(u)
  <2>1. Len(rs) + 1 \in DOMAIN u /\ x \in Range(u[Len(rs) + 1].checksum)
    BY <1>1, <1>2
  <2>2. QED
    BY <2>1 DEF Written
<1>6. Written(u) = Written(rs) \cup Range(r.checksum)
  BY <1>3, <1>4, <1>5
<1>7. QED
  BY <1>1, <1>6 DEF u

\* Records of a column sorted make a run.
LEMMA SortedRun ==
    ASSUME NEW c \in Seq(Values), NEW t \in Seq(Records), Range(t) \subseteq RowsOf(c)
    PROVE  /\ InOrder(Range(t)) \in Seq(Records) /\ Sorted(InOrder(Range(t)))
           /\ Range(InOrder(Range(t))) = Range(t)
<1> DEFINE S == Range(t)
<1>1. S \subseteq Records
  BY DEF Range
<1>2. IsFiniteSet(S) /\ S \subseteq Pairs
  BY ValuesCounted, RowsTyped, FS_Subset
<1> HIDE DEF S
<1>3. InOrder(S) \in Seq(S) /\ Range(InOrder(S)) = S /\ Sorted(InOrder(S))
  BY <1>2, InOrderSorts
<1>4. InOrder(S) \in Seq(Records)
  BY <1>1, <1>3
<1>5. QED
  BY <1>3, <1>4 DEF S

\* Spilling moves the records of the segment to a run.
LEMMA SpillKeeps ==
    ASSUME mode \in Modes, pressure \in Nat, NEW c \in Seq(Values), NEW n \in Nat,
           NEW s \in Locals, Ok(s), Held(s, c, n)
    PROVE  /\ Spill(s) \in Locals /\ Spill(s).err # "corrupt"
           /\ Ok(Spill(s)) => /\ Held(Spill(s), c, n + 1) /\ Spill(s).segment = NoSegment
                              /\ Damaged(Spill(s).runs) => Damaged(s.runs)
<1> DEFINE t == s.segment.records
           run == NewRun(InOrder(Range(t)))
           rs == s.runs
<1>1. /\ s.err = "none" /\ s.segment \in Segments /\ t \in Seq(Records) /\ rs \in Seq(Run)
      /\ NoSegment \in Segments /\ Len(rs) \in Nat
  BY LocalTypes, NoSegmentFits DEF Ok
<1>2. Range(t) \subseteq RowsOf(c)
  BY DEF Held, Divided
<1>3. /\ InOrder(Range(t)) \in Seq(Records) /\ Sorted(InOrder(Range(t)))
      /\ Range(InOrder(Range(t))) = Range(t)
  BY <1>1, <1>2, SortedRun
<1>4. /\ run \in Run /\ Verified(run) /\ run.checksum = InOrder(Range(t))
      /\ run.content = run.checksum
  BY <1>3, NewRunTyped
<1>5. /\ Ordered(rs, n) /\ Divided(s.segment, rs, c) /\ MemoryFits(s, 0)
  BY DEF Held
<1>6. CASE t = << >> /\ mode.directory
  <2> DEFINE a == [s EXCEPT !.segment = NoSegment]
  <2>1. Spill(s) = a
    BY <1>6 DEF Spill
  <2>2. a \in Locals /\ a.segment = NoSegment /\ a.runs = rs /\ a.err = "none"
    BY <1>1, OtherSegment
  <2> HIDE DEF a, rs
  <2>3. Ordered(a.runs, n + 1)
    BY <1>1, <1>5, <2>2 DEF Ordered
  <2>4. Range(t) = {}
    BY <1>6 DEF Range
  <2>5. Divided(a.segment, a.runs, c)
    BY <1>5, <2>2, <2>4, NoSegmentFits DEF Divided
  <2>6. Fits(a.segment) /\ MemoryFits(a, 0)
    BY <1>5, <2>2, NoSegmentFits, MemoryWithout
  <2>7. Held(a, c, n + 1)
    BY <2>3, <2>5, <2>6 DEF Held
  <2>8. QED
    BY <2>1, <2>2, <2>7 DEF rs
<1>7. CASE /\ mode.directory /\ t # << >> /\ TempFits(s, run.units) /\ disk = "writable"
  <2> DEFINE u == Append(rs, run)
             a == [s EXCEPT !.segment = NoSegment, !.runs = u]
  <2>1. Spill(s) = a
    BY <1>7 DEF Spill
  <2>2. u \in Seq(Run)
    BY <1>1, <1>4, WrittenAppend
  <2> HIDE DEF u
  <2>3. a \in Locals /\ a.segment = NoSegment /\ a.runs = u /\ a.err = "none"
    <3>1. a = [s EXCEPT !.segment = NoSegment, !.runs = u]
      OBVIOUS
    <3> HIDE DEF a
    <3>2. QED
      BY <1>1, <2>2, <3>1 DEF Locals
  <2>4. /\ TempUsed(Append(rs, run)) = TempUsed(rs) + run.units
        /\ TempUsed(rs) + run.units <= TempCap
    BY <1>1, <1>4, <1>7, TempGrows DEF TempFits
  <2>5. /\ Len(u) = Len(rs) + 1 /\ DOMAIN u = 1..Len(rs) + 1 /\ DOMAIN rs = 1..Len(rs)
        /\ \A i \in DOMAIN rs : u[i] = rs[i]
        /\ u[Len(rs) + 1] = run
        /\ Written(u) = Written(rs) \cup Range(run.checksum)
    BY <1>1, <1>4, WrittenAppend DEF u
  <2>6. run.units = NewRun(run.checksum).units
    BY <1>4
  <2> HIDE DEF a, rs, run, u, t
  <2>7. a.runs = u
    BY <2>3
  <2>8. Ordered(u, n + 1)
    <3>1. Len(u) <= n + 1
      BY <1>1, <1>5, <2>5 DEF Ordered
    <3>2. TempUsed(u) <= TempCap
      BY <2>4 DEF u
    <3>3. ASSUME NEW i \in DOMAIN u
          PROVE  Sorted(u[i].checksum) /\ u[i].units = NewRun(u[i].checksum).units
      <4>1. CASE i = Len(rs) + 1
        BY <1>3, <1>4, <2>5, <2>6, <4>1
      <4>2. CASE i \in DOMAIN rs
        BY <1>5, <2>5, <4>2 DEF Ordered
      <4>3. QED
        BY <1>1, <2>5, <4>1, <4>2
    <3>4. QED
      BY <1>7, <3>1, <3>2, <3>3 DEF Ordered
  <2>9. Range(run.checksum) = Range(t) /\ Range(t) = Range(s.segment.records)
    BY <1>3, <1>4 DEF t
  <2>10. Divided(NoSegment, u, c)
    <3>1. Written(u) = RowsOf(c)
      BY <1>5, <2>5, <2>9 DEF Divided
    <3>2. \A i \in DOMAIN rs : Range(rs[i].checksum) \cap Range(run.checksum) = {}
      BY <1>5, <2>9 DEF Divided, Written
    <3>3. ASSUME NEW i \in DOMAIN u, NEW j \in DOMAIN u, i # j
          PROVE  Range(u[i].checksum) \cap Range(u[j].checksum) = {}
      <4>1. CASE i = Len(rs) + 1
        <5>1. j \in DOMAIN rs
          BY <1>1, <2>5, <3>3, <4>1
        <5>2. QED
          BY <2>5, <3>2, <4>1, <5>1
      <4>2. CASE j = Len(rs) + 1
        <5>1. i \in DOMAIN rs
          BY <1>1, <2>5, <3>3, <4>2
        <5>2. QED
          BY <2>5, <3>2, <4>2, <5>1
      <4>3. CASE i \in DOMAIN rs /\ j \in DOMAIN rs
        BY <1>5, <2>5, <3>3, <4>3 DEF Divided
      <4>4. QED
        BY <1>1, <2>5, <4>1, <4>2, <4>3
    <3>4. QED
      BY <3>1, <3>3, NoSegmentFits DEF Divided
  <2>11. Fits(a.segment) /\ MemoryFits(a, 0)
    BY <1>5, <2>3, NoSegmentFits, MemoryWithout
  <2>12. Held(a, c, n + 1)
    BY <2>3, <2>7, <2>8, <2>10, <2>11 DEF Held
  <2>13. ASSUME Damaged(u) PROVE Damaged(rs)
    <3>1. PICK i \in DOMAIN u : ~Verified(u[i])
      BY <2>13 DEF Damaged
    <3>2. i # Len(rs) + 1
      BY <1>4, <2>5, <3>1
    <3>3. i \in DOMAIN rs /\ ~Verified(rs[i])
      BY <1>1, <2>5, <3>1, <3>2
    <3>4. QED
      BY <3>3 DEF Damaged
  <2>14. QED
    BY <2>1, <2>3, <2>7, <2>12, <2>13 DEF rs
<1>8. CASE \/ ~mode.directory
           \/ t # << >> /\ ~TempFits(s, run.units)
           \/ t # << >> /\ disk # "writable"
  <2>1. Spill(s) = Fail(s, "limit") \/ Spill(s) = Fail(s, "io")
    BY <1>8 DEF Spill
  <2>2. "limit" \in Errors /\ "io" \in Errors
    BY DEF Errors
  <2>3. Spill(s) \in Locals /\ (Spill(s).err = "limit" \/ Spill(s).err = "io")
    BY <1>1, <2>1, <2>2, Failed
  <2>4. QED
    BY <2>3 DEF Ok
<1> HIDE DEF t, run, rs
<1>9. mode.directory \in BOOLEAN
  BY BoundsAssumption
<1>10. CASE ~mode.directory
  BY <1>8, <1>10
<1>11. CASE mode.directory
  BY <1>6, <1>7, <1>8, <1>11
<1>12. QED
  BY <1>10, <1>11

\* Sound runs merge into the records that were written to them.
LEMMA Merged ==
    ASSUME NEW rs \in Seq(Run), \A i \in DOMAIN rs : Sorted(rs[i].checksum) /\ Verified(rs[i]),
           \A i, j \in DOMAIN rs : i # j => Range(rs[i].checksum) \cap Range(rs[j].checksum) = {}
    PROVE  /\ Merge(rs) \in Seq(Records) /\ Sorted(Merge(rs)) /\ Range(Merge(rs)) = Written(rs)
<1> DEFINE n == Len(rs)
           m == Merge(rs)
<1>1. /\ n \in Nat /\ DOMAIN rs = 1..n
      /\ \A i \in 1..n : rs[i] \in Run
  OBVIOUS
<1>2. \A i \in 1..n : rs[i].content \in Seq(Records) /\ rs[i].content = rs[i].checksum
  BY <1>1 DEF Run, Verified
<1>3. \A i \in 1..n : rs[i].content \in Seq(Pairs) /\ Sorted(rs[i].content)
  <2>1. Records \subseteq Pairs
    BY RecordsTyped
  <2>2. \A t \in Seq(Records) : t \in Seq(Pairs)
    BY <2>1
  <2>3. QED
    BY <1>1, <1>2, <2>2
<1>4. \A i, j \in 1..n : i # j => Range(rs[i].content) \cap Range(rs[j].content) = {}
  BY <1>1, <1>2
<1> HIDE DEF n, m
<1>5. /\ m \in Seq(Pairs) /\ Sorted(m)
      /\ Range(m) = UNION {Range(rs[i].content) : i \in 1..n}
  BY <1>1, <1>3, <1>4, MergeSorts DEF m
<1>6. Range(m) = Written(rs)
  <2>1. ASSUME NEW x \in Range(m) PROVE x \in Written(rs)
    <3>1. PICK i \in 1..n : x \in Range(rs[i].content)
      BY <1>5
    <3>2. QED
      BY <1>1, <1>2, <3>1 DEF Written
  <2>2. ASSUME NEW x \in Written(rs) PROVE x \in Range(m)
    <3>1. PICK i \in 1..n : x \in Range(rs[i].checksum)
      BY <1>1 DEF Written
    <3>2. QED
      BY <1>2, <1>5, <3>1
  <2>3. QED
    BY <2>1, <2>2
<1>7. Range(m) \subseteq Records
  <2>1. ASSUME NEW x \in Range(m) PROVE x \in Records
    <3>1. PICK i \in 1..n : x \in Range(rs[i].content)
      BY <1>5
    <3>2. QED
      BY <1>2, <3>1 DEF Range
  <2>2. QED
    BY <2>1
<1>8. m \in Seq(Records)
  <2>1. \A i \in 1..Len(m) : m[i] \in Records
    BY <1>5, <1>7 DEF Range
  <2>2. m = [i \in 1..Len(m) |-> m[i]] /\ Len(m) \in Nat
    BY <1>5
  <2>3. QED
    BY <2>1, <2>2
<1>9. QED
  BY <1>5, <1>6, <1>8 DEF m

\* What a sound run is refused for is a value of the column.
LEMMA RefusedIsTooLong ==
    ASSUME NEW c \in Seq(Values), NEW rs \in Seq(Run), Written(rs) \subseteq RowsOf(c),
           NEW i \in DOMAIN rs, Verified(rs[i]), ~Readable(rs[i])
    PROVE  TooLong(c)
<1>1. rs[i] \in Run
  OBVIOUS
<1>2. rs[i].content \in Seq(Records) /\ rs[i].content = rs[i].checksum
  BY <1>1 DEF Run, Verified
<1>3. PICK k \in DOMAIN rs[i].content : ~(ValueLength(rs[i].content[k][1]) <= MaxRecord)
  BY DEF Readable
<1> DEFINE r == rs[i].content[k]
<1>4. r \in Range(rs[i].checksum) /\ r \in Records
  BY <1>2, <1>3 DEF Range
<1>5. r \in RowsOf(c)
  BY <1>4 DEF Written
<1> HIDE DEF r
<1>6. PICK j \in DOMAIN c : r = <<c[j], j>>
  BY <1>5 DEF RowsOf
<1>7. ValueLength(r[1]) \in Nat /\ MaxRecord \in Nat
  BY <1>4, RecordsTyped, BoundsAssumption
<1>8. ValueLength(r[1]) > MaxRecord
  BY <1>3, <1>7 DEF r
<1>9. r[1] = c[j]
  BY <1>6
<1>10. ValueLength(c[j]) > MaxRecord
  BY <1>8, <1>9
<1>11. QED
  BY <1>10 DEF TooLong

\* One run takes the place of the first of several.
LEMMA WrittenReplaced ==
    ASSUME NEW rs \in Seq(Run), NEW m \in 1..Len(rs), NEW r \in Run,
           Range(r.checksum) = Written(SubSeq(rs, 1, m)),
           NEW u, DOMAIN u = 1..Len(rs) - m + 1, u[1] = r,
           \A i \in DOMAIN u : i # 1 => u[i] = rs[m + i - 1]
    PROVE  Written(u) = Written(rs)
<1> DEFINE first == SubSeq(rs, 1, m)
<1>1. /\ Len(rs) \in Nat /\ m \in Nat /\ DOMAIN rs = 1..Len(rs)
      /\ \A i \in DOMAIN u : i # 1 => m + i - 1 \in DOMAIN rs /\ u[i] = rs[m + i - 1]
  OBVIOUS
<1>2. DOMAIN first = 1..m /\ \A i \in 1..m : i \in DOMAIN rs /\ first[i] = rs[i]
  OBVIOUS
<1> HIDE DEF first
<1>3. Range(r.checksum) = Written(first)
  BY DEF first
<1>4. ASSUME NEW x \in Written(u) PROVE x \in Written(rs)
  <2>1. PICK i \in DOMAIN u : x \in Range(u[i].checksum)
    BY DEF Written
  <2>2. CASE i = 1
    <3>1. PICK j \in 1..m : x \in Range(first[j].checksum)
      BY <1>1, <1>2, <1>3, <2>1, <2>2 DEF Written
    <3>2. QED
      BY <1>2, <3>1 DEF Written
  <2>3. CASE i # 1
    BY <1>1, <2>1, <2>3 DEF Written
  <2>4. QED
    BY <2>2, <2>3
<1>5. ASSUME NEW x \in Written(rs) PROVE x \in Written(u)
  <2>1. PICK i \in DOMAIN rs : x \in Range(rs[i].checksum)
    BY DEF Written
  <2>2. CASE i \in 1..m
    <3>1. x \in Range(r.checksum)
      BY <1>2, <1>3, <2>1, <2>2 DEF Written
    <3>2. 1 \in DOMAIN u
      BY <1>1
    <3>3. QED
      BY <1>1, <3>1, <3>2 DEF Written
  <2>3. CASE i > m
    <3>1. i - m + 1 \in DOMAIN u /\ i - m + 1 # 1 /\ m + (i - m + 1) - 1 = i
      BY <1>1, <2>3
    <3>2. u[i - m + 1] = rs[i]
      BY <1>1, <3>1
    <3>3. QED
      BY <2>1, <3>1, <3>2 DEF Written
  <2>4. QED
    BY <1>1, <2>2, <2>3
<1>6. QED
  BY <1>1, <1>4, <1>5

\* Compaction leaves at most FanIn runs, and finds corrupt data only in damaged runs
\* or where no cursor accepts a value.
LEMMA CompactKeeps ==
    ASSUME mode \in Modes, pressure \in Nat, NEW c \in Seq(Values),
           NEW s \in Locals, Ok(s), Held(s, c, FanIn + 1)
    PROVE  /\ Compact(s) \in Locals
           /\ Ok(Compact(s)) => /\ Held(Compact(s), c, FanIn)
                                /\ Compact(s).segment = s.segment
                                /\ Damaged(Compact(s).runs) => Damaged(s.runs)
           /\ Compact(s).err = "corrupt" => Damaged(s.runs) \/ TooLong(c)
<1> DEFINE rs == s.runs
           inputs == SubSeq(rs, 1, FanIn)
           run == NewRun(Merge(inputs))
           u == <<run>> \o SubSeq(rs, FanIn + 1, Len(rs))
           a == [s EXCEPT !.runs = <<run>> \o SubSeq(@, FanIn + 1, Len(@)),
                          !.compactions = @ + 1,
                          !.widest = Max({@, FanIn})]
<1>1. /\ s.err = "none" /\ s.segment \in Segments /\ rs \in Seq(Run) /\ Len(rs) \in Nat
      /\ s.compactions \in Nat /\ s.widest \in 0..FanIn /\ FanIn \in Nat /\ FanIn > 1
  BY LocalTypes, Numbers DEF Ok
<1>2. /\ Fits(s.segment) /\ Ordered(rs, FanIn + 1) /\ Divided(s.segment, rs, c)
      /\ MemoryFits(s, 0)
  BY DEF Held
<1>3. CASE Len(rs) <= FanIn
  <2>1. Compact(s) = s
    BY <1>3 DEF Compact
  <2>2. Ordered(rs, FanIn)
    BY <1>2, <1>3 DEF Ordered
  <2>3. Held(s, c, FanIn)
    BY <1>2, <2>2 DEF Held
  <2>4. QED
    BY <1>1, <2>1, <2>3
<1> DEFINE sound == \A i \in 1..FanIn : Verified(inputs[i])
           readable == \A i \in 1..FanIn : Readable(inputs[i])
<1>4. ASSUME Len(rs) > FanIn, NEW i \in 1..FanIn
      PROVE  i \in DOMAIN rs /\ inputs[i] = rs[i]
  BY <1>1, <1>4
<1>5. CASE /\ Len(rs) > FanIn /\ sound /\ readable
           /\ TempFits(s, run.units) /\ Compact(s) = a
  <2>1. FanIn \in 1..Len(rs) /\ inputs \in Seq(Run) /\ DOMAIN inputs = 1..FanIn
    BY <1>1, <1>5
  <2>2. /\ \A i \in DOMAIN inputs : Sorted(inputs[i].checksum) /\ Verified(inputs[i])
        /\ \A i, j \in DOMAIN inputs :
             i # j => Range(inputs[i].checksum) \cap Range(inputs[j].checksum) = {}
    <3>1. \A i \in 1..FanIn : i \in DOMAIN rs /\ inputs[i] = rs[i]
      BY <1>4, <1>5
    <3> HIDE DEF inputs, rs, run, u, a
    <3>2. QED
      BY <1>2, <1>5, <2>1, <3>1 DEF Ordered, Divided
  <2>3. /\ Merge(inputs) \in Seq(Records) /\ Sorted(Merge(inputs))
        /\ Range(Merge(inputs)) = Written(inputs)
    <3> HIDE DEF inputs
    <3>1. QED
      BY <2>1, <2>2, Merged
  <2>4. /\ run \in Run /\ run.checksum = Merge(inputs) /\ run.units \in Nat
        /\ run.units = NewRun(run.checksum).units
    <3> HIDE DEF inputs
    <3>1. QED
      BY <2>3, NewRunTyped
  <2> HIDE DEF run
  <2>5. /\ u \in Seq(Run) /\ Len(u) = Len(rs) - FanIn + 1 /\ DOMAIN u = 1..Len(rs) - FanIn + 1
        /\ u[1] = run
        /\ \A i \in DOMAIN u : i # 1 => FanIn + i - 1 \in DOMAIN rs /\ u[i] = rs[FanIn + i - 1]
        /\ Written(u) = Written(rs)
    <3>1. Range(run.checksum) = Written(SubSeq(rs, 1, FanIn))
      BY <2>3, <2>4
    <3>2. /\ u \in Seq(Run) /\ Len(u) = Len(rs) - FanIn + 1 /\ DOMAIN u = 1..Len(rs) - FanIn + 1
          /\ u[1] = run
          /\ \A i \in DOMAIN u : i # 1 => FanIn + i - 1 \in DOMAIN rs /\ u[i] = rs[FanIn + i - 1]
      <4> DEFINE rest == SubSeq(rs, FanIn + 1, Len(rs))
      <4>1. /\ rest \in Seq(Run) /\ Len(rest) = Len(rs) - FanIn
            /\ \A i \in 1..Len(rest) : FanIn + i \in DOMAIN rs /\ rest[i] = rs[FanIn + i]
        <5>1. /\ rs \in Seq(Run) /\ Len(rs) \in Nat /\ FanIn \in Nat /\ FanIn < Len(rs)
              /\ DOMAIN rs = 1..Len(rs)
          BY <1>1, <1>5
        <5>2. rest \in Seq(Run) /\ Len(rest) = Len(rs) - FanIn
          BY <5>1
        <5>3. \A i \in 1..Len(rest) : FanIn + i \in DOMAIN rs
          BY <5>1, <5>2
        <5>4. \A i \in 1..Len(rest) : rest[i] = rs[FanIn + i]
          BY <5>1, <5>2
        <5>5. QED
          BY <5>2, <5>3, <5>4
      <4>2. u = <<run>> \o rest
        OBVIOUS
      <4> HIDE DEF rest, rs, u
      <4>3. /\ u \in Seq(Run) /\ Len(u) = Len(rest) + 1 /\ DOMAIN u = 1..Len(rest) + 1
            /\ u[1] = run
            /\ \A i \in DOMAIN u : i # 1 => i - 1 \in 1..Len(rest) /\ u[i] = rest[i - 1]
        BY <2>4, <4>1, <4>2
      <4>4. \A i \in DOMAIN u : i \in Int /\ FanIn + (i - 1) = FanIn + i - 1
        BY <1>1, <4>1, <4>3
      <4>5. QED
        BY <1>1, <4>1, <4>3, <4>4
    <3> HIDE DEF u, rs
    <3>3. Written(u) = Written(rs)
      BY <1>1, <2>1, <2>4, <3>1, <3>2, WrittenReplaced
    <3>4. QED
      BY <3>2, <3>3
  <2>6. TempUsed(u) <= TempCap
    <3>1. TempUsed(u) <= TempUsed(rs) + run.units
      BY <1>1, <2>1, <2>4, TempReplaced
    <3>2. TempUsed(rs) + run.units <= TempCap
      BY <1>5 DEF TempFits
    <3>3. TempUsed(rs) \in Nat /\ TempUsed(u) \in Nat /\ TempCap \in Nat
      BY <1>1, <2>4, <2>5, TempGrows, Numbers
    <3> HIDE DEF u, rs
    <3>4. QED
      BY <2>4, <3>1, <3>2, <3>3
  <2>7. /\ a \in Locals /\ a.runs = u /\ a.segment = s.segment /\ a.err = "none"
    <3>1. /\ Max({s.widest, FanIn}) = IF s.widest >= FanIn THEN s.widest ELSE FanIn
          /\ s.compactions + 1 \in Nat
      BY <1>1, MaxOfTwo
    <3>2. Max({s.widest, FanIn}) \in 0..FanIn
      BY <1>1, <3>1
    <3> DEFINE m == Max({s.widest, FanIn})
               k == s.compactions + 1
    <3>3. a = [s EXCEPT !.runs = u, !.compactions = k, !.widest = m]
      OBVIOUS
    <3>4. m \in 0..FanIn /\ k \in Nat
      BY <3>1, <3>2
    <3> HIDE DEF a, u, m, k, rs
    <3>5. QED
      BY <1>1, <2>5, <3>3, <3>4 DEF Locals
  <2> HIDE DEF a, u, rs, inputs
  <2>8. Ordered(u, FanIn)
    <3>1. Len(u) <= FanIn
      BY <1>1, <1>2, <2>5 DEF Ordered
    <3>2. mode.directory
      <4>1. mode.directory \in BOOLEAN
        BY BoundsAssumption
      <4>2. rs # << >>
        BY <1>1, <1>5
      <4>3. QED
        BY <1>2, <4>1, <4>2 DEF Ordered
    <3>3. ASSUME NEW i \in DOMAIN u
          PROVE  Sorted(u[i].checksum) /\ u[i].units = NewRun(u[i].checksum).units
      <4>1. CASE i = 1
        BY <2>3, <2>4, <2>5, <4>1
      <4>2. CASE i # 1
        BY <1>2, <2>5, <4>2 DEF Ordered
      <4>3. QED
        BY <4>1, <4>2
    <3>4. QED
      BY <2>6, <3>1, <3>2, <3>3 DEF Ordered
  <2>9. Divided(s.segment, u, c)
    <3>1. \A i \in 1..FanIn : i \in DOMAIN rs /\ inputs[i] = rs[i]
      BY <1>4, <1>5 DEF rs, inputs
    <3>2. ASSUME NEW i \in DOMAIN u, i # 1
          PROVE  Range(u[i].checksum) \cap Range(run.checksum) = {}
      <4>1. SUFFICES ASSUME NEW x \in Range(u[i].checksum), x \in Range(run.checksum) PROVE FALSE
        OBVIOUS
      <4>2. x \in Written(inputs)
        BY <2>3, <2>4, <4>1
      <4>3. PICK j \in 1..FanIn : x \in Range(inputs[j].checksum)
        BY <2>1, <4>2 DEF Written
      <4>4. j \in DOMAIN rs /\ x \in Range(rs[j].checksum)
        BY <3>1, <4>3
      <4>5. /\ FanIn + i - 1 \in DOMAIN rs /\ x \in Range(rs[FanIn + i - 1].checksum)
            /\ FanIn + i - 1 # j
        BY <1>1, <2>5, <3>2, <4>1, <4>3
      <4>6. QED
        BY <1>2, <4>4, <4>5 DEF Divided
    <3>3. ASSUME NEW i \in DOMAIN u, NEW j \in DOMAIN u, i # j
          PROVE  Range(u[i].checksum) \cap Range(u[j].checksum) = {}
      <4>1. CASE i = 1
        BY <2>5, <3>2, <3>3, <4>1
      <4>2. CASE j = 1
        BY <2>5, <3>2, <3>3, <4>2
      <4>3. CASE i # 1 /\ j # 1
        <5>1. FanIn + i - 1 # FanIn + j - 1
          BY <1>1, <2>5, <3>3
        <5>2. QED
          BY <1>2, <2>5, <4>3, <5>1 DEF Divided
      <4>4. QED
        BY <4>1, <4>2, <4>3
    <3>4. QED
      BY <1>2, <2>5, <3>3 DEF Divided
  <2>10. MemoryFits(a, 0)
    BY <1>2, <2>7 DEF MemoryFits
  <2>11. Held(a, c, FanIn)
    BY <1>2, <2>7, <2>8, <2>9, <2>10 DEF Held
  <2>12. Compact(s) = a
    BY <1>5 DEF a, u, run, inputs, rs
  <2>13. ASSUME Damaged(u) PROVE Damaged(rs)
    <3>1. PICK i \in DOMAIN u : ~Verified(u[i])
      BY <2>13 DEF Damaged
    <3>2. Verified(run)
      BY <2>3, NewRunTyped DEF run
    <3>3. FanIn + i - 1 \in DOMAIN rs /\ ~Verified(rs[FanIn + i - 1])
      BY <2>5, <3>1, <3>2
    <3>4. QED
      BY <3>3 DEF Damaged
  <2>14. Damaged(a.runs) => Damaged(s.runs)
    BY <2>7, <2>13 DEF rs
  <2>15. QED
    BY <2>7, <2>11, <2>12, <2>14
<1>6. ASSUME Len(rs) > FanIn, NEW e \in {"cancelled", "io", "limit", "corrupt"},
             Compact(s) = Fail(s, e), e = "corrupt" => (~sound \/ (sound /\ ~readable))
      PROVE  /\ Compact(s) \in Locals /\ ~Ok(Compact(s))
             /\ Compact(s).err = "corrupt" => Damaged(rs) \/ TooLong(c)
  <2>1. e \in Errors
    BY DEF Errors
  <2>2. Fail(s, e) \in Locals /\ Fail(s, e).err = e
    BY <2>1, Failed
  <2>3. Compact(s) \in Locals /\ Compact(s).err = e
    BY <1>6, <2>2
  <2>4. ~Ok(Compact(s))
    BY <2>3 DEF Ok
  <2>5. ASSUME e = "corrupt" PROVE Damaged(rs) \/ TooLong(c)
    <3>1. CASE ~sound
      BY <1>4, <1>6, <3>1 DEF Damaged
    <3>2. CASE sound /\ ~readable
      <4>1. PICK i \in 1..FanIn : ~Readable(inputs[i]) /\ Verified(inputs[i])
        BY <3>2
      <4>2. i \in DOMAIN rs /\ ~Readable(rs[i]) /\ Verified(rs[i])
        BY <1>4, <1>6, <4>1
      <4>3. Written(rs) \subseteq RowsOf(c)
        BY <1>2 DEF Divided
      <4>4. QED
        BY <1>1, <4>2, <4>3, RefusedIsTooLong
    <3>3. QED
      BY <1>6, <2>5, <3>1, <3>2
  <2>6. QED
    BY <2>3, <2>4, <2>5
<1>7. CASE Len(rs) > FanIn
  <2> DEFINE limited == ~TempFits(s, run.units) \/ ~MemoryFits(s, MergeUnits(inputs))
  <2>1. Compact(s) = IF cancelled THEN Fail(s, "cancelled")
                     ELSE IF disk = "gone" THEN Fail(s, "io")
                     ELSE IF \E i \in 1..FanIn : ~Verified(inputs[i]) THEN Fail(s, "corrupt")
                     ELSE IF limited THEN Fail(s, "limit")
                     ELSE IF disk # "writable" THEN Fail(s, "io")
                     ELSE IF \E i \in 1..FanIn : ~Readable(inputs[i]) THEN Fail(s, "corrupt")
                     ELSE a
    <3>1. ~(~Ok(s) \/ Len(rs) <= FanIn)
      BY <1>1, <1>7
    <3>2. QED
      BY Zenon, <3>1 DEF Compact
  <2>2. (\E i \in 1..FanIn : ~Verified(inputs[i])) <=> ~sound
    OBVIOUS
  <2>3. (\E i \in 1..FanIn : ~Readable(inputs[i])) <=> ~readable
    OBVIOUS
  <2>4. ~limited => TempFits(s, run.units)
    OBVIOUS
  <2> HIDE DEF limited, sound, readable, a, run, inputs
  <2>5. \/ \E e \in {"cancelled", "io", "limit"} : Compact(s) = Fail(s, e)
        \/ Compact(s) = Fail(s, "corrupt") /\ (~sound \/ (sound /\ ~readable))
        \/ sound /\ readable /\ TempFits(s, run.units) /\ Compact(s) = a
    <3>1. CASE cancelled
      BY <2>1, <3>1
    <3>2. CASE ~cancelled /\ disk = "gone"
      BY <2>1, <3>2
    <3>3. CASE ~cancelled /\ disk # "gone" /\ ~sound
      <4>1. \E i \in 1..FanIn : ~Verified(inputs[i])
        BY <2>2, <3>3
      <4>2. Compact(s) = Fail(s, "corrupt")
        BY <2>1, <3>3, <4>1
      <4>3. QED
        BY Zenon, <3>3, <4>2
    <3>4. CASE ~cancelled /\ disk # "gone" /\ sound /\ limited
      BY <2>1, <2>2, <3>4
    <3>5. CASE ~cancelled /\ disk # "gone" /\ sound /\ ~limited /\ disk # "writable"
      BY <2>1, <2>2, <3>5
    <3>6. CASE ~cancelled /\ disk = "writable" /\ sound /\ ~limited /\ ~readable
      BY <2>1, <2>2, <2>3, <3>6
    <3>7. CASE ~cancelled /\ disk = "writable" /\ sound /\ ~limited /\ readable
      BY <2>1, <2>2, <2>3, <2>4, <3>7
    <3>8. QED
      BY <3>1, <3>2, <3>3, <3>4, <3>5, <3>6, <3>7
  <2>6. CASE \E e \in {"cancelled", "io", "limit"} : Compact(s) = Fail(s, e)
    <3>1. PICK e \in {"cancelled", "io", "limit"} : Compact(s) = Fail(s, e)
      BY <2>6
    <3>2. QED
      BY <1>6, <1>7, <3>1
  <2>7. CASE Compact(s) = Fail(s, "corrupt") /\ (~sound \/ (sound /\ ~readable))
    BY <1>6, <1>7, <2>7
  <2>8. CASE sound /\ readable /\ TempFits(s, run.units) /\ Compact(s) = a
    BY <1>5, <1>7, <2>8
  <2>9. QED
    BY <2>5, <2>6, <2>7, <2>8
<1>8. QED
  BY <1>1, <1>3, <1>7

\* The largest of three numbers is one of them.
LEMMA MaxOfThree ==
    ASSUME NEW k \in Int, NEW m \in Int, NEW n \in Int
    PROVE  /\ Max({k, m, n}) \in {k, m, n}
           /\ Max({k, m, n}) >= k /\ Max({k, m, n}) >= m /\ Max({k, m, n}) >= n
<1>1. \E x \in {k, m, n} : \A y \in {k, m, n} : x >= y
  OBVIOUS
<1>2. QED
  BY <1>1 DEF Max

\* Growing makes room and moves nothing.
LEMMA GrowKeeps ==
    ASSUME mode \in Modes, pressure \in Nat, NEW c \in Seq(Values), NEW n \in Nat,
           NEW v \in Values, NEW s \in Locals, Ok(s), Held(s, c, n), Full(s, v)
    PROVE  /\ Grow(s, v) \in Locals /\ Grow(s, v).err # "corrupt"
           /\ Ok(Grow(s, v)) => Held(Grow(s, v), c, n) /\ ~Full(Grow(s, v), v)
<1> DEFINE seg == s.segment
           len == ValueLength(v)
           used == ArenaLength(seg.records)
           free == seg.arena - used
           records == IF Len(seg.records) = seg.capacity THEN seg.capacity ELSE 0
           arena == IF len > free THEN Max({seg.arena, len - free, 1}) ELSE 0
           t == [s EXCEPT !.segment.capacity = @ + records, !.segment.arena = @ + arena]
<1>1. /\ s.err = "none" /\ seg \in Segments /\ s.runs \in Seq(Run)
      /\ seg.records \in Seq(Records) /\ Len(seg.records) \in Nat /\ seg.capacity \in Nat
      /\ seg.arena \in 0..MaxArena /\ MaxArena \in Nat
  BY LocalTypes, Numbers DEF Ok
<1>2. /\ Fits(seg) /\ Ordered(s.runs, n) /\ Divided(seg, s.runs, c) /\ MemoryFits(s, 0)
  BY DEF Held
<1>3. used \in Nat /\ len \in Nat
  BY <1>1, ArenaType, BoundsAssumption DEF ValueLength
<1>4. Len(seg.records) <= seg.capacity /\ used <= seg.arena /\ free \in Nat
  BY <1>1, <1>2, <1>3 DEF Fits
<1>5. records \in Nat /\ Len(seg.records) <= seg.capacity + records
  BY <1>1, <1>4
<1>6. arena \in Nat /\ len <= free + arena
  <2>1. len - free \in Int /\ seg.arena \in Int /\ 1 \in Int
    BY <1>1, <1>3, <1>4
  <2>2. /\ Max({seg.arena, len - free, 1}) \in Int
        /\ Max({seg.arena, len - free, 1}) >= len - free /\ Max({seg.arena, len - free, 1}) >= 1
    BY <2>1, MaxOfThree
  <2> DEFINE m == Max({seg.arena, len - free, 1})
  <2> HIDE DEF m, free, len
  <2>3. arena = IF len > free THEN m ELSE 0
    BY DEF m
  <2>4. m \in Int /\ m >= len - free /\ m >= 1
    BY <2>2 DEF m
  <2>5. QED
    BY <1>3, <1>4, <2>3, <2>4
<1>7. seg.capacity > 0
  BY DEF Full
<1>8. Len(seg.records) # seg.capacity + records
  <2> DEFINE l == Len(seg.records)
             k == seg.capacity
  <2>1. l \in Nat /\ k \in Nat /\ l <= k /\ k > 0 /\ records = IF l = k THEN k ELSE 0
    BY <1>1, <1>4, <1>7
  <2> HIDE DEF l, k, records
  <2>2. l # k + records
    BY <2>1
  <2>3. QED
    BY <2>2 DEF l, k
<1>9. CASE seg.arena + arena > MaxArena \/ ~MemoryFits(s, records + arena)
  <2>1. Grow(s, v) = Fail(s, "limit")
    BY <1>9 DEF Grow
  <2>2. "limit" \in Errors
    BY DEF Errors
  <2>3. QED
    BY <2>1, <2>2, Failed DEF Ok
<1>10. CASE ~(seg.arena + arena > MaxArena \/ ~MemoryFits(s, records + arena))
  <2>1. Grow(s, v) = t
    BY <1>10 DEF Grow
  <2>2. seg.arena + arena \in 0..MaxArena /\ seg.capacity + records \in Nat
    BY <1>1, <1>5, <1>6, <1>10
  <2> DEFINE x == seg.capacity + records
             y == seg.arena + arena
  <2>3. t = [s EXCEPT !.segment.capacity = x, !.segment.arena = y]
    OBVIOUS
  <2> HIDE DEF x, y, t
  <2>4. /\ t \in Locals /\ t.runs = s.runs /\ t.err = "none"
        /\ t.segment.records = seg.records /\ t.segment.capacity = x /\ t.segment.arena = y
    <3>1. x \in Nat /\ y \in 0..MaxArena
      BY <2>2 DEF x, y
    <3>2. QED
      BY <1>1, <2>3, <3>1 DEF Locals, Segments
  <2> HIDE DEF seg, used, free, records, arena, len
  <2>5. Fits(t.segment)
    <3>1. Len(seg.records) <= x
      BY <1>5 DEF x
    <3>2. used <= y
      BY <1>1, <1>3, <1>4, <1>6 DEF y
    <3>3. QED
      BY <2>4, <3>1, <3>2 DEF Fits, used
  <2>6. Divided(t.segment, t.runs, c) /\ Ordered(t.runs, n)
    BY <1>2, <2>4 DEF Divided
  <2>7. MemoryFits(t, 0)
    <3>1. SampleUnits + pressure + (seg.capacity + seg.arena) + (records + arena) <= MemoryCap
      BY <1>10 DEF MemoryFits, Charge, seg
    <3>2. SampleUnits + pressure + (x + y) + 0 <= MemoryCap
      <4>1. SampleUnits \in Nat /\ MemoryCap \in Nat
        BY Numbers
      <4>2. QED
        BY <1>1, <1>5, <1>6, <3>1, <4>1 DEF x, y
    <3>3. QED
      BY <2>4, <3>2 DEF MemoryFits, Charge
  <2>8. Held(t, c, n)
    BY <2>5, <2>6, <2>7 DEF Held
  <2>9. ~Full(t, v)
    <3>1. Len(seg.records) # x
      BY <1>8 DEF x
    <3>2. ~(len > y - used)
      BY <1>1, <1>3, <1>4, <1>6 DEF y, free
    <3>3. QED
      BY <2>4, <3>1, <3>2 DEF Full, used, len
  <2>10. QED
    BY <2>1, <2>4, <2>8, <2>9
<1>11. QED
  BY <1>9, <1>10

\* The next row is a record of its own.
LEMMA RowsAppend ==
    ASSUME NEW c \in Seq(Values), NEW v \in Values
    PROVE  /\ RowsOf(Append(c, v)) = RowsOf(c) \cup {<<v, Len(c) + 1>>}
           /\ <<v, Len(c) + 1>> \notin RowsOf(c) /\ Append(c, v) \in Seq(Values)
<1> DEFINE d == Append(c, v)
           r == <<v, Len(c) + 1>>
<1>1. /\ Len(c) \in Nat /\ DOMAIN c = 1..Len(c) /\ d \in Seq(Values)
      /\ DOMAIN d = 1..Len(c) + 1
      /\ d[Len(c) + 1] = v /\ \A i \in 1..Len(c) : d[i] = c[i]
  OBVIOUS
<1> HIDE DEF d
<1>2. ASSUME NEW x \in RowsOf(d) PROVE x \in RowsOf(c) \cup {r}
  <2>1. PICK i \in 1..Len(c) + 1 : x = <<d[i], i>>
    BY <1>1 DEF RowsOf
  <2>2. CASE i = Len(c) + 1
    BY <1>1, <2>1, <2>2
  <2>3. CASE i \in 1..Len(c)
    BY <1>1, <2>1, <2>3 DEF RowsOf
  <2>4. QED
    BY <1>1, <2>2, <2>3
<1>3. ASSUME NEW x \in RowsOf(c) PROVE x \in RowsOf(d)
  <2>1. PICK i \in 1..Len(c) : x = <<c[i], i>>
    BY <1>1 DEF RowsOf
  <2>2. i \in DOMAIN d /\ x = <<d[i], i>>
    BY <1>1, <2>1
  <2>3. QED
    BY <2>2 DEF RowsOf
<1>4. r \in RowsOf(d)
  <2>1. Len(c) + 1 \in DOMAIN d /\ r = <<d[Len(c) + 1], Len(c) + 1>>
    BY <1>1
  <2>2. QED
    BY <2>1 DEF RowsOf
<1>5. r \notin RowsOf(c)
  BY <1>1 DEF RowsOf
<1>6. QED
  BY <1>1, <1>2, <1>3, <1>4, <1>5 DEF d

\* What is put into a segment with room for it.
Put(seg, r) == [seg EXCEPT !.records = Append(@, r)]
LEMMA PutKeeps ==
    ASSUME NEW c \in Seq(Values), NEW v \in Values, Len(c) + 1 <= MaxRows, NEW seg \in Segments,
           NEW rs, Fits(seg), Divided(seg, rs, c), Len(seg.records) < seg.capacity,
           ArenaLength(seg.records) + ValueLength(v) <= seg.arena
    PROVE  LET a == Put(seg, <<v, Len(c) + 1>>) IN
           /\ a \in Segments /\ Fits(a) /\ Divided(a, rs, Append(c, v)) /\ Charge(a) = Charge(seg)
<1> DEFINE r == <<v, Len(c) + 1>>
           a == Put(seg, r)
<1>1. /\ seg.records \in Seq(Records) /\ Len(seg.records) \in Nat /\ seg.capacity \in Nat
      /\ seg.arena \in 0..MaxArena /\ Len(c) \in Nat /\ MaxRows \in Nat
  BY Numbers DEF Segments
<1>2. r \in Records /\ r[1] = v
  BY <1>1 DEF Records
<1> HIDE DEF r
<1>3. /\ a \in Segments /\ a.records = Append(seg.records, r) /\ a.capacity = seg.capacity
      /\ a.arena = seg.arena
  <2>1. Append(seg.records, r) \in Seq(Records)
    BY <1>1, <1>2
  <2>2. a = [seg EXCEPT !.records = Append(seg.records, r)]
    BY DEF Put
  <2> HIDE DEF a
  <2> DEFINE t == Append(seg.records, r)
  <2>3. t \in Seq(Records) /\ a = [seg EXCEPT !.records = t]
    BY <2>1, <2>2
  <2> HIDE DEF t
  <2>4. a \in Segments /\ a.records = t /\ a.capacity = seg.capacity /\ a.arena = seg.arena
    BY <2>3 DEF Segments
  <2>5. QED
    BY <2>4 DEF t
<1> HIDE DEF a
<1>4. Fits(a)
  <2>1. Len(Append(seg.records, r)) = Len(seg.records) + 1
    BY <1>1, <1>2
  <2>2. ArenaLength(Append(seg.records, r)) = ArenaLength(seg.records) + ValueLength(v)
    BY <1>1, <1>2, ArenaGrows
  <2>3. QED
    BY <1>1, <1>3, <2>1, <2>2 DEF Fits
<1>5. Range(a.records) = Range(seg.records) \cup {r}
  <2> DEFINE t == seg.records
  <2>1. t \in Seq(Records) /\ a.records = Append(t, r)
    BY <1>1, <1>3
  <2> HIDE DEF t
  <2>2. /\ Len(t) \in Nat /\ DOMAIN t = 1..Len(t) /\ DOMAIN a.records = 1..Len(t) + 1
        /\ a.records[Len(t) + 1] = r /\ \A i \in 1..Len(t) : a.records[i] = t[i]
    BY <1>2, <2>1
  <2>3. \A x \in Range(a.records) : x \in Range(t) \cup {r}
    BY <2>2 DEF Range
  <2>4. \A x \in Range(t) : x \in Range(a.records)
    BY <2>2 DEF Range
  <2>5. r \in Range(a.records)
    BY <2>2 DEF Range
  <2>6. QED
    BY <2>3, <2>4, <2>5 DEF t
<1>6. /\ RowsOf(Append(c, v)) = RowsOf(c) \cup {r} /\ r \notin RowsOf(c)
  BY RowsAppend DEF r
<1>7. Divided(a, rs, Append(c, v))
  <2>1. Written(rs) \subseteq RowsOf(c)
    BY DEF Divided
  <2>2. QED
    BY <1>5, <1>6, <2>1 DEF Divided
<1>8. Charge(a) = Charge(seg)
  BY <1>3 DEF Charge
<1>9. QED
  BY <1>3, <1>4, <1>7, <1>8 DEF a, r

\* A new segment has room for one value at least.
LEMMA AttemptFits ==
    ASSUME mode \in Modes, NEW k \in Halvings, NEW v \in Values, ValueLength(v) <= MaxArena
    PROVE  /\ Attempt(k, v) \in Segments /\ Fits(Attempt(k, v)) /\ Range(Attempt(k, v).records) = {}
           /\ Len(Attempt(k, v).records) < Attempt(k, v).capacity
           /\ ArenaLength(Attempt(k, v).records) + ValueLength(v) <= Attempt(k, v).arena
           /\ Charge(Attempt(k, v)) \in Nat
<1> DEFINE len == ValueLength(v)
           product == mode.capacity * AssumedLength
           assumed == Min({MaxArena, product})
           half == Halved(mode.capacity, k)
           other == Halved(assumed, k)
           none == << >>
           cap == Max({1, half})
           arena == IF mode.kind = "fixed" THEN 0 ELSE Max({len, other})
           a == Attempt(k, v)
<1>1. /\ MaxArena \in Nat /\ AssumedLength \in Nat
      /\ mode.capacity \in Nat \ {0} /\ mode.kind \in {"fixed", "bytes"}
  BY BoundsAssumption
<1>2. k \in Nat
  BY <1>1 DEF Halvings
<1>3. len \in Nat /\ (mode.kind = "fixed" => len = 0)
  BY BoundsAssumption DEF ValueLength
<1>4. half \in Nat
  <2>1. mode.capacity \in Nat
    BY <1>1
  <2>2. half \in 0..mode.capacity
    BY <1>2, <2>1, HalvedType
  <2>3. QED
    BY <2>1, <2>2
<1>5. other \in 0..MaxArena
  <2>1. product \in Int /\ product >= 0
    BY <1>1
  <2> HIDE DEF product
  <2>2. assumed \in Nat /\ assumed <= MaxArena
    <3>1. assumed = IF MaxArena <= product THEN MaxArena ELSE product
      BY <1>1, <2>1, MinOfTwo
    <3>2. QED
      BY <1>1, <2>1, <3>1
  <2> HIDE DEF assumed
  <2>3. other \in 0..assumed
    BY <1>2, <2>2, HalvedType
  <2>4. QED
    BY <1>1, <2>2, <2>3
<1> HIDE DEF half, other, len
<1>6. cap \in Nat /\ cap >= 1
  <2>1. cap = IF 1 >= half THEN 1 ELSE half
    BY <1>4, MaxOfTwo
  <2>2. QED
    BY <1>4, <2>1
<1>7. arena \in 0..MaxArena /\ len <= arena
  <2>1. other \in Int /\ len \in Int
    BY <1>1, <1>3, <1>5
  <2>2. Max({len, other}) = IF len >= other THEN len ELSE other
    BY <2>1, MaxOfTwo
  <2>3. len <= MaxArena
    BY DEF len
  <2>4. Max({len, other}) \in 0..MaxArena /\ len <= Max({len, other})
    BY <1>1, <1>3, <1>5, <2>2, <2>3
  <2> HIDE DEF arena
  <2>5. arena = IF mode.kind = "fixed" THEN 0 ELSE Max({len, other})
    BY DEF arena
  <2>6. QED
    BY <1>1, <1>3, <2>4, <2>5
<1>8. a = [records |-> none, capacity |-> cap, arena |-> arena]
  BY DEF Attempt, half, other, len
<1>9. none \in Seq(Records) /\ Len(none) = 0 /\ Range(none) = {}
  BY DEF Range
<1> HIDE DEF a, cap, arena, none
<1>10. a \in Segments /\ a.records = none /\ a.capacity = cap /\ a.arena = arena
  BY <1>6, <1>7, <1>8, <1>9 DEF Segments
<1>11. ArenaLength(none) = 0
  <2>1. NoSegment.records = none
    BY DEF NoSegment, none
  <2>2. ArenaLength(NoSegment.records) \in Nat /\ ArenaLength(NoSegment.records) <= 0
    <3>1. ArenaLength(NoSegment.records) <= NoSegment.arena /\ NoSegment.arena = 0
      BY NoSegmentFits DEF Fits, NoSegment
    <3>2. ArenaLength(none) \in Nat
      BY <1>9, ArenaType
    <3>3. QED
      BY <2>1, <3>1, <3>2
  <2>3. QED
    BY <2>1, <2>2
<1>12. Fits(a) /\ Len(a.records) < a.capacity /\ ArenaLength(a.records) + len <= a.arena
  BY <1>1, <1>3, <1>6, <1>7, <1>9, <1>10, <1>11 DEF Fits
<1>13. Charge(a) \in Nat
  BY <1>1, <1>6, <1>7, <1>10 DEF Charge
<1>14. QED
  BY <1>9, <1>10, <1>12, <1>13 DEF a, len

\* A value goes into a segment with room for it, or into a new one.
LEMMA PushKeeps ==
    ASSUME mode \in Modes, pressure \in Nat, NEW c \in Seq(Values), NEW v \in Values,
           Len(c) + 1 <= MaxRows, NEW n \in Nat,
           NEW s \in Locals, Ok(s), Held(s, c, n), ~Full(s, v)
    PROVE  LET t == Push(s, v, Len(c) + 1) IN
           /\ t \in Locals /\ t.err # "corrupt"
           /\ Ok(t) => Held(t, Append(c, v), n)
<1> DEFINE seg == s.segment
           r == <<v, Len(c) + 1>>
           t == Push(s, v, Len(c) + 1)
           fresh(k) == Attempt(k, v)
           fitting == {k \in Halvings : MemoryFits([s EXCEPT !.segment = NoSegment],
                                                    Charge(Attempt(k, v)))}
           into(x) == [s EXCEPT !.segment = Put(x, r)]
<1>1. /\ s.err = "none" /\ seg \in Segments /\ s.runs \in Seq(Run)
      /\ seg.records \in Seq(Records) /\ Len(seg.records) \in Nat /\ seg.capacity \in Nat
      /\ seg.arena \in 0..MaxArena /\ MaxArena \in Nat
  BY LocalTypes, Numbers DEF Ok
<1>2. /\ Fits(seg) /\ Ordered(s.runs, n) /\ Divided(seg, s.runs, c) /\ MemoryFits(s, 0)
  BY DEF Held
<1>3. ValueLength(v) \in Nat /\ ArenaLength(seg.records) \in Nat
  BY <1>1, ArenaType, BoundsAssumption DEF ValueLength
<1>4. ASSUME NEW x \in Segments, Fits(x), Divided(x, s.runs, c), Len(x.records) < x.capacity,
             ArenaLength(x.records) + ValueLength(v) <= x.arena,
             SampleUnits + pressure + Charge(x) + 0 <= MemoryCap
      PROVE  into(x) \in Locals /\ into(x).err = "none" /\ Held(into(x), Append(c, v), n)
  <2> DEFINE a == Put(x, r)
             b == [s EXCEPT !.segment = a]
  <2>1. /\ a \in Segments /\ Fits(a) /\ Divided(a, s.runs, Append(c, v))
        /\ Charge(a) = Charge(x)
    BY <1>4, PutKeeps
  <2> HIDE DEF a
  <2>2. b \in Locals /\ b.segment = a /\ b.runs = s.runs /\ b.err = "none"
    BY <1>1, <2>1, OtherSegment
  <2> HIDE DEF b
  <2>3. MemoryFits(b, 0)
    BY <1>4, <2>1, <2>2 DEF MemoryFits
  <2>4. Held(b, Append(c, v), n)
    BY <1>2, <2>1, <2>2, <2>3 DEF Held
  <2>5. QED
    BY <2>2, <2>4 DEF a, b
<1>5. CASE ValueLength(v) > MaxArena \/ (seg.capacity = 0 /\ fitting = {})
  <2>1. t = Fail(s, "limit")
    BY <1>1, <1>5 DEF Push, Ok
  <2>2. "limit" \in Errors
    BY DEF Errors
  <2>3. t \in Locals /\ t.err = "limit"
    BY <2>1, <2>2, Failed
  <2>4. QED
    BY <2>3 DEF Ok
<1>6. CASE ValueLength(v) <= MaxArena /\ seg.capacity > 0
  <2>1. t = into(seg)
    <3>1. Ok(s) /\ ~(ValueLength(v) > MaxArena) /\ s.segment.capacity > 0
      BY <1>1, <1>3, <1>6
    <3>2. QED
      BY Zenon, <3>1 DEF Push, Put
  <2>2. Len(seg.records) < seg.capacity /\ ArenaLength(seg.records) + ValueLength(v) <= seg.arena
    <3>1. /\ Len(seg.records) # seg.capacity
          /\ ~(ValueLength(v) > seg.arena - ArenaLength(seg.records))
      BY <1>6 DEF Full
    <3>2. Len(seg.records) <= seg.capacity
      BY <1>2 DEF Fits
    <3>3. QED
      BY <1>1, <1>3, <3>1, <3>2
  <2>3. SampleUnits + pressure + Charge(seg) + 0 <= MemoryCap
    BY <1>2 DEF MemoryFits
  <2>4. into(seg) \in Locals /\ into(seg).err = "none" /\ Held(into(seg), Append(c, v), n)
    BY <1>1, <1>2, <1>4, <2>2, <2>3
  <2> HIDE DEF into, t
  <2>5. t \in Locals /\ t.err = "none" /\ Held(t, Append(c, v), n)
    BY <2>1, <2>4
  <2>6. QED
    BY <2>5 DEF t
<1>7. CASE ValueLength(v) <= MaxArena /\ seg.capacity = 0 /\ fitting # {}
  <2> DEFINE k == Min(fitting)
             x == Attempt(k, v)
  <2>1. t = into(x)
    <3>1. Ok(s) /\ ~(ValueLength(v) > MaxArena) /\ ~(s.segment.capacity > 0)
      BY <1>1, <1>3, <1>7
    <3>2. QED
      BY Zenon, <1>7, <3>1 DEF Push, Put
  <2>2. k \in fitting
    <3>1. fitting \in SUBSET Nat
      BY <1>1, BoundsAssumption DEF Halvings
    <3> HIDE DEF fitting
    <3>2. QED
      BY <1>7, <3>1, LeastExists
  <2>3. /\ k \in Halvings
        /\ MemoryFits([s EXCEPT !.segment = NoSegment], Charge(x))
    BY <2>2
  <2>4. /\ x \in Segments /\ Fits(x) /\ Range(x.records) = {}
        /\ Len(x.records) < x.capacity
        /\ ArenaLength(x.records) + ValueLength(v) <= x.arena /\ Charge(x) \in Nat
    <3> HIDE DEF k
    <3>1. QED
      BY <1>7, <2>3, AttemptFits
  <2> HIDE DEF k, x, fitting
  <2>5. Range(seg.records) = {}
    <3>1. Len(seg.records) = 0
      BY <1>1, <1>2, <1>7 DEF Fits
    <3>2. \A i \in DOMAIN seg.records : FALSE
      BY <1>1, <3>1
    <3>3. QED
      BY <3>2 DEF Range
  <2>6. Divided(x, s.runs, c)
    BY <1>2, <2>4, <2>5 DEF Divided
  <2>7. SampleUnits + pressure + Charge(x) + 0 <= MemoryCap
    <3>1. [s EXCEPT !.segment = NoSegment].segment = NoSegment
      BY OtherSegment, NoSegmentFits
    <3>2. SampleUnits + pressure + Charge(NoSegment) + Charge(x) <= MemoryCap
      BY <2>3, <3>1 DEF MemoryFits
    <3>3. SampleUnits \in Nat
      BY Numbers
    <3>4. QED
      BY <2>4, <3>2, <3>3, NoSegmentFits
  <2>8. into(x) \in Locals /\ into(x).err = "none" /\ Held(into(x), Append(c, v), n)
    BY <1>4, <2>4, <2>6, <2>7
  <2> HIDE DEF into, t
  <2>9. t \in Locals /\ t.err = "none" /\ Held(t, Append(c, v), n)
    BY <2>1, <2>8
  <2>10. QED
    BY <2>9 DEF t
<1>8. QED
  <2>1. ValueLength(v) <= MaxArena \/ ValueLength(v) > MaxArena
    BY <1>1, <1>3
  <2>2. seg.capacity > 0 \/ seg.capacity = 0
    BY <1>1
  <2>3. QED
    BY Zenon, <1>5, <1>6, <1>7, <2>1, <2>2

\* Without room, either everything buffered is spilled or the segment grows.
LEMMA MakeRoomKeeps ==
    ASSUME mode \in Modes, pressure \in Nat, NEW c \in Seq(Values), NEW v \in Values,
           NEW s \in Locals, Ok(s), Held(s, c, FanIn)
    PROVE  /\ MakeRoom(s, v) \in Locals
           /\ Ok(MakeRoom(s, v)) => Held(MakeRoom(s, v), c, FanIn) /\ ~Full(MakeRoom(s, v), v)
           /\ MakeRoom(s, v).err = "corrupt" => Damaged(s.runs) \/ TooLong(c)
<1> DEFINE x == Spill(s)
<1>1. FanIn \in Nat /\ s.err = "none"
  BY Numbers DEF Ok
<1>2. CASE ~Full(s, v)
  <2>1. MakeRoom(s, v) = s
    BY <1>2 DEF MakeRoom
  <2>2. QED
    BY <1>1, <1>2, <2>1
<1>3. CASE Full(s, v) /\ mode.directory
  <2>1. MakeRoom(s, v) = Compact(x)
    BY <1>3 DEF MakeRoom
  <2>2. /\ x \in Locals /\ x.err # "corrupt"
        /\ Ok(x) => /\ Held(x, c, FanIn + 1) /\ x.segment = NoSegment
                    /\ Damaged(x.runs) => Damaged(s.runs)
    BY <1>1, SpillKeeps
  <2> HIDE DEF x
  <2>3. CASE ~Ok(x)
    <3>1. Compact(x) = x
      BY <2>3 DEF Compact
    <3>2. QED
      BY <2>1, <2>2, <2>3, <3>1
  <2>4. CASE Ok(x)
    <3>1. /\ Compact(x) \in Locals
          /\ Ok(Compact(x)) => Held(Compact(x), c, FanIn) /\ Compact(x).segment = x.segment
          /\ Compact(x).err = "corrupt" => Damaged(x.runs) \/ TooLong(c)
      BY <2>2, <2>4, CompactKeeps
    <3>2. ASSUME Ok(Compact(x)) PROVE ~Full(Compact(x), v)
      BY <2>2, <2>4, <3>1, <3>2, NoSegmentFits DEF Full
    <3>3. QED
      BY <2>1, <2>2, <2>4, <3>1, <3>2
  <2>5. QED
    BY <2>3, <2>4
<1>4. CASE Full(s, v) /\ ~mode.directory
  <2>1. MakeRoom(s, v) = Grow(s, v)
    BY <1>4 DEF MakeRoom
  <2>2. /\ Grow(s, v) \in Locals /\ Grow(s, v).err # "corrupt"
        /\ Ok(Grow(s, v)) => Held(Grow(s, v), c, FanIn) /\ ~Full(Grow(s, v), v)
    BY <1>1, <1>4, GrowKeeps
  <2>3. QED
    BY <2>1, <2>2
<1>5. QED
  BY <1>2, <1>3, <1>4

\* What one more value makes of the state.
LEMMA InsertKeeps ==
    ASSUME mode \in Modes, pressure \in Nat, NEW c \in Seq(Values), NEW v \in Values,
           Len(c) + 1 <= MaxRows, NEW s \in Locals, Ok(s), Held(s, c, FanIn)
    PROVE  LET t == Compact(Push(MakeRoom(s, v), v, Len(c) + 1)) IN
           /\ t \in Locals
           /\ Ok(t) => Held(t, Append(c, v), FanIn)
           /\ t.err = "corrupt" => Damaged(s.runs) \/ TooLong(Append(c, v))
<1> DEFINE m == MakeRoom(s, v)
           p == Push(m, v, Len(c) + 1)
           d == Append(c, v)
<1>1. /\ m \in Locals
      /\ Ok(m) => Held(m, c, FanIn) /\ ~Full(m, v)
      /\ m.err = "corrupt" => Damaged(s.runs) \/ TooLong(c)
  BY MakeRoomKeeps
<1>2. TooLong(c) => TooLong(d)
  <2>1. ASSUME NEW i \in DOMAIN c, ValueLength(c[i]) > MaxRecord PROVE TooLong(d)
    <3>1. i \in DOMAIN d /\ d[i] = c[i]
      OBVIOUS
    <3>2. QED
      BY <2>1, <3>1 DEF TooLong
  <2>2. QED
    BY <2>1 DEF TooLong
<1> HIDE DEF m, d
<1>3. CASE ~Ok(m)
  <2>1. p = m
    BY <1>3 DEF Push
  <2>2. Compact(p) = p
    BY <1>3, <2>1 DEF Compact
  <2>3. QED
    BY <1>1, <1>2, <1>3, <2>1, <2>2 DEF m, d
<1>4. CASE Ok(m)
  <2>1. FanIn \in Nat
    BY Numbers
  <2>2. /\ p \in Locals /\ p.err # "corrupt"
        /\ Ok(p) => Held(p, d, FanIn)
    BY <1>1, <1>4, <2>1, PushKeeps DEF d
  <2> HIDE DEF p
  <2>3. Compact(p) = p
    <3>1. CASE ~Ok(p)
      BY <3>1 DEF Compact
    <3>2. CASE Ok(p)
      <4>1. Len(p.runs) <= FanIn
        BY <2>2, <3>2 DEF Held, Ordered
      <4>2. QED
        BY <4>1 DEF Compact
    <3>3. QED
      BY <3>1, <3>2
  <2>4. QED
    BY <2>2, <2>3 DEF p, m, d
<1>5. QED
  BY <1>3, <1>4

\* What sealing leaves is all in runs.
LEMMA SealKeeps ==
    ASSUME mode \in Modes, pressure \in Nat, NEW c \in Seq(Values),
           NEW s \in Locals, Ok(s), Held(s, c, FanIn)
    PROVE  /\ Seal(s) \in Locals
           /\ Ok(Seal(s)) => /\ Held(Seal(s), c, FanIn) /\ Seal(s).segment = NoSegment
                             /\ Damaged(Seal(s).runs) => Damaged(s.runs)
           /\ Seal(s).err = "corrupt" => Damaged(s.runs) \/ TooLong(c)
<1> DEFINE x == Spill(s)
<1>1. CASE cancelled
  <2>1. Seal(s) = Fail(s, "cancelled")
    BY <1>1 DEF Seal
  <2>2. "cancelled" \in Errors
    BY DEF Errors
  <2>3. Seal(s) \in Locals /\ Seal(s).err = "cancelled"
    BY <2>1, <2>2, Failed
  <2>4. QED
    BY <2>3 DEF Ok
<1>2. CASE ~cancelled
  <2>1. Seal(s) = Compact(x)
    BY <1>2 DEF Seal
  <2>2. /\ x \in Locals /\ x.err # "corrupt"
        /\ Ok(x) => /\ Held(x, c, FanIn + 1) /\ x.segment = NoSegment
                    /\ Damaged(x.runs) => Damaged(s.runs)
    BY Numbers, SpillKeeps
  <2> HIDE DEF x
  <2>3. CASE ~Ok(x)
    <3>1. Compact(x) = x
      BY <2>3 DEF Compact
    <3>2. QED
      BY <2>1, <2>2, <2>3, <3>1
  <2>4. CASE Ok(x)
    <3>1. /\ Compact(x) \in Locals
          /\ Ok(Compact(x)) => /\ Held(Compact(x), c, FanIn)
                               /\ Compact(x).segment = x.segment
                               /\ Damaged(Compact(x).runs) => Damaged(x.runs)
          /\ Compact(x).err = "corrupt" => Damaged(x.runs) \/ TooLong(c)
      BY <2>2, <2>4, CompactKeeps
    <3>2. QED
      BY <2>1, <2>2, <2>4, <3>1
  <2>5. QED
    BY <2>3, <2>4
<1>3. QED
  BY <1>1, <1>2

-----------------------------------------------------------------------------
(* Finishing *)

\* The counts and samples are those of the column, and no merge was too wide.
Exact(r, c) ==
    /\ r.counted.distinct = Cardinality(Range(c))
    /\ r.counted.duplicates = Len(c) - Cardinality(Range(c))
    /\ r.counted.samples = Sampled(c, InOrder(Repeated(c, RowsOf(c))))
    /\ r.widest \in 0..FanIn

\* What merging the runs, when nothing is buffered any more, gives.
LEMMA ResultKeeps ==
    ASSUME NEW c \in Seq(Values), NEW s \in Locals,
           Ok(s) => Held(s, c, FanIn) /\ s.segment = NoSegment
    PROVE  /\ Result(s).err \in Errors
           /\ Result(s).err = "none" => Exact(Result(s), c)
           /\ Result(s).err = "corrupt" =>
                s.err = "corrupt" \/ (Ok(s) /\ Damaged(s.runs)) \/ TooLong(c)
<1> DEFINE rs == s.runs
           r == Result(s)
<1>1. s.err \in Errors /\ rs \in Seq(Run) /\ s.widest \in 0..FanIn /\ FanIn \in Nat
  BY LocalTypes, Numbers
<1> HIDE DEF rs
<1>2. /\ "none" \in Errors /\ "io" \in Errors /\ "corrupt" \in Errors /\ "limit" \in Errors
      /\ "io" # "corrupt" /\ "limit" # "corrupt" /\ "none" # "corrupt" /\ "none" # "io"
      /\ "none" # "limit"
  BY DEF Errors
<1>3. CASE ~Ok(s)
  <2>1. r = [err |-> s.err]
    BY <1>3 DEF Result
  <2>2. r.err = s.err /\ s.err # "none"
    BY <1>3, <2>1 DEF Ok
  <2>3. QED
    BY <1>1, <2>2
<1>4. CASE Ok(s)
  <2>1. /\ Ordered(rs, FanIn) /\ Divided(s.segment, rs, c) /\ s.segment = NoSegment
    BY <1>4 DEF Held, rs
  <2>2. Written(rs) = RowsOf(c)
    BY <2>1, NoSegmentFits DEF Divided
  <2>3. CASE r.err # "none"
    <3>1. \/ r = [err |-> "io"] \/ r = [err |-> "limit"]
          \/ r = [err |-> "corrupt"] /\ \E i \in DOMAIN rs : ~Verified(rs[i])
          \/ /\ r = [err |-> "corrupt"] /\ \A i \in DOMAIN rs : Verified(rs[i])
             /\ \E i \in DOMAIN rs : ~Readable(rs[i])
      BY <1>4, <2>3 DEF Result, rs
    <3>2. CASE r = [err |-> "io"] \/ r = [err |-> "limit"]
      <4>1. r.err = "io" \/ r.err = "limit"
        BY <3>2
      <4>2. QED
        BY <1>2, <4>1
    <3>3. CASE r = [err |-> "corrupt"] /\ \E i \in DOMAIN rs : ~Verified(rs[i])
      <4>1. r.err = "corrupt" /\ Damaged(rs)
        BY <3>3 DEF Damaged
      <4>2. QED
        BY <1>2, <1>4, <4>1 DEF rs
    <3>4. CASE /\ r = [err |-> "corrupt"]
               /\ \A i \in DOMAIN rs : Verified(rs[i])
               /\ \E i \in DOMAIN rs : ~Readable(rs[i])
      <4>1. r.err = "corrupt"
        BY <3>4
      <4>2. TooLong(c)
        <5>1. Written(rs) \subseteq RowsOf(c)
          BY <2>2
        <5>2. QED
          BY <1>1, <3>4, <5>1, RefusedIsTooLong
      <4>3. QED
        BY <1>2, <4>1, <4>2
    <3>5. QED
      BY <3>1, <3>2, <3>3, <3>4
  <2>4. CASE r.err = "none"
    <3>1. r = [err |-> "none", counted |-> Count(Merge(rs)), runs |-> Len(rs),
               compactions |-> s.compactions, widest |-> Max({s.widest, Len(rs)})]
          /\ \A i \in DOMAIN rs : Verified(rs[i])
      BY <1>2, <1>4, <2>4 DEF Result, rs
    <3>2. /\ Merge(rs) \in Seq(Records) /\ Sorted(Merge(rs))
          /\ Range(Merge(rs)) = RowsOf(c)
      BY <1>1, <2>1, <2>2, <3>1, Merged DEF Ordered, Divided
    <3>3. Merge(rs) \in Seq(Pairs)
      <4>1. Records \subseteq Pairs
        BY RecordsTyped
      <4>2. QED
        BY <3>2, <4>1
    <3>4. r.counted = Count(Merge(rs)) /\ r.widest = Max({s.widest, Len(rs)})
      BY <3>1
    <3>5. r.widest \in 0..FanIn
      <4>1. Len(rs) \in Nat /\ Len(rs) <= FanIn
        BY <1>1, <2>1 DEF Ordered
      <4>2. r.widest = IF s.widest >= Len(rs) THEN s.widest ELSE Len(rs)
        BY <1>1, <3>4, <4>1, MaxOfTwo
      <4>3. QED
        BY <1>1, <4>1, <4>2
    <3>6. Exact(r, c)
      BY <3>2, <3>3, <3>4, <3>5, CountsColumn DEF Exact
    <3>7. QED
      BY <1>2, <2>4, <3>6
  <2>5. QED
    BY <2>3, <2>4
<1>5. QED
  BY <1>3, <1>4

\* What sorting the only segment gives.
LEMMA InMemoryKeeps ==
    ASSUME NEW c \in Seq(Values), segment.records \in Seq(Records),
           Range(segment.records) = RowsOf(c)
    PROVE  /\ ResultInMemory.err \in {"none", "cancelled"}
           /\ ResultInMemory.err = "none" => Exact(ResultInMemory, c)
<1> DEFINE r == ResultInMemory
           t == InOrder(Range(segment.records))
<1>1. CASE cancelled /\ segment.records # << >>
  <2>1. r = [err |-> "cancelled"]
    BY <1>1 DEF ResultInMemory
  <2>2. r.err = "cancelled"
    BY <2>1
  <2>3. QED
    BY <2>2
<1>2. CASE ~(cancelled /\ segment.records # << >>)
  <2>1. r = [err |-> "none", counted |-> Count(t), runs |-> 0, compactions |-> 0, widest |-> 0]
    BY <1>2 DEF ResultInMemory
  <2>2. t \in Seq(Records) /\ Sorted(t) /\ Range(t) = RowsOf(c)
    BY SortedRun
  <2>3. t \in Seq(Pairs)
    <3>1. Records \subseteq Pairs
      BY RecordsTyped
    <3>2. QED
      BY <2>2, <3>1
  <2> HIDE DEF t
  <2>4. r.err = "none" /\ r.counted = Count(t) /\ r.widest = 0
    BY <2>1
  <2>5. 0 \in 0..FanIn
    BY Numbers
  <2>6. Exact(r, c)
    BY <2>2, <2>3, <2>4, <2>5, CountsColumn DEF Exact
  <2>7. QED
    BY <2>4, <2>6
<1>3. QED
  BY <1>1, <1>2

\* The samples the summary has to have.
LEMMA SamplesExpected ==
    ExpectedSamples = Sampled(column, InOrder(Repeated(column, RowsOf(column))))
<1>1. \A v : FirstRow(v) = First(column, v)
  BY DEF FirstRow, First
<1>2. Duplicates = Repeated(column, RowsOf(column))
  <2>1. ASSUME NEW r \in Duplicates PROVE r \in Repeated(column, RowsOf(column))
    <3>1. PICK i \in DOMAIN column : i # First(column, column[i]) /\ r = <<column[i], i>>
      BY <1>1 DEF Duplicates
    <3>2. QED
      BY <3>1 DEF Repeated, RowsOf
  <2>2. ASSUME NEW r \in Repeated(column, RowsOf(column)) PROVE r \in Duplicates
    <3>1. PICK i \in DOMAIN column : r = <<column[i], i>>
      BY DEF Repeated, RowsOf
    <3>2. i # First(column, column[i])
      BY <3>1 DEF Repeated
    <3>3. QED
      BY <1>1, <3>1, <3>2 DEF Duplicates
  <2>3. QED
    BY <2>1, <2>2
<1> DEFINE t == InOrder(Duplicates)
<1>3. ExpectedSamples =
        [k \in 1..Min({MaxSamples, Len(t)}) |-> <<First(column, t[k][1]), t[k][2]>>]
  BY <1>1 DEF ExpectedSamples
<1>4. Sampled(column, t) =
        [k \in 1..Min({MaxSamples, Len(t)}) |-> <<First(column, t[k][1]), t[k][2]>>]
  BY DEF Sampled
<1>5. QED
  BY <1>2, <1>3, <1>4

-----------------------------------------------------------------------------
(* The invariant *)

\* The parts of the state have their types.
Typed ==
    /\ mode \in Modes /\ column \in Seq(Values) /\ Len(column) <= MaxRows
    /\ pressure \in 0..MaxPressure
    /\ disk \in {"writable", "full", "gone"} /\ cancelled \in BOOLEAN
    /\ status \in {"open", "done", "limit", "io", "corrupt", "cancelled"}
    /\ Local \in Locals

\* An open state holds the records of the column; one that ended holds nothing, and
\* what it returned is exact.
Inv ==
    /\ Typed
    /\ status = "open" => Held(Local, column, FanIn)
    /\ status # "open" => /\ segment = NoSegment /\ runs = << >>
                          /\ SampleUnits + pressure <= MemoryCap
    /\ status = "done" => Exact(summary[1], column)

\* The parts of the local state of an operation that starts.
LEMMA LocalParts ==
    /\ Local.segment = segment /\ Local.runs = runs /\ Local.compactions = compactions
    /\ Local.widest = widest /\ Ok(Local) /\ Charge(Local.segment) = Charge(segment)
BY DEF Local, Ok

\* The local state has its type when its parts have theirs.
LEMMA LocalTyped ==
    ASSUME segment \in Segments, runs \in Seq(Run), compactions \in Nat, widest \in 0..FanIn
    PROVE  Local \in Locals
BY DEF Local, Locals, Errors

\* No runs take no storage and hold no records.
LEMMA NoRuns ==
    ASSUME NEW n \in Nat
    PROVE  Ordered(<< >>, n) /\ Written(<< >>) = {} /\ << >> \in Seq(Run)
<1>1. << >> \in Seq(Run) /\ Len(<< >>) = 0 /\ DOMAIN << >> = {}
  OBVIOUS
<1>2. TempUsed(<< >>) = 0
  <2>1. Temp!Fold(0, << >>) = 0
    BY Temp!FoldEmpty
  <2>2. QED
    BY <2>1 DEF TempUsed, Temp!Fold, FoldLeft, Temp!FoldLeft, MapThenFoldSet,
                Temp!MapThenFoldSet, Max, Temp!Max
<1>3. 0 <= n /\ 0 <= TempCap
  BY Numbers
<1>4. Ordered(<< >>, n)
  BY <1>1, <1>2, <1>3 DEF Ordered
<1>5. Written(<< >>) = {}
  BY <1>1 DEF Written
<1>6. QED
  BY <1>1, <1>4, <1>5

\* What holds of a state of an operation holds after the state was stored.
LEMMA HeldAfter ==
    ASSUME NEW t, NEW c, Held(t, c, FanIn), mode' = mode, segment' = t.segment,
           runs' = t.runs, column' = c,
           SampleUnits + pressure' + Charge(t.segment) + 0 <= MemoryCap
    PROVE  Held(Local, column, FanIn)'
<1>1. \A x : ArenaLength(x)' = ArenaLength(x)
  BY DEF ArenaLength
<1>2. \A x : NewRun(x)'.units = NewRun(x).units
  BY <1>1 DEF NewRun
<1>3. Local'.segment = t.segment /\ Local'.runs = t.runs
  BY DEF Local
<1>4. Fits(t.segment) /\ Ordered(t.runs, FanIn) /\ Divided(t.segment, t.runs, c)
  BY DEF Held
<1>5. Fits(Local.segment)'
  BY <1>1, <1>3, <1>4 DEF Fits
<1>6. Ordered(Local.runs, FanIn)'
  BY <1>2, <1>3, <1>4 DEF Ordered
<1>7. Divided(Local.segment, Local.runs, column)'
  BY <1>3, <1>4 DEF Divided
<1>8. MemoryFits(Local, 0)'
  BY <1>3 DEF MemoryFits, Charge
<1>9. QED
  BY <1>5, <1>6, <1>7, <1>8 DEF Held

\* Nothing was inserted and nothing is held.
LEMMA InvInit == Init => Inv
<1> SUFFICES ASSUME Init PROVE Inv
  OBVIOUS
<1>1. /\ segment = NoSegment /\ runs = << >> /\ compactions = 0 /\ widest = 0
      /\ column = << >> /\ pressure = 0 /\ status = "open"
      /\ mode \in Modes /\ disk = "writable" /\ cancelled = FALSE
  BY DEF Init
<1>2. /\ FanIn \in Nat /\ 0 \in 0..FanIn /\ MaxPressure \in Nat /\ MaxRows \in Nat
      /\ SampleUnits \in Nat /\ SampleUnits <= MemoryCap
  BY Numbers
<1>3. NoSegment \in Segments /\ Fits(NoSegment) /\ Charge(NoSegment) = 0
      /\ Range(NoSegment.records) = {}
  BY NoSegmentFits
<1>4. Ordered(<< >>, FanIn) /\ Written(<< >>) = {} /\ << >> \in Seq(Run)
  BY <1>2, NoRuns
<1>5. Local \in Locals
  BY <1>1, <1>2, <1>3, <1>4, LocalTyped
<1>6. Typed
  <2>1. << >> \in Seq(Values) /\ Len(<< >>) <= MaxRows /\ 0 \in 0..MaxPressure
    BY <1>2
  <2>2. QED
    BY <1>1, <1>5, <2>1 DEF Typed
<1>7. Divided(NoSegment, << >>, << >>)
  <2>1. RowsOf(<< >>) = {}
    BY DEF RowsOf
  <2>2. DOMAIN << >> = {}
    OBVIOUS
  <2>3. QED
    BY <1>3, <1>4, <2>1, <2>2 DEF Divided
<1>8. MemoryFits(Local, 0)
  BY <1>1, <1>2, <1>3, LocalParts DEF MemoryFits
<1>9. Held(Local, column, FanIn)
  BY <1>1, <1>3, <1>4, <1>7, <1>8, LocalParts DEF Held
<1>10. QED
  BY <1>1, <1>6, <1>9 DEF Inv

\* What the invariant says of the parameters of the lemmas.
LEMMA Known ==
    ASSUME Inv
    PROVE  /\ mode \in Modes /\ mode.directory \in BOOLEAN /\ column \in Seq(Values)
           /\ Len(column) <= MaxRows /\ Len(column) \in Nat
           /\ pressure \in 0..MaxPressure /\ pressure \in Nat
           /\ Local \in Locals /\ segment \in Segments /\ runs \in Seq(Run)
           /\ compactions \in Nat /\ widest \in 0..FanIn
           /\ FanIn \in Nat /\ SampleUnits \in Nat /\ MemoryCap \in Nat
<1>1. mode \in Modes /\ column \in Seq(Values) /\ Len(column) <= MaxRows
      /\ pressure \in 0..MaxPressure /\ Local \in Locals
  BY DEF Inv, Typed
<1>2. FanIn \in Nat /\ SampleUnits \in Nat /\ MemoryCap \in Nat /\ MaxPressure \in Nat
      /\ mode.directory \in BOOLEAN
  BY <1>1, BoundsAssumption
<1>3. pressure \in Nat /\ Len(column) \in Nat
  BY <1>1, <1>2
<1>4. segment \in Segments /\ runs \in Seq(Run) /\ compactions \in Nat /\ widest \in 0..FanIn
  BY <1>1, LocalTypes, LocalParts
<1>5. QED
  BY <1>1, <1>2, <1>3, <1>4

\* A damaged file changes only its content; what was charged and written stays.
LEMMA DamageKeeps ==
    ASSUME NEW rs \in Seq(Run), NEW i \in DOMAIN rs, NEW content \in Seq(Records),
           NEW seg, NEW c, NEW n \in Nat, Ordered(rs, n), Divided(seg, rs, c)
    PROVE  /\ [rs EXCEPT ![i].content = content] \in Seq(Run)
           /\ Ordered([rs EXCEPT ![i].content = content], n)
           /\ Divided(seg, [rs EXCEPT ![i].content = content], c)
<1> DEFINE u == [rs EXCEPT ![i].content = content]
           a(k) == Temp!Fold(0, SubSeq(rs, 1, k))
           b(k) == Temp!Fold(0, SubSeq(u, 1, k))
           B == {k \in Nat : k <= Len(rs) => a(k) = b(k)}
<1>1. /\ Len(rs) \in Nat /\ DOMAIN rs = 1..Len(rs) /\ DOMAIN u = DOMAIN rs
      /\ \A k \in DOMAIN rs : rs[k] \in Run
  OBVIOUS
<1>2. /\ u[i] = [rs[i] EXCEPT !.content = content]
      /\ \A k \in DOMAIN rs : k # i => u[k] = rs[k]
  BY <1>1
<1>3. \A k \in DOMAIN rs : /\ u[k] \in Run /\ u[k].checksum = rs[k].checksum
                           /\ u[k].units = rs[k].units
  <2>1. /\ u[i] \in Run /\ u[i].checksum = rs[i].checksum /\ u[i].units = rs[i].units
    <3> DEFINE q == rs[i]
    <3>1. q \in Run
      BY <1>1
    <3> HIDE DEF q
    <3>2. /\ [q EXCEPT !.content = content] \in Run
          /\ [q EXCEPT !.content = content].checksum = q.checksum
          /\ [q EXCEPT !.content = content].units = q.units
      BY <3>1 DEF Run
    <3> HIDE DEF u
    <3>3. QED
      BY <1>2, <3>2 DEF q
  <2> HIDE DEF u
  <2>2. QED
    BY <1>1, <1>2, <2>1
<1>4. u \in Seq(Run) /\ Len(u) = Len(rs)
  <2>1. u = [k \in 1..Len(rs) |-> u[k]]
    BY <1>1
  <2> HIDE DEF u
  <2>2. [k \in 1..Len(rs) |-> u[k]] \in Seq(Run)
    BY <1>1, <1>3
  <2>3. u \in Seq(Run)
    BY <2>1, <2>2
  <2>4. QED
    BY <1>1, <2>3
<1> HIDE DEF u
<1>5. 0 \in B
  <2>1. a(0) = 0 /\ b(0) = 0
    BY <1>4, Temp!FoldEnds
  <2> HIDE DEF a, b
  <2>2. QED
    BY <1>1, <2>1
<1>6. ASSUME NEW k \in B PROVE k + 1 \in B
  <2>1. SUFFICES ASSUME k + 1 <= Len(rs) PROVE a(k + 1) = b(k + 1)
    OBVIOUS
  <2>2. k \in Nat /\ k < Len(rs) /\ a(k) = b(k) /\ k + 1 \in DOMAIN rs
    BY <1>1, <2>1
  <2>3. a(k + 1) = AddUnits(a(k), rs[k + 1])
    BY <2>2, Temp!FoldStep
  <2>4. b(k + 1) = AddUnits(b(k), u[k + 1])
    BY <1>4, <2>2, Temp!FoldStep
  <2> HIDE DEF a, b
  <2>5. QED
    BY <1>3, <2>2, <2>3, <2>4 DEF AddUnits
<1>7. B = Nat
  <2>1. B \in SUBSET Nat
    OBVIOUS
  <2> HIDE DEF B
  <2>2. QED
    BY <1>5, <1>6, <2>1, Temp!NatSetInduction
<1>8. Temp!Fold(0, rs) = Temp!Fold(0, u)
  <2>1. a(Len(rs)) = b(Len(rs))
    <3>1. Len(rs) \in B
      BY <1>1, <1>7
    <3> HIDE DEF a, b
    <3>2. QED
      BY <1>1, <3>1
  <2>2. SubSeq(rs, 1, Len(rs)) = rs /\ SubSeq(u, 1, Len(rs)) = u
    BY ONLY rs \in Seq(Run), <1>4, SubSeqFull
  <2>3. QED
    BY <2>1, <2>2
<1>9. TempUsed(u) = TempUsed(rs)
  BY <1>8 DEF TempUsed, Temp!Fold, FoldLeft, Temp!FoldLeft, MapThenFoldSet,
              Temp!MapThenFoldSet, Max, Temp!Max
<1> HIDE DEF B
<1>10. Ordered(u, n)
  <2>1. rs = << >> => u = << >>
    BY <1>4
  <2>2. QED
    BY <1>1, <1>3, <1>4, <1>9, <2>1 DEF Ordered
<1>11. Written(u) = Written(rs)
  BY <1>1, <1>3 DEF Written
<1>12. Divided(seg, u, c)
  BY <1>1, <1>3, <1>11 DEF Divided
<1>13. QED
  BY <1>4, <1>10, <1>12 DEF u

\* A file that was cut or whose first value was replaced still has records.
LEMMA DamagedContent ==
    ASSUME NEW t \in Seq(Records), NEW v \in Values
    PROVE  Front(t) \in Seq(Records) /\ [t EXCEPT ![1][1] = v] \in Seq(Records)
<1>1. Len(t) \in Nat /\ DOMAIN t = 1..Len(t) /\ \A k \in DOMAIN t : t[k] \in Records
  OBVIOUS
<1>2. Front(t) \in Seq(Records)
  BY <1>1 DEF Front
<1> DEFINE u == [t EXCEPT ![1][1] = v]
           r == t[1]
<1>3. CASE Len(t) = 0
  <2>1. u = t
    BY <1>1, <1>3
  <2>2. QED
    BY <1>2, <2>1
<1>4. CASE Len(t) > 0
  <2>1. r \in Records
    BY <1>1, <1>4
  <2>2. r = <<r[1], r[2]>> /\ r[2] \in 1..MaxRows
    BY <2>1, RecordsTyped
  <2> HIDE DEF r
  <2>3. [r EXCEPT ![1] = v] = <<v, r[2]>>
    BY <2>2
  <2>4. [r EXCEPT ![1] = v] \in Records
    BY <2>2, <2>3 DEF Records
  <2>5. u = [t EXCEPT ![1] = [r EXCEPT ![1] = v]]
    BY DEF r
  <2> DEFINE x == [r EXCEPT ![1] = v]
  <2> HIDE DEF x
  <2>6. x \in Records
    BY <2>4 DEF x
  <2>7. [t EXCEPT ![1] = x] = [k \in 1..Len(t) |-> IF k = 1 THEN x ELSE t[k]]
    BY <1>1
  <2>8. [k \in 1..Len(t) |-> IF k = 1 THEN x ELSE t[k]] \in Seq(Records)
    BY <1>1, <2>6
  <2>9. QED
    BY <1>2, <2>5, <2>7, <2>8 DEF x
<1>5. QED
  BY <1>1, <1>3, <1>4

\* What a run or a segment can be does not change while the kind of values stays.
LEMMA SameLocals ==
    ASSUME mode' = mode
    PROVE  Locals' = Locals
<1>1. \A t : LongestRecord(t)' = LongestRecord(t)
  BY DEF LongestRecord
<1>2. Run' = Run
  BY <1>1 DEF Run
<1>3. Segments' = Segments /\ Errors' = Errors
  BY DEF Segments, Errors, Records
<1>4. QED
  BY <1>2, <1>3 DEF Locals

\* One more value.
LEMMA InvInsert ==
    ASSUME Inv, NEW v \in Values, Insert(v)
    PROVE  /\ Inv'
           /\ status' = "corrupt" => Damaged(runs) \/ TooLong(column')
           /\ status' \in {"open", "limit", "io", "corrupt", "cancelled"} /\ column' # column
<1> DEFINE c == Append(column, v)
           s == Compact(Push(MakeRoom(Local, v), v, Len(column) + 1))
<1>1. /\ status = "open" /\ Len(column) + 1 <= MaxRows /\ Store(s) /\ column' = c
      /\ status' = (IF Ok(s) THEN "open" ELSE s.err)
      /\ mode' = mode /\ pressure' = pressure /\ disk' = disk /\ cancelled' = cancelled
      /\ summary' = summary
  BY DEF Insert
<1>2. Held(Local, column, FanIn)
  BY <1>1 DEF Inv
<1>3. /\ s \in Locals
      /\ Ok(s) => Held(s, c, FanIn)
      /\ s.err = "corrupt" => Damaged(Local.runs) \/ TooLong(c)
  BY <1>1, <1>2, Known, LocalParts, InsertKeeps
<1>4. c \in Seq(Values) /\ Len(c) = Len(column) + 1 /\ c # column
  BY Known
<1> HIDE DEF s, c
<1>5. /\ segment' = (IF Ok(s) THEN s.segment ELSE NoSegment)
      /\ runs' = (IF Ok(s) THEN s.runs ELSE << >>)
      /\ compactions' = s.compactions /\ widest' = s.widest
  BY <1>1 DEF Store
<1>6. /\ s.segment \in Segments /\ s.runs \in Seq(Run) /\ s.compactions \in Nat
      /\ s.widest \in 0..FanIn /\ s.err \in Errors
  BY <1>3, LocalTypes
<1>7. segment' \in Segments /\ runs' \in Seq(Run)
  BY <1>5, <1>6, NoSegmentFits, NoRuns, Known
<1>8. Local' \in Locals
  BY <1>5, <1>6, <1>7 DEF Local, Locals, Errors
<1>9. status' \in {"open", "limit", "io", "corrupt", "cancelled"}
  BY <1>1, <1>6 DEF Errors, Ok
<1>10. Typed'
  <2>1. /\ disk \in {"writable", "full", "gone"} /\ cancelled \in BOOLEAN
    BY DEF Inv, Typed
  <2>2. mode' \in Modes /\ pressure' \in 0..MaxPressure
    BY <1>1, Known
  <2>3. column' \in Seq(Values) /\ Len(column') <= MaxRows
    BY <1>1, <1>4
  <2>4. disk' \in {"writable", "full", "gone"} /\ cancelled' \in BOOLEAN
    BY <1>1, <2>1
  <2>5. status' \in {"open", "done", "limit", "io", "corrupt", "cancelled"}
    BY <1>9
  <2>6. (Local \in Locals)'
    BY <1>1, <1>8, SameLocals
  <2>7. QED
    BY <2>2, <2>3, <2>4, <2>5, <2>6 DEF Typed
<1>11. CASE Ok(s)
  <2>1. SampleUnits + pressure' + Charge(s.segment) + 0 <= MemoryCap
    BY <1>1, <1>3, <1>11 DEF Held, MemoryFits
  <2>2. segment' = s.segment /\ runs' = s.runs /\ status' = "open"
    BY <1>1, <1>5, <1>11
  <2>3. Held(Local, column, FanIn)'
    BY <1>1, <1>3, <1>11, <2>1, <2>2, HeldAfter
  <2>4. Inv'
    BY <1>10, <2>2, <2>3 DEF Inv
  <2>5. QED
    BY <1>1, <1>4, <1>9, <2>2, <2>4
<1>12. CASE ~Ok(s)
  <2>1. segment' = NoSegment /\ runs' = << >> /\ status' = s.err /\ s.err # "none"
    BY <1>1, <1>5, <1>12 DEF Ok
  <2>2. status' # "open" /\ status' # "done"
    BY <1>6, <2>1 DEF Errors
  <2>3. SampleUnits + pressure <= MemoryCap
    <3>1. SampleUnits + pressure + Charge(segment) + 0 <= MemoryCap
      BY <1>2, LocalParts DEF Held, MemoryFits
    <3>2. Charge(segment) \in Nat
      BY Known DEF Charge, Segments
    <3>3. QED
      BY <3>1, <3>2, Known
  <2>4. NoSegment' = NoSegment
    BY DEF NoSegment
  <2>5. Inv'
    BY <1>1, <1>10, <2>1, <2>2, <2>3, <2>4 DEF Inv
  <2>6. s.err = "corrupt" => Damaged(runs) \/ TooLong(column')
    BY <1>1, <1>3, LocalParts
  <2>7. QED
    BY <1>1, <1>4, <1>9, <2>1, <2>5, <2>6
<1>13. QED
  BY <1>11, <1>12

\* What an open state leaves of the memory when it is dropped.
LEMMA MemoryWhenDropped ==
    ASSUME Inv, status = "open"
    PROVE  SampleUnits + pressure <= MemoryCap
<1>1. SampleUnits + pressure + Charge(segment) + 0 <= MemoryCap
  BY LocalParts DEF Inv, Held, MemoryFits
<1>2. Charge(segment) \in Nat
  BY Known DEF Charge, Segments
<1>3. QED
  BY <1>1, <1>2, Known

\* A state without a directory has no runs.
LEMMA NeverSpilled ==
    ASSUME Inv, ~mode.directory
    PROVE  runs = << >>
BY LocalParts DEF Inv, Held, Ordered

\* Typed without the local state, when only the status may change.
LEMMA TypedAfter ==
    ASSUME Inv, UNCHANGED <<mode, column, compactions, widest>>, pressure' \in 0..MaxPressure,
           disk' \in {"writable", "full", "gone"}, cancelled' \in BOOLEAN,
           status' \in {"open", "done", "limit", "io", "corrupt", "cancelled"},
           segment' \in Segments, runs' \in Seq(Run)
    PROVE  Typed'
<1>1. mode' \in Modes /\ column' \in Seq(Values) /\ Len(column') <= MaxRows
      /\ compactions' \in Nat /\ widest' \in 0..FanIn
  BY Known
<1>2. Local' \in Locals
  BY <1>1 DEF Local, Locals, Errors
<1>3. (Local \in Locals)'
  BY <1>2, SameLocals
<1>4. QED
  BY <1>1, <1>3 DEF Typed

\* The state is finished.
LEMMA InvFinish ==
    ASSUME Inv, Finish
    PROVE  /\ Inv' /\ runs' = << >> /\ column' = column
           /\ ~mode.directory => status' \in {"done", "cancelled"}
           /\ status' = "corrupt" => Damaged(runs) \/ TooLong(column')
<1> DEFINE s == Seal(Local)
           r == IF runs = << >> THEN ResultInMemory ELSE Result(s)
<1>1. /\ status = "open"
      /\ status' = (IF r.err = "none" THEN "done" ELSE r.err)
      /\ summary' = (IF r.err = "none" THEN <<r>> ELSE << >>)
      /\ segment' = NoSegment /\ runs' = << >>
      /\ UNCHANGED <<mode, compactions, widest, column, pressure, disk, cancelled>>
  BY DEF Finish
<1>2. Held(Local, column, FanIn)
  BY <1>1 DEF Inv
<1>3. CASE runs = << >>
  <2>1. r = ResultInMemory
    BY <1>3
  <2>2. segment.records \in Seq(Records)
    BY Known DEF Segments
  <2>3. Range(segment.records) = RowsOf(column)
    <3>1. Divided(segment, << >>, column)
      BY <1>2, <1>3, LocalParts DEF Held
    <3>2. Written(<< >>) = {}
      BY Known, NoRuns
    <3>3. QED
      BY <3>1, <3>2 DEF Divided
  <2>4. QED
    <3> HIDE DEF r
    <3>1. r.err \in {"none", "cancelled"} /\ (r.err = "none" => Exact(r, column))
      BY <2>1, <2>2, <2>3, Known, InMemoryKeeps
    <3> DEFINE e == r.err
    <3>2. status' \in {"done", "cancelled"} /\ status' # "corrupt"
      BY <1>1, <3>1
    <3>3. status' = "done" => Exact(summary'[1], column)
      BY <1>1, <3>1
    <3>4. QED
      <4>1. Typed'
        <5>1. disk' \in {"writable", "full", "gone"} /\ cancelled' \in BOOLEAN
          BY <1>1 DEF Inv, Typed
        <5>2. segment' \in Segments /\ runs' \in Seq(Run) /\ pressure' \in 0..MaxPressure
          BY <1>1, NoSegmentFits, NoRuns, Known
        <5>3. QED
          BY <1>1, <3>2, <5>1, <5>2, TypedAfter
      <4>2. NoSegment' = NoSegment
        BY DEF NoSegment
      <4>3. SampleUnits + pressure' <= MemoryCap
        BY <1>1, MemoryWhenDropped
      <4>4. Inv'
        BY <1>1, <3>2, <3>3, <4>1, <4>2, <4>3 DEF Inv
      <4>5. QED
        BY <1>1, <3>2, <4>4
<1>4. CASE runs # << >>
  <2>1. r = Result(s)
    BY <1>4
  <2>2. mode.directory
    BY <1>4, NeverSpilled
  <2>3. /\ s \in Locals
        /\ Ok(s) => /\ Held(s, column, FanIn) /\ s.segment = NoSegment
                    /\ Damaged(s.runs) => Damaged(runs)
        /\ s.err = "corrupt" => Damaged(runs) \/ TooLong(column)
    BY <1>2, Known, LocalParts, SealKeeps
  <2> HIDE DEF s
  <2>4. /\ Result(s).err \in Errors
        /\ Result(s).err = "none" => Exact(Result(s), column)
        /\ Result(s).err = "corrupt" =>
             s.err = "corrupt" \/ (Ok(s) /\ Damaged(s.runs)) \/ TooLong(column)
    BY <2>3, Known, ResultKeeps
  <2> HIDE DEF r
  <2>5. /\ r.err \in Errors /\ (r.err = "none" => Exact(r, column))
        /\ r.err = "corrupt" => Damaged(runs) \/ TooLong(column)
    BY <2>1, <2>3, <2>4
  <2>6. /\ status' \in {"done", "limit", "io", "corrupt", "cancelled"}
        /\ status' = "corrupt" => Damaged(runs) \/ TooLong(column')
    BY <1>1, <2>5 DEF Errors
  <2>7. status' = "done" => Exact(summary'[1], column)
    BY <1>1, <2>5 DEF Errors
  <2>8. Typed'
    <3>1. disk' \in {"writable", "full", "gone"} /\ cancelled' \in BOOLEAN
      BY <1>1 DEF Inv, Typed
    <3>2. segment' \in Segments /\ runs' \in Seq(Run) /\ pressure' \in 0..MaxPressure
      BY <1>1, NoSegmentFits, NoRuns, Known
    <3>3. QED
      BY <1>1, <2>6, <3>1, <3>2, TypedAfter
  <2>9. NoSegment' = NoSegment
    BY DEF NoSegment
  <2>10. SampleUnits + pressure' <= MemoryCap
    BY <1>1, MemoryWhenDropped
  <2>11. Inv'
    BY <1>1, <2>6, <2>7, <2>8, <2>9, <2>10 DEF Inv
  <2>12. QED
    BY <1>1, <2>2, <2>6, <2>11
<1>5. QED
  BY <1>3, <1>4

\* The other states, the disk and the token change nothing that is held.
LEMMA InvOutside ==
    ASSUME Inv, OtherStates \/ DiskFails \/ Cancel
    PROVE  Inv'
<1>1. /\ status = "open" /\ UNCHANGED <<mode, column, compactions, widest, status>>
      /\ segment' = segment /\ runs' = runs
      /\ disk' \in {"writable", "full", "gone"} /\ cancelled' \in BOOLEAN
      /\ pressure' \in 0..MaxPressure
      /\ SampleUnits + pressure' + Charge(segment) <= MemoryCap
  <2>1. disk \in {"writable", "full", "gone"} /\ cancelled \in BOOLEAN
    BY DEF Inv, Typed
  <2>2. status = "open"
    BY DEF OtherStates, DiskFails, Cancel
  <2>3. Charge(segment) \in Nat
    BY Known DEF Charge, Segments
  <2>4. SampleUnits + pressure + Charge(segment) <= MemoryCap
    <3>1. SampleUnits + pressure + Charge(segment) + 0 <= MemoryCap
      BY <2>2, LocalParts DEF Inv, Held, MemoryFits
    <3>2. QED
      BY <2>3, <3>1, Known
  <2>5. CASE OtherStates
    BY <2>1, <2>5 DEF OtherStates
  <2>6. CASE DiskFails
    BY <2>1, <2>4, <2>6, Known DEF DiskFails
  <2>7. CASE Cancel
    BY <2>1, <2>4, <2>7, Known DEF Cancel
  <2>8. QED
    BY <2>5, <2>6, <2>7
<1>2. Held(Local, column, FanIn) /\ Local.segment = segment /\ Local.runs = runs
  BY <1>1, LocalParts DEF Inv
<1>3. Typed'
  BY <1>1, Known, TypedAfter
<1>4. SampleUnits + pressure' + Charge(segment) + 0 <= MemoryCap
  <2>1. Charge(segment) \in Nat /\ pressure' \in Int
    BY <1>1, Known DEF Charge, Segments
  <2>2. QED
    BY <1>1, <2>1, Known
<1>5. Held(Local, column, FanIn)'
  <2> DEFINE t == Local
             c == column
  <2>1. /\ Held(t, c, FanIn) /\ mode' = mode /\ segment' = t.segment /\ runs' = t.runs
        /\ column' = c /\ SampleUnits + pressure' + Charge(t.segment) + 0 <= MemoryCap
    BY <1>1, <1>2, <1>4
  <2> HIDE DEF t, c
  <2>2. QED
    BY <2>1, HeldAfter
<1>6. QED
  BY <1>1, <1>3, <1>5 DEF Inv

\* A file is damaged.
LEMMA InvDamage ==
    ASSUME Inv, Damage
    PROVE  Inv' /\ status' = status /\ column' = column
<1>1. /\ status = "open"
      /\ UNCHANGED <<mode, segment, compactions, widest, column, pressure, disk, cancelled,
                     status, summary>>
  BY DEF Damage
<1>2. PICK i \in DOMAIN runs : \E content \in {Front(runs[i].content)} \cup
                          {[runs[i].content EXCEPT ![1][1] = v] : v \in Values} :
                   runs' = [runs EXCEPT ![i].content = content]
  BY DEF Damage
<1>3. PICK content \in {Front(runs[i].content)} \cup
                          {[runs[i].content EXCEPT ![1][1] = v] : v \in Values} :
                   runs' = [runs EXCEPT ![i].content = content]
  BY <1>2
<1>4. runs[i].content \in Seq(Records)
  <2>1. runs[i] \in Run
    BY Known
  <2>2. QED
    BY <2>1 DEF Run
<1>5. content \in Seq(Records)
  <2>1. CASE content = Front(runs[i].content)
    <3>1. Front(runs[i].content) = SubSeq(runs[i].content, 1, Len(runs[i].content) - 1)
      BY DEF Front
    <3>2. QED
      BY <1>4, <2>1, <3>1
  <2>2. CASE \E v \in Values : content = [runs[i].content EXCEPT ![1][1] = v]
    BY <1>4, <2>2, DamagedContent
  <2>3. QED
    BY <1>3, <2>1, <2>2
<1>6. Held(Local, column, FanIn)
  BY <1>1 DEF Inv
<1>7. Fits(segment) /\ Ordered(runs, FanIn) /\ Divided(segment, runs, column)
      /\ SampleUnits + pressure + Charge(segment) + 0 <= MemoryCap
  BY <1>6, LocalParts DEF Held, MemoryFits
<1>8. runs' \in Seq(Run) /\ Ordered(runs', FanIn) /\ Divided(segment, runs', column)
  BY <1>3, <1>5, <1>7, Known, DamageKeeps
<1>9. Typed'
  <2>1. disk' \in {"writable", "full", "gone"} /\ cancelled' \in BOOLEAN
        /\ status' \in {"open", "done", "limit", "io", "corrupt", "cancelled"}
    BY <1>1 DEF Inv, Typed
  <2>2. QED
    BY <1>1, <1>8, <2>1, Known, TypedAfter
<1>10. Held(Local, column, FanIn)'
  <2> DEFINE t == [segment |-> segment, runs |-> runs']
             c == column
  <2>1. t.segment = segment /\ t.runs = runs'
    OBVIOUS
  <2> HIDE DEF t
  <2>2. Held(t, c, FanIn)
    BY <1>7, <1>8, <2>1 DEF Held, MemoryFits
  <2>3. /\ mode' = mode /\ segment' = t.segment /\ runs' = t.runs
        /\ column' = c /\ SampleUnits + pressure' + Charge(t.segment) + 0 <= MemoryCap
    BY <1>1, <1>7, <2>1
  <2> HIDE DEF c
  <2>4. QED
    BY <2>2, <2>3, HeldAfter
<1>11. QED
  BY <1>1, <1>9, <1>10 DEF Inv

\* Every step keeps the invariant, and tells how a state ends.
LEMMA InvStep ==
    ASSUME Inv, [Next]_vars
    PROVE  /\ Inv'
           /\ status = "open" /\ status' = "corrupt" => Damaged(runs) \/ TooLong(column')
           /\ ~mode.directory =>
                /\ runs' = << >>
                /\ status = "open" /\ status' # "open" /\ UNCHANGED column =>
                     status' \in {"done", "cancelled"}
<1>1. CASE \E v \in Values : Insert(v)
  <2>1. PICK v \in Values : Insert(v)
    BY <1>1
  <2>2. /\ Inv' /\ column' # column
        /\ status' = "corrupt" => Damaged(runs) \/ TooLong(column')
    BY <2>1, InvInsert
  <2>3. mode' = mode
    BY <2>1 DEF Insert
  <2>4. ~mode.directory => runs' = << >>
    <3>1. SUFFICES ASSUME ~mode.directory PROVE runs' = << >>
      OBVIOUS
    <3>2. ~mode'.directory
      BY <2>3, <3>1
    <3>3. status' = "open" => Ordered(Local.runs, FanIn)'
      BY <2>2 DEF Inv, Held
    <3>4. Local'.runs = runs'
      BY DEF Local
    <3>5. status' = "open" => runs' = << >>
      BY <3>2, <3>3, <3>4 DEF Ordered
    <3>6. status' # "open" => runs' = << >>
      BY <2>2 DEF Inv
    <3>7. QED
      BY <3>5, <3>6
  <2>5. QED
    BY <2>2, <2>4
<1>2. CASE Finish
  BY <1>2, InvFinish
<1>3. CASE OtherStates \/ DiskFails \/ Cancel
  <2>1. Inv' /\ status' = status /\ runs' = runs
    BY <1>3, InvOutside DEF OtherStates, DiskFails, Cancel
  <2>2. ~mode.directory => runs' = << >>
    BY <2>1, NeverSpilled
  <2>3. QED
    BY <2>1, <2>2
<1>4. CASE Damage
  <2>1. Inv' /\ status' = status /\ mode' = mode
    BY <1>4, InvDamage DEF Damage
  <2>2. ~mode.directory => runs' = << >>
    <3>1. SUFFICES ASSUME ~mode.directory PROVE FALSE
      OBVIOUS
    <3>2. runs = << >>
      BY <3>1, NeverSpilled
    <3>3. \E i \in DOMAIN runs : TRUE
      BY <1>4 DEF Damage
    <3>4. QED
      BY <3>2, <3>3
  <2>3. QED
    BY <2>1, <2>2
<1>5. CASE UNCHANGED vars
  <2>1. UNCHANGED <<mode, segment, runs, compactions, widest, column, pressure, disk,
                    cancelled, status, summary>>
    BY <1>5 DEF vars
  <2>2. Typed'
    <3>1. disk \in {"writable", "full", "gone"} /\ cancelled \in BOOLEAN
          /\ status \in {"open", "done", "limit", "io", "corrupt", "cancelled"}
      BY DEF Inv, Typed
    <3>2. QED
      BY <2>1, <3>1, Known, TypedAfter
  <2>3. CASE status = "open"
    <3>1. Held(Local, column, FanIn) /\ Local.segment = segment /\ Local.runs = runs
      BY <2>3, LocalParts DEF Inv
    <3>2. SampleUnits + pressure + Charge(segment) + 0 <= MemoryCap
      BY <3>1 DEF Held, MemoryFits
    <3> DEFINE t == Local
               c == column
    <3>3. /\ Held(t, c, FanIn) /\ mode' = mode /\ segment' = t.segment /\ runs' = t.runs
          /\ column' = c /\ SampleUnits + pressure' + Charge(t.segment) + 0 <= MemoryCap
      BY <2>1, <3>1, <3>2
    <3> HIDE DEF t, c
    <3>4. Held(Local, column, FanIn)'
      BY <3>3, HeldAfter
    <3>5. Inv'
      BY <2>1, <2>2, <2>3, <3>4 DEF Inv
    <3>6. QED
      BY <2>1, <2>3, <3>5, NeverSpilled
  <2>4. CASE status # "open"
    <3>1. segment = NoSegment /\ runs = << >> /\ SampleUnits + pressure <= MemoryCap
          /\ (status = "done" => Exact(summary[1], column))
      BY <2>4 DEF Inv
    <3>2. NoSegment' = NoSegment
      BY DEF NoSegment
    <3>3. Inv'
      BY <2>1, <2>2, <2>4, <3>1, <3>2 DEF Inv
    <3>4. QED
      BY <2>1, <2>4, <3>1, <3>3
  <2>5. QED
    BY <2>3, <2>4
<1>6. QED
  BY <1>1, <1>2, <1>3, <1>4, <1>5 DEF Next

\* The types of the state follow from the invariant.
LEMMA TypesHold == Inv => TypeOK
<1> SUFFICES ASSUME Inv PROVE TypeOK
  OBVIOUS
<1>1. /\ segment.capacity \in Nat /\ segment.arena \in 0..MaxArena
      /\ segment.records \in Seq(Records)
  BY Known DEF Segments
<1>2. ASSUME NEW i \in DOMAIN runs
      PROVE  /\ runs[i].content \in Seq(Records) /\ runs[i].checksum \in Seq(Records)
             /\ runs[i].units = NewRun(runs[i].checksum).units
  <2>1. runs[i] \in Run
    BY Known
  <2>2. status = "open"
    <3>1. runs # << >>
      BY <1>2
    <3>2. QED
      BY <3>1 DEF Inv
  <2>3. Ordered(runs, FanIn)
    BY <2>2, LocalParts DEF Inv, Held
  <2>4. QED
    BY <2>1, <2>3 DEF Run, Ordered
<1>3. widest \in Nat
  BY Known
<1>4. QED
  BY <1>1, <1>2, <1>3, Known DEF TypeOK, Inv, Typed

\* And so do the budgets.
LEMMA BudgetsHold == Inv => WithinBudgets
<1> SUFFICES ASSUME Inv PROVE WithinBudgets
  OBVIOUS
<1>1. TypeOK
  BY TypesHold
<1>2. Charge(segment) \in Nat /\ FanIn \in Nat
  BY Known DEF Charge, Segments
<1>3. CASE status = "open"
  <2>1. Held(Local, column, FanIn) /\ Local.segment = segment /\ Local.runs = runs
    BY <1>3, LocalParts DEF Inv
  <2>2. SampleUnits + pressure + Charge(segment) + 0 <= MemoryCap
    BY <2>1 DEF Held, MemoryFits
  <2>3. SampleUnits + pressure + Charge(segment) <= MemoryCap
    BY <1>2, <2>2, Known
  <2>4. QED
    BY <1>1, <1>3, <2>1, <2>3 DEF WithinBudgets, Held, Fits, Ordered
<1>4. CASE status # "open"
  <2>1. /\ segment = NoSegment /\ runs = << >> /\ SampleUnits + pressure <= MemoryCap
        /\ status = "done" => summary[1].widest \in 0..FanIn
    BY <1>4 DEF Inv, Exact
  <2>2. SampleUnits + pressure + Charge(segment) <= MemoryCap
    BY <2>1, NoSegmentFits, Known
  <2>3. Fits(segment) /\ Ordered(runs, FanIn)
    BY <1>2, <2>1, NoSegmentFits, NoRuns
  <2>4. status = "done" => summary[1].widest <= FanIn
    BY <1>2, <2>1
  <2>5. QED
    BY <1>1, <2>2, <2>3, <2>4 DEF WithinBudgets, Fits, Ordered
<1>5. QED
  BY <1>3, <1>4

\* The counts of the summary are those of the column.
LEMMA SummaryHolds == Inv => SummaryIsExact
BY SamplesExpected DEF Inv, Exact, SummaryIsExact

-----------------------------------------------------------------------------
(* The results *)

\* Whatever is inserted, spilled, damaged or cancelled, an open state holds the records
\* of the column, divided between the segment and sorted runs, and a finished one
\* returned what they count to.
THEOREM InvHolds == Spec => []Inv
BY InvInit, InvStep, PTL DEF Spec

\* ExactState::finish: whatever was spilled, compacted, grown or allocated smaller than
\* desired on the way, the counts and the samples are those of the column.
THEOREM SummaryIsExactHolds == Spec => []SummaryIsExact
BY InvHolds, SummaryHolds, PTL

\* try_reserve_memory, try_reserve_temp and the loop in run::compact: the charges stay
\* inside both budgets, the records inside what was charged, and no merge opens more
\* than FanIn runs.
THEOREM WithinBudgetsHolds == Spec => []WithinBudgets
BY InvHolds, BudgetsHold, PTL

\* finish_*_in_memory: without a directory nothing is spilled, and a column that was
\* accepted to its last value is summarised unless the operation was cancelled.
THEOREM InMemoryFinishesHolds == Spec => InMemoryFinishes
<1>1. ASSUME Inv, [Next]_vars
      PROVE  [~mode.directory =>
                /\ runs' = << >>
                /\ status = "open" /\ status' # "open" /\ UNCHANGED column =>
                     status' \in {"done", "cancelled"}]_vars
  BY <1>1, InvStep
<1>2. QED
  BY <1>1, InvHolds, PTL DEF Spec, InMemoryFinishes

\* verify_payload and RunCursor::next: corrupt data is reported only when some run was
\* damaged or when the column has a value that no cursor accepts.
THEOREM CorruptMeansDamagedHolds == Spec => CorruptMeansDamaged
<1>1. ASSUME Inv, [Next]_vars
      PROVE  [status = "open" /\ status' = "corrupt" =>
                \/ \E i \in DOMAIN runs : ~Verified(runs[i])
                \/ \E i \in DOMAIN column' : ValueLength(column'[i]) > MaxRecord]_vars
  BY <1>1, InvStep DEF Damaged, TooLong
<1>2. QED
  BY <1>1, InvHolds, PTL DEF Spec, CorruptMeansDamaged

\* What seal leaves for a walk over two states: every row of the column in exactly one
\* run, and the runs in the order of MergeEntry (that of KeyMerge).
SealedRuns ==
    status = "open" /\ Ok(Seal(Local)) =>
        LET rs == Seal(Local).runs IN
        /\ Written(rs) = RowsOf(column)
        /\ \A i, j \in DOMAIN rs :
             i # j => Range(rs[i].checksum) \cap Range(rs[j].checksum) = {}
        /\ \A i \in DOMAIN rs : \A j, k \in DOMAIN rs[i].checksum : j <= k =>
             LET a == rs[i].checksum[j]
                 b == rs[i].checksum[k]
             IN a[1] < b[1] \/ (a[1] = b[1] /\ a[2] <= b[2])

\* ExactState::seal: the runs that `intersect` and `anti_join` open are sorted and hold
\* the records of the column, whatever was spilled and compacted before.
THEOREM SealedRunsHold == Spec => []SealedRuns
<1>1. ASSUME Inv PROVE SealedRuns
  <2> DEFINE t == Seal(Local)
  <2>1. SUFFICES ASSUME status = "open", Ok(t)
                 PROVE  /\ Written(t.runs) = RowsOf(column)
                        /\ \A i, j \in DOMAIN t.runs :
                             i # j => Range(t.runs[i].checksum) \cap Range(t.runs[j].checksum) = {}
                        /\ \A i \in DOMAIN t.runs : \A j, k \in DOMAIN t.runs[i].checksum : j <= k =>
                             \/ t.runs[i].checksum[j][1] < t.runs[i].checksum[k][1]
                             \/ /\ t.runs[i].checksum[j][1] = t.runs[i].checksum[k][1]
                                /\ t.runs[i].checksum[j][2] <= t.runs[i].checksum[k][2]
    BY DEF SealedRuns
  <2>2. Held(Local, column, FanIn) /\ Ok(Local)
    BY <1>1, <2>1, LocalParts DEF Inv
  <2>3. t \in Locals /\ Held(t, column, FanIn) /\ t.segment = NoSegment
    BY <1>1, <2>1, <2>2, Known, SealKeeps
  <2> HIDE DEF t
  <2>4. t.runs \in Seq(Run) /\ Ordered(t.runs, FanIn) /\ Divided(t.segment, t.runs, column)
    BY <2>3, LocalTypes DEF Held
  <2>5. Written(t.runs) = RowsOf(column)
    BY <2>3, <2>4, NoSegmentFits DEF Divided
  <2>6. ASSUME NEW i \in DOMAIN t.runs, NEW j \in DOMAIN t.runs[i].checksum,
               NEW k \in DOMAIN t.runs[i].checksum, j <= k
        PROVE  \/ t.runs[i].checksum[j][1] < t.runs[i].checksum[k][1]
               \/ /\ t.runs[i].checksum[j][1] = t.runs[i].checksum[k][1]
                  /\ t.runs[i].checksum[j][2] <= t.runs[i].checksum[k][2]
    <3> DEFINE u == t.runs[i].checksum
    <3>1. t.runs[i] \in Run /\ Sorted(u)
      BY <2>4 DEF Ordered
    <3>2. u \in Seq(Records)
      BY <3>1 DEF Run
    <3> HIDE DEF u
    <3>3. j \in DOMAIN u /\ k \in DOMAIN u
      BY <2>6 DEF u
    <3>4. u[j] \in Records /\ j \in Nat /\ k \in Nat
      BY <3>2, <3>3
    <3>5. u[j][2] \in Nat
      BY <3>4, RecordsTyped
    <3>6. CASE j = k
      BY <3>5, <3>6 DEF u
    <3>7. CASE j < k
      <4>1. Before(u[j], u[k])
        BY <3>1, <3>3, <3>7 DEF Sorted
      <4>2. u[k] \in Records
        BY <3>2, <3>3
      <4>3. u[k][2] \in Nat
        BY <4>2, RecordsTyped
      <4>4. QED
        BY <3>5, <4>1, <4>3 DEF Before, u
    <3>8. QED
      BY <2>6, <3>4, <3>6, <3>7
  <2>7. QED
    BY <2>4, <2>5, <2>6 DEF Divided
<1>2. QED
  BY <1>1, InvHolds, PTL
===============================================================================
