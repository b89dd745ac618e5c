------------------------------ MODULE DiffProofs ------------------------------
(***************************************************************************)
(* Proofs about Diff for all datasets, options, keys, partitions, limits   *)
(* and sizes of buffers: a report is exact, the output is published whole  *)
(* or not at all, errors have their cause, and what is held in memory and  *)
(* on disk is reserved.                                                    *)
(*                                                                         *)
(* Until both datasets are read the argument is about where their rows     *)
(* are: each in memory or in the file of its partition, in order.  From    *)
(* then on it is about the changes noted so far, which are those of the    *)
(* rows that were compared: counts, samples and events are at every step   *)
(* those of NotedSoFar.  A file that somebody altered is either not taken  *)
(* for the rows it was written of, or has the same ones.                   *)
(***************************************************************************)
EXTENDS Diff, TLAPS, NaturalsInduction, FiniteSetTheorems, SequenceTheorems

Adding == INSTANCE SequenceFolds WITH Op <- Plus

-----------------------------------------------------------------------------
(* Numbers and totals *)

\* The smaller and the larger of two numbers.
LEMMA MinOfTwo ==
    ASSUME NEW m \in Int, NEW n \in Int
    PROVE  Min({m, n}) = IF m <= n THEN m ELSE n
BY DEF Min

\* The larger of two numbers.
LEMMA MaxOfTwo ==
    ASSUME NEW m \in Int, NEW n \in Int
    PROVE  Max({m, n}) = IF m >= n THEN m ELSE n
BY DEF Max

\* A total is a fold.
LEMMA TotalIsFold ==
    ASSUME NEW s
    PROVE  Total(s) = Adding!Fold(0, s)
BY DEF Total, Adding!Fold, FoldLeft, Adding!FoldLeft, MapThenFoldSet, Adding!MapThenFoldSet, Max, Adding!Max

\* The operation a total folds.
LEMMA PlusType ==
    /\ \A m, n \in Nat : Plus(m, n) \in Nat
    /\ \A m, n : Plus(m, n) = m + n
BY DEF Plus

\* A total of numbers is a number.
LEMMA TotalType ==
    ASSUME NEW s \in Seq(Nat)
    PROVE  Total(s) \in Nat
BY PlusType, TotalIsFold, Adding!FoldKeeps

\* Of nothing, the total is nothing.
LEMMA TotalEmpty == Total(<< >>) = 0
BY TotalIsFold, Adding!FoldEmpty

\* One more number.
LEMMA TotalAppend ==
    ASSUME NEW s \in Seq(Nat), NEW n \in Nat
    PROVE  Total(Append(s, n)) = Total(s) + n
<1>1. Adding!Fold(0, Append(s, n)) = Plus(Adding!Fold(0, s), n)
  BY Adding!FoldAppend
<1>2. QED
  BY <1>1, TotalIsFold, PlusType

\* The total of the first numbers.
LEMMA TotalStep ==
    ASSUME NEW s \in Seq(Nat), NEW k \in Nat, k < Len(s)
    PROVE  Total(SubSeq(s, 1, k + 1)) = Total(SubSeq(s, 1, k)) + s[k + 1]
<1>1. Adding!Fold(0, SubSeq(s, 1, k + 1)) = Plus(Adding!Fold(0, SubSeq(s, 1, k)), s[k + 1])
  BY Adding!FoldStep
<1>2. QED
  BY <1>1, TotalIsFold, PlusType

\* The total of no and of all numbers of a sequence.
LEMMA TotalEnds ==
    ASSUME NEW s \in Seq(Nat)
    PROVE  Total(SubSeq(s, 1, 0)) = 0 /\ Total(SubSeq(s, 1, Len(s))) = Total(s)
BY TotalIsFold, Adding!FoldEnds

\* The total of two sequences, one after the other.
LEMMA TotalConcat ==
    ASSUME NEW s \in Seq(Nat), NEW t \in Seq(Nat)
    PROVE  Total(s \o t) = Total(s) + Total(t)
<1> DEFINE F(b, u) == Adding!Fold(b, u)
<1>1. ASSUME NEW a \in Nat PROVE F(a, t) = a + F(0, t)
  <2> DEFINE R == {p \in Nat \X Nat : p[1] = a + p[2]}
  <2>1. <<a, 0>> \in R
    OBVIOUS
  <2>2. \A x \in Nat : \A u, v : <<u, v>> \in R => <<Plus(u, x), Plus(v, x)>> \in R
    <3>1. ASSUME NEW x \in Nat, NEW u, NEW v, <<u, v>> \in R
          PROVE  <<Plus(u, x), Plus(v, x)>> \in R
      <4>1. u \in Nat /\ v \in Nat /\ u = a + v
        BY <3>1
      <4>2. Plus(u, x) = u + x /\ Plus(v, x) = v + x
        BY PlusType
      <4>3. QED
        BY <4>1, <4>2
    <3>2. QED
      BY <3>1
  <2>3. <<F(a, t), F(0, t)>> \in R
    <3> HIDE DEF R
    <3>1. QED
      BY <2>1, <2>2, Adding!FoldsAgree
  <2> HIDE DEF F
  <2>4. QED
    BY <2>3
<1>2. F(0, s \o t) = F(F(0, s), t)
  BY Adding!FoldConcat
<1>3. F(0, s) = Total(s) /\ F(0, t) = Total(t) /\ F(0, s \o t) = Total(s \o t)
  BY TotalIsFold
<1> HIDE DEF F
<1>4. QED
  BY <1>1, <1>2, <1>3, TotalType

\* Two lists that differ in at most one number.
LEMMA TotalReplaced ==
    ASSUME NEW s, NEW t, s \in Seq(Nat), t \in Seq(Nat), Len(t) = Len(s),
           NEW i, i \in 1..Len(s), \A j \in 1..Len(s) : j # i => t[j] = s[j]
    PROVE  Total(t) = Total(s) - s[i] + t[i]
<1> DEFINE F(u, k) == Total(SubSeq(u, 1, k))
           B == {k \in Nat : k <= Len(s) => F(t, k) + (IF k >= i THEN s[i] ELSE 0)
                                      = F(s, k) + (IF k >= i THEN t[i] ELSE 0)}
<1>1. F(t, 0) = 0 /\ F(s, 0) = 0
  BY TotalEnds
<1>2. ASSUME NEW k \in Nat, k < Len(s)
      PROVE  /\ F(t, k) \in Nat /\ F(s, k) \in Nat /\ s[k + 1] \in Nat /\ t[k + 1] \in Nat
             /\ F(t, k + 1) = F(t, k) + t[k + 1] /\ F(s, k + 1) = F(s, k) + s[k + 1]
  <2>1. SubSeq(s, 1, k) \in Seq(Nat) /\ SubSeq(t, 1, k) \in Seq(Nat)
    BY <1>2
  <2>2. s[k + 1] \in Nat /\ t[k + 1] \in Nat
    BY <1>2
  <2>3. QED
    BY <1>2, <2>1, <2>2, TotalStep, TotalType
<1>3. F(t, Len(s)) = Total(t) /\ F(s, Len(s)) = Total(s)
  BY TotalEnds
<1> HIDE DEF F
<1>4. 0 \in B
  BY <1>1
<1>5. ASSUME NEW k, k \in B PROVE k + 1 \in B
  <2>1. CASE k < Len(s)
    <3>1. F(t, k) + (IF k >= i THEN s[i] ELSE 0) = F(s, k) + (IF k >= i THEN t[i] ELSE 0)
      BY <1>5, <2>1
    <3>2. t[i] \in Nat /\ s[i] \in Nat /\ i \in Nat /\ k \in Nat
      BY <1>5
    <3>3. k + 1 # i => t[k + 1] = s[k + 1]
      BY <2>1, <3>2
    <3>4. /\ F(t, k) \in Nat /\ F(s, k) \in Nat /\ t[k + 1] \in Nat /\ s[k + 1] \in Nat
          /\ F(t, k + 1) = F(t, k) + t[k + 1] /\ F(s, k + 1) = F(s, k) + s[k + 1]
      BY <1>2, <2>1, <3>2
    <3>5. F(t, k + 1) + (IF k + 1 >= i THEN s[i] ELSE 0)
            = F(s, k + 1) + (IF k + 1 >= i THEN t[i] ELSE 0)
      <4>1. CASE k + 1 = i
        BY ONLY <3>1, <3>2, <3>4, <4>1
      <4>2. CASE k + 1 < i
        BY ONLY <3>1, <3>2, <3>3, <3>4, <4>2
      <4>3. CASE k >= i
        <5>1. F(t, k) + s[i] = F(s, k) + t[i] /\ t[k + 1] = s[k + 1] /\ k + 1 >= i
          BY ONLY <3>1, <3>2, <3>3, <4>3
        <5>2. F(t, k + 1) + s[i] = F(s, k + 1) + t[i]
          BY ONLY <3>2, <3>4, <5>1
        <5>3. QED
          BY ONLY <5>1, <5>2
      <4>4. QED
        BY ONLY <3>2, <4>1, <4>2, <4>3
    <3>6. QED
      BY <3>2, <3>5
  <2>2. CASE ~ (k < Len(s))
    BY <1>5, <2>2
  <2>3. QED
    BY <2>1, <2>2
<1>6. B = Nat
  <2> HIDE DEF B
  <2>1. B \in SUBSET Nat
    BY DEF B
  <2>2. QED
    BY <1>4, <1>5, <2>1, Adding!NatSetInduction
<1>7. F(t, Len(s)) + s[i] = F(s, Len(s)) + t[i]
  <2>1. Len(s) \in B /\ Len(s) >= i
    BY <1>6
  <2>2. QED
    BY <2>1
<1>8. Total(s) \in Nat /\ Total(t) \in Nat /\ s[i] \in Nat /\ t[i] \in Nat
  BY TotalType
<1>9. Total(t) + s[i] = Total(s) + t[i]
  BY ONLY <1>3, <1>7
<1>10. QED
  BY ONLY <1>8, <1>9

\* Nothing adds up to nothing.
LEMMA TotalZero ==
    ASSUME NEW s \in Seq(Nat), \A i \in 1..Len(s) : s[i] = 0
    PROVE  Total(s) = 0
<1> DEFINE B == {k \in Nat : k <= Len(s) => Total(SubSeq(s, 1, k)) = 0}
<1>1. 0 \in B
  BY TotalEnds
<1>2. ASSUME NEW k \in B PROVE k + 1 \in B
  <2>1. k < Len(s) => /\ Total(SubSeq(s, 1, k + 1)) = Total(SubSeq(s, 1, k)) + s[k + 1]
                      /\ s[k + 1] = 0
    BY TotalStep
  <2>2. QED
    BY <2>1
<1>3. B = Nat
  <2> HIDE DEF B
  <2>1. B \in SUBSET Nat
    BY DEF B
  <2>2. QED
    BY <1>1, <1>2, <2>1, Adding!NatSetInduction
<1>4. Total(SubSeq(s, 1, Len(s))) = 0
  <2>1. Len(s) \in B
    BY <1>3
  <2>2. QED
    BY <2>1
<1>5. QED
  BY <1>4, TotalEnds

-----------------------------------------------------------------------------
(* Rows *)

\* The assumptions on one row.
LEMMA RowType ==
    ASSUME NEW row \in Row
    PROVE  row.key \in DOMAIN Display /\ row.size \in Nat /\ row.columns \in Seq(Int)
BY DEF Row

\* The rows of a list grow by one.
LEMMA RangeAppend ==
    ASSUME NEW S, NEW s \in Seq(S), NEW x \in S
    PROVE  Range(Append(s, x)) = Range(s) \cup {x}
<1>1. /\ DOMAIN s = 1..Len(s) /\ DOMAIN Append(s, x) = 1..Len(s) + 1
      /\ \A i \in 1..Len(s) : Append(s, x)[i] = s[i]
      /\ Append(s, x)[Len(s) + 1] = x
  OBVIOUS
<1>2. \A i \in 1..Len(s) + 1 : i \in 1..Len(s) \/ i = Len(s) + 1
  OBVIOUS
<1>3. Len(s) + 1 \in 1..Len(s) + 1 /\ \A i \in 1..Len(s) : i \in 1..Len(s) + 1
  OBVIOUS
<1>4. QED
  BY <1>1, <1>2, <1>3 DEF Range

\* A function has no more values than arguments.
LEMMA ImageFinite ==
    ASSUME NEW S, IsFiniteSet(S), NEW f, DOMAIN f = S
    PROVE  /\ IsFiniteSet({f[x] : x \in S})
           /\ Cardinality({f[x] : x \in S}) <= Cardinality(S)
<1> DEFINE T == {f[x] : x \in S}
           g == [x \in S |-> f[x]]
<1>1. g \in Surjection(S, T)
  BY DEF Surjection
<1> HIDE DEF g, T
<1>2. IsFiniteSet(T) /\ Cardinality(T) <= Cardinality(S)
  BY <1>1, FS_Surjection
<1>3. QED
  BY <1>2 DEF T

\* The elements of a list are finitely many.
LEMMA RangeType ==
    ASSUME NEW S, NEW s \in Seq(S)
    PROVE  Range(s) \subseteq S /\ Range(<< >>) = {} /\ IsFiniteSet(Range(s))
<1>1. Range(s) \subseteq S /\ Range(<< >>) = {}
  BY DEF Range
<1>2. IsFiniteSet(Range(s))
  <2>1. DOMAIN s = 1..Len(s) /\ Len(s) \in Nat
    OBVIOUS
  <2>2. IsFiniteSet(1..Len(s))
    BY <2>1, FS_Interval
  <2>3. IsFiniteSet({s[i] : i \in 1..Len(s)})
    BY <2>1, <2>2, ImageFinite
  <2>4. Range(s) = {s[i] : i \in 1..Len(s)}
    BY <2>1 DEF Range
  <2>5. QED
    BY <2>3, <2>4
<1>3. QED
  BY <1>1, <1>2

\* The next row of a list is taken.
LEMMA TakeOne ==
    ASSUME NEW S, NEW s \in Seq(S), NEW t \in Seq(S), t # << >>
    PROVE  /\ Head(t) \in S /\ Tail(t) \in Seq(S) /\ Append(s, Head(t)) \in Seq(S)
           /\ s \o t = Append(s, Head(t)) \o Tail(t)
<1>1. Head(t) \in S /\ Tail(t) \in Seq(S) /\ Append(s, Head(t)) \in Seq(S)
  OBVIOUS
<1>2. s \o t = Append(s, Head(t)) \o Tail(t)
  OBVIOUS
<1>3. QED
  BY <1>1, <1>2

\* Rows have a size in bytes.
LEMMA BytesType ==
    ASSUME NEW rows \in Seq(Row)
    PROVE  /\ [i \in DOMAIN rows |-> rows[i].size] \in Seq(Nat)
           /\ Bytes(rows) \in Nat
<1>1. \A i \in DOMAIN rows : rows[i].size \in Nat
  BY RowType
<1>2. DOMAIN rows = 1..Len(rows) /\ Len(rows) \in Nat
  OBVIOUS
<1>3. [i \in DOMAIN rows |-> rows[i].size] \in Seq(Nat)
  BY <1>1, <1>2
<1>4. QED
  BY <1>3, TotalType DEF Bytes

\* No rows take no bytes.
LEMMA BytesEmpty == Bytes(<< >>) = 0
<1>1. [i \in DOMAIN << >> |-> << >>[i].size] = << >>
  OBVIOUS
<1>2. QED
  BY <1>1, TotalEmpty DEF Bytes

\* One more row takes its own bytes more.
LEMMA BytesAppend ==
    ASSUME NEW rows \in Seq(Row), NEW row \in Row
    PROVE  Bytes(Append(rows, row)) = Bytes(rows) + row.size
<1> DEFINE s == [i \in DOMAIN rows |-> rows[i].size]
<1>1. s \in Seq(Nat) /\ row.size \in Nat
  BY BytesType, RowType
<1>2. [i \in DOMAIN Append(rows, row) |-> Append(rows, row)[i].size] = Append(s, row.size)
  <2>1. /\ DOMAIN rows = 1..Len(rows) /\ DOMAIN Append(rows, row) = 1..Len(rows) + 1
        /\ \A i \in 1..Len(rows) : Append(rows, row)[i] = rows[i]
        /\ Append(rows, row)[Len(rows) + 1] = row
    OBVIOUS
  <2>2. Len(s) = Len(rows)
    BY <2>1
  <2>3. QED
    BY <1>1, <2>1, <2>2
<1>3. QED
  BY <1>1, <1>2, TotalAppend DEF Bytes

\* The bytes of two lists of rows, one after the other.
LEMMA BytesConcat ==
    ASSUME NEW rows \in Seq(Row), NEW others \in Seq(Row)
    PROVE  Bytes(rows \o others) = Bytes(rows) + Bytes(others)
<1> DEFINE s == [i \in DOMAIN rows |-> rows[i].size]
           t == [i \in DOMAIN others |-> others[i].size]
<1>1. s \in Seq(Nat) /\ t \in Seq(Nat)
  BY BytesType
<1>2. [i \in DOMAIN (rows \o others) |-> (rows \o others)[i].size] = s \o t
  <2>1. /\ DOMAIN (rows \o others) = 1..Len(rows) + Len(others)
        /\ \A i \in 1..Len(rows) + Len(others) :
             (rows \o others)[i] = IF i <= Len(rows) THEN rows[i] ELSE others[i - Len(rows)]
    OBVIOUS
  <2>2. Len(s) = Len(rows) /\ Len(t) = Len(others) /\ Len(rows) \in Nat /\ Len(others) \in Nat
    OBVIOUS
  <2>3. /\ \A i \in 1..Len(rows) : s[i] = rows[i].size
        /\ \A i \in 1..Len(others) : t[i] = others[i].size
    OBVIOUS
  <2>4. /\ s \o t = [i \in 1..Len(rows) + Len(others) |->
                     IF i <= Len(rows) THEN s[i] ELSE t[i - Len(rows)]]
    <3> HIDE DEF s, t
    <3>1. /\ s \o t \in Seq(Nat) /\ Len(s \o t) = Len(rows) + Len(others)
          /\ \A i \in 1..Len(rows) + Len(others) :
               (s \o t)[i] = IF i <= Len(rows) THEN s[i] ELSE t[i - Len(rows)]
      BY <1>1, <2>2, ConcatProperties
    <3> DEFINE u == s \o t
    <3>2. u = [i \in 1..Len(rows) + Len(others) |-> u[i]]
      <4>1. u \in Seq(Nat) /\ Len(u) = Len(rows) + Len(others)
        BY <3>1
      <4> HIDE DEF u
      <4>2. QED
        BY <4>1
    <3>3. QED
      BY <3>1, <3>2
  <2>5. ASSUME NEW i \in 1..Len(rows) + Len(others)
        PROVE  (rows \o others)[i].size = IF i <= Len(rows) THEN s[i] ELSE t[i - Len(rows)]
    <3>1. /\ i <= Len(rows) => i \in 1..Len(rows)
          /\ ~ (i <= Len(rows)) => i - Len(rows) \in 1..Len(others)
      BY <2>2
    <3> HIDE DEF s, t
    <3>2. QED
      BY <2>1, <2>3, <3>1
  <2> HIDE DEF s, t
  <2>6. QED
    BY <2>1, <2>4, <2>5
<1>3. QED
  BY <1>1, <1>2, TotalConcat DEF Bytes

\* Lists of rows with the same sizes, and a list without its last row.
LEMMA BytesSame ==
    ASSUME NEW rows \in Seq(Row), NEW others \in Seq(Row), Len(others) = Len(rows),
           \A i \in 1..Len(rows) : others[i].size = rows[i].size
    PROVE  Bytes(others) = Bytes(rows)
<1>1. [i \in DOMAIN others |-> others[i].size] = [i \in DOMAIN rows |-> rows[i].size]
  OBVIOUS
<1>2. QED
  BY <1>1 DEF Bytes

\* All rows but the last are no larger.
LEMMA BytesFront ==
    ASSUME NEW rows \in Seq(Row), rows # << >>
    PROVE  Front(rows) \in Seq(Row) /\ Bytes(Front(rows)) <= Bytes(rows)
<1>1. /\ Front(rows) \in Seq(Row) /\ rows[Len(rows)] \in Row
      /\ rows = Append(Front(rows), rows[Len(rows)])
  BY DEF Front
<1>2. Bytes(Append(Front(rows), rows[Len(rows)])) = Bytes(Front(rows)) + rows[Len(rows)].size
  BY <1>1, BytesAppend
<1>3. Bytes(Front(rows)) \in Nat /\ rows[Len(rows)].size \in Nat
  BY <1>1, BytesType, RowType
<1>4. Bytes(rows) = Bytes(Front(rows)) + rows[Len(rows)].size
  BY ONLY <1>1, <1>2
<1>5. Bytes(Front(rows)) <= Bytes(rows)
  BY ONLY <1>3, <1>4
<1>6. QED
  BY <1>1, <1>5

-----------------------------------------------------------------------------
(* Keys, and rows divided between partitions *)

\* The keys of one more row.
LEMMA KeysAppend ==
    ASSUME NEW rows \in Seq(Row), NEW row \in Row
    PROVE  Keys(Range(Append(rows, row))) = Keys(Range(rows)) \cup {row.key}
BY RangeAppend DEF Keys

\* Keys stay unique when the key of the next row is new: what check_key relies on.
LEMMA UniqueAppend ==
    ASSUME NEW rows \in Seq(Row), NEW row \in Row
    PROVE  UniqueKeys(Append(rows, row))
             <=> UniqueKeys(rows) /\ row.key \notin Keys(Range(rows))
<1> DEFINE more == Append(rows, row)
<1>1. /\ DOMAIN rows = 1..Len(rows) /\ DOMAIN more = 1..Len(rows) + 1
      /\ \A i \in 1..Len(rows) : more[i] = rows[i]
      /\ more[Len(rows) + 1] = row /\ Len(rows) \in Nat
  OBVIOUS
<1> HIDE DEF more
<1>2. ASSUME UniqueKeys(more) PROVE UniqueKeys(rows) /\ row.key \notin Keys(Range(rows))
  <2>1. \A i, j \in 1..Len(rows) + 1 : more[i].key = more[j].key => i = j
    BY <1>1, <1>2 DEF UniqueKeys
  <2>2. UniqueKeys(rows)
    BY <1>1, <2>1 DEF UniqueKeys
  <2>3. \A i \in 1..Len(rows) : rows[i].key # row.key
    BY <1>1, <2>1
  <2>4. QED
    BY <1>1, <2>2, <2>3 DEF Keys, Range
<1>3. ASSUME UniqueKeys(rows), row.key \notin Keys(Range(rows)) PROVE UniqueKeys(more)
  <2>1. \A i \in 1..Len(rows) : rows[i].key # row.key
    BY <1>1, <1>3 DEF Keys, Range
  <2>2. \A i, j \in 1..Len(rows) : rows[i].key = rows[j].key => i = j
    BY <1>1, <1>3 DEF UniqueKeys
  <2>3. \A i \in 1..Len(rows) + 1 : i \in 1..Len(rows) \/ i = Len(rows) + 1
    BY <1>1
  <2>4. \A i, j \in 1..Len(rows) + 1 : more[i].key = more[j].key => i = j
    BY <1>1, <2>1, <2>2, <2>3
  <2>5. QED
    BY <1>1, <2>4 DEF UniqueKeys
<1>4. QED
  BY <1>2, <1>3 DEF more

\* A part of a list without repeated keys has none.
LEMMA UniquePrefix ==
    ASSUME NEW rows \in Seq(Row), NEW others \in Seq(Row), UniqueKeys(rows \o others)
    PROVE  UniqueKeys(rows)
<1>1. /\ DOMAIN rows \subseteq DOMAIN (rows \o others)
      /\ \A i \in DOMAIN rows : (rows \o others)[i] = rows[i]
  OBVIOUS
<1>2. QED
  BY <1>1 DEF UniqueKeys

\* A key is that of one row.
LEMMA RowOfKey ==
    ASSUME NEW rows \in Seq(Row), UniqueKeys(rows), NEW r \in Range(rows), NEW q \in Range(rows),
           r.key = q.key
    PROVE  r = q
BY DEF UniqueKeys, Range

\* The rows of a list, divided between the partitions.
Splits(R, rows) ==
    /\ R \in [Parts -> Seq(Row)]
    /\ \A p \in Parts : Range(R[p]) = {row \in Range(rows) : PartitionOf[row.key] = p}
    /\ UniqueKeys(rows) <=> \A p \in Parts : UniqueKeys(R[p])
    /\ Total([p \in Parts |-> Bytes(R[p])]) = Bytes(rows)

\* What the constants are: the partitions, the sizes of the buffers, and for every key its
\* display and its partition.
LEMMA Sizes ==
    /\ Partitions \in Nat \ {0} /\ Chunk \in Nat \ {0}
    /\ WriterBuffer \in Nat /\ WriterRoom \in Nat /\ HeaderBytes \in Nat /\ SinkBytes \in Nat
    /\ EventRoom \in Nat /\ MaxRecord \in Nat
    /\ \A key \in DOMAIN Display : Display[key] \in Int /\ PartitionOf[key] \in Parts /\ key \in Int
BY DiffAssumption

\* The bytes of the partitions, as numbers and as a total.
LEMMA BytesOfParts ==
    ASSUME NEW R \in [Parts -> Seq(Row)]
    PROVE  /\ [p \in Parts |-> Bytes(R[p])] \in Seq(Nat)
           /\ Len([p \in Parts |-> Bytes(R[p])]) = Partitions
           /\ Total([p \in Parts |-> Bytes(R[p])]) \in Nat
<1>1. \A p \in Parts : Bytes(R[p]) \in Nat
  BY BytesType
<1>2. [p \in Parts |-> Bytes(R[p])] \in Seq(Nat)
  BY <1>1, Sizes DEF Parts
<1>3. Len([p \in Parts |-> Bytes(R[p])]) = Partitions
  BY Sizes DEF Parts
<1>4. QED
  BY <1>2, <1>3, TotalType

\* No rows are divided into partitions without rows.
LEMMA SplitsNothing ==
    ASSUME NEW R, R = [p \in Parts |-> << >>]
    PROVE  Splits(R, << >>)
<1>1. R \in [Parts -> Seq(Row)] /\ \A p \in Parts : R[p] = << >>
  OBVIOUS
<1>2. Range(<< >>) = {} /\ UniqueKeys(<< >>)
  BY DEF Range, UniqueKeys
<1>3. Total([p \in Parts |-> Bytes(R[p])]) = 0
  <2>1. \A i \in 1..Partitions : [p \in Parts |-> Bytes(R[p])][i] = 0
    BY <1>1, BytesEmpty DEF Parts
  <2>2. QED
    BY <1>1, <2>1, BytesOfParts, TotalZero
<1>4. QED
  BY <1>1, <1>2, <1>3, BytesEmpty DEF Splits

\* When a row goes to the partition of its key, the rows stay divided between the
\* partitions, in order: what PartitionSet::write does.
LEMMA SplitsAppend ==
    ASSUME NEW R, NEW rows \in Seq(Row), NEW row \in Row, Splits(R, rows),
           NEW p, p = PartitionOf[row.key]
    PROVE  Splits([R EXCEPT ![p] = Append(@, row)], Append(rows, row))
<1> DEFINE Q == [R EXCEPT ![p] = Append(@, row)]
           more == Append(rows, row)
<1>1. p \in Parts /\ row.key \in DOMAIN Display
  BY Sizes, RowType
<1>2. R \in [Parts -> Seq(Row)] /\ more \in Seq(Row)
  BY DEF Splits
<1>3. /\ Q \in [Parts -> Seq(Row)] /\ Q[p] = Append(R[p], row)
      /\ \A q \in Parts : q # p => Q[q] = R[q]
  BY <1>1, <1>2
<1> HIDE DEF Q
<1>4. ASSUME NEW q \in Parts
      PROVE  Range(Q[q]) = {r \in Range(more) : PartitionOf[r.key] = q}
  <2>1. Range(R[q]) = {r \in Range(rows) : PartitionOf[r.key] = q}
    BY DEF Splits
  <2>2. Range(more) = Range(rows) \cup {row}
    BY RangeAppend
  <2>3. CASE q = p
    <3>1. R[q] \in Seq(Row) /\ Q[q] = Append(R[q], row)
      BY <1>2, <1>3, <2>3
    <3>2. Range(Q[q]) = Range(R[q]) \cup {row}
      BY <3>1, RangeAppend
    <3>3. QED
      BY <2>1, <2>2, <2>3, <3>2
  <2>4. CASE q # p
    BY <1>3, <2>1, <2>2, <2>4
  <2>5. QED
    BY <2>3, <2>4
<1>5. UniqueKeys(more) <=> \A q \in Parts : UniqueKeys(Q[q])
  <2>1. UniqueKeys(rows) <=> \A q \in Parts : UniqueKeys(R[q])
    BY DEF Splits
  <2>2. UniqueKeys(more) <=> UniqueKeys(rows) /\ row.key \notin Keys(Range(rows))
    BY UniqueAppend
  <2>3. UniqueKeys(Q[p]) <=> UniqueKeys(R[p]) /\ row.key \notin Keys(Range(R[p]))
    <3>1. R[p] \in Seq(Row)
      BY <1>1, <1>2
    <3>2. QED
      BY <1>3, <3>1, UniqueAppend
  <2>4. row.key \in Keys(Range(R[p])) <=> row.key \in Keys(Range(rows))
    <3>1. Range(R[p]) = {r \in Range(rows) : PartitionOf[r.key] = p}
      BY <1>1 DEF Splits
    <3>2. QED
      BY <3>1 DEF Keys
  <2>5. QED
    BY <1>1, <1>3, <2>1, <2>2, <2>3, <2>4
<1>6. Total([q \in Parts |-> Bytes(Q[q])]) = Bytes(more)
  <2> DEFINE s == [q \in Parts |-> Bytes(R[q])]
             t == [q \in Parts |-> Bytes(Q[q])]
  <2>1. /\ s \in Seq(Nat) /\ t \in Seq(Nat) /\ Len(s) = Partitions /\ Len(t) = Len(s)
        /\ Total(s) \in Nat
    BY <1>2, <1>3, BytesOfParts
  <2>2. p \in 1..Len(s) /\ \A q \in 1..Len(s) : q # p => t[q] = s[q]
    BY <1>1, <1>3, <2>1 DEF Parts
  <2>3. s[p] = Bytes(R[p]) /\ t[p] = Bytes(R[p]) + row.size /\ Bytes(R[p]) \in Nat
    BY <1>1, <1>2, <1>3, BytesAppend, BytesType
  <2>4. Total(s) = Bytes(rows) /\ Bytes(more) = Bytes(rows) + row.size /\ row.size \in Nat
    BY BytesAppend, RowType DEF Splits
  <2> HIDE DEF s, t, more
  <2>5. Total(t) = Total(s) - s[p] + t[p]
    BY ONLY <2>1, <2>2, TotalReplaced
  <2>6. Total(s) \in Nat
    BY <2>1
  <2>7. Total(t) = Bytes(more)
    BY ONLY <2>3, <2>4, <2>5, <2>6
  <2>8. QED
    BY <2>7 DEF t, more
<1>7. QED
  BY <1>2, <1>3, <1>4, <1>5, <1>6 DEF Splits, Q

-----------------------------------------------------------------------------
(* The types of what the diff keeps *)

Account == [reserved : Nat, used : Nat]
Columns == {columns \in SUBSET (Nat \ {0}) : IsFiniteSet(columns)}
Change == [kind : Kind, key : DOMAIN Display, columns : Columns]
Event == [kind : Kind, key : Int, columns : Columns]
Shot == [key : Int, columns : Columns]
Counter == [count : Nat, samples : Seq(Shot)]
Output == [open : BOOLEAN, events : Seq(Event), stored : Seq(Event), capacity : Nat,
           charged : Nat]
Writer == [payload : Seq(Row), capacity : Nat, length : Nat, charged : Nat]
Writers == {<< >>} \cup [Parts -> Writer]
Copy == [ledger : [Side -> Account], acc : [Kind -> Counter], sink : Output, temp : Account,
         err : {"none", "memory", "temp", "records"}]

\* What every step finds: the job is one of the jobs, and the writers are there or not.
Setting == job \in Jobs /\ writers \in Writers

\* The ledgers and the account agree, and no limit is passed.
Sound(x) ==
    /\ x \in Copy
    /\ Free(x) >= 0
    /\ \A s \in Side : /\ x.ledger[s].used <= x.ledger[s].reserved
                       /\ x.ledger[s].reserved <= job.max_memory
    /\ x.temp.used <= x.temp.reserved /\ x.temp.reserved <= job.max_temp
    /\ \A kind \in Kind : Len(x.acc[kind].samples) <= job.max_samples
    /\ Len(x.sink.events) <= job.max_records
    /\ x.sink.open => x.sink.capacity - EventRoom = x.sink.charged - SinkBytes

\* The limits of a job are numbers, and its datasets are sequences of batches.
LEMMA Limits ==
    ASSUME job \in Jobs
    PROVE  /\ job.max_samples \in Nat /\ job.max_records \in Nat
           /\ job.max_memory \in Nat /\ job.max_temp \in Nat
           /\ \A s \in Side : job[s].batches \in Seq(Batch)
BY DiffAssumption

\* The two datasets.
LEMMA Sides == Side = {"before", "after"} /\ "before" \in Side /\ "after" \in Side
BY DEF Side

\* The three kinds of change.
LEMMA Kinds ==
    /\ Kind = {"added", "removed", "changed"}
    /\ "added" \in Kind /\ "removed" \in Kind /\ "changed" \in Kind
BY DEF Kind

\* A product of numbers is a number.
LEMMA ProductType ==
    ASSUME NEW m \in Nat, NEW n \in Nat
    PROVE  m * n \in Nat
OBVIOUS

\* A sum of three numbers is a number.
LEMMA ThreeNumbers == \A m, n, k \in Nat : m + n + k \in Nat
OBVIOUS

\* The charges of the writers, and their fixed room.
LEMMA Charges ==
    ASSUME NEW ws \in Writers
    PROVE  /\ [p \in DOMAIN ws |-> ws[p].charged] \in Seq(Nat)
           /\ Total([p \in DOMAIN ws |-> ws[p].charged]) \in Nat
           /\ WriterBytes \in Nat
<1>1. [p \in DOMAIN ws |-> ws[p].charged] \in Seq(Nat)
  <2>1. CASE ws = << >>
    BY <2>1
  <2>2. CASE ws \in [Parts -> Writer]
    <3>1. \A p \in Parts : ws[p].charged \in Nat
      BY <2>2 DEF Writer
    <3>2. QED
      BY <2>2, <3>1, Sizes DEF Parts
  <2>3. QED
    BY <2>1, <2>2 DEF Writers
<1>2. WriterBytes \in Nat
  <2>1. WriterBuffer + WriterRoom \in Nat /\ Partitions \in Nat
    BY Sizes
  <2>2. QED
    BY <2>1, ProductType DEF WriterBytes
<1>3. QED
  BY <1>1, <1>2, TotalType

\* The parts of what is free.
LEMMA FreeParts ==
    ASSUME Setting, NEW x \in Copy
    PROVE  /\ Free(x) \in Int
           /\ x.ledger["before"] \in Account /\ x.ledger["after"] \in Account
           /\ x.ledger["before"].reserved \in Nat /\ x.ledger["after"].reserved \in Nat
           /\ x.ledger["before"].used \in Nat /\ x.ledger["after"].used \in Nat
           /\ \A kind \in Kind : x.acc[kind] \in Counter /\ x.acc[kind].samples \in Seq(Shot)
                                 /\ Len(x.acc[kind].samples) \in Nat /\ x.acc[kind].count \in Nat
           /\ x.sink.charged \in Nat /\ x.sink.capacity \in Nat /\ x.sink.events \in Seq(Event)
           /\ x.temp \in Account /\ x.temp.used \in Nat /\ x.temp.reserved \in Nat
<1>1. /\ x.ledger["before"] \in Account /\ x.ledger["after"] \in Account
      /\ x.ledger["before"].reserved \in Nat /\ x.ledger["after"].reserved \in Nat
      /\ x.ledger["before"].used \in Nat /\ x.ledger["after"].used \in Nat
  BY Sides DEF Copy, Account
<1>2. ASSUME NEW kind \in Kind
      PROVE  x.acc[kind] \in Counter /\ x.acc[kind].samples \in Seq(Shot)
             /\ Len(x.acc[kind].samples) \in Nat /\ x.acc[kind].count \in Nat
  BY DEF Copy, Counter
<1>3. x.sink.charged \in Nat /\ x.sink.capacity \in Nat /\ x.sink.events \in Seq(Event)
  BY DEF Copy, Output
<1>4. x.temp \in Account /\ x.temp.used \in Nat /\ x.temp.reserved \in Nat
  BY DEF Copy, Account
<1>5. Free(x) \in Int
  <2>1. job.max_memory \in Nat
    BY Limits DEF Setting
  <2>2. Total([p \in DOMAIN writers |-> writers[p].charged]) \in Nat /\ WriterBytes \in Nat
    BY Charges DEF Setting
  <2>3. /\ Len(x.acc["added"].samples) \in Nat /\ Len(x.acc["removed"].samples) \in Nat
        /\ Len(x.acc["changed"].samples) \in Nat
    BY <1>2, Kinds
  <2>4. (IF writers = << >> THEN 0 ELSE WriterBytes) \in Nat
    BY <2>2
  <2> DEFINE rest == Total([p \in DOMAIN writers |-> writers[p].charged])
             room == IF writers = << >> THEN 0 ELSE WriterBytes
             shots == Len(x.acc["added"].samples) + Len(x.acc["removed"].samples)
                      + Len(x.acc["changed"].samples)
  <2>5. Free(x) = job.max_memory
                  - (x.ledger["before"].reserved + x.ledger["after"].reserved)
                  - rest - room - shots - x.sink.charged
    BY DEF Free
  <2>6. shots \in Nat
    BY <2>3, ThreeNumbers, Zenon
  <2>7. rest \in Nat /\ room \in Nat
    BY <2>2, <2>4
  <2> HIDE DEF rest, room, shots
  <2>8. /\ x.ledger["before"].reserved \in Nat /\ x.ledger["after"].reserved \in Nat
        /\ x.sink.charged \in Nat
    BY <1>1, <1>3
  <2>9. QED
    BY ONLY <2>1, <2>5, <2>6, <2>7, <2>8
<1>6. QED
  BY <1>1, <1>2, <1>3, <1>4, <1>5

-----------------------------------------------------------------------------
(* Reservations *)

\* A refused copy differs in its error.
LEMMA Refused ==
    ASSUME NEW x, x \in Copy, NEW e, e \in {"none", "memory", "temp", "records"}, NEW z, z = Refuse(x, e)
    PROVE  /\ z \in Copy /\ z.ledger = x.ledger /\ z.acc = x.acc /\ z.sink = x.sink
           /\ z.temp = x.temp /\ z.err = e /\ Free(z) = Free(x)
           /\ Sound(x) => Sound(z)
<1>1. z = [x EXCEPT !.err = e]
  BY DEF Refuse
<1>2. /\ z \in Copy /\ z.ledger = x.ledger /\ z.acc = x.acc /\ z.sink = x.sink
      /\ z.temp = x.temp /\ z.err = e
  BY <1>1 DEF Copy
<1>3. Free(z) = Free(x)
  BY <1>2 DEF Free
<1>4. Sound(x) => Sound(z)
  BY <1>2, <1>3 DEF Sound
<1>5. QED
  BY <1>2, <1>3, <1>4

\* More bytes in use are covered, unless they pass the limit.
LEMMA AddUseCovers ==
    ASSUME NEW l \in Account, NEW bytes \in Nat, NEW cap \in Nat,
           l.used <= l.reserved, l.reserved <= cap,
           NEW m, m = AddUse(l, bytes, cap)
    PROVE  /\ m \in Account /\ m.used = l.used + bytes
           /\ l.reserved <= m.reserved /\ m.reserved <= cap
           /\ m.used <= cap => m.used <= m.reserved
<1> DEFINE needed == l.used + bytes - l.reserved
           remaining == cap - l.reserved
           more == IF needed <= 0 THEN 0 ELSE LedgerCharge(needed, remaining)
<1>1. l.used \in Nat /\ l.reserved \in Nat
  BY DEF Account
<1>2. needed \in Int /\ remaining \in Nat /\ Chunk \in Nat
  BY <1>1, Sizes
<1>3. m = [used |-> l.used + bytes, reserved |-> l.reserved + more]
  BY DEF AddUse
<1>4. /\ more \in Nat /\ more <= remaining
      /\ needed <= remaining => needed <= more
  <2> HIDE DEF needed, remaining
  <2>1. CASE needed <= 0
    BY <1>2, <2>1
  <2>2. CASE needed > 0 /\ remaining < Chunk
    BY <1>2, <2>2 DEF LedgerCharge
  <2>3. CASE needed > 0 /\ remaining >= Chunk
    <3>1. Max({needed, Chunk}) = IF needed >= Chunk THEN needed ELSE Chunk
      BY <1>2, MaxOfTwo
    <3>2. Max({needed, Chunk}) \in Int
      BY <1>2, <3>1
    <3>3. Min({Max({needed, Chunk}), remaining})
            = IF Max({needed, Chunk}) <= remaining THEN Max({needed, Chunk}) ELSE remaining
      BY <1>2, <3>2, MinOfTwo
    <3>4. more = IF (IF needed >= Chunk THEN needed ELSE Chunk) <= remaining
                 THEN (IF needed >= Chunk THEN needed ELSE Chunk) ELSE remaining
      BY <1>2, <2>3, <3>1, <3>3 DEF LedgerCharge
    <3> HIDE DEF more
    <3>5. QED
      BY <1>2, <2>3, <3>4
  <2>4. QED
    BY <1>2, <2>1, <2>2, <2>3
<1> HIDE DEF more
<1>5. /\ l.used + bytes \in Nat /\ l.reserved + more \in Nat
      /\ l.reserved <= l.reserved + more /\ l.reserved + more <= cap
      /\ l.used + bytes <= cap => l.used + bytes <= l.reserved + more
  BY <1>1, <1>4
<1>6. QED
  BY <1>3, <1>5 DEF Account

\* UseMemory: the ledger of one side grows or the copy is refused.
LEMMA MemoryUsed ==
    ASSUME Setting, NEW x, Sound(x), NEW s \in Side, NEW bytes \in Nat,
           NEW y, y = UseMemory(x, s, bytes)
    PROVE  /\ Sound(y)
           /\ y.acc = x.acc /\ y.sink = x.sink /\ y.temp = x.temp
           /\ y.err \in {x.err, "memory"}
           /\ y.err = "none" => /\ x.err = "none"
                                /\ y.ledger[s].used = x.ledger[s].used + bytes
                                /\ \A t \in Side : t # s => y.ledger[t] = x.ledger[t]
<1> DEFINE l == AddUse(x.ledger[s], bytes, job.max_memory)
           z == Refuse(x, "memory")
<1>1. x \in Copy /\ job.max_memory \in Nat /\ x.ledger \in [Side -> Account]
  BY Limits DEF Sound, Setting, Copy
<1>2. CASE y = x
  <2>1. x.err = "none" => FALSE \/ y.ledger[s].used = x.ledger[s].used + bytes
    <3>1. SUFFICES ASSUME x.err = "none" PROVE y.ledger[s].used = x.ledger[s].used + bytes
      OBVIOUS
    <3>2. CASE l.reserved < l.used \/ l.reserved - x.ledger[s].reserved > Free(x)
      <4>1. y = z
        BY <3>1, <3>2 DEF UseMemory
      <4>2. y.err = "memory"
        BY <1>1, <4>1 DEF Refuse, Copy
      <4>3. QED
        BY <1>2, <3>1, <4>2
    <3>3. CASE ~ (l.reserved < l.used \/ l.reserved - x.ledger[s].reserved > Free(x))
      <4>1. y = [x EXCEPT !.ledger = [@ EXCEPT ![s] = l]]
        BY <3>1, <3>3 DEF UseMemory
      <4>2. y.ledger[s] = l
        BY <1>1, <4>1 DEF Copy
      <4>3. x.ledger[s].used <= x.ledger[s].reserved /\ x.ledger[s].reserved <= job.max_memory
            /\ x.ledger[s] \in Account
        BY <1>1 DEF Sound
      <4>4. l.used = x.ledger[s].used + bytes
        BY <1>1, <4>3, AddUseCovers
      <4>5. QED
        BY <4>2, <4>4
    <3>4. QED
      BY <3>2, <3>3
  <2>2. x.err = "none" => x.err = "none" /\ \A t \in Side : t # s => y.ledger[t] = x.ledger[t]
    BY <1>2
  <2>3. QED
    BY <1>2, <2>1, <2>2
<1>3. CASE y = z
  <2>1. /\ Sound(z) /\ z.ledger = x.ledger /\ z.acc = x.acc /\ z.sink = x.sink
        /\ z.temp = x.temp /\ z.err = "memory"
    BY <1>1, Refused
  <2> HIDE DEF z
  <2>2. QED
    BY <1>3, <2>1
<1>4. CASE /\ x.err = "none" /\ ~ (l.reserved < l.used)
           /\ ~ (l.reserved - x.ledger[s].reserved > Free(x))
           /\ y = [x EXCEPT !.ledger = [@ EXCEPT ![s] = l]]
  <2>1. x.ledger[s].used <= x.ledger[s].reserved /\ x.ledger[s].reserved <= job.max_memory
        /\ x.ledger[s] \in Account
    BY <1>1 DEF Sound
  <2>2. /\ l \in Account /\ l.used = x.ledger[s].used + bytes
        /\ l.reserved <= job.max_memory
    BY <1>1, <2>1, AddUseCovers
  <2> HIDE DEF l
  <2>3. /\ y \in Copy /\ y.ledger = [x.ledger EXCEPT ![s] = l] /\ y.acc = x.acc
        /\ y.sink = x.sink /\ y.temp = x.temp /\ y.err = x.err
    BY <1>1, <1>4, <2>2 DEF Copy
  <2>4. y.ledger[s] = l /\ \A t \in Side : t # s => y.ledger[t] = x.ledger[t]
    BY <1>1, <2>3
  <2>5. l.used \in Nat /\ l.reserved \in Nat
    BY <2>2 DEF Account
  <2>6. Free(y) = Free(x) - (l.reserved - x.ledger[s].reserved)
    <3>1. /\ Free(x) \in Int /\ x.ledger["before"].reserved \in Nat
          /\ x.ledger["after"].reserved \in Nat /\ x.sink.charged \in Nat
      BY <1>1, FreeParts
    <3> DEFINE rest == Total([p \in DOMAIN writers |-> writers[p].charged])
               room == IF writers = << >> THEN 0 ELSE WriterBytes
               shots == Len(x.acc["added"].samples) + Len(x.acc["removed"].samples)
                        + Len(x.acc["changed"].samples)
    <3>2. rest \in Nat /\ room \in Nat
      BY Charges DEF Setting
    <3>3. shots \in Nat
      <4>1. \A kind \in Kind : Len(x.acc[kind].samples) \in Nat
        BY <1>1, FreeParts
      <4>2. QED
        BY <4>1, Kinds, ThreeNumbers, Zenon
    <3>4. Free(x) = job.max_memory
                    - (x.ledger["before"].reserved + x.ledger["after"].reserved)
                    - rest - room - shots - x.sink.charged
      BY DEF Free
    <3>5. Free(y) = job.max_memory
                    - (y.ledger["before"].reserved + y.ledger["after"].reserved)
                    - rest - room - shots - x.sink.charged
      BY <2>3 DEF Free
    <3> HIDE DEF rest, room, shots
    <3>6. CASE s = "before"
      BY <1>1, <2>4, <2>5, <3>1, <3>2, <3>3, <3>4, <3>5, <3>6, Sides
    <3>7. CASE s = "after"
      BY <1>1, <2>4, <2>5, <3>1, <3>2, <3>3, <3>4, <3>5, <3>7, Sides
    <3>8. QED
      BY <3>6, <3>7, Sides
  <2>7. Free(y) >= 0
    <3>1. Free(x) \in Int /\ x.ledger[s].reserved \in Nat
      BY <1>1, <2>1, FreeParts DEF Account
    <3>2. QED
      BY ONLY <1>4, <2>5, <2>6, <3>1
  <2>8. l.used <= l.reserved
    BY <1>4, <2>5
  <2>9. Sound(y)
    BY <2>2, <2>3, <2>4, <2>7, <2>8 DEF Sound
  <2>10. QED
    BY <2>2, <2>3, <2>4, <2>9
<1>5. y = x \/ y = z \/ (/\ x.err = "none" /\ ~ (l.reserved < l.used)
                         /\ ~ (l.reserved - x.ledger[s].reserved > Free(x))
                         /\ y = [x EXCEPT !.ledger = [@ EXCEPT ![s] = l]])
  BY DEF UseMemory
<1>6. QED
  BY <1>2, <1>3, <1>4, <1>5

\* UseTemp: the storage grows, or it would be more than the limit.
LEMMA TempUsed ==
    ASSUME Setting, NEW x, Sound(x), NEW bytes \in Nat, NEW y, y = UseTemp(x, bytes)
    PROVE  /\ Sound(y) /\ Free(y) = Free(x)
           /\ y.acc = x.acc /\ y.sink = x.sink /\ y.ledger = x.ledger
           /\ y.err \in {x.err, "temp"}
           /\ y.err = "none" => x.err = "none" /\ y.temp.used = x.temp.used + bytes
           /\ x.err = "none" /\ y.err # "none" => y.err = "temp" /\ x.temp.used + bytes > job.max_temp
<1> DEFINE l == AddUse(x.temp, bytes, job.max_temp)
           z == Refuse(x, "temp")
<1>1. x \in Copy /\ job.max_temp \in Nat /\ x.temp \in Account
  BY Limits DEF Sound, Setting, Copy
<1>2. x.temp.used <= x.temp.reserved /\ x.temp.reserved <= job.max_temp
  BY DEF Sound
<1>3. /\ l \in Account /\ l.used = x.temp.used + bytes /\ l.reserved <= job.max_temp
      /\ l.used <= job.max_temp => l.used <= l.reserved
  BY <1>1, <1>2, AddUseCovers
<1>4. l.used \in Nat /\ l.reserved \in Nat
  BY <1>3 DEF Account
<1>5. \/ x.err # "none" /\ y = x
      \/ x.err = "none" /\ (l.reserved < l.used \/ l.reserved > job.max_temp) /\ y = z
      \/ x.err = "none" /\ ~ (l.reserved < l.used) /\ y = [x EXCEPT !.temp = l]
  BY DEF UseTemp
<1> HIDE DEF l
<1>6. CASE x.err # "none" /\ y = x
  BY <1>6
<1>7. CASE x.err = "none" /\ (l.reserved < l.used \/ l.reserved > job.max_temp) /\ y = z
  <2>1. /\ Sound(z) /\ z.ledger = x.ledger /\ z.acc = x.acc /\ z.sink = x.sink
        /\ z.temp = x.temp /\ z.err = "temp" /\ Free(z) = Free(x)
    BY <1>1, Refused
  <2> HIDE DEF z
  <2>2. l.used > job.max_temp
    BY <1>1, <1>3, <1>4, <1>7
  <2>3. QED
    BY <1>3, <1>7, <2>1, <2>2
<1>8. CASE x.err = "none" /\ ~ (l.reserved < l.used) /\ y = [x EXCEPT !.temp = l]
  <2>1. /\ y \in Copy /\ y.ledger = x.ledger /\ y.acc = x.acc /\ y.sink = x.sink
        /\ y.temp = l /\ y.err = x.err
    BY <1>1, <1>3, <1>8 DEF Copy
  <2>2. Free(y) = Free(x)
    BY <2>1 DEF Free
  <2>3. l.used <= l.reserved
    BY <1>4, <1>8
  <2>4. Sound(y)
    BY <1>3, <2>1, <2>2, <2>3 DEF Sound
  <2>5. QED
    BY <1>3, <1>8, <2>1, <2>2, <2>4
<1>9. QED
  BY <1>5, <1>6, <1>7, <1>8

-----------------------------------------------------------------------------
(* Samples *)

\* Two lists, one after the other.
LEMMA Joined ==
    ASSUME NEW S, NEW s, s \in Seq(S), NEW t, t \in Seq(S), NEW m, Len(s) = m, NEW n, Len(t) = n
    PROVE  /\ s \o t \in Seq(S) /\ Len(s \o t) = m + n
           /\ \A i \in 1..m + n : (s \o t)[i] = IF i <= m THEN s[i] ELSE t[i - m]
<1>1. /\ s \o t \in Seq(S) /\ Len(s \o t) = Len(s) + Len(t)
      /\ \A i \in 1..Len(s) + Len(t) : (s \o t)[i] = IF i <= Len(s) THEN s[i] ELSE t[i - Len(s)]
  BY ConcatProperties
<1>2. QED
  BY ONLY <1>1, Len(s) = m, Len(t) = n

\* A set of numbers that is not empty has a least one.
LEMMA LeastNumber ==
    ASSUME NEW S \in SUBSET Nat, S # {}
    PROVE  \E m \in S : \A n \in S : m <= n
<1>1. PICK m \in S : \A n \in S : <<n, m>> \notin OpToRel(<, Nat)
  BY NatLessThanWellFounded, WFMin
<1>2. \A n \in S : ~ (n < m)
  BY <1>1 DEF OpToRel
<1>3. \A n \in S : m <= n
  BY <1>2
<1>4. QED
  BY <1>3

\* A function on 1..n is a sequence of length n.
LEMMA IsList ==
    ASSUME NEW S, NEW n \in Nat, NEW f \in [1..n -> S]
    PROVE  f \in Seq(S) /\ Len(f) = n /\ DOMAIN f = 1..n
OBVIOUS

\* The samples of some changes, at most so many.
InOrder(samples) == \A i, j \in DOMAIN samples : i < j => samples[i].key <= samples[j].key
ShotOf(change) == [key |-> Display[change.key], columns |-> change.columns]
Shows(samples, changes, limit) ==
    /\ Len(samples) = IF limit <= Cardinality(changes) THEN limit ELSE Cardinality(changes)
    /\ InOrder(samples)
    /\ \E of \in [DOMAIN samples -> changes] :
         /\ \A i, j \in DOMAIN samples : of[i] = of[j] => i = j
         /\ \A i \in DOMAIN samples : samples[i] = ShotOf(of[i])
         /\ \A change \in changes \ {of[i] : i \in DOMAIN samples}, i \in DOMAIN samples :
              samples[i].key <= Display[change.key]

\* A change has a kind, a key and changed columns, and so have its sample and its event.
LEMMA ChangeType ==
    ASSUME NEW change \in Change
    PROVE  /\ change.kind \in Kind /\ change.key \in DOMAIN Display /\ Display[change.key] \in Int
           /\ change.columns \in Columns /\ IsFiniteSet(change.columns)
           /\ Cardinality(change.columns) \in Nat
           /\ ShotOf(change) \in Shot /\ ShotOf(change).key = Display[change.key]
           /\ Shown(change) \in Event /\ Shown(change).kind = change.kind
           /\ Shown(change).columns = change.columns
<1>1. change.kind \in Kind /\ change.key \in DOMAIN Display /\ change.columns \in Columns
  BY DEF Change
<1>2. Display[change.key] \in Int
  BY <1>1, Sizes
<1>3. IsFiniteSet(change.columns)
  BY <1>1 DEF Columns
<1>4. Cardinality(change.columns) \in Nat
  BY <1>3, FS_CardinalityType
<1>5. /\ ShotOf(change) \in Shot /\ ShotOf(change).key = Display[change.key]
      /\ Shown(change) \in Event /\ Shown(change).columns = change.columns
      /\ Shown(change).kind = change.kind
  BY <1>1, <1>2 DEF ShotOf, Shot, Shown, Event
<1>6. QED
  BY <1>1, <1>2, <1>3, <1>4, <1>5

\* binary_search finds a place.
LEMMA PlaceFound ==
    ASSUME NEW samples \in Seq(Shot), NEW n \in Nat, DOMAIN samples = 1..n, Len(samples) = n,
           InOrder(samples), NEW shot \in Shot, NEW p, p = Place(samples, shot)
    PROVE  /\ p \in 0..n
           /\ \A i \in 1..p : samples[i].key <= shot.key
           /\ \A i \in p + 1..n : shot.key <= samples[i].key
<1> DEFINE S == {m \in 0..n : \A i \in m + 1..n : shot.key <= samples[i].key}
           Fits(m) == /\ \A i \in 1..m : samples[i].key <= shot.key
                      /\ \A i \in m + 1..n : shot.key <= samples[i].key
<1>1. shot.key \in Int /\ \A i \in 1..n : samples[i].key \in Int
  <2>1. \A i \in 1..n : samples[i] \in Shot
    OBVIOUS
  <2>2. \A s \in Shot : s.key \in Int
    BY DEF Shot
  <2>3. QED
    BY <2>1, <2>2
<1>2. n \in S /\ S \in SUBSET Nat
  OBVIOUS
<1>3. PICK m \in S : \A k \in S : m <= k
  <2> HIDE DEF S
  <2>1. QED
    BY <1>2, LeastNumber
<1>4. m \in 0..n /\ \A i \in m + 1..n : shot.key <= samples[i].key
  OBVIOUS
<1>5. \A i \in 1..m : samples[i].key <= shot.key
  <2>1. CASE m = 0
    BY <2>1
  <2>2. CASE m # 0
    <3>1. m - 1 \in 0..n /\ m \in 1..n /\ m - 1 \notin S
      BY <1>3, <1>4, <2>2
    <3>2. PICK i \in m - 1 + 1..n : ~ (shot.key <= samples[i].key)
      BY <3>1
    <3>3. i = m
      BY <1>4, <3>1, <3>2
    <3>4. samples[m].key < shot.key
      BY <1>1, <3>1, <3>2, <3>3
    <3>5. ASSUME NEW j \in 1..m PROVE samples[j].key <= shot.key
      <4>1. j \in 1..n /\ (j < m \/ j = m)
        BY <1>4
      <4>2. samples[j].key <= samples[m].key \/ j = m
        BY <3>1, <4>1 DEF InOrder
      <4>3. QED
        BY <1>1, <3>1, <3>4, <4>1, <4>2
    <3>6. QED
      BY <3>5
  <2>3. QED
    BY <2>1, <2>2
<1>6. \E k \in 0..n : Fits(k)
  BY <1>4, <1>5
<1>7. p = CHOOSE k \in 0..n : Fits(k)
  BY DEF Place
<1> HIDE DEF Fits
<1>8. p \in 0..n /\ Fits(p)
  BY <1>6, <1>7
<1>9. QED
  BY <1>8 DEF Fits

\* The new sample is at its place, the later ones move, the last one may be dropped.
LEMMA RetainedIs ==
    ASSUME job \in Jobs,
           NEW samples, samples \in Seq(Shot), NEW n, n \in Nat, DOMAIN samples = 1..n,
           Len(samples) = n,
           NEW shot, shot \in Shot, NEW p, p = Place(samples, shot), p \in 0..n,
           NEW k, k = IF n + 1 <= job.max_samples THEN n + 1 ELSE job.max_samples
    PROVE  Retained(samples, shot) =
             [i \in 1..k |-> IF i <= p THEN samples[i]
                             ELSE IF i = p + 1 THEN shot ELSE samples[i - 1]]
<1> DEFINE none == << >>
           one == Append(none, shot)
           before == SubSeq(samples, 1, p)
           after == SubSeq(samples, p + 1, n)
           longer == InsertAt(samples, p + 1, shot)
<1>1. longer = (before \o one) \o after
  <2> DEFINE q == p + 1
  <2>1. q - 1 = p /\ Len(samples) = n
    OBVIOUS
  <2>2. one = <<shot>>
    OBVIOUS
  <2> HIDE DEF q
  <2>3. InsertAt(samples, q, shot)
          = (SubSeq(samples, 1, q - 1) \o <<shot>>) \o SubSeq(samples, q, Len(samples))
    BY DEF InsertAt
  <2> HIDE DEF one
  <2>4. QED
    BY ONLY <2>1, <2>2, <2>3 DEF before, after, longer, q
<1>2. /\ before \in Seq(Shot) /\ Len(before) = p /\ \A i \in 1..p : before[i] = samples[i]
      /\ one \in Seq(Shot) /\ Len(one) = 1 /\ one[1] = shot
      /\ after \in Seq(Shot) /\ Len(after) = n - p
      /\ \A i \in 1..n - p : after[i] = samples[i + p]
  <2>1. one \in Seq(Shot) /\ Len(one) = 1 /\ one[1] = shot
    OBVIOUS
  <2>2. before \in Seq(Shot) /\ Len(before) = p /\ \A i \in 1..p : before[i] = samples[i]
    OBVIOUS
  <2>3. after \in Seq(Shot) /\ Len(after) = n - p /\ \A i \in 1..n - p : after[i] = samples[i + p]
    OBVIOUS
  <2>4. QED
    BY <2>1, <2>2, <2>3
<1> HIDE DEF before, one, after, longer
<1> DEFINE front == before \o one
<1>3. /\ front \in Seq(Shot) /\ Len(front) = p + 1
      /\ \A i \in 1..p + 1 : front[i] = IF i <= p THEN samples[i] ELSE shot
  <2>1. /\ front \in Seq(Shot) /\ Len(front) = p + 1
        /\ \A i \in 1..p + 1 : front[i] = IF i <= p THEN before[i] ELSE one[i - p]
    <3>1. before \in Seq(Shot) /\ one \in Seq(Shot) /\ Len(before) = p /\ Len(one) = 1
      BY <1>2
    <3>2. /\ before \o one \in Seq(Shot) /\ Len(before \o one) = p + 1
          /\ \A i \in 1..p + 1 : (before \o one)[i] = IF i <= p THEN before[i] ELSE one[i - p]
      <4> HIDE DEF front, none
      <4>1. /\ before \o one \in Seq(Shot) /\ Len(before \o one) = Len(before) + Len(one)
            /\ \A i \in 1..Len(before) + Len(one) :
                 (before \o one)[i] = IF i <= Len(before) THEN before[i] ELSE one[i - Len(before)]
        BY <3>1, ConcatProperties
      <4>2. QED
        BY ONLY <3>1, <4>1
    <3>3. QED
      BY <3>2
  <2>2. \A i \in 1..p + 1 : /\ i <= p => i \in 1..p
                            /\ ~ (i <= p) => i - p = 1
    OBVIOUS
  <2> HIDE DEF front
  <2>3. QED
    BY <1>2, <2>1, <2>2
<1> HIDE DEF front
<1>4. /\ longer \in Seq(Shot) /\ Len(longer) = n + 1
      /\ \A i \in 1..n + 1 : longer[i] = IF i <= p + 1 THEN front[i] ELSE after[i - (p + 1)]
  <2>1. longer = front \o after
    BY <1>1 DEF front
  <2>2. p + 1 + (n - p) = n + 1
    OBVIOUS
  <2>3. /\ front \o after \in Seq(Shot) /\ Len(front \o after) = p + 1 + (n - p)
        /\ \A i \in 1..p + 1 + (n - p) : (front \o after)[i] =
             IF i <= p + 1 THEN front[i] ELSE after[i - (p + 1)]
    <3>1. front \in Seq(Shot) /\ after \in Seq(Shot) /\ Len(front) = p + 1 /\ Len(after) = n - p
      BY <1>2, <1>3
    <3>2. QED
      BY ONLY <3>1, Joined
  <2>4. QED
    BY ONLY <2>1, <2>2, <2>3
<1>5. \A i \in 1..n + 1 : longer[i] = IF i <= p THEN samples[i]
                                      ELSE IF i = p + 1 THEN shot ELSE samples[i - 1]
  <2>1. ASSUME NEW i \in 1..n + 1
        PROVE  longer[i] = IF i <= p THEN samples[i]
                           ELSE IF i = p + 1 THEN shot ELSE samples[i - 1]
    <3>1. longer[i] = IF i <= p + 1 THEN front[i] ELSE after[i - (p + 1)]
      BY <1>4
    <3>2. CASE i <= p + 1
      <4>1. i \in 1..p + 1
        BY <3>2
      <4>2. front[i] = IF i <= p THEN samples[i] ELSE shot
        BY <1>3, <4>1
      <4>3. QED
        BY <3>1, <3>2, <4>1, <4>2
    <3>3. CASE ~ (i <= p + 1)
      <4>1. i - (p + 1) \in 1..n - p /\ i - (p + 1) + p = i - 1 /\ ~ (i <= p) /\ i # p + 1
        BY <3>3
      <4>2. after[i - (p + 1)] = samples[i - 1]
        BY <1>2, <4>1
      <4>3. QED
        BY <3>1, <3>3, <4>1, <4>2
    <3>4. QED
      BY <3>2, <3>3
  <2>2. QED
    BY <2>1
<1>6. job.max_samples \in Nat
  BY Limits
<1>7. Min({Len(longer), job.max_samples}) = k /\ k \in 0..n + 1
  BY <1>4, <1>6, MinOfTwo
<1>8. Retained(samples, shot) = SubSeq(longer, 1, k)
  BY <1>7 DEF Retained, longer
<1>9. SubSeq(longer, 1, k) = [i \in 1..k |-> longer[i]]
  BY <1>4, <1>7
<1>10. \A i \in 1..k : i \in 1..n + 1
  BY <1>7
<1>11. QED
  BY <1>5, <1>8, <1>9, <1>10

\* Nothing is shown of no changes.
LEMMA ShowsNothing ==
    ASSUME NEW limit \in Nat
    PROVE  Shows(<< >>, {}, limit)
<1>1. Cardinality({}) = 0 /\ DOMAIN << >> = {} /\ Len(<< >>) = 0
  BY FS_EmptySet
<1>2. << >> \in [DOMAIN << >> -> {}]
  BY <1>1
<1>3. /\ \A i, j \in DOMAIN << >> : << >>[i] = << >>[j] => i = j
      /\ \A i \in DOMAIN << >> : << >>[i] = ShotOf(<< >>[i])
      /\ \A change \in {} \ {<< >>[i] : i \in DOMAIN << >>}, i \in DOMAIN << >> :
           << >>[i].key <= Display[change.key]
  BY <1>1
<1>4. \E of \in [DOMAIN << >> -> {}] :
        /\ \A i, j \in DOMAIN << >> : of[i] = of[j] => i = j
        /\ \A i \in DOMAIN << >> : << >>[i] = ShotOf(of[i])
        /\ \A change \in {} \ {of[i] : i \in DOMAIN << >>}, i \in DOMAIN << >> :
             << >>[i].key <= Display[change.key]
  <2> WITNESS << >> \in [DOMAIN << >> -> {}]
  <2>1. QED
    BY <1>3
<1>5. InOrder(<< >>)
  BY <1>1 DEF InOrder
<1>6. Len(<< >>) = IF limit <= Cardinality({}) THEN limit ELSE Cardinality({})
  BY <1>1
<1>7. QED
  BY <1>4, <1>5, <1>6 DEF Shows

\* The n samples, and the changes they show.
ShownBy(samples, changes, limit, n, of) ==
    /\ DOMAIN samples = 1..n /\ Len(samples) = n
    /\ n = IF limit <= Cardinality(changes) THEN limit ELSE Cardinality(changes)
    /\ InOrder(samples)
    /\ \A i, j \in 1..n : of[i] = of[j] => i = j
    /\ \A i \in 1..n : samples[i] = ShotOf(of[i])
    /\ \A change \in changes \ {of[i] : i \in 1..n}, i \in 1..n :
         samples[i].key <= Display[change.key]
    /\ n < limit => changes = {of[i] : i \in 1..n}

\* What the samples of some changes tell about their number.
LEMMA ShowsNumber ==
    ASSUME NEW samples, samples \in Seq(Shot), NEW changes, changes \subseteq Change,
           IsFiniteSet(changes), NEW limit \in Nat, Shows(samples, changes, limit)
    PROVE  \E n \in Nat : \E of \in [1..n -> changes] : ShownBy(samples, changes, limit, n, of)
<1> DEFINE n == Len(samples)
<1>1. n \in Nat /\ DOMAIN samples = 1..n
  OBVIOUS
<1>2. n = IF limit <= Cardinality(changes) THEN limit ELSE Cardinality(changes)
  BY DEF Shows
<1> HIDE DEF n
<1>3. PICK of \in [1..n -> changes] :
        /\ \A i, j \in 1..n : of[i] = of[j] => i = j
        /\ \A i \in 1..n : samples[i] = ShotOf(of[i])
        /\ \A change \in changes \ {of[i] : i \in 1..n}, i \in 1..n :
             samples[i].key <= Display[change.key]
  BY <1>1 DEF Shows
<1>4. n < limit => changes = {of[i] : i \in 1..n}
  <2>1. SUFFICES ASSUME n < limit PROVE changes = {of[i] : i \in 1..n}
    OBVIOUS
  <2>2. Cardinality(changes) \in Nat
    BY FS_CardinalityType
  <2>3. n = Cardinality(changes)
    BY <1>1, <1>2, <2>1, <2>2
  <2>4. IsFiniteSet(1..n) /\ Cardinality(1..n) = n
    <3>1. 1 \in Int /\ n \in Int
      BY <1>1
    <3>2. QED
      BY <1>1, <3>1, FS_Interval
  <2>5. of \in Injection(1..n, changes)
    BY <1>3 DEF Injection, IsInjective
  <2>6. of \in Surjection(1..n, changes)
    BY <2>3, <2>4, <2>5, FS_Injection
  <2>7. QED
    BY <2>6 DEF Surjection
<1>5. n = Len(samples) /\ InOrder(samples)
  BY DEF n, Shows
<1>6. ShownBy(samples, changes, limit, n, of)
  BY <1>1, <1>2, <1>3, <1>4, <1>5 DEF ShownBy
<1>7. QED
  BY <1>1, <1>6

\* A change that is not retained comes after all samples.
LEMMA ShowsWithout ==
    ASSUME job \in Jobs, NEW samples, samples \in Seq(Shot), NEW changes, changes \subseteq Change,
           IsFiniteSet(changes), Shows(samples, changes, job.max_samples),
           NEW change \in Change, change \notin changes,
           ~Retains(samples, ShotOf(change))
    PROVE  Shows(samples, changes \cup {change}, job.max_samples)
<1> DEFINE limit == job.max_samples
           more == changes \cup {change}
<1>1. limit \in Nat
  BY Limits
<1>2. PICK n \in Nat : \E of \in [1..n -> changes] : ShownBy(samples, changes, limit, n, of)
  <2> HIDE DEF limit
  <2>1. QED
    BY <1>1, ShowsNumber DEF limit
<1>3. PICK of \in [1..n -> changes] : ShownBy(samples, changes, limit, n, of)
  BY <1>2
<1>4. /\ of \in [1..n -> changes]
      /\ DOMAIN samples = 1..n /\ Len(samples) = n
      /\ n = IF limit <= Cardinality(changes) THEN limit ELSE Cardinality(changes)
      /\ InOrder(samples)
      /\ \A i, j \in 1..n : of[i] = of[j] => i = j
      /\ \A i \in 1..n : samples[i] = ShotOf(of[i])
      /\ \A c \in changes \ {of[i] : i \in 1..n}, i \in 1..n :
           samples[i].key <= Display[c.key]
      /\ n < limit => changes = {of[i] : i \in 1..n}
  BY <1>3 DEF ShownBy
<1>5. Cardinality(changes) \in Nat /\ Cardinality(more) = Cardinality(changes) + 1
  BY FS_CardinalityType, FS_AddElement
<1>6. limit = 0 \/ (~ (n < limit) /\ ~ (ShotOf(change).key < samples[n].key))
  BY <1>4 DEF Retains
<1> HIDE DEF limit, more
<1>7. n = limit
  BY <1>1, <1>4, <1>5, <1>6
<1>8. n = IF limit <= Cardinality(more) THEN limit ELSE Cardinality(more)
  <2>1. limit <= Cardinality(changes)
    BY <1>1, <1>4, <1>5, <1>7
  <2>2. QED
    BY <1>1, <1>5, <1>7, <2>1
<1>9. of \in [1..n -> more]
  BY DEF more
<1>10. \A i \in 1..n : samples[i].key \in Int
  <2>1. \A i \in 1..n : of[i] \in Change
    BY <1>4
  <2>2. \A i \in 1..n : ShotOf(of[i]).key \in Int
    BY <2>1, ChangeType
  <2>3. QED
    BY <1>4, <2>2
<1>11. ASSUME NEW c \in more \ {of[i] : i \in 1..n}, NEW i \in 1..n
      PROVE  samples[i].key <= Display[c.key]
  <2>1. CASE c \in changes
    BY <1>4, <2>1
  <2>2. CASE c = change
    <3>1. ~ (Display[change.key] < samples[n].key)
      BY <1>6, <1>7 DEF ShotOf
    <3>2. n \in 1..n /\ (i < n \/ i = n)
      OBVIOUS
    <3>3. samples[i].key <= samples[n].key \/ i = n
      BY <1>4, <3>2 DEF InOrder
    <3>4. Display[change.key] \in Int
      BY ChangeType
    <3>5. QED
      BY <1>10, <2>2, <3>1, <3>2, <3>3, <3>4
  <2>3. QED
    BY <2>1, <2>2 DEF more
<1>12. QED
  BY <1>4, <1>8, <1>9, <1>11 DEF Shows, limit, more

\* A change that is retained is shown, and the last sample may be dropped for it.
LEMMA ShowsWith ==
    ASSUME job \in Jobs, NEW samples, samples \in Seq(Shot), NEW changes, changes \subseteq Change,
           IsFiniteSet(changes), Shows(samples, changes, job.max_samples),
           NEW change \in Change, change \notin changes,
           Retains(samples, ShotOf(change)),
           NEW kept, kept = Retained(samples, ShotOf(change))
    PROVE  /\ kept \in Seq(Shot) /\ Len(kept) <= job.max_samples /\ Len(kept) <= Len(samples) + 1
           /\ Shows(kept, changes \cup {change}, job.max_samples)
<1> DEFINE limit == job.max_samples
           more == changes \cup {change}
           shot == ShotOf(change)
           p == Place(samples, shot)
<1>1. limit \in Nat
  BY Limits
<1>2. PICK n \in Nat : \E of \in [1..n -> changes] : ShownBy(samples, changes, limit, n, of)
  <2> HIDE DEF limit
  <2>1. QED
    BY <1>1, ShowsNumber DEF limit
<1>3. PICK of \in [1..n -> changes] : ShownBy(samples, changes, limit, n, of)
  BY <1>2
<1>4. /\ of \in [1..n -> changes]
      /\ DOMAIN samples = 1..n /\ Len(samples) = n
      /\ n = IF limit <= Cardinality(changes) THEN limit ELSE Cardinality(changes)
      /\ InOrder(samples)
      /\ \A i, j \in 1..n : of[i] = of[j] => i = j
      /\ \A i \in 1..n : samples[i] = ShotOf(of[i])
      /\ \A c \in changes \ {of[i] : i \in 1..n}, i \in 1..n :
           samples[i].key <= Display[c.key]
      /\ n < limit => changes = {of[i] : i \in 1..n}
  BY <1>3 DEF ShownBy
<1>5. Cardinality(changes) \in Nat /\ Cardinality(more) = Cardinality(changes) + 1
  BY FS_CardinalityType, FS_AddElement
<1>6. limit # 0 /\ (n < limit \/ shot.key < samples[n].key)
  BY <1>4 DEF Retains
<1>7. shot \in Shot /\ shot.key \in Int /\ shot.key = Display[change.key]
  BY ChangeType DEF ShotOf
<1> HIDE DEF shot
<1>8. \A i \in 1..n : of[i] \in Change /\ samples[i].key = Display[of[i].key] /\ samples[i].key \in Int
                      /\ samples[i] \in Shot
  <2>1. \A i \in 1..n : of[i] \in Change
    BY <1>4
  <2>2. \A i \in 1..n : /\ ShotOf(of[i]) \in Shot /\ Display[of[i].key] \in Int
                        /\ ShotOf(of[i]).key = Display[of[i].key]
    BY <2>1, ChangeType
  <2>3. QED
    BY <1>4, <2>1, <2>2
<1>9. /\ p \in 0..n
      /\ \A i \in 1..p : samples[i].key <= shot.key
      /\ \A i \in p + 1..n : shot.key <= samples[i].key
  BY <1>4, <1>7, PlaceFound
<1> DEFINE k == IF n + 1 <= limit THEN n + 1 ELSE limit
           at == [i \in 1..k |-> IF i <= p THEN of[i] ELSE IF i = p + 1 THEN change ELSE of[i - 1]]
<1>10. kept = [i \in 1..k |-> IF i <= p THEN samples[i]
                             ELSE IF i = p + 1 THEN shot ELSE samples[i - 1]]
  <2> HIDE DEF p
  <2>1. Len(samples) = n /\ DOMAIN samples = 1..n
    BY <1>4
  <2>2. kept = Retained(samples, shot)
    BY DEF shot
  <2>3. QED
    BY <1>7, <1>9, <2>1, <2>2, RetainedIs DEF p
<1> HIDE DEF p, limit, more
<1>11. k \in 1..n + 1 /\ k <= limit /\ n <= k /\ n <= limit
  BY <1>1, <1>4, <1>5, <1>6
<1>12. k = IF limit <= Cardinality(more) THEN limit ELSE Cardinality(more)
  BY <1>1, <1>4, <1>5
<1>13. p + 1 <= k
  <2>1. CASE k = n + 1
    BY <1>9, <2>1
  <2>2. CASE k # n + 1
    <3>1. k = limit /\ n = limit /\ n \in 1..n
      BY <1>1, <1>6, <1>11, <2>2
    <3>2. shot.key < samples[n].key
      BY <1>6, <3>1
    <3>3. p # n
      BY <1>7, <1>8, <1>9, <3>1, <3>2
    <3>4. QED
      BY <1>9, <3>1, <3>3
  <2>3. QED
    BY <2>1, <2>2
<1> HIDE DEF k
<1>14. \A i \in 1..k : /\ i <= p => i \in 1..n
                       /\ ~ (i <= p) /\ i # p + 1 => i - 1 \in 1..n /\ i - 1 > p
  BY <1>9, <1>11
<1>15. at \in [1..k -> more]
  BY <1>14 DEF more
<1>16. \A i, j \in 1..k : at[i] = at[j] => i = j
  <2>1. ASSUME NEW i \in 1..k, NEW j \in 1..k, at[i] = at[j] PROVE i = j
    <3>1. \A l \in 1..n : of[l] # change
      OBVIOUS
    <3>2. CASE i = p + 1 \/ j = p + 1
      BY <1>9, <1>14, <2>1, <3>1, <3>2
    <3>3. CASE i # p + 1 /\ j # p + 1
      <4>1. CASE i <= p /\ j <= p
        BY <1>4, <1>14, <2>1, <4>1
      <4>2. CASE ~ (i <= p) /\ ~ (j <= p)
        <5>1. of[i - 1] = of[j - 1] /\ i - 1 \in 1..n /\ j - 1 \in 1..n
          BY <1>14, <2>1, <3>3, <4>2
        <5>2. i - 1 = j - 1
          BY <1>4, <5>1
        <5>3. QED
          BY <5>2
      <4>3. CASE i <= p /\ ~ (j <= p)
        <5>1. of[i] = of[j - 1] /\ i \in 1..n /\ j - 1 \in 1..n /\ j - 1 > p
          BY <1>14, <2>1, <3>3, <4>3
        <5>2. i = j - 1
          BY <1>4, <5>1
        <5>3. QED
          BY <1>9, <4>3, <5>1, <5>2
      <4>4. CASE ~ (i <= p) /\ j <= p
        <5>1. of[i - 1] = of[j] /\ i - 1 \in 1..n /\ j \in 1..n /\ i - 1 > p
          BY <1>14, <2>1, <3>3, <4>4
        <5>2. i - 1 = j
          BY <1>4, <5>1
        <5>3. QED
          BY <1>9, <4>4, <5>1, <5>2
      <4>5. QED
        BY <4>1, <4>2, <4>3, <4>4
    <3>4. QED
      BY <3>2, <3>3
  <2>2. QED
    BY <2>1
<1>17. \A i \in 1..k : kept[i] = ShotOf(at[i])
  BY <1>4, <1>10, <1>14 DEF shot
<1>18. \A i \in 1..k : at[i] \in Change
  BY <1>15 DEF more
<1>19. \A i \in 1..k : kept[i] \in Shot /\ kept[i].key \in Int
  <2> HIDE DEF at
  <2>1. \A i \in 1..k : /\ ShotOf(at[i]) \in Shot /\ Display[at[i].key] \in Int
                        /\ ShotOf(at[i]).key = Display[at[i].key]
    BY <1>18, ChangeType
  <2>2. QED
    BY <1>17, <2>1
<1>20. kept \in Seq(Shot) /\ Len(kept) = k /\ DOMAIN kept = 1..k
  <2>1. k \in Nat
    BY <1>11
  <2>2. DOMAIN kept = 1..k
    BY <1>10
  <2>3. kept \in [1..k -> Shot]
    <3>1. kept = [i \in 1..k |-> kept[i]]
      BY <1>10
    <3>2. QED
      BY <1>19, <3>1
  <2>4. QED
    BY <2>1, <2>3, IsList
<1>21. InOrder(kept)
  <2>1. ASSUME NEW i \in 1..k, NEW j \in 1..k, i < j PROVE kept[i].key <= kept[j].key
    <3>1. \A l, m \in 1..n : l < m => samples[l].key <= samples[m].key
      BY <1>4 DEF InOrder
    <3>2. CASE j <= p
      <4>1. kept[i] = samples[i] /\ kept[j] = samples[j]
        BY <1>9, <1>10, <2>1, <3>2
      <4>2. i \in 1..n /\ j \in 1..n
        BY <1>9, <2>1, <3>2
      <4>3. QED
        BY <2>1, <3>1, <4>1, <4>2
    <3>3. CASE j = p + 1
      <4>1. i \in 1..p
        BY <1>9, <2>1, <3>3
      <4>2. QED
        BY <1>9, <1>10, <3>3, <4>1
    <3>4. CASE j > p + 1 /\ i = p + 1
      <4>1. j - 1 \in p + 1..n
        BY <1>9, <1>14, <3>4
      <4>2. QED
        BY <1>9, <1>10, <3>4, <4>1
    <3>5. CASE j > p + 1 /\ i > p + 1
      <4>1. kept[i] = samples[i - 1] /\ kept[j] = samples[j - 1]
        BY <1>9, <1>10, <3>5
      <4>2. i - 1 \in 1..n /\ j - 1 \in 1..n /\ i - 1 < j - 1
        BY <1>9, <1>14, <2>1, <3>5
      <4>3. QED
        BY <3>1, <4>1, <4>2
    <3>6. CASE j > p + 1 /\ i <= p
      <4>1. kept[i] = samples[i] /\ kept[j] = samples[j - 1]
        BY <1>9, <1>10, <3>6
      <4>2. i \in 1..n /\ j - 1 \in 1..n /\ i < j - 1
        BY <1>9, <1>14, <2>1, <3>6
      <4>3. QED
        BY <3>1, <4>1, <4>2
    <3>7. QED
      BY <1>9, <3>2, <3>3, <3>4, <3>5, <3>6
  <2>2. QED
    BY <1>20, <2>1 DEF InOrder
<1>22. ASSUME NEW c \in more \ {at[i] : i \in 1..k}, NEW i \in 1..k
       PROVE  kept[i].key <= Display[c.key]
  <2>1. p + 1 \in 1..k /\ at[p + 1] = change
    BY <1>9, <1>11, <1>13
  <2>2. c \in changes
    BY <2>1 DEF more
  <2>3. Display[c.key] \in Int
    BY <2>2, ChangeType
  <2>4. \A l \in 1..n : samples[l].key <= Display[c.key]
    <3>1. CASE c \notin {of[l] : l \in 1..n}
      BY <1>4, <2>2, <3>1
    <3>2. CASE c \in {of[l] : l \in 1..n}
      <4>1. PICK m \in 1..n : c = of[m]
        BY <3>2
      <4>2. m = n /\ k = n
        <5>1. \A l \in 1..k : at[l] # c
          OBVIOUS
        <5>2. ~ (m <= p)
          <6>1. SUFFICES ASSUME m <= p PROVE FALSE
            OBVIOUS
          <6>2. m \in 1..k
            BY <1>9, <1>11, <1>13, <6>1
          <6>3. at[m] = of[m]
            BY <6>1, <6>2
          <6>4. QED
            BY <4>1, <5>1, <6>2, <6>3
        <5>3. ~ (m + 1 <= k)
          <6>1. SUFFICES ASSUME m + 1 <= k PROVE FALSE
            OBVIOUS
          <6>2. m + 1 \in 1..k /\ ~ (m + 1 <= p) /\ m + 1 # p + 1 /\ m + 1 - 1 = m
            BY <1>9, <5>2, <6>1
          <6>3. at[m + 1] = of[m]
            BY <6>2
          <6>4. QED
            BY <4>1, <5>1, <6>2, <6>3
        <5>4. QED
          BY <1>11, <5>3
      <4>3. samples[n].key = Display[c.key] /\ n \in 1..n
        BY <1>8, <4>1, <4>2
      <4>4. QED
        BY <1>4, <1>8, <4>3 DEF InOrder
    <3>3. QED
      BY <3>1, <3>2
  <2>5. shot.key <= Display[c.key]
    <3>1. CASE n < limit
      <4>1. PICK m \in 1..n : c = of[m]
        BY <1>4, <2>2, <3>1
      <4>2. k = n + 1
        BY <1>1, <3>1 DEF k
      <4>3. CASE m <= p
        <5>1. m \in 1..k /\ at[m] = of[m]
          BY <4>2, <4>3
        <5>2. QED
          BY <4>1, <5>1
      <4>4. CASE ~ (m <= p)
        <5>1. m + 1 \in 1..k /\ ~ (m + 1 <= p) /\ m + 1 # p + 1 /\ m + 1 - 1 = m
          BY <1>9, <4>2, <4>4
        <5>2. at[m + 1] = of[m]
          BY <5>1
        <5>3. QED
          BY <4>1, <5>1, <5>2
      <4>5. QED
        BY <4>3, <4>4
    <3>2. CASE ~ (n < limit)
      <4>1. shot.key < samples[n].key /\ n \in 1..n
        BY <1>1, <1>6, <1>11, <3>2
      <4>2. QED
        BY <1>7, <1>8, <2>3, <2>4, <4>1
    <3>3. QED
      BY <3>1, <3>2
  <2>6. QED
    BY <1>10, <1>14, <2>4, <2>5
<1>23. Len(kept) <= limit /\ Len(kept) <= Len(samples) + 1
  <2>1. Len(kept) = k /\ Len(samples) = n
    BY <1>4, <1>20
  <2>2. k <= n + 1
    BY <1>11
  <2>3. QED
    BY ONLY <1>11, <2>1, <2>2
<1>24. Shows(kept, more, limit)
  <2> HIDE DEF at
  <2>1. at \in [DOMAIN kept -> more]
    BY <1>15, <1>20
  <2>2. Len(kept) = IF limit <= Cardinality(more) THEN limit ELSE Cardinality(more)
    BY <1>12, <1>20
  <2>3. /\ \A i, j \in DOMAIN kept : at[i] = at[j] => i = j
        /\ \A i \in DOMAIN kept : kept[i] = ShotOf(at[i])
        /\ \A c \in more \ {at[i] : i \in DOMAIN kept}, i \in DOMAIN kept :
             kept[i].key <= Display[c.key]
    BY <1>16, <1>17, <1>20, <1>22
  <2>4. QED
    BY <1>21, <2>1, <2>2, <2>3 DEF Shows
<1>25. QED
  BY <1>20, <1>23, <1>24 DEF limit, more

-----------------------------------------------------------------------------
(* Events *)

EventUnits(events) == Total([i \in DOMAIN events |-> EventBytes(events[i])])
OfKind(changes, kind) == {change \in changes : change.kind = kind}

\* Each of some changes has one event.
Told(events, changes) ==
    /\ Len(events) = Cardinality(changes)
    /\ EventUnits(events) = Cardinality(Units(changes))
    /\ \A event : Cardinality({i \in DOMAIN events : events[i] = event})
                    = Cardinality({change \in changes : Shown(change) = event})

\* Counts, samples and events are those of some changes.
Tallied(x, noted) ==
    /\ noted \subseteq Change /\ IsFiniteSet(noted)
    /\ \A kind \in Kind : /\ x.acc[kind].count = Cardinality(OfKind(noted, kind))
                          /\ Shows(x.acc[kind].samples, OfKind(noted, kind), job.max_samples)
    /\ IF job.output = "none" THEN x.sink.events = << >> ELSE Told(x.sink.events, noted)

\* A kind has one change more, or as many as before.
LEMMA OfKindAdd ==
    ASSUME NEW noted, noted \subseteq Change, IsFiniteSet(noted), NEW change \in Change,
           change \notin noted, NEW kind \in Kind
    PROVE  /\ IsFiniteSet(OfKind(noted, kind)) /\ OfKind(noted, kind) \subseteq Change
           /\ change \notin OfKind(noted, kind) /\ Cardinality(OfKind(noted, kind)) \in Nat
           /\ kind = change.kind =>
                /\ OfKind(noted \cup {change}, kind) = OfKind(noted, kind) \cup {change}
                /\ Cardinality(OfKind(noted \cup {change}, kind))
                     = Cardinality(OfKind(noted, kind)) + 1
           /\ kind # change.kind => OfKind(noted \cup {change}, kind) = OfKind(noted, kind)
<1>1. OfKind(noted, kind) \in SUBSET noted /\ change \notin OfKind(noted, kind)
  BY DEF OfKind
<1>2. IsFiniteSet(OfKind(noted, kind)) /\ Cardinality(OfKind(noted, kind)) \in Nat
  BY <1>1, FS_Subset, FS_CardinalityType
<1>3. kind = change.kind => OfKind(noted \cup {change}, kind) = OfKind(noted, kind) \cup {change}
  BY DEF OfKind
<1>4. kind # change.kind => OfKind(noted \cup {change}, kind) = OfKind(noted, kind)
  BY DEF OfKind
<1>5. Cardinality(OfKind(noted, kind) \cup {change}) = Cardinality(OfKind(noted, kind)) + 1
  BY <1>1, <1>2, FS_AddElement
<1>6. QED
  BY <1>1, <1>2, <1>3, <1>4, <1>5

\* The units of one change, and of a set of changes.
UnitsOf(change) == {change} \X ({0} \cup change.columns)

\* A change stands for itself and its changed columns.
LEMMA UnitsOfOne ==
    ASSUME NEW change \in Change
    PROVE  /\ IsFiniteSet(UnitsOf(change))
           /\ Cardinality(UnitsOf(change)) = 1 + Cardinality(change.columns)
<1>1. /\ IsFiniteSet(change.columns) /\ 0 \notin change.columns
      /\ Cardinality(change.columns) \in Nat
  <2>1. change.columns \in Columns
    BY ChangeType
  <2>2. IsFiniteSet(change.columns) /\ 0 \notin change.columns
    BY <2>1 DEF Columns
  <2>3. QED
    BY <2>2, FS_CardinalityType
<1>2. {0} \cup change.columns = change.columns \cup {0}
  OBVIOUS
<1>3. /\ IsFiniteSet({0} \cup change.columns)
      /\ Cardinality({0} \cup change.columns) = Cardinality(change.columns) + 1
  BY <1>1, <1>2, FS_AddElement
<1>4. IsFiniteSet({change}) /\ Cardinality({change}) = 1
  BY FS_Singleton
<1>5. /\ IsFiniteSet(UnitsOf(change))
      /\ Cardinality(UnitsOf(change)) = Cardinality({change}) * Cardinality({0} \cup change.columns)
  BY <1>3, <1>4, FS_Product DEF UnitsOf
<1>6. \A n \in Nat : 1 * (n + 1) = 1 + n
  OBVIOUS
<1>7. Cardinality(UnitsOf(change)) = 1 * (Cardinality(change.columns) + 1)
  BY <1>3, <1>4, <1>5
<1>8. QED
  BY <1>1, <1>5, <1>6, <1>7

\* Finitely many changes stand for finitely many units.
LEMMA UnitsFinite ==
    ASSUME NEW changes, changes \subseteq Change, IsFiniteSet(changes)
    PROVE  IsFiniteSet(Units(changes)) /\ Cardinality(Units(changes)) \in Nat
<1> DEFINE f == [change \in changes |-> UnitsOf(change)]
           S == {f[change] : change \in changes}
<1>1. IsFiniteSet(S)
  BY ImageFinite
<1>2. \A T \in S : IsFiniteSet(T)
  BY UnitsOfOne
<1>3. Units(changes) = UNION S
  BY DEF Units, UnitsOf
<1> HIDE DEF S
<1>4. QED
  BY <1>1, <1>2, <1>3, FS_UNION, FS_CardinalityType

\* A new change adds itself and its changed columns to the units.
LEMMA UnitsAdd ==
    ASSUME NEW changes, changes \subseteq Change, IsFiniteSet(changes), NEW change \in Change,
           change \notin changes
    PROVE  /\ IsFiniteSet(changes \cup {change}) /\ changes \cup {change} \subseteq Change
           /\ Cardinality(Units(changes \cup {change}))
                = Cardinality(Units(changes)) + (1 + Cardinality(change.columns))
<1>1. Units(changes \cup {change}) = Units(changes) \cup UnitsOf(change)
  BY DEF Units, UnitsOf
<1>2. Units(changes) \cap UnitsOf(change) = {}
  BY DEF Units, UnitsOf
<1>3. IsFiniteSet(Units(changes)) /\ Cardinality(Units(changes)) \in Nat
  BY UnitsFinite
<1>4. /\ IsFiniteSet(UnitsOf(change)) /\ Cardinality(change.columns) \in Nat
      /\ Cardinality(UnitsOf(change)) = 1 + Cardinality(change.columns)
  BY UnitsOfOne, ChangeType
<1>5. Cardinality(Units(changes) \cup UnitsOf(change))
        = Cardinality(Units(changes)) + Cardinality(UnitsOf(change))
          - Cardinality(Units(changes) \cap UnitsOf(change))
  BY <1>3, <1>4, FS_Union
<1>6. Cardinality(Units(changes) \cap UnitsOf(change)) = 0
  BY <1>2, FS_EmptySet
<1>7. IsFiniteSet(changes \cup {change})
  BY FS_AddElement
<1>8. Cardinality(Units(changes) \cup UnitsOf(change))
        = Cardinality(Units(changes)) + (1 + Cardinality(change.columns))
  BY ONLY <1>3, <1>4, <1>5, <1>6
<1>9. QED
  BY <1>1, <1>7, <1>8

\* More changes need more units.
LEMMA UnitsMore ==
    ASSUME NEW changes, changes \subseteq Change, IsFiniteSet(changes),
           NEW some, some \subseteq changes
    PROVE  /\ IsFiniteSet(some)
           /\ Cardinality(Units(some)) \in Nat /\ Cardinality(Units(changes)) \in Nat
           /\ Cardinality(Units(some)) <= Cardinality(Units(changes))
<1>1. Units(some) \in SUBSET Units(changes)
  BY DEF Units
<1>2. IsFiniteSet(some) /\ some \subseteq Change
  BY FS_Subset
<1>3. QED
  BY <1>1, <1>2, UnitsFinite, FS_Subset

\* An event takes a number of bytes.
LEMMA EventBytesType ==
    ASSUME NEW event \in Event
    PROVE  EventBytes(event) \in Nat
<1>1. IsFiniteSet(event.columns)
  BY DEF Event, Columns
<1>2. Cardinality(event.columns) \in Nat
  BY <1>1, FS_CardinalityType
<1>3. QED
  BY <1>2 DEF EventBytes

\* So do all events of the output.
LEMMA EventUnitsType ==
    ASSUME NEW events, events \in Seq(Event)
    PROVE  /\ [i \in DOMAIN events |-> EventBytes(events[i])] \in Seq(Nat)
           /\ EventUnits(events) \in Nat
<1>1. \A i \in DOMAIN events : EventBytes(events[i]) \in Nat
  BY EventBytesType
<1>2. DOMAIN events = 1..Len(events) /\ Len(events) \in Nat
  OBVIOUS
<1>3. [i \in DOMAIN events |-> EventBytes(events[i])] \in Seq(Nat)
  BY <1>1, <1>2
<1>4. QED
  BY <1>3, TotalType DEF EventUnits

\* One more event takes its own bytes more.
LEMMA EventUnitsAppend ==
    ASSUME NEW events, events \in Seq(Event), NEW event \in Event
    PROVE  EventUnits(Append(events, event)) = EventUnits(events) + EventBytes(event)
<1> DEFINE s == [i \in DOMAIN events |-> EventBytes(events[i])]
<1>1. s \in Seq(Nat) /\ EventBytes(event) \in Nat
  BY EventUnitsType, EventBytesType
<1>2. [i \in DOMAIN Append(events, event) |-> EventBytes(Append(events, event)[i])]
        = Append(s, EventBytes(event))
  <2>1. /\ DOMAIN events = 1..Len(events) /\ DOMAIN Append(events, event) = 1..Len(events) + 1
        /\ \A i \in 1..Len(events) : Append(events, event)[i] = events[i]
        /\ Append(events, event)[Len(events) + 1] = event
    OBVIOUS
  <2>2. Len(s) = Len(events)
    BY <2>1
  <2>3. QED
    BY <1>1, <2>1, <2>2
<1>3. QED
  BY <1>1, <1>2, TotalAppend DEF EventUnits

\* One event more, for one change more.
LEMMA ToldAdd ==
    ASSUME NEW events, events \in Seq(Event), NEW noted, noted \subseteq Change, IsFiniteSet(noted),
           NEW change \in Change, change \notin noted, Told(events, noted)
    PROVE  Told(Append(events, Shown(change)), noted \cup {change})
<1> DEFINE more == Append(events, Shown(change))
           all == noted \cup {change}
<1>1. /\ DOMAIN events = 1..Len(events) /\ DOMAIN more = 1..Len(events) + 1
      /\ \A i \in 1..Len(events) : more[i] = events[i]
      /\ more[Len(events) + 1] = Shown(change) /\ Len(events) \in Nat
      /\ Len(more) = Len(events) + 1
  OBVIOUS
<1>2. Len(more) = Cardinality(all)
  <2>1. Cardinality(all) = Cardinality(noted) + 1
    BY FS_AddElement
  <2>2. Len(events) = Cardinality(noted)
    BY DEF Told
  <2>3. QED
    BY <1>1, <2>1, <2>2
<1>3. EventUnits(more) = Cardinality(Units(all))
  <2>1. EventBytes(Shown(change)) = 1 + Cardinality(change.columns) /\ Shown(change) \in Event
    BY ChangeType DEF EventBytes
  <2>2. EventUnits(more) = EventUnits(events) + EventBytes(Shown(change))
    BY <2>1, EventUnitsAppend
  <2>3. EventUnits(events) = Cardinality(Units(noted))
    BY DEF Told
  <2>4. QED
    BY <2>1, <2>2, <2>3, UnitsAdd
<1>4. ASSUME NEW event
      PROVE  Cardinality({i \in DOMAIN more : more[i] = event})
               = Cardinality({c \in all : Shown(c) = event})
  <2> DEFINE I == {i \in DOMAIN events : events[i] = event}
             J == {i \in DOMAIN more : more[i] = event}
             C == {c \in noted : Shown(c) = event}
             D == {c \in all : Shown(c) = event}
  <2>1. Cardinality(I) = Cardinality(C)
    BY DEF Told
  <2>2. IsFiniteSet(I) /\ IsFiniteSet(C)
    <3>1. I \in SUBSET (1..Len(events)) /\ C \in SUBSET noted
      BY <1>1
    <3>2. IsFiniteSet(1..Len(events))
      BY <1>1, FS_Interval
    <3>3. QED
      BY <3>1, <3>2, FS_Subset
  <2>3. CASE event = Shown(change)
    <3>1. J = I \cup {Len(events) + 1} /\ Len(events) + 1 \notin I
      BY <1>1, <2>3
    <3>2. D = C \cup {change} /\ change \notin C
      BY <2>3
    <3> HIDE DEF I, J, C, D
    <3>3. Cardinality(J) = Cardinality(I) + 1 /\ Cardinality(D) = Cardinality(C) + 1
      BY <2>2, <3>1, <3>2, FS_AddElement
    <3>4. QED
      BY <2>1, <3>3 DEF J, D
  <2>4. CASE event # Shown(change)
    <3>1. J = I /\ D = C
      <4>1. \A i \in 1..Len(events) + 1 : i \in 1..Len(events) \/ i = Len(events) + 1
        BY <1>1
      <4>2. \A i \in 1..Len(events) : i \in 1..Len(events) + 1
        BY <1>1
      <4>3. J = I
        BY <1>1, <2>4, <4>1, <4>2
      <4>4. D = C
        BY <2>4
      <4>5. QED
        BY <4>3, <4>4
    <3>2. QED
      BY <2>1, <3>1
  <2>5. QED
    BY <2>3, <2>4
<1>5. QED
  BY <1>2, <1>3, <1>4 DEF Told

-----------------------------------------------------------------------------
(* Noting a change *)

\* The number of all samples.
Shots(x) ==
    Len(x.acc["added"].samples) + Len(x.acc["removed"].samples) + Len(x.acc["changed"].samples)
LedgersOf(x) == x.ledger["before"].reserved + x.ledger["after"].reserved

\* What is free depends on the ledgers, the samples and the sink.
LEMMA FreeTerms ==
    ASSUME Setting
    PROVE  \E r \in Int : \A x \in Copy : /\ Shots(x) \in Nat /\ LedgersOf(x) \in Nat
                                          /\ x.sink.charged \in Nat
                                          /\ Free(x) = r - LedgersOf(x) - Shots(x) - x.sink.charged
<1> DEFINE rest == Total([p \in DOMAIN writers |-> writers[p].charged])
           room == IF writers = << >> THEN 0 ELSE WriterBytes
           r == job.max_memory - rest - room
<1>1. rest \in Nat /\ room \in Nat /\ job.max_memory \in Nat
  BY Charges, Limits DEF Setting
<1>2. r \in Int
  <2> HIDE DEF rest, room
  <2>1. QED
    BY <1>1
<1>3. ASSUME NEW x, x \in Copy
      PROVE  /\ Shots(x) \in Nat /\ LedgersOf(x) \in Nat /\ x.sink.charged \in Nat
             /\ Free(x) = r - LedgersOf(x) - Shots(x) - x.sink.charged
  <2>1. x.sink.charged \in Nat /\ x.ledger["before"].reserved \in Nat
        /\ x.ledger["after"].reserved \in Nat
    BY <1>3, FreeParts
  <2>2. LedgersOf(x) \in Nat
    BY <2>1 DEF LedgersOf
  <2>3. Shots(x) \in Nat
    <3>1. \A kind \in Kind : Len(x.acc[kind].samples) \in Nat
      BY <1>3, FreeParts
    <3>2. QED
      BY <3>1, Kinds, ThreeNumbers, Zenon DEF Shots
  <2>4. Free(x) = job.max_memory - LedgersOf(x) - rest - room - Shots(x) - x.sink.charged
    BY DEF Free, LedgersOf, Shots
  <2> HIDE DEF rest, room
  <2>5. job.max_memory - LedgersOf(x) - rest - room - Shots(x) - x.sink.charged
          = r - LedgersOf(x) - Shots(x) - x.sink.charged
    BY ONLY <1>1, <2>1, <2>2, <2>3
  <2>6. QED
    BY <2>1, <2>2, <2>3, <2>4, <2>5
<1>4. QED
  BY <1>2, <1>3

\* Emit: the event is in the output, or a limit was passed.
LEMMA Emitted ==
    ASSUME Setting, NEW x, Sound(x), x.err = "none", NEW event, event \in Event,
           NEW y, y = Emit(x, event)
    PROVE  /\ Sound(y) /\ y.ledger = x.ledger /\ y.acc = x.acc
           /\ y.sink.open = x.sink.open /\ y.sink.stored = x.sink.stored
           /\ y.err = "none" => IF job.output = "none" THEN y = x
                                ELSE /\ y.sink.events = Append(x.sink.events, event)
                                     /\ y.temp.used = x.temp.used + EventBytes(event)
           /\ y.err = "records" => job.output # "none" /\ Len(x.sink.events) >= job.max_records
           /\ y.err = "temp" => job.output # "none"
                                /\ x.temp.used + EventBytes(event) > job.max_temp
<1> DEFINE size == EventBytes(event)
           growth == IF job.output = "jsonl" THEN Max({0, size - x.sink.capacity}) ELSE 0
           u == UseTemp(x, size)
           tail == [u EXCEPT !.sink = Written(@, event, growth)]
           m == Refuse(x, "memory")
           c == Refuse(x, "records")
<1>1. x \in Copy /\ size \in Nat /\ x.sink.capacity \in Nat /\ x.sink.charged \in Nat
      /\ x.sink.events \in Seq(Event) /\ Free(x) \in Int /\ Free(x) >= 0
  BY EventBytesType, FreeParts DEF Sound
<1>2. growth \in Nat /\ (growth <= 0 \/ job.output = "jsonl")
  <2>1. size - x.sink.capacity \in Int
    BY <1>1
  <2>2. Max({0, size - x.sink.capacity}) \in Nat
    BY <2>1, MaxOfTwo
  <2>3. QED
    BY <2>2
<1>3. /\ Sound(u) /\ Free(u) = Free(x)
      /\ u.acc = x.acc /\ u.sink = x.sink /\ u.ledger = x.ledger
      /\ u.err \in {"none", "temp"}
      /\ u.err = "none" => u.temp.used = x.temp.used + size
      /\ u.err # "none" => u.err = "temp" /\ x.temp.used + size > job.max_temp
  <2>1. size \in Nat
    BY <1>1
  <2>2. u = UseTemp(x, size)
    OBVIOUS
  <2> HIDE DEF u, size
  <2>3. /\ Sound(u) /\ Free(u) = Free(x)
        /\ u.acc = x.acc /\ u.sink = x.sink /\ u.ledger = x.ledger
        /\ u.err \in {x.err, "temp"}
        /\ u.err = "none" => x.err = "none" /\ u.temp.used = x.temp.used + size
        /\ x.err = "none" /\ u.err # "none" => u.err = "temp" /\ x.temp.used + size > job.max_temp
    BY <2>2, <2>1, TempUsed
  <2>4. QED
    BY <2>3
<1>4. /\ Sound(m) /\ m.ledger = x.ledger /\ m.acc = x.acc /\ m.sink = x.sink /\ m.err = "memory"
      /\ Sound(c) /\ c.ledger = x.ledger /\ c.acc = x.acc /\ c.sink = x.sink /\ c.err = "records"
  BY <1>1, Refused
<1>5. \/ job.output = "none" /\ y = x
      \/ job.output # "none" /\ Len(x.sink.events) >= job.max_records /\ y = c
      \/ y = m
      \/ job.output # "none" /\ u.err # "none" /\ y = u
      \/ /\ job.output # "none" /\ ~ (Len(x.sink.events) >= job.max_records)
         /\ ~ (job.output = "jsonl" /\ growth > Free(x)) /\ u.err = "none" /\ y = tail
  <2> HIDE DEF m, c
  <2>1. y = IF job.output = "none" THEN x
            ELSE IF Len(x.sink.events) >= job.max_records THEN c
            ELSE IF job.output = "jsonl" /\ growth > Free(x) THEN m
            ELSE IF u.err # "none" THEN u
            ELSE IF job.output # "jsonl" /\ size > Free(x) THEN m
            ELSE tail
    BY Zenon DEF Emit, m, c
  <2> HIDE DEF u, tail, growth, size
  <2>2. QED
    BY <2>1
<1>6. CASE job.output = "none" /\ y = x
  BY <1>6
<1>7. CASE job.output # "none" /\ Len(x.sink.events) >= job.max_records /\ y = c
  <2> HIDE DEF c
  <2>1. QED
    BY <1>4, <1>7
<1>8. CASE y = m
  <2> HIDE DEF m
  <2>1. QED
    BY <1>4, <1>8
<1>9. CASE job.output # "none" /\ u.err # "none" /\ y = u
  <2> HIDE DEF u
  <2>1. QED
    BY <1>3, <1>9
<1>10. CASE /\ job.output # "none" /\ ~ (Len(x.sink.events) >= job.max_records)
            /\ ~ (job.output = "jsonl" /\ growth > Free(x)) /\ u.err = "none" /\ y = tail
  <2> DEFINE longer == Written(u.sink, event, growth)
  <2> HIDE DEF u, growth, size
  <2>1. u \in Copy /\ u.sink \in Output /\ u.sink = x.sink
    BY <1>3 DEF Sound, Copy
  <2>2. y = [u EXCEPT !.sink = longer]
    BY <1>10
  <2>3. Append(u.sink.events, event) \in Seq(Event)
        /\ Len(Append(u.sink.events, event)) = Len(x.sink.events) + 1
    BY <1>1, <2>1
  <2>4. u.sink.charged + growth \in Nat /\ u.sink.capacity + growth \in Nat
    BY <1>1, <1>2, <2>1
  <2>5. /\ longer \in Output /\ longer.events = Append(x.sink.events, event)
        /\ longer.charged = x.sink.charged + growth /\ longer.capacity = x.sink.capacity + growth
        /\ longer.open = x.sink.open /\ longer.stored = x.sink.stored
    BY <2>1, <2>3, <2>4 DEF Output, Written
  <2> HIDE DEF longer
  <2>6. /\ y \in Copy /\ y.sink = longer /\ y.ledger = u.ledger /\ y.acc = u.acc /\ y.temp = u.temp
        /\ y.err = u.err
    BY <2>1, <2>2, <2>5 DEF Copy
  <2>7. Free(y) >= 0
    <3>1. PICK r \in Int : \A z \in Copy : /\ Shots(z) \in Nat /\ LedgersOf(z) \in Nat
                                           /\ z.sink.charged \in Nat
                                           /\ Free(z) = r - LedgersOf(z) - Shots(z) - z.sink.charged
      BY FreeTerms
    <3>2. Shots(y) = Shots(x) /\ LedgersOf(y) = LedgersOf(x)
      BY <1>3, <2>6 DEF Shots, LedgersOf
    <3>3. /\ Free(y) = r - LedgersOf(x) - Shots(x) - (x.sink.charged + growth)
          /\ Free(x) = r - LedgersOf(x) - Shots(x) - x.sink.charged
          /\ Shots(x) \in Nat /\ LedgersOf(x) \in Nat
      BY <1>1, <2>5, <2>6, <3>1, <3>2
    <3>4. growth <= Free(x)
      BY <1>1, <1>2, <1>10
    <3>5. QED
      BY ONLY <1>1, <1>2, <3>1, <3>3, <3>4
  <2>8. Len(y.sink.events) <= job.max_records
    <3>1. Len(x.sink.events) \in Nat /\ job.max_records \in Nat
      BY <1>1, Limits DEF Setting
    <3>2. Len(y.sink.events) = Len(x.sink.events) + 1
      BY <2>1, <2>3, <2>5, <2>6
    <3>3. QED
      BY ONLY <1>10, <3>1, <3>2
  <2>9. y.sink.open => y.sink.capacity - EventRoom = y.sink.charged - SinkBytes
    <3>1. x.sink.open => x.sink.capacity - EventRoom = x.sink.charged - SinkBytes
      BY DEF Sound
    <3>2. EventRoom \in Nat /\ SinkBytes \in Nat
      BY Sizes
    <3>3. growth \in Nat /\ x.sink.capacity \in Nat /\ x.sink.charged \in Nat
      BY <1>1, <1>2
    <3>4. x.sink.open => (x.sink.capacity + growth) - EventRoom = (x.sink.charged + growth) - SinkBytes
      <4>1. SUFFICES ASSUME x.sink.open
                     PROVE  (x.sink.capacity + growth) - EventRoom = (x.sink.charged + growth) - SinkBytes
        OBVIOUS
      <4>2. x.sink.capacity - EventRoom = x.sink.charged - SinkBytes
        BY <3>1, <4>1
      <4>3. QED
        BY ONLY <3>2, <3>3, <4>2
    <3>5. QED
      BY <2>5, <2>6, <3>4
  <2>10. Sound(y)
    <3>1. Sound(u)
      BY <1>3
    <3>2. QED
      BY <2>6, <2>7, <2>8, <2>9, <3>1 DEF Sound
  <2>11. QED
    BY <1>3, <1>10, <2>5, <2>6, <2>10 DEF size
<1>11. QED
  BY <1>5, <1>6, <1>7, <1>8, <1>9, <1>10

\* One counter is replaced.
LEMMA CounterSet ==
    ASSUME NEW x, x \in Copy, NEW kind \in Kind, NEW counter \in Counter,
           NEW y, y = SetCounter(x, kind, counter)
    PROVE  /\ y \in Copy /\ y.ledger = x.ledger /\ y.sink = x.sink /\ y.temp = x.temp
           /\ y.err = x.err /\ y.acc[kind] = counter
           /\ \A other \in Kind : other # kind => y.acc[other] = x.acc[other]
<1>1. y = [x EXCEPT !.acc = [x.acc EXCEPT ![kind] = counter]]
  BY DEF SetCounter
<1>2. x.acc \in [Kind -> Counter]
  BY DEF Copy
<1>3. [x.acc EXCEPT ![kind] = counter] \in [Kind -> Counter]
  BY <1>2
<1>4. /\ y \in Copy /\ y.ledger = x.ledger /\ y.sink = x.sink /\ y.temp = x.temp
      /\ y.err = x.err /\ y.acc = [x.acc EXCEPT ![kind] = counter]
  BY <1>1, <1>3 DEF Copy
<1>5. QED
  BY <1>2, <1>4

\* With at most one sample more, at most one unit less is free.
LEMMA FreeWithSample ==
    ASSUME Setting, NEW x, x \in Copy, NEW y, y \in Copy, y.ledger = x.ledger, y.sink = x.sink,
           NEW kind \in Kind, Len(y.acc[kind].samples) <= Len(x.acc[kind].samples) + 1,
           \A other \in Kind : other # kind => y.acc[other] = x.acc[other]
    PROVE  Free(y) >= Free(x) - 1
<1>1. PICK r \in Int : \A z \in Copy : /\ Shots(z) \in Nat /\ LedgersOf(z) \in Nat
                                       /\ z.sink.charged \in Nat
                                       /\ Free(z) = r - LedgersOf(z) - Shots(z) - z.sink.charged
  BY FreeTerms
<1>2. LedgersOf(y) = LedgersOf(x)
  BY DEF LedgersOf
<1>3. Shots(y) <= Shots(x) + 1
  <2>1. \A k \in Kind : Len(x.acc[k].samples) \in Nat /\ Len(y.acc[k].samples) \in Nat
    BY FreeParts
  <2>2. \A k \in Kind : k # kind => Len(y.acc[k].samples) = Len(x.acc[k].samples)
    OBVIOUS
  <2>3. \A a, b, c, d \in Nat : /\ d <= a + 1 => d + b + c <= (a + b + c) + 1
                                /\ d <= b + 1 => a + d + c <= (a + b + c) + 1
                                /\ d <= c + 1 => a + b + d <= (a + b + c) + 1
    OBVIOUS
  <2>4. \E a \in Nat : a = Len(x.acc["added"].samples)
    BY <2>1, Kinds
  <2>5. PICK a \in Nat : a = Len(x.acc["added"].samples)
    BY <2>4
  <2>6. PICK b \in Nat : b = Len(x.acc["removed"].samples)
    BY <2>1, Kinds
  <2>7. PICK c \in Nat : c = Len(x.acc["changed"].samples)
    BY <2>1, Kinds
  <2>8. PICK d \in Nat : d = Len(y.acc[kind].samples)
    BY <2>1, Kinds
  <2>9. Shots(x) = a + b + c
    BY <2>5, <2>6, <2>7, Zenon DEF Shots
  <2>10. CASE kind = "added"
    <3>1. Shots(y) = d + b + c
      <4>1. Len(y.acc["removed"].samples) = b /\ Len(y.acc["changed"].samples) = c
        BY <2>2, <2>6, <2>7, <2>10, Kinds
      <4>2. QED
        BY <2>8, <2>10, <4>1, Zenon DEF Shots
    <3>2. d <= a + 1
      BY <2>5, <2>8, <2>10, Zenon
    <3>3. QED
      BY ONLY <2>9, <3>1, <3>2, a \in Nat, b \in Nat, c \in Nat, d \in Nat
  <2>11. CASE kind = "removed"
    <3>1. Shots(y) = a + d + c
      <4>1. Len(y.acc["added"].samples) = a /\ Len(y.acc["changed"].samples) = c
        BY <2>2, <2>5, <2>7, <2>11, Kinds
      <4>2. QED
        BY <2>8, <2>11, <4>1, Zenon DEF Shots
    <3>2. d <= b + 1
      BY <2>6, <2>8, <2>11, Zenon
    <3>3. QED
      BY ONLY <2>9, <3>1, <3>2, a \in Nat, b \in Nat, c \in Nat, d \in Nat
  <2>12. CASE kind = "changed"
    <3>1. Shots(y) = a + b + d
      <4>1. Len(y.acc["added"].samples) = a /\ Len(y.acc["removed"].samples) = b
        BY <2>2, <2>5, <2>6, <2>12, Kinds
      <4>2. QED
        BY <2>8, <2>12, <4>1, Zenon DEF Shots
    <3>2. d <= c + 1
      BY <2>7, <2>8, <2>12, Zenon
    <3>3. QED
      BY ONLY <2>9, <3>1, <3>2, a \in Nat, b \in Nat, c \in Nat, d \in Nat
  <2>13. QED
    BY <2>10, <2>11, <2>12, Kinds
<1>4. /\ Free(y) = r - LedgersOf(x) - Shots(y) - x.sink.charged
      /\ Free(x) = r - LedgersOf(x) - Shots(x) - x.sink.charged
  BY <1>1, <1>2
<1>5. Shots(x) \in Nat /\ Shots(y) \in Nat /\ LedgersOf(x) \in Nat /\ x.sink.charged \in Nat
  BY <1>1
<1>6. QED
  BY ONLY <1>3, <1>4, <1>5, r \in Int

\* Sample: the samples show one change more, unless there is no memory for it.
LEMMA Sampled ==
    ASSUME Setting, NEW x, Sound(x), x.err = "none", NEW change \in Change, NEW changes,
           changes \subseteq Change, IsFiniteSet(changes), change \notin changes,
           NEW kind \in Kind, Shows(x.acc[kind].samples, changes, job.max_samples),
           NEW shot, shot = ShotOf(change) \/ job.max_samples = 0,
           NEW y, y = Sample(x, kind, shot)
    PROVE  /\ Sound(y) /\ y.ledger = x.ledger /\ y.sink = x.sink /\ y.temp = x.temp
           /\ y.err \in {"none", "memory"}
           /\ \A k \in Kind : y.acc[k].count = x.acc[k].count
           /\ \A k \in Kind : k # kind => y.acc[k].samples = x.acc[k].samples
           /\ y.err = "none" => Shows(y.acc[kind].samples, changes \cup {change}, job.max_samples)
<1> DEFINE samples == x.acc[kind].samples
           kept == Retained(samples, shot)
           counter == [x.acc[kind] EXCEPT !.samples = kept]
           m == Refuse(x, "memory")
<1>1. x \in Copy /\ job \in Jobs /\ samples \in Seq(Shot) /\ x.acc[kind] \in Counter
      /\ Free(x) \in Int /\ Free(x) >= 0
  BY FreeParts DEF Sound, Setting
<1>2. \/ ~Retains(samples, shot) /\ y = x
      \/ y = m
      \/ Retains(samples, shot) /\ ~ (Free(x) < 1) /\ y = SetCounter(x, kind, counter)
  BY DEF Sample
<1>3. CASE ~Retains(samples, shot) /\ y = x
  <2>1. ~Retains(samples, ShotOf(change))
    BY <1>3 DEF Retains
  <2>2. Shows(samples, changes \cup {change}, job.max_samples)
    BY <1>1, <2>1, ShowsWithout
  <2>3. QED
    BY <1>3, <2>2
<1>4. CASE y = m
  <2>1. Sound(m) /\ m.ledger = x.ledger /\ m.acc = x.acc /\ m.sink = x.sink /\ m.temp = x.temp
        /\ m.err = "memory"
    BY <1>1, Refused
  <2> HIDE DEF m
  <2>2. QED
    BY <1>4, <2>1
<1>5. CASE Retains(samples, shot) /\ ~ (Free(x) < 1) /\ y = SetCounter(x, kind, counter)
  <2>1. shot = ShotOf(change)
    BY <1>5 DEF Retains
  <2>2. kept \in Seq(Shot) /\ Len(kept) <= job.max_samples /\ Len(kept) <= Len(samples) + 1
        /\ Shows(kept, changes \cup {change}, job.max_samples)
    <3> HIDE DEF samples
    <3>1. Shows(samples, changes, job.max_samples)
      BY DEF samples
    <3>2. Retains(samples, ShotOf(change)) /\ kept = Retained(samples, ShotOf(change))
      BY <1>5, <2>1
    <3> HIDE DEF kept
    <3>3. QED
      BY <1>1, <3>1, <3>2, ShowsWith
  <2> HIDE DEF kept
  <2>3. counter \in Counter /\ counter.samples = kept /\ counter.count = x.acc[kind].count
    BY <1>1, <2>2 DEF Counter
  <2> HIDE DEF counter
  <2>4. /\ y \in Copy /\ y.ledger = x.ledger /\ y.sink = x.sink /\ y.temp = x.temp
        /\ y.err = x.err /\ y.acc[kind] = counter
        /\ \A other \in Kind : other # kind => y.acc[other] = x.acc[other]
    BY <1>1, <1>5, <2>3, CounterSet
  <2>5. Len(y.acc[kind].samples) <= Len(x.acc[kind].samples) + 1
    BY <2>2, <2>3, <2>4, Zenon DEF samples
  <2>6. Free(y) >= Free(x) - 1
    BY <1>1, <2>4, <2>5, FreeWithSample
  <2>7. Free(y) \in Int
    BY <2>4, FreeParts
  <2>8. Free(y) >= 0
    BY ONLY <1>1, <1>5, <2>6, <2>7
  <2>9. \A k \in Kind : Len(y.acc[k].samples) <= job.max_samples
    <3>1. TAKE k \in Kind
    <3>2. CASE k = kind
      BY <2>2, <2>3, <2>4, <3>2, Zenon
    <3>3. CASE k # kind
      BY <2>4, <3>3 DEF Sound
    <3>4. QED
      BY <3>2, <3>3
  <2>10. Sound(y)
    BY <2>4, <2>8, <2>9 DEF Sound
  <2>11. QED
    BY <2>2, <2>3, <2>4, <2>10
<1>6. QED
  BY <1>2, <1>3, <1>4, <1>5

\* Note: one change more is counted, told and shown, or a limit was passed.  What is
\* told of it differs only if nobody sees the columns.
LEMMA Noted ==
    ASSUME Setting, NEW x, Sound(x), x.err = "none", NEW noted, Tallied(x, noted),
           NEW change \in Change, change \notin noted, NEW told \in Change,
           told = change \/ (~NeedsChangedDetail /\ told.kind = change.kind),
           NEW y, y = Note(x, told)
    PROVE  /\ Sound(y) /\ y.ledger = x.ledger
           /\ y.sink.open = x.sink.open /\ y.sink.stored = x.sink.stored
           /\ y.err = "none" =>
                /\ Tallied(y, noted \cup {change})
                /\ y.temp.used + EventUnits(x.sink.events)
                     = x.temp.used + EventUnits(y.sink.events)
           /\ y.err = "records" => /\ job.output # "none"
                                   /\ Cardinality(noted) >= job.max_records
           /\ y.err = "temp" => /\ job.output # "none"
                                /\ x.temp.used + (1 + Cardinality(change.columns)) > job.max_temp
<1> DEFINE kind == change.kind
           counter == [x.acc[kind] EXCEPT !.count = @ + 1]
           c == SetCounter(x, kind, counter)
           event == Shown(told)
           e == Emit(c, event)
           shot == [key |-> event.key, columns |-> event.columns]
<1>1. /\ x \in Copy /\ kind \in Kind /\ x.acc[kind] \in Counter /\ x.acc[kind].count \in Nat
      /\ Free(x) >= 0 /\ x.sink.events \in Seq(Event)
      /\ noted \subseteq Change /\ IsFiniteSet(noted) /\ told.kind = kind
  BY FreeParts, ChangeType DEF Sound, Tallied
<1>2. counter \in Counter /\ counter.count = x.acc[kind].count + 1
      /\ counter.samples = x.acc[kind].samples
  BY <1>1 DEF Counter
<1>3. y = Sample(e, kind, shot)
  BY <1>1 DEF Note
<1>4. event \in Event /\ event = Shown(told) /\ event.columns = told.columns
  BY ChangeType
<1>5. shot = ShotOf(told)
  BY DEF Shown, ShotOf
<1>6. shot = ShotOf(change) \/ job.max_samples = 0
  BY <1>5 DEF NeedsChangedDetail
<1>7. told = change \/ job.output = "none"
  BY DEF NeedsChangedDetail
<1>8. /\ IsFiniteSet(OfKind(noted, kind)) /\ OfKind(noted, kind) \subseteq Change
      /\ change \notin OfKind(noted, kind) /\ Cardinality(OfKind(noted, kind)) \in Nat
      /\ OfKind(noted \cup {change}, kind) = OfKind(noted, kind) \cup {change}
      /\ Cardinality(OfKind(noted \cup {change}, kind)) = Cardinality(OfKind(noted, kind)) + 1
  <2>1. /\ noted \subseteq Change /\ IsFiniteSet(noted) /\ change \in Change /\ change \notin noted
        /\ kind \in Kind /\ kind = change.kind
    BY <1>1
  <2>2. QED
    BY ONLY <2>1, OfKindAdd
<1>9. \A k \in Kind : k # kind => OfKind(noted \cup {change}, k) = OfKind(noted, k)
  BY DEF OfKind
<1>10. noted \cup {change} \subseteq Change /\ IsFiniteSet(noted \cup {change})
  BY <1>1, UnitsAdd
<1> HIDE DEF counter, event, shot
<1>11. /\ c \in Copy /\ c.ledger = x.ledger /\ c.sink = x.sink /\ c.temp = x.temp
       /\ c.err = x.err /\ c.acc[kind] = counter
       /\ \A other \in Kind : other # kind => c.acc[other] = x.acc[other]
  BY <1>1, <1>2, CounterSet
<1> HIDE DEF c
<1>12. \A k \in Kind : c.acc[k].samples = x.acc[k].samples
  BY <1>2, <1>11
<1>13. Sound(c)
  <2>1. Free(c) = Free(x)
    BY <1>11, <1>12, Kinds DEF Free
  <2>2. \A k \in Kind : Len(c.acc[k].samples) <= job.max_samples
    BY <1>12 DEF Sound
  <2>3. QED
    BY <1>11, <2>1, <2>2 DEF Sound
<1>14. /\ Sound(e) /\ e.ledger = c.ledger /\ e.acc = c.acc
       /\ e.sink.open = c.sink.open /\ e.sink.stored = c.sink.stored
       /\ e.err = "none" => IF job.output = "none" THEN e = c
                            ELSE /\ e.sink.events = Append(c.sink.events, event)
                                 /\ e.temp.used = c.temp.used + EventBytes(event)
       /\ e.err = "records" => job.output # "none" /\ Len(c.sink.events) >= job.max_records
       /\ e.err = "temp" => job.output # "none"
                            /\ c.temp.used + EventBytes(event) > job.max_temp
  BY <1>4, <1>11, <1>13, Emitted
<1>15. job.output # "none" =>
         /\ event = Shown(change) /\ EventBytes(event) = 1 + Cardinality(change.columns)
         /\ Told(x.sink.events, noted) /\ Len(x.sink.events) = Cardinality(noted)
  BY <1>4, <1>7 DEF EventBytes, Tallied, Told
<1> HIDE DEF e
<1>16. CASE e.err # "none"
  <2>1. y = e
    BY <1>3, <1>16 DEF Sample
  <2>2. /\ y.err = "records" => /\ job.output # "none" /\ Cardinality(noted) >= job.max_records
    <3>1. SUFFICES ASSUME y.err = "records" PROVE job.output # "none" /\ Cardinality(noted) >= job.max_records
      OBVIOUS
    <3>2. job.output # "none" /\ Len(x.sink.events) >= job.max_records
      BY <1>11, <1>14, <2>1, <3>1, Zenon
    <3>3. QED
      BY <1>15, <3>2
  <2>3. /\ y.err = "temp" => /\ job.output # "none"
                             /\ x.temp.used + (1 + Cardinality(change.columns)) > job.max_temp
    BY <1>11, <1>14, <1>15, <2>1
  <2>4. QED
    BY <1>11, <1>14, <1>16, <2>1, <2>2, <2>3
<1>17. CASE e.err = "none"
  <2>1. Shows(e.acc[kind].samples, OfKind(noted, kind), job.max_samples)
    BY <1>1, <1>12, <1>14 DEF Tallied
  <2>2. /\ Sound(y) /\ y.ledger = e.ledger /\ y.sink = e.sink /\ y.temp = e.temp
        /\ y.err \in {"none", "memory"}
        /\ \A k \in Kind : y.acc[k].count = e.acc[k].count
        /\ \A k \in Kind : k # kind => y.acc[k].samples = e.acc[k].samples
        /\ y.err = "none" => Shows(y.acc[kind].samples, OfKind(noted, kind) \cup {change},
                                   job.max_samples)
    BY <1>1, <1>3, <1>6, <1>8, <1>14, <1>17, <2>1, Sampled
  <2>3. \A k \in Kind : y.acc[k].count = Cardinality(OfKind(noted \cup {change}, k))
    <3>1. TAKE k \in Kind
    <3>2. x.acc[k].count = Cardinality(OfKind(noted, k))
      BY DEF Tallied
    <3>3. CASE k = kind
      <4>1. y.acc[k].count = x.acc[k].count + 1
        BY <1>2, <1>11, <1>14, <2>2, <3>3, Zenon
      <4>2. QED
        BY <1>8, <3>2, <3>3, <4>1, ZenonT(30)
    <3>4. CASE k # kind
      BY <1>9, <1>11, <1>14, <2>2, <3>2, <3>4
    <3>5. QED
      BY <3>3, <3>4
  <2>4. y.err = "none" =>
          \A k \in Kind : Shows(y.acc[k].samples, OfKind(noted \cup {change}, k), job.max_samples)
    <3>1. SUFFICES ASSUME y.err = "none", NEW k \in Kind
                   PROVE  Shows(y.acc[k].samples, OfKind(noted \cup {change}, k), job.max_samples)
      OBVIOUS
    <3>2. CASE k = kind
      BY <1>8, <2>2, <3>1, <3>2
    <3>3. CASE k # kind
      BY <1>9, <1>12, <1>14, <2>2, <3>3 DEF Tallied
    <3>4. QED
      BY <3>2, <3>3
  <2>5. CASE job.output = "none"
    <3>1. y.sink = x.sink /\ y.temp = x.temp /\ x.sink.events = << >>
      BY <1>11, <1>14, <1>17, <2>2, <2>5 DEF Tallied
    <3>2. y.err = "none" => Tallied(y, noted \cup {change})
      BY <1>10, <2>3, <2>4, <2>5, <3>1 DEF Tallied
    <3>3. QED
      BY <1>11, <1>14, <2>2, <3>1, <3>2
  <2>6. CASE job.output # "none"
    <3>1. y.sink.events = Append(x.sink.events, Shown(change))
          /\ y.temp.used = x.temp.used + EventBytes(Shown(change))
      BY <1>11, <1>14, <1>15, <1>17, <2>2, <2>6
    <3>2. Told(y.sink.events, noted \cup {change})
      BY <1>1, <1>15, <2>6, <3>1, ToldAdd
    <3>3. y.err = "none" => Tallied(y, noted \cup {change})
      BY <1>10, <2>3, <2>4, <2>6, <3>2 DEF Tallied
    <3>4. y.temp.used + EventUnits(x.sink.events) = x.temp.used + EventUnits(y.sink.events)
      <4>1. Shown(change) \in Event
        BY ChangeType
      <4>2. EventUnits(y.sink.events) = EventUnits(x.sink.events) + EventBytes(Shown(change))
        BY <1>1, <3>1, <4>1, EventUnitsAppend
      <4>3. EventUnits(x.sink.events) \in Nat /\ EventBytes(Shown(change)) \in Nat
            /\ x.temp.used \in Nat
        BY <1>1, <4>1, EventUnitsType, EventBytesType, FreeParts
      <4>4. y.temp.used = x.temp.used + EventBytes(Shown(change))
        BY <3>1
      <4>5. QED
        BY ONLY <4>2, <4>3, <4>4
    <3>5. QED
      BY <1>11, <1>14, <2>2, <3>3, <3>4
  <2>7. QED
    BY <2>5, <2>6
<1>18. QED
  BY <1>16, <1>17

\* A copy with an error is left alone.
LEMMA NotNoted ==
    ASSUME NEW x, x.err # "none", NEW change
    PROVE  Note(x, change) = x
BY DEF Note

-----------------------------------------------------------------------------
(* Rows in the order of their keys *)

Smaller(K, key) == {k \in K : k < key}

\* Fewer keys than there are precede a key.
LEMMA SmallerType ==
    ASSUME NEW K, IsFiniteSet(K), K \subseteq Int, NEW key \in K
    PROVE  /\ IsFiniteSet(Smaller(K, key)) /\ Cardinality(K) \in Nat \ {0}
           /\ Cardinality(Smaller(K, key)) \in 0..Cardinality(K) - 1
           /\ Cardinality(Smaller(K, key)) \in Nat
<1>1. IsFiniteSet(K \ {key}) /\ Cardinality(K \ {key}) = Cardinality(K) - 1
  BY FS_RemoveElement
<1>2. Cardinality(K) \in Nat /\ Cardinality(K \ {key}) \in Nat
  BY <1>1, FS_CardinalityType
<1>3. Smaller(K, key) \in SUBSET (K \ {key})
  BY DEF Smaller
<1>4. IsFiniteSet(Smaller(K, key)) /\ Cardinality(Smaller(K, key)) <= Cardinality(K \ {key})
  BY <1>1, <1>3, FS_Subset
<1>5. Cardinality(Smaller(K, key)) \in Nat
  BY <1>4, FS_CardinalityType
<1>6. Cardinality(K) \in Nat \ {0} /\ Cardinality(Smaller(K, key)) \in 0..Cardinality(K) - 1
  BY ONLY <1>1, <1>2, <1>4, <1>5
<1>7. QED
  BY <1>4, <1>5, <1>6

\* A larger key has more smaller ones.
LEMMA SmallerGrows ==
    ASSUME NEW K, IsFiniteSet(K), K \subseteq Int, NEW a \in K, NEW b \in K, a < b
    PROVE  Cardinality(Smaller(K, a)) < Cardinality(Smaller(K, b))
<1>1. a \in Int /\ b \in Int /\ \A k \in K : k \in Int
  OBVIOUS
<1>2. Smaller(K, a) \cup {a} \in SUBSET Smaller(K, b)
  <2>1. \A k \in K : k < a => k < b
    BY <1>1
  <2>2. QED
    BY <2>1 DEF Smaller
<1>3. a \notin Smaller(K, a)
  BY DEF Smaller
<1>4. Cardinality(Smaller(K, a) \cup {a}) = Cardinality(Smaller(K, a)) + 1
  BY <1>3, SmallerType, FS_AddElement
<1>5. Cardinality(Smaller(K, a) \cup {a}) <= Cardinality(Smaller(K, b))
  BY <1>2, SmallerType, FS_Subset
<1>6. Cardinality(Smaller(K, a)) \in Nat /\ Cardinality(Smaller(K, b)) \in Nat
  BY SmallerType
<1>7. QED
  BY ONLY <1>4, <1>5, <1>6

\* Two keys that as many keys precede are one.
LEMMA SmallerOfOne ==
    ASSUME NEW K, IsFiniteSet(K), K \subseteq Int, NEW a \in K, NEW b \in K,
           Cardinality(Smaller(K, a)) = Cardinality(Smaller(K, b))
    PROVE  a = b
<1>1. Cardinality(Smaller(K, a)) \in Nat /\ Cardinality(Smaller(K, b)) \in Nat
  BY SmallerType
<1>2. a < b => Cardinality(Smaller(K, a)) < Cardinality(Smaller(K, b))
  BY SmallerGrows
<1>3. b < a => Cardinality(Smaller(K, b)) < Cardinality(Smaller(K, a))
  BY SmallerGrows
<1>4. a \in Int /\ b \in Int
  OBVIOUS
<1>5. Cardinality(Smaller(K, a)) = Cardinality(Smaller(K, b))
  OBVIOUS
<1>6. QED
  BY ONLY <1>1, <1>2, <1>4, <1>3, <1>5

\* Every place among some keys is taken.
LEMMA SmallerExists ==
    ASSUME NEW K, IsFiniteSet(K), K \subseteq Int, NEW n \in 0..Cardinality(K) - 1
    PROVE  \E key \in K : Cardinality(Smaller(K, key)) = n
<1> DEFINE T == 0..Cardinality(K) - 1
           f == [key \in K |-> Cardinality(Smaller(K, key))]
<1>1. Cardinality(K) \in Nat
  BY FS_CardinalityType
<1>2. IsFiniteSet(T) /\ Cardinality(T) = Cardinality(K)
  <2>1. 0 \in Int /\ Cardinality(K) - 1 \in Int
    BY <1>1
  <2>2. QED
    BY <1>1, <2>1, FS_Interval
<1>3. f \in [K -> T]
  BY SmallerType
<1>4. \A a, b \in K : f[a] = f[b] => a = b
  BY SmallerOfOne
<1>5. f \in Injection(K, T)
  BY <1>3, <1>4 DEF Injection, IsInjective
<1> HIDE DEF T
<1>6. f \in Surjection(K, T)
  <2> HIDE DEF f
  <2>1. QED
    BY <1>2, <1>5, FS_Injection
<1>7. \E key \in K : f[key] = n
  <2>1. n \in T
    BY DEF T
  <2>2. QED
    BY <1>6, <2>1 DEF Surjection
<1>8. QED
  BY <1>7

\* Rows without a repeated key have as many keys as rows.
LEMMA KeysOfRows ==
    ASSUME NEW rows, rows \in Seq(Row), NEW n \in Nat, Len(rows) = n, DOMAIN rows = 1..n,
           UniqueKeys(rows)
    PROVE  /\ IsFiniteSet(Keys(Range(rows))) /\ Keys(Range(rows)) \subseteq Int
           /\ Cardinality(Keys(Range(rows))) = n
<1> DEFINE K == Keys(Range(rows))
           f == [i \in 1..n |-> rows[i].key]
<1>1. IsFiniteSet(1..n) /\ Cardinality(1..n) = n
  BY FS_Interval
<1>2. \A i \in 1..n : rows[i] \in Row
  OBVIOUS
<1>3. \A i \in 1..n : f[i] \in K
  BY DEF Keys, Range
<1>4. \A key \in K : \E i \in 1..n : f[i] = key
  BY DEF Keys, Range
<1>5. \A i, j \in 1..n : f[i] = f[j] => i = j
  BY DEF UniqueKeys
<1>6. K \subseteq Int
  BY <1>2, <1>4, RowType, Sizes
<1> HIDE DEF K
<1>7. f \in Bijection(1..n, K)
  BY <1>3, <1>4, <1>5 DEF Bijection, Injection, Surjection, IsInjective
<1>8. IsFiniteSet(K) /\ Cardinality(K) = Cardinality(1..n)
  BY <1>1, <1>7, FS_Bijection DEF ExistsBijection
<1>9. QED
  BY <1>1, <1>6, <1>8 DEF K

\* ByKey has the same rows, each once.
LEMMA ByKeyOrders ==
    ASSUME NEW rows, rows \in Seq(Row), UniqueKeys(rows)
    PROVE  ByKey(rows) \in Seq(Row) /\ Range(ByKey(rows)) = Range(rows) /\ UniqueKeys(ByKey(rows))
<1> DEFINE n == Len(rows)
           K == Keys(Range(rows))
           s == ByKey(rows)
<1>1. n \in Nat /\ DOMAIN rows = 1..n /\ Range(rows) \subseteq Row
  BY RangeType
<1>2. IsFiniteSet(K) /\ K \subseteq Int /\ Cardinality(K) = n
  BY <1>1, KeysOfRows
<1>3. s = [k \in 1..n |-> CHOOSE row \in Range(rows) : Cardinality(Smaller(K, row.key)) = k - 1]
  BY DEF ByKey, Smaller
<1>4. \A row \in Range(rows) : row.key \in K
  BY DEF Keys
<1>5. \A key \in K : \E row \in Range(rows) : row.key = key
  BY DEF Keys
<1> HIDE DEF n, K, s
<1>6. ASSUME NEW k \in 1..n
      PROVE  s[k] \in Range(rows) /\ Cardinality(Smaller(K, s[k].key)) = k - 1
  <2>1. k - 1 \in 0..Cardinality(K) - 1
    BY <1>1, <1>2
  <2>2. PICK key \in K : Cardinality(Smaller(K, key)) = k - 1
    BY <1>2, <2>1, SmallerExists
  <2>3. \E row \in Range(rows) : Cardinality(Smaller(K, row.key)) = k - 1
    BY <1>5, <2>2
  <2>4. s[k] = CHOOSE row \in Range(rows) : Cardinality(Smaller(K, row.key)) = k - 1
    BY <1>3
  <2>5. QED
    BY <2>3, <2>4
<1>7. s \in [1..n -> Row]
  BY <1>1, <1>3, <1>6
<1>8. s \in Seq(Row) /\ DOMAIN s = 1..n
  BY <1>1, <1>7
<1>9. ASSUME NEW row \in Range(rows) PROVE row \in Range(s)
  <2>1. row.key \in K
    BY <1>4
  <2>2. Cardinality(Smaller(K, row.key)) \in 0..n - 1
    BY <1>2, <2>1, SmallerType
  <2>3. PICK k \in 1..n : k - 1 = Cardinality(Smaller(K, row.key))
    <3>1. Cardinality(Smaller(K, row.key)) + 1 \in 1..n
      BY <1>1, <2>2
    <3>2. QED
      BY <2>2, <3>1
  <2>4. s[k] \in Range(rows) /\ Cardinality(Smaller(K, s[k].key)) = Cardinality(Smaller(K, row.key))
    BY <1>6, <2>3
  <2>5. s[k].key = row.key
    BY <1>2, <1>4, <2>1, <2>4, SmallerOfOne
  <2>6. s[k] = row
    BY <2>4, <2>5, RowOfKey
  <2>7. QED
    BY <1>8, <2>6 DEF Range
<1>10. Range(s) = Range(rows)
  BY <1>6, <1>8, <1>9 DEF Range
<1>11. ASSUME NEW i \in 1..n, NEW j \in 1..n, s[i].key = s[j].key PROVE i = j
  <2>1. i - 1 = j - 1
    BY <1>6, <1>11
  <2>2. QED
    BY <1>1, <2>1
<1>12. QED
  BY <1>8, <1>10, <1>11 DEF UniqueKeys, s

-----------------------------------------------------------------------------
(* Changes between some rows *)

\* What is noted once the rows w of the after side and r of the before side are done.
NotedOf(b, a, w, r) == AddedTo(b, w) \cup ChangedIn(b, w) \cup RemovedFrom(r, a)

\* No two rows of a set have the same key.
OneEach(rows) == \A r, q \in rows : r.key = q.key => r = q

\* Columns of a row are changed columns a change can have.
LEMMA ColumnsType ==
    ASSUME NEW n \in Nat, NEW T, T \subseteq 1..n
    PROVE  T \in Columns
<1>1. IsFiniteSet(1..n)
  BY FS_Interval
<1>2. IsFiniteSet(T)
  BY <1>1, FS_Subset
<1>3. 1..n \subseteq Nat \ {0}
  OBVIOUS
<1>4. QED
  BY <1>2, <1>3 DEF Columns

\* The three kinds of change of rows are changes.
LEMMA ChangesType ==
    ASSUME NEW row \in Row, NEW other \in Row
    PROVE  /\ Added(row) \in Change /\ Added(row).kind = "added" /\ Added(row).key = row.key
           /\ Removed(row) \in Change /\ Removed(row).kind = "removed"
           /\ Removed(row).key = row.key
           /\ Changed(other, row) \in Change /\ Changed(other, row).kind = "changed"
           /\ Changed(other, row).key = row.key
           /\ [Changed(other, row) EXCEPT !.columns = {}] \in Change
           /\ [Changed(other, row) EXCEPT !.columns = {}].kind = "changed"
<1>1. row.key \in DOMAIN Display /\ row.columns \in Seq(Int)
  BY RowType
<1>2. {} \in Columns
  BY FS_EmptySet DEF Columns
<1>3. {c \in DOMAIN row.columns : other.columns[c] # row.columns[c]} \in Columns
  <2>1. PICK n \in Nat : DOMAIN row.columns = 1..n
    BY <1>1
  <2>2. {c \in DOMAIN row.columns : other.columns[c] # row.columns[c]} \subseteq 1..n
    BY <2>1
  <2>3. QED
    BY <2>2, ColumnsType
<1>4. Added(row) \in Change /\ Added(row).kind = "added" /\ Added(row).key = row.key
  BY <1>1, <1>2, Kinds DEF Added, Change
<1>5. Removed(row) \in Change /\ Removed(row).kind = "removed" /\ Removed(row).key = row.key
  BY <1>1, <1>2, Kinds DEF Removed, Change
<1>6. Changed(other, row) \in Change /\ Changed(other, row).kind = "changed"
      /\ Changed(other, row).key = row.key
  BY <1>1, <1>3, Kinds DEF Changed, Change
<1>7. [Changed(other, row) EXCEPT !.columns = {}] \in Change
      /\ [Changed(other, row) EXCEPT !.columns = {}].kind = "changed"
  BY <1>2, <1>6 DEF Change
<1>8. QED
  BY <1>4, <1>5, <1>6, <1>7

\* Who is in the set of what is noted.
LEMMA NotedMembers ==
    ASSUME NEW b, NEW a, NEW w, NEW r, NEW change
    PROVE  change \in NotedOf(b, a, w, r) <=>
             \/ \E row \in w : row.key \notin Keys(b) /\ change = Added(row)
             \/ \E old \in b, row \in w : /\ old.key = row.key /\ old.columns # row.columns
                                          /\ change = Changed(old, row)
             \/ \E row \in r : row.key \notin Keys(a) /\ change = Removed(row)
<1>1. change \in AddedTo(b, w) <=> \E row \in w : row.key \notin Keys(b) /\ change = Added(row)
  BY DEF AddedTo
<1>2. change \in RemovedFrom(r, a) <=> \E row \in r : row.key \notin Keys(a) /\ change = Removed(row)
  BY DEF RemovedFrom
<1>3. change \in ChangedIn(b, w) <=>
        \E old \in b, row \in w : /\ old.key = row.key /\ old.columns # row.columns
                                  /\ change = Changed(old, row)
  <2>1. ASSUME change \in ChangedIn(b, w)
        PROVE  \E old \in b, row \in w : /\ old.key = row.key /\ old.columns # row.columns
                                         /\ change = Changed(old, row)
    <3>1. PICK pair \in b \X w : /\ pair[1].key = pair[2].key /\ pair[1].columns # pair[2].columns
                                 /\ change = Changed(pair[1], pair[2])
      BY <2>1 DEF ChangedIn
    <3>2. pair[1] \in b /\ pair[2] \in w
      OBVIOUS
    <3>3. QED
      BY <3>1, <3>2
  <2>2. ASSUME NEW old \in b, NEW row \in w, old.key = row.key, old.columns # row.columns,
               change = Changed(old, row)
        PROVE  change \in ChangedIn(b, w)
    <3>1. <<old, row>> \in b \X w /\ <<old, row>>[1] = old /\ <<old, row>>[2] = row
      OBVIOUS
    <3>2. \E pair \in b \X w : /\ pair[1].key = pair[2].key /\ pair[1].columns # pair[2].columns
                               /\ change = Changed(pair[1], pair[2])
      BY <2>2, <3>1
    <3>3. QED
      BY <3>2 DEF ChangedIn
  <2>3. QED
    BY <2>1, <2>2
<1>4. QED
  BY <1>1, <1>2, <1>3 DEF NotedOf

\* Noted changes are changes, and finitely many.
LEMMA NotedType ==
    ASSUME NEW b, NEW a, NEW w, NEW r, b \subseteq Row, w \subseteq Row, r \subseteq Row,
           IsFiniteSet(b), IsFiniteSet(w), IsFiniteSet(r)
    PROVE  NotedOf(b, a, w, r) \subseteq Change /\ IsFiniteSet(NotedOf(b, a, w, r))
<1>1. ASSUME NEW change \in NotedOf(b, a, w, r) PROVE change \in Change
  <2>1. CASE \E row \in w : row.key \notin Keys(b) /\ change = Added(row)
    BY <2>1, ChangesType
  <2>2. CASE \E old \in b, row \in w : /\ old.key = row.key /\ old.columns # row.columns
                                       /\ change = Changed(old, row)
    <3>1. PICK old \in b, row \in w : change = Changed(old, row)
      BY <2>2
    <3>2. old \in Row /\ row \in Row
      OBVIOUS
    <3>3. QED
      BY <3>1, <3>2, ChangesType
  <2>3. CASE \E row \in r : row.key \notin Keys(a) /\ change = Removed(row)
    BY <2>3, ChangesType
  <2>4. QED
    BY <2>1, <2>2, <2>3, NotedMembers
<1>2. IsFiniteSet(AddedTo(b, w))
  <2> DEFINE new == {row \in w : row.key \notin Keys(b)}
             f == [row \in new |-> Added(row)]
  <2>1. IsFiniteSet(new)
    BY FS_Subset
  <2>2. IsFiniteSet({f[row] : row \in new})
    BY <2>1, ImageFinite
  <2>3. {f[row] : row \in new} = AddedTo(b, w)
    BY DEF AddedTo
  <2>4. QED
    BY <2>2, <2>3
<1>3. IsFiniteSet(RemovedFrom(r, a))
  <2> DEFINE gone == {row \in r : row.key \notin Keys(a)}
             f == [row \in gone |-> Removed(row)]
  <2>1. IsFiniteSet(gone)
    BY FS_Subset
  <2>2. IsFiniteSet({f[row] : row \in gone})
    BY <2>1, ImageFinite
  <2>3. {f[row] : row \in gone} = RemovedFrom(r, a)
    BY DEF RemovedFrom
  <2>4. QED
    BY <2>2, <2>3
<1>4. IsFiniteSet(ChangedIn(b, w))
  <2> DEFINE pairs == {pair \in b \X w : pair[1].key = pair[2].key /\ pair[1].columns # pair[2].columns}
             f == [pair \in pairs |-> Changed(pair[1], pair[2])]
  <2>1. IsFiniteSet(b \X w)
    BY FS_Product
  <2>2. IsFiniteSet(pairs)
    BY <2>1, FS_Subset
  <2>3. IsFiniteSet({f[pair] : pair \in pairs})
    <3>1. DOMAIN f = pairs
      OBVIOUS
    <3> HIDE DEF f, pairs
    <3>2. QED
      BY <2>2, <3>1, ImageFinite
  <2>4. {f[pair] : pair \in pairs} = ChangedIn(b, w)
    BY DEF ChangedIn
  <2>5. QED
    BY <2>3, <2>4
<1>5. QED
  BY <1>1, <1>2, <1>3, <1>4, FS_Union DEF NotedOf

\* A row whose key was not walked has no change noted.
LEMMA NotNotedYet ==
    ASSUME NEW b, NEW a, NEW w, NEW r, b \subseteq Row, w \subseteq Row, r \subseteq Row,
           NEW row \in Row, NEW other \in Row
    PROVE  /\ row.key \notin Keys(w) => /\ Added(row) \notin NotedOf(b, a, w, r)
                                        /\ Changed(other, row) \notin NotedOf(b, a, w, r)
           /\ row.key \notin Keys(r) => Removed(row) \notin NotedOf(b, a, w, r)
<1>1. \A q \in w : q.key \in Keys(w)
  BY DEF Keys
<1>2. \A q \in r : q.key \in Keys(r)
  BY DEF Keys
<1>3. ASSUME row.key \notin Keys(w), Added(row) \in NotedOf(b, a, w, r) PROVE FALSE
  <2>1. Added(row).kind = "added" /\ Added(row).key = row.key
    BY ChangesType
  <2>2. CASE \E q \in w : q.key \notin Keys(b) /\ Added(row) = Added(q)
    <3>1. PICK q \in w : Added(row) = Added(q)
      BY <2>2
    <3>2. q \in Row /\ q.key \in Keys(w)
      BY <1>1
    <3>3. Added(q).key = q.key
      BY <3>2, ChangesType
    <3>4. QED
      BY <1>3, <2>1, <3>1, <3>2, <3>3
  <2>3. CASE \E old \in b, q \in w : /\ old.key = q.key /\ old.columns # q.columns
                                     /\ Added(row) = Changed(old, q)
    BY <2>1, <2>3, ChangesType
  <2>4. CASE \E q \in r : q.key \notin Keys(a) /\ Added(row) = Removed(q)
    BY <2>1, <2>4, ChangesType
  <2>5. QED
    BY <1>3, <2>2, <2>3, <2>4, NotedMembers
<1>4. ASSUME row.key \notin Keys(w), Changed(other, row) \in NotedOf(b, a, w, r) PROVE FALSE
  <2>1. Changed(other, row).kind = "changed" /\ Changed(other, row).key = row.key
    BY ChangesType
  <2>2. CASE \E q \in w : q.key \notin Keys(b) /\ Changed(other, row) = Added(q)
    BY <2>1, <2>2, ChangesType
  <2>3. CASE \E old \in b, q \in w : /\ old.key = q.key /\ old.columns # q.columns
                                     /\ Changed(other, row) = Changed(old, q)
    <3>1. PICK old \in b, q \in w : Changed(other, row) = Changed(old, q)
      BY <2>3
    <3>2. q \in Row /\ old \in Row /\ q.key \in Keys(w)
      BY <1>1
    <3>3. Changed(old, q).key = q.key
      BY <3>2, ChangesType
    <3>4. QED
      BY <1>4, <2>1, <3>1, <3>2, <3>3
  <2>4. CASE \E q \in r : q.key \notin Keys(a) /\ Changed(other, row) = Removed(q)
    BY <2>1, <2>4, ChangesType
  <2>5. QED
    BY <1>4, <2>2, <2>3, <2>4, NotedMembers
<1>5. ASSUME row.key \notin Keys(r), Removed(row) \in NotedOf(b, a, w, r) PROVE FALSE
  <2>1. Removed(row).kind = "removed" /\ Removed(row).key = row.key
    BY ChangesType
  <2>2. CASE \E q \in w : q.key \notin Keys(b) /\ Removed(row) = Added(q)
    BY <2>1, <2>2, ChangesType
  <2>3. CASE \E old \in b, q \in w : /\ old.key = q.key /\ old.columns # q.columns
                                     /\ Removed(row) = Changed(old, q)
    BY <2>1, <2>3, ChangesType
  <2>4. CASE \E q \in r : q.key \notin Keys(a) /\ Removed(row) = Removed(q)
    <3>1. PICK q \in r : Removed(row) = Removed(q)
      BY <2>4
    <3>2. q \in Row /\ q.key \in Keys(r)
      BY <1>2
    <3>3. Removed(q).key = q.key
      BY <3>2, ChangesType
    <3>4. QED
      BY <1>5, <2>1, <3>1, <3>2, <3>3
  <2>5. QED
    BY <1>5, <2>2, <2>3, <2>4, NotedMembers
<1>6. QED
  BY <1>3, <1>4, <1>5

\* A row that the before side does not have is added.
LEMMA AddedNext ==
    ASSUME NEW b, NEW a, NEW w, NEW r, NEW row, row.key \notin Keys(b)
    PROVE  NotedOf(b, a, w \cup {row}, r) = NotedOf(b, a, w, r) \cup {Added(row)}
<1>1. \A old \in b : old.key # row.key
  BY DEF Keys
<1>2. ASSUME NEW change, change \in NotedOf(b, a, w \cup {row}, r)
      PROVE  change \in NotedOf(b, a, w, r) \cup {Added(row)}
  BY <1>1, <1>2, NotedMembers
<1>3. ASSUME NEW change, change \in NotedOf(b, a, w, r) \cup {Added(row)}
      PROVE  change \in NotedOf(b, a, w \cup {row}, r)
  BY <1>3, NotedMembers
<1>4. QED
  BY <1>2, <1>3

\* A row that both sides have is changed or not.
LEMMA ChangedNext ==
    ASSUME NEW b, NEW a, NEW w, NEW r, NEW row, NEW old, old \in b, old.key = row.key,
           \A q \in b : q.key = row.key => q = old
    PROVE  NotedOf(b, a, w \cup {row}, r) = IF old.columns = row.columns THEN NotedOf(b, a, w, r)
                                            ELSE NotedOf(b, a, w, r) \cup {Changed(old, row)}
<1>1. row.key \in Keys(b)
  BY DEF Keys
<1>2. ASSUME NEW change, change \in NotedOf(b, a, w \cup {row}, r)
      PROVE  \/ change \in NotedOf(b, a, w, r)
             \/ old.columns # row.columns /\ change = Changed(old, row)
  <2>1. CASE \E q \in w \cup {row} : q.key \notin Keys(b) /\ change = Added(q)
    BY <1>1, <2>1, NotedMembers
  <2>2. CASE \E o \in b, q \in w \cup {row} : /\ o.key = q.key /\ o.columns # q.columns
                                              /\ change = Changed(o, q)
    <3>1. PICK o \in b, q \in w \cup {row} : /\ o.key = q.key /\ o.columns # q.columns
                                             /\ change = Changed(o, q)
      BY <2>2
    <3>2. CASE q \in w
      BY <3>1, <3>2, NotedMembers
    <3>3. CASE q = row
      BY <3>1, <3>3
    <3>4. QED
      BY <3>2, <3>3
  <2>3. CASE \E q \in r : q.key \notin Keys(a) /\ change = Removed(q)
    BY <2>3, NotedMembers
  <2>4. QED
    BY <1>2, <2>1, <2>2, <2>3, NotedMembers
<1>3. ASSUME NEW change, change \in NotedOf(b, a, w, r)
      PROVE  change \in NotedOf(b, a, w \cup {row}, r)
  BY <1>3, NotedMembers
<1>4. ASSUME old.columns # row.columns
      PROVE  Changed(old, row) \in NotedOf(b, a, w \cup {row}, r)
  <2>1. row \in w \cup {row}
    OBVIOUS
  <2>2. \E o \in b, q \in w \cup {row} : /\ o.key = q.key /\ o.columns # q.columns
                                         /\ Changed(old, row) = Changed(o, q)
    BY <1>4, <2>1
  <2>3. QED
    BY <2>2, NotedMembers
<1>5. QED
  BY <1>2, <1>3, <1>4

\* A row that the after side does not have is removed.
LEMMA RemovedNext ==
    ASSUME NEW b, NEW a, NEW w, NEW r, NEW row, NEW k, k = r \cup {row}
    PROVE  /\ row.key \in Keys(a) => NotedOf(b, a, w, k) = NotedOf(b, a, w, r)
           /\ row.key \notin Keys(a) =>
                NotedOf(b, a, w, k) = NotedOf(b, a, w, r) \cup {Removed(row)}
<1>1. ASSUME NEW change, change \in NotedOf(b, a, w, k)
      PROVE  \/ change \in NotedOf(b, a, w, r)
             \/ row.key \notin Keys(a) /\ change = Removed(row)
  BY <1>1, NotedMembers
<1>2. ASSUME NEW change, change \in NotedOf(b, a, w, r)
      PROVE  change \in NotedOf(b, a, w, k)
  BY <1>2, NotedMembers
<1>3. ASSUME row.key \notin Keys(a)
      PROVE  Removed(row) \in NotedOf(b, a, w, k)
  BY <1>3, NotedMembers
<1>4. QED
  BY <1>1, <1>2, <1>3

\* Nothing is noted at first, some of the changes on the way, all of them at the end.
LEMMA NotedBounds ==
    ASSUME NEW b, NEW a, NEW w, NEW r, w \subseteq a, r \subseteq b
    PROVE  /\ NotedOf(b, a, {}, {}) = {}
           /\ NotedOf(b, a, w, r) \subseteq ChangesIn(b, a)
           /\ NotedOf(b, a, a, b) = ChangesIn(b, a)
<1>1. NotedOf(b, a, {}, {}) = {}
  BY NotedMembers
<1>2. NotedOf(b, a, a, b) = ChangesIn(b, a)
  BY DEF NotedOf, ChangesIn
<1>3. ASSUME NEW change, change \in NotedOf(b, a, w, r)
      PROVE  change \in NotedOf(b, a, a, b)
  <2>1. CASE \E row \in w : row.key \notin Keys(b) /\ change = Added(row)
    BY <2>1, NotedMembers
  <2>2. CASE \E old \in b, row \in w : /\ old.key = row.key /\ old.columns # row.columns
                                       /\ change = Changed(old, row)
    <3>1. \E old \in b, row \in a : /\ old.key = row.key /\ old.columns # row.columns
                                    /\ change = Changed(old, row)
      BY <2>2
    <3>2. QED
      BY <3>1, NotedMembers
  <2>3. CASE \E row \in r : row.key \notin Keys(a) /\ change = Removed(row)
    BY <2>3, NotedMembers
  <2>4. QED
    BY <1>3, <2>1, <2>2, <2>3, NotedMembers
<1>4. QED
  BY <1>1, <1>2, <1>3

-----------------------------------------------------------------------------
(* Comparing a row *)

\* The step from x, which has told of the changes of m, to y, which tells of those of n.
Moves(x, y, m, n) ==
    /\ Sound(y) /\ y.ledger = x.ledger
    /\ y.sink.open = x.sink.open /\ y.sink.stored = x.sink.stored
    /\ y.err = "none" => /\ Tallied(y, n)
                         /\ y.temp.used + EventUnits(x.sink.events)
                              = x.temp.used + EventUnits(y.sink.events)
    /\ y.err = "records" => job.output # "none" /\ Cardinality(n) > job.max_records
    /\ y.err = "temp" => /\ job.output # "none"
                         /\ x.temp.used + Cardinality(Units(n))
                              > job.max_temp + Cardinality(Units(m))

\* Nothing is noted.
LEMMA MovesNot ==
    ASSUME NEW x, Sound(x), x.err = "none", NEW m, Tallied(x, m)
    PROVE  Moves(x, x, m, m)
BY DEF Moves

\* One change is noted.
LEMMA MovesOne ==
    ASSUME Setting, NEW x, Sound(x), x.err = "none", NEW m, Tallied(x, m),
           NEW change \in Change, change \notin m, NEW told \in Change,
           told = change \/ (~NeedsChangedDetail /\ told.kind = change.kind),
           NEW y, y = Note(x, told)
    PROVE  Moves(x, y, m, m \cup {change})
<1> DEFINE n == m \cup {change}
<1>1. m \subseteq Change /\ IsFiniteSet(m)
  BY DEF Tallied
<1>2. Cardinality(n) = Cardinality(m) + 1 /\ Cardinality(m) \in Nat
  BY <1>1, FS_AddElement, FS_CardinalityType
<1>3. Cardinality(Units(n)) = Cardinality(Units(m)) + (1 + Cardinality(change.columns))
      /\ Cardinality(Units(m)) \in Nat /\ Cardinality(change.columns) \in Nat
  BY <1>1, UnitsAdd, UnitsFinite, ChangeType
<1>4. /\ Sound(y) /\ y.ledger = x.ledger
      /\ y.sink.open = x.sink.open /\ y.sink.stored = x.sink.stored
      /\ y.err = "none" =>
           /\ Tallied(y, n)
           /\ y.temp.used + EventUnits(x.sink.events) = x.temp.used + EventUnits(y.sink.events)
      /\ y.err = "records" => /\ job.output # "none" /\ Cardinality(m) >= job.max_records
      /\ y.err = "temp" => /\ job.output # "none"
                           /\ x.temp.used + (1 + Cardinality(change.columns)) > job.max_temp
  BY Noted
<1> HIDE DEF n
<1>5. job.max_records \in Nat /\ job.max_temp \in Nat /\ x.temp.used \in Nat
  BY Limits, FreeParts DEF Setting, Sound
<1>6. Cardinality(m) >= job.max_records => Cardinality(n) > job.max_records
  BY ONLY <1>2, <1>5
<1>7. x.temp.used + (1 + Cardinality(change.columns)) > job.max_temp
        => x.temp.used + Cardinality(Units(n)) > job.max_temp + Cardinality(Units(m))
  BY ONLY <1>3, <1>5
<1>8. QED
  BY <1>4, <1>6, <1>7 DEF Moves, n

\* CompareRow: one more row of the after side is walked.
LEMMA Compared ==
    ASSUME Setting, NEW x, Sound(x), x.err = "none",
           NEW b, NEW a, NEW w, NEW r, b \subseteq Row, w \subseteq Row, r \subseteq Row,
           Tallied(x, NotedOf(b, a, w, r)),
           entries["before"] \in Seq(Row), UniqueKeys(entries["before"]),
           Range(entries["before"]) \subseteq b,
           NEW row \in Row, row.key \notin Keys(w),
           \A old \in b : old.key = row.key => old \in Range(entries["before"]),
           NEW y, y = CompareRow(x, row)
    PROVE  Moves(x, y, NotedOf(b, a, w, r), NotedOf(b, a, w \cup {row}, r))
<1> DEFINE same == {other \in Range(entries["before"]) : other.key = row.key}
<1>1. CASE same = {}
  <2>1. y = Note(x, Added(row))
    BY <1>1 DEF CompareRow
  <2>2. row.key \notin Keys(b)
    BY <1>1 DEF Keys
  <2>3. NotedOf(b, a, w \cup {row}, r) = NotedOf(b, a, w, r) \cup {Added(row)}
    BY <2>2, AddedNext
  <2>4. Added(row) \notin NotedOf(b, a, w, r) /\ Added(row) \in Change
    BY NotNotedYet, ChangesType
  <2>5. PICK change \in Change : change = Added(row)
    BY <2>4
  <2>6. change \notin NotedOf(b, a, w, r) /\ y = Note(x, change)
    BY <2>1, <2>4, <2>5
  <2>7. Moves(x, y, NotedOf(b, a, w, r), NotedOf(b, a, w, r) \cup {change})
    BY <2>6, MovesOne
  <2>8. QED
    BY <2>3, <2>5, <2>7
<1>2. CASE same # {}
  <2> DEFINE old == CHOOSE other \in same : TRUE
             change == Changed(old, row)
             told == IF NeedsChangedDetail THEN change ELSE [change EXCEPT !.columns = {}]
  <2>1. old \in Range(entries["before"]) /\ old.key = row.key /\ old \in b /\ old \in Row
    BY <1>2
  <2>2. \A q \in b : q.key = row.key => q = old
    BY <2>1, RowOfKey
  <2>3. y = IF old.columns = row.columns THEN x ELSE Note(x, told)
    BY <1>2 DEF CompareRow
  <2> HIDE DEF old
  <2>4. NotedOf(b, a, w \cup {row}, r)
          = IF old.columns = row.columns THEN NotedOf(b, a, w, r)
            ELSE NotedOf(b, a, w, r) \cup {change}
    <3>1. old \in b /\ old.key = row.key
      BY <2>1
    <3>2. NotedOf(b, a, w \cup {row}, r)
            = IF old.columns = row.columns THEN NotedOf(b, a, w, r)
              ELSE NotedOf(b, a, w, r) \cup {Changed(old, row)}
      BY ONLY <2>2, <3>1, ChangedNext
    <3>3. QED
      BY <3>2
  <2>5. CASE old.columns = row.columns
    BY <2>3, <2>4, <2>5, MovesNot
  <2>6. CASE old.columns # row.columns
    <3>1. change \in Change /\ change \notin NotedOf(b, a, w, r)
      BY <2>1, NotNotedYet, ChangesType
    <3>2. told \in Change /\ (told = change \/ (~NeedsChangedDetail /\ told.kind = change.kind))
      BY <2>1, ChangesType
    <3>3. y = Note(x, told)
      BY <2>3, <2>6
    <3> HIDE DEF told, change
    <3>4. Moves(x, y, NotedOf(b, a, w, r), NotedOf(b, a, w, r) \cup {change})
      BY <3>1, <3>2, <3>3, MovesOne
    <3>5. QED
      BY <2>4, <2>6, <3>4
  <2>7. QED
    BY <2>5, <2>6
<1>3. QED
  BY <1>1, <1>2

\* CompareRow leaves a refused copy alone.
LEMMA NotCompared ==
    ASSUME NEW x, x.err # "none", NEW row
    PROVE  CompareRow(x, row) = x
BY NotNoted DEF CompareRow

-----------------------------------------------------------------------------
(* The rows of a dataset, batch by batch *)

\* Flattening means the same here as in the module of the folds.
LEMMA FlattenIs ==
    ASSUME NEW ss
    PROVE  FlattenSeq(ss) = Adding!FlattenSeq(ss)
BY DEF FlattenSeq, Adding!FlattenSeq

\* The rows of the first k batches of a side.
ReadSoFar(s, k) == FlattenSeq(SubSeq(BatchRows(s), 1, k))

\* The batches of a dataset, and their rows.
LEMMA BatchesType ==
    ASSUME job \in Jobs, NEW s \in Side
    PROVE  \E n \in Nat : /\ Len(job[s].batches) = n /\ DOMAIN job[s].batches = 1..n
                          /\ BatchRows(s) \in Seq(Seq(Row)) /\ Len(BatchRows(s)) = n
                          /\ \A k \in 1..n : /\ job[s].batches[k] \in Batch
                                             /\ BatchRows(s)[k] = job[s].batches[k].rows
                                             /\ job[s].batches[k].rows \in Seq(Row)
<1>1. job[s].batches \in Seq(Batch)
  BY Limits
<1>2. PICK n \in Nat : Len(job[s].batches) = n /\ DOMAIN job[s].batches = 1..n
  BY <1>1
<1>3. \A k \in 1..n : job[s].batches[k] \in Batch /\ job[s].batches[k].rows \in Seq(Row)
  <2>1. TAKE k \in 1..n
  <2>2. job[s].batches[k] \in Batch
    BY <1>1, <1>2
  <2>3. QED
    BY <2>2 DEF Batch
<1>4. BatchRows(s) = [k \in 1..n |-> job[s].batches[k].rows]
  BY <1>2 DEF BatchRows
<1>5. BatchRows(s) \in [1..n -> Seq(Row)]
  BY <1>3, <1>4
<1>6. BatchRows(s) \in Seq(Seq(Row)) /\ Len(BatchRows(s)) = n
  BY <1>5, IsList
<1>7. QED
  BY <1>2, <1>3, <1>4, <1>6

\* What was read of a dataset is a prefix of its rows, and grows by one batch at a time.
LEMMA BatchesRead ==
    ASSUME job \in Jobs, NEW s \in Side, NEW n \in Nat, Len(job[s].batches) = n
    PROVE  /\ ReadSoFar(s, 0) = << >> /\ ReadSoFar(s, n) = AllRows(s) /\ AllRows(s) \in Seq(Row)
           /\ \A k \in 0..n : /\ ReadSoFar(s, k) \in Seq(Row)
                              /\ \E rest \in Seq(Row) : AllRows(s) = ReadSoFar(s, k) \o rest
           /\ \A k \in Nat : k < n => /\ job[s].batches[k + 1] \in Batch
                                      /\ job[s].batches[k + 1].rows \in Seq(Row)
                                      /\ ReadSoFar(s, k + 1)
                                           = ReadSoFar(s, k) \o job[s].batches[k + 1].rows
<1> DEFINE ss == BatchRows(s)
<1>1. /\ DOMAIN job[s].batches = 1..n /\ ss \in Seq(Seq(Row)) /\ Len(ss) = n
      /\ \A k \in 1..n : /\ job[s].batches[k] \in Batch /\ ss[k] = job[s].batches[k].rows
                         /\ job[s].batches[k].rows \in Seq(Row)
  BY BatchesType
<1> HIDE DEF ss
<1>2. \A k : ReadSoFar(s, k) = Adding!FlattenSeq(SubSeq(ss, 1, k))
  BY FlattenIs DEF ReadSoFar, ss
<1>3. AllRows(s) = Adding!FlattenSeq(ss)
  BY FlattenIs DEF AllRows, ss
<1>4. ReadSoFar(s, 0) = << >> /\ ReadSoFar(s, n) = AllRows(s)
  BY <1>1, <1>2, <1>3, Adding!FlattenEnds
<1>5. AllRows(s) \in Seq(Row)
  BY <1>1, <1>3, Adding!FlattenType
<1>6. ASSUME NEW k \in 0..n
      PROVE  /\ ReadSoFar(s, k) \in Seq(Row)
             /\ \E rest \in Seq(Row) : AllRows(s) = ReadSoFar(s, k) \o rest
  <2> DEFINE left == SubSeq(ss, 1, k)
             right == SubSeq(ss, k + 1, n)
  <2>1. left \in Seq(Seq(Row)) /\ right \in Seq(Seq(Row)) /\ ss = left \o right
    BY <1>1, SMTT(30)
  <2> HIDE DEF left, right
  <2>2. Adding!FlattenSeq(ss) = Adding!FlattenSeq(left) \o Adding!FlattenSeq(right)
    BY <2>1, Adding!FlattenConcat
  <2>3. Adding!FlattenSeq(left) \in Seq(Row) /\ Adding!FlattenSeq(right) \in Seq(Row)
    BY <2>1, Adding!FlattenType
  <2>4. ReadSoFar(s, k) = Adding!FlattenSeq(left)
    BY <1>2 DEF left
  <2>5. QED
    BY <1>3, <2>2, <2>3, <2>4
<1>7. ASSUME NEW k \in Nat, k < n
      PROVE  /\ job[s].batches[k + 1] \in Batch /\ job[s].batches[k + 1].rows \in Seq(Row)
             /\ ReadSoFar(s, k + 1) = ReadSoFar(s, k) \o job[s].batches[k + 1].rows
  <2>1. k + 1 \in 1..n
    BY <1>7
  <2>2. Adding!FlattenSeq(SubSeq(ss, 1, k + 1)) = Adding!FlattenSeq(SubSeq(ss, 1, k)) \o ss[k + 1]
    BY <1>1, <1>7, Adding!FlattenStep
  <2>3. QED
    BY <1>1, <1>2, <2>1, <2>2
<1>8. QED
  BY <1>4, <1>5, <1>6, <1>7

-----------------------------------------------------------------------------
(* Partition files *)

\* The file that the writers leave of some rows.
Filed(rows, schema) ==
    [digest |-> schema, records |-> Len(rows), bytes |-> Bytes(rows), checksum |-> rows,
     payload |-> rows]

\* A file written of some rows, perhaps damaged since.
FileOf(file, rows, schema) ==
    /\ file.payload \in Seq(Row) /\ file.records \in Int /\ Bytes(file.payload) <= Bytes(rows)
    /\ Intact(file) => file.payload = rows
    /\ ~damaged => file = Filed(rows, schema)

\* A file that a writer completes is taken for the rows that were written to it.
LEMMA FileWritten ==
    ASSUME NEW rows, rows \in Seq(Row), NEW schema
    PROVE  FileOf(Filed(rows, schema), rows, schema)
<1>1. Len(rows) \in Int
  OBVIOUS
<1>2. Bytes(rows) \in Nat /\ Len(rows) \in Int
  BY <1>1, BytesType
<1>3. Bytes(rows) <= Bytes(rows)
  BY <1>2
<1>4. QED
  BY <1>2, <1>3 DEF FileOf, Filed

\* An altered row is a row of the same size.
LEMMA AlteredType ==
    ASSUME NEW row \in Row
    PROVE  Altered(row) \in Row /\ Altered(row).size = row.size
<1> DEFINE columns == [row.columns EXCEPT ![1] = @ + 1]
<1>1. columns \in Seq(Int)
  <2>1. row.columns \in Seq(Int)
    BY RowType
  <2>2. \A s \in Seq(Int) : [s EXCEPT ![1] = @ + 1] \in Seq(Int)
    <3>1. TAKE s \in Seq(Int)
    <3>2. PICK m \in Nat : s \in [1..m -> Int]
      OBVIOUS
    <3>3. [s EXCEPT ![1] = @ + 1] \in [1..m -> Int]
      <4>1. CASE 1 \in 1..m
        <5>1. s[1] + 1 \in Int
          BY <3>2, <4>1
        <5>2. QED
          BY <3>2, <5>1
      <4>2. CASE 1 \notin 1..m
        BY <3>2, <4>2
      <4>3. QED
        BY <4>1, <4>2
    <3>4. QED
      BY <3>3, IsList
  <2>3. QED
    BY <2>1, <2>2
<1>2. Altered(row) = [row EXCEPT !.columns = columns]
  BY DEF Altered
<1> HIDE DEF columns
<1>3. QED
  BY <1>1, <1>2 DEF Row

\* Damage leaves it to the checks that the file is not taken for the rows.
LEMMA FileDamaged ==
    ASSUME NEW rows, rows \in Seq(Row), NEW schema, NEW file, file \in Damages(Filed(rows, schema))
    PROVE  /\ file.payload \in Seq(Row) /\ file.records \in Int
           /\ Bytes(file.payload) <= Bytes(rows)
           /\ Intact(file) => file.payload = rows
<1> DEFINE f == Filed(rows, schema)
<1>1. Len(rows) \in Nat
  OBVIOUS
<1>2. Len(rows) \in Nat /\ Bytes(rows) \in Nat
  BY <1>1, BytesType
<1>3. Bytes(rows) \in Nat /\ Len(rows) \in Nat /\ Bytes(rows) <= Bytes(rows)
  BY <1>2
<1>4. /\ f.payload = rows /\ f.records = Len(rows) /\ f.checksum = rows
      /\ f.digest = schema /\ f.bytes = Bytes(rows)
      /\ f \in [digest : {schema, "other"}, records : Int, bytes : Int,
                checksum : {rows}, payload : {rows}]
  BY <1>3 DEF Filed
<1> HIDE DEF f
<1>5. CASE file = [f EXCEPT !.digest = "other"]
  BY <1>3, <1>4, <1>5
<1>6. CASE file = [f EXCEPT !.records = @ + 1]
  BY <1>3, <1>4, <1>6
<1>7. CASE file = [f EXCEPT !.bytes = @ + 1]
  BY <1>3, <1>4, <1>7
<1>8. CASE file = [f EXCEPT !.checksum = Append(@, NoRow)]
  BY <1>3, <1>4, <1>8
<1>9. CASE rows # << >> /\ file = [f EXCEPT !.payload = Front(@)]
  <2>1. file.payload = Front(rows) /\ file.records = Len(rows) /\ file.checksum = rows
    BY <1>4, <1>9
  <2>2. Front(rows) \in Seq(Row) /\ Bytes(Front(rows)) <= Bytes(rows)
    BY <1>9, BytesFront
  <2>3. Intact(file) => file.payload = rows
    BY <2>1 DEF Intact
  <2>4. QED
    BY <1>3, <2>1, <2>2, <2>3
<1>10. CASE file = [f EXCEPT !.records = @ - 1]
  BY <1>3, <1>4, <1>10
<1>11. CASE rows # << >> /\ file = [f EXCEPT !.payload = [@ EXCEPT ![1] = Altered(f.payload[1])]]
  <2> DEFINE r == rows[1]
             q == Altered(r)
  <2>1. PICK n \in Nat : Len(rows) = n /\ DOMAIN rows = 1..n /\ 1 \in 1..n
    BY <1>11
  <2>2. r \in Row /\ \A i \in 1..n : rows[i] \in Row
    BY <2>1
  <2>3. q \in Row /\ q.size = r.size
    BY <2>2, AlteredType
  <2> HIDE DEF q
  <2>4. file.payload = [rows EXCEPT ![1] = q] /\ file.records = Len(rows) /\ file.checksum = rows
    BY <1>4, <1>11 DEF q
  <2>5. [rows EXCEPT ![1] = q] \in [1..n -> Row]
    BY <2>1, <2>2, <2>3
  <2>6. [rows EXCEPT ![1] = q] \in Seq(Row) /\ Len([rows EXCEPT ![1] = q]) = n
    BY <2>5, IsList
  <2>7. \A i \in 1..Len(rows) : [rows EXCEPT ![1] = q][i].size = rows[i].size
    BY <2>1, <2>2, <2>3
  <2>8. Bytes([rows EXCEPT ![1] = q]) = Bytes(rows)
    BY <2>1, <2>6, <2>7, BytesSame
  <2>9. Intact(file) => file.payload = rows
    BY <2>4 DEF Intact
  <2>10. QED
    BY <1>3, <2>4, <2>6, <2>8, <2>9
<1>12. \/ file = [f EXCEPT !.digest = "other"] \/ file = [f EXCEPT !.records = @ + 1]
       \/ file = [f EXCEPT !.bytes = @ + 1] \/ file = [f EXCEPT !.checksum = Append(@, NoRow)]
       \/ rows # << >> /\ file = [f EXCEPT !.payload = Front(@)]
       \/ file = [f EXCEPT !.records = @ - 1]
       \/ rows # << >> /\ file = [f EXCEPT !.payload = [@ EXCEPT ![1] = Altered(f.payload[1])]]
  <2>1. file \in Damages(f)
    BY DEF f
  <2>2. QED
    BY <1>4, <2>1, Zenon DEF Damages
<1>13. QED
  BY <1>5, <1>6, <1>7, <1>8, <1>9, <1>10, <1>11, <1>12

-----------------------------------------------------------------------------
(* The invariant *)

RowsOf(s) == Range(AllRows(s))
NoFiles == [p \in Parts |-> NoFile]

\* The rows of a side in the partitions already compared, and in the current one.
Past(s) == {row \in RowsOf(s) : ~InMemory /\ PartitionOf[row.key] < part}
Here(s) == {row \in RowsOf(s) : InMemory \/ PartitionOf[row.key] = part}

\* What is noted once the rows w of the after side and r of the before side are done.
NotedSoFar(w, r) == NotedOf(RowsOf("before"), RowsOf("after"), w, r)

\* Temporary storage that a side needs.
SideNeed(s) == IF InMemory THEN 0 ELSE HeaderBytes + Bytes(AllRows(s))

\* A side was read: its rows are held, or divided between its files.
OnFiles(s) ==
    \E R : /\ Splits(R, AllRows(s))
           /\ \A p \in Parts : FileOf(files[s][p], R[p], job[s].schema)
           /\ \A p \in Parts : p < part => UniqueKeys(R[p])
ReadSide(s) ==
    IF InMemory THEN entries[s] = AllRows(s) /\ Unique(s) /\ files[s] = NoFiles ELSE OnFiles(s)

Early == {"begin", "start", "read", "match"}
Late == {"open", "load", "walk", "rest", "flush", "persist", "return", "done"}

Types ==
    /\ Setting
    /\ pc \in Early \cup Late \cup {"failed", "crashed"}
    /\ side \in Side /\ batch \in Nat \ {0} /\ part \in Parts
    /\ input \in Seq(Row)
    /\ DOMAIN files = Side /\ \A s \in Side : DOMAIN files[s] = Parts
    /\ entries \in [Side -> Seq(Row)]
    /\ seen \subseteq DOMAIN Display /\ IsFiniteSet(seen)

\* What is held in memory is accounted for.
Held ==
    /\ Bytes(entries["before"]) + (IF InMemory THEN 0 ELSE Cardinality(seen))
         <= ledger["before"].used
    /\ Bytes(entries["after"]) <= ledger["after"].used

\* What is on disk is accounted for.
Stored == OnDisk("before") + OnDisk("after") + EventsOnDisk \in 0..temp.used

\* What is published tells of all changes; a failed diff leaves no output.
Outcome ==
    /\ target.published => Told(target.events, Changes)
    /\ pc = "failed" => target = Old /\ ~sink.open
    /\ err # "none" => pc = "failed"

\* Nothing is compared before both sides are read.
WhileEarly ==
    pc \in Early =>
        /\ Tallied(Now, {}) /\ sink.events = << >> /\ ~sink.open /\ target = Old
        /\ ~damaged /\ seen = {} /\ part = 1
        /\ side = "after" => ReadSide("before")
        /\ ~InMemory => \A s \in Side : entries[s] = << >>

\* No row of the side was read yet.
WhileStart ==
    pc \in {"begin", "start"} =>
        /\ pc = "begin" => side = "before"
        /\ writers = << >> /\ input = << >>
        /\ entries[side] = << >> /\ entries["after"] = << >>
        /\ files[side] = NoFiles /\ files["after"] = NoFiles
        /\ temp.used = IF side = "after" THEN SideNeed("before") ELSE 0

\* The rows t of the side are taken, the input comes next.
WhileRead ==
    pc = "read" =>
        /\ side = "before" => entries["after"] = << >>
        /\ files[side] = NoFiles /\ files["after"] = NoFiles
        /\ batch <= Len(job[side].batches) + 1
        /\ \E t \in Seq(Row) :
            /\ ReadSoFar(side, batch - 1) = t \o input
            /\ IF InMemory THEN writers = << >> /\ entries[side] = t /\ UniqueKeys(t)
               ELSE writers # << >> /\ Splits([p \in Parts |-> writers[p].payload], t)
            /\ temp.used = (IF side = "after" THEN SideNeed("before") ELSE 0)
                           + (IF InMemory THEN 0 ELSE HeaderBytes + Bytes(t))

WhileMatch ==
    pc = "match" =>
        /\ writers = << >> /\ side = "after" /\ ReadSide("after")
        /\ temp.used = SideNeed("before") + SideNeed("after")

WhileLate ==
    pc \in Late =>
        /\ writers = << >> /\ \A s \in Side : ReadSide(s)
        /\ job["before"].schema = job["after"].schema
        /\ temp.used = SideNeed("before") + SideNeed("after") + EventUnits(sink.events)
        /\ pc \notin {"return", "done"} =>
            target = Old /\ (sink.open <=> job.output # "none")

\* The partitions before this one are done.
WhileOpen ==
    pc \in {"open", "load"} =>
        /\ ~InMemory /\ seen = {} /\ entries["after"] = << >>
        /\ Tallied(Now, NotedSoFar(Past("after"), Past("before")))

\* The rows of the file are being loaded.
WhileLoad ==
    /\ pc = "open" => entries["before"] = << >>
    /\ pc = "load" =>
        /\ side = "before" /\ Intact(files["before"][part])
        /\ entries["before"] \o input = Delivered(files["before"][part])
        /\ UniqueKeys(entries["before"])

\* All rows of the before side are held, one by key.
Loaded ==
    /\ UniqueKeys(entries["before"]) /\ Range(entries["before"]) = Here("before")
    /\ ~InMemory => /\ entries["after"] = << >>
                    /\ Intact(files["before"][part])
                    /\ files["before"][part].payload = entries["before"]
                    /\ Intact(files["after"][part])

\* The rows that are walked.
Source == IF InMemory THEN ByKey(entries["after"]) ELSE Delivered(files["after"][part])

\* The rows t of the after side are walked, the input comes next.
WhileWalk ==
    pc = "walk" =>
        /\ Loaded
        /\ \E t \in Seq(Row) :
            /\ t \o input = Source /\ UniqueKeys(t)
            /\ seen = IF InMemory THEN Keys(RowsOf("after")) ELSE Keys(Range(t))
            /\ Tallied(Now, NotedSoFar(Past("after") \cup Range(t), Past("before")))

\* The rows t of the before side were looked up, the input comes next.
WhileRest ==
    pc = "rest" =>
        /\ Loaded
        /\ ~InMemory => UniqueKeys(files["after"][part].payload)
        /\ seen = Keys(Here("after"))
        /\ \E t \in Seq(Row) :
            /\ t \o input = ByKey(entries["before"])
            /\ Tallied(Now, NotedSoFar(Past("after") \cup Here("after"), Past("before") \cup Range(t)))

\* All changes are noted.
AtEnd ==
    pc \in {"flush", "persist", "return", "done"} =>
        /\ \A s \in Side : Unique(s)
        /\ Tallied(Now, Changes)
        /\ pc = "persist" => sink.stored = sink.events /\ job.output # "none"
        /\ pc \in {"return", "done"} =>
            ~sink.open /\ (target.published <=> job.output # "none")

Phases ==
    /\ WhileEarly /\ WhileStart /\ WhileRead /\ WhileMatch
    /\ WhileLate /\ WhileOpen /\ WhileLoad /\ WhileWalk /\ WhileRest /\ AtEnd

Inv == Types /\ Sound(Now) /\ Held /\ Stored /\ ErrorsAreTrue /\ Outcome /\ Phases

-----------------------------------------------------------------------------
(* What does not change with the job, and what is taken over *)

\* Everything that is said of the job alone depends on the job alone.
LEMMA SameJob ==
    ASSUME job' = job
    PROVE  /\ InMemory' = InMemory
           /\ \A s \in Side : /\ BatchRows(s)' = BatchRows(s) /\ AllRows(s)' = AllRows(s)
                              /\ RowsOf(s)' = RowsOf(s) /\ SideNeed(s)' = SideNeed(s)
                              /\ Unique(s)' = Unique(s)
                              /\ \A k : ReadSoFar(s, k)' = ReadSoFar(s, k)
           /\ Changes' = Changes /\ TempNeed' = TempNeed
<1>1. InMemory' = InMemory
  BY DEF InMemory
<1>2. ASSUME NEW s \in Side PROVE BatchRows(s)' = BatchRows(s)
  BY DEF BatchRows
<1>3. ASSUME NEW s \in Side
      PROVE  /\ AllRows(s)' = AllRows(s) /\ RowsOf(s)' = RowsOf(s)
             /\ \A k : ReadSoFar(s, k)' = ReadSoFar(s, k)
  BY <1>2 DEF AllRows, RowsOf, ReadSoFar
<1>4. ASSUME NEW s \in Side PROVE SideNeed(s)' = SideNeed(s) /\ Unique(s)' = Unique(s)
  BY <1>1, <1>3 DEF SideNeed, Unique
<1>5. Changes' = Changes
  BY <1>3, Sides DEF Changes
<1>6. TempNeed' = TempNeed
  BY <1>1, <1>3, <1>5, Sides DEF TempNeed
<1>7. QED
  BY <1>1, <1>2, <1>3, <1>4, <1>5, <1>6

\* The current copy of the state.
LEMMA NowType ==
    /\ Now.ledger = ledger /\ Now.acc = acc /\ Now.sink = sink /\ Now.temp = temp
    /\ Now.err = "none"
BY DEF Now

\* The copy becomes the state.
LEMMA TakenOver ==
    ASSUME NEW x, x \in Copy, x.err = "none",
           ledger' = x.ledger, acc' = x.acc, sink' = x.sink, temp' = x.temp
    PROVE  Now' = x
<1>1. x = [ledger |-> x.ledger, acc |-> x.acc, sink |-> x.sink, temp |-> x.temp, err |-> x.err]
  BY DEF Copy
<1>2. Now' = [ledger |-> ledger', acc |-> acc', sink |-> sink', temp |-> temp', err |-> "none"]
  BY DEF Now
<1>3. QED
  BY <1>1, <1>2

\* Soundness depends on the job and on the writers.
LEMMA SoundKept ==
    ASSUME NEW x, Sound(x), job' = job, writers' = writers, Now' = x
    PROVE  Sound(Now)'
<1>1. Free(Now)' = Free(x)
  BY DEF Free
<1>2. QED
  BY <1>1 DEF Sound

\* The account of the changes depends on the job and the copy alone.
LEMMA TallyKept ==
    ASSUME NEW x, NEW n, Tallied(x, n), job' = job
    PROVE  /\ n \subseteq Change /\ IsFiniteSet(n)
           /\ \A kind \in Kind : /\ x.acc[kind].count = Cardinality(OfKind(n, kind))
                                 /\ Shows(x.acc[kind].samples, OfKind(n, kind), job'.max_samples)
           /\ IF job'.output = "none" THEN x.sink.events = << >> ELSE Told(x.sink.events, n)
BY DEF Tallied

\* The rows of the datasets, in order and as sets, and what tells them apart.
LEMMA RowsType ==
    ASSUME job \in Jobs
    PROVE  /\ \A s \in Side : /\ AllRows(s) \in Seq(Row) /\ RowsOf(s) \subseteq Row
                              /\ IsFiniteSet(RowsOf(s)) /\ SideNeed(s) \in Nat
                              /\ Bytes(AllRows(s)) \in Nat
           /\ Changes \subseteq Change /\ IsFiniteSet(Changes)
           /\ Cardinality(Changes) \in Nat /\ Cardinality(Units(Changes)) \in Nat
           /\ TempNeed = SideNeed("before") + SideNeed("after")
                         + IF job.output = "none" THEN 0 ELSE Cardinality(Units(Changes))
           /\ TempNeed \in Nat
           /\ Changes = NotedSoFar(RowsOf("after"), RowsOf("before"))
<1>1. ASSUME NEW s \in Side PROVE AllRows(s) \in Seq(Row)
  <2>1. PICK n \in Nat : Len(job[s].batches) = n
    BY BatchesType
  <2>2. QED
    BY <2>1, BatchesRead
<1>2. ASSUME NEW s \in Side
      PROVE  RowsOf(s) \subseteq Row /\ IsFiniteSet(RowsOf(s)) /\ Bytes(AllRows(s)) \in Nat
  BY <1>1, RangeType, BytesType DEF RowsOf
<1>3. ASSUME NEW s \in Side PROVE SideNeed(s) \in Nat
  <2>1. HeaderBytes + Bytes(AllRows(s)) \in Nat
    <3>1. HeaderBytes \in Nat /\ Bytes(AllRows(s)) \in Nat
      BY <1>2, Sizes
    <3>2. QED
      BY <3>1
  <2>2. QED
    BY <2>1 DEF SideNeed
<1>4. Changes = ChangesIn(RowsOf("before"), RowsOf("after"))
  BY DEF Changes, RowsOf
<1>5. Changes = NotedSoFar(RowsOf("after"), RowsOf("before"))
  BY <1>4, NotedBounds DEF NotedSoFar
<1>6. Changes \subseteq Change /\ IsFiniteSet(Changes)
  <2>1. /\ RowsOf("before") \subseteq Row /\ IsFiniteSet(RowsOf("before"))
        /\ RowsOf("after") \subseteq Row /\ IsFiniteSet(RowsOf("after"))
    BY <1>2, Sides
  <2>2. QED
    BY <1>5, <2>1, NotedType DEF NotedSoFar
<1>7. Cardinality(Changes) \in Nat /\ Cardinality(Units(Changes)) \in Nat
  BY <1>6, FS_CardinalityType, UnitsFinite
<1>8. TempNeed = SideNeed("before") + SideNeed("after")
                 + IF job.output = "none" THEN 0 ELSE Cardinality(Units(Changes))
  <2> DEFINE b == Bytes(AllRows("before"))
             a == Bytes(AllRows("after"))
             u == IF job.output = "none" THEN 0 ELSE Cardinality(Units(Changes))
  <2>1. b \in Nat /\ a \in Nat /\ HeaderBytes \in Nat /\ u \in Nat
    BY <1>2, <1>7, Sides, Sizes
  <2>2. TempNeed = (IF InMemory THEN 0 ELSE 2 * HeaderBytes + b + a) + u
    BY DEF TempNeed
  <2>3. SideNeed("before") = (IF InMemory THEN 0 ELSE HeaderBytes + b)
        /\ SideNeed("after") = (IF InMemory THEN 0 ELSE HeaderBytes + a)
    BY DEF SideNeed
  <2> HIDE DEF a, b, u
  <2>4. CASE InMemory
    BY <2>1, <2>2, <2>3, <2>4 DEF u
  <2>5. CASE ~InMemory
    <3>1. TempNeed = 2 * HeaderBytes + b + a + u /\ SideNeed("before") = HeaderBytes + b
          /\ SideNeed("after") = HeaderBytes + a
      BY <2>2, <2>3, <2>5
    <3>2. TempNeed = SideNeed("before") + SideNeed("after") + u
      BY ONLY <2>1, <3>1
    <3>3. QED
      BY <3>2 DEF u
  <2>6. QED
    BY <2>4, <2>5
<1>9. TempNeed \in Nat
  <2> DEFINE u == IF job.output = "none" THEN 0 ELSE Cardinality(Units(Changes))
  <2>1. u \in Nat /\ SideNeed("before") \in Nat /\ SideNeed("after") \in Nat
    BY <1>3, <1>7, Sides
  <2>2. TempNeed = SideNeed("before") + SideNeed("after") + u
    BY <1>8
  <2> HIDE DEF u
  <2>3. QED
    BY ONLY <2>1, <2>2
<1>10. QED
  BY <1>1, <1>2, <1>3, <1>5, <1>6, <1>7, <1>8, <1>9

-----------------------------------------------------------------------------
(* The invariant implies the four properties *)

\* What the type invariant gives a step, in one place.
LEMMA TypesFacts ==
    ASSUME Types
    PROVE  /\ Setting /\ job \in Jobs /\ side \in Side /\ batch \in Nat \ {0} /\ part \in Parts
           /\ part \in Nat /\ input \in Seq(Row)
           /\ \A s \in Side : entries[s] \in Seq(Row) /\ Bytes(entries[s]) \in Nat
           /\ entries["before"] \in Seq(Row) /\ entries["after"] \in Seq(Row)
           /\ IsFiniteSet(seen) /\ Cardinality(seen) \in Nat
<1>1. part \in Nat
  BY Sizes DEF Types, Parts
<1>2. ASSUME NEW s \in Side PROVE entries[s] \in Seq(Row) /\ Bytes(entries[s]) \in Nat
  <2>1. entries[s] \in Seq(Row)
    BY DEF Types
  <2>2. QED
    BY <2>1, BytesType
<1>3. IsFiniteSet(seen) /\ Cardinality(seen) \in Nat
  BY FS_CardinalityType DEF Types
<1>4. QED
  BY <1>1, <1>2, <1>3, Sides DEF Types, Setting

\* What soundness gives a step: no account is used beyond what it reserved, none
\* reserves beyond its limit, and samples and events are within theirs.
LEMMA SoundFacts ==
    ASSUME Types, Sound(Now)
    PROVE  /\ Now \in Copy /\ temp.used \in Nat /\ temp.reserved \in Nat
           /\ temp.used <= temp.reserved /\ temp.reserved <= job.max_temp
           /\ sink.events \in Seq(Event) /\ sink \in Output
           /\ \A s \in Side : /\ ledger[s].used \in Nat /\ ledger[s].reserved \in Nat
                              /\ ledger[s].used <= ledger[s].reserved
                              /\ ledger[s].reserved <= job.max_memory
           /\ ledger \in [Side -> Account] /\ temp \in Account
           /\ \A kind \in Kind : /\ acc[kind].count \in Nat /\ acc[kind].samples \in Seq(Shot)
                                 /\ Len(acc[kind].samples) <= job.max_samples
           /\ Len(sink.events) <= job.max_records /\ Free(Now) >= 0 /\ Free(Now) \in Int
           /\ sink.open => sink.capacity - EventRoom = sink.charged - SinkBytes
           /\ sink.capacity \in Nat /\ sink.charged \in Nat
<1>1. Now \in Copy /\ Setting
  BY TypesFacts DEF Sound
<1>2. /\ temp.used \in Nat /\ temp.reserved \in Nat /\ sink.events \in Seq(Event)
      /\ sink.capacity \in Nat /\ sink.charged \in Nat /\ Free(Now) \in Int
      /\ \A kind \in Kind : acc[kind].count \in Nat /\ acc[kind].samples \in Seq(Shot)
  BY <1>1, FreeParts, NowType
<1>3. \A s \in Side : ledger[s].used \in Nat /\ ledger[s].reserved \in Nat
  BY <1>1, FreeParts, NowType, Sides
<1>4. sink \in Output /\ ledger \in [Side -> Account] /\ temp \in Account
  BY <1>1, NowType DEF Copy
<1>5. QED
  BY <1>1, <1>2, <1>3, <1>4, NowType DEF Sound

\* The invariant gives UseIsReserved.
LEMMA UseFollows ==
    ASSUME Inv
    PROVE  UseIsReserved
<1>1. Types /\ Sound(Now) /\ Held /\ Stored
  BY DEF Inv
<1>2. TypeOK
  <2>1. pc \in {"begin", "start", "read", "match", "open", "load", "walk", "rest", "flush",
                "persist", "return", "done", "failed", "crashed"}
    BY <1>1 DEF Types, Early, Late
  <2>2. side \in Side /\ batch \in Nat /\ part \in Parts
    BY <1>1 DEF Types
  <2>3. ASSUME NEW s \in Side
        PROVE  /\ Keys(Range(entries[s])) \cup seen \subseteq DOMAIN Display
               /\ ledger[s].reserved \in 0..job.max_memory
    <3>1. Range(entries[s]) \subseteq Row
      BY <1>1, TypesFacts, RangeType
    <3>2. Keys(Range(entries[s])) \subseteq DOMAIN Display
      BY <3>1, RowType DEF Keys
    <3>3. seen \subseteq DOMAIN Display
      BY <1>1 DEF Types
    <3>4. ledger[s].reserved \in Nat /\ ledger[s].reserved <= job.max_memory /\ job.max_memory \in Nat
      BY <1>1, SoundFacts, TypesFacts, Limits
    <3>5. QED
      BY <3>2, <3>3, <3>4
  <2>4. \A kind \in Kind : acc[kind].count \in Nat /\ Len(acc[kind].samples) <= job.max_samples
    BY <1>1, SoundFacts
  <2>5. Len(sink.events) <= job.max_records /\ Free(Now) >= 0
    BY <1>1, SoundFacts
  <2>6. QED
    BY <2>1, <2>2, <2>3, <2>4, <2>5 DEF TypeOK
<1>3. /\ OnDisk("before") + OnDisk("after") + EventsOnDisk <= temp.reserved
      /\ temp.reserved <= job.max_temp
  <2> DEFINE n == OnDisk("before") + OnDisk("after") + EventsOnDisk
  <2>1. n \in 0..temp.used
    BY <1>1 DEF Stored
  <2> HIDE DEF n
  <2>2. n <= temp.reserved
    <3>1. temp.used \in Nat /\ temp.reserved \in Nat /\ temp.used <= temp.reserved
      BY <1>1, SoundFacts
    <3>2. QED
      BY <2>1, <3>1
  <2>3. temp.reserved <= job.max_temp
    BY <1>1, SoundFacts
  <2>4. QED
    BY <2>2, <2>3 DEF n
<1>4. /\ Bytes(entries["before"]) + (IF InMemory THEN 0 ELSE Cardinality(seen))
           <= ledger["before"].reserved
      /\ Bytes(entries["after"]) <= ledger["after"].reserved
  <2> DEFINE b == Bytes(entries["before"])
             a == Bytes(entries["after"])
             n == IF InMemory THEN 0 ELSE Cardinality(seen)
  <2>1. b \in Nat /\ a \in Nat /\ n \in Nat
    BY <1>1, TypesFacts, Sides
  <2>2. b + n <= ledger["before"].used /\ a <= ledger["after"].used
    BY <1>1 DEF Held
  <2>3. \A s \in Side : /\ ledger[s].used \in Nat /\ ledger[s].reserved \in Nat
                        /\ ledger[s].used <= ledger[s].reserved
    BY <1>1, SoundFacts
  <2> HIDE DEF a, b, n
  <2>4. b + n <= ledger["before"].reserved /\ a <= ledger["after"].reserved
    BY <2>1, <2>2, <2>3, Sides
  <2>5. QED
    BY <2>4 DEF a, b, n
<1>5. sink.open => sink.capacity - EventRoom <= sink.charged - SinkBytes
  <2>1. sink.capacity \in Nat /\ sink.charged \in Nat /\ EventRoom \in Nat /\ SinkBytes \in Nat
    BY <1>1, SoundFacts, Sizes
  <2>2. sink.open => sink.capacity - EventRoom = sink.charged - SinkBytes
    BY <1>1, SoundFacts
  <2>3. QED
    BY ONLY <2>1, <2>2
<1>6. QED
  BY <1>2, <1>3, <1>4, <1>5 DEF UseIsReserved

\* The invariant gives OutputIsAtomic.
LEMMA OutputFollows ==
    ASSUME Inv
    PROVE  OutputIsAtomic
<1>1. Outcome /\ WhileLate /\ AtEnd /\ Types
  BY DEF Inv, Phases
<1>2. target.published =>
        \A event \in Range(target.events) \cup {Shown(change) : change \in Changes} :
            Cardinality({i \in DOMAIN target.events : target.events[i] = event})
                = Cardinality({change \in Changes : Shown(change) = event})
  BY <1>1 DEF Outcome, Told
<1>3. pc = "failed" => target = Old /\ ~sink.open
  BY <1>1 DEF Outcome
<1>4. pc = "done" => ~sink.open /\ (target.published <=> job.output # "none")
  BY <1>1 DEF AtEnd
<1>5. QED
  BY <1>2, <1>3, <1>4 DEF OutputIsAtomic

\* The samples of a kind as the report promises them.
LEMMA SamplesFollow ==
    ASSUME NEW samples, NEW changes, NEW limit, limit \in Nat, Cardinality(changes) \in Nat,
           Shows(samples, changes, limit)
    PROVE  /\ Len(samples) = Min({limit, Cardinality(changes)})
           /\ \A i, j \in DOMAIN samples : i < j => samples[i].key <= samples[j].key
           /\ \E of \in [DOMAIN samples -> changes] :
                /\ IsInjective(of)
                /\ \A i \in DOMAIN samples :
                     samples[i] = [key |-> Display[of[i].key], columns |-> of[i].columns]
                /\ \A change \in changes \ Range(of), i \in DOMAIN samples :
                     samples[i].key <= Display[change.key]
<1>1. Len(samples) = Min({limit, Cardinality(changes)})
  BY MinOfTwo DEF Shows
<1>2. \A i, j \in DOMAIN samples : i < j => samples[i].key <= samples[j].key
  BY DEF Shows, InOrder
<1>3. PICK of \in [DOMAIN samples -> changes] :
         /\ \A i, j \in DOMAIN samples : of[i] = of[j] => i = j
         /\ \A i \in DOMAIN samples : samples[i] = ShotOf(of[i])
         /\ \A change \in changes \ {of[i] : i \in DOMAIN samples}, i \in DOMAIN samples :
              samples[i].key <= Display[change.key]
  BY DEF Shows
<1>4. IsInjective(of)
  BY <1>3 DEF IsInjective
<1>5. Range(of) = {of[i] : i \in DOMAIN samples}
  BY <1>3 DEF Range
<1>6. \A i \in DOMAIN samples :
        samples[i] = [key |-> Display[of[i].key], columns |-> of[i].columns]
  BY <1>3 DEF ShotOf
<1>7. QED
  BY <1>1, <1>2, <1>3, <1>4, <1>5, <1>6

\* The invariant gives ReportIsExact.
LEMMA ReportFollows ==
    ASSUME Inv
    PROVE  ReportIsExact
<1>1. SUFFICES ASSUME pc = "done"
               PROVE  /\ job["before"].schema = job["after"].schema
                      /\ \A s \in Side : Unique(s)
                      /\ \A kind \in Kind :
                          LET changes == {change \in Changes : change.kind = kind}
                              samples == acc[kind].samples
                          IN /\ acc[kind].count = Cardinality(changes)
                             /\ Len(samples) = Min({job.max_samples, Cardinality(changes)})
                             /\ \A i, j \in DOMAIN samples : i < j => samples[i].key <= samples[j].key
                             /\ \E of \in [DOMAIN samples -> changes] :
                                  /\ IsInjective(of)
                                  /\ \A i \in DOMAIN samples :
                                       samples[i] = [key |-> Display[of[i].key],
                                                     columns |-> of[i].columns]
                                  /\ \A change \in changes \ Range(of), i \in DOMAIN samples :
                                       samples[i].key <= Display[change.key]
  BY DEF ReportIsExact
<1>2. job["before"].schema = job["after"].schema /\ \A s \in Side : Unique(s)
  BY <1>1 DEF Inv, Phases, WhileLate, AtEnd, Late
<1>3. Tallied(Now, Changes) /\ job \in Jobs
  BY <1>1, TypesFacts DEF Inv, Phases, AtEnd
<1>4. ASSUME NEW kind \in Kind
      PROVE  LET changes == {change \in Changes : change.kind = kind}
                 samples == acc[kind].samples
             IN /\ acc[kind].count = Cardinality(changes)
                /\ Len(samples) = Min({job.max_samples, Cardinality(changes)})
                /\ \A i, j \in DOMAIN samples : i < j => samples[i].key <= samples[j].key
                /\ \E of \in [DOMAIN samples -> changes] :
                     /\ IsInjective(of)
                     /\ \A i \in DOMAIN samples :
                          samples[i] = [key |-> Display[of[i].key], columns |-> of[i].columns]
                     /\ \A change \in changes \ Range(of), i \in DOMAIN samples :
                          samples[i].key <= Display[change.key]
  <2> DEFINE changes == {change \in Changes : change.kind = kind}
             samples == acc[kind].samples
  <2>1. changes = OfKind(Changes, kind)
    BY DEF OfKind
  <2>2. acc[kind].count = Cardinality(changes) /\ Shows(samples, changes, job.max_samples)
    BY <1>3, <2>1, NowType DEF Tallied
  <2>3. Cardinality(changes) \in Nat
    <3>1. IsFiniteSet(Changes)
      BY <1>3 DEF Tallied
    <3>2. IsFiniteSet(changes)
      BY <3>1, FS_Subset
    <3>3. QED
      BY <3>2, FS_CardinalityType
  <2>4. job.max_samples \in Nat
    BY <1>3, Limits
  <2> HIDE DEF changes, samples
  <2>5. /\ Len(samples) = Min({job.max_samples, Cardinality(changes)})
        /\ \A i, j \in DOMAIN samples : i < j => samples[i].key <= samples[j].key
        /\ \E of \in [DOMAIN samples -> changes] :
             /\ IsInjective(of)
             /\ \A i \in DOMAIN samples :
                  samples[i] = [key |-> Display[of[i].key], columns |-> of[i].columns]
             /\ \A change \in changes \ Range(of), i \in DOMAIN samples :
                  samples[i].key <= Display[change.key]
    BY <2>2, <2>3, <2>4, SamplesFollow
  <2>6. QED
    BY <2>2, <2>5 DEF changes, samples
<1>5. QED
  BY <1>2, <1>4

-----------------------------------------------------------------------------
(* What is on disk *)

\* Smaller numbers have a smaller total.
LEMMA TotalBelow ==
    ASSUME NEW s, s \in Seq(Nat), NEW t, t \in Seq(Nat), NEW n \in Nat, Len(s) = n, Len(t) = n,
           \A i \in 1..n : s[i] <= t[i]
    PROVE  Total(s) <= Total(t)
<1> DEFINE x(k) == Total(SubSeq(s, 1, k))
           y(k) == Total(SubSeq(t, 1, k))
           B == {k \in Nat : k <= n => x(k) \in Nat /\ y(k) \in Nat /\ x(k) <= y(k)}
<1>1. x(0) = 0 /\ y(0) = 0 /\ x(n) = Total(s) /\ y(n) = Total(t)
  BY TotalEnds
<1>2. ASSUME NEW k, k \in Nat, k < n
      PROVE  x(k + 1) = x(k) + s[k + 1] /\ y(k + 1) = y(k) + t[k + 1]
  <2>1. k < Len(s) /\ k < Len(t)
    BY <1>2
  <2>2. Total(SubSeq(s, 1, k + 1)) = Total(SubSeq(s, 1, k)) + s[k + 1]
    BY <1>2, <2>1, TotalStep
  <2>3. Total(SubSeq(t, 1, k + 1)) = Total(SubSeq(t, 1, k)) + t[k + 1]
    BY <1>2, <2>1, TotalStep
  <2>4. QED
    BY <2>2, <2>3
<1>3. \A i \in 1..n : s[i] \in Nat /\ t[i] \in Nat
  OBVIOUS
<1> HIDE DEF x, y
<1>4. 0 \in B
  BY <1>1
<1>5. ASSUME NEW k, k \in B PROVE k + 1 \in B
  <2>1. SUFFICES ASSUME k + 1 <= n PROVE x(k + 1) \in Nat /\ y(k + 1) \in Nat /\ x(k + 1) <= y(k + 1)
    BY <1>5
  <2>2. k \in Nat /\ k < n /\ k + 1 \in 1..n
    BY <1>5, <2>1
  <2>3. x(k) \in Nat /\ y(k) \in Nat /\ x(k) <= y(k)
    BY <1>5, <2>2
  <2>4. s[k + 1] \in Nat /\ t[k + 1] \in Nat /\ s[k + 1] <= t[k + 1]
    BY <1>3, <2>2
  <2>5. x(k + 1) = x(k) + s[k + 1] /\ y(k + 1) = y(k) + t[k + 1]
    BY <1>2, <2>2
  <2>6. /\ x(k) + s[k + 1] \in Nat /\ y(k) + t[k + 1] \in Nat
        /\ x(k) + s[k + 1] <= y(k) + t[k + 1]
    BY ONLY <2>3, <2>4
  <2>7. QED
    BY <2>5, <2>6, Zenon
<1>6. B = Nat
  <2> HIDE DEF B
  <2>1. B \in SUBSET Nat
    BY DEF B
  <2>2. QED
    BY <1>4, <1>5, <2>1, Adding!NatSetInduction
<1>7. n \in B
  BY <1>6
<1>8. QED
  BY <1>1, <1>7

\* The files and writers of a side hold the rows R of each partition.
LEMMA DiskOf ==
    ASSUME NEW s \in Side, NEW R, R \in [Parts -> Seq(Row)],
           IF writers # << >> /\ s = side THEN \A p \in Parts : R[p] = writers[p].payload
           ELSE \A p \in Parts : R[p] = files[s][p].payload
    PROVE  /\ Total([p \in Parts |-> Bytes(R[p])]) \in Nat
           /\ OnDisk(s) = Total([p \in Parts |-> Bytes(R[p])])
                          + IF (writers # << >> /\ s = side) \/ files[s][Partitions].digest # "none"
                            THEN HeaderBytes ELSE 0
           /\ OnDisk(s) \in Nat
<1> DEFINE writing == writers # << >> /\ s = side
           payloads == [p \in Parts |-> IF writing THEN writers[p].payload ELSE files[s][p].payload]
           header == IF writing \/ files[s][Partitions].digest # "none" THEN HeaderBytes ELSE 0
           total == Total([p \in Parts |-> Bytes(R[p])])
<1>1. \A p \in Parts : payloads[p] = R[p]
  OBVIOUS
<1>2. [p \in Parts |-> Bytes(payloads[p])] = [p \in Parts |-> Bytes(R[p])]
  BY <1>1
<1>3. OnDisk(s) = total + header
  BY <1>2 DEF OnDisk
<1>4. total \in Nat
  BY BytesOfParts
<1>5. header \in Nat
  BY Sizes
<1> HIDE DEF total, header
<1>6. total + header \in Nat
  BY <1>4, <1>5
<1>7. QED
  BY <1>3, <1>4, <1>6 DEF total, header

\* Nothing of a side was written.
LEMMA DiskEmpty ==
    ASSUME NEW s \in Side, files[s] = NoFiles, ~(writers # << >> /\ s = side)
    PROVE  OnDisk(s) = 0
<1> DEFINE R == [p \in Parts |-> << >>]
<1>1. \A p \in Parts : files[s][p].payload = << >> /\ files[s][p].digest = "none"
  BY DEF NoFiles, NoFile
<1>2. R \in [Parts -> Seq(Row)] /\ \A p \in Parts : R[p] = << >>
  OBVIOUS
<1>3. Partitions \in Parts
  BY Sizes DEF Parts
<1>4. Total([p \in Parts |-> Bytes(R[p])]) = 0
  <2>1. Splits(R, << >>)
    BY SplitsNothing
  <2> HIDE DEF R
  <2>2. QED
    BY <2>1, BytesEmpty DEF Splits
<1> HIDE DEF R
<1>5. \A p \in Parts : R[p] = files[s][p].payload
  BY <1>1, <1>2
<1>6. OnDisk(s) = Total([p \in Parts |-> Bytes(R[p])])
                  + IF (writers # << >> /\ s = side) \/ files[s][Partitions].digest # "none"
                    THEN HeaderBytes ELSE 0
  BY <1>2, <1>5, DiskOf
<1>7. QED
  BY <1>1, <1>3, <1>4, <1>6

\* The side is being written.
LEMMA DiskWriting ==
    ASSUME writers # << >>, NEW t, Splits([p \in Parts |-> writers[p].payload], t), side \in Side
    PROVE  OnDisk(side) = HeaderBytes + Bytes(t) /\ Bytes(t) \in Nat
<1> DEFINE R == [p \in Parts |-> writers[p].payload]
<1>1. R \in [Parts -> Seq(Row)] /\ Total([p \in Parts |-> Bytes(R[p])]) = Bytes(t)
  BY DEF Splits
<1>2. \A p \in Parts : R[p] = writers[p].payload
  OBVIOUS
<1> HIDE DEF R
<1>3. /\ Total([p \in Parts |-> Bytes(R[p])]) \in Nat
      /\ OnDisk(side) = Total([p \in Parts |-> Bytes(R[p])])
                        + IF (writers # << >> /\ side = side) \/ files[side][Partitions].digest # "none"
                          THEN HeaderBytes ELSE 0
  BY <1>1, <1>2, DiskOf
<1>4. HeaderBytes \in Nat
  BY Sizes
<1>5. OnDisk(side) = Bytes(t) + HeaderBytes /\ Bytes(t) \in Nat
  BY <1>1, <1>3
<1>6. QED
  BY ONLY <1>4, <1>5

\* The side is complete, in memory or in files.
LEMMA DiskRead ==
    ASSUME Types, NEW s \in Side, ReadSide(s), ~(writers # << >> /\ s = side)
    PROVE  OnDisk(s) \in 0..SideNeed(s) /\ SideNeed(s) \in Nat
<1>1. SideNeed(s) \in Nat
  BY TypesFacts, RowsType
<1>2. CASE InMemory
  BY <1>1, <1>2, DiskEmpty DEF ReadSide
<1>3. CASE ~InMemory
  <2>1. PICK R : /\ Splits(R, AllRows(s))
                 /\ \A p \in Parts : FileOf(files[s][p], R[p], job[s].schema)
    BY <1>3 DEF ReadSide, OnFiles
  <2> DEFINE Q == [p \in Parts |-> files[s][p].payload]
             x == [p \in Parts |-> Bytes(Q[p])]
             y == [p \in Parts |-> Bytes(R[p])]
  <2>2. Q \in [Parts -> Seq(Row)] /\ \A p \in Parts : Q[p] = files[s][p].payload
    BY <2>1 DEF FileOf
  <2>3. R \in [Parts -> Seq(Row)] /\ Total(y) = Bytes(AllRows(s))
    BY <2>1 DEF Splits
  <2>4. \A p \in Parts : Bytes(Q[p]) <= Bytes(R[p])
    BY <2>1, <2>2 DEF FileOf
  <2> HIDE DEF Q
  <2>5. /\ x \in Seq(Nat) /\ Len(x) = Partitions /\ y \in Seq(Nat) /\ Len(y) = Partitions
        /\ Total(x) \in Nat /\ Total(y) \in Nat
    BY <2>2, <2>3, BytesOfParts
  <2>6. \A i \in 1..Partitions : x[i] <= y[i]
    BY <2>4 DEF Parts
  <2>7. OnDisk(s) = Total(x) + (IF (writers # << >> /\ s = side)
                                   \/ files[s][Partitions].digest # "none"
                                THEN HeaderBytes ELSE 0)
    BY <2>2, DiskOf
  <2> HIDE DEF x, y
  <2>8. Total(x) <= Total(y)
    BY <2>5, <2>6, Sizes, TotalBelow
  <2>9. SideNeed(s) = HeaderBytes + Total(y) /\ HeaderBytes \in Nat
    BY <1>3, <2>3, Sizes DEF SideNeed
  <2>10. OnDisk(s) = Total(x) + HeaderBytes \/ OnDisk(s) = Total(x) + 0
    BY <2>7
  <2>11. QED
    BY ONLY <2>5, <2>8, <2>9, <2>10
<1>4. QED
  BY <1>2, <1>3

\* What is on disk is accounted for as long as the diff goes on.
LEMMA StoredFollows ==
    ASSUME Types, Phases, Sound(Now), pc \in Early \cup Late
    PROVE  Stored
<1> DEFINE b == OnDisk("before")
           a == OnDisk("after")
<1>1. EventsOnDisk = EventUnits(sink.events) /\ EventUnits(sink.events) \in Nat
  BY SoundFacts, EventUnitsType DEF EventsOnDisk, EventUnits
<1>2. sink.events = << >> => EventUnits(sink.events) = 0
  <2>1. [i \in DOMAIN << >> |-> EventBytes(<< >>[i])] = << >>
    OBVIOUS
  <2>2. QED
    BY <2>1, TotalEmpty DEF EventUnits
<1>3. temp.used \in Nat /\ job \in Jobs /\ side \in Side
      /\ SideNeed("before") \in Nat /\ SideNeed("after") \in Nat
  BY SoundFacts, TypesFacts, RowsType, Sides
<1>4. pc \in Early => sink.events = << >>
  BY DEF Phases, WhileEarly
<1> DEFINE e == EventUnits(sink.events)
<1> HIDE DEF a, b, e
<1>5. SUFFICES b + a + e \in 0..temp.used
  BY <1>1 DEF Stored, a, b, e
<1>6. CASE pc \in {"begin", "start"}
  <2>1. /\ writers = << >> /\ files["after"] = NoFiles /\ files[side] = NoFiles
        /\ temp.used = IF side = "after" THEN SideNeed("before") ELSE 0
        /\ side = "after" => ReadSide("before")
    BY <1>6 DEF Phases, WhileStart, WhileEarly, Early
  <2>2. a = 0 /\ e = 0
    BY <1>2, <1>4, <1>6, <2>1, DiskEmpty, Sides DEF a, e, Early
  <2>3. CASE side = "before"
    BY <2>1, <2>2, <2>3, DiskEmpty, Sides DEF b
  <2>4. CASE side = "after"
    <3>1. b \in 0..SideNeed("before")
      BY <2>1, <2>4, DiskRead, Sides DEF b
    <3>2. QED
      BY <1>3, <2>1, <2>2, <2>4, <3>1
  <2>5. QED
    BY <1>3, <2>3, <2>4, Sides
<1>7. CASE pc = "read"
  <2>1. /\ files["after"] = NoFiles /\ files[side] = NoFiles
        /\ side = "after" => ReadSide("before")
    BY <1>7 DEF Phases, WhileRead, WhileEarly, Early
  <2>2. PICK t \in Seq(Row) :
            /\ IF InMemory THEN writers = << >>
               ELSE writers # << >> /\ Splits([p \in Parts |-> writers[p].payload], t)
            /\ temp.used = (IF side = "after" THEN SideNeed("before") ELSE 0)
                           + (IF InMemory THEN 0 ELSE HeaderBytes + Bytes(t))
    BY <1>7 DEF Phases, WhileRead
  <2>3. e = 0
    BY <1>2, <1>4, <1>7 DEF e, Early
  <2> DEFINE n == IF InMemory THEN 0 ELSE HeaderBytes + Bytes(t)
  <2>4. OnDisk(side) = n /\ n \in Nat
    <3>1. CASE InMemory
      BY <1>3, <2>1, <2>2, <3>1, DiskEmpty
    <3>2. CASE ~InMemory
      <4>1. OnDisk(side) = HeaderBytes + Bytes(t) /\ Bytes(t) \in Nat /\ HeaderBytes \in Nat
        BY <1>3, <2>2, <3>2, DiskWriting, Sizes
      <4>2. HeaderBytes + Bytes(t) \in Nat
        BY ONLY <4>1
      <4>3. QED
        BY <3>2, <4>1, <4>2
    <3>3. QED
      BY <3>1, <3>2
  <2>5. temp.used = (IF side = "after" THEN SideNeed("before") ELSE 0) + n
    BY <2>2
  <2> HIDE DEF n
  <2>6. CASE side = "before"
    <3>1. a = 0
      BY <2>1, <2>6, DiskEmpty, Sides DEF a
    <3>2. b = n
      BY <2>4, <2>6 DEF b
    <3>3. temp.used = 0 + n
      BY <2>5, <2>6
    <3>4. QED
      BY ONLY <2>3, <2>4, <3>1, <3>2, <3>3
  <2>7. CASE side = "after"
    <3>1. b \in 0..SideNeed("before")
      BY <2>1, <2>7, DiskRead, Sides DEF b
    <3>2. a = n
      BY <2>4, <2>7 DEF a
    <3>3. temp.used = SideNeed("before") + n
      BY <2>5, <2>7
    <3>4. QED
      BY ONLY <1>3, <2>3, <2>4, <3>1, <3>2, <3>3
  <2>8. QED
    BY <1>3, <2>6, <2>7, Sides
<1>8. CASE pc = "match"
  <2>1. /\ writers = << >> /\ ReadSide("before") /\ ReadSide("after")
        /\ temp.used = SideNeed("before") + SideNeed("after")
    BY <1>8 DEF Phases, WhileMatch, WhileEarly, Early
  <2>2. b \in 0..SideNeed("before") /\ a \in 0..SideNeed("after")
    BY <2>1, DiskRead, Sides DEF a, b
  <2>3. e = 0
    BY <1>2, <1>4, <1>8 DEF e, Early
  <2>4. QED
    BY ONLY <1>3, <2>1, <2>2, <2>3
<1>9. CASE pc \in Late
  <2>1. /\ writers = << >> /\ ReadSide("before") /\ ReadSide("after")
        /\ temp.used = SideNeed("before") + SideNeed("after") + e
    BY <1>9, Sides DEF Phases, WhileLate, e
  <2>2. b \in 0..SideNeed("before") /\ a \in 0..SideNeed("after")
    BY <2>1, DiskRead, Sides DEF a, b
  <2>3. e \in Nat
    BY <1>1 DEF e
  <2>4. QED
    BY ONLY <1>3, <2>1, <2>2, <2>3
<1>10. QED
  BY <1>6, <1>7, <1>8, <1>9 DEF Early

-----------------------------------------------------------------------------
(* Frames *)

\* What the files tell of the rows depends on the files, the damage and the partition.
LEMMA SameFiles ==
    ASSUME job' = job, files' = files, damaged' = damaged, part' = part
    PROVE  \A s \in Side : /\ OnFiles(s)' = OnFiles(s)
                           /\ entries'[s] = entries[s] => ReadSide(s)' = ReadSide(s)
<1>1. ASSUME NEW file PROVE Intact(file)' = Intact(file)
  BY DEF Intact
<1>2. ASSUME NEW file, NEW rows, NEW schema PROVE FileOf(file, rows, schema)' = FileOf(file, rows, schema)
  BY <1>1 DEF FileOf
<1>3. ASSUME NEW s \in Side PROVE OnFiles(s)' = OnFiles(s)
  <2>1. AllRows(s)' = AllRows(s)
    BY SameJob
  <2>2. \A R : \A p \in Parts : FileOf(files[s][p], R[p], job[s].schema)'
                                  = FileOf(files[s][p], R[p], job[s].schema)
    BY DEF FileOf, Intact
  <2>3. QED
    BY <2>1, <2>2 DEF OnFiles
<1>4. ASSUME NEW s \in Side, entries'[s] = entries[s] PROVE ReadSide(s)' = ReadSide(s)
  <2>1. AllRows(s)' = AllRows(s) /\ Unique(s)' = Unique(s) /\ InMemory' = InMemory
    BY SameJob
  <2>2. QED
    BY <1>3, <1>4, <2>1 DEF ReadSide
<1>5. QED
  BY <1>3, <1>4

\* The rows of the past partitions and of the present one depend on the job and on the partition.
LEMMA SamePart ==
    ASSUME job' = job, part' = part
    PROVE  \A s \in Side : Past(s)' = Past(s) /\ Here(s)' = Here(s)
<1>1. ASSUME NEW s \in Side PROVE Past(s)' = Past(s) /\ Here(s)' = Here(s)
  <2>1. RowsOf(s)' = RowsOf(s) /\ InMemory' = InMemory
    BY SameJob
  <2>2. QED
    BY <2>1 DEF Past, Here
<1>2. QED
  BY <1>1

\* What is on disk depends on the files and the writers.
LEMMA SameDisk ==
    ASSUME files' = files, writers' = writers, side' = side
    PROVE  \A s \in Side : OnDisk(s)' = OnDisk(s)
BY DEF OnDisk

\* A step on the memory or the output leaves the types alone.
LEMMA SameTypes ==
    ASSUME Types, job' = job, writers' = writers, files' = files, part' = part, side' = side,
           batch' = batch, entries' = entries, seen' = seen, input' \in Seq(Row),
           pc' \in Early \cup Late \cup {"failed", "crashed"}
    PROVE  Types'
BY DEF Types, Setting

\* What is held in memory depends on the entries, the keys seen and the ledgers.
LEMMA SameHeld ==
    ASSUME Held, job' = job, entries' = entries, seen' = seen, ledger' = ledger
    PROVE  Held'
<1>1. InMemory' = InMemory
  BY SameJob
<1>2. QED
  BY <1>1 DEF Held

\* An error has its cause.
Caused(e) ==
    /\ e = "corrupt" => damaged
    /\ e = "duplicate" => \E s \in Side : ~Unique(s)
    /\ e = "mismatch" => \/ job["before"].schema # job["after"].schema
                         \/ \E s \in Side : \E i \in DOMAIN job[s].batches :
                              job[s].batches[i].kind = "mismatch"
    /\ e = "records" => job.max_records < Cardinality(Changes)
    /\ e = "temp" => job.max_temp < TempNeed

\* An error with a cause is a true one, in whatever phase it is returned.
LEMMA SameErrors ==
    ASSUME job' = job, damaged' = damaged, Caused(err')
    PROVE  ErrorsAreTrue'
<1>1. Changes' = Changes /\ TempNeed' = TempNeed /\ \A s \in Side : Unique(s)' = Unique(s)
  BY SameJob
<1>2. QED
  BY <1>1 DEF Caused, ErrorsAreTrue

\* No error has no cause.
LEMMA NoError == Caused("none")
BY DEF Caused

-----------------------------------------------------------------------------
(* Steps that keep the invariant without a look at the phase *)

\* Fail: everything is dropped.
LEMMA FailKeeps ==
    ASSUME Inv, target = Old, NEW e, Fail(e), Caused(e)
    PROVE  Inv'
<1>1. /\ pc' = "failed" /\ err' = e /\ sink' = [sink EXCEPT !.open = FALSE]
      /\ job' = job /\ side' = side /\ batch' = batch /\ input' = input /\ writers' = writers
      /\ files' = files /\ part' = part /\ entries' = entries /\ seen' = seen
      /\ ledger' = ledger /\ acc' = acc /\ temp' = temp /\ target' = target
      /\ damaged' = damaged
  BY DEF Fail, loop, store, held
<1>2. Types /\ Sound(Now) /\ Held /\ Stored
  BY DEF Inv
<1>3. /\ sink \in Output /\ Now \in Copy
  BY <1>2, SoundFacts
<1>4. /\ sink' \in Output /\ sink'.open = FALSE /\ sink'.events = sink.events
      /\ sink'.charged = sink.charged /\ sink'.capacity = sink.capacity
  BY <1>1, <1>3 DEF Output
<1>5. Types'
  BY <1>1, <1>2, SameTypes DEF Types
<1>6. Sound(Now)'
  <2>1. /\ Now'.ledger = ledger /\ Now'.acc = acc /\ Now'.sink = sink' /\ Now'.temp = temp
        /\ Now'.err = "none"
    BY <1>1 DEF Now
  <2>2. Now' \in Copy
    BY <1>1, <1>3, <1>4 DEF Copy, Now
  <2>3. Free(Now)' = Free(Now)
    BY <1>1, <1>4, <2>1, NowType DEF Free
  <2>4. QED
    BY <1>1, <1>2, <1>4, <2>1, <2>2, <2>3, NowType DEF Sound
<1>7. Held'
  BY <1>1, <1>2, SameHeld
<1>8. Stored'
  <2>1. EventsOnDisk' = EventsOnDisk
    BY <1>4 DEF EventsOnDisk
  <2>2. OnDisk("before")' = OnDisk("before") /\ OnDisk("after")' = OnDisk("after")
    BY <1>1, SameDisk, Sides
  <2>3. QED
    BY <1>1, <1>2, <2>1, <2>2 DEF Stored
<1>9. ErrorsAreTrue'
  BY <1>1, SameErrors
<1>10. Outcome'
  BY <1>1, <1>4 DEF Outcome, Old
<1>11. Phases'
  BY <1>1 DEF Phases, WhileEarly, WhileStart, WhileRead, WhileMatch, WhileLate, WhileOpen, WhileLoad,
              WhileWalk, WhileRest, AtEnd, Early, Late
<1>12. QED
  BY <1>5, <1>6, <1>7, <1>8, <1>9, <1>10, <1>11 DEF Inv

\* Crash: the state stays as it is.
LEMMA CrashKeeps ==
    ASSUME Inv, Crash
    PROVE  Inv'
<1>1. /\ pc' = "crashed" /\ pc # "failed" /\ UNCHANGED err /\ sink' = sink
      /\ job' = job /\ side' = side /\ batch' = batch /\ input' = input /\ writers' = writers
      /\ files' = files /\ part' = part /\ entries' = entries /\ seen' = seen
      /\ ledger' = ledger /\ acc' = acc /\ temp' = temp /\ target' = target
      /\ damaged' = damaged
  BY DEF Crash, loop, store, held, result
<1>2. Types /\ Sound(Now) /\ Held /\ Stored /\ Outcome
  BY DEF Inv
<1>3. err = "none"
  BY <1>1, <1>2 DEF Outcome
<1>4. Types'
  BY <1>1, <1>2, SameTypes DEF Types
<1>5. Sound(Now)'
  <2>1. Now' = Now
    BY <1>1 DEF Now
  <2>2. QED
    BY <1>1, <1>2, <2>1, SoundKept
<1>6. Held'
  BY <1>1, <1>2, SameHeld
<1>7. Stored'
  <2>1. EventsOnDisk' = EventsOnDisk
    BY <1>1 DEF EventsOnDisk
  <2>2. OnDisk("before")' = OnDisk("before") /\ OnDisk("after")' = OnDisk("after")
    BY <1>1, SameDisk, Sides
  <2>3. QED
    BY <1>1, <1>2, <2>1, <2>2 DEF Stored
<1>8. ErrorsAreTrue'
  BY <1>1, <1>3, SameErrors, NoError
<1>9. Outcome'
  <2>1. Changes' = Changes
    BY <1>1, SameJob
  <2>2. QED
    BY <1>1, <1>2, <1>3, <2>1 DEF Outcome
<1>10. Phases'
  BY <1>1 DEF Phases, WhileEarly, WhileStart, WhileRead, WhileMatch, WhileLate, WhileOpen, WhileLoad,
              WhileWalk, WhileRest, AtEnd, Early, Late
<1>11. QED
  BY <1>4, <1>5, <1>6, <1>7, <1>8, <1>9, <1>10 DEF Inv

\* What is on disk is accounted for after a step, too.
LEMMA StoredHolds == (Types /\ Phases /\ Sound(Now) /\ pc \in Early \cup Late) => Stored
BY StoredFollows
\* Where the rows are is stated of the phases while they are read and after.
LEMMA StoredNext == (Types /\ Phases /\ Sound(Now) /\ pc \in Early \cup Late)' => Stored'
BY StoredHolds, PTL

\* A step that goes on.
LEMMA GoesOn ==
    ASSUME Inv, err = "none", err' = err, job' = job, target' = target,
           pc' \in Early \cup Late, Types', Sound(Now)', Held', Phases'
    PROVE  Inv'
<1>1. Stored'
  <2>1. (Types /\ Phases /\ Sound(Now) /\ pc \in Early \cup Late)'
    BY DEF Early, Late
  <2>2. QED
    BY <2>1, StoredNext
<1>2. ErrorsAreTrue'
  BY DEF ErrorsAreTrue
<1>3. Outcome'
  <2>1. Changes' = Changes
    BY SameJob
  <2>2. pc' # "failed"
    BY DEF Early, Late
  <2>3. QED
    BY <2>1, <2>2 DEF Outcome, Inv
<1>4. QED
  BY <1>1, <1>2, <1>3 DEF Inv

\* Until the output is published the old one is there, and there was no error.
LEMMA Underway ==
    ASSUME Inv, pc \in Early \cup Late
    PROVE  /\ err = "none"
           /\ pc \notin {"return", "done"} => target = Old
<1>1. pc # "failed"
  BY DEF Early, Late
<1>2. err = "none"
  BY <1>1 DEF Inv, Outcome
<1>3. CASE pc \in Early
  BY <1>2, <1>3 DEF Inv, Phases, WhileEarly
<1>4. CASE pc \in Late
  BY <1>2, <1>4 DEF Inv, Phases, WhileLate
<1>5. QED
  BY <1>3, <1>4

\* The tally does not change.
LEMMA SameTally ==
    ASSUME job' = job, NEW x, x = Now, Now' = Now
    PROVE  \A n : Tallied(Now, n)' <=> Tallied(Now, n)
<1>1. SUFFICES ASSUME NEW n PROVE Tallied(Now, n)' <=> Tallied(Now, n)
  OBVIOUS
<1>2. QED
  BY DEF Tallied

\* The first state.
LEMMA InitInv ==
    ASSUME Init
    PROVE  Inv
<1>1. /\ job \in Jobs /\ pc = "begin" /\ side = "before" /\ batch = 1 /\ input = << >>
      /\ writers = << >> /\ files = [s \in Side |-> [p \in Parts |-> NoFile]] /\ part = 1
      /\ entries = [s \in Side |-> << >>] /\ seen = {}
      /\ ledger = [s \in Side |-> NoLedger] /\ temp = NoLedger /\ acc = NoChanges /\ sink = NoSink
      /\ target = Old /\ damaged = FALSE /\ err = "none"
  BY DEF Init
<1>2. Types
  <2>1. 1 \in Parts
    BY Sizes DEF Parts
  <2>2. << >> \in Seq(Row)
    OBVIOUS
  <2>3. QED
    BY <1>1, <2>1, <2>2, Sides, FS_EmptySet DEF Types, Setting, Writers, Early
<1>3. Sound(Now)
  <2>1. NoLedger \in Account /\ NoLedger.used = 0 /\ NoLedger.reserved = 0
    BY DEF NoLedger, Account
  <2>2. << >> \in Seq(Shot) /\ << >> \in Seq(Event) /\ Len(<< >>) = 0
    OBVIOUS
  <2>3. /\ NoChanges \in [Kind -> Counter]
        /\ \A kind \in Kind : NoChanges[kind].count = 0 /\ NoChanges[kind].samples = << >>
    BY <2>2 DEF NoChanges, Counter
  <2>4. NoSink \in Output /\ NoSink.charged = 0 /\ NoSink.events = << >> /\ ~NoSink.open
    BY <2>2 DEF NoSink, Output
  <2>5. Now \in Copy
    BY <1>1, <2>1, <2>3, <2>4 DEF Now, Copy
  <2>6. /\ job.max_memory \in Nat /\ job.max_temp \in Nat /\ job.max_samples \in Nat
        /\ job.max_records \in Nat
    BY <1>1, Limits
  <2>7. Free(Now) = job.max_memory
    <3>1. [p \in DOMAIN writers |-> writers[p].charged] = << >>
      BY <1>1
    <3>2. Total([p \in DOMAIN writers |-> writers[p].charged]) = 0
      BY <3>1, TotalEmpty
    <3>3. /\ Now.ledger["before"].reserved = 0 /\ Now.ledger["after"].reserved = 0
          /\ Now.sink.charged = 0
      BY <1>1, <2>1, <2>4, NowType, Sides
    <3>4. /\ Len(Now.acc["added"].samples) = 0 /\ Len(Now.acc["removed"].samples) = 0
          /\ Len(Now.acc["changed"].samples) = 0
      BY <1>1, <2>2, <2>3, NowType, Kinds
    <3>5. QED
      BY <1>1, <2>6, <3>2, <3>3, <3>4 DEF Free
  <2>8. QED
    BY <1>1, <2>1, <2>2, <2>3, <2>4, <2>5, <2>6, <2>7, NowType DEF Sound
<1>4. Held
  BY <1>1, <1>3, BytesEmpty, FS_EmptySet, Sides, SoundFacts, <1>2 DEF Held
<1>5. Phases
  <2>1. Tallied(Now, {})
    <3>1. \A kind \in Kind : OfKind({}, kind) = {}
      BY DEF OfKind
    <3>2. Cardinality({}) = 0 /\ IsFiniteSet({})
      BY FS_EmptySet
    <3>3. \A kind \in Kind : /\ Now.acc[kind].count = 0 /\ Now.acc[kind].samples = << >>
      BY <1>1, NowType DEF NoChanges
    <3>4. Shows(<< >>, {}, job.max_samples)
      BY <1>1, Limits, ShowsNothing
    <3>5. Now.sink.events = << >>
      BY <1>1, NowType DEF NoSink
    <3>6. Told(<< >>, {})
      <4>1. [i \in DOMAIN << >> |-> EventBytes(<< >>[i])] = << >>
        OBVIOUS
      <4>2. EventUnits(<< >>) = 0
        BY <4>1, TotalEmpty DEF EventUnits
      <4>3. Units({}) = {}
        BY DEF Units
      <4>4. ASSUME NEW event
            PROVE  {i \in DOMAIN << >> : << >>[i] = event} = {}
                   /\ {change \in {} : Shown(change) = event} = {}
        OBVIOUS
      <4>5. QED
        BY <3>2, <4>2, <4>3, <4>4 DEF Told
    <3>7. QED
      BY <3>1, <3>2, <3>3, <3>4, <3>5, <3>6 DEF Tallied
  <2>2. WhileEarly
    BY <1>1, <2>1, Sides DEF WhileEarly, NoSink
  <2>3. WhileStart
    BY <1>1, Sides DEF WhileStart, NoFiles, NoLedger
  <2>4. QED
    BY <1>1, <2>2, <2>3 DEF Phases, WhileRead, WhileMatch, WhileLate, WhileOpen, WhileLoad,
                            WhileWalk, WhileRest, AtEnd, Late
<1>6. Stored
  BY <1>1, <1>2, <1>3, <1>5, StoredFollows DEF Early
<1>7. ErrorsAreTrue /\ Outcome
  BY <1>1 DEF ErrorsAreTrue, Outcome, Old
<1>8. QED
  BY <1>2, <1>3, <1>4, <1>5, <1>6, <1>7 DEF Inv

\* A step that leaves all but the token alone.
LEMMA StutterKeeps ==
    ASSUME Inv, UNCHANGED <<job, pc, loop, store, held, result, target, damaged, err>>
    PROVE  Inv'
<1>1. /\ pc' = pc /\ err' = err /\ sink' = sink /\ job' = job /\ side' = side /\ batch' = batch
      /\ input' = input /\ writers' = writers /\ files' = files /\ part' = part
      /\ entries' = entries /\ seen' = seen /\ ledger' = ledger /\ acc' = acc /\ temp' = temp
      /\ target' = target /\ damaged' = damaged
  BY DEF loop, store, held, result
<1>2. Now' = Now
  BY <1>1 DEF Now
<1>3. /\ InMemory' = InMemory /\ Changes' = Changes /\ TempNeed' = TempNeed
      /\ \A s \in Side : /\ RowsOf(s)' = RowsOf(s) /\ SideNeed(s)' = SideNeed(s)
                         /\ Unique(s)' = Unique(s) /\ AllRows(s)' = AllRows(s)
                         /\ \A k : ReadSoFar(s, k)' = ReadSoFar(s, k)
  BY <1>1, SameJob
<1>4. /\ RowsOf("after")' = RowsOf("after") /\ RowsOf("before")' = RowsOf("before")
      /\ SideNeed("after")' = SideNeed("after") /\ SideNeed("before")' = SideNeed("before")
  BY <1>3, Sides
<1>5. \A s \in Side : ReadSide(s)' = ReadSide(s) /\ Past(s)' = Past(s) /\ Here(s)' = Here(s)
  BY <1>1, SameFiles, SamePart
<1>6. /\ ReadSide("before")' = ReadSide("before") /\ ReadSide("after")' = ReadSide("after")
      /\ Past("before")' = Past("before") /\ Past("after")' = Past("after")
      /\ Here("before")' = Here("before") /\ Here("after")' = Here("after")
  BY <1>5, Sides
<1>7. \A n : Tallied(Now, n)' <=> Tallied(Now, n)
  BY <1>1, <1>2, SameTally
<1>8. \A file : Intact(file)' <=> Intact(file)
  BY <1>1 DEF Intact
<1>9. \A w, r : NotedSoFar(w, r)' = NotedSoFar(w, r)
  BY <1>4 DEF NotedSoFar
<1>10. Types /\ Sound(Now) /\ Held /\ Stored /\ ErrorsAreTrue /\ Outcome /\ Phases
  BY DEF Inv
<1>11. Types'
  BY <1>1, <1>10, SameTypes DEF Types
<1>12. Sound(Now)'
  BY <1>1, <1>2, <1>10, SoundKept
<1>13. Held'
  BY <1>1, <1>10, SameHeld
<1>14. Stored'
  <2>1. EventsOnDisk' = EventsOnDisk
    BY <1>1 DEF EventsOnDisk
  <2>2. OnDisk("before")' = OnDisk("before") /\ OnDisk("after")' = OnDisk("after")
    BY <1>1, SameDisk, Sides
  <2>3. QED
    BY <1>1, <1>10, <2>1, <2>2 DEF Stored
<1>15. ErrorsAreTrue' /\ Outcome'
  BY <1>1, <1>3, <1>10 DEF ErrorsAreTrue, Outcome
<1>16. Phases'
  <2>1. WhileEarly'
    BY <1>1, <1>3, <1>6, <1>7, <1>10 DEF Phases, WhileEarly
  <2>2. WhileStart'
    BY <1>1, <1>4, <1>10 DEF Phases, WhileStart, NoFiles
  <2>3. WhileRead'
    <3>1. CASE pc = "read"
      <4>1. side \in Side
        BY <1>10 DEF Types
      <4>2. ReadSoFar(side, batch - 1)' = ReadSoFar(side, batch - 1)
        BY <1>1, <1>3, <4>1
      <4>3. PICK t \in Seq(Row) :
              /\ ReadSoFar(side, batch - 1) = t \o input
              /\ IF InMemory THEN writers = << >> /\ entries[side] = t /\ UniqueKeys(t)
                 ELSE writers # << >> /\ Splits([p \in Parts |-> writers[p].payload], t)
              /\ temp.used = (IF side = "after" THEN SideNeed("before") ELSE 0)
                             + (IF InMemory THEN 0 ELSE HeaderBytes + Bytes(t))
        BY <1>10, <3>1 DEF Phases, WhileRead
      <4>4. /\ side = "before" => entries["after"] = << >>
            /\ files[side] = NoFiles /\ files["after"] = NoFiles
            /\ batch <= Len(job[side].batches) + 1
        BY <1>10, <3>1 DEF Phases, WhileRead
      <4>5. QED
        BY <1>1, <1>3, <1>4, <4>2, <4>3, <4>4 DEF WhileRead
    <3>2. CASE pc # "read"
      BY <1>1, <3>2 DEF WhileRead
    <3>3. QED
      BY <3>1, <3>2
  <2>4. WhileMatch'
    BY <1>1, <1>4, <1>6, <1>10 DEF Phases, WhileMatch
  <2>5. WhileLate'
    BY <1>1, <1>4, <1>5, <1>10 DEF Phases, WhileLate
  <2>6. WhileOpen'
    <3>1. NotedSoFar(Past("after"), Past("before"))' = NotedSoFar(Past("after"), Past("before"))
      BY <1>6, <1>4 DEF NotedSoFar
    <3>2. QED
      BY <1>1, <1>3, <1>7, <1>10, <3>1 DEF Phases, WhileOpen
  <2>7. WhileLoad'
    BY <1>1, <1>8, <1>10 DEF Phases, WhileLoad, Delivered
  <2>8. Loaded' <=> Loaded
    BY <1>1, <1>3, <1>6, <1>8 DEF Loaded
  <2>9. WhileWalk'
    <3>1. Source' = Source
      BY <1>1, <1>3 DEF Source, Delivered
    <3>2. QED
      BY <1>1, <1>2, <1>3, <1>4, <1>6, <1>7, <1>9, <1>10, <2>8, <3>1 DEF Phases, WhileWalk, NotedSoFar
  <2>10. WhileRest'
    BY <1>1, <1>2, <1>3, <1>4, <1>6, <1>7, <1>9, <1>10, <2>8 DEF Phases, WhileRest, NotedSoFar
  <2>11. AtEnd'
    BY <1>1, <1>3, <1>7, <1>10 DEF Phases, AtEnd
  <2>12. QED
    BY <2>1, <2>2, <2>3, <2>4, <2>5, <2>6, <2>7, <2>9, <2>10, <2>11 DEF Phases
<1>17. QED
  BY <1>10, <1>11, <1>12, <1>13, <1>14, <1>15, <1>16 DEF Inv

\* Cancel: only the token is set.
LEMMA CancelKeeps ==
    ASSUME Inv, Cancel
    PROVE  Inv'
BY StutterKeeps DEF Cancel

\* A failed write or read is an error of its own.
LEMMA IoFailsKeeps ==
    ASSUME Inv, IoFails
    PROVE  Inv'
<1>1. Fail("io") /\ pc \in Early \cup Late /\ pc \notin {"return", "done"}
  BY DEF IoFails, Early, Late
<1>2. target = Old
  BY <1>1, Underway
<1>3. Caused("io")
  BY DEF Caused
<1>4. QED
  BY <1>1, <1>2, <1>3, FailKeeps

-----------------------------------------------------------------------------
(* Reading the datasets *)

\* Memory of the writers.
Room(ws) ==
    Total([p \in DOMAIN ws |-> ws[p].charged]) + IF ws = << >> THEN 0 ELSE WriterBytes

\* The room of writers is a number.
LEMMA RoomType ==
    ASSUME NEW ws \in Writers
    PROVE  Room(ws) \in Nat
<1>1. PICK m \in Nat : m = Total([p \in DOMAIN ws |-> ws[p].charged])
  BY Charges
<1>2. WriterBytes \in Nat
  BY Charges
<1>3. QED
  BY <1>1, <1>2 DEF Room

\* Other writers leave more or less memory.
LEMMA FreeRoom ==
    ASSUME Setting, job' = job, writers' \in Writers, NEW x \in Copy
    PROVE  Free(x)' + Room(writers') = Free(x) + Room(writers)
<1>1. job.max_memory \in Nat
  BY Limits DEF Setting
<1>2. PICK c \in Nat : c = Total([p \in DOMAIN writers |-> writers[p].charged])
  BY Charges DEF Setting
<1>3. PICK d \in Nat : d = Total([p \in DOMAIN writers' |-> writers'[p].charged])
  BY Charges
<1>4. WriterBytes \in Nat
  BY Charges DEF Setting
<1>5. PICK w \in Nat : w = IF writers = << >> THEN 0 ELSE WriterBytes
  BY <1>4
<1>6. PICK v \in Nat : v = IF writers' = << >> THEN 0 ELSE WriterBytes
  BY <1>4
<1>7. PICK l \in Nat : l = x.ledger["before"].reserved + x.ledger["after"].reserved
  BY FreeParts
<1>8. PICK s \in Nat : s = Len(x.acc["added"].samples) + Len(x.acc["removed"].samples)
                           + Len(x.acc["changed"].samples)
  BY FreeParts, Kinds, ThreeNumbers
<1>9. PICK k \in Nat : k = x.sink.charged
  BY FreeParts
<1>10. Room(writers) = c + w /\ Room(writers') = d + v
  BY <1>2, <1>3, <1>5, <1>6 DEF Room
<1>11. Free(x) = job.max_memory - l - c - w - s - k
  BY <1>2, <1>5, <1>7, <1>8, <1>9 DEF Free
<1>12. Free(x)' = job.max_memory - l - d - v - s - k
  BY <1>3, <1>6, <1>7, <1>8, <1>9 DEF Free
<1>13. QED
  BY ONLY <1>1, <1>10, <1>11, <1>12, c \in Nat, w \in Nat, d \in Nat, v \in Nat, l \in Nat,
          s \in Nat, k \in Nat

\* The account covers other writers, too, if there is room for them.
LEMMA SoundRoom ==
    ASSUME Setting, NEW x, Sound(x), job' = job, writers' \in Writers, Now' = x,
           Room(writers') <= Room(writers) + Free(x)
    PROVE  Sound(Now)'
<1>1. x \in Copy
  BY DEF Sound
<1>2. PICK m \in Nat : m = Room(writers)
  BY RoomType DEF Setting
<1>3. PICK n \in Nat : n = Room(writers')
  BY RoomType
<1>4. Free(x) \in Int
  BY <1>1, FreeParts
<1>5. Free(x)' + n = Free(x) + m
  BY <1>1, <1>2, <1>3, FreeRoom
<1>6. Free(x)' \in Int
  <2>1. Setting'
    BY DEF Setting
  <2>2. PICK c \in Nat : c = Total([p \in DOMAIN writers' |-> writers'[p].charged])
    BY Charges
  <2>3. WriterBytes \in Nat
    BY Charges
  <2>4. PICK v \in Nat : v = IF writers' = << >> THEN 0 ELSE WriterBytes
    BY <2>3
  <2>5. PICK l \in Nat : l = x.ledger["before"].reserved + x.ledger["after"].reserved
    BY <1>1, FreeParts
  <2>6. PICK s \in Nat : s = Len(x.acc["added"].samples) + Len(x.acc["removed"].samples)
                             + Len(x.acc["changed"].samples)
    BY <1>1, FreeParts, Kinds, ThreeNumbers
  <2>7. job.max_memory \in Nat /\ x.sink.charged \in Nat
    BY <1>1, FreeParts, Limits DEF Setting
  <2>8. Free(x)' = job.max_memory - l - c - v - s - x.sink.charged
    BY <2>2, <2>4, <2>5, <2>6 DEF Free
  <2>9. QED
    BY ONLY <2>7, <2>8, l \in Nat, c \in Nat, v \in Nat, s \in Nat
<1>7. Free(x)' >= 0
  <2>1. n <= m + Free(x)
    BY <1>2, <1>3
  <2>2. QED
    BY ONLY <1>4, <1>5, <1>6, <2>1, m \in Nat, n \in Nat
<1>8. Free(Now)' >= 0
  BY <1>7 DEF Free
<1>9. QED
  BY <1>8 DEF Sound

\* The phases after the datasets are read.
LEMMA EarlyOthers ==
    ASSUME pc' \in Early
    PROVE  /\ WhileLate' /\ WhileOpen' /\ WhileLoad' /\ WhileWalk' /\ WhileRest' /\ AtEnd'
           /\ pc' \in Early \cup Late \cup {"failed", "crashed"}
BY DEF Early, Late, WhileLate, WhileOpen, WhileLoad, WhileWalk, WhileRest, AtEnd

\* Nothing is compared while the datasets are read.
LEMMA StillEarly ==
    ASSUME Inv, pc \in Early, pc' \in Early, job' = job, acc' = acc, sink' = sink,
           target' = target, damaged' = damaged, seen' = seen, part' = part,
           side' = "after" => ReadSide("before")',
           ~InMemory => entries' = entries
    PROVE  WhileEarly'
<1>1. /\ Tallied(Now, {}) /\ sink.events = << >> /\ ~sink.open /\ target = Old
      /\ ~damaged /\ seen = {} /\ part = 1
      /\ ~InMemory => \A s \in Side : entries[s] = << >>
  BY DEF Inv, Phases, WhileEarly
<1>2. Tallied(Now, {})'
  <2>1. Now'.acc = Now.acc /\ Now'.sink = Now.sink
    BY DEF Now
  <2>2. QED
    BY <1>1, <2>1 DEF Tallied
<1>3. InMemory' = InMemory
  BY SameJob
<1>4. QED
  BY <1>1, <1>2, <1>3 DEF WhileEarly

\* Begin: an error, or the first dataset comes.
LEMMA BeginKeeps ==
    ASSUME Inv, Begin
    PROVE  Inv'
<1>1. pc = "begin" /\ pc \in Early /\ pc \in Early \cup Late /\ pc \notin {"return", "done"}
  BY DEF Begin, Early
<1>2. err = "none" /\ target = Old
  BY <1>1, Underway
<1>3. CASE Fail("no_keys") \/ Fail("cancelled")
  BY <1>2, <1>3, FailKeeps DEF Caused
<1>4. CASE Apply(Now, pc' = "start" /\ UNCHANGED <<loop, store, entries, seen>>)
  <2>1. /\ pc' = "start" /\ err' = err /\ sink' = sink /\ job' = job /\ side' = side
        /\ batch' = batch /\ input' = input /\ writers' = writers /\ files' = files
        /\ part' = part /\ entries' = entries /\ seen' = seen /\ ledger' = ledger /\ acc' = acc
        /\ temp' = temp /\ target' = target /\ damaged' = damaged
    BY <1>4, NowType DEF Apply, loop, store
  <2>2. pc' \in Early
    BY <2>1 DEF Early
  <2>3. Types /\ Sound(Now) /\ Held /\ Phases
    BY DEF Inv
  <2>4. Types'
    BY <2>1, <2>2, <2>3, EarlyOthers, SameTypes DEF Types
  <2>5. Sound(Now)'
    <3>1. Now' = Now
      BY <2>1 DEF Now
    <3>2. QED
      BY <2>1, <2>3, <3>1, SoundKept
  <2>6. Held'
    BY <2>1, <2>3, SameHeld
  <2>7. WhileStart /\ side = "before"
    BY <1>1, <2>3 DEF Phases, WhileStart
  <2>8. WhileEarly'
    BY <1>1, <2>1, <2>2, <2>7, StillEarly
  <2>9. WhileStart' /\ WhileRead' /\ WhileMatch'
    BY <1>1, <2>1, <2>7 DEF WhileStart, WhileRead, WhileMatch, NoFiles
  <2>10. Phases'
    BY <2>2, <2>8, <2>9, EarlyOthers DEF Phases
  <2>11. QED
    BY <1>2, <2>1, <2>2, <2>4, <2>5, <2>6, <2>10, GoesOn
<1>5. QED
  BY <1>3, <1>4 DEF Begin

\* New writers hold nothing.
LEMMA NewWriters ==
    ASSUME NEW ws, ws = [p \in Parts |-> NewWriter]
    PROVE  /\ ws \in Writers /\ ws # << >> /\ Room(ws) = WriterBytes
           /\ Splits([p \in Parts |-> ws[p].payload], << >>)
<1>1. NewWriter \in Writer /\ NewWriter.payload = << >> /\ NewWriter.charged = 0
  <2>1. << >> \in Seq(Row)
    OBVIOUS
  <2>2. QED
    BY <2>1 DEF NewWriter, Writer
<1>2. ws \in [Parts -> Writer] /\ DOMAIN ws = Parts
  BY <1>1
<1>3. ws # << >>
  <2>1. 1 \in Parts
    BY Sizes DEF Parts
  <2>2. QED
    BY <1>2, <2>1
<1>4. Total([p \in DOMAIN ws |-> ws[p].charged]) = 0
  <2>1. [p \in DOMAIN ws |-> ws[p].charged] \in Seq(Nat)
    BY <1>2, Charges DEF Writers
  <2>2. \A i \in 1..Len([p \in DOMAIN ws |-> ws[p].charged]) :
          [p \in DOMAIN ws |-> ws[p].charged][i] = 0
    <3>1. \A i \in DOMAIN [p \in DOMAIN ws |-> ws[p].charged] :
            [p \in DOMAIN ws |-> ws[p].charged][i] = 0
      BY <1>1, <1>2
    <3>2. DOMAIN [p \in DOMAIN ws |-> ws[p].charged]
            = 1..Len([p \in DOMAIN ws |-> ws[p].charged])
      BY <2>1
    <3>3. QED
      BY <3>1, <3>2
  <2>3. QED
    BY <2>1, <2>2, TotalZero
<1>5. WriterBytes \in Nat
  BY <1>2, Charges DEF Writers
<1>6. Room(ws) = WriterBytes
  BY <1>3, <1>4, <1>5 DEF Room
<1>7. [p \in Parts |-> ws[p].payload] = [p \in Parts |-> << >>]
  BY <1>1, <1>2
<1>8. QED
  BY <1>2, <1>3, <1>6, <1>7, SplitsNothing DEF Writers

\* No writers have no room.
LEMMA NoRoom == << >> \in Writers /\ Room(<< >>) = 0
<1>1. [p \in DOMAIN << >> |-> << >>[p].charged] = << >>
  OBVIOUS
<1>2. QED
  BY <1>1, TotalEmpty DEF Room, Writers

\* A side that is not held in memory needs storage for its headers.
LEMMA HeadersNeeded ==
    ASSUME Types, ~InMemory
    PROVE  /\ \A s \in Side : SideNeed(s) \in Nat /\ SideNeed(s) >= HeaderBytes
           /\ TempNeed \in Nat /\ TempNeed >= SideNeed("before") + SideNeed("after")
<1>1. job \in Jobs
  BY TypesFacts
<1>2. \A s \in Side : SideNeed(s) \in Nat /\ Bytes(AllRows(s)) \in Nat
  BY <1>1, RowsType
<1>3. HeaderBytes \in Nat
  BY Sizes
<1>4. \A s \in Side : SideNeed(s) = HeaderBytes + Bytes(AllRows(s))
  BY DEF SideNeed
<1>5. TempNeed \in Nat /\ Cardinality(Units(Changes)) \in Nat
      /\ TempNeed = SideNeed("before") + SideNeed("after")
                    + IF job.output = "none" THEN 0 ELSE Cardinality(Units(Changes))
  BY <1>1, RowsType
<1>6. TempNeed >= SideNeed("before") + SideNeed("after")
  <2>1. PICK u \in Nat : u = IF job.output = "none" THEN 0 ELSE Cardinality(Units(Changes))
    BY <1>5
  <2>2. SideNeed("before") \in Nat /\ SideNeed("after") \in Nat
    BY <1>2, Sides
  <2>3. TempNeed = SideNeed("before") + SideNeed("after") + u
    BY <1>5, <2>1
  <2>4. QED
    BY ONLY <2>2, <2>3, u \in Nat
<1>7. ASSUME NEW s \in Side PROVE SideNeed(s) >= HeaderBytes
  <2>1. PICK m \in Nat : m = Bytes(AllRows(s))
    BY <1>2
  <2>2. SideNeed(s) = HeaderBytes + m
    BY <1>4, <2>1
  <2>3. QED
    BY ONLY <1>3, <2>2, m \in Nat
<1>8. QED
  BY <1>2, <1>5, <1>6, <1>7

\* StartSide: the writers are there if the rows are not held in memory.
LEMMA StartSideKeeps ==
    ASSUME Inv, StartSide
    PROVE  Inv'
<1> DEFINE x == IF InMemory THEN Now ELSE UseTemp(Now, HeaderBytes)
<1>1. pc = "start" /\ pc \in Early /\ pc \in Early \cup Late /\ pc \notin {"return", "done"}
  BY DEF StartSide, Early
<1>2. err = "none" /\ target = Old
  BY <1>1, Underway
<1>3. Types /\ Sound(Now) /\ Held /\ Phases /\ Setting /\ job \in Jobs /\ side \in Side
  BY TypesFacts DEF Inv
<1>4. WhileStart /\ writers = << >> /\ input = << >>
      /\ entries[side] = << >> /\ entries["after"] = << >>
      /\ files[side] = NoFiles /\ files["after"] = NoFiles
      /\ temp.used = IF side = "after" THEN SideNeed("before") ELSE 0
  BY <1>1, <1>3 DEF Phases, WhileStart
<1>5. HeaderBytes \in Nat
  BY Sizes
<1>6. /\ Sound(x) /\ Free(x) = Free(Now) /\ x.acc = acc /\ x.sink = sink /\ x.ledger = ledger
      /\ x.err \in {"none", "temp"}
      /\ x.err = "none" => x.temp.used = temp.used + IF InMemory THEN 0 ELSE HeaderBytes
      /\ x.err = "temp" => ~InMemory /\ temp.used + HeaderBytes > job.max_temp
  <2>1. CASE InMemory
    <3>1. temp.used \in Nat
      BY <1>3, SoundFacts
    <3>2. QED
      BY <1>3, <2>1, <3>1, NowType
  <2>2. CASE ~InMemory
    <3>1. x = UseTemp(Now, HeaderBytes)
      BY <2>2
    <3>2. /\ Sound(x) /\ Free(x) = Free(Now)
          /\ x.acc = Now.acc /\ x.sink = Now.sink /\ x.ledger = Now.ledger
          /\ x.err \in {Now.err, "temp"}
          /\ x.err = "none" => x.temp.used = Now.temp.used + HeaderBytes
          /\ Now.err = "none" /\ x.err # "none" =>
               x.err = "temp" /\ Now.temp.used + HeaderBytes > job.max_temp
      BY <1>3, <1>5, <3>1, TempUsed
    <3>3. QED
      BY <2>2, <3>2, NowType
  <2>3. QED
    BY <2>1, <2>2
<1> HIDE DEF x
<1>7. \/ Fail("missing_column")
      \/ Fail("memory")
      \/ /\ ~(~InMemory /\ x.err = "none" /\ WriterBytes > Free(x))
         /\ Apply(x, /\ pc' = "read" /\ batch' = 1
                     /\ writers' = IF InMemory THEN << >> ELSE [p \in Parts |-> NewWriter]
                     /\ UNCHANGED <<side, input, files, part, entries, seen>>)
  BY DEF StartSide, x
<1>8. CASE Fail("missing_column") \/ Fail("memory")
  BY <1>2, <1>8, FailKeeps DEF Caused
<1>9. CASE x.err # "none" /\ Fail(x.err)
  <2>1. x.err = "temp" /\ ~InMemory /\ temp.used + HeaderBytes > job.max_temp
    BY <1>6, <1>9
  <2>2. job.max_temp < TempNeed
    <3>1. SideNeed("before") \in Nat /\ SideNeed("after") \in Nat
          /\ SideNeed("before") >= HeaderBytes /\ SideNeed("after") >= HeaderBytes
          /\ TempNeed \in Nat /\ TempNeed >= SideNeed("before") + SideNeed("after")
      BY <1>3, <2>1, HeadersNeeded, Sides
    <3>2. temp.used \in Nat /\ temp.used <= SideNeed("before")
      BY <1>4, <3>1
    <3>3. job.max_temp \in Nat
      BY <1>3, Limits
    <3>4. QED
      BY ONLY <1>5, <2>1, <3>1, <3>2, <3>3
  <2>3. Caused("temp")
    BY <2>2 DEF Caused
  <2>4. QED
    BY <1>2, <1>9, <2>1, <2>3, FailKeeps
<1>10. CASE /\ x.err = "none"
            /\ ~(~InMemory /\ WriterBytes > Free(x))
            /\ Apply(x, /\ pc' = "read" /\ batch' = 1
                        /\ writers' = IF InMemory THEN << >> ELSE [p \in Parts |-> NewWriter]
                        /\ UNCHANGED <<side, input, files, part, entries, seen>>)
  <2>1. /\ pc' = "read" /\ err' = err /\ sink' = x.sink /\ job' = job /\ side' = side
        /\ batch' = 1 /\ input' = input /\ files' = files
        /\ writers' = IF InMemory THEN << >> ELSE [p \in Parts |-> NewWriter]
        /\ part' = part /\ entries' = entries /\ seen' = seen /\ ledger' = x.ledger
        /\ acc' = x.acc /\ temp' = x.temp /\ target' = target /\ damaged' = damaged
    BY <1>10 DEF Apply
  <2>2. pc' \in Early
    BY <2>1 DEF Early
  <2>3. writers' \in Writers
    BY <2>1, NewWriters, NoRoom
  <2>4. Types'
    BY <1>3, <2>1, <2>2, <2>3, EarlyOthers DEF Types, Setting
  <2>5. Sound(Now)'
    <3>1. x \in Copy /\ Free(x) \in Int /\ Free(x) >= 0
      BY <1>3, <1>6, FreeParts DEF Sound
    <3>2. Now' = x
      BY <1>10, <2>1, <3>1, TakenOver
    <3>3. Room(writers) = 0
      BY <1>4, NoRoom
    <3>4. Room(writers') = IF InMemory THEN 0 ELSE WriterBytes
      BY <2>1, NoRoom, NewWriters
    <3>5. WriterBytes \in Nat
      BY <2>3, Charges
    <3>6. Room(writers') <= Room(writers) + Free(x)
      BY ONLY <1>10, <3>1, <3>3, <3>4, <3>5
    <3>7. QED
      BY <1>3, <1>6, <2>1, <2>3, <3>2, <3>6, SoundRoom
  <2>6. Held'
    BY <1>3, <1>6, <2>1, SameHeld
  <2>7. WhileEarly'
    <3>1. side = "after" => ReadSide("before")
      BY <1>1, <1>3 DEF Phases, WhileEarly
    <3>2. ReadSide("before")' = ReadSide("before")
      BY <2>1, SameFiles, Sides
    <3>3. QED
      BY <1>1, <1>6, <2>1, <2>2, <3>1, <3>2, StillEarly
  <2>8. WhileRead'
    <3>1. << >> \in Seq(Row) /\ UniqueKeys(<< >>) /\ Bytes(<< >>) = 0
      BY BytesEmpty DEF UniqueKeys
    <3>2. PICK n \in Nat : Len(job[side].batches) = n
      BY <1>3, BatchesType
    <3>3. ReadSoFar(side, 0) = << >>
      BY <1>3, <3>2, BatchesRead
    <3>4. ReadSoFar(side, batch - 1)' = << >>
      BY <1>3, <2>1, <3>3, SameJob
    <3>5. << >> = << >> \o input'
      BY <1>4, <2>1
    <3>6. InMemory' = InMemory /\ SideNeed("before")' = SideNeed("before")
      BY <2>1, SameJob, Sides
    <3>7. ~InMemory => writers' # << >> /\ Splits([p \in Parts |-> writers'[p].payload], << >>)
      BY <2>1, NewWriters
    <3>8. temp'.used = (IF side = "after" THEN SideNeed("before") ELSE 0)
                       + (IF InMemory THEN 0 ELSE HeaderBytes + Bytes(<< >>))
      <4>1. PICK m \in Nat : m = (IF side = "after" THEN SideNeed("before") ELSE 0)
        BY <1>3, RowsType, Sides
      <4>2. PICK h \in Nat : h = (IF InMemory THEN 0 ELSE HeaderBytes + Bytes(<< >>))
        BY <1>5, <3>1
      <4>3. h = IF InMemory THEN 0 ELSE HeaderBytes
        BY <1>5, <3>1, <4>2
      <4>4. QED
        BY <1>4, <1>6, <1>10, <2>1, <4>1, <4>2, <4>3
    <3>9. /\ side' = "before" => entries'["after"] = << >>
          /\ files'[side'] = NoFiles /\ files'["after"] = NoFiles
          /\ batch' <= Len(job'[side'].batches) + 1
      BY <1>4, <2>1, <3>2
    <3>10. /\ (ReadSoFar(side, batch - 1))' = << >> \o input'
           /\ IF InMemory' THEN writers' = << >> /\ entries'[side'] = << >> /\ UniqueKeys(<< >>)
              ELSE writers' # << >> /\ Splits([p \in Parts |-> writers'[p].payload], << >>)
           /\ temp'.used = (IF side' = "after" THEN SideNeed("before")' ELSE 0)
                           + (IF InMemory' THEN 0 ELSE HeaderBytes + Bytes(<< >>))
      BY <1>4, <2>1, <3>1, <3>4, <3>5, <3>6, <3>7, <3>8
    <3>11. QED
      BY <3>1, <3>9, <3>10 DEF WhileRead, NoFiles
  <2>9. WhileStart' /\ WhileMatch'
    BY <2>1 DEF WhileStart, WhileMatch
  <2>10. Phases'
    BY <2>2, <2>7, <2>8, <2>9, EarlyOthers DEF Phases
  <2>11. QED
    BY <1>2, <2>1, <2>2, <2>4, <2>5, <2>6, <2>10, GoesOn
<1>11. QED
  BY <1>7, <1>8, <1>9, <1>10 DEF Apply

\* ReadBatch: the rows of the next batch come next.
LEMMA ReadBatchKeeps ==
    ASSUME Inv, ReadBatch
    PROVE  Inv'
<1> DEFINE next == job[side].batches[batch]
<1>1. /\ pc = "read" /\ pc \in Early /\ pc \in Early \cup Late /\ pc \notin {"return", "done"}
      /\ input = << >> /\ batch <= Len(job[side].batches)
  BY DEF ReadBatch, Early
<1>2. err = "none" /\ target = Old
  BY <1>1, Underway
<1>3. /\ Types /\ Sound(Now) /\ Held /\ Phases /\ Setting /\ job \in Jobs /\ side \in Side
      /\ batch \in Nat \ {0}
  BY TypesFacts DEF Inv
<1>4. PICK n \in Nat : Len(job[side].batches) = n /\ DOMAIN job[side].batches = 1..n
  BY <1>3, BatchesType
<1>5. /\ next \in Batch /\ next.rows \in Seq(Row)
      /\ ReadSoFar(side, batch) = ReadSoFar(side, batch - 1) \o next.rows
      /\ batch \in 1..n
  <2>1. PICK k \in Nat : k = batch - 1
    BY <1>3
  <2>2. k < n /\ k + 1 = batch /\ batch \in 1..n
    BY ONLY <1>1, <1>3, <1>4, <2>1, n \in Nat
  <2>3. /\ job[side].batches[k + 1] \in Batch /\ job[side].batches[k + 1].rows \in Seq(Row)
        /\ ReadSoFar(side, k + 1) = ReadSoFar(side, k) \o job[side].batches[k + 1].rows
    BY <1>3, <1>4, <2>2, BatchesRead
  <2>4. QED
    BY <2>1, <2>2, <2>3
<1> HIDE DEF next
<1>6. \/ Fail("cancelled")
      \/ next.kind # "ok" /\ Fail(next.kind)
      \/ Apply(Now, /\ input' = next.rows /\ batch' = batch + 1
                    /\ UNCHANGED <<pc, side, store, entries, seen>>)
  BY DEF ReadBatch, next
<1>7. CASE Fail("cancelled")
  BY <1>2, <1>7, FailKeeps DEF Caused
<1>8. CASE next.kind # "ok" /\ Fail(next.kind)
  <2>1. next.kind \in {"reader", "mismatch"}
    BY <1>5, <1>8 DEF Batch
  <2>2. next.kind = "mismatch" =>
          \E s \in Side : \E i \in DOMAIN job[s].batches : job[s].batches[i].kind = "mismatch"
    BY <1>3, <1>4, <1>5 DEF next
  <2>3. Caused(next.kind)
    BY <2>1, <2>2 DEF Caused
  <2>4. QED
    BY <1>2, <1>8, <2>3, FailKeeps
<1>9. CASE Apply(Now, /\ input' = next.rows /\ batch' = batch + 1
                      /\ UNCHANGED <<pc, side, store, entries, seen>>)
  <2>1. /\ pc' = pc /\ err' = err /\ sink' = sink /\ job' = job /\ side' = side
        /\ batch' = batch + 1 /\ input' = next.rows /\ writers' = writers /\ files' = files
        /\ part' = part /\ entries' = entries /\ seen' = seen /\ ledger' = ledger /\ acc' = acc
        /\ temp' = temp /\ target' = target /\ damaged' = damaged
    BY <1>9, NowType DEF Apply, store
  <2>2. pc' \in Early
    BY <1>1, <2>1
  <2>3. Types'
    <3>1. batch' \in Nat \ {0}
      BY <1>3, <2>1
    <3>2. QED
      BY <1>3, <1>5, <2>1, <2>2, <3>1, EarlyOthers DEF Types, Setting
  <2>4. Sound(Now)'
    <3>1. Now' = Now
      BY <2>1 DEF Now
    <3>2. QED
      BY <1>3, <2>1, <3>1, SoundKept
  <2>5. Held'
    BY <1>3, <2>1, SameHeld
  <2>6. WhileEarly'
    <3>1. side = "after" => ReadSide("before")
      BY <1>1, <1>3 DEF Phases, WhileEarly
    <3>2. ReadSide("before")' = ReadSide("before")
      BY <2>1, SameFiles, Sides
    <3>3. QED
      BY <1>1, <2>1, <2>2, <3>1, <3>2, StillEarly
  <2>7. WhileRead'
    <3>1. PICK t \in Seq(Row) :
            /\ ReadSoFar(side, batch - 1) = t \o input
            /\ IF InMemory THEN writers = << >> /\ entries[side] = t /\ UniqueKeys(t)
               ELSE writers # << >> /\ Splits([p \in Parts |-> writers[p].payload], t)
            /\ temp.used = (IF side = "after" THEN SideNeed("before") ELSE 0)
                           + (IF InMemory THEN 0 ELSE HeaderBytes + Bytes(t))
      BY <1>1, <1>3 DEF Phases, WhileRead
    <3>2. /\ side = "before" => entries["after"] = << >>
          /\ files[side] = NoFiles /\ files["after"] = NoFiles
      BY <1>1, <1>3 DEF Phases, WhileRead
    <3>3. InMemory' = InMemory /\ SideNeed("before")' = SideNeed("before")
      BY <2>1, SameJob, Sides
    <3>4. t \o input = t
      BY <1>1
    <3>5. ReadSoFar(side, batch) = t \o next.rows
      BY <1>5, <3>1, <3>4
    <3>6. (ReadSoFar(side, batch - 1))' = t \o input'
      <4>1. (ReadSoFar(side, batch - 1))' = ReadSoFar(side, batch)
        <5>1. \A k : ReadSoFar(side, k)' = ReadSoFar(side, k)
          BY <1>3, <2>1, SameJob
        <5>2. batch' - 1 = batch
          BY <1>3, <2>1
        <5>3. QED
          BY <2>1, <5>1, <5>2 DEF ReadSoFar
      <4>2. QED
        BY <2>1, <3>5, <4>1
    <3>7. batch' <= Len(job'[side'].batches) + 1
      <4>1. batch + 1 <= n + 1
        BY ONLY <1>5, n \in Nat
      <4>2. QED
        BY <1>4, <2>1, <4>1
    <3>8. QED
      BY <2>1, <3>1, <3>2, <3>3, <3>6, <3>7 DEF WhileRead, NoFiles
  <2>8. WhileStart' /\ WhileMatch'
    BY <1>1, <2>1 DEF WhileStart, WhileMatch
  <2>9. Phases'
    BY <2>2, <2>6, <2>7, <2>8, EarlyOthers DEF Phases
  <2>10. QED
    BY <1>2, <2>1, <2>2, <2>3, <2>4, <2>5, <2>9, GoesOn
<1>10. QED
  BY <1>6, <1>7, <1>8, <1>9

\* A side stays as it was read.
LEMMA SameSide ==
    ASSUME job' = job, damaged' = damaged, part' = part, NEW s \in Side,
           files'[s] = files[s], entries'[s] = entries[s]
    PROVE  ReadSide(s)' = ReadSide(s)
<1>1. AllRows(s)' = AllRows(s) /\ Unique(s)' = Unique(s) /\ InMemory' = InMemory
  BY SameJob
<1>2. \A R : \A p \in Parts : FileOf(files[s][p], R[p], job[s].schema)'
                                = FileOf(files[s][p], R[p], job[s].schema)
  BY DEF FileOf, Intact
<1>3. OnFiles(s)' = OnFiles(s)
  BY <1>1, <1>2 DEF OnFiles
<1>4. QED
  BY <1>1, <1>3 DEF ReadSide, NoFiles

\* EndSide: the side was read, into memory or into its files.
LEMMA SideEnded ==
    ASSUME Inv, EndSide
    PROVE  /\ \A s \in Side : s = side => ReadSide(s)'
           /\ side' = "after" /\ writers' = << >>
           /\ side = "after" => ReadSide("before")'
           /\ temp.used = SideNeed(side) + IF side = "after" THEN SideNeed("before") ELSE 0
<1>1. /\ pc = "read" /\ input = << >> /\ batch > Len(job[side].batches)
      /\ job' = job /\ damaged' = damaged /\ part' = part /\ entries' = entries /\ side' = "after"
      /\ writers' = << >>
      /\ files' = IF InMemory THEN files
                  ELSE [files EXCEPT ![side] =
                          [p \in Parts |-> [digest |-> job[side].schema,
                                            records |-> Len(writers[p].payload),
                                            bytes |-> Bytes(writers[p].payload),
                                            checksum |-> writers[p].payload,
                                            payload |-> writers[p].payload]]]
  BY DEF EndSide, held
<1>2. /\ Types /\ Phases /\ Setting /\ job \in Jobs /\ side \in Side /\ batch \in Nat \ {0}
      /\ DOMAIN files = Side /\ \A s \in Side : DOMAIN files[s] = Parts
  BY TypesFacts DEF Inv, Types
<1>3. PICK n \in Nat : Len(job[side].batches) = n
  BY <1>2, BatchesType
<1>4. PICK t \in Seq(Row) :
        /\ ReadSoFar(side, batch - 1) = t \o input
        /\ IF InMemory THEN writers = << >> /\ entries[side] = t /\ UniqueKeys(t)
           ELSE writers # << >> /\ Splits([p \in Parts |-> writers[p].payload], t)
        /\ temp.used = (IF side = "after" THEN SideNeed("before") ELSE 0)
                       + (IF InMemory THEN 0 ELSE HeaderBytes + Bytes(t))
  BY <1>1, <1>2 DEF Phases, WhileRead
<1>5. /\ batch <= Len(job[side].batches) + 1
      /\ files[side] = NoFiles
  BY <1>1, <1>2 DEF Phases, WhileRead
<1>6. batch - 1 = n
  BY ONLY <1>1, <1>2, <1>3, <1>5, n \in Nat
<1>7. AllRows(side) = t
  <2>1. ReadSoFar(side, n) = AllRows(side)
    BY <1>2, <1>3, BatchesRead
  <2>2. t \o input = t
    BY <1>1
  <2>3. QED
    BY <1>4, <1>6, <2>1, <2>2
<1>8. SideNeed(side) = IF InMemory THEN 0 ELSE HeaderBytes + Bytes(t)
  BY <1>7 DEF SideNeed
<1>9. temp.used = SideNeed(side) + IF side = "after" THEN SideNeed("before") ELSE 0
  <2>1. SideNeed(side) \in Nat /\ SideNeed("before") \in Nat
    BY <1>2, RowsType, Sides
  <2>2. PICK m \in Nat : m = IF side = "after" THEN SideNeed("before") ELSE 0
    BY <2>1
  <2>3. temp.used = m + SideNeed(side)
    BY <1>4, <1>8, <2>2
  <2>4. QED
    BY ONLY <2>1, <2>2, <2>3, m \in Nat
<1>10. PICK s \in Side : s = side
  BY <1>2
<1>11. ReadSide(s)'
  <2>1. CASE InMemory
    <3>1. entries'[s] = t /\ UniqueKeys(t) /\ files'[s] = NoFiles
      BY <1>1, <1>4, <1>5, <1>10, <2>1
    <3>2. Unique(s)' /\ AllRows(s)' = t /\ InMemory'
      <4>1. AllRows(s)' = AllRows(s) /\ Unique(s)' = Unique(s) /\ InMemory' = InMemory
        BY <1>1, SameJob
      <4>2. QED
        BY <1>4, <1>7, <1>10, <2>1, <4>1 DEF Unique
    <3>3. QED
      BY <3>1, <3>2 DEF ReadSide, NoFiles
  <2>2. CASE ~InMemory
    <3>1. PICK R : R = [p \in Parts |-> writers[p].payload]
      OBVIOUS
    <3>2. Splits(R, t) /\ R \in [Parts -> Seq(Row)]
      BY <1>4, <2>2, <3>1 DEF Splits
    <3>3. AllRows(s)' = t
      BY <1>1, <1>7, <1>10, SameJob
    <3>4. ASSUME NEW p \in Parts PROVE FileOf(files[s][p], R[p], job[s].schema)'
      <4>1. PICK rows : rows = R[p]
        OBVIOUS
      <4>2. rows \in Seq(Row) /\ Bytes(rows) \in Nat /\ Len(rows) \in Nat
        <5>1. rows \in Seq(Row)
          BY <3>2, <4>1
        <5>2. Len(rows) \in Nat
          BY <5>1
        <5>3. Bytes(rows) \in Nat
          BY <5>1, BytesType
        <5>4. QED
          BY <5>1, <5>2, <5>3
      <4>3. files'[s][p] = Filed(rows, job[s].schema)
        BY <1>1, <1>2, <1>10, <2>2, <3>1, <4>1 DEF Filed
      <4>4. /\ files'[s][p].payload = rows /\ files'[s][p].records = Len(rows)
        BY <4>3 DEF Filed
      <4>5. QED
        BY <1>1, <4>1, <4>2, <4>3, <4>4 DEF FileOf
    <3>5. \A p \in Parts : p < part' => UniqueKeys(R[p])
      <4>1. part' = 1
        BY <1>1, <1>2 DEF Phases, WhileEarly, Early
      <4>2. QED
        BY <4>1 DEF Parts
    <3>6. OnFiles(s)'
      BY <3>2, <3>3, <3>4, <3>5 DEF OnFiles
    <3>7. ~InMemory'
      BY <1>1, <2>2, SameJob
    <3>8. QED
      BY <3>6, <3>7 DEF ReadSide
  <2>3. QED
    BY <2>1, <2>2
<1>12. ASSUME side = "after" PROVE ReadSide("before")'
  <2>1. ReadSide("before")
    BY <1>1, <1>2, <1>12 DEF Phases, WhileEarly, Early
  <2>2. files'["before"] = files["before"]
    BY <1>1, <1>2, <1>12, Sides
  <2>3. QED
    BY <1>1, <2>1, <2>2, SameSide, Sides
<1>13. QED
  BY <1>1, <1>9, <1>10, <1>11, <1>12

\* The end of a dataset keeps the invariant: finish on every writer, which puts the header
\* in front of the payload.
LEMMA EndSideKeeps ==
    ASSUME Inv, EndSide
    PROVE  Inv'
<1>1. /\ pc = "read" /\ pc \in Early /\ pc \in Early \cup Late
      /\ err' = err /\ sink' = sink /\ job' = job /\ side' = "after"
      /\ batch' = batch /\ input' = input /\ input = << >> /\ writers' = << >>
      /\ part' = part /\ entries' = entries /\ seen' = seen /\ ledger' = ledger /\ acc' = acc
      /\ temp' = temp /\ target' = target /\ damaged' = damaged
      /\ pc' = IF side = "before" THEN "start" ELSE "match"
      /\ files' = IF InMemory THEN files
                  ELSE [files EXCEPT ![side] =
                          [p \in Parts |-> [digest |-> job[side].schema,
                                            records |-> Len(writers[p].payload),
                                            bytes |-> Bytes(writers[p].payload),
                                            checksum |-> writers[p].payload,
                                            payload |-> writers[p].payload]]]
  BY DEF EndSide, held, result, Early
<1>2. err = "none" /\ target = Old
  BY <1>1, Underway
<1>3. Types /\ Sound(Now) /\ Held /\ Phases /\ Setting /\ job \in Jobs /\ side \in Side
  BY TypesFacts DEF Inv
<1>4. /\ \A s \in Side : s = side => ReadSide(s)'
      /\ side = "after" => ReadSide("before")'
      /\ temp.used = SideNeed(side) + IF side = "after" THEN SideNeed("before") ELSE 0
  BY SideEnded
<1>5. pc' \in Early
  BY <1>1 DEF Early
<1>6. Types'
  <2>1. << >> \in Seq(Row) /\ << >> \in Writers
    BY NoRoom
  <2>2. DOMAIN files' = Side /\ \A s \in Side : DOMAIN files'[s] = Parts
    BY <1>1, <1>3 DEF Types
  <2>3. QED
    BY <1>1, <1>3, <1>5, <2>1, <2>2, EarlyOthers, Sides DEF Types, Setting
<1>7. Sound(Now)'
  <2>1. Now' = Now
    BY <1>1 DEF Now
  <2>2. Room(writers') = 0 /\ writers' \in Writers
    BY <1>1, NoRoom
  <2>3. Room(writers) \in Nat
    BY <1>3, RoomType DEF Setting
  <2>4. Free(Now) \in Int /\ Free(Now) >= 0
    BY <1>3, SoundFacts
  <2>5. Room(writers') <= Room(writers) + Free(Now)
    BY ONLY <2>2, <2>3, <2>4
  <2>6. QED
    BY <1>1, <1>3, <2>1, <2>2, <2>5, SoundRoom
<1>8. Held'
  BY <1>1, <1>3, SameHeld
<1>9. WhileEarly'
  <2>1. ReadSide("before")'
    BY <1>3, <1>4, Sides
  <2>2. QED
    BY <1>1, <1>5, <2>1, StillEarly
<1>10. WhileStart' /\ WhileMatch' /\ WhileRead'
  <2>1. /\ side = "before" => entries["after"] = << >>
        /\ files[side] = NoFiles /\ files["after"] = NoFiles
    BY <1>1, <1>3 DEF Phases, WhileRead
  <2>2. SideNeed("before")' = SideNeed("before") /\ SideNeed("after")' = SideNeed("after")
    BY <1>1, SameJob, Sides
  <2>3. CASE side = "before"
    <3>1. files'["after"] = NoFiles
      BY <1>1, <1>3, <2>1, <2>3, Sides DEF Types
    <3>2. pc' = "start" /\ entries'["after"] = << >>
      BY <1>1, <2>1, <2>3
    <3>3. temp'.used = SideNeed("before")
      <4>1. SideNeed("before") \in Nat
        BY <1>3, RowsType, Sides
      <4>2. QED
        BY <1>1, <1>4, <2>3, <4>1
    <3>4. QED
      BY <1>1, <2>2, <3>1, <3>2, <3>3 DEF WhileStart, WhileMatch, WhileRead, NoFiles
  <2>4. CASE side = "after"
    <3>1. pc' = "match" /\ ReadSide("after")'
      BY <1>1, <1>4, <2>4, Sides
    <3>2. temp'.used = SideNeed("before") + SideNeed("after")
      <4>1. SideNeed("before") \in Nat /\ SideNeed("after") \in Nat
        BY <1>3, RowsType, Sides
      <4>2. temp'.used = SideNeed("after") + SideNeed("before")
        BY <1>1, <1>4, <2>4
      <4>3. QED
        BY ONLY <4>1, <4>2
    <3>3. QED
      BY <1>1, <2>2, <3>1, <3>2 DEF WhileStart, WhileMatch, WhileRead
  <2>5. QED
    BY <1>3, <2>3, <2>4, Sides
<1>11. Phases'
  BY <1>5, <1>9, <1>10, EarlyOthers DEF Phases
<1>12. QED
  BY <1>1, <1>2, <1>5, <1>6, <1>7, <1>8, <1>11, GoesOn

\* The row that comes next is one of the dataset.
LEMMA NextRow ==
    ASSUME job \in Jobs, NEW s \in Side, NEW n \in Nat, Len(job[s].batches) = n,
           NEW k, k \in 0..n, NEW t, t \in Seq(Row), NEW i, i \in Seq(Row), i # << >>,
           ReadSoFar(s, k) = t \o i
    PROVE  /\ Head(i) \in Row /\ Tail(i) \in Seq(Row) /\ Append(t, Head(i)) \in Seq(Row)
           /\ t \o i = Append(t, Head(i)) \o Tail(i)
           /\ Bytes(t) \in Nat /\ Head(i).size \in Nat /\ Bytes(AllRows(s)) \in Nat
           /\ Bytes(t) + Head(i).size <= Bytes(AllRows(s))
           /\ Unique(s) => UniqueKeys(Append(t, Head(i)))
<1>1. /\ Head(i) \in Row /\ Tail(i) \in Seq(Row) /\ Append(t, Head(i)) \in Seq(Row)
      /\ t \o i = Append(t, Head(i)) \o Tail(i)
  BY TakeOne
<1>2. PICK rest \in Seq(Row) : AllRows(s) = ReadSoFar(s, k) \o rest
  BY BatchesRead
<1>3. PICK row \in Row : row = Head(i)
  BY <1>1
<1>4. PICK a \in Seq(Row) : a = Append(t, row)
  BY <1>1, <1>3
<1>5. PICK b \in Seq(Row) : b = Tail(i)
  BY <1>1
<1>6. PICK u \in Seq(Row) : u = ReadSoFar(s, k)
  BY BatchesRead
<1>7. u = a \o b
  BY ONLY <1>1, <1>3, <1>4, <1>5, <1>6, ReadSoFar(s, k) = t \o i, Zenon
<1>8. AllRows(s) = u \o rest
  BY <1>2, <1>6
<1>9. Bytes(a) = Bytes(t) + row.size
  BY <1>4, BytesAppend
<1>10. Bytes(a \o b) = Bytes(a) + Bytes(b) /\ Bytes(u \o rest) = Bytes(u) + Bytes(rest)
  BY BytesConcat
<1>11. Bytes(t) \in Nat /\ Bytes(a) \in Nat /\ Bytes(b) \in Nat /\ Bytes(rest) \in Nat
  BY BytesType
<1>12. row.size \in Nat
  BY RowType
<1>13. Bytes(AllRows(s)) \in Nat
  BY RowsType
<1>14. Bytes(AllRows(s)) = (Bytes(a) + Bytes(b)) + Bytes(rest)
  BY <1>7, <1>8, <1>10
<1>15. Bytes(t) + row.size <= Bytes(AllRows(s))
  BY ONLY <1>9, <1>11, <1>12, <1>14, SMTT(30)
<1>16. ASSUME Unique(s) PROVE UniqueKeys(Append(t, Head(i)))
  <2>1. UniqueKeys(u \o rest)
    BY <1>8, <1>16 DEF Unique
  <2>2. UniqueKeys(u)
    BY <2>1, UniquePrefix
  <2>3. UniqueKeys(a \o b)
    BY <1>7, <2>2
  <2>4. UniqueKeys(a)
    BY <2>3, UniquePrefix
  <2>5. QED
    BY <1>3, <1>4, <2>4
<1>17. QED
  BY <1>1, <1>3, <1>11, <1>12, <1>13, <1>15, <1>16

\* The charge of a writer grows by what it reserves.
LEMMA GrownType ==
    ASSUME NEW w \in Writer, NEW row \in Row, NEW g, g = Grown(w, row.size)
    PROVE  g \in Writer /\ g.payload = w.payload /\ g.charged >= w.charged
<1>1. row.size \in Nat
  BY RowType
<1>2. /\ w.capacity \in Nat /\ w.length \in Nat /\ w.charged \in Nat /\ w.payload \in Seq(Row)
  BY DEF Writer
<1>3. PICK additional \in Nat : additional = Max({0, row.size - w.capacity})
  BY <1>1, <1>2, MaxOfTwo, SMTT(30)
<1>4. PICK exact \in Nat :
        exact = IF additional = 0 THEN w.capacity ELSE Max({w.capacity, w.length + additional})
  BY <1>2, MaxOfTwo
<1>5. PICK capacity \in Nat :
        capacity = IF row.size <= exact THEN exact ELSE Max({row.size, 2 * exact})
  BY <1>1, MaxOfTwo
<1>6. g = [w EXCEPT !.capacity = capacity, !.charged = w.charged + additional, !.length = row.size]
  BY <1>3, <1>4, <1>5 DEF Grown
<1>7. w.charged + additional \in Nat /\ w.charged + additional >= w.charged
  BY ONLY <1>2, additional \in Nat
<1>8. PICK charged \in Nat : charged = w.charged + additional
  BY <1>7
<1>9. g = [w EXCEPT !.capacity = capacity, !.charged = charged, !.length = row.size]
  BY <1>6, <1>8
<1>10. g \in Writer /\ g.payload = w.payload /\ g.charged = charged
  <2>1. w \in Writer /\ row.size \in Nat /\ capacity \in Nat /\ charged \in Nat
    BY <1>1, <1>5, <1>8
  <2>2. g = [payload |-> w.payload, capacity |-> capacity, length |-> row.size, charged |-> charged]
    BY ONLY <1>9, <2>1 DEF Writer
  <2>3. w.payload \in Seq(Row)
    BY <1>2
  <2>4. QED
    BY ONLY <2>1, <2>2, <2>3 DEF Writer
<1>11. QED
  BY <1>7, <1>8, <1>10

\* A row is written to one of the writers.
LEMMA WriterFilled ==
    ASSUME NEW w \in Writer, NEW row \in Row, NEW v, v = [w EXCEPT !.payload = Append(@, row)]
    PROVE  v \in Writer /\ v.payload = Append(w.payload, row) /\ v.charged = w.charged
<1>1. PICK p \in Seq(Row) : p = w.payload
  BY DEF Writer
<1>2. PICK payload \in Seq(Row) : payload = Append(p, row)
  <2>1. Append(p, row) \in Seq(Row)
    OBVIOUS
  <2>2. QED
    BY <2>1
<1>3. v = [w EXCEPT !.payload = payload]
  BY <1>1, <1>2
<1>4. v \in Writer /\ v.payload = payload /\ v.charged = w.charged
  BY <1>2, <1>3 DEF Writer
<1>5. QED
  BY <1>1, <1>2, <1>4

\* One writer is replaced.
LEMMA RoomReplaced ==
    ASSUME NEW ws, ws \in [Parts -> Writer], NEW vs, vs \in [Parts -> Writer],
           NEW p \in Parts, \A q \in Parts : q # p => vs[q] = ws[q]
    PROVE  /\ ws \in Writers /\ vs \in Writers /\ ws # << >> /\ vs # << >>
           /\ Room(vs) = Room(ws) - ws[p].charged + vs[p].charged
<1> DEFINE w == vs[p]
<1>1. DOMAIN vs = Parts /\ DOMAIN ws = Parts
  OBVIOUS
<1>2. ws # << >> /\ vs # << >>
  <2>1. 1 \in Parts
    BY Sizes DEF Parts
  <2>2. QED
    BY <1>1, <2>1
<1>3. ws \in Writers /\ vs \in Writers
  BY <1>1 DEF Writers
<1>4. PICK s : s = [q \in DOMAIN ws |-> ws[q].charged]
  OBVIOUS
<1>5. PICK t : t = [q \in DOMAIN vs |-> vs[q].charged]
  OBVIOUS
<1>6. s \in Seq(Nat) /\ t \in Seq(Nat)
  BY <1>3, <1>4, <1>5, Charges
<1>7. Len(s) = Partitions /\ Len(t) = Partitions
  <2>1. Partitions \in Nat
    BY Sizes
  <2>2. DOMAIN s = 1..Partitions /\ DOMAIN t = 1..Partitions
    BY <1>1, <1>4, <1>5 DEF Parts
  <2>3. QED
    BY <1>6, <2>1, <2>2
<1>8. \A q \in 1..Len(s) : q # p => t[q] = s[q]
  BY <1>1, <1>4, <1>5, <1>7 DEF Parts
<1>9. p \in 1..Len(s)
  BY <1>7 DEF Parts
<1>10. Total(t) = Total(s) - s[p] + t[p]
  <2>1. Len(t) = Len(s)
    BY <1>7
  <2>2. QED
    BY ONLY <1>6, <1>8, <1>9, <2>1, TotalReplaced
<1>11. s[p] = ws[p].charged /\ t[p] = w.charged
  BY <1>1, <1>4, <1>5
<1>12. ws[p].charged \in Nat /\ w.charged \in Nat
  BY DEF Writer
<1>13. Total(s) \in Nat /\ Total(t) \in Nat
  BY <1>6, TotalType
<1>14. WriterBytes \in Nat
  BY <1>3, Charges
<1>15. Room(ws) = Total(s) + WriterBytes /\ Room(vs) = Total(t) + WriterBytes
  BY <1>2, <1>4, <1>5 DEF Room
<1>16. Room(vs) = Room(ws) - ws[p].charged + w.charged
  BY ONLY <1>10, <1>11, <1>12, <1>13, <1>14, <1>15
<1>17. QED
  BY <1>1, <1>2, <1>3, <1>16

\* WriteRow: the row is in the file of its partition.
LEMMA WriteRowKeeps ==
    ASSUME Inv, WriteRow
    PROVE  Inv'
<1>1. /\ pc = "read" /\ pc \in Early /\ pc \in Early \cup Late /\ pc \notin {"return", "done"}
      /\ ~InMemory /\ input # << >>
  BY DEF WriteRow, Early
<1>2. err = "none" /\ target = Old
  BY <1>1, Underway
<1>3. /\ Types /\ Sound(Now) /\ Held /\ Phases /\ Setting /\ job \in Jobs /\ side \in Side
      /\ batch \in Nat \ {0} /\ input \in Seq(Row)
  BY TypesFacts DEF Inv
<1>4. PICK n \in Nat : Len(job[side].batches) = n
  BY <1>3, BatchesType
<1>5. PICK t \in Seq(Row) :
        /\ ReadSoFar(side, batch - 1) = t \o input
        /\ IF InMemory THEN writers = << >> /\ entries[side] = t /\ UniqueKeys(t)
           ELSE writers # << >> /\ Splits([q \in Parts |-> writers[q].payload], t)
        /\ temp.used = (IF side = "after" THEN SideNeed("before") ELSE 0)
                       + (IF InMemory THEN 0 ELSE HeaderBytes + Bytes(t))
  BY <1>1, <1>3 DEF Phases, WhileRead
<1>6. /\ side = "before" => entries["after"] = << >>
      /\ files[side] = NoFiles /\ files["after"] = NoFiles
      /\ batch <= Len(job[side].batches) + 1
  BY <1>1, <1>3 DEF Phases, WhileRead
<1>7. PICK k \in 0..n : k = batch - 1
  <2>1. batch - 1 \in 0..n
    BY ONLY <1>3, <1>4, <1>6, n \in Nat
  <2>2. QED
    BY <2>1
<1>8. ReadSoFar(side, k) = t \o input
  BY <1>5, <1>7
<1>9. /\ Head(input) \in Row /\ Tail(input) \in Seq(Row) /\ Append(t, Head(input)) \in Seq(Row)
      /\ t \o input = Append(t, Head(input)) \o Tail(input)
      /\ Bytes(t) \in Nat /\ Head(input).size \in Nat /\ Bytes(AllRows(side)) \in Nat
      /\ Bytes(t) + Head(input).size <= Bytes(AllRows(side))
      /\ Unique(side) => UniqueKeys(Append(t, Head(input)))
  <2>1. PICK i \in Seq(Row) : i = input
    BY <1>3
  <2>2. i # << >> /\ ReadSoFar(side, k) = t \o i
    BY <1>1, <1>8, <2>1
  <2>3. job \in Jobs /\ side \in Side
    BY <1>3
  <2>4. /\ Head(i) \in Row /\ Tail(i) \in Seq(Row) /\ Append(t, Head(i)) \in Seq(Row)
        /\ t \o i = Append(t, Head(i)) \o Tail(i)
        /\ Bytes(t) \in Nat /\ Head(i).size \in Nat /\ Bytes(AllRows(side)) \in Nat
        /\ Bytes(t) + Head(i).size <= Bytes(AllRows(side))
        /\ Unique(side) => UniqueKeys(Append(t, Head(i)))
    BY <1>4, <2>2, <2>3, NextRow
  <2>5. QED
    BY <2>1, <2>4
<1>10. PICK row \in Row :
         /\ row = Head(input) /\ Append(t, row) \in Seq(Row)
         /\ t \o input = Append(t, row) \o Tail(input)
         /\ Bytes(t) + row.size <= Bytes(AllRows(side))
  BY <1>9
<1>11. PICK size \in Nat : size = row.size
  BY <1>9, <1>10
<1>12. PICK m \in Nat : m = Bytes(t)
  BY <1>9
<1>13. PICK p \in Parts : p = PartitionOf[row.key]
  BY <1>10, RowType, Sizes
<1>14. writers \in [Parts -> Writer] /\ writers[p] \in Writer
  BY <1>1, <1>3, <1>5 DEF Setting, Writers
<1>15. PICK w : w = Grown(writers[p], row.size)
  OBVIOUS
<1>16. PICK v : v = [w EXCEPT !.payload = Append(@, row)]
  OBVIOUS
<1>17. /\ w \in Writer /\ w.charged >= writers[p].charged
       /\ v \in Writer /\ v.payload = Append(writers[p].payload, row) /\ v.charged = w.charged
  <2>1. PICK old \in Writer : old = writers[p]
    BY <1>14
  <2>2. w = Grown(old, row.size)
    BY <1>15, <2>1
  <2>3. w \in Writer /\ w.payload = old.payload /\ w.charged >= old.charged
    BY <1>10, <2>1, <2>2, GrownType
  <2>4. v \in Writer /\ v.payload = Append(w.payload, row) /\ v.charged = w.charged
    BY <1>10, <1>16, <2>3, WriterFilled
  <2>5. QED
    BY <2>1, <2>3, <2>4
<1>18. PICK x : x = UseTemp(Now, size)
  OBVIOUS
<1>19. /\ Sound(x) /\ Free(x) = Free(Now)
       /\ x.acc = Now.acc /\ x.sink = Now.sink /\ x.ledger = Now.ledger
       /\ x.err \in {Now.err, "temp"}
       /\ x.err = "none" => Now.err = "none" /\ x.temp.used = Now.temp.used + size
       /\ Now.err = "none" /\ x.err # "none" =>
            x.err = "temp" /\ Now.temp.used + size > job.max_temp
  <2>1. Setting /\ Sound(Now) /\ size \in Nat
    BY <1>3
  <2>2. QED
    BY ONLY <2>1, <1>18, TempUsed
<1>20. /\ x.acc = acc /\ x.sink = sink /\ x.ledger = ledger /\ x.err \in {"none", "temp"}
       /\ x.err = "none" => x.temp.used = temp.used + size
       /\ x.err = "temp" => temp.used + size > job.max_temp
  BY <1>19, NowType
<1>21. \/ Fail("record")
       \/ Fail("memory")
       \/ /\ ~(w.charged - writers[p].charged > Free(Now))
          /\ Apply(x, /\ writers' = [writers EXCEPT ![p] = v]
                      /\ input' = Tail(input)
                      /\ UNCHANGED <<pc, side, batch, files, part, entries, seen>>)
  BY <1>10, <1>13, <1>15, <1>16, <1>18, <1>11 DEF WriteRow
<1>22. /\ temp.used \in Nat /\ HeaderBytes \in Nat /\ job.max_temp \in Nat
       /\ Free(Now) \in Int /\ Free(Now) >= 0
  BY <1>3, SoundFacts, Sizes, Limits
<1>23. PICK need \in Nat : need = IF side = "after" THEN SideNeed("before") ELSE 0
  BY <1>3, RowsType, Sides
<1>24. temp.used = need + (HeaderBytes + m)
  BY <1>1, <1>5, <1>23, <1>12
<1>25. CASE Fail("record") \/ Fail("memory")
  BY <1>2, <1>25, FailKeeps DEF Caused
<1>26. CASE x.err # "none" /\ Fail(x.err)
  <2>1. x.err = "temp" /\ temp.used + size > job.max_temp
    BY <1>20, <1>26
  <2>2. job.max_temp < TempNeed
    <3>1. /\ SideNeed("before") \in Nat /\ SideNeed("after") \in Nat
          /\ TempNeed \in Nat /\ TempNeed >= SideNeed("before") + SideNeed("after")
      BY <1>1, <1>3, HeadersNeeded, Sides
    <3>2. SideNeed(side) = HeaderBytes + Bytes(AllRows(side))
      BY <1>1 DEF SideNeed
    <3>3. need + SideNeed(side) <= SideNeed("before") + SideNeed("after")
      <4>1. CASE side = "before"
        <5>1. need = 0 /\ SideNeed(side) = SideNeed("before")
          BY <1>23, <4>1
        <5>2. QED
          BY ONLY <3>1, <5>1
      <4>2. CASE side = "after"
        BY <1>23, <3>1, <4>2
      <4>3. QED
        BY <1>3, <4>1, <4>2, Sides
    <3>4. PICK needed \in Nat : needed = SideNeed(side)
      BY <1>3, RowsType
    <3>5. m + size <= Bytes(AllRows(side)) /\ Bytes(AllRows(side)) \in Nat
      BY <1>9, <1>10, <1>11, <1>12
    <3>6. temp.used + size <= need + needed
      BY ONLY <1>22, <1>24, <3>2, <3>4, <3>5, need \in Nat, m \in Nat, size \in Nat
    <3>7. need + needed <= SideNeed("before") + SideNeed("after")
      BY <3>3, <3>4
    <3>8. QED
      BY ONLY <1>22, <2>1, <3>1, <3>6, <3>7, need \in Nat, needed \in Nat, size \in Nat
  <2>3. Caused("temp")
    BY <2>2 DEF Caused
  <2>4. QED
    BY <1>2, <1>26, <2>1, <2>3, FailKeeps
<1>27. CASE /\ x.err = "none"
            /\ ~(w.charged - writers[p].charged > Free(Now))
            /\ Apply(x, /\ writers' = [writers EXCEPT ![p] = v]
                        /\ input' = Tail(input)
                        /\ UNCHANGED <<pc, side, batch, files, part, entries, seen>>)
  <2>1. /\ pc' = pc /\ err' = err /\ sink' = x.sink /\ job' = job /\ side' = side
        /\ batch' = batch /\ input' = Tail(input) /\ files' = files
        /\ writers' = [writers EXCEPT ![p] = v]
        /\ part' = part /\ entries' = entries /\ seen' = seen /\ ledger' = x.ledger
        /\ acc' = x.acc /\ temp' = x.temp /\ target' = target /\ damaged' = damaged
    BY <1>27 DEF Apply
  <2>2. pc' \in Early
    BY <1>1, <2>1
  <2>3. /\ writers \in Writers /\ writers' \in Writers /\ writers' # << >>
        /\ writers' \in [Parts -> Writer]
        /\ Room(writers') = Room(writers) - writers[p].charged + w.charged
    <3>1. PICK ws \in [Parts -> Writer] : ws = writers
      BY <1>14
    <3>2. v \in Writer /\ v.charged = w.charged
      BY <1>17
    <3>3. PICK vs \in [Parts -> Writer] : vs = writers'
      BY <2>1, <3>1, <3>2
    <3>4. vs[p] = v /\ \A q \in Parts : q # p => vs[q] = ws[q]
      BY <1>13, <2>1, <3>1, <3>3
    <3>5. /\ ws \in Writers /\ vs \in Writers /\ ws # << >> /\ vs # << >>
          /\ Room(vs) = Room(ws) - ws[p].charged + vs[p].charged
      BY <1>13, <3>1, <3>3, <3>4, RoomReplaced
    <3>6. QED
      BY <3>1, <3>2, <3>3, <3>4, <3>5
  <2>4. Types'
    BY <1>3, <1>9, <2>1, <2>2, <2>3, EarlyOthers DEF Types, Setting
  <2>5. Sound(Now)'
    <3>1. x \in Copy
      BY <1>19 DEF Sound
    <3>2. Now' = x
      BY <1>27, <2>1, <3>1, TakenOver
    <3>3. Room(writers) \in Nat /\ writers[p].charged \in Nat /\ w.charged \in Nat
      BY <1>14, <1>17, <2>3, RoomType DEF Writer
    <3>4. Room(writers') <= Room(writers) + Free(Now)
      BY ONLY <1>22, <1>27, <2>3, <3>3
    <3>5. QED
      BY <1>3, <1>19, <2>1, <2>3, <3>2, <3>4, SoundRoom
  <2>6. Held'
    BY <1>3, <1>20, <2>1, SameHeld
  <2>7. WhileEarly'
    <3>1. side = "after" => ReadSide("before")
      BY <1>1, <1>3 DEF Phases, WhileEarly
    <3>2. ReadSide("before")' = ReadSide("before")
      BY <2>1, SameFiles, Sides
    <3>3. QED
      BY <1>1, <1>20, <2>1, <2>2, <3>1, <3>2, StillEarly
  <2>8. WhileRead'
    <3>1. PICK r : r = [q \in Parts |-> writers[q].payload]
      OBVIOUS
    <3>2. Splits(r, t)
      BY <1>1, <1>5, <3>1
    <3>3. Splits([r EXCEPT ![p] = Append(@, row)], Append(t, row))
      BY <1>10, <1>13, <3>2, SplitsAppend
    <3>4. [q \in Parts |-> writers'[q].payload] = [r EXCEPT ![p] = Append(@, row)]
      <4>1. [r EXCEPT ![p] = Append(@, row)] = [r EXCEPT ![p] = Append(r[p], row)]
        BY <3>1
      <4>2. \A q \in Parts : writers'[q].payload = [r EXCEPT ![p] = Append(r[p], row)][q]
        BY <1>14, <1>17, <2>1, <3>1
      <4>3. DOMAIN r = Parts
        BY <3>1
      <4>4. QED
        BY <4>1, <4>2, <4>3
    <3>5. PICK u \in Seq(Row) : u = Append(t, row)
      BY <1>10
    <3>6. InMemory' = InMemory /\ SideNeed("before")' = SideNeed("before")
      BY <2>1, SameJob, Sides
    <3>7. temp'.used = need + (HeaderBytes + Bytes(u))
      <4>1. Bytes(u) = m + size
        BY <1>10, <1>11, <1>12, <3>5, BytesAppend
      <4>2. temp'.used = temp.used + size
        BY <1>20, <1>27, <2>1
      <4>3. QED
        BY ONLY <1>22, <1>24, <4>1, <4>2, need \in Nat, m \in Nat, size \in Nat
    <3>8. (ReadSoFar(side, batch - 1))' = u \o input'
      <4>1. ReadSoFar(side, k)' = ReadSoFar(side, k)
        BY <1>3, <2>1, SameJob
      <4>2. (ReadSoFar(side, batch - 1))' = ReadSoFar(side, k)
        BY <1>7, <2>1, <4>1
      <4>3. QED
        BY <1>8, <1>10, <2>1, <3>5, <4>2
    <3>9. Splits([q \in Parts |-> writers'[q].payload], u) /\ writers' # << >>
      BY <2>3, <3>3, <3>4, <3>5
    <3>10. (IF side' = "after" THEN SideNeed("before")' ELSE 0) = need
      BY <1>23, <2>1, <3>6
    <3>11. QED
      BY <1>1, <1>6, <2>1, <3>6, <3>7, <3>8, <3>9, <3>10 DEF WhileRead, NoFiles
  <2>9. WhileStart' /\ WhileMatch'
    BY <1>1, <2>1 DEF WhileStart, WhileMatch
  <2>10. Phases'
    BY <2>2, <2>7, <2>8, <2>9, EarlyOthers DEF Phases
  <2>11. QED
    BY <1>2, <2>1, <2>2, <2>4, <2>5, <2>6, <2>10, GoesOn
<1>28. QED
  BY <1>21, <1>25, <1>26, <1>27 DEF Apply

-----------------------------------------------------------------------------
(* Comparing the datasets *)

\* What is delivered of a file is the beginning of its payload.
LEMMA DeliveredIs ==
    ASSUME NEW file, file.payload \in Seq(Row), file.records \in Int
    PROVE  /\ Delivered(file) \in Seq(Row)
           /\ \E rest \in Seq(Row) : file.payload = Delivered(file) \o rest
           /\ Complete(file) => Delivered(file) = file.payload
<1>1. PICK s \in Seq(Row) : s = file.payload
  OBVIOUS
<1>2. PICK n \in Nat : n = Len(s)
  OBVIOUS
<1>3. PICK k \in Int : k = IF file.records <= n THEN file.records ELSE n
  OBVIOUS
<1>4. Delivered(file) = SubSeq(s, 1, k)
  <2>1. Min({file.records, n}) = k
    BY <1>3, MinOfTwo
  <2>2. QED
    BY <1>1, <1>2, <2>1 DEF Delivered
<1>5. CASE k \in 0..n
  <2>1. SubSeq(s, 1, k) \in Seq(Row) /\ Len(SubSeq(s, 1, k)) = k
        /\ \A i \in 1..k : SubSeq(s, 1, k)[i] = s[i]
    BY <1>2, <1>5
  <2>2. PICK rest : rest = SubSeq(s, k + 1, n)
    OBVIOUS
  <2>3. rest \in Seq(Row) /\ Len(rest) = n - k /\ \A i \in 1..n - k : rest[i] = s[k + i]
    BY <1>2, <1>5, <2>2
  <2>4. PICK d \in Seq(Row) : d = SubSeq(s, 1, k)
    BY <2>1
  <2>5. Len(d) = k /\ \A i \in 1..k : d[i] = s[i]
    BY <2>1, <2>4
  <2>6. s = d \o rest
    <3>1. PICK l \in Nat : l = n - k
      BY <1>5
    <3>2. PICK c : c = d \o rest
      OBVIOUS
    <3>3. /\ c \in Seq(Row) /\ Len(c) = k + l
          /\ \A i \in 1..k + l : c[i] = IF i <= k THEN d[i] ELSE rest[i - k]
      <4>1. Len(rest) = l
        BY <2>3, <3>1
      <4>2. d \in Seq(Row) /\ rest \in Seq(Row) /\ Len(d) = k /\ k \in Nat
        BY <1>5, <2>3, <2>4, <2>5
      <4>3. /\ d \o rest \in Seq(Row) /\ Len(d \o rest) = k + l
            /\ \A i \in 1..k + l : (d \o rest)[i] = IF i <= k THEN d[i] ELSE rest[i - k]
        BY ONLY <4>1, <4>2, Joined
      <4>4. QED
        BY <3>2, <4>3
    <3>4. k + l = n
      BY ONLY <1>5, <3>1, n \in Nat, k \in Int
    <3>5. \A i \in 1..n : c[i] = s[i]
      <4>1. ASSUME NEW i \in 1..n PROVE c[i] = s[i]
        <5>1. CASE i <= k
          BY <2>5, <3>3, <3>4, <5>1
        <5>2. CASE ~(i <= k)
          <6>1. i - k \in 1..n - k /\ k + (i - k) = i
            BY ONLY <1>5, <5>2, n \in Nat, i \in 1..n
          <6>2. rest[i - k] = s[i]
            BY <2>3, <6>1
          <6>3. QED
            BY <3>3, <3>4, <5>2, <6>2
        <5>3. QED
          BY <5>1, <5>2
      <4>2. QED
        BY <4>1
    <3>6. Len(c) = Len(s)
      BY <1>2, <3>3, <3>4
    <3>7. c = s
      BY <1>2, <3>3, <3>5, <3>6
    <3>8. QED
      BY <3>2, <3>7
  <2>7. ASSUME Complete(file) PROVE d = s
    <3>1. file.records = n
      BY <1>1, <1>2, <2>7 DEF Complete
    <3>2. k = n
      BY <1>3, <3>1
    <3>3. QED
      BY <1>2, <2>5, <3>2
  <2>8. QED
    BY <1>1, <1>4, <2>3, <2>4, <2>6, <2>7
<1>6. CASE k \notin 0..n
  <2>1. k < 0
    BY ONLY <1>3, <1>6, n \in Nat, k \in Int, file.records \in Int
  <2>2. SubSeq(s, 1, k) = << >>
    BY <2>1
  <2>3. << >> \o s = s
    OBVIOUS
  <2>4. ~Complete(file)
    BY <1>1, <1>2, <1>3, <2>1 DEF Complete
  <2>5. Delivered(file) = << >> /\ << >> \in Seq(Row)
    BY <1>4, <2>2
  <2>6. file.payload = Delivered(file) \o s
    BY <1>1, <2>3, <2>5
  <2>7. QED
    BY <1>1, <2>4, <2>5, <2>6
<1>7. QED
  BY <1>5, <1>6

\* The phases in which the datasets are read.
LEMMA LateOthers ==
    ASSUME pc' \in Late
    PROVE  /\ WhileEarly' /\ WhileStart' /\ WhileRead' /\ WhileMatch'
           /\ pc' \in Early \cup Late \cup {"failed", "crashed"}
BY DEF Early, Late, WhileEarly, WhileStart, WhileRead, WhileMatch

\* The tally is that of the copy.
LEMMA TallyMoved ==
    ASSUME job' = job, NEW x, Now' = x
    PROVE  \A n : Tallied(x, n) => Tallied(Now, n)'
<1>1. SUFFICES ASSUME NEW n, Tallied(x, n) PROVE Tallied(Now, n)'
  OBVIOUS
<1>2. QED
  BY <1>1 DEF Tallied

\* The comparison goes on.
LEMMA StillLate ==
    ASSUME Inv, pc \in Late, pc \notin {"return", "done"}, pc' \in Late, pc' \notin {"return", "done"},
           job' = job, writers' = writers, files' = files, part' = part, target' = target,
           damaged' = damaged, InMemory => entries' = entries, sink'.open = sink.open,
           temp'.used + EventUnits(sink.events) = temp.used + EventUnits(sink'.events),
           sink'.events \in Seq(Event), temp'.used \in Nat
    PROVE  WhileLate'
<1>1. /\ writers = << >> /\ \A s \in Side : ReadSide(s)
      /\ job["before"].schema = job["after"].schema
      /\ temp.used = SideNeed("before") + SideNeed("after") + EventUnits(sink.events)
      /\ target = Old /\ (sink.open <=> job.output # "none")
  BY DEF Inv, Phases, WhileLate
<1>2. \A s \in Side : ReadSide(s)' = ReadSide(s)
  <2>1. SUFFICES ASSUME NEW s \in Side PROVE ReadSide(s)' = ReadSide(s)
    OBVIOUS
  <2>2. OnFiles(s)' = OnFiles(s) /\ (entries'[s] = entries[s] => ReadSide(s)' = ReadSide(s))
    BY SameFiles
  <2>3. InMemory' = InMemory
    BY SameJob
  <2>4. CASE InMemory
    BY <2>2, <2>4
  <2>5. CASE ~InMemory
    BY <2>2, <2>3, <2>5 DEF ReadSide
  <2>6. QED
    BY <2>4, <2>5
<1>3. temp'.used = SideNeed("before") + SideNeed("after") + EventUnits(sink'.events)
  <2>1. PICK m \in Nat : m = SideNeed("before")
    BY RowsType, TypesFacts, Sides DEF Inv
  <2>2. PICK n \in Nat : n = SideNeed("after")
    BY RowsType, TypesFacts, Sides DEF Inv
  <2>3. PICK u \in Nat : u = EventUnits(sink.events)
    BY SoundFacts, EventUnitsType DEF Inv
  <2>4. PICK v \in Nat : v = EventUnits(sink'.events)
    BY EventUnitsType
  <2>5. temp.used = m + n + u
    BY <1>1, <2>1, <2>2, <2>3
  <2>6. temp'.used + u = temp.used + v
    BY <2>3, <2>4
  <2>7. temp'.used = m + n + v
    BY ONLY <2>5, <2>6, m \in Nat, n \in Nat, u \in Nat, v \in Nat, temp'.used \in Nat
  <2>8. QED
    BY <2>1, <2>2, <2>4, <2>7
<1>4. SideNeed("before")' = SideNeed("before") /\ SideNeed("after")' = SideNeed("after")
  BY SameJob, Sides
<1>5. EventUnits(sink.events)' = EventUnits(sink'.events)
  BY DEF EventUnits, EventBytes
<1>6. QED
  BY <1>1, <1>2, <1>3, <1>4 DEF WhileLate

\* What a file tells of its side.
LEMMA FileFacts ==
    ASSUME Types, ~InMemory, NEW s \in Side, ReadSide(s), NEW p \in Parts,
           NEW file, file = files[s][p], job["before"].schema = job["after"].schema
    PROVE  /\ file.payload \in Seq(Row) /\ file.records \in Int
           /\ Intact(file) =>
                /\ Range(file.payload) = {row \in RowsOf(s) : PartitionOf[row.key] = p}
                /\ Unique(s) => UniqueKeys(file.payload)
           /\ ~damaged => Intact(file) /\ Complete(file)
<1>1. PICK R : /\ Splits(R, AllRows(s))
               /\ \A q \in Parts : FileOf(files[s][q], R[q], job[s].schema)
  BY DEF ReadSide, OnFiles
<1>2. FileOf(file, R[p], job[s].schema)
  BY <1>1
<1>3. R \in [Parts -> Seq(Row)]
  BY <1>1 DEF Splits
<1>4. file.payload \in Seq(Row) /\ file.records \in Int
  BY <1>2 DEF FileOf
<1>5. ASSUME Intact(file)
      PROVE  /\ Range(file.payload) = {row \in RowsOf(s) : PartitionOf[row.key] = p}
             /\ Unique(s) => UniqueKeys(file.payload)
  <2>1. file.payload = R[p]
    BY <1>2, <1>5 DEF FileOf
  <2>2. QED
    BY <1>1, <2>1 DEF Splits, RowsOf, Unique
<1>6. ASSUME ~damaged PROVE Intact(file) /\ Complete(file)
  <2>1. PICK rows : rows = R[p]
    OBVIOUS
  <2>2. file = Filed(rows, job[s].schema)
    BY <1>2, <1>6, <2>1 DEF FileOf
  <2>3. job[s].schema = job["before"].schema
    BY Sides
  <2>4. QED
    BY <2>2, <2>3 DEF Filed, Intact, Complete
<1>7. QED
  BY <1>4, <1>5, <1>6

\* The next one of some rows.
LEMMA NextOf ==
    ASSUME NEW t, t \in Seq(Row), NEW i, i \in Seq(Row), i # << >>,
           NEW u, u \in Seq(Row), u = t \o i
    PROVE  /\ Head(i) \in Row /\ Tail(i) \in Seq(Row) /\ Append(t, Head(i)) \in Seq(Row)
           /\ u = Append(t, Head(i)) \o Tail(i)
           /\ UniqueKeys(u) => UniqueKeys(Append(t, Head(i)))
<1>1. /\ Head(i) \in Row /\ Tail(i) \in Seq(Row) /\ Append(t, Head(i)) \in Seq(Row)
      /\ t \o i = Append(t, Head(i)) \o Tail(i)
  BY TakeOne
<1>2. PICK a \in Seq(Row) : a = Append(t, Head(i))
  BY <1>1
<1>3. PICK b \in Seq(Row) : b = Tail(i)
  BY <1>1
<1>4. u = a \o b
  BY ONLY <1>1, <1>2, <1>3, u = t \o i, Zenon
<1>5. ASSUME UniqueKeys(u) PROVE UniqueKeys(Append(t, Head(i)))
  <2>1. UniqueKeys(a \o b)
    BY <1>4, <1>5
  <2>2. UniqueKeys(a)
    BY <2>1, UniquePrefix
  <2>3. QED
    BY <1>2, <2>2
<1>6. u = Append(t, Head(i)) \o Tail(i)
  BY <1>2, <1>3, <1>4
<1>7. QED
  BY <1>1, <1>5, <1>6

\* A row more is held and accounted for.
LEMMA HeldMore ==
    ASSUME Types, Sound(Now), Held, NEW s \in Side, NEW row \in Row, job' = job, seen' = seen,
           entries' = [entries EXCEPT ![s] = Append(@, row)],
           NEW y, y = UseMemory(Now, s, row.size), y.err = "none", ledger' = y.ledger
    PROVE  Held'
<1>1. PICK size \in Nat : size = row.size
  BY RowType
<1>2. Setting /\ Now.ledger = ledger
  BY TypesFacts, NowType
<1>3. PICK z : z = y
  OBVIOUS
<1>4. /\ y.ledger[s].used = ledger[s].used + size
      /\ \A t \in Side : t # s => y.ledger[t] = ledger[t]
  <2>1. y = UseMemory(Now, s, size)
    BY <1>1
  <2>2. y.err = "none" => /\ Now.err = "none"
                          /\ y.ledger[s].used = Now.ledger[s].used + size
                          /\ \A t \in Side : t # s => y.ledger[t] = Now.ledger[t]
    BY <1>2, <2>1, MemoryUsed
  <2>3. QED
    BY <1>2, <2>2
<1>5. entries \in [Side -> Seq(Row)]
  BY DEF Types
<1>6. PICK e \in Seq(Row) : e = entries[s]
  BY <1>5
<1>7. entries'[s] = Append(e, row) /\ \A t \in Side : t # s => entries'[t] = entries[t]
  BY <1>5, <1>6
<1>8. Bytes(entries'[s]) = Bytes(entries[s]) + size
  <2>1. Bytes(Append(e, row)) = Bytes(e) + row.size
    BY BytesAppend
  <2>2. QED
    BY <1>1, <1>6, <1>7, <2>1
<1>9. PICK c \in Nat : c = IF InMemory THEN 0 ELSE Cardinality(seen)
  BY TypesFacts
<1>10. /\ Bytes(entries["before"]) \in Nat /\ Bytes(entries["after"]) \in Nat
       /\ ledger["before"].used \in Nat /\ ledger["after"].used \in Nat
  BY TypesFacts, SoundFacts, Sides
<1>11. /\ Bytes(entries["before"]) + c <= ledger["before"].used
       /\ Bytes(entries["after"]) <= ledger["after"].used
  BY <1>9 DEF Held
<1>12. CASE s = "before"
  <2>1. /\ Bytes(entries'["before"]) = Bytes(entries["before"]) + size
        /\ ledger'["before"].used = ledger["before"].used + size
        /\ entries'["after"] = entries["after"] /\ ledger'["after"] = ledger["after"]
    BY <1>4, <1>7, <1>8, <1>12, Sides
  <2>2. Bytes(entries'["before"]) + c <= ledger'["before"].used
    BY ONLY <1>10, <1>11, <2>1, c \in Nat, size \in Nat
  <2>3. InMemory' = InMemory
    BY SameJob
  <2>4. QED
    BY <1>9, <1>11, <2>1, <2>2, <2>3 DEF Held
<1>13. CASE s = "after"
  <2>1. /\ Bytes(entries'["after"]) = Bytes(entries["after"]) + size
        /\ ledger'["after"].used = ledger["after"].used + size
        /\ entries'["before"] = entries["before"] /\ ledger'["before"] = ledger["before"]
    BY <1>4, <1>7, <1>8, <1>13, Sides
  <2>2. Bytes(entries'["after"]) <= ledger'["after"].used
    BY ONLY <1>10, <1>11, <2>1, size \in Nat
  <2>3. InMemory' = InMemory
    BY SameJob
  <2>4. QED
    BY <1>9, <1>11, <2>1, <2>2, <2>3 DEF Held
<1>14. QED
  BY <1>12, <1>13, Sides

\* HoldRow: the row is held, unless its key was there before.
LEMMA HoldRowKeeps ==
    ASSUME Inv, HoldRow
    PROVE  Inv'
<1>1. /\ pc \in {"read", "load"} /\ pc \in Early \cup Late /\ pc \notin {"return", "done"}
      /\ pc = "read" => InMemory
      /\ input # << >>
  BY DEF HoldRow, Early, Late
<1>2. err = "none" /\ target = Old
  BY <1>1, Underway
<1>3. /\ Types /\ Sound(Now) /\ Held /\ Phases /\ Setting /\ job \in Jobs /\ side \in Side
      /\ batch \in Nat \ {0} /\ input \in Seq(Row) /\ entries \in [Side -> Seq(Row)]
      /\ part \in Parts
  BY TypesFacts DEF Inv, Types
<1>4. PICK row : row = Head(input)
  OBVIOUS
<1>5. row \in Row /\ Tail(input) \in Seq(Row)
  BY <1>1, <1>3, <1>4, TakeOne
<1>6. PICK size \in Nat : size = row.size
  BY <1>5, RowType
<1>7. PICK x : x = UseMemory(Now, side, row.size)
  OBVIOUS
<1>8. /\ Sound(x) /\ x.acc = acc /\ x.sink = sink /\ x.temp = temp
      /\ x.err \in {"none", "memory"}
  <2>1. x = UseMemory(Now, side, size)
    BY <1>6, <1>7
  <2>2. /\ Sound(x) /\ x.acc = Now.acc /\ x.sink = Now.sink /\ x.temp = Now.temp
        /\ x.err \in {Now.err, "memory"}
    BY <1>3, <2>1, MemoryUsed
  <2>3. QED
    BY <2>2, NowType
<1>9. PICK held0 \in Seq(Row) : held0 = entries[side]
  BY <1>3
\* The rows that are read, or those of the file.
<1>10. /\ Append(held0, row) \in Seq(Row)
       /\ UniqueKeys(held0)
       /\ Unique(side) => UniqueKeys(Append(held0, row))
       /\ held0 \o input = Append(held0, row) \o Tail(input)
  <2>1. CASE pc = "read"
    <3>1. PICK n \in Nat : Len(job[side].batches) = n
      BY <1>3, BatchesType
    <3>2. batch <= Len(job[side].batches) + 1
      BY <1>3, <2>1 DEF Phases, WhileRead
    <3>3. PICK k \in 0..n : k = batch - 1
      <4>1. batch - 1 \in 0..n
        BY ONLY <1>3, <3>1, <3>2, n \in Nat
      <4>2. QED
        BY <4>1
    <3>4. PICK t \in Seq(Row) :
            /\ ReadSoFar(side, batch - 1) = t \o input
            /\ IF InMemory THEN writers = << >> /\ entries[side] = t /\ UniqueKeys(t)
               ELSE writers # << >> /\ Splits([q \in Parts |-> writers[q].payload], t)
      BY <1>3, <2>1 DEF Phases, WhileRead
    <3>5. t = held0 /\ UniqueKeys(t)
      BY <1>1, <1>9, <2>1, <3>4
    <3>6. PICK i \in Seq(Row) : i = input
      BY <1>3
    <3>7. i # << >> /\ ReadSoFar(side, k) = t \o i
      BY <1>1, <3>3, <3>4, <3>6
    <3>8. job \in Jobs /\ side \in Side
      BY <1>3
    <3>9. /\ Head(i) \in Row /\ Tail(i) \in Seq(Row) /\ Append(t, Head(i)) \in Seq(Row)
          /\ t \o i = Append(t, Head(i)) \o Tail(i)
          /\ Bytes(t) \in Nat /\ Head(i).size \in Nat /\ Bytes(AllRows(side)) \in Nat
          /\ Bytes(t) + Head(i).size <= Bytes(AllRows(side))
          /\ Unique(side) => UniqueKeys(Append(t, Head(i)))
      BY <3>1, <3>7, <3>8, NextRow
    <3>10. QED
      BY <1>4, <3>5, <3>6, <3>9
  <2>2. CASE pc = "load"
    <3>1. /\ side = "before" /\ Intact(files["before"][part]) /\ ~InMemory
          /\ entries["before"] \o input = Delivered(files["before"][part])
          /\ UniqueKeys(entries["before"])
          /\ ReadSide("before") /\ job["before"].schema = job["after"].schema
      BY <1>3, <2>2, Sides DEF Phases, WhileLoad, WhileOpen, WhileLate, Late
    <3>2. PICK file : file = files["before"][part]
      OBVIOUS
    <3>3. /\ file.payload \in Seq(Row) /\ file.records \in Int
          /\ Unique("before") => UniqueKeys(file.payload)
      BY <1>3, <3>1, <3>2, FileFacts, Sides
    <3>4. PICK u \in Seq(Row) : u = Delivered(file)
      BY <3>3, DeliveredIs
    <3>5. PICK rest \in Seq(Row) : file.payload = u \o rest
      BY <3>3, <3>4, DeliveredIs
    <3>6. UniqueKeys(file.payload) => UniqueKeys(u)
      BY <3>5, UniquePrefix
    <3>7. PICK i \in Seq(Row) : i = input
      BY <1>3
    <3>8. i # << >> /\ u = held0 \o i
      BY <1>1, <1>9, <3>1, <3>2, <3>4, <3>7
    <3>9. /\ Append(held0, Head(i)) \in Seq(Row)
          /\ u = Append(held0, Head(i)) \o Tail(i)
          /\ UniqueKeys(u) => UniqueKeys(Append(held0, Head(i)))
      BY <1>9, <3>4, <3>7, <3>8, NextOf
    <3>10. QED
      BY <1>4, <1>9, <3>1, <3>3, <3>6, <3>7, <3>8, <3>9
  <2>3. QED
    BY <1>1, <2>1, <2>2
<1>11. PICK more \in Seq(Row) : more = Append(held0, row)
  BY <1>10
<1>12. UniqueKeys(more) <=> row.key \notin Keys(Range(held0))
  BY <1>5, <1>9, <1>10, <1>11, UniqueAppend
<1>13. \/ x.err = "none" /\ row.key \in Keys(Range(entries[side])) /\ Fail("duplicate")
       \/ x.err # "none" /\ Fail(x.err)
       \/ /\ x.err = "none" /\ row.key \notin Keys(Range(entries[side]))
          /\ Apply(x, /\ entries' = [entries EXCEPT ![side] = Append(@, row)]
                      /\ input' = Tail(input)
                      /\ UNCHANGED <<pc, side, batch, store, seen>>)
  BY <1>4, <1>7 DEF HoldRow, Apply
<1>14. CASE row.key \in Keys(Range(entries[side])) /\ Fail("duplicate")
  <2>1. ~UniqueKeys(more)
    BY <1>9, <1>12, <1>14
  <2>2. ~Unique(side)
    BY <1>10, <1>11, <2>1
  <2>3. Caused("duplicate")
    BY <1>3, <2>2 DEF Caused
  <2>4. QED
    BY <1>2, <1>14, <2>3, FailKeeps
<1>15. CASE x.err # "none" /\ Fail(x.err)
  <2>1. x.err = "memory"
    BY <1>8, <1>15
  <2>2. Caused(x.err)
    BY <2>1 DEF Caused
  <2>3. QED
    BY <1>2, <1>15, <2>2, FailKeeps
<1>16. CASE /\ x.err = "none" /\ row.key \notin Keys(Range(entries[side]))
            /\ Apply(x, /\ entries' = [entries EXCEPT ![side] = Append(@, row)]
                        /\ input' = Tail(input)
                        /\ UNCHANGED <<pc, side, batch, store, seen>>)
  <2>1. /\ pc' = pc /\ err' = err /\ sink' = x.sink /\ job' = job /\ side' = side
        /\ batch' = batch /\ input' = Tail(input) /\ files' = files /\ writers' = writers
        /\ entries' = [entries EXCEPT ![side] = Append(@, row)]
        /\ part' = part /\ seen' = seen /\ ledger' = x.ledger
        /\ acc' = x.acc /\ temp' = x.temp /\ target' = target /\ damaged' = damaged
    BY <1>16 DEF Apply, store
  <2>2. pc' \in Early \cup Late
    BY <1>1, <2>1
  <2>3. entries' \in [Side -> Seq(Row)] /\ entries'[side] = more
        /\ \A s \in Side : s # side => entries'[s] = entries[s]
    BY <1>3, <1>9, <1>11, <2>1
  <2>4. Types'
    BY <1>3, <1>5, <2>1, <2>2, <2>3 DEF Types, Setting
  <2>5. Sound(Now)'
    <3>1. x \in Copy
      BY <1>8 DEF Sound
    <3>2. Now' = x
      BY <1>16, <2>1, <3>1, TakenOver
    <3>3. QED
      BY <1>8, <2>1, <3>2, SoundKept
  <2>6. Held'
    BY <1>3, <1>5, <1>7, <1>16, <2>1, HeldMore
  <2>7. UniqueKeys(more)
    BY <1>9, <1>12, <1>16
  <2>8. InMemory' = InMemory
    BY <2>1, SameJob
  <2>9. held0 \o input = more \o input'
    BY <1>10, <1>11, <2>1
  <2>10. Phases'
    <3>1. CASE pc = "read"
      <4>1. pc \in Early /\ pc' \in Early /\ pc' = "read" /\ InMemory
        BY <1>1, <2>1, <3>1 DEF Early
      <4>2. /\ side = "after" => ReadSide("before")
            /\ side = "before" => entries["after"] = << >>
            /\ files[side] = NoFiles /\ files["after"] = NoFiles
            /\ batch <= Len(job[side].batches) + 1
        BY <1>3, <3>1, <4>1 DEF Phases, WhileEarly, WhileRead
      <4>3. side = "after" => ReadSide("before")'
        <5>1. ASSUME side = "after" PROVE entries'["before"] = entries["before"]
          BY <2>3, <5>1, Sides
        <5>2. QED
          BY <2>1, <4>2, <5>1, SameSide, Sides
      <4>4. WhileEarly'
        BY <1>8, <2>1, <4>1, <4>3, StillEarly
      <4>5. PICK t \in Seq(Row) :
              /\ ReadSoFar(side, batch - 1) = t \o input
              /\ IF InMemory THEN writers = << >> /\ entries[side] = t /\ UniqueKeys(t)
                 ELSE writers # << >> /\ Splits([q \in Parts |-> writers[q].payload], t)
              /\ temp.used = (IF side = "after" THEN SideNeed("before") ELSE 0)
                             + (IF InMemory THEN 0 ELSE HeaderBytes + Bytes(t))
        BY <1>3, <3>1 DEF Phases, WhileRead
      <4>6. t = held0 /\ writers = << >>
        BY <1>9, <4>1, <4>5
      <4>7. (ReadSoFar(side, batch - 1))' = more \o input'
        <5>1. PICK k : k = batch - 1
          OBVIOUS
        <5>2. ReadSoFar(side, k)' = ReadSoFar(side, k)
          BY <1>3, <2>1, SameJob
        <5>3. (ReadSoFar(side, batch - 1))' = ReadSoFar(side, k)
          BY <2>1, <5>1, <5>2
        <5>4. QED
          BY <2>9, <4>5, <4>6, <5>1, <5>3
      <4>8. SideNeed("before")' = SideNeed("before")
        BY <2>1, SameJob, Sides
      <4>9. WhileRead'
        <5>1. temp'.used = (IF side' = "after" THEN SideNeed("before")' ELSE 0) + 0
          BY <1>8, <2>1, <4>1, <4>5, <4>8
        <5>2. side' = "before" => entries'["after"] = << >>
          BY <2>1, <2>3, <4>2, Sides
        <5>3. QED
          BY <2>1, <2>3, <2>7, <2>8, <4>1, <4>2, <4>6, <4>7, <5>1, <5>2, <1>11 DEF WhileRead, NoFiles
      <4>10. WhileStart' /\ WhileMatch'
        BY <4>1 DEF WhileStart, WhileMatch
      <4>11. QED
        BY <4>1, <4>4, <4>9, <4>10, EarlyOthers DEF Phases
    <3>2. CASE pc = "load"
      <4>1. pc \in Late /\ pc' \in Late /\ pc' = "load"
        BY <2>1, <3>2 DEF Late
      <4>2. /\ side = "before" /\ Intact(files["before"][part]) /\ ~InMemory
            /\ entries["before"] \o input = Delivered(files["before"][part])
            /\ seen = {} /\ entries["after"] = << >>
            /\ Tallied(Now, NotedSoFar(Past("after"), Past("before")))
        BY <1>3, <3>2 DEF Phases, WhileLoad, WhileOpen
      <4>3. WhileLate'
        <5>1. sink.events \in Seq(Event) /\ temp.used \in Nat
          BY <1>3, SoundFacts
        <5>2. QED
          BY <1>1, <1>8, <2>1, <4>1, <4>2, <5>1, StillLate
      <4>4. WhileOpen'
        <5>1. NotedSoFar(Past("after"), Past("before"))' = NotedSoFar(Past("after"), Past("before"))
          <6>1. /\ Past("before")' = Past("before") /\ Past("after")' = Past("after")
                /\ RowsOf("before")' = RowsOf("before") /\ RowsOf("after")' = RowsOf("after")
            BY <2>1, SamePart, SameJob, Sides
          <6>2. QED
            BY <6>1 DEF NotedSoFar
        <5>2. PICK noted : noted = NotedSoFar(Past("after"), Past("before"))
          OBVIOUS
        <5>3. Tallied(Now, noted)'
          <6>1. Tallied(x, noted)
            BY <1>8, <4>2, <5>2, NowType DEF Tallied
          <6>2. Now' = x
            <7>1. x \in Copy
              BY <1>8 DEF Sound
            <7>2. QED
              BY <1>16, <2>1, <7>1, TakenOver
          <6>3. QED
            BY <2>1, <6>1, <6>2, TallyMoved
        <5>4. Tallied(Now, NotedSoFar(Past("after"), Past("before")))'
          BY <5>1, <5>2, <5>3
        <5>5. entries'["after"] = << >>
          BY <2>3, <4>2, Sides
        <5>6. QED
          BY <2>1, <2>8, <4>2, <5>4, <5>5 DEF WhileOpen
      <4>5. WhileLoad'
        <5>1. entries'["before"] \o input' = Delivered(files["before"][part])
          BY <1>9, <2>3, <2>9, <4>2
        <5>2. Delivered(files["before"][part])' = Delivered(files["before"][part])
          BY <2>1 DEF Delivered
        <5>3. Intact(files["before"][part])'
          BY <2>1, <4>2 DEF Intact
        <5>4. QED
          BY <2>1, <2>3, <2>7, <4>1, <4>2, <5>1, <5>2, <5>3 DEF WhileLoad
      <4>6. WhileWalk' /\ WhileRest' /\ AtEnd'
        BY <4>1 DEF WhileWalk, WhileRest, AtEnd
      <4>7. QED
        BY <4>1, <4>3, <4>4, <4>5, <4>6, LateOthers DEF Phases
    <3>3. QED
      BY <1>1, <3>1, <3>2
  <2>11. QED
    BY <1>2, <2>1, <2>2, <2>4, <2>5, <2>6, <2>10, GoesOn
<1>17. QED
  BY <1>13, <1>14, <1>15, <1>16

\* Nothing is past at first.
LEMMA PastNothing ==
    ASSUME job \in Jobs, InMemory \/ part = 1
    PROVE  /\ Past("before") = {} /\ Past("after") = {} /\ NotedSoFar({}, {}) = {}
           /\ InMemory => Here("before") = RowsOf("before") /\ Here("after") = RowsOf("after")
<1>1. ASSUME NEW s \in Side PROVE Past(s) = {}
  <2>1. RowsOf(s) \subseteq Row
    BY RowsType
  <2>2. \A row \in RowsOf(s) : PartitionOf[row.key] \in Parts
    BY <2>1, RowType, Sizes
  <2>3. QED
    BY <2>2 DEF Past, Parts
<1>2. NotedSoFar({}, {}) = {}
  BY NotedBounds DEF NotedSoFar
<1>3. InMemory => Here("before") = RowsOf("before") /\ Here("after") = RowsOf("after")
  BY DEF Here
<1>4. QED
  BY <1>1, <1>2, <1>3, Sides

\* No events take no bytes.
LEMMA NoUnits == EventUnits(<< >>) = 0 /\ << >> \in Seq(Event)
<1>1. [i \in DOMAIN << >> |-> EventBytes(<< >>[i])] = << >>
  OBVIOUS
<1>2. EventUnits(<< >>) = 0
  BY <1>1, TotalEmpty DEF EventUnits
<1>3. QED
  BY <1>2

\* The output is opened, if there is memory for it.
LEMMA SinkOpened ==
    ASSUME Setting, Sound(Now), sink.events = << >>, SinkBytes <= Free(Now),
           job' = job, writers' = writers, ledger' = ledger, acc' = acc, temp' = temp,
           sink' = [sink EXCEPT !.open = TRUE, !.capacity = EventRoom, !.charged = SinkBytes]
    PROVE  Sound(Now)' /\ sink'.open /\ sink'.events = << >>
<1>1. /\ Now \in Copy /\ Now.sink = sink /\ Now.ledger = ledger /\ Now.acc = acc /\ Now.temp = temp
  BY NowType DEF Sound
<1>2. sink \in Output
  BY <1>1 DEF Copy
<1>3. /\ sink' \in Output /\ sink'.open /\ sink'.events = sink.events
      /\ sink'.charged = SinkBytes /\ sink'.capacity = EventRoom
  <2>1. EventRoom \in Nat /\ SinkBytes \in Nat
    BY Sizes
  <2>2. QED
    BY <1>2, <2>1 DEF Output
<1>4. Now' \in Copy
  BY <1>1, <1>3 DEF Now, Copy
<1>5. PICK y \in Copy : y = Now'
  BY <1>4
<1>6. /\ y.ledger = ledger /\ y.acc = acc /\ y.sink = sink' /\ y.temp = temp /\ y.err = "none"
  BY <1>5 DEF Now
<1>7. Free(y) >= 0
  <2>1. PICK r \in Int : \A z \in Copy : /\ Shots(z) \in Nat /\ LedgersOf(z) \in Nat
                                         /\ z.sink.charged \in Nat
                                         /\ Free(z) = r - LedgersOf(z) - Shots(z) - z.sink.charged
    BY FreeTerms
  <2>2. PICK m \in Nat : m = Shots(Now)
    BY <1>1, <2>1
  <2>3. PICK n \in Nat : n = LedgersOf(Now)
    BY <1>1, <2>1
  <2>4. PICK c \in Nat : c = sink.charged
    BY <1>1, <2>1
  <2>5. Shots(y) = m /\ LedgersOf(y) = n
    BY <1>1, <1>6, <2>2, <2>3 DEF Shots, LedgersOf
  <2>6. Free(Now) = r - n - m - c
    BY <1>1, <2>1, <2>2, <2>3, <2>4
  <2>7. Free(y) = r - n - m - SinkBytes
    BY <1>3, <1>6, <2>1, <2>5
  <2>8. SinkBytes \in Nat
    BY Sizes
  <2>9. QED
    BY ONLY <2>6, <2>7, <2>8, SinkBytes <= Free(Now), r \in Int, m \in Nat, n \in Nat, c \in Nat
<1>8. Sound(y)
  <2>1. y.sink.capacity - EventRoom = y.sink.charged - SinkBytes
    <3>1. EventRoom \in Nat /\ SinkBytes \in Nat
      BY Sizes
    <3>2. QED
      BY <1>3, <1>6, <3>1
  <2>2. QED
    BY <1>1, <1>3, <1>6, <1>7, <2>1 DEF Sound
<1>9. Sound(Now)'
  BY <1>5, <1>8, SoundKept
<1>10. QED
  BY <1>3, <1>9

\* Match: the comparison begins.
LEMMA MatchKeeps ==
    ASSUME Inv, Match
    PROVE  Inv'
<1>1. pc = "match" /\ pc \in Early /\ pc \in Early \cup Late /\ pc \notin {"return", "done"}
  BY DEF Match, Early
<1>2. err = "none" /\ target = Old
  BY <1>1, Underway
<1>3. /\ Types /\ Sound(Now) /\ Held /\ Phases /\ Setting /\ job \in Jobs
      /\ entries \in [Side -> Seq(Row)]
  BY TypesFacts DEF Inv, Types
<1>4. /\ Tallied(Now, {}) /\ sink.events = << >> /\ ~sink.open /\ seen = {} /\ part = 1
      /\ ReadSide("before") /\ ReadSide("after")
      /\ ~InMemory => \A s \in Side : entries[s] = << >>
      /\ writers = << >> /\ temp.used = SideNeed("before") + SideNeed("after")
  BY <1>1, <1>3 DEF Phases, WhileEarly, WhileMatch
<1>5. CASE job["before"].schema # job["after"].schema /\ Fail("mismatch")
  <2>1. Caused("mismatch")
    BY <1>5 DEF Caused
  <2>2. QED
    BY <1>2, <1>5, <2>1, FailKeeps
<1>6. CASE Fail("memory")
  BY <1>2, <1>6, FailKeeps DEF Caused
<1>7. CASE /\ job["before"].schema = job["after"].schema
           /\ ~(job.output # "none" /\ SinkBytes > Free(Now))
           /\ sink' = IF job.output = "none" THEN sink
                      ELSE [sink EXCEPT !.open = TRUE, !.capacity = EventRoom, !.charged = SinkBytes]
           /\ pc' = IF InMemory THEN "walk" ELSE "open"
           /\ input' = IF InMemory THEN ByKey(entries["after"]) ELSE << >>
           /\ seen' = Keys(Range(entries["after"]))
           /\ UNCHANGED <<job, side, batch, store, entries, ledger, acc, temp, target, damaged,
                          cancelled, err>>
  <2>1. /\ err' = err /\ job' = job /\ side' = side /\ batch' = batch /\ files' = files
        /\ writers' = writers /\ entries' = entries /\ part' = part /\ ledger' = ledger
        /\ acc' = acc /\ temp' = temp /\ target' = target /\ damaged' = damaged
    BY <1>7 DEF store
  <2>2. pc' \in Late /\ pc' \in {"walk", "open"}
    BY <1>7 DEF Late
  <2>3. InMemory => /\ entries["after"] = AllRows("after") /\ Unique("after")
                    /\ entries["before"] = AllRows("before") /\ Unique("before")
    BY <1>4 DEF ReadSide
  <2>4. PICK rows \in Seq(Row) : rows = entries["after"]
    BY <1>3, Sides
  <2>5. UniqueKeys(rows) /\ (~InMemory => rows = << >>)
    <3>1. CASE InMemory
      BY <2>3, <2>4, <3>1 DEF Unique
    <3>2. CASE ~InMemory
      BY <1>4, <2>4, <3>2, Sides DEF UniqueKeys
    <3>3. QED
      BY <3>1, <3>2
  <2>6. input' \in Seq(Row)
    <3>1. ByKey(rows) \in Seq(Row)
      BY <2>5, ByKeyOrders
    <3>2. QED
      BY <1>7, <2>4, <3>1
  <2>7. IsFiniteSet(seen') /\ seen' \subseteq DOMAIN Display
    <3>1. PICK n \in Nat : Len(rows) = n /\ DOMAIN rows = 1..n
      OBVIOUS
    <3>2. IsFiniteSet(Keys(Range(rows)))
      BY <2>5, <3>1, KeysOfRows
    <3>3. Range(rows) \subseteq Row
      BY RangeType
    <3>4. Keys(Range(rows)) \subseteq DOMAIN Display
      BY <3>3, RowType DEF Keys
    <3>5. QED
      BY <1>7, <2>4, <3>2, <3>4
  <2>8. Types'
    BY <1>3, <2>1, <2>2, <2>6, <2>7, LateOthers DEF Types, Setting
  <2>9. Sound(Now)' /\ (sink'.open <=> job.output # "none") /\ sink'.events = << >>
    <3>1. CASE job.output = "none"
      <4>1. Now' = Now
        BY <1>7, <2>1, <3>1 DEF Now
      <4>2. QED
        BY <1>3, <1>4, <1>7, <2>1, <3>1, <4>1, SoundKept
    <3>2. CASE job.output # "none"
      <4>1. SinkBytes <= Free(Now)
        <5>1. SinkBytes \in Nat /\ Free(Now) \in Int
          BY <1>3, Sizes, SoundFacts
        <5>2. ~(SinkBytes > Free(Now))
          BY <1>7, <3>2
        <5>3. QED
          BY ONLY <5>1, <5>2
      <4>2. Sound(Now)' /\ sink'.open /\ sink'.events = << >>
        BY <1>3, <1>4, <1>7, <2>1, <3>2, <4>1, SinkOpened
      <4>3. QED
        BY <3>2, <4>2
    <3>3. QED
      BY <3>1, <3>2
  <2>10. InMemory' = InMemory
    BY <2>1, SameJob
  <2>11. ~InMemory => seen' = {}
    BY <1>7, <2>4, <2>5 DEF Keys, Range
  <2>12. Held'
    <3>1. Held
      BY <1>3
    <3>2. (IF InMemory' THEN 0 ELSE Cardinality(seen')) = IF InMemory THEN 0 ELSE Cardinality(seen)
      BY <1>4, <2>10, <2>11
    <3>3. QED
      BY <2>1, <3>1, <3>2 DEF Held
  <2>13. /\ Past("before") = {} /\ Past("after") = {} /\ NotedSoFar({}, {}) = {}
         /\ InMemory => Here("before") = RowsOf("before") /\ Here("after") = RowsOf("after")
    BY <1>3, <1>4, PastNothing
  <2>14. /\ Past("before")' = {} /\ Past("after")' = {}
         /\ RowsOf("before")' = RowsOf("before") /\ RowsOf("after")' = RowsOf("after")
         /\ Here("before")' = Here("before")
    BY <2>1, <2>13, SamePart, SameJob, Sides
  <2>15. Tallied(Now, {})'
    <3>1. Now'.acc = Now.acc /\ Now'.sink.events = Now.sink.events
      BY <1>4, <2>1, <2>9 DEF Now
    <3>2. QED
      BY <1>4, <2>1, <3>1 DEF Tallied
  <2>16. WhileLate'
    <3>1. \A s \in Side : ReadSide(s)' = ReadSide(s)
      BY <2>1, SameFiles
    <3>2. SideNeed("before")' = SideNeed("before") /\ SideNeed("after")' = SideNeed("after")
      BY <2>1, SameJob, Sides
    <3>3. EventUnits(sink.events)' = 0
      <4>1. EventUnits(<< >>) = 0
        BY NoUnits
      <4>2. EventUnits(sink.events)' = EventUnits(<< >>)
        BY <2>9 DEF EventUnits, EventBytes
      <4>3. QED
        BY <4>1, <4>2
    <3>4. temp'.used = SideNeed("before") + SideNeed("after") + 0
      <4>1. SideNeed("before") \in Nat /\ SideNeed("after") \in Nat
        BY <1>3, RowsType, Sides
      <4>2. QED
        BY <1>4, <2>1, <4>1
    <3>5. \A s \in Side : ReadSide(s)'
      BY <1>4, <3>1, Sides
    <3>6. QED
      BY <1>2, <1>4, <1>7, <2>1, <2>9, <3>2, <3>3, <3>4, <3>5 DEF WhileLate
  <2>17. CASE InMemory
    <3>1. pc' = "walk" /\ input' = ByKey(entries["after"])
      BY <1>7, <2>17
    <3>2. NotedSoFar(Past("after") \cup Range(<< >>), Past("before"))' = {}
      <4>1. Range(<< >>) = {}
        BY DEF Range
      <4>2. QED
        BY <2>13, <2>14, <4>1 DEF NotedSoFar
    <3>3. Loaded'
      <4>1. /\ UniqueKeys(entries["before"]) /\ Range(entries["before"]) = Here("before")
        BY <2>3, <2>13, <2>17 DEF Unique, RowsOf
      <4>2. QED
        BY <2>1, <2>10, <2>14, <2>17, <4>1 DEF Loaded
    <3>4. << >> \o input' = Source'
      <4>1. Source' = ByKey(entries["after"])
        BY <2>1, <2>10, <2>17 DEF Source
      <4>2. << >> \o input' = input'
        BY <2>6
      <4>3. QED
        BY <3>1, <4>1, <4>2
    <3>5. seen' = Keys(RowsOf("after"))
      BY <1>7, <2>3, <2>17 DEF RowsOf
    <3>6. Tallied(Now, NotedSoFar(Past("after") \cup Range(<< >>), Past("before")))'
      BY <2>15, <3>2
    <3>7. << >> \in Seq(Row) /\ UniqueKeys(<< >>)
      BY DEF UniqueKeys
    <3>8. WhileWalk'
      BY <2>10, <2>14, <2>17, <3>3, <3>4, <3>5, <3>6, <3>7 DEF WhileWalk
    <3>9. WhileOpen' /\ WhileLoad' /\ WhileRest' /\ AtEnd'
      BY <3>1 DEF WhileOpen, WhileLoad, WhileRest, AtEnd
    <3>10. QED
      BY <1>2, <2>1, <2>2, <2>8, <2>9, <2>12, <2>16, <3>8, <3>9, LateOthers, GoesOn DEF Phases
  <2>18. CASE ~InMemory
    <3>1. pc' = "open"
      BY <1>7, <2>18
    <3>2. NotedSoFar(Past("after"), Past("before"))' = {}
      BY <2>13, <2>14 DEF NotedSoFar
    <3>3. WhileOpen'
      <4>1. entries'["after"] = << >>
        BY <1>4, <2>1, <2>18, Sides
      <4>2. Tallied(Now, NotedSoFar(Past("after"), Past("before")))'
        BY <2>15, <3>2
      <4>3. QED
        BY <2>10, <2>11, <2>18, <4>1, <4>2 DEF WhileOpen
    <3>4. WhileLoad'
      BY <1>4, <2>1, <2>18, <3>1, Sides DEF WhileLoad
    <3>5. WhileWalk' /\ WhileRest' /\ AtEnd'
      BY <3>1 DEF WhileWalk, WhileRest, AtEnd
    <3>6. QED
      BY <1>2, <2>1, <2>2, <2>8, <2>9, <2>12, <2>16, <3>3, <3>4, <3>5, LateOthers, GoesOn DEF Phases
  <2>19. QED
    BY <2>17, <2>18
<1>8. QED
  BY <1>5, <1>6, <1>7 DEF Match

\* A step to other rows.
LEMMA MovesOn ==
    ASSUME Inv, pc \in Late, pc \notin {"return", "done"}, pc' \in Late, pc' \notin {"return", "done"},
           side' \in Side, input' \in Seq(Row),
           UNCHANGED <<job, batch, store, held, result, target, damaged, err>>
    PROVE  /\ Types' /\ Sound(Now)' /\ Held' /\ WhileLate'
           /\ WhileEarly' /\ WhileStart' /\ WhileRead' /\ WhileMatch'
           /\ \A n : Tallied(Now, n)' <=> Tallied(Now, n)
           /\ InMemory' = InMemory
           /\ Past("before")' = Past("before") /\ Past("after")' = Past("after")
           /\ Here("before")' = Here("before") /\ Here("after")' = Here("after")
           /\ RowsOf("before")' = RowsOf("before") /\ RowsOf("after")' = RowsOf("after")
           /\ \A file : Intact(file)' <=> Intact(file)
<1>1. /\ err' = err /\ sink' = sink /\ job' = job /\ batch' = batch
      /\ writers' = writers /\ files' = files /\ part' = part
      /\ entries' = entries /\ seen' = seen /\ ledger' = ledger /\ acc' = acc /\ temp' = temp
      /\ target' = target /\ damaged' = damaged
  BY DEF store, held, result
<1>2. Types /\ Sound(Now) /\ Held
  BY DEF Inv
<1>3. Now' = Now
  BY <1>1 DEF Now
<1>4. Types'
  BY <1>1, <1>2 DEF Types, Setting
<1>5. Sound(Now)'
  BY <1>1, <1>2, <1>3, SoundKept
<1>6. Held'
  BY <1>1, <1>2, SameHeld
<1>7. WhileLate'
  <2>1. sink.events \in Seq(Event) /\ temp.used \in Nat
    BY <1>2, SoundFacts
  <2>2. QED
    BY <1>1, <2>1, StillLate
<1>8. \A n : Tallied(Now, n)' <=> Tallied(Now, n)
  BY <1>1, <1>3, SameTally
<1>9. /\ InMemory' = InMemory
      /\ Past("before")' = Past("before") /\ Past("after")' = Past("after")
      /\ Here("before")' = Here("before") /\ Here("after")' = Here("after")
      /\ RowsOf("before")' = RowsOf("before") /\ RowsOf("after")' = RowsOf("after")
  BY <1>1, SameJob, SamePart, Sides
<1>10. \A file : Intact(file)' <=> Intact(file)
  BY <1>1 DEF Intact
<1>11. QED
  BY <1>4, <1>5, <1>6, <1>7, <1>8, <1>9, <1>10, LateOthers

\* OpenBefore: the rows of the file come next, or the file is damaged.
LEMMA OpenBeforeKeeps ==
    ASSUME Inv, OpenBefore
    PROVE  Inv'
<1>1. pc = "open" /\ pc \in Late /\ pc \in Early \cup Late /\ pc \notin {"return", "done"}
  BY DEF OpenBefore, Late
<1>2. err = "none" /\ target = Old
  BY <1>1, Underway
<1>3. Types /\ Phases /\ part \in Parts
  BY TypesFacts DEF Inv
<1>4. /\ ~InMemory /\ seen = {} /\ entries["after"] = << >>
      /\ Tallied(Now, NotedSoFar(Past("after"), Past("before")))
      /\ entries["before"] = << >>
      /\ ReadSide("before") /\ job["before"].schema = job["after"].schema
  BY <1>1, <1>3, Sides DEF Phases, WhileOpen, WhileLoad, WhileLate
<1>5. PICK file : file = files["before"][part]
  OBVIOUS
<1>6. /\ file.payload \in Seq(Row) /\ file.records \in Int
      /\ ~damaged => Intact(file) /\ Complete(file)
  BY <1>3, <1>4, <1>5, FileFacts, Sides
<1>7. CASE Fail("cancelled")
  BY <1>2, <1>7, FailKeeps DEF Caused
<1>8. CASE ~Intact(file) /\ Fail("corrupt")
  <2>1. Caused("corrupt")
    BY <1>6, <1>8 DEF Caused
  <2>2. QED
    BY <1>2, <1>8, <2>1, FailKeeps
<1>9. CASE /\ Intact(file)
           /\ pc' = "load" /\ side' = "before" /\ input' = Delivered(file)
           /\ UNCHANGED <<job, batch, store, held, result, target, damaged, cancelled, err>>
  <2>1. /\ job' = job /\ files' = files /\ part' = part /\ entries' = entries /\ seen' = seen
        /\ UNCHANGED <<job, batch, store, held, result, target, damaged, err>>
        /\ pc' \in Late /\ pc' \notin {"return", "done"}
    BY <1>9 DEF store, held, Late
  <2>2. Delivered(file) \in Seq(Row)
    BY <1>6, DeliveredIs
  <2>3. /\ Types' /\ Sound(Now)' /\ Held' /\ WhileLate'
        /\ WhileEarly' /\ WhileStart' /\ WhileRead' /\ WhileMatch'
        /\ \A n : Tallied(Now, n)' <=> Tallied(Now, n)
        /\ InMemory' = InMemory
        /\ Past("before")' = Past("before") /\ Past("after")' = Past("after")
        /\ RowsOf("before")' = RowsOf("before") /\ RowsOf("after")' = RowsOf("after")
        /\ \A f : Intact(f)' <=> Intact(f)
    BY <1>1, <1>9, <2>1, <2>2, MovesOn, Sides
  <2>4. WhileOpen'
    <3>1. NotedSoFar(Past("after"), Past("before"))' = NotedSoFar(Past("after"), Past("before"))
      BY <2>3 DEF NotedSoFar
    <3>2. QED
      BY <1>4, <2>1, <2>3, <3>1 DEF WhileOpen
  <2>5. WhileLoad'
    <3>1. Delivered(files["before"][part])' = Delivered(file)
      BY <1>5, <2>1 DEF Delivered
    <3>2. Intact(files["before"][part])'
      BY <1>5, <1>9, <2>1 DEF Intact
    <3>3. << >> \o input' = input'
      BY <1>9, <2>2
    <3>4. UniqueKeys(<< >>)
      BY DEF UniqueKeys
    <3>5. QED
      BY <1>4, <1>9, <2>1, <3>1, <3>2, <3>3, <3>4 DEF WhileLoad
  <2>6. WhileWalk' /\ WhileRest' /\ AtEnd'
    BY <1>9 DEF WhileWalk, WhileRest, AtEnd
  <2>7. QED
    BY <1>2, <2>1, <2>3, <2>4, <2>5, <2>6, GoesOn DEF Phases
<1>10. QED
  BY <1>5, <1>7, <1>8, <1>9 DEF OpenBefore

\* OpenAfter: the rows of the before side are held, and those of the other file come next.
LEMMA OpenAfterKeeps ==
    ASSUME Inv, OpenAfter
    PROVE  Inv'
<1>1. /\ pc = "load" /\ pc \in Late /\ pc \in Early \cup Late /\ pc \notin {"return", "done"}
      /\ input = << >>
  BY DEF OpenAfter, Late
<1>2. err = "none" /\ target = Old
  BY <1>1, Underway
<1>3. Types /\ Phases /\ part \in Parts /\ entries \in [Side -> Seq(Row)] /\ side \in Side
  BY TypesFacts DEF Inv, Types
<1>4. /\ ~InMemory /\ seen = {} /\ entries["after"] = << >>
      /\ Tallied(Now, NotedSoFar(Past("after"), Past("before")))
      /\ side = "before" /\ Intact(files["before"][part])
      /\ entries["before"] \o input = Delivered(files["before"][part])
      /\ UniqueKeys(entries["before"])
      /\ ReadSide("before") /\ ReadSide("after") /\ job["before"].schema = job["after"].schema
  BY <1>1, <1>3, Sides DEF Phases, WhileOpen, WhileLoad, WhileLate
<1>5. PICK file : file = files["before"][part]
  OBVIOUS
<1>6. PICK other : other = files["after"][part]
  OBVIOUS
<1>7. /\ file.payload \in Seq(Row) /\ file.records \in Int
      /\ Range(file.payload) = {row \in RowsOf("before") : PartitionOf[row.key] = part}
      /\ ~damaged => Complete(file)
  BY <1>3, <1>4, <1>5, FileFacts, Sides
<1>8. /\ other.payload \in Seq(Row) /\ other.records \in Int
      /\ ~damaged => Intact(other)
  BY <1>3, <1>4, <1>6, FileFacts, Sides
<1>9. CASE (~Complete(file) \/ ~Intact(other)) /\ Fail("corrupt")
  <2>1. Caused("corrupt")
    BY <1>7, <1>8, <1>9 DEF Caused
  <2>2. QED
    BY <1>2, <1>9, <2>1, FailKeeps
<1>10. CASE /\ Complete(file) /\ Intact(other)
            /\ pc' = "walk" /\ input' = Delivered(other)
            /\ UNCHANGED <<job, side, batch, store, held, result, target, damaged, cancelled, err>>
  <2>1. /\ job' = job /\ files' = files /\ part' = part /\ entries' = entries /\ seen' = seen
        /\ side' = side
        /\ UNCHANGED <<job, batch, store, held, result, target, damaged, err>>
        /\ pc' \in Late /\ pc' \notin {"return", "done"}
    BY <1>10 DEF store, held, Late
  <2>2. Delivered(other) \in Seq(Row)
    BY <1>8, DeliveredIs
  <2>3. /\ Types' /\ Sound(Now)' /\ Held' /\ WhileLate'
        /\ WhileEarly' /\ WhileStart' /\ WhileRead' /\ WhileMatch'
        /\ \A n : Tallied(Now, n)' <=> Tallied(Now, n)
        /\ InMemory' = InMemory
        /\ Past("before")' = Past("before") /\ Past("after")' = Past("after")
        /\ Here("before")' = Here("before")
        /\ RowsOf("before")' = RowsOf("before") /\ RowsOf("after")' = RowsOf("after")
        /\ \A f : Intact(f)' <=> Intact(f)
    BY <1>1, <1>3, <1>10, <2>1, <2>2, MovesOn
  <2>4. entries["before"] = file.payload
    <3>1. PICK e \in Seq(Row) : e = entries["before"]
      BY <1>3, Sides
    <3>2. e \o << >> = e
      OBVIOUS
    <3>3. Delivered(file) = file.payload
      BY <1>7, <1>10, DeliveredIs
    <3>4. QED
      BY <1>1, <1>4, <1>5, <3>1, <3>2, <3>3
  <2>5. Loaded'
    <3>1. Range(entries["before"]) = Here("before")
      BY <1>4, <1>7, <2>4 DEF Here
    <3>2. Intact(files["before"][part])' /\ Intact(files["after"][part])'
      BY <1>4, <1>6, <1>10, <2>1 DEF Intact
    <3>3. QED
      BY <1>4, <1>5, <2>1, <2>3, <2>4, <3>1, <3>2 DEF Loaded
  <2>6. WhileWalk'
    <3>1. Source' = Delivered(other)
      BY <1>4, <1>6, <2>1, <2>3 DEF Source, Delivered
    <3>2. << >> \o input' = input'
      BY <1>10, <2>2
    <3>3. UniqueKeys(<< >>) /\ << >> \in Seq(Row) /\ Range(<< >>) = {} /\ Keys(Range(<< >>)) = {}
      BY DEF UniqueKeys, Range, Keys
    <3>4. NotedSoFar(Past("after") \cup Range(<< >>), Past("before"))'
            = NotedSoFar(Past("after"), Past("before"))
      BY <2>3, <3>3 DEF NotedSoFar
    <3>5. QED
      BY <1>4, <1>10, <2>1, <2>3, <2>5, <3>1, <3>2, <3>3, <3>4 DEF WhileWalk
  <2>7. WhileOpen' /\ WhileLoad' /\ WhileRest' /\ AtEnd'
    BY <1>10 DEF WhileOpen, WhileLoad, WhileRest, AtEnd
  <2>8. QED
    BY <1>2, <2>1, <2>3, <2>6, <2>7, GoesOn DEF Phases
<1>11. QED
  BY <1>5, <1>6, <1>9, <1>10 DEF OpenAfter

\* The rows of a list are among those of a longer one.
LEMMA RangeJoined ==
    ASSUME NEW u \in Seq(Row), NEW rest \in Seq(Row)
    PROVE  Range(u) \subseteq Range(u \o rest)
<1>1. PICK m \in Nat : Len(u) = m /\ DOMAIN u = 1..m
  OBVIOUS
<1>2. PICK n \in Nat : Len(rest) = n
  OBVIOUS
<1>3. /\ u \o rest \in Seq(Row) /\ Len(u \o rest) = m + n
      /\ \A i \in 1..m + n : (u \o rest)[i] = IF i <= m THEN u[i] ELSE rest[i - m]
  BY <1>1, <1>2, Joined
<1>4. DOMAIN (u \o rest) = 1..m + n
  BY <1>3
<1>5. \A i \in 1..m : i \in 1..m + n /\ (u \o rest)[i] = u[i]
  BY <1>3
<1>6. QED
  BY <1>1, <1>4, <1>5 DEF Range

\* The rows that are walked are those of the after side.
LEMMA SourceFacts ==
    ASSUME Inv, pc = "walk"
    PROVE  /\ Source \in Seq(Row) /\ Range(Source) \subseteq Here("after")
           /\ Unique("after") => UniqueKeys(Source)
           /\ InMemory => UniqueKeys(Source) /\ Range(Source) = Here("after")
           /\ ~InMemory =>
                /\ ~damaged => Complete(files["after"][part])
                /\ Complete(files["after"][part]) =>
                     /\ Source = files["after"][part].payload
                     /\ Range(Source) = Here("after")
<1>1. /\ Types /\ Phases /\ part \in Parts /\ job \in Jobs /\ entries \in [Side -> Seq(Row)]
  BY TypesFacts DEF Inv, Types
<1>2. /\ ReadSide("after") /\ job["before"].schema = job["after"].schema /\ Loaded
  BY <1>1, Sides DEF Phases, WhileLate, WhileWalk, Late
<1>3. CASE InMemory
  <2>1. entries["after"] = AllRows("after") /\ Unique("after")
    BY <1>2, <1>3 DEF ReadSide
  <2>2. PICK rows \in Seq(Row) : rows = entries["after"]
    BY <1>1, Sides
  <2>3. UniqueKeys(rows) /\ Range(rows) = RowsOf("after")
    BY <2>1, <2>2 DEF Unique, RowsOf
  <2>4. ByKey(rows) \in Seq(Row) /\ Range(ByKey(rows)) = Range(rows) /\ UniqueKeys(ByKey(rows))
    BY <2>3, ByKeyOrders
  <2>5. Source = ByKey(rows)
    BY <1>3, <2>2 DEF Source
  <2>6. Here("after") = RowsOf("after")
    BY <1>3 DEF Here
  <2>7. QED
    BY <1>3, <2>3, <2>4, <2>5, <2>6
<1>4. CASE ~InMemory
  <2>1. PICK file : file = files["after"][part]
    OBVIOUS
  <2>2. Intact(file)
    BY <1>2, <1>4, <2>1 DEF Loaded
  <2>3. /\ file.payload \in Seq(Row) /\ file.records \in Int
        /\ Range(file.payload) = {row \in RowsOf("after") : PartitionOf[row.key] = part}
        /\ Unique("after") => UniqueKeys(file.payload)
        /\ ~damaged => Complete(file)
    BY <1>1, <1>2, <1>4, <2>1, <2>2, FileFacts, Sides
  <2>4. Source = Delivered(file)
    BY <1>4, <2>1 DEF Source
  <2>5. PICK u \in Seq(Row) : u = Delivered(file)
    BY <2>3, DeliveredIs
  <2>6. Complete(file) => u = file.payload
    BY <2>3, <2>5, DeliveredIs
  <2>7. PICK rest \in Seq(Row) : file.payload = u \o rest
    BY <2>3, <2>5, DeliveredIs
  <2>8. UniqueKeys(file.payload) => UniqueKeys(u)
    BY <2>7, UniquePrefix
  <2>9. Here("after") = {row \in RowsOf("after") : PartitionOf[row.key] = part}
    BY <1>4 DEF Here
  <2>10. Range(u) \subseteq Range(u \o rest)
    BY RangeJoined
  <2>11. QED
    BY <1>4, <2>1, <2>3, <2>4, <2>5, <2>6, <2>7, <2>8, <2>9, <2>10
<1>5. QED
  BY <1>3, <1>4

\* The row that is walked next was not walked before.
LEMMA WalkedNext ==
    ASSUME Inv, pc = "walk", input # << >>, NEW t, t \in Seq(Row), t \o input = Source,
           UniqueKeys(t), NEW row, row = Head(input)
    PROVE  /\ row \in Row /\ Tail(input) \in Seq(Row) /\ Append(t, row) \in Seq(Row)
           /\ Append(t, row) \o Tail(input) = Source
           /\ Range(Append(t, row)) = Range(t) \cup {row}
           /\ Keys(Range(Append(t, row))) = Keys(Range(t)) \cup {row.key}
           /\ row \in Here("after") /\ Range(t) \subseteq Here("after")
           /\ UniqueKeys(Append(t, row)) <=> row.key \notin Keys(Range(t))
           /\ InMemory \/ Unique("after") => UniqueKeys(Append(t, row))
<1>1. PICK i \in Seq(Row) : i = input
  BY TypesFacts DEF Inv
<1>2. PICK u \in Seq(Row) : u = Source
  BY SourceFacts
<1>3. i # << >> /\ u = t \o i
  BY <1>1, <1>2
<1>4. /\ Head(i) \in Row /\ Tail(i) \in Seq(Row) /\ Append(t, Head(i)) \in Seq(Row)
      /\ u = Append(t, Head(i)) \o Tail(i)
      /\ UniqueKeys(u) => UniqueKeys(Append(t, Head(i)))
  BY <1>3, NextOf
<1>5. row = Head(i) /\ row \in Row
  BY <1>1, <1>4
<1>6. Range(Append(t, row)) = Range(t) \cup {row}
  BY <1>5, RangeAppend
<1>7. Keys(Range(Append(t, row))) = Keys(Range(t)) \cup {row.key}
  BY <1>5, KeysAppend
<1>8. UniqueKeys(Append(t, row)) <=> row.key \notin Keys(Range(t))
  BY <1>5, UniqueAppend
<1>9. InMemory \/ Unique("after") => UniqueKeys(Append(t, row))
  BY <1>2, <1>4, <1>5, SourceFacts
<1>10. Range(Append(t, row)) \subseteq Range(u)
  <2>1. PICK a \in Seq(Row) : a = Append(t, row)
    BY <1>4, <1>5
  <2>2. PICK b \in Seq(Row) : b = Tail(i)
    BY <1>4
  <2>3. Range(a) \subseteq Range(a \o b)
    BY RangeJoined
  <2>4. u = a \o b
    BY ONLY <1>4, <1>5, <2>1, <2>2, Zenon
  <2>5. QED
    BY <2>1, <2>3, <2>4
<1>11. Range(u) \subseteq Here("after")
  BY <1>2, SourceFacts
<1>12. row \in Here("after") /\ Range(t) \subseteq Here("after")
  BY <1>6, <1>10, <1>11
<1>13. QED
  BY <1>1, <1>2, <1>4, <1>5, <1>6, <1>7, <1>8, <1>9, <1>12

\* A change is refused only for want of memory, of storage or of records.
LEMMA MoveFails ==
    ASSUME Inv, pc \in {"walk", "rest"}, NEW x, x.temp = temp, x.sink = sink,
           NEW m, Tallied(Now, m), NEW n, n \subseteq Changes, NEW y, Moves(x, y, m, n),
           y.err # "none"
    PROVE  Caused(y.err)
<1>1. Types /\ Sound(Now) /\ Phases /\ job \in Jobs
  BY TypesFacts DEF Inv
<1>2. y.err \in {"memory", "temp", "records"}
  BY DEF Moves, Sound, Copy
<1>3. /\ Changes \subseteq Change /\ IsFiniteSet(Changes)
      /\ Cardinality(Changes) \in Nat /\ Cardinality(Units(Changes)) \in Nat
      /\ TempNeed = SideNeed("before") + SideNeed("after")
                    + IF job.output = "none" THEN 0 ELSE Cardinality(Units(Changes))
      /\ SideNeed("before") \in Nat /\ SideNeed("after") \in Nat
  BY <1>1, RowsType, Sides
<1>4. /\ IsFiniteSet(n) /\ Cardinality(Units(n)) \in Nat
      /\ Cardinality(Units(n)) <= Cardinality(Units(Changes))
  BY <1>3, UnitsMore
<1>5. Cardinality(n) \in Nat /\ Cardinality(n) <= Cardinality(Changes)
  BY <1>3, <1>4, FS_Subset, FS_CardinalityType
<1>6. job.max_records \in Nat /\ job.max_temp \in Nat
  BY <1>1, Limits
<1>7. CASE y.err = "memory"
  BY <1>7 DEF Caused
<1>8. CASE y.err = "records"
  <2>1. Cardinality(n) > job.max_records
    BY <1>8 DEF Moves
  <2>2. job.max_records < Cardinality(Changes)
    BY ONLY <1>3, <1>5, <1>6, <2>1
  <2>3. QED
    BY <1>8, <2>2 DEF Caused
<1>9. CASE y.err = "temp"
  <2>1. /\ job.output # "none"
        /\ temp.used + Cardinality(Units(n)) > job.max_temp + Cardinality(Units(m))
    BY <1>9 DEF Moves
  <2>2. temp.used = SideNeed("before") + SideNeed("after") + EventUnits(sink.events)
    BY <1>1 DEF Phases, WhileLate, Late
  <2>3. Told(sink.events, m) /\ m \subseteq Change /\ IsFiniteSet(m)
    BY <2>1, NowType DEF Tallied
  <2>4. EventUnits(sink.events) = Cardinality(Units(m)) /\ Cardinality(Units(m)) \in Nat
    BY <2>3, UnitsFinite DEF Told
  <2>5. PICK k \in Nat : k = Cardinality(Units(m))
    BY <2>4
  <2>6. temp.used = SideNeed("before") + SideNeed("after") + k
    BY <2>2, <2>4, <2>5
  <2>7. temp.used + Cardinality(Units(n)) > job.max_temp + k
    BY <2>1, <2>5
  <2>8. TempNeed = SideNeed("before") + SideNeed("after") + Cardinality(Units(Changes))
    BY <1>3, <2>1
  <2>9. job.max_temp < TempNeed
    <3>1. PICK a \in Nat : a = SideNeed("before") + SideNeed("after")
      BY <1>3
    <3>2. TempNeed = a + Cardinality(Units(Changes))
      BY <2>8, <3>1
    <3>3. temp.used = a + k
      BY <2>6, <3>1
    <3>4. QED
      BY ONLY <1>3, <1>4, <1>6, <2>7, <3>2, <3>3, a \in Nat, k \in Nat
  <2>10. QED
    BY <1>9, <2>9 DEF Caused
<1>10. QED
  BY <1>2, <1>7, <1>8, <1>9

\* A row is compared or looked up.
LEMMA MoveGoes ==
    ASSUME Inv, pc \in {"walk", "rest"}, NEW x, x.temp = temp, x.sink = sink,
           NEW m, NEW n, NEW y, Moves(x, y, m, n), y.err = "none",
           ledger' = y.ledger, acc' = y.acc, sink' = y.sink, temp' = y.temp,
           UNCHANGED <<job, pc, side, batch, store, entries, target, damaged, err>>
    PROVE  /\ Sound(Now)' /\ WhileLate' /\ Tallied(Now, n)'
           /\ WhileEarly' /\ WhileStart' /\ WhileRead' /\ WhileMatch'
           /\ pc' \in Early \cup Late
           /\ InMemory' = InMemory
           /\ Past("before")' = Past("before") /\ Past("after")' = Past("after")
           /\ Here("before")' = Here("before") /\ Here("after")' = Here("after")
           /\ RowsOf("before")' = RowsOf("before") /\ RowsOf("after")' = RowsOf("after")
           /\ \A file : Intact(file)' <=> Intact(file)
<1>1. /\ job' = job /\ pc' = pc /\ side' = side /\ writers' = writers /\ files' = files
      /\ part' = part /\ entries' = entries /\ target' = target /\ damaged' = damaged
  BY DEF store
<1>2. /\ Sound(y) /\ y \in Copy /\ y.sink.open = x.sink.open
      /\ Tallied(y, n)
      /\ y.temp.used + EventUnits(x.sink.events) = x.temp.used + EventUnits(y.sink.events)
  BY DEF Moves, Sound
<1>3. Now' = y
  BY <1>2, TakenOver
<1>4. Sound(Now)'
  BY <1>1, <1>2, <1>3, SoundKept
<1>5. Tallied(Now, n)'
  BY <1>1, <1>2, <1>3, TallyMoved
<1>6. pc' \in Late /\ pc \in Late /\ pc \notin {"return", "done"}
  BY <1>1 DEF Late
<1>7. WhileLate'
  <2>1. sink'.events \in Seq(Event) /\ temp'.used \in Nat
    BY <1>2 DEF Copy, Output, Account
  <2>2. temp'.used + EventUnits(sink.events) = temp.used + EventUnits(sink'.events)
    BY <1>2
  <2>3. sink'.open = sink.open
    BY <1>2
  <2>4. QED
    BY <1>1, <1>6, <2>1, <2>2, <2>3, StillLate
<1>8. /\ InMemory' = InMemory
      /\ Past("before")' = Past("before") /\ Past("after")' = Past("after")
      /\ Here("before")' = Here("before") /\ Here("after")' = Here("after")
      /\ RowsOf("before")' = RowsOf("before") /\ RowsOf("after")' = RowsOf("after")
  BY <1>1, SameJob, SamePart, Sides
<1>9. \A file : Intact(file)' <=> Intact(file)
  BY <1>1 DEF Intact
<1>10. QED
  BY <1>4, <1>5, <1>6, <1>7, <1>8, <1>9, LateOthers

\* The rows held stay as they are.
LEMMA StillLoaded ==
    ASSUME Loaded, InMemory' = InMemory, Here("before")' = Here("before"), entries' = entries,
           files' = files, part' = part, \A file : Intact(file)' <=> Intact(file)
    PROVE  Loaded'
<1>1. PICK file : file = files["before"][part]
  OBVIOUS
<1>2. PICK other : other = files["after"][part]
  OBVIOUS
<1>3. ~InMemory => Intact(file)' /\ Intact(other)'
  BY <1>1, <1>2 DEF Loaded
<1>4. ~InMemory => Intact(files["before"][part])' /\ Intact(files["after"][part])'
  BY <1>1, <1>2, <1>3 DEF Intact
<1>5. QED
  BY <1>4 DEF Loaded

\* Another key is remembered and accounted for.
LEMMA SeenMore ==
    ASSUME Types, Sound(Now), Held, NEW key, job' = job, entries' = entries,
           seen' = seen \cup {key},
           NEW x, x = IF InMemory THEN Now ELSE UseMemory(Now, "before", 1),
           x.err = "none", ledger' = x.ledger
    PROVE  Held'
<1>1. InMemory' = InMemory
  BY SameJob
<1>2. CASE InMemory
  <2>1. ledger' = ledger
    BY <1>2, NowType
  <2>2. QED
    BY <1>1, <1>2, <2>1 DEF Held
<1>3. CASE ~InMemory
  <2>1. x = UseMemory(Now, "before", 1)
    BY <1>3
  <2>2. Setting /\ "before" \in Side
    BY TypesFacts, Sides
  <2>3. /\ x.err = "none" => /\ Now.err = "none"
                             /\ x.ledger["before"].used = Now.ledger["before"].used + 1
                             /\ \A t \in Side : t # "before" => x.ledger[t] = Now.ledger[t]
    BY <2>1, <2>2, MemoryUsed
  <2>4. ledger'["before"].used = ledger["before"].used + 1 /\ ledger'["after"] = ledger["after"]
    BY <2>3, NowType, Sides
  <2>5. /\ Bytes(entries["before"]) \in Nat /\ ledger["before"].used \in Nat
        /\ Cardinality(seen) \in Nat /\ IsFiniteSet(seen)
    BY TypesFacts, SoundFacts, Sides
  <2>6. Cardinality(seen') \in Nat /\ Cardinality(seen') <= Cardinality(seen) + 1
    <3>1. Cardinality(seen \cup {key}) = IF key \in seen THEN Cardinality(seen) ELSE Cardinality(seen) + 1
      BY <2>5, FS_AddElement
    <3>2. QED
      BY <2>5, <3>1
  <2>7. Bytes(entries["before"]) + Cardinality(seen) <= ledger["before"].used
    BY <1>3 DEF Held
  <2>8. Bytes(entries["before"]) + Cardinality(seen') <= ledger'["before"].used
    BY ONLY <2>4, <2>5, <2>6, <2>7
  <2>9. QED
    BY <1>1, <1>3, <2>4, <2>8 DEF Held
<1>4. QED
  BY <1>2, <1>3

\* A row of one partition has not the key of a row of an earlier one.
LEMMA PartsApart ==
    ASSUME Types, NEW s \in Side, NEW o \in Side, NEW row, row \in Here(s)
    PROVE  /\ row \in Row /\ row.key \notin Keys(Past(o))
           /\ \A old \in RowsOf(o) : old.key = row.key => old \in Here(o)
           /\ Here(o) \subseteq RowsOf(o) /\ Past(o) \subseteq RowsOf(o)
<1>1. /\ RowsOf(s) \subseteq Row /\ RowsOf(o) \subseteq Row /\ part \in Nat
  BY RowsType, TypesFacts
<1>2. row \in Row
  BY <1>1 DEF Here
<1>3. row.key \notin Keys(Past(o))
  <2>1. SUFFICES ASSUME NEW old \in Past(o), old.key = row.key PROVE FALSE
    BY DEF Keys
  <2>2. ~InMemory /\ PartitionOf[row.key] < part /\ PartitionOf[row.key] = part
    BY <2>1 DEF Past, Here
  <2>3. QED
    BY <1>1, <2>2
<1>4. \A old \in RowsOf(o) : old.key = row.key => old \in Here(o)
  BY DEF Here
<1>5. QED
  BY <1>2, <1>3, <1>4 DEF Here, Past

\* What is noted on the way is among the changes.
LEMMA SomeChanges ==
    ASSUME NEW w, NEW r, w \subseteq RowsOf("after"), r \subseteq RowsOf("before")
    PROVE  NotedSoFar(w, r) \subseteq Changes
<1>1. NotedSoFar(w, r) \subseteq ChangesIn(RowsOf("before"), RowsOf("after"))
  BY NotedBounds DEF NotedSoFar
<1>2. QED
  BY <1>1 DEF Changes, RowsOf

\* Walk: the row is compared.
LEMMA WalkKeeps ==
    ASSUME Inv, Walk
    PROVE  Inv'
<1>1. /\ pc = "walk" /\ pc \in Late /\ pc \in Early \cup Late /\ pc \notin {"return", "done"}
      /\ input # << >>
  BY DEF Walk, Late
<1>2. err = "none" /\ target = Old
  BY <1>1, Underway
<1>3. /\ Types /\ Sound(Now) /\ Held /\ Phases /\ Setting /\ job \in Jobs
      /\ entries \in [Side -> Seq(Row)] /\ input \in Seq(Row)
  BY TypesFacts DEF Inv, Types
<1>4. Loaded
  BY <1>1, <1>3 DEF Phases, WhileWalk
<1>5. PICK t \in Seq(Row) :
        /\ t \o input = Source /\ UniqueKeys(t)
        /\ seen = IF InMemory THEN Keys(RowsOf("after")) ELSE Keys(Range(t))
        /\ Tallied(Now, NotedSoFar(Past("after") \cup Range(t), Past("before")))
  BY <1>1, <1>3 DEF Phases, WhileWalk
<1>6. PICK row : row = Head(input)
  OBVIOUS
<1>7. /\ row \in Row /\ Tail(input) \in Seq(Row) /\ Append(t, row) \in Seq(Row)
      /\ Append(t, row) \o Tail(input) = Source
      /\ Range(Append(t, row)) = Range(t) \cup {row}
      /\ Keys(Range(Append(t, row))) = Keys(Range(t)) \cup {row.key}
      /\ row \in Here("after") /\ Range(t) \subseteq Here("after")
      /\ UniqueKeys(Append(t, row)) <=> row.key \notin Keys(Range(t))
      /\ InMemory \/ Unique("after") => UniqueKeys(Append(t, row))
  BY <1>1, <1>5, <1>6, WalkedNext
<1>8. PICK x : x = IF InMemory THEN Now ELSE UseMemory(Now, "before", 1)
  OBVIOUS
<1>9. /\ Sound(x) /\ x.acc = acc /\ x.sink = sink /\ x.temp = temp
      /\ x.err \in {"none", "memory"}
  <2>1. CASE InMemory
    BY <1>3, <1>8, <2>1, NowType
  <2>2. CASE ~InMemory
    <3>1. x = UseMemory(Now, "before", 1) /\ "before" \in Side /\ 1 \in Nat
      BY <1>8, <2>2, Sides
    <3>2. /\ Sound(x) /\ x.acc = Now.acc /\ x.sink = Now.sink /\ x.temp = Now.temp
          /\ x.err \in {Now.err, "memory"}
      BY <1>3, <3>1, MemoryUsed
    <3>3. QED
      BY <3>2, NowType
  <2>3. QED
    BY <2>1, <2>2
<1>10. PICK y : y = CompareRow(x, row)
  OBVIOUS
<1>11. \/ Fail("cancelled")
       \/ ~InMemory /\ x.err = "none" /\ row.key \in seen /\ Fail("duplicate")
       \/ y.err # "none" /\ Fail(y.err) /\ (InMemory \/ x.err # "none" \/ row.key \notin seen)
       \/ /\ y.err = "none" /\ (InMemory \/ x.err # "none" \/ row.key \notin seen)
          /\ Apply(y, /\ seen' = seen \cup {row.key}
                      /\ input' = Tail(input)
                      /\ UNCHANGED <<pc, side, batch, store, entries>>)
  BY <1>6, <1>8, <1>10 DEF Walk, Apply
<1>12. CASE Fail("cancelled")
  BY <1>2, <1>12, FailKeeps DEF Caused
<1>13. CASE ~InMemory /\ row.key \in seen /\ Fail("duplicate")
  <2>1. ~Unique("after")
    BY <1>5, <1>7, <1>13
  <2>2. Caused("duplicate")
    BY <2>1, Sides DEF Caused
  <2>3. QED
    BY <1>2, <1>13, <2>2, FailKeeps
<1>14. ASSUME x.err = "none", InMemory \/ row.key \notin seen
       PROVE  /\ Moves(x, y, NotedSoFar(Past("after") \cup Range(t), Past("before")),
                             NotedSoFar((Past("after") \cup Range(t)) \cup {row}, Past("before")))
              /\ UniqueKeys(Append(t, row))
              /\ NotedSoFar((Past("after") \cup Range(t)) \cup {row}, Past("before")) \subseteq Changes
  <2>1. UniqueKeys(Append(t, row)) /\ row.key \notin Keys(Range(t))
    BY <1>5, <1>7, <1>14
  <2>2. PICK w : w = Past("after") \cup Range(t)
    OBVIOUS
  <2>3. /\ row.key \notin Keys(Past("after"))
        /\ \A old \in RowsOf("before") : old.key = row.key => old \in Here("before")
        /\ Here("after") \subseteq RowsOf("after") /\ Past("after") \subseteq RowsOf("after")
        /\ Here("before") \subseteq RowsOf("before") /\ Past("before") \subseteq RowsOf("before")
    BY <1>3, <1>7, PartsApart, Sides
  <2>4. row.key \notin Keys(w)
    BY <2>1, <2>2, <2>3 DEF Keys
  <2>5. w \subseteq RowsOf("after") /\ row \in RowsOf("after")
    BY <1>7, <2>2, <2>3
  <2>6. RowsOf("before") \subseteq Row /\ RowsOf("after") \subseteq Row
    BY <1>3, RowsType, Sides
  <2>7. PICK b : b = RowsOf("before")
    OBVIOUS
  <2>8. PICK a : a = RowsOf("after")
    OBVIOUS
  <2>9. PICK r : r = Past("before")
    OBVIOUS
  <2>10. b \subseteq Row /\ w \subseteq Row /\ r \subseteq Row
    BY <2>3, <2>5, <2>6, <2>7, <2>9
  <2>11. Tallied(x, NotedOf(b, a, w, r))
    BY <1>5, <1>9, <2>2, <2>7, <2>8, <2>9, NowType DEF Tallied, NotedSoFar
  <2>12. /\ entries["before"] \in Seq(Row) /\ UniqueKeys(entries["before"])
         /\ Range(entries["before"]) \subseteq b
         /\ \A old \in b : old.key = row.key => old \in Range(entries["before"])
    BY <1>3, <1>4, <2>3, <2>7, Sides DEF Loaded
  <2>13. Moves(x, y, NotedOf(b, a, w, r), NotedOf(b, a, w \cup {row}, r))
    BY <1>3, <1>7, <1>9, <1>10, <1>14, <2>4, <2>10, <2>11, <2>12, Compared
  <2>14. NotedSoFar(w \cup {row}, r) \subseteq Changes
    BY <2>3, <2>5, <2>9, SomeChanges
  <2>15. QED
    BY <2>1, <2>2, <2>7, <2>8, <2>9, <2>13, <2>14 DEF NotedSoFar
<1>15. y.err = "none" => x.err = "none"
  BY <1>10, NotCompared
<1>16. PICK m : m = NotedSoFar(Past("after") \cup Range(t), Past("before"))
  OBVIOUS
<1>17. PICK n : n = NotedSoFar((Past("after") \cup Range(t)) \cup {row}, Past("before"))
  OBVIOUS
<1>18. CASE y.err # "none" /\ Fail(y.err) /\ (InMemory \/ x.err # "none" \/ row.key \notin seen)
  <2>1. CASE x.err = "none"
    <3>1. Moves(x, y, m, n) /\ n \subseteq Changes /\ Tallied(Now, m)
      BY <1>5, <1>14, <1>16, <1>17, <1>18, <2>1
    <3>2. Caused(y.err)
      BY <1>1, <1>9, <1>18, <3>1, MoveFails
    <3>3. QED
      BY <1>2, <1>18, <3>2, FailKeeps
  <2>2. CASE x.err # "none"
    <3>1. y = x
      BY <1>10, <2>2, NotCompared
    <3>2. Caused(y.err)
      BY <1>9, <2>2, <3>1 DEF Caused
    <3>3. QED
      BY <1>2, <1>18, <3>2, FailKeeps
  <2>3. QED
    BY <2>1, <2>2
<1>19. CASE /\ y.err = "none" /\ (InMemory \/ x.err # "none" \/ row.key \notin seen)
            /\ Apply(y, /\ seen' = seen \cup {row.key}
                        /\ input' = Tail(input)
                        /\ UNCHANGED <<pc, side, batch, store, entries>>)
  <2>1. /\ ledger' = y.ledger /\ acc' = y.acc /\ sink' = y.sink /\ temp' = y.temp
        /\ seen' = seen \cup {row.key} /\ input' = Tail(input)
        /\ UNCHANGED <<job, pc, side, batch, store, entries, target, damaged, err>>
        /\ job' = job /\ pc' = pc /\ side' = side /\ batch' = batch /\ files' = files
        /\ writers' = writers /\ part' = part /\ entries' = entries /\ err' = err
        /\ target' = target /\ damaged' = damaged
    BY <1>19 DEF Apply, store
  <2>2. x.err = "none" /\ (InMemory \/ row.key \notin seen)
    BY <1>15, <1>19
  <2>3. Moves(x, y, m, n) /\ UniqueKeys(Append(t, row)) /\ n \subseteq Changes
    BY <1>14, <1>16, <1>17, <2>2
  <2>4. /\ Sound(Now)' /\ WhileLate' /\ Tallied(Now, n)'
        /\ WhileEarly' /\ WhileStart' /\ WhileRead' /\ WhileMatch'
        /\ pc' \in Early \cup Late
        /\ InMemory' = InMemory
        /\ Past("before")' = Past("before") /\ Past("after")' = Past("after")
        /\ Here("before")' = Here("before")
        /\ RowsOf("before")' = RowsOf("before") /\ RowsOf("after")' = RowsOf("after")
        /\ \A file : Intact(file)' <=> Intact(file)
    BY <1>1, <1>9, <1>19, <2>1, <2>3, MoveGoes
  <2>5. Types'
    <3>1. IsFiniteSet(seen') /\ seen' \subseteq DOMAIN Display
      <4>1. IsFiniteSet(seen) /\ seen \subseteq DOMAIN Display
        BY <1>3 DEF Types
      <4>2. row.key \in DOMAIN Display
        BY <1>7, RowType
      <4>3. PICK key : key = row.key
        OBVIOUS
      <4>4. IsFiniteSet(seen \cup {key})
        BY <4>1, FS_AddElement
      <4>5. seen' = seen \cup {key}
        BY <2>1, <4>3
      <4>6. key \in DOMAIN Display
        BY <4>2, <4>3
      <4>7. QED
        BY ONLY <4>1, <4>4, <4>5, <4>6
    <3>2. QED
      BY <1>3, <1>7, <2>1, <2>4, <3>1 DEF Types, Setting
  <2>6. Held'
    <3>1. ledger' = x.ledger
      BY <2>1, <2>3 DEF Moves
    <3>2. QED
      BY <1>3, <1>8, <2>1, <2>2, <3>1, SeenMore
  <2>7. Loaded'
    BY <1>4, <2>1, <2>4, StillLoaded
  <2>8. WhileWalk'
    <3>1. PICK u \in Seq(Row) : u = Append(t, row)
      BY <1>7
    <3>2. Source' = Source
      BY <2>1, <2>4 DEF Source, Delivered
    <3>3. u \o input' = Source' /\ UniqueKeys(u)
      BY <1>7, <2>1, <2>3, <3>1, <3>2
    <3>4. seen' = IF InMemory' THEN Keys(RowsOf("after")') ELSE Keys(Range(u))
      <4>1. CASE InMemory
        <5>1. row \in RowsOf("after")
          BY <1>7 DEF Here
        <5>2. row.key \in Keys(RowsOf("after"))
          BY <5>1 DEF Keys
        <5>3. QED
          BY <1>5, <2>1, <2>4, <4>1, <5>2
      <4>2. CASE ~InMemory
        BY <1>5, <1>7, <2>1, <2>4, <3>1, <4>2
      <4>3. QED
        BY <4>1, <4>2
    <3>5. NotedSoFar(Past("after") \cup Range(u), Past("before"))' = n
      <4>1. Past("after") \cup Range(u) = (Past("after") \cup Range(t)) \cup {row}
        BY <1>7, <3>1
      <4>2. QED
        BY <1>17, <2>4, <4>1 DEF NotedSoFar
    <3>6. Tallied(Now, NotedSoFar(Past("after") \cup Range(u), Past("before")))'
      BY <2>4, <3>5
    <3>7. QED
      BY <2>7, <3>3, <3>4, <3>6 DEF WhileWalk
  <2>9. WhileOpen' /\ WhileLoad' /\ WhileRest' /\ AtEnd'
    BY <1>1, <2>1 DEF WhileOpen, WhileLoad, WhileRest, AtEnd
  <2>10. QED
    BY <1>2, <2>1, <2>4, <2>5, <2>6, <2>8, <2>9, GoesOn DEF Phases
<1>20. QED
  BY <1>11, <1>12, <1>13, <1>18, <1>19

\* WalkEnd: the after side is walked, and the rows of the before side come next.
LEMMA WalkEndKeeps ==
    ASSUME Inv, WalkEnd
    PROVE  Inv'
<1>1. /\ pc = "walk" /\ pc \in Late /\ pc \in Early \cup Late /\ pc \notin {"return", "done"}
      /\ input = << >>
  BY DEF WalkEnd, Late
<1>2. err = "none" /\ target = Old
  BY <1>1, Underway
<1>3. Types /\ Phases /\ part \in Parts /\ entries \in [Side -> Seq(Row)] /\ side \in Side
  BY TypesFacts DEF Inv, Types
<1>4. Loaded
  BY <1>1, <1>3 DEF Phases, WhileWalk
<1>5. PICK t \in Seq(Row) :
        /\ t \o input = Source /\ UniqueKeys(t)
        /\ seen = IF InMemory THEN Keys(RowsOf("after")) ELSE Keys(Range(t))
        /\ Tallied(Now, NotedSoFar(Past("after") \cup Range(t), Past("before")))
  BY <1>1, <1>3 DEF Phases, WhileWalk
<1>6. t = Source
  <2>1. t \o << >> = t
    OBVIOUS
  <2>2. QED
    BY <1>1, <1>5, <2>1
<1>7. PICK other : other = files["after"][part]
  OBVIOUS
<1>8. /\ InMemory => Range(Source) = Here("after")
      /\ ~InMemory => /\ ~damaged => Complete(other)
                      /\ Complete(other) => Source = other.payload /\ Range(Source) = Here("after")
  BY <1>1, <1>7, SourceFacts
<1>9. CASE ~InMemory /\ ~Complete(other) /\ Fail("corrupt")
  <2>1. Caused("corrupt")
    BY <1>8, <1>9 DEF Caused
  <2>2. QED
    BY <1>2, <1>9, <2>1, FailKeeps
<1>10. CASE /\ InMemory \/ Complete(other)
            /\ pc' = "rest" /\ input' = ByKey(entries["before"])
            /\ UNCHANGED <<job, side, batch, store, held, result, target, damaged, cancelled, err>>
  <2>1. /\ job' = job /\ files' = files /\ part' = part /\ entries' = entries /\ seen' = seen
        /\ side' = side
        /\ UNCHANGED <<job, batch, store, held, result, target, damaged, err>>
        /\ pc' \in Late /\ pc' \notin {"return", "done"}
    BY <1>10 DEF store, held, Late
  <2>2. PICK rows \in Seq(Row) : rows = entries["before"]
    BY <1>3, Sides
  <2>3. input' \in Seq(Row)
    <3>1. UniqueKeys(rows)
      BY <1>4, <2>2 DEF Loaded
    <3>2. ByKey(rows) \in Seq(Row)
      BY <3>1, ByKeyOrders
    <3>3. QED
      BY <1>10, <2>2, <3>2
  <2>4. /\ Types' /\ Sound(Now)' /\ Held' /\ WhileLate'
        /\ WhileEarly' /\ WhileStart' /\ WhileRead' /\ WhileMatch'
        /\ \A n : Tallied(Now, n)' <=> Tallied(Now, n)
        /\ InMemory' = InMemory
        /\ Past("before")' = Past("before") /\ Past("after")' = Past("after")
        /\ Here("before")' = Here("before") /\ Here("after")' = Here("after")
        /\ RowsOf("before")' = RowsOf("before") /\ RowsOf("after")' = RowsOf("after")
        /\ \A f : Intact(f)' <=> Intact(f)
    BY <1>1, <1>3, <2>1, <2>3, MovesOn
  <2>5. Range(t) = Here("after") /\ (~InMemory => UniqueKeys(other.payload))
    BY <1>5, <1>6, <1>8, <1>10
  <2>6. seen = Keys(Here("after"))
    <3>1. InMemory => Here("after") = RowsOf("after")
      BY DEF Here
    <3>2. QED
      BY <1>5, <2>5, <3>1
  <2>7. Loaded'
    BY <1>4, <2>1, <2>4, StillLoaded
  <2>8. WhileRest'
    <3>1. << >> \o input' = ByKey(entries["before"])'
      <4>1. << >> \o input' = input'
        BY <2>3
      <4>2. ByKey(entries["before"])' = ByKey(entries["before"])
        BY <2>1 DEF ByKey, Keys
      <4>3. QED
        BY <1>10, <4>1, <4>2
    <3>2. NotedSoFar(Past("after") \cup Here("after"), Past("before") \cup Range(<< >>))'
            = NotedSoFar(Past("after") \cup Range(t), Past("before"))
      <4>1. Range(<< >>) = {}
        BY DEF Range
      <4>2. Past("before") \cup Range(<< >>) = Past("before")
        BY <4>1
      <4>3. QED
        BY <2>4, <2>5, <4>2 DEF NotedSoFar
    <3>3. Tallied(Now, NotedSoFar(Past("after") \cup Here("after"),
                                  Past("before") \cup Range(<< >>)))'
      BY <1>5, <2>4, <3>2
    <3>4. << >> \in Seq(Row)
      OBVIOUS
    <3>5. ~InMemory' => UniqueKeys(files'["after"][part'].payload)
      BY <1>7, <2>1, <2>4, <2>5
    <3>6. seen' = Keys(Here("after")')
      BY <2>1, <2>4, <2>6
    <3>7. QED
      BY <2>7, <3>1, <3>3, <3>4, <3>5, <3>6 DEF WhileRest
  <2>9. WhileOpen' /\ WhileLoad' /\ WhileWalk' /\ AtEnd'
    BY <1>10 DEF WhileOpen, WhileLoad, WhileWalk, AtEnd
  <2>10. QED
    BY <1>2, <1>10, <2>1, <2>4, <2>8, <2>9, GoesOn DEF Phases
<1>11. QED
  BY <1>7, <1>9, <1>10 DEF WalkEnd

\* Rest: the row is looked up among the keys of the after side.
LEMMA RestKeeps ==
    ASSUME Inv, Rest
    PROVE  Inv'
<1>1. /\ pc = "rest" /\ pc \in Late /\ pc \in Early \cup Late /\ pc \notin {"return", "done"}
      /\ pc \in {"walk", "rest"} /\ input # << >>
  BY DEF Rest, Late
<1>2. err = "none" /\ target = Old
  BY <1>1, Underway
<1>3. /\ Types /\ Sound(Now) /\ Held /\ Phases /\ Setting /\ job \in Jobs
      /\ entries \in [Side -> Seq(Row)] /\ input \in Seq(Row)
  BY TypesFacts DEF Inv, Types
<1>4. /\ Loaded /\ seen = Keys(Here("after"))
      /\ ~InMemory => UniqueKeys(files["after"][part].payload)
  BY <1>1, <1>3 DEF Phases, WhileRest
<1>5. PICK t \in Seq(Row) :
        /\ t \o input = ByKey(entries["before"])
        /\ Tallied(Now, NotedSoFar(Past("after") \cup Here("after"), Past("before") \cup Range(t)))
  BY <1>1, <1>3 DEF Phases, WhileRest
<1>6. PICK row : row = Head(input)
  OBVIOUS
<1>7. /\ row \in Row /\ Tail(input) \in Seq(Row) /\ Append(t, row) \in Seq(Row)
      /\ Append(t, row) \o Tail(input) = ByKey(entries["before"])
      /\ Range(Append(t, row)) = Range(t) \cup {row}
      /\ row \in Here("before") /\ Range(t) \subseteq Here("before")
      /\ row.key \notin Keys(Range(t))
  <2>1. PICK rows \in Seq(Row) : rows = entries["before"]
    BY <1>3, Sides
  <2>2. UniqueKeys(rows) /\ Range(rows) = Here("before")
    BY <1>4, <2>1 DEF Loaded
  <2>3. ByKey(rows) \in Seq(Row) /\ Range(ByKey(rows)) = Range(rows) /\ UniqueKeys(ByKey(rows))
    BY <2>2, ByKeyOrders
  <2>4. PICK u \in Seq(Row) : u = ByKey(rows)
    BY <2>3
  <2>5. PICK i \in Seq(Row) : i = input
    BY <1>3
  <2>6. i # << >> /\ u = t \o i
    BY <1>1, <1>5, <2>1, <2>4, <2>5
  <2>7. /\ Head(i) \in Row /\ Tail(i) \in Seq(Row) /\ Append(t, Head(i)) \in Seq(Row)
        /\ u = Append(t, Head(i)) \o Tail(i)
        /\ UniqueKeys(u) => UniqueKeys(Append(t, Head(i)))
    BY <2>6, NextOf
  <2>8. PICK a \in Seq(Row) : a = Append(t, row)
    BY <1>6, <2>5, <2>7
  <2>9. PICK k \in Seq(Row) : k = Tail(i)
    BY <2>7
  <2>10. row \in Row /\ Range(a) = Range(t) \cup {row}
    BY <1>6, <2>5, <2>7, <2>8, RangeAppend
  <2>11. Range(a) \subseteq Range(a \o k)
    BY RangeJoined
  <2>12. u = a \o k
    BY <1>6, <2>5, <2>7, <2>8, <2>9
  <2>13. Range(a) \subseteq Here("before")
    BY <2>2, <2>3, <2>4, <2>11, <2>12
  <2>14. UniqueKeys(Append(t, row))
    BY <1>6, <2>3, <2>4, <2>5, <2>7
  <2>15. row.key \notin Keys(Range(t))
    BY <2>10, <2>14, UniqueAppend
  <2>16. QED
    BY <2>1, <2>4, <2>5, <2>8, <2>9, <2>10, <2>12, <2>13, <2>15
<1>8. PICK y : y = IF row.key \in seen THEN Now ELSE Note(Now, Removed(row))
  OBVIOUS
<1>9. \/ Fail("cancelled")
      \/ y.err # "none" /\ Fail(y.err)
      \/ /\ y.err = "none"
         /\ Apply(y, /\ input' = Tail(input)
                     /\ UNCHANGED <<pc, side, batch, store, entries, seen>>)
  BY <1>6, <1>8 DEF Rest, Apply
<1>10. CASE Fail("cancelled")
  BY <1>2, <1>10, FailKeeps DEF Caused
<1>11. PICK m : m = NotedSoFar(Past("after") \cup Here("after"), Past("before") \cup Range(t))
  OBVIOUS
<1>12. PICK n : n = NotedSoFar(Past("after") \cup Here("after"),
                               (Past("before") \cup Range(t)) \cup {row})
  OBVIOUS
<1>13. /\ row.key \notin Keys(Past("before"))
       /\ \A old \in RowsOf("after") : old.key = row.key => old \in Here("after")
       /\ Here("after") \subseteq RowsOf("after") /\ Past("after") \subseteq RowsOf("after")
       /\ Here("before") \subseteq RowsOf("before") /\ Past("before") \subseteq RowsOf("before")
  BY <1>3, <1>7, PartsApart, Sides
<1>14. Moves(Now, y, m, n) /\ n \subseteq Changes
  <2>1. PICK w : w = Past("after") \cup Here("after")
    OBVIOUS
  <2>2. PICK r : r = Past("before") \cup Range(t)
    OBVIOUS
  <2>3. PICK b : b = RowsOf("before")
    OBVIOUS
  <2>4. PICK a : a = RowsOf("after")
    OBVIOUS
  <2>5. b \subseteq Row /\ a \subseteq Row
    BY <1>3, <2>3, <2>4, RowsType, Sides
  <2>6. w \subseteq a /\ r \subseteq b /\ row \in b
    BY <1>7, <1>13, <2>1, <2>2, <2>3, <2>4
  <2>7. row.key \notin Keys(r)
    BY <1>7, <1>13, <2>2 DEF Keys
  <2>8. row.key \in seen <=> row.key \in Keys(a)
    BY <1>4, <1>13, <2>4 DEF Keys
  <2>9. m = NotedOf(b, a, w, r) /\ n = NotedOf(b, a, w, r \cup {row})
    BY <1>11, <1>12, <2>1, <2>2, <2>3, <2>4 DEF NotedSoFar
  <2>10. /\ row.key \in Keys(a) => n = m
         /\ row.key \notin Keys(a) => n = m \cup {Removed(row)}
    <3>1. PICK k : k = r \cup {row}
      OBVIOUS
    <3>2. ASSUME row.key \in Keys(a) PROVE NotedOf(b, a, w, k) = NotedOf(b, a, w, r)
      BY ONLY <3>1, <3>2, RemovedNext
    <3>3. ASSUME row.key \notin Keys(a)
          PROVE  NotedOf(b, a, w, k) = NotedOf(b, a, w, r) \cup {Removed(row)}
      BY ONLY <3>1, <3>3, RemovedNext
    <3>4. QED
      BY ONLY <2>9, <3>1, <3>2, <3>3
  <2>11. n \subseteq Changes
    <3>1. w \subseteq RowsOf("after") /\ r \cup {row} \subseteq RowsOf("before")
      BY <2>3, <2>4, <2>6
    <3>2. NotedSoFar(w, r \cup {row}) \subseteq Changes
      BY <3>1, SomeChanges
    <3>3. QED
      BY <1>12, <2>1, <2>2, <3>2
  <2>12. Tallied(Now, m) /\ Now.err = "none"
    BY <1>5, <1>11, NowType
  <2>13. CASE row.key \in seen
    <3>1. y = Now /\ n = m
      BY <1>8, <2>8, <2>10, <2>13
    <3>2. Moves(Now, Now, m, m)
      BY <1>3, <2>12, MovesNot
    <3>3. QED
      BY <2>11, <3>1, <3>2
  <2>14. CASE row.key \notin seen
    <3>1. PICK change : change = Removed(row)
      OBVIOUS
    <3>2. change \in Change
      BY <1>7, <3>1, ChangesType
    <3>3. change \notin m
      <4>1. b \subseteq Row /\ w \subseteq Row /\ r \subseteq Row
        BY <2>5, <2>6
      <4>2. Removed(row) \notin NotedOf(b, a, w, r)
        BY <1>7, <2>7, <4>1, NotNotedYet
      <4>3. QED
        BY <2>9, <3>1, <4>2
    <3>4. y = Note(Now, change) /\ n = m \cup {change}
      BY <1>8, <2>8, <2>10, <2>14, <3>1
    <3>5. Moves(Now, y, m, m \cup {change})
      BY <1>3, <2>12, <3>2, <3>3, <3>4, MovesOne
    <3>6. QED
      BY <2>11, <3>4, <3>5
  <2>15. QED
    BY <2>13, <2>14
<1>15. Tallied(Now, m)
  BY <1>5, <1>11
<1>16. Now.temp = temp /\ Now.sink = sink /\ Now.ledger = ledger
  BY NowType
<1>17. CASE y.err # "none" /\ Fail(y.err)
  <2>1. Caused(y.err)
    BY <1>1, <1>14, <1>15, <1>16, <1>17, MoveFails
  <2>2. QED
    BY <1>2, <1>17, <2>1, FailKeeps
<1>18. CASE /\ y.err = "none"
            /\ Apply(y, /\ input' = Tail(input)
                        /\ UNCHANGED <<pc, side, batch, store, entries, seen>>)
  <2>1. /\ ledger' = y.ledger /\ acc' = y.acc /\ sink' = y.sink /\ temp' = y.temp
        /\ input' = Tail(input)
        /\ UNCHANGED <<job, pc, side, batch, store, entries, target, damaged, err>>
        /\ job' = job /\ pc' = pc /\ side' = side /\ batch' = batch /\ files' = files
        /\ writers' = writers /\ part' = part /\ entries' = entries /\ err' = err
        /\ seen' = seen /\ target' = target /\ damaged' = damaged
    BY <1>18 DEF Apply, store
  <2>2. /\ Sound(Now)' /\ WhileLate' /\ Tallied(Now, n)'
        /\ WhileEarly' /\ WhileStart' /\ WhileRead' /\ WhileMatch'
        /\ pc' \in Early \cup Late
        /\ InMemory' = InMemory
        /\ Past("before")' = Past("before") /\ Past("after")' = Past("after")
        /\ Here("before")' = Here("before") /\ Here("after")' = Here("after")
        /\ RowsOf("before")' = RowsOf("before") /\ RowsOf("after")' = RowsOf("after")
        /\ \A file : Intact(file)' <=> Intact(file)
    BY <1>1, <1>14, <1>16, <1>18, <2>1, MoveGoes
  <2>3. Types'
    BY <1>3, <1>7, <2>1, <2>2, SameTypes
  <2>4. Held'
    <3>1. ledger' = ledger
      BY <1>14, <1>16, <2>1 DEF Moves
    <3>2. QED
      BY <1>3, <2>1, <3>1, SameHeld
  <2>5. Loaded'
    BY <1>4, <2>1, <2>2, StillLoaded
  <2>6. WhileRest'
    <3>1. PICK u \in Seq(Row) : u = Append(t, row)
      BY <1>7
    <3>2. ByKey(entries["before"])' = ByKey(entries["before"])
      BY <2>1 DEF ByKey, Keys
    <3>3. u \o input' = ByKey(entries["before"])'
      BY <1>7, <2>1, <3>1, <3>2
    <3>4. NotedSoFar(Past("after") \cup Here("after"), Past("before") \cup Range(u))' = n
      <4>1. Past("before") \cup Range(u) = (Past("before") \cup Range(t)) \cup {row}
        BY <1>7, <3>1
      <4>2. QED
        BY <1>12, <2>2, <4>1 DEF NotedSoFar
    <3>5. Tallied(Now, NotedSoFar(Past("after") \cup Here("after"), Past("before") \cup Range(u)))'
      BY <2>2, <3>4
    <3>6. ~InMemory' => UniqueKeys(files'["after"][part'].payload)
      BY <1>4, <2>1, <2>2
    <3>7. seen' = Keys(Here("after")')
      BY <1>4, <2>1, <2>2
    <3>8. QED
      BY <2>5, <3>3, <3>5, <3>6, <3>7 DEF WhileRest
  <2>7. WhileOpen' /\ WhileLoad' /\ WhileWalk' /\ AtEnd'
    BY <1>1, <2>1 DEF WhileOpen, WhileLoad, WhileWalk, AtEnd
  <2>8. QED
    BY <1>2, <2>1, <2>2, <2>3, <2>4, <2>6, <2>7, GoesOn DEF Phases
<1>19. QED
  BY <1>9, <1>10, <1>17, <1>18

\* The memory of the rows is given back.
LEMMA AccountReleased ==
    ASSUME Setting, Sound(Now), job' = job, writers' = writers, acc' = acc, sink' = sink,
           temp' = temp, ledger' = [s \in Side |-> NoLedger]
    PROVE  Sound(Now)'
<1>1. /\ Now \in Copy /\ Now.sink = sink /\ Now.ledger = ledger /\ Now.acc = acc /\ Now.temp = temp
  BY NowType DEF Sound
<1>2. NoLedger \in Account /\ NoLedger.used = 0 /\ NoLedger.reserved = 0
  BY DEF NoLedger, Account
<1>3. ledger' \in [Side -> Account] /\ \A s \in Side : ledger'[s] = NoLedger
  BY <1>2
<1>4. Now' \in Copy
  BY <1>1, <1>3 DEF Now, Copy
<1>5. PICK y \in Copy : y = Now'
  BY <1>4
<1>6. y.ledger = ledger' /\ y.acc = acc /\ y.sink = sink /\ y.temp = temp /\ y.err = "none"
  BY <1>5 DEF Now
<1>7. Free(y) >= 0
  <2>1. PICK r \in Int : \A z \in Copy : /\ Shots(z) \in Nat /\ LedgersOf(z) \in Nat
                                         /\ z.sink.charged \in Nat
                                         /\ Free(z) = r - LedgersOf(z) - Shots(z) - z.sink.charged
    BY FreeTerms
  <2>2. PICK m \in Nat : m = Shots(Now)
    BY <1>1, <2>1
  <2>3. PICK n \in Nat : n = LedgersOf(Now)
    BY <1>1, <2>1
  <2>4. PICK c \in Nat : c = sink.charged
    BY <1>1, <2>1
  <2>5. Shots(y) = m
    BY <1>1, <1>6, <2>2 DEF Shots
  <2>6. LedgersOf(y) = 0
    BY <1>2, <1>3, <1>6, Sides DEF LedgersOf
  <2>7. Free(Now) = r - n - m - c
    BY <1>1, <2>1, <2>2, <2>3, <2>4
  <2>8. Free(y) = r - 0 - m - c
    BY <1>6, <2>1, <2>4, <2>5, <2>6
  <2>9. Free(Now) >= 0
    BY DEF Sound
  <2>10. QED
    BY ONLY <2>7, <2>8, <2>9, r \in Int, m \in Nat, n \in Nat, c \in Nat
<1>8. Sound(y)
  <2>1. \A s \in Side : y.ledger[s].used = 0 /\ y.ledger[s].reserved = 0
    BY <1>2, <1>3, <1>6
  <2>2. job.max_memory \in Nat
    BY Limits DEF Setting
  <2>3. \A s \in Side : /\ y.ledger[s].used <= y.ledger[s].reserved
                        /\ y.ledger[s].reserved <= job.max_memory
    BY <2>1, <2>2
  <2>4. QED
    BY <1>1, <1>6, <1>7, <2>3 DEF Sound
<1>9. QED
  BY <1>5, <1>8, SoundKept

\* A partition more is past; with the last one all rows are.
LEMMA PartDone ==
    ASSUME Types, ~InMemory, NEW s \in Side
    PROVE  /\ job' = job /\ part' = part + 1 => Past(s)' = Past(s) \cup Here(s)
           /\ part = Partitions => Past(s) \cup Here(s) = RowsOf(s)
<1>1. RowsOf(s) \subseteq Row /\ part \in Nat
  BY RowsType, TypesFacts
<1>2. \A row \in RowsOf(s) : PartitionOf[row.key] \in Parts
  BY <1>1, RowType, Sizes
<1>3. \A row \in RowsOf(s) : PartitionOf[row.key] \in Nat /\ PartitionOf[row.key] <= Partitions
  BY <1>2, Sizes DEF Parts
<1>4. ASSUME job' = job, part' = part + 1 PROVE Past(s)' = Past(s) \cup Here(s)
  <2>1. RowsOf(s)' = RowsOf(s) /\ InMemory' = InMemory
    BY <1>4, SameJob
  <2>2. \A row \in RowsOf(s) :
          PartitionOf[row.key] < part + 1 <=> PartitionOf[row.key] < part \/ PartitionOf[row.key] = part
    BY <1>1, <1>3
  <2>3. Past(s)' = {row \in RowsOf(s) : PartitionOf[row.key] < part + 1}
    BY <1>4, <2>1 DEF Past
  <2>4. QED
    BY <2>2, <2>3 DEF Past, Here
<1>5. ASSUME part = Partitions PROVE Past(s) \cup Here(s) = RowsOf(s)
  <2>1. \A row \in RowsOf(s) : PartitionOf[row.key] < part \/ PartitionOf[row.key] = part
    BY <1>1, <1>3, <1>5
  <2>2. QED
    BY <2>1 DEF Past, Here
<1>6. QED
  BY <1>4, <1>5

\* The rows of the partition have their keys once, and so do those of the partitions past.
LEMMA PartUnique ==
    ASSUME Types, ~InMemory, NEW s \in Side, OnFiles(s), Intact(files[s][part]),
           UniqueKeys(files[s][part].payload), job' = job, files' = files, damaged' = damaged
    PROVE  /\ part' = part + 1 => OnFiles(s)'
           /\ part = Partitions => Unique(s)
<1>1. PICK R : /\ Splits(R, AllRows(s))
               /\ \A p \in Parts : FileOf(files[s][p], R[p], job[s].schema)
               /\ \A p \in Parts : p < part => UniqueKeys(R[p])
  BY DEF OnFiles
<1>2. part \in Parts /\ part \in Nat /\ Partitions \in Nat
  BY TypesFacts, Sizes
<1>3. UniqueKeys(R[part])
  <2>1. FileOf(files[s][part], R[part], job[s].schema)
    BY <1>1, <1>2
  <2>2. files[s][part].payload = R[part]
    BY <2>1 DEF FileOf
  <2>3. QED
    BY <2>2
<1>4. ASSUME part' = part + 1 PROVE OnFiles(s)'
  <2>1. AllRows(s)' = AllRows(s)
    BY SameJob
  <2>2. \A p \in Parts : FileOf(files[s][p], R[p], job[s].schema)'
    BY <1>1 DEF FileOf, Intact
  <2>3. \A p \in Parts : p < part' => UniqueKeys(R[p])
    <3>1. SUFFICES ASSUME NEW p \in Parts, p < part' PROVE UniqueKeys(R[p])
      OBVIOUS
    <3>2. p \in Nat
      BY DEF Parts
    <3>3. p < part \/ p = part
      BY <1>2, <1>4, <3>1, <3>2
    <3>4. QED
      BY <1>1, <1>3, <3>3
  <2>4. Splits(R, AllRows(s)')
    BY <1>1, <2>1
  <2>5. QED
    BY <2>2, <2>3, <2>4 DEF OnFiles
<1>5. ASSUME part = Partitions PROVE Unique(s)
  <2>1. \A p \in Parts : UniqueKeys(R[p])
    <3>1. SUFFICES ASSUME NEW p \in Parts PROVE UniqueKeys(R[p])
      OBVIOUS
    <3>2. p \in Nat /\ p <= Partitions
      BY <1>2 DEF Parts
    <3>3. p < part \/ p = part
      BY <1>2, <1>5, <3>2
    <3>4. QED
      BY <1>1, <1>3, <3>3
  <2>2. QED
    BY <1>1, <2>1 DEF Splits, Unique
<1>6. QED
  BY <1>4, <1>5

\* RestEnd: the next partition is opened, or all changes are noted.
LEMMA RestEndKeeps ==
    ASSUME Inv, RestEnd
    PROVE  Inv'
<1>1. /\ pc = "rest" /\ pc \in Late /\ pc \in Early \cup Late /\ pc \notin {"return", "done"}
      /\ input = << >>
  BY DEF RestEnd, Late
<1>2. err = "none" /\ target = Old
  BY <1>1, Underway
<1>3. /\ Types /\ Sound(Now) /\ Held /\ Phases /\ Setting /\ job \in Jobs
      /\ entries \in [Side -> Seq(Row)] /\ input \in Seq(Row) /\ part \in Parts /\ side \in Side
  BY TypesFacts DEF Inv, Types
<1>4. Loaded /\ (~InMemory => UniqueKeys(files["after"][part].payload))
  BY <1>1, <1>3 DEF Phases, WhileRest
<1>5. Tallied(Now, NotedSoFar(Past("after") \cup Here("after"), Past("before") \cup Here("before")))
  <2>1. PICK t \in Seq(Row) :
          /\ t \o input = ByKey(entries["before"])
          /\ Tallied(Now, NotedSoFar(Past("after") \cup Here("after"), Past("before") \cup Range(t)))
    BY <1>1, <1>3 DEF Phases, WhileRest
  <2>2. PICK rows \in Seq(Row) : rows = entries["before"]
    BY <1>3, Sides
  <2>3. UniqueKeys(rows) /\ Range(rows) = Here("before")
    BY <1>4, <2>2 DEF Loaded
  <2>4. Range(ByKey(rows)) = Range(rows)
    BY <2>3, ByKeyOrders
  <2>5. t \o << >> = t
    OBVIOUS
  <2>6. Range(t) = Here("before")
    BY <1>1, <2>1, <2>2, <2>3, <2>4, <2>5
  <2>7. QED
    BY <2>1, <2>6
<1>6. /\ writers = << >> /\ ReadSide("before") /\ ReadSide("after")
      /\ job["before"].schema = job["after"].schema
      /\ temp.used = SideNeed("before") + SideNeed("after") + EventUnits(sink.events)
      /\ target = Old /\ (sink.open <=> job.output # "none")
  BY <1>1, <1>3, Sides DEF Phases, WhileLate
<1>7. /\ err' = err /\ job' = job /\ side' = side /\ batch' = batch /\ input' = input
      /\ writers' = writers /\ files' = files /\ target' = target /\ damaged' = damaged
      /\ acc' = acc /\ temp' = temp /\ sink' = sink
      /\ UNCHANGED <<job, batch, result, target, damaged, err>>
  BY DEF RestEnd, loop, result
<1>8. /\ Changes = NotedSoFar(RowsOf("after"), RowsOf("before"))
      /\ Changes' = Changes /\ InMemory' = InMemory
      /\ RowsOf("before")' = RowsOf("before") /\ RowsOf("after")' = RowsOf("after")
      /\ \A s \in Side : Unique(s)' = Unique(s)
  BY <1>3, <1>7, RowsType, SameJob, Sides
<1>9. CASE InMemory
  <2>1. /\ pc' = "flush" /\ part' = part /\ entries' = entries /\ seen' = seen /\ ledger' = ledger
        /\ UNCHANGED <<job, batch, store, held, result, target, damaged, err>>
        /\ pc' \in Late /\ pc' \notin {"return", "done"} /\ side' \in Side /\ input' \in Seq(Row)
    BY <1>3, <1>7, <1>9 DEF RestEnd, Late, store, held
  <2>2. /\ Types' /\ Sound(Now)' /\ Held' /\ WhileLate'
        /\ WhileEarly' /\ WhileStart' /\ WhileRead' /\ WhileMatch'
        /\ \A n : Tallied(Now, n)' <=> Tallied(Now, n)
    BY <1>1, <2>1, MovesOn
  <2>3. NotedSoFar(Past("after") \cup Here("after"), Past("before") \cup Here("before")) = Changes
    <3>1. /\ Past("after") = {} /\ Past("before") = {}
          /\ Here("after") = RowsOf("after") /\ Here("before") = RowsOf("before")
      BY <1>9 DEF Past, Here
    <3>2. Past("after") \cup Here("after") = RowsOf("after") /\ Past("before") \cup Here("before") = RowsOf("before")
      BY <3>1
    <3>3. QED
      BY <1>8, <3>2
  <2>4. AtEnd'
    <3>1. Tallied(Now, Changes)'
      BY <1>5, <1>8, <2>2, <2>3
    <3>2. \A s \in Side : Unique(s)'
      BY <1>6, <1>8, <1>9, Sides DEF ReadSide
    <3>3. QED
      BY <2>1, <3>1, <3>2 DEF AtEnd
  <2>5. WhileOpen' /\ WhileLoad' /\ WhileWalk' /\ WhileRest'
    BY <2>1 DEF WhileOpen, WhileLoad, WhileWalk, WhileRest
  <2>6. QED
    BY <1>2, <1>7, <2>1, <2>2, <2>4, <2>5, GoesOn DEF Phases
<1>10. CASE ~InMemory
  <2>1. /\ entries' = [s \in Side |-> << >>] /\ seen' = {} /\ ledger' = [s \in Side |-> NoLedger]
        /\ pc' \in Late /\ pc' \notin {"return", "done"}
        /\ \/ part = Partitions /\ pc' = "flush" /\ part' = part
           \/ part # Partitions /\ pc' = "open" /\ part' = part + 1
    BY <1>10 DEF RestEnd, Late
  <2>2. Types'
    <3>1. part' \in Parts
      <4>1. Partitions \in Nat /\ part \in 1..Partitions
        BY <1>3, Sizes DEF Parts
      <4>2. part' \in 1..Partitions
        BY ONLY <2>1, <4>1
      <4>3. QED
        BY <4>2 DEF Parts
    <3>2. entries' \in [Side -> Seq(Row)]
      BY <2>1
    <3>3. IsFiniteSet(seen') /\ seen' \subseteq DOMAIN Display
      BY <2>1, FS_EmptySet
    <3>4. QED
      BY <1>3, <1>7, <2>1, <3>1, <3>2, <3>3, LateOthers DEF Types, Setting
  <2>3. Sound(Now)'
    BY <1>3, <1>7, <2>1, AccountReleased
  <2>4. Held'
    <3>1. /\ entries'["before"] = << >> /\ entries'["after"] = << >>
          /\ ledger'["before"].used = 0 /\ ledger'["after"].used = 0
      BY <2>1, Sides DEF NoLedger
    <3>2. Bytes(<< >>) = 0 /\ Cardinality({}) = 0
      BY BytesEmpty, FS_EmptySet
    <3>3. Bytes(entries'["before"]) = 0 /\ Bytes(entries'["after"]) = 0 /\ Cardinality(seen') = 0
      BY <2>1, <3>1, <3>2
    <3>4. QED
      BY <3>1, <3>3 DEF Held
  <2>5. \A s \in Side : OnFiles(s) /\ Intact(files[s][part]) /\ UniqueKeys(files[s][part].payload)
    BY <1>4, <1>6, <1>10, Sides DEF ReadSide, Loaded
  <2>6. /\ \A s \in Side : part' = part + 1 => OnFiles(s)'
        /\ \A s \in Side : part = Partitions => Unique(s)
    BY <1>3, <1>7, <1>10, <2>5, PartUnique
  <2>7. \A s \in Side : ReadSide(s)'
    <3>1. SUFFICES ASSUME NEW s \in Side PROVE ReadSide(s)'
      OBVIOUS
    <3>2. OnFiles(s)'
      <4>1. CASE part' = part + 1
        BY <2>6, <4>1
      <4>2. CASE part' = part
        BY <1>7, <2>5, <4>2, SameFiles
      <4>3. QED
        BY <2>1, <4>1, <4>2
    <3>3. QED
      BY <1>8, <1>10, <3>2 DEF ReadSide
  <2>8. WhileLate'
    <3>1. SideNeed("before")' = SideNeed("before") /\ SideNeed("after")' = SideNeed("after")
      BY <1>7, SameJob, Sides
    <3>2. EventUnits(sink.events)' = EventUnits(sink.events)
      BY <1>7 DEF EventUnits, EventBytes
    <3>3. QED
      BY <1>6, <1>7, <2>7, <3>1, <3>2 DEF WhileLate
  <2>9. \A n : Tallied(Now, n)' <=> Tallied(Now, n)
    <3>1. Now'.acc = Now.acc /\ Now'.sink = Now.sink
      BY <1>7 DEF Now
    <3>2. QED
      BY <1>7, <3>1 DEF Tallied
  <2>10. CASE part # Partitions /\ pc' = "open" /\ part' = part + 1
    <3>1. NotedSoFar(Past("after"), Past("before"))'
            = NotedSoFar(Past("after") \cup Here("after"), Past("before") \cup Here("before"))
      <4>1. Past("after")' = Past("after") \cup Here("after") /\ Past("before")' = Past("before") \cup Here("before")
        BY <1>3, <1>7, <1>10, <2>10, PartDone, Sides
      <4>2. QED
        BY <1>8, <4>1 DEF NotedSoFar
    <3>2. Tallied(Now, NotedSoFar(Past("after"), Past("before")))'
      BY <1>5, <2>9, <3>1
    <3>3. WhileOpen' /\ WhileLoad'
      BY <1>8, <1>10, <2>1, <2>10, <3>2, Sides DEF WhileOpen, WhileLoad
    <3>4. WhileWalk' /\ WhileRest' /\ AtEnd'
      BY <2>10 DEF WhileWalk, WhileRest, AtEnd
    <3>5. QED
      BY <1>2, <1>7, <2>1, <2>2, <2>3, <2>4, <2>8, <3>3, <3>4, LateOthers, GoesOn DEF Phases
  <2>11. CASE part = Partitions /\ pc' = "flush" /\ part' = part
    <3>1. NotedSoFar(Past("after") \cup Here("after"), Past("before") \cup Here("before")) = Changes
      <4>1. Past("after") \cup Here("after") = RowsOf("after") /\ Past("before") \cup Here("before") = RowsOf("before")
        BY <1>3, <1>10, <2>11, PartDone, Sides
      <4>2. QED
        BY <1>8, <4>1
    <3>2. Tallied(Now, Changes)'
      BY <1>5, <1>8, <2>9, <3>1
    <3>3. \A s \in Side : Unique(s)'
      BY <1>8, <2>6, <2>11
    <3>4. AtEnd'
      BY <2>11, <3>2, <3>3 DEF AtEnd
    <3>5. WhileOpen' /\ WhileLoad' /\ WhileWalk' /\ WhileRest'
      BY <2>11 DEF WhileOpen, WhileLoad, WhileWalk, WhileRest
    <3>6. QED
      BY <1>2, <1>7, <2>1, <2>2, <2>3, <2>4, <2>8, <3>4, <3>5, LateOthers, GoesOn DEF Phases
  <2>12. QED
    BY <2>1, <2>10, <2>11
<1>11. QED
  BY <1>9, <1>10

\* The output file is flushed or closed.
LEMMA SinkEdited ==
    ASSUME Setting, Sound(Now), job' = job, writers' = writers, ledger' = ledger, acc' = acc,
           temp' = temp, sink' \in Output, sink'.events = sink.events,
           sink'.charged = sink.charged, sink'.capacity = sink.capacity,
           sink'.open => sink.open
    PROVE  Sound(Now)' /\ \A n : Tallied(Now, n)' <=> Tallied(Now, n)
<1>1. /\ Now \in Copy /\ Now.sink = sink /\ Now.ledger = ledger /\ Now.acc = acc /\ Now.temp = temp
  BY NowType DEF Sound
<1>2. Now' \in Copy
  BY <1>1 DEF Now, Copy
<1>3. PICK y \in Copy : y = Now'
  BY <1>2
<1>4. y.ledger = ledger /\ y.acc = acc /\ y.sink = sink' /\ y.temp = temp /\ y.err = "none"
  BY <1>3 DEF Now
<1>5. Free(y) = Free(Now)
  BY <1>1, <1>4 DEF Free
<1>6. Sound(y)
  BY <1>1, <1>4, <1>5 DEF Sound
<1>7. Sound(Now)'
  BY <1>3, <1>6, SoundKept
<1>8. \A n : Tallied(Now, n)' <=> Tallied(Now, n)
  <2>1. Now'.acc = Now.acc /\ Now'.sink.events = Now.sink.events
    BY <1>1 DEF Now
  <2>2. QED
    BY <2>1 DEF Tallied
<1>9. QED
  BY <1>7, <1>8

\* The files are read and the storage of the output is accounted for until the end.
LEMMA LateKept ==
    ASSUME Inv, pc \in Late, UNCHANGED <<job, store, held, temp, damaged>>,
           sink'.events = sink.events,
           pc' \notin {"return", "done"} => target' = Old /\ (sink'.open <=> job.output # "none")
    PROVE  WhileLate'
<1>1. /\ writers = << >> /\ \A s \in Side : ReadSide(s)
      /\ job["before"].schema = job["after"].schema
      /\ temp.used = SideNeed("before") + SideNeed("after") + EventUnits(sink.events)
  BY DEF Inv, Phases, WhileLate
<1>2. /\ job' = job /\ writers' = writers /\ files' = files /\ part' = part /\ entries' = entries
      /\ temp' = temp /\ damaged' = damaged
  BY DEF store, held
<1>3. \A s \in Side : ReadSide(s)'
  <2>1. SUFFICES ASSUME NEW s \in Side PROVE ReadSide(s)'
    OBVIOUS
  <2>2. ReadSide(s)' = ReadSide(s)
    BY <1>2, SameFiles
  <2>3. QED
    BY <1>1, <2>2
<1>4. SideNeed("before")' = SideNeed("before") /\ SideNeed("after")' = SideNeed("after")
  BY <1>2, SameJob, Sides
<1>5. EventUnits(sink.events)' = EventUnits(sink.events)
  BY DEF EventUnits, EventBytes
<1>6. QED
  BY <1>1, <1>2, <1>3, <1>4, <1>5 DEF WhileLate

\* The phases before the changes are all noted.
LEMMA EndOthers ==
    ASSUME pc' \in {"flush", "persist", "return", "done"}
    PROVE  /\ WhileEarly' /\ WhileStart' /\ WhileRead' /\ WhileMatch'
           /\ WhileOpen' /\ WhileLoad' /\ WhileWalk' /\ WhileRest'
           /\ pc' \in Late /\ pc' \in Early \cup Late
           /\ pc' \in Early \cup Late \cup {"failed", "crashed"}
BY LateOthers DEF WhileOpen, WhileLoad, WhileWalk, WhileRest, Late

\* Flush: the events reach the temporary file.
LEMMA FlushKeeps ==
    ASSUME Inv, Flush
    PROVE  Inv'
<1>1. pc = "flush" /\ pc \in Late /\ pc \in Early \cup Late /\ pc \notin {"return", "done"}
  BY DEF Flush, Late
<1>2. err = "none" /\ target = Old
  BY <1>1, Underway
<1>3. /\ Types /\ Sound(Now) /\ Held /\ Phases /\ Setting /\ input \in Seq(Row) /\ sink \in Output
      /\ sink.events \in Seq(Event)
  BY TypesFacts, SoundFacts DEF Inv
<1>4. /\ \A s \in Side : Unique(s)
      /\ Tallied(Now, Changes) /\ (sink.open <=> job.output # "none")
  BY <1>1, <1>3 DEF Phases, AtEnd, WhileLate
<1>5. /\ sink' = [sink EXCEPT !.stored = sink.events]
      /\ pc' = IF sink.open THEN "persist" ELSE "done"
      /\ job' = job /\ side' = side /\ batch' = batch /\ input' = input /\ writers' = writers
      /\ files' = files /\ part' = part /\ entries' = entries /\ seen' = seen /\ ledger' = ledger
      /\ acc' = acc /\ temp' = temp /\ target' = target /\ damaged' = damaged /\ err' = err
      /\ UNCHANGED <<job, store, held, temp, damaged>>
  BY DEF Flush, loop, store, held
<1>6. /\ sink' \in Output /\ sink'.events = sink.events /\ sink'.charged = sink.charged
      /\ sink'.capacity = sink.capacity /\ sink'.open = sink.open /\ sink'.stored = sink.events
  BY <1>3, <1>5 DEF Output
<1>7. pc' \in {"flush", "persist", "return", "done"}
  BY <1>5
<1>8. Types'
  BY <1>3, <1>5, <1>7, EndOthers, SameTypes
<1>9. Sound(Now)' /\ \A n : Tallied(Now, n)' <=> Tallied(Now, n)
  BY <1>3, <1>5, <1>6, SinkEdited
<1>10. Held'
  BY <1>3, <1>5, SameHeld
<1>11. WhileLate'
  BY <1>1, <1>2, <1>4, <1>5, <1>6, LateKept
<1>12. AtEnd'
  <2>1. Changes' = Changes /\ \A s \in Side : Unique(s)' = Unique(s)
    BY <1>5, SameJob
  <2>2. Tallied(Now, Changes)'
    BY <1>4, <1>9, <2>1
  <2>3. ~target.published
    BY <1>2 DEF Old
  <2>4. QED
    BY <1>4, <1>5, <1>6, <2>1, <2>2, <2>3 DEF AtEnd
<1>13. QED
  BY <1>2, <1>5, <1>7, <1>8, <1>9, <1>10, <1>11, <1>12, EndOthers, GoesOn DEF Phases

\* Persist: the events are published, and they tell of all changes.
LEMMA PersistKeeps ==
    ASSUME Inv, Persist
    PROVE  Inv'
<1>1. pc = "persist" /\ pc \in Late /\ pc \in Early \cup Late /\ pc \notin {"return", "done"}
  BY DEF Persist, Late
<1>2. err = "none" /\ target = Old
  BY <1>1, Underway
<1>3. /\ Types /\ Sound(Now) /\ Held /\ Phases /\ Setting /\ input \in Seq(Row) /\ sink \in Output
      /\ sink.events \in Seq(Event)
  BY TypesFacts, SoundFacts DEF Inv
<1>4. /\ \A s \in Side : Unique(s)
      /\ Tallied(Now, Changes) /\ sink.stored = sink.events /\ job.output # "none"
  BY <1>1, <1>3 DEF Phases, AtEnd
<1>5. /\ sink' = [sink EXCEPT !.open = FALSE] /\ pc' = "return"
      /\ target' = [published |-> TRUE, events |-> sink.stored]
      /\ job' = job /\ side' = side /\ batch' = batch /\ input' = input /\ writers' = writers
      /\ files' = files /\ part' = part /\ entries' = entries /\ seen' = seen /\ ledger' = ledger
      /\ acc' = acc /\ temp' = temp /\ damaged' = damaged /\ err' = err
      /\ UNCHANGED <<job, store, held, temp, damaged>>
  BY DEF Persist, loop, store, held
<1>6. /\ sink' \in Output /\ sink'.events = sink.events /\ sink'.charged = sink.charged
      /\ sink'.capacity = sink.capacity /\ ~sink'.open
  BY <1>3, <1>5 DEF Output
<1>7. pc' \in {"flush", "persist", "return", "done"}
  BY <1>5
<1>8. Types'
  BY <1>3, <1>5, <1>7, EndOthers, SameTypes
<1>9. Sound(Now)' /\ \A n : Tallied(Now, n)' <=> Tallied(Now, n)
  BY <1>3, <1>5, <1>6, SinkEdited
<1>10. Held'
  BY <1>3, <1>5, SameHeld
<1>11. WhileLate'
  BY <1>1, <1>5, <1>6, LateKept
<1>12. Changes' = Changes /\ \A s \in Side : Unique(s)' = Unique(s)
  BY <1>5, SameJob
<1>13. target'.published /\ target'.events = sink.events
  BY <1>4, <1>5
<1>14. AtEnd'
  <2>1. Tallied(Now, Changes)'
    BY <1>4, <1>9, <1>12
  <2>2. QED
    BY <1>4, <1>5, <1>6, <1>12, <1>13, <2>1 DEF AtEnd
<1>15. Phases'
  BY <1>7, <1>11, <1>14, EndOthers DEF Phases
<1>16. Stored'
  <2>1. (Types /\ Phases /\ Sound(Now) /\ pc \in Early \cup Late)'
    BY <1>7, <1>8, <1>9, <1>15, EndOthers DEF Early, Late
  <2>2. QED
    BY <2>1, StoredNext
<1>17. ErrorsAreTrue'
  BY <1>2, <1>5 DEF ErrorsAreTrue
<1>18. Outcome'
  <2>1. Told(sink.events, Changes)
    BY <1>4, NowType DEF Tallied
  <2>2. Told(target'.events, Changes')
    BY <1>12, <1>13, <2>1
  <2>3. QED
    BY <1>2, <1>5, <2>2 DEF Outcome
<1>19. QED
  BY <1>8, <1>9, <1>10, <1>15, <1>16, <1>17, <1>18 DEF Inv

\* Return: nothing is left to do.
LEMMA ReturnKeeps ==
    ASSUME Inv, Return
    PROVE  Inv'
<1>1. pc = "return" /\ pc \in Late /\ pc \in Early \cup Late
  BY DEF Return, Late
<1>2. err = "none"
  BY <1>1, Underway
<1>3. /\ Types /\ Sound(Now) /\ Held /\ Phases /\ Setting /\ input \in Seq(Row)
  BY TypesFacts DEF Inv
<1>4. /\ \A s \in Side : Unique(s)
      /\ Tallied(Now, Changes) /\ ~sink.open /\ (target.published <=> job.output # "none")
  BY <1>1, <1>3 DEF Phases, AtEnd
<1>5. /\ pc' = "done"
      /\ job' = job /\ side' = side /\ batch' = batch /\ input' = input /\ writers' = writers
      /\ files' = files /\ part' = part /\ entries' = entries /\ seen' = seen /\ ledger' = ledger
      /\ acc' = acc /\ temp' = temp /\ sink' = sink /\ target' = target /\ damaged' = damaged
      /\ err' = err /\ UNCHANGED <<job, store, held, temp, damaged>>
  BY DEF Return, loop, store, held, result
<1>6. pc' \in {"flush", "persist", "return", "done"}
  BY <1>5
<1>7. Types'
  BY <1>3, <1>5, <1>6, EndOthers, SameTypes
<1>8. Now' = Now
  BY <1>5 DEF Now
<1>9. Sound(Now)' /\ \A n : Tallied(Now, n)' <=> Tallied(Now, n)
  BY <1>3, <1>5, <1>8, SoundKept, SameTally
<1>10. Held'
  BY <1>3, <1>5, SameHeld
<1>11. WhileLate'
  BY <1>1, <1>5, LateKept
<1>12. AtEnd'
  <2>1. Changes' = Changes /\ \A s \in Side : Unique(s)' = Unique(s)
    BY <1>5, SameJob
  <2>2. Tallied(Now, Changes)'
    BY <1>4, <1>9, <2>1
  <2>3. QED
    BY <1>4, <1>5, <2>1, <2>2 DEF AtEnd
<1>13. QED
  BY <1>2, <1>5, <1>6, <1>7, <1>9, <1>10, <1>11, <1>12, EndOthers, GoesOn DEF Phases

\* A file that is altered is not taken for its rows; the others are what they were.
LEMMA FilesAltered ==
    ASSUME Types, ~damaged, damaged', job' = job, part' = part,
           NEW s \in Side, NEW p \in Parts, OnFiles(s),
           NEW file, file \in Damages(files[s][p]),
           NEW of, of = files[s], NEW altered, altered = files'[s],
           \A q \in Parts : altered[q] = IF q = p THEN file ELSE of[q]
    PROVE  OnFiles(s)'
<1>1. PICK R : /\ Splits(R, AllRows(s))
               /\ \A q \in Parts : FileOf(files[s][q], R[q], job[s].schema)
               /\ \A q \in Parts : q < part => UniqueKeys(R[q])
  BY DEF OnFiles
<1>2. AllRows(s)' = AllRows(s)
  BY SameJob
<1>3. ASSUME NEW q \in Parts PROVE FileOf(files[s][q], R[q], job[s].schema)'
  <2>1. FileOf(of[q], R[q], job[s].schema)
    BY <1>1
  <2>2. CASE q # p
    <3>1. altered[q] = of[q]
      BY <2>2
    <3>2. FileOf(altered[q], R[q], job[s].schema)
      BY <2>1, <3>1
    <3>3. Intact(altered[q])' = Intact(altered[q])
      BY DEF Intact
    <3>4. QED
      BY <3>2, <3>3 DEF FileOf
  <2>3. CASE q = p
    <3>1. PICK rows \in Seq(Row) : rows = R[p]
      BY <1>1 DEF Splits
    <3>2. of[p] = Filed(rows, job[s].schema)
      BY <2>1, <2>3, <3>1 DEF FileOf
    <3>3. file \in Damages(Filed(rows, job[s].schema))
      BY <3>2
    <3>4. /\ file.payload \in Seq(Row) /\ file.records \in Int
          /\ Bytes(file.payload) <= Bytes(rows)
          /\ Intact(file) => file.payload = rows
      BY <3>3, FileDamaged
    <3>5. Intact(file)' = Intact(file)
      BY DEF Intact
    <3>6. altered[q] = file
      BY <2>3
    <3>7. QED
      BY <2>3, <3>1, <3>4, <3>5, <3>6 DEF FileOf
  <2>4. QED
    BY <2>2, <2>3
<1>4. QED
  BY <1>1, <1>2, <1>3 DEF OnFiles

\* The files of the other side are what they were.
LEMMA FilesSpared ==
    ASSUME damaged', job' = job, part' = part, NEW s \in Side, OnFiles(s),
           files'[s] = files[s]
    PROVE  OnFiles(s)'
<1>1. PICK R : /\ Splits(R, AllRows(s))
               /\ \A q \in Parts : FileOf(files[s][q], R[q], job[s].schema)
               /\ \A q \in Parts : q < part => UniqueKeys(R[q])
  BY DEF OnFiles
<1>2. AllRows(s)' = AllRows(s)
  BY SameJob
<1>3. \A q \in Parts : FileOf(files[s][q], R[q], job[s].schema)'
  BY <1>1 DEF FileOf, Intact
<1>4. QED
  BY <1>1, <1>2, <1>3 DEF OnFiles

\* Damage: somebody alters a file that was not opened yet.
LEMMA DamageKeeps ==
    ASSUME Inv, Damage
    PROVE  Inv'
<1>1. /\ pc = "open" /\ pc \in Late /\ pc \in Early \cup Late /\ pc \notin {"return", "done"}
      /\ ~damaged /\ damaged'
  BY DEF Damage, Late
<1>2. err = "none" /\ target = Old
  BY <1>1, Underway
<1>3. /\ Types /\ Sound(Now) /\ Held /\ Phases /\ Setting /\ part \in Parts
      /\ part \in Nat /\ Partitions \in Nat
      /\ DOMAIN files = Side /\ \A s \in Side : DOMAIN files[s] = Parts
  BY TypesFacts, Sizes DEF Inv, Types
<1>4. /\ ~InMemory /\ seen = {} /\ entries["after"] = << >> /\ entries["before"] = << >>
      /\ Tallied(Now, NotedSoFar(Past("after"), Past("before")))
      /\ writers = << >> /\ \A s \in Side : ReadSide(s)
      /\ job["before"].schema = job["after"].schema
      /\ temp.used = SideNeed("before") + SideNeed("after") + EventUnits(sink.events)
      /\ (sink.open <=> job.output # "none")
  BY <1>1, <1>3 DEF Phases, WhileOpen, WhileLoad, WhileLate
<1>5. PICK s \in Side, p \in part..Partitions : \E file \in Damages(files[s][p]) :
        files' = [files EXCEPT ![s][p] = file]
  BY DEF Damage
<1>6. PICK file \in Damages(files[s][p]) : files' = [files EXCEPT ![s][p] = file]
  BY <1>5
<1>7. p \in Parts
  BY <1>3 DEF Parts
<1>8. /\ pc' = pc /\ job' = job /\ side' = side /\ batch' = batch /\ input' = input
      /\ writers' = writers /\ part' = part /\ entries' = entries /\ seen' = seen
      /\ ledger' = ledger /\ acc' = acc /\ temp' = temp /\ sink' = sink /\ target' = target
      /\ err' = err
  BY DEF Damage, loop, held, result
<1>9. /\ DOMAIN files' = Side /\ \A t \in Side : DOMAIN files'[t] = Parts
      /\ \A t \in Side : t # s => files'[t] = files[t]
      /\ \A q \in Parts : files'[s][q] = IF q = p THEN file ELSE files[s][q]
  BY <1>3, <1>6, <1>7
<1>10. InMemory' = InMemory
  BY <1>8, SameJob
<1>11. \A t \in Side : ReadSide(t)'
  <2>1. SUFFICES ASSUME NEW t \in Side PROVE ReadSide(t)'
    OBVIOUS
  <2>2. \A r \in Side : OnFiles(r)
    BY <1>4 DEF ReadSide
  <2>3. CASE t = s
    <3>1. PICK of : of = files[s]
      OBVIOUS
    <3>2. PICK altered : altered = files'[s]
      OBVIOUS
    <3>3. \A q \in Parts : altered[q] = IF q = p THEN file ELSE of[q]
      BY <1>9, <3>1, <3>2
    <3>4. OnFiles(s)'
      BY <1>1, <1>3, <1>7, <1>8, <2>2, <3>1, <3>2, <3>3, FilesAltered
    <3>5. QED
      BY <1>4, <1>10, <2>3, <3>4 DEF ReadSide
  <2>4. CASE t # s
    <3>1. OnFiles(t)'
      BY <1>1, <1>8, <1>9, <2>2, <2>4, FilesSpared
    <3>2. QED
      BY <1>4, <1>10, <3>1 DEF ReadSide
  <2>5. QED
    BY <2>3, <2>4
<1>12. Types'
  BY <1>3, <1>8, <1>9 DEF Types, Setting
<1>13. Now' = Now
  BY <1>8 DEF Now
<1>14. Sound(Now)' /\ \A n : Tallied(Now, n)' <=> Tallied(Now, n)
  BY <1>3, <1>8, <1>13, SoundKept, SameTally
<1>15. Held'
  BY <1>3, <1>8, SameHeld
<1>16. WhileLate'
  <2>1. SideNeed("before")' = SideNeed("before") /\ SideNeed("after")' = SideNeed("after")
    BY <1>8, SameJob, Sides
  <2>2. EventUnits(sink.events)' = EventUnits(sink.events)
    BY <1>8 DEF EventUnits, EventBytes
  <2>3. QED
    BY <1>2, <1>4, <1>8, <1>11, <2>1, <2>2 DEF WhileLate
<1>17. WhileOpen' /\ WhileLoad'
  <2>1. /\ Past("before")' = Past("before") /\ Past("after")' = Past("after")
        /\ RowsOf("before")' = RowsOf("before") /\ RowsOf("after")' = RowsOf("after")
    BY <1>8, SameJob, SamePart, Sides
  <2>2. NotedSoFar(Past("after"), Past("before"))' = NotedSoFar(Past("after"), Past("before"))
    BY <2>1 DEF NotedSoFar
  <2>3. Tallied(Now, NotedSoFar(Past("after"), Past("before")))'
    BY <1>4, <1>14, <2>2
  <2>4. QED
    BY <1>1, <1>4, <1>8, <1>10, <2>3 DEF WhileOpen, WhileLoad
<1>18. WhileWalk' /\ WhileRest' /\ AtEnd'
  BY <1>1, <1>8 DEF WhileWalk, WhileRest, AtEnd
<1>19. pc' \in Late /\ pc' \in Early \cup Late
  BY <1>1, <1>8
<1>20. QED
  BY <1>2, <1>8, <1>12, <1>14, <1>15, <1>16, <1>17, <1>18, <1>19, LateOthers, GoesOn DEF Phases

-----------------------------------------------------------------------------
(* The properties *)

\* Every step keeps the invariant.
LEMMA InvNext ==
    ASSUME Inv, [Next]_vars
    PROVE  Inv'
<1>1. CASE Begin \/ StartSide \/ ReadBatch \/ HoldRow \/ WriteRow \/ EndSide \/ Match
  BY <1>1, BeginKeeps, StartSideKeeps, ReadBatchKeeps, HoldRowKeeps, WriteRowKeeps, EndSideKeeps,
     MatchKeeps
<1>2. CASE OpenBefore \/ OpenAfter \/ Walk \/ WalkEnd \/ Rest \/ RestEnd
  BY <1>2, OpenBeforeKeeps, OpenAfterKeeps, WalkKeeps, WalkEndKeeps, RestKeeps, RestEndKeeps
<1>3. CASE Flush \/ Persist \/ Return
  BY <1>3, FlushKeeps, PersistKeeps, ReturnKeeps
<1>4. CASE IoFails \/ Crash \/ Damage \/ Cancel
  BY <1>4, IoFailsKeeps, CrashKeeps, DamageKeeps, CancelKeeps
<1>5. CASE UNCHANGED vars
  BY <1>5, StutterKeeps DEF vars
<1>6. QED
  BY <1>1, <1>2, <1>3, <1>4, <1>5 DEF Next

\* The invariant of the diff: in every phase the counts, samples and events are those of
\* the changes among the rows that were compared so far.
THEOREM Invariance == Spec => []Inv
<1>1. Init => Inv
  BY InitInv
<1>2. Inv /\ [Next]_vars => Inv'
  BY InvNext
<1>3. QED
  BY <1>1, <1>2, PTL DEF Spec

\* A report that diff_batches returns as a success is exact: it counts the added, the removed
\* and the changed rows of the two datasets, and its samples show different changes of their
\* kind, in the order of their displayed keys, as many as were asked for and none after one
\* that is left out.
THEOREM ReportExact == Spec => []ReportIsExact
<1>1. Inv => ReportIsExact
  BY ReportFollows
<1>2. QED
  BY <1>1, Invariance, PTL

\* The file of changes is published whole or not at all: the path names the old file, or
\* one in which every event occurs as often as there are changes that it shows.  A diff that
\* fails leaves the old file and no temporary one (AtomicSink, finish).
THEOREM OutputAtomic == Spec => []OutputIsAtomic
<1>1. Inv => OutputIsAtomic
  BY OutputFollows
<1>2. QED
  BY <1>1, Invariance, PTL

\* An error is the one of its cause: an altered file, a key twice in a dataset, another
\* schema, or a limit on events or temporary storage that the whole diff exceeds.
THEOREM ErrorsTrue == Spec => []ErrorsAreTrue
<1>1. Inv => ErrorsAreTrue
  BY DEF Inv
<1>2. QED
  BY <1>1, Invariance, PTL

\* Rows, keys and events held in memory, and everything on disk, are reserved before, in
\* ledgers that stay within the limits of the job (MemoryLedger, TempLedger).
THEOREM UseReserved == Spec => []UseIsReserved
<1>1. Inv => UseIsReserved
  BY UseFollows
<1>2. QED
  BY <1>1, Invariance, PTL

===============================================================================
