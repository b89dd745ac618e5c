---------------------------- MODULE EvidenceProofs ----------------------------
(***************************************************************************)
(* Proofs about evidence, receipts and acceptance bundles, for any data,   *)
(* contracts, policies, numbers of samples, artefacts and alterations, and *)
(* about their publication, for every number of publishers of either kind, *)
(* every size and every limit.                                             *)
(*                                                                         *)
(* What a key of ours has signed is one of the issued artefacts, and each  *)
(* of those was made from one scan.  An altered copy keeps a signature of  *)
(* ours only together with the message that it was made of, so a copy that *)
(* verifies under our key is one of the issued artefacts in every field.   *)
(*                                                                         *)
(* Publication (the second part) is a system of its own: nothing but the   *)
(* module is shared.                                                       *)
(***************************************************************************)
EXTENDS Receipts, Publication, FiniteSetTheorems, SequenceTheorems,
        WellFoundedInduction, NaturalsInduction, TLAPS

\* The step of the folds does not matter here: only flattening is used.
First(a, b) == a
Seqs == INSTANCE SequenceFolds WITH Op <- First

-----------------------------------------------------------------------------
(* The inductive invariant *)

\* A report that a check makes of a dataset.
IsReport(report, d) ==
    /\ d \in Datasets
    /\ \E contract \in Contracts, samples \in Samples :
        /\ Compiles(contract, d.columns)
        /\ report = Report(d.columns, AllRows(d), contract, samples)

\* Evidence binds a report to a fingerprint of as many rows, which is the one of the same
\* scan unless it was assembled later.
IsEvidence(e, report, how, d) ==
    /\ e = Envelope(report, e.dataset)
    /\ e.dataset.version = 2 /\ e.dataset.rows = report.rows
    /\ how # "assembled" => e.dataset = Fingerprint(d.columns, AllRows(d))

IsManifest(m, d) ==
    /\ d.parts # <<>>
    /\ \E report \in {Report(d.columns, AllRows(d), contract, samples) :
                        contract \in Contracts, samples \in Samples} :
        m = Manifest(report, PartFingerprints(d))

WorkInv ==
    /\ data \in Datasets /\ DOMAIN work = DOMAIN NoWork
    /\ work.how \in {"none", "check", "partitions", "assembled"}
    /\ work.how = "none" => work = NoWork
    /\ work.how # "none" => IsReport(work.report, work.data)
    /\ work.how \in {"check", "assembled"} =>
        /\ IsEvidence(work.evidence, work.report, work.how, work.data)
        /\ work.manifest = Null
    /\ work.how = "partitions" => work.evidence = Null /\ IsManifest(work.manifest, work.data)

\* What an artefact of ours says, and of what.
IsReceipt(entry) ==
    LET a == entry.artefact
        content == a.unsigned.content
    IN /\ a.kind \in {"v1", "v2", "partition"}
       /\ a = Receipt(a.kind, content, a.unsigned.issued_at, OurKey)
       /\ a.kind = "v2" =>
            /\ IsReport(content.result.report_digest.of, entry.data)
            /\ IsEvidence(content, content.result.report_digest.of, entry.how, entry.data)
       /\ a.kind = "partition" => entry.data \in Datasets /\ IsManifest(content, entry.data)

IsBundle(entry) ==
    /\ entry.data \in Datasets /\ ~Raises(entry.data) /\ entry.how = "accept"
    /\ \E contract \in Contracts, policy \in Policies, key \in {OurKey, Null} :
        entry.artefact = Bundle(Payload(entry.data, contract, policy, Min(Samples)), key)

IssuedInv ==
    /\ IsFiniteSet(issued) /\ Cardinality(issued) <= MaxIssued
    /\ \A entry \in issued : IsReceipt(entry) \/ IsBundle(entry)
    /\ \A x, y \in issued : x.artefact.kind = y.artefact.kind

\* A copy has the fields of its kind, and its signature is one of ours that was issued,
\* unless somebody else signed it.
Fields(kind) ==
    IF kind = "bundle" THEN {"kind", "unsigned", "hash", "public_key", "signature"}
    ELSE {"kind", "unsigned", "signature"}
Shaped(a) == a = [f \in Fields(a.kind) |-> a[f]]

CopyInv ==
    /\ edits \in 0..MaxEdits
    /\ copy # Null =>
        /\ Shaped(copy) /\ work = NoWork
        /\ \A entry \in issued : entry.artefact.kind = copy.kind
        /\ \/ \E entry \in issued : copy.signature = entry.artefact.signature
           \/ copy.signature = [key |-> OtherKey, message |-> copy.signature.message]

Inv == WorkInv /\ IssuedInv /\ CopyInv

-----------------------------------------------------------------------------
(* Datasets and reports *)

\* Flattening and counting are the same in the two modules.
LEMMA SameOperators ==
    ASSUME NEW s
    PROVE  /\ FlattenSeq(s) = Seqs!FlattenSeq(s)
           /\ (Seqs!IsFiniteSet(s) <=> IsFiniteSet(s)) /\ Seqs!Cardinality(s) = Cardinality(s)
BY DEF FlattenSeq, Seqs!FlattenSeq, IsFiniteSet, Seqs!IsFiniteSet, Cardinality, Seqs!Cardinality

\* The elements of a sequence.
LEMMA SeqElements ==
    ASSUME NEW S, NEW s \in Seq(S)
    PROVE  Len(s) \in Nat /\ DOMAIN s = 1..Len(s) /\ \A n \in 1..Len(s) : s[n] \in S
OBVIOUS

\* A function on 1..n is a sequence of length n.
LEMMA FunctionIsSeq ==
    ASSUME NEW S, NEW n \in Nat, NEW s \in [1..n -> S]
    PROVE  s \in Seq(S) /\ Len(s) = n
OBVIOUS

\* The smaller of two numbers.
LEMMA MinOfTwo ==
    ASSUME NEW m \in Nat, NEW n \in Nat
    PROVE  Min({m, n}) = IF m <= n THEN m ELSE n
BY DEF Min

\* The least number of samples is one of them.
LEMMA LeastSamples == Min(Samples) \in Samples
<1>1. Samples \in SUBSET Nat /\ Samples # {}
  BY ReceiptsAssumption
<1>2. PICK x \in Samples : \A y \in Samples : <<y, x>> \notin OpToRel(<, Nat)
  BY <1>1, NatLessThanWellFounded, WFMin
<1>3. \A y \in Samples : ~ (y < x)
  BY <1>1, <1>2 DEF OpToRel
<1>4. \A y \in Samples : x <= y
  BY <1>1, <1>3
<1>5. QED
  BY <1>4 DEF Min

\* The rows and columns of a dataset are sequences.
LEMMA DataTyped ==
    ASSUME NEW d \in Datasets
    PROVE  /\ AllRows(d) \in Seq(RowsIn(d))
           /\ d.columns \in Seq(Range(d.columns))
           /\ d.parts \in Seq(Seq(Seq(RowsIn(d))))
           /\ Len(AllRows(d)) \in Nat /\ DOMAIN AllRows(d) = 1..Len(AllRows(d))
           /\ Len(d.columns) \in Nat /\ DOMAIN d.columns = 1..Len(d.columns)
           /\ Len(d.parts) \in Nat /\ DOMAIN d.parts = 1..Len(d.parts)
<1> DEFINE S == RowsIn(d)
           p == d.parts
           c == d.columns
           C == Range(d.columns)
<1>1. c \in Seq(C) /\ p \in Seq(Seq(Seq(S)))
  BY ReceiptsAssumption
<1>2. AllRows(d) = FlattenSeq(FlattenSeq(p))
  BY DEF AllRows, RowsOf
<1> HIDE DEF S, p, c, C
<1>3. FlattenSeq(p) \in Seq(Seq(S))
  BY <1>1, SameOperators, Seqs!FlattenType
<1>4. FlattenSeq(FlattenSeq(p)) \in Seq(S)
  BY <1>3, SameOperators, Seqs!FlattenType
<1>5. AllRows(d) \in Seq(S)
  BY <1>2, <1>4
<1>6. /\ Len(AllRows(d)) \in Nat /\ DOMAIN AllRows(d) = 1..Len(AllRows(d))
      /\ Len(c) \in Nat /\ DOMAIN c = 1..Len(c)
      /\ Len(p) \in Nat /\ DOMAIN p = 1..Len(p)
  BY <1>1, <1>5, SeqElements
<1>7. QED
  BY <1>1, <1>5, <1>6 DEF S, p, c, C

\* The columns with a rule, as a set.
Ruled(contract, columns) == {i \in 1..Len(columns) : columns[i] \in contract.columns}

\* One sequence for each element, of one element or none.
Singles(n, K, f) == [i \in 1..n |-> IF i \in K THEN <<f[i]>> ELSE <<>>]

\* What is flattened from them is as long as the set of those that have one, and holds
\* all of theirs.
LEMMA SinglesFacts ==
    ASSUME NEW n \in Nat, NEW K \in SUBSET (1..n), NEW f
    PROVE  LET s == FlattenSeq(Singles(n, K, f))
           IN /\ s \in Seq({f[i] : i \in K})
              /\ IsFiniteSet(K) /\ Len(s) = Cardinality(K)
              /\ \A i \in K : \E k \in 1..Len(s) : s[k] = f[i]
<1> DEFINE S == {f[i] : i \in K}
           ss == Singles(n, K, f)
           s == FlattenSeq(ss)
<1>1. ss \in Seq(Seq(S)) /\ Len(ss) = n
  <2>1. \A i \in K : <<f[i]>> \in Seq(S)
    OBVIOUS
  <2>2. <<>> \in Seq(S)
    OBVIOUS
  <2> HIDE DEF S
  <2>3. ss \in [1..n -> Seq(S)]
    BY <2>1, <2>2 DEF Singles
  <2>4. QED
    BY <2>3, FunctionIsSeq
<1>2. \A i \in 1..n : ss[i] = IF i \in K THEN <<f[i]>> ELSE <<>>
  BY DEF Singles
<1> HIDE DEF S, ss
<1>3. ASSUME NEW i \in 1..n PROVE Len(ss[i]) = IF i \in K THEN 1 ELSE 0
  <2>1. CASE i \in K
    <3>1. ss[i] = <<f[i]>>
      BY <1>2, <2>1
    <3>2. Len(<<f[i]>>) = 1
      OBVIOUS
    <3>3. QED
      BY <2>1, <3>1, <3>2
  <2>2. CASE i \notin K
    <3>1. ss[i] = <<>>
      BY <1>2, <2>2
    <3>2. Len(<<>>) = 0
      OBVIOUS
    <3>3. QED
      BY <2>2, <3>1, <3>2
  <2>3. QED
    BY <2>1, <2>2
<1>4. s \in Seq(S)
  BY <1>1, SameOperators, Seqs!FlattenType
<1>5. IsFiniteSet(K) /\ Len(s) = Cardinality(K)
  BY <1>1, <1>3, SameOperators, Seqs!FlattenSingles
<1>6. ASSUME NEW i \in K PROVE \E k \in 1..Len(s) : s[k] = f[i]
  <2> DEFINE m == i - 1
             a == FlattenSeq(SubSeq(ss, 1, m))
             b == FlattenSeq(SubSeq(ss, 1, m + 1))
  <2>1. m \in Nat /\ m < Len(ss) /\ m + 1 = i /\ m + 1 \in 0..Len(ss) /\ i \in 1..n
    BY <1>1
  <2> HIDE DEF m
  <2>2. a \in Seq(S) /\ ss[i] \in Seq(S) /\ b = a \o ss[i]
    BY <1>1, <2>1, SameOperators, Seqs!FlattenStep
  <2>3. Len(b) <= Len(s) /\ \A r \in 1..Len(b) : s[r] = b[r]
    BY <1>1, <2>1, SameOperators, Seqs!FlattenPrefix
  <2>4. ss[i] = <<f[i]>>
    BY <1>2, <1>6, <2>1
  <2> HIDE DEF a, b
  <2>5. Len(b) = Len(a) + 1 /\ b[Len(a) + 1] = f[i] /\ Len(a) \in Nat
    BY <2>2, <2>4
  <2>6. Len(s) \in Nat
    BY <1>4
  <2> HIDE DEF s
  <2>7. Len(a) + 1 \in 1..Len(s) /\ Len(a) + 1 \in 1..Len(b)
    BY <2>3, <2>5, <2>6
  <2>8. QED
    BY <2>3, <2>5, <2>7
<1>7. QED
  BY <1>4, <1>5, <1>6 DEF S, ss

\* The violations that a check finds, before any is dropped.
Found(contract, columns, rows) ==
    LET plan == PlanColumns(contract, columns)
    IN FlattenSeq([i \in DOMAIN plan |-> BadCells(rows, plan[i])])

\* The plan lists every column that has a rule, once.
LEMMA PlanFacts ==
    ASSUME NEW d \in Datasets, NEW contract
    PROVE  LET plan == PlanColumns(contract, d.columns)
               K == Ruled(contract, d.columns)
           IN /\ plan \in Seq(K) /\ K \in SUBSET (1..Len(d.columns))
              /\ Len(plan) \in Nat /\ DOMAIN plan = 1..Len(plan)
              /\ \A i \in K : \E k \in 1..Len(plan) : plan[k] = i
              /\ \A k, l \in 1..Len(plan) : plan[k] = plan[l] => k = l
<1> DEFINE n == Len(d.columns)
           K == Ruled(contract, d.columns)
           f == [i \in 1..n |-> i]
           plan == PlanColumns(contract, d.columns)
<1>1. n \in Nat /\ DOMAIN d.columns = 1..n
  BY DataTyped
<1>2. K \in SUBSET (1..n)
  BY DEF Ruled
<1>3. \A i \in K : f[i] = i
  BY <1>2
<1>4. [i \in DOMAIN d.columns |-> IF d.columns[i] \in contract.columns THEN <<i>> ELSE <<>>]
        = Singles(n, K, f)
  BY <1>1 DEF Singles, Ruled
<1>5. plan = FlattenSeq(Singles(n, K, f))
  BY <1>4 DEF PlanColumns
<1> HIDE DEF n, K, f, plan
<1>6. {f[i] : i \in K} = K
  BY <1>3
<1>7. /\ plan \in Seq(K) /\ IsFiniteSet(K) /\ Len(plan) = Cardinality(K)
      /\ \A i \in K : \E k \in 1..Len(plan) : plan[k] = f[i]
  <2>1. /\ plan \in Seq({f[i] : i \in K}) /\ IsFiniteSet(K) /\ Len(plan) = Cardinality(K)
        /\ \A i \in K : \E k \in 1..Len(plan) : plan[k] = f[i]
    BY ONLY ZenonT(40), <1>1, <1>2, <1>5, SinglesFacts
  <2>2. QED
    BY <1>6, <2>1
<1>8. Len(plan) \in Nat /\ DOMAIN plan = 1..Len(plan) /\ plan \in [1..Len(plan) -> K]
  BY <1>7
<1>9. \A i \in K : \E k \in 1..Len(plan) : plan[k] = i
  BY <1>3, <1>7
<1>10. \A k, l \in 1..Len(plan) : plan[k] = plan[l] => k = l
  <2>1. plan \in Surjection(1..Len(plan), K)
    BY <1>8, <1>9 DEF Surjection
  <2>2. IsFiniteSet(1..Len(plan)) /\ Cardinality(1..Len(plan)) = Len(plan)
    <3>1. 1 \in Int /\ Len(plan) \in Int
      BY <1>8
    <3>2. /\ IsFiniteSet(1..Len(plan))
          /\ Cardinality(1..Len(plan)) = IF 1 > Len(plan) THEN 0 ELSE Len(plan) - 1 + 1
      BY <3>1, FS_Interval
    <3>3. QED
      BY <1>8, <3>2
  <2>3. plan \in Injection(1..Len(plan), K)
    BY <1>7, <2>1, <2>2, FS_SurjSameCardinalityImpliesInj
  <2>4. QED
    BY <2>3 DEF Injection, IsInjective
<1>11. QED
  BY <1>2, <1>7, <1>8, <1>9, <1>10 DEF n, K, plan

\* A check counts one violation for each bad cell of a column with a rule.
LEMMA BadCellsFacts ==
    ASSUME NEW rows, NEW S, rows \in Seq(S), NEW column
    PROVE  LET bad == {r \in 1..Len(rows) : rows[r][column] = "bad"}
               cell == [r \in 1..Len(rows) |-> [row |-> r - 1, column |-> column]]
           IN /\ BadCells(rows, column) \in Seq({cell[r] : r \in bad})
              /\ IsFiniteSet(bad) /\ Len(BadCells(rows, column)) = Cardinality(bad)
<1> DEFINE n == Len(rows)
           bad == {r \in 1..n : rows[r][column] = "bad"}
           cell == [r \in 1..n |-> [row |-> r - 1, column |-> column]]
<1>1. n \in Nat /\ DOMAIN rows = 1..n
  OBVIOUS
<1>2. bad \in SUBSET (1..n)
  OBVIOUS
<1>3. [r \in DOMAIN rows |->
          IF rows[r][column] = "bad" THEN <<[row |-> r - 1, column |-> column]>> ELSE <<>>]
        = Singles(n, bad, cell)
  BY <1>1 DEF Singles
<1>4. BadCells(rows, column) = FlattenSeq(Singles(n, bad, cell))
  BY <1>3 DEF BadCells
<1> HIDE DEF n, bad, cell
<1>5. /\ BadCells(rows, column) \in Seq({cell[r] : r \in bad})
      /\ IsFiniteSet(bad) /\ Len(BadCells(rows, column)) = Cardinality(bad)
  BY <1>1, <1>2, <1>4, SinglesFacts
<1>6. QED
  BY <1>5 DEF n, bad, cell

\* The bad cells of the columns with a rule.
BadOnes(contract, columns, rows) ==
    {p \in (DOMAIN rows) \X (DOMAIN columns) :
        /\ rows[p[1]][p[2]] = "bad"
        /\ columns[p[2]] \in contract.columns}

\* What a finding may be.
Violations(d) ==
    {[row |-> r - 1, column |-> c] : r \in 1..Len(AllRows(d)), c \in 1..Len(d.columns)}

\* A check finds as many violations as there are bad cells.
LEMMA FoundFacts ==
    ASSUME NEW d \in Datasets, NEW contract
    PROVE  LET rows == AllRows(d)
               found == Found(contract, d.columns, rows)
           IN /\ found \in Seq(Violations(d)) /\ Len(found) \in Nat
              /\ Len(found) = Cardinality(BadOnes(contract, d.columns, rows))
<1> DEFINE rows == AllRows(d)
           columns == d.columns
           R == 1..Len(rows)
           C == 1..Len(columns)
           cells == {[row |-> r - 1, column |-> c] : r \in R, c \in C}
           K == Ruled(contract, columns)
           plan == PlanColumns(contract, columns)
           n == Len(plan)
           bad == [i \in 1..n |-> {r \in R : rows[r][plan[i]] = "bad"}]
           ss == [i \in 1..n |-> BadCells(rows, plan[i])]
<1>1. /\ rows \in Seq(RowsIn(d)) /\ DOMAIN rows = R /\ DOMAIN columns = C
      /\ Len(rows) \in Nat /\ Len(columns) \in Nat
  BY DataTyped
<1>2. /\ plan \in Seq(K) /\ K \in SUBSET C
      /\ n \in Nat /\ DOMAIN plan = 1..n
      /\ \A i \in K : \E k \in 1..n : plan[k] = i
      /\ \A k, l \in 1..n : plan[k] = plan[l] => k = l
  BY PlanFacts
<1>3. Found(contract, columns, rows) = FlattenSeq(ss)
  BY <1>2 DEF Found
<1>4. \A c : c \in K <=> c \in C /\ columns[c] \in contract.columns
  BY DEF Ruled
<1> HIDE DEF rows, columns, K, plan, n
<1>5. \A i \in 1..n : plan[i] \in K /\ plan[i] \in C
  <2> HIDE DEF C
  <2>1. QED
    BY <1>2
<1>6. ASSUME NEW i \in 1..n
      PROVE  /\ ss[i] \in Seq(cells)
             /\ IsFiniteSet(bad[i]) /\ Len(ss[i]) = Cardinality(bad[i])
  <2> DEFINE column == plan[i]
             those == {r \in 1..Len(rows) : rows[r][column] = "bad"}
             cell == [r \in 1..Len(rows) |-> [row |-> r - 1, column |-> column]]
             made == {cell[r] : r \in those}
  <2>1. ss[i] = BadCells(rows, column) /\ bad[i] = those
    OBVIOUS
  <2>2. column \in C
    BY <1>5
  <2> HIDE DEF column
  <2>3. /\ BadCells(rows, column) \in Seq(made)
        /\ IsFiniteSet(those) /\ Len(BadCells(rows, column)) = Cardinality(those)
    BY ONLY ZenonT(40), <1>1, BadCellsFacts
  <2>4. ASSUME NEW x \in made PROVE x \in cells
    <3>1. PICK r \in those : x = cell[r]
      OBVIOUS
    <3>2. x = [row |-> r - 1, column |-> column] /\ r \in R
      BY <3>1
    <3>3. QED
      BY <2>2, <3>2
  <2> HIDE DEF made, those, cells, ss, bad
  <2>5. BadCells(rows, column) \in Seq(cells)
    BY <2>3, <2>4
  <2>6. QED
    BY <2>1, <2>3, <2>5
<1>7. ss \in Seq(Seq(cells)) /\ Len(ss) = n
  <2>1. n \in Nat
    BY <1>2
  <2> HIDE DEF cells
  <2>2. ss \in [1..n -> Seq(cells)]
    BY <1>6
  <2> HIDE DEF ss
  <2>3. QED
    BY <2>1, <2>2, FunctionIsSeq
<1> DEFINE N == Seqs!Numbered(bad, n)
           B == BadOnes(contract, columns, rows)
<1>8. FlattenSeq(ss) \in Seq(cells) /\ IsFiniteSet(N) /\ Len(FlattenSeq(ss)) = Cardinality(N)
  <2> HIDE DEF ss, cells, bad
  <2>1. FlattenSeq(ss) = Seqs!FlattenSeq(ss)
    BY SameOperators
  <2>2. FlattenSeq(ss) \in Seq(cells)
    BY <1>7, <2>1, Seqs!FlattenType
  <2>3. \A i \in 1..Len(ss) : Seqs!IsFiniteSet(bad[i]) /\ Len(ss[i]) = Seqs!Cardinality(bad[i])
    BY <1>6, <1>7, SameOperators
  <2>4. /\ Seqs!IsFiniteSet(Seqs!Numbered(bad, Len(ss)))
        /\ Len(Seqs!FlattenSeq(ss)) = Seqs!Cardinality(Seqs!Numbered(bad, Len(ss)))
    BY <1>7, <2>3, Seqs!FlattenCounts
  <2>5. QED
    BY <1>7, <2>1, <2>2, <2>4, SameOperators
<1>9. \A x : x \in N <=> \E i \in 1..n, r \in R : x = <<i, r>> /\ rows[r][plan[i]] = "bad"
  BY DEF Seqs!Numbered
<1>10. \A x : x \in B <=>
          \E r \in R, c \in C : x = <<r, c>> /\ rows[r][c] = "bad" /\ c \in K
  BY <1>1, <1>4 DEF BadOnes
<1> DEFINE f == [x \in N |-> <<x[2], plan[x[1]]>>]
<1> HIDE DEF N, B, R, C, cells, bad, ss
<1>11. \A i \in 1..n, r \in R : rows[r][plan[i]] = "bad" => <<i, r>> \in N
  BY <1>9
<1>12. \A i \in 1..n, r \in R : <<i, r>> \in N => f[<<i, r>>] = <<r, plan[i]>>
  OBVIOUS
<1>13. f \in [N -> B]
  <2>1. ASSUME NEW x \in N PROVE f[x] \in B
    <3>1. PICK i \in 1..n, r \in R : x = <<i, r>> /\ rows[r][plan[i]] = "bad"
      BY <1>9
    <3>2. f[x] = <<r, plan[i]>>
      BY <1>12, <3>1
    <3>3. QED
      BY <1>5, <1>10, <3>1, <3>2
  <2>2. QED
    BY <2>1
<1>14. \A y \in B : \E x \in N : f[x] = y
  <2> TAKE y \in B
  <2>1. PICK r \in R, c \in C : y = <<r, c>> /\ rows[r][c] = "bad" /\ c \in K
    BY <1>10
  <2>2. PICK i \in 1..n : plan[i] = c
    BY <1>2, <2>1
  <2>3. <<i, r>> \in N
    BY <1>11, <2>1, <2>2
  <2>4. QED
    BY <1>12, <2>1, <2>2, <2>3
<1>15. \A x, y \in N : f[x] = f[y] => x = y
  <2> SUFFICES ASSUME NEW x \in N, NEW y \in N, f[x] = f[y] PROVE x = y
    OBVIOUS
  <2>1. PICK i \in 1..n, r \in R : x = <<i, r>>
    BY <1>9
  <2>2. PICK j \in 1..n, s \in R : y = <<j, s>>
    BY <1>9
  <2>3. <<r, plan[i]>> = <<s, plan[j]>>
    BY <1>12, <2>1, <2>2
  <2>4. QED
    BY <1>2, <2>1, <2>2, <2>3
<1> HIDE DEF f
<1>16. f \in Bijection(N, B)
  BY <1>13, <1>14, <1>15 DEF Bijection, Injection, Surjection, IsInjective
<1>17. IsFiniteSet(B) /\ Cardinality(B) = Cardinality(N)
  BY <1>8, <1>16, FS_Bijection DEF ExistsBijection
<1>18. /\ Found(contract, columns, rows) \in Seq(cells)
       /\ Len(Found(contract, columns, rows)) = Cardinality(B)
  BY <1>3, <1>8, <1>17
<1>19. Len(Found(contract, columns, rows)) \in Nat
  BY <1>18
<1>20. QED
  BY <1>18, <1>19 DEF rows, columns, cells, R, C, B, Violations

\* What a report says of its findings: all violations are counted, and the first ones are
\* retained up to the limit.
LEMMA ReportFacts ==
    ASSUME NEW d \in Datasets, NEW contract, NEW samples \in Samples
    PROVE  LET rows == AllRows(d)
               report == Report(d.columns, rows, contract, samples)
               count == report.violation_count
           IN /\ count \in Nat /\ samples \in Nat
              /\ count = Cardinality(BadOnes(contract, d.columns, rows))
              /\ Len(report.findings) = IF samples <= count THEN samples ELSE count
              /\ report.valid <=> count = 0
              /\ report.truncated <=> Len(report.findings) < count
              /\ report.rows = Len(rows) /\ report.resources = [max_samples |-> samples]
<1> DEFINE rows == AllRows(d)
           found == Found(contract, d.columns, rows)
           report == Report(d.columns, rows, contract, samples)
           kept == SubSeq(found, 1, Min({samples, Len(found)}))
<1>1. /\ found \in Seq(Violations(d)) /\ Len(found) \in Nat
      /\ Len(found) = Cardinality(BadOnes(contract, d.columns, rows))
  BY FoundFacts
<1>2. samples \in Nat
  BY ReceiptsAssumption
<1>3. /\ report.valid = (found = <<>>) /\ report.violation_count = Len(found)
      /\ report.truncated = (Len(found) > Len(kept)) /\ report.findings = kept
      /\ report.rows = Len(rows) /\ report.resources = [max_samples |-> samples]
  BY DEF Report, Found
<1> HIDE DEF report, found, rows
<1>4. found = <<>> <=> Len(found) = 0
  BY <1>1
<1>5. Min({samples, Len(found)}) = IF samples <= Len(found) THEN samples ELSE Len(found)
  BY <1>1, <1>2, MinOfTwo
<1>6. Len(kept) = IF samples <= Len(found) THEN samples ELSE Len(found)
  BY <1>1, <1>2, <1>5
<1> HIDE DEF kept
<1>7. Len(kept) \in Nat
  BY <1>1, <1>2, <1>6
<1>8. Len(found) > Len(kept) <=> Len(kept) < Len(found)
  BY <1>1, <1>7
<1>9. QED
  BY <1>1, <1>2, <1>3, <1>4, <1>6, <1>8 DEF report, rows

\* The evidence of a report passes its validation, whatever fingerprint of that many rows
\* it is bound to.
LEMMA EnvelopeIsConsistent ==
    ASSUME NEW d \in Datasets, NEW contract, NEW samples \in Samples, NEW fingerprint,
           fingerprint.version = 2
    PROVE  Consistent(Envelope(Report(d.columns, AllRows(d), contract, samples), fingerprint))
<1> DEFINE report == Report(d.columns, AllRows(d), contract, samples)
           e == Envelope(report, fingerprint)
<1>1. /\ report.violation_count \in Nat /\ samples \in Nat
      /\ Len(report.findings) = IF samples <= report.violation_count
                                  THEN samples ELSE report.violation_count
      /\ report.valid <=> report.violation_count = 0
      /\ report.truncated <=> Len(report.findings) < report.violation_count
      /\ report.resources = [max_samples |-> samples]
  BY ReportFacts
<1> HIDE DEF report
<1>2. /\ e.dataset.version = 2 /\ e.operation = "check"
      /\ e.result.valid = report.valid /\ e.result.violation_count = report.violation_count
      /\ e.result.output_records = Len(report.findings)
      /\ e.result.truncated = report.truncated
      /\ e.resources = report.resources
  BY DEF Envelope
<1> HIDE DEF e
<1>3. e.resources.max_samples = samples
  BY <1>1, <1>2
<1>4. /\ Len(report.findings) <= report.violation_count
      /\ Len(report.findings) <= samples
  BY <1>1
<1>5. Consistent(e)
  BY <1>1, <1>2, <1>3, <1>4 DEF Consistent
<1>6. QED
  BY <1>5 DEF e, report

\* The manifest of a report over one partition or more passes its validation.
LEMMA ManifestIsValid ==
    ASSUME NEW d \in Datasets, d.parts # <<>>, NEW report
    PROVE  ManifestHolds(Manifest(report, PartFingerprints(d)))
<1> DEFINE prints == PartFingerprints(d)
           m == Manifest(report, prints)
           n == Len(d.parts)
           entry(i) == [index |-> i - 1,
                        fingerprint |-> prints[i],
                        schema_digest |-> report.schema_digest,
                        contract_source_digest |-> report.contract_source_digest,
                        compiled_plan_digest |-> report.compiled_plan_digest,
                        result_digest |-> PartResultDigest(i - 1, prints[i], report)]
<1>1. n \in Nat /\ DOMAIN d.parts = 1..n
  BY DataTyped
<1>2. n # 0
  <2>1. d.parts \in Seq(Seq(Seq(RowsIn(d))))
    BY DataTyped
  <2> HIDE DEF n
  <2>2. n = Len(d.parts)
    BY DEF n
  <2>3. QED
    BY <2>1, <2>2
<1>3. DOMAIN prints = 1..n /\ \A i \in 1..n : prints[i].version = 2
  BY <1>1 DEF PartFingerprints, Fingerprint
<1>4. /\ m.partitions = [i \in 1..n |-> entry(i)]
      /\ m.root_digest = RootDigest(m)
  BY <1>3 DEF Manifest, RootDigest
<1> HIDE DEF prints, m, n
<1>5. 1 \in 1..n
  BY <1>1, <1>2
<1>6. m.partitions # <<>>
  <2>1. DOMAIN m.partitions = 1..n
    BY <1>4
  <2>2. DOMAIN <<>> = {}
    OBVIOUS
  <2>3. QED
    BY <1>5, <2>1, <2>2
<1>7. BodyHolds(m)
  BY <1>3, <1>4, <1>5, <1>6 DEF BodyHolds
<1>8. QED
  BY <1>4, <1>7 DEF ManifestHolds, m, prints

-----------------------------------------------------------------------------
(* The invariant holds initially, and every action keeps it *)

\* Where nothing is issued and the reader has nothing, the invariant holds.
LEMMA InvInit == Init => Inv
<1> SUFFICES ASSUME Init PROVE Inv
  OBVIOUS
<1>1. WorkInv
  <2>1. work = NoWork /\ work.how = "none" /\ data \in Datasets
    BY DEF Init, NoWork
  <2>2. QED
    BY <2>1 DEF WorkInv
<1>2. IssuedInv
  <2>1. issued = {} /\ IsFiniteSet({}) /\ Cardinality({}) = 0 /\ MaxIssued \in Nat
    BY FS_EmptySet, ReceiptsAssumption DEF Init
  <2>2. QED
    BY <2>1 DEF IssuedInv
<1>3. CopyInv
  <2>1. copy = Null /\ edits = 0 /\ MaxEdits \in Nat
    BY ReceiptsAssumption DEF Init
  <2>2. QED
    BY <2>1 DEF CopyInv
<1>4. QED
  BY <1>1, <1>2, <1>3 DEF Inv

\* The artefacts stay what they are.
LEMMA IssuedKept ==
    ASSUME IssuedInv, UNCHANGED issued
    PROVE  IssuedInv'
BY DEF IssuedInv

\* Until the reader has a copy nothing is asked of it.
LEMMA NoCopy ==
    ASSUME CopyInv, copy = Null, UNCHANGED <<copy, edits>>
    PROVE  CopyInv'
BY DEF CopyInv

\* No work is claimed.
LEMMA NoWorkHolds ==
    ASSUME work' = NoWork, data' \in Datasets
    PROVE  WorkInv'
<1>1. NoWork.how = "none"
  BY DEF NoWork
<1>2. QED
  BY <1>1 DEF WorkInv

\* What a check writes down.
LEMMA WorkFields ==
    ASSUME NEW h, NEW d, NEW c, NEW r, NEW e, NEW m
    PROVE  /\ LET w == [NoWork EXCEPT !.how = h, !.data = d, !.contract = c, !.report = r,
                                      !.evidence = e]
              IN /\ DOMAIN w = DOMAIN NoWork
                 /\ w.how = h /\ w.data = d /\ w.report = r /\ w.evidence = e /\ w.manifest = Null
           /\ LET w == [NoWork EXCEPT !.how = h, !.data = d, !.contract = c, !.report = r,
                                      !.manifest = m]
              IN /\ DOMAIN w = DOMAIN NoWork
                 /\ w.how = h /\ w.data = d /\ w.report = r /\ w.evidence = Null /\ w.manifest = m
BY DEF NoWork

\* Another dataset in the files changes nothing that was said.
LEMMA RewriteKeeps ==
    ASSUME Inv, Rewrite
    PROVE  Inv'
<1>1. WorkInv'
  BY DEF Inv, WorkInv, Rewrite
<1>2. QED
  BY <1>1, IssuedKept, NoCopy DEF Inv, Rewrite

\* A check makes evidence that is accepted.
LEMMA CheckKeeps ==
    ASSUME Inv, Check
    PROVE  Inv'
<1>1. PICK contract \in Contracts, samples \in Samples :
        /\ Compiles(contract, data.columns)
        /\ LET report == Report(data.columns, AllRows(data), contract, samples)
               evidence == Envelope(report, Fingerprint(data.columns, AllRows(data)))
           IN work' = [NoWork EXCEPT !.how = "check", !.data = data, !.contract = contract,
                        !.report = report,
                        !.evidence = IF Consistent(evidence) THEN evidence ELSE Null]
  BY DEF Check
<1> DEFINE report == Report(data.columns, AllRows(data), contract, samples)
           print == Fingerprint(data.columns, AllRows(data))
           evidence == Envelope(report, print)
<1>2. data \in Datasets
  BY DEF Inv, WorkInv
<1>3. print.version = 2 /\ print.rows = Len(AllRows(data))
  BY DEF Fingerprint
<1>4. Consistent(evidence)
  <2> HIDE DEF print
  <2>1. QED
    BY <1>2, <1>3, EnvelopeIsConsistent
<1>5. IsReport(report, data) /\ report.rows = Len(AllRows(data))
  <2>1. IsReport(report, data)
    BY <1>1, <1>2 DEF IsReport
  <2>2. report.rows = Len(AllRows(data))
    BY DEF Report
  <2>3. QED
    BY <2>1, <2>2
<1> HIDE DEF report, print
<1>6. evidence.dataset = print
  BY DEF Envelope
<1>7. IsEvidence(evidence, report, "check", data)
  BY <1>3, <1>5, <1>6 DEF IsEvidence, print
<1> HIDE DEF evidence
<1>8. work' = [NoWork EXCEPT !.how = "check", !.data = data, !.contract = contract,
                 !.report = report, !.evidence = evidence]
  BY <1>1, <1>4 DEF report, print, evidence
<1>9. /\ DOMAIN work' = DOMAIN NoWork
      /\ work'.how = "check" /\ work'.data = data /\ work'.report = report
      /\ work'.evidence = evidence /\ work'.manifest = Null
  BY <1>8, WorkFields
<1>10. data' = data
  BY DEF Check
<1>11. WorkInv'
  BY <1>2, <1>5, <1>7, <1>9, <1>10 DEF WorkInv
<1>12. QED
  BY <1>11, IssuedKept, NoCopy DEF Inv, Check

\* A check of partitions makes a manifest that is accepted.
LEMMA CheckPartitionsKeeps ==
    ASSUME Inv, CheckPartitions
    PROVE  Inv'
<1>1. PICK contract \in Contracts, samples \in Samples :
        /\ Compiles(contract, data.columns)
        /\ data.parts # <<>>
        /\ LET report == Report(data.columns, AllRows(data), contract, samples)
               manifest == Manifest(report, PartFingerprints(data))
           IN work' = [NoWork EXCEPT !.how = "partitions", !.data = data, !.contract = contract,
                        !.report = report,
                        !.manifest = IF BodyHolds(manifest) THEN manifest ELSE Null]
  BY DEF CheckPartitions
<1> DEFINE report == Report(data.columns, AllRows(data), contract, samples)
           manifest == Manifest(report, PartFingerprints(data))
<1>2. data \in Datasets
  BY DEF Inv, WorkInv
<1>3. IsManifest(manifest, data)
  BY <1>1 DEF IsManifest
<1>4. IsReport(report, data)
  BY <1>1, <1>2 DEF IsReport
<1> HIDE DEF report
<1>5. BodyHolds(manifest)
  BY <1>1, <1>2, ManifestIsValid DEF ManifestHolds
<1> HIDE DEF manifest
<1>6. work' = [NoWork EXCEPT !.how = "partitions", !.data = data, !.contract = contract,
                 !.report = report, !.manifest = manifest]
  BY <1>1, <1>5 DEF report, manifest
<1>7. /\ DOMAIN work' = DOMAIN NoWork
      /\ work'.how = "partitions" /\ work'.data = data /\ work'.report = report
      /\ work'.evidence = Null /\ work'.manifest = manifest
  BY <1>6, WorkFields
<1>8. data' = data
  BY DEF CheckPartitions
<1>9. WorkInv'
  BY <1>2, <1>3, <1>4, <1>7, <1>8 DEF WorkInv
<1>10. QED
  BY <1>9, IssuedKept, NoCopy DEF Inv, CheckPartitions

\* Evidence assembled later is bound to as many rows as the report counts.
LEMMA AssembleKeeps ==
    ASSUME Inv, Assemble
    PROVE  Inv'
<1> DEFINE print == Fingerprint(data.columns, AllRows(data))
           evidence == Envelope(work.report, print)
<1>1. /\ work.how = "check" /\ UNCHANGED <<data, issued, copy, edits>> /\ copy = Null
      /\ work.report.rows = Len(AllRows(data))
      /\ work' = [work EXCEPT !.how = "assembled", !.evidence = evidence]
  BY DEF Assemble, MayAssemble
<1>2. WorkInv /\ IssuedInv /\ CopyInv
  BY DEF Inv
<1>3. IsReport(work.report, work.data) /\ data \in Datasets /\ work.manifest = Null
  BY <1>1, <1>2 DEF WorkInv
<1>4. print.version = 2 /\ print.rows = Len(AllRows(data))
  BY DEF Fingerprint
<1> HIDE DEF print
<1>5. evidence.dataset = print
  BY DEF Envelope
<1>6. IsEvidence(evidence, work.report, "assembled", work.data)
  BY <1>1, <1>4, <1>5 DEF IsEvidence
<1> HIDE DEF evidence
<1>7. /\ DOMAIN work' = DOMAIN work
      /\ work'.how = "assembled" /\ work'.data = work.data /\ work'.report = work.report
      /\ work'.evidence = evidence /\ work'.manifest = work.manifest
  <2>1. {"how", "data", "report", "evidence", "manifest"} \subseteq DOMAIN work
    BY <1>2 DEF WorkInv, NoWork
  <2>2. QED
    BY <1>1, <2>1
<1>8. WorkInv'
  BY <1>1, <1>2, <1>3, <1>6, <1>7 DEF WorkInv
<1>9. QED
  BY <1>1, <1>2, <1>8, IssuedKept, NoCopy DEF Inv

\* One more artefact of the kind at hand.
LEMMA IssueKeeps ==
    ASSUME IssuedInv, Cardinality(issued) < MaxIssued,
           NEW artefact, NEW how, NEW source, Issue(artefact, how, source),
           LET entry == [artefact |-> artefact, how |-> how, data |-> source]
           IN IsReceipt(entry) \/ IsBundle(entry)
    PROVE  IssuedInv'
<1> DEFINE entry == [artefact |-> artefact, how |-> how, data |-> source]
<1>1. IsReceipt(entry) \/ IsBundle(entry)
  OBVIOUS
<1>2. entry.artefact = artefact
  OBVIOUS
<1>3. /\ issued' = issued \cup {entry}
      /\ \A x \in issued : x.artefact.kind = artefact.kind
  BY DEF Issue
<1> HIDE DEF entry
<1>4. /\ IsFiniteSet(issued) /\ Cardinality(issued) \in Nat /\ MaxIssued \in Nat
      /\ \A x \in issued : IsReceipt(x) \/ IsBundle(x)
      /\ \A x, y \in issued : x.artefact.kind = y.artefact.kind
  BY FS_CardinalityType, ReceiptsAssumption DEF IssuedInv
<1>5. IsFiniteSet(issued') /\ Cardinality(issued') <= MaxIssued
  <2>1. /\ IsFiniteSet(issued \cup {entry})
        /\ Cardinality(issued \cup {entry})
              = IF entry \in issued THEN Cardinality(issued) ELSE Cardinality(issued) + 1
    BY <1>4, FS_AddElement
  <2>2. Cardinality(issued') <= Cardinality(issued) + 1
    BY <1>3, <1>4, <2>1
  <2>3. QED
    BY <1>3, <1>4, <2>1, <2>2
<1>6. \A x \in issued' : IsReceipt(x) \/ IsBundle(x)
  BY <1>1, <1>3, <1>4
<1>7. \A x, y \in issued' : x.artefact.kind = y.artefact.kind
  BY <1>2, <1>3, <1>4
<1>8. QED
  BY <1>5, <1>6, <1>7 DEF IssuedInv

\* What is signed is what the last check made.
LEMMA SignKeeps ==
    ASSUME Inv, Sign
    PROVE  Inv'
<1>1. PICK kind \in DOMAIN ContentOf :
        LET content == work[ContentOf[kind]]
        IN /\ content # Null
           /\ Issue(Receipt(kind, content, Cardinality(issued), OurKey), work.how, work.data)
  BY DEF Sign
<1> DEFINE content == work[ContentOf[kind]]
           time == Cardinality(issued)
           artefact == Receipt(kind, content, time, OurKey)
           entry == [artefact |-> artefact, how |-> work.how, data |-> work.data]
<1>2. kind \in {"v1", "v2", "partition"}
  BY DEF ContentOf
<1>3. /\ kind = "v1" => content = work.report
      /\ kind = "v2" => content = work.evidence
      /\ kind = "partition" => content = work.manifest
  BY DEF ContentOf
<1>4. WorkInv /\ content # Null
  BY <1>1 DEF Inv
<1>5. work.how # "none"
  BY <1>2, <1>3, <1>4 DEF WorkInv, NoWork
<1>6. IsReport(work.report, work.data)
  BY <1>4, <1>5 DEF WorkInv
<1>7. kind = "v2" => IsEvidence(content, work.report, work.how, work.data)
  BY <1>3, <1>4, <1>5 DEF WorkInv
<1>8. kind = "partition" => IsManifest(content, work.data)
  BY <1>3, <1>4, <1>5 DEF WorkInv
<1> HIDE DEF content, time
<1>9. /\ artefact.kind = kind /\ artefact.unsigned.content = content
      /\ artefact.unsigned.issued_at = time
  BY DEF Receipt, Unsigned
<1> HIDE DEF artefact
<1>10. artefact = Receipt(artefact.kind, artefact.unsigned.content, artefact.unsigned.issued_at, OurKey)
  BY <1>9 DEF artefact
<1>11. entry.artefact = artefact /\ entry.how = work.how /\ entry.data = work.data
  OBVIOUS
<1> HIDE DEF entry
<1>12. kind = "v2" => content.result.report_digest.of = work.report
  <2>1. Envelope(work.report, content.dataset).result.report_digest.of = work.report
    BY DEF Envelope, ReportDigest, Digest
  <2>2. QED
    BY <1>7, <2>1 DEF IsEvidence
<1>13. work.data \in Datasets
  BY <1>6 DEF IsReport
<1>14. IsReceipt(entry)
  BY <1>2, <1>6, <1>7, <1>8, <1>9, <1>10, <1>11, <1>12, <1>13 DEF IsReceipt
<1>15. IssuedInv /\ Cardinality(issued) < MaxIssued /\ Issue(artefact, work.how, work.data)
  BY <1>1 DEF Inv, Sign, content, time, artefact
<1>16. IssuedInv'
  BY <1>14, <1>15, IssueKeeps DEF entry
<1>17. WorkInv'
  BY NoWorkHolds, <1>4 DEF Sign, WorkInv
<1>18. QED
  BY <1>16, <1>17, NoCopy DEF Inv, Sign

\* A bundle says what its payload says, with a key or without.
LEMMA AcceptKeeps ==
    ASSUME Inv, Accept
    PROVE  Inv'
<1>1. PICK contract \in Contracts, policy \in Policies, key \in {OurKey, Null} :
        Issue(Bundle(Payload(data, contract, policy, Min(Samples)), key), "accept", data)
  BY DEF Accept
<1> DEFINE artefact == Bundle(Payload(data, contract, policy, Min(Samples)), key)
           entry == [artefact |-> artefact, how |-> "accept", data |-> data]
<1>2. data \in Datasets /\ ~Raises(data)
  BY DEF Inv, WorkInv, Accept
<1>3. entry.artefact = artefact /\ entry.how = "accept" /\ entry.data = data
  OBVIOUS
<1> HIDE DEF entry
<1>4. IsBundle(entry)
  BY <1>2, <1>3 DEF IsBundle
<1>5. IssuedInv /\ Cardinality(issued) < MaxIssued /\ Issue(artefact, "accept", data)
  BY <1>1 DEF Inv, Accept
<1>6. IssuedInv'
  BY <1>4, <1>5, IssueKeeps DEF entry
<1>7. WorkInv'
  BY NoWorkHolds, <1>2 DEF Accept
<1>8. QED
  BY <1>6, <1>7, NoCopy DEF Inv, Accept

\* A receipt or a bundle has the fields of its kind.
LEMMA IssuedShaped ==
    ASSUME NEW entry, IsReceipt(entry) \/ IsBundle(entry)
    PROVE  Shaped(entry.artefact)
<1>1. CASE IsReceipt(entry)
  <2> DEFINE a == entry.artefact
             k == a.kind
             u == Unsigned(k, a.unsigned.content, a.unsigned.issued_at, OurKey)
             s == [key |-> OurKey, message |-> Message(k, u)]
  <2>1. k \in {"v1", "v2", "partition"} /\ a = [kind |-> k, unsigned |-> u, signature |-> s]
    BY <1>1 DEF IsReceipt, Receipt
  <2> HIDE DEF a, k, u, s
  <2>2. Fields(k) = {"kind", "unsigned", "signature"}
    BY <2>1 DEF Fields
  <2>3. a = [f \in {"kind", "unsigned", "signature"} |-> a[f]]
    BY <2>1
  <2>4. k = a.kind
    BY DEF k
  <2>5. QED
    BY <2>2, <2>3, <2>4 DEF Shaped, a
<1>2. CASE IsBundle(entry)
  <2>1. PICK payload, key : entry.artefact = Bundle(payload, key)
    BY <1>2 DEF IsBundle
  <2> DEFINE a == entry.artefact
             s == IF key = Null THEN Null ELSE [key |-> key, message |-> payload]
             h == Digest("sha256", payload)
  <2>2. a = [kind |-> "bundle", unsigned |-> payload, hash |-> h, public_key |-> key, signature |-> s]
    BY <2>1 DEF Bundle
  <2> HIDE DEF a, s, h
  <2>3. Fields(a.kind) = {"kind", "unsigned", "hash", "public_key", "signature"}
    BY <2>2 DEF Fields
  <2>4. a = [f \in {"kind", "unsigned", "hash", "public_key", "signature"} |-> a[f]]
    BY <2>2
  <2>5. QED
    BY <2>3, <2>4 DEF Shaped, a
<1>3. QED
  BY <1>1, <1>2

\* The reader gets an artefact as it was issued.
LEMMA FetchKeeps ==
    ASSUME Inv, Fetch
    PROVE  Inv'
<1>1. PICK entry \in issued : copy' = entry.artefact
  BY DEF Fetch
<1>2. WorkInv /\ IssuedInv /\ CopyInv /\ work' = NoWork /\ UNCHANGED <<data, issued, edits>>
  BY DEF Inv, Fetch
<1>3. Shaped(copy')
  BY <1>1, <1>2, IssuedShaped DEF IssuedInv
<1>4. \A x \in issued' : x.artefact.kind = copy'.kind
  BY <1>1, <1>2 DEF IssuedInv
<1>5. \E x \in issued' : copy'.signature = x.artefact.signature
  BY <1>1, <1>2
<1>6. CopyInv'
  BY <1>2, <1>3, <1>4, <1>5 DEF CopyInv
<1>7. WorkInv'
  BY <1>2, NoWorkHolds DEF WorkInv
<1>8. QED
  BY <1>2, <1>6, <1>7, IssuedKept DEF Inv

\* An alteration keeps the fields and the kind, and leaves one of the two signatures.
LEMMA AlteredFacts ==
    ASSUME NEW a, NEW b, Shaped(a), Shaped(b), a.kind = b.kind, NEW c \in Altered(a, b)
    PROVE  /\ Shaped(c) /\ c.kind = a.kind
           /\ c.signature \in {a.signature, b.signature}
<1>1. DOMAIN a = Fields(a.kind)
  BY DEF Shaped
<1>2. {"kind", "unsigned", "signature"} \subseteq Fields(a.kind)
  BY DEF Fields
<1>3. ASSUME NEW f \in DOMAIN a, NEW x, c = [a EXCEPT ![f] = x],
             f = "kind" => x = a.kind, f = "signature" => x \in {a.signature, b.signature}
      PROVE  /\ Shaped(c) /\ c.kind = a.kind
             /\ c.signature \in {a.signature, b.signature}
  <2>1. c.kind = a.kind
    BY <1>1, <1>2, <1>3
  <2>2. c.signature \in {a.signature, b.signature}
    BY <1>1, <1>2, <1>3
  <2>3. c = [g \in DOMAIN a |-> c[g]]
    BY <1>3
  <2>4. QED
    BY <1>1, <2>1, <2>2, <2>3 DEF Shaped
<1>4. CASE c \in Swapped(a, b)
  <2>1. PICK f \in DOMAIN a : c = [a EXCEPT ![f] = b[f]]
    BY <1>4 DEF Swapped
  <2>2. QED
    BY <1>3, <2>1
<1>5. CASE \E u : c = [a EXCEPT !.unsigned = u]
  <2>1. PICK u : c = [a EXCEPT !["unsigned"] = u]
    BY <1>5
  <2>2. QED
    BY <1>1, <1>2, <1>3, <2>1
<1>6. c \in Swapped(a, b) \/ \E u : c = [a EXCEPT !.unsigned = u]
  <2>1. CASE c \in {[a EXCEPT !.unsigned = u] : u \in Swapped(a.unsigned, b.unsigned)}
    BY <2>1
  <2>2. CASE c \in {[a EXCEPT !.unsigned[f] = x] : f \in DOMAIN a.unsigned, x \in {Absent, Odd}}
    BY <2>2
  <2>3. CASE c \in {[a EXCEPT !.unsigned.content = d] :
                      d \in Swapped(a.unsigned.content, b.unsigned.content)}
    BY <2>3
  <2>4. CASE c \in {[a EXCEPT !.unsigned.content.result = r] :
                      r \in Swapped(a.unsigned.content.result, b.unsigned.content.result)}
    BY <2>4
  <2>5. QED
    BY <2>1, <2>2, <2>3, <2>4 DEF Altered
<1>7. QED
  BY <1>4, <1>5, <1>6

\* An altered copy still has a signature that was issued, or one of somebody else.
LEMMA AlterKeeps ==
    ASSUME Inv, Alter
    PROVE  Inv'
<1>1. PICK entry \in issued : copy' \in Altered(copy, entry.artefact)
  BY DEF Alter
<1>2. /\ WorkInv /\ IssuedInv /\ CopyInv /\ copy # Null /\ UNCHANGED <<data, work, issued>>
      /\ edits < MaxEdits /\ edits' = edits + 1
  BY DEF Inv, Alter
<1> DEFINE b == entry.artefact
<1>3. Shaped(b) /\ b.kind = copy.kind /\ Shaped(copy)
  BY <1>2, IssuedShaped DEF IssuedInv, CopyInv
<1> HIDE DEF b
<1>4. copy' \in Altered(copy, b) /\ entry \in issued /\ b = entry.artefact
  BY <1>1 DEF b
<1>5. Shaped(copy') /\ copy'.kind = copy.kind /\ copy'.signature \in {copy.signature, b.signature}
  BY <1>3, <1>4, AlteredFacts
<1>6. edits' \in 0..MaxEdits
  BY <1>2, ReceiptsAssumption DEF CopyInv
<1>7. work' = NoWork /\ \A x \in issued' : x.artefact.kind = copy'.kind
  BY <1>2, <1>5 DEF CopyInv
<1>8. \/ \E x \in issued' : copy'.signature = x.artefact.signature
      \/ copy'.signature = [key |-> OtherKey, message |-> copy'.signature.message]
  BY <1>2, <1>4, <1>5 DEF CopyInv
<1>9. CopyInv'
  BY <1>5, <1>6, <1>7, <1>8 DEF CopyInv
<1>10. QED
  BY <1>2, <1>9, IssuedKept DEF Inv, WorkInv

\* Sealing keeps the signature, or puts one of somebody else there.
LEMMA ResealKeeps ==
    ASSUME Inv, Reseal
    PROVE  Inv'
<1>1. /\ WorkInv /\ IssuedInv /\ CopyInv /\ copy # Null /\ UNCHANGED <<data, work, issued, edits>>
      /\ copy' = Rehashed(copy) \/ copy' = Resigned(copy)
  BY DEF Inv, Reseal
<1>2. Shaped(copy) /\ DOMAIN copy = Fields(copy.kind)
  BY <1>1 DEF CopyInv, Shaped
<1>3. {"kind", "unsigned", "signature"} \subseteq Fields(copy.kind)
  BY DEF Fields
<1>4. Shaped(copy') /\ copy'.kind = copy.kind
  <2>1. ASSUME DOMAIN copy' = DOMAIN copy, copy'.kind = copy.kind, copy' = [f \in DOMAIN copy' |-> copy'[f]]
        PROVE  Shaped(copy') /\ copy'.kind = copy.kind
    BY <1>2, <2>1 DEF Shaped
  <2>2. CASE copy' = Rehashed(copy)
    <3>1. /\ DOMAIN copy' = DOMAIN copy /\ copy'.kind = copy.kind
          /\ copy' = [f \in DOMAIN copy' |-> copy'[f]]
      BY <1>2, <1>3, <2>2 DEF Rehashed
    <3>2. QED
      BY <2>1, <3>1
  <2>3. CASE copy' = Resigned(copy) /\ copy.kind = "bundle"
    <3>1. /\ DOMAIN copy' = DOMAIN copy /\ copy'.kind = copy.kind
          /\ copy' = [f \in DOMAIN copy' |-> copy'[f]]
      BY <1>2, <1>3, <2>3 DEF Resigned
    <3>2. QED
      BY <2>1, <3>1
  <2>4. CASE copy' = Resigned(copy) /\ copy.kind # "bundle"
    <3>1. Fields(copy.kind) = {"kind", "unsigned", "signature"}
      BY <2>4 DEF Fields
    <3>2. /\ DOMAIN copy' = {"kind", "unsigned", "signature"} /\ copy'.kind = copy.kind
          /\ copy' = [f \in DOMAIN copy' |-> copy'[f]]
      BY <2>4 DEF Resigned, Receipt
    <3>3. QED
      BY <1>2, <2>1, <3>1, <3>2
  <2>5. QED
    BY <1>1, <2>2, <2>3, <2>4
<1>5. \/ copy'.signature = copy.signature
      \/ copy'.signature = [key |-> OtherKey, message |-> copy'.signature.message]
  <2>1. CASE copy' = Rehashed(copy)
    BY <1>2, <1>3, <2>1 DEF Rehashed
  <2>2. CASE copy' = Resigned(copy) /\ copy.kind = "bundle"
    BY <1>2, <1>3, <2>2 DEF Resigned
  <2>3. CASE copy' = Resigned(copy) /\ copy.kind # "bundle"
    BY <2>3 DEF Resigned, Receipt
  <2>4. QED
    BY <1>1, <2>1, <2>2, <2>3
<1>6. work' = NoWork /\ \A x \in issued' : x.artefact.kind = copy'.kind
  BY <1>1, <1>4 DEF CopyInv
<1>7. \/ \E x \in issued' : copy'.signature = x.artefact.signature
      \/ copy'.signature = [key |-> OtherKey, message |-> copy'.signature.message]
  BY <1>1, <1>5 DEF CopyInv
<1>8. edits' \in 0..MaxEdits
  BY <1>1 DEF CopyInv
<1>9. CopyInv'
  BY <1>4, <1>6, <1>7, <1>8 DEF CopyInv
<1>10. QED
  BY <1>1, <1>9, IssuedKept DEF Inv, WorkInv

\* Every step keeps the invariant.
LEMMA NextKeeps ==
    ASSUME Inv, [Next]_vars
    PROVE  Inv'
<1>1. CASE UNCHANGED vars
  <2>1. UNCHANGED <<data, work, issued, copy, edits>>
    BY <1>1 DEF vars
  <2>2. WorkInv' /\ IssuedInv' /\ CopyInv'
    BY <2>1, IssuedKept DEF Inv, WorkInv, CopyInv
  <2>3. QED
    BY <2>2 DEF Inv
<1>2. CASE Next
  BY <1>2, RewriteKeeps, CheckKeeps, CheckPartitionsKeeps, AssembleKeeps, SignKeeps, AcceptKeeps,
     FetchKeeps, AlterKeeps, ResealKeeps DEF Next
<1>3. QED
  BY <1>1, <1>2

\* The invariant holds in every state.
THEOREM InvHolds == Spec => []Inv
<1>1. QED
  BY InvInit, NextKeeps, PTL DEF Spec

-----------------------------------------------------------------------------
(* What verifies was issued *)

\* The keys that a policy trusts.
LEMMA PolicyFacts ==
    ASSUME NEW policy \in TrustPolicies
    PROVE  /\ policy[2] \in {{}, {OurKey}, {OtherKey}}
           /\ \A key : Accepts(policy, key) <=> key \in policy[2]
<1>1. CASE policy \in {"signature_only"} \X {{}}
  BY <1>1 DEF Accepts
<1>2. CASE policy \in {"expected_key"} \X {{OurKey}, {OtherKey}}
  BY <1>2 DEF Accepts
<1>3. CASE policy \in {"trust_store"} \X {{}, {OurKey}}
  BY <1>3 DEF Accepts
<1>4. QED
  BY <1>1, <1>2, <1>3 DEF TrustPolicies

\* The key that a reader of a bundle pins.
LEMMA PinnedKey ==
    ASSUME NEW policy \in TrustPolicies
    PROVE  LET expected == IF policy[2] = {} THEN Null ELSE CHOOSE k \in policy[2] : TRUE
           IN /\ expected = Null <=> policy[2] = {}
              /\ expected = OurKey <=> policy[2] = {OurKey}
<1>1. policy[2] \in {{}, {OurKey}, {OtherKey}}
  BY PolicyFacts
<1>2. OurKey # OtherKey /\ Null # OurKey /\ Null # OtherKey
  BY ReceiptsAssumption
<1>3. \A x : (CHOOSE k \in {x} : TRUE) = x
  OBVIOUS
<1>4. QED
  BY <1>1, <1>2, <1>3

\* A receipt that verifies with our key is one that was issued: its signature names the
\* message, and the message is the whole receipt.
LEMMA ReceiptIsIssued ==
    ASSUME Inv, copy # Null, copy.kind # "bundle", NEW policy \in TrustPolicies,
           Verification(copy, policy).valid, policy[2] = {OurKey}
    PROVE  \E entry \in issued : entry.artefact = copy
<1> DEFINE unsigned == copy.unsigned
           message == Message(copy.kind, unsigned)
<1>1. /\ copy.signature = [key |-> unsigned.public_key, message |-> message]
      /\ Accepts(policy, unsigned.public_key)
  BY DEF Verification
<1>2. unsigned.public_key = OurKey
  BY <1>1, PolicyFacts
<1> HIDE DEF unsigned, message
<1>3. copy.signature # [key |-> OtherKey, message |-> copy.signature.message]
  BY <1>1, <1>2, ReceiptsAssumption
<1>4. /\ Shaped(copy) /\ \A entry \in issued : entry.artefact.kind = copy.kind
      /\ \E entry \in issued : copy.signature = entry.artefact.signature
  BY <1>3 DEF Inv, CopyInv
<1>5. PICK entry \in issued : copy.signature = entry.artefact.signature
  BY <1>4
<1> DEFINE a == entry.artefact
           u == Unsigned(a.kind, a.unsigned.content, a.unsigned.issued_at, OurKey)
<1>6. IsReceipt(entry) /\ a.kind = copy.kind
  <2>1. a.kind = copy.kind
    BY <1>4
  <2>2. IsReceipt(entry) \/ IsBundle(entry)
    BY DEF Inv, IssuedInv
  <2>3. IsBundle(entry) => a.kind = "bundle"
    BY DEF IsBundle, Bundle
  <2>4. QED
    BY <2>1, <2>2, <2>3
<1>7. /\ a.unsigned = u
      /\ a.signature = [key |-> OurKey, message |-> Message(a.kind, u)]
  <2>1. a = Receipt(a.kind, a.unsigned.content, a.unsigned.issued_at, OurKey)
    BY <1>6 DEF IsReceipt
  <2>2. QED
    BY <2>1 DEF Receipt
<1> HIDE DEF u, a
<1>8. Message(a.kind, u) = message
  BY <1>1, <1>5, <1>7 DEF a
<1>9. u = unsigned
  BY <1>8 DEF message, Message
<1>10. Shaped(a)
  BY <1>6, IssuedShaped DEF a
<1>11. Fields(copy.kind) = {"kind", "unsigned", "signature"}
  BY DEF Fields
<1>12. /\ copy = [f \in {"kind", "unsigned", "signature"} |-> copy[f]]
       /\ a = [f \in {"kind", "unsigned", "signature"} |-> a[f]]
  BY <1>4, <1>6, <1>10, <1>11 DEF Shaped, a
<1>13. copy.kind = a.kind /\ copy.unsigned = a.unsigned /\ copy.signature = a.signature
  BY <1>5, <1>6, <1>7, <1>9 DEF a, unsigned
<1>14. \A f \in {"kind", "unsigned", "signature"} : copy[f] = a[f]
  BY <1>13
<1>15. copy = a
  BY <1>12, <1>14
<1>16. QED
  BY <1>15 DEF a

\* So is a bundle.
LEMMA BundleIsIssued ==
    ASSUME Inv, copy # Null, copy.kind = "bundle",
           VerifyAcceptance(copy, OurKey).valid
    PROVE  \E entry \in issued : entry.artefact = copy
<1> DEFINE payload == copy.unsigned
<1>1. /\ copy.signature = [key |-> copy.public_key, message |-> payload]
      /\ OurKey = copy.public_key /\ copy.signature # Null
      /\ copy.hash = Digest("sha256", payload)
  BY DEF VerifyAcceptance
<1> HIDE DEF payload
<1>2. copy.signature # [key |-> OtherKey, message |-> copy.signature.message]
  BY <1>1, ReceiptsAssumption
<1>3. /\ Shaped(copy) /\ \A entry \in issued : entry.artefact.kind = copy.kind
      /\ \E entry \in issued : copy.signature = entry.artefact.signature
  BY <1>2 DEF Inv, CopyInv
<1>4. PICK entry \in issued : copy.signature = entry.artefact.signature
  BY <1>3
<1> DEFINE a == entry.artefact
<1>5. IsBundle(entry)
  <2>1. IsReceipt(entry) \/ IsBundle(entry)
    BY DEF Inv, IssuedInv
  <2>2. a.kind = "bundle"
    BY <1>3
  <2>3. QED
    BY <2>1, <2>2 DEF IsReceipt
<1>6. PICK said, key : a = Bundle(said, key)
  BY <1>5 DEF IsBundle
<1>7. /\ a.kind = "bundle" /\ a.unsigned = said /\ a.hash = Digest("sha256", said)
      /\ a.public_key = key
      /\ a.signature = IF key = Null THEN Null ELSE [key |-> key, message |-> said]
  BY <1>6 DEF Bundle
<1>8. Shaped(a)
  BY <1>5, IssuedShaped
<1>9. copy.signature = a.signature
  BY <1>4
<1> HIDE DEF a
<1>10. key # Null /\ [key |-> key, message |-> said] = [key |-> OurKey, message |-> payload]
  BY <1>1, <1>7, <1>9
<1>11. key = OurKey /\ said = payload
  BY <1>10
<1>12. Fields("bundle") = {"kind", "unsigned", "hash", "public_key", "signature"}
  BY DEF Fields
<1>13. /\ copy = [f \in {"kind", "unsigned", "hash", "public_key", "signature"} |-> copy[f]]
       /\ a = [f \in {"kind", "unsigned", "hash", "public_key", "signature"} |-> a[f]]
  BY <1>3, <1>7, <1>8, <1>12 DEF Shaped
<1>14. /\ copy.kind = a.kind /\ copy.unsigned = a.unsigned /\ copy.hash = a.hash
       /\ copy.public_key = a.public_key /\ copy.signature = a.signature
  BY <1>1, <1>7, <1>9, <1>11 DEF payload
<1>15. \A f \in {"kind", "unsigned", "hash", "public_key", "signature"} : copy[f] = a[f]
  BY <1>14
<1>16. copy = a
  BY <1>13, <1>15
<1>17. QED
  BY <1>16 DEF a

\* What verifies for a reader of our key was issued in every field, and nothing verifies
\* for a reader who trusts nobody.
LEMMA ValidIsIssued ==
    ASSUME Inv
    PROVE  ValidMeansIssued
<1> SUFFICES ASSUME copy # Null, NEW policy \in TrustPolicies, Verdict(policy).valid
             PROVE  /\ policy[2] = {OurKey} => \E entry \in issued : entry.artefact = copy
                    /\ policy[2] # {}
  BY DEF ValidMeansIssued
<1> DEFINE expected == IF policy[2] = {} THEN Null ELSE CHOOSE k \in policy[2] : TRUE
<1>1. CASE copy.kind = "bundle"
  <2>1. VerifyAcceptance(copy, expected).valid
    BY <1>1 DEF Verdict
  <2>2. /\ expected = Null <=> policy[2] = {}
        /\ expected = OurKey <=> policy[2] = {OurKey}
    BY PinnedKey
  <2> HIDE DEF expected
  <2>3. expected # Null
    BY <2>1 DEF VerifyAcceptance
  <2>4. policy[2] = {OurKey} => VerifyAcceptance(copy, OurKey).valid
    BY <2>1, <2>2
  <2>5. QED
    BY <1>1, <2>2, <2>3, <2>4, BundleIsIssued
<1>2. CASE copy.kind # "bundle"
  <2>1. Verification(copy, policy).valid
    BY <1>2 DEF Verdict
  <2>2. Accepts(policy, copy.unsigned.public_key)
    BY <2>1 DEF Verification
  <2>3. policy[2] # {}
    BY <2>2, PolicyFacts
  <2>4. QED
    BY <1>2, <2>1, <2>3, ReceiptIsIssued
<1>3. QED
  BY <1>1, <1>2

\* What verifies for a reader is an artefact that a key of that reader's signed
\* (verify_v2, verify_partition_manifest_receipt, verify_json_with_policy and
\* verify_acceptance), however the copy was altered, mixed with others and sealed again.
THEOREM ValidMeansIssuedHolds == Spec => []ValidMeansIssued
<1>1. QED
  BY InvHolds, ValidIsIssued, PTL

-----------------------------------------------------------------------------
(* What was issued verifies *)

\* A report retains no more findings than its limit, and its evidence is accepted.
LEMMA IsReportFacts ==
    ASSUME NEW report, NEW d, IsReport(report, d)
    PROVE  /\ report.rows = Len(AllRows(d))
           /\ Len(report.findings) <= report.resources.max_samples
           /\ \A fingerprint : fingerprint.version = 2 => Consistent(Envelope(report, fingerprint))
<1>1. PICK contract \in Contracts, samples \in Samples :
        report = Report(d.columns, AllRows(d), contract, samples)
  BY DEF IsReport
<1>2. d \in Datasets
  BY DEF IsReport
<1>3. report.rows = Len(AllRows(d))
  BY <1>1 DEF Report
<1>4. /\ Len(report.findings) = IF samples <= report.violation_count
                                  THEN samples ELSE report.violation_count
      /\ report.violation_count \in Nat /\ samples \in Nat
      /\ report.resources = [max_samples |-> samples]
  BY <1>1, <1>2, ReportFacts
<1>5. Len(report.findings) <= report.resources.max_samples
  BY <1>4
<1>6. \A fingerprint : fingerprint.version = 2 => Consistent(Envelope(report, fingerprint))
  BY <1>1, <1>2, EnvelopeIsConsistent
<1>7. QED
  BY <1>3, <1>5, <1>6

\* Evidence that was made is validated, and so is a manifest.
LEMMA EvidenceFacts ==
    ASSUME NEW e, NEW report, NEW how, NEW d, IsReport(report, d), IsEvidence(e, report, how, d)
    PROVE  Consistent(e) /\ e.result.report_digest.of = report
<1>1. e = Envelope(report, e.dataset) /\ e.dataset.version = 2
  BY DEF IsEvidence
<1>2. Consistent(Envelope(report, e.dataset))
  BY <1>1, IsReportFacts
<1>3. Envelope(report, e.dataset).result.report_digest.of = report
  BY DEF Envelope, ReportDigest, Digest
<1>4. QED
  BY <1>1, <1>2, <1>3

\* A manifest that was made is validated.
LEMMA ManifestFacts ==
    ASSUME NEW m, NEW d \in Datasets, IsManifest(m, d)
    PROVE  ManifestHolds(m)
BY ManifestIsValid DEF IsManifest

\* Null is none of them.
LEMMA NotNull ==
    ASSUME NEW d \in Datasets
    PROVE  /\ \A e, report : IsReport(report, d) /\ e = Envelope(report, Fingerprint(d.columns, AllRows(d)))
                                => e # Null
           /\ \A m : IsManifest(m, d) => m # Null
<1>1. ASSUME NEW report, IsReport(report, d)
      PROVE  Envelope(report, Fingerprint(d.columns, AllRows(d))) # Null
  <2>1. PICK contract \in Contracts, samples \in Samples :
          report = Report(d.columns, AllRows(d), contract, samples)
    BY <1>1 DEF IsReport
  <2>2. QED
    BY <2>1, MarkersAssumption
<1>2. ASSUME NEW m, IsManifest(m, d) PROVE m # Null
  <2>1. PICK contract \in Contracts, samples \in Samples :
          m = Manifest(Report(d.columns, AllRows(d), contract, samples), PartFingerprints(d))
    BY <1>2 DEF IsManifest
  <2>2. QED
    BY <2>1, MarkersAssumption
<1>3. QED
  BY <1>1, <1>2

\* The work is typed, and whatever a check made passes its own validation.
LEMMA EvidencePasses ==
    ASSUME Inv
    PROVE  EvidenceIsAccepted
<1>1. WorkInv /\ IssuedInv /\ CopyInv
  BY DEF Inv
<1>2. TypeOK
  <2>1. work.how # "none" => Len(work.report.findings) <= work.report.resources.max_samples
    BY <1>1, IsReportFacts DEF WorkInv
  <2>2. QED
    BY <1>1, <2>1 DEF TypeOK, WorkInv, IssuedInv, CopyInv
<1>3. ASSUME work.how = "check" PROVE work.evidence # Null
  <2>1. /\ IsReport(work.report, work.data)
        /\ IsEvidence(work.evidence, work.report, work.how, work.data)
    BY <1>1, <1>3 DEF WorkInv
  <2>2. work.evidence = Envelope(work.report, Fingerprint(work.data.columns, AllRows(work.data)))
    BY <1>3, <2>1 DEF IsEvidence
  <2>3. work.data \in Datasets
    BY <2>1 DEF IsReport
  <2>4. QED
    BY <2>1, <2>2, <2>3, NotNull
<1>4. ASSUME work.how = "partitions" PROVE work.manifest # Null /\ ManifestHolds(work.manifest)
  <2>1. IsReport(work.report, work.data) /\ IsManifest(work.manifest, work.data)
    BY <1>1, <1>4 DEF WorkInv
  <2>2. work.data \in Datasets
    BY <2>1 DEF IsReport
  <2>3. QED
    BY <2>1, <2>2, NotNull, ManifestFacts
<1>5. QED
  BY <1>2, <1>3, <1>4 DEF EvidenceIsAccepted

\* Whatever the data, the contract and the number of samples, the report of a check passes
\* the validation of its own evidence (EvidenceV2::validate) and manifest
\* (PartitionManifestV1::validate).
THEOREM EvidenceIsAcceptedHolds == Spec => []EvidenceIsAccepted
<1>1. QED
  BY InvHolds, EvidencePasses, PTL

\* A receipt as it was issued is intact, and valid for those who trust our key.
LEMMA ReceiptVerifies ==
    ASSUME NEW entry, IsReceipt(entry), NEW policy \in TrustPolicies
    PROVE  /\ Verification(entry.artefact, policy).intact
           /\ Verification(entry.artefact, policy).valid <=> policy[2] = {OurKey}
<1> DEFINE a == entry.artefact
           content == a.unsigned.content
           u == Unsigned(a.kind, content, a.unsigned.issued_at, OurKey)
           supported == CASE a.kind = "v1" -> TRUE
                          [] a.kind = "v2" -> Consistent(content)
                          [] a.kind = "partition" -> ManifestHolds(content)
<1>1. /\ a.kind \in {"v1", "v2", "partition"} /\ a.unsigned = u
      /\ a.signature = [key |-> OurKey, message |-> Message(a.kind, u)]
  <2>1. a = Receipt(a.kind, content, a.unsigned.issued_at, OurKey)
    BY DEF IsReceipt
  <2>2. QED
    BY <2>1 DEF Receipt, IsReceipt
<1>2. supported
  <2>1. a.kind = "v2" => Consistent(content)
    BY EvidenceFacts DEF IsReceipt
  <2>2. a.kind = "partition" => ManifestHolds(content)
    BY ManifestFacts DEF IsReceipt
  <2>3. QED
    BY <1>1, <2>1, <2>2
<1>3. /\ a.unsigned.hash = DigestOf(a.kind, content) /\ a.unsigned.public_key = OurKey
  BY <1>1 DEF Unsigned
<1>4. Accepts(policy, OurKey) <=> policy[2] = {OurKey}
  BY PolicyFacts, ReceiptsAssumption
<1>5. a.signature = [key |-> a.unsigned.public_key, message |-> Message(a.kind, a.unsigned)]
  BY <1>1, <1>3
<1> HIDE DEF supported
<1> DEFINE sealed == a.unsigned.hash = DigestOf(a.kind, content)
           signed == a.signature = [key |-> a.unsigned.public_key,
                                    message |-> Message(a.kind, a.unsigned)]
           verdict == Verification(a, policy)
<1>6. /\ verdict.intact <=> supported /\ sealed /\ signed
      /\ verdict.valid <=> supported /\ sealed /\ signed /\ Accepts(policy, a.unsigned.public_key)
  BY DEF Verification, supported
<1>7. verdict.intact /\ (verdict.valid <=> Accepts(policy, OurKey))
  <2> HIDE DEF verdict
  <2>1. QED
    BY <1>2, <1>3, <1>5, <1>6
<1>8. QED
  BY <1>4, <1>7

\* What is in the payload of a bundle.
LEMMA PayloadFacts ==
    ASSUME NEW d \in Datasets, NEW contract \in Contracts, NEW policy \in Policies,
           NEW samples \in Samples
    PROVE  LET payload == Payload(d, contract, policy, samples)
               report == Report(d.columns, AllRows(d), contract, samples)
               complete == ScanCompletes(d, contract)
           IN /\ payload.version = "acceptance_v1"
              /\ payload.contract = contract /\ payload.contract_id = Digest("sha256", contract)
              /\ payload.policy = policy /\ payload.policy_id = Digest("sha256", policy)
              /\ payload.read_settings = d.format
              /\ payload.read_settings_id = Digest("sha256", d.format)
              /\ payload.decision = IF complete THEN Decide(report, d.columns, policy) ELSE Unknown
              /\ payload.report = IF complete THEN report ELSE Null
              /\ payload.evidence = IF complete
                    THEN Envelope(report, Fingerprint(d.columns, AllRows(d))) ELSE Null
              /\ {"decision", "report", "evidence", "contract", "policy", "read_settings"}
                    \subseteq DOMAIN payload
<1> DEFINE report == Report(d.columns, AllRows(d), contract, samples)
           complete == ScanCompletes(d, contract)
           evidence == Envelope(report, Fingerprint(d.columns, AllRows(d)))
           decision == Decide(report, d.columns, policy)
           payload == Payload(d, contract, policy, samples)
<1>1. payload =
        [version |-> "acceptance_v1",
         contract |-> contract,
         contract_id |-> Digest("sha256", contract),
         policy |-> policy,
         policy_id |-> Digest("sha256", policy),
         read_settings |-> d.format,
         read_settings_id |-> Digest("sha256", d.format),
         decision |-> IF complete THEN decision ELSE Unknown,
         report |-> IF complete THEN report ELSE Null,
         evidence |-> IF complete THEN evidence ELSE Null]
  BY DEF Payload
<1> HIDE DEF payload, report, complete, evidence, decision
<1>2. QED
  BY <1>1 DEF payload, report, complete, evidence, decision

\* A scan that completes is decided one way or the other.
LEMMA DecideFacts ==
    ASSUME NEW report, NEW names, NEW policy
    PROVE  Decide(report, names, policy).status \in {"accepted", "rejected"}
BY DEF Decide

\* A payload that was made is well formed.
LEMMA PayloadIsWellFormed ==
    ASSUME NEW d \in Datasets, NEW contract \in Contracts, NEW policy \in Policies,
           NEW samples \in Samples
    PROVE  WellFormed(Payload(d, contract, policy, samples))
<1> DEFINE payload == Payload(d, contract, policy, samples)
           report == Report(d.columns, AllRows(d), contract, samples)
           evidence == Envelope(report, Fingerprint(d.columns, AllRows(d)))
           complete == ScanCompletes(d, contract)
           decision == Decide(report, d.columns, policy)
<1>1. /\ Null \notin {report, contract, d.format} /\ Null # evidence /\ Null # policy
      /\ \A f \in DOMAIN payload : payload[f] \notin {Absent, Odd}
  BY MarkersAssumption
<1>2. /\ payload.contract = contract /\ payload.policy = policy
      /\ payload.read_settings = d.format
      /\ payload.decision = IF complete THEN decision ELSE Unknown
      /\ payload.report = IF complete THEN report ELSE Null
      /\ payload.evidence = IF complete THEN evidence ELSE Null
      /\ {"decision", "report", "evidence", "contract", "policy", "read_settings"}
            \subseteq DOMAIN payload
  BY PayloadFacts
<1>3. decision.status \in {"accepted", "rejected"} /\ Unknown.status = "unknown"
  BY DecideFacts DEF Unknown
<1> HIDE DEF payload, report, evidence, complete, decision
<1>4. /\ payload.decision # Odd /\ payload.report # Odd /\ payload.evidence # Odd
      /\ payload.contract # Odd /\ payload.policy # Odd /\ payload.read_settings # Odd
      /\ \A f \in DOMAIN payload : payload[f] # Absent
  BY <1>1, <1>2
<1>5. IF payload.decision.status = "unknown"
        THEN payload.report = Null /\ payload.evidence = Null
        ELSE {payload.report, payload.evidence} \cap {Null, Odd} = {}
  BY <1>1, <1>2, <1>3, <1>4
<1>6. {payload.contract, payload.policy, payload.read_settings} \cap {Null, Odd} = {}
  BY <1>1, <1>2, <1>4
<1>7. QED
  BY <1>4, <1>5, <1>6 DEF WellFormed, payload

\* The digests of a bundle are of what they stand beside, and its signature, if there is
\* one, is of its payload.
Bound(b) ==
    /\ b.unsigned.version = "acceptance_v1"
    /\ b.hash = Digest("sha256", b.unsigned)
    /\ b.unsigned.contract_id = Digest("sha256", b.unsigned.contract)
    /\ b.unsigned.policy_id = Digest("sha256", b.unsigned.policy)
    /\ b.unsigned.read_settings_id = Digest("sha256", b.unsigned.read_settings)
    /\ b.signature # Null => b.signature = [key |-> b.public_key, message |-> b.unsigned]

\* What a verdict on a bundle comes from.
LEMMA BundleVerdict ==
    ASSUME NEW b, NEW expected
    PROVE  LET verdict == VerifyAcceptance(b, expected)
           IN /\ verdict.intact <=> WellFormed(b.unsigned) /\ Bound(b)
              /\ verdict.valid <=> verdict.intact /\ b.signature # Null /\ expected # Null
                                    /\ expected = b.public_key
BY DEF VerifyAcceptance, Bound

\* A bundle as it was made is intact, and valid for those who pin our key if it is signed.
LEMMA BundleVerifies ==
    ASSUME NEW entry, IsBundle(entry), NEW expected
    PROVE  LET a == entry.artefact
           IN /\ a.kind = "bundle"
              /\ VerifyAcceptance(a, expected).intact
              /\ VerifyAcceptance(a, expected).valid
                    <=> a.signature # Null /\ expected = OurKey
<1> DEFINE a == entry.artefact
<1>1. PICK contract \in Contracts, policy \in Policies, key \in {OurKey, Null} :
        a = Bundle(Payload(entry.data, contract, policy, Min(Samples)), key)
  BY DEF IsBundle
<1> DEFINE payload == Payload(entry.data, contract, policy, Min(Samples))
           verdict == VerifyAcceptance(a, expected)
<1>2. entry.data \in Datasets /\ Min(Samples) \in Samples
  BY LeastSamples DEF IsBundle
<1>3. WellFormed(payload)
  BY <1>2, PayloadIsWellFormed
<1>4. /\ a.kind = "bundle" /\ a.unsigned = payload /\ a.hash = Digest("sha256", payload)
      /\ a.public_key = key
      /\ a.signature = IF key = Null THEN Null ELSE [key |-> key, message |-> payload]
  BY <1>1 DEF Bundle
<1>5. /\ payload.version = "acceptance_v1"
      /\ payload.contract_id = Digest("sha256", payload.contract)
      /\ payload.policy_id = Digest("sha256", payload.policy)
      /\ payload.read_settings_id = Digest("sha256", payload.read_settings)
  BY <1>2, PayloadFacts
<1> HIDE DEF payload, a
<1>6. Bound(a)
  BY <1>4, <1>5 DEF Bound
<1>7. a.signature # Null => key = OurKey
  BY <1>4
<1>8. OurKey # Null
  BY ReceiptsAssumption
<1>9. WellFormed(a.unsigned)
  BY <1>3, <1>4
<1>10. /\ verdict.intact <=> WellFormed(a.unsigned) /\ Bound(a)
       /\ verdict.valid <=> verdict.intact /\ a.signature # Null /\ expected # Null
                             /\ expected = a.public_key
  BY BundleVerdict
<1> HIDE DEF verdict
<1>11. verdict.intact
  BY <1>6, <1>9, <1>10
<1>12. verdict.valid <=> a.signature # Null /\ expected = OurKey
  BY <1>4, <1>7, <1>8, <1>10, <1>11
<1>13. QED
  BY <1>4, <1>11, <1>12 DEF verdict, a

\* An artefact that nobody touched verifies.
LEMMA UntouchedVerifies ==
    ASSUME Inv
    PROVE  IssuedVerifies
<1> SUFFICES ASSUME NEW entry \in issued, entry.artefact = copy, NEW policy \in TrustPolicies
             PROVE  LET signed == copy.kind = "bundle" => copy.signature # Null
                    IN /\ Verdict(policy).intact
                       /\ Verdict(policy).valid <=> signed /\ policy[2] = {OurKey}
  BY DEF IssuedVerifies
<1> DEFINE expected == IF policy[2] = {} THEN Null ELSE CHOOSE k \in policy[2] : TRUE
<1>1. CASE IsReceipt(entry)
  <2>1. copy.kind # "bundle"
    BY <1>1 DEF IsReceipt
  <2>2. Verdict(policy) = Verification(entry.artefact, policy)
    BY <2>1 DEF Verdict
  <2>3. QED
    BY <1>1, <2>1, <2>2, ReceiptVerifies
<1>2. CASE IsBundle(entry)
  <2>1. expected = OurKey <=> policy[2] = {OurKey}
    BY PinnedKey
  <2>2. copy.kind = "bundle"
    BY <1>2, BundleVerifies
  <2>3. Verdict(policy) = VerifyAcceptance(entry.artefact, expected)
    BY <2>2 DEF Verdict
  <2> HIDE DEF expected
  <2>4. QED
    BY <1>2, <2>1, <2>2, <2>3, BundleVerifies
<1>3. QED
  BY <1>1, <1>2 DEF Inv, IssuedInv

\* An artefact that nobody touched is intact, and valid for exactly the readers who trust
\* the key it was signed with, for any data, contract and policy.
THEOREM IssuedVerifiesHolds == Spec => []IssuedVerifies
<1>1. QED
  BY InvHolds, UntouchedVerifies, PTL

-----------------------------------------------------------------------------
(* What a valid artefact says of the data *)

\* The artefact that a valid copy is.
LEMMA ValidEntry ==
    ASSUME Inv, Valid
    PROVE  /\ Entry \in issued /\ Entry.artefact = copy
           /\ IsReceipt(Entry) \/ IsBundle(Entry)
<1>1. PICK policy \in TrustPolicies : copy # Null /\ Verdict(policy).valid /\ policy[2] = {OurKey}
  BY DEF Valid, Trusting
<1>2. ValidMeansIssued
  BY ValidIsIssued
<1>3. \E entry \in issued : entry.artefact = copy
  BY <1>1, <1>2 DEF ValidMeansIssued
<1>4. Entry \in issued /\ Entry.artefact = copy
  BY <1>3 DEF Entry
<1>5. QED
  BY <1>4 DEF Inv, IssuedInv

\* The kind tells receipts and bundles apart.
LEMMA EntryKinds ==
    ASSUME NEW entry
    PROVE  /\ IsBundle(entry) => entry.artefact.kind = "bundle"
           /\ IsReceipt(entry) => entry.artefact.kind # "bundle"
<1>1. ASSUME IsBundle(entry) PROVE entry.artefact.kind = "bundle"
  <2>1. PICK payload, key : entry.artefact = Bundle(payload, key)
    BY <1>1 DEF IsBundle
  <2>2. QED
    BY <2>1 DEF Bundle
<1>2. ASSUME IsReceipt(entry) PROVE entry.artefact.kind # "bundle"
  BY <1>2 DEF IsReceipt
<1>3. QED
  BY <1>1, <1>2

\* A manifest lists the partitions of its data, in their order.
LEMMA ManifestLists ==
    ASSUME NEW d \in Datasets, NEW m, IsManifest(m, d)
    PROVE  LET listed == m.partitions
           IN /\ Len(listed) = Len(d.parts)
              /\ \A i \in DOMAIN listed :
                    listed[i].fingerprint = Fingerprint(d.columns, RowsOf(d.parts[i]))
              /\ FlattenSeq([i \in DOMAIN listed |-> listed[i].fingerprint.digest.of[2]])
                    = AllRows(d)
<1>1. PICK report : m = Manifest(report, PartFingerprints(d))
  BY DEF IsManifest
<1> DEFINE n == Len(d.parts)
           S == RowsIn(d)
           parts == d.parts
           listed == m.partitions
           rows == [i \in 1..n |-> FlattenSeq(parts[i])]
<1>2. /\ parts \in Seq(Seq(Seq(S))) /\ n \in Nat /\ DOMAIN parts = 1..n /\ Len(parts) = n
  BY DataTyped
<1>3. /\ DOMAIN PartFingerprints(d) = 1..n
      /\ \A i \in 1..n : PartFingerprints(d)[i] = Fingerprint(d.columns, RowsOf(parts[i]))
  BY <1>2 DEF PartFingerprints
<1>4. /\ DOMAIN listed = 1..n /\ listed = [i \in 1..n |-> listed[i]]
      /\ \A i \in 1..n : listed[i].fingerprint = Fingerprint(d.columns, RowsOf(parts[i]))
  BY <1>1, <1>3 DEF Manifest
<1> HIDE DEF listed, n, parts, S
<1>5. Len(listed) = n
  BY <1>2, <1>4
<1>6. \A i \in 1..n : listed[i].fingerprint.digest.of[2] = FlattenSeq(parts[i])
  <2>1. \A columns, those : Fingerprint(columns, those).digest.of[2] = those
    BY DEF Fingerprint, Digest
  <2>2. QED
    BY <1>4, <2>1 DEF RowsOf
<1>7. [i \in DOMAIN listed |-> listed[i].fingerprint.digest.of[2]] = rows
  BY <1>4, <1>6
<1>8. rows \in Seq(Seq(S)) /\ Len(rows) = n
  <2>1. \A i \in 1..n : FlattenSeq(parts[i]) \in Seq(S)
    <3>1. ASSUME NEW i \in 1..n PROVE FlattenSeq(parts[i]) \in Seq(S)
      <4>1. parts[i] \in Seq(Seq(S))
        BY <1>2
      <4>2. QED
        BY <4>1, SameOperators, Seqs!FlattenType
    <3>2. QED
      BY <3>1
  <2>2. rows \in [1..n -> Seq(S)]
    BY <2>1
  <2> HIDE DEF rows
  <2>3. QED
    BY <1>2, <2>2, FunctionIsSeq
<1>9. FlattenSeq(rows) = FlattenSeq(FlattenSeq(parts))
  <2>1. \A i \in 1..Len(parts) : rows[i] = Seqs!FlattenSeq(parts[i])
    BY <1>2, SameOperators
  <2> HIDE DEF rows
  <2>2. Seqs!FlattenSeq(rows) = Seqs!FlattenSeq(Seqs!FlattenSeq(parts))
    BY <1>2, <1>8, <2>1, Seqs!FlattenTwice
  <2>3. QED
    BY <2>2, SameOperators
<1>10. AllRows(d) = FlattenSeq(FlattenSeq(parts))
  BY SMTT(30) DEF AllRows, RowsOf, parts
<1>11. QED
  BY <1>4, <1>5, <1>7, <1>9, <1>10 DEF listed, n, parts

\* Everything in a valid artefact is about one scan.
LEMMA ValidIsOneScan ==
    ASSUME Inv
    PROVE  OneScan
<1>1. ASSUME Valid, copy.kind = "v2"
      PROVE  LET source == Entry.data
                 evidence == copy.unsigned.content
                 report == evidence.result.report_digest.of
             IN /\ Entry.how # "assembled"
                        => evidence.dataset = Fingerprint(source.columns, AllRows(source))
                /\ evidence.dataset.rows = report.rows
                /\ report.rows = Len(AllRows(source))
                /\ evidence.result.violation_count = report.violation_count
  <2> DEFINE source == Entry.data
             evidence == copy.unsigned.content
             report == evidence.result.report_digest.of
  <2>1. Entry.artefact = copy /\ IsReceipt(Entry)
    BY <1>1, ValidEntry, EntryKinds
  <2>2. IsReport(report, source) /\ IsEvidence(evidence, report, Entry.how, source)
    BY <1>1, <2>1 DEF IsReceipt
  <2> HIDE DEF source, evidence, report
  <2>3. report.rows = Len(AllRows(source))
    BY <2>2, IsReportFacts
  <2>4. Envelope(report, evidence.dataset).result.violation_count = report.violation_count
    BY DEF Envelope
  <2>5. /\ evidence = Envelope(report, evidence.dataset) /\ evidence.dataset.rows = report.rows
        /\ Entry.how # "assembled" => evidence.dataset = Fingerprint(source.columns, AllRows(source))
    BY <2>2 DEF IsEvidence
  <2>6. evidence.result.violation_count = report.violation_count
    BY <2>4, <2>5
  <2>7. QED
    BY <2>3, <2>5, <2>6 DEF source, evidence, report
<1>2. ASSUME Valid, copy.kind = "bundle", copy.unsigned.evidence # Null
      PROVE  LET source == Entry.data
                 evidence == copy.unsigned.evidence
                 report == evidence.result.report_digest.of
             IN /\ evidence.dataset = Fingerprint(source.columns, AllRows(source))
                /\ evidence.dataset.rows = report.rows
                /\ report.rows = Len(AllRows(source))
                /\ evidence.result.violation_count = report.violation_count
                /\ copy.unsigned.report = report
  <2> DEFINE source == Entry.data
             print == Fingerprint(source.columns, AllRows(source))
  <2>1. Entry.artefact = copy /\ IsBundle(Entry)
    BY <1>2, ValidEntry, EntryKinds
  <2>2. PICK contract \in Contracts, policy \in Policies, key \in {OurKey, Null} :
          copy = Bundle(Payload(source, contract, policy, Min(Samples)), key)
    BY <2>1 DEF IsBundle
  <2>3. source \in Datasets /\ Min(Samples) \in Samples
    BY <2>1, LeastSamples DEF IsBundle
  <2> DEFINE payload == Payload(source, contract, policy, Min(Samples))
             made == Report(source.columns, AllRows(source), contract, Min(Samples))
  <2>4. copy.unsigned = payload
    BY <2>2 DEF Bundle
  <2>5. /\ payload.report = IF ScanCompletes(source, contract) THEN made ELSE Null
        /\ payload.evidence = IF ScanCompletes(source, contract)
                                THEN Envelope(made, print) ELSE Null
    BY <2>3, PayloadFacts
  <2>6. made.rows = Len(AllRows(source)) /\ print.rows = Len(AllRows(source))
    BY DEF Report, Fingerprint
  <2> HIDE DEF source, made, print, payload
  <2>7. /\ Envelope(made, print).dataset = print
        /\ Envelope(made, print).result.report_digest.of = made
        /\ Envelope(made, print).result.violation_count = made.violation_count
    BY DEF Envelope, ReportDigest, Digest
  <2>8. copy.unsigned.evidence = Envelope(made, print) /\ copy.unsigned.report = made
    <3>1. payload.evidence # Null
      BY <1>2, <2>4
    <3>2. payload.evidence = Envelope(made, print) /\ payload.report = made
      BY SMTT(30), <2>5, <3>1
    <3>3. QED
      BY <2>4, <3>2
  <2>9. QED
    BY <2>6, <2>7, <2>8 DEF print, source
<1>3. ASSUME Valid, copy.kind = "partition"
      PROVE  LET source == Entry.data
                 listed == copy.unsigned.content.partitions
             IN /\ Len(listed) = Len(source.parts)
                /\ \A i \in DOMAIN listed :
                      listed[i].fingerprint = Fingerprint(source.columns, RowsOf(source.parts[i]))
                /\ FlattenSeq([i \in DOMAIN listed |-> listed[i].fingerprint.digest.of[2]])
                      = AllRows(source)
  <2>1. Entry.artefact = copy /\ IsReceipt(Entry)
    BY <1>3, ValidEntry, EntryKinds
  <2>2. Entry.data \in Datasets /\ IsManifest(copy.unsigned.content, Entry.data)
    BY <1>3, <2>1 DEF IsReceipt
  <2>3. QED
    BY <2>2, ManifestLists
<1>4. QED
  BY <1>1, <1>2, <1>3 DEF OneScan

\* A valid receipt, manifest or bundle is about one scan (check_with_evidence,
\* check_partitions, accept_file), although the files may be rewritten before it is signed.
THEOREM OneScanHolds == Spec => []OneScan
<1>1. QED
  BY InvHolds, ValidIsOneScan, PTL

\* What an accepted payload says of the data.
LEMMA AcceptedFacts ==
    ASSUME NEW d \in Datasets, NEW contract \in Contracts, NEW policy \in Policies,
           NEW samples \in Samples, ScanCompletes(d, contract),
           LET report == Report(d.columns, AllRows(d), contract, samples)
           IN Decide(report, d.columns, policy).status = "accepted"
    PROVE  LET rows == AllRows(d)
           IN /\ Cardinality(BadOnes(contract, d.columns, rows)) <= policy.max_violations
              /\ \A m \in policy.minimum_evaluated :
                    /\ m[1] \in contract.columns
                    /\ \E c \in DOMAIN d.columns :
                        d.columns[c] = m[1] /\ Offered(rows, c) >= m[2]
<1> DEFINE rows == AllRows(d)
           names == d.columns
           report == Report(names, rows, contract, samples)
           plan == PlanColumns(contract, names)
           evaluated == {<<names[plan[i]], report.evaluated_columns[i]>> : i \in DOMAIN plan}
           missed == {m \in policy.minimum_evaluated :
                        ~\E e \in evaluated : e[1] = m[1] /\ e[2] >= m[2]}
           exceeded == report.violation_count > policy.max_violations
<1>1. report.evaluated_indices = plan
      /\ report.evaluated_columns = [i \in DOMAIN plan |-> Offered(rows, plan[i])]
  BY DEF Report
<1>2. /\ report.violation_count \in Nat
      /\ report.violation_count = Cardinality(BadOnes(contract, names, rows))
  BY ReportFacts
<1>3. Decide(report, names, policy).status = "accepted"
  OBVIOUS
<1> HIDE DEF report
<1>4. ~exceeded /\ missed = {}
  BY <1>1, <1>3 DEF Decide
<1>5. policy.max_violations \in Nat
  BY ReceiptsAssumption
<1>6. report.violation_count <= policy.max_violations
  BY <1>2, <1>4, <1>5
<1>7. /\ plan \in Seq(Ruled(contract, names)) /\ DOMAIN plan = 1..Len(plan)
      /\ DOMAIN names = 1..Len(names)
  BY PlanFacts, DataTyped
<1> HIDE DEF plan, names, rows
<1>8. ASSUME NEW m \in policy.minimum_evaluated
      PROVE  /\ m[1] \in contract.columns
             /\ \E c \in DOMAIN names : names[c] = m[1] /\ Offered(rows, c) >= m[2]
  <2>1. \E e \in evaluated : e[1] = m[1] /\ e[2] >= m[2]
    BY <1>4
  <2>2. PICK i \in DOMAIN plan :
          names[plan[i]] = m[1] /\ report.evaluated_columns[i] >= m[2]
    BY <2>1
  <2>3. report.evaluated_columns[i] = Offered(rows, plan[i])
    BY <1>1
  <2>4. plan[i] \in Ruled(contract, names)
    BY <1>7
  <2>5. plan[i] \in 1..Len(names) /\ names[plan[i]] \in contract.columns
    BY <2>4 DEF Ruled
  <2>6. QED
    BY <1>7, <2>2, <2>3, <2>5
<1>9. QED
  BY <1>2, <1>6, <1>8 DEF names, rows

\* A decision in a valid bundle is true of the data.
LEMMA ValidIsPolicyMet ==
    ASSUME Inv
    PROVE  AcceptedMeansPolicyMet
<1> SUFFICES ASSUME Valid, copy.kind = "bundle"
             PROVE  LET source == Entry.data
                        payload == copy.unsigned
                        rows == AllRows(source)
                        cells == BadOnes(payload.contract, source.columns, rows)
                    IN CASE payload.decision.status = "accepted" ->
                                /\ Cardinality(cells) <= payload.policy.max_violations
                                /\ \A m \in payload.policy.minimum_evaluated :
                                    /\ m[1] \in payload.contract.columns
                                    /\ \E c \in DOMAIN source.columns :
                                        source.columns[c] = m[1] /\ Offered(rows, c) >= m[2]
                         [] payload.decision.status = "unknown" ->
                                payload.report = Null /\ payload.evidence = Null
                                /\ ~ScanCompletes(source, payload.contract)
                         [] OTHER -> ScanCompletes(source, payload.contract)
  BY DEF AcceptedMeansPolicyMet, BadOnes
<1> DEFINE source == Entry.data
<1>1. Entry.artefact = copy /\ IsBundle(Entry)
  BY ValidEntry, EntryKinds
<1>2. PICK contract \in Contracts, policy \in Policies, key \in {OurKey, Null} :
        copy = Bundle(Payload(source, contract, policy, Min(Samples)), key)
  BY <1>1 DEF IsBundle
<1>3. source \in Datasets /\ Min(Samples) \in Samples
  BY <1>1, LeastSamples DEF IsBundle
<1> DEFINE payload == Payload(source, contract, policy, Min(Samples))
           report == Report(source.columns, AllRows(source), contract, Min(Samples))
           complete == ScanCompletes(source, contract)
           decision == Decide(report, source.columns, policy)
           cells == BadOnes(contract, source.columns, AllRows(source))
<1>4. copy.unsigned = payload
  BY <1>2 DEF Bundle
<1>5. /\ payload.contract = contract /\ payload.policy = policy
      /\ payload.decision = IF complete THEN decision ELSE Unknown
      /\ ~complete => payload.report = Null /\ payload.evidence = Null
  BY <1>3, PayloadFacts
<1>6. decision.status \in {"accepted", "rejected"} /\ Unknown.status = "unknown"
  BY DecideFacts DEF Unknown
<1>7. ASSUME complete, decision.status = "accepted"
      PROVE  /\ Cardinality(cells) <= policy.max_violations
             /\ \A m \in policy.minimum_evaluated :
                    /\ m[1] \in contract.columns
                    /\ \E c \in DOMAIN source.columns :
                        source.columns[c] = m[1] /\ Offered(AllRows(source), c) >= m[2]
  BY <1>3, <1>7, AcceptedFacts
<1> HIDE DEF payload, report, decision, source
<1>8. CASE complete /\ decision.status = "accepted"
  BY <1>4, <1>5, <1>7, <1>8 DEF source
<1>9. CASE complete /\ decision.status = "rejected"
  BY <1>4, <1>5, <1>9 DEF source
<1>10. CASE ~complete
  BY <1>4, <1>5, <1>6, <1>10 DEF source
<1>11. QED
  BY <1>6, <1>8, <1>9, <1>10

\* A valid bundle that says `accepted` means that the data met the policy, and one that
\* says `unknown` carries no scan (_decide and verify_acceptance).
THEOREM AcceptedMeansPolicyMetHolds == Spec => []AcceptedMeansPolicyMet
<1>1. QED
  BY InvHolds, ValidIsPolicyMet, PTL

-----------------------------------------------------------------------------
(* Publication: who is where, and what is in its temporary *)

PartNames == {"bundle", "report.json", "evidence.json", "summary.md", "index.html", Torn}
Contents == [parts : Seq(PartNames), bytes : Nat]

Types ==
    /\ pc \in [Publishers -> Steps]
    /\ scan \in [Publishers -> {"none", "complete", "failed", "refused"}]
    /\ staging \in [Publishers -> Contents]
    /\ mine \in [Publishers -> BOOLEAN]
    /\ remaining \in [Publishers -> 0..MaxBytes]
    /\ result \in [Publishers -> {"none", "returned", "raised", "stuck", "killed"}]
    /\ locks \in [Kinds -> Publishers \cup {Nobody}]
    /\ target \in [kind : Kinds \cup {"nothing"}, by : Publishers \cup {Nobody}, content : Contents]

\* Who holds a lock is inside, or was stopped there.
LockHeld ==
    \A p \in Publishers, kind \in Kinds :
        locks[kind] = p =>
            /\ kind = KindOf(p)
            /\ \/ pc[p] \in Inside(p)
               \/ pc[p] = "ended" /\ result[p] \in {"stuck", "killed"}

\* An acceptance on its way to the rename has seen that the path is no file, and the lock
\* keeps it so.
RenameFree ==
    \A p \in Accepters : pc[p] = "rename" => target.kind # "file"

\* A call has a result from its rename or its exception on.
ResultSet ==
    \A p \in Publishers :
        /\ pc[p] \notin {"discard", "unlock", "ended"} => result[p] = "none"
        /\ pc[p] \in {"discard", "unlock"} => result[p] \in {"returned", "raised"}
        /\ result[p] = "none" => target.by # p
        /\ result[p] = "raised" => target.by # p
        /\ result[p] = "returned" => target.by = p

\* When a temporary is empty.
Clean(p) == staging[p] = Empty /\ ~mine[p]
StagingClean ==
    \A p \in Publishers :
        /\ pc[p] \in {"idle", "lock", "look_again", "stage", "unlock"} => Clean(p)
        /\ pc[p] = "scan" => staging[p] = Empty /\ (p \in Accepters => ~mine[p])
        /\ pc[p] = "ended" /\ result[p] \in {"returned", "raised"} => Clean(p)

\* What the scan of a publisher must have been once it writes.
Fit(p) == scan[p] \in IF p \in Accepters THEN {"complete", "failed"} ELSE {"complete"}

\* What a temporary holds before, during and after the writing.
Filled(p) ==
    /\ pc[p] \in {"lock", "look_again", "stage"} /\ p \in Accepters => Fit(p)
    /\ pc[p] = "write" =>
        /\ Fit(p)
        /\ Len(staging[p].parts) < Len(PartsOf(KindOf(p)))
        /\ \A i \in 1..Len(staging[p].parts) : staging[p].parts[i] = PartsOf(KindOf(p))[i]
        /\ staging[p].bytes + remaining[p] <= MaxBytes
    /\ pc[p] \in {"last_look", "rename"} =>
        /\ Fit(p)
        /\ staging[p].parts = PartsOf(KindOf(p))
        /\ staging[p].bytes <= MaxBytes
    /\ Len(staging[p].parts) <= Len(PartsOf(KindOf(p)))
Filling == \A p \in Publishers : Filled(p)

\* What is published is of a publisher that has renamed it.
Published ==
    /\ Exists <=> target.by # Nobody
    /\ Exists =>
        /\ target.by \in Publishers /\ target.kind = KindOf(target.by)
        /\ pc[target.by] \in {"discard", "unlock", "ended"}
        /\ Fit(target.by)
        /\ target.content.parts = PartsOf(target.kind)
        /\ target.content.bytes <= MaxBytes

PublicationInv ==
    /\ Types /\ OneWriter /\ LockHeld /\ RenameFree /\ ResultSet
    /\ StagingClean /\ Filling /\ Published

-----------------------------------------------------------------------------
(* Facts about contents *)

LEMMA EmptyContent == Empty \in Contents /\ Len(Empty.parts) = 0
BY DEF Empty, Contents

LEMMA PartsAreNames ==
  ASSUME NEW kind
  PROVE  PartsOf(kind) \in Seq(PartNames) /\ Len(PartsOf(kind)) \in Nat \ {0}
<1>1. CASE kind = "file"
  BY <1>1 DEF PartsOf, PartNames
<1>2. CASE kind # "file"
  <2>1. PartsOf(kind) = <<"report.json", "evidence.json", "summary.md", "index.html">>
    BY <1>2 DEF PartsOf
  <2> QED  BY <2>1 DEF PartNames
<1> QED  BY <1>1, <1>2

-----------------------------------------------------------------------------
(* Every step keeps the invariant.  The exceptions before the lock and under it are    *)
(* common to several steps and come first.                                             *)

LEMMA RaiseKeeps ==
  ASSUME PublicationInv, NEW p \in Publishers, Raise(p),
         pc[p] = "idle" \/ pc[p] = "lock" \/ (pc[p] = "scan" /\ p \in Accepters),
         NEW outcome \in {"none", "complete", "failed", "refused"},
         scan' = [scan EXCEPT ![p] = outcome],
         UNCHANGED <<staging, mine, remaining, locks, target>>
  PROVE  PublicationInv'
<1> USE PublicationAssumption DEF PublicationInv, Publishers, Goto
<1>1. Types'
  BY DEF Raise, Types, Steps
<1>2. OneWriter'
  BY DEF Raise, Types, OneWriter, Inside, Kinds, KindOf
<1>3. LockHeld'
  BY DEF Raise, Types, LockHeld, Inside, Kinds, KindOf
<1>4. RenameFree'
  BY DEF Raise, Types, RenameFree
<1>5. ResultSet'
  BY DEF Raise, Exists, Types, ResultSet, Published
<1>6. StagingClean'
  BY DEF Raise, Types, StagingClean, Clean, ResultSet
<1>7. Filling'
  BY DEF Raise, Types, Filling, Filled, Fit, StagingClean, Clean
<1>8. Published'
  BY DEF Raise, Exists, Types, Published, Fit, ResultSet
<1> QED  BY <1>1, <1>2, <1>3, <1>4, <1>5, <1>6, <1>7, <1>8

LEMMA UnwindKeeps ==
  ASSUME PublicationInv, NEW p \in Publishers, Unwind(p), pc[p] \in Inside(p) \ {"discard", "unlock"},
         NEW outcome \in {"none", "complete", "failed", "refused"},
         scan' = [scan EXCEPT ![p] = outcome],
         NEW content \in Contents, Len(content.parts) <= Len(PartsOf(KindOf(p))),
         staging' = [staging EXCEPT ![p] = content],
         UNCHANGED <<mine, remaining, locks, target>>
  PROVE  PublicationInv'
<1> USE PublicationAssumption DEF PublicationInv, Publishers, Goto
<1>1. Types'
  BY DEF Unwind, Inside, Types, Steps
<1>2. OneWriter'
  BY DEF Unwind, Types, OneWriter, Inside, Kinds, KindOf
<1>3. LockHeld'
  BY DEF Unwind, Types, LockHeld, Inside, Kinds, KindOf
<1>4. RenameFree'
  BY DEF Unwind, Types, RenameFree
<1>5. ResultSet'
  BY DEF Unwind, Inside, Exists, Types, ResultSet, Published
<1>6. StagingClean'
  BY DEF Unwind, Inside, Types, StagingClean, Clean, ResultSet
<1>7. Filling'
  BY DEF Unwind, Inside, Types, Filling, Filled, Fit, StagingClean, Clean
<1>8. Published'
  BY DEF Unwind, Inside, Exists, Types, Published, Fit, ResultSet
<1> QED  BY <1>1, <1>2, <1>3, <1>4, <1>5, <1>6, <1>7, <1>8

LEMMA LookKeeps ==
  ASSUME PublicationInv, NEW p \in Publishers, Look(p)
  PROVE  PublicationInv'
<1> USE PublicationAssumption DEF PublicationInv, Publishers, Goto
<1>1. /\ scan = [scan EXCEPT ![p] = scan[p]]
      /\ scan[p] \in {"none", "complete", "failed", "refused"}
  BY DEF Types
<1>2. CASE Exists
  <2>1. Raise(p) /\ UNCHANGED <<staging, mine, remaining, locks, target>>
    BY <1>2 DEF Look
  <2>2. scan' = [scan EXCEPT ![p] = scan[p]]
    BY <1>1 DEF Look
  <2>3. pc[p] = "idle"
    BY DEF Look
  <2> HIDE DEF PublicationInv
  <2> QED  BY <1>1, <2>1, <2>2, <2>3, RaiseKeeps
<1>3. CASE ~Exists
  <2>1. Types'
    BY <1>3 DEF Look, Types, Steps
  <2>2. OneWriter'
    BY <1>3 DEF Look, Types, OneWriter, Inside, Kinds, KindOf
  <2>3. LockHeld'
    BY <1>3 DEF Look, Types, LockHeld, Inside, Kinds, KindOf
  <2>4. RenameFree'
    BY <1>3 DEF Look, Types, RenameFree
  <2>5. ResultSet'
    BY <1>3 DEF Look, Exists, Types, ResultSet, Published
  <2>6. StagingClean'
    BY <1>3 DEF Look, Types, StagingClean, Clean, ResultSet
  <2>7. Filling'
    BY <1>3 DEF Look, Types, Filling, Filled, Fit, StagingClean, Clean
  <2>8. Published'
    BY <1>3 DEF Look, Exists, Types, Published, Fit, ResultSet
  <2> QED  BY <2>1, <2>2, <2>3, <2>4, <2>5, <2>6, <2>7, <2>8
<1> QED  BY <1>2, <1>3

LEMMA AcceptScanKeeps ==
  ASSUME PublicationInv, NEW p \in Publishers, AcceptScan(p)
  PROVE  PublicationInv'
<1> USE PublicationAssumption DEF PublicationInv, Publishers, Goto
<1>1. PICK outcome \in {"complete", "failed", "refused"}, size \in Sizes :
        /\ scan' = [scan EXCEPT ![p] = outcome]
        /\ IF outcome = "refused" \/ size > MaxBytes
             THEN Raise(p) /\ UNCHANGED remaining
             ELSE /\ Goto(p, "lock")
                  /\ remaining' = [remaining EXCEPT ![p] = size]
                  /\ UNCHANGED result
  BY DEF AcceptScan
<1>2. CASE outcome = "refused" \/ size > MaxBytes
  BY <1>1, <1>2, RaiseKeeps DEF AcceptScan
<1>3. CASE ~(outcome = "refused" \/ size > MaxBytes)
  <2>0. size \in 0..MaxBytes
    BY <1>3
  <2>1. Types'
    BY <1>1, <1>3, <2>0 DEF AcceptScan, Types, Steps
  <2>2. OneWriter'
    BY <1>1, <1>3, <2>0 DEF AcceptScan, Types, OneWriter, Inside, Kinds, KindOf
  <2>3. LockHeld'
    BY <1>1, <1>3, <2>0 DEF AcceptScan, Types, LockHeld, Inside, Kinds, KindOf
  <2>4. RenameFree'
    BY <1>1, <1>3, <2>0 DEF AcceptScan, Types, RenameFree
  <2>5. ResultSet'
    BY <1>1, <1>3, <2>0 DEF AcceptScan, Exists, Types, ResultSet, Published
  <2>6. StagingClean'
    BY <1>1, <1>3, <2>0 DEF AcceptScan, Types, StagingClean, Clean, ResultSet
  <2>7. Filling'
    BY <1>1, <1>3, <2>0 DEF AcceptScan, Types, Filling, Filled, Fit, StagingClean, Clean
  <2>8. Published'
    BY <1>1, <1>3, <2>0 DEF AcceptScan, Exists, Types, Published, Fit, ResultSet
  <2> QED  BY <2>1, <2>2, <2>3, <2>4, <2>5, <2>6, <2>7, <2>8
<1> QED  BY <1>2, <1>3

LEMMA ReviewScanKeeps ==
  ASSUME PublicationInv, NEW p \in Publishers, ReviewScan(p)
  PROVE  PublicationInv'
<1> USE PublicationAssumption DEF PublicationInv, Publishers, Goto
<1>1. /\ staging = [staging EXCEPT ![p] = staging[p]]
      /\ staging[p] \in Contents /\ Len(staging[p].parts) <= Len(PartsOf(KindOf(p)))
  BY DEF Types, Filling, Filled
<1>2. PICK outcome \in {"complete", "failed"} :
        /\ scan' = [scan EXCEPT ![p] = outcome]
        /\ IF outcome = "failed" THEN Unwind(p)
           ELSE Goto(p, "write") /\ UNCHANGED result
  BY DEF ReviewScan
<1>3. CASE outcome = "failed"
  BY <1>1, <1>2, <1>3, UnwindKeeps DEF ReviewScan, Inside
<1>4. CASE outcome = "complete"
  <2>1. Types'
    BY <1>2, <1>4 DEF ReviewScan, Types, Steps
  <2>2. OneWriter'
    BY <1>2, <1>4 DEF ReviewScan, Types, OneWriter, Inside, Kinds, KindOf
  <2>3. LockHeld'
    BY <1>2, <1>4 DEF ReviewScan, Types, LockHeld, Inside, Kinds, KindOf
  <2>4. RenameFree'
    BY <1>2, <1>4 DEF ReviewScan, Types, RenameFree
  <2>5. ResultSet'
    BY <1>2, <1>4 DEF ReviewScan, Exists, Types, ResultSet, Published
  <2>6. StagingClean'
    BY <1>2, <1>4 DEF ReviewScan, Types, StagingClean, Clean, ResultSet
  <2>7. Filling'
    BY <1>2, <1>4, EmptyContent, PartsAreNames
       DEF ReviewScan, Types, Filling, Filled, Fit, StagingClean, Empty
  <2>8. Published'
    BY <1>2, <1>4 DEF ReviewScan, Exists, Types, Published, Fit, ResultSet
  <2> QED  BY <2>1, <2>2, <2>3, <2>4, <2>5, <2>6, <2>7, <2>8
<1> QED  BY <1>3, <1>4

LEMMA LockKeeps ==
  ASSUME PublicationInv, NEW p \in Publishers, Lock(p)
  PROVE  PublicationInv'
<1> USE PublicationAssumption DEF PublicationInv, Publishers, Goto
<1>1. /\ scan = [scan EXCEPT ![p] = scan[p]]
      /\ scan[p] \in {"none", "complete", "failed", "refused"}
  BY DEF Types
<1>2. CASE locks[KindOf(p)] # Nobody
  <2>1. Raise(p) /\ UNCHANGED <<staging, mine, remaining, locks, target>>
    BY <1>2 DEF Lock
  <2>2. scan' = [scan EXCEPT ![p] = scan[p]]
    BY <1>1 DEF Lock
  <2>3. pc[p] = "lock"
    BY DEF Lock
  <2> HIDE DEF PublicationInv
  <2> QED  BY <1>1, <2>1, <2>2, <2>3, RaiseKeeps
<1>3. CASE locks[KindOf(p)] = Nobody
  <2>0. KindOf(p) \in Kinds
    BY DEF KindOf, Kinds
  <2>1. Types'
    BY <1>3, <2>0 DEF Lock, Types, Steps
  <2>2. OneWriter'
    BY <1>3 DEF Lock, Types, OneWriter, Inside, Kinds, KindOf
  <2>3. LockHeld'
    BY <1>3 DEF Lock, Types, LockHeld, Inside, Kinds, KindOf
  <2>4. RenameFree'
    BY <1>3 DEF Lock, Types, RenameFree
  <2>5. ResultSet'
    BY <1>3 DEF Lock, Exists, Types, ResultSet, Published
  <2>6. StagingClean'
    BY <1>3 DEF Lock, Types, StagingClean, Clean, ResultSet
  <2>7. Filling'
    BY <1>3 DEF Lock, Types, Filling, Filled, Fit, StagingClean, Clean
  <2>8. Published'
    BY <1>3 DEF Lock, Exists, Types, Published, Fit, ResultSet
  <2> QED  BY <2>1, <2>2, <2>3, <2>4, <2>5, <2>6, <2>7, <2>8
<1> QED  BY <1>2, <1>3

LEMMA LookAgainKeeps ==
  ASSUME PublicationInv, NEW p \in Publishers, LookAgain(p)
  PROVE  PublicationInv'
<1> USE PublicationAssumption DEF PublicationInv, Publishers, Goto
<1>1. /\ scan = [scan EXCEPT ![p] = scan[p]]
      /\ scan[p] \in {"none", "complete", "failed", "refused"}
  BY DEF Types
<1>2. /\ staging = [staging EXCEPT ![p] = staging[p]]
      /\ staging[p] \in Contents /\ Len(staging[p].parts) <= Len(PartsOf(KindOf(p)))
  BY DEF Types, Filling, Filled
<1>3. CASE Exists
  BY <1>1, <1>2, <1>3, UnwindKeeps DEF LookAgain, Inside
<1>4. CASE ~Exists
  <2>1. Types'
    BY <1>4 DEF LookAgain, Types, Steps
  <2>2. OneWriter'
    BY <1>4 DEF LookAgain, Types, OneWriter, Inside, Kinds, KindOf
  <2>3. LockHeld'
    BY <1>4 DEF LookAgain, Types, LockHeld, Inside, Kinds, KindOf
  <2>4. RenameFree'
    BY <1>4 DEF LookAgain, Types, RenameFree
  <2>5. ResultSet'
    BY <1>4 DEF LookAgain, Exists, Types, ResultSet, Published
  <2>6. StagingClean'
    BY <1>4 DEF LookAgain, Types, StagingClean, Clean, ResultSet
  <2>7. Filling'
    BY <1>4 DEF LookAgain, Types, Filling, Filled, Fit, StagingClean, Clean
  <2>8. Published'
    BY <1>4 DEF LookAgain, Exists, Types, Published, Fit, ResultSet
  <2> QED  BY <2>1, <2>2, <2>3, <2>4, <2>5, <2>6, <2>7, <2>8
<1> QED  BY <1>3, <1>4

LEMMA LastLookKeeps ==
  ASSUME PublicationInv, NEW p \in Publishers, LastLook(p)
  PROVE  PublicationInv'
<1> USE PublicationAssumption DEF PublicationInv, Publishers, Goto
<1>1. /\ scan = [scan EXCEPT ![p] = scan[p]]
      /\ scan[p] \in {"none", "complete", "failed", "refused"}
  BY DEF Types
<1>2. /\ staging = [staging EXCEPT ![p] = staging[p]]
      /\ staging[p] \in Contents /\ Len(staging[p].parts) <= Len(PartsOf(KindOf(p)))
  BY DEF Types, Filling, Filled
<1>3. CASE Exists
  BY <1>1, <1>2, <1>3, UnwindKeeps DEF LastLook, Inside
<1>4. CASE ~Exists
  <2>1. Types'
    BY <1>4 DEF LastLook, Types, Steps
  <2>2. OneWriter'
    BY <1>4 DEF LastLook, Types, OneWriter, Inside, Kinds, KindOf
  <2>3. LockHeld'
    BY <1>4 DEF LastLook, Types, LockHeld, Inside, Kinds, KindOf
  <2>4. RenameFree'
    BY <1>4 DEF LastLook, Exists, Types, RenameFree
  <2>5. ResultSet'
    BY <1>4 DEF LastLook, Exists, Types, ResultSet, Published
  <2>6. StagingClean'
    BY <1>4 DEF LastLook, Types, StagingClean, Clean, ResultSet
  <2>7. Filling'
    BY <1>4 DEF LastLook, Types, Filling, Filled, Fit, StagingClean, Clean
  <2>8. Published'
    BY <1>4 DEF LastLook, Exists, Types, Published, Fit, ResultSet
  <2> QED  BY <2>1, <2>2, <2>3, <2>4, <2>5, <2>6, <2>7, <2>8
<1> QED  BY <1>3, <1>4

LEMMA StageKeeps ==
  ASSUME PublicationInv, NEW p \in Publishers, Stage(p)
  PROVE  PublicationInv'
<1> USE PublicationAssumption DEF PublicationInv, Publishers, Goto
<1>1. /\ scan = [scan EXCEPT ![p] = scan[p]]
      /\ scan[p] \in {"none", "complete", "failed", "refused"}
  BY DEF Types
<1>2. /\ staging = [staging EXCEPT ![p] = staging[p]]
      /\ staging[p] \in Contents /\ Len(staging[p].parts) <= Len(PartsOf(KindOf(p)))
  BY DEF Types, Filling, Filled
<1>3. CASE Unwind(p) /\ UNCHANGED mine
  BY <1>1, <1>2, <1>3, UnwindKeeps DEF Stage, Inside
<1>4. CASE /\ mine' = [mine EXCEPT ![p] = TRUE]
           /\ Goto(p, IF p \in Accepters THEN "write" ELSE "scan")
           /\ UNCHANGED result
  <2>1. Types'
    BY <1>4 DEF Stage, Types, Steps
  <2>2. OneWriter'
    BY <1>4 DEF Stage, Types, OneWriter, Inside, Kinds, KindOf
  <2>3. LockHeld'
    BY <1>4 DEF Stage, Types, LockHeld, Inside, Kinds, KindOf
  <2>4. RenameFree'
    BY <1>4 DEF Stage, Types, RenameFree
  <2>5. ResultSet'
    BY <1>4 DEF Stage, Exists, Types, ResultSet, Published
  <2>6. StagingClean'
    BY <1>4 DEF Stage, Types, StagingClean, Clean, ResultSet
  <2>7. Filling'
    BY <1>4, EmptyContent, PartsAreNames
       DEF Stage, Types, Filling, Filled, Fit, StagingClean, Clean, Empty
  <2>8. Published'
    BY <1>4 DEF Stage, Exists, Types, Published, Fit, ResultSet
  <2> QED  BY <2>1, <2>2, <2>3, <2>4, <2>5, <2>6, <2>7, <2>8
<1> QED  BY <1>3, <1>4 DEF Stage

LEMMA WriteKeeps ==
  ASSUME PublicationInv, NEW p \in Publishers, Write(p)
  PROVE  PublicationInv'
<1> USE PublicationAssumption DEF PublicationInv, Publishers, Goto
<1> DEFINE parts == PartsOf(KindOf(p))
           next == Len(staging[p].parts) + 1
           torn == Extended(staging[p], Torn, 0)
<1>1. /\ scan = [scan EXCEPT ![p] = scan[p]]
      /\ scan[p] \in {"none", "complete", "failed", "refused"}
  BY DEF Types
<1>2. /\ staging[p] \in Contents /\ next \in 1..Len(parts)
      /\ parts \in Seq(PartNames) /\ parts[next] \in PartNames
  <2>1. parts \in Seq(PartNames)
    BY PartsAreNames
  <2>2. staging[p] \in Contents /\ Len(staging[p].parts) < Len(parts)
    BY DEF Types, Filling, Filled, Write
  <2>3. Len(staging[p].parts) \in Nat /\ Len(parts) \in Nat
    BY <2>1, <2>2 DEF Contents
  <2>4. next \in 1..Len(parts)
    BY <2>2, <2>3
  <2> HIDE DEF parts, next
  <2> QED  BY <2>1, <2>2, <2>4, ElementOfSeq
<1>3. CASE staging' = [staging EXCEPT ![p] = torn] /\ Unwind(p) /\ UNCHANGED remaining
  <2>1. torn \in Contents /\ Len(torn.parts) = next
    <3>1. Torn \in PartNames
      BY DEF PartNames
    <3>2. staging[p].parts \in Seq(PartNames) /\ staging[p].bytes + 0 \in Nat
      BY <1>2 DEF Contents
    <3> QED  BY <3>1, <3>2, AppendProperties DEF Extended, Contents
  <2>2. Len(torn.parts) <= Len(parts)
    BY <1>2, <2>1
  <2> QED  BY <1>1, <1>3, <2>1, <2>2, UnwindKeeps DEF Write, Inside
<1>4. ASSUME NEW size \in IF p \in Accepters THEN {remaining[p]} ELSE Sizes,
             size <= remaining[p],
             staging' = [staging EXCEPT ![p] = Extended(staging[p], parts[next], size)],
             remaining' = [remaining EXCEPT ![p] = remaining[p] - size],
             Goto(p, IF next = Len(parts) THEN "last_look" ELSE "write"),
             UNCHANGED result
      PROVE  PublicationInv'
  <2> DEFINE longer == Extended(staging[p], parts[next], size)
  <2>1. size \in Nat /\ remaining[p] \in 0..MaxBytes
    BY <1>4 DEF Types
  <2>2. /\ longer \in Contents /\ Len(longer.parts) = next
        /\ \A i \in 1..Len(staging[p].parts) : longer.parts[i] = staging[p].parts[i]
        /\ longer.parts[next] = parts[next]
        /\ longer.bytes = staging[p].bytes + size
    BY <1>2, <2>1, AppendProperties DEF Extended, Contents
  <2>3. \A i \in 1..Len(longer.parts) : longer.parts[i] = parts[i]
    <3>1. \A i \in 1..Len(staging[p].parts) : staging[p].parts[i] = parts[i]
      BY DEF Filling, Filled, Write
    <3>2. Len(staging[p].parts) \in Nat
      BY <1>2 DEF Contents
    <3> HIDE DEF longer, parts
    <3> QED  BY <2>2, <3>1, <3>2
  <2>4. next = Len(parts) => longer.parts = parts
    <3>1. longer.parts \in Seq(PartNames)
      BY <2>2 DEF Contents
    <3> QED  BY <1>2, <2>2, <2>3, <3>1, SeqEqual
  <2>5. longer.bytes + (remaining[p] - size) <= MaxBytes
    BY <1>2, <2>1, <2>2 DEF Filling, Filled, Write, Contents
  <2> HIDE DEF longer
  <2>6. Types'
    BY <1>4, <2>1, <2>2 DEF longer, Write, Types, Steps
  <2>7. OneWriter'
    BY <1>4 DEF Write, Types, OneWriter, Inside, Kinds, KindOf
  <2>8. LockHeld'
    BY <1>4 DEF Write, Types, LockHeld, Inside, Kinds, KindOf
  <2>9. RenameFree'
    BY <1>4 DEF Write, Types, RenameFree
  <2>10. ResultSet'
    BY <1>4 DEF Write, Exists, Types, ResultSet, Published
  <2>11. StagingClean'
    BY <1>4 DEF Write, Types, StagingClean, Clean, ResultSet
  <2>12. Filling'
    <3>1. ASSUME NEW q \in Publishers, q # p
          PROVE  Filled(q)'
      BY <1>4, <3>1 DEF Write, Types, Filling, Filled, Fit
    <3>2. Filled(p)'
      <4>1. /\ staging'[p] = longer /\ remaining'[p] = remaining[p] - size
            /\ pc'[p] = IF next = Len(parts) THEN "last_look" ELSE "write"
            /\ Fit(p)'
        BY <1>4 DEF longer, Write, Types, Filling, Filled, Fit
      <4>2. CASE next = Len(parts)
        BY <1>2, <1>4, <2>1, <2>2, <2>4, <2>5, <4>1, <4>2 DEF Filled, Contents
      <4>3. CASE next # Len(parts)
        BY <1>2, <2>1, <2>2, <2>3, <2>5, <4>1, <4>3 DEF Filled, Contents
      <4> QED  BY <4>2, <4>3
    <3> QED  BY <3>1, <3>2 DEF Filling
  <2>13. Published'
    BY <1>4 DEF Write, Exists, Types, Published, Fit, ResultSet
  <2> QED  BY <2>6, <2>7, <2>8, <2>9, <2>10, <2>11, <2>12, <2>13
<1> QED  BY <1>3, <1>4 DEF Write

LEMMA RenameKeeps ==
  ASSUME PublicationInv, NEW p \in Publishers, Rename(p)
  PROVE  PublicationInv'
<1> USE PublicationAssumption DEF PublicationInv, Publishers, Goto
<1>1. /\ scan = [scan EXCEPT ![p] = scan[p]]
      /\ scan[p] \in {"none", "complete", "failed", "refused"}
  BY DEF Types
<1>2. /\ staging = [staging EXCEPT ![p] = staging[p]]
      /\ staging[p] \in Contents /\ Len(staging[p].parts) <= Len(PartsOf(KindOf(p)))
  BY DEF Types, Filling, Filled
<1>3. CASE ~Renames(KindOf(p))
  BY <1>1, <1>2, <1>3, UnwindKeeps DEF Rename, Inside
<1>4. CASE Renames(KindOf(p))
  <2>0. /\ target' = [kind |-> KindOf(p), by |-> p, content |-> staging[p]]
        /\ staging' = [staging EXCEPT ![p] = Empty]
        /\ mine' = [mine EXCEPT ![p] = FALSE]
        /\ pc' = [pc EXCEPT ![p] = "discard"]
        /\ result' = [result EXCEPT ![p] = "returned"]
        /\ UNCHANGED <<scan, remaining, locks>>
        /\ pc[p] = "rename"
    BY <1>4 DEF Rename
  <2>9. ~Exists /\ KindOf(p) \in Kinds
    BY <1>4, <2>0 DEF Renames, RenameFree, KindOf, Kinds
  <2>1. Types'
    BY <2>0, <2>9, EmptyContent DEF Types, Steps
  <2>2. OneWriter'
    BY <2>0, <2>9 DEF Types, OneWriter, Inside, Kinds, KindOf
  <2>3. LockHeld'
    BY <2>0, <2>9 DEF Types, LockHeld, Inside, Kinds, KindOf
  <2>4. RenameFree'
    BY <2>0, <2>9 DEF Types, OneWriter, RenameFree, Inside, Kinds, KindOf
  <2>5. ResultSet'
    BY <2>0, <2>9, EmptyContent DEF Exists, Types, ResultSet, Published
  <2>6. StagingClean'
    BY <2>0, <2>9, EmptyContent DEF Types, StagingClean, Clean, ResultSet
  <2>7. Filling'
    BY <2>0, <2>9, EmptyContent DEF Types, Filling, Filled, Fit, StagingClean, Clean
  <2>8. Published'
    BY <2>0, <2>9 DEF Exists, Types, Published, Filling, Filled, Fit, Kinds
  <2> QED  BY <2>1, <2>2, <2>3, <2>4, <2>5, <2>6, <2>7, <2>8
<1> QED  BY <1>3, <1>4

LEMMA DiscardKeeps ==
  ASSUME PublicationInv, NEW p \in Publishers, Discard(p)
  PROVE  PublicationInv'
<1> USE PublicationAssumption DEF PublicationInv, Publishers, Goto
<1>1. Types'
  BY EmptyContent DEF Discard, Types, Steps
<1>2. OneWriter'
  BY DEF Discard, Types, OneWriter, Inside, Kinds, KindOf
<1>3. LockHeld'
  BY DEF Discard, Types, LockHeld, Inside, Kinds, KindOf
<1>4. RenameFree'
  BY DEF Discard, Types, RenameFree
<1>5. ResultSet'
  BY DEF Discard, Exists, Types, ResultSet, Published
<1>6. StagingClean'
  BY DEF Discard, Types, StagingClean, Clean, ResultSet
<1>7. Filling'
  BY EmptyContent DEF Discard, Types, Filling, Filled, Fit, StagingClean, Clean
<1>8. Published'
  BY DEF Discard, Exists, Types, Published, Fit, ResultSet
<1> QED  BY <1>1, <1>2, <1>3, <1>4, <1>5, <1>6, <1>7, <1>8

LEMMA UnlockKeeps ==
  ASSUME PublicationInv, NEW p \in Publishers, Unlock(p)
  PROVE  PublicationInv'
<1> USE PublicationAssumption DEF PublicationInv, Publishers, Goto
<1>1. Types'
  BY DEF Unlock, Types, Steps
<1>2. OneWriter'
  BY DEF Unlock, Types, OneWriter, Inside, Kinds, KindOf
<1>3. LockHeld'
  BY DEF Unlock, Types, LockHeld, Inside, Kinds, KindOf
<1>4. RenameFree'
  BY DEF Unlock, Types, RenameFree
<1>5. ResultSet'
  BY DEF Unlock, Exists, Types, ResultSet, Published
<1>6. StagingClean'
  BY DEF Unlock, Types, StagingClean, Clean, ResultSet
<1>7. Filling'
  BY DEF Unlock, Types, Filling, Filled, Fit, StagingClean, Clean
<1>8. Published'
  BY DEF Unlock, Exists, Types, Published, Fit, ResultSet
<1> QED  BY <1>1, <1>2, <1>3, <1>4, <1>5, <1>6, <1>7, <1>8

LEMMA CleanupFailsKeeps ==
  ASSUME PublicationInv, NEW p \in Publishers, CleanupFails(p)
  PROVE  PublicationInv'
<1> USE PublicationAssumption DEF PublicationInv, Publishers, Goto
<1>1. Types'
  BY DEF CleanupFails, Types, Steps
<1>2. OneWriter'
  BY DEF CleanupFails, Types, OneWriter, Inside, Kinds, KindOf
<1>3. LockHeld'
  BY DEF CleanupFails, Types, LockHeld, Inside, Kinds, KindOf
<1>4. RenameFree'
  BY DEF CleanupFails, Types, RenameFree
<1>5. ResultSet'
  BY DEF CleanupFails, Exists, Types, ResultSet, Published
<1>6. StagingClean'
  BY DEF CleanupFails, Types, StagingClean, Clean, ResultSet
<1>7. Filling'
  BY DEF CleanupFails, Types, Filling, Filled, Fit, StagingClean, Clean
<1>8. Published'
  BY DEF CleanupFails, Exists, Types, Published, Fit, ResultSet
<1> QED  BY <1>1, <1>2, <1>3, <1>4, <1>5, <1>6, <1>7, <1>8

LEMMA CrashKeeps ==
  ASSUME PublicationInv, NEW p \in Publishers, Crash(p)
  PROVE  PublicationInv'
<1> USE PublicationAssumption DEF PublicationInv, Publishers, Goto
<1>1. Types'
  BY DEF Crash, Types, Steps
<1>2. OneWriter'
  BY DEF Crash, Types, OneWriter, Inside, Kinds, KindOf
<1>3. LockHeld'
  BY DEF Crash, Types, LockHeld, Inside, Kinds, KindOf
<1>4. RenameFree'
  BY DEF Crash, Types, RenameFree
<1>5. ResultSet'
  BY DEF Crash, Exists, Types, ResultSet, Published
<1>6. StagingClean'
  BY DEF Crash, Types, StagingClean, Clean, ResultSet
<1>7. Filling'
  BY DEF Crash, Types, Filling, Filled, Fit, StagingClean, Clean
<1>8. Published'
  BY DEF Crash, Exists, Types, Published, Fit, ResultSet
<1> QED  BY <1>1, <1>2, <1>3, <1>4, <1>5, <1>6, <1>7, <1>8

LEMMA RemoveLockKeeps ==
  ASSUME PublicationInv, NEW kind \in Kinds, RemoveLock(kind)
  PROVE  PublicationInv'
<1> USE PublicationAssumption DEF PublicationInv, Publishers, Goto
<1>1. Types'
  BY DEF RemoveLock, Types, Steps
<1>2. OneWriter'
  BY DEF RemoveLock, Types, OneWriter, Inside, Kinds, KindOf
<1>3. LockHeld'
  BY DEF RemoveLock, Types, LockHeld, Inside, Kinds, KindOf
<1>4. RenameFree'
  BY DEF RemoveLock, Types, RenameFree
<1>5. ResultSet'
  BY DEF RemoveLock, Exists, Types, ResultSet, Published
<1>6. StagingClean'
  BY DEF RemoveLock, Types, StagingClean, Clean, ResultSet
<1>7. Filling'
  BY DEF RemoveLock, Types, Filling, Filled, Fit, StagingClean, Clean
<1>8. Published'
  BY DEF RemoveLock, Exists, Types, Published, Fit, ResultSet
<1> QED  BY <1>1, <1>2, <1>3, <1>4, <1>5, <1>6, <1>7, <1>8

-----------------------------------------------------------------------------

(* The invariant and what follows from it *)

LEMMA PublicationInvInit == PublicationInit => PublicationInv
<1> USE PublicationAssumption, EmptyContent
<1> SUFFICES ASSUME PublicationInit PROVE PublicationInv
  OBVIOUS
<1>1. Types
  BY DEF PublicationInit, Types, Publishers, Steps, Kinds, Nothing
<1>2. OneWriter /\ LockHeld /\ RenameFree /\ ResultSet /\ StagingClean
  BY DEF PublicationInit, OneWriter, LockHeld, RenameFree, ResultSet, StagingClean, Clean, Inside,
     Publishers, Nothing
<1>3. Filling
  BY PartsAreNames DEF PublicationInit, Filling, Filled
<1>4. Published
  BY DEF PublicationInit, Published, Exists, Nothing
<1> QED  BY <1>1, <1>2, <1>3, <1>4 DEF PublicationInv

LEMMA InvNext == PublicationInv /\ [PublicationNext]_publication => PublicationInv'
<1> SUFFICES ASSUME PublicationInv, [PublicationNext]_publication PROVE PublicationInv'
  OBVIOUS
<1>1. ASSUME NEW p \in Publishers, Look(p) \/ Step(p) \/ Crash(p)
      PROVE  PublicationInv'
  BY <1>1, LookKeeps, AcceptScanKeeps, ReviewScanKeeps, LockKeeps, LookAgainKeeps,
     StageKeeps, WriteKeeps, LastLookKeeps, RenameKeeps, DiscardKeeps, UnlockKeeps,
     CleanupFailsKeeps, CrashKeeps DEF Step
<1>2. ASSUME NEW kind \in Kinds, RemoveLock(kind)
      PROVE  PublicationInv'
  BY <1>2, RemoveLockKeeps
<1>3. CASE UNCHANGED publication
  BY <1>3 DEF publication, PublicationInv, Types, OneWriter, LockHeld, RenameFree, ResultSet,
     StagingClean,
     Clean, Filling, Filled, Fit, Published, Exists, Inside
<1> QED  BY <1>1, <1>2, <1>3 DEF PublicationNext

LEMMA Invariance == PublicationSpec => []PublicationInv
BY PublicationInvInit, InvNext, PTL DEF PublicationSpec

\* Values keep their types, and no temporary outgrows its result, however many publishers
\* there are.
THEOREM TypeCorrect == PublicationSpec => []PublicationTypeOK
<1>1. PublicationInv => PublicationTypeOK
  BY DEF PublicationInv, Types, Filling, Filled, PublicationTypeOK
<1> QED  BY <1>1, Invariance, PTL

\* The lock of a kind belongs to the one publisher that is inside: neither a failed call
\* nor the operator takes it away.
THEOREM MutualExclusion == PublicationSpec => []OneWriter
<1>1. PublicationInv => OneWriter
  BY DEF PublicationInv
<1> QED  BY <1>1, Invariance, PTL

\* Whatever crashes and fails, the path names nothing or a whole result within its limit.
THEOREM WholeResults == PublicationSpec => []PublishedIsWhole
<1>1. PublicationInv => PublishedIsWhole
  BY PublicationAssumption DEF PublicationInv, Published, PublishedIsWhole, Fit, KindOf,
     Publishers, Exists
<1> QED  BY <1>1, Invariance, PTL

\* A call reports what it has done.
THEOREM TrueResults == PublicationSpec => []ResultIsTrue
<1>1. PublicationInv => ResultIsTrue
  BY DEF PublicationInv, ResultSet, ResultIsTrue
<1> QED  BY <1>1, Invariance, PTL

\* A call that is not killed and can clean up leaves nothing behind.
THEOREM CleanEnds == PublicationSpec => []NothingLeftBehind
<1>1. PublicationInv => NothingLeftBehind
  BY PublicationAssumption DEF PublicationInv, Types, StagingClean, Clean, LockHeld, Inside,
     NothingLeftBehind, KindOf, Kinds
<1> QED  BY <1>1, Invariance, PTL

\* No step changes what the path names once it names something: the rename that would
\* replace a file is never reached.
THEOREM NoReplacement == PublicationSpec => NeverReplaced
<1>1. PublicationInv /\ [PublicationNext]_publication => (Exists => target' = target)
  <2> SUFFICES ASSUME PublicationInv, [PublicationNext]_publication, Exists PROVE target' = target
    OBVIOUS
  <2>1. ASSUME NEW p \in Publishers, Rename(p) PROVE target' = target
    BY <2>1 DEF Rename, Renames, PublicationInv, RenameFree, KindOf
  <2>2. ASSUME NEW p \in Publishers, Look(p) \/ Step(p) \/ Crash(p), ~Rename(p)
        PROVE  target' = target
    BY <2>2 DEF Step, Look, AcceptScan, ReviewScan, Lock, LookAgain, Stage, Write,
       LastLook,
       Discard, Unlock, CleanupFails, Crash
  <2>3. ASSUME NEW kind \in Kinds, RemoveLock(kind) PROVE target' = target
    BY <2>3 DEF RemoveLock
  <2>4. CASE UNCHANGED publication
    BY <2>4 DEF publication
  <2> QED  BY <2>1, <2>2, <2>3, <2>4 DEF PublicationNext
<1> QED  BY <1>1, Invariance, PTL DEF PublicationSpec, NeverReplaced

===============================================================================
