--------------------------- MODULE PartitionsProofs ---------------------------
(***************************************************************************)
(* Proofs about the parallel validation of partitions, for every number of *)
(* workers, every partitioning of the input and all limits.                *)
(*                                                                         *)
(* The merged report is a fold of the partitions' reports, each a fold of  *)
(* its batches, each a fold of its violations.  Adding a report commutes   *)
(* with each of these steps, except for the recorded peak; so the fold of  *)
(* the merged report is the fold of a single traversal.                    *)
(***************************************************************************)
EXTENDS Partitions, FiniteSetTheorems, SequenceTheorems, TLAPS

Hits == INSTANCE SequenceFolds WITH Op <- RecordHit
Scan == INSTANCE SequenceFolds WITH Op <- ScanBatch
Slot == INSTANCE SequenceFolds WITH Op <- AddSlot

\* The fields of a report are well formed.
Report == [rows : Nat, violations : Nat, findings : Seq(Nat), evaluated : Nat, peak : Nat]

\* A report as a scan leaves it: one unit of memory for each finding.
Scanned == {r \in Report : Len(r.findings) <= FindingLimit /\ r.peak = Len(r.findings)}

\* A report as it goes into a merge or comes out of one.
Bounded == {r \in Report : Len(r.findings) <= FindingLimit}

Result == [err : {"none", "cancelled", "reader", "limit", "corrupt"}, report : Bounded]

\* The two reports differ at most in their peaks.
Same(a, b) ==
    /\ a.rows = b.rows
    /\ a.violations = b.violations
    /\ a.findings = b.findings
    /\ a.evaluated = b.evaluated

-----------------------------------------------------------------------------
(* The steps of the folds *)

\* The whole of a batch is a fold of its violations.
LEMMA ScanBatchIsFold ==
    ASSUME NEW report, NEW b
    PROVE  ScanBatch(report, b) =
             [Hits!Fold(report, b.hits) EXCEPT !.rows = @ + b.rows,
                                               !.evaluated = @ + b.values]
BY DEF ScanBatch, Hits!Fold, FoldLeft, Hits!FoldLeft, MapThenFoldSet,
       Hits!MapThenFoldSet, Max, Hits!Max

\* A traversal is a fold of its batches.
LEMMA TraversalIsFold ==
    ASSUME NEW batches
    PROVE  Traversal(batches) = Scan!Fold(NoReport, batches)
BY DEF Traversal, Scan!Fold, FoldLeft, Scan!FoldLeft, MapThenFoldSet,
       Scan!MapThenFoldSet, Max, Scan!Max

\* The merged report is a fold of the slots.
LEMMA MergedIsFold == MergedReport = Slot!Fold(NoReport, slots)
BY DEF MergedReport, Slot!Fold, FoldLeft, Slot!FoldLeft, MapThenFoldSet,
       Slot!MapThenFoldSet, Max, Slot!Max

\* So it is in the next state.
LEMMA MergedIsFoldNext == MergedReport' = Slot!Fold(NoReport, slots')
BY DEF MergedReport, Slot!Fold, FoldLeft, Slot!FoldLeft, MapThenFoldSet,
       Slot!MapThenFoldSet, Max, Slot!Max

\* The report a scan starts from.
LEMMA NoReportScanned == NoReport \in Scanned
BY LimitsAssumption DEF NoReport, Scanned, Report

\* A report with one field set anew.
LEMMA FieldSet ==
    ASSUME NEW r \in Report
    PROVE  /\ \A n \in Nat : [r EXCEPT !.rows = n] \in Report
           /\ \A n \in Nat : [r EXCEPT !.violations = n] \in Report
           /\ \A rows \in Seq(Nat) : [r EXCEPT !.findings = rows] \in Report
           /\ \A n \in Nat : [r EXCEPT !.evaluated = n] \in Report
           /\ \A n \in Nat : [r EXCEPT !.peak = n] \in Report
BY DEF Report

\* What recording a violation changes.
LEMMA RecordFacts ==
    ASSUME NEW r \in Report, NEW h \in Nat
    PROVE  /\ RecordHit(r, h) \in Report
           /\ RecordHit(r, h).rows = r.rows
           /\ RecordHit(r, h).evaluated = r.evaluated
           /\ RecordHit(r, h).violations = r.violations + 1
           /\ Room(r) => /\ RecordHit(r, h).findings = Append(r.findings, r.rows + h)
                         /\ RecordHit(r, h).peak = r.peak + 1
           /\ ~Room(r) => /\ RecordHit(r, h).findings = r.findings
                          /\ RecordHit(r, h).peak = r.peak
<1>1. /\ r.rows \in Nat /\ r.violations \in Nat /\ r.findings \in Seq(Nat)
      /\ r.evaluated \in Nat /\ r.peak \in Nat
  BY DEF Report
<1>2. Append(r.findings, r.rows + h) \in Seq(Nat)
  BY <1>1
<1>3. CASE Room(r)
  <2> DEFINE x == [r EXCEPT !.violations = @ + 1, !.findings = Append(@, r.rows + h), !.peak = @ + 1]
  <2>1. RecordHit(r, h) = x
    BY <1>3 DEF RecordHit, Record
  <2>2. r.violations + 1 \in Nat /\ r.peak + 1 \in Nat
    BY <1>1
  <2>3. x \in Report
    BY <1>2, <2>2, FieldSet, Zenon
  <2>4. /\ x.rows = r.rows
        /\ x.evaluated = r.evaluated
        /\ x.violations = r.violations + 1
        /\ x.findings = Append(r.findings, r.rows + h)
        /\ x.peak = r.peak + 1
    BY DEF Report
  <2> HIDE DEF x
  <2>5. QED
    BY <1>3, <2>1, <2>3, <2>4
<1>4. CASE ~Room(r)
  <2> DEFINE x == [r EXCEPT !.violations = @ + 1]
  <2>1. RecordHit(r, h) = x
    BY <1>4 DEF RecordHit, Record
  <2>2. x \in Report
    <3>1. r.violations + 1 \in Nat
      BY <1>1
    <3>2. QED
      BY <3>1, FieldSet, Zenon
  <2>3. /\ x.rows = r.rows
        /\ x.evaluated = r.evaluated
        /\ x.violations = r.violations + 1
        /\ x.findings = r.findings
        /\ x.peak = r.peak
    BY DEF Report
  <2> HIDE DEF x
  <2>4. QED
    BY <1>4, <2>1, <2>2, <2>3
<1>5. QED
  BY <1>3, <1>4

\* What a whole batch changes.
LEMMA BatchFacts ==
    ASSUME NEW r \in Report, NEW b \in Batch, NEW f, f = Hits!Fold(r, b.hits), f \in Report
    PROVE  /\ ScanBatch(r, b) \in Report
           /\ ScanBatch(r, b).rows = f.rows + b.rows
           /\ ScanBatch(r, b).evaluated = f.evaluated + b.values
           /\ ScanBatch(r, b).violations = f.violations
           /\ ScanBatch(r, b).findings = f.findings
           /\ ScanBatch(r, b).peak = f.peak
<1>1. b.rows \in Nat /\ b.values \in Nat
  BY DEF Batch
<1> DEFINE x == [f EXCEPT !.rows = @ + b.rows, !.evaluated = @ + b.values]
<1>2. ScanBatch(r, b) = x
  BY ScanBatchIsFold
<1>3. f.rows + b.rows \in Nat /\ f.evaluated + b.values \in Nat
  BY <1>1, SMTT(30) DEF Report
<1>4. x \in Report
  BY <1>3, FieldSet, Zenon
<1>5. /\ x.rows = f.rows + b.rows
      /\ x.evaluated = f.evaluated + b.values
      /\ x.violations = f.violations
      /\ x.findings = f.findings
      /\ x.peak = f.peak
  BY DEF Report
<1> HIDE DEF x
<1>6. QED
  BY <1>2, <1>4, <1>5

\* A report is its fields.
LEMMA ReportEqual ==
    ASSUME NEW a \in Report, NEW b \in Report, Same(a, b), a.peak = b.peak
    PROVE  a = b
BY DEF Report, Same

\* Counting the values of a batch does not matter to recording its violations.
LEMMA RecordThenCount ==
    ASSUME NEW r \in Report, NEW h \in Nat, NEW n \in Nat
    PROVE  RecordHit([r EXCEPT !.evaluated = @ + n], h)
             = [RecordHit(r, h) EXCEPT !.evaluated = @ + n]
<1> DEFINE a == [r EXCEPT !.evaluated = @ + n]
           p == RecordHit(r, h)
           x == RecordHit(a, h)
           y == [p EXCEPT !.evaluated = @ + n]
<1>1. /\ r.rows \in Nat /\ r.violations \in Nat /\ r.evaluated \in Nat /\ r.peak \in Nat
      /\ r.evaluated + n \in Nat
  BY DEF Report
<1>2. /\ a \in Report /\ a.rows = r.rows /\ a.violations = r.violations
      /\ a.findings = r.findings /\ a.evaluated = r.evaluated + n /\ a.peak = r.peak
  <2>1. a \in Report
    BY <1>1, FieldSet
  <2>2. QED
    BY <2>1 DEF Report
<1>3. p \in Report /\ p.evaluated = r.evaluated
  BY RecordFacts
<1>4. /\ y \in Report /\ y.rows = p.rows /\ y.violations = p.violations
      /\ y.findings = p.findings /\ y.evaluated = p.evaluated + n /\ y.peak = p.peak
  <2>1. p.evaluated + n \in Nat
    BY <1>1, <1>3
  <2> HIDE DEF p
  <2>2. y \in Report
    BY <1>3, <2>1, FieldSet
  <2>3. QED
    BY <1>3, <2>2 DEF Report
<1> HIDE DEF a, p, x, y
<1>5. x \in Report /\ Same(x, y) /\ x.peak = y.peak
  <2>1. Room(a) <=> Room(r)
    BY <1>2 DEF Room
  <2>2. /\ x \in Report /\ x.rows = a.rows /\ x.evaluated = a.evaluated
        /\ x.violations = a.violations + 1
        /\ Room(a) => x.findings = Append(a.findings, a.rows + h) /\ x.peak = a.peak + 1
        /\ ~Room(a) => x.findings = a.findings /\ x.peak = a.peak
    BY <1>2, RecordFacts DEF x
  <2>3. /\ p.rows = r.rows /\ p.violations = r.violations + 1
        /\ Room(r) => p.findings = Append(r.findings, r.rows + h) /\ p.peak = r.peak + 1
        /\ ~Room(r) => p.findings = r.findings /\ p.peak = r.peak
    BY RecordFacts DEF p
  <2>4. QED
    BY <1>2, <1>3, <1>4, <2>1, <2>2, <2>3 DEF Same
<1>6. x = y
  BY <1>4, <1>5, ReportEqual
<1>7. QED
  BY <1>6 DEF a, p, x, y

\* The values and the rows of a batch are counted after its violations.
LEMMA CountThenEnd ==
    ASSUME NEW r \in Report, NEW b \in Batch, NEW f, f = Hits!Fold(r, b.hits), f \in Report
    PROVE  [[f EXCEPT !.evaluated = @ + b.values] EXCEPT !.rows = @ + b.rows] = ScanBatch(r, b)
<1> DEFINE g == [f EXCEPT !.evaluated = @ + b.values]
           x == [g EXCEPT !.rows = @ + b.rows]
           y == ScanBatch(r, b)
<1>1. b.rows \in Nat /\ b.values \in Nat
  BY DEF Batch
<1>2. f.rows + b.rows \in Nat /\ f.evaluated + b.values \in Nat
  BY <1>1 DEF Report
<1>3. g \in Report
  BY <1>2, FieldSet
<1>4. /\ g.rows = f.rows /\ g.violations = f.violations /\ g.findings = f.findings
      /\ g.evaluated = f.evaluated + b.values /\ g.peak = f.peak
  BY DEF Report
<1> HIDE DEF g
<1>5. x \in Report
  BY <1>2, <1>3, <1>4, FieldSet
<1>6. /\ x.rows = g.rows + b.rows /\ x.violations = g.violations /\ x.findings = g.findings
      /\ x.evaluated = g.evaluated /\ x.peak = g.peak
  BY <1>3 DEF Report
<1> HIDE DEF x, y
<1>7. /\ y \in Report /\ y.rows = f.rows + b.rows /\ y.violations = f.violations
      /\ y.findings = f.findings /\ y.evaluated = f.evaluated + b.values /\ y.peak = f.peak
  BY BatchFacts DEF y
<1>8. Same(x, y) /\ x.peak = y.peak
  BY <1>4, <1>6, <1>7 DEF Same
<1>9. x = y
  BY <1>5, <1>7, <1>8, ReportEqual
<1>10. QED
  BY <1>9 DEF g, x, y

\* Recording a violation keeps the memory of a report accounted for.
LEMMA RecordScanned ==
    ASSUME NEW r \in Scanned, NEW h \in Nat
    PROVE  RecordHit(r, h) \in Scanned
<1>1. /\ r \in Report /\ r.findings \in Seq(Nat) /\ r.rows + h \in Nat
      /\ Len(r.findings) <= FindingLimit /\ r.peak = Len(r.findings) /\ FindingLimit \in Nat
  BY LimitsAssumption DEF Scanned, Report
<1>2. Len(Append(r.findings, r.rows + h)) = Len(r.findings) + 1 /\ Len(r.findings) \in Nat
  BY <1>1
<1>3. Room(r) <=> Len(r.findings) < FindingLimit
  BY DEF Room
<1>4. Len(RecordHit(r, h).findings) <= FindingLimit /\ RecordHit(r, h).peak = Len(RecordHit(r, h).findings)
  <2>1. CASE Room(r)
    <3>1. /\ RecordHit(r, h).findings = Append(r.findings, r.rows + h)
          /\ RecordHit(r, h).peak = r.peak + 1
      BY <1>1, <2>1, RecordFacts
    <3>2. QED
      BY <1>1, <1>2, <1>3, <2>1, <3>1
  <2>2. CASE ~Room(r)
    BY <1>1, <2>2, RecordFacts
  <2>3. QED
    BY <2>1, <2>2
<1>5. QED
  BY <1>1, <1>4, RecordFacts DEF Scanned

\* It never makes the list of findings longer than the limit.
LEMMA RecordBounded ==
    ASSUME NEW r \in Bounded, NEW h \in Nat
    PROVE  RecordHit(r, h) \in Bounded
<1>1. /\ r \in Report /\ r.findings \in Seq(Nat) /\ r.rows + h \in Nat
      /\ Len(r.findings) <= FindingLimit /\ FindingLimit \in Nat
  BY LimitsAssumption DEF Bounded, Report
<1>2. Len(Append(r.findings, r.rows + h)) = Len(r.findings) + 1 /\ Len(r.findings) \in Nat
  BY <1>1
<1>3. Room(r) <=> Len(r.findings) < FindingLimit
  BY DEF Room
<1>4. Len(RecordHit(r, h).findings) <= FindingLimit
  <2>1. CASE Room(r)
    <3>1. RecordHit(r, h).findings = Append(r.findings, r.rows + h)
      BY <1>1, <2>1, RecordFacts
    <3>2. QED
      BY <1>1, <1>2, <1>3, <2>1, <3>1
  <2>2. CASE ~Room(r)
    BY <1>1, <2>2, RecordFacts
  <2>3. QED
    BY <2>1, <2>2
<1>5. QED
  BY <1>1, <1>4, RecordFacts DEF Bounded

\* So does a whole batch.
LEMMA BatchScanned ==
    ASSUME NEW r \in Scanned, NEW b \in Batch
    PROVE  ScanBatch(r, b) \in Scanned
<1>1. b.hits \in Seq(Nat)
  BY DEF Batch
<1>2. Hits!Fold(r, b.hits) \in Scanned
  BY <1>1, RecordScanned, Hits!FoldKeeps
<1>3. QED
  BY <1>2, BatchFacts DEF Scanned

\* So does a traversal.
LEMMA TraversalScanned ==
    ASSUME NEW batches \in Seq(Batch)
    PROVE  Traversal(batches) \in Scanned
<1>1. Scan!Fold(NoReport, batches) \in Scanned
  BY NoReportScanned, BatchScanned, Scan!FoldKeeps
<1>2. QED
  BY <1>1, TraversalIsFold

-----------------------------------------------------------------------------
(* Adding a report to a merge *)

\* The smaller and the larger of two numbers.
LEMMA MinMaxOfTwo ==
    ASSUME NEW m \in Int, NEW n \in Int
    PROVE  /\ Min({m, n}) = IF m <= n THEN m ELSE n
           /\ Max({m, n}) = IF m <= n THEN n ELSE m
<1>1. Min({m, n}) = IF m <= n THEN m ELSE n
  BY DEF Min
<1>2. Max({m, n}) = IF m <= n THEN n ELSE m
  BY DEF Max
<1>3. QED
  BY <1>1, <1>2

\* f and behind it the first n numbers of g, moved by k.
Moved(f, g, k, n) == f \o [i \in DOMAIN SubSeq(g, 1, n) |-> k + SubSeq(g, 1, n)[i]]

\* The numbers of a sequence behind those of another one, cut off and moved.
LEMMA MovedBehind ==
    ASSUME NEW f \in Seq(Nat), NEW g \in Seq(Nat), NEW k \in Nat, NEW n \in 0..Len(g)
    PROVE  /\ Moved(f, g, k, n) \in Seq(Nat)
           /\ Len(Moved(f, g, k, n)) = Len(f) + n
           /\ \A i \in 1..Len(f) : Moved(f, g, k, n)[i] = f[i]
           /\ \A i \in 1..n : Moved(f, g, k, n)[Len(f) + i] = k + g[i]
<1> DEFINE taken == SubSeq(g, 1, n)
           moved == [i \in DOMAIN taken |-> k + taken[i]]
<1>1. taken \in Seq(Nat) /\ Len(taken) = n /\ \A i \in 1..n : taken[i] = g[i]
  OBVIOUS
<1> HIDE DEF taken
<1>2. moved \in Seq(Nat) /\ Len(moved) = n /\ \A i \in 1..n : moved[i] = k + g[i]
  <2>1. DOMAIN taken = 1..n /\ n \in Nat
    BY <1>1
  <2>2. moved = [i \in 1..n |-> k + taken[i]]
    BY <2>1
  <2>3. \A i \in 1..n : k + taken[i] \in Nat
    BY <1>1
  <2>4. [i \in 1..n |-> k + taken[i]] \in Seq(Nat)
    BY <2>1, <2>3
  <2> HIDE DEF moved
  <2>5. \A i \in 1..n : moved[i] = k + g[i]
    BY <1>1, <2>2
  <2>6. DOMAIN moved = 1..n
    BY <2>2
  <2>7. QED
    BY <2>1, <2>2, <2>4, <2>5, <2>6
<1> HIDE DEF moved
<1>3. /\ f \o moved \in Seq(Nat)
      /\ Len(f \o moved) = Len(f) + n
      /\ \A i \in 1..Len(f) : (f \o moved)[i] = f[i]
      /\ \A i \in 1..n : (f \o moved)[Len(f) + i] = moved[i]
  <2>1. f \o moved \in Seq(Nat) /\ Len(f \o moved) = Len(f) + n
    BY <1>2, ConcatProperties
  <2>2. \A i \in 1..Len(f) + n : (f \o moved)[i] = IF i <= Len(f) THEN f[i] ELSE moved[i - Len(f)]
    BY <1>2, ConcatProperties
  <2>3. \A i \in 1..Len(f) : i \in 1..Len(f) + n /\ i <= Len(f)
    OBVIOUS
  <2>4. \A i \in 1..n : Len(f) + i \in 1..Len(f) + n /\ ~(Len(f) + i <= Len(f)) /\ (Len(f) + i) - Len(f) = i
    OBVIOUS
  <2> HIDE DEF moved
  <2>5. QED
    BY <2>1, <2>2, <2>3, <2>4
<1>4. Moved(f, g, k, n) = f \o moved
  BY DEF Moved, moved, taken
<1>5. QED
  BY <1>2, <1>3, <1>4

\* How many numbers of x still fit behind those of a.
Fitting(a, x) ==
    IF FindingLimit - Len(a) <= Len(x) THEN FindingLimit - Len(a) ELSE Len(x)

\* z holds the numbers of a and behind them those of x that fit, moved by k.
Behind(z, a, x, k) ==
    /\ Len(z) = Len(a) + Fitting(a, x)
    /\ \A i \in 1..Len(a) : z[i] = a[i]
    /\ \A i \in 1..Fitting(a, x) : z[Len(a) + i] = k + x[i]

\* Cutting a list off and appending to it commute.
LEMMA BehindAppend ==
    ASSUME NEW a \in Seq(Nat), NEW x \in Seq(Nat), NEW y \in Seq(Nat), NEW z \in Seq(Nat),
           NEW p \in Seq(Nat), NEW q \in Seq(Nat), NEW k \in Nat, NEW v \in Nat, 
           Len(a) <= FindingLimit, Len(x) <= FindingLimit,
           p = IF Len(x) < FindingLimit THEN Append(x, v) ELSE x,
           q = IF Len(y) < FindingLimit THEN Append(y, k + v) ELSE y,
           Behind(y, a, x, k), Behind(z, a, p, k)
    PROVE  z = q
<1> DEFINE l == Len(a)
           m == Len(x)
<1>1. l \in Nat /\ m \in Nat /\ l <= FindingLimit /\ m <= FindingLimit /\ FindingLimit \in Nat
  BY LimitsAssumption
<1>2. Len(z) = Len(q) /\ \A i \in 1..Len(z) : z[i] = q[i]
  <2>1. CASE l + m < FindingLimit
    <3>1. Fitting(a, x) = m /\ Len(y) = l + m
      BY <1>1, <2>1 DEF Fitting, Behind
    <3>2. p = Append(x, v) /\ q = Append(y, k + v)
      BY <1>1, <2>1, <3>1
    <3>3. Len(p) = m + 1 /\ p[m + 1] = v /\ \A i \in 1..m : p[i] = x[i]
      BY <3>2
    <3>4. Len(q) = l + m + 1 /\ q[l + m + 1] = k + v /\ \A i \in 1..l + m : q[i] = y[i]
      BY <3>1, <3>2
    <3>5. Fitting(a, p) = m + 1 /\ Len(z) = l + (m + 1)
      BY <1>1, <2>1, <3>3 DEF Fitting, Behind
    <3>6. /\ \A i \in 1..l : z[i] = a[i] /\ y[i] = a[i]
          /\ \A i \in 1..m : y[l + i] = k + x[i]
          /\ \A i \in 1..m + 1 : z[l + i] = k + p[i]
      BY <3>1, <3>5 DEF Behind
    <3> HIDE DEF l, m
    <3>7. ASSUME NEW i \in 1..l + (m + 1) PROVE z[i] = q[i]
      <4>1. CASE i \in 1..l
        BY <1>1, <3>4, <3>6, <4>1
      <4>2. CASE i = l + (m + 1)
        <5>1. m + 1 \in 1..m + 1 /\ l + (m + 1) = l + m + 1
          BY <1>1
        <5>2. z[l + (m + 1)] = k + p[m + 1]
          BY <3>6, <5>1
        <5>3. QED
          BY <3>3, <3>4, <4>2, <5>1, <5>2
      <4>3. CASE i \in l + 1..l + m
        <5>1. i - l \in 1..m /\ i - l \in 1..m + 1 /\ i = l + (i - l) /\ i \in 1..l + m
          BY <1>1, <4>3
        <5>2. z[l + (i - l)] = k + p[i - l] /\ y[l + (i - l)] = k + x[i - l]
          BY <3>6, <5>1
        <5>3. QED
          BY <3>3, <3>4, <5>1, <5>2
      <4>4. i \in 1..l \/ i = l + (m + 1) \/ i \in l + 1..l + m
        BY <1>1
      <4>5. QED
        BY <4>1, <4>2, <4>3, <4>4
    <3>8. l + (m + 1) = l + m + 1
      BY <1>1
    <3>9. QED
      BY <1>1, <3>4, <3>5, <3>7, <3>8, SMTT(30)
  <2>2. CASE ~(l + m < FindingLimit)
    <3>1. Fitting(a, x) = FindingLimit - l /\ Len(y) = FindingLimit
      BY <1>1, <2>2 DEF Fitting, Behind
    <3>2. q = y
      BY <1>1, <3>1
    <3>3. Len(p) >= m /\ \A i \in 1..m : p[i] = x[i]
      BY <1>1
    <3>4. Fitting(a, p) = FindingLimit - l /\ Len(z) = FindingLimit
      BY <1>1, <2>2, <3>3 DEF Fitting, Behind
    <3>5. /\ \A i \in 1..l : z[i] = a[i] /\ y[i] = a[i]
          /\ \A i \in 1..FindingLimit - l : z[l + i] = k + p[i] /\ y[l + i] = k + x[i]
      BY <1>1, <3>1, <3>4 DEF Behind
    <3> HIDE DEF l, m
    <3>6. ASSUME NEW i \in 1..FindingLimit PROVE z[i] = y[i]
      <4>1. CASE i \in 1..l
        BY <3>5, <4>1
      <4>2. CASE i \in l + 1..FindingLimit
        <5>1. i - l \in 1..FindingLimit - l /\ i - l \in 1..m /\ i = l + (i - l)
          BY <1>1, <2>2, <4>2
        <5>2. z[l + (i - l)] = k + p[i - l] /\ y[l + (i - l)] = k + x[i - l]
          BY <3>5, <5>1
        <5>3. QED
          BY <3>3, <5>1, <5>2
      <4>3. QED
        BY <1>1, <4>1, <4>2
    <3>7. QED
      BY <3>1, <3>2, <3>4, <3>6
  <2>3. QED
    BY <2>1, <2>2
<1>3. QED
  BY <1>2, SeqEqual

\* What adding a report changes.
LEMMA AddFacts ==
    ASSUME NEW a \in Bounded, NEW r \in Bounded
    PROVE  /\ AddReport(a, r) \in Bounded
           /\ AddReport(a, r).rows = a.rows + r.rows
           /\ AddReport(a, r).violations = a.violations + r.violations
           /\ AddReport(a, r).evaluated = a.evaluated + r.evaluated
           /\ AddReport(a, r).peak = IF a.peak <= r.peak THEN r.peak ELSE a.peak
           /\ Behind(AddReport(a, r).findings, a.findings, r.findings, a.rows)
<1> DEFINE l == Len(a.findings)
           m == Len(r.findings)
           n == Fitting(a.findings, r.findings)
           found == Moved(a.findings, r.findings, a.rows, n)
<1>1. /\ a.findings \in Seq(Nat) /\ l <= FindingLimit
      /\ r.findings \in Seq(Nat) /\ m <= FindingLimit
  BY DEF Bounded, Report
<1>2. l \in Nat /\ m \in Nat /\ FindingLimit \in Nat
  BY <1>1, LimitsAssumption
<1>x. /\ a.rows \in Nat /\ a.violations \in Nat /\ a.evaluated \in Nat /\ a.peak \in Nat
      /\ r.rows \in Nat /\ r.violations \in Nat /\ r.evaluated \in Nat /\ r.peak \in Nat
  BY DEF Bounded, Report
<1>3. n = IF FindingLimit - l <= m THEN FindingLimit - l ELSE m
  BY DEF Fitting
<1> HIDE DEF l, m
<1>4. Min({FindingLimit - l, m}) = n
  <2>1. FindingLimit - l \in Int /\ m \in Int
    BY <1>2
  <2>2. QED
    BY <1>3, <2>1, MinMaxOfTwo
<1>5. Max({a.peak, r.peak}) = IF a.peak <= r.peak THEN r.peak ELSE a.peak
  <2>1. a.peak \in Int /\ r.peak \in Int
    BY <1>x
  <2>2. QED
    BY <2>1, MinMaxOfTwo
<1>6. n \in 0..m /\ l + n <= FindingLimit
  BY <1>1, <1>2, <1>3
<1>7. /\ found \in Seq(Nat) /\ Len(found) = l + n
      /\ \A i \in 1..l : found[i] = a.findings[i]
      /\ \A i \in 1..n : found[l + i] = a.rows + r.findings[i]
  <2> DEFINE f == a.findings
             g == r.findings
             k == a.rows
  <2> HIDE DEF n
  <2>1. f \in Seq(Nat) /\ g \in Seq(Nat) /\ k \in Nat /\ n \in 0..Len(g) /\ l = Len(f)
    BY <1>x, <1>1, <1>6 DEF l, m
  <2>2. found = Moved(f, g, k, n)
    OBVIOUS
  <2> HIDE DEF f, g, k, found
  <2>3. /\ Moved(f, g, k, n) \in Seq(Nat)
        /\ Len(Moved(f, g, k, n)) = Len(f) + n
        /\ \A i \in 1..Len(f) : Moved(f, g, k, n)[i] = f[i]
        /\ \A i \in 1..n : Moved(f, g, k, n)[Len(f) + i] = k + g[i]
    BY <2>1, MovedBehind, ZenonT(30)
  <2>4. QED
    BY <2>1, <2>2, <2>3 DEF f, g, k
<1>8. AddReport(a, r) = [rows |-> a.rows + r.rows,
                         violations |-> a.violations + r.violations,
                         findings |-> found,
                         evaluated |-> a.evaluated + r.evaluated,
                         peak |-> Max({a.peak, r.peak})]
  BY <1>4 DEF AddReport, Moved, l, m
<1> HIDE DEF found
<1>9. /\ a.rows + r.rows \in Nat /\ a.violations + r.violations \in Nat
      /\ a.evaluated + r.evaluated \in Nat /\ Max({a.peak, r.peak}) \in Nat
  BY <1>x, <1>5
<1>10. AddReport(a, r) \in Report
  BY <1>7, <1>8, <1>9 DEF Report
<1>11. /\ AddReport(a, r).rows = a.rows + r.rows
       /\ AddReport(a, r).violations = a.violations + r.violations
       /\ AddReport(a, r).findings = found
       /\ AddReport(a, r).evaluated = a.evaluated + r.evaluated
       /\ AddReport(a, r).peak = Max({a.peak, r.peak})
  BY <1>8
<1>12. AddReport(a, r) \in Bounded
  BY <1>6, <1>7, <1>10, <1>11 DEF Bounded
<1>13. Behind(found, a.findings, r.findings, a.rows)
  BY <1>7 DEF Behind, l, n
<1>14. QED
  BY <1>5, <1>11, <1>12, <1>13

\* Recording a violation and adding what was recorded to a merge commute.
LEMMA AddThenRecord ==
    ASSUME NEW a \in Bounded, NEW x \in Bounded, NEW y \in Bounded, NEW h \in Nat,
           Same(AddReport(a, x), y)
    PROVE  Same(AddReport(a, RecordHit(x, h)), RecordHit(y, h))
<1> DEFINE p == RecordHit(x, h)
           q == RecordHit(y, h)
           z == AddReport(a, p)
<1>1. /\ x \in Report /\ y \in Report
      /\ a.findings \in Seq(Nat) /\ x.findings \in Seq(Nat) /\ y.findings \in Seq(Nat)
      /\ Len(a.findings) <= FindingLimit /\ Len(x.findings) <= FindingLimit
      /\ Len(y.findings) <= FindingLimit
  BY DEF Bounded, Report
<1>2. /\ a.rows \in Nat /\ x.rows \in Nat /\ y.rows \in Nat
      /\ a.violations \in Nat /\ x.violations \in Nat /\ y.violations \in Nat
  BY DEF Bounded, Report
<1>3. /\ p \in Bounded /\ q \in Bounded
      /\ p.rows = x.rows /\ p.evaluated = x.evaluated /\ p.violations = x.violations + 1
      /\ q.rows = y.rows /\ q.evaluated = y.evaluated /\ q.violations = y.violations + 1
  BY <1>1, RecordBounded, RecordFacts
<1>4. /\ p.findings = IF Len(x.findings) < FindingLimit
                      THEN Append(x.findings, x.rows + h) ELSE x.findings
      /\ q.findings = IF Len(y.findings) < FindingLimit
                      THEN Append(y.findings, y.rows + h) ELSE y.findings
  BY <1>1, RecordFacts DEF Room
<1> HIDE DEF p, q
<1>5. /\ z \in Bounded
      /\ z.rows = a.rows + p.rows /\ z.violations = a.violations + p.violations
      /\ z.evaluated = a.evaluated + p.evaluated
      /\ Behind(z.findings, a.findings, p.findings, a.rows)
  BY <1>3, AddFacts
<1> HIDE DEF z
<1>6. /\ y.rows = a.rows + x.rows /\ y.violations = a.violations + x.violations
      /\ y.evaluated = a.evaluated + x.evaluated
      /\ Behind(y.findings, a.findings, x.findings, a.rows)
  BY AddFacts DEF Same
<1>7. z.findings \in Seq(Nat) /\ p.findings \in Seq(Nat) /\ q.findings \in Seq(Nat)
  BY <1>3, <1>5 DEF Bounded, Report
<1>8. z.rows = q.rows /\ z.evaluated = q.evaluated
  BY <1>3, <1>5, <1>6
<1>9. z.violations = q.violations
  BY <1>2, <1>3, <1>5, <1>6
<1>10. z.findings = q.findings
  <2> DEFINE v == x.rows + h
  <2>1. v \in Nat /\ y.rows + h = a.rows + v
    BY <1>2, <1>6
  <2> HIDE DEF v
  <2>2. /\ p.findings = IF Len(x.findings) < FindingLimit THEN Append(x.findings, v) ELSE x.findings
        /\ q.findings = IF Len(y.findings) < FindingLimit
                        THEN Append(y.findings, a.rows + v) ELSE y.findings
    BY <1>4, <2>1 DEF v
  <2>3. QED
    <3> DEFINE A == a.findings
               X == x.findings
               Y == y.findings
               Z == z.findings
               P == p.findings
               Q == q.findings
               k == a.rows
    <3>1. /\ A \in Seq(Nat) /\ X \in Seq(Nat) /\ Y \in Seq(Nat) /\ Z \in Seq(Nat)
          /\ P \in Seq(Nat) /\ Q \in Seq(Nat) /\ k \in Nat
      BY <1>1, <1>2, <1>7
    <3>2. Len(A) <= FindingLimit /\ Len(X) <= FindingLimit
      BY <1>1
    <3>3. /\ P = IF Len(X) < FindingLimit THEN Append(X, v) ELSE X
          /\ Q = IF Len(Y) < FindingLimit THEN Append(Y, k + v) ELSE Y
      BY <2>2
    <3>4. Behind(Y, A, X, k) /\ Behind(Z, A, P, k)
      BY <1>5, <1>6
    <3> HIDE DEF A, X, Y, Z, P, Q, k
    <3>5. Z = Q
      BY <2>1, <3>1, <3>2, <3>3, <3>4, BehindAppend
    <3>6. QED
      BY <3>5 DEF Z, Q
<1>11. QED
  BY <1>8, <1>9, <1>10 DEF Same, z, p, q

\* A batch scanned commutes with a merge too.
LEMMA AddThenScan ==
    ASSUME NEW a \in Bounded, NEW x \in Bounded, NEW y \in Bounded, NEW b \in Batch,
           Same(AddReport(a, x), y)
    PROVE  /\ ScanBatch(x, b) \in Bounded /\ ScanBatch(y, b) \in Bounded
           /\ Same(AddReport(a, ScanBatch(x, b)), ScanBatch(y, b))
<1> DEFINE R == {u \in Bounded \X Bounded : Same(AddReport(a, u[1]), u[2])}
           f == Hits!Fold(x, b.hits)
           g == Hits!Fold(y, b.hits)
           p == ScanBatch(x, b)
           q == ScanBatch(y, b)
<1>1. b.hits \in Seq(Nat) /\ b.rows \in Nat /\ b.values \in Nat
  BY DEF Batch
<1>2. \A u, v : <<u, v>> \in R <=> u \in Bounded /\ v \in Bounded /\ Same(AddReport(a, u), v)
  OBVIOUS
<1>3. <<f, g>> \in R
  <2> HIDE DEF R
  <2>1. <<x, y>> \in R
    BY <1>2
  <2>2. \A h \in Nat : \A u, v : <<u, v>> \in R => <<RecordHit(u, h), RecordHit(v, h)>> \in R
    BY <1>2, RecordBounded, AddThenRecord
  <2>3. QED
    BY <1>1, <2>1, <2>2, Hits!FoldsAgree
<1>4. f \in Bounded /\ g \in Bounded /\ Same(AddReport(a, f), g)
  BY <1>2, <1>3
<1>5. /\ x \in Report /\ y \in Report /\ f \in Report /\ g \in Report
      /\ Len(f.findings) <= FindingLimit /\ Len(g.findings) <= FindingLimit
  BY <1>4 DEF Bounded
<1> HIDE DEF R
<1>6. /\ p \in Report /\ p.rows = f.rows + b.rows /\ p.evaluated = f.evaluated + b.values
      /\ p.violations = f.violations /\ p.findings = f.findings
      /\ q \in Report /\ q.rows = g.rows + b.rows /\ q.evaluated = g.evaluated + b.values
      /\ q.violations = g.violations /\ q.findings = g.findings
  BY <1>5, BatchFacts
<1> HIDE DEF f, g, p, q
<1>7. p \in Bounded /\ q \in Bounded
  BY <1>5, <1>6 DEF Bounded
<1>8. AddReport(a, p).findings = AddReport(a, f).findings
  BY <1>6 DEF AddReport
<1>9. /\ AddReport(a, p).rows = a.rows + p.rows /\ AddReport(a, f).rows = a.rows + f.rows
      /\ AddReport(a, p).violations = a.violations + p.violations
      /\ AddReport(a, f).violations = a.violations + f.violations
      /\ AddReport(a, p).evaluated = a.evaluated + p.evaluated
      /\ AddReport(a, f).evaluated = a.evaluated + f.evaluated
  BY <1>4, <1>7, AddFacts
<1>10. /\ a.rows \in Nat /\ f.rows \in Nat /\ a.evaluated \in Nat /\ f.evaluated \in Nat
  BY <1>5 DEF Bounded, Report
<1>11. Same(AddReport(a, p), q)
  BY <1>1, <1>4, <1>6, <1>8, <1>9, <1>10, SMTT(30) DEF Same
<1>12. QED
  BY <1>7, <1>11 DEF p, q

\* A report without anything adds nothing.
LEMMA AddNoReport ==
    ASSUME NEW a \in Bounded
    PROVE  NoReport \in Bounded /\ Same(AddReport(a, NoReport), a)
<1>1. NoReport \in Bounded
  BY NoReportScanned DEF Scanned, Bounded
<1>2. /\ NoReport.rows = 0 /\ NoReport.violations = 0 /\ NoReport.evaluated = 0
      /\ NoReport.findings = << >>
  BY DEF NoReport
<1>3. /\ a.rows \in Nat /\ a.violations \in Nat /\ a.evaluated \in Nat
      /\ a.findings \in Seq(Nat)
  BY DEF Bounded, Report
<1> DEFINE z == AddReport(a, NoReport)
<1>4. /\ z \in Bounded /\ z.rows = a.rows + 0 /\ z.violations = a.violations + 0
      /\ z.evaluated = a.evaluated + 0 /\ Behind(z.findings, a.findings, << >>, a.rows)
  BY <1>1, <1>2, AddFacts
<1> HIDE DEF z
<1>5. z.findings \in Seq(Nat) /\ Len(a.findings) <= FindingLimit /\ FindingLimit \in Nat
  BY <1>4, LimitsAssumption DEF Bounded, Report
<1>6. z.findings = a.findings
  <2>1. Fitting(a.findings, << >>) = 0
    BY <1>3, <1>5 DEF Fitting
  <2>2. Len(z.findings) = Len(a.findings) /\ \A i \in 1..Len(a.findings) : z.findings[i] = a.findings[i]
    BY <1>3, <1>4, <2>1 DEF Behind
  <2>3. QED
    BY <1>3, <1>5, <2>2, SeqEqual
<1>7. QED
  BY <1>1, <1>3, <1>4, <1>6 DEF Same, z

\* A whole traversal commutes with a merge: added to a report it is the
\* traversal that starts from that report.
LEMMA AddThenTraverse ==
    ASSUME NEW a \in Bounded, NEW batches \in Seq(Batch)
    PROVE  /\ Scan!Fold(a, batches) \in Bounded
           /\ Same(AddReport(a, Traversal(batches)), Scan!Fold(a, batches))
<1> DEFINE R == {u \in Bounded \X Bounded : Same(AddReport(a, u[1]), u[2])}
<1>1. \A u, v : <<u, v>> \in R <=> u \in Bounded /\ v \in Bounded /\ Same(AddReport(a, u), v)
  OBVIOUS
<1> HIDE DEF R
<1>2. <<NoReport, a>> \in R
  BY <1>1, AddNoReport
<1>3. \A b \in Batch : \A u, v : <<u, v>> \in R => <<ScanBatch(u, b), ScanBatch(v, b)>> \in R
  BY <1>1, AddThenScan
<1>4. <<Scan!Fold(NoReport, batches), Scan!Fold(a, batches)>> \in R
  BY <1>2, <1>3, Scan!FoldsAgree
<1>5. QED
  BY <1>1, <1>4, TraversalIsFold

\* Flattening here and in the theory of folds is the same.
LEMMA FlattenIs ==
    ASSUME NEW ss
    PROVE  FlattenSeq(ss) = Scan!FlattenSeq(ss)
BY DEF FlattenSeq, Scan!FlattenSeq

\* Merging the traversals of the partitions gives the traversal of them all.
LEMMA MergeIsTraversal ==
    ASSUME NEW input \in Seq(Seq(Batch)), NEW s \in Seq(Seq(Result)), Len(s) = Len(input),
           \A i \in 1..Len(s) : s[i][1].report = Traversal(input[i])
    PROVE  /\ Slot!Fold(NoReport, s) \in Bounded
           /\ Same(Slot!Fold(NoReport, s), Traversal(FlattenSeq(input)))
<1> DEFINE M(k) == Slot!Fold(NoReport, SubSeq(s, 1, k))
           P(k) == SubSeq(input, 1, k)
           T(k) == Traversal(Scan!FlattenSeq(P(k)))
           B == {k \in Nat : k <= Len(s) => M(k) \in Bounded /\ T(k) \in Bounded /\ Same(M(k), T(k))}
<1>1. 0 \in B
  <2>1. M(0) = NoReport
    BY Slot!FoldEnds
  <2>2. P(0) = << >>
    OBVIOUS
  <2>3. Scan!FlattenSeq(P(0)) = << >>
    <3> HIDE DEF P
    <3>1. QED
      BY <2>2, Scan!FlattenEmpty
  <2>4. T(0) = NoReport
    BY <2>3, TraversalIsFold, Scan!FoldEmpty
  <2>5. NoReport \in Bounded
    BY NoReportScanned DEF Scanned, Bounded
  <2> HIDE DEF M, T
  <2>6. QED
    BY <2>1, <2>4, <2>5 DEF Same
<1>2. ASSUME NEW k \in B PROVE k + 1 \in B
  <2>1. SUFFICES ASSUME k + 1 <= Len(s)
                 PROVE  M(k + 1) \in Bounded /\ T(k + 1) \in Bounded /\ Same(M(k + 1), T(k + 1))
    OBVIOUS
  <2>2. k \in Nat /\ k < Len(s) /\ k + 1 \in 1..Len(s)
    BY <2>1
  <2>3. M(k) \in Bounded /\ T(k) \in Bounded /\ Same(M(k), T(k))
    <3> HIDE DEF M, T
    <3>1. QED
      BY <2>2
  <2> DEFINE bs == input[k + 1]
             flat == Scan!FlattenSeq(P(k))
  <2>4. /\ P(k) \in Seq(Seq(Batch)) /\ bs \in Seq(Batch) /\ P(k + 1) = Append(P(k), bs)
    BY <2>2
  <2>5. flat \in Seq(Batch) /\ Scan!FlattenSeq(P(k + 1)) = flat \o bs
    <3> HIDE DEF P, bs
    <3>1. QED
      BY <2>4, Scan!FlattenType, Scan!FlattenAppend
  <2>6. M(k + 1) = AddReport(M(k), Traversal(bs))
    <3>1. M(k + 1) = AddSlot(M(k), s[k + 1])
      BY <2>2, Slot!FoldStep
    <3>2. s[k + 1][1].report = Traversal(bs)
      BY <2>2
    <3>3. QED
      BY <3>1, <3>2 DEF AddSlot
  <2>7. T(k + 1) = Scan!Fold(T(k), bs)
    <3>1. T(k) = Scan!Fold(NoReport, flat) /\ T(k + 1) = Scan!Fold(NoReport, flat \o bs)
      BY <2>5, TraversalIsFold
    <3> HIDE DEF T, flat, bs
    <3>2. QED
      BY <2>4, <2>5, <3>1, Scan!FoldConcat
  <2> HIDE DEF M, T, bs
  <2>8. Traversal(bs) \in Bounded
    BY <2>4, TraversalScanned DEF Scanned, Bounded
  <2>9. Same(AddReport(M(k), Traversal(bs)), AddReport(T(k), Traversal(bs)))
    BY <2>3 DEF Same, AddReport
  <2>10. M(k + 1) \in Bounded
    BY <2>3, <2>6, <2>8, AddFacts
  <2>11. T(k + 1) \in Bounded /\ Same(AddReport(T(k), Traversal(bs)), T(k + 1))
    BY <2>3, <2>4, <2>7, AddThenTraverse
  <2>12. QED
    BY <2>6, <2>9, <2>10, <2>11 DEF Same
<1>3. B = Nat
  <2> HIDE DEF B
  <2>1. B \in SUBSET Nat
    BY DEF B
  <2>2. QED
    BY <1>1, <1>2, <2>1, Slot!NatSetInduction
<1>4. Len(s) \in Nat /\ P(Len(s)) = input
  OBVIOUS
<1>5. M(Len(s)) \in Bounded /\ Same(M(Len(s)), T(Len(s)))
  <2> HIDE DEF M, T
  <2>1. QED
    BY <1>3, <1>4
<1>6. M(Len(s)) = Slot!Fold(NoReport, s)
  BY Slot!FoldEnds
<1>7. T(Len(s)) = Traversal(FlattenSeq(input))
  BY <1>4, FlattenIs
<1>8. QED
  BY <1>5, <1>6, <1>7

\* The peak of a merge is the largest peak of its partitions.
LEMMA MergePeak ==
    ASSUME NEW s \in Seq(Seq(Result)), NEW p \in Nat,
           \A i \in 1..Len(s) : s[i][1].report \in Bounded /\ s[i][1].report.peak <= p
    PROVE  /\ Slot!Fold(NoReport, s).peak <= p
           /\ \A i \in 1..Len(s) : s[i][1].report.peak <= Slot!Fold(NoReport, s).peak
<1> DEFINE M(k) == Slot!Fold(NoReport, SubSeq(s, 1, k))
           B == {k \in Nat : k <= Len(s) =>
                   /\ M(k) \in Bounded /\ M(k).peak <= p
                   /\ \A i \in 1..k : s[i][1].report.peak <= M(k).peak}
<1>1. 0 \in B
  <2>1. M(0) = NoReport
    BY Slot!FoldEnds
  <2>2. NoReport \in Bounded /\ NoReport.peak = 0
    BY NoReportScanned DEF Scanned, Bounded, NoReport
  <2> HIDE DEF M
  <2>3. QED
    BY <2>1, <2>2
<1>2. ASSUME NEW k \in B PROVE k + 1 \in B
  <2>1. SUFFICES ASSUME k + 1 <= Len(s)
                 PROVE  /\ M(k + 1) \in Bounded /\ M(k + 1).peak <= p
                        /\ \A i \in 1..k + 1 : s[i][1].report.peak <= M(k + 1).peak
    <3> HIDE DEF M
    <3>1. QED
      OBVIOUS
  <2>2. k \in Nat /\ k < Len(s) /\ k + 1 \in 1..Len(s)
    BY <2>1
  <2> DEFINE r == s[k + 1][1].report
  <2>3. M(k + 1) = AddReport(M(k), r)
    <3>1. M(k + 1) = AddSlot(M(k), s[k + 1])
      BY <2>2, Slot!FoldStep
    <3>2. QED
      BY <3>1 DEF AddSlot
  <2> HIDE DEF M
  <2>4. /\ M(k) \in Bounded /\ M(k).peak <= p
        /\ \A i \in 1..k : s[i][1].report.peak <= M(k).peak
    BY <2>2
  <2>5. r \in Bounded /\ r.peak <= p
    BY <2>2
  <2>6. M(k + 1) \in Bounded /\ M(k + 1).peak = IF M(k).peak <= r.peak THEN r.peak ELSE M(k).peak
    BY <2>3, <2>4, <2>5, AddFacts
  <2>7. M(k).peak \in Nat /\ r.peak \in Nat
    BY <2>4, <2>5 DEF Bounded, Report
  <2>8. M(k + 1).peak <= p /\ M(k).peak <= M(k + 1).peak /\ r.peak <= M(k + 1).peak
    <3> DEFINE a == M(k).peak
               c == r.peak
               z == M(k + 1).peak
    <3>1. a \in Nat /\ c \in Nat /\ a <= p /\ c <= p /\ z = IF a <= c THEN c ELSE a
      BY <2>4, <2>5, <2>6, <2>7
    <3> HIDE DEF a, c, z
    <3>2. z <= p /\ a <= z /\ c <= z
      BY <3>1
    <3>3. QED
      BY <3>2 DEF a, c, z
  <2>9. ASSUME NEW i \in 1..k + 1 PROVE s[i][1].report.peak <= M(k + 1).peak
    <3>1. CASE i = k + 1
      <4>1. s[i][1].report = r
        BY <3>1
      <4> HIDE DEF r
      <4>2. QED
        BY <2>8, <4>1
    <3>2. CASE i # k + 1
      <4>1. i \in 1..k /\ i \in 1..Len(s)
        BY <2>2, <3>2
      <4>2. s[i][1].report.peak \in Nat /\ M(k + 1).peak \in Nat
        BY <2>6, <4>1 DEF Bounded, Report
      <4>3. s[i][1].report.peak <= M(k).peak
        BY <2>4, <4>1
      <4> DEFINE e == s[i][1].report.peak
                 f == M(k).peak
                 g == M(k + 1).peak
      <4>4. e \in Nat /\ f \in Nat /\ g \in Nat /\ e <= f /\ f <= g
        BY <2>7, <2>8, <4>2, <4>3
      <4> HIDE DEF e, f, g
      <4>5. e <= g
        BY <4>4
      <4>6. QED
        BY <4>5 DEF e, g
    <3>3. QED
      BY <3>1, <3>2
  <2>10. QED
    BY <2>6, <2>8, <2>9
<1>3. B = Nat
  <2> HIDE DEF B
  <2>1. B \in SUBSET Nat
    BY DEF B
  <2>2. QED
    BY <1>1, <1>2, <2>1, Slot!NatSetInduction
<1>4. Len(s) \in Nat
  OBVIOUS
<1>5. M(Len(s)).peak <= p /\ \A i \in 1..Len(s) : s[i][1].report.peak <= M(Len(s)).peak
  <2> HIDE DEF M
  <2>1. QED
    BY <1>3, <1>4
<1>6. M(Len(s)) = Slot!Fold(NoReport, s)
  BY Slot!FoldEnds
<1>7. QED
  BY <1>5, <1>6

-----------------------------------------------------------------------------
(* The inductive invariant *)

Busy(w) == pc[w] \in {"read", "scan"}

\* The partitions that have been taken from the queue.
Taken == 1..Len(parts) - Len(queue)

\* The state is well formed.
TypeInv ==
    /\ parts \in Inputs
    /\ queue \in Seq(1..Len(parts))
    /\ slots \in Seq(Seq(Result))
    /\ Len(slots) = Len(parts)
    /\ \A i \in 1..Len(slots) : Len(slots[i]) \in {0, 1}
    /\ pc \in [Workers -> {"take", "read", "scan", "ended"}]
    /\ job \in [Workers -> Nat]
    /\ batch \in [Workers -> Nat]
    /\ hit \in [Workers -> Nat]
    /\ part \in [Workers -> Scanned]
    /\ peak \in Nat
    /\ cancelled \in BOOLEAN
    /\ outcome \in Seq(Result)
    /\ Len(outcome) \in {0, 1}

\* The queue holds the last partitions, in order, and somebody is there to take
\* them; the caller waits for every worker.
QueueInv ==
    /\ Len(queue) <= Len(parts)
    /\ \A k \in 1..Len(queue) : queue[k] = (Len(parts) - Len(queue)) + k
    /\ queue # <<>> => \E w \in Workers : pc[w] # "ended"
    /\ Done => queue = <<>> /\ \A w \in Workers : pc[w] = "ended"

\* A partition that was taken is with one worker or in its slot.
OwnerInv ==
    /\ \A w \in Workers : Busy(w) => job[w] \in Taken /\ slots[job[w]] = <<>>
    /\ \A v, w \in Workers : Busy(v) /\ Busy(w) /\ job[v] = job[w] => v = w
    /\ \A i \in Taken : slots[i] # <<>> \/ \E w \in Workers : Busy(w) /\ job[w] = i
    /\ \A i \in 1..Len(parts) : slots[i] # <<>> => i \in Taken

\* What a worker's report is before the batch it is in, and in the middle of it.
Before(w) == Traversal(SubSeq(Batches(w), 1, batch[w] - 1))
Within(w) == [Hits!Fold(Before(w), SubSeq(Current(w).hits, 1, hit[w]))
                EXCEPT !.evaluated = @ + Current(w).values]

\* A worker has read every batch before the one it is in and recorded all their
\* violations, and the first `hit` ones of this batch.
Progress(w) ==
    Busy(w) =>
        /\ batch[w] \in 1..Len(Batches(w)) + 1
        /\ \A b \in 1..batch[w] - 1 : ~Batches(w)[b].fails
        /\ pc[w] = "read" => part[w] = Before(w)
        /\ pc[w] = "scan" =>
            /\ batch[w] <= Len(Batches(w))
            /\ ~Current(w).fails
            /\ hit[w] <= Len(Current(w).hits)
            /\ part[w] = Within(w)

ProgressInv == \A w \in Workers : Progress(w)

\* A published report is the traversal of its partition, and its peak one that
\* the root has seen; the reader's error comes from a batch.
Filled(i) ==
    slots[i] # <<>> =>
        /\ slots[i][1].err = "none" =>
            /\ slots[i][1].report = Traversal(parts[i])
            /\ slots[i][1].report.peak <= peak
            /\ i \notin UnreadableParts
        /\ slots[i][1].err = "reader" => i \in UnreadableParts

SlotInv == \A i \in 1..Len(parts) : Filled(i)

MemoryInv == MemoryUsed <= peak /\ peak <= MemoryCap

OutcomeInv == Done => outcome = <<Merged>>

Inv ==
    /\ TypeInv
    /\ QueueInv
    /\ OwnerInv
    /\ ProgressInv
    /\ SlotInv
    /\ MemoryInv
    /\ OutcomeInv

-----------------------------------------------------------------------------
(* What the invariant says of a worker's batches and of the merge *)

\* The partition a worker scans and the batch it is in are well formed.
LEMMA BatchesTyped ==
    ASSUME TypeInv, OwnerInv, NEW w \in Workers, Busy(w)
    PROVE  /\ parts \in Seq(Seq(Batch)) /\ Len(parts) \in Nat /\ Len(queue) \in Nat
           /\ job[w] \in 1..Len(parts)
           /\ Batches(w) \in Seq(Batch)
           /\ batch[w] \in 1..Len(Batches(w)) =>
                /\ Current(w) \in Batch /\ Current(w).hits \in Seq(Nat)
                /\ Current(w).values \in Nat /\ Current(w).rows \in Nat
<1>1. parts \in Seq(Seq(Batch)) /\ queue \in Seq(1..Len(parts))
  BY LimitsAssumption DEF TypeInv
<1>2. Len(parts) \in Nat /\ Len(queue) \in Nat
  BY <1>1
<1>3. job[w] \in 1..Len(parts)
  BY <1>2 DEF OwnerInv, Taken
<1>4. Batches(w) \in Seq(Batch)
  BY <1>1, <1>3 DEF Batches
<1>5. batch[w] \in 1..Len(Batches(w)) => Current(w) \in Batch
  BY <1>4 DEF Current
<1>6. QED
  BY <1>1, <1>2, <1>3, <1>4, <1>5 DEF Batch

\* A set of indices has a least one.
LEMMA LeastIndex ==
    ASSUME NEW T \in SUBSET Nat, T # {}
    PROVE  Min(T) \in T /\ \A m \in T : Min(T) <= m
<1> DEFINE B == {n \in Nat : \A m \in T : m > n}
<1>1. \E x \in T : \A m \in T : x <= m
  <2>1. SUFFICES ASSUME ~ \E x \in T : \A m \in T : x <= m PROVE FALSE
    OBVIOUS
  <2>2. 0 \in B
    <3>1. 0 \notin T
      BY <2>1
    <3>2. QED
      BY <3>1
  <2>3. ASSUME NEW n \in B PROVE n + 1 \in B
    <3>1. n + 1 \notin T
      <4>1. \A m \in T : n + 1 <= m
        OBVIOUS
      <4>2. QED
        BY <2>1, <4>1
    <3>2. \A m \in T : m > n /\ m # n + 1 /\ m \in Nat
      BY <3>1
    <3>3. QED
      BY <3>2
  <2>4. B = Nat
    <3> HIDE DEF B
    <3>1. B \in SUBSET Nat
      BY DEF B
    <3>2. QED
      BY <2>2, <2>3, <3>1, Slot!NatSetInduction
  <2>5. PICK m \in T : TRUE
    OBVIOUS
  <2>6. m \in B
    BY <2>4
  <2>7. QED
    BY <2>5, <2>6
<1>2. QED
  BY <1>1 DEF Min

\* The merge of the slots: a report when no partition failed, otherwise the
\* error of the first one that did.
LEMMA MergedFacts ==
    ASSUME TypeInv
    PROVE  /\ Merged \in Result
           /\ Merged.err = "none" =>
                /\ Merged.report = MergedReport
                /\ \A i \in 1..Len(slots) : slots[i] # <<>> /\ slots[i][1].err = "none"
           /\ Merged.err = "reader" => \E m \in 1..Len(slots) :
                /\ slots[m] # <<>> /\ slots[m][1].err = "reader"
                /\ \A i \in 1..m - 1 : slots[i] # <<>> /\ slots[i][1].err = "none"
<1> DEFINE failed == {i \in DOMAIN slots : slots[i] = <<>> \/ slots[i][1].err # "none"}
           first == slots[Min(failed)]
<1>1. slots \in Seq(Seq(Result)) /\ DOMAIN slots = 1..Len(slots) /\ Len(slots) \in Nat
  BY DEF TypeInv
<1>2. NoReport \in Bounded
  BY NoReportScanned DEF Scanned, Bounded
<1>3. CASE failed = {}
  <2>1. \A i \in 1..Len(slots) : slots[i] # <<>> /\ slots[i][1].err = "none"
    BY <1>1, <1>3
  <2> DEFINE S == {t \in Seq(Result) : t # <<>>}
  <2>2. slots \in Seq(S)
    BY <1>1, <2>1
  <2>3. \A t \in S : t[1] \in Result /\ t[1].report \in Bounded
    <3>1. \A t \in S : t[1] \in Result
      OBVIOUS
    <3>2. QED
      BY <3>1 DEF Result
  <2> HIDE DEF S
  <2>4. MergedReport \in Bounded
    <3>1. \A r \in Bounded, t \in S : AddSlot(r, t) \in Bounded
      BY <2>3, AddFacts DEF AddSlot
    <3>2. QED
      BY <1>2, <2>2, <3>1, MergedIsFold, Slot!FoldKeeps
  <2>5. Merged = [err |-> "none", report |-> MergedReport]
    BY <1>3 DEF Merged, Success
  <2>6. QED
    BY <2>1, <2>4, <2>5 DEF Result
<1>4. CASE failed # {}
  <2>1. failed \in SUBSET Nat
    BY <1>1
  <2>2. Min(failed) \in failed /\ \A i \in failed : Min(failed) <= i
    <3> HIDE DEF failed
    <3>1. QED
      BY <1>4, <2>1, LeastIndex
  <2> DEFINE m == Min(failed)
  <2>3. /\ m \in 1..Len(slots) /\ (slots[m] = <<>> \/ slots[m][1].err # "none")
        /\ \A i \in 1..m - 1 : i \in 1..Len(slots) /\ i \notin failed
    <3>1. m \in 1..Len(slots) /\ (slots[m] = <<>> \/ slots[m][1].err # "none")
      BY <1>1, <2>2
    <3>2. \A i \in 1..m - 1 : ~(m <= i) /\ i \in 1..Len(slots)
      BY <1>1, <3>1
    <3>3. QED
      BY <2>2, <3>1, <3>2
  <2>4. \A i \in 1..m - 1 : slots[i] # <<>> /\ slots[i][1].err = "none"
    BY <1>1, <2>3
  <2>5. Merged = IF slots[m] = <<>> THEN Failure("corrupt") ELSE slots[m][1]
    BY <1>4 DEF Merged
  <2> HIDE DEF m, failed
  <2>6. CASE slots[m] = <<>>
    BY <1>2, <2>5, <2>6 DEF Failure, Result
  <2>7. CASE slots[m] # <<>>
    <3>1. slots[m] \in Seq(Result)
      BY <1>1, <2>3
    <3>2. slots[m][1] \in Result
      BY <2>7, <3>1
    <3>3. Merged = slots[m][1] /\ Merged.err # "none"
      BY <2>3, <2>5, <2>7
    <3>4. QED
      BY <2>3, <2>4, <2>7, <3>2, <3>3
  <2>8. QED
    BY <2>6, <2>7
<1>5. QED
  BY <1>3, <1>4

-----------------------------------------------------------------------------
(* The memory the workers hold together *)

\* The units charged when each worker w holds c[w] of them.
Held(c) == {unit \in Workers \X (1..FindingLimit) : unit[2] <= c[unit[1]]}

Charges == [w \in Workers |-> Charged(w)]

\* The units held are finitely many.
LEMMA HeldFinite ==
    ASSUME NEW c
    PROVE  IsFiniteSet(Held(c)) /\ Cardinality(Held(c)) \in Nat
<1>1. IsFiniteSet(Workers)
  BY LimitsAssumption, FS_Interval DEF Workers
<1>2. IsFiniteSet(1..FindingLimit)
  BY LimitsAssumption, FS_Interval
<1>3. IsFiniteSet(Workers \X (1..FindingLimit))
  BY <1>1, <1>2, FS_Product
<1>4. Held(c) \subseteq Workers \X (1..FindingLimit)
  BY DEF Held
<1>5. QED
  BY <1>3, <1>4, FS_Subset, FS_CardinalityType

\* The memory used is the number of units held.
LEMMA UsedIsHeld == MemoryUsed = Cardinality(Held(Charges))
<1>1. Held(Charges) = {unit \in Workers \X (1..FindingLimit) : unit[2] <= Charged(unit[1])}
  BY DEF Held, Charges
<1>2. QED
  BY <1>1 DEF MemoryUsed

\* The memory used is a number.
LEMMA MemoryTyped == MemoryUsed \in Nat
BY UsedIsHeld, HeldFinite

\* Less is held when no worker holds more.
LEMMA HeldLess ==
    ASSUME NEW c \in [Workers -> Nat], NEW d \in [Workers -> Nat],
           \A w \in Workers : d[w] <= c[w]
    PROVE  Cardinality(Held(d)) <= Cardinality(Held(c))
<1>1. Held(d) \subseteq Held(c)
  BY LimitsAssumption DEF Held
<1>2. QED
  BY <1>1, HeldFinite, FS_Subset

\* One unit more is held when one worker takes one more.
LEMMA HeldMore ==
    ASSUME NEW c \in [Workers -> Nat], NEW w \in Workers, c[w] < FindingLimit
    PROVE  Cardinality(Held([c EXCEPT ![w] = @ + 1])) = Cardinality(Held(c)) + 1
<1> DEFINE d == [c EXCEPT ![w] = @ + 1]
           unit == <<w, c[w] + 1>>
<1>1. unit \in Workers \X (1..FindingLimit) /\ unit \notin Held(c)
  BY LimitsAssumption DEF Held
<1>2. Held(d) = Held(c) \cup {unit}
  <2>1. ASSUME NEW u \in Workers \X (1..FindingLimit)
        PROVE  u[2] <= d[u[1]] <=> u[2] <= c[u[1]] \/ u = unit
    <3>1. u[1] \in Workers /\ u[2] \in Nat /\ u = <<u[1], u[2]>>
      BY LimitsAssumption
    <3>2. CASE u[1] = w
      BY <3>1, <3>2
    <3>3. CASE u[1] # w
      BY <3>1, <3>3
    <3>4. QED
      BY <3>2, <3>3
  <2> HIDE DEF d, unit
  <2>2. QED
    BY <1>1, <2>1 DEF Held
<1>3. Cardinality(Held(c) \cup {unit}) = Cardinality(Held(c)) + 1
  BY <1>1, HeldFinite, FS_AddElement
<1>4. QED
  BY <1>2, <1>3

\* What one worker holds is part of what is held.
LEMMA HeldCovers ==
    ASSUME NEW c \in [Workers -> 0..FindingLimit], NEW w \in Workers
    PROVE  c[w] <= Cardinality(Held(c))
<1> DEFINE n == c[w]
           own == {w} \X (1..n)
<1>1. n \in Nat /\ n <= FindingLimit
  BY LimitsAssumption
<1>2. own \subseteq Held(c)
  BY <1>1, LimitsAssumption DEF Held
<1>3. IsFiniteSet(1..n) /\ Cardinality(1..n) = n
  BY <1>1, FS_Interval
<1>4. IsFiniteSet({w}) /\ Cardinality({w}) = 1
  BY FS_Singleton
<1>5. Cardinality(own) = 1 * n
  <2> DEFINE I == 1..n
             J == {w}
  <2>1. IsFiniteSet(I) /\ IsFiniteSet(J) /\ Cardinality(I) = n /\ Cardinality(J) = 1
    BY <1>3, <1>4
  <2> HIDE DEF I, J, n
  <2>2. Cardinality(J \X I) = Cardinality(J) * Cardinality(I)
    BY <2>1, FS_Product
  <2>3. QED
    BY <2>1, <2>2 DEF I, J
<1>6. Cardinality(own) = n
  BY <1>1, <1>5
<1>7. QED
  BY <1>2, <1>6, HeldFinite, FS_Subset

-----------------------------------------------------------------------------
(* Type correctness *)

\* Putting a result into a slot keeps the state well formed.
LEMMA PublishTyped ==
    ASSUME TypeInv, NEW w \in Workers, NEW result \in Result, job[w] \in 1..Len(parts),
           Publish(w, result)
    PROVE  TypeInv'
<1>1. slots \in Seq(Seq(Result)) /\ job[w] \in 1..Len(slots)
  BY DEF TypeInv
<1>2. <<result>> \in Seq(Result) /\ Len(<<result>>) = 1
  OBVIOUS
<1>3. slots' = [slots EXCEPT ![job[w]] = <<result>>]
  BY DEF Publish
<1>4. slots' \in Seq(Seq(Result)) /\ Len(slots') = Len(slots)
  BY <1>1, <1>2, <1>3
<1>5. \A i \in 1..Len(slots') : Len(slots'[i]) \in {0, 1}
  <2>1. \A i \in 1..Len(slots) : slots'[i] = IF i = job[w] THEN <<result>> ELSE slots[i]
    BY <1>1, <1>3
  <2>2. QED
    BY <1>2, <1>4, <2>1 DEF TypeInv
<1>6. pc' \in [Workers -> {"take", "read", "scan", "ended"}]
  BY DEF Publish, TypeInv
<1>7. QED
  BY <1>4, <1>5, <1>6 DEF Publish, TypeInv

\* The state the caller sets up is well formed.
LEMMA TypeInit == Init => TypeInv
<1> SUFFICES ASSUME Init PROVE TypeInv
  OBVIOUS
<1>1. parts \in Seq(Seq(Batch)) /\ Len(parts) \in Nat
  BY LimitsAssumption DEF Init
<1>2. queue \in Seq(1..Len(parts))
  BY <1>1 DEF Init
<1>3. slots \in Seq(Seq(Result)) /\ Len(slots) = Len(parts)
  BY <1>1 DEF Init
<1>4. \A i \in 1..Len(slots) : Len(slots[i]) \in {0, 1}
  BY <1>1, <1>3 DEF Init
<1>5. pc \in [Workers -> {"take", "read", "scan", "ended"}]
  BY DEF Init
<1>6. part \in [Workers -> Scanned]
  BY NoReportScanned DEF Init
<1>7. outcome \in Seq(Result) /\ Len(outcome) \in {0, 1}
  BY DEF Init
<1>8. QED
  BY <1>2, <1>3, <1>4, <1>5, <1>6, <1>7 DEF Init, TypeInv

\* Every step leaves the state well formed.
LEMMA TypeStep ==
    ASSUME TypeInv, OwnerInv, ProgressInv, [Next]_vars
    PROVE  TypeInv'
<1>1. ASSUME NEW w \in Workers, Take(w) PROVE TypeInv'
  <2>1. queue \in Seq(1..Len(parts)) /\ queue # << >>
    BY <1>1 DEF TypeInv, Take
  <2>2. Head(queue) \in 1..Len(parts) /\ queue' \in Seq(1..Len(parts))
    BY <1>1, <2>1 DEF Take
  <2>3. Head(queue) \in Nat
    BY <2>2
  <2>4. job' \in [Workers -> Nat]
    BY <1>1, <2>3 DEF Take, TypeInv
  <2>5. part' \in [Workers -> Scanned]
    BY <1>1, NoReportScanned DEF Take, TypeInv
  <2>6. QED
    BY <1>1, <2>2, <2>4, <2>5 DEF Take, TypeInv
<1>2. ASSUME NEW w \in Workers, End(w) PROVE TypeInv'
  BY <1>2 DEF End, TypeInv
<1>3. ASSUME NEW w \in Workers, FinishPartition(w) PROVE TypeInv'
  <2>1. Busy(w) /\ Publish(w, Success(part[w]))
    BY <1>3 DEF FinishPartition, Busy
  <2>2. Success(part[w]) \in Result
    BY DEF Success, Result, TypeInv, Scanned, Bounded
  <2>3. QED
    BY <2>1, <2>2, BatchesTyped, PublishTyped
<1>4. ASSUME NEW w \in Workers, FailPartition(w) PROVE TypeInv'
  <2>1. Busy(w) /\ \E e \in {"cancelled", "reader"} : Publish(w, Failure(e))
    BY <1>4 DEF FailPartition, Busy
  <2>2. \A e \in {"cancelled", "reader"} : Failure(e) \in Result
    BY NoReportScanned DEF Failure, Result, Scanned, Bounded
  <2>3. QED
    BY <2>1, <2>2, BatchesTyped, PublishTyped
<1>5. ASSUME NEW w \in Workers, ReadBatch(w) PROVE TypeInv'
  <2>1. Busy(w) /\ batch[w] \in 1..Len(Batches(w))
    BY <1>5, BatchesTyped DEF ReadBatch, Busy, ProgressInv, Progress
  <2>2. Current(w).values \in Nat
    BY <2>1, BatchesTyped
  <2>3. part[w] \in Scanned /\ part[w] \in Report /\ part[w].evaluated \in Nat
    BY DEF TypeInv, Scanned, Report
  <2> DEFINE p == [part[w] EXCEPT !.evaluated = @ + Current(w).values]
  <2>4. p \in Report
    <3>1. part[w].evaluated + Current(w).values \in Nat
      BY <2>2, <2>3
    <3>2. QED
      BY <2>3, <3>1, FieldSet
  <2>5. p.findings = part[w].findings /\ p.peak = part[w].peak
    BY <2>3 DEF Report
  <2>6. p \in Scanned
    BY <2>3, <2>4, <2>5 DEF Scanned
  <2> HIDE DEF p
  <2>7. part' = [part EXCEPT ![w] = p]
    BY <1>5 DEF ReadBatch, p
  <2>8. part' \in [Workers -> Scanned]
    BY <2>6, <2>7 DEF TypeInv
  <2>9. QED
    BY <1>5, <2>8 DEF ReadBatch, TypeInv
<1>6. ASSUME NEW w \in Workers, RecordFinding(w) PROVE TypeInv'
  <2>1. Busy(w) /\ batch[w] \in 1..Len(Batches(w))
    BY <1>6, BatchesTyped DEF RecordFinding, Busy, ProgressInv, Progress
  <2>2. Current(w).hits \in Seq(Nat) /\ hit[w] \in Nat /\ hit[w] < Len(Current(w).hits)
    BY <1>6, <2>1, BatchesTyped DEF RecordFinding, TypeInv
  <2>3. Current(w).hits[hit[w] + 1] \in Nat
    BY <2>2
  <2>4. part[w] \in Scanned
    BY DEF TypeInv
  <2>5. RecordHit(part[w], Current(w).hits[hit[w] + 1]) \in Scanned
    BY <2>3, <2>4, RecordScanned
  <2>6. part' \in [Workers -> Scanned]
    BY <1>6, <2>5 DEF RecordFinding, TypeInv
  <2>7. MemoryUsed \in Nat
    BY MemoryTyped
  <2>8. peak \in Nat /\ Max({peak, MemoryUsed + 1}) \in Nat
    <3> DEFINE n == MemoryUsed + 1
    <3>1. peak \in Nat /\ n \in Nat
      BY <2>7 DEF TypeInv
    <3> HIDE DEF n
    <3>2. Max({peak, n}) = IF peak <= n THEN n ELSE peak
      BY <3>1, MinMaxOfTwo
    <3>3. QED
      BY <3>1, <3>2 DEF n
  <2>9. peak' \in Nat
    BY <1>6, <2>8 DEF RecordFinding
  <2>10. hit' \in [Workers -> Nat]
    BY <1>6, <2>2 DEF RecordFinding, TypeInv
  <2>11. QED
    BY <1>6, <2>6, <2>9, <2>10 DEF RecordFinding, TypeInv
<1>7. ASSUME NEW w \in Workers, RefuseFinding(w) PROVE TypeInv'
  <2>1. Busy(w) /\ Publish(w, Failure("limit"))
    BY <1>7 DEF RefuseFinding, Busy
  <2>2. Failure("limit") \in Result
    BY NoReportScanned DEF Failure, Result, Scanned, Bounded
  <2>3. QED
    BY <2>1, <2>2, BatchesTyped, PublishTyped
<1>8. ASSUME NEW w \in Workers, EndBatch(w) PROVE TypeInv'
  <2>1. Busy(w) /\ batch[w] \in 1..Len(Batches(w))
    BY <1>8, BatchesTyped DEF EndBatch, Busy, ProgressInv, Progress
  <2>2. Current(w).rows \in Nat
    BY <2>1, BatchesTyped
  <2>3. part[w] \in Scanned /\ part[w] \in Report /\ part[w].rows \in Nat
    BY DEF TypeInv, Scanned, Report
  <2> DEFINE p == [part[w] EXCEPT !.rows = @ + Current(w).rows]
  <2>4. p \in Report
    <3>1. part[w].rows + Current(w).rows \in Nat
      BY <2>2, <2>3
    <3>2. QED
      BY <2>3, <3>1, FieldSet
  <2>5. p.findings = part[w].findings /\ p.peak = part[w].peak
    BY <2>3 DEF Report
  <2>6. p \in Scanned
    BY <2>3, <2>4, <2>5 DEF Scanned
  <2> HIDE DEF p
  <2>7. part' = [part EXCEPT ![w] = p]
    BY <1>8 DEF EndBatch, p
  <2>8. part' \in [Workers -> Scanned]
    BY <2>6, <2>7 DEF TypeInv
  <2>9. batch' \in [Workers -> Nat]
    BY <1>8 DEF EndBatch, TypeInv
  <2>10. QED
    BY <1>8, <2>8, <2>9 DEF EndBatch, TypeInv
<1>9. CASE Collect
  <2>1. outcome' = <<Merged>> /\ Merged \in Result
    BY <1>9, MergedFacts DEF Collect
  <2>2. QED
    BY <1>9, <2>1 DEF Collect, TypeInv
<1>10. CASE Cancel
  BY <1>10 DEF Cancel, TypeInv
<1>11. CASE UNCHANGED vars
  BY <1>11 DEF vars, TypeInv
<1>12. QED
  BY <1>1, <1>2, <1>3, <1>4, <1>5, <1>6, <1>7, <1>8, <1>9, <1>10, <1>11 DEF Next, Work

-----------------------------------------------------------------------------
(* The queue *)

\* The queue starts with all partitions, and at least one worker is spawned.
LEMMA QueueInit == Init => QueueInv
<1> SUFFICES ASSUME Init PROVE QueueInv
  OBVIOUS
<1>1. parts \in Seq(Seq(Batch)) /\ Len(parts) \in Nat /\ Len(parts) > 0
  BY LimitsAssumption DEF Init
<1>2. Len(queue) = Len(parts) /\ \A k \in 1..Len(queue) : queue[k] = k
  BY <1>1 DEF Init
<1>3. 1 \in Workers /\ pc[1] # "ended"
  <2>1. PICK threads \in Workers :
          pc = [w \in Workers |-> IF w <= Min({threads, Len(parts)}) THEN "take" ELSE "ended"]
    BY DEF Init
  <2>2. threads \in Nat /\ threads >= 1 /\ 1 \in Workers
    BY LimitsAssumption DEF Workers
  <2>3. 1 <= Min({threads, Len(parts)})
    <3> DEFINE n == Len(parts)
    <3>1. n \in Nat /\ n > 0
      BY <1>1
    <3> HIDE DEF n
    <3>2. Min({threads, n}) = IF threads <= n THEN threads ELSE n
      BY <2>2, <3>1, MinMaxOfTwo
    <3>3. 1 <= Min({threads, n})
      BY <2>2, <3>1, <3>2
    <3>4. QED
      BY <3>3 DEF n
  <2>5. QED
    BY <2>1, <2>2, <2>3
<1>4. ~Done
  BY DEF Init, Done
<1>5. QED
  BY <1>1, <1>2, <1>3, <1>4 DEF QueueInv

\* A step that leaves the queue and the caller alone and ends no worker.
LEMMA QueueKept ==
    ASSUME QueueInv, UNCHANGED <<parts, queue, outcome>>,
           \A v \in Workers : pc'[v] = "ended" <=> pc[v] = "ended"
    PROVE  QueueInv'
BY DEF QueueInv, Done

\* A worker that has not ended keeps the caller waiting.
LEMMA CallerWaits ==
    ASSUME QueueInv, NEW w \in Workers, pc[w] # "ended"
    PROVE  ~Done
BY DEF QueueInv

\* Every step keeps the queue in order.
LEMMA QueueStep ==
    ASSUME TypeInv, QueueInv, [Next]_vars
    PROVE  QueueInv'
<1>0. pc \in [Workers -> {"take", "read", "scan", "ended"}]
  BY DEF TypeInv
<1>1. ASSUME NEW w \in Workers, Take(w) PROVE QueueInv'
  <2>1. queue \in Seq(1..Len(parts)) /\ queue # << >> /\ parts \in Seq(Seq(Batch))
    BY <1>1, LimitsAssumption DEF TypeInv, Take
  <2>2. /\ Len(queue') = Len(queue) - 1 /\ Len(queue) \in Nat /\ Len(parts) \in Nat
        /\ \A k \in 1..Len(queue') : queue'[k] = queue[k + 1] /\ k + 1 \in 1..Len(queue)
    BY <1>1, <2>1 DEF Take
  <2>3. Len(parts') = Len(parts) /\ Len(queue') <= Len(parts')
    BY <1>1, <2>2 DEF QueueInv, Take
  <2>4. \A k \in 1..Len(queue') : queue'[k] = (Len(parts') - Len(queue')) + k
    <3>1. ASSUME NEW k \in 1..Len(queue') PROVE queue'[k] = (Len(parts') - Len(queue')) + k
      <4>1. queue[k + 1] = (Len(parts) - Len(queue)) + (k + 1)
        BY <2>2 DEF QueueInv
      <4>2. QED
        BY <2>2, <2>3, <4>1
    <3>2. QED
      BY <3>1
  <2>5. pc'[w] # "ended"
    BY <1>0, <1>1 DEF Take
  <2>6. ~Done'
    BY <1>1, CallerWaits DEF Take, Done
  <2>7. QED
    BY <2>3, <2>4, <2>5, <2>6 DEF QueueInv
<1>2. ASSUME NEW w \in Workers, End(w) PROVE QueueInv'
  <2>1. queue' = << >> /\ queue = << >> /\ parts' = parts
    BY <1>2 DEF End
  <2>2. ~Done'
    BY <1>2, CallerWaits DEF End, Done
  <2>3. QED
    BY <2>1, <2>2 DEF QueueInv
<1>3. ASSUME NEW w \in Workers, NEW result, pc[w] \in {"read", "scan"}, Publish(w, result)
      PROVE  QueueInv'
  <2>1. \A v \in Workers : pc'[v] = "ended" <=> pc[v] = "ended"
    BY <1>0, <1>3 DEF Publish
  <2>2. QED
    BY <1>3, <2>1, QueueKept DEF Publish
<1>4. ASSUME NEW w \in Workers, ReadBatch(w) PROVE QueueInv'
  <2>1. \A v \in Workers : pc'[v] = "ended" <=> pc[v] = "ended"
    BY <1>0, <1>4 DEF ReadBatch
  <2>2. QED
    BY <1>4, <2>1, QueueKept DEF ReadBatch
<1>5. ASSUME NEW w \in Workers, RecordFinding(w) PROVE QueueInv'
  BY <1>5, QueueKept DEF RecordFinding
<1>6. ASSUME NEW w \in Workers, EndBatch(w) PROVE QueueInv'
  <2>1. \A v \in Workers : pc'[v] = "ended" <=> pc[v] = "ended"
    BY <1>0, <1>6 DEF EndBatch
  <2>2. QED
    BY <1>6, <2>1, QueueKept DEF EndBatch
<1>7. CASE Collect
  BY <1>7 DEF Collect, QueueInv, Done
<1>8. CASE Cancel
  BY <1>8, QueueKept DEF Cancel
<1>9. CASE UNCHANGED vars
  BY <1>9, QueueKept DEF vars
<1>10. ASSUME NEW w \in Workers, FinishPartition(w) \/ FailPartition(w) \/ RefuseFinding(w)
       PROVE  QueueInv'
  BY <1>3, <1>10 DEF FinishPartition, FailPartition, RefuseFinding
<1>11. QED
  BY <1>1, <1>2, <1>4, <1>5, <1>6, <1>7, <1>8, <1>9, <1>10 DEF Next, Work

-----------------------------------------------------------------------------
(* The owners of the partitions *)

\* No partition is taken before the workers begin.
LEMMA OwnerInit == Init => OwnerInv
<1> SUFFICES ASSUME Init PROVE OwnerInv
  OBVIOUS
<1>1. Len(parts) \in Nat
  BY LimitsAssumption DEF Init
<1>2. Len(queue) = Len(parts)
  BY <1>1 DEF Init
<1>3. Taken = {}
  BY <1>1, <1>2 DEF Taken
<1>4. \A w \in Workers : ~Busy(w)
  BY DEF Init, Busy
<1>5. \A i \in 1..Len(parts) : slots[i] = << >>
  BY DEF Init
<1>6. QED
  BY <1>3, <1>4, <1>5 DEF OwnerInv

\* A step that moves no partition.
LEMMA OwnerKept ==
    ASSUME OwnerInv, UNCHANGED <<parts, queue, slots, job>>,
           \A v \in Workers : Busy(v)' <=> Busy(v)
    PROVE  OwnerInv'
<1>1. Taken' = Taken
  BY DEF Taken
<1>2. QED
  BY <1>1 DEF OwnerInv

\* A partition goes from its worker into its slot.
LEMMA OwnerPublish ==
    ASSUME TypeInv, OwnerInv, NEW w \in Workers, NEW result, Busy(w), Publish(w, result)
    PROVE  OwnerInv'
<1>1. /\ pc' = [pc EXCEPT ![w] = "take"] /\ job' = job /\ parts' = parts /\ queue' = queue
      /\ slots' = [slots EXCEPT ![job[w]] = <<result>>]
  BY DEF Publish
<1>2. job[w] \in Taken /\ job[w] \in 1..Len(parts) /\ Len(slots) = Len(parts) /\ DOMAIN slots = 1..Len(slots)
  BY BatchesTyped DEF OwnerInv, TypeInv
<1>3. Taken' = Taken
  BY <1>1 DEF Taken
<1>4. ~Busy(w)' /\ \A v \in Workers : v # w => (Busy(v)' <=> Busy(v))
  BY <1>1 DEF Busy, TypeInv
<1>5. \A i \in 1..Len(parts) : slots'[i] = IF i = job[w] THEN <<result>> ELSE slots[i]
  BY <1>1, <1>2
<1>6. <<result>> # << >>
  OBVIOUS
<1>7. \A v \in Workers : Busy(v)' => job[v] \in Taken /\ job[v] \in 1..Len(parts) /\ job[v] # job[w]
                                    /\ slots[job[v]] = << >>
  BY <1>4, BatchesTyped DEF OwnerInv
<1>8. \A v \in Workers : Busy(v)' => job'[v] \in Taken' /\ slots'[job'[v]] = << >>
  BY <1>1, <1>3, <1>5, <1>7
<1>9. \A v, u \in Workers : Busy(v)' /\ Busy(u)' /\ job'[v] = job'[u] => v = u
  BY <1>1, <1>4 DEF OwnerInv
<1>10. Taken \subseteq 1..Len(parts)
  <2>1. Len(parts) \in Nat /\ Len(queue) \in Nat
    BY BatchesTyped
  <2>2. QED
    BY <2>1 DEF Taken
<1>11. ASSUME NEW i \in Taken PROVE slots'[i] # << >> \/ \E v \in Workers : Busy(v)' /\ job'[v] = i
  <2>1. CASE i = job[w]
    BY <1>5, <1>6, <1>10, <2>1
  <2>2. CASE i # job[w]
    <3>1. slots[i] # << >> \/ \E v \in Workers : Busy(v) /\ job[v] = i
      BY DEF OwnerInv
    <3>2. CASE slots[i] # << >>
      BY <1>5, <1>10, <2>2, <3>2
    <3>3. CASE \E v \in Workers : Busy(v) /\ job[v] = i
      <4>1. PICK v \in Workers : Busy(v) /\ job[v] = i
        BY <3>3
      <4>2. v # w
        BY <2>2, <4>1
      <4>3. QED
        BY <1>1, <1>4, <4>1, <4>2
    <3>4. QED
      BY <3>1, <3>2, <3>3
  <2>3. QED
    BY <2>1, <2>2
<1>12. \A i \in 1..Len(parts') : slots'[i] # << >> => i \in Taken'
  BY <1>1, <1>2, <1>3, <1>5 DEF OwnerInv
<1>13. QED
  BY <1>3, <1>8, <1>9, <1>11, <1>12 DEF OwnerInv

\* Every step keeps each taken partition with one worker or in its slot.
LEMMA OwnerStep ==
    ASSUME TypeInv, QueueInv, OwnerInv, [Next]_vars
    PROVE  OwnerInv'
<1>0. pc \in [Workers -> {"take", "read", "scan", "ended"}] /\ job \in [Workers -> Nat]
  BY DEF TypeInv
<1>1. ASSUME NEW w \in Workers, Take(w) PROVE OwnerInv'
  <2> DEFINE j == Head(queue)
  <2>1. queue \in Seq(1..Len(parts)) /\ queue # << >> /\ parts \in Seq(Seq(Batch))
    BY <1>1, LimitsAssumption DEF TypeInv, Take
  <2>2. /\ Len(queue') = Len(queue) - 1 /\ Len(queue) \in Nat /\ Len(parts) \in Nat
        /\ j = queue[1] /\ 1 \in 1..Len(queue) /\ Len(queue) <= Len(parts)
    BY <1>1, <2>1 DEF Take, QueueInv
  <2>3. j = (Len(parts) - Len(queue)) + 1
    BY <2>2 DEF QueueInv
  <2> HIDE DEF j
  <2>4. /\ Taken' = Taken \cup {j} /\ j \notin Taken /\ j \in 1..Len(parts)
    BY <1>1, <2>2, <2>3 DEF Taken, Take
  <2>5. /\ pc' = [pc EXCEPT ![w] = "read"] /\ job' = [job EXCEPT ![w] = j]
        /\ slots' = slots /\ parts' = parts /\ pc[w] = "take"
    BY <1>1 DEF Take, j
  <2>6. slots[j] = << >>
    BY <2>4 DEF OwnerInv
  <2>7. /\ ~Busy(w) /\ job'[w] = j
        /\ \A v \in Workers : v # w => (Busy(v)' <=> Busy(v)) /\ job'[v] = job[v]
        /\ Busy(w)'
    BY <1>0, <2>5 DEF Busy
  <2>8. \A v \in Workers : v # w /\ Busy(v)' => job'[v] \in Taken /\ slots[job'[v]] = << >>
    BY <2>7 DEF OwnerInv
  <2>9. \A v \in Workers : Busy(v)' => job'[v] \in Taken' /\ slots'[job'[v]] = << >>
    BY <2>4, <2>5, <2>6, <2>7, <2>8
  <2>10. ASSUME NEW v \in Workers, NEW u \in Workers, Busy(v)', Busy(u)', job'[v] = job'[u]
         PROVE  v = u
    <3>1. CASE v = w
      BY <2>4, <2>7, <2>8, <2>10, <3>1
    <3>2. CASE u = w
      BY <2>4, <2>7, <2>8, <2>10, <3>2
    <3>3. CASE v # w /\ u # w
      BY <2>7, <2>10, <3>3 DEF OwnerInv
    <3>4. QED
      BY <3>1, <3>2, <3>3
  <2>11. ASSUME NEW i \in Taken' PROVE slots'[i] # << >> \/ \E v \in Workers : Busy(v)' /\ job'[v] = i
    <3>1. CASE i = j
      BY <2>7, <3>1
    <3>2. CASE i # j
      <4>1. i \in Taken
        BY <2>4, <3>2
      <4>2. slots[i] # << >> \/ \E v \in Workers : Busy(v) /\ job[v] = i
        BY <4>1 DEF OwnerInv
      <4>3. ASSUME NEW v \in Workers, Busy(v), job[v] = i PROVE Busy(v)' /\ job'[v] = i
        BY <2>7, <4>3
      <4>4. QED
        BY <2>5, <4>2, <4>3
    <3>3. QED
      BY <3>1, <3>2
  <2>12. \A i \in 1..Len(parts') : slots'[i] # << >> => i \in Taken'
    BY <2>4, <2>5 DEF OwnerInv
  <2>13. QED
    BY <2>9, <2>10, <2>11, <2>12 DEF OwnerInv
<1>2. ASSUME NEW w \in Workers, End(w) PROVE OwnerInv'
  <2>1. \A v \in Workers : Busy(v)' <=> Busy(v)
    BY <1>0, <1>2 DEF End, Busy
  <2>2. QED
    BY <1>2, <2>1, OwnerKept DEF End
<1>3. ASSUME NEW w \in Workers, FinishPartition(w) \/ FailPartition(w) \/ RefuseFinding(w)
      PROVE  OwnerInv'
  <2>1. Busy(w) /\ \E result \in {Success(part[w]), Failure("cancelled"), Failure("reader"), Failure("limit")} :
          Publish(w, result)
    BY <1>3 DEF FinishPartition, FailPartition, RefuseFinding, Busy
  <2>2. QED
    BY <2>1, OwnerPublish
<1>4. ASSUME NEW w \in Workers, ReadBatch(w) PROVE OwnerInv'
  <2>1. \A v \in Workers : Busy(v)' <=> Busy(v)
    BY <1>0, <1>4 DEF ReadBatch, Busy
  <2>2. QED
    BY <1>4, <2>1, OwnerKept DEF ReadBatch
<1>5. ASSUME NEW w \in Workers, RecordFinding(w) PROVE OwnerInv'
  BY <1>5, OwnerKept DEF RecordFinding, Busy
<1>6. ASSUME NEW w \in Workers, EndBatch(w) PROVE OwnerInv'
  <2>1. \A v \in Workers : Busy(v)' <=> Busy(v)
    BY <1>0, <1>6 DEF EndBatch, Busy
  <2>2. QED
    BY <1>6, <2>1, OwnerKept DEF EndBatch
<1>7. CASE Collect
  BY <1>7, OwnerKept DEF Collect, Busy
<1>8. CASE Cancel
  BY <1>8, OwnerKept DEF Cancel, Busy
<1>9. CASE UNCHANGED vars
  BY <1>9, OwnerKept DEF vars, Busy
<1>10. QED
  BY <1>1, <1>2, <1>3, <1>4, <1>5, <1>6, <1>7, <1>8, <1>9 DEF Next, Work

-----------------------------------------------------------------------------
(* The progress of a worker through its partition *)

\* No worker has begun.
LEMMA ProgressInit == Init => ProgressInv
BY DEF Init, ProgressInv, Progress, Busy

\* A worker that the step does not concern.
LEMMA ProgressKept ==
    ASSUME NEW v \in Workers, Progress(v),
           parts' = parts, pc'[v] = pc[v], job'[v] = job[v], batch'[v] = batch[v],
           hit'[v] = hit[v], part'[v] = part[v]
    PROVE  Progress(v)'
BY DEF Progress, Busy, Before, Within, Batches, Current

\* A worker that takes a partition has read nothing of it.
LEMMA ProgressTake ==
    ASSUME TypeInv, NEW w \in Workers, Take(w)
    PROVE  Progress(w)'
<1> DEFINE j == Head(queue)
           own == parts[j]
<1>1. parts \in Seq(Seq(Batch)) /\ queue \in Seq(1..Len(parts)) /\ queue # << >>
  BY LimitsAssumption DEF Take, TypeInv
<1>2. j \in 1..Len(parts) /\ Len(parts) \in Nat
  BY <1>1
<1>3. own \in Seq(Batch)
  BY <1>1, <1>2
<1>4. /\ pc'[w] = "read" /\ job'[w] = j /\ batch'[w] = 1 /\ part'[w] = NoReport
      /\ parts' = parts
  BY DEF Take, TypeInv
<1>5. Batches(w)' = own
  BY <1>4 DEF Batches
<1> HIDE DEF own, j
<1>6. Traversal(SubSeq(own, 1, 0)) = NoReport
  BY <1>3, TraversalIsFold, Scan!FoldEnds
<1>7. 1 - 1 = 0 /\ Len(own) \in Nat /\ 1 \in 1..Len(own) + 1 /\ 1..0 = {}
  BY <1>3
<1>8. Before(w)' = NoReport
  BY <1>4, <1>5, <1>6, <1>7 DEF Before
<1>9. QED
  BY <1>4, <1>5, <1>7, <1>8 DEF Progress

\* The batch is delivered and none of its violations is recorded yet.
LEMMA ProgressRead ==
    ASSUME TypeInv, OwnerInv, NEW w \in Workers, Progress(w), ReadBatch(w)
    PROVE  Progress(w)'
<1>1. Busy(w) /\ batch[w] \in 1..Len(Batches(w))
  BY BatchesTyped DEF ReadBatch, Busy, Progress
<1>2. /\ pc'[w] = "scan" /\ hit'[w] = 0
      /\ part'[w] = [part[w] EXCEPT !.evaluated = @ + Current(w).values]
      /\ Batches(w)' = Batches(w) /\ Current(w)' = Current(w) /\ Before(w)' = Before(w)
      /\ batch' = batch /\ ~Current(w).fails
  BY DEF ReadBatch, TypeInv, Batches, Current, Before
<1>3. Current(w).hits \in Seq(Nat)
  BY <1>1, BatchesTyped
<1>4. part[w] = Before(w)
  BY <1>1 DEF Progress, ReadBatch
<1>5. Hits!Fold(Before(w), SubSeq(Current(w).hits, 1, 0)) = Before(w)
  BY <1>3, Hits!FoldEnds
<1>6. part'[w] = Within(w)'
  BY <1>2, <1>4, <1>5 DEF Within
<1>7. 0 <= Len(Current(w).hits) /\ batch[w] <= Len(Batches(w))
  BY <1>3, BatchesTyped, <1>1
<1>8. batch[w] \in 1..Len(Batches(w)) + 1 /\ \A b \in 1..batch[w] - 1 : ~Batches(w)[b].fails
  BY <1>1 DEF Progress
<1>9. QED
  BY <1>2, <1>6, <1>7, <1>8 DEF Progress

\* One more violation of the batch is recorded.
LEMMA ProgressRecord ==
    ASSUME TypeInv, OwnerInv, NEW w \in Workers, Progress(w), RecordFinding(w)
    PROVE  Progress(w)'
<1> DEFINE hits == Current(w).hits
           k == hit[w]
           n == Current(w).values
           r == Hits!Fold(Before(w), SubSeq(hits, 1, k))
<1>1. Busy(w) /\ batch[w] \in 1..Len(Batches(w))
  BY BatchesTyped DEF RecordFinding, Busy, Progress
<1>2. hits \in Seq(Nat) /\ n \in Nat /\ k \in Nat /\ k < Len(hits)
  BY <1>1, BatchesTyped DEF RecordFinding, TypeInv
<1>3. /\ pc' = pc /\ pc[w] = "scan" /\ hit'[w] = k + 1 /\ batch' = batch
      /\ part'[w] = RecordHit(part[w], hits[k + 1])
      /\ Batches(w)' = Batches(w) /\ Current(w)' = Current(w) /\ Before(w)' = Before(w)
  BY DEF RecordFinding, TypeInv, Batches, Current, Before
<1>4. part[w] = [r EXCEPT !.evaluated = @ + n]
  BY <1>1, <1>3 DEF Progress, Within
<1>5. r \in Report
  <2>1. Before(w) \in Scanned
    <3>1. Batches(w) \in Seq(Batch) /\ batch[w] \in Nat /\ batch[w] - 1 \in 0..Len(Batches(w))
      BY <1>1, BatchesTyped
    <3>2. SubSeq(Batches(w), 1, batch[w] - 1) \in Seq(Batch)
      BY <3>1, SubSeqProperties
    <3>3. QED
      BY <3>2, TraversalScanned DEF Before
  <2>2. SubSeq(hits, 1, k) \in Seq(Nat)
    BY <1>2, SubSeqProperties
  <2> HIDE DEF hits, k
  <2>3. r \in Scanned
    BY <2>1, <2>2, RecordScanned, Hits!FoldKeeps
  <2>4. QED
    BY <2>3 DEF Scanned
<1>6. hits[k + 1] \in Nat
  BY <1>2
<1>7. Hits!Fold(Before(w), SubSeq(hits, 1, k + 1)) = RecordHit(r, hits[k + 1])
  <2> HIDE DEF hits, k
  <2>1. QED
    BY <1>2, Hits!FoldStep
<1>8. Within(w)' = [RecordHit(r, hits[k + 1]) EXCEPT !.evaluated = @ + n]
  BY <1>3, <1>7 DEF Within
<1>9. part'[w] = Within(w)'
  <2> HIDE DEF r, hits, k, n
  <2>1. RecordHit([r EXCEPT !.evaluated = @ + n], hits[k + 1])
          = [RecordHit(r, hits[k + 1]) EXCEPT !.evaluated = @ + n]
    BY <1>2, <1>5, <1>6, RecordThenCount
  <2>2. QED
    BY <1>3, <1>4, <1>8, <2>1
<1>10. k + 1 <= Len(hits)
  BY <1>2
<1>11. QED
  <2> HIDE DEF r
  <2>1. QED
    BY <1>1, <1>3, <1>9, <1>10 DEF Progress, Busy

\* The batch is done: its report is the traversal up to its end.
LEMMA ProgressEnd ==
    ASSUME TypeInv, OwnerInv, NEW w \in Workers, Progress(w), EndBatch(w)
    PROVE  Progress(w)'
<1> DEFINE b == Current(w)
           k == batch[w]
           own == Batches(w)
           r == Before(w)
           f == Hits!Fold(r, b.hits)
<1>1. Busy(w) /\ k \in 1..Len(own)
  BY BatchesTyped DEF EndBatch, Busy, Progress
<1>2. own \in Seq(Batch) /\ b \in Batch /\ b.hits \in Seq(Nat) /\ b = own[k] /\ k \in Nat
  BY <1>1, BatchesTyped DEF Current
<1>3. /\ pc[w] = "scan" /\ hit[w] = Len(b.hits)
      /\ pc'[w] = "read" /\ batch'[w] = k + 1 /\ Batches(w)' = own
      /\ part'[w] = [part[w] EXCEPT !.rows = @ + b.rows]
  BY DEF EndBatch, TypeInv, Batches, Current
<1>4. ~b.fails /\ part[w] = Within(w) /\ \A i \in 1..k - 1 : ~own[i].fails
  BY <1>1, <1>3 DEF Progress
<1>5. part[w] = [f EXCEPT !.evaluated = @ + b.values]
  <2>1. Hits!Fold(r, SubSeq(b.hits, 1, Len(b.hits))) = f
    BY <1>2, Hits!FoldEnds, ZenonT(30)
  <2>2. QED
    BY <1>3, <1>4, <2>1 DEF Within
<1>6. r = Traversal(SubSeq(own, 1, k - 1)) /\ Before(w)' = Traversal(SubSeq(own, 1, (k + 1) - 1))
  BY <1>3 DEF Before
<1> HIDE DEF own, k, b
<1>7. k - 1 \in Nat /\ k - 1 < Len(own) /\ (k - 1) + 1 = k /\ (k + 1) - 1 = k /\ k + 1 \in 1..Len(own) + 1
  BY <1>1, <1>2
<1>8. r \in Scanned
  <2>1. SubSeq(own, 1, k - 1) \in Seq(Batch)
    BY <1>2, <1>7, SubSeqProperties
  <2> HIDE DEF r
  <2>2. QED
    BY <1>6, <2>1, TraversalScanned
<1> HIDE DEF r
<1>9. f \in Scanned
  BY <1>2, <1>8, RecordScanned, Hits!FoldKeeps
<1>10. part'[w] = ScanBatch(r, b)
  <2>1. f \in Report /\ r \in Report
    BY <1>8, <1>9 DEF Scanned
  <2>2. [[f EXCEPT !.evaluated = @ + b.values] EXCEPT !.rows = @ + b.rows] = ScanBatch(r, b)
    BY <1>2, <2>1, CountThenEnd, ZenonT(30)
  <2>3. QED
    BY <1>3, <1>5, <2>2
<1>11. Traversal(SubSeq(own, 1, k)) = ScanBatch(r, b)
  <2> DEFINE m == k - 1
  <2>1. m \in Nat /\ m < Len(own) /\ m + 1 = k
    BY <1>7
  <2> HIDE DEF m
  <2>2. Scan!Fold(NoReport, SubSeq(own, 1, m + 1))
          = ScanBatch(Scan!Fold(NoReport, SubSeq(own, 1, m)), own[m + 1])
    BY <1>2, <2>1, Scan!FoldStep
  <2>3. r = Scan!Fold(NoReport, SubSeq(own, 1, m))
    BY <1>6, TraversalIsFold DEF m
  <2>4. QED
    BY <1>2, <2>1, <2>2, <2>3, TraversalIsFold
<1>12. part'[w] = Before(w)'
  BY <1>6, <1>7, <1>10, <1>11
<1>13. \A i \in 1..(k + 1) - 1 : ~own[i].fails
  <2>1. \A i \in 1..(k + 1) - 1 : i = k \/ i \in 1..k - 1
    BY <1>7
  <2>2. QED
    BY <1>2, <1>4, <2>1
<1>14. QED
  BY <1>3, <1>7, <1>12, <1>13 DEF Progress

\* The progress invariant is kept.
LEMMA ProgressStep ==
    ASSUME TypeInv, OwnerInv, ProgressInv, [Next]_vars
    PROVE  ProgressInv'
<1> SUFFICES ASSUME NEW v \in Workers PROVE Progress(v)'
  BY DEF ProgressInv
<1>0. Progress(v) /\ v \in Workers
  BY DEF ProgressInv
<1>1. ASSUME NEW w \in Workers, Take(w) PROVE Progress(v)'
  <2>1. CASE v = w
    BY <1>1, <2>1, ProgressTake
  <2>2. CASE v # w
    BY <1>0, <1>1, <2>2, ProgressKept DEF Take, TypeInv
  <2>3. QED
    BY <2>1, <2>2
<1>2. ASSUME NEW w \in Workers, NEW result, Publish(w, result) PROVE Progress(v)'
  <2>1. CASE v = w
    <3>1. pc'[v] = "take"
      BY <1>2, <2>1 DEF Publish, TypeInv
    <3>2. QED
      BY <3>1 DEF Progress, Busy
  <2>2. CASE v # w
    BY <1>0, <1>2, <2>2, ProgressKept DEF Publish, TypeInv
  <2>3. QED
    BY <2>1, <2>2
<1>3. ASSUME NEW w \in Workers, End(w) PROVE Progress(v)'
  <2>1. CASE v = w
    <3>1. pc'[v] = "ended"
      BY <1>3, <2>1 DEF End, TypeInv
    <3>2. QED
      BY <3>1 DEF Progress, Busy
  <2>2. CASE v # w
    BY <1>0, <1>3, <2>2, ProgressKept DEF End, TypeInv
  <2>3. QED
    BY <2>1, <2>2
<1>4. ASSUME NEW w \in Workers, ReadBatch(w) PROVE Progress(v)'
  <2>1. CASE v = w
    BY <1>0, <1>4, <2>1, ProgressRead
  <2>2. CASE v # w
    BY <1>0, <1>4, <2>2, ProgressKept DEF ReadBatch, TypeInv
  <2>3. QED
    BY <2>1, <2>2
<1>5. ASSUME NEW w \in Workers, RecordFinding(w) PROVE Progress(v)'
  <2>1. CASE v = w
    BY <1>0, <1>5, <2>1, ProgressRecord
  <2>2. CASE v # w
    BY <1>0, <1>5, <2>2, ProgressKept DEF RecordFinding, TypeInv
  <2>3. QED
    BY <2>1, <2>2
<1>6. ASSUME NEW w \in Workers, EndBatch(w) PROVE Progress(v)'
  <2>1. CASE v = w
    BY <1>0, <1>6, <2>1, ProgressEnd
  <2>2. CASE v # w
    BY <1>0, <1>6, <2>2, ProgressKept DEF EndBatch, TypeInv
  <2>3. QED
    BY <2>1, <2>2
<1>7. CASE Collect \/ Cancel \/ UNCHANGED vars
  BY <1>0, <1>7, ProgressKept DEF Collect, Cancel, vars
<1>8. ASSUME NEW w \in Workers, FinishPartition(w) \/ FailPartition(w) \/ RefuseFinding(w)
      PROVE  Progress(v)'
  BY <1>2, <1>8 DEF FinishPartition, FailPartition, RefuseFinding
<1>9. QED
  BY <1>1, <1>3, <1>4, <1>5, <1>6, <1>7, <1>8 DEF Next, Work

-----------------------------------------------------------------------------
(* The charges of the workers *)

\* So it is in the next state.
LEMMA UsedIsHeldNext == MemoryUsed' = Cardinality(Held(Charges'))
<1>1. Held(Charges') = {unit \in Workers \X (1..FindingLimit) : unit[2] <= Charged(unit[1])'}
  BY DEF Held, Charges
<1>2. QED
  BY <1>1 DEF MemoryUsed

\* What a worker is charged for are the findings of its report.
LEMMA ChargesTyped ==
    ASSUME TypeInv
    PROVE  /\ Charges \in [Workers -> 0..FindingLimit]
           /\ Charges \in [Workers -> Nat]
           /\ \A w \in Workers : Busy(w) => Charges[w] = part[w].peak
<1>1. ASSUME NEW w \in Workers
      PROVE  Charged(w) \in 0..FindingLimit /\ (Busy(w) => Charged(w) = part[w].peak)
  <2>1. part[w] \in Scanned
    BY DEF TypeInv
  <2>2. Len(part[w].findings) \in 0..FindingLimit /\ part[w].peak = Len(part[w].findings)
    BY <2>1, LimitsAssumption DEF Scanned, Report
  <2>3. QED
    BY <2>2, LimitsAssumption DEF Charged, Busy
<1>2. Charges \in [Workers -> 0..FindingLimit]
  BY <1>1 DEF Charges
<1>3. QED
  BY <1>1, <1>2, LimitsAssumption DEF Charges

\* So it is in the next state.
LEMMA ChargesTypedNext ==
    ASSUME TypeInv'
    PROVE  Charges' \in [Workers -> Nat]
<1>1. ASSUME NEW w \in Workers PROVE Charged(w)' \in Nat
  <2>1. part'[w] \in Scanned
    BY DEF TypeInv
  <2>2. Len(part'[w].findings) \in Nat
    BY <2>1 DEF Scanned, Report
  <2>3. QED
    BY <2>2 DEF Charged
<1>2. QED
  BY <1>1 DEF Charges

\* Nothing is charged before the workers begin.
LEMMA MemoryInit == Init => MemoryInv
<1> SUFFICES ASSUME Init PROVE MemoryInv
  OBVIOUS
<1>1. \A w \in Workers : Charged(w) = 0
  BY DEF Init, Charged
<1>2. Held(Charges) = {}
  BY <1>1, LimitsAssumption DEF Held, Charges
<1>3. MemoryUsed = 0
  BY <1>2, UsedIsHeld, FS_EmptySet
<1>4. peak = 0
  BY DEF Init
<1>5. QED
  BY <1>3, <1>4, LimitsAssumption DEF MemoryInv

\* A step in which no worker is charged for more and the peak stays.
LEMMA MemoryKept ==
    ASSUME TypeInv, TypeInv', MemoryInv, peak' = peak,
           \A w \in Workers : Charges'[w] <= Charges[w]
    PROVE  MemoryInv'
<1>1. Charges \in [Workers -> Nat] /\ Charges' \in [Workers -> Nat]
  BY ChargesTyped, ChargesTypedNext
<1> DEFINE c == Charges
           d == Charges'
<1>2. c \in [Workers -> Nat] /\ d \in [Workers -> Nat] /\ \A w \in Workers : d[w] <= c[w]
  BY <1>1
<1>3. MemoryUsed = Cardinality(Held(c)) /\ MemoryUsed' = Cardinality(Held(d))
  BY UsedIsHeld, UsedIsHeldNext
<1> HIDE DEF c, d
<1>4. Cardinality(Held(d)) <= Cardinality(Held(c))
  BY <1>2, HeldLess
<1> DEFINE m == Cardinality(Held(c))
           n == Cardinality(Held(d))
<1>5. m \in Nat /\ n \in Nat /\ n <= m /\ m <= peak
  BY <1>3, <1>4, HeldFinite DEF MemoryInv
<1> HIDE DEF m, n
<1>6. n <= peak
  BY <1>5 DEF TypeInv
<1>7. QED
  BY <1>3, <1>6 DEF MemoryInv, n

\* A finding that is kept takes one unit that the root has.
LEMMA MemoryRecord ==
    ASSUME TypeInv, MemoryInv, NEW w \in Workers, RecordFinding(w), Room(part[w]),
           Charges' = [Charges EXCEPT ![w] = @ + 1]
    PROVE  MemoryInv'
<1> DEFINE m == MemoryUsed
           c == Charges
<1>1. c \in [Workers -> Nat] /\ c[w] < FindingLimit
  <2>1. Charges[w] = Len(part[w].findings)
    BY DEF RecordFinding, Charges, Charged
  <2>2. QED
    BY <2>1, ChargesTyped DEF Room
<1>2. MemoryUsed' = m + 1
  <2>1. m = Cardinality(Held(c)) /\ MemoryUsed' = Cardinality(Held([c EXCEPT ![w] = @ + 1]))
    BY UsedIsHeld, UsedIsHeldNext
  <2> HIDE DEF m, c
  <2>2. QED
    BY <1>1, <2>1, HeldMore
<1>3. m \in Nat /\ peak \in Nat /\ m <= peak /\ peak <= MemoryCap /\ m < MemoryCap
      /\ peak' = Max({peak, m + 1})
  <2>1. m \in Nat /\ peak \in Nat
    BY MemoryTyped DEF TypeInv
  <2>2. m <= peak /\ peak <= MemoryCap
    BY DEF MemoryInv
  <2>3. m < MemoryCap /\ peak' = Max({peak, m + 1})
    BY DEF RecordFinding
  <2>4. QED
    BY <2>1, <2>2, <2>3
<1> HIDE DEF m
<1>4. peak' = IF peak <= m + 1 THEN m + 1 ELSE peak
  <2> DEFINE n == m + 1
  <2>1. peak \in Int /\ n \in Int /\ peak' = Max({peak, n})
    BY <1>3
  <2> HIDE DEF n
  <2>2. peak' = IF peak <= n THEN n ELSE peak
    BY <2>1, MinMaxOfTwo
  <2>3. QED
    BY <2>2 DEF n
<1>5. m + 1 <= peak' /\ peak' <= MemoryCap
  BY <1>3, <1>4, LimitsAssumption
<1>6. QED
  BY <1>2, <1>5 DEF MemoryInv

\* The memory invariant is kept, and the peak only grows.
LEMMA MemoryStep ==
    ASSUME TypeInv, TypeInv', OwnerInv, ProgressInv, MemoryInv, [Next]_vars
    PROVE  MemoryInv' /\ peak <= peak'
<1>0. /\ pc \in [Workers -> {"take", "read", "scan", "ended"}] /\ part \in [Workers -> Scanned]
      /\ peak \in Nat /\ peak <= peak
      /\ \A w \in Workers : Charges[w] = Charged(w) /\ Charges'[w] = Charged(w)' /\ Charged(w) \in Nat
                            /\ Charged(w) <= Charged(w)
  <2>1. \A w \in Workers : Charges[w] = Charged(w) /\ Charges'[w] = Charged(w)'
    BY DEF Charges
  <2>2. \A w \in Workers : Charges[w] \in Nat
    BY ChargesTyped
  <2>3. QED
    BY <2>1, <2>2 DEF TypeInv
<1>1. ASSUME NEW w \in Workers, Take(w) PROVE MemoryInv' /\ peak <= peak'
  <2>1. \A v \in Workers : Charged(v)' <= Charged(v)
    <3>1. Charged(w)' = 0
      BY <1>1 DEF Take, Charged, TypeInv, NoReport
    <3>2. \A v \in Workers : v # w => Charged(v)' = Charged(v)
      BY <1>1 DEF Take, Charged, TypeInv
    <3>3. QED
      BY <1>0, <3>1, <3>2
  <2>2. QED
    BY <1>0, <1>1, <2>1, MemoryKept DEF Take
<1>2. ASSUME NEW w \in Workers, NEW result, Publish(w, result) PROVE MemoryInv' /\ peak <= peak'
  <2>1. \A v \in Workers : Charged(v)' <= Charged(v)
    <3>1. Charged(w)' = 0
      BY <1>2 DEF Publish, Charged, TypeInv
    <3>2. \A v \in Workers : v # w => Charged(v)' = Charged(v)
      BY <1>2 DEF Publish, Charged, TypeInv
    <3>3. QED
      BY <1>0, <3>1, <3>2
  <2>2. QED
    BY <1>0, <1>2, <2>1, MemoryKept DEF Publish
<1>3. ASSUME NEW w \in Workers, End(w) PROVE MemoryInv' /\ peak <= peak'
  <2>1. \A v \in Workers : Charged(v)' = Charged(v)
    BY <1>3 DEF End, Charged, TypeInv
  <2>2. QED
    BY <1>0, <1>3, <2>1, MemoryKept DEF End
<1>4. ASSUME NEW w \in Workers, ReadBatch(w) PROVE MemoryInv' /\ peak <= peak'
  <2>1. part'[w].findings = part[w].findings
    BY <1>0, <1>4 DEF ReadBatch, Scanned, Report
  <2>2. \A v \in Workers : Charged(v)' = Charged(v)
    BY <1>0, <1>4, <2>1 DEF ReadBatch, Charged
  <2>3. QED
    BY <1>0, <1>4, <2>2, MemoryKept DEF ReadBatch
<1>5. ASSUME NEW w \in Workers, RecordFinding(w) PROVE MemoryInv' /\ peak <= peak'
  <2> DEFINE h == Current(w).hits[hit[w] + 1]
  <2>1. Busy(w) /\ batch[w] \in 1..Len(Batches(w)) /\ pc[w] = "scan" /\ pc' = pc
    BY <1>5, BatchesTyped DEF RecordFinding, Busy, ProgressInv, Progress
  <2>2. h \in Nat
    <3>1. hit[w] \in Nat
      BY DEF TypeInv
    <3>2. hit[w] < Len(Current(w).hits)
      BY <1>5 DEF RecordFinding
    <3>3. Current(w).hits \in Seq(Nat)
      BY <2>1, BatchesTyped
    <3>4. QED
      BY <3>1, <3>2, <3>3
  <2>3. part' = [part EXCEPT ![w] = RecordHit(part[w], h)]
    BY <1>5 DEF RecordFinding
  <2> HIDE DEF h
  <2>4. part[w] \in Report /\ part[w].findings \in Seq(Nat)
    BY <1>0 DEF Scanned, Report
  <2>5. part'[w] = RecordHit(part[w], h) /\ \A v \in Workers : v # w => part'[v] = part[v]
    BY <1>0, <2>3
  <2>6. CASE Room(part[w])
    <3>1. part'[w].findings = Append(part[w].findings, part[w].rows + h)
      <4>1. RecordHit(part[w], h).findings = Append(part[w].findings, part[w].rows + h)
        BY <2>2, <2>4, <2>6, RecordFacts
      <4>2. QED
        BY <2>5, <4>1
    <3>2. Len(part'[w].findings) = Len(part[w].findings) + 1
      BY <2>2, <2>4, <3>1 DEF Report
    <3>3. Charged(w)' = Charged(w) + 1
      BY <2>1, <3>2 DEF Charged
    <3>4. \A v \in Workers : v # w => Charged(v)' = Charged(v)
      BY <2>1, <2>5 DEF Charged
    <3>5. Charges' = [Charges EXCEPT ![w] = @ + 1]
      BY <3>3, <3>4 DEF Charges
    <3>6. MemoryInv'
      BY <1>5, <2>6, <3>5, MemoryRecord
    <3>7. peak <= peak'
      <4> DEFINE n == MemoryUsed + 1
      <4>1. n \in Int /\ peak \in Int
        BY <1>0, MemoryTyped
      <4>2. peak' = Max({peak, n})
        BY <1>5, <2>6 DEF RecordFinding
      <4> HIDE DEF n
      <4>3. peak' = IF peak <= n THEN n ELSE peak
        BY <4>1, <4>2, MinMaxOfTwo
      <4>4. QED
        BY <4>1, <4>3
    <3>8. QED
      BY <3>6, <3>7
  <2>7. CASE ~Room(part[w])
    <3>1. part'[w].findings = part[w].findings
      BY <2>2, <2>4, <2>5, <2>7, RecordFacts
    <3>2. \A v \in Workers : Charged(v)' = Charged(v)
      BY <2>1, <2>5, <3>1 DEF Charged
    <3>3. peak' = peak
      BY <1>5, <2>7 DEF RecordFinding
    <3>4. QED
      BY <1>0, <3>2, <3>3, MemoryKept
  <2>8. QED
    BY <2>6, <2>7
<1>6. ASSUME NEW w \in Workers, EndBatch(w) PROVE MemoryInv' /\ peak <= peak'
  <2>1. part'[w].findings = part[w].findings
    BY <1>0, <1>6 DEF EndBatch, Scanned, Report
  <2>2. \A v \in Workers : Charged(v)' = Charged(v)
    BY <1>0, <1>6, <2>1 DEF EndBatch, Charged
  <2>3. QED
    BY <1>0, <1>6, <2>2, MemoryKept DEF EndBatch
<1>7. CASE Collect \/ Cancel \/ UNCHANGED vars
  <2>1. \A v \in Workers : Charged(v)' = Charged(v)
    BY <1>7 DEF Collect, Cancel, vars, Charged
  <2>2. peak' = peak
    BY <1>7 DEF Collect, Cancel, vars
  <2>3. QED
    BY <1>0, <2>1, <2>2, MemoryKept
<1>8. ASSUME NEW w \in Workers, FinishPartition(w) \/ FailPartition(w) \/ RefuseFinding(w)
      PROVE  MemoryInv' /\ peak <= peak'
  BY <1>2, <1>8 DEF FinishPartition, FailPartition, RefuseFinding
<1>9. QED
  BY <1>1, <1>3, <1>4, <1>5, <1>6, <1>7, <1>8 DEF Next, Work

-----------------------------------------------------------------------------
(* The slots *)

\* A published result is put together from well-formed parts.
LEMMA SlotTyped ==
    ASSUME TypeInv, NEW i \in 1..Len(parts), slots[i] # << >>
    PROVE  slots[i][1] \in Result /\ slots[i][1].report \in Bounded /\ slots[i][1].report.peak \in Nat
<1>1. slots[i] \in Seq(Result) /\ Len(slots[i]) \in {0, 1}
  BY DEF TypeInv
<1>2. slots[i][1] \in Result
  BY <1>1
<1>3. QED
  BY <1>2 DEF Result, Bounded, Report

\* No slot is filled before the workers begin.
LEMMA SlotInit == Init => SlotInv
BY DEF Init, SlotInv, Filled

\* A step that fills no slot.
LEMMA SlotKept ==
    ASSUME TypeInv, SlotInv, slots' = slots, parts' = parts, peak <= peak', peak' \in Nat
    PROVE  SlotInv'
<1> SUFFICES ASSUME NEW i \in 1..Len(parts), slots[i] # << >> PROVE Filled(i)'
  BY DEF SlotInv, Filled
<1>1. Filled(i)
  BY DEF SlotInv
<1>2. UnreadableParts' = UnreadableParts
  BY DEF UnreadableParts
<1> DEFINE p == slots[i][1].report.peak
<1>3. p \in Nat /\ peak \in Nat
  BY SlotTyped DEF TypeInv
<1>4. p <= peak => p <= peak'
  <2> HIDE DEF p
  <2>1. QED
    BY <1>3
<1>5. QED
  BY <1>1, <1>2, <1>4 DEF Filled

\* A worker fills the slot of its partition.
LEMMA SlotPublish ==
    ASSUME TypeInv, OwnerInv, SlotInv, NEW w \in Workers, NEW result, Busy(w), Publish(w, result),
           result.err = "none" =>
             result.report = Traversal(Batches(w)) /\ result.report.peak <= peak /\ job[w] \notin UnreadableParts,
           result.err = "reader" => job[w] \in UnreadableParts
    PROVE  SlotInv'
<1>1. slots' = [slots EXCEPT ![job[w]] = <<result>>] /\ parts' = parts /\ peak' = peak
  BY DEF Publish
<1>2. job[w] \in 1..Len(parts) /\ DOMAIN slots = 1..Len(parts)
  BY BatchesTyped DEF TypeInv
<1>3. UnreadableParts' = UnreadableParts
  BY <1>1 DEF UnreadableParts
<1>4. SUFFICES ASSUME NEW i \in 1..Len(parts) PROVE Filled(i)'
  BY <1>1 DEF SlotInv
<1>5. CASE i = job[w]
  <2>1. slots'[i][1] = result
    BY <1>1, <1>2, <1>5
  <2>2. parts'[i] = Batches(w)
    BY <1>1, <1>5 DEF Batches
  <2>3. QED
    BY <1>1, <1>3, <1>5, <2>1, <2>2 DEF Filled
<1>6. CASE i # job[w]
  <2>1. slots'[i] = slots[i]
    BY <1>1, <1>2, <1>6
  <2>2. QED
    BY <1>1, <1>3, <2>1 DEF Filled, SlotInv
<1>7. QED
  BY <1>5, <1>6

\* The slots' invariant is kept.
LEMMA SlotStep ==
    ASSUME TypeInv, OwnerInv, ProgressInv, SlotInv, MemoryInv, peak <= peak', TypeInv', [Next]_vars
    PROVE  SlotInv'
<1>0. peak' \in Nat
  BY DEF TypeInv
<1>1. ASSUME NEW w \in Workers, FinishPartition(w) PROVE SlotInv'
  <2> DEFINE own == Batches(w)
  <2>1. Busy(w) /\ pc[w] = "read" /\ batch[w] > Len(own) /\ Publish(w, Success(part[w]))
    BY <1>1 DEF FinishPartition, Busy
  <2>2. /\ batch[w] \in 1..Len(own) + 1 /\ part[w] = Before(w)
        /\ \A b \in 1..batch[w] - 1 : ~own[b].fails
    BY <2>1 DEF ProgressInv, Progress
  <2>3. own \in Seq(Batch) /\ job[w] \in 1..Len(parts) /\ Len(own) \in Nat
    BY <2>1, BatchesTyped
  <2>4. batch[w] - 1 = Len(own)
    BY <2>1, <2>2, <2>3
  <2>5. Before(w) = Traversal(SubSeq(own, 1, Len(own)))
    BY <2>4 DEF Before
  <2>6. job[w] \notin UnreadableParts
    <3>1. parts[job[w]] = own /\ \A b \in DOMAIN own : ~own[b].fails
      BY <2>2, <2>3, <2>4 DEF Batches
    <3> HIDE DEF own
    <3>2. QED
      BY <3>1 DEF UnreadableParts
  <2>7. part[w] = Traversal(own)
    <3> HIDE DEF own
    <3>1. QED
      BY <2>2, <2>3, <2>5, TraversalIsFold, Scan!FoldEnds
  <2>8. part[w].peak <= peak
    <3> DEFINE c == Charges
               m == Cardinality(Held(c))
               k == c[w]
    <3>1. c \in [Workers -> 0..FindingLimit] /\ k = part[w].peak
      BY <2>1, ChargesTyped
    <3>2. m <= peak /\ peak \in Nat
      BY UsedIsHeld DEF MemoryInv, TypeInv
    <3>3. m \in Nat
      BY HeldFinite
    <3>4. k \in Nat
      BY <3>1, LimitsAssumption
    <3> HIDE DEF c
    <3>5. k <= m
      BY <3>1, HeldCovers
    <3> HIDE DEF m, k
    <3>6. k <= peak
      BY <3>2, <3>3, <3>4, <3>5
    <3>7. QED
      BY <3>1, <3>6
  <2>9. /\ Success(part[w]).err = "none" /\ Success(part[w]).report = part[w]
    BY DEF Success
  <2>10. QED
    BY <2>1, <2>6, <2>7, <2>8, <2>9, SlotPublish
<1>2. ASSUME NEW w \in Workers, FailPartition(w) PROVE SlotInv'
  <2>1. /\ Busy(w) /\ batch[w] \in 1..Len(Batches(w)) + 1 /\ batch[w] <= Len(Batches(w))
    BY <1>2 DEF FailPartition, Busy, ProgressInv, Progress
  <2>2. CASE Publish(w, Failure("cancelled"))
    BY <2>1, <2>2, SlotPublish DEF Failure
  <2>3. CASE Current(w).fails /\ Publish(w, Failure("reader"))
    <3>1. /\ batch[w] \in DOMAIN parts[job[w]] /\ job[w] \in DOMAIN parts
      <4>1. Batches(w) \in Seq(Batch) /\ job[w] \in 1..Len(parts) /\ parts \in Seq(Seq(Batch))
        BY <2>1, BatchesTyped
      <4>2. batch[w] \in 1..Len(Batches(w))
        BY <2>1, <4>1
      <4>3. batch[w] \in DOMAIN Batches(w)
        BY <4>1, <4>2
      <4>4. QED
        BY <4>1, <4>3 DEF Batches
    <3>2. job[w] \in UnreadableParts
      BY <2>3, <3>1 DEF UnreadableParts, Current, Batches
    <3>3. QED
      BY <2>1, <2>3, <3>2, SlotPublish DEF Failure
  <2>4. QED
    BY <1>2, <2>2, <2>3 DEF FailPartition
<1>3. ASSUME NEW w \in Workers, RefuseFinding(w) PROVE SlotInv'
  <2>1. Busy(w) /\ Publish(w, Failure("limit"))
    BY <1>3 DEF RefuseFinding, Busy
  <2>2. QED
    BY <2>1, SlotPublish DEF Failure
<1>4. ASSUME UNCHANGED <<parts, slots>> PROVE SlotInv'
  BY <1>0, <1>4, SlotKept
<1>5. ASSUME NEW w \in Workers,
             Take(w) \/ End(w) \/ ReadBatch(w) \/ RecordFinding(w) \/ EndBatch(w)
      PROVE  SlotInv'
  BY <1>4, <1>5 DEF Take, End, ReadBatch, RecordFinding, EndBatch
<1>6. CASE Collect \/ Cancel \/ UNCHANGED vars
  BY <1>4, <1>6 DEF Collect, Cancel, vars
<1>7. QED
  BY <1>1, <1>2, <1>3, <1>5, <1>6 DEF Next, Work

-----------------------------------------------------------------------------
(* The caller's outcome *)

\* The merge depends on nothing but the slots.
LEMMA MergedKept ==
    ASSUME slots' = slots
    PROVE  Merged' = Merged
<1>1. MergedReport' = MergedReport
  BY MergedIsFold, MergedIsFoldNext
<1>2. QED
  BY <1>1 DEF Merged

\* The caller keeps the outcome that the slots give.
LEMMA OutcomeStep ==
    ASSUME TypeInv, QueueInv, OutcomeInv, [Next]_vars
    PROVE  OutcomeInv'
<1>1. ASSUME NEW w \in Workers, Work(w) PROVE OutcomeInv'
  <2>1. pc[w] # "ended" /\ outcome' = outcome
    BY <1>1 DEF Work, Take, End, FinishPartition, FailPartition, ReadBatch, RecordFinding,
               RefuseFinding, EndBatch, Publish
  <2>2. ~Done'
    BY <2>1, CallerWaits DEF Done
  <2>3. QED
    BY <2>2 DEF OutcomeInv
<1>2. CASE Collect
  BY <1>2, MergedKept DEF Collect, OutcomeInv
<1>3. CASE Cancel \/ UNCHANGED vars
  BY <1>3, MergedKept DEF Cancel, vars, OutcomeInv, Done
<1>4. QED
  BY <1>1, <1>2, <1>3 DEF Next

-----------------------------------------------------------------------------
(* The theorems *)

\* The initial states satisfy the inductive invariant.
LEMMA InvInit == Init => Inv
BY TypeInit, QueueInit, OwnerInit, ProgressInit, SlotInit, MemoryInit DEF Init, Inv, OutcomeInv, Done

\* Every step keeps the inductive invariant.
LEMMA InvStep == Inv /\ [Next]_vars => Inv'
<1> SUFFICES ASSUME Inv, [Next]_vars PROVE Inv'
  OBVIOUS
<1>1. TypeInv /\ QueueInv /\ OwnerInv /\ ProgressInv /\ SlotInv /\ MemoryInv /\ OutcomeInv
  BY DEF Inv
<1>2. TypeInv'
  BY <1>1, TypeStep
<1>3. QueueInv' /\ OwnerInv' /\ ProgressInv' /\ OutcomeInv'
  BY <1>1, QueueStep, OwnerStep, ProgressStep, OutcomeStep
<1>4. MemoryInv' /\ peak <= peak'
  BY <1>1, <1>2, MemoryStep
<1>5. SlotInv'
  BY <1>1, <1>2, <1>4, SlotStep
<1>6. QED
  BY <1>2, <1>3, <1>4, <1>5 DEF Inv

\* The inductive invariant holds in every reachable state of
\* execute_independent_partitions.
THEOREM InvHolds == Spec => []Inv
<1>1. QED
  BY InvInit, InvStep, PTL DEF Spec

\* The outcome of a caller that has a report: every partition has one.
LEMMA OutcomeFacts ==
    ASSUME Inv, Done
    PROVE  /\ outcome[1] = Merged
           /\ outcome[1].err = "none" =>
                /\ outcome[1].report = MergedReport
                /\ \A i \in 1..Len(parts) :
                     /\ slots[i] # << >> /\ slots[i][1].report = Traversal(parts[i])
                     /\ slots[i][1].report.peak <= peak /\ i \notin UnreadableParts
                     /\ slots[i][1].report \in Scanned
<1>1. outcome = <<Merged>>
  BY DEF Inv, OutcomeInv
<1>2. outcome[1] = Merged
  BY <1>1
<1>3. TypeInv /\ SlotInv /\ Len(slots) = Len(parts) /\ parts \in Seq(Seq(Batch))
  BY LimitsAssumption DEF Inv, TypeInv
<1>4. ASSUME Merged.err = "none", NEW i \in 1..Len(parts)
      PROVE  /\ slots[i] # << >> /\ slots[i][1].report = Traversal(parts[i])
             /\ slots[i][1].report.peak <= peak /\ i \notin UnreadableParts
             /\ slots[i][1].report \in Scanned
  <2>1. slots[i] # << >> /\ slots[i][1].err = "none"
    BY <1>3, <1>4, MergedFacts
  <2>2. parts[i] \in Seq(Batch)
    BY <1>3
  <2>3. Traversal(parts[i]) \in Scanned
    BY <2>2, TraversalScanned
  <2>4. QED
    BY <1>3, <2>1, <2>3 DEF SlotInv, Filled
<1>5. QED
  BY <1>2, <1>3, <1>4, MergedFacts

\* The report of a successful parallel validation is that of one ordered
\* traversal, for every number of workers, every order in which they finish and
\* all limits (merge_reports).
THEOREM ReportIsSequentialHolds == Spec => []ReportIsSequential
<1>1. Inv => ReportIsSequential
  <2> SUFFICES ASSUME Inv, Done, outcome[1].err = "none"
               PROVE  WithoutPeak(outcome[1].report) = WithoutPeak(Traversal(Sequence))
    BY DEF ReportIsSequential
  <2> DEFINE a == outcome[1].report
             b == Traversal(Sequence)
  <2>1. /\ a = MergedReport /\ Len(slots) = Len(parts) /\ slots \in Seq(Seq(Result))
        /\ parts \in Seq(Seq(Batch))
        /\ \A i \in 1..Len(slots) : slots[i][1].report = Traversal(parts[i])
    BY OutcomeFacts, LimitsAssumption DEF Inv, TypeInv
  <2>2. a \in Bounded /\ Same(a, b)
    BY <2>1, MergeIsTraversal, MergedIsFold DEF Sequence
  <2>3. b \in Scanned
    <3>1. Sequence \in Seq(Batch)
      BY <2>1, FlattenIs, Scan!FlattenType DEF Sequence
    <3>2. QED
      BY <3>1, TraversalScanned
  <2> HIDE DEF a, b
  <2>4. a \in Report /\ b \in Report
    BY <2>2, <2>3 DEF Bounded, Scanned
  <2>5. WithoutPeak(a) \in Report /\ WithoutPeak(b) \in Report
    BY <2>4, FieldSet DEF WithoutPeak
  <2>6. Same(WithoutPeak(a), WithoutPeak(b)) /\ WithoutPeak(a).peak = WithoutPeak(b).peak
    BY <2>2, <2>4 DEF WithoutPeak, Same, Report
  <2>7. WithoutPeak(a) = WithoutPeak(b)
    BY <2>5, <2>6, ReportEqual
  <2>8. QED
    BY <2>7 DEF a, b
<1>2. QED
  BY <1>1, InvHolds, PTL

\* A dataset with an unreadable batch never gets a report, and the reader's
\* error is not shown when a partition before it failed (merge of the slots).
THEOREM UnreadableNeverPassesHolds == Spec => []UnreadableNeverPasses
<1>1. Inv => UnreadableNeverPasses
  <2> SUFFICES ASSUME Inv, Done, UnreadableParts # {}
               PROVE  /\ outcome[1].err # "none"
                      /\ outcome[1].err = "reader" =>
                           \A i \in 1..(Min(UnreadableParts) - 1) : slots[i][1].err = "none"
    BY DEF UnreadableNeverPasses
  <2>1. parts \in Seq(Seq(Batch)) /\ TypeInv /\ SlotInv /\ Len(slots) = Len(parts)
    BY LimitsAssumption DEF Inv, TypeInv
  <2>2. UnreadableParts \subseteq 1..Len(parts)
    BY <2>1 DEF UnreadableParts
  <2>3. outcome[1].err # "none"
    BY <2>2, OutcomeFacts
  <2>4. ASSUME outcome[1].err = "reader", NEW i \in 1..(Min(UnreadableParts) - 1)
        PROVE  slots[i][1].err = "none"
    <3>1. PICK m \in 1..Len(slots) :
            /\ slots[m] # << >> /\ slots[m][1].err = "reader"
            /\ \A j \in 1..m - 1 : slots[j] # << >> /\ slots[j][1].err = "none"
      BY <2>1, <2>4, OutcomeFacts, MergedFacts
    <3>2. m \in UnreadableParts
      BY <2>1, <3>1 DEF SlotInv, Filled
    <3> DEFINE first == Min(UnreadableParts)
    <3>3. first <= m /\ first \in Nat
      <4>1. UnreadableParts \in SUBSET Nat
        BY <2>2
      <4>2. QED
        BY <2>2, <3>2, <4>1, LeastIndex
    <3>4. i \in 1..m - 1
      <4> HIDE DEF first
      <4>1. i \in 1..first - 1
        BY <2>4 DEF first
      <4>2. QED
        BY <3>1, <3>3, <4>1
    <3>5. QED
      BY <3>1, <3>4
  <2>5. QED
    BY <2>3, <2>4
<1>2. QED
  BY <1>1, InvHolds, PTL

\* No partition is lost and none is scanned twice (the shared queue and the
\* slots); the state is well formed.
THEOREM OneScanEachHolds == Spec => []OneScanEach
<1>1. Inv => TypeOK
  <2> SUFFICES ASSUME Inv PROVE TypeOK
    OBVIOUS
  <2>1. TypeInv /\ OwnerInv /\ ProgressInv /\ MemoryInv /\ parts \in Seq(Seq(Batch))
    BY LimitsAssumption DEF Inv, TypeInv
  <2>2. Range(queue) \subseteq DOMAIN parts /\ DOMAIN slots = DOMAIN parts
    <3>1. queue \in Seq(1..Len(parts)) /\ DOMAIN parts = 1..Len(parts)
      BY <2>1 DEF TypeInv
    <3>2. \A k \in DOMAIN queue : queue[k] \in DOMAIN parts
      BY <3>1
    <3>3. slots \in Seq(Seq(Result)) /\ Len(slots) = Len(parts)
      BY <2>1 DEF TypeInv
    <3>4. DOMAIN slots = DOMAIN parts
      BY <2>1, <3>3
    <3>5. QED
      BY <3>2, <3>4 DEF Range
  <2>3. \A i \in DOMAIN slots : Len(slots[i]) \in {0, 1}
    BY <2>1 DEF TypeInv
  <2>4. ASSUME NEW w \in Workers, pc[w] \in {"read", "scan"}
        PROVE  /\ job[w] \in DOMAIN parts /\ batch[w] \in 1..(Len(Batches(w)) + 1)
               /\ Len(part[w].findings) <= FindingLimit
    <3>1. Busy(w)
      BY <2>4 DEF Busy
    <3>2. job[w] \in DOMAIN parts
      BY <2>1, <3>1, BatchesTyped
    <3>3. batch[w] \in 1..(Len(Batches(w)) + 1)
      BY <2>1, <3>1 DEF ProgressInv, Progress
    <3>4. part[w] \in Scanned
      BY <2>1 DEF TypeInv
    <3>5. QED
      BY <3>2, <3>3, <3>4 DEF Scanned
  <2>5. peak \in 0..MemoryCap
    <3>1. peak \in Nat /\ peak <= MemoryCap
      BY <2>1 DEF TypeInv, MemoryInv
    <3>2. QED
      BY <3>1, LimitsAssumption
  <2>6. QED
    BY <2>1, <2>2, <2>3, <2>4, <2>5 DEF TypeInv, TypeOK
<1>2. ASSUME Inv, Done PROVE \A i \in DOMAIN slots : slots[i] # << >>
  <2>1. QueueInv /\ OwnerInv /\ TypeInv /\ parts \in Seq(Seq(Batch))
    BY <1>2, LimitsAssumption DEF Inv, TypeInv
  <2>2. queue = << >> /\ \A w \in Workers : ~Busy(w)
    BY <1>2, <2>1 DEF QueueInv, Busy
  <2>3. Taken = 1..Len(parts) /\ DOMAIN slots = 1..Len(parts)
    BY <2>1, <2>2 DEF Taken, TypeInv
  <2>4. QED
    BY <2>1, <2>2, <2>3 DEF OwnerInv
<1>3. ASSUME Inv, NEW i \in DOMAIN parts
      PROVE  LET with == {w \in Workers : pc[w] \in {"read", "scan"} /\ job[w] = i} IN
             Cardinality(with) + Cardinality({k \in DOMAIN queue : queue[k] = i})
                 + Len(slots[i]) = 1
  <2> DEFINE with == {w \in Workers : pc[w] \in {"read", "scan"} /\ job[w] = i}
             places == {k \in DOMAIN queue : queue[k] = i}
             free == Len(parts) - Len(queue)
  <2>1. QueueInv /\ OwnerInv /\ TypeInv /\ parts \in Seq(Seq(Batch)) /\ queue \in Seq(1..Len(parts))
    BY <1>3, LimitsAssumption DEF Inv, TypeInv
  <2>2. /\ i \in 1..Len(parts) /\ Len(parts) \in Nat /\ Len(queue) \in Nat /\ free \in Nat
        /\ DOMAIN queue = 1..Len(queue) /\ Len(queue) <= Len(parts)
    BY <2>1 DEF QueueInv
  <2>3. with = {w \in Workers : Busy(w) /\ job[w] = i}
    BY DEF Busy
  <2>4. Taken = 1..free
    BY DEF Taken
  <2>5. \A k \in 1..Len(queue) : queue[k] = free + k
    BY <2>1 DEF QueueInv
  <2>6. Len(slots[i]) = IF slots[i] = << >> THEN 0 ELSE 1
    <3>1. slots[i] \in Seq(Result) /\ Len(slots[i]) \in {0, 1}
      BY <2>1, <2>2, SMTT(30) DEF TypeInv
    <3> DEFINE s == slots[i]
    <3> HIDE DEF s
    <3>2. s \in Seq(Result) /\ Len(s) \in {0, 1}
      BY <3>1 DEF s
    <3>3. Len(s) = IF s = << >> THEN 0 ELSE 1
      BY <3>2
    <3>4. QED
      BY <3>3 DEF s
  <2> DEFINE a == Cardinality(with)
             b == Cardinality(places)
             c == Len(slots[i])
  <2> SUFFICES a + b + c = 1
    OBVIOUS
  <2>7. CASE i \in Taken
    <3>1. places = {}
      <4>1. \A k \in 1..Len(queue) : queue[k] # i
        BY <2>2, <2>4, <2>5, <2>7
      <4>2. QED
        BY <2>2, <4>1
    <3>2. CASE slots[i] # << >>
      <4>1. with = {}
        BY <2>1, <2>3, <3>2 DEF OwnerInv
      <4>2. a = 0 /\ b = 0 /\ c = 1
        BY <2>6, <3>1, <3>2, <4>1, FS_EmptySet
      <4> HIDE DEF a, b, c
      <4>3. QED
        BY <4>2
    <3>3. CASE slots[i] = << >>
      <4>1. PICK w \in Workers : Busy(w) /\ job[w] = i
        BY <2>1, <2>7, <3>3 DEF OwnerInv
      <4>2. with = {w}
        BY <2>1, <2>3, <4>1 DEF OwnerInv
      <4>3. Cardinality(with) = 1
        BY <4>2, FS_Singleton
      <4>4. a = 1 /\ b = 0 /\ c = 0
        BY <2>6, <3>1, <3>3, <4>3, FS_EmptySet
      <4> HIDE DEF a, b, c
      <4>5. QED
        BY <4>4
    <3>4. QED
      BY <3>2, <3>3
  <2>8. CASE i \notin Taken
    <3> DEFINE k == i - free
    <3>1. k \in 1..Len(queue) /\ \A j \in 1..Len(queue) : free + j = i <=> j = k
      BY <2>2, <2>4, <2>8
    <3>2. places = {k}
      BY <2>2, <2>5, <3>1
    <3>3. Cardinality(places) = 1
      BY <3>2, FS_Singleton
    <3>4. with = {}
      BY <2>1, <2>3, <2>8 DEF OwnerInv
    <3>5. slots[i] = << >>
      BY <2>1, <2>2, <2>8 DEF OwnerInv
    <3>6. a = 0 /\ b = 1 /\ c = 0
      BY <2>6, <3>3, <3>4, <3>5, FS_EmptySet
    <3> HIDE DEF a, b, c
    <3>7. QED
      BY <3>6
  <2>9. QED
    BY <2>7, <2>8
<1>4. Inv => OneScanEach
  BY <1>1, <1>2, <1>3 DEF OneScanEach
<1>5. QED
  BY <1>4, InvHolds, PTL

\* The workers' findings stay inside the root's budget, the peak covers them,
\* and nothing is charged once the caller has its outcome (reserve_finding).
THEOREM MemoryAccountedHolds == Spec => []MemoryAccounted
<1>1. ASSUME Inv, Done PROVE MemoryUsed = 0
  <2>1. \A w \in Workers : pc[w] = "ended"
    BY <1>1 DEF Inv, QueueInv
  <2>2. \A w \in Workers : Charged(w) = 0
    BY <2>1 DEF Charged
  <2>3. Held(Charges) = {}
    BY <2>2, LimitsAssumption DEF Held, Charges
  <2>4. QED
    BY <2>3, UsedIsHeld, FS_EmptySet
<1>2. Inv => MemoryAccounted
  BY <1>1 DEF Inv, MemoryInv, MemoryAccounted
<1>3. QED
  BY <1>2, InvHolds, PTL

\* The peak of a merged report is one the root account has seen, and it covers
\* the findings of every partition (merge_reports takes the largest).
THEOREM PeakWasReachedHolds == Spec => []PeakWasReached
<1>1. Inv => PeakWasReached
  <2> SUFFICES ASSUME Inv, Done, outcome[1].err = "none"
               PROVE  /\ outcome[1].report.peak <= peak
                      /\ \A i \in DOMAIN slots :
                           Len(slots[i][1].report.findings) <= outcome[1].report.peak
    BY DEF PeakWasReached
  <2>1. /\ outcome[1].report = Slot!Fold(NoReport, slots)
        /\ slots \in Seq(Seq(Result)) /\ peak \in Nat /\ DOMAIN slots = 1..Len(slots)
        /\ \A i \in 1..Len(slots) : /\ slots[i][1].report \in Scanned
                                    /\ slots[i][1].report.peak <= peak
    BY OutcomeFacts, MergedIsFold DEF Inv, TypeInv
  <2>2. \A i \in 1..Len(slots) : /\ slots[i][1].report \in Bounded
                                 /\ slots[i][1].report.peak = Len(slots[i][1].report.findings)
    BY <2>1 DEF Scanned, Bounded
  <2>3. QED
    BY <2>1, <2>2, MergePeak
<1>2. QED
  BY <1>1, InvHolds, PTL

===============================================================================
