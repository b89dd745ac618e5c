--------------------------- MODULE ReferencesProofs ---------------------------
(***************************************************************************)
(* Proofs about rules on other datasets, for every contract, every set of  *)
(* bound datasets, every subject and every limit.                          *)
(*                                                                         *)
(* A reader delivers a dataset batch by batch; what has been read of it is *)
(* a prefix of all its rows.  So the keys, rows and fingerprint that a     *)
(* scan is sealed with are those of the whole dataset, and the keys that a *)
(* rule collects are those of the rows read so far.  Each violation is     *)
(* counted when its row is read, its rule finished or its ratio compared.  *)
(***************************************************************************)
EXTENDS References, FiniteSetTheorems, SequenceTheorems,
        WellFoundedInduction, NaturalsInduction, TLAPS

Rec == INSTANCE SequenceFolds WITH Op <- RecordLazy

-----------------------------------------------------------------------------
(* What the reader has delivered after some of its batches *)

RowLists(d) == [i \in DOMAIN d.batches |-> d.batches[i].rows]
Upto(d, k) == FlattenSeq(SubSeq(RowLists(d), 1, k))

\* What a scan of all of a bound dataset is sealed as.
SealedOf(name, columns) ==
    LET d == BoundTo(name)
    IN [keys |-> EncodedKeys(d, AllRows(d), columns), rows |-> Len(AllRows(d)),
        fingerprint |-> <<d.types, AllRows(d)>>]

\* The key of a row of the subject for a rule.
OurKey(i, r) == EncodeKey(job.subject, AllRows(job.subject)[r], job.plans[i].local)

\* The keys a rule has collected from the first n rows.
LocalUpto(i, n) ==
    {[key |-> OurKey(i, r), row |-> r - 1] : r \in {q \in 1..n : OurKey(i, q) # <<>>}}

OutcomeOf(i) ==
    [reference |-> job.plans[i].reference,
     fingerprint |-> SealedOf(job.plans[i].reference, job.plans[i].columns).fingerprint,
     rows |-> SealedOf(job.plans[i].reference, job.plans[i].columns).rows,
     keys |-> Cardinality(Theirs(i)),
     checked |-> Cardinality(Ours(i)),
     missing |-> Cardinality(Ours(i) \ Theirs(i))]

RejectionsUpto(n) == {p \in Rejections : p[2] <= n}
AbsencesUpto(n) == {p \in Absences : p[1] <= n}
BrokenUpto(n) == {i \in BrokenDeltas : i <= n}

\* A finding that is about a row of the subject, or about the number of rows.
RealRow(i, r) ==
    /\ r + 1 \in 1..Len(AllRows(job.subject))
    /\ \/ r + 1 \in Rejected(i)
       \/ /\ OurKey(i, r + 1) \in Ours(i) \ Theirs(i)
          /\ \A q \in 1..r : OurKey(i, q) # OurKey(i, r + 1)
RealFindings ==
    {f \in [rule : Nat, row : Int] :
        f.rule # 0 => f.rule \in DOMAIN job.plans /\ RealRow(f.rule, f.row)}

-----------------------------------------------------------------------------
(* The inductive invariant *)

Before == {"bind", "count", "drain", "prepare", "scan"}
After == {"subject", "finish", "compare", "done"}

ScannedNames == {key[1] : key \in DOMAIN scanned}
Current == IF pc = "drain" THEN {Delta.reference} ELSE IF pc = "scan" THEN {Plan.reference} ELSE {}
Distinct(n) == \A i, k \in 1..n : job.bound[i].name = job.bound[k].name => i = k

TypeInv ==
    /\ job \in Jobs
    /\ rule \in Nat \ {0} /\ batch \in Nat \ {0}
    /\ pc \in Before \cup After \cup {"failed"}
    /\ "rows" \in DOMAIN scan

\* A name is bound to a dataset that the caller bound to it, and to one only.
BindInv ==
    /\ \A n \in DOMAIN bindings : \E i \in DOMAIN job.bound :
        job.bound[i].name = n /\ bindings[n] = job.bound[i].dataset
    /\ pc = "bind" =>
        /\ rule \in 1..Len(job.bound) + 1
        /\ DOMAIN bindings = {job.bound[i].name : i \in 1..rule - 1}
        /\ Distinct(rule - 1)
        /\ DOMAIN counted = {} /\ DOMAIN scanned = {}
    /\ pc \notin {"bind", "failed"} => Distinct(Len(job.bound))

\* A dataset is bound, being read, or has been read for a rule that names it; the
\* subject comes when all have been read.
NamesInv ==
    /\ DOMAIN counted \cup ScannedNames \subseteq UsedNames \cap BoundNames
    /\ pc \in {"count", "drain", "prepare", "scan"} =>
        BoundNames \subseteq DOMAIN bindings \cup DOMAIN counted \cup ScannedNames \cup Current
    /\ pc \in {"count", "drain"} =>
        /\ rule \in 1..Len(job.deltas) + 1
        /\ \A i \in 1..rule - 1 : job.deltas[i].reference \in DOMAIN counted
    /\ pc = "drain" => rule \in DOMAIN job.deltas /\ Delta.reference \in BoundNames
    /\ pc \in {"prepare", "scan"} \cup After =>
        \A i \in DOMAIN job.deltas : job.deltas[i].reference \in DOMAIN counted
    /\ pc \in {"prepare", "scan"} => rule \in 1..Len(job.plans) + 1 /\ Len(prepared) = rule - 1
    /\ pc = "scan" => rule \in DOMAIN job.plans /\ Plan.reference \in BoundNames
    /\ pc \in After => BoundNames = UsedNames /\ Len(prepared) = Len(job.plans)

\* Each rule has the scan of its dataset and key columns.
PreparedInv ==
    /\ IsSequence(prepared) /\ Len(prepared) <= Len(job.plans)
    /\ pc \in {"bind", "count", "drain"} => Len(prepared) = 0
    /\ \A i \in 1..Len(prepared) :
        /\ ReferenceCacheKey(job.plans[i]) \in DOMAIN scanned
        /\ prepared[i] = scanned[ReferenceCacheKey(job.plans[i])]

\* What was read of a dataset, and what is being read.
ReadInv ==
    /\ \A n \in DOMAIN counted : counted[n] = Len(AllRows(BoundTo(n)))
    /\ \A k \in DOMAIN scanned : k = <<k[1], k[2]>> /\ scanned[k] = SealedOf(k[1], k[2])
    /\ pc \in {"drain", "scan", "subject"} => batch \in 1..Len(reader.batches) + 1
    /\ pc = "drain" => reader = BoundTo(Delta.reference) /\ scan.rows = Len(Upto(reader, batch - 1))
    /\ pc = "scan" =>
        /\ reader = BoundTo(Plan.reference)
        /\ scan = [keys |-> EncodedKeys(reader, Upto(reader, batch - 1), Plan.columns),
                   rows |-> Len(Upto(reader, batch - 1)),
                   read |-> Upto(reader, batch - 1)]
    /\ pc = "subject" => reader = job.subject /\ scan.rows = Len(Upto(reader, batch - 1))
    /\ pc \in {"finish", "compare", "done"} => scan.rows = Len(AllRows(job.subject))

\* The keys of the rules are those of the rows read so far.
LocalInv ==
    /\ pc \in Before => local = [i \in DOMAIN job.plans |-> {}]
    /\ pc \in After => local = [i \in DOMAIN job.plans |-> LocalUpto(i, scan.rows)]

\* The report is well formed, its findings are real, and its list is as full as it can be.
ReportInv ==
    /\ report = [violations |-> report.violations, findings |-> report.findings,
                 outcomes |-> report.outcomes]
    /\ report.violations \in Nat
    /\ report.findings \in Seq(RealFindings)
    /\ Len(report.findings) = Min({FindingLimit, report.violations})
    /\ Len(report.outcomes) \in 0..Len(job.plans)
    /\ report.outcomes = [i \in 1..Len(report.outcomes) |-> OutcomeOf(i)]

\* Each violation has been counted once.
CountInv ==
    /\ pc \in Before => report = NoReport
    /\ pc = "subject" =>
        /\ Len(report.outcomes) = 0
        /\ report.violations = Cardinality(RejectionsUpto(scan.rows))
    /\ pc = "finish" =>
        /\ rule \in 1..Len(job.plans) + 1
        /\ Len(report.outcomes) = rule - 1
        /\ report.violations = Cardinality(Rejections) + Cardinality(AbsencesUpto(rule - 1))
    /\ pc \in {"compare", "done"} =>
        /\ Len(report.outcomes) = Len(job.plans)
        /\ pc = "compare" => rule \in 1..Len(job.deltas) + 1
        /\ report.violations = (Cardinality(Rejections) + Cardinality(Absences))
             + Cardinality(IF pc = "compare" THEN BrokenUpto(rule - 1) ELSE BrokenDeltas)

Inv ==
    /\ TypeInv /\ BindInv /\ NamesInv /\ PreparedInv /\ ReadInv /\ LocalInv
    /\ ReportInv /\ CountInv

-----------------------------------------------------------------------------
(* Numbers, sets and sequences *)

\* The smaller of two numbers.
LEMMA MinOfTwo ==
    ASSUME NEW m \in Int, NEW n \in Int
    PROVE  Min({m, n}) = IF m <= n THEN m ELSE n
BY DEF Min

\* A set of numbers that is not empty has a least one.
LEMMA LeastExists ==
    ASSUME NEW S \in SUBSET Nat, S # {}
    PROVE  Min(S) \in S /\ \A y \in S : Min(S) <= y
<1>1. PICK x \in S : \A y \in S : <<y, x>> \notin OpToRel(<, Nat)
  BY NatLessThanWellFounded, WFMin
<1>2. \A y \in S : ~ (y < x)
  BY <1>1 DEF OpToRel
<1>3. \A y \in S : x <= y
  BY <1>2
<1>4. QED
  BY <1>3 DEF Min

\* The sequence of the members of a finite set.
LEMMA SequenceOfSet ==
    ASSUME NEW S, IsFiniteSet(S)
    PROVE  SetToSeq(S) \in Seq(S) /\ Len(SetToSeq(S)) = Cardinality(S)
<1> DEFINE n == Cardinality(S)
<1>1. n \in Nat /\ ExistsBijection(1..n, S)
  BY FS_CardinalityType
<1>2. \E f \in [1..n -> S] : IsInjective(f)
  BY <1>1 DEF ExistsBijection, Bijection, Injection, IsInjective
<1>3. SetToSeq(S) \in [1..n -> S]
  BY <1>2 DEF SetToSeq
<1>4. QED
  BY <1>1, <1>3

\* Moving a set of numbers does not change how many there are.
LEMMA MovedSet ==
    ASSUME NEW K \in SUBSET Int, IsFiniteSet(K), NEW n \in Int
    PROVE  /\ IsFiniteSet({n + q : q \in K})
           /\ Cardinality({n + q : q \in K}) = Cardinality(K)
<1> DEFINE T == {n + q : q \in K}
           f == [q \in K |-> n + q]
<1>1. f \in Bijection(K, T)
  BY DEF Bijection, Injection, Surjection, IsInjective
<1>2. QED
  BY <1>1, FS_Bijection DEF ExistsBijection

\* Two finite sets without a common member.
LEMMA DisjointUnion ==
    ASSUME NEW S, NEW T, IsFiniteSet(S), IsFiniteSet(T), S \cap T = {}
    PROVE  IsFiniteSet(S \cup T) /\ Cardinality(S \cup T) = Cardinality(S) + Cardinality(T)
<1>1. Cardinality(S) \in Nat /\ Cardinality(T) \in Nat /\ Cardinality(S \cap T) = 0
  BY FS_CardinalityType, FS_EmptySet
<1>2. /\ IsFiniteSet(S \cup T)
      /\ Cardinality(S \cup T) = Cardinality(S) + Cardinality(T) - Cardinality(S \cap T)
  BY FS_Union
<1>3. QED
  BY <1>1, <1>2

\* The elements of a sequence, and the sequence of some elements.
LEMMA SeqElements ==
    ASSUME NEW S, NEW s \in Seq(S)
    PROVE  Len(s) \in Nat /\ DOMAIN s = 1..Len(s) /\ \A n \in 1..Len(s) : s[n] \in S
OBVIOUS

\* A function on 1..n is a sequence of length n.
LEMMA FunctionIsSeq ==
    ASSUME NEW S, NEW n \in Nat, NEW s \in [1..n -> S]
    PROVE  s \in Seq(S) /\ Len(s) = n
OBVIOUS

\* A sequence in the sense of the assumption is one of the members that it has.
LEMMA SequenceFacts ==
    ASSUME NEW s, IsSequence(s)
    PROVE  s \in Seq(Range(s)) /\ Len(s) \in Nat /\ DOMAIN s = 1..Len(s)
BY DEF IsSequence

\* What the assumption says of the contract and the bound datasets of a job.
LEMMA JobFacts ==
    ASSUME job \in Jobs
    PROVE  /\ FindingLimit \in Nat
           /\ Len(job.plans) \in Nat /\ DOMAIN job.plans = 1..Len(job.plans)
           /\ Len(job.deltas) \in Nat /\ DOMAIN job.deltas = 1..Len(job.deltas)
           /\ Len(job.bound) \in Nat /\ DOMAIN job.bound = 1..Len(job.bound)
           /\ IsDataset(job.subject)
           /\ \A i \in DOMAIN job.bound : IsDataset(job.bound[i].dataset)
           /\ \A i \in DOMAIN job.plans : job.plans[i].nulls \in {"skip", "reject"}
           /\ \A i \in DOMAIN job.deltas : job.deltas[i].min \in Int /\ job.deltas[i].max \in Int
<1>1. /\ IsSequence(job.plans) /\ IsSequence(job.deltas) /\ IsSequence(job.bound)
      /\ FindingLimit \in Nat
      /\ IsDataset(job.subject)
      /\ \A i \in DOMAIN job.bound : IsDataset(job.bound[i].dataset)
      /\ \A i \in DOMAIN job.plans : job.plans[i].nulls \in {"skip", "reject"}
      /\ \A i \in DOMAIN job.deltas : {job.deltas[i].min, job.deltas[i].max} \subseteq Int
  BY JobsAssumption
<1>2. QED
  BY <1>1, SequenceFacts

\* The columns of a rule.
LEMMA PlanFacts ==
    ASSUME job \in Jobs, NEW i \in DOMAIN job.plans
    PROVE  /\ Len(job.plans[i].local) \in Nat \ {0}
           /\ DOMAIN job.plans[i].local = 1..Len(job.plans[i].local)
<1>1. IsSequence(job.plans[i].local) /\ job.plans[i].local # <<>>
  BY JobsAssumption
<1> DEFINE s == job.plans[i].local
<1>2. s \in Seq(Range(s)) /\ Len(s) \in Nat /\ DOMAIN s = 1..Len(s) /\ s # <<>>
  BY <1>1, SequenceFacts
<1> HIDE DEF s
<1>3. Len(s) # 0
  BY <1>2
<1>4. QED
  BY <1>2, <1>3 DEF s

-----------------------------------------------------------------------------
(* What a reader has delivered *)

\* Flattening in the two modules is the same.
LEMMA FlattenIs ==
    ASSUME NEW ss
    PROVE  FlattenSeq(ss) = Rec!FlattenSeq(ss)
BY DEF FlattenSeq, Rec!FlattenSeq

\* So is counting.
LEMMA CardinalityIs ==
    ASSUME NEW S
    PROVE  (Rec!IsFiniteSet(S) <=> IsFiniteSet(S)) /\ Rec!Cardinality(S) = Cardinality(S)
BY DEF IsFiniteSet, Rec!IsFiniteSet, Cardinality, Rec!Cardinality

\* The batches of a dataset are lists of rows.
LEMMA RowListsType ==
    ASSUME NEW d, IsDataset(d)
    PROVE  /\ Len(d.batches) \in Nat /\ DOMAIN d.batches = 1..Len(d.batches)
           /\ \E S : RowLists(d) \in Seq(Seq(S))
           /\ Len(RowLists(d)) = Len(d.batches)
           /\ \A b \in 1..Len(d.batches) : RowLists(d)[b] = d.batches[b].rows
<1>1. Len(d.batches) \in Nat /\ DOMAIN d.batches = 1..Len(d.batches)
  BY SequenceFacts DEF IsDataset
<1>2. RowLists(d) = [b \in 1..Len(d.batches) |-> d.batches[b].rows]
  BY <1>1 DEF RowLists
<1> DEFINE S == UNION {Range(d.batches[b].rows) : b \in 1..Len(d.batches)}
<1>3. \A b \in 1..Len(d.batches) : d.batches[b].rows \in Seq(S)
  <2> SUFFICES ASSUME NEW b \in 1..Len(d.batches) PROVE d.batches[b].rows \in Seq(S)
    OBVIOUS
  <2> DEFINE s == d.batches[b].rows
  <2>1. s \in Seq(Range(s))
    BY <1>1, SequenceFacts DEF IsDataset
  <2>2. Range(s) \subseteq S
    OBVIOUS
  <2> HIDE DEF s, S
  <2>3. s \in Seq(S)
    BY <2>1, <2>2
  <2>4. QED
    BY <2>3 DEF s
<1> HIDE DEF S
<1>4. RowLists(d) \in Seq(Seq(S))
  BY <1>1, <1>2, <1>3
<1>5. QED
  BY <1>1, <1>2, <1>4

\* One more batch.
LEMMA UptoStep ==
    ASSUME NEW d, IsDataset(d), NEW k \in 1..Len(d.batches)
    PROVE  \E S : /\ Upto(d, k - 1) \in Seq(S)
                  /\ d.batches[k].rows \in Seq(S)
                  /\ Upto(d, k) = Upto(d, k - 1) \o d.batches[k].rows
<1>1. PICK S : RowLists(d) \in Seq(Seq(S))
  BY RowListsType
<1> DEFINE ss == RowLists(d)
           m == k - 1
<1>2. /\ ss \in Seq(Seq(S)) /\ m \in Nat /\ m < Len(ss) /\ m + 1 = k
      /\ ss[m + 1] = d.batches[k].rows
  BY <1>1, RowListsType
<1> HIDE DEF ss, m
<1>3. /\ Rec!FlattenSeq(SubSeq(ss, 1, m)) \in Seq(S)
      /\ ss[m + 1] \in Seq(S)
      /\ Rec!FlattenSeq(SubSeq(ss, 1, m + 1)) = Rec!FlattenSeq(SubSeq(ss, 1, m)) \o ss[m + 1]
  BY <1>2, Rec!FlattenStep
<1>4. QED
  BY <1>2, <1>3, FlattenIs DEF Upto, ss, m

\* No batch, and all of them.
LEMMA UptoEnds ==
    ASSUME NEW d, IsDataset(d)
    PROVE  Upto(d, 0) = <<>> /\ Upto(d, Len(d.batches)) = AllRows(d)
<1>1. PICK S : RowLists(d) \in Seq(Seq(S))
  BY RowListsType
<1>2. /\ Rec!FlattenSeq(SubSeq(RowLists(d), 1, 0)) = <<>>
      /\ Rec!FlattenSeq(SubSeq(RowLists(d), 1, Len(RowLists(d)))) = Rec!FlattenSeq(RowLists(d))
  BY <1>1, Rec!FlattenEnds
<1>3. AllRows(d) = FlattenSeq(RowLists(d))
  BY DEF AllRows, RowLists
<1>4. QED
  BY <1>2, <1>3, RowListsType, FlattenIs DEF Upto

\* What has been read is where the dataset begins.
LEMMA UptoPrefix ==
    ASSUME NEW d, IsDataset(d), NEW k \in 0..Len(d.batches)
    PROVE  /\ Len(Upto(d, k)) \in Nat /\ Len(AllRows(d)) \in Nat
           /\ DOMAIN Upto(d, k) = 1..Len(Upto(d, k))
           /\ DOMAIN AllRows(d) = 1..Len(AllRows(d))
           /\ Len(Upto(d, k)) <= Len(AllRows(d))
           /\ \A r \in 1..Len(Upto(d, k)) : AllRows(d)[r] = Upto(d, k)[r]
<1>1. PICK S : RowLists(d) \in Seq(Seq(S))
  BY RowListsType
<1>2. AllRows(d) = FlattenSeq(RowLists(d))
  BY DEF AllRows, RowLists
<1>3. k \in 0..Len(RowLists(d))
  BY RowListsType
<1>4. AllRows(d) \in Seq(S)
  BY <1>1, <1>2, FlattenIs, Rec!FlattenType
<1>5. /\ Upto(d, k) \in Seq(S)
      /\ Len(Upto(d, k)) <= Len(AllRows(d))
      /\ \A r \in 1..Len(Upto(d, k)) : AllRows(d)[r] = Upto(d, k)[r]
  BY <1>1, <1>2, <1>3, FlattenIs, Rec!FlattenPrefix DEF Upto
<1>6. QED
  BY <1>4, <1>5

\* Where the rows of a batch are in the dataset.
LEMMA BatchRows ==
    ASSUME NEW d, IsDataset(d), NEW k \in 1..Len(d.batches)
    PROVE  /\ Len(d.batches[k].rows) \in Nat
           /\ DOMAIN d.batches[k].rows = 1..Len(d.batches[k].rows)
           /\ Len(Upto(d, k)) = Len(Upto(d, k - 1)) + Len(d.batches[k].rows)
           /\ \A r \in 1..Len(d.batches[k].rows) :
                AllRows(d)[Len(Upto(d, k - 1)) + r] = d.batches[k].rows[r]
<1> DEFINE a == Upto(d, k - 1)
           b == d.batches[k].rows
           c == Upto(d, k)
<1>1. PICK S : a \in Seq(S) /\ b \in Seq(S) /\ c = a \o b
  BY UptoStep
<1>2. k \in 0..Len(d.batches)
  BY RowListsType
<1>3. \A r \in 1..Len(c) : AllRows(d)[r] = c[r]
  BY <1>2, UptoPrefix
<1> HIDE DEF a, b, c
<1>4. /\ Len(a) \in Nat /\ Len(b) \in Nat /\ DOMAIN b = 1..Len(b)
      /\ Len(c) = Len(a) + Len(b)
      /\ \A i \in 1..Len(a) + Len(b) : c[i] = IF i <= Len(a) THEN a[i] ELSE b[i - Len(a)]
  BY <1>1, ConcatProperties
<1>5. ASSUME NEW r \in 1..Len(b) PROVE AllRows(d)[Len(a) + r] = b[r]
  <2>1. Len(a) + r \in 1..Len(c) /\ ~ (Len(a) + r <= Len(a)) /\ (Len(a) + r) - Len(a) = r
    BY <1>4
  <2>2. QED
    BY <1>3, <1>4, <2>1
<1>6. QED
  BY <1>4, <1>5 DEF a, b, c

-----------------------------------------------------------------------------
(* Keys *)

\* The keys of rows that follow others.
LEMMA KeysConcat ==
    ASSUME NEW S, NEW a \in Seq(S), NEW b \in Seq(S), NEW d, NEW columns
    PROVE  EncodedKeys(d, a \o b, columns) = EncodedKeys(d, a, columns) \cup EncodedKeys(d, b, columns)
<1> DEFINE c == a \o b
           K(row) == EncodeKey(d, row, columns)
<1>1. /\ Len(a) \in Nat /\ Len(b) \in Nat /\ DOMAIN a = 1..Len(a) /\ DOMAIN b = 1..Len(b)
      /\ DOMAIN c = 1..Len(a) + Len(b)
      /\ \A i \in 1..Len(a) + Len(b) : c[i] = IF i <= Len(a) THEN a[i] ELSE b[i - Len(a)]
  BY ConcatProperties
<1> HIDE DEF c, K
<1>2. {K(c[i]) : i \in DOMAIN c} = {K(a[i]) : i \in DOMAIN a} \cup {K(b[i]) : i \in DOMAIN b}
  <2>1. ASSUME NEW i \in DOMAIN c
        PROVE  K(c[i]) \in {K(a[k]) : k \in DOMAIN a} \cup {K(b[k]) : k \in DOMAIN b}
    <3>1. CASE i <= Len(a)
      BY <1>1, <2>1, <3>1
    <3>2. CASE ~ (i <= Len(a))
      <4>1. i - Len(a) \in DOMAIN b /\ c[i] = b[i - Len(a)]
        BY <1>1, <2>1, <3>2
      <4>2. QED
        BY <4>1
    <3>3. QED
      BY <3>1, <3>2
  <2>2. ASSUME NEW i \in DOMAIN a PROVE K(a[i]) \in {K(c[k]) : k \in DOMAIN c}
    <3>1. i \in DOMAIN c /\ c[i] = a[i]
      BY <1>1, <2>2
    <3>2. QED
      BY <3>1
  <2>3. ASSUME NEW i \in DOMAIN b PROVE K(b[i]) \in {K(c[k]) : k \in DOMAIN c}
    <3>1. Len(a) + i \in DOMAIN c /\ c[Len(a) + i] = b[i]
      BY <1>1, <2>3
    <3>2. QED
      BY <3>1
  <2>4. QED
    BY <2>1, <2>2, <2>3
<1>3. QED
  BY <1>2 DEF EncodedKeys, c, K

\* No rows have no keys.
LEMMA KeysEmpty ==
    ASSUME NEW d, NEW columns
    PROVE  EncodedKeys(d, <<>>, columns) = {}
BY DEF EncodedKeys

\* A key is empty exactly when a column of it is null.
LEMMA NullKey ==
    ASSUME job \in Jobs, NEW i \in DOMAIN job.plans, NEW d, NEW row
    PROVE  EncodeKey(d, row, job.plans[i].local) = <<>>
             <=> \E c \in Range(job.plans[i].local) : row[c] = Null
<1> DEFINE columns == job.plans[i].local
           n == Len(columns)
           g == [k \in DOMAIN columns |-> <<Tag[d.types[columns[k]]], row[columns[k]]>>]
<1>1. n \in Nat \ {0} /\ DOMAIN columns = 1..n
  BY PlanFacts
<1>2. g # <<>>
  <2>1. 1 \in DOMAIN g
    BY <1>1
  <2> HIDE DEF g
  <2>2. DOMAIN <<>> = {}
    OBVIOUS
  <2>3. QED
    BY <2>1, <2>2
<1>3. (\E k \in DOMAIN columns : row[columns[k]] = Null) <=> \E c \in Range(columns) : row[c] = Null
  BY DEF Range
<1> HIDE DEF columns
<1>4. EncodeKey(d, row, columns)
        = IF \E k \in DOMAIN columns : row[columns[k]] = Null THEN <<>> ELSE g
  BY DEF EncodeKey
<1> HIDE DEF g
<1>5. QED
  BY <1>2, <1>3, <1>4 DEF columns

\* The number of rows of the subject.
LEMMA SubjectLen ==
    ASSUME job \in Jobs
    PROVE  /\ Len(AllRows(job.subject)) \in Nat
           /\ DOMAIN AllRows(job.subject) = 1..Len(AllRows(job.subject))
<1>1. IsDataset(job.subject)
  BY JobFacts
<1>2. 0 \in 0..Len(job.subject.batches)
  BY <1>1, RowListsType
<1>3. QED
  BY <1>1, <1>2, UptoPrefix

\* The rows of the subject that a rule rejects are those with an empty key.
LEMMA RejectedIs ==
    ASSUME job \in Jobs, NEW i \in DOMAIN job.plans
    PROVE  Rejected(i) = {r \in 1..Len(AllRows(job.subject)) :
                            job.plans[i].nulls = "reject" /\ OurKey(i, r) = <<>>}
<1>1. DOMAIN AllRows(job.subject) = 1..Len(AllRows(job.subject))
  BY SubjectLen
<1>2. \A r : OurKey(i, r) = <<>>
               <=> \E c \in Range(job.plans[i].local) : AllRows(job.subject)[r][c] = Null
  <2> TAKE r
  <2> DEFINE row == AllRows(job.subject)[r]
  <2>1. OurKey(i, r) = EncodeKey(job.subject, row, job.plans[i].local)
    BY DEF OurKey
  <2> HIDE DEF row
  <2>2. EncodeKey(job.subject, row, job.plans[i].local) = <<>>
          <=> \E c \in Range(job.plans[i].local) : row[c] = Null
    BY NullKey
  <2>3. QED
    BY <2>1, <2>2 DEF row
<1>3. QED
  BY <1>1, <1>2 DEF Rejected

\* The keys of the subject, row by row.
LEMMA OursIs ==
    ASSUME job \in Jobs, NEW i \in DOMAIN job.plans
    PROVE  /\ Ours(i) = {OurKey(i, r) : r \in 1..Len(AllRows(job.subject))} \ {<<>>}
           /\ IsFiniteSet(Ours(i))
<1> DEFINE N == Len(AllRows(job.subject))
           f == [r \in 1..N |-> OurKey(i, r)]
           T == {OurKey(i, r) : r \in 1..N}
<1>1. Ours(i) = T \ {<<>>}
  BY SubjectLen DEF Ours, EncodedKeys, OurKey
<1>2. IsFiniteSet(1..N)
  BY SubjectLen, FS_Interval
<1>3. f \in Surjection(1..N, T)
  BY DEF Surjection
<1> HIDE DEF f, T, N
<1>4. IsFiniteSet(T)
  BY <1>2, <1>3, FS_Surjection
<1>5. IsFiniteSet(T \ {<<>>})
  BY <1>4, FS_Subset
<1>6. QED
  BY <1>1, <1>5 DEF T, N

\* The keys that a rule has collected from all rows are those of the subject.
LEMMA LocalKeysIs ==
    ASSUME job \in Jobs, NEW i \in DOMAIN job.plans,
           local[i] = LocalUpto(i, Len(AllRows(job.subject)))
    PROVE  LocalKeys(i) = Ours(i)
<1> DEFINE N == Len(AllRows(job.subject))
<1>1. \A entry \in local[i] : \E r \in 1..N : OurKey(i, r) # <<>> /\ entry.key = OurKey(i, r)
  BY DEF LocalUpto
<1>2. ASSUME NEW r \in 1..N, OurKey(i, r) # <<>>
      PROVE  \E entry \in local[i] : entry.key = OurKey(i, r)
  <2> DEFINE e == [key |-> OurKey(i, r), row |-> r - 1]
  <2>1. e \in local[i] /\ e.key = OurKey(i, r)
    BY <1>2 DEF LocalUpto
  <2>2. QED
    BY <2>1
<1>3. Ours(i) = {OurKey(i, r) : r \in 1..N} \ {<<>>}
  BY OursIs
<1> HIDE DEF N
<1>4. QED
  BY <1>1, <1>2, <1>3 DEF LocalKeys

\* The row that stands for a key is the first one that carries it.
LEMMA FirstRowIs ==
    ASSUME job \in Jobs, NEW i \in DOMAIN job.plans,
           local[i] = LocalUpto(i, Len(AllRows(job.subject))),
           NEW key \in Ours(i)
    PROVE  /\ FirstRow(i, key) \in Nat
           /\ FirstRow(i, key) + 1 \in 1..Len(AllRows(job.subject))
           /\ OurKey(i, FirstRow(i, key) + 1) = key
           /\ \A q \in 1..FirstRow(i, key) : OurKey(i, q) # key
<1> DEFINE N == Len(AllRows(job.subject))
           R == {entry.row : entry \in {e \in local[i] : e.key = key}}
           m == FirstRow(i, key)
<1>1. N \in Nat
  BY SubjectLen
<1>2. key # <<>> /\ \E r \in 1..N : key = OurKey(i, r)
  BY OursIs
<1>3. R = {r - 1 : r \in {q \in 1..N : OurKey(i, q) = key}}
  <2>1. \A entry \in local[i] : entry.key = key =>
          \E r \in 1..N : OurKey(i, r) = key /\ entry.row = r - 1
    BY DEF LocalUpto
  <2>2. \A r \in 1..N : OurKey(i, r) = key =>
          \E entry \in local[i] : entry.key = key /\ entry.row = r - 1
    <3> SUFFICES ASSUME NEW r \in 1..N, OurKey(i, r) = key
                 PROVE  \E entry \in local[i] : entry.key = key /\ entry.row = r - 1
      OBVIOUS
    <3> DEFINE e == [key |-> OurKey(i, r), row |-> r - 1]
    <3>1. e \in local[i] /\ e.key = key /\ e.row = r - 1
      BY <1>2 DEF LocalUpto
    <3>2. QED
      BY <3>1
  <2> HIDE DEF N
  <2>3. QED
    BY <2>1, <2>2
<1> HIDE DEF N, R
<1>4. R \in SUBSET Nat /\ R # {}
  BY <1>1, <1>2, <1>3
<1>5. m \in R /\ \A y \in R : m <= y
  BY <1>4, LeastExists DEF FirstRow, R
<1> HIDE DEF m
<1>6. m \in Nat /\ m + 1 \in 1..N /\ OurKey(i, m + 1) = key
  <2>1. PICK r \in 1..N : OurKey(i, r) = key /\ m = r - 1
    BY <1>3, <1>5
  <2>2. r = m + 1 /\ m \in Nat
    BY <1>1, <2>1
  <2>3. QED
    BY <2>1, <2>2
<1>7. ASSUME NEW q \in 1..m, OurKey(i, q) = key PROVE FALSE
  <2>1. q \in 1..N /\ q - 1 < m
    BY <1>1, <1>6
  <2>2. q - 1 \in R
    BY <1>3, <1>7, <2>1
  <2>3. QED
    BY <1>5, <1>6, <2>1, <2>2
<1>8. QED
  BY <1>6, <1>7 DEF m, N

-----------------------------------------------------------------------------
(* Recording findings *)

\* The reports with outcomes o that are well formed.
Reports(o) ==
    {r \in [violations : Nat, findings : Seq(RealFindings), outcomes : {o}] :
        Len(r.findings) = Min({FindingLimit, r.violations})}

\* Recording a finding counts it, and keeps it if there is room.
LEMMA RecordFacts ==
    ASSUME NEW o, NEW r \in Reports(o), NEW f \in RealFindings
    PROVE  /\ RecordLazy(r, f) \in Reports(o)
           /\ RecordLazy(r, f).violations = r.violations + 1
<1> DEFINE v == r.violations
           fs == r.findings
           x == RecordLazy(r, f)
<1>1. /\ v \in Nat /\ fs \in Seq(RealFindings) /\ r.outcomes = o
      /\ Len(fs) = Min({FindingLimit, v})
      /\ r = [violations |-> v, findings |-> fs, outcomes |-> o]
  BY DEF Reports
<1>2. FindingLimit \in Nat /\ v + 1 \in Nat
  BY <1>1, JobsAssumption
<1>3. /\ Min({FindingLimit, v}) = IF FindingLimit <= v THEN FindingLimit ELSE v
      /\ Min({FindingLimit, v + 1}) = IF FindingLimit <= v + 1 THEN FindingLimit ELSE v + 1
  <2> DEFINE w == v + 1
  <2>1. FindingLimit \in Int /\ v \in Int /\ w \in Int
    BY <1>1, <1>2
  <2> HIDE DEF v, w
  <2>2. /\ Min({FindingLimit, v}) = IF FindingLimit <= v THEN FindingLimit ELSE v
        /\ Min({FindingLimit, w}) = IF FindingLimit <= w THEN FindingLimit ELSE w
    BY <2>1, MinOfTwo
  <2>3. QED
    BY <2>2 DEF w
<1>4. /\ x.violations = v + 1
      /\ x.findings = IF Len(fs) < FindingLimit THEN Append(fs, f) ELSE fs
      /\ x = [violations |-> x.violations, findings |-> x.findings, outcomes |-> o]
  <2>1. CASE Len(fs) < FindingLimit
    <3>1. x = [violations |-> v + 1, findings |-> Append(fs, f), outcomes |-> o]
      BY <1>1, <2>1 DEF RecordLazy
    <3>2. QED
      BY <2>1, <3>1
  <2>2. CASE ~ (Len(fs) < FindingLimit)
    <3>1. x = [violations |-> v + 1, findings |-> fs, outcomes |-> o]
      BY <1>1, <2>2 DEF RecordLazy
    <3>2. QED
      BY <2>2, <3>1
  <2>3. QED
    BY <2>1, <2>2
<1> HIDE DEF x, v, fs
<1>5. /\ Append(fs, f) \in Seq(RealFindings)
      /\ Len(Append(fs, f)) = Len(fs) + 1
      /\ Len(fs) \in Nat
  BY <1>1
<1>6. x.findings \in Seq(RealFindings)
  BY <1>1, <1>4, <1>5
<1>7. Len(x.findings) = Min({FindingLimit, v + 1})
  <2>1. CASE Len(fs) < FindingLimit
    BY <1>1, <1>2, <1>3, <1>4, <1>5, <2>1
  <2>2. CASE ~ (Len(fs) < FindingLimit)
    BY <1>1, <1>2, <1>3, <1>4, <1>5, <2>2
  <2>3. QED
    BY <2>1, <2>2
<1>8. x \in Reports(o)
  <2>1. x \in [violations : Nat, findings : Seq(RealFindings), outcomes : {o}]
    BY <1>2, <1>4, <1>6
  <2>2. Len(x.findings) = Min({FindingLimit, x.violations})
    BY <1>4, <1>7
  <2>3. QED
    BY <2>1, <2>2 DEF Reports
<1>9. QED
  BY <1>4, <1>8 DEF x, v

\* So does recording a list of findings.
LEMMA RecordAll ==
    ASSUME NEW o, NEW r \in Reports(o), NEW s \in Seq(RealFindings)
    PROVE  /\ FoldLeft(RecordLazy, r, s) \in Reports(o)
           /\ FoldLeft(RecordLazy, r, s).violations = r.violations + Len(s)
<1> DEFINE F(k) == Rec!Fold(r, SubSeq(s, 1, k))
           B == {k \in Nat : k <= Len(s) =>
                   F(k) \in Reports(o) /\ F(k).violations = r.violations + k}
<1>1. r.violations \in Nat
  BY DEF Reports
<1>2. 0 \in B
  <2>1. F(0) = r
    BY Rec!FoldEnds
  <2> HIDE DEF F
  <2>2. QED
    BY <1>1, <2>1
<1>3. ASSUME NEW k \in B PROVE k + 1 \in B
  <2>1. SUFFICES ASSUME k + 1 <= Len(s)
                 PROVE  /\ F(k + 1) \in Reports(o)
                        /\ F(k + 1).violations = r.violations + (k + 1)
    BY <1>3
  <2>2. k \in Nat /\ k < Len(s) /\ F(k) \in Reports(o) /\ F(k).violations = r.violations + k
    BY <1>3, <2>1
  <2>3. F(k + 1) = RecordLazy(F(k), s[k + 1]) /\ s[k + 1] \in RealFindings
    BY <2>2, Rec!FoldStep
  <2> HIDE DEF F
  <2>4. /\ F(k + 1) \in Reports(o)
        /\ F(k + 1).violations = F(k).violations + 1
    BY <2>2, <2>3, RecordFacts
  <2>5. QED
    BY <1>1, <2>2, <2>4
<1>4. B = Nat
  <2> HIDE DEF B
  <2>1. B \in SUBSET Nat
    BY DEF B
  <2>2. QED
    BY <1>2, <1>3, <2>1, Rec!NatSetInduction
<1>5. F(Len(s)) \in Reports(o) /\ F(Len(s)).violations = r.violations + Len(s)
  BY <1>4
<1>6. F(Len(s)) = Rec!Fold(r, s)
  BY Rec!FoldEnds
<1>7. Rec!Fold(r, s) = FoldLeft(RecordLazy, r, s)
  BY DEF Rec!Fold, FoldLeft, Rec!FoldLeft, MapThenFoldSet, Rec!MapThenFoldSet, Max, Rec!Max
<1>8. QED
  BY <1>5, <1>6, <1>7

\* The rows that a rule rejects in a batch that begins after the first n rows.
RejectedIn(i, n, m) == {r \in Rejected(i) : n < r /\ r <= n + m}

\* The rows of one batch that a rule rejects are recorded, each once.
LEMMA NullFindingsFacts ==
    ASSUME job \in Jobs, NEW i \in DOMAIN job.plans, NEW k \in 1..Len(job.subject.batches),
           scan.rows = Len(Upto(job.subject, k - 1))
    PROVE  /\ NullFindings(i, job.subject.batches[k].rows) \in Seq(RealFindings)
           /\ IsFiniteSet(RejectedIn(i, scan.rows, Len(job.subject.batches[k].rows)))
           /\ Len(NullFindings(i, job.subject.batches[k].rows))
                = Cardinality(RejectedIn(i, scan.rows, Len(job.subject.batches[k].rows)))
<1> DEFINE d == job.subject
           b == d.batches[k].rows
           n == scan.rows
           m == Len(b)
           A == AllRows(d)
           bad(r) == job.plans[i].nulls = "reject" /\ EncodeKey(d, b[r], job.plans[i].local) = <<>>
           one(r) == IF bad(r) THEN <<[rule |-> i, row |-> GlobalRow(r)]>> ELSE <<>>
           ss == [r \in 1..m |-> one(r)]
           K == {r \in 1..m : bad(r)}
<1>1. IsDataset(d) /\ i \in Nat /\ Len(A) \in Nat
  <2>1. i \in 1..Len(job.plans) /\ Len(job.plans) \in Nat
    BY JobFacts
  <2>2. QED
    BY <2>1, JobFacts, SubjectLen
<1>2. /\ m \in Nat /\ DOMAIN b = 1..m /\ n \in Nat /\ n + m <= Len(A)
      /\ \A r \in 1..m : A[n + r] = b[r]
  <2>1. /\ m \in Nat /\ DOMAIN b = 1..m /\ Len(Upto(d, k)) = n + m
        /\ \A r \in 1..m : A[n + r] = b[r]
    <3> DEFINE l == Len(Upto(d, k - 1))
    <3>1. n = l
      OBVIOUS
    <3>2. /\ m \in Nat /\ DOMAIN b = 1..m /\ Len(Upto(d, k)) = l + m
          /\ \A r \in 1..m : A[l + r] = b[r]
      <4> HIDE DEF d
      <4>1. QED
        BY <1>1, BatchRows DEF d
    <3> HIDE DEF n, l, m, b, A, d
    <3>3. QED
      BY <3>1, <3>2
  <2>2. k - 1 \in 0..Len(d.batches) /\ k \in 0..Len(d.batches)
    BY <1>1, RowListsType
  <2>3. n \in Nat /\ Len(Upto(d, k)) <= Len(A)
    <3> HIDE DEF d
    <3>1. QED
      BY <1>1, <2>2, UptoPrefix DEF d
  <2>4. QED
    BY <2>1, <2>3
<1>3. \A r \in 1..m : bad(r) <=> n + r \in Rejected(i)
  <2> SUFFICES ASSUME NEW r \in 1..m PROVE bad(r) <=> n + r \in Rejected(i)
    OBVIOUS
  <2>1. OurKey(i, n + r) = EncodeKey(d, b[r], job.plans[i].local)
    BY <1>2 DEF OurKey
  <2>2. n + r \in 1..Len(A)
    <3> HIDE DEF n, m, A, b
    <3>1. QED
      BY <1>1, <1>2
  <2>3. n + r \in Rejected(i)
          <=> (n + r \in 1..Len(A) /\ job.plans[i].nulls = "reject" /\ OurKey(i, n + r) = <<>>)
    BY RejectedIs
  <2>4. QED
    BY <2>1, <2>2, <2>3
<1>4. NullFindings(i, b) = FlattenSeq(ss)
  BY <1>2 DEF NullFindings
<1>5. \A r \in 1..m : bad(r) => [rule |-> i, row |-> GlobalRow(r)] \in RealFindings
  <2> SUFFICES ASSUME NEW r \in 1..m, bad(r)
               PROVE  [rule |-> i, row |-> GlobalRow(r)] \in RealFindings
    OBVIOUS
  <2> DEFINE f == [rule |-> i, row |-> GlobalRow(r)]
  <2>1. f.rule = i /\ f.row = n + r - 1 /\ f.row \in Int /\ f.row + 1 = n + r
    BY <1>2 DEF GlobalRow
  <2>2. n + r \in Rejected(i) /\ n + r \in 1..Len(A)
    <3> HIDE DEF n, m, A, b
    <3>1. n + r \in 1..Len(A)
      BY <1>1, <1>2
    <3>2. QED
      BY <1>3, <3>1
  <2>3. f \in [rule : Nat, row : Int]
    BY <1>1, <2>1
  <2> HIDE DEF f
  <2>4. RealRow(i, f.row)
    BY <2>1, <2>2 DEF RealRow
  <2>5. QED
    BY <2>1, <2>3, <2>4 DEF RealFindings, f
<1> HIDE DEF bad
<1>6. \A r \in 1..m : ss[r] \in Seq(RealFindings) /\ Len(ss[r]) = IF r \in K THEN 1 ELSE 0
  <2> SUFFICES ASSUME NEW r \in 1..m
               PROVE  ss[r] \in Seq(RealFindings) /\ Len(ss[r]) = IF r \in K THEN 1 ELSE 0
    OBVIOUS
  <2>1. CASE bad(r)
    <3> DEFINE f == [rule |-> i, row |-> GlobalRow(r)]
    <3>1. ss[r] = <<f>> /\ f \in RealFindings /\ r \in K
      BY <1>5, <2>1
    <3> HIDE DEF f, ss, K
    <3>2. QED
      BY <3>1
  <2>2. CASE ~ bad(r)
    <3>1. ss[r] = <<>> /\ r \notin K
      BY <2>2
    <3> HIDE DEF ss, K
    <3>2. QED
      BY <3>1
  <2>3. QED
    BY <2>1, <2>2
<1>7. ss \in Seq(Seq(RealFindings)) /\ Len(ss) = m /\ K \in SUBSET (1..m)
  <2> HIDE DEF one
  <2>1. \A r \in 1..m : one(r) \in Seq(RealFindings)
    BY <1>6
  <2>2. QED
    BY <1>2, <2>1
<1> HIDE DEF ss
<1>8. /\ FlattenSeq(ss) \in Seq(RealFindings)
      /\ IsFiniteSet(K) /\ Len(FlattenSeq(ss)) = Cardinality(K)
  <2> HIDE DEF K, m
  <2>1. FlattenSeq(ss) \in Seq(RealFindings)
    BY <1>7, FlattenIs, Rec!FlattenType
  <2>2. \A r \in 1..Len(ss) : Len(ss[r]) = IF r \in K THEN 1 ELSE 0
    BY <1>6, <1>7
  <2>5. ss \in Seq(Seq(RealFindings)) /\ K \in SUBSET (1..Len(ss))
    BY <1>7
  <2>3. IsFiniteSet(K) /\ Len(Rec!FlattenSeq(ss)) = Cardinality(K)
    BY <2>2, <2>5, Rec!FlattenSingles, CardinalityIs
  <2>4. QED
    BY <2>1, <2>3, FlattenIs
<1>9. RejectedIn(i, n, m) = {n + q : q \in K}
  <2>1. \A r \in Rejected(i) : r \in Nat
    BY SubjectLen DEF Rejected
  <2>2. \A r \in Rejected(i) : (n < r /\ r <= n + m) => r - n \in K /\ r = n + (r - n)
    <3> SUFFICES ASSUME NEW r \in Rejected(i), n < r, r <= n + m
                 PROVE  r - n \in K /\ r = n + (r - n)
      OBVIOUS
    <3>1. r - n \in 1..m /\ r = n + (r - n)
      <4> HIDE DEF n, m
      <4>1. QED
        BY <1>2, <2>1
    <3>2. QED
      BY <1>3, <3>1
  <2>3. \A q \in K : n + q \in Rejected(i) /\ n < n + q /\ n + q <= n + m
    <3>1. \A q \in K : q \in 1..m /\ n + q \in Rejected(i)
      BY <1>3
    <3> HIDE DEF K, n, m
    <3>2. \A q \in 1..m : n < n + q /\ n + q <= n + m
      BY <1>2
    <3>3. QED
      BY <3>1, <3>2
  <2> HIDE DEF K
  <2>4. QED
    BY <2>2, <2>3 DEF RejectedIn
<1>10. /\ IsFiniteSet({n + q : q \in K})
       /\ Cardinality({n + q : q \in K}) = Cardinality(K)
  <2>1. K \in SUBSET Int /\ n \in Int
    BY <1>2
  <2> HIDE DEF K
  <2>2. QED
    BY <1>8, <2>1, MovedSet
<1>11. QED
  BY <1>4, <1>8, <1>9, <1>10

\* The rejected rows and the absent keys are finitely many.
LEMMA ViolationsFinite ==
    ASSUME job \in Jobs
    PROVE  IsFiniteSet(Rejections) /\ IsFiniteSet(Absences) /\ IsFiniteSet(BrokenDeltas)
<1> DEFINE I == 1..Len(job.plans)
           R == 1..Len(AllRows(job.subject))
           f == [p \in I \X R |-> <<p[1], OurKey(p[1], p[2])>>]
           T == {f[p] : p \in I \X R}
<1>1. DOMAIN job.plans = I /\ IsFiniteSet(I) /\ IsFiniteSet(R)
  <2>1. DOMAIN job.plans = I /\ Len(job.plans) \in Nat
    BY JobFacts
  <2>2. Len(AllRows(job.subject)) \in Nat
    BY SubjectLen
  <2>3. \A n \in Nat : IsFiniteSet(1..n)
    BY FS_Interval
  <2>4. QED
    BY <2>1, <2>2, <2>3
<1>2. IsFiniteSet(I \X R)
  <2> HIDE DEF I, R
  <2>1. QED
    BY <1>1, FS_Product
<1>3. Rejections \subseteq I \X R
  <2>1. \A i \in I : Rejected(i) \subseteq R
    BY SubjectLen DEF Rejected
  <2> HIDE DEF R
  <2>2. QED
    BY <1>1, <2>1 DEF Rejections
<1>4. f \in Surjection(I \X R, T)
  BY DEF Surjection
<1>5. Absences \subseteq T
  <2>1. ASSUME NEW i \in I, NEW key \in Ours(i) PROVE <<i, key>> \in T
    <3>1. PICK r \in R : key = OurKey(i, r)
      BY <1>1, <2>1, OursIs
    <3>2. <<i, r>> \in I \X R /\ f[<<i, r>>] = <<i, key>>
      BY <3>1
    <3>3. QED
      BY <3>2
  <2> HIDE DEF T
  <2>2. QED
    BY <1>1, <2>1 DEF Absences
<1>6. IsFiniteSet(T)
  <2> HIDE DEF T, f, I, R
  <2>1. QED
    BY <1>2, <1>4, FS_Surjection
<1>7. IsFiniteSet(BrokenDeltas)
  <2>1. DOMAIN job.deltas = 1..Len(job.deltas) /\ Len(job.deltas) \in Nat
    BY JobFacts
  <2>2. IsFiniteSet(1..Len(job.deltas))
    BY <2>1, FS_Interval
  <2>3. BrokenDeltas \subseteq 1..Len(job.deltas)
    BY <2>1 DEF BrokenDeltas
  <2>4. QED
    BY <2>2, <2>3, FS_Subset
<1> HIDE DEF T, f, I, R
<1>8. QED
  BY <1>2, <1>3, <1>5, <1>6, <1>7, FS_Subset

\* A batch of the subject, the number of rows before it, what its rows are rejected for.
RowsOf(k) == job.subject.batches[k].rows
Start(k) == Len(Upto(job.subject, k - 1))
FoundIn(k) == FlattenSeq([i \in DOMAIN job.plans |-> NullFindings(i, RowsOf(k))])

\* Where a batch of the subject is in it.
LEMMA BatchPlace ==
    ASSUME job \in Jobs, NEW k \in 1..Len(job.subject.batches)
    PROVE  /\ Start(k) \in Nat /\ Len(RowsOf(k)) \in Nat /\ DOMAIN RowsOf(k) = 1..Len(RowsOf(k))
           /\ Len(Upto(job.subject, k)) = Start(k) + Len(RowsOf(k))
           /\ \A r \in 1..Len(RowsOf(k)) : AllRows(job.subject)[Start(k) + r] = RowsOf(k)[r]
<1>1. IsDataset(job.subject)
  BY JobFacts
<1>2. k - 1 \in 0..Len(job.subject.batches)
  BY <1>1, RowListsType
<1>3. Start(k) \in Nat
  BY <1>1, <1>2, UptoPrefix DEF Start
<1>4. QED
  BY <1>1, <1>3, BatchRows DEF Start, RowsOf

\* What a batch of the subject adds to the rejected rows is what it records.
LEMMA BatchFindings ==
    ASSUME job \in Jobs, NEW k \in 1..Len(job.subject.batches), scan.rows = Start(k)
    PROVE  /\ FoundIn(k) \in Seq(RealFindings)
           /\ Cardinality(RejectionsUpto(scan.rows + Len(RowsOf(k))))
                = Cardinality(RejectionsUpto(scan.rows)) + Len(FoundIn(k))
<1> DEFINE b == RowsOf(k)
           s == FoundIn(k)
           P == Len(job.plans)
           n == scan.rows
           m == Len(b)
           ss == [i \in 1..P |-> NullFindings(i, b)]
           K == [i \in 1..P |-> RejectedIn(i, n, m)]
           new == Rec!Numbered(K, P)
           old == RejectionsUpto(n)
<1>1. P \in Nat /\ DOMAIN job.plans = 1..P
  BY JobFacts
<1>2. m \in Nat /\ n \in Nat
  BY BatchPlace
<1>3. \A i \in 1..P : /\ NullFindings(i, b) \in Seq(RealFindings)
                      /\ IsFiniteSet(RejectedIn(i, n, m))
                      /\ Len(NullFindings(i, b)) = Cardinality(RejectedIn(i, n, m))
  BY <1>1, NullFindingsFacts DEF RowsOf, Start
<1>4. /\ ss \in Seq(Seq(RealFindings)) /\ Len(ss) = P
      /\ \A i \in 1..Len(ss) : IsFiniteSet(K[i]) /\ Len(ss[i]) = Cardinality(K[i])
  <2> HIDE DEF P
  <2>1. ss \in Seq(Seq(RealFindings)) /\ Len(ss) = P
    BY <1>1, <1>3
  <2>2. QED
    BY <1>3, <2>1
<1>5. s = FlattenSeq(ss)
  BY <1>1 DEF FoundIn
<1> HIDE DEF ss, K
<1>6. s \in Seq(RealFindings)
  BY <1>4, <1>5, FlattenIs, Rec!FlattenType
<1>7. IsFiniteSet(new) /\ Len(s) = Cardinality(new)
  <2>1. \A i \in 1..Len(ss) : Rec!IsFiniteSet(K[i]) /\ Len(ss[i]) = Rec!Cardinality(K[i])
    BY <1>4, CardinalityIs
  <2>2. /\ Rec!IsFiniteSet(Rec!Numbered(K, Len(ss)))
        /\ Len(Rec!FlattenSeq(ss)) = Rec!Cardinality(Rec!Numbered(K, Len(ss)))
    BY <1>4, <2>1, Rec!FlattenCounts
  <2>3. Rec!IsFiniteSet(new) /\ Len(Rec!FlattenSeq(ss)) = Rec!Cardinality(new)
    <3> HIDE DEF P
    <3>1. Len(ss) = P
      BY <1>4
    <3>2. QED
      BY <2>2, <3>1
  <2>4. s = Rec!FlattenSeq(ss)
    BY <1>5, FlattenIs
  <2> HIDE DEF new
  <2>5. (Rec!IsFiniteSet(new) <=> IsFiniteSet(new)) /\ Rec!Cardinality(new) = Cardinality(new)
    BY CardinalityIs
  <2>6. QED
    BY <2>3, <2>4, <2>5
<1>8. new = {p \in Rejections : n < p[2] /\ p[2] <= n + m}
  <2>1. new = UNION {{<<i, x>> : x \in RejectedIn(i, n, m)} : i \in 1..P}
    <3>1. \A i \in 1..P : K[i] = RejectedIn(i, n, m)
      BY DEF K
    <3>2. new = UNION {{<<i, x>> : x \in K[i]} : i \in 1..P}
      BY DEF Rec!Numbered
    <3> HIDE DEF new, P, n, m
    <3>3. QED
      BY <3>1, <3>2
  <2>2. Rejections = UNION {{<<i, x>> : x \in Rejected(i)} : i \in 1..P}
    BY <1>1 DEF Rejections
  <2> HIDE DEF new, n, m, P
  <2>3. QED
    BY <2>1, <2>2 DEF RejectedIn
<1>9. RejectionsUpto(n + m) = old \cup new /\ old \cap new = {}
  <2>1. \A p \in Rejections : p[2] \in Nat
    BY SubjectLen DEF Rejections, Rejected
  <2> HIDE DEF new, n, m
  <2>2. QED
    BY <1>2, <1>8, <2>1 DEF RejectionsUpto
<1>10. IsFiniteSet(old)
  <2>1. IsFiniteSet(Rejections) /\ old \in SUBSET Rejections
    BY ViolationsFinite DEF RejectionsUpto
  <2> HIDE DEF old
  <2>2. QED
    BY <2>1, FS_Subset
<1>11. QED
  <2> HIDE DEF old, new
  <2>1. Cardinality(old \cup new) = Cardinality(old) + Cardinality(new)
    BY <1>7, <1>9, <1>10, DisjointUnion
  <2>2. QED
    BY <1>6, <1>7, <1>9, <2>1 DEF old

\* An absent key is recorded with the first row that carries it.
LEMMA AbsentIsReal ==
    ASSUME job \in Jobs, NEW i \in DOMAIN job.plans,
           local[i] = LocalUpto(i, Len(AllRows(job.subject))),
           NEW key \in Ours(i) \ Theirs(i)
    PROVE  [rule |-> i, row |-> FirstRow(i, key)] \in RealFindings
<1> DEFINE m == FirstRow(i, key)
           f == [rule |-> i, row |-> m]
<1>1. i \in Nat
  <2>1. i \in 1..Len(job.plans) /\ Len(job.plans) \in Nat
    BY JobFacts
  <2>2. QED
    BY <2>1
<1>2. /\ m \in Nat
      /\ m + 1 \in 1..Len(AllRows(job.subject))
      /\ OurKey(i, m + 1) = key
      /\ \A q \in 1..m : OurKey(i, q) # key
  BY FirstRowIs
<1> HIDE DEF m
<1>3. f \in [rule : Nat, row : Int] /\ f.rule = i /\ f.row = m
  BY <1>1, <1>2
<1>4. RealRow(i, m)
  BY <1>2 DEF RealRow
<1>5. QED
  BY <1>3, <1>4 DEF RealFindings, m

\* The absent keys of a rule, how many of them may be recorded, the rows that carry
\* those, and the report with them.
AbsentKeys(i) == Ours(i) \ Theirs(i)
Sampled(i) == Min({FindingLimit, Cardinality(AbsentKeys(i))})
SampleRows(i, chosen) == SetToSeq({FirstRow(i, key) : key \in chosen})
Recorded(i, chosen) ==
    FoldLeft(RecordLazy, report,
        [n \in DOMAIN SampleRows(i, chosen) |-> [rule |-> i, row |-> SampleRows(i, chosen)[n]]])

\* Finishing a rule counts its absent keys, and records as many as there is room for.
LEMMA FinishFindings ==
    ASSUME job \in Jobs, NEW i \in DOMAIN job.plans,
           local[i] = LocalUpto(i, Len(AllRows(job.subject))),
           NEW o, report \in Reports(o),
           NEW chosen \in kSubset(Sampled(i), AbsentKeys(i))
    PROVE  /\ IsFiniteSet(AbsentKeys(i)) /\ Cardinality(AbsentKeys(i)) \in Nat
           /\ Recorded(i, chosen) = [violations |-> Recorded(i, chosen).violations,
                                     findings |-> Recorded(i, chosen).findings,
                                     outcomes |-> o]
           /\ Recorded(i, chosen).findings \in Seq(RealFindings)
           /\ Recorded(i, chosen).violations + Unsampled(Cardinality(AbsentKeys(i)), Sampled(i))
                = report.violations + Cardinality(AbsentKeys(i))
           /\ Len(Recorded(i, chosen).findings)
                = Min({FindingLimit, report.violations + Cardinality(AbsentKeys(i))})
<1> DEFINE M == AbsentKeys(i)
           sampled == Sampled(i)
           rows == SampleRows(i, chosen)
           x == Recorded(i, chosen)
           r == report
<1>0. /\ M = Ours(i) \ Theirs(i)
      /\ sampled = Min({FindingLimit, Cardinality(M)})
      /\ rows = SetToSeq({FirstRow(i, key) : key \in chosen})
      /\ x = FoldLeft(RecordLazy, r, [n \in DOMAIN rows |-> [rule |-> i, row |-> rows[n]]])
      /\ chosen \in kSubset(sampled, M)
      /\ r \in Reports(o)
  BY DEF AbsentKeys, Sampled, SampleRows, Recorded
<1> HIDE DEF M, sampled, rows, x, r
<1> USE <1>0
<1> DEFINE m == Cardinality(M)
           T == {FirstRow(i, key) : key \in chosen}
           g == [key \in chosen |-> FirstRow(i, key)]
           s == [n \in DOMAIN rows |-> [rule |-> i, row |-> rows[n]]]
<1>1. IsFiniteSet(M) /\ m \in Nat
  <2>1. IsFiniteSet(Ours(i))
    BY OursIs
  <2>2. IsFiniteSet(M)
    BY <2>1, FS_Subset
  <2>3. QED
    BY <2>2, FS_CardinalityType
<1>2. chosen \in SUBSET M /\ Cardinality(chosen) = sampled
  BY DEF kSubset
<1>3. IsFiniteSet(chosen)
  BY <1>1, <1>2, FS_Subset
<1>4. \A key \in chosen : /\ FirstRow(i, key) \in Nat
                          /\ OurKey(i, FirstRow(i, key) + 1) = key
                          /\ [rule |-> i, row |-> FirstRow(i, key)] \in RealFindings
  BY <1>2, FirstRowIs, AbsentIsReal
<1>5. g \in Bijection(chosen, T)
  <2>1. \A a, b \in chosen : FirstRow(i, a) = FirstRow(i, b) => a = b
    BY <1>4
  <2>2. g \in Surjection(chosen, T)
    BY DEF Surjection
  <2>3. g \in Injection(chosen, T)
    BY <2>1 DEF Injection, IsInjective
  <2>4. QED
    BY <2>2, <2>3 DEF Bijection
<1>6. IsFiniteSet(T) /\ Cardinality(T) = sampled
  <2> HIDE DEF T, g
  <2>1. QED
    BY <1>2, <1>3, <1>5, FS_Bijection DEF ExistsBijection
<1>7. rows \in Seq(T) /\ Len(rows) = sampled
  BY <1>6, SequenceOfSet
<1>8. s \in Seq(RealFindings) /\ Len(s) = sampled
  <2>1. \A t \in T : [rule |-> i, row |-> t] \in RealFindings
    BY <1>4
  <2> HIDE DEF T
  <2>2. /\ Len(rows) \in Nat /\ DOMAIN rows = 1..Len(rows)
        /\ \A n \in 1..Len(rows) : rows[n] \in T
    <3>1. rows \in Seq(T)
      BY <1>7
    <3>2. QED
      BY <3>1, SeqElements
  <2>3. s \in [1..Len(rows) -> RealFindings]
    BY <2>1, <2>2
  <2> HIDE DEF s
  <2>4. s \in Seq(RealFindings) /\ Len(s) = Len(rows)
    BY <2>2, <2>3, FunctionIsSeq
  <2>5. QED
    BY <1>7, <2>4
<1> HIDE DEF s, T, g
<1>9. x \in Reports(o) /\ x.violations = r.violations + sampled
  <2>1. x = FoldLeft(RecordLazy, r, s)
    BY DEF s
  <2>2. QED
    BY <1>8, <2>1, RecordAll
<1>10. /\ r.violations \in Nat /\ x.violations \in Nat
       /\ x = [violations |-> x.violations, findings |-> x.findings, outcomes |-> o]
       /\ x.findings \in Seq(RealFindings)
       /\ Len(x.findings) = Min({FindingLimit, x.violations})
  BY <1>9 DEF Reports
<1>11. FindingLimit \in Nat /\ sampled = IF FindingLimit <= m THEN FindingLimit ELSE m
  <2>1. FindingLimit \in Nat
    BY JobsAssumption
  <2>2. sampled = Min({FindingLimit, m}) /\ m \in Int /\ FindingLimit \in Int
    BY <1>1, <2>1
  <2> HIDE DEF m
  <2>3. Min({FindingLimit, m}) = IF FindingLimit <= m THEN FindingLimit ELSE m
    BY <2>2, MinOfTwo
  <2>4. QED
    BY <2>1, <2>2, <2>3
<1>12. Min({FindingLimit, x.violations}) = Min({FindingLimit, r.violations + m})
  <2> DEFINE v == r.violations
             a == x.violations
             b == v + m
  <2>1. v \in Nat /\ a \in Nat /\ b \in Int /\ a = v + sampled /\ b = v + m /\ m \in Nat
    BY <1>1, <1>9, <1>10
  <2> HIDE DEF v, a, b, m
  <2>2. /\ Min({FindingLimit, a}) = IF FindingLimit <= a THEN FindingLimit ELSE a
        /\ Min({FindingLimit, b}) = IF FindingLimit <= b THEN FindingLimit ELSE b
    BY <1>11, <2>1, MinOfTwo
  <2>3. Min({FindingLimit, a}) = Min({FindingLimit, b})
    BY <1>11, <2>1, <2>2
  <2>4. QED
    BY <2>3 DEF a, b, v
<1>13. x.violations + Unsampled(m, sampled) = r.violations + m
  <2> HIDE DEF m
  <2>1. QED
    BY <1>1, <1>9, <1>10, <1>11 DEF Unsampled
<1>14. QED
  BY <1>1, <1>10, <1>12, <1>13 DEF M, sampled, x, r

\* The absent keys of one more rule.
LEMMA AbsencesStep ==
    ASSUME job \in Jobs, NEW i \in DOMAIN job.plans
    PROVE  Cardinality(AbsencesUpto(i))
             = Cardinality(AbsencesUpto(i - 1)) + Cardinality(Ours(i) \ Theirs(i))
<1> DEFINE M == Ours(i) \ Theirs(i)
           new == {<<i, key>> : key \in M}
           old == AbsencesUpto(i - 1)
           f == [key \in M |-> <<i, key>>]
<1>1. DOMAIN job.plans \in SUBSET Nat
  <2>1. DOMAIN job.plans = 1..Len(job.plans) /\ Len(job.plans) \in Nat
    BY JobFacts
  <2>2. QED
    BY <2>1
<1>2. IsFiniteSet(M)
  <2>1. IsFiniteSet(Ours(i))
    BY OursIs
  <2>2. QED
    BY <2>1, FS_Subset
<1>3. f \in Bijection(M, new)
  BY DEF Bijection, Injection, Surjection, IsInjective
<1>4. IsFiniteSet(new) /\ Cardinality(new) = Cardinality(M)
  <2> HIDE DEF M, new, f
  <2>1. QED
    BY <1>2, <1>3, FS_Bijection DEF ExistsBijection
<1>5. \A p : p \in Absences <=> \E k \in DOMAIN job.plans : \E key \in Ours(k) \ Theirs(k) : p = <<k, key>>
  BY DEF Absences
<1>6. AbsencesUpto(i) = old \cup new /\ old \cap new = {}
  <2>1. \A p \in AbsencesUpto(i) : p \in old \cup new
    <3> SUFFICES ASSUME NEW p \in AbsencesUpto(i) PROVE p \in old \cup new
      OBVIOUS
    <3>1. PICK k \in DOMAIN job.plans : \E key \in Ours(k) \ Theirs(k) : p = <<k, key>> /\ k <= i
      BY <1>5 DEF AbsencesUpto
    <3>2. CASE k = i
      BY <3>1, <3>2
    <3>3. CASE k # i
      <4>1. k <= i - 1
        BY <1>1, <3>1, <3>3
      <4>2. p \in Absences /\ p[1] = k
        BY <1>5, <3>1
      <4>3. QED
        BY <4>1, <4>2 DEF AbsencesUpto
    <3>4. QED
      BY <3>2, <3>3
  <2>2. \A p \in old : p \in AbsencesUpto(i) /\ p[1] # i
    <3> SUFFICES ASSUME NEW p \in old PROVE p \in AbsencesUpto(i) /\ p[1] # i
      OBVIOUS
    <3>1. p \in Absences /\ p[1] <= i - 1
      BY DEF AbsencesUpto
    <3>2. PICK k \in DOMAIN job.plans : p[1] = k
      BY <1>5, <3>1
    <3>3. p[1] <= i /\ p[1] # i
      BY <1>1, <3>1, <3>2
    <3>4. QED
      BY <3>1, <3>3 DEF AbsencesUpto
  <2>3. \A p \in new : p \in AbsencesUpto(i) /\ p[1] = i
    <3>1. i <= i
      BY <1>1
    <3>2. \A p \in new : p \in Absences /\ p[1] = i
      BY <1>5
    <3>3. QED
      BY <3>1, <3>2 DEF AbsencesUpto
  <2> HIDE DEF old, new
  <2>4. QED
    BY <2>1, <2>2, <2>3
<1>7. IsFiniteSet(old)
  <2>1. IsFiniteSet(Absences) /\ old \in SUBSET Absences
    BY ViolationsFinite DEF AbsencesUpto
  <2> HIDE DEF old
  <2>2. QED
    BY <2>1, FS_Subset
<1>8. Cardinality(old \cup new) = Cardinality(old) + Cardinality(new)
  <2> HIDE DEF old, new
  <2>1. QED
    BY <1>4, <1>6, <1>7, DisjointUnion
<1>9. QED
  BY <1>4, <1>6, <1>8

\* Before the first rule no key is absent, after the last all that are.
LEMMA AbsencesEnds ==
    ASSUME job \in Jobs
    PROVE  AbsencesUpto(0) = {} /\ AbsencesUpto(Len(job.plans)) = Absences
<1>1. DOMAIN job.plans = 1..Len(job.plans) /\ Len(job.plans) \in Nat
  BY JobFacts
<1>2. \A p \in Absences : p[1] \in 1..Len(job.plans)
  BY <1>1 DEF Absences
<1>3. \A k \in 1..Len(job.plans) : ~ (k <= 0) /\ k <= Len(job.plans)
  BY <1>1
<1>4. QED
  BY <1>2, <1>3 DEF AbsencesUpto

-----------------------------------------------------------------------------
(* Bound datasets and row counts *)

\* A bound name stands for the dataset that it is bound to.
LEMMA BoundToFacts ==
    ASSUME job \in Jobs, NEW name \in BoundNames
    PROVE  /\ IsDataset(BoundTo(name))
           /\ Distinct(Len(job.bound)) =>
                \A i \in DOMAIN job.bound :
                    job.bound[i].name = name => BoundTo(name) = job.bound[i].dataset
<1> DEFINE k == CHOOSE i \in DOMAIN job.bound : job.bound[i].name = name
<1>1. \E i \in DOMAIN job.bound : job.bound[i].name = name
  BY DEF BoundNames
<1>2. k \in DOMAIN job.bound /\ job.bound[k].name = name
  BY <1>1
<1>3. BoundTo(name) = job.bound[k].dataset
  BY DEF BoundTo
<1> HIDE DEF k
<1>4. IsDataset(BoundTo(name))
  BY <1>2, <1>3, JobFacts
<1>5. ASSUME Distinct(Len(job.bound)), NEW i \in DOMAIN job.bound, job.bound[i].name = name
      PROVE  BoundTo(name) = job.bound[i].dataset
  <2>1. DOMAIN job.bound = 1..Len(job.bound)
    BY JobFacts
  <2>2. i = k
    BY <1>2, <1>5, <2>1 DEF Distinct
  <2>3. QED
    BY <1>3, <2>2
<1>6. QED
  BY <1>4, <1>5

\* The number of rows of a bound dataset.
LEMMA DatasetLen ==
    ASSUME NEW d, IsDataset(d)
    PROVE  Len(AllRows(d)) \in Nat
<1>1. 0 \in 0..Len(d.batches)
  BY RowListsType
<1>2. QED
  BY <1>1, UptoPrefix

\* The ratio is compared as the contract means it.
LEMMA BreaksIs ==
    ASSUME job \in Jobs, NEW i \in DOMAIN job.deltas, job.deltas[i].reference \in BoundNames
    PROVE  Breaks(job.deltas[i], Len(AllRows(job.subject)),
                  Len(AllRows(BoundTo(job.deltas[i].reference))))
             <=> i \in BrokenDeltas
<1> DEFINE rows == Len(AllRows(job.subject))
           reference == Len(AllRows(BoundTo(job.deltas[i].reference)))
           low == job.deltas[i].min
           high == job.deltas[i].max
<1>1. rows \in Nat /\ reference \in Nat /\ low \in Int /\ high \in Int
  <2>1. rows \in Nat
    BY SubjectLen
  <2>2. reference \in Nat
    BY BoundToFacts, DatasetLen
  <2>3. low \in Int /\ high \in Int
    BY JobFacts
  <2>4. QED
    BY <2>1, <2>2, <2>3
<1>2. i \in BrokenDeltas <=>
        ~ (/\ reference > 0
           /\ 100 * rows >= (100 + low) * reference
           /\ 100 * rows <= (100 + high) * reference)
  BY DEF BrokenDeltas
<1>3. Breaks(job.deltas[i], rows, reference) <=>
        (\/ reference = 0
         \/ 100 * (rows - reference) < low * reference
         \/ 100 * (rows - reference) > high * reference)
  BY DEF Breaks
<1> HIDE DEF rows, reference, low, high
<1> DEFINE a == low * reference
           b == high * reference
<1>4. a \in Int /\ b \in Int
  BY <1>1
<1>5. (100 + low) * reference = 100 * reference + a /\ (100 + high) * reference = 100 * reference + b
  BY <1>1
<1> HIDE DEF a, b
<1>6. (100 * (rows - reference) < a <=> ~ (100 * rows >= 100 * reference + a))
      /\ (100 * (rows - reference) > b <=> ~ (100 * rows <= 100 * reference + b))
  BY <1>1, <1>4
<1>7. reference = 0 <=> ~ (reference > 0)
  BY <1>1
<1>8. QED
  BY <1>2, <1>3, <1>5, <1>6, <1>7 DEF a, b, rows, reference

\* One more row-count rule.
LEMMA BrokenStep ==
    ASSUME job \in Jobs, NEW i \in DOMAIN job.deltas
    PROVE  Cardinality(BrokenUpto(i))
             = Cardinality(BrokenUpto(i - 1)) + (IF i \in BrokenDeltas THEN 1 ELSE 0)
<1> DEFINE old == BrokenUpto(i - 1)
<1>1. i \in Nat /\ DOMAIN job.deltas \in SUBSET Nat
  <2>1. DOMAIN job.deltas = 1..Len(job.deltas) /\ Len(job.deltas) \in Nat
    BY JobFacts
  <2>2. QED
    BY <2>1
<1>2. BrokenDeltas \in SUBSET Nat
  BY <1>1 DEF BrokenDeltas
<1>3. IsFiniteSet(old)
  <2>1. IsFiniteSet(BrokenDeltas) /\ old \in SUBSET BrokenDeltas
    BY ViolationsFinite DEF BrokenUpto
  <2> HIDE DEF old
  <2>2. QED
    BY <2>1, FS_Subset
<1>4. BrokenUpto(i) = IF i \in BrokenDeltas THEN old \cup {i} ELSE old
  <2>1. \A k \in BrokenDeltas : k <= i <=> k <= i - 1 \/ k = i
    BY <1>1, <1>2
  <2>2. i <= i
    BY <1>1
  <2>3. QED
    BY <2>1, <2>2 DEF BrokenUpto
<1>5. i \notin old
  BY <1>1 DEF BrokenUpto
<1>6. Cardinality(old) \in Nat /\ Cardinality(old \cup {i}) = Cardinality(old) + 1
  <2> HIDE DEF old
  <2>1. QED
    BY <1>3, <1>5, FS_AddElement, FS_CardinalityType
<1>7. QED
  <2> HIDE DEF old
  <2>1. CASE i \in BrokenDeltas
    BY <1>4, <1>6, <2>1 DEF old
  <2>2. CASE i \notin BrokenDeltas
    BY <1>4, <1>6, <2>2 DEF old
  <2>3. QED
    BY <2>1, <2>2

\* Before the first rule none is broken, after the last all that are.
LEMMA BrokenEnds ==
    ASSUME job \in Jobs
    PROVE  BrokenUpto(0) = {} /\ BrokenUpto(Len(job.deltas)) = BrokenDeltas
<1>1. DOMAIN job.deltas = 1..Len(job.deltas) /\ Len(job.deltas) \in Nat
  BY JobFacts
<1>2. \A i \in BrokenDeltas : i \in 1..Len(job.deltas)
  BY <1>1 DEF BrokenDeltas
<1>3. \A i \in 1..Len(job.deltas) : ~ (i <= 0) /\ i <= Len(job.deltas)
  BY <1>1
<1>4. QED
  BY <1>2, <1>3 DEF BrokenUpto

-----------------------------------------------------------------------------
(* What only depends on the job *)

\* The job stays, and what is computed from it.
LEMMA JobKept ==
    ASSUME job' = job
    PROVE  /\ BoundNames' = BoundNames /\ UsedNames' = UsedNames
           /\ \A n : BoundTo(n)' = BoundTo(n)
           /\ \A n : Distinct(n)' = Distinct(n)
           /\ \A n, columns : SealedOf(n, columns)' = SealedOf(n, columns)
           /\ \A i, n : LocalUpto(i, n)' = LocalUpto(i, n)
           /\ \A i : OutcomeOf(i)' = OutcomeOf(i)
           /\ RealFindings' = RealFindings
           /\ Rejections' = Rejections /\ Absences' = Absences /\ BrokenDeltas' = BrokenDeltas
           /\ \A n : RejectionsUpto(n)' = RejectionsUpto(n)
           /\ \A n : AbsencesUpto(n)' = AbsencesUpto(n)
           /\ \A n : BrokenUpto(n)' = BrokenUpto(n)
<1>1. BoundNames' = BoundNames /\ UsedNames' = UsedNames
  BY DEF BoundNames, UsedNames
<1>2. \A n : BoundTo(n)' = BoundTo(n)
  BY DEF BoundTo
<1>3. \A n : Distinct(n)' = Distinct(n)
  BY DEF Distinct
<1>4. \A n, columns : SealedOf(n, columns)' = SealedOf(n, columns)
  BY <1>2 DEF SealedOf
<1>5. \A i, r : OurKey(i, r)' = OurKey(i, r)
  BY DEF OurKey
<1>6. \A i, n : LocalUpto(i, n)' = LocalUpto(i, n)
  BY <1>5 DEF LocalUpto
<1>7. \A i : Ours(i)' = Ours(i)
  BY DEF Ours
<1>8. \A i : Theirs(i)' = Theirs(i)
  BY <1>2 DEF Theirs
<1>9. \A i : OutcomeOf(i)' = OutcomeOf(i)
  BY <1>4, <1>7, <1>8 DEF OutcomeOf
<1>10. \A i : Rejected(i)' = Rejected(i)
  BY DEF Rejected
<1>11. \A i, r : RealRow(i, r)' = RealRow(i, r)
  BY <1>5, <1>7, <1>8, <1>10 DEF RealRow
<1>12. RealFindings' = RealFindings
  BY <1>11 DEF RealFindings
<1>13. Rejections' = Rejections /\ Absences' = Absences /\ BrokenDeltas' = BrokenDeltas
  <2>1. Rejections' = Rejections
    BY <1>10 DEF Rejections
  <2>2. Absences' = Absences
    BY <1>7, <1>8 DEF Absences
  <2>3. BrokenDeltas' = BrokenDeltas
    BY <1>2 DEF BrokenDeltas
  <2>4. QED
    BY <2>1, <2>2, <2>3
<1>14. /\ \A n : RejectionsUpto(n)' = RejectionsUpto(n)
       /\ \A n : AbsencesUpto(n)' = AbsencesUpto(n)
       /\ \A n : BrokenUpto(n)' = BrokenUpto(n)
  BY <1>13 DEF RejectionsUpto, AbsencesUpto, BrokenUpto
<1>15. QED
  BY <1>1, <1>2, <1>3, <1>4, <1>6, <1>9, <1>12, <1>13, <1>14

-----------------------------------------------------------------------------
(* The initial states, and steps that leave most of the state alone *)

\* What the invariant says of the job.
LEMMA InvJob == Inv => job \in Jobs /\ rule \in Nat \ {0} /\ batch \in Nat \ {0}
BY DEF Inv, TypeInv

\* The invariant holds at first.
LEMMA InvInit == Init => Inv
<1> SUFFICES ASSUME Init PROVE Inv
  OBVIOUS
<1> USE DEF Init
<1>1. TypeInv
  BY DEF TypeInv, Before, After, NoScan
<1>2. BindInv
  <2>1. Len(job.bound) \in Nat
    BY JobFacts
  <2>2. rule \in 1..Len(job.bound) + 1 /\ 1..rule - 1 = {}
    BY <2>1
  <2>3. DOMAIN bindings = {} /\ DOMAIN counted = {} /\ DOMAIN scanned = {}
    OBVIOUS
  <2>4. DOMAIN bindings = {job.bound[i].name : i \in 1..rule - 1} /\ Distinct(rule - 1)
    BY <2>2, <2>3 DEF Distinct
  <2>5. QED
    BY <2>2, <2>3, <2>4 DEF BindInv
<1>3. NamesInv
  BY DEF NamesInv, ScannedNames, After
<1>4. PreparedInv
  <2>1. Len(prepared) = 0 /\ IsSequence(prepared)
    BY DEF IsSequence
  <2>2. Len(job.plans) \in Nat
    BY JobFacts
  <2>3. QED
    BY <2>1, <2>2 DEF PreparedInv
<1>5. ReadInv
  BY DEF ReadInv
<1>6. LocalInv
  BY DEF LocalInv, Before, After
<1>7. ReportInv /\ CountInv
  <2>1. Min({FindingLimit, 0}) = 0 /\ Len(job.plans) \in Nat
    <3>1. FindingLimit \in Nat /\ Len(job.plans) \in Nat
      BY JobFacts
    <3>2. QED
      BY <3>1, MinOfTwo
  <2>2. report = [violations |-> 0, findings |-> <<>>, outcomes |-> <<>>]
    BY DEF NoReport
  <2>3. <<>> = [i \in 1..0 |-> OutcomeOf(i)]
    OBVIOUS
  <2>4. ReportInv
    BY <2>1, <2>2, <2>3 DEF ReportInv
  <2>5. QED
    BY <2>4 DEF CountInv, Before
<1>8. QED
  BY <1>1, <1>2, <1>3, <1>4, <1>5, <1>6, <1>7 DEF Inv

\* A failed execution keeps what it has.
LEMMA FailKeeps ==
    ASSUME Inv, NEW e, Fail(e)
    PROVE  Inv'
<1>1. pc' = "failed" /\ UNCHANGED <<job, bindings, counted, scanned, prepared, rule, reader,
                                    batch, scan, local, report>>
  BY DEF Fail
<1>2. TypeInv'
  BY <1>1 DEF Inv, TypeInv
<1>3. BindInv'
  BY <1>1 DEF Inv, BindInv
<1>4. NamesInv'
  BY <1>1, JobKept DEF Inv, NamesInv, ScannedNames, After
<1>5. PreparedInv'
  BY <1>1 DEF Inv, PreparedInv, ReferenceCacheKey
<1>6. ReadInv'
  BY <1>1, JobKept DEF Inv, ReadInv
<1>7. LocalInv' /\ CountInv'
  BY <1>1 DEF LocalInv, CountInv, Before, After
<1>8. ReportInv'
  BY <1>1, JobKept DEF Inv, ReportInv
<1>9. QED
  BY <1>2, <1>3, <1>4, <1>5, <1>6, <1>7, <1>8 DEF Inv

\* The token and the error do not matter to the invariant.
LEMMA UnchangedKeeps ==
    ASSUME Inv, UNCHANGED <<job, bindings, counted, scanned, prepared, rule, reader, batch,
                            scan, local, report, pc>>
    PROVE  Inv'
<1>1. TypeInv'
  BY DEF Inv, TypeInv
<1>2. BindInv'
  BY JobKept DEF Inv, BindInv
<1>3. NamesInv'
  BY JobKept DEF Inv, NamesInv, ScannedNames, Current, Delta, Plan
<1>4. PreparedInv'
  BY DEF Inv, PreparedInv, ReferenceCacheKey
<1>5. ReadInv'
  BY JobKept DEF Inv, ReadInv, Delta, Plan
<1>6. LocalInv'
  BY JobKept DEF Inv, LocalInv
<1>7. ReportInv' /\ CountInv'
  BY JobKept DEF Inv, ReportInv, CountInv
<1>8. QED
  BY <1>1, <1>2, <1>3, <1>4, <1>5, <1>6, <1>7 DEF Inv

\* Until the subject is read nothing is collected and nothing reported.
LEMMA BeforeKeeps ==
    ASSUME Inv, pc \in Before, pc' \in Before, job' = job, local' = local, report' = report
    PROVE  LocalInv' /\ ReportInv' /\ CountInv'
<1>1. pc' # "subject" /\ pc' # "finish" /\ pc' # "compare" /\ pc' # "done" /\ pc' \notin After
  BY DEF Before, After
<1>2. LocalInv'
  BY <1>1 DEF Inv, LocalInv
<1>3. ReportInv'
  BY JobKept DEF Inv, ReportInv
<1>4. CountInv'
  BY <1>1 DEF Inv, CountInv
<1>5. QED
  BY <1>2, <1>3, <1>4

-----------------------------------------------------------------------------
(* Binding *)

\* A name that is not bound is bound; a name is not bound twice.
LEMMA BindKeeps ==
    ASSUME Inv, Bind
    PROVE  Inv'
<1> DEFINE new == job.bound[rule]
<1>1. pc = "bind" /\ rule \in DOMAIN job.bound /\ job \in Jobs /\ rule \in Nat \ {0}
  BY InvJob DEF Bind
<1>2. CASE new.name \in DOMAIN bindings
  BY <1>2, FailKeeps DEF Bind
<1>3. CASE new.name \notin DOMAIN bindings
  <2>1. /\ bindings' = [n \in DOMAIN bindings \cup {new.name} |->
                          IF n = new.name THEN new.dataset ELSE bindings[n]]
        /\ rule' = rule + 1
        /\ UNCHANGED <<job, counted, scanned, prepared, reader, batch, scan, local, report,
                       cancelled, pc, err>>
    BY <1>3 DEF Bind
  <2>2. TypeInv'
    BY <1>1, <2>1 DEF Inv, TypeInv
  <2>3. BindInv'
    <3>1. /\ \A n \in DOMAIN bindings : \E i \in DOMAIN job.bound :
                job.bound[i].name = n /\ bindings[n] = job.bound[i].dataset
          /\ DOMAIN bindings = {job.bound[i].name : i \in 1..rule - 1}
          /\ Distinct(rule - 1) /\ DOMAIN counted = {} /\ DOMAIN scanned = {}
      BY <1>1 DEF Inv, BindInv
    <3>2. \A n \in DOMAIN bindings' : \E i \in DOMAIN job.bound :
                job.bound[i].name = n /\ bindings'[n] = job.bound[i].dataset
      BY <1>1, <2>1, <3>1
    <3>3. DOMAIN job.bound = 1..Len(job.bound) /\ Len(job.bound) \in Nat
      BY <1>1, JobFacts
    <3>4. rule' \in 1..Len(job.bound) + 1 /\ rule' - 1 = rule /\ 1..rule = (1..rule - 1) \cup {rule}
      BY <1>1, <2>1, <3>3
    <3>5. DOMAIN bindings' = {job.bound[i].name : i \in 1..rule}
      BY <2>1, <3>1, <3>4
    <3>6. Distinct(rule)
      <4>1. \A i \in 1..rule - 1 : job.bound[i].name # job.bound[rule].name
        BY <1>3, <3>1
      <4>2. QED
        BY <3>1, <3>4, <4>1 DEF Distinct
    <3>7. Distinct(rule - 1)'
      BY <2>1, <3>4, <3>6 DEF Distinct
    <3>8. DOMAIN bindings' = {job'.bound[i].name : i \in 1..rule' - 1}
      BY <2>1, <3>4, <3>5
    <3>9. \A n \in DOMAIN bindings' : \E i \in DOMAIN job'.bound :
                job'.bound[i].name = n /\ bindings'[n] = job'.bound[i].dataset
      <4> TAKE n \in DOMAIN bindings'
      <4>1. PICK i \in DOMAIN job.bound :
              job.bound[i].name = n /\ bindings'[n] = job.bound[i].dataset
        BY <3>2
      <4>2. job' = job
        BY <2>1
      <4>3. QED
        BY <4>1, <4>2
    <3>10. /\ rule' \in 1..Len(job'.bound) + 1
           /\ DOMAIN counted' = {} /\ DOMAIN scanned' = {} /\ pc' = "bind"
      BY <1>1, <2>1, <3>1, <3>4
    <3>11. QED
      BY <3>7, <3>8, <3>9, <3>10 DEF BindInv
  <2>4. NamesInv'
    BY <1>1, <2>1, JobKept DEF Inv, NamesInv, ScannedNames, After
  <2>5. PreparedInv'
    BY <2>1 DEF Inv, PreparedInv, ReferenceCacheKey
  <2>6. ReadInv'
    BY <1>1, <2>1, JobKept DEF Inv, ReadInv
  <2>7. LocalInv' /\ ReportInv' /\ CountInv'
    BY <1>1, <2>1, BeforeKeeps DEF Before
  <2>8. QED
    BY <2>2, <2>3, <2>4, <2>5, <2>6, <2>7 DEF Inv
<1>4. QED
  BY <1>2, <1>3

\* When every binding is made the names are distinct, and row-count rules come first.
LEMMA BindEndKeeps ==
    ASSUME Inv, BindEnd
    PROVE  Inv'
<1>1. /\ pc = "bind" /\ rule \notin DOMAIN job.bound /\ job \in Jobs /\ rule \in Nat \ {0}
      /\ pc' = "count" /\ rule' = 1 /\ batch' = 1 /\ scan' = NoScan
      /\ UNCHANGED <<job, bindings, counted, scanned, prepared, reader, local, report>>
  BY InvJob DEF BindEnd, Enter
<1>2. TypeInv'
  BY <1>1 DEF Inv, TypeInv, Before, NoScan
<1>3. /\ rule = Len(job.bound) + 1 /\ DOMAIN bindings = BoundNames /\ Distinct(Len(job.bound))
      /\ DOMAIN counted = {} /\ DOMAIN scanned = {}
  <2>1. DOMAIN job.bound = 1..Len(job.bound) /\ Len(job.bound) \in Nat
    BY <1>1, JobFacts
  <2>2. /\ rule \in 1..Len(job.bound) + 1
        /\ DOMAIN bindings = {job.bound[i].name : i \in 1..rule - 1}
        /\ Distinct(rule - 1)
        /\ DOMAIN counted = {} /\ DOMAIN scanned = {}
    BY <1>1 DEF Inv, BindInv
  <2>3. rule = Len(job.bound) + 1 /\ rule - 1 = Len(job.bound)
    BY <1>1, <2>1, <2>2
  <2>4. QED
    BY <2>1, <2>2, <2>3 DEF BoundNames
<1>4. BindInv'
  BY <1>1, <1>3, JobKept DEF Inv, BindInv
<1>5. NamesInv'
  <2>1. Len(job.deltas) \in Nat /\ 1..0 = {}
    BY <1>1, JobFacts
  <2>2. rule' \in 1..Len(job.deltas) + 1 /\ 1..rule' - 1 = {}
    BY <1>1, <2>1
  <2>3. ScannedNames' = {} /\ DOMAIN counted' = {}
    BY <1>1, <1>3 DEF ScannedNames
  <2>4. BoundNames' = DOMAIN bindings'
    BY <1>1, <1>3, JobKept
  <2>5. QED
    BY <1>1, <2>2, <2>3, <2>4 DEF NamesInv, After
<1>6. PreparedInv'
  BY <1>1 DEF Inv, PreparedInv, ReferenceCacheKey
<1>7. ReadInv'
  BY <1>1, JobKept DEF Inv, ReadInv
<1>8. LocalInv' /\ ReportInv' /\ CountInv'
  BY <1>1, BeforeKeeps DEF Before
<1>9. QED
  BY <1>2, <1>4, <1>5, <1>6, <1>7, <1>8 DEF Inv

-----------------------------------------------------------------------------
(* count_delta_references *)

\* A reader that is taken is that of the dataset bound to the name.
LEMMA TakenFacts ==
    ASSUME Inv, pc \notin {"bind", "failed"}, NEW name \in DOMAIN bindings
    PROVE  /\ name \in BoundNames /\ bindings[name] = BoundTo(name)
           /\ IsDataset(BoundTo(name)) /\ Upto(BoundTo(name), 0) = <<>>
<1>1. job \in Jobs /\ Distinct(Len(job.bound))
  BY DEF Inv, TypeInv, BindInv
<1>2. PICK i \in DOMAIN job.bound : job.bound[i].name = name /\ bindings[name] = job.bound[i].dataset
  BY DEF Inv, BindInv
<1>3. name \in BoundNames
  BY <1>2 DEF BoundNames
<1>4. bindings[name] = BoundTo(name) /\ IsDataset(BoundTo(name))
  BY <1>1, <1>2, <1>3, BoundToFacts
<1>5. QED
  BY <1>3, <1>4, UptoEnds

\* The row-count rules are those of the contract.
LEMMA DeltaFacts ==
    ASSUME job \in Jobs
    PROVE  /\ Len(job.deltas) \in Nat /\ DOMAIN job.deltas = 1..Len(job.deltas)
           /\ \A i \in DOMAIN job.deltas : job.deltas[i].reference \in UsedNames
BY JobFacts DEF UsedNames

\* A dataset that has been counted for one row-count rule serves the next.
LEMMA AlreadyCountedKeeps ==
    ASSUME Inv, AlreadyCounted
    PROVE  Inv'
<1>1. /\ pc = "count" /\ rule \in DOMAIN job.deltas /\ Delta.reference \in DOMAIN counted
      /\ job \in Jobs /\ rule \in Nat \ {0} /\ rule' = rule + 1
      /\ UNCHANGED <<job, bindings, counted, scanned, prepared, reader, batch, scan, local,
                     report, pc>>
  BY InvJob DEF AlreadyCounted, CountRule
<1>2. TypeInv'
  BY <1>1 DEF Inv, TypeInv
<1>3. BindInv'
  BY <1>1, JobKept DEF Inv, BindInv
<1>4. NamesInv'
  <2>1. /\ rule \in 1..Len(job.deltas) + 1
        /\ \A i \in 1..rule - 1 : job.deltas[i].reference \in DOMAIN counted
        /\ DOMAIN counted \cup ScannedNames \subseteq UsedNames \cap BoundNames
        /\ BoundNames \subseteq DOMAIN bindings \cup DOMAIN counted \cup ScannedNames
    BY <1>1 DEF Inv, NamesInv, Current
  <2>2. rule' \in 1..Len(job.deltas) + 1 /\ rule' - 1 = rule /\ 1..rule = (1..rule - 1) \cup {rule}
    BY <1>1, DeltaFacts
  <2>3. \A i \in 1..rule' - 1 : job'.deltas[i].reference \in DOMAIN counted'
    BY <1>1, <2>1, <2>2 DEF Delta
  <2>4. ScannedNames' = ScannedNames
    BY <1>1 DEF ScannedNames
  <2>5. QED
    BY <1>1, <2>1, <2>2, <2>3, <2>4, JobKept DEF NamesInv, After
<1>5. PreparedInv'
  BY <1>1 DEF Inv, PreparedInv, ReferenceCacheKey
<1>6. ReadInv'
  BY <1>1, JobKept DEF Inv, ReadInv
<1>7. LocalInv' /\ ReportInv' /\ CountInv'
  BY <1>1, BeforeKeeps DEF Before
<1>8. QED
  BY <1>2, <1>3, <1>4, <1>5, <1>6, <1>7 DEF Inv

\* The reader of a row-count rule is taken, and nothing of it has been read.
LEMMA TakeToCountKeeps ==
    ASSUME Inv, TakeToCount
    PROVE  Inv'
<1> DEFINE name == Delta.reference
<1>1. /\ pc = "count" /\ rule \in DOMAIN job.deltas /\ name \notin DOMAIN counted
      /\ job \in Jobs /\ rule \in Nat \ {0}
  BY InvJob DEF TakeToCount, CountRule
<1>2. CASE name \notin DOMAIN bindings
  BY <1>2, FailKeeps DEF TakeToCount
<1>3. CASE name \in DOMAIN bindings
  <2>1. /\ reader' = bindings[name]
        /\ bindings' = [n \in DOMAIN bindings \ {name} |-> bindings[n]]
        /\ batch' = 1 /\ scan' = NoScan /\ pc' = "drain"
        /\ UNCHANGED <<job, counted, scanned, prepared, rule, local, report>>
    BY <1>3 DEF TakeToCount, Take, Restrict
  <2>2. TypeInv'
    BY <1>1, <2>1 DEF Inv, TypeInv, Before, NoScan
  <2>3. BindInv'
    BY <1>1, <2>1, JobKept DEF Inv, BindInv
  <2>4. /\ name \in BoundNames /\ reader' = BoundTo(name)
        /\ IsDataset(BoundTo(name)) /\ Upto(BoundTo(name), 0) = <<>>
    BY <1>1, <1>3, <2>1, TakenFacts
  <2>5. NamesInv'
    <3>1. /\ rule \in 1..Len(job.deltas) + 1
          /\ \A i \in 1..rule - 1 : job.deltas[i].reference \in DOMAIN counted
          /\ DOMAIN counted \cup ScannedNames \subseteq UsedNames \cap BoundNames
          /\ BoundNames \subseteq DOMAIN bindings \cup DOMAIN counted \cup ScannedNames
      BY <1>1 DEF Inv, NamesInv, Current
    <3>2. ScannedNames' = ScannedNames /\ Delta' = Delta
      BY <2>1 DEF ScannedNames, Delta
    <3>3. Current' = {name}
      BY <2>1, <3>2 DEF Current
    <3>4. QED
      BY <1>1, <2>1, <2>4, <3>1, <3>2, <3>3, JobKept DEF NamesInv, After
  <2>6. PreparedInv'
    BY <1>1, <2>1 DEF Inv, PreparedInv, ReferenceCacheKey
  <2>7. ReadInv'
    <3>1. Delta' = Delta
      BY <2>1 DEF Delta
    <3>2. batch' \in 1..Len(reader'.batches) + 1
      BY <2>1, <2>4, RowListsType
    <3>3. scan'.rows = Len(Upto(reader', batch' - 1))
      BY <2>1, <2>4 DEF NoScan
    <3>4. /\ \A n \in DOMAIN counted : counted[n] = Len(AllRows(BoundTo(n)))
          /\ \A k \in DOMAIN scanned : k = <<k[1], k[2]>> /\ scanned[k] = SealedOf(k[1], k[2])
      BY DEF Inv, ReadInv
    <3>5. QED
      BY <2>1, <2>4, <3>1, <3>2, <3>3, <3>4, JobKept DEF ReadInv
  <2>8. LocalInv' /\ ReportInv' /\ CountInv'
    BY <1>1, <2>1, BeforeKeeps DEF Before
  <2>9. QED
    BY <2>2, <2>3, <2>5, <2>6, <2>7, <2>8 DEF Inv
<1>4. QED
  BY <1>2, <1>3

\* A batch of a dataset whose rows are counted is counted.
LEMMA CountBatchKeeps ==
    ASSUME Inv, CountBatch
    PROVE  Inv'
<1> DEFINE b == reader.batches[batch]
<1>1. /\ pc = "drain" /\ batch \in DOMAIN reader.batches
      /\ job \in Jobs /\ rule \in Nat \ {0} /\ batch \in Nat \ {0}
  BY InvJob DEF CountBatch
<1>2. CASE \E e : Fail(e)
  BY <1>2, FailKeeps
<1>3. CASE ~ \E e : Fail(e)
  <2>1. /\ scan' = [scan EXCEPT !.rows = @ + Len(b.rows)] /\ batch' = batch + 1
        /\ UNCHANGED <<job, bindings, counted, scanned, prepared, rule, reader, local, report, pc>>
    BY <1>3 DEF CountBatch
  <2>2. TypeInv'
    BY <1>1, <2>1 DEF Inv, TypeInv
  <2>3. BindInv'
    BY <1>1, <2>1, JobKept DEF Inv, BindInv
  <2>4. NamesInv'
    BY <1>1, <2>1, JobKept DEF Inv, NamesInv, ScannedNames, Current, Delta, After
  <2>5. PreparedInv'
    BY <2>1 DEF Inv, PreparedInv, ReferenceCacheKey
  <2>6. ReadInv'
    <3>1. /\ reader = BoundTo(Delta.reference) /\ scan.rows = Len(Upto(reader, batch - 1))
          /\ Delta.reference \in BoundNames
      BY <1>1 DEF Inv, ReadInv, NamesInv
    <3>2. IsDataset(reader)
      BY <1>1, <3>1, BoundToFacts
    <3>3. batch \in 1..Len(reader.batches) /\ Len(reader.batches) \in Nat
      BY <1>1, <3>2, RowListsType
    <3>4. Len(Upto(reader, batch)) = Len(Upto(reader, batch - 1)) + Len(b.rows)
      BY <3>2, <3>3, BatchRows
    <3>5. /\ batch' \in 1..Len(reader'.batches) + 1 /\ batch' - 1 = batch
          /\ Delta' = Delta
      BY <1>1, <2>1, <3>3 DEF Delta
    <3>6. scan'.rows = Len(Upto(reader', batch' - 1))
      <4>1. scan'.rows = scan.rows + Len(b.rows)
        <5>1. "rows" \in DOMAIN scan
          BY DEF Inv, TypeInv
        <5>2. QED
          BY <2>1, <5>1
      <4>2. QED
        BY <2>1, <3>1, <3>4, <3>5, <4>1
    <3>7. /\ \A n \in DOMAIN counted : counted[n] = Len(AllRows(BoundTo(n)))
          /\ \A k \in DOMAIN scanned : k = <<k[1], k[2]>> /\ scanned[k] = SealedOf(k[1], k[2])
      BY DEF Inv, ReadInv
    <3>8. (\A n \in DOMAIN counted : counted[n] = Len(AllRows(BoundTo(n))))'
      BY <2>1, <3>7, JobKept
    <3>9. (\A k \in DOMAIN scanned : k = <<k[1], k[2]>> /\ scanned[k] = SealedOf(k[1], k[2]))'
      BY <2>1, <3>7, JobKept
    <3>10. (reader = BoundTo(Delta.reference))'
      BY <2>1, <3>1, <3>5, JobKept
    <3>11. pc' = "drain"
      BY <1>1, <2>1
    <3>12. QED
      BY <3>5, <3>6, <3>8, <3>9, <3>10, <3>11 DEF ReadInv
  <2>7. LocalInv' /\ ReportInv' /\ CountInv'
    BY <1>1, <2>1, BeforeKeeps DEF Before
  <2>8. QED
    BY <2>2, <2>3, <2>4, <2>5, <2>6, <2>7 DEF Inv
<1>4. QED
  BY <1>2, <1>3

\* The rows of a whole dataset are counted when all of it has been read.
LEMMA CountEndKeeps ==
    ASSUME Inv, CountEnd
    PROVE  Inv'
<1> DEFINE name == Delta.reference
<1>1. /\ pc = "drain" /\ batch \notin DOMAIN reader.batches
      /\ job \in Jobs /\ rule \in Nat \ {0} /\ batch \in Nat \ {0}
      /\ counted' = [n \in DOMAIN counted \cup {name} |-> IF n = name THEN scan.rows ELSE counted[n]]
      /\ pc' = "count" /\ rule' = rule + 1
      /\ UNCHANGED <<job, bindings, scanned, prepared, reader, batch, scan, local, report>>
  BY InvJob DEF CountEnd
<1>2. TypeInv'
  BY <1>1 DEF Inv, TypeInv, Before
<1>3. BindInv'
  BY <1>1, JobKept DEF Inv, BindInv
<1>4. NamesInv'
  <2>1. /\ rule \in 1..Len(job.deltas) + 1
        /\ \A i \in 1..rule - 1 : job.deltas[i].reference \in DOMAIN counted
        /\ DOMAIN counted \cup ScannedNames \subseteq UsedNames \cap BoundNames
        /\ BoundNames \subseteq DOMAIN bindings \cup DOMAIN counted \cup ScannedNames \cup {name}
        /\ rule \in DOMAIN job.deltas /\ name \in BoundNames
    BY <1>1 DEF Inv, NamesInv, Current
  <2>2. rule' \in 1..Len(job.deltas) + 1 /\ rule' - 1 = rule /\ 1..rule = (1..rule - 1) \cup {rule}
    BY <1>1, <2>1, DeltaFacts
  <2>3. DOMAIN counted' = DOMAIN counted \cup {name} /\ name \in UsedNames
    BY <1>1, <2>1, DeltaFacts DEF Delta
  <2>4. \A i \in 1..rule' - 1 : job'.deltas[i].reference \in DOMAIN counted'
    BY <1>1, <2>1, <2>2, <2>3 DEF Delta
  <2>5. ScannedNames' = ScannedNames
    BY <1>1 DEF ScannedNames
  <2>6. QED
    BY <1>1, <2>1, <2>2, <2>3, <2>4, <2>5, JobKept DEF NamesInv, After
<1>5. PreparedInv'
  BY <1>1 DEF Inv, PreparedInv, ReferenceCacheKey
<1>6. ReadInv'
  <2>1. /\ reader = BoundTo(name) /\ scan.rows = Len(Upto(reader, batch - 1))
        /\ name \in BoundNames /\ batch \in 1..Len(reader.batches) + 1
    BY <1>1 DEF Inv, ReadInv, NamesInv
  <2>2. IsDataset(reader)
    BY <1>1, <2>1, BoundToFacts
  <2>3. batch - 1 = Len(reader.batches)
    BY <1>1, <2>1, <2>2, RowListsType
  <2>4. scan.rows = Len(AllRows(BoundTo(name)))
    BY <2>1, <2>2, <2>3, UptoEnds
  <2>5. /\ \A n \in DOMAIN counted : counted[n] = Len(AllRows(BoundTo(n)))
        /\ \A k \in DOMAIN scanned : k = <<k[1], k[2]>> /\ scanned[k] = SealedOf(k[1], k[2])
    BY DEF Inv, ReadInv
  <2>6. \A n \in DOMAIN counted' : counted'[n] = Len(AllRows(BoundTo(n)))
    BY <1>1, <2>4, <2>5
  <2>7. (\A n \in DOMAIN counted : counted[n] = Len(AllRows(BoundTo(n))))'
    BY <1>1, <2>6, JobKept
  <2>8. (\A k \in DOMAIN scanned : k = <<k[1], k[2]>> /\ scanned[k] = SealedOf(k[1], k[2]))'
    BY <1>1, <2>5, JobKept
  <2>9. QED
    BY <1>1, <2>7, <2>8 DEF ReadInv
<1>7. LocalInv' /\ ReportInv' /\ CountInv'
  BY <1>1, BeforeKeeps DEF Before
<1>8. QED
  BY <1>2, <1>3, <1>4, <1>5, <1>6, <1>7 DEF Inv

\* After the last row-count rule the reference rules are prepared.
LEMMA AllCountedKeeps ==
    ASSUME Inv, AllCounted
    PROVE  Inv'
<1>1. /\ pc = "count" /\ rule \notin DOMAIN job.deltas /\ job \in Jobs /\ rule \in Nat \ {0}
      /\ pc' = "prepare" /\ rule' = 1 /\ batch' = 1 /\ scan' = NoScan
      /\ UNCHANGED <<job, bindings, counted, scanned, prepared, reader, local, report>>
  BY InvJob DEF AllCounted, Enter
<1>2. TypeInv'
  BY <1>1 DEF Inv, TypeInv, Before, NoScan
<1>3. BindInv'
  BY <1>1, JobKept DEF Inv, BindInv
<1>4. NamesInv'
  <2>1. /\ rule \in 1..Len(job.deltas) + 1
        /\ \A i \in 1..rule - 1 : job.deltas[i].reference \in DOMAIN counted
        /\ DOMAIN counted \cup ScannedNames \subseteq UsedNames \cap BoundNames
        /\ BoundNames \subseteq DOMAIN bindings \cup DOMAIN counted \cup ScannedNames
    BY <1>1 DEF Inv, NamesInv, Current
  <2>2. rule - 1 = Len(job.deltas)
    BY <1>1, <2>1, DeltaFacts
  <2>3. \A i \in DOMAIN job.deltas : job.deltas[i].reference \in DOMAIN counted
    BY <1>1, <2>1, <2>2, DeltaFacts
  <2>4. Len(prepared) = 0 /\ Len(job.plans) \in Nat
    BY <1>1, JobFacts DEF Inv, PreparedInv
  <2>5. ScannedNames' = ScannedNames
    BY <1>1 DEF ScannedNames
  <2>6. rule' \in 1..Len(job.plans) + 1 /\ Len(prepared') = rule' - 1
    BY <1>1, <2>4
  <2>7. QED
    BY <1>1, <2>1, <2>3, <2>5, <2>6, JobKept DEF NamesInv, After
<1>5. PreparedInv'
  BY <1>1 DEF Inv, PreparedInv, ReferenceCacheKey
<1>6. ReadInv'
  BY <1>1, JobKept DEF Inv, ReadInv
<1>7. LocalInv' /\ ReportInv' /\ CountInv'
  BY <1>1, BeforeKeeps DEF Before
<1>8. QED
  BY <1>2, <1>3, <1>4, <1>5, <1>6, <1>7 DEF Inv

-----------------------------------------------------------------------------
(* prepare *)

\* The reference rules are those of the contract.
LEMMA PlansFacts ==
    ASSUME job \in Jobs
    PROVE  /\ Len(job.plans) \in Nat /\ DOMAIN job.plans = 1..Len(job.plans)
           /\ \A i \in DOMAIN job.plans : job.plans[i].reference \in UsedNames
BY JobFacts DEF UsedNames

\* A cached scan is taken for a rule on the same dataset and key columns.
LEMMA ReuseKeeps ==
    ASSUME Inv, Reuse
    PROVE  Inv'
<1> DEFINE key == ReferenceCacheKey(Plan)
<1>1. /\ pc = "prepare" /\ rule \in DOMAIN job.plans /\ key \in DOMAIN scanned
      /\ job \in Jobs /\ rule \in Nat \ {0}
      /\ prepared' = Append(prepared, scanned[key]) /\ rule' = rule + 1
      /\ UNCHANGED <<job, bindings, counted, scanned, reader, batch, scan, local, report, pc>>
  BY InvJob DEF Reuse, PrepareRule
<1>2. /\ rule \in 1..Len(job.plans) + 1 /\ Len(prepared) = rule - 1
      /\ IsSequence(prepared)
  BY <1>1 DEF Inv, NamesInv, PreparedInv
<1>3. /\ prepared' \in Seq(Range(prepared) \cup {scanned[key]})
      /\ Len(prepared') = rule
      /\ \A i \in 1..rule - 1 : prepared'[i] = prepared[i]
      /\ prepared'[rule] = scanned[key]
  <2> DEFINE S == Range(prepared) \cup {scanned[key]}
             x == scanned[key]
  <2>1. prepared \in Seq(S) /\ x \in S
    <3>1. prepared \in Seq(Range(prepared))
      BY <1>2 DEF IsSequence
    <3>2. QED
      BY <3>1
  <2> HIDE DEF S, x
  <2>2. /\ Append(prepared, x) \in Seq(S)
        /\ Len(Append(prepared, x)) = rule
        /\ \A i \in 1..rule - 1 : Append(prepared, x)[i] = prepared[i]
        /\ Append(prepared, x)[rule] = x
    BY <1>1, <1>2, <2>1
  <2>3. QED
    BY <1>1, <2>2 DEF S, x
<1>4. TypeInv'
  BY <1>1 DEF Inv, TypeInv
<1>5. BindInv'
  BY <1>1, JobKept DEF Inv, BindInv
<1>6. rule' \in 1..Len(job.plans) + 1 /\ rule' - 1 = rule /\ 1..rule = (1..rule - 1) \cup {rule}
  BY <1>1, <1>2, PlansFacts
<1>7. NamesInv'
  <2>1. ScannedNames' = ScannedNames
    BY <1>1 DEF ScannedNames
  <2>2. Current' = Current
    BY <1>1 DEF Current
  <2>3. rule' \in 1..Len(job'.plans) + 1 /\ Len(prepared') = rule' - 1
    BY <1>1, <1>3, <1>6
  <2>4. QED
    BY <1>1, <2>1, <2>2, <2>3, JobKept DEF Inv, NamesInv, After
<1>8. PreparedInv'
  <2>1. IsSequence(prepared')
    <3>1. DOMAIN prepared' = 1..Len(prepared') /\ Len(prepared') \in Nat
      BY <1>3
    <3>2. prepared' \in [1..Len(prepared') -> Range(prepared')]
      BY <1>3, <3>1 DEF Range
    <3>3. QED
      BY <3>1, <3>2, FunctionIsSeq DEF IsSequence
  <2>2. Len(prepared') <= Len(job'.plans)
    BY <1>1, <1>2, <1>3, PlansFacts
  <2>3. \A i \in 1..rule - 1 : /\ ReferenceCacheKey(job.plans[i]) \in DOMAIN scanned
                               /\ prepared[i] = scanned[ReferenceCacheKey(job.plans[i])]
    BY <1>2 DEF Inv, PreparedInv
  <2>4. \A i \in 1..rule : /\ ReferenceCacheKey(job.plans[i]) \in DOMAIN scanned
                           /\ prepared'[i] = scanned[ReferenceCacheKey(job.plans[i])]
    BY <1>1, <1>3, <1>6, <2>3 DEF Plan
  <2>5. \A i \in 1..Len(prepared') : /\ ReferenceCacheKey(job'.plans[i]) \in DOMAIN scanned'
                                     /\ prepared'[i] = scanned'[ReferenceCacheKey(job'.plans[i])]
    BY <1>1, <1>3, <2>4
  <2>6. QED
    BY <1>1, <2>1, <2>2, <2>5 DEF PreparedInv
<1>9. ReadInv'
  BY <1>1, JobKept DEF Inv, ReadInv
<1>10. LocalInv' /\ ReportInv' /\ CountInv'
  BY <1>1, BeforeKeeps DEF Before
<1>11. QED
  BY <1>4, <1>5, <1>7, <1>8, <1>9, <1>10 DEF Inv

\* A dataset is taken to be scanned once its key columns are resolved.
LEMMA TakeToScanKeeps ==
    ASSUME Inv, TakeToScan
    PROVE  Inv'
<1> DEFINE name == Plan.reference
<1>1. /\ pc = "prepare" /\ rule \in DOMAIN job.plans
      /\ job \in Jobs /\ rule \in Nat \ {0}
  BY InvJob DEF TakeToScan, PrepareRule
<1>2. CASE \E e : Fail(e)
  BY <1>2, FailKeeps
<1>3. CASE ~ \E e : Fail(e)
  <2>1. /\ name \in DOMAIN bindings /\ reader' = bindings[name]
        /\ bindings' = [n \in DOMAIN bindings \ {name} |-> bindings[n]]
        /\ batch' = 1 /\ scan' = NoScan /\ pc' = "scan"
        /\ UNCHANGED <<job, counted, scanned, prepared, rule, local, report>>
    BY <1>3 DEF TakeToScan, Take, Restrict
  <2>2. TypeInv'
    BY <1>1, <2>1 DEF Inv, TypeInv, Before, NoScan
  <2>3. BindInv'
    BY <1>1, <2>1, JobKept DEF Inv, BindInv
  <2>4. /\ name \in BoundNames /\ reader' = BoundTo(name)
        /\ IsDataset(BoundTo(name)) /\ Upto(BoundTo(name), 0) = <<>>
    BY <1>1, <2>1, TakenFacts
  <2>5. ScannedNames' = ScannedNames /\ Plan' = Plan
    BY <2>1 DEF ScannedNames, Plan
  <2>6. NamesInv'
    <3>1. /\ rule \in 1..Len(job.plans) + 1 /\ Len(prepared) = rule - 1
          /\ \A i \in DOMAIN job.deltas : job.deltas[i].reference \in DOMAIN counted
          /\ DOMAIN counted \cup ScannedNames \subseteq UsedNames \cap BoundNames
          /\ BoundNames \subseteq DOMAIN bindings \cup DOMAIN counted \cup ScannedNames
      BY <1>1 DEF Inv, NamesInv, Current
    <3>2. Current' = {name}
      BY <2>1, <2>5 DEF Current
    <3>3. QED
      BY <1>1, <2>1, <2>4, <2>5, <3>1, <3>2, JobKept DEF NamesInv, After
  <2>7. PreparedInv'
    BY <1>1, <2>1 DEF Inv, PreparedInv, ReferenceCacheKey
  <2>8. ReadInv'
    <3>1. batch' \in 1..Len(reader'.batches) + 1
      BY <2>1, <2>4, RowListsType
    <3>2. scan' = [keys |-> EncodedKeys(reader', Upto(reader', batch' - 1), Plan'.columns),
                   rows |-> Len(Upto(reader', batch' - 1)),
                   read |-> Upto(reader', batch' - 1)]
      <4>1. EncodedKeys(reader', <<>>, Plan'.columns) = {}
        BY KeysEmpty
      <4>2. Upto(reader', batch' - 1) = <<>>
        BY <2>1, <2>4
      <4>3. QED
        BY <2>1, <4>1, <4>2 DEF NoScan
    <3>3. /\ \A n \in DOMAIN counted : counted[n] = Len(AllRows(BoundTo(n)))
          /\ \A k \in DOMAIN scanned : k = <<k[1], k[2]>> /\ scanned[k] = SealedOf(k[1], k[2])
      BY DEF Inv, ReadInv
    <3>4. reader' = BoundTo(Plan.reference)'
      BY <2>1, <2>4, <2>5, JobKept
    <3>5. (\A n \in DOMAIN counted : counted[n] = Len(AllRows(BoundTo(n))))'
      BY <2>1, <3>3, JobKept
    <3>6. (\A k \in DOMAIN scanned : k = <<k[1], k[2]>> /\ scanned[k] = SealedOf(k[1], k[2]))'
      BY <2>1, <3>3, JobKept
    <3>7. QED
      BY <2>1, <3>1, <3>2, <3>4, <3>5, <3>6 DEF ReadInv
  <2>9. LocalInv' /\ ReportInv' /\ CountInv'
    BY <1>1, <2>1, BeforeKeeps DEF Before
  <2>10. QED
    BY <2>2, <2>3, <2>6, <2>7, <2>8, <2>9 DEF Inv
<1>4. QED
  BY <1>2, <1>3

\* The keys, rows and fingerprint of a batch are those of the batch.
LEMMA ScanBatchKeeps ==
    ASSUME Inv, ScanBatch
    PROVE  Inv'
<1> DEFINE b == reader.batches[batch].rows
           columns == Plan.columns
<1>1. /\ pc = "scan" /\ batch \in DOMAIN reader.batches
      /\ job \in Jobs /\ rule \in Nat \ {0} /\ batch \in Nat \ {0}
  BY InvJob DEF ScanBatch
<1>2. CASE \E e : Fail(e)
  BY <1>2, FailKeeps
<1>3. CASE ~ \E e : Fail(e)
  <2>1. /\ scan' = [keys |-> scan.keys \cup EncodedKeys(reader, b, columns),
                    rows |-> scan.rows + Len(b), read |-> scan.read \o b]
        /\ batch' = batch + 1
        /\ UNCHANGED <<job, bindings, counted, scanned, prepared, rule, reader, local, report, pc>>
    BY <1>3 DEF ScanBatch
  <2>2. TypeInv'
    BY <1>1, <2>1 DEF Inv, TypeInv
  <2>3. BindInv'
    BY <1>1, <2>1, JobKept DEF Inv, BindInv
  <2>4. NamesInv'
    BY <1>1, <2>1, JobKept DEF Inv, NamesInv, ScannedNames, Current, Plan, After
  <2>5. PreparedInv'
    BY <2>1 DEF Inv, PreparedInv, ReferenceCacheKey
  <2>6. ReadInv'
    <3>1. /\ reader = BoundTo(Plan.reference) /\ Plan.reference \in BoundNames
          /\ scan = [keys |-> EncodedKeys(reader, Upto(reader, batch - 1), columns),
                     rows |-> Len(Upto(reader, batch - 1)),
                     read |-> Upto(reader, batch - 1)]
      BY <1>1 DEF Inv, ReadInv, NamesInv
    <3>2. IsDataset(reader)
      BY <1>1, <3>1, BoundToFacts
    <3>3. batch \in 1..Len(reader.batches) /\ Len(reader.batches) \in Nat
      BY <1>1, <3>2, RowListsType
    <3>4. PICK S : /\ Upto(reader, batch - 1) \in Seq(S) /\ b \in Seq(S)
                   /\ Upto(reader, batch) = Upto(reader, batch - 1) \o b
      BY <3>2, <3>3, UptoStep
    <3>5. EncodedKeys(reader, Upto(reader, batch), columns)
            = EncodedKeys(reader, Upto(reader, batch - 1), columns) \cup EncodedKeys(reader, b, columns)
      BY <3>4, KeysConcat
    <3>6. Len(Upto(reader, batch)) = Len(Upto(reader, batch - 1)) + Len(b)
      BY <3>2, <3>3, BatchRows
    <3>7. batch' \in 1..Len(reader'.batches) + 1 /\ batch' - 1 = batch /\ Plan' = Plan
      BY <1>1, <2>1, <3>3 DEF Plan
    <3>8. scan' = [keys |-> EncodedKeys(reader', Upto(reader', batch' - 1), Plan'.columns),
                   rows |-> Len(Upto(reader', batch' - 1)),
                   read |-> Upto(reader', batch' - 1)]
      BY <2>1, <3>1, <3>4, <3>5, <3>6, <3>7
    <3>9. /\ \A n \in DOMAIN counted : counted[n] = Len(AllRows(BoundTo(n)))
          /\ \A k \in DOMAIN scanned : k = <<k[1], k[2]>> /\ scanned[k] = SealedOf(k[1], k[2])
      BY DEF Inv, ReadInv
    <3>10. reader' = BoundTo(Plan.reference)'
      BY <2>1, <3>1, <3>7, JobKept
    <3>11. (\A n \in DOMAIN counted : counted[n] = Len(AllRows(BoundTo(n))))'
      BY <2>1, <3>9, JobKept
    <3>12. (\A k \in DOMAIN scanned : k = <<k[1], k[2]>> /\ scanned[k] = SealedOf(k[1], k[2]))'
      BY <2>1, <3>9, JobKept
    <3>13. QED
      BY <1>1, <2>1, <3>7, <3>8, <3>10, <3>11, <3>12 DEF ReadInv
  <2>7. LocalInv' /\ ReportInv' /\ CountInv'
    BY <1>1, <2>1, BeforeKeeps DEF Before
  <2>8. QED
    BY <2>2, <2>3, <2>4, <2>5, <2>6, <2>7 DEF Inv
<1>4. QED
  BY <1>2, <1>3

\* A scan is sealed when all of its dataset has been read.
LEMMA ScanEndKeeps ==
    ASSUME Inv, ScanEnd
    PROVE  Inv'
<1> DEFINE key == ReferenceCacheKey(Plan)
           sealed == [keys |-> scan.keys, rows |-> scan.rows,
                      fingerprint |-> <<reader.types, scan.read>>]
<1>1. /\ pc = "scan" /\ batch \notin DOMAIN reader.batches
      /\ job \in Jobs /\ rule \in Nat \ {0} /\ batch \in Nat \ {0}
      /\ scanned' = [k \in DOMAIN scanned \cup {key} |-> IF k = key THEN sealed ELSE scanned[k]]
      /\ pc' = "prepare"
      /\ UNCHANGED <<job, bindings, counted, prepared, rule, reader, batch, scan, local, report>>
  BY InvJob DEF ScanEnd
<1>2. key = <<Plan.reference, Plan.columns>> /\ key[1] = Plan.reference /\ key[2] = Plan.columns
  BY DEF ReferenceCacheKey
<1>3. sealed = SealedOf(key[1], key[2])
  <2>1. /\ reader = BoundTo(Plan.reference) /\ Plan.reference \in BoundNames
        /\ batch \in 1..Len(reader.batches) + 1
        /\ scan = [keys |-> EncodedKeys(reader, Upto(reader, batch - 1), Plan.columns),
                   rows |-> Len(Upto(reader, batch - 1)),
                   read |-> Upto(reader, batch - 1)]
    BY <1>1 DEF Inv, ReadInv, NamesInv
  <2>2. IsDataset(reader)
    BY <1>1, <2>1, BoundToFacts
  <2>3. batch - 1 = Len(reader.batches)
    BY <1>1, <2>1, <2>2, RowListsType
  <2>4. Upto(reader, batch - 1) = AllRows(reader)
    BY <2>2, <2>3, UptoEnds
  <2>5. QED
    BY <1>2, <2>1, <2>4 DEF SealedOf
<1>4. TypeInv'
  BY <1>1 DEF Inv, TypeInv, Before
<1>5. BindInv'
  BY <1>1, JobKept DEF Inv, BindInv
<1>6. /\ rule \in 1..Len(job.plans) + 1 /\ Len(prepared) = rule - 1
      /\ \A i \in DOMAIN job.deltas : job.deltas[i].reference \in DOMAIN counted
      /\ DOMAIN counted \cup ScannedNames \subseteq UsedNames \cap BoundNames
      /\ BoundNames \subseteq DOMAIN bindings \cup DOMAIN counted \cup ScannedNames \cup {Plan.reference}
      /\ rule \in DOMAIN job.plans /\ Plan.reference \in BoundNames
  BY <1>1 DEF Inv, NamesInv, Current
<1>7. DOMAIN scanned' = DOMAIN scanned \cup {key}
  BY <1>1
<1> HIDE DEF key, sealed
<1>8. ScannedNames' = ScannedNames \cup {Plan.reference}
  BY <1>2, <1>7 DEF ScannedNames
<1>9. NamesInv'
  <2>1. Plan.reference \in UsedNames
    BY <1>1, <1>6, PlansFacts DEF Plan
  <2>2. QED
    BY <1>1, <1>6, <1>8, <2>1, JobKept DEF NamesInv, After
<1>10. \A k \in DOMAIN scanned : k # key => k \in DOMAIN scanned' /\ scanned'[k] = scanned[k]
  BY <1>1
<1>11. /\ \A n \in DOMAIN counted : counted[n] = Len(AllRows(BoundTo(n)))
       /\ \A k \in DOMAIN scanned : k = <<k[1], k[2]>> /\ scanned[k] = SealedOf(k[1], k[2])
  BY DEF Inv, ReadInv
<1>12. \A k \in DOMAIN scanned' : k = <<k[1], k[2]>> /\ scanned'[k] = SealedOf(k[1], k[2])
  <2> SUFFICES ASSUME NEW k \in DOMAIN scanned'
               PROVE  k = <<k[1], k[2]>> /\ scanned'[k] = SealedOf(k[1], k[2])
    OBVIOUS
  <2>1. CASE k = key
    <3>1. scanned'[key] = sealed
      BY <1>1
    <3>2. QED
      BY <1>2, <1>3, <2>1, <3>1
  <2>2. CASE k # key
    <3>1. k \in DOMAIN scanned /\ scanned'[k] = scanned[k]
      BY <1>1, <1>7, <2>2
    <3>2. QED
      BY <1>11, <3>1
  <2>3. QED
    BY <2>1, <2>2
<1>13. PreparedInv'
  <2>1. /\ IsSequence(prepared) /\ Len(prepared) <= Len(job.plans)
        /\ \A i \in 1..Len(prepared) :
             /\ ReferenceCacheKey(job.plans[i]) \in DOMAIN scanned
             /\ prepared[i] = scanned[ReferenceCacheKey(job.plans[i])]
    BY DEF Inv, PreparedInv
  <2>2. \A i \in 1..Len(prepared) :
             /\ ReferenceCacheKey(job.plans[i]) \in DOMAIN scanned'
             /\ prepared[i] = scanned'[ReferenceCacheKey(job.plans[i])]
    <3> SUFFICES ASSUME NEW i \in 1..Len(prepared)
                 PROVE  /\ ReferenceCacheKey(job.plans[i]) \in DOMAIN scanned'
                        /\ prepared[i] = scanned'[ReferenceCacheKey(job.plans[i])]
      OBVIOUS
    <3> DEFINE k == ReferenceCacheKey(job.plans[i])
    <3>1. k \in DOMAIN scanned /\ prepared[i] = scanned[k]
      BY <2>1
    <3> HIDE DEF k
    <3>2. k \in DOMAIN scanned' /\ scanned'[k] = SealedOf(k[1], k[2]) /\ scanned[k] = SealedOf(k[1], k[2])
      BY <1>7, <1>11, <1>12, <3>1
    <3>3. QED
      BY <3>1, <3>2 DEF k
  <2>3. (\A i \in 1..Len(prepared) :
             /\ ReferenceCacheKey(job.plans[i]) \in DOMAIN scanned
             /\ prepared[i] = scanned[ReferenceCacheKey(job.plans[i])])'
    BY <1>1, <2>2 DEF ReferenceCacheKey
  <2>4. QED
    BY <1>1, <2>1, <2>3 DEF PreparedInv
<1>14. ReadInv'
  <2>1. (\A n \in DOMAIN counted : counted[n] = Len(AllRows(BoundTo(n))))'
    BY <1>1, <1>11, JobKept
  <2>2. (\A k \in DOMAIN scanned : k = <<k[1], k[2]>> /\ scanned[k] = SealedOf(k[1], k[2]))'
    BY <1>1, <1>12, JobKept
  <2>3. QED
    BY <1>1, <2>1, <2>2 DEF ReadInv
<1>15. LocalInv' /\ ReportInv' /\ CountInv'
  BY <1>1, BeforeKeeps DEF Before
<1>16. QED
  BY <1>4, <1>5, <1>9, <1>13, <1>14, <1>15 DEF Inv

\* When every rule has its scan and no dataset is left, the subject is read.
LEMMA PreparedKeeps ==
    ASSUME Inv, Prepared
    PROVE  Inv'
<1>1. /\ pc = "prepare" /\ rule \notin DOMAIN job.plans /\ job \in Jobs /\ rule \in Nat \ {0}
  BY InvJob DEF Prepared
<1>2. CASE \E e : Fail(e)
  BY <1>2, FailKeeps
<1>3. CASE ~ \E e : Fail(e)
  <2>1. /\ DOMAIN bindings = {}
        /\ pc' = "subject" /\ rule' = 1 /\ batch' = 1 /\ scan' = NoScan
        /\ reader' = job.subject
        /\ UNCHANGED <<job, bindings, counted, scanned, prepared, local, report>>
    BY <1>3 DEF Prepared, Enter
  <2>2. TypeInv'
    BY <1>1, <2>1 DEF Inv, TypeInv, After, NoScan
  <2>3. BindInv'
    BY <1>1, <2>1, JobKept DEF Inv, BindInv
  <2>4. /\ rule = Len(job.plans) + 1 /\ Len(prepared) = Len(job.plans)
        /\ \A i \in DOMAIN job.deltas : job.deltas[i].reference \in DOMAIN counted
        /\ DOMAIN counted \cup ScannedNames \subseteq UsedNames \cap BoundNames
        /\ BoundNames \subseteq DOMAIN counted \cup ScannedNames
    <3>1. /\ rule \in 1..Len(job.plans) + 1 /\ Len(prepared) = rule - 1
          /\ \A i \in DOMAIN job.deltas : job.deltas[i].reference \in DOMAIN counted
          /\ DOMAIN counted \cup ScannedNames \subseteq UsedNames \cap BoundNames
          /\ BoundNames \subseteq DOMAIN bindings \cup DOMAIN counted \cup ScannedNames
      BY <1>1 DEF Inv, NamesInv, Current
    <3>2. rule = Len(job.plans) + 1
      BY <1>1, <3>1, PlansFacts
    <3>3. QED
      BY <1>1, <2>1, <3>1, <3>2
  <2>5. BoundNames = UsedNames
    <3>1. \A i \in DOMAIN job.plans : job.plans[i].reference \in ScannedNames
      <4>1. \A i \in 1..Len(prepared) : ReferenceCacheKey(job.plans[i]) \in DOMAIN scanned
        BY DEF Inv, PreparedInv
      <4>2. \A i \in DOMAIN job.plans : ReferenceCacheKey(job.plans[i]) \in DOMAIN scanned
        BY <1>1, <2>4, <4>1, PlansFacts
      <4>3. \A i : ReferenceCacheKey(job.plans[i])[1] = job.plans[i].reference
        BY DEF ReferenceCacheKey
      <4>4. QED
        BY <4>2, <4>3 DEF ScannedNames
    <3>2. UsedNames \subseteq BoundNames
      BY <2>4, <3>1 DEF UsedNames
    <3>3. BoundNames \subseteq UsedNames
      BY <2>4
    <3>4. QED
      BY <3>2, <3>3
  <2>6. NamesInv'
    <3>1. ScannedNames' = ScannedNames
      BY <2>1 DEF ScannedNames
    <3>2. QED
      BY <2>1, <2>4, <2>5, <3>1, JobKept DEF NamesInv
  <2>7. PreparedInv'
    BY <1>1, <2>1 DEF Inv, PreparedInv, ReferenceCacheKey
  <2>8. ReadInv'
    <3>1. IsDataset(job.subject)
      BY <1>1, JobFacts
    <3>2. batch' \in 1..Len(reader'.batches) + 1 /\ scan'.rows = Len(Upto(reader', batch' - 1))
      <4>1. Len(job.subject.batches) \in Nat /\ Upto(job.subject, 0) = <<>>
        BY <3>1, RowListsType, UptoEnds
      <4>2. QED
        BY <2>1, <4>1 DEF NoScan
    <3>3. (\A n \in DOMAIN counted : counted[n] = Len(AllRows(BoundTo(n))))'
      BY <2>1, JobKept DEF Inv, ReadInv
    <3>4. (\A k \in DOMAIN scanned : k = <<k[1], k[2]>> /\ scanned[k] = SealedOf(k[1], k[2]))'
      BY <2>1, JobKept DEF Inv, ReadInv
    <3>5. QED
      BY <2>1, <3>2, <3>3, <3>4 DEF ReadInv
  <2>9. LocalInv'
    <3>1. local = [i \in DOMAIN job.plans |-> {}]
      BY <1>1 DEF Inv, LocalInv, Before
    <3>2. \A i : LocalUpto(i, 0) = {}
      BY DEF LocalUpto
    <3>3. local' = [i \in DOMAIN job'.plans |-> LocalUpto(i, scan.rows)']
      <4>1. scan'.rows = 0
        BY <2>1 DEF NoScan
      <4>2. \A i : LocalUpto(i, scan.rows)' = {}
        BY <3>2, <4>1 DEF LocalUpto
      <4>3. QED
        BY <2>1, <3>1, <4>2
    <3>4. pc' \notin Before
      BY <2>1 DEF Before
    <3>5. QED
      BY <3>3, <3>4 DEF LocalInv
  <2>10. ReportInv'
    BY <2>1, JobKept DEF Inv, ReportInv
  <2>11. CountInv'
    <3>1. report = [violations |-> 0, findings |-> <<>>, outcomes |-> <<>>]
      BY <1>1 DEF Inv, CountInv, Before, NoReport
    <3>2. RejectionsUpto(0) = {}
      <4>1. \A p \in Rejections : p[2] \in 1..Len(AllRows(job.subject))
        BY <1>1, SubjectLen DEF Rejections, Rejected
      <4>2. \A n \in 1..Len(AllRows(job.subject)) : ~ (n <= 0)
        BY <1>1, SubjectLen
      <4>3. QED
        BY <4>1, <4>2 DEF RejectionsUpto
    <3>3. Cardinality(RejectionsUpto(0)) = 0
      BY <3>2, FS_EmptySet
    <3>4. Cardinality(RejectionsUpto(scan.rows))' = 0
      <4>1. scan'.rows = 0
        BY <2>1 DEF NoScan
      <4>2. RejectionsUpto(scan.rows)' = RejectionsUpto(0)
        BY <2>1, <4>1, JobKept DEF RejectionsUpto
      <4>3. QED
        BY <3>3, <4>2
    <3>5. pc' \notin Before
      BY <2>1 DEF Before
    <3>6. Len(report'.outcomes) = 0 /\ report'.violations = 0
      BY <2>1, <3>1
    <3>7. QED
      BY <2>1, <3>4, <3>5, <3>6 DEF CountInv
  <2>12. QED
    BY <2>2, <2>3, <2>6, <2>7, <2>8, <2>9, <2>10, <2>11 DEF Inv
<1>4. QED
  BY <1>2, <1>3

-----------------------------------------------------------------------------
(* The subject *)

\* What a batch adds to the keys of a rule.
LEMMA LocalStep ==
    ASSUME job \in Jobs, NEW i \in DOMAIN job.plans, NEW k \in 1..Len(job.subject.batches),
           scan.rows = Start(k)
    PROVE  LocalUpto(i, scan.rows + Len(RowsOf(k))) = LocalUpto(i, scan.rows) \cup
             {[key |-> EncodeKey(job.subject, RowsOf(k)[r], job.plans[i].local),
               row |-> GlobalRow(r)] :
                r \in {q \in DOMAIN RowsOf(k) :
                         EncodeKey(job.subject, RowsOf(k)[q], job.plans[i].local) # <<>>}}
<1> DEFINE b == RowsOf(k)
           n == scan.rows
           m == Len(b)
           E(r) == EncodeKey(job.subject, b[r], job.plans[i].local)
           new == {[key |-> E(r), row |-> GlobalRow(r)] : r \in {q \in DOMAIN b : E(q) # <<>>}}
           e(r) == [key |-> OurKey(i, r), row |-> r - 1]
<1>1. n = Start(k)
  OBVIOUS
<1>2. /\ m \in Nat /\ n \in Nat /\ DOMAIN b = 1..m
      /\ \A r \in 1..m : AllRows(job.subject)[n + r] = b[r]
  BY BatchPlace
<1>3. \A r \in 1..m : OurKey(i, n + r) = E(r) /\ GlobalRow(r) = (n + r) - 1
  <2> SUFFICES ASSUME NEW r \in 1..m
               PROVE  OurKey(i, n + r) = E(r) /\ GlobalRow(r) = (n + r) - 1
    OBVIOUS
  <2>1. OurKey(i, n + r) = E(r)
    BY <1>2 DEF OurKey
  <2>2. GlobalRow(r) = n + r - 1
    BY DEF GlobalRow
  <2> HIDE DEF n, m, E
  <2>3. QED
    BY <1>2, <2>1, <2>2
<1> HIDE DEF E, n, m
<1>4. new = {e(n + r) : r \in {q \in 1..m : OurKey(i, n + q) # <<>>}}
  BY <1>2, <1>3
<1>5. \A s \in 1..n + m : s \in 1..n \/ (s - n \in 1..m /\ n + (s - n) = s)
  BY <1>2
<1>6. \A r \in 1..m : n + r \in 1..n + m
  BY <1>2
<1>7. \A r \in 1..n : r \in 1..n + m
  BY <1>2
<1> HIDE DEF new
<1>8. LocalUpto(i, n + m) = {e(r) : r \in {q \in 1..n + m : OurKey(i, q) # <<>>}}
  BY DEF LocalUpto
<1>9. LocalUpto(i, n) = {e(r) : r \in {q \in 1..n : OurKey(i, q) # <<>>}}
  BY DEF LocalUpto
<1> HIDE DEF e
<1>10. LocalUpto(i, n + m) \subseteq LocalUpto(i, n) \cup new
  <2> SUFFICES ASSUME NEW s \in 1..n + m, OurKey(i, s) # <<>>
               PROVE  e(s) \in LocalUpto(i, n) \cup new
    BY <1>8
  <2>1. CASE s \in 1..n
    BY <1>9, <2>1
  <2>2. CASE s \notin 1..n
    <3>1. s - n \in 1..m /\ n + (s - n) = s
      BY <1>5, <2>2
    <3>2. QED
      BY <1>4, <3>1
  <2>3. QED
    BY <2>1, <2>2
<1>11. LocalUpto(i, n) \cup new \subseteq LocalUpto(i, n + m)
  BY <1>4, <1>6, <1>7, <1>8, <1>9
<1>12. LocalUpto(i, n + m) = LocalUpto(i, n) \cup new
  BY <1>10, <1>11
<1>13. QED
  BY <1>12 DEF n, m, new, E, b

\* A report of the invariant is well formed.
LEMMA InvReport ==
    ASSUME Inv
    PROVE  report \in Reports(report.outcomes)
BY DEF Inv, ReportInv, Reports

\* A well-formed report with the outcomes of the rules finished so far.
LEMMA ReportNext ==
    ASSUME job' = job, job \in Jobs, NEW n \in 0..Len(job.plans),
           report' \in Reports(report'.outcomes),
           Len(report'.outcomes) = n, report'.outcomes = [i \in 1..n |-> OutcomeOf(i)]
    PROVE  ReportInv'
<1>1. /\ report' = [violations |-> report'.violations, findings |-> report'.findings,
                    outcomes |-> report'.outcomes]
      /\ report'.violations \in Nat
      /\ report'.findings \in Seq(RealFindings)
      /\ Len(report'.findings) = Min({FindingLimit, report'.violations})
  BY DEF Reports
<1>2. RealFindings' = RealFindings /\ \A i : OutcomeOf(i)' = OutcomeOf(i)
  BY JobKept
<1>3. Len(report'.outcomes) \in 0..Len(job'.plans)
  OBVIOUS
<1>4. (report.outcomes = [i \in 1..Len(report.outcomes) |-> OutcomeOf(i)])'
  BY <1>2
<1>5. QED
  BY <1>1, <1>2, <1>3, <1>4 DEF ReportInv

\* The keys and the rejected rows of a batch are those of its rows.
LEMMA SubjectBatchKeeps ==
    ASSUME Inv, SubjectBatch
    PROVE  Inv'
<1> DEFINE b == RowsOf(batch)
           s == FoundIn(batch)
<1>1. /\ pc = "subject" /\ batch \in DOMAIN reader.batches
      /\ job \in Jobs /\ rule \in Nat \ {0} /\ batch \in Nat \ {0}
  BY InvJob DEF SubjectBatch
<1>2. /\ reader = job.subject /\ scan.rows = Start(batch)
      /\ local = [i \in DOMAIN job.plans |-> LocalUpto(i, scan.rows)]
      /\ Len(report.outcomes) = 0
      /\ report.violations = Cardinality(RejectionsUpto(scan.rows))
  BY <1>1 DEF Inv, ReadInv, LocalInv, CountInv, After, Start
<1>3. CASE \E e : Fail(e)
  BY <1>3, FailKeeps
<1>4. CASE ~ \E e : Fail(e)
  <2>1. /\ local' = [i \in DOMAIN local |-> local[i] \cup
                      {[key |-> EncodeKey(reader, b[r], job.plans[i].local), row |-> GlobalRow(r)] :
                         r \in {q \in DOMAIN b : EncodeKey(reader, b[q], job.plans[i].local) # <<>>}}]
        /\ report' = FoldLeft(RecordLazy, report, s)
        /\ scan' = [scan EXCEPT !.rows = @ + Len(b)]
        /\ batch' = batch + 1
        /\ UNCHANGED <<job, bindings, counted, scanned, prepared, rule, reader, pc>>
    <3> DEFINE c == reader.batches[batch].rows
    <3>1. /\ local' = [i \in DOMAIN local |-> local[i] \cup
                      {[key |-> EncodeKey(reader, c[r], job.plans[i].local), row |-> GlobalRow(r)] :
                         r \in {q \in DOMAIN c : EncodeKey(reader, c[q], job.plans[i].local) # <<>>}}]
          /\ report' = FoldLeft(RecordLazy, report,
                          FlattenSeq([i \in DOMAIN job.plans |-> NullFindings(i, c)]))
          /\ scan' = [scan EXCEPT !.rows = @ + Len(c)]
          /\ batch' = batch + 1
          /\ UNCHANGED <<job, bindings, counted, scanned, prepared, rule, reader, pc>>
      BY <1>4 DEF SubjectBatch
    <3>2. c = b
      BY <1>2 DEF RowsOf
    <3>3. s = FlattenSeq([i \in DOMAIN job.plans |-> NullFindings(i, b)])
      BY DEF FoundIn
    <3> HIDE DEF b, c, s
    <3>4. QED
      BY <3>1, <3>2, <3>3
  <2>2. IsDataset(job.subject)
    BY <1>1, JobFacts
  <2>3. batch \in 1..Len(job.subject.batches) /\ Len(job.subject.batches) \in Nat
    BY <1>1, <1>2, <2>2, RowListsType
  <2>4. scan'.rows = scan.rows + Len(b)
    <3>1. "rows" \in DOMAIN scan
      BY DEF Inv, TypeInv
    <3>2. QED
      BY <2>1, <3>1
  <2>5. TypeInv'
    BY <1>1, <2>1 DEF Inv, TypeInv
  <2>6. BindInv'
    BY <1>1, <2>1, JobKept DEF Inv, BindInv
  <2>7. NamesInv'
    BY <1>1, <2>1, JobKept DEF Inv, NamesInv, ScannedNames, After
  <2>8. PreparedInv'
    BY <1>1, <2>1 DEF Inv, PreparedInv, ReferenceCacheKey
  <2>9. ReadInv'
    <3>1. Len(Upto(job.subject, batch)) = scan.rows + Len(b)
      BY <1>1, <1>2, <2>3, BatchPlace
    <3>2. batch' \in 1..Len(reader'.batches) + 1 /\ batch' - 1 = batch
      BY <1>1, <1>2, <2>1, <2>3
    <3>3. scan'.rows = Len(Upto(reader', batch' - 1))
      BY <1>2, <2>1, <2>4, <3>1, <3>2
    <3>4. (\A n \in DOMAIN counted : counted[n] = Len(AllRows(BoundTo(n))))'
      BY <2>1, JobKept DEF Inv, ReadInv
    <3>5. (\A k \in DOMAIN scanned : k = <<k[1], k[2]>> /\ scanned[k] = SealedOf(k[1], k[2]))'
      BY <2>1, JobKept DEF Inv, ReadInv
    <3>6. QED
      BY <1>1, <1>2, <2>1, <3>2, <3>3, <3>4, <3>5 DEF ReadInv
  <2>10. LocalInv'
    <3>1. \A i \in DOMAIN job.plans : local'[i] = LocalUpto(i, scan.rows + Len(b))
      <4> SUFFICES ASSUME NEW i \in DOMAIN job.plans
                   PROVE  local'[i] = LocalUpto(i, scan.rows + Len(b))
        OBVIOUS
      <4>1. local'[i] = LocalUpto(i, scan.rows) \cup
              {[key |-> EncodeKey(job.subject, b[r], job.plans[i].local), row |-> GlobalRow(r)] :
                 r \in {q \in DOMAIN b : EncodeKey(job.subject, b[q], job.plans[i].local) # <<>>}}
        BY <1>2, <2>1
      <4>3. job \in Jobs /\ scan.rows = Start(batch)
        BY <1>1, <1>2
      <4>4. LocalUpto(i, scan.rows + Len(b)) = LocalUpto(i, scan.rows) \cup
              {[key |-> EncodeKey(job.subject, b[r], job.plans[i].local), row |-> GlobalRow(r)] :
                 r \in {q \in DOMAIN b : EncodeKey(job.subject, b[q], job.plans[i].local) # <<>>}}
        BY <2>3, <4>3, LocalStep
      <4>5. QED
        BY <4>1, <4>4
    <3>2. local' = [i \in DOMAIN job.plans |-> local'[i]]
      BY <1>2, <2>1
    <3>3. \A i : LocalUpto(i, scan.rows)' = LocalUpto(i, scan.rows + Len(b))
      <4>1. \A i, r : OurKey(i, r)' = OurKey(i, r)
        BY <2>1 DEF OurKey
      <4>2. QED
        BY <2>4, <4>1 DEF LocalUpto
    <3>4. local' = [i \in DOMAIN job.plans |-> LocalUpto(i, scan.rows + Len(b))]
      BY <3>1, <3>2
    <3>5. local' = [i \in DOMAIN job.plans |-> LocalUpto(i, scan.rows)]'
      BY <2>1, <3>3, <3>4
    <3>6. pc' \notin Before
      BY <1>1, <2>1 DEF Before
    <3>7. QED
      BY <3>5, <3>6 DEF LocalInv
  <2>11. /\ s \in Seq(RealFindings)
         /\ Cardinality(RejectionsUpto(scan.rows + Len(b)))
              = Cardinality(RejectionsUpto(scan.rows)) + Len(s)
    <3>1. job \in Jobs /\ scan.rows = Start(batch)
      BY <1>1, <1>2
    <3>2. QED
      BY <2>3, <3>1, BatchFindings
  <2>12. report' \in Reports(report.outcomes) /\ report'.violations = report.violations + Len(s)
    <3> HIDE DEF s
    <3>1. QED
      BY <2>1, <2>11, InvReport, RecordAll
  <2> HIDE DEF s, b
  <2>13. report'.outcomes = report.outcomes
    BY <2>12 DEF Reports
  <2>14. ReportInv'
    <3>1. report.outcomes = [i \in 1..0 |-> OutcomeOf(i)]
      BY <1>2 DEF Inv, ReportInv
    <3>2. 0 \in 0..Len(job.plans)
      BY <1>1, PlansFacts
    <3>3. QED
      BY <1>1, <1>2, <2>1, <2>12, <2>13, <3>1, <3>2, ReportNext
  <2>15. CountInv'
    <3>1. RejectionsUpto(scan.rows)' = RejectionsUpto(scan.rows + Len(b))
      BY <2>1, <2>4, JobKept DEF RejectionsUpto
    <3>2. report'.violations = Cardinality(RejectionsUpto(scan.rows))'
      BY <1>2, <2>11, <2>12, <3>1
    <3>3. pc' = "subject" /\ pc' \notin Before
      BY <1>1, <2>1 DEF Before
    <3>4. QED
      BY <1>2, <2>13, <3>2, <3>3 DEF CountInv
  <2>16. QED
    BY <2>5, <2>6, <2>7, <2>8, <2>9, <2>10, <2>14, <2>15 DEF Inv
<1>5. QED
  BY <1>3, <1>4

\* All rejected rows have been read when all rows have.
LEMMA RejectionsAll ==
    ASSUME job \in Jobs
    PROVE  RejectionsUpto(Len(AllRows(job.subject))) = Rejections
<1>1. \A p \in Rejections : p[2] \in 1..Len(AllRows(job.subject))
  BY SubjectLen DEF Rejections, Rejected
<1>2. \A r \in 1..Len(AllRows(job.subject)) : r <= Len(AllRows(job.subject))
  BY SubjectLen
<1>3. QED
  BY <1>1, <1>2 DEF RejectionsUpto

\* Once the subject has been read only the report and the place in the rules change.
LEMMA AfterKeeps ==
    ASSUME Inv, pc \in After, pc' \in {"finish", "compare", "done"},
           scan.rows = Len(AllRows(job.subject)), rule' \in Nat \ {0},
           UNCHANGED <<job, bindings, counted, scanned, prepared, batch, scan, local>>
    PROVE  TypeInv' /\ BindInv' /\ NamesInv' /\ PreparedInv' /\ ReadInv' /\ LocalInv'
<1>1. TypeInv'
  BY DEF Inv, TypeInv, After
<1>2. BindInv'
  BY JobKept DEF Inv, BindInv, After
<1>3. NamesInv'
  BY JobKept DEF Inv, NamesInv, ScannedNames, After
<1>4. PreparedInv'
  BY DEF Inv, PreparedInv, ReferenceCacheKey
<1>5. ReadInv'
  <2>1. (\A n \in DOMAIN counted : counted[n] = Len(AllRows(BoundTo(n))))'
    BY JobKept DEF Inv, ReadInv
  <2>2. (\A k \in DOMAIN scanned : k = <<k[1], k[2]>> /\ scanned[k] = SealedOf(k[1], k[2]))'
    BY JobKept DEF Inv, ReadInv
  <2>3. QED
    BY <2>1, <2>2 DEF ReadInv
<1>6. LocalInv'
  <2>1. local = [i \in DOMAIN job.plans |-> LocalUpto(i, scan.rows)]
    BY DEF Inv, LocalInv
  <2>2. local' = [i \in DOMAIN job.plans |-> LocalUpto(i, scan.rows)]'
    BY <2>1, JobKept
  <2>3. pc' \notin Before
    BY DEF Before
  <2>4. QED
    BY <2>2, <2>3 DEF LocalInv
<1>7. QED
  BY <1>1, <1>2, <1>3, <1>4, <1>5, <1>6

\* At the end of the subject the rejected rows of all of it have been counted.
LEMMA SubjectEndKeeps ==
    ASSUME Inv, SubjectEnd
    PROVE  Inv'
<1>1. /\ pc = "subject" /\ batch \notin DOMAIN reader.batches
      /\ pc' = "finish" /\ rule' = 1
      /\ UNCHANGED <<job, bindings, counted, scanned, prepared, reader, batch, scan, local, report>>
      /\ job \in Jobs /\ batch \in Nat \ {0}
  BY InvJob DEF SubjectEnd
<1>2. /\ reader = job.subject /\ scan.rows = Len(Upto(reader, batch - 1))
      /\ batch \in 1..Len(reader.batches) + 1
      /\ Len(report.outcomes) = 0
      /\ report.violations = Cardinality(RejectionsUpto(scan.rows))
  BY <1>1 DEF Inv, ReadInv, CountInv, Before
<1>3. scan.rows = Len(AllRows(job.subject))
  <2>1. IsDataset(job.subject)
    BY <1>1, JobFacts
  <2>2. Len(job.subject.batches) \in Nat /\ DOMAIN job.subject.batches = 1..Len(job.subject.batches)
    BY <2>1, RowListsType
  <2>3. batch - 1 = Len(job.subject.batches)
    BY <1>1, <1>2, <2>2
  <2>4. QED
    BY <1>2, <2>1, <2>3, UptoEnds
<1>4. TypeInv' /\ BindInv' /\ NamesInv' /\ PreparedInv' /\ ReadInv' /\ LocalInv'
  BY <1>1, <1>3, AfterKeeps DEF After
<1>5. ReportInv'
  BY <1>1, JobKept DEF Inv, ReportInv
<1>6. CountInv'
  <2>1. report.violations = Cardinality(Rejections)
    BY <1>1, <1>2, <1>3, RejectionsAll
  <2>2. Cardinality(AbsencesUpto(0)) = 0
    BY <1>1, AbsencesEnds, FS_EmptySet
  <2>3. Cardinality(Rejections) \in Nat /\ Len(job.plans) \in Nat
    BY <1>1, ViolationsFinite, FS_CardinalityType, PlansFacts
  <2>4. (AbsencesUpto(rule - 1))' = AbsencesUpto(0) /\ Rejections' = Rejections
    BY <1>1, JobKept DEF AbsencesUpto
  <2>5. report'.violations = (Cardinality(Rejections) + Cardinality(AbsencesUpto(rule - 1)))'
    BY <1>1, <2>1, <2>2, <2>3, <2>4
  <2>6. rule' \in 1..Len(job'.plans) + 1 /\ Len(report'.outcomes) = rule' - 1
    BY <1>1, <1>2, <2>3
  <2>7. pc' = "finish" /\ pc' \notin Before
    BY <1>1 DEF Before
  <2>8. QED
    BY <2>5, <2>6, <2>7 DEF CountInv
<1>7. QED
  BY <1>4, <1>5, <1>6 DEF Inv

-----------------------------------------------------------------------------
(* The end of the rules *)

\* When every rule is finished every absent key has been counted.
LEMMA FinishEndKeeps ==
    ASSUME Inv, FinishEnd
    PROVE  Inv'
<1>1. /\ pc = "finish" /\ rule \notin DOMAIN job.plans
      /\ pc' = "compare" /\ rule' = 1
      /\ UNCHANGED <<job, bindings, counted, scanned, prepared, reader, batch, scan, local, report>>
      /\ job \in Jobs /\ rule \in Nat \ {0}
  BY InvJob DEF FinishEnd
<1>2. /\ scan.rows = Len(AllRows(job.subject))
      /\ rule \in 1..Len(job.plans) + 1
      /\ Len(report.outcomes) = rule - 1
      /\ report.violations = Cardinality(Rejections) + Cardinality(AbsencesUpto(rule - 1))
  BY <1>1 DEF Inv, ReadInv, CountInv, Before
<1>3. TypeInv' /\ BindInv' /\ NamesInv' /\ PreparedInv' /\ ReadInv' /\ LocalInv'
  BY <1>1, <1>2, AfterKeeps DEF After
<1>4. ReportInv'
  BY <1>1, JobKept DEF Inv, ReportInv
<1>5. CountInv'
  <2>1. rule - 1 = Len(job.plans) /\ Len(job.plans) \in Nat
    BY <1>1, <1>2, PlansFacts
  <2>2. report.violations = Cardinality(Rejections) + Cardinality(Absences)
    BY <1>1, <1>2, <2>1, AbsencesEnds
  <2>3. Cardinality(BrokenUpto(0)) = 0
    BY <1>1, BrokenEnds, FS_EmptySet
  <2>4. Cardinality(Rejections) \in Nat /\ Cardinality(Absences) \in Nat /\ Len(job.deltas) \in Nat
    BY <1>1, ViolationsFinite, FS_CardinalityType, JobFacts
  <2>5. (BrokenUpto(rule - 1))' = BrokenUpto(0) /\ Rejections' = Rejections /\ Absences' = Absences
    BY <1>1, JobKept DEF BrokenUpto
  <2>6. report'.violations = (Cardinality(Rejections) + Cardinality(Absences))'
                             + Cardinality(BrokenUpto(rule - 1))'
    BY <1>1, <2>2, <2>3, <2>4, <2>5
  <2>7. rule' \in 1..Len(job'.deltas) + 1 /\ Len(report'.outcomes) = Len(job'.plans)
    BY <1>1, <1>2, <2>1, <2>4
  <2>8. pc' = "compare" /\ pc' \notin Before
    BY <1>1 DEF Before
  <2>9. QED
    BY <2>6, <2>7, <2>8 DEF CountInv
<1>6. QED
  BY <1>3, <1>4, <1>5 DEF Inv

\* When every row-count rule is compared every violation has been counted.
LEMMA FinishKeeps ==
    ASSUME Inv, Finish
    PROVE  Inv'
<1>1. /\ pc = "compare" /\ rule \notin DOMAIN job.deltas /\ pc' = "done"
      /\ UNCHANGED <<job, bindings, counted, scanned, prepared, rule, reader, batch, scan,
                     local, report>>
      /\ job \in Jobs /\ rule \in Nat \ {0}
  BY InvJob DEF Finish
<1>2. /\ scan.rows = Len(AllRows(job.subject))
      /\ rule \in 1..Len(job.deltas) + 1
      /\ Len(report.outcomes) = Len(job.plans)
      /\ report.violations = (Cardinality(Rejections) + Cardinality(Absences))
           + Cardinality(BrokenUpto(rule - 1))
  BY <1>1 DEF Inv, ReadInv, CountInv, Before
<1>3. TypeInv' /\ BindInv' /\ NamesInv' /\ PreparedInv' /\ ReadInv' /\ LocalInv'
  BY <1>1, <1>2, AfterKeeps DEF After
<1>4. ReportInv'
  BY <1>1, JobKept DEF Inv, ReportInv
<1>5. CountInv'
  <2>1. rule - 1 = Len(job.deltas)
    BY <1>1, <1>2, JobFacts
  <2>2. BrokenUpto(rule - 1) = BrokenDeltas
    BY <1>1, <2>1, BrokenEnds
  <2>3. report'.violations = (Cardinality(Rejections) + Cardinality(Absences))'
                             + Cardinality(BrokenDeltas)'
    BY <1>1, <1>2, <2>2, JobKept
  <2>4. Len(report'.outcomes) = Len(job'.plans)
    BY <1>1, <1>2
  <2>5. pc' = "done" /\ pc' \notin Before
    BY <1>1 DEF Before
  <2>6. QED
    BY <2>3, <2>4, <2>5 DEF CountInv
<1>6. QED
  BY <1>3, <1>4, <1>5 DEF Inv

\* The row counts that a rule compares are those of the whole datasets.
LEMMA CompareRowsKeeps ==
    ASSUME Inv, CompareRows
    PROVE  Inv'
<1>1. /\ pc = "compare" /\ rule \in DOMAIN job.deltas
      /\ report' = IF Breaks(Delta, scan.rows, counted[Delta.reference])
                   THEN RecordLazy(report, [rule |-> 0, row |-> Null]) ELSE report
      /\ rule' = rule + 1 /\ pc' = pc
      /\ UNCHANGED <<job, bindings, counted, scanned, prepared, reader, batch, scan, local>>
      /\ job \in Jobs /\ rule \in Nat \ {0}
  BY InvJob DEF CompareRows
<1>2. /\ scan.rows = Len(AllRows(job.subject))
      /\ rule \in 1..Len(job.deltas) + 1
      /\ Len(report.outcomes) = Len(job.plans)
      /\ report.violations = (Cardinality(Rejections) + Cardinality(Absences))
           + Cardinality(BrokenUpto(rule - 1))
  BY <1>1 DEF Inv, ReadInv, CountInv, Before
<1>3. TypeInv' /\ BindInv' /\ NamesInv' /\ PreparedInv' /\ ReadInv' /\ LocalInv'
  BY <1>1, <1>2, AfterKeeps DEF After
<1>4. Breaks(Delta, scan.rows, counted[Delta.reference]) <=> rule \in BrokenDeltas
  <2>1. Delta.reference \in DOMAIN counted /\ Delta.reference \in BoundNames
    BY <1>1 DEF Inv, NamesInv, After, Delta
  <2>2. counted[Delta.reference] = Len(AllRows(BoundTo(Delta.reference)))
    BY <2>1 DEF Inv, ReadInv
  <2>3. QED
    BY <1>1, <1>2, <2>1, <2>2, BreaksIs DEF Delta
<1>5. /\ report' \in Reports(report.outcomes)
      /\ report'.violations = report.violations + (IF rule \in BrokenDeltas THEN 1 ELSE 0)
  <2>1. report \in Reports(report.outcomes) /\ report.violations \in Nat
    BY InvReport DEF Reports
  <2>2. [rule |-> 0, row |-> Null] \in RealFindings
    BY DEF RealFindings, Null
  <2>3. CASE rule \in BrokenDeltas
    BY <1>1, <1>4, <2>1, <2>2, <2>3, RecordFacts
  <2>4. CASE rule \notin BrokenDeltas
    BY <1>1, <1>4, <2>1, <2>4
  <2>5. QED
    BY <2>3, <2>4
<1>6. report'.outcomes = report.outcomes
  BY <1>5 DEF Reports
<1>7. ReportInv'
  <2>1. Len(job.plans) \in Nat
    BY <1>1, PlansFacts
  <2>2. report.outcomes = [i \in 1..Len(job.plans) |-> OutcomeOf(i)]
    BY <1>2 DEF Inv, ReportInv
  <2>3. /\ job' = job /\ job \in Jobs /\ Len(job.plans) \in 0..Len(job.plans)
        /\ report' \in Reports(report'.outcomes)
        /\ Len(report'.outcomes) = Len(job.plans)
        /\ report'.outcomes = [i \in 1..Len(job.plans) |-> OutcomeOf(i)]
    BY <1>1, <1>2, <1>5, <1>6, <2>1, <2>2
  <2>4. QED
    BY <2>3, ReportNext
<1>8. CountInv'
  <2> DEFINE a == Cardinality(Rejections) + Cardinality(Absences)
             k == Cardinality(BrokenUpto(rule - 1))
             d == IF rule \in BrokenDeltas THEN 1 ELSE 0
  <2>1. a \in Nat /\ k \in Nat /\ d \in Nat
    <3>1. IsFiniteSet(BrokenUpto(rule - 1))
      <4>1. BrokenUpto(rule - 1) \in SUBSET BrokenDeltas
        BY DEF BrokenUpto
      <4>2. QED
        BY <1>1, <4>1, ViolationsFinite, FS_Subset
    <3>2. k \in Nat
      BY <3>1, FS_CardinalityType
    <3>3. Cardinality(Rejections) \in Nat /\ Cardinality(Absences) \in Nat
      BY <1>1, ViolationsFinite, FS_CardinalityType
    <3>4. QED
      BY <3>2, <3>3
  <2>2. Cardinality(BrokenUpto(rule)) = k + d
    BY <1>1, BrokenStep
  <2>3. report'.violations = (a + k) + d
    BY <1>2, <1>5
  <2>4. (BrokenUpto(rule - 1))' = BrokenUpto(rule)
    <3>1. (rule - 1)' = rule
      BY <1>1
    <3>2. QED
      BY <1>1, <3>1, JobKept DEF BrokenUpto
  <2>5. a' = a
    BY <1>1, JobKept
  <2> HIDE DEF k, d
  <2>6. report'.violations = a + (k + d)
    <3> HIDE DEF a
    <3>1. QED
      BY <2>1, <2>3
  <2>7. report'.violations = (Cardinality(Rejections) + Cardinality(Absences))'
                             + Cardinality(BrokenUpto(rule - 1))'
    BY <2>2, <2>4, <2>5, <2>6
  <2>8. rule' \in 1..Len(job'.deltas) + 1 /\ Len(report'.outcomes) = Len(job'.plans)
    <3>1. Len(job.deltas) \in Nat /\ rule \in 1..Len(job.deltas)
      BY <1>1, JobFacts
    <3>2. rule + 1 \in 1..Len(job.deltas) + 1
      BY <3>1
    <3>3. QED
      BY <1>1, <1>2, <1>6, <3>2
  <2>9. pc' = "compare" /\ pc' \notin Before
    BY <1>1 DEF Before
  <2>10. QED
    BY <2>7, <2>8, <2>9 DEF CountInv
<1>9. QED
  BY <1>3, <1>7, <1>8 DEF Inv

\* What a rule adds to the report when it is finished: its sample of the absent keys,
\* the others as a number, and its outcome.
LEMMA FinishRuleIs ==
    ASSUME Inv, FinishRule, ~ \E e : Fail(e)
    PROVE  \E chosen \in kSubset(Sampled(rule), AbsentKeys(rule)) :
             report' = [Recorded(rule, chosen) EXCEPT
                !.violations = @ + Unsampled(Cardinality(AbsentKeys(rule)), Sampled(rule)),
                !.outcomes = Append(@, OutcomeOf(rule))]
<1>1. /\ pc = "finish" /\ rule \in DOMAIN job.plans /\ job \in Jobs
  BY InvJob DEF FinishRule
<1> DEFINE sealed == prepared[rule]
           missing == LocalKeys(rule) \ sealed.keys
           outcome == [reference |-> Plan.reference,
                       fingerprint |-> sealed.fingerprint,
                       rows |-> sealed.rows,
                       keys |-> Cardinality(sealed.keys),
                       checked |-> Cardinality(LocalKeys(rule)),
                       missing |-> Cardinality(missing)]
           columns == job.plans[rule].columns
           name == job.plans[rule].reference
<1>2. sealed = SealedOf(name, columns)
  <2>1. rule \in 1..Len(prepared)
    BY <1>1, PlansFacts DEF Inv, NamesInv, After
  <2>2. ReferenceCacheKey(job.plans[rule]) \in DOMAIN scanned
        /\ sealed = scanned[ReferenceCacheKey(job.plans[rule])]
    BY <2>1 DEF Inv, PreparedInv
  <2>3. ReferenceCacheKey(job.plans[rule]) = <<name, columns>>
    BY DEF ReferenceCacheKey
  <2> HIDE DEF sealed, name, columns
  <2>4. scanned[<<name, columns>>] = SealedOf(<<name, columns>>[1], <<name, columns>>[2])
    BY <2>2, <2>3 DEF Inv, ReadInv
  <2>5. QED
    BY <2>2, <2>3, <2>4
<1>3. sealed.keys = Theirs(rule)
  <2>1. SealedOf(name, columns).keys
          = EncodedKeys(BoundTo(name), AllRows(BoundTo(name)), columns)
    BY DEF SealedOf
  <2>2. Theirs(rule) = EncodedKeys(BoundTo(name), AllRows(BoundTo(name)), columns)
    BY DEF Theirs
  <2> HIDE DEF sealed, name, columns
  <2>3. QED
    BY <1>2, <2>1, <2>2
<1>4. LocalKeys(rule) = Ours(rule)
  <2>1. local[rule] = LocalUpto(rule, Len(AllRows(job.subject)))
    BY <1>1 DEF Inv, LocalInv, ReadInv, After
  <2>2. QED
    BY <1>1, <2>1, LocalKeysIs
<1>5. missing = AbsentKeys(rule)
  BY <1>3, <1>4 DEF AbsentKeys
<1>6. outcome = OutcomeOf(rule)
  <2>1. Plan.reference = name
    BY DEF Plan
  <2> HIDE DEF sealed
  <2>2. QED
    BY <1>2, <1>3, <1>4, <2>1 DEF OutcomeOf
<1>7. \E chosen \in kSubset(Min({FindingLimit, Cardinality(missing)}), missing) :
        LET rows == SetToSeq({FirstRow(rule, key) : key \in chosen})
            recorded == FoldLeft(RecordLazy, report,
                          [n \in DOMAIN rows |-> [rule |-> rule, row |-> rows[n]]])
        IN report' = [recorded EXCEPT
             !.violations = @ + Unsampled(Cardinality(missing),
                                          Min({FindingLimit, Cardinality(missing)})),
             !.outcomes = Append(@, outcome)]
  BY DEF FinishRule
<1> HIDE DEF missing, outcome, sealed, name, columns
<1>8. QED
  BY <1>5, <1>6, <1>7 DEF Sampled, SampleRows, Recorded

\* Finishing a rule counts its absent keys, each once, and gives its outcome.
LEMMA FinishRuleKeeps ==
    ASSUME Inv, FinishRule
    PROVE  Inv'
<1>1. /\ pc = "finish" /\ rule \in DOMAIN job.plans
      /\ job \in Jobs /\ rule \in Nat \ {0} /\ batch \in Nat \ {0}
  BY InvJob DEF FinishRule
<1>2. /\ scan.rows = Len(AllRows(job.subject))
      /\ local = [i \in DOMAIN job.plans |-> LocalUpto(i, scan.rows)]
      /\ rule \in 1..Len(job.plans) + 1
      /\ Len(report.outcomes) = rule - 1
      /\ report.violations = Cardinality(Rejections) + Cardinality(AbsencesUpto(rule - 1))
      /\ report.outcomes = [i \in 1..Len(report.outcomes) |-> OutcomeOf(i)]
  BY <1>1 DEF Inv, ReadInv, LocalInv, ReportInv, CountInv, Before, After
<1>3. CASE \E e : Fail(e)
  BY <1>3, FailKeeps
<1>4. CASE ~ \E e : Fail(e)
  <2>1. /\ rule' = rule + 1 /\ pc' = pc
        /\ UNCHANGED <<job, bindings, counted, scanned, prepared, reader, batch, scan, local>>
    BY <1>4 DEF FinishRule
  <2>2. TypeInv' /\ BindInv' /\ NamesInv' /\ PreparedInv' /\ ReadInv' /\ LocalInv'
    BY <1>1, <1>2, <2>1, AfterKeeps DEF After
  <2> DEFINE o == report.outcomes
             m == Cardinality(AbsentKeys(rule))
             v == report.violations
  <2>3. PICK chosen \in kSubset(Sampled(rule), AbsentKeys(rule)) :
          report' = [Recorded(rule, chosen) EXCEPT
                !.violations = @ + Unsampled(Cardinality(AbsentKeys(rule)), Sampled(rule)),
                !.outcomes = Append(@, OutcomeOf(rule))]
    BY <1>4, FinishRuleIs
  <2> DEFINE x == Recorded(rule, chosen)
             u == Unsampled(m, Sampled(rule))
  <2>4. /\ m \in Nat
        /\ x = [violations |-> x.violations, findings |-> x.findings, outcomes |-> o]
        /\ x.findings \in Seq(RealFindings)
        /\ x.violations + u = v + m
        /\ Len(x.findings) = Min({FindingLimit, v + m})
    <3>1. local[rule] = LocalUpto(rule, Len(AllRows(job.subject)))
      BY <1>1, <1>2
    <3>2. report \in Reports(report.outcomes)
      BY InvReport
    <3>3. QED
      BY <1>1, <3>1, <3>2, FinishFindings
  <2>5. report' = [x EXCEPT !.violations = @ + u, !.outcomes = Append(@, OutcomeOf(rule))]
    BY <2>3
  <2>6. v \in Nat
    BY InvReport DEF Reports
  <2>7. Append(o, OutcomeOf(rule)) = [i \in 1..rule |-> OutcomeOf(i)]
        /\ Len(Append(o, OutcomeOf(rule))) = rule
    <3> DEFINE out(i) == OutcomeOf(i)
    <3>1. o = [i \in 1..rule - 1 |-> out(i)] /\ rule - 1 \in Nat /\ rule \in Nat
      BY <1>1, <1>2
    <3> HIDE DEF o, out
    <3>2. o \in Seq({out(i) : i \in 1..rule}) /\ Len(o) = rule - 1
      <4>1. o \in [1..rule - 1 -> {out(i) : i \in 1..rule}]
        BY <3>1
      <4>2. QED
        BY <3>1, <4>1, FunctionIsSeq
    <3>3. Append(o, out(rule)) = [i \in 1..rule |-> out(i)] /\ Len(Append(o, out(rule))) = rule
      BY <3>1, <3>2
    <3>4. QED
      BY <3>3 DEF out
  <2> HIDE DEF x, u, m, v, o
  <2>8. report' = [violations |-> v + m, findings |-> x.findings,
                   outcomes |-> Append(o, OutcomeOf(rule))]
    <3> DEFINE w == x.violations
               fs == x.findings
               out == OutcomeOf(rule)
               y == [violations |-> w, findings |-> fs, outcomes |-> o]
    <3>1. x = y /\ w + u = v + m
      BY <2>4
    <3> HIDE DEF w, fs, out
    <3>2. y.violations = w /\ y.outcomes = o
      OBVIOUS
    <3>3. \A p, q : [y EXCEPT !.violations = p, !.outcomes = q]
                      = [violations |-> p, findings |-> fs, outcomes |-> q]
      <4> TAKE p, q
      <4> DEFINE z == [violations |-> p, findings |-> fs, outcomes |-> o]
      <4>1. [y EXCEPT !.violations = p] = z
        OBVIOUS
      <4>2. [z EXCEPT !.outcomes = q] = [violations |-> p, findings |-> fs, outcomes |-> q]
        OBVIOUS
      <4> HIDE DEF y, z
      <4>3. QED
        BY <4>1, <4>2
    <3> HIDE DEF y
    <3>4. report' = [violations |-> w + u, findings |-> fs, outcomes |-> Append(o, out)]
      BY <2>5, <3>1, <3>2, <3>3 DEF out
    <3>5. QED
      BY <3>1, <3>4 DEF fs, out
  <2>9. ReportInv'
    <3>1. report' \in [violations : Nat, findings : Seq(RealFindings), outcomes : {report'.outcomes}]
      BY <2>4, <2>6, <2>8
    <3>2. report' \in Reports(report'.outcomes)
      BY <2>4, <2>8, <3>1 DEF Reports
    <3>3. rule \in 0..Len(job.plans)
      BY <1>1, PlansFacts
    <3>4. report'.outcomes = [i \in 1..rule |-> OutcomeOf(i)] /\ Len(report'.outcomes) = rule
      BY <2>7, <2>8
    <3>5. QED
      BY <1>1, <2>1, <3>2, <3>3, <3>4, ReportNext
  <2>10. CountInv'
    <3> DEFINE a == Cardinality(Rejections)
               k == Cardinality(AbsencesUpto(rule - 1))
    <3>1. a \in Nat /\ k \in Nat
      <4>1. IsFiniteSet(AbsencesUpto(rule - 1))
        <5>1. AbsencesUpto(rule - 1) \in SUBSET Absences
          BY DEF AbsencesUpto
        <5>2. QED
          BY <1>1, <5>1, ViolationsFinite, FS_Subset
      <4>2. k \in Nat
        BY <4>1, FS_CardinalityType
      <4>3. a \in Nat
        BY <1>1, ViolationsFinite, FS_CardinalityType
      <4>4. QED
        BY <4>2, <4>3
    <3>2. Cardinality(AbsencesUpto(rule)) = k + m
      BY <1>1, AbsencesStep DEF m, AbsentKeys
    <3>3. v = a + k
      BY <1>2 DEF v
    <3>4. (AbsencesUpto(rule - 1))' = AbsencesUpto(rule)
      <4>1. (rule - 1)' = rule
        BY <1>1, <2>1
      <4>2. QED
        BY <2>1, <4>1, JobKept DEF AbsencesUpto
    <3>5. a' = a
      BY <2>1, JobKept
    <3> HIDE DEF k
    <3>6. report'.violations = a + (k + m)
      <4> HIDE DEF a
      <4>1. QED
        BY <2>4, <2>8, <3>1, <3>3
    <3>7. report'.violations = (Cardinality(Rejections) + Cardinality(AbsencesUpto(rule - 1)))'
      BY <3>2, <3>4, <3>5, <3>6
    <3>8. rule' \in 1..Len(job'.plans) + 1 /\ Len(report'.outcomes) = rule' - 1
      BY <1>1, <2>1, <2>7, <2>8, PlansFacts
    <3>9. pc' = "finish" /\ pc' \notin Before
      BY <1>1, <2>1 DEF Before
    <3>10. QED
      BY <3>7, <3>8, <3>9 DEF CountInv
  <2>11. QED
    BY <2>2, <2>9, <2>10 DEF Inv
<1>5. QED
  BY <1>3, <1>4

-----------------------------------------------------------------------------
(* All steps *)

\* Every step keeps the invariant.
LEMMA NextKeeps == Inv /\ [Next]_vars => Inv'
<1> SUFFICES ASSUME Inv, [Next]_vars PROVE Inv'
  OBVIOUS
<1>1. CASE Cancel
  <2>1. UNCHANGED <<job, bindings, counted, scanned, prepared, rule, reader, batch, scan,
                    local, report, pc>>
    BY <1>1 DEF Cancel
  <2>2. QED
    BY <2>1, UnchangedKeeps
<1>2. CASE Refused
  <2>1. \E e : Fail(e)
    BY <1>2 DEF Refused
  <2>2. QED
    BY <2>1, FailKeeps
<1>3. CASE UNCHANGED vars
  <2>1. UNCHANGED <<job, bindings, counted, scanned, prepared, rule, reader, batch, scan,
                    local, report, pc>>
    BY <1>3 DEF vars
  <2>2. QED
    BY <2>1, UnchangedKeeps
<1>4. CASE Bind \/ BindEnd
  BY <1>4, BindKeeps, BindEndKeeps
<1>5. CASE AlreadyCounted \/ TakeToCount \/ CountBatch \/ CountEnd \/ AllCounted
  BY <1>5, AlreadyCountedKeeps, TakeToCountKeeps, CountBatchKeeps, CountEndKeeps, AllCountedKeeps
<1>6. CASE Reuse \/ TakeToScan \/ ScanBatch \/ ScanEnd \/ Prepared
  BY <1>6, ReuseKeeps, TakeToScanKeeps, ScanBatchKeeps, ScanEndKeeps, PreparedKeeps
<1>7. CASE SubjectBatch \/ SubjectEnd
  BY <1>7, SubjectBatchKeeps, SubjectEndKeeps
<1>8. CASE FinishRule \/ FinishEnd \/ CompareRows \/ Finish
  BY <1>8, FinishRuleKeeps, FinishEndKeeps, CompareRowsKeeps, FinishKeeps
<1>9. QED
  BY <1>1, <1>2, <1>3, <1>4, <1>5, <1>6, <1>7, <1>8 DEF Next

-----------------------------------------------------------------------------
(* The theorems *)

\* In every reachable state the scans, the collected keys and the count of violations
\* are those of what has been read of the datasets (prepare, update and finish of
\* execution/references.rs).
THEOREM InvHolds == Spec => []Inv
<1>1. Init => Inv
  BY InvInit
<1>2. Inv /\ [Next]_vars => Inv'
  BY NextKeeps
<1>3. QED
  BY <1>1, <1>2, PTL DEF Spec

\* The subject is not read unless the bound datasets are exactly those the rules name
\* (the check after the loop of prepare), whatever the contract and the bindings.
THEOREM BindingsMatchHolds == Spec => []BindingsMatch
<1>1. Inv => BindingsMatch
  <2> SUFFICES ASSUME Inv PROVE BindingsMatch
    OBVIOUS
  <2>1. job \in Jobs /\ rule \in Nat \ {0} /\ batch \in Nat \ {0}
    BY InvJob
  <2>2. DOMAIN bindings \subseteq BoundNames
    BY DEF Inv, BindInv, BoundNames
  <2>3. DOMAIN counted \cup {key[1] : key \in DOMAIN scanned} \subseteq UsedNames
    BY DEF Inv, NamesInv, ScannedNames
  <2>4. \A i \in DOMAIN prepared : prepared[i] \in Range(scanned)
    <3>1. DOMAIN prepared = 1..Len(prepared)
      BY SequenceFacts DEF Inv, PreparedInv
    <3>2. \A i \in 1..Len(prepared) : \E k \in DOMAIN scanned : prepared[i] = scanned[k]
      BY DEF Inv, PreparedInv
    <3>3. QED
      BY <3>1, <3>2 DEF Range
  <2>5. report.violations \in Nat /\ Len(report.findings) <= FindingLimit
        /\ Len(report.outcomes) <= Len(job.plans)
    <3>1. /\ report.violations \in Nat
          /\ Len(report.findings) = Min({FindingLimit, report.violations})
          /\ Len(report.outcomes) \in 0..Len(job.plans)
      BY DEF Inv, ReportInv
    <3>2. FindingLimit \in Nat /\ Len(job.plans) \in Nat
      BY <2>1, JobFacts
    <3>3. Min({FindingLimit, report.violations})
            = IF FindingLimit <= report.violations THEN FindingLimit ELSE report.violations
      BY <3>1, <3>2, MinOfTwo
    <3>4. QED
      BY <3>1, <3>2, <3>3
  <2>6. pc \in {"bind", "count", "drain", "prepare", "scan", "subject", "finish", "compare",
                "done", "failed"}
    BY DEF Inv, TypeInv, Before, After
  <2>7. TypeOK
    BY <2>1, <2>2, <2>3, <2>4, <2>5, <2>6 DEF TypeOK
  <2>8. pc \in {"subject", "finish", "compare", "done"} => BoundNames = UsedNames
    <3>1. NamesInv
      BY DEF Inv
    <3>2. pc \in After => BoundNames = UsedNames
      BY <3>1, SMTT(30) DEF NamesInv
    <3>3. QED
      BY <3>2 DEF After
  <2>9. QED
    BY <2>7, <2>8 DEF BindingsMatch
<1>2. QED
  BY <1>1, InvHolds, PTL

\* Every finding that is recorded is about a rejected row, or about the first row that
\* carries an absent key (record_lazy, update and finish), for every limit.
THEOREM FindingsAreRealHolds == Spec => []FindingsAreReal
<1>1. Inv => FindingsAreReal
  <2> SUFFICES ASSUME Inv, NEW n \in DOMAIN report.findings, report.findings[n].rule # 0
               PROVE  LET finding == report.findings[n]
                          rows == AllRows(job.subject)
                          Key(r) == EncodeKey(job.subject, rows[r], job.plans[finding.rule].local)
                      IN /\ finding.row + 1 \in DOMAIN rows
                         /\ \/ finding.row + 1 \in Rejected(finding.rule)
                            \/ /\ Key(finding.row + 1)
                                    \in Ours(finding.rule) \ Theirs(finding.rule)
                               /\ \A r \in 1..finding.row : Key(r) # Key(finding.row + 1)
    BY DEF FindingsAreReal
  <2> DEFINE finding == report.findings[n]
  <2>1. finding \in RealFindings
    <3>1. report.findings \in Seq(RealFindings)
      BY DEF Inv, ReportInv
    <3>2. QED
      BY <3>1, SeqElements
  <2>2. RealRow(finding.rule, finding.row)
    BY <2>1 DEF RealFindings
  <2>3. DOMAIN AllRows(job.subject) = 1..Len(AllRows(job.subject))
    BY InvJob, SubjectLen
  <2> HIDE DEF finding
  <2>4. /\ finding.row + 1 \in DOMAIN AllRows(job.subject)
        /\ \/ finding.row + 1 \in Rejected(finding.rule)
           \/ /\ OurKey(finding.rule, finding.row + 1) \in Ours(finding.rule) \ Theirs(finding.rule)
              /\ \A r \in 1..finding.row :
                   OurKey(finding.rule, r) # OurKey(finding.rule, finding.row + 1)
    BY <2>2, <2>3 DEF RealRow
  <2>5. QED
    BY <2>4 DEF OurKey, finding
<1>2. QED
  BY <1>1, InvHolds, PTL

\* A finished execution reports every rule with the dataset it names, all of it, and
\* counts each absent key, each rejected row and each broken row-count rule once
\* (finish, record_lazy and check_row_count_delta), for every limit, contract and subject.
THEOREM ReportIsExactHolds == Spec => []ReportIsExact
<1>1. Inv => ReportIsExact
  <2> SUFFICES ASSUME Inv, pc = "done" PROVE ReportIsExact
    BY DEF ReportIsExact
  <2>1. /\ Len(report.outcomes) = Len(job.plans)
        /\ report.violations = (Cardinality(Rejections) + Cardinality(Absences))
             + Cardinality(BrokenDeltas)
        /\ Len(report.findings) = Min({FindingLimit, report.violations})
        /\ report.outcomes = [i \in 1..Len(report.outcomes) |-> OutcomeOf(i)]
    BY DEF Inv, CountInv, ReportInv, Before
  <2>2. job \in Jobs
    BY InvJob
  <2>3. \A i \in DOMAIN job.plans : report.outcomes[i] = OutcomeOf(i)
    BY <2>1, <2>2, PlansFacts
  <2>4. \A i \in DOMAIN job.plans :
          OutcomeOf(i) =
            LET dataset == BoundTo(job.plans[i].reference) IN
            [reference |-> job.plans[i].reference,
             fingerprint |-> <<dataset.types, AllRows(dataset)>>,
             rows |-> Len(AllRows(dataset)),
             keys |-> Cardinality(Theirs(i)),
             checked |-> Cardinality(Ours(i)),
             missing |-> Cardinality(Ours(i) \ Theirs(i))]
    BY DEF OutcomeOf, SealedOf
  <2>5. report.violations = Cardinality(Absences) + Cardinality(Rejections)
                              + Cardinality(BrokenDeltas)
    <3>1. /\ Cardinality(Absences) \in Nat /\ Cardinality(Rejections) \in Nat
          /\ Cardinality(BrokenDeltas) \in Nat
      BY <2>2, ViolationsFinite, FS_CardinalityType
    <3>2. QED
      BY <2>1, <3>1
  <2>6. QED
    BY <2>1, <2>3, <2>4, <2>5 DEF ReportIsExact
<1>2. QED
  BY <1>1, InvHolds, PTL
===============================================================================
