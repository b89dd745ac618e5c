----------------------------- MODULE KeyMergeProofs -----------------------------
(***************************************************************************)
(* Proofs about KeyMerge for every number of runs, every content of them   *)
(* and every number of samples.                                            *)
(***************************************************************************)
EXTENDS KeyMerge, FiniteSetTheorems, WellFoundedInduction, NaturalsInduction, TLAPS

SortedInv == \A s \in Side, r \in Run : Sorted(runs[s][r])

\* What a side holds in each phase of the walk.
Control(s) ==
    /\ pc = "idle" => got[s] = "unread" /\ want = {}
    /\ pc = "walk" /\ s \notin want => got[s] \in {"held", "none"}
    /\ s \in want => got[s] # "none"
    /\ pc = "done" => got[s] = "none"

\* The yielded record parts the records of its side: what is behind the cursors
\* is not above it, what is before them not below it.
Parted(s) ==
    \A r \in Run : \A i \in DOMAIN runs[s][r] :
        /\ i < at[s][r] => runs[s][r][i].value <= item[s].value
        /\ i >= at[s][r] => item[s].value <= runs[s][r][i].value
        /\ i >= at[s][r] /\ got[s] = "held" => item[s].value # runs[s][r][i].value
        /\ runs[s][r][i].value = item[s].value => item[s].row <= runs[s][r][i].row

MergeInv(s) ==
    /\ got[s] = "unread" => \A r \in Run : at[s][r] = 1
    /\ got[s] = "none" => Live(s) = {}
    /\ got[s] \in {"draining", "held"} =>
        Parted(s) /\ item[s].value \in Keys(s) /\ item[s] \in Record

\* The keys a side has yielded.
Counted(s) ==
    {k \in Keys(s) : \/ got[s] = "none"
                     \/ got[s] = "held" /\ k <= item[s].value
                     \/ got[s] = "draining" /\ k < item[s].value}

\* The keys of a side that the walk is done with.
Passed(s) ==
    {k \in Counted(s) : got[s] = "held" /\ s \notin want => k < item[s].value}

\* A key that both sides have is passed on both sides or on none.
Separation ==
    \A k \in Keys("left") \cap Keys("right") : k \in Passed("left") <=> k \in Passed("right")

\* The part of the answer that the walk is done with.
Hits == Answer \cap Passed("left")

WalkInv == Separation /\ found = Cardinality(Hits) /\ SamplesAreFirst

Inv ==
    /\ TypeOK /\ SortedInv
    /\ \A s \in Side : Control(s)
    /\ \A s \in Side : MergeInv(s)
    /\ \A s \in Side : distinct[s] = Cardinality(Counted(s))
    /\ WalkInv

-----------------------------------------------------------------------------
(* Facts about sets *)

\* The values of a function on a finite set are finitely many.
LEMMA FiniteImage ==
    ASSUME NEW S, IsFiniteSet(S), NEW f
    PROVE  IsFiniteSet({f[x] : x \in S})
<1> DEFINE T == {f[x] : x \in S}
           g == [x \in S |-> f[x]]
<1>1. g \in Surjection(S, T)
  BY DEF Surjection
<1> QED
  BY <1>1, FS_Surjection

\* A set of row numbers has a least element.
LEMMA LeastRow ==
    ASSUME NEW T, T \subseteq Nat, T # {}
    PROVE  \E n \in T : \A m \in T : n <= m
<1>1. PICK n \in T : \A m \in T : ~(<<m, n>> \in OpToRel(<, Nat))
  BY NatLessThanWellFounded, WFMin
<1>2. \A m \in T : n <= m
  <2> SUFFICES ASSUME NEW m \in T PROVE n <= m
    OBVIOUS
  <2>1. n \in Nat /\ m \in Nat
    OBVIOUS
  <2>2. ~(m < n)
    BY <1>1, <2>1 DEF OpToRel
  <2> QED
    BY <2>1, <2>2
<1> QED
  BY <1>2

-----------------------------------------------------------------------------
(* Keys and records *)

\* The keys of a side are the values of its records, integers and finitely many.
LEMMA KeyFacts ==
    ASSUME TypeOK, NEW s \in Side
    PROVE  /\ \A r \in Run : \A i \in DOMAIN runs[s][r] :
                /\ runs[s][r][i] \in Record
                /\ runs[s][r][i].value \in Keys(s)
                /\ runs[s][r][i].value \in Int
                /\ runs[s][r][i].row \in Nat
           /\ \A k \in Keys(s) : k \in Int /\ \E r \in Run : \E i \in DOMAIN runs[s][r] :
                k = runs[s][r][i].value
           /\ \A record \in Records(s) : \E r \in Run : \E i \in DOMAIN runs[s][r] :
                record = runs[s][r][i]
           /\ IsFiniteSet(Keys(s))
<1> DEFINE Of(r) == {runs[s][r][i] : i \in DOMAIN runs[s][r]}
<1>1. \A r \in Run : runs[s][r] \in Seq(Record)
  BY DEF TypeOK
<1>2. \A r \in Run : \A i \in DOMAIN runs[s][r] : runs[s][r][i] \in Record
  BY <1>1
<1>3. \A record \in Record : record.value \in Int /\ record.row \in Nat
  BY MergeAssumption DEF Record
<1>4. \A r \in Run : \A i \in DOMAIN runs[s][r] : runs[s][r][i] \in Records(s)
  BY DEF Records
<1>5. \A record \in Records(s) : \E r \in Run : \E i \in DOMAIN runs[s][r] :
        record = runs[s][r][i]
  BY DEF Records
<1>6. \A record \in Records(s) : record.value \in Keys(s)
  BY DEF Keys
<1>7. \A k \in Keys(s) : \E record \in Records(s) : k = record.value
  BY DEF Keys
<1>8. \A k \in Keys(s) : k \in Int /\ \E r \in Run : \E i \in DOMAIN runs[s][r] :
        k = runs[s][r][i].value
  BY <1>2, <1>3, <1>5, <1>7
<1>9. IsFiniteSet(Keys(s))
  <2>1. \A r \in Run : IsFiniteSet(Of(r))
    <3> SUFFICES ASSUME NEW r \in Run PROVE IsFiniteSet(Of(r))
      OBVIOUS
    <3>1. PICK n \in Nat : DOMAIN runs[s][r] = 1..n
      BY <1>1
    <3>2. IsFiniteSet(DOMAIN runs[s][r])
      BY <3>1, FS_Interval
    <3> QED
      BY <3>2, FiniteImage
  <2>2. IsFiniteSet({Of(r) : r \in Run})
    <3> DEFINE f == [r \in Run |-> Of(r)]
    <3>1. IsFiniteSet({f[r] : r \in Run})
      BY RunAssumption, FiniteImage
    <3>2. {f[r] : r \in Run} = {Of(r) : r \in Run}
      OBVIOUS
    <3> QED
      BY <3>1, <3>2
  <2>3. IsFiniteSet(UNION {Of(r) : r \in Run})
    <3>1. \A T \in {Of(r) : r \in Run} : IsFiniteSet(T)
      BY <2>1
    <3> HIDE DEF Of
    <3> QED
      BY <2>2, <3>1, FS_UNION
  <2>4. IsFiniteSet(Records(s))
    BY <2>3 DEF Records
  <2>5. PICK f : f = [record \in Records(s) |-> record.value]
    OBVIOUS
  <2>6. Keys(s) = {f[record] : record \in Records(s)}
    BY <2>5 DEF Keys
  <2> QED
    BY <2>4, <2>6, FiniteImage
<1> QED
  BY <1>2, <1>3, <1>4, <1>5, <1>6, <1>8, <1>9

-----------------------------------------------------------------------------
(* One side *)

\* A step that does not touch a merge leaves its invariant and its sets alone.
LEMMA Frame ==
    ASSUME NEW s \in Side, runs' = runs, at'[s] = at[s], got'[s] = got[s], item'[s] = item[s]
    PROVE  /\ MergeInv(s) => MergeInv(s)'
           /\ Keys(s)' = Keys(s)
           /\ Counted(s)' = Counted(s)
           /\ (s \in want' <=> s \in want) => Passed(s)' = Passed(s)
<1>1. Records(s)' = Records(s)
  BY DEF Records
<1>2. Keys(s)' = Keys(s)
  BY <1>1 DEF Keys
<1>3. Live(s)' = Live(s)
  BY DEF Live
<1>4. Parted(s)' <=> Parted(s)
  BY DEF Parted
<1>5. MergeInv(s) => MergeInv(s)'
  BY <1>2, <1>3, <1>4 DEF MergeInv
<1>6. Counted(s)' = Counted(s)
  BY <1>2 DEF Counted
<1> QED
  BY <1>2, <1>5, <1>6 DEF Passed

\* What is before the cursors of a side is not below the top of its heap.
LEMMA TopIsLeast ==
    ASSUME TypeOK, SortedInv, NEW s \in Side, NEW r \in Run, Top(s, r)
    PROVE  /\ at[s][r] \in DOMAIN runs[s][r]
           /\ Under(s, r) = runs[s][r][at[s][r]]
           /\ \A q \in Run : \A i \in DOMAIN runs[s][q] :
                i >= at[s][q] => Precedes(Under(s, r), runs[s][q][i])
<1>1. \A q \in Run : /\ runs[s][q] \in Seq(Record) /\ at[s][q] \in Nat \ {0}
                     /\ DOMAIN runs[s][q] = 1..Len(runs[s][q]) /\ Len(runs[s][q]) \in Nat
  BY DEF TypeOK
<1>2. at[s][r] \in DOMAIN runs[s][r] /\ Under(s, r) = runs[s][r][at[s][r]]
  BY <1>1 DEF Top, Live, Under
<1>3. ASSUME NEW q \in Run, NEW i \in DOMAIN runs[s][q], i >= at[s][q]
      PROVE  Precedes(Under(s, r), runs[s][q][i])
  <2>1. at[s][q] \in DOMAIN runs[s][q] /\ q \in Live(s)
    BY <1>1, <1>3 DEF Live
  <2>2. Precedes(Under(s, r), runs[s][q][at[s][q]])
    BY <2>1 DEF Top, Under
  <2>3. Precedes(runs[s][q][at[s][q]], runs[s][q][i])
    BY <1>3, <2>1 DEF SortedInv, Sorted
  <2>4. /\ Under(s, r).value \in Int /\ Under(s, r).row \in Nat
        /\ runs[s][q][at[s][q]].value \in Int /\ runs[s][q][at[s][q]].row \in Nat
        /\ runs[s][q][i].value \in Int /\ runs[s][q][i].row \in Nat
    BY <1>2, <2>1, KeyFacts
  <2> QED
    BY <2>2, <2>3, <2>4 DEF Precedes
<1> QED
  BY <1>2, <1>3

\* A popped record is the least that was left; no key is counted yet.
LEMMA PopMerge ==
    ASSUME TypeOK, SortedInv, NEW s \in Side, NEW r \in Run, Control(s), MergeInv(s), Pop(s, r)
    PROVE  MergeInv(s)' /\ Counted(s)' = Counted(s) /\ Passed(s)' = Passed(s)
<1> DEFINE top == Under(s, r)
<1>1. /\ got[s] \in {"unread", "held"} /\ s \in want /\ want' = want
      /\ runs' = runs /\ got'[s] = "draining" /\ item'[s] = top
      /\ at'[s] = [at[s] EXCEPT ![r] = @ + 1]
  BY DEF Pop, Turn, Control, TypeOK, Advance, Side
<1>2. /\ at[s][r] \in DOMAIN runs[s][r] /\ top = runs[s][r][at[s][r]]
      /\ \A q \in Run : \A i \in DOMAIN runs[s][q] :
                i >= at[s][q] => Precedes(top, runs[s][q][i])
  BY TopIsLeast DEF Pop
<1>3. top \in Record /\ top.value \in Int /\ top.row \in Nat /\ top.value \in Keys(s)
  BY <1>2, KeyFacts
<1>4. Keys(s)' = Keys(s)
  BY <1>1 DEF Keys, Records
<1>5. ASSUME NEW q \in Run, NEW i \in DOMAIN runs[s][q]
      PROVE  /\ i < at[s][q] => /\ got[s] = "held" /\ item[s].value < top.value
                                /\ runs[s][q][i].value <= item[s].value
             /\ i >= at[s][q] => /\ top.value <= runs[s][q][i].value
                                 /\ got[s] = "held" => item[s].value < runs[s][q][i].value
                                 /\ runs[s][q][i].value = top.value => top.row <= runs[s][q][i].row
  <2>1. runs[s][q][i].value \in Int /\ runs[s][q][i].row \in Nat
    BY <1>5, KeyFacts
  <2>2. at[s][q] \in Nat /\ at[s][r] \in Nat /\ i \in Nat \ {0}
    BY <1>5 DEF TypeOK
  <2>3. got[s] = "held" => item[s].value \in Int /\ Parted(s)
    BY MergeAssumption DEF MergeInv, Record
  <2>4. got[s] = "held" => item[s].value < top.value
    BY <1>2, <1>3, <2>2, <2>3 DEF Parted
  <2>5. i >= at[s][q] /\ got[s] = "held" => item[s].value < runs[s][q][i].value
    BY <1>5, <2>1, <2>3 DEF Parted
  <2>6. i < at[s][q] => got[s] = "held" /\ runs[s][q][i].value <= item[s].value
    BY <1>1, <1>5, <2>2, <2>3 DEF MergeInv, Parted
  <2>7. i >= at[s][q] => Precedes(top, runs[s][q][i])
    BY <1>2, <1>5
  <2>8. i >= at[s][q] => /\ top.value <= runs[s][q][i].value
                         /\ runs[s][q][i].value = top.value => top.row <= runs[s][q][i].row
    BY <1>3, <2>1, <2>7 DEF Precedes
  <2> QED
    BY <2>4, <2>5, <2>6, <2>8
<1>6. Parted(s)'
  <2> SUFFICES ASSUME NEW q \in Run, NEW i \in DOMAIN runs[s][q]
               PROVE  /\ i < at'[s][q] => runs[s][q][i].value <= top.value
                      /\ i >= at'[s][q] => top.value <= runs[s][q][i].value
                      /\ runs[s][q][i].value = top.value => top.row <= runs[s][q][i].row
    BY <1>1 DEF Parted
  <2>1. runs[s][q][i].value \in Int /\ runs[s][q][i].row \in Nat /\ top.value \in Int
    BY <1>3, KeyFacts
  <2>2. at[s][q] \in Nat /\ i \in Nat /\ at[s][r] \in Nat
    BY DEF TypeOK
  <2>3. i < at[s][q] => runs[s][q][i].value < top.value
    <3> HAVE i < at[s][q]
    <3>1. item[s].value \in Int
      BY <1>5, MergeAssumption DEF MergeInv, Record
    <3> QED
      BY <1>5, <2>1, <3>1
  <2>4. i < at'[s][q] => i < at[s][q] \/ (q = r /\ i = at[s][r])
    BY <1>1, <2>2 DEF TypeOK
  <2>5. i >= at'[s][q] => i >= at[s][q]
    BY <1>1, <2>2 DEF TypeOK
  <2>6. i < at'[s][q] => runs[s][q][i].value <= top.value
    BY <1>2, <2>1, <2>3, <2>4
  <2>7. i >= at'[s][q] => top.value <= runs[s][q][i].value
    BY <1>5, <2>5
  <2>8. runs[s][q][i].value = top.value => top.row <= runs[s][q][i].row
    BY <1>5, <2>1, <2>2, <2>3
  <2> QED
    BY <2>6, <2>7, <2>8
<1>7. MergeInv(s)'
  BY <1>1, <1>3, <1>4, <1>6 DEF MergeInv
<1>8. ASSUME NEW k \in Keys(s)
      PROVE  (got[s] = "held" /\ k <= item[s].value) <=> k < top.value
  <2>1. PICK q \in Run : \E i \in DOMAIN runs[s][q] : k = runs[s][q][i].value
    BY <1>8, KeyFacts
  <2>2. PICK i \in DOMAIN runs[s][q] : k = runs[s][q][i].value
    BY <2>1
  <2>3. k \in Int /\ at[s][q] \in Nat /\ i \in Nat
    BY <1>8, KeyFacts DEF TypeOK
  <2>4. got[s] = "held" => item[s].value \in Int
    BY MergeAssumption DEF MergeInv, Record
  <2>5. CASE i < at[s][q]
    BY <1>3, <1>5, <2>2, <2>3, <2>4, <2>5
  <2>6. CASE i >= at[s][q]
    BY <1>3, <1>5, <2>2, <2>3, <2>4, <2>6
  <2> QED
    BY <2>3, <2>5, <2>6
<1>9. Counted(s)' = Counted(s)
  BY <1>1, <1>4, <1>8 DEF Counted
<1>10. Passed(s)' = Passed(s)
  BY <1>1, <1>9 DEF Passed
<1> QED
  BY <1>7, <1>9, <1>10

\* An exhausted side has yielded all its keys.
LEMMA PopNoneMerge ==
    ASSUME TypeOK, NEW s \in Side, Control(s), MergeInv(s), PopNone(s)
    PROVE  MergeInv(s)' /\ Counted(s)' = Counted(s) /\ Passed(s)' = Passed(s)
<1>1. /\ got[s] \in {"unread", "held"} /\ s \in want /\ s \notin want'
      /\ runs' = runs /\ at' = at /\ item' = item /\ got'[s] = "none" /\ Live(s) = {}
  BY DEF PopNone, Turn, Control, TypeOK, Side
<1>2. Keys(s)' = Keys(s)
  BY <1>1 DEF Keys, Records
<1>3. MergeInv(s)'
  BY <1>1 DEF MergeInv, Live
<1>4. ASSUME NEW k \in Keys(s)
      PROVE  got[s] = "held" /\ k <= item[s].value
  <2>1. PICK q \in Run : \E i \in DOMAIN runs[s][q] : k = runs[s][q][i].value
    BY <1>4, KeyFacts
  <2>2. PICK i \in DOMAIN runs[s][q] : k = runs[s][q][i].value
    BY <2>1
  <2>3. /\ i \in 1..Len(runs[s][q]) /\ Len(runs[s][q]) \in Nat /\ at[s][q] \in Nat
    BY DEF TypeOK
  <2>4. i < at[s][q] /\ at[s][q] # 1
    BY <1>1, <2>3 DEF Live
  <2>5. got[s] = "held"
    BY <1>1, <2>4 DEF MergeInv
  <2> QED
    BY <2>2, <2>4, <2>5 DEF MergeInv, Parted
<1>5. Counted(s)' = Counted(s)
  BY <1>1, <1>2, <1>4 DEF Counted
<1>6. Passed(s)' = Passed(s)
  BY <1>1, <1>5 DEF Passed
<1> QED
  BY <1>3, <1>5, <1>6

\* A drained copy is not above the value it is a copy of.
LEMMA DrainMerge ==
    ASSUME TypeOK, NEW s \in Side, NEW r \in Run, MergeInv(s), Drain(s, r)
    PROVE  MergeInv(s)' /\ Counted(s)' = Counted(s) /\ Passed(s)' = Passed(s)
<1>1. /\ got[s] = "draining" /\ want' = want /\ runs' = runs /\ item' = item /\ got' = got
      /\ at'[s] = [at[s] EXCEPT ![r] = @ + 1]
      /\ Under(s, r).value = item[s].value
  BY DEF Drain, TypeOK, Advance
<1>2. Keys(s)' = Keys(s)
  BY <1>1 DEF Keys, Records
<1>3. Parted(s)'
  <2> SUFFICES ASSUME NEW q \in Run, NEW i \in DOMAIN runs[s][q]
               PROVE  /\ i < at'[s][q] => runs[s][q][i].value <= item[s].value
                      /\ i >= at'[s][q] => item[s].value <= runs[s][q][i].value
                      /\ runs[s][q][i].value = item[s].value => item[s].row <= runs[s][q][i].row
    BY <1>1 DEF Parted
  <2>1. at[s][q] \in Nat /\ i \in Nat /\ at[s][r] \in Nat
    BY DEF TypeOK
  <2>2. i < at'[s][q] => i < at[s][q] \/ (q = r /\ i = at[s][r])
    BY <1>1, <2>1 DEF TypeOK
  <2>3. i >= at'[s][q] => i >= at[s][q]
    BY <1>1, <2>1 DEF TypeOK
  <2>4. Parted(s) /\ item[s].value \in Int
    BY <1>1, MergeAssumption DEF MergeInv, Record
  <2> QED
    BY <1>1, <2>2, <2>3, <2>4 DEF Parted, Under
<1>4. MergeInv(s)'
  BY <1>1, <1>2, <1>3 DEF MergeInv
<1>5. Counted(s)' = Counted(s)
  BY <1>1, <1>2 DEF Counted
<1> QED
  BY <1>1, <1>4, <1>5 DEF Passed

\* A value is yielded when no copy of it is left anywhere, and counted then.
LEMMA YieldMerge ==
    ASSUME TypeOK, SortedInv, NEW s \in Side, MergeInv(s), Yield(s)
    PROVE  /\ MergeInv(s)' /\ Passed(s)' = Passed(s)
           /\ Counted(s)' = Counted(s) \cup {item[s].value}
           /\ item[s].value \notin Counted(s)
<1>1. /\ got[s] = "draining" /\ got'[s] = "held" /\ s \in want /\ s \notin want'
      /\ runs' = runs /\ at' = at /\ item' = item
      /\ \A r \in Live(s) : Top(s, r) => Under(s, r).value # item[s].value
  BY DEF Yield, Turn, TypeOK
<1>2. Keys(s)' = Keys(s)
  BY <1>1 DEF Keys, Records
<1>3. Parted(s) /\ item[s].value \in Keys(s) /\ item[s].value \in Int /\ item[s] \in Record
  BY <1>1, KeyFacts DEF MergeInv
<1>4. \A q \in Live(s) : /\ Under(s, q).value \in Int /\ Under(s, q).row \in Nat
                         /\ item[s].value <= Under(s, q).value
  <2> SUFFICES ASSUME NEW q \in Live(s)
               PROVE  /\ Under(s, q).value \in Int /\ Under(s, q).row \in Nat
                      /\ item[s].value <= Under(s, q).value
    OBVIOUS
  <2>1. q \in Run /\ at[s][q] \in DOMAIN runs[s][q] /\ at[s][q] \in Nat
    BY DEF Live, TypeOK
  <2> QED
    BY <1>3, <2>1, KeyFacts DEF Parted, Under
<1>5. \A q \in Live(s) : Under(s, q).value # item[s].value
  <2> SUFFICES ASSUME NEW q \in Live(s), Under(s, q).value = item[s].value PROVE FALSE
    OBVIOUS
  <2> DEFINE copies == {p \in Live(s) : Under(s, p).value = item[s].value}
             rows == {Under(s, p).row : p \in copies}
  <2>1. rows \subseteq Nat /\ rows # {}
    BY <1>4
  <2>2. PICK n \in rows : \A m \in rows : n <= m
    BY <2>1, LeastRow
  <2>3. PICK p \in copies : Under(s, p).row = n
    OBVIOUS
  <2>4. ASSUME NEW o \in Live(s) PROVE Precedes(Under(s, p), Under(s, o))
    <3>1. CASE o \in copies
      BY <1>4, <2>2, <2>3, <3>1 DEF Precedes
    <3>2. CASE o \notin copies
      BY <1>3, <1>4, <2>4, <3>2 DEF Precedes
    <3> QED
      BY <3>1, <3>2
  <2>5. Top(s, p)
    BY <2>4 DEF Top
  <2> QED
    BY <1>1, <2>5
<1>6. ASSUME NEW q \in Run, NEW i \in DOMAIN runs[s][q], i >= at[s][q]
      PROVE  item[s].value # runs[s][q][i].value
  <2>1. /\ at[s][q] \in Nat \ {0} /\ Len(runs[s][q]) \in Nat
        /\ DOMAIN runs[s][q] = 1..Len(runs[s][q])
    BY DEF TypeOK
  <2>2. q \in Live(s) /\ at[s][q] \in DOMAIN runs[s][q]
    BY <1>6, <2>1 DEF Live
  <2>3. Precedes(runs[s][q][at[s][q]], runs[s][q][i])
    BY <1>6, <2>2 DEF SortedInv, Sorted
  <2>4. item[s].value < runs[s][q][at[s][q]].value
    BY <1>3, <1>4, <1>5, <2>2 DEF Under
  <2>5. runs[s][q][at[s][q]].value \in Int /\ runs[s][q][i].value \in Int
    BY <1>6, <2>2, KeyFacts
  <2> QED
    BY <1>3, <2>3, <2>4, <2>5 DEF Precedes
<1>7. Parted(s)'
  BY <1>1, <1>3, <1>6 DEF Parted
<1>8. MergeInv(s)'
  BY <1>1, <1>2, <1>3, <1>7 DEF MergeInv
<1>9. \A k \in Keys(s) : k \in Int
  BY KeyFacts
<1>10. Counted(s)' = Counted(s) \cup {item[s].value} /\ item[s].value \notin Counted(s)
  BY <1>1, <1>2, <1>3, <1>9 DEF Counted
<1>11. Passed(s)' = Passed(s)
  BY <1>1, <1>2, <1>3, <1>9 DEF Passed, Counted
<1> QED
  BY <1>8, <1>10, <1>11

\* The walk is done with the key a side holds when it asks for the next one.
LEMMA PassHeld ==
    ASSUME TypeOK, NEW s \in Side, MergeInv(s), got[s] = "held",
           UNCHANGED <<runs, merge>>, s \notin want, s \in want'
    PROVE  /\ Passed(s)' = Passed(s) \cup {item[s].value}
           /\ item[s].value \in Keys(s) \ Passed(s)
<1>1. item[s].value \in Keys(s) /\ item[s].value \in Int /\ \A k \in Keys(s) : k \in Int
  BY KeyFacts DEF MergeInv
<1>2. Keys(s)' = Keys(s) /\ Counted(s)' = Counted(s)
  BY Frame DEF merge
<1>3. Counted(s) = {k \in Keys(s) : k <= item[s].value}
  BY DEF Counted
<1>4. Passed(s) = {k \in Keys(s) : k < item[s].value}
  BY <1>1, <1>3 DEF Passed
<1>5. Passed(s)' = Counted(s)
  BY <1>2 DEF Passed, merge
<1> QED
  BY <1>1, <1>3, <1>4, <1>5

-----------------------------------------------------------------------------
(* The walk *)

\* The types are kept.
LEMMA TypeStep == Inv /\ [Next]_vars => TypeOK'
<1> SUFFICES ASSUME Inv, [Next]_vars PROVE TypeOK'
  OBVIOUS
<1>1. TypeOK
  BY DEF Inv
<1>2. ASSUME NEW s \in Side, NEW r \in Run, Advance(s, r), r \in Live(s), runs' = runs
      PROVE  /\ at' \in [Side -> [Run -> Nat \ {0}]]
             /\ \A t \in Side, q \in Run : at'[t][q] <= Len(runs'[t][q]) + 1
  <2>1. at[s][r] \in Nat /\ at[s][r] <= Len(runs[s][r]) /\ Len(runs[s][r]) \in Nat
    BY <1>1, <1>2 DEF TypeOK, Live
  <2>2. at' \in [Side -> [Run -> Nat \ {0}]]
    BY <1>1, <1>2, <2>1 DEF TypeOK, Advance
  <2>3. ASSUME NEW t \in Side, NEW q \in Run PROVE at'[t][q] <= Len(runs'[t][q]) + 1
    <3>1. CASE t = s /\ q = r
      BY <1>1, <1>2, <2>1, <3>1 DEF TypeOK, Advance
    <3>2. CASE ~(t = s /\ q = r)
      <4>1. at'[t][q] = at[t][q]
        BY <1>1, <1>2, <3>2 DEF TypeOK, Advance
      <4> QED
        BY <1>1, <1>2, <4>1 DEF TypeOK
    <3> QED
      BY <3>1, <3>2
  <2> QED
    BY <2>2, <2>3
<1>3. ASSUME NEW record \in Record, Find(record)
      PROVE  found' \in Nat /\ samples' \in Seq(Record) /\ Len(samples') <= MaxSamples
  BY <1>1, <1>3, MergeAssumption DEF TypeOK, Find
<1>4. Record \subseteq [value : Int, row : Nat]
  BY MergeAssumption DEF Record
<1>5. \A s \in Side : got[s] = "held" => item[s] \in Record
  BY DEF Inv, MergeInv
<1>6. CASE Open \/ Fails \/ Cancel \/ Finish \/ Stop \/ Greater \/ UNCHANGED vars
  BY <1>1, <1>6 DEF TypeOK, Open, Fails, Cancel, Finish, Stop, Greater, Side, merge, answer, vars
<1>7. CASE \E s \in Side, r \in Run : Pop(s, r)
  <2> PICK s \in Side, r \in Run : Pop(s, r)
    BY <1>7
  <2>1. Under(s, r) \in Record
    <3>1. at[s][r] \in DOMAIN runs[s][r]
      BY <1>1 DEF Pop, Top, Live, TypeOK
    <3> QED
      BY <1>1, <3>1, KeyFacts DEF Under
  <2>2. r \in Live(s) /\ runs' = runs /\ Advance(s, r)
    BY DEF Pop, Top
  <2> QED
    BY <1>1, <1>2, <1>4, <2>1, <2>2 DEF TypeOK, Pop, answer
<1>8. CASE \E s \in Side, r \in Run : Drain(s, r)
  <2> PICK s \in Side, r \in Run : Drain(s, r)
    BY <1>8
  <2>1. r \in Live(s) /\ runs' = runs /\ Advance(s, r)
    BY DEF Drain, Top
  <2> QED
    BY <1>1, <1>2, <2>1 DEF TypeOK, Drain, answer
<1>9. CASE \E s \in Side : PopNone(s) \/ Yield(s) \/ CountRest(s)
  <2> PICK s \in Side : PopNone(s) \/ Yield(s) \/ CountRest(s)
    BY <1>9
  <2>1. CASE PopNone(s)
    BY <1>1, <2>1 DEF TypeOK, PopNone, answer
  <2>2. CASE Yield(s)
    BY <1>1, <2>2 DEF TypeOK, Yield, answer
  <2>3. CASE CountRest(s)
    BY <1>1, <2>3 DEF TypeOK, CountRest, merge, answer
  <2> QED
    BY <2>1, <2>2, <2>3
<1>10. CASE Less
  <2>1. item["left"] \in Record
    BY <1>5, <1>10 DEF Less, Walking, Both, Side
  <2>2. found' \in Nat /\ samples' \in Seq(Record) /\ Len(samples') <= MaxSamples
    BY <1>1, <1>3, <1>10, <2>1 DEF Less, TypeOK, answer
  <2> QED
    BY <1>1, <1>10, <2>2 DEF TypeOK, Less, Side, merge
<1>11. CASE Equal
  <2>1. item["left"] \in Record
    BY <1>5, <1>11 DEF Equal, Both, Side
  <2>2. found' \in Nat /\ samples' \in Seq(Record) /\ Len(samples') <= MaxSamples
    BY <1>1, <1>3, <1>11, <2>1 DEF Equal, TypeOK, answer
  <2> QED
    BY <1>1, <1>11, <2>2 DEF TypeOK, Equal, Side, merge
<1> QED
  BY <1>6, <1>7, <1>8, <1>9, <1>10, <1>11 DEF Next, Step

\* What a side holds stays in step with the phase of the walk.
LEMMA ControlStep == Inv /\ [Next]_vars => \A s \in Side : Control(s)'
<1> SUFFICES ASSUME Inv, [Next]_vars, NEW s \in Side PROVE Control(s)'
  OBVIOUS
<1>1. TypeOK /\ Control(s) /\ Control("left") /\ Control("right")
  BY DEF Inv, Side
<1>2. CASE Open \/ Fails \/ Cancel \/ Finish \/ Stop \/ UNCHANGED vars
  BY <1>1, <1>2 DEF TypeOK, Control, Open, Fails, Cancel, Finish, Stop, Side, merge, answer, vars
<1>3. CASE Less \/ Greater \/ Equal
  BY <1>1, <1>3 DEF TypeOK, Control, Less, Greater, Equal, Compare, Walking, Both, Side, merge, answer
<1>4. CASE \E t \in Side, r \in Run : Pop(t, r) \/ Drain(t, r)
  BY <1>1, <1>4 DEF TypeOK, Control, Pop, Drain, Turn, Side
<1>5. CASE \E t \in Side : PopNone(t) \/ Yield(t) \/ CountRest(t)
  BY <1>1, <1>5 DEF TypeOK, Control, PopNone, Yield, CountRest, Turn, Side, merge
<1> QED
  BY <1>2, <1>3, <1>4, <1>5 DEF Next, Step

\* Fetching the next value of a side keeps both merges and their counts right,
\* and the walk is done with the same keys as before.
LEMMA FetchStep ==
    ASSUME Inv, NEW s \in Side, NEW t \in Side,
           \/ \E r \in Run : Pop(t, r) \/ Drain(t, r)
           \/ PopNone(t) \/ Yield(t)
    PROVE  /\ MergeInv(s)'
           /\ distinct'[s] = Cardinality(Counted(s)')
           /\ Passed(s)' = Passed(s)
<1>1. TypeOK /\ SortedInv /\ Control(t) /\ MergeInv(s) /\ distinct[s] = Cardinality(Counted(s))
  BY DEF Inv
<1>2. IsFiniteSet(Counted(s))
  <2>1. Counted(s) \in SUBSET Keys(s)
    BY DEF Counted
  <2> QED
    BY <1>1, <2>1, KeyFacts, FS_Subset
<1>3. CASE s # t
  <2>1. /\ runs' = runs /\ at'[s] = at[s] /\ got'[s] = got[s] /\ item'[s] = item[s]
        /\ distinct'[s] = distinct[s] /\ (s \in want' <=> s \in want)
    BY <1>1, <1>3 DEF TypeOK, Pop, PopNone, Drain, Yield, Advance
  <2> QED
    BY <1>1, <2>1, Frame
<1>4. CASE s = t
  <2>1. CASE \E r \in Run : Pop(s, r)
    BY <1>1, <1>4, <2>1, PopMerge DEF Pop
  <2>2. CASE \E r \in Run : Drain(s, r)
    BY <1>1, <1>4, <2>2, DrainMerge DEF Drain
  <2>3. CASE PopNone(s)
    BY <1>1, <1>4, <2>3, PopNoneMerge DEF PopNone
  <2>4. CASE Yield(s)
    <3>1. /\ MergeInv(s)' /\ Passed(s)' = Passed(s)
          /\ Counted(s)' = Counted(s) \cup {item[s].value}
          /\ item[s].value \notin Counted(s)
      BY <1>1, <2>4, YieldMerge
    <3>2. Cardinality(Counted(s) \cup {item[s].value}) = Cardinality(Counted(s)) + 1
      BY <1>2, <3>1, FS_AddElement
    <3>3. distinct'[s] = distinct[s] + 1
      BY <1>1, <2>4 DEF TypeOK, Yield
    <3> QED
      BY <1>1, <3>1, <3>2, <3>3
  <2> QED
    BY <1>4, <2>1, <2>2, <2>3, <2>4
<1> QED
  BY <1>3, <1>4

\* Answer and keys depend on the input only.
LEMMA InputKept ==
    ASSUME runs' = runs, op' = op
    PROVE  /\ \A s \in Side : Records(s)' = Records(s) /\ Keys(s)' = Keys(s)
           /\ Answer' = Answer /\ Answer \subseteq Keys("left")
<1>1. \A s \in Side : Records(s)' = Records(s)
  BY DEF Records
<1>2. \A s \in Side : Keys(s)' = Keys(s)
  BY <1>1 DEF Keys
<1> QED
  BY <1>1, <1>2 DEF Answer, Side

\* A step that passes no key of both sides or of the answer keeps what was found.
LEMMA NothingFound ==
    ASSUME Inv, runs' = runs, op' = op, UNCHANGED answer,
           \A k \in Keys("left") \cap Keys("right"), s \in Side :
                k \in Passed(s)' <=> k \in Passed(s),
           Answer \cap Passed("left")' = Answer \cap Passed("left")
    PROVE  WalkInv'
<1>1. Answer' = Answer /\ \A s \in Side : Records(s)' = Records(s) /\ Keys(s)' = Keys(s)
  BY InputKept
<1>2. Separation'
  BY <1>1 DEF Inv, WalkInv, Separation, Side
<1>3. found' = Cardinality(Hits')
  BY <1>1 DEF Inv, WalkInv, Hits, answer
<1>4. SamplesAreFirst'
  BY <1>1 DEF Inv, WalkInv, SamplesAreFirst, answer, Side
<1> QED
  BY <1>2, <1>3, <1>4 DEF WalkInv

\* A step that passes one more key of the answer on the left counts and samples it.
LEMMA OneFound ==
    ASSUME Inv, TypeOK', runs' = runs, op' = op, Find(item["left"]),
           got["left"] = "held", "left" \notin want,
           item["left"].value \in Answer,
           Passed("left")' = Passed("left") \cup {item["left"].value},
           \A k \in Keys("left") \cap Keys("right"), s \in Side :
                k \in Passed(s)' <=> k \in Passed(s) \/ k = item["left"].value
    PROVE  WalkInv'
<1> DEFINE key == item["left"].value
<1>1. /\ Answer' = Answer /\ Answer \subseteq Keys("left")
      /\ \A s \in Side : Records(s)' = Records(s) /\ Keys(s)' = Keys(s)
  BY InputKept
<1>2. "left" \in Side /\ TypeOK /\ MergeInv("left") /\ WalkInv
  BY DEF Inv, Side
<1>3. \A k \in Keys("left") : k \in Int
  BY <1>2, KeyFacts
<1>4. Passed("left") = {k \in Keys("left") : k < key}
  BY <1>2, <1>3 DEF Passed, Counted, MergeInv
<1>5. Hits = {k \in Answer : k < key}
  BY <1>1, <1>4 DEF Hits
<1>6. IsFiniteSet(Hits)
  <2>1. Hits \in SUBSET Keys("left")
    BY <1>1 DEF Hits
  <2> QED
    BY <1>2, <2>1, KeyFacts, FS_Subset
<1>7. Separation'
  BY <1>1, <1>2 DEF WalkInv, Separation, Side
<1>8. found' = Cardinality(Hits')
  <2>1. Hits' = Hits \cup {key} /\ key \notin Hits
    BY <1>1, <1>2, <1>3, <1>5 DEF Hits
  <2>2. Cardinality(Hits \cup {key}) = Cardinality(Hits) + 1
    BY <1>6, <2>1, FS_AddElement
  <2> QED
    BY <1>2, <2>1, <2>2 DEF Find, WalkInv
<1>9. SamplesAreFirst'
  <2>1. /\ found \in Nat /\ MaxSamples \in Nat /\ samples \in Seq(Record)
        /\ Len(samples) = IF found < MaxSamples THEN found ELSE MaxSamples
    BY <1>2, MergeAssumption DEF TypeOK, WalkInv, SamplesAreFirst
  <2>2. item["left"] \in Record
    BY <1>2 DEF MergeInv
  <2>3. CASE Len(samples) < MaxSamples
    <3>1. samples' = Append(samples, item["left"]) /\ Len(samples) = found
      BY <2>1, <2>3 DEF Find
    <3>2. /\ Len(samples') = found + 1 /\ DOMAIN samples' = 1..(found + 1)
          /\ samples'[found + 1] = item["left"]
          /\ \A i \in 1..found : samples'[i] = samples[i]
      BY <2>1, <2>2, <3>1
    <3>3. Len(samples') = IF found' < MaxSamples THEN found' ELSE MaxSamples
      BY <2>1, <2>3, <3>1, <3>2 DEF Find
    <3>4. ASSUME NEW i \in 1..found
          PROVE  /\ samples'[i].value \in Answer
                 /\ Cardinality({k \in Answer : k < samples'[i].value}) = i - 1
                 /\ \A record \in Records("left") :
                      record.value = samples'[i].value => samples'[i].row <= record.row
      <4>1. i \in DOMAIN samples /\ samples'[i] = samples[i]
        BY <2>1, <3>1, <3>2
      <4> QED
        BY <1>2, <4>1 DEF WalkInv, SamplesAreFirst
    <3>5. /\ item["left"].value \in Answer
          /\ Cardinality({k \in Answer : k < key}) = (found + 1) - 1
          /\ \A record \in Records("left") : record.value = key => item["left"].row <= record.row
      <4>1. Cardinality({k \in Answer : k < key}) = found
        BY <1>2, <1>5 DEF WalkInv
      <4>2. ASSUME NEW record \in Records("left"), record.value = key
            PROVE  item["left"].row <= record.row
        <5>1. PICK r \in Run : \E i \in DOMAIN runs["left"][r] : record = runs["left"][r][i]
          BY <1>2, <4>2, KeyFacts
        <5> QED
          BY <1>2, <4>2, <5>1 DEF MergeInv, Parted
      <4> QED
        BY <2>1, <4>1, <4>2
    <3>6. \A i \in DOMAIN samples' : i \in 1..found \/ i = found + 1
      BY <2>1, <3>2
    <3> QED
      BY <1>1, <1>2, <3>2, <3>3, <3>4, <3>5, <3>6 DEF SamplesAreFirst
  <2>4. CASE ~(Len(samples) < MaxSamples)
    <3>1. samples' = samples /\ Len(samples') = MaxSamples /\ ~(found' < MaxSamples)
      BY <2>1, <2>4 DEF Find
    <3> QED
      BY <1>1, <1>2, <3>1 DEF SamplesAreFirst, WalkInv
  <2> QED
    BY <2>3, <2>4
<1> QED
  BY <1>7, <1>8, <1>9 DEF WalkInv

\* The merges stay right and the walk counts what it passes.
LEMMA WalkStep ==
    Inv /\ [Next]_vars => /\ \A s \in Side : MergeInv(s)'
                          /\ \A s \in Side : distinct'[s] = Cardinality(Counted(s)')
                          /\ WalkInv'
<1> SUFFICES ASSUME Inv, [Next]_vars
             PROVE  /\ \A s \in Side : MergeInv(s)'
                    /\ \A s \in Side : distinct'[s] = Cardinality(Counted(s)')
                    /\ WalkInv'
  OBVIOUS
<1>1. /\ TypeOK /\ SortedInv /\ WalkInv /\ TypeOK'
      /\ \A s \in Side : Control(s) /\ MergeInv(s) /\ distinct[s] = Cardinality(Counted(s))
  BY TypeStep DEF Inv
<1>2. ASSUME UNCHANGED <<runs, merge>>
      PROVE  /\ \A s \in Side : MergeInv(s)'
             /\ \A s \in Side : distinct'[s] = Cardinality(Counted(s)')
  BY <1>1, <1>2, Frame DEF merge
<1>3. ASSUME UNCHANGED <<runs, op, answer>>, \A s \in Side : Passed(s)' = Passed(s)
      PROVE  WalkInv'
  BY <1>3, NothingFound DEF Side
<1>4. ASSUME UNCHANGED <<runs, merge>>, NEW s \in Side, s \in want' <=> s \in want
      PROVE  Passed(s)' = Passed(s)
  BY <1>4, Frame DEF merge
<1>5. CASE Open
  <2>1. UNCHANGED <<runs, merge, op, answer>> /\ \A s \in Side : got[s] = "unread" /\ got'[s] = "unread"
    BY <1>1, <1>5 DEF Open, Control, merge
  <2>2. \A s \in Side : Passed(s) = {} /\ Passed(s)' = {}
    BY <2>1 DEF Passed, Counted
  <2> QED
    BY <1>2, <1>3, <2>1, <2>2
<1>6. CASE Fails \/ Cancel \/ Finish \/ Stop \/ UNCHANGED vars
  <2>1. UNCHANGED <<runs, merge, op, answer, want>>
    BY <1>6 DEF Fails, Cancel, Finish, Stop, vars, merge, answer
  <2> QED
    BY <1>2, <1>3, <1>4, <2>1
<1>7. CASE \E t \in Side : \/ \E r \in Run : Pop(t, r) \/ Drain(t, r)
                           \/ PopNone(t) \/ Yield(t)
  <2>1. UNCHANGED <<runs, op, answer>>
    BY <1>7 DEF Pop, Drain, PopNone, Yield, answer
  <2>2. \A s \in Side : /\ MergeInv(s)' /\ Passed(s)' = Passed(s)
                        /\ distinct'[s] = Cardinality(Counted(s)')
    BY <1>7, FetchStep
  <2> QED
    BY <1>3, <2>1, <2>2
<1>8. /\ Separation
      /\ \A s \in Side : Passed(s) \subseteq Keys(s)
      /\ \A s \in Side : got[s] = "none" => Passed(s) = Keys(s)
  BY <1>1 DEF WalkInv, Passed, Counted
<1>9. ASSUME want = {}, got["left"] = "held", got["right"] = "held" \/ got["right"] = "none",
             got["right"] = "held" => item["left"].value < item["right"].value
      PROVE  item["left"].value \notin Keys("right")
  <2>1. /\ item["left"].value \in Keys("left")
        /\ item["left"].value \notin Passed("left")
    BY <1>1, <1>9, KeyFacts DEF MergeInv, Passed, Counted, Side
  <2>2. item["left"].value \in Keys("right") => item["left"].value \in Passed("right")
    BY <1>1, <1>8, <1>9, KeyFacts DEF Passed, Counted, Side, MergeInv
  <2> QED
    BY <1>8, <2>1, <2>2 DEF Separation
<1>10. ASSUME want = {}, got["right"] = "held", got["left"] = "held" \/ got["left"] = "none",
              got["left"] = "held" => item["right"].value < item["left"].value
       PROVE  item["right"].value \notin Keys("left")
  <2>1. /\ item["right"].value \in Keys("right")
        /\ item["right"].value \notin Passed("right")
    BY <1>1, <1>10, KeyFacts DEF MergeInv, Passed, Counted, Side
  <2>2. item["right"].value \in Keys("left") => item["right"].value \in Passed("left")
    BY <1>1, <1>8, <1>10, KeyFacts DEF Passed, Counted, Side, MergeInv
  <2> QED
    BY <1>8, <2>1, <2>2 DEF Separation
<1>11. CASE Less
  <2>1. /\ UNCHANGED <<runs, merge, op>> /\ want = {} /\ want' = {"left"}
        /\ got["left"] = "held" /\ got["right"] \in {"held", "none"}
        /\ got["right"] = "held" => item["left"].value < item["right"].value
    BY <1>1, <1>11 DEF Less, Compare, Walking, Both, Control, Side, merge
  <2>2. item["left"].value \notin Keys("right")
    BY <1>9, <2>1
  <2>3. /\ Passed("left")' = Passed("left") \cup {item["left"].value}
        /\ item["left"].value \in Keys("left")
    BY <1>1, <2>1, PassHeld DEF Side
  <2>4. Passed("right")' = Passed("right")
    BY <1>4, <2>1 DEF Side
  <2>5. \A k \in Keys("left") \cap Keys("right"), s \in Side : k \in Passed(s)' <=> k \in Passed(s)
    BY <2>2, <2>3, <2>4 DEF Side
  <2>6. CASE op = "anti_join"
    <3>1. item["left"].value \in Answer /\ Find(item["left"])
      BY <1>11, <2>2, <2>3, <2>6 DEF Answer, Less
    <3>2. \A k \in Keys("left") \cap Keys("right"), s \in Side :
            k \in Passed(s)' <=> k \in Passed(s) \/ k = item["left"].value
      BY <2>2, <2>5
    <3>3. WalkInv'
      BY <1>1, <2>1, <2>3, <3>1, <3>2, OneFound
    <3> QED
      BY <1>2, <2>1, <3>3
  <2>7. CASE op = "intersect"
    <3>1. UNCHANGED answer
      BY <1>11, <2>7 DEF Less
    <3>2. Answer \cap Passed("left")' = Answer \cap Passed("left")
      BY <2>2, <2>3, <2>7 DEF Answer
    <3>3. WalkInv'
      BY <2>1, <2>5, <3>1, <3>2, NothingFound
    <3> QED
      BY <1>2, <2>1, <3>3
  <2> QED
    BY <1>1, <2>6, <2>7 DEF TypeOK
<1>12. ASSUME UNCHANGED <<runs, merge, op, answer>>, want = {}, want' = {"right"},
              got["right"] = "held", item["right"].value \notin Keys("left")
       PROVE  WalkInv'
  <2>1. Passed("right")' = Passed("right") \cup {item["right"].value}
    BY <1>1, <1>12, PassHeld DEF Side
  <2>2. Passed("left")' = Passed("left")
    BY <1>4, <1>12 DEF Side
  <2>3. \A k \in Keys("left") \cap Keys("right"), s \in Side : k \in Passed(s)' <=> k \in Passed(s)
    BY <1>12, <2>1, <2>2 DEF Side
  <2> QED
    BY <1>12, <2>2, <2>3, NothingFound
<1>13. CASE Greater
  <2>1. /\ UNCHANGED <<runs, merge, op, answer>> /\ want = {} /\ want' = {"right"}
        /\ got["left"] = "held" /\ got["right"] = "held"
        /\ item["right"].value < item["left"].value
    <3>1. item["left"].value \in Int /\ item["right"].value \in Int
      BY <1>1 DEF TypeOK, Side
    <3> QED
      BY <1>13, <3>1 DEF Greater, Compare, Both, merge
  <2>2. item["right"].value \notin Keys("left")
    BY <1>10, <2>1
  <2> QED
    BY <1>2, <1>12, <2>1, <2>2
<1>14. CASE Equal
  <2>1. /\ UNCHANGED <<runs, merge, op>> /\ want = {} /\ want' = Side
        /\ got["left"] = "held" /\ got["right"] = "held"
        /\ item["left"].value = item["right"].value
    BY <1>14 DEF Equal, Compare, Both, merge
  <2>2. /\ Passed("left")' = Passed("left") \cup {item["left"].value}
        /\ Passed("right")' = Passed("right") \cup {item["left"].value}
        /\ item["left"].value \in Keys("left") \cap Keys("right")
    BY <1>1, <2>1, PassHeld DEF Side
  <2>3. CASE op = "intersect"
    <3>1. item["left"].value \in Answer /\ Find(item["left"])
      BY <1>14, <2>2, <2>3 DEF Answer, Equal
    <3>2. \A k \in Keys("left") \cap Keys("right"), s \in Side :
            k \in Passed(s)' <=> k \in Passed(s) \/ k = item["left"].value
      BY <2>2 DEF Side
    <3>3. WalkInv'
      BY <1>1, <2>1, <2>2, <3>1, <3>2, OneFound
    <3> QED
      BY <1>2, <2>1, <3>3
  <2>4. CASE op = "anti_join"
    <3>1. UNCHANGED answer
      BY <1>14, <2>4 DEF Equal
    <3>2. Answer' = Answer /\ \A s \in Side : Records(s)' = Records(s) /\ Keys(s)' = Keys(s)
      BY <2>1, InputKept
    <3>3. Answer \cap Passed("left")' = Answer \cap Passed("left")
      BY <2>2, <2>4 DEF Answer
    <3>4. Separation'
      BY <1>8, <2>2, <3>2 DEF Separation, Side
    <3>5. found' = Cardinality(Hits')
      BY <1>1, <3>1, <3>2, <3>3 DEF WalkInv, Hits, answer
    <3>6. SamplesAreFirst'
      BY <1>1, <3>1, <3>2 DEF WalkInv, SamplesAreFirst, answer, Side
    <3> QED
      BY <1>2, <2>1, <3>4, <3>5, <3>6 DEF WalkInv
  <2> QED
    BY <1>1, <2>3, <2>4 DEF TypeOK
<1>15. CASE \E t \in Side : CountRest(t)
  <2> PICK t \in Side : CountRest(t)
    BY <1>15
  <2>1. UNCHANGED <<runs, merge, op, answer>> /\ want = {} /\ want' = {t} /\ got[t] = "held"
    BY DEF CountRest, merge, answer
  <2>2. CASE t = "right"
    <3>1. got["left"] = "none"
      BY <1>1, <2>2 DEF CountRest, Walking, Both, Control, Side, TypeOK
    <3>2. item["right"].value \notin Keys("left")
      BY <1>10, <2>1, <2>2, <3>1
    <3> QED
      BY <1>2, <1>12, <2>1, <2>2, <3>2
  <2>3. CASE t = "left"
    <3>1. got["right"] = "none" /\ op = "intersect"
      BY <1>1, <2>3 DEF CountRest, Walking, Both, Control, Side, TypeOK
    <3>2. item["left"].value \notin Keys("right")
      BY <1>9, <2>1, <2>3, <3>1
    <3>3. /\ Passed("left")' = Passed("left") \cup {item["left"].value}
          /\ Passed("right")' = Passed("right")
      BY <1>1, <1>4, <2>1, <2>3, PassHeld DEF Side
    <3>4. \A k \in Keys("left") \cap Keys("right"), s \in Side : k \in Passed(s)' <=> k \in Passed(s)
      BY <3>2, <3>3 DEF Side
    <3>5. Answer \cap Passed("left")' = Answer \cap Passed("left")
      BY <3>1, <3>2, <3>3 DEF Answer
    <3>6. WalkInv'
      BY <2>1, <3>4, <3>5, NothingFound
    <3> QED
      BY <1>2, <2>1, <3>6
  <2> QED
    BY <2>2, <2>3 DEF Side
<1> QED
  BY <1>5, <1>6, <1>7, <1>11, <1>13, <1>14, <1>15 DEF Next, Step

-----------------------------------------------------------------------------
(* Theorems *)

\* The walk starts with nothing passed, counted or found.
LEMMA InitInv == Init => Inv
<1> SUFFICES ASSUME Init PROVE Inv
  OBVIOUS
<1>1. TypeOK
  <2>1. runs \in [Side -> [Run -> Seq(Record)]]
    BY MergeAssumption DEF Init
  <2>2. at \in [Side -> [Run -> Nat \ {0}]] /\ \A s \in Side, r \in Run : at[s][r] = 1
    BY DEF Init
  <2>3. \A s \in Side, r \in Run : at[s][r] <= Len(runs[s][r]) + 1
    <3> SUFFICES ASSUME NEW s \in Side, NEW r \in Run PROVE at[s][r] <= Len(runs[s][r]) + 1
      OBVIOUS
    <3>1. Len(runs[s][r]) \in Nat
      BY <2>1
    <3> QED
      BY <2>2, <3>1
  <2>4. samples \in Seq(Record) /\ Len(samples) <= MaxSamples
    BY MergeAssumption DEF Init
  <2>5. item \in [Side -> [value : Int, row : Nat]] /\ got \in [Side -> {"unread", "draining", "held", "none"}]
    BY DEF Init
  <2> QED
    BY <2>1, <2>2, <2>3, <2>4, <2>5 DEF Init, TypeOK
<1>2. SortedInv
  BY MergeAssumption DEF Init, SortedInv
<1>3. \A s \in Side : Control(s) /\ MergeInv(s)
  BY DEF Init, Control, MergeInv
<1>4. \A s \in Side : Counted(s) = {} /\ Passed(s) = {}
  BY DEF Init, Counted, Passed
<1>5. \A s \in Side : distinct[s] = Cardinality(Counted(s))
  BY <1>4, FS_EmptySet DEF Init
<1>6. Separation /\ found = Cardinality(Hits)
  BY <1>4, FS_EmptySet DEF Init, Separation, Hits, Side
<1>7. SamplesAreFirst
  <2>1. samples = <<>> /\ Len(samples) = 0 /\ DOMAIN samples = {} /\ found = 0
    BY DEF Init
  <2> QED
    BY <2>1, MergeAssumption DEF SamplesAreFirst
<1> QED
  BY <1>1, <1>2, <1>3, <1>5, <1>6, <1>7 DEF Inv, WalkInv

\* Every step keeps the whole invariant.
LEMMA NextInv == Inv /\ [Next]_vars => Inv'
<1> SUFFICES ASSUME Inv, [Next]_vars PROVE Inv'
  OBVIOUS
<1>1. runs' = runs
  BY DEF Next, Step, vars, Open, Pop, Drain, PopNone, Yield, CountRest, Less, Greater, Equal,
         Finish, Stop, Fails, Cancel
<1>2. SortedInv'
  BY <1>1 DEF Inv, SortedInv
<1> QED
  BY <1>2, TypeStep, ControlStep, WalkStep DEF Inv

\* The invariant holds throughout.
LEMMA Invariance == Spec => []Inv
  BY InitInv, NextInv, PTL DEF Spec

\* Types, cursors within their runs and samples within the limit, for every
\* input (TypeOK of the key_merge run; UniqueMerge, intersect, anti_join).
THEOREM TypeCorrect == Spec => []TypeOK
<1>1. Inv => TypeOK
  BY DEF Inv
<1> QED
  BY <1>1, Invariance, PTL

\* The summary of a finished merge is exact for every pair of key sets, however
\* their rows are spread over sorted runs (AnswerIsExact).
THEOREM MergeIsExact == Spec => []AnswerIsExact
<1>1. Inv => AnswerIsExact
  <2> SUFFICES ASSUME Inv, pc = "done"
               PROVE  /\ found = Cardinality(Answer)
                      /\ \A s \in Side : distinct[s] = Cardinality(Keys(s))
    BY DEF AnswerIsExact
  <2>1. \A s \in Side : got[s] = "none"
    BY DEF Inv, Control
  <2>2. \A s \in Side : Counted(s) = Keys(s) /\ Passed(s) = Keys(s)
    BY <2>1 DEF Counted, Passed
  <2>3. Hits = Answer
    BY <2>2 DEF Hits, Answer, Side
  <2> QED
    BY <2>2, <2>3 DEF Inv, WalkInv
<1> QED
  BY <1>1, Invariance, PTL

\* The samples are always the smallest keys of the answer, in order, each with
\* the first row that carries it (SamplesAreFirst; next_unique_with_row).
THEOREM SamplesAreSmallest == Spec => []SamplesAreFirst
<1>1. Inv => SamplesAreFirst
  BY DEF Inv, WalkInv
<1> QED
  BY <1>1, Invariance, PTL

=================================================================================
