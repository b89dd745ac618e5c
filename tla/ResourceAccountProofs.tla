------------------------ MODULE ResourceAccountProofs ------------------------
(***************************************************************************)
(* Proofs about ResourceAccount for every set of holders, every shape of   *)
(* the account tree, every limit and every word size.                      *)
(***************************************************************************)
EXTENDS ResourceAccount, FiniteSetTheorems, TLAPS

\* The lock belongs to whoever is inside a transaction.
LockInv == \A h \in Holders : lock = h <=> InTransaction(h)

\* How far each holder is along its path.
Progress(h) ==
    /\ lo[h] <= hi[h]
    /\ hi[h] <= Depth(h)
    /\ pc[h] \in {"idle", "lock"} => lo[h] = 0 /\ hi[h] = 0 /\ usage[h] = <<>>
    /\ pc[h] \in {"charge", "cas"} => lo[h] = 0 /\ hi[h] < Depth(h)
    /\ pc[h] \in {"peak", "held"} => lo[h] = 0 /\ hi[h] = Depth(h)
    /\ pc[h] \in {"held", "drop"} => lo[h] < hi[h] /\ usage[h] = <<>>
    /\ InTransaction(h) => Len(usage[h]) = hi[h]
    /\ raised[h] <= Depth(h)
    /\ pc[h] # "peak" => raised[h] = 0

ProgressInv == \A h \in Holders : Progress(h)

\* What the compare-and-exchange is about to write fits.
CasInv ==
    \A h \in Holders :
        pc[h] = "cas" => Fits(seen[h], req[h].bytes, Cap[Target(h)])

\* A counter above its peak was charged by the transaction in flight, which
\* either takes the bytes back or still has to raise that peak.
PeakInv ==
    \A c \in Counters :
        \/ used[c] <= peak[c]
        \/ \E h \in Holders :
            /\ InTransaction(h)
            /\ Charges(h, c)
            /\ used[c] <= peak[c] + req[h].bytes
            /\ pc[h] # "rollback" =>
                \E i \in (raised[h] + 1)..hi[h] :
                    CounterOf(h, i) = c /\ used[c] <= usage[h][i]

-----------------------------------------------------------------------------
\* The path of a holder's account is a non-empty sequence of distinct nodes.
LEMMA PathFacts ==
  ASSUME req \in [Holders -> Requests], NEW h \in Holders
  PROVE  /\ Depth(h) \in Nat
         /\ Depth(h) > 0
         /\ req[h].bytes \in 0..MaxWord
         /\ req[h].kind \in Kinds
         /\ \A i \in 1..Depth(h) : CounterOf(h, i) \in Counters
         /\ \A i, j \in 1..Depth(h) : CounterOf(h, i) = CounterOf(h, j) => i = j
<1>1. req[h] \in [account : Accounts, kind : Kinds, bytes : 0..MaxWord]
  BY WordAssumption
<1>2. req[h].account \in Accounts /\ req[h].kind \in Kinds /\ req[h].bytes \in 0..MaxWord
  BY <1>1
<1>3. /\ Path[req[h].account] \in Seq(Nodes)
      /\ Len(Path[req[h].account]) > 0
      /\ \A i, j \in 1..Len(Path[req[h].account]) :
            Path[req[h].account][i] = Path[req[h].account][j] => i = j
  BY <1>2, PathAssumption
<1>4. \A i \in 1..Len(Path[req[h].account]) : Path[req[h].account][i] \in Nodes
  BY <1>3
<1>5. \A i \in 1..Depth(h) : CounterOf(h, i) \in Counters
  BY <1>2, <1>4 DEF Depth, CounterOf, Counters
<1>6. \A i, j \in 1..Depth(h) : CounterOf(h, i) = CounterOf(h, j) => i = j
  BY <1>3 DEF Depth, CounterOf
<1>7. Depth(h) \in Nat /\ Depth(h) > 0
  BY <1>3 DEF Depth
<1> QED
  BY <1>2, <1>5, <1>6, <1>7

\* Init establishes the type invariant.
LEMMA InitType == Init => TypeOK
<1> SUFFICES ASSUME Init PROVE TypeOK
  OBVIOUS
<1>1. MaxWord \in Nat /\ MaxAttempts \in Nat
  BY WordAssumption
<1> QED
  BY <1>1 DEF Init, TypeOK, States

\* The target of a charge is a counter.
LEMMA TargetType ==
  ASSUME TypeOK, ProgressInv, NEW h \in Holders, pc[h] \in {"charge", "cas"}
  PROVE  Target(h) \in Counters /\ hi[h] + 1 \in 1..Depth(h)
<1>1. hi[h] \in Nat /\ hi[h] < Depth(h)
  BY DEF TypeOK, ProgressInv, Progress
<1>2. Depth(h) \in Nat /\ \A i \in 1..Depth(h) : CounterOf(h, i) \in Counters
  BY PathFacts DEF TypeOK
<1>3. hi[h] + 1 \in 1..Depth(h)
  BY <1>1, <1>2
<1> QED
  BY <1>2, <1>3 DEF Target

\* fetch_sub stays within the word.
LEMMA FetchSubType ==
  ASSUME NEW a \in 0..MaxWord, NEW b \in 0..MaxWord
  PROVE  FetchSub(a, b) \in 0..MaxWord
BY WordAssumption DEF FetchSub

\* An element of a sequence over S is in S.
LEMMA SeqElement ==
  ASSUME NEW S, NEW s \in Seq(S), NEW i \in 1..Len(s)
  PROVE  s[i] \in S
OBVIOUS

\* Every step preserves the type invariant.
LEMMA TypeStep ==
  ASSUME TypeOK, ProgressInv, CasInv, [Next]_vars
  PROVE  TypeOK'
<1>1. ASSUME NEW h \in Holders, Begin(h) PROVE TypeOK'
  <2>1. left[h] \in 0..MaxAttempts /\ left[h] > 0 /\ MaxAttempts \in Nat
    BY <1>1, WordAssumption DEF Begin, TypeOK
  <2>2. left[h] - 1 \in 0..MaxAttempts
    BY <2>1
  <2>3. left' \in [Holders -> 0..MaxAttempts]
    BY <1>1, <2>2 DEF Begin, TypeOK
  <2> QED
    BY <1>1, <2>3 DEF Begin, TypeOK, States
<1>2. ASSUME NEW h \in Holders, Lock(h) PROVE TypeOK'
  BY <1>2 DEF Lock, TypeOK, States
<1>3. ASSUME NEW h \in Holders, Load(h) PROVE TypeOK'
  <2>1. used[Target(h)] \in 0..MaxWord
    BY <1>3, TargetType DEF Load, TypeOK
  <2> QED
    BY <1>3, <2>1 DEF Load, Observe, TypeOK, States
<1>4. ASSUME NEW h \in Holders, CasFailed(h) PROVE TypeOK'
  <2>1. used[Target(h)] \in 0..MaxWord
    BY <1>4, TargetType DEF CasFailed, TypeOK
  <2> QED
    BY <1>4, <2>1 DEF CasFailed, Observe, TypeOK, States
<1>5. ASSUME NEW h \in Holders, Charge(h) PROVE TypeOK'
  <2>1. seen[h] + req[h].bytes \in 0..MaxWord
    <3>1. req[h].bytes \in 0..MaxWord /\ seen[h] \in 0..MaxWord
      BY PathFacts DEF TypeOK
    <3>2. seen[h] + req[h].bytes <= MaxWord
      BY <1>5 DEF Charge, CasInv, Fits
    <3> QED
      BY <3>1, <3>2, WordAssumption
  <2>2. used' \in [Counters -> 0..MaxWord]
    BY <1>5, <2>1 DEF Charge, TypeOK
  <2>3. usage' \in [Holders -> Seq(0..MaxWord)]
    BY <1>5, <2>1 DEF Charge, TypeOK
  <2>4. hi' \in [Holders -> Nat] /\ pc' \in [Holders -> States]
    BY <1>5 DEF Charge, TypeOK, States
  <2> QED
    BY <1>5, <2>2, <2>3, <2>4 DEF Charge, TypeOK
<1>6. ASSUME NEW h \in Holders, RollBack(h) PROVE TypeOK'
  <2>1. \A c \in Counters : FetchSub(used[c], req[h].bytes) \in 0..MaxWord
    BY PathFacts, FetchSubType DEF TypeOK
  <2>2. used' \in [Counters -> 0..MaxWord]
    BY <1>6, <2>1 DEF RollBack, TypeOK
  <2>3. lo' \in [Holders -> Nat]
    BY <1>6 DEF RollBack, TypeOK
  <2> QED
    BY <1>6, <2>2, <2>3 DEF RollBack, TypeOK, States
<1>7. ASSUME NEW h \in Holders, Refused(h) PROVE TypeOK'
  BY <1>7, WordAssumption DEF Refused, Forget, TypeOK, States
<1>8. ASSUME NEW h \in Holders, RaisePeak(h) PROVE TypeOK'
  <2>1. usage[h][raised[h] + 1] \in 0..MaxWord
    <3>1. usage[h] \in Seq(0..MaxWord) /\ raised[h] \in Nat
      BY DEF TypeOK
    <3>2. Len(usage[h]) = Depth(h) /\ raised[h] < Depth(h)
      BY <1>8 DEF RaisePeak, ProgressInv, Progress, InTransaction
    <3>3. raised[h] + 1 \in 1..Len(usage[h])
      BY <3>1, <3>2
    <3> QED
      BY <3>1, <3>3, SeqElement
  <2>2. peak' \in [Counters -> 0..MaxWord]
    BY <1>8, <2>1 DEF RaisePeak, TypeOK, FetchMax
  <2>3. raised' \in [Holders -> Nat]
    BY <1>8 DEF RaisePeak, TypeOK
  <2> QED
    BY <1>8, <2>2, <2>3 DEF RaisePeak, TypeOK
<1>9. ASSUME NEW h \in Holders, Reserved(h) PROVE TypeOK'
  BY <1>9, WordAssumption DEF Reserved, Forget, TypeOK, States
<1>10. ASSUME NEW h \in Holders, Drop(h) PROVE TypeOK'
  <2>1. \A c \in Counters : FetchSub(used[c], req[h].bytes) \in 0..MaxWord
    BY PathFacts, FetchSubType DEF TypeOK
  <2>2. used' \in [Counters -> 0..MaxWord]
    BY <1>10, <2>1 DEF Drop, TypeOK
  <2>3. lo' \in [Holders -> Nat]
    BY <1>10 DEF Drop, TypeOK
  <2> QED
    BY <1>10, <2>2, <2>3 DEF Drop, TypeOK, States
<1>11. CASE UNCHANGED vars
  BY <1>11 DEF vars, TypeOK
<1> QED
  BY <1>1, <1>2, <1>3, <1>4, <1>5, <1>6, <1>7, <1>8, <1>9, <1>10, <1>11 DEF Next, Step

\* Every step preserves mutual exclusion of transactions.
LEMMA LockStep ==
  ASSUME TypeOK, LockInv, [Next]_vars
  PROVE  LockInv'
<1>1. ASSUME NEW h \in Holders, Begin(h) PROVE LockInv'
  BY <1>1, HoldersAssumption DEF Begin, TypeOK, LockInv, InTransaction
<1>2. ASSUME NEW h \in Holders, Lock(h) PROVE LockInv'
  BY <1>2, HoldersAssumption DEF Lock, TypeOK, LockInv, InTransaction
<1>3. ASSUME NEW h \in Holders, Load(h) PROVE LockInv'
  BY <1>3, HoldersAssumption DEF Load, Observe, TypeOK, LockInv, InTransaction
<1>4. ASSUME NEW h \in Holders, CasFailed(h) PROVE LockInv'
  BY <1>4, HoldersAssumption DEF CasFailed, Observe, TypeOK, LockInv, InTransaction
<1>5. ASSUME NEW h \in Holders, Charge(h) PROVE LockInv'
  BY <1>5, HoldersAssumption DEF Charge, TypeOK, LockInv, InTransaction
<1>6. ASSUME NEW h \in Holders, RollBack(h) PROVE LockInv'
  BY <1>6, HoldersAssumption DEF RollBack, TypeOK, LockInv, InTransaction
<1>7. ASSUME NEW h \in Holders, Refused(h) PROVE LockInv'
  BY <1>7, HoldersAssumption DEF Refused, Forget, TypeOK, LockInv, InTransaction
<1>8. ASSUME NEW h \in Holders, RaisePeak(h) PROVE LockInv'
  BY <1>8, HoldersAssumption DEF RaisePeak, TypeOK, LockInv, InTransaction
<1>9. ASSUME NEW h \in Holders, Reserved(h) PROVE LockInv'
  BY <1>9, HoldersAssumption DEF Reserved, Forget, TypeOK, LockInv, InTransaction
<1>10. ASSUME NEW h \in Holders, Drop(h) PROVE LockInv'
  BY <1>10, HoldersAssumption DEF Drop, TypeOK, LockInv, InTransaction
<1>11. CASE UNCHANGED vars
  BY <1>11 DEF vars, LockInv, InTransaction
<1> QED
  BY <1>1, <1>2, <1>3, <1>4, <1>5, <1>6, <1>7, <1>8, <1>9, <1>10, <1>11 DEF Next, Step

\* No step changes what a holder asks for, nor the path of its account.
LEMMA RequestsFixed ==
  ASSUME TypeOK, [Next]_vars
  PROVE  /\ req' = req
         /\ \A h \in Holders : Depth(h)' = Depth(h)
         /\ \A h \in Holders : \A i \in Nat : CounterOf(h, i)' = CounterOf(h, i)
<1>1. req' = req
  BY DEF Next, Step, vars, Begin, Lock, Load, CasFailed, Observe, Charge, RollBack,
         Refused, RaisePeak, Reserved, Drop
<1> QED
  BY <1>1 DEF Depth, CounterOf

\* Every step keeps each holder's progress consistent with where it is.
LEMMA ProgressStep ==
  ASSUME TypeOK, ProgressInv, [Next]_vars
  PROVE  ProgressInv'
<1>0. \A h \in Holders : Depth(h)' = Depth(h) /\ Depth(h) \in Nat /\ Depth(h) > 0
  BY RequestsFixed, PathFacts DEF TypeOK
<1>00. \A h \in Holders : Progress(h)
  BY DEF ProgressInv
<1>1. ASSUME NEW h \in Holders, Begin(h) PROVE ProgressInv'
  <2>1. Progress(h)'
    BY <1>1, <1>0, <1>00 DEF Begin, TypeOK, Progress, InTransaction
  <2>2. ASSUME NEW g \in Holders, g # h PROVE Progress(g)'
    BY <1>1, <1>0, <1>00, <2>2 DEF Begin, TypeOK, Progress, InTransaction
  <2> QED
    BY <2>1, <2>2 DEF ProgressInv
<1>2. ASSUME NEW h \in Holders, Lock(h) PROVE ProgressInv'
  <2>1. Progress(h)'
    BY <1>2, <1>0, <1>00 DEF Lock, TypeOK, Progress, InTransaction
  <2>2. ASSUME NEW g \in Holders, g # h PROVE Progress(g)'
    BY <1>2, <1>0, <1>00, <2>2 DEF Lock, TypeOK, Progress, InTransaction
  <2> QED
    BY <2>1, <2>2 DEF ProgressInv
<1>3. ASSUME NEW h \in Holders, Load(h) PROVE ProgressInv'
  <2>1. Progress(h)'
    BY <1>3, <1>0, <1>00 DEF Load, Observe, TypeOK, Progress, InTransaction
  <2>2. ASSUME NEW g \in Holders, g # h PROVE Progress(g)'
    BY <1>3, <1>0, <1>00, <2>2 DEF Load, Observe, TypeOK, Progress, InTransaction
  <2> QED
    BY <2>1, <2>2 DEF ProgressInv
<1>4. ASSUME NEW h \in Holders, CasFailed(h) PROVE ProgressInv'
  <2>1. Progress(h)'
    BY <1>4, <1>0, <1>00 DEF CasFailed, Observe, TypeOK, Progress, InTransaction
  <2>2. ASSUME NEW g \in Holders, g # h PROVE Progress(g)'
    BY <1>4, <1>0, <1>00, <2>2 DEF CasFailed, Observe, TypeOK, Progress, InTransaction
  <2> QED
    BY <2>1, <2>2 DEF ProgressInv
<1>5. ASSUME NEW h \in Holders, Charge(h) PROVE ProgressInv'
  <2>1. Progress(h)'
    BY <1>5, <1>0, <1>00 DEF Charge, TypeOK, Progress, InTransaction
  <2>2. ASSUME NEW g \in Holders, g # h PROVE Progress(g)'
    BY <1>5, <1>0, <1>00, <2>2 DEF Charge, TypeOK, Progress, InTransaction
  <2> QED
    BY <2>1, <2>2 DEF ProgressInv
<1>6. ASSUME NEW h \in Holders, RollBack(h) PROVE ProgressInv'
  <2>1. Progress(h)'
    BY <1>6, <1>0, <1>00 DEF RollBack, TypeOK, Progress, InTransaction
  <2>2. ASSUME NEW g \in Holders, g # h PROVE Progress(g)'
    BY <1>6, <1>0, <1>00, <2>2 DEF RollBack, TypeOK, Progress, InTransaction
  <2> QED
    BY <2>1, <2>2 DEF ProgressInv
<1>7. ASSUME NEW h \in Holders, Refused(h) PROVE ProgressInv'
  <2>1. Progress(h)'
    BY <1>7, <1>0, <1>00 DEF Refused, Forget, TypeOK, Progress, InTransaction
  <2>2. ASSUME NEW g \in Holders, g # h PROVE Progress(g)'
    BY <1>7, <1>0, <1>00, <2>2 DEF Refused, Forget, TypeOK, Progress, InTransaction
  <2> QED
    BY <2>1, <2>2 DEF ProgressInv
<1>8. ASSUME NEW h \in Holders, RaisePeak(h) PROVE ProgressInv'
  <2>1. Progress(h)'
    BY <1>8, <1>0, <1>00 DEF RaisePeak, TypeOK, Progress, InTransaction
  <2>2. ASSUME NEW g \in Holders, g # h PROVE Progress(g)'
    BY <1>8, <1>0, <1>00, <2>2 DEF RaisePeak, TypeOK, Progress, InTransaction
  <2> QED
    BY <2>1, <2>2 DEF ProgressInv
<1>9. ASSUME NEW h \in Holders, Reserved(h) PROVE ProgressInv'
  <2>1. Progress(h)'
    BY <1>9, <1>0, <1>00 DEF Reserved, Forget, TypeOK, Progress, InTransaction
  <2>2. ASSUME NEW g \in Holders, g # h PROVE Progress(g)'
    BY <1>9, <1>0, <1>00, <2>2 DEF Reserved, Forget, TypeOK, Progress, InTransaction
  <2> QED
    BY <2>1, <2>2 DEF ProgressInv
<1>10. ASSUME NEW h \in Holders, Drop(h) PROVE ProgressInv'
  <2>1. Progress(h)'
    BY <1>10, <1>0, <1>00 DEF Drop, TypeOK, Progress, InTransaction
  <2>2. ASSUME NEW g \in Holders, g # h PROVE Progress(g)'
    BY <1>10, <1>0, <1>00, <2>2 DEF Drop, TypeOK, Progress, InTransaction
  <2> QED
    BY <2>1, <2>2 DEF ProgressInv
<1>11. CASE UNCHANGED vars
  BY <1>11, <1>0 DEF vars, ProgressInv, Progress, InTransaction
<1> QED
  BY <1>1, <1>2, <1>3, <1>4, <1>5, <1>6, <1>7, <1>8, <1>9, <1>10, <1>11 DEF Next, Step

\* Every step preserves CasInv: a holder's target only moves when it charges.
LEMMA CasStep ==
  ASSUME TypeOK, ProgressInv, CasInv, [Next]_vars
  PROVE  CasInv'
<1>0. /\ req' = req
      /\ \A g \in Holders : hi'[g] = hi[g] => Target(g)' = Target(g)
  BY RequestsFixed DEF Target, TypeOK
<1>1. ASSUME NEW h \in Holders, Begin(h) PROVE CasInv'
  BY <1>1, <1>0 DEF Begin, TypeOK, States, CasInv
<1>2. ASSUME NEW h \in Holders, Lock(h) PROVE CasInv'
  BY <1>2, <1>0 DEF Lock, TypeOK, States, CasInv
<1>3. ASSUME NEW h \in Holders, Load(h) PROVE CasInv'
  BY <1>3, <1>0 DEF Load, Observe, TypeOK, States, CasInv
<1>4. ASSUME NEW h \in Holders, CasFailed(h) PROVE CasInv'
  BY <1>4, <1>0 DEF CasFailed, Observe, TypeOK, States, CasInv
<1>5. ASSUME NEW h \in Holders, Charge(h) PROVE CasInv'
  BY <1>5, <1>0 DEF Charge, TypeOK, States, CasInv
<1>6. ASSUME NEW h \in Holders, RollBack(h) PROVE CasInv'
  BY <1>6, <1>0 DEF RollBack, TypeOK, States, CasInv
<1>7. ASSUME NEW h \in Holders, Refused(h) PROVE CasInv'
  BY <1>7, <1>0 DEF Refused, Forget, TypeOK, States, CasInv
<1>8. ASSUME NEW h \in Holders, RaisePeak(h) PROVE CasInv'
  BY <1>8, <1>0 DEF RaisePeak, TypeOK, States, CasInv
<1>9. ASSUME NEW h \in Holders, Reserved(h) PROVE CasInv'
  BY <1>9, <1>0 DEF Reserved, Forget, TypeOK, States, CasInv
<1>10. ASSUME NEW h \in Holders, Drop(h) PROVE CasInv'
  BY <1>10, <1>0 DEF Drop, TypeOK, States, CasInv
<1>11. CASE UNCHANGED vars
  BY <1>11, <1>0 DEF vars, CasInv
<1> QED
  BY <1>1, <1>2, <1>3, <1>4, <1>5, <1>6, <1>7, <1>8, <1>9, <1>10, <1>11 DEF Next, Step

\* The part of the inductive invariant that does not speak of sums.
Core == TypeOK /\ LockInv /\ ProgressInv /\ CasInv

\* A fresh hierarchy (ResourceAccount::root and child) satisfies the core
\* invariant: nobody holds the lock and nothing is charged.
LEMMA InitCore == Init => Core
<1> SUFFICES ASSUME Init PROVE Core
  OBVIOUS
<1>1. TypeOK
  BY InitType
<1>2. LockInv
  BY HoldersAssumption DEF Init, LockInv, InTransaction
<1>3. ProgressInv
  BY <1>1, PathFacts DEF Init, ProgressInv, Progress, InTransaction, TypeOK
<1>4. CasInv
  BY DEF Init, CasInv
<1> QED
  BY <1>1, <1>2, <1>3, <1>4 DEF Core

\* Every step of try_new and drop keeps types, lock ownership, progress along
\* the path and the check made before the compare-and-exchange.
LEMMA CoreStep == Core /\ [Next]_vars => Core'
BY TypeStep, LockStep, ProgressStep, CasStep DEF Core

\* Every reachable state satisfies Core.
THEOREM CoreInvariant == Spec => []Core
BY InitCore, CoreStep, PTL DEF Spec

\* The type invariant of the budget: counters, peaks, observed values and
\* committed usages stay within a word, and the lock has at most one owner.
THEOREM TypeCorrect == Spec => []TypeOK
<1>1. Core => TypeOK
  BY DEF Core
<1> QED
  BY <1>1, CoreInvariant, PTL

-----------------------------------------------------------------------------
(***************************************************************************)
(* Conservation.                                                           *)
(***************************************************************************)

\* The bytes of one holder.
Share(h) == {h} \X (1..req[h].bytes)

\* The bytes accounted for on a counter can be counted.
LEMMA UnitsFinite ==
  ASSUME NEW H, NEW c
  PROVE  /\ IsFiniteSet(UnitsOf(H, c))
         /\ Cardinality(UnitsOf(H, c)) \in Nat
<1>1. IsFiniteSet(1..MaxWord)
  BY FS_Interval, WordAssumption
<1>2. IsFiniteSet(Holders \X (1..MaxWord))
  BY <1>1, FS_Product, HoldersAssumption
<1>3. UnitsOf(H, c) \in SUBSET (Holders \X (1..MaxWord))
  BY DEF UnitsOf
<1>4. IsFiniteSet(UnitsOf(H, c))
  BY <1>2, <1>3, FS_Subset
<1> QED
  BY <1>4, FS_CardinalityType

\* A holder accounts for as many bytes as its reservation asks for.
LEMMA ShareSize ==
  ASSUME req \in [Holders -> Requests], NEW h \in Holders
  PROVE  /\ IsFiniteSet(Share(h))
         /\ Cardinality(Share(h)) = req[h].bytes
<1>1. req[h].bytes \in Nat
  BY PathFacts, WordAssumption
<1>2. IsFiniteSet(1..req[h].bytes) /\ Cardinality(1..req[h].bytes) = req[h].bytes
  BY <1>1, FS_Interval
<1>3. IsFiniteSet({h}) /\ Cardinality({h}) = 1
  BY FS_Singleton
<1>4. /\ IsFiniteSet({h} \X (1..req[h].bytes))
      /\ Cardinality({h} \X (1..req[h].bytes)) = Cardinality({h}) * Cardinality(1..req[h].bytes)
  BY <1>2, <1>3, FS_Product
<1> QED
  BY <1>1, <1>2, <1>3, <1>4 DEF Share

\* Adding a disjoint share to a finite set adds its size.
LEMMA DisjointSum ==
  ASSUME NEW S, NEW T, IsFiniteSet(S), IsFiniteSet(T), S \cap T = {}
  PROVE  Cardinality(S \cup T) = Cardinality(S) + Cardinality(T)
<1>1. Cardinality(S \cup T) = Cardinality(S) + Cardinality(T) - Cardinality(S \cap T)
  BY FS_Union
<1>2. Cardinality(S \cap T) = 0
  BY FS_EmptySet
<1>3. Cardinality(S) \in Nat /\ Cardinality(T) \in Nat
  BY FS_CardinalityType
<1> QED
  BY <1>1, <1>2, <1>3

\* When holder h charges counter c and nothing else changes who charges what,
\* the bytes of c grow by h's share and the other counters keep theirs.
LEMMA UnitsGrow ==
  ASSUME TypeOK, req' = req, NEW h \in Holders, NEW c,
         ~Charges(h, c), Charges(h, c)',
         \A g \in Holders : \A d : (g # h \/ d # c) => (Charges(g, d)' <=> Charges(g, d))
  PROVE  /\ Cardinality(UnitsOf(Holders, c))' = Cardinality(UnitsOf(Holders, c)) + req[h].bytes
         /\ \A d : d # c => UnitsOf(Holders, d)' = UnitsOf(Holders, d)
<1>1. req[h].bytes \in 0..MaxWord /\ MaxWord \in Nat
  BY PathFacts, WordAssumption DEF TypeOK
<1>2. UnitsOf(Holders, c)' = UnitsOf(Holders, c) \cup Share(h)
  BY <1>1 DEF UnitsOf, Share
<1>3. UnitsOf(Holders, c) \cap Share(h) = {}
  BY DEF UnitsOf, Share
<1>4. Cardinality(UnitsOf(Holders, c) \cup Share(h)) = Cardinality(UnitsOf(Holders, c)) + req[h].bytes
  BY <1>3, DisjointSum, UnitsFinite, ShareSize DEF TypeOK
<1>5. \A d : d # c => UnitsOf(Holders, d)' = UnitsOf(Holders, d)
  BY DEF UnitsOf
<1> QED
  BY <1>2, <1>4, <1>5

\* The reverse: h gives back its share of counter c.
LEMMA UnitsShrink ==
  ASSUME TypeOK, req' = req, NEW h \in Holders, NEW c,
         Charges(h, c), ~Charges(h, c)',
         \A g \in Holders : \A d : (g # h \/ d # c) => (Charges(g, d)' <=> Charges(g, d))
  PROVE  /\ Cardinality(UnitsOf(Holders, c)) = Cardinality(UnitsOf(Holders, c))' + req[h].bytes
         /\ Cardinality(UnitsOf(Holders, c))' \in Nat
         /\ \A d : d # c => UnitsOf(Holders, d)' = UnitsOf(Holders, d)
<1> DEFINE after == UnitsOf(Holders, c)'
<1>1. req[h].bytes \in 0..MaxWord /\ MaxWord \in Nat
  BY PathFacts, WordAssumption DEF TypeOK
<1>2. UnitsOf(Holders, c) = after \cup Share(h)
  BY <1>1 DEF UnitsOf, Share
<1>3. after \cap Share(h) = {}
  BY DEF UnitsOf, Share
<1>4. after \in SUBSET UnitsOf(Holders, c)
  BY <1>2
<1>5. IsFiniteSet(after) /\ Cardinality(after) \in Nat
  BY <1>4, UnitsFinite, FS_Subset, FS_CardinalityType
<1>6. IsFiniteSet(Share(h)) /\ Cardinality(Share(h)) = req[h].bytes
  BY ShareSize DEF TypeOK
<1>7. Cardinality(after \cup Share(h)) = Cardinality(after) + Cardinality(Share(h))
  BY <1>3, <1>5, <1>6, DisjointSum
<1>8. \A d : d # c => UnitsOf(Holders, d)' = UnitsOf(Holders, d)
  BY DEF UnitsOf
<1> QED
  BY <1>2, <1>5, <1>6, <1>7, <1>8

\* A holder whose indices a step leaves alone charges what it charged before.
LEMMA OthersCharge ==
  ASSUME TypeOK, [Next]_vars, NEW g \in Holders, lo'[g] = lo[g], hi'[g] = hi[g], NEW d
  PROVE  Charges(g, d)' <=> Charges(g, d)
<1>1. lo[g] \in Nat /\ hi[g] \in Nat
  BY DEF TypeOK
<1>2. \A i \in (lo[g] + 1)..hi[g] : CounterOf(g, i)' = CounterOf(g, i)
  BY <1>1, RequestsFixed
<1> QED
  BY <1>1, <1>2 DEF Charges

\* The compare-and-exchange adds exactly its target to what h charges.
LEMMA ChargeAddsTarget ==
  ASSUME Core, [Next]_vars, NEW h \in Holders, Charge(h)
  PROVE  /\ ~Charges(h, Target(h))
         /\ \E t : t = Target(h) /\ Charges(h, t)'
         /\ \A g \in Holders : \A d : (g # h \/ d # Target(h)) =>
                (Charges(g, d)' <=> Charges(g, d))
<1>1. /\ hi[h] \in Nat /\ lo[h] = 0 /\ hi[h] + 1 \in 1..Depth(h) /\ Depth(h) \in Nat
      /\ hi'[h] = hi[h] + 1 /\ lo' = lo
      /\ \A g \in Holders : g # h => hi'[g] = hi[g]
  BY TargetType, PathFacts DEF Core, TypeOK, ProgressInv, Progress, Charge
<1>2. \A i, j \in 1..Depth(h) : CounterOf(h, i) = CounterOf(h, j) => i = j
  BY PathFacts DEF Core, TypeOK
<1>3. \A i \in 1..Depth(h) : CounterOf(h, i)' = CounterOf(h, i)
  BY <1>1, RequestsFixed DEF Core
<1>4. ~Charges(h, Target(h))
  BY <1>1, <1>2 DEF Charges, Target
<1>5. \A d : Charges(h, d)' <=> (Charges(h, d) \/ d = Target(h))
  <2> SUFFICES ASSUME NEW d PROVE Charges(h, d)' <=> (Charges(h, d) \/ d = Target(h))
    OBVIOUS
  <2>1. Charges(h, d)' <=> \E i \in 1..(hi[h] + 1) : CounterOf(h, i) = d
    BY <1>1, <1>3 DEF Charges
  <2>2. Charges(h, d) <=> \E i \in 1..hi[h] : CounterOf(h, i) = d
    BY <1>1 DEF Charges
  <2> QED
    BY <1>1, <2>1, <2>2 DEF Target
<1>6. \A g \in Holders : \A d : g # h => (Charges(g, d)' <=> Charges(g, d))
  BY <1>1, OthersCharge DEF Core
<1> QED
  BY <1>4, <1>5, <1>6

\* One fetch_sub, of a rollback or of a drop, removes exactly the counter it
\* works on from what h charges.
LEMMA GiveBackRemovesCounter ==
  ASSUME Core, [Next]_vars, NEW h \in Holders, RollBack(h) \/ Drop(h)
  PROVE  LET c == CounterOf(h, lo[h] + 1) IN
         /\ c \in Counters
         /\ Charges(h, c)
         /\ \E t : t = c /\ ~Charges(h, t)'
         /\ \A g \in Holders : \A d : (g # h \/ d # c) => (Charges(g, d)' <=> Charges(g, d))
<1> DEFINE c == CounterOf(h, lo[h] + 1)
<1>1. /\ hi[h] \in Nat /\ lo[h] \in Nat /\ lo[h] < hi[h] /\ hi[h] <= Depth(h) /\ Depth(h) \in Nat
      /\ \A g \in Holders : g # h => hi'[g] = hi[g] /\ lo'[g] = lo[g]
  BY PathFacts DEF Core, TypeOK, ProgressInv, Progress, RollBack, Drop
<1>2. \/ hi'[h] = hi[h] /\ lo'[h] = lo[h] + 1
      \/ hi'[h] = 0 /\ lo'[h] = 0 /\ hi[h] = lo[h] + 1
  BY <1>1 DEF Core, TypeOK, RollBack, Drop
<1>3. \A i, j \in 1..Depth(h) : CounterOf(h, i) = CounterOf(h, j) => i = j
  BY PathFacts DEF Core, TypeOK
<1>4. \A i \in 1..Depth(h) : CounterOf(h, i)' = CounterOf(h, i) /\ CounterOf(h, i) \in Counters
  BY <1>1, RequestsFixed, PathFacts DEF Core, TypeOK
<1>5. c \in Counters /\ Charges(h, c)
  BY <1>1, <1>4 DEF Charges
<1>6. \A d : Charges(h, d)' <=> \E i \in (lo[h] + 2)..hi[h] : CounterOf(h, i) = d
  BY <1>1, <1>2, <1>4 DEF Charges
<1>7. ~\E i \in (lo[h] + 2)..hi[h] : CounterOf(h, i) = c
  BY <1>1, <1>3
<1>8. \A d : d # c => (Charges(h, d)' <=> Charges(h, d))
  BY <1>1, <1>6 DEF Charges
<1>9. \A g \in Holders : \A d : g # h => (Charges(g, d)' <=> Charges(g, d))
  BY <1>1, OthersCharge DEF Core
<1> QED
  BY <1>5, <1>6, <1>7, <1>8, <1>9

\* What a fetch_sub does to its counter: there is enough to subtract, so it
\* does not wrap, and the sums stay right.
LEMMA GiveBack ==
  ASSUME Core, Conservation, [Next]_vars, NEW h \in Holders, RollBack(h) \/ Drop(h),
         NEW c, c = CounterOf(h, lo[h] + 1)
  PROVE  /\ c \in Counters
         /\ used[c] >= req[h].bytes
         /\ used' = [used EXCEPT ![c] = used[c] - req[h].bytes]
         /\ Conservation'
<1>1. /\ c \in Counters /\ Charges(h, c) /\ ~Charges(h, c)'
      /\ \A g \in Holders : \A d : (g # h \/ d # c) => (Charges(g, d)' <=> Charges(g, d))
  BY GiveBackRemovesCounter
<1>2. TypeOK /\ req' = req
  BY RequestsFixed DEF Core
<1>3. /\ Cardinality(UnitsOf(Holders, c)) = Cardinality(UnitsOf(Holders, c))' + req[h].bytes
      /\ Cardinality(UnitsOf(Holders, c))' \in Nat
      /\ \A d : d # c => UnitsOf(Holders, d)' = UnitsOf(Holders, d)
  BY <1>1, <1>2, UnitsShrink
<1>4. used[c] \in Nat /\ req[h].bytes \in Nat /\ used \in [Counters -> 0..MaxWord]
  BY <1>1, <1>2, PathFacts, WordAssumption DEF TypeOK
<1>5. used[c] = Cardinality(UnitsOf(Holders, c))
  BY <1>1 DEF Conservation
<1>6. used[c] >= req[h].bytes /\ used[c] - req[h].bytes = Cardinality(UnitsOf(Holders, c))'
  BY <1>3, <1>4, <1>5
<1>7. used' = [used EXCEPT ![c] = FetchSub(used[c], req[h].bytes)]
  BY DEF RollBack, Drop
<1>8. FetchSub(used[c], req[h].bytes) = used[c] - req[h].bytes
  BY <1>4, <1>6 DEF FetchSub
<1>9. \A d \in Counters : used'[d] = Cardinality(UnitsOf(Holders, d))'
  <2> SUFFICES ASSUME NEW d \in Counters PROVE used'[d] = Cardinality(UnitsOf(Holders, d))'
    OBVIOUS
  <2>1. CASE d = c
    BY <2>1, <1>1, <1>4, <1>6, <1>7, <1>8
  <2>2. CASE d # c
    <3>1. used'[d] = used[d]
      BY <2>2, <1>4, <1>7
    <3>2. Cardinality(UnitsOf(Holders, d))' = Cardinality(UnitsOf(Holders, d))
      BY <2>2, <1>3
    <3> QED
      BY <3>1, <3>2 DEF Conservation
  <2> QED
    BY <2>1, <2>2
<1> QED
  BY <1>1, <1>6, <1>7, <1>8, <1>9 DEF Conservation

\* What a successful compare-and-exchange does to its counter.
LEMMA TakeUp ==
  ASSUME Core, Conservation, [Next]_vars, NEW h \in Holders, Charge(h),
         NEW c, c = Target(h)
  PROVE  /\ c \in Counters
         /\ used' = [used EXCEPT ![c] = used[c] + req[h].bytes]
         /\ used[c] + req[h].bytes <= Cap[c]
         /\ Conservation'
<1>1. /\ c \in Counters /\ ~Charges(h, c) /\ Charges(h, c)'
      /\ \A g \in Holders : \A d : (g # h \/ d # c) => (Charges(g, d)' <=> Charges(g, d))
  BY ChargeAddsTarget, TargetType DEF Core, Charge
<1>2. TypeOK /\ req' = req /\ used \in [Counters -> 0..MaxWord]
  BY RequestsFixed DEF Core, TypeOK
<1>3. /\ Cardinality(UnitsOf(Holders, c))' = Cardinality(UnitsOf(Holders, c)) + req[h].bytes
      /\ \A d : d # c => UnitsOf(Holders, d)' = UnitsOf(Holders, d)
  BY <1>1, <1>2, UnitsGrow
<1>4. /\ used' = [used EXCEPT ![c] = used[c] + req[h].bytes]
      /\ used[c] + req[h].bytes <= Cap[c]
  BY DEF Charge, Core, CasInv, Fits
<1>5. \A d \in Counters : used'[d] = Cardinality(UnitsOf(Holders, d))'
  <2> SUFFICES ASSUME NEW d \in Counters PROVE used'[d] = Cardinality(UnitsOf(Holders, d))'
    OBVIOUS
  <2>1. CASE d = c
    BY <2>1, <1>1, <1>2, <1>3, <1>4 DEF Conservation
  <2>2. CASE d # c
    <3>1. used'[d] = used[d]
      BY <2>2, <1>2, <1>4
    <3>2. Cardinality(UnitsOf(Holders, d))' = Cardinality(UnitsOf(Holders, d))
      BY <2>2, <1>3
    <3> QED
      BY <3>1, <3>2 DEF Conservation
  <2> QED
    BY <2>1, <2>2
<1> QED
  BY <1>1, <1>4, <1>5 DEF Conservation

\* Steps that touch neither the counters nor the indices keep the sums.
LEMMA SumsKept ==
  ASSUME Core, Conservation, [Next]_vars, used' = used,
         \A g \in Holders : \A d : Charges(g, d)' <=> Charges(g, d)
  PROVE  Conservation'
<1>1. req' = req
  BY RequestsFixed DEF Core
<1>2. \A d : UnitsOf(Holders, d)' = UnitsOf(Holders, d)
  BY <1>1 DEF UnitsOf
<1>3. \A d : Cardinality(UnitsOf(Holders, d))' = Cardinality(UnitsOf(Holders, d))
  BY <1>2
<1> QED
  BY <1>3 DEF Conservation

\* Init satisfies conservation and the limits.
LEMMA InitSums == Init => Conservation /\ WithinLimit
<1> SUFFICES ASSUME Init PROVE Conservation /\ WithinLimit
  OBVIOUS
<1>1. \A h \in Holders : \A c : ~Charges(h, c)
  BY DEF Init, Charges
<1>2. \A c : UnitsOf(Holders, c) = {}
  BY <1>1 DEF UnitsOf
<1>3. \A c : Cardinality(UnitsOf(Holders, c)) = 0
  BY <1>2, FS_EmptySet
<1> QED
  BY <1>3, WordAssumption DEF Init, Conservation, WithinLimit

\* Every step preserves conservation and the limits.
LEMMA SumsStep ==
  ASSUME Core, Conservation, WithinLimit, [Next]_vars
  PROVE  Conservation' /\ WithinLimit'
<1>0. /\ used \in [Counters -> 0..MaxWord] /\ MaxWord \in Nat /\ Cap \in [Counters -> 0..MaxWord]
      /\ \A g \in Holders : lo[g] \in Nat /\ hi[g] \in Nat /\ req[g].bytes \in Nat
  BY WordAssumption, PathFacts DEF Core, TypeOK
<1>1. ASSUME NEW h \in Holders, Charge(h) PROVE Conservation' /\ WithinLimit'
  <2> PICK c : c = Target(h)
    OBVIOUS
  <2>1. /\ c \in Counters /\ used' = [used EXCEPT ![c] = used[c] + req[h].bytes]
        /\ used[c] + req[h].bytes <= Cap[c] /\ Conservation'
    BY <1>1, TakeUp
  <2> QED
    BY <2>1, <1>0 DEF WithinLimit
<1>2. ASSUME NEW h \in Holders, RollBack(h) \/ Drop(h) PROVE Conservation' /\ WithinLimit'
  <2> PICK c : c = CounterOf(h, lo[h] + 1)
    OBVIOUS
  <2>1. /\ c \in Counters /\ used[c] >= req[h].bytes
        /\ used' = [used EXCEPT ![c] = used[c] - req[h].bytes] /\ Conservation'
    BY <1>2, GiveBack
  <2>2. used[c] - req[h].bytes <= used[c]
    BY <2>1, <1>0
  <2>3. ASSUME NEW d \in Counters PROVE used'[d] <= Cap[d]
    BY <2>1, <2>2, <1>0 DEF WithinLimit
  <2> QED
    BY <2>1, <2>3 DEF WithinLimit
<1>3. ASSUME NEW h \in Holders, Refused(h) PROVE Conservation' /\ WithinLimit'
  <2>1. \A d : Charges(h, d)' <=> Charges(h, d)
    BY <1>0, <1>3 DEF Refused, Charges, Core, TypeOK
  <2>2. \A g \in Holders : g # h => lo'[g] = lo[g] /\ hi'[g] = hi[g]
    BY <1>3 DEF Refused, Core, TypeOK
  <2>3. \A g \in Holders : \A d : g # h => (Charges(g, d)' <=> Charges(g, d))
    BY <2>2, OthersCharge DEF Core
  <2>4. used' = used
    BY <1>3 DEF Refused
  <2> QED
    BY <2>1, <2>3, <2>4, SumsKept DEF WithinLimit
<1>4. ASSUME used' = used, lo' = lo, hi' = hi PROVE Conservation' /\ WithinLimit'
  <2>1. \A g \in Holders : \A d : Charges(g, d)' <=> Charges(g, d)
    BY <1>4, OthersCharge DEF Core
  <2> QED
    BY <1>4, <2>1, SumsKept DEF WithinLimit
<1>5. ASSUME NEW h \in Holders,
             Begin(h) \/ Lock(h) \/ Load(h) \/ CasFailed(h) \/ RaisePeak(h) \/ Reserved(h)
      PROVE  used' = used /\ lo' = lo /\ hi' = hi
  BY <1>5 DEF Begin, Lock, Load, CasFailed, Observe, RaisePeak, Reserved
<1>6. CASE UNCHANGED vars
  BY <1>6, <1>4 DEF vars
<1> QED
  BY <1>1, <1>2, <1>3, <1>4, <1>5, <1>6 DEF Next, Step

\* Nothing leaks, nothing is returned twice and no counter exceeds its limit,
\* in every interleaving of transactions and drops.
THEOREM BudgetHolds == Spec => [](Conservation /\ WithinLimit)
<1>1. Init => Core /\ Conservation /\ WithinLimit
  BY InitCore, InitSums
<1>2. (Core /\ Conservation /\ WithinLimit) /\ [Next]_vars
        => (Core /\ Conservation /\ WithinLimit)'
  BY CoreStep, SumsStep
<1> QED
  BY <1>1, <1>2, PTL DEF Spec

-----------------------------------------------------------------------------
(***************************************************************************)
(* Peaks.                                                                  *)
(***************************************************************************)

\* The second disjunct of PeakInv: the transaction of h answers for c.
Answers(h, c) ==
    /\ InTransaction(h)
    /\ Charges(h, c)
    /\ used[c] <= peak[c] + req[h].bytes
    /\ pc[h] # "rollback" =>
        \E i \in (raised[h] + 1)..hi[h] : CounterOf(h, i) = c /\ used[c] <= usage[h][i]

\* The peak invariant, with the holder that answers for an unraised peak named.
LEMMA PeakInvAnswers ==
  PeakInv <=> \A c \in Counters : used[c] <= peak[c] \/ \E h \in Holders : Answers(h, c)
BY DEF PeakInv, Answers

\* Two holders are never inside a transaction at the same time.
LEMMA OneTransaction ==
  ASSUME LockInv, NEW g \in Holders, NEW h \in Holders, InTransaction(g), InTransaction(h)
  PROVE  g = h
BY DEF LockInv

\* Charging a counter that is within its peak makes h answer for it, and h
\* still answers for what it answered for.
LEMMA PeakCharge ==
  ASSUME Core, Conservation, PeakInv, [Next]_vars, NEW h \in Holders, Charge(h)
  PROVE  PeakInv'
<1> PICK t : t = Target(h)
  OBVIOUS
<1>1. /\ t \in Counters /\ used' = [used EXCEPT ![t] = used[t] + req[h].bytes]
  BY TakeUp
<1>2. /\ ~Charges(h, t) /\ Charges(h, t)'
      /\ \A g \in Holders : \A d : (g # h \/ d # t) => (Charges(g, d)' <=> Charges(g, d))
  BY ChargeAddsTarget
<1>3. /\ used \in [Counters -> 0..MaxWord] /\ peak \in [Counters -> 0..MaxWord]
      /\ req[h].bytes \in Nat /\ MaxWord \in Nat
      /\ hi[h] \in Nat /\ raised[h] = 0 /\ pc[h] = "cas" /\ Len(usage[h]) = hi[h]
      /\ usage[h] \in Seq(0..MaxWord) /\ Depth(h) \in Nat /\ hi[h] + 1 \in 1..Depth(h)
  BY PathFacts, WordAssumption, TargetType
     DEF Core, TypeOK, ProgressInv, Progress, InTransaction, Charge
<1>4. /\ peak' = peak /\ req' = req /\ hi'[h] = hi[h] + 1 /\ raised'[h] = 0
      /\ usage'[h] = Append(usage[h], used[t] + req[h].bytes)
      /\ pc'[h] \in {"peak", "charge"}
  BY <1>3 DEF Charge, Core, TypeOK
<1>5. \A i \in 1..(hi[h] + 1) : CounterOf(h, i)' = CounterOf(h, i)
  BY <1>3, RequestsFixed DEF Core
<1>6. InTransaction(h) /\ InTransaction(h)'
  BY <1>3, <1>4 DEF InTransaction
<1>7. used[t] <= peak[t]
  <2>1. \A g \in Holders : InTransaction(g) => g = h
    BY <1>6, OneTransaction DEF Core
  <2> QED
    BY <1>1, <1>2, <2>1 DEF PeakInv
<1>8. Answers(h, t)'
  <2>1. used'[t] = used[t] + req[h].bytes /\ used'[t] <= peak'[t] + req'[h].bytes
    BY <1>1, <1>3, <1>4, <1>7
  <2> PICK n \in Nat : n = hi[h] + 1
    BY <1>3
  <2>2. usage'[h][n] = used[t] + req[h].bytes
    BY <1>1, <1>3, <1>4
  <2>3. CounterOf(h, n)' = t
    BY <1>3, <1>5 DEF Target
  <2>4. \E i \in (raised'[h] + 1)..hi'[h] : CounterOf(h, i)' = t /\ used'[t] <= usage'[h][i]
    <3>1. n \in (raised'[h] + 1)..hi'[h]
      BY <1>3, <1>4
    <3>2. used'[t] <= usage'[h][n]
      BY <1>1, <1>3, <2>1, <2>2
    <3> QED
      BY <3>1, <3>2, <2>3
  <2> QED
    BY <1>2, <1>6, <2>1, <2>4 DEF Answers
<1>9. ASSUME NEW d \in Counters, d # t PROVE used'[d] <= peak'[d] \/ \E g \in Holders : Answers(g, d)'
  <2>1. used'[d] = used[d]
    BY <1>1, <1>3, <1>9
  <2>2. CASE used[d] <= peak[d]
    BY <2>1, <2>2, <1>4
  <2>3. CASE ~(used[d] <= peak[d])
    <3>1. PICK g \in Holders : Answers(g, d)
      BY <2>3, PeakInvAnswers
    <3>2. g = h
      BY <3>1, <1>6, OneTransaction DEF Answers, Core
    <3>3. Charges(h, d)' /\ used'[d] <= peak'[d] + req'[h].bytes
      BY <3>1, <3>2, <2>1, <1>2, <1>4, <1>9 DEF Answers
    <3>4. PICK i \in 1..hi[h] : CounterOf(h, i) = d /\ used[d] <= usage[h][i]
      BY <3>1, <3>2, <1>3 DEF Answers
    <3>5. usage'[h][i] = usage[h][i] /\ CounterOf(h, i)' = d /\ i \in (raised'[h] + 1)..hi'[h]
      BY <3>4, <1>3, <1>4, <1>5
    <3> QED
      BY <3>3, <3>4, <3>5, <2>1, <1>6 DEF Answers
  <2> QED
    BY <2>2, <2>3
<1> QED
  BY <1>8, <1>9 DEF PeakInv, Answers

\* A fetch_sub lowers a counter: what was within its peak stays so, and the
\* counter a rollback gives back is within its peak again.
LEMMA PeakGiveBack ==
  ASSUME Core, Conservation, PeakInv, [Next]_vars, NEW h \in Holders, RollBack(h) \/ Drop(h)
  PROVE  PeakInv'
<1> PICK t : t = CounterOf(h, lo[h] + 1)
  OBVIOUS
<1>1. /\ t \in Counters /\ used[t] >= req[h].bytes
      /\ used' = [used EXCEPT ![t] = used[t] - req[h].bytes]
  BY GiveBack
<1>2. \A g \in Holders : \A d : (g # h \/ d # t) => (Charges(g, d)' <=> Charges(g, d))
  BY GiveBackRemovesCounter
<1>3. /\ used \in [Counters -> 0..MaxWord] /\ peak \in [Counters -> 0..MaxWord]
      /\ req[h].bytes \in Nat /\ MaxWord \in Nat
      /\ \A g \in Holders : usage[g] \in Seq(0..MaxWord) /\ raised[g] \in Nat /\ hi[g] \in Nat
  <2>1. TypeOK
    BY DEF Core
  <2>2. MaxWord \in Nat
    BY WordAssumption
  <2>3. req[h].bytes \in 0..MaxWord
    BY <2>1, PathFacts DEF TypeOK
  <2>4. req[h].bytes \in Nat
    BY <2>2, <2>3
  <2> QED
    BY <2>1, <2>2, <2>4 DEF TypeOK
<1>4. peak' = peak /\ req' = req /\ usage' = usage /\ raised' = raised
  BY DEF RollBack, Drop
<1>5. \A d \in Counters : used'[d] <= used[d] /\ used'[d] \in Nat /\ (d # t => used'[d] = used[d])
  BY <1>1, <1>3
<1> SUFFICES ASSUME NEW d \in Counters, ~(used[d] <= peak[d]), ~(used'[d] <= peak'[d])
             PROVE  \E g \in Holders : Answers(g, d)'
  BY <1>3, <1>4, <1>5 DEF PeakInv, Answers
<1>6. PICK g \in Holders : Answers(g, d)
  BY PeakInvAnswers
<1>7. CASE Drop(h)
  <2>1. g # h /\ pc'[g] = pc[g] /\ hi'[g] = hi[g] /\ InTransaction(g)
    BY <1>6, <1>7 DEF Answers, Drop, InTransaction, Core, TypeOK
  <2>2. Charges(g, d)' /\ InTransaction(g)'
    BY <1>2, <1>6, <2>1 DEF Answers, InTransaction
  <2>3. req[g].bytes \in Nat
    BY PathFacts, WordAssumption DEF Core, TypeOK
  <2>4. used'[d] <= peak'[d] + req'[g].bytes
    BY <1>3, <1>4, <1>5, <1>6, <2>3 DEF Answers
  <2>5. ASSUME pc[g] # "rollback"
        PROVE  \E i \in (raised'[g] + 1)..hi'[g] : CounterOf(g, i)' = d /\ used'[d] <= usage'[g][i]
    <3>1. PICK i \in (raised[g] + 1)..hi[g] : CounterOf(g, i) = d /\ used[d] <= usage[g][i]
      BY <1>6, <2>5 DEF Answers
    <3>2. Len(usage[g]) = hi[g]
      BY <2>1 DEF Core, ProgressInv, Progress
    <3>3. i \in 1..Len(usage[g])
      BY <3>1, <3>2, <1>3
    <3>4. usage[g][i] \in 0..MaxWord
      BY <3>3, <1>3, SeqElement
    <3>5. used'[d] <= usage[g][i]
      BY <3>1, <3>4, <1>3, <1>5
    <3>6. CounterOf(g, i)' = d
      BY <3>1, <1>3, RequestsFixed DEF Core
    <3> QED
      BY <3>1, <3>5, <3>6, <2>1, <1>4
  <2> QED
    BY <2>1, <2>2, <2>4, <2>5 DEF Answers
<1>8. CASE RollBack(h)
  <2>1. InTransaction(h) /\ InTransaction(h)' /\ pc'[h] = "rollback"
    BY <1>8 DEF RollBack, InTransaction
  <2>2. g = h
    BY <2>1, <1>6, OneTransaction DEF Answers, Core
  <2>3. d # t
    BY <2>2, <1>1, <1>3, <1>4, <1>6 DEF Answers
  <2>4. Charges(h, d)' /\ used'[d] <= peak'[d] + req'[h].bytes
    BY <2>2, <2>3, <1>2, <1>4, <1>5, <1>6 DEF Answers
  <2> QED
    BY <2>1, <2>4 DEF Answers
<1> QED
  BY <1>7, <1>8

\* Raising a peak covers the counter that was above it.
LEMMA PeakRaise ==
  ASSUME Core, PeakInv, [Next]_vars, NEW h \in Holders, RaisePeak(h)
  PROVE  PeakInv'
<1> PICK n \in Nat : n = raised[h] + 1
  BY DEF Core, TypeOK
<1> PICK t : t = CounterOf(h, n)
  OBVIOUS
<1>1. /\ used \in [Counters -> 0..MaxWord] /\ peak \in [Counters -> 0..MaxWord] /\ MaxWord \in Nat
      /\ req[h].bytes \in Nat /\ hi[h] = Depth(h) /\ Len(usage[h]) = hi[h] /\ raised[h] \in Nat
      /\ n \in 1..Depth(h) /\ Depth(h) \in Nat
      /\ usage[h] \in Seq(0..MaxWord) /\ pc[h] = "peak" /\ lo[h] = 0
  <2>1. TypeOK /\ Progress(h) /\ pc[h] = "peak" /\ raised[h] < Depth(h)
    BY DEF RaisePeak, Core, ProgressInv
  <2>2. req[h].bytes \in Nat /\ Depth(h) \in Nat /\ MaxWord \in Nat
    BY <2>1, PathFacts, WordAssumption DEF TypeOK
  <2>3. raised[h] \in Nat /\ n \in 1..Depth(h)
    BY <2>1, <2>2 DEF TypeOK
  <2> QED
    BY <2>1, <2>2, <2>3 DEF TypeOK, Progress, InTransaction
<1>2. usage[h][n] \in 0..MaxWord
  BY <1>1, SeqElement
<1>3. /\ used' = used /\ req' = req /\ usage' = usage /\ pc' = pc /\ hi' = hi /\ lo' = lo
      /\ raised'[h] = raised[h] + 1 /\ raised' \in [Holders -> Nat]
      /\ peak' = [peak EXCEPT ![t] = FetchMax(peak[t], usage[h][n])]
  BY DEF RaisePeak, Core, TypeOK
<1>4. t \in Counters /\ \A i, j \in 1..Depth(h) : CounterOf(h, i) = CounterOf(h, j) => i = j
  BY <1>1, PathFacts DEF Core, TypeOK
<1>5. /\ peak'[t] >= peak[t] /\ peak'[t] >= usage[h][n]
      /\ \A d \in Counters : peak'[d] >= peak[d] /\ peak'[d] \in Nat
  <2>1. peak[t] \in 0..MaxWord
    BY <1>1, <1>4
  <2>2. /\ FetchMax(peak[t], usage[h][n]) >= peak[t]
        /\ FetchMax(peak[t], usage[h][n]) >= usage[h][n]
        /\ FetchMax(peak[t], usage[h][n]) \in Nat
    BY <1>1, <1>2, <2>1 DEF FetchMax
  <2>3. peak'[t] = FetchMax(peak[t], usage[h][n])
    BY <1>1, <1>3, <1>4
  <2>4. \A d \in Counters : d # t => peak'[d] = peak[d]
    BY <1>1, <1>3
  <2>5. \A d \in Counters : peak'[d] >= peak[d] /\ peak'[d] \in Nat
    <3> SUFFICES ASSUME NEW d \in Counters PROVE peak'[d] >= peak[d] /\ peak'[d] \in Nat
      OBVIOUS
    <3>1. CASE d = t
      BY <3>1, <2>1, <2>2, <2>3
    <3>2. CASE d # t
      <4>1. peak'[d] = peak[d] /\ peak[d] \in Nat
        BY <3>2, <2>4, <1>1
      <4> QED
        BY <4>1
    <3> QED
      BY <3>1, <3>2
  <2> QED
    BY <2>2, <2>3, <2>5
<1> SUFFICES ASSUME NEW d \in Counters, ~(used[d] <= peak[d]), ~(used'[d] <= peak'[d])
             PROVE  \E g \in Holders : Answers(g, d)'
  BY <1>1, <1>3, <1>5 DEF PeakInv, Answers
<1>6. PICK g \in Holders : Answers(g, d)
  BY PeakInvAnswers
<1>7. g = h
  BY <1>1, <1>6, OneTransaction DEF Answers, Core, InTransaction
<1>8. PICK i \in n..hi[h] : CounterOf(h, i) = d /\ used[d] <= usage[h][i]
  BY <1>1, <1>6, <1>7 DEF Answers
<1>9. i # n
  BY <1>1, <1>2, <1>3, <1>5, <1>8
<1>10. Charges(h, d)' /\ InTransaction(h)' /\ CounterOf(h, i)' = d
  BY <1>1, <1>3, <1>6, <1>7, <1>8, OthersCharge, RequestsFixed DEF Answers, InTransaction, Core
<1>11. used'[d] <= peak'[d] + req'[h].bytes
  <2>1. used[d] \in Nat /\ peak[d] \in Nat /\ peak'[d] \in Nat /\ peak'[d] >= peak[d]
    BY <1>1, <1>5
  <2>2. used[d] <= peak[d] + req[h].bytes
    BY <1>6, <1>7 DEF Answers
  <2> QED
    BY <2>1, <2>2, <1>1, <1>3
<1>12. i \in (raised'[h] + 1)..hi'[h]
  BY <1>1, <1>3, <1>8, <1>9
<1> QED
  BY <1>3, <1>8, <1>10, <1>11, <1>12 DEF Answers

\* Leaving a transaction: there is no counter left to answer for.
LEMMA PeakLeave ==
  ASSUME Core, PeakInv, [Next]_vars, NEW h \in Holders, Refused(h) \/ Reserved(h)
  PROVE  PeakInv'
<1>1. used' = used /\ peak' = peak
  BY DEF Refused, Reserved
<1>2. \A d : ~Answers(h, d)
  BY PathFacts DEF Refused, Reserved, Answers, Charges, Core, TypeOK, ProgressInv, Progress
<1>3. InTransaction(h)
  BY DEF Refused, Reserved, InTransaction
<1>4. \A g \in Holders : \A d : ~Answers(g, d)
  BY <1>2, <1>3, OneTransaction DEF Answers, Core
<1>5. \A d \in Counters : used[d] <= peak[d]
  BY <1>4, PeakInvAnswers
<1> QED
  BY <1>1, <1>5 DEF PeakInv

\* The other steps change neither counters nor peaks, and whoever answered
\* for a counter still does.
LEMMA PeakKept ==
  ASSUME Core, PeakInv, [Next]_vars,
         UNCHANGED <<used, peak, hi, lo, usage, raised>>,
         \A g \in Holders : InTransaction(g) => InTransaction(g)' /\ (pc'[g] # "rollback" => pc[g] # "rollback")
  PROVE  PeakInv'
<1> SUFFICES ASSUME NEW d \in Counters, ~(used[d] <= peak[d])
             PROVE  \E g \in Holders : Answers(g, d)'
  BY DEF PeakInv, Answers
<1>1. PICK g \in Holders : Answers(g, d)
  BY PeakInvAnswers
<1>2. Charges(g, d)' /\ InTransaction(g)' /\ used'[d] <= peak'[d] + req'[g].bytes
  BY <1>1, OthersCharge, RequestsFixed DEF Answers, Core
<1>3. ASSUME pc'[g] # "rollback"
      PROVE  \E i \in (raised'[g] + 1)..hi'[g] : CounterOf(g, i)' = d /\ used'[d] <= usage'[g][i]
  <2>1. PICK i \in (raised[g] + 1)..hi[g] : CounterOf(g, i) = d /\ used[d] <= usage[g][i]
    BY <1>1, <1>3 DEF Answers
  <2>2. i \in Nat
    BY <2>1 DEF Core, TypeOK
  <2>3. CounterOf(g, i)' = d
    BY <2>1, <2>2, RequestsFixed DEF Core
  <2> QED
    BY <2>1, <2>3
<1> QED
  BY <1>2, <1>3 DEF Answers

\* Every step of try_new and drop keeps the peak invariant.
LEMMA PeakStep ==
  ASSUME Core, Conservation, PeakInv, [Next]_vars
  PROVE  PeakInv'
<1>1. ASSUME NEW h \in Holders, Begin(h) \/ Lock(h) \/ Load(h) \/ CasFailed(h)
      PROVE  PeakInv'
  <2>1. UNCHANGED <<used, peak, hi, lo, usage, raised>>
    BY <1>1 DEF Begin, Lock, Load, CasFailed, Observe
  <2>2. \A g \in Holders : InTransaction(g) => InTransaction(g)' /\ (pc'[g] # "rollback" => pc[g] # "rollback")
    BY <1>1 DEF Begin, Lock, Load, CasFailed, Observe, InTransaction, Core, TypeOK
  <2> QED
    BY <2>1, <2>2, PeakKept
<1>2. CASE UNCHANGED vars
  BY <1>2, PeakKept DEF vars, InTransaction
<1> QED
  BY <1>1, <1>2, PeakCharge, PeakGiveBack, PeakRaise, PeakLeave DEF Next, Step

\* Whenever no transaction is running, peak_memory_used and peak_temp_used
\* are at least what is in use.
THEOREM PeaksCover == Spec => []PeakCoversUsage
<1> DEFINE I == Core /\ Conservation /\ WithinLimit /\ PeakInv
<1>1. Init => I
  <2>1. Init => PeakInv
    BY DEF Init, PeakInv
  <2> QED
    BY <2>1, InitCore, InitSums
<1>2. I /\ [Next]_vars => I'
  BY CoreStep, SumsStep, PeakStep
<1>3. I => PeakCoversUsage
  BY HoldersAssumption DEF PeakInv, PeakCoversUsage, Core, LockInv
<1> QED
  BY <1>1, <1>2, <1>3, PTL DEF Spec

-----------------------------------------------------------------------------
(***************************************************************************)
(* Refusals.                                                               *)
(***************************************************************************)

\* Everything a step of a behaviour can rely on.
Reachable == Core /\ Conservation /\ WithinLimit

\* The core invariant and the sums hold together in every reachable state.
LEMMA ReachableInvariant == Spec => []Reachable
<1>1. Init => Reachable
  BY InitCore, InitSums DEF Reachable
<1>2. Reachable /\ [Next]_vars => Reachable'
  BY CoreStep, SumsStep DEF Reachable
<1> QED
  BY <1>1, <1>2, PTL DEF Spec

\* A transaction in flight has nothing of its next target, and nobody else is
\* inside one: what the target holds belongs to granted reservations.
LEMMA TargetIsGranted ==
  ASSUME Reachable, NEW h \in Holders, pc[h] \in {"charge", "cas"}
  PROVE  UnitsOf(Holders, Target(h)) = UnitsOf(Granted, Target(h))
<1>1. ASSUME NEW g \in Holders, Charges(g, Target(h)) PROVE g \in Granted
  <2>1. lo[g] \in Nat /\ hi[g] \in Nat /\ lo[g] < hi[g]
    BY <1>1 DEF Charges, Reachable, Core, TypeOK
  <2>2. pc[g] \notin {"idle", "lock"} /\ pc[g] \in States
    BY <2>1 DEF Reachable, Core, TypeOK, ProgressInv, Progress
  <2>3. g # h
    <3>1. /\ lo[h] = 0 /\ hi[h] \in Nat /\ hi[h] + 1 \in 1..Depth(h) /\ Depth(h) \in Nat
          /\ \A i, j \in 1..Depth(h) : CounterOf(h, i) = CounterOf(h, j) => i = j
      BY TargetType, PathFacts DEF Reachable, Core, TypeOK, ProgressInv, Progress
    <3> QED
      BY <1>1, <3>1 DEF Charges, Target
  <2>4. ~InTransaction(g)
    BY <2>3, OneTransaction DEF Reachable, Core, InTransaction
  <2> QED
    BY <2>2, <2>4 DEF Granted, InTransaction, States
<1>2. Granted \subseteq Holders
  BY DEF Granted
<1> QED
  BY <1>1, <1>2 DEF UnitsOf

\* A refusal never blames a counter that has room next to what is granted.
LEMMA HonestStep ==
  ASSUME Reachable, [Next]_vars, NEW h \in Holders,
         pc[h] \in {"charge", "cas"}, pc'[h] = "rollback"
  PROVE  Cardinality(UnitsOf(Granted, Target(h))) + req[h].bytes > Cap[Target(h)]
<1>1. Target(h) \in Counters
  BY TargetType DEF Reachable, Core
<1>2. Observe(h)
  BY DEF Next, Step, vars, Begin, Lock, Load, CasFailed, Charge, RollBack, Refused,
         RaisePeak, Reserved, Drop, Observe, Reachable, Core, TypeOK
<1>3. ~Fits(used[Target(h)], req[h].bytes, Cap[Target(h)])
  BY <1>2 DEF Observe, Reachable, Core, TypeOK
<1>4. /\ used[Target(h)] \in Nat /\ req[h].bytes \in Nat /\ MaxWord \in Nat
      /\ Cap[Target(h)] \in 0..MaxWord
  BY <1>1, PathFacts, WordAssumption DEF Reachable, Core, TypeOK
<1>5. used[Target(h)] + req[h].bytes > Cap[Target(h)]
  BY <1>3, <1>4 DEF Fits
<1>6. used[Target(h)] = Cardinality(UnitsOf(Granted, Target(h)))
  BY <1>1, TargetIsGranted DEF Reachable, Conservation
<1> QED
  BY <1>5, <1>6

\* Refusals are honest: no reservation is refused because of bytes another
\* attempt had charged provisionally.
THEOREM HonestRefusals == Spec => RefusalIsHonest
<1>1. Reachable /\ [Next]_vars =>
        [\A h \in Holders :
            pc[h] \in {"charge", "cas"} /\ pc'[h] = "rollback" =>
                Cardinality(UnitsOf(Granted, Target(h))) + req[h].bytes > Cap[Target(h)]]_vars
  BY HonestStep
<1> QED
  BY <1>1, ReachableInvariant, PTL DEF Spec, RefusalIsHonest

\* An attempt that is refused leaves every recorded peak as it found it.
THEOREM RefusalsLeavePeaks == Spec => RefusalLeavesPeaks
<1>1. Core /\ [Next]_vars =>
        [\A h \in Holders : lock = h /\ pc[h] # "peak" => UNCHANGED peak]_vars
  <2> SUFFICES ASSUME Core, Next, NEW h \in Holders, lock = h, pc[h] # "peak"
               PROVE  UNCHANGED peak
    BY DEF vars
  <2>1. \A g \in Holders : ~RaisePeak(g)
    BY DEF RaisePeak, Core, LockInv, InTransaction
  <2> QED
    BY <2>1 DEF Next, Step, Begin, Lock, Load, CasFailed, Observe, Charge, RollBack,
                Refused, Reserved, Drop
<1> QED
  BY <1>1, CoreInvariant, PTL DEF Spec, RefusalLeavesPeaks

-----------------------------------------------------------------------------
(***************************************************************************)
(* Refinement of ResourceBudget.                                           *)
(***************************************************************************)

\* The refinement mapping.
Mapped == {h \in Holders : pc[h] \in {"peak", "held"}}

\* The last charge of a path is an atomic grant of the abstract budget.
LEMMA LastChargeGrants ==
  ASSUME Reachable, [Next]_vars, NEW h \in Holders, Charge(h), hi[h] + 1 = Depth(h)
  PROVE  Budget!Grant(h)
<1>1. Reachable' /\ Core' /\ Core /\ TypeOK /\ req' = req
  BY CoreStep, SumsStep, RequestsFixed DEF Reachable, Core
<1>2. pc[h] = "cas" /\ pc' = [pc EXCEPT ![h] = "peak"] /\ pc \in [Holders -> States]
  BY <1>1 DEF Charge, TypeOK
<1>3. Mapped' = Mapped \cup {h} /\ h \notin Mapped
  BY <1>2 DEF Mapped
<1>4. ASSUME NEW c \in Counters, Budget!OnPath(h, c)
      PROVE  Budget!Bytes(Mapped, c) + req[h].bytes <= Cap[c]
  <2> DEFINE B == {u \in Holders \X (1..MaxWord) :
                     u[1] \in Mapped /\ Budget!OnPath(u[1], c) /\ u[2] <= req[u[1]].bytes}
             U == UnitsOf(Holders, c)'
  <2>2. ASSUME NEW g \in Mapped \cup {h}, Budget!OnPath(g, c) PROVE Charges(g, c)'
    <3>1. g \in Holders /\ pc'[g] \in {"peak", "held"}
      BY <1>2, <1>3, <2>2 DEF Mapped
    <3>2. lo'[g] = 0 /\ hi'[g] = Depth(g)'
      BY <1>1, <3>1 DEF Core, ProgressInv, Progress
    <3>3. PICK i \in 1..Depth(g) : Path[req[g].account][i] = c[2]
      BY <2>2 DEF Budget!OnPath, Depth
    <3>4. c = <<req[g].kind, c[2]>>
      BY <2>2 DEF Budget!OnPath, Counters
    <3>5. CounterOf(g, i)' = c /\ Depth(g)' = Depth(g)
      BY <1>1, <3>3, <3>4 DEF CounterOf, Depth
    <3> QED
      BY <3>2, <3>3, <3>5 DEF Charges
  <2>3. req[h].bytes \in 0..MaxWord /\ MaxWord \in Nat
    BY <1>1, PathFacts, WordAssumption DEF TypeOK
  <2>4. B \cup Share(h) \subseteq U
    BY <1>1, <1>4, <2>2, <2>3 DEF UnitsOf, Share, Mapped
  <2>5. B \cap Share(h) = {}
    BY <1>3 DEF Share
  <2>6. IsFiniteSet(U)
    <3>1. U \in SUBSET (Holders \X (1..MaxWord))
      BY DEF UnitsOf
    <3>2. IsFiniteSet(1..MaxWord)
      BY <2>3, FS_Interval
    <3>3. IsFiniteSet(Holders \X (1..MaxWord))
      BY <3>2, FS_Product, HoldersAssumption
    <3> QED
      BY <3>1, <3>3, FS_Subset
  <2>7. IsFiniteSet(B) /\ B \cup Share(h) \in SUBSET U /\ B \in SUBSET U
    BY <2>4, <2>6, FS_Subset
  <2>8. Cardinality(B \cup Share(h)) <= Cardinality(U)
    BY <2>6, <2>7, FS_Subset
  <2>9. Cardinality(B \cup Share(h)) = Cardinality(B) + req[h].bytes
    BY <2>5, <2>7, <1>1, ShareSize, DisjointSum DEF TypeOK
  <2>10. Cardinality(U) = used'[c] /\ used'[c] <= Cap[c]
    BY <1>1 DEF Reachable, Conservation, WithinLimit
  <2>11. Cardinality(B) \in Nat /\ Cardinality(U) \in Nat /\ Cap[c] \in Nat
    BY <2>6, <2>7, FS_CardinalityType, WordAssumption
  <2>12. Cardinality(B) + req[h].bytes <= Cap[c]
    BY <2>3, <2>8, <2>9, <2>10, <2>11
  <2>13. \A S : Budget!Cardinality(S) = Cardinality(S)
    BY DEF Budget!Cardinality, Cardinality, Budget!IsFiniteSet, IsFiniteSet
  <2>14. Budget!Bytes(Mapped, c) = Cardinality(B)
    BY <2>13 DEF Budget!Bytes
  <2> QED
    BY <2>12, <2>14
<1> QED
  BY <1>1, <1>3, <1>4 DEF Budget!Grant, Budget!Counters, Counters, Kinds, Mapped

\* Steps that do not change which holders count as granted stutter.
LEMMA BudgetStep ==
  ASSUME Reachable, [Next]_vars
  PROVE  [Budget!Next]_<<req, Mapped>>
<1>0. req' = req /\ pc \in [Holders -> States]
  BY RequestsFixed DEF Reachable, Core, TypeOK
<1>1. ASSUME NEW h \in Holders, Charge(h) PROVE [Budget!Next]_<<req, Mapped>>
  <2>1. CASE hi[h] + 1 = Depth(h)
    BY <1>1, <2>1, LastChargeGrants DEF Budget!Next
  <2>2. CASE hi[h] + 1 # Depth(h)
    BY <1>0, <1>1, <2>2 DEF Charge, Mapped
  <2> QED
    BY <2>1, <2>2
<1>2. ASSUME NEW h \in Holders, Drop(h) PROVE [Budget!Next]_<<req, Mapped>>
  <2>1. CASE pc[h] = "held"
    <3>1. h \in Mapped /\ Mapped' = Mapped \ {h}
      BY <1>0, <1>2, <2>1 DEF Drop, Mapped
    <3>2. Budget!Release(h)
      BY <1>0, <3>1 DEF Budget!Release, Mapped
    <3> QED
      BY <3>2 DEF Budget!Next
  <2>2. CASE pc[h] # "held"
    BY <1>0, <1>2, <2>2 DEF Drop, Mapped
  <2> QED
    BY <2>1, <2>2
<1>3. ASSUME NEW h \in Holders,
             \/ Begin(h) \/ Lock(h) \/ Load(h) \/ CasFailed(h) \/ RollBack(h)
             \/ Refused(h) \/ RaisePeak(h) \/ Reserved(h)
      PROVE  Mapped' = Mapped
  BY <1>0, <1>3 DEF Begin, Lock, Load, CasFailed, Observe, RollBack, Refused, RaisePeak,
                    Reserved, Mapped
<1>4. CASE UNCHANGED vars
  BY <1>4 DEF vars, Mapped
<1> QED
  BY <1>0, <1>1, <1>2, <1>3, <1>4 DEF Next, Step

\* The concurrent account implements the atomic budget: a reservation is
\* granted on its whole path at once, only where every counter has room.
THEOREM Refinement == Spec => ImplementsBudget
<1>1. Init => Budget!Init
  BY DEF Init, Budget!Init
<1>2. Reachable /\ [Next]_vars => [Budget!Next]_<<req, Mapped>>
  BY BudgetStep
<1> QED
  BY <1>1, <1>2, ReachableInvariant, PTL DEF Spec, ImplementsBudget, Budget!Spec, Mapped

=============================================================================
