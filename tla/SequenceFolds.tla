---------------------------- MODULE SequenceFolds ----------------------------
(***************************************************************************)
(* What a left fold over a sequence computes, for any step operator, and   *)
(* what flattening a sequence of sequences computes.  The reports of this  *)
(* development are folds (a scan folds its batches, a batch its            *)
(* violations, a merge its partitions), so their proofs instantiate this   *)
(* module with the step they fold.                                         *)
(*                                                                         *)
(* FoldLeft walks the set of a sequence's indices, taking the largest one  *)
(* off; a walk is the function from index sets to intermediate results.    *)
(***************************************************************************)
EXTENDS Integers, Sequences, SequencesExt, FiniteSetsExt, NaturalsInduction,
        WellFoundedInduction, FiniteSetTheorems, SequenceTheorems, TLAPS

CONSTANT Op(_, _)     \* the step: from a result and an element to a result

Fold(base, s) == FoldLeft(Op, base, s)

\* Induction on the natural numbers, for a set of them.
LEMMA NatSetInduction ==
  ASSUME NEW B \in SUBSET Nat, 0 \in B, \A n \in B : n + 1 \in B
  PROVE  B = Nat
<1>1. SUFFICES ASSUME Nat \ B # {} PROVE FALSE
  OBVIOUS
<1>2. PICK m \in Nat \ B : \A k \in Nat \ B : ~ (k < m)
  <2>1. PICK m \in Nat \ B : \A k \in Nat \ B : <<k, m>> \notin OpToRel(<, Nat)
    BY <1>1, NatLessThanWellFounded, WFMin
  <2>2. QED
    BY <2>1 DEF OpToRel
<1>3. m # 0 /\ m - 1 \in Nat
  OBVIOUS
<1>4. m - 1 \in B
  BY <1>2, <1>3
<1>5. QED
  BY <1>3, <1>4

-----------------------------------------------------------------------------
(* Folds *)

\* g holds the results of folding s over the subsets of 1..n.
Iterates(base, s, n, g) ==
    g = [t \in SUBSET (1..n) |->
            IF t = {} THEN base ELSE Op(g[t \ {Max(t)}], s[Max(t)])]

\* An index set with its largest index taken off.
LEMMA MaxOfInterval ==
  ASSUME NEW n \in Nat, NEW t \in SUBSET (1..n + 1), n + 1 \in t
  PROVE  Max(t) = n + 1 /\ t \ {Max(t)} \in SUBSET (1..n) /\ t # {}
<1>1. Max(t) = n + 1
  <2>1. \A y \in t : n + 1 >= y
    OBVIOUS
  <2>2. \A x \in t : (\A y \in t : x >= y) => x = n + 1
    OBVIOUS
  <2>3. QED
    BY <2>1, <2>2 DEF Max
<1>2. QED
  BY <1>1

\* Every sequence has a walk.
LEMMA WalkExists ==
  ASSUME NEW base, NEW s
  PROVE  \A n \in Nat : \E g : Iterates(base, s, n, g)
<1> DEFINE B == {n \in Nat : \E g : Iterates(base, s, n, g)}
<1>1. 0 \in B
  <2>1. Iterates(base, s, 0, [t \in SUBSET (1..0) |-> base])
    BY DEF Iterates
  <2>2. QED
    BY <2>1
<1>2. ASSUME NEW n \in B PROVE n + 1 \in B
  <2>1. PICK g : Iterates(base, s, n, g)
    OBVIOUS
  <2> DEFINE h == [t \in SUBSET (1..n + 1) |->
                     IF n + 1 \in t THEN Op(g[t \ {Max(t)}], s[Max(t)]) ELSE g[t]]
  <2>2. ASSUME NEW t \in SUBSET (1..n + 1)
        PROVE  h[t] = IF t = {} THEN base ELSE Op(h[t \ {Max(t)}], s[Max(t)])
    <3>1. CASE n + 1 \in t
      <4>1. t \ {Max(t)} \in SUBSET (1..n) /\ t # {}
        BY <3>1, MaxOfInterval
      <4>2. h[t \ {Max(t)}] = g[t \ {Max(t)}]
        BY <4>1
      <4>3. h[t] = Op(g[t \ {Max(t)}], s[Max(t)])
        BY <3>1
      <4>4. QED
        BY <4>1, <4>2, <4>3
    <3>2. CASE n + 1 \notin t
      <4>1. t \in SUBSET (1..n)
        BY <3>2
      <4>2. t # {} => h[t \ {Max(t)}] = g[t \ {Max(t)}]
        BY <4>1
      <4>3. g[t] = IF t = {} THEN base ELSE Op(g[t \ {Max(t)}], s[Max(t)])
        BY <2>1, <4>1 DEF Iterates
      <4>4. h[t] = g[t]
        BY <3>2
      <4>5. QED
        BY <4>2, <4>3, <4>4
    <3>3. QED
      BY <3>1, <3>2
  <2>3. h = [t \in SUBSET (1..n + 1) |-> IF t = {} THEN base ELSE Op(h[t \ {Max(t)}], s[Max(t)])]
    BY <2>2
  <2>4. Iterates(base, s, n + 1, h)
    BY <2>3 DEF Iterates
  <2>5. QED
    BY <2>4
<1>3. B = Nat
  <2> HIDE DEF B
  <2>1. B \in SUBSET Nat
    BY DEF B
  <2>2. QED
  BY <1>1, <1>2, <2>1, NatSetInduction
<1>4. QED
  BY <1>3

\* A fold is where a walk ends.
LEMMA FoldIsWalk ==
  ASSUME NEW base, NEW s, NEW n \in Nat, DOMAIN s = 1..n
  PROVE  \E g : Iterates(base, s, n, g) /\ Fold(base, s) = g[1..n]
<1> DEFINE w == CHOOSE g : Iterates(base, s, n, g)
<1>1. Iterates(base, s, n, w)
  BY WalkExists
<1>2. Fold(base, s) = w[1..n]
  BY DEF Fold, FoldLeft, MapThenFoldSet, Iterates
<1>3. QED
  BY <1>1, <1>2

\* One step of a walk along a sequence.
LEMMA WalkStep ==
  ASSUME NEW base, NEW s, NEW n \in Nat, NEW g, Iterates(base, s, n, g),
         NEW k \in Nat, k + 1 <= n
  PROVE  g[1..k + 1] = Op(g[1..k], s[k + 1])
<1> DEFINE T == 1..k + 1
<1>1. T \in SUBSET (1..n)
  OBVIOUS
<1>2. T \in SUBSET (1..k + 1) /\ k + 1 \in T
  OBVIOUS
<1>3. T \ {k + 1} = 1..k
  OBVIOUS
<1> HIDE DEF T
<1>4. T # {} /\ Max(T) = k + 1
  BY <1>2, MaxOfInterval
<1>5. g[T] = Op(g[T \ {Max(T)}], s[Max(T)])
  BY <1>1, <1>4 DEF Iterates
<1>6. g[T] = Op(g[1..k], s[k + 1])
  BY <1>3, <1>4, <1>5
<1>7. QED
  BY <1>6 DEF T

\* Two walks over sequences that agree on 1..n agree there.
LEMMA WalksAgree ==
  ASSUME NEW base, NEW s, NEW t, NEW m \in Nat, NEW n \in Nat, NEW g, NEW h,
         n <= m, \A i \in 1..n : s[i] = t[i],
         Iterates(base, s, n, g), Iterates(base, t, m, h)
  PROVE  g[1..n] = h[1..n]
<1> DEFINE B == {k \in Nat : k <= n => g[1..k] = h[1..k]}
<1>1. 0 \in B
  <2>1. g[1..0] = base
    BY 1..0 = {} DEF Iterates
  <2>2. h[1..0] = base
    BY 1..0 = {} DEF Iterates
  <2>3. QED
    BY <2>1, <2>2
<1>2. ASSUME NEW k \in B PROVE k + 1 \in B
  <2>1. SUFFICES ASSUME k + 1 <= n PROVE g[1..k + 1] = h[1..k + 1]
    OBVIOUS
  <2>5. k \in Nat /\ k + 1 <= m
    BY <2>1
  <2>6. g[1..k + 1] = Op(g[1..k], s[k + 1]) /\ h[1..k + 1] = Op(h[1..k], t[k + 1])
    BY <2>1, <2>5, WalkStep
  <2>7. g[1..k] = h[1..k] /\ s[k + 1] = t[k + 1]
    BY <2>1, <2>5
  <2>8. QED
    BY <2>6, <2>7
<1>3. B = Nat
  <2> HIDE DEF B
  <2>1. B \in SUBSET Nat
    BY DEF B
  <2>2. QED
    BY <1>1, <1>2, <2>1, NatSetInduction
<1>4. QED
  BY <1>3

\* A fold over nothing.
LEMMA FoldEmpty ==
  ASSUME NEW base
  PROVE  Fold(base, << >>) = base
<1>1. DOMAIN << >> = 1..0
  OBVIOUS
<1>2. PICK g : Iterates(base, << >>, 0, g) /\ Fold(base, << >>) = g[1..0]
  BY <1>1, FoldIsWalk
<1>3. QED
  BY <1>2, 1..0 = {} DEF Iterates

\* A fold over a sequence that has one more element than another one.
LEMMA FoldExtends ==
  ASSUME NEW base, NEW n \in Nat, NEW s, NEW t,
         DOMAIN s = 1..n, DOMAIN t = 1..n + 1, \A i \in 1..n : s[i] = t[i]
  PROVE  Fold(base, t) = Op(Fold(base, s), t[n + 1])
<1>1. PICK g : Iterates(base, s, n, g) /\ Fold(base, s) = g[1..n]
  BY SMTT(30), FoldIsWalk
<1>2. PICK h : Iterates(base, t, n + 1, h) /\ Fold(base, t) = h[1..n + 1]
  <2>1. n + 1 \in Nat
    OBVIOUS
  <2>2. QED
    BY ONLY SMTT(30), <2>1, DOMAIN t = 1..n + 1, FoldIsWalk
<1>3. g[1..n] = h[1..n]
  BY <1>1, <1>2, WalksAgree
<1>4. h[1..n + 1] = Op(h[1..n], t[n + 1])
  BY <1>2, WalkStep
<1>5. QED
  BY <1>1, <1>2, <1>3, <1>4

\* A fold over one more element.
LEMMA FoldAppend ==
  ASSUME NEW S, NEW base, NEW s \in Seq(S), NEW x \in S
  PROVE  Fold(base, Append(s, x)) = Op(Fold(base, s), x)
<1> DEFINE t == Append(s, x)
           n == Len(s)
<1>1. /\ n \in Nat /\ DOMAIN s = 1..n /\ DOMAIN t = 1..n + 1
      /\ \A i \in 1..n : s[i] = t[i]
      /\ t[n + 1] = x
  OBVIOUS
<1> HIDE DEF t, n
<1>2. Fold(base, t) = Op(Fold(base, s), t[n + 1])
  BY <1>1, FoldExtends
<1>3. QED
  BY <1>1, <1>2 DEF t

\* A fold over a prefix that grows by one element.
LEMMA FoldStep ==
  ASSUME NEW S, NEW base, NEW s \in Seq(S), NEW k \in Nat, k < Len(s)
  PROVE  Fold(base, SubSeq(s, 1, k + 1)) = Op(Fold(base, SubSeq(s, 1, k)), s[k + 1])
<1> DEFINE p == SubSeq(s, 1, k)
           q == SubSeq(s, 1, k + 1)
<1>1. /\ DOMAIN p = 1..k /\ DOMAIN q = 1..k + 1
      /\ \A i \in 1..k : p[i] = q[i]
      /\ q[k + 1] = s[k + 1]
  OBVIOUS
<1> HIDE DEF p, q
<1>2. Fold(base, q) = Op(Fold(base, p), q[k + 1])
  BY <1>1, FoldExtends
<1>3. QED
  BY <1>1, <1>2 DEF p, q

\* Nothing is folded before the first element, everything after the last.
LEMMA FoldEnds ==
  ASSUME NEW S, NEW base, NEW s \in Seq(S)
  PROVE  /\ Fold(base, SubSeq(s, 1, 0)) = base
         /\ Fold(base, SubSeq(s, 1, Len(s))) = Fold(base, s)
<1>1. SubSeq(s, 1, 0) = << >>
  OBVIOUS
<1>2. SubSeq(s, 1, Len(s)) = s
  OBVIOUS
<1>3. QED
  BY <1>1, <1>2, FoldEmpty

\* What the base satisfies and every step keeps, the fold satisfies.
LEMMA FoldKeeps ==
  ASSUME NEW S, NEW R, NEW base \in R, NEW s \in Seq(S),
         \A r \in R, x \in S : Op(r, x) \in R
  PROVE  Fold(base, s) \in R
<1> DEFINE B == {k \in Nat : k <= Len(s) => Fold(base, SubSeq(s, 1, k)) \in R}
<1>1. 0 \in B
  BY FoldEnds
<1>2. ASSUME NEW k \in B PROVE k + 1 \in B
  <2>1. SUFFICES ASSUME k + 1 <= Len(s) PROVE Fold(base, SubSeq(s, 1, k + 1)) \in R
    OBVIOUS
  <2>2. k \in Nat /\ k < Len(s) /\ s[k + 1] \in S
    BY <2>1
  <2>3. Fold(base, SubSeq(s, 1, k)) \in R
    BY <2>2
  <2>4. QED
    BY <2>2, <2>3, FoldStep
<1>3. B = Nat
  <2> HIDE DEF B
  <2>1. B \in SUBSET Nat
    BY DEF B
  <2>2. QED
    BY <1>1, <1>2, <2>1, NatSetInduction
<1>4. Len(s) \in B
  BY <1>3
<1>5. QED
  BY <1>4, FoldEnds

\* Two folds over the same sequence stay related when every step keeps them so.
LEMMA FoldsAgree ==
  ASSUME NEW S, NEW R, NEW a, NEW b, NEW s \in Seq(S), <<a, b>> \in R,
         \A x \in S : \A u, v : <<u, v>> \in R => <<Op(u, x), Op(v, x)>> \in R
  PROVE  <<Fold(a, s), Fold(b, s)>> \in R
<1> DEFINE B == {k \in Nat : k <= Len(s) =>
                   <<Fold(a, SubSeq(s, 1, k)), Fold(b, SubSeq(s, 1, k))>> \in R}
<1>1. 0 \in B
  BY FoldEnds
<1>2. ASSUME NEW k \in B PROVE k + 1 \in B
  <2>1. SUFFICES ASSUME k + 1 <= Len(s)
                 PROVE  <<Fold(a, SubSeq(s, 1, k + 1)), Fold(b, SubSeq(s, 1, k + 1))>> \in R
    OBVIOUS
  <2>2. k \in Nat /\ k < Len(s) /\ s[k + 1] \in S
    BY <2>1
  <2>3. <<Fold(a, SubSeq(s, 1, k)), Fold(b, SubSeq(s, 1, k))>> \in R
    BY <2>2
  <2>4. /\ Fold(a, SubSeq(s, 1, k + 1)) = Op(Fold(a, SubSeq(s, 1, k)), s[k + 1])
        /\ Fold(b, SubSeq(s, 1, k + 1)) = Op(Fold(b, SubSeq(s, 1, k)), s[k + 1])
    BY <2>2, FoldStep
  <2>5. QED
    BY <2>2, <2>3, <2>4
<1>3. B = Nat
  <2> HIDE DEF B
  <2>1. B \in SUBSET Nat
    BY DEF B
  <2>2. QED
    BY <1>1, <1>2, <2>1, NatSetInduction
<1>4. Len(s) \in B
  <2> HIDE DEF B
  <2>1. QED
    BY <1>3
<1>5. <<Fold(a, SubSeq(s, 1, Len(s))), Fold(b, SubSeq(s, 1, Len(s)))>> \in R
  BY <1>4
<1>6. Fold(a, SubSeq(s, 1, Len(s))) = Fold(a, s) /\ Fold(b, SubSeq(s, 1, Len(s))) = Fold(b, s)
  BY FoldEnds
<1>7. QED
  BY <1>5, <1>6

\* A fold goes through two sequences one after the other.
LEMMA FoldConcat ==
  ASSUME NEW S, NEW base, NEW s \in Seq(S), NEW t \in Seq(S)
  PROVE  Fold(base, s \o t) = Fold(Fold(base, s), t)
<1> DEFINE p(k) == SubSeq(t, 1, k)
           B == {k \in Nat : k <= Len(t) => Fold(base, s \o p(k)) = Fold(Fold(base, s), p(k))}
<1>1. 0 \in B
  <2>1. p(0) = << >> /\ s \o p(0) = s
    OBVIOUS
  <2>2. Fold(Fold(base, s), p(0)) = Fold(base, s)
    BY FoldEnds
  <2>3. QED
    BY <2>1, <2>2
<1>2. ASSUME NEW k \in B PROVE k + 1 \in B
  <2>1. SUFFICES ASSUME k + 1 <= Len(t)
                 PROVE  Fold(base, s \o p(k + 1)) = Fold(Fold(base, s), p(k + 1))
    OBVIOUS
  <2>2. k \in Nat /\ k < Len(t) /\ t[k + 1] \in S
    BY <2>1
  <2>3. p(k) \in Seq(S) /\ s \o p(k) \in Seq(S)
    BY <2>2
  <2>4. p(k + 1) = Append(p(k), t[k + 1])
    BY <2>2
  <2>5. s \o p(k + 1) = Append(s \o p(k), t[k + 1])
    BY <2>2, <2>3, <2>4
  <2>6. Fold(base, Append(s \o p(k), t[k + 1])) = Op(Fold(base, s \o p(k)), t[k + 1])
    <3> DEFINE a == s \o p(k)
               x == t[k + 1]
    <3>1. a \in Seq(S) /\ x \in S
      BY <2>2, <2>3
    <3> HIDE DEF a, x
    <3>2. Fold(base, Append(a, x)) = Op(Fold(base, a), x)
      BY <3>1, FoldAppend
    <3>3. QED
      BY <3>2 DEF a, x
  <2>7. Fold(Fold(base, s), p(k + 1)) = Op(Fold(Fold(base, s), p(k)), t[k + 1])
    BY <2>2, FoldStep
  <2>8. Fold(base, s \o p(k)) = Fold(Fold(base, s), p(k))
    BY <2>2
  <2>9. QED
    <3> HIDE DEF p
    <3>1. QED
      BY <2>5, <2>6, <2>7, <2>8
<1>3. B = Nat
  <2> HIDE DEF B
  <2>1. B \in SUBSET Nat
    BY DEF B
  <2>2. QED
    BY <1>1, <1>2, <2>1, NatSetInduction
<1>4. Len(t) \in Nat /\ p(Len(t)) = t
  OBVIOUS
<1>5. Fold(base, s \o p(Len(t))) = Fold(Fold(base, s), p(Len(t)))
  <2> HIDE DEF p
  <2>1. QED
    BY <1>3, <1>4
<1>6. QED
  BY <1>4, <1>5

-----------------------------------------------------------------------------
(* Flattening a sequence of sequences *)

\* f holds the concatenations of the first 1, 2, ..., n sequences of ss.
Partials(ss, n, f) ==
    f = [i \in 1..n |-> IF i = 1 THEN ss[i] ELSE f[i - 1] \o ss[i]]

\* Every sequence of sequences has its prefixes.
LEMMA PartialsExist ==
  ASSUME NEW ss
  PROVE  \A n \in Nat : \E f : Partials(ss, n, f)
<1> DEFINE B == {n \in Nat : \E f : Partials(ss, n, f)}
<1>1. 0 \in B
  <2>1. Partials(ss, 0, [i \in 1..0 |-> ss])
    BY DEF Partials
  <2>2. QED
    BY <2>1
<1>2. ASSUME NEW n \in B PROVE n + 1 \in B
  <2>1. PICK f : Partials(ss, n, f)
    OBVIOUS
  <2> DEFINE h == [i \in 1..n + 1 |->
                     IF i = n + 1 THEN IF n = 0 THEN ss[1] ELSE f[n] \o ss[n + 1] ELSE f[i]]
  <2>2. n \in Nat
    OBVIOUS
  <2>3. ASSUME NEW i \in 1..n + 1
        PROVE  h[i] = IF i = 1 THEN ss[i] ELSE h[i - 1] \o ss[i]
    <3>1. CASE i = n + 1
      BY <2>2, <3>1
    <3>2. CASE i # n + 1
      <4>1. i \in 1..n /\ (i # 1 => i - 1 \in 1..n /\ i - 1 # n + 1 /\ i - 1 \in 1..n + 1)
        BY <2>2, <3>2
      <4>2. f[i] = IF i = 1 THEN ss[i] ELSE f[i - 1] \o ss[i]
        BY <2>1, <4>1 DEF Partials
      <4>3. h[i] = f[i] /\ (i # 1 => h[i - 1] = f[i - 1])
        BY <3>2, <4>1
      <4>4. QED
        BY <4>2, <4>3
    <3>3. QED
      BY <3>1, <3>2
  <2>4. h = [i \in 1..n + 1 |-> IF i = 1 THEN ss[i] ELSE h[i - 1] \o ss[i]]
    BY <2>3
  <2>5. Partials(ss, n + 1, h)
    BY <2>4 DEF Partials
  <2>6. QED
    BY <2>2, <2>5
<1>3. B = Nat
  <2> HIDE DEF B
  <2>1. B \in SUBSET Nat
    BY DEF B
  <2>2. QED
    BY <1>1, <1>2, <2>1, NatSetInduction
<1>4. QED
  BY <1>3

\* FlattenSeq is the last prefix.
LEMMA FlattenIsPartial ==
  ASSUME NEW S, NEW ss \in Seq(S), Len(ss) # 0
  PROVE  \E f : Partials(ss, Len(ss), f) /\ FlattenSeq(ss) = f[Len(ss)]
<1> DEFINE w == CHOOSE f : Partials(ss, Len(ss), f)
<1>1. Partials(ss, Len(ss), w)
  BY SMTT(30), PartialsExist
<1>2. FlattenSeq(ss) = w[Len(ss)]
  BY DEF FlattenSeq, Partials
<1>3. QED
  BY <1>1, <1>2

\* Two sequences that agree on 1..n have the same prefixes there.
LEMMA PartialsAgree ==
  ASSUME NEW ss, NEW tt, NEW n \in Nat, NEW m \in Nat, NEW f, NEW h,
         n <= m, n # 0, \A i \in 1..n : ss[i] = tt[i],
         Partials(ss, n, f), Partials(tt, m, h)
  PROVE  f[n] = h[n]
<1> DEFINE B == {k \in Nat : k + 1 <= n => f[k + 1] = h[k + 1]}
<1>1. 0 \in B
  BY DEF Partials
<1>2. ASSUME NEW k \in B PROVE k + 1 \in B
  <2>1. SUFFICES ASSUME k + 2 <= n PROVE f[k + 2] = h[k + 2]
    OBVIOUS
  <2>2. k + 2 \in 1..n /\ k + 2 \in 1..m /\ k + 2 # 1 /\ (k + 2) - 1 = k + 1
    BY <2>1
  <2> DEFINE j == k + 2
  <2>3. f[j] = f[j - 1] \o ss[j] /\ h[j] = h[j - 1] \o tt[j]
    <3> HIDE DEF j
    <3>1. QED
      BY <2>2 DEF Partials, j
  <2>4. f[k + 1] = h[k + 1] /\ ss[k + 2] = tt[k + 2]
    BY <2>1, <2>2
  <2>5. QED
    BY <2>2, <2>3, <2>4
<1>3. B = Nat
  <2> HIDE DEF B
  <2>1. B \in SUBSET Nat
    BY DEF B
  <2>2. QED
    BY <1>1, <1>2, <2>1, NatSetInduction
<1>4. n - 1 \in Nat /\ (n - 1) + 1 = n
  OBVIOUS
<1>5. n - 1 \in B
  BY <1>3, <1>4
<1>6. QED
  BY <1>4, <1>5

\* Flattening one more sequence.
LEMMA FlattenAppend ==
  ASSUME NEW S, NEW ss \in Seq(Seq(S)), NEW s \in Seq(S)
  PROVE  FlattenSeq(Append(ss, s)) = FlattenSeq(ss) \o s
<1> DEFINE tt == Append(ss, s)
           n == Len(ss)
<1>1. /\ tt \in Seq(Seq(S)) /\ Len(tt) = n + 1 /\ n \in Nat
      /\ \A i \in 1..n : ss[i] = tt[i]
      /\ tt[n + 1] = s
  OBVIOUS
<1>2. Len(ss) = n
  OBVIOUS
<1> HIDE DEF tt, n
<1>3. PICK h : Partials(tt, n + 1, h) /\ FlattenSeq(tt) = h[n + 1]
  <2>1. tt \in Seq(Seq(S)) /\ Len(tt) # 0
    BY <1>1
  <2>2. \E h : Partials(tt, Len(tt), h) /\ FlattenSeq(tt) = h[Len(tt)]
    BY ONLY <2>1, FlattenIsPartial
  <2>3. QED
    BY <1>1, <2>2
<1>4. CASE n = 0
  <2>1. h[1] = s
    BY <1>1, <1>3, <1>4 DEF Partials
  <2>2. FlattenSeq(ss) = << >>
    BY <1>2, <1>4 DEF FlattenSeq
  <2>3. << >> \o s = s
    OBVIOUS
  <2>4. QED
    BY <1>3, <1>4, <2>1, <2>2, <2>3 DEF tt
<1>5. CASE n # 0
  <2>1. PICK f : Partials(ss, n, f) /\ FlattenSeq(ss) = f[n]
    BY <1>2, <1>5, FlattenIsPartial
  <2>2. f[n] = h[n]
    BY <1>1, <1>3, <1>5, <2>1, PartialsAgree
  <2>3. h[n + 1] = h[n] \o tt[n + 1]
    <3>1. n + 1 \in 1..n + 1 /\ n + 1 # 1 /\ (n + 1) - 1 = n
      BY <1>1, <1>5
    <3>2. QED
      BY <1>3, <3>1 DEF Partials
  <2>4. QED
    BY <1>1, <1>3, <2>1, <2>2, <2>3 DEF tt
<1>6. QED
  BY <1>4, <1>5

\* Flattening no sequence.
LEMMA FlattenEmpty == FlattenSeq(<< >>) = << >>
BY DEF FlattenSeq

\* A flattened sequence holds what its sequences hold.
LEMMA FlattenType ==
  ASSUME NEW S, NEW ss \in Seq(Seq(S))
  PROVE  FlattenSeq(ss) \in Seq(S)
<1> DEFINE p(k) == SubSeq(ss, 1, k)
           B == {k \in Nat : k <= Len(ss) => FlattenSeq(p(k)) \in Seq(S)}
<1>1. 0 \in B
  <2>1. p(0) = << >> /\ << >> \in Seq(S)
    OBVIOUS
  <2>2. FlattenSeq(p(0)) \in Seq(S)
    <3> HIDE DEF p
    <3>1. QED
      BY <2>1, FlattenEmpty
  <2>3. QED
    <3> HIDE DEF p
    <3>1. QED
      BY <2>2
<1>2. ASSUME NEW k \in B PROVE k + 1 \in B
  <2>1. SUFFICES ASSUME k + 1 <= Len(ss) PROVE FlattenSeq(p(k + 1)) \in Seq(S)
    OBVIOUS
  <2>2. k \in Nat /\ k < Len(ss) /\ ss[k + 1] \in Seq(S)
    BY <2>1
  <2>3. p(k) \in Seq(Seq(S)) /\ p(k + 1) = Append(p(k), ss[k + 1])
    BY <2>2
  <2>4. FlattenSeq(p(k + 1)) = FlattenSeq(p(k)) \o ss[k + 1]
    BY <2>2, <2>3, FlattenAppend
  <2>5. FlattenSeq(p(k)) \in Seq(S)
    BY <2>2
  <2>6. QED
    <3> DEFINE a == FlattenSeq(p(k))
               b == ss[k + 1]
    <3>1. a \in Seq(S) /\ b \in Seq(S) /\ FlattenSeq(p(k + 1)) = a \o b
      BY <2>2, <2>4, <2>5
    <3> HIDE DEF a, b
    <3>2. a \o b \in Seq(S)
      BY <3>1, ConcatProperties
    <3> HIDE DEF p
    <3>3. QED
      BY <3>1, <3>2
<1>3. B = Nat
  <2> HIDE DEF B
  <2>1. B \in SUBSET Nat
    BY DEF B
  <2>2. QED
    BY <1>1, <1>2, <2>1, NatSetInduction
<1>4. Len(ss) \in Nat /\ p(Len(ss)) = ss
  OBVIOUS
<1>5. FlattenSeq(p(Len(ss))) \in Seq(S)
  <2> HIDE DEF p
  <2>1. QED
    BY <1>3, <1>4
<1>6. QED
  BY <1>4, <1>5

\* What the first sequences flatten to, one more at a time.
LEMMA FlattenStep ==
  ASSUME NEW S, NEW ss \in Seq(Seq(S)), NEW k \in Nat, k < Len(ss)
  PROVE  /\ FlattenSeq(SubSeq(ss, 1, k)) \in Seq(S)
         /\ ss[k + 1] \in Seq(S)
         /\ FlattenSeq(SubSeq(ss, 1, k + 1)) = FlattenSeq(SubSeq(ss, 1, k)) \o ss[k + 1]
<1>1. ss[k + 1] \in Seq(S)
  OBVIOUS
<1>2. SubSeq(ss, 1, k) \in Seq(Seq(S)) /\ SubSeq(ss, 1, k + 1) = Append(SubSeq(ss, 1, k), ss[k + 1])
  OBVIOUS
<1>3. QED
  BY <1>1, <1>2, FlattenAppend, FlattenType

\* None of the sequences, and all of them.
LEMMA FlattenEnds ==
  ASSUME NEW S, NEW ss \in Seq(Seq(S))
  PROVE  /\ FlattenSeq(SubSeq(ss, 1, 0)) = << >>
         /\ FlattenSeq(SubSeq(ss, 1, Len(ss))) = FlattenSeq(ss)
<1>1. SubSeq(ss, 1, 0) = << >> /\ SubSeq(ss, 1, Len(ss)) = ss
  OBVIOUS
<1>2. QED
  BY <1>1, FlattenEmpty

\* What the first sequences flatten to is where the whole begins.
LEMMA FlattenPrefix ==
  ASSUME NEW S, NEW ss \in Seq(Seq(S)), NEW k \in 0..Len(ss)
  PROVE  /\ FlattenSeq(SubSeq(ss, 1, k)) \in Seq(S)
         /\ Len(FlattenSeq(SubSeq(ss, 1, k))) <= Len(FlattenSeq(ss))
         /\ \A r \in 1..Len(FlattenSeq(SubSeq(ss, 1, k))) :
              FlattenSeq(ss)[r] = FlattenSeq(SubSeq(ss, 1, k))[r]
<1> DEFINE F(m) == FlattenSeq(SubSeq(ss, 1, m))
           P(m) == /\ F(m) \in Seq(S) /\ Len(F(k)) <= Len(F(m))
                   /\ \A r \in 1..Len(F(k)) : F(m)[r] = F(k)[r]
           B == {m \in Nat : k + m <= Len(ss) => P(k + m)}
<1>1. \A m \in 0..Len(ss) : F(m) \in Seq(S)
  <2>1. ASSUME NEW m \in 0..Len(ss) PROVE F(m) \in Seq(S)
    <3>1. SubSeq(ss, 1, m) \in Seq(Seq(S))
      OBVIOUS
    <3>2. QED
      BY <3>1, FlattenType
  <2>2. QED
    BY <2>1
<1>2. 0 \in B
  <2>1. F(k) \in Seq(S) /\ k + 0 = k
    BY <1>1
  <2> HIDE DEF F
  <2>2. QED
    BY <2>1
<1>3. ASSUME NEW n \in B PROVE n + 1 \in B
  <2>1. SUFFICES ASSUME k + (n + 1) <= Len(ss) PROVE P(k + (n + 1))
    OBVIOUS
  <2> DEFINE m == k + n
  <2>2. m \in Nat /\ m < Len(ss) /\ m \in 0..Len(ss) /\ k + (n + 1) = m + 1
    BY <2>1
  <2>3. P(m)
    BY <2>2
  <2>4. ss[m + 1] \in Seq(S) /\ F(m + 1) = F(m) \o ss[m + 1]
    <3> HIDE DEF m
    <3>1. QED
      BY <2>2, FlattenStep
  <2> DEFINE a == F(m)
             b == ss[m + 1]
             c == F(k)
             d == F(m + 1)
  <2>5. a \in Seq(S) /\ b \in Seq(S) /\ d = a \o b /\ c \in Seq(S) /\ Len(c) <= Len(a)
        /\ \A r \in 1..Len(c) : a[r] = c[r]
    BY <1>1, <2>3, <2>4
  <2> HIDE DEF a, b, c, d
  <2>6. d \in Seq(S) /\ Len(d) = Len(a) + Len(b) /\ \A r \in 1..Len(a) : d[r] = a[r]
    BY <2>5, ConcatProperties
  <2>7. Len(c) <= Len(d) /\ \A r \in 1..Len(c) : d[r] = c[r]
    BY <2>5, <2>6
  <2>8. P(m + 1)
    BY <2>6, <2>7 DEF c, d
  <2> HIDE DEF m, P
  <2>9. QED
    BY <2>2, <2>8
<1>4. B = Nat
  <2> HIDE DEF B
  <2>1. B \in SUBSET Nat
    BY DEF B
  <2>2. QED
    BY <1>2, <1>3, <2>1, NatSetInduction
<1> DEFINE rest == Len(ss) - k
<1>5. rest \in Nat /\ k + rest = Len(ss) /\ k + rest <= Len(ss)
  OBVIOUS
<1>6. P(Len(ss))
  <2> HIDE DEF P, rest
  <2>1. rest \in B
    BY <1>4, <1>5
  <2>2. P(k + rest)
    BY <1>5, <2>1
  <2>3. QED
    BY <1>5, <2>2
<1>7. F(Len(ss)) = FlattenSeq(ss)
  BY FlattenEnds
<1>8. F(k) \in Seq(S) /\ Len(F(k)) <= Len(F(Len(ss))) /\ \A r \in 1..Len(F(k)) : F(Len(ss))[r] = F(k)[r]
  <2> HIDE DEF F
  <2>1. F(k) \in Seq(S)
    BY <1>1
  <2>2. QED
    BY <1>6, <2>1
<1>9. QED
  BY <1>7, <1>8

\* Where each sequence has one element or none, those with one are counted.
LEMMA FlattenSingles ==
  ASSUME NEW S, NEW ss \in Seq(Seq(S)), NEW K \in SUBSET (1..Len(ss)),
         \A i \in 1..Len(ss) : Len(ss[i]) = IF i \in K THEN 1 ELSE 0
  PROVE  IsFiniteSet(K) /\ Len(FlattenSeq(ss)) = Cardinality(K)
<1> DEFINE F(m) == FlattenSeq(SubSeq(ss, 1, m))
           Q(m) == K \cap (1..m)
           B == {m \in Nat : m <= Len(ss) => IsFiniteSet(Q(m)) /\ Len(F(m)) = Cardinality(Q(m))}
<1>1. 0 \in B
  <2>1. Q(0) = {} /\ F(0) = << >>
    BY FlattenEnds
  <2> HIDE DEF Q, F
  <2>2. QED
    BY <2>1, FS_EmptySet
<1>2. ASSUME NEW m \in B PROVE m + 1 \in B
  <2>1. SUFFICES ASSUME m + 1 <= Len(ss)
                 PROVE  IsFiniteSet(Q(m + 1)) /\ Len(F(m + 1)) = Cardinality(Q(m + 1))
    OBVIOUS
  <2>2. m \in Nat /\ m < Len(ss) /\ IsFiniteSet(Q(m)) /\ Len(F(m)) = Cardinality(Q(m))
    BY <2>1
  <2>3. F(m) \in Seq(S) /\ ss[m + 1] \in Seq(S) /\ F(m + 1) = F(m) \o ss[m + 1]
    BY <2>2, FlattenStep
  <2>4. Len(F(m + 1)) = Len(F(m)) + Len(ss[m + 1])
    <3> DEFINE a == F(m)
               b == ss[m + 1]
    <3>1. a \in Seq(S) /\ b \in Seq(S) /\ F(m + 1) = a \o b
      BY <2>3
    <3> HIDE DEF a, b, F
    <3>2. Len(a \o b) = Len(a) + Len(b)
      BY <3>1, ConcatProperties
    <3>3. QED
      BY <3>1, <3>2 DEF a, b
  <2>5. m + 1 \in 1..Len(ss)
    BY <2>2
  <2>6. CASE m + 1 \in K
    <3>1. Q(m + 1) = Q(m) \cup {m + 1} /\ m + 1 \notin Q(m)
      BY <2>2, <2>6
    <3>2. Len(ss[m + 1]) = 1
      BY <2>5, <2>6
    <3> HIDE DEF Q, F
    <3>3. IsFiniteSet(Q(m + 1)) /\ Cardinality(Q(m + 1)) = Cardinality(Q(m)) + 1
      BY <2>2, <3>1, FS_AddElement
    <3>4. QED
      BY <2>2, <2>4, <3>2, <3>3
  <2>7. CASE m + 1 \notin K
    <3>1. Q(m + 1) = Q(m)
      BY <2>2, <2>7
    <3>2. Len(ss[m + 1]) = 0
      BY <2>5, <2>7
    <3>3. Len(F(m)) \in Nat
      BY <2>3, LenProperties
    <3> HIDE DEF Q, F
    <3>4. QED
      BY <2>2, <2>4, <3>1, <3>2, <3>3
  <2>8. QED
    BY <2>6, <2>7
<1>3. B = Nat
  <2> HIDE DEF B
  <2>1. B \in SUBSET Nat
    BY DEF B
  <2>2. QED
    BY <1>1, <1>2, <2>1, NatSetInduction
<1>4. Len(ss) \in Nat
  OBVIOUS
<1>5. Q(Len(ss)) = K
  OBVIOUS
<1>6. IsFiniteSet(Q(Len(ss))) /\ Len(F(Len(ss))) = Cardinality(Q(Len(ss)))
  <2> HIDE DEF Q, F
  <2>1. QED
    BY <1>3, <1>4
<1>7. QED
  BY <1>5, <1>6, FlattenEnds

\* What a numbered family of sets holds, each element with the number of its set.
Numbered(K, m) == UNION {{<<i, x>> : x \in K[i]} : i \in 1..m}

\* Where each sequence is as long as its set is large, all elements are counted.
LEMMA FlattenCounts ==
  ASSUME NEW S, NEW ss \in Seq(Seq(S)), NEW K,
         \A i \in 1..Len(ss) : IsFiniteSet(K[i]) /\ Len(ss[i]) = Cardinality(K[i])
  PROVE  /\ IsFiniteSet(Numbered(K, Len(ss)))
         /\ Len(FlattenSeq(ss)) = Cardinality(Numbered(K, Len(ss)))
<1> DEFINE F(m) == FlattenSeq(SubSeq(ss, 1, m))
           B == {m \in Nat : m <= Len(ss) =>
                  /\ IsFiniteSet(Numbered(K, m)) /\ Len(F(m)) = Cardinality(Numbered(K, m))}
<1>1. 0 \in B
  <2>1. Numbered(K, 0) = {} /\ F(0) = << >>
    BY FlattenEnds DEF Numbered
  <2> HIDE DEF F
  <2>2. QED
    BY <2>1, FS_EmptySet
<1>2. ASSUME NEW m \in B PROVE m + 1 \in B
  <2>1. SUFFICES ASSUME m + 1 <= Len(ss)
                 PROVE  /\ IsFiniteSet(Numbered(K, m + 1))
                        /\ Len(F(m + 1)) = Cardinality(Numbered(K, m + 1))
    OBVIOUS
  <2>2. m \in Nat /\ m < Len(ss) /\ IsFiniteSet(Numbered(K, m)) /\ Len(F(m)) = Cardinality(Numbered(K, m))
    BY <2>1
  <2>3. F(m) \in Seq(S) /\ ss[m + 1] \in Seq(S) /\ F(m + 1) = F(m) \o ss[m + 1]
    BY <2>2, FlattenStep
  <2>4. Len(F(m + 1)) = Len(F(m)) + Len(ss[m + 1])
    <3> DEFINE a == F(m)
               b == ss[m + 1]
    <3>1. a \in Seq(S) /\ b \in Seq(S) /\ F(m + 1) = a \o b
      BY <2>3
    <3> HIDE DEF a, b, F
    <3>2. Len(a \o b) = Len(a) + Len(b)
      BY <3>1, ConcatProperties
    <3>3. QED
      BY <3>1, <3>2 DEF a, b
  <2> DEFINE new == {m + 1} \X K[m + 1]
             old == Numbered(K, m)
  <2>5. m + 1 \in 1..Len(ss) /\ IsFiniteSet(K[m + 1]) /\ Len(ss[m + 1]) = Cardinality(K[m + 1])
    BY <2>2
  <2>6. Numbered(K, m + 1) = old \cup new /\ old \cap new = {}
    <3>1. 1..m + 1 = (1..m) \cup {m + 1} /\ m + 1 \notin 1..m
      BY <2>2
    <3>2. new = {<<m + 1, x>> : x \in K[m + 1]}
      OBVIOUS
    <3>3. \A p \in old : p[1] \in 1..m
      BY DEF Numbered
    <3>4. \A p \in new : p[1] = m + 1
      OBVIOUS
    <3> HIDE DEF new
    <3>5. Numbered(K, m + 1) = old \cup new
      BY <3>1, <3>2 DEF Numbered
    <3> HIDE DEF old
    <3>6. QED
      BY <3>1, <3>3, <3>4, <3>5
  <2>7. IsFiniteSet(new) /\ Cardinality(new) = Cardinality(K[m + 1])
    <3> DEFINE I == {m + 1}
               J == K[m + 1]
               n == Cardinality(J)
    <3>1. IsFiniteSet(I) /\ IsFiniteSet(J) /\ Cardinality(I) = 1 /\ n \in Nat
      BY <2>5, FS_Singleton, FS_CardinalityType
    <3> HIDE DEF I, J
    <3>2. IsFiniteSet(I \X J) /\ Cardinality(I \X J) = Cardinality(I) * Cardinality(J)
      BY <3>1, FS_Product
    <3>3. Cardinality(I) * Cardinality(J) = n
      <4> HIDE DEF n
      <4>1. Cardinality(I) * n = n
        BY <3>1
      <4>2. QED
        BY <4>1 DEF n
    <3>4. QED
      BY <3>2, <3>3 DEF I, J
  <2> HIDE DEF old, new
  <2>8. IsFiniteSet(old) /\ Cardinality(old) \in Nat /\ Cardinality(new) \in Nat
        /\ Len(F(m)) = Cardinality(old)
    BY <2>2, <2>7, FS_CardinalityType DEF old
  <2>9. /\ IsFiniteSet(old \cup new)
        /\ Cardinality(old \cup new) = Cardinality(old) + Cardinality(new)
    <3>1. Cardinality(old \cap new) = 0
      BY <2>6, FS_EmptySet
    <3>2. /\ IsFiniteSet(old \cup new)
          /\ Cardinality(old \cup new) = Cardinality(old) + Cardinality(new) - Cardinality(old \cap new)
      BY <2>7, <2>8, FS_Union
    <3>3. QED
      BY <2>8, <3>1, <3>2
  <2>10. QED
    <3> HIDE DEF F
    <3>1. QED
      BY <2>4, <2>5, <2>6, <2>7, <2>8, <2>9
<1>3. B = Nat
  <2> HIDE DEF B
  <2>1. B \in SUBSET Nat
    BY DEF B
  <2>2. QED
    BY <1>1, <1>2, <2>1, NatSetInduction
<1>4. Len(ss) \in Nat
  OBVIOUS
<1>5. IsFiniteSet(Numbered(K, Len(ss))) /\ Len(F(Len(ss))) = Cardinality(Numbered(K, Len(ss)))
  <2> HIDE DEF F
  <2>1. QED
    BY <1>3, <1>4
<1>6. QED
  BY <1>5, FlattenEnds

\* Flattening two sequences of sequences one after the other.
LEMMA FlattenConcat ==
  ASSUME NEW S, NEW ss \in Seq(Seq(S)), NEW tt \in Seq(Seq(S))
  PROVE  FlattenSeq(ss \o tt) = FlattenSeq(ss) \o FlattenSeq(tt)
<1> DEFINE p(k) == SubSeq(tt, 1, k)
           B == {k \in Nat : k <= Len(tt) =>
                  FlattenSeq(ss \o p(k)) = FlattenSeq(ss) \o FlattenSeq(p(k))}
<1>1. 0 \in B
  <2>1. p(0) = << >> /\ ss \o p(0) = ss
    OBVIOUS
  <2>2. FlattenSeq(ss) \in Seq(S)
    BY FlattenType
  <2>3. FlattenSeq(ss) \o << >> = FlattenSeq(ss)
    BY <2>2
  <2> HIDE DEF p
  <2>4. FlattenSeq(ss \o p(0)) = FlattenSeq(ss) \o FlattenSeq(p(0))
    BY <2>1, <2>3, FlattenEmpty
  <2>5. QED
    BY <2>4
<1>2. ASSUME NEW k \in B PROVE k + 1 \in B
  <2>1. SUFFICES ASSUME k + 1 <= Len(tt)
                 PROVE  FlattenSeq(ss \o p(k + 1)) = FlattenSeq(ss) \o FlattenSeq(p(k + 1))
    OBVIOUS
  <2> DEFINE a == p(k)
             x == tt[k + 1]
             f == FlattenSeq(ss)
             g == FlattenSeq(p(k))
  <2>2. k \in Nat /\ k < Len(tt) /\ a \in Seq(Seq(S)) /\ x \in Seq(S)
    BY <2>1
  <2>3. p(k + 1) = Append(a, x)
    BY <2>2
  <2>4. FlattenSeq(ss \o a) = f \o g
    BY <2>2
  <2>5. f \in Seq(S) /\ g \in Seq(S)
    BY <2>2, FlattenType
  <2>6. g = FlattenSeq(a)
    OBVIOUS
  <2> HIDE DEF a, x, f, g, p
  <2>7. ss \o Append(a, x) = Append(ss \o a, x) /\ ss \o a \in Seq(Seq(S))
    BY SMTT(30), <2>2
  <2>8. FlattenSeq(Append(ss \o a, x)) = FlattenSeq(ss \o a) \o x
    BY <2>2, <2>7, FlattenAppend
  <2>9. FlattenSeq(Append(a, x)) = g \o x
    BY <2>2, <2>6, FlattenAppend
  <2>10. (f \o g) \o x = f \o (g \o x)
    BY SMTT(30), <2>2, <2>5
  <2>11. QED
    BY <2>3, <2>4, <2>7, <2>8, <2>9, <2>10 DEF f
<1>3. B = Nat
  <2> HIDE DEF B
  <2>1. B \in SUBSET Nat
    BY DEF B
  <2>2. QED
    BY <1>1, <1>2, <2>1, NatSetInduction
<1>4. Len(tt) \in Nat /\ p(Len(tt)) = tt
  OBVIOUS
<1>5. FlattenSeq(ss \o p(Len(tt))) = FlattenSeq(ss) \o FlattenSeq(p(Len(tt)))
  <2> DEFINE n == Len(tt)
  <2>1. n \in B /\ n <= Len(tt)
    BY <1>3, <1>4
  <2> HIDE DEF p, n
  <2>2. FlattenSeq(ss \o p(n)) = FlattenSeq(ss) \o FlattenSeq(p(n))
    BY <2>1
  <2>3. QED
    BY <2>2 DEF n
<1>6. QED
  BY <1>4, <1>5

\* What each sequence flattens to, flattened, is what their flattening flattens to.
LEMMA FlattenTwice ==
  ASSUME NEW S, NEW ss \in Seq(Seq(Seq(S))),
         NEW tt \in Seq(Seq(S)), Len(tt) = Len(ss),
         \A i \in 1..Len(ss) : tt[i] = FlattenSeq(ss[i])
  PROVE  FlattenSeq(tt) = FlattenSeq(FlattenSeq(ss))
<1> DEFINE G(m) == FlattenSeq(SubSeq(tt, 1, m))
           F(m) == FlattenSeq(SubSeq(ss, 1, m))
           B == {m \in Nat : m <= Len(ss) => G(m) = FlattenSeq(F(m))}
<1>1. 0 \in B
  <2>1. G(0) = << >> /\ F(0) = << >>
    BY FlattenEnds
  <2> HIDE DEF F, G
  <2>2. G(0) = FlattenSeq(F(0))
    BY <2>1, FlattenEmpty
  <2>3. QED
    BY <2>2
<1>2. ASSUME NEW m \in B PROVE m + 1 \in B
  <2>1. SUFFICES ASSUME m + 1 <= Len(ss) PROVE G(m + 1) = FlattenSeq(F(m + 1))
    OBVIOUS
  <2>2. m \in Nat /\ m < Len(ss) /\ m < Len(tt) /\ m + 1 \in 1..Len(ss) /\ G(m) = FlattenSeq(F(m))
    BY <2>1
  <2>3. G(m + 1) = G(m) \o tt[m + 1]
    BY <2>2, FlattenStep
  <2> DEFINE a == F(m)
             x == ss[m + 1]
  <2>4. a \in Seq(Seq(S)) /\ x \in Seq(Seq(S)) /\ F(m + 1) = a \o x
    BY <2>2, FlattenStep
  <2>5. tt[m + 1] = FlattenSeq(x) /\ G(m) = FlattenSeq(a)
    BY <2>2
  <2> HIDE DEF F, G, a, x
  <2>6. FlattenSeq(a \o x) = FlattenSeq(a) \o FlattenSeq(x)
    BY <2>4, FlattenConcat
  <2>7. QED
    BY <2>3, <2>4, <2>5, <2>6
<1>3. B = Nat
  <2> HIDE DEF B
  <2>1. B \in SUBSET Nat
    BY DEF B
  <2>2. QED
    BY <1>1, <1>2, <2>1, NatSetInduction
<1>4. Len(ss) \in Nat
  OBVIOUS
<1>5. G(Len(ss)) = FlattenSeq(F(Len(ss)))
  <2> DEFINE n == Len(ss)
  <2>1. n \in B /\ n <= Len(ss)
    BY <1>3, <1>4
  <2> HIDE DEF F, G, n
  <2>2. G(n) = FlattenSeq(F(n))
    BY <2>1
  <2>3. QED
    BY <2>2 DEF n
<1>6. G(Len(ss)) = FlattenSeq(tt) /\ F(Len(ss)) = FlattenSeq(ss)
  BY FlattenEnds
<1>7. QED
  BY <1>5, <1>6
===============================================================================
