---------------------------- MODULE DataInduction ----------------------------
(***************************************************************************)
(* Induction over numbers and sequences, and the existence of recursively  *)
(* defined functions, stated with sets and functions in the place of       *)
(* operators.                                                              *)
(***************************************************************************)
EXTENDS Integers, Sequences, WellFoundedInduction, TLAPS

(* What holds of 0, and of n + 1 where it holds of n, holds of all numbers. *)
LEMMA LeastElement ==
  ASSUME NEW S \in SUBSET Nat, S # {}
  PROVE  \E m \in S : \A k \in S : m <= k
<1> DEFINE R == {p \in Nat \X Nat : p[1] < p[2]}
<1>1. IsWellFoundedOn(OpToRel(<, Nat), Nat)
  BY NatLessThanWellFounded
<1>2. OpToRel(<, Nat) = R
  BY DEF OpToRel
<1>3. IsWellFoundedOn(R, Nat)
  BY <1>1, <1>2
<1>4. \E m \in S : \A k \in S : ~(<<k, m>> \in R)
  <2> HIDE DEF R
  <2> QED
    BY <1>3, WFMin
<1>5. PICK m \in S : \A k \in S : ~(<<k, m>> \in R)
  BY <1>4
<1>6. ASSUME NEW k \in S
      PROVE  m <= k
  <2>1. ~(<<k, m>> \in R)
    BY <1>5
  <2>2. ~(k < m)
    BY <2>1
  <2> QED
    BY <2>2
<1> QED
  BY <1>6

LEMMA SetInduction ==
  ASSUME NEW S, 0 \in S, \A n \in Nat : n \in S => n + 1 \in S
  PROVE  Nat \subseteq S
<1> DEFINE T == Nat \ S
<1>1. SUFFICES ASSUME T # {}
               PROVE  FALSE
  OBVIOUS
<1>2. T \in SUBSET Nat
  OBVIOUS
<1>3. PICK m \in T : \A k \in T : m <= k
  <2> HIDE DEF T
  <2> QED
    BY <1>1, <1>2, LeastElement
<1>4. m \in Nat /\ m # 0 /\ m - 1 \in Nat /\ m - 1 \notin T
  BY <1>3
<1> QED
  BY <1>4

(* A function on the numbers of D is defined by its value at 0 and a step  *)
(* from an earlier number.                                                 *)
Descends(D, T, a, pred, step) ==
  /\ D \subseteq Nat
  /\ a \in T
  /\ pred \in [D -> D] /\ \A n \in D : n # 0 => pred[n] < n
  /\ step \in [D \X T -> T]

Solution(h, D, T, a, pred, step) ==
  h \in [D -> T] /\ \A n \in D : h[n] = IF n = 0 THEN a ELSE step[<<n, h[pred[n]]>>]

LEMMA Recursion ==
  ASSUME NEW D, NEW T, NEW a, NEW pred, NEW step, Descends(D, T, a, pred, step)
  PROVE  \E h : Solution(h, D, T, a, pred, step)
<1> USE DEF Descends
<1> DEFINE Upto(n) == {k \in D : k <= n}
           Is(h, n) == /\ h \in [Upto(n) -> T]
                       /\ \A k \in Upto(n) : h[k] = IF k = 0 THEN a ELSE step[<<k, h[pred[k]]>>]
<1>1. ASSUME NEW n \in Nat, NEW m \in Nat, n <= m, NEW g, NEW h, Is(g, n), Is(h, m), NEW k \in Upto(n)
      PROVE  g[k] = h[k]
  <2> DEFINE S == {i \in Upto(n) : g[i] # h[i]}
  <2>1. SUFFICES ASSUME S # {}
                 PROVE  FALSE
    OBVIOUS
  <2>2. S \in SUBSET Nat
    OBVIOUS
  <2>3. PICK i \in S : \A j \in S : i <= j
    <3> HIDE DEF S
    <3> QED
      BY <2>1, <2>2, LeastElement
  <2>4. i \in D /\ i \in Nat /\ i <= n /\ i <= m
    BY <2>3, <1>1
  <2>5. g[i] = IF i = 0 THEN a ELSE step[<<i, g[pred[i]]>>]
    BY <2>4, <1>1
  <2>6. h[i] = IF i = 0 THEN a ELSE step[<<i, h[pred[i]]>>]
    BY <2>4, <1>1
  <2>7. CASE i = 0
    BY <2>5, <2>6, <2>7, <2>3
  <2>8. CASE i # 0
    <3>1. pred[i] \in D /\ pred[i] < i
      BY <2>4, <2>8
    <3>2. pred[i] \in Nat
      BY <3>1
    <3>3. pred[i] <= n
      BY <3>1, <3>2, <2>4
    <3>4. pred[i] \in Upto(n)
      BY <3>1, <3>3
    <3>5. pred[i] \notin S
      <4>1. ~(i <= pred[i])
        BY <3>1, <3>2, <2>4
      <4> HIDE DEF S
      <4> QED
        BY <4>1, <2>3
    <3>6. g[pred[i]] = h[pred[i]]
      BY <3>4, <3>5
    <3> QED
      BY <3>6, <2>5, <2>6, <2>8, <2>3
  <2> QED
    BY <2>7, <2>8
<1>2. \A n \in Nat : \E h : Is(h, n)
  <2> DEFINE S == {n \in Nat : \E h : Is(h, n)}
  <2>1. 0 \in S
    <3> DEFINE h == [k \in Upto(0) |-> a]
    <3>1. \A k \in Upto(0) : k = 0
      OBVIOUS
    <3>2. Is(h, 0)
      BY <3>1
    <3> QED
      BY <3>2
  <2>2. ASSUME NEW n \in Nat, n \in S
        PROVE  n + 1 \in S
    <3>1. PICK g : Is(g, n)
      BY <2>2
    <3> DEFINE h == [k \in Upto(n + 1) |->
                       IF k \in Upto(n) THEN g[k]
                       ELSE IF k = 0 THEN a ELSE step[<<k, g[pred[k]]>>]]
    <3>2. ASSUME NEW k \in Upto(n + 1)
          PROVE  h[k] \in T /\ h[k] = IF k = 0 THEN a ELSE step[<<k, h[pred[k]]>>]
      <4>1. CASE k = 0
        <5>1. k \in Upto(n)
          BY <4>1
        <5> QED
          BY <4>1, <5>1, <3>1
      <4>2. CASE k # 0
        <5>1. pred[k] \in D /\ pred[k] < k
          BY <4>2
        <5>2. pred[k] \in Upto(n) /\ pred[k] \in Upto(n + 1)
          <6>1. pred[k] \in Nat /\ k \in Nat /\ k <= n + 1
            BY <5>1
          <6>2. pred[k] <= n /\ pred[k] <= n + 1
            BY <5>1, <6>1
          <6> QED
            BY <5>1, <6>2
        <5>3. h[pred[k]] = g[pred[k]] /\ g[pred[k]] \in T
          BY <5>2, <3>1
        <5>4. CASE k \in Upto(n)
          <6>1. h[k] = g[k]
            BY <5>4
          <6>2. g[k] = step[<<k, g[pred[k]]>>] /\ g[k] \in T
            BY <3>1, <5>4, <4>2
          <6> QED
            BY <6>1, <6>2, <5>3, <4>2
        <5>5. CASE k \notin Upto(n)
          <6>1. h[k] = step[<<k, g[pred[k]]>>]
            BY <5>5, <4>2
          <6>2. <<k, g[pred[k]]>> \in D \X T
            BY <5>3
          <6>3. h[k] \in T
            BY <6>1, <6>2
          <6> QED
            BY <6>1, <6>3, <5>3, <4>2
        <5> QED
          BY <5>4, <5>5
      <4> QED
        BY <4>1, <4>2
    <3>3. h \in [Upto(n + 1) -> T]
      <4>1. \A k \in Upto(n + 1) : h[k] \in T
        BY <3>2
      <4> QED
        BY <4>1
    <3>4. Is(h, n + 1)
      BY <3>2, <3>3
    <3>5. \E g1 : Is(g1, n + 1)
      <4> HIDE DEF Is, h
      <4> QED
        BY <3>4
    <3> QED
      <4> HIDE DEF Is, h
      <4> QED
        BY <3>5
  <2>3. Nat \subseteq S
    <3> HIDE DEF S
    <3> QED
      BY <2>1, <2>2, SetInduction
  <2> QED
    BY <2>3
<1> DEFINE some == [n \in Nat |-> CHOOSE h : Is(h, n)]
           h == [n \in D |-> some[n][n]]
<1>3. ASSUME NEW n \in Nat
      PROVE  Is(some[n], n)
  <2>1. \E g : Is(g, n)
    BY <1>2
  <2>2. Is(CHOOSE g : Is(g, n), n)
    <3> HIDE DEF Is
    <3> QED
      BY <2>1
  <2> QED
    BY <2>2
<1>4. ASSUME NEW n \in D
      PROVE  h[n] \in T /\ h[n] = IF n = 0 THEN a ELSE step[<<n, h[pred[n]]>>]
  <2>0. n \in Nat /\ n \in Upto(n)
    OBVIOUS
  <2>1. Is(some[n], n)
    <3> HIDE DEF Is, some
    <3> QED
      BY <2>0, <1>3
  <2>2. h[n] = some[n][n]
    OBVIOUS
  <2>3. some[n][n] \in T
    <3> HIDE DEF some
    <3> QED
      BY <2>0, <2>1
  <2>4. some[n][n] = IF n = 0 THEN a ELSE step[<<n, some[n][pred[n]]>>]
    <3> HIDE DEF some
    <3> QED
      BY <2>0, <2>1
  <2>5. CASE n = 0
    BY <2>2, <2>3, <2>4, <2>5
  <2>6. CASE n # 0
    <3>1. pred[n] \in D /\ pred[n] < n /\ pred[n] \in Nat
      BY <2>6
    <3>2. pred[n] \in Upto(pred[n]) /\ pred[n] <= n
      BY <3>1
    <3>3. Is(some[pred[n]], pred[n])
      <4> HIDE DEF Is, some
      <4> QED
        BY <3>1, <1>3
    <3>4. some[pred[n]][pred[n]] = some[n][pred[n]]
      <4> HIDE DEF Is, some
      <4> QED
        BY <3>1, <3>2, <3>3, <2>0, <2>1, <1>1
    <3>5. h[pred[n]] = some[pred[n]][pred[n]]
      BY <3>1
    <3>6. some[n][n] = step[<<n, some[n][pred[n]]>>]
      BY <2>4, <2>6
    <3>7. h[n] = step[<<n, h[pred[n]]>>]
      <4> HIDE DEF h, some
      <4> QED
        BY <2>2, <3>4, <3>5, <3>6
    <3> QED
      <4> HIDE DEF h, some
      <4> QED
        BY <2>2, <2>3, <2>6, <3>7
  <2> QED
    BY <2>5, <2>6
<1>5. h \in [D -> T]
  <2>1. \A n \in D : h[n] \in T
    BY <1>4
  <2> QED
    BY <2>1
<1>6. Solution(h, D, T, a, pred, step)
  <2> HIDE DEF h
  <2> QED
    BY <1>4, <1>5 DEF Solution
<1> QED
  <2> HIDE DEF h
  <2> QED
    BY <1>6

Counts(N, T, a, step) == N \in Nat /\ a \in T /\ step \in [(1 .. N) \X T -> T]

LEMMA CountedRecursion ==
  ASSUME NEW N, NEW T, NEW a, NEW step, Counts(N, T, a, step)
  PROVE  \E h : /\ h \in [0 .. N -> T]
                /\ h = [n \in 0 .. N |-> IF n = 0 THEN a ELSE step[<<n, h[n - 1]>>]]
<1> DEFINE D == 0 .. N
           pred == [n \in D |-> IF n = 0 THEN 0 ELSE n - 1]
           next == [p \in D \X T |-> IF p[1] = 0 THEN a ELSE step[p]]
<1> USE DEF Counts
<1>1. D \subseteq Nat /\ pred \in [D -> D] /\ \A n \in D : n # 0 => pred[n] < n
  OBVIOUS
<1>2. next \in [D \X T -> T]
  <2>1. ASSUME NEW p \in D \X T
        PROVE  (IF p[1] = 0 THEN a ELSE step[p]) \in T
    <3>1. CASE p[1] = 0
      BY <3>1
    <3>2. CASE p[1] # 0
      <4>1. p \in (1 .. N) \X T
        BY <3>2
      <4> QED
        BY <3>2, <4>1
    <3> QED
      BY <3>1, <3>2
  <2> QED
    BY <2>1
<1>3. PICK h \in [D -> T] : \A n \in D : h[n] = IF n = 0 THEN a ELSE next[<<n, h[pred[n]]>>]
  <2> HIDE DEF D, pred, next
  <2>1. Descends(D, T, a, pred, next)
    BY <1>1, <1>2 DEF Descends
  <2> QED
    BY <2>1, Recursion DEF Solution
<1>4. ASSUME NEW n \in D
      PROVE  h[n] = IF n = 0 THEN a ELSE step[<<n, h[n - 1]>>]
  <2>1. CASE n = 0
    BY <1>3, <2>1
  <2>2. CASE n # 0
    <3>1. pred[n] = n - 1 /\ n - 1 \in D /\ h[n - 1] \in T
      BY <2>2, <1>3
    <3>2. h[n] = next[<<n, h[n - 1]>>]
      <4> HIDE DEF next, pred
      <4> QED
        BY <1>3, <2>2, <3>1
    <3>3. <<n, h[n - 1]>> \in D \X T
      BY <3>1
    <3>4. next[<<n, h[n - 1]>>] = step[<<n, h[n - 1]>>]
      BY <3>3, <2>2
    <3> QED
      BY <3>2, <3>4, <2>2
  <2> QED
    BY <2>1, <2>2
<1>5. h = [n \in D |-> IF n = 0 THEN a ELSE step[<<n, h[n - 1]>>]]
  <2>1. h = [n \in D |-> h[n]]
    BY <1>3
  <2> QED
    BY <2>1, <1>4
<1> QED
  BY <1>3, <1>5

LEMMA Bounded ==
  ASSUME NEW N \in Nat, NEW S, 0 \in S, \A n \in 1 .. N : n - 1 \in S => n \in S
  PROVE  0 .. N \subseteq S
<1> DEFINE R == {n \in Nat : n <= N => n \in S}
<1>1. 0 \in R
  OBVIOUS
<1>2. ASSUME NEW n \in Nat, n \in R
      PROVE  n + 1 \in R
  <2>1. CASE n + 1 <= N
    <3>1. n \in S /\ n + 1 \in 1 .. N /\ (n + 1) - 1 = n
      BY <1>2, <2>1
    <3>2. n + 1 \in S
      BY <3>1
    <3> QED
      BY <3>2
  <2>2. CASE ~(n + 1 <= N)
    BY <2>2
  <2> QED
    BY <2>1, <2>2
<1>3. Nat \subseteq R
  <2> HIDE DEF R
  <2> QED
    BY <1>1, <1>2, SetInduction
<1> QED
  BY <1>3

(* What holds of <<>>, and of a sequence with one element more, holds of    *)
(* every sequence.                                                         *)
LEMMA AppendInduction ==
  ASSUME NEW A, NEW S, <<>> \in S,
         \A t \in Seq(A) : \A x \in A : t \in S => Append(t, x) \in S
  PROVE  Seq(A) \subseteq S
<1> SUFFICES ASSUME NEW f \in Seq(A)
             PROVE  f \in S
  OBVIOUS
<1> DEFINE R == {n \in 0 .. Len(f) : SubSeq(f, 1, n) \in S}
<1>1. 0 \in R
  <2>1. SubSeq(f, 1, 0) = <<>>
    OBVIOUS
  <2>2. SubSeq(f, 1, 0) \in S
    BY <2>1
  <2> QED
    BY <2>2
<1>2. ASSUME NEW n \in 1 .. Len(f), n - 1 \in R
      PROVE  n \in R
  <2>1. SubSeq(f, 1, n - 1) \in Seq(A) /\ f[n] \in A
    OBVIOUS
  <2>2. SubSeq(f, 1, n) = Append(SubSeq(f, 1, n - 1), f[n])
    OBVIOUS
  <2>3. SubSeq(f, 1, n - 1) \in S
    BY <1>2
  <2>4. SubSeq(f, 1, n) \in S
    BY <2>1, <2>2, <2>3
  <2> QED
    BY <2>4
<1>3. 0 .. Len(f) \subseteq R
  <2>1. Len(f) \in Nat
    OBVIOUS
  <2> HIDE DEF R
  <2> QED
    BY <1>1, <1>2, <2>1, Bounded
<1>4. SubSeq(f, 1, Len(f)) = f
  OBVIOUS
<1>5. Len(f) \in R
  <2>1. Len(f) \in 0 .. Len(f)
    OBVIOUS
  <2> QED
    BY <1>3, <2>1
<1> QED
  BY <1>4, <1>5

(* The states that step goes through along a sequence f, from a on.        *)
Steps(A, T, a, step) == a \in T /\ step \in [T \X A -> T]

Along(h, f, a, step) ==
  h = [n \in 0 .. Len(f) |-> IF n = 0 THEN a ELSE step[<<h[n - 1], f[n]>>]]

LEMMA AlongExists ==
  ASSUME NEW A, NEW T, NEW a, NEW step, Steps(A, T, a, step), NEW f \in Seq(A)
  PROVE  \E h : Along(h, f, a, step) /\ h \in [0 .. Len(f) -> T]
<1> DEFINE N == Len(f)
           next == [p \in (1 .. N) \X T |-> step[<<p[2], f[p[1]]>>]]
<1>1. Counts(N, T, a, next)
  <2>1. ASSUME NEW p \in (1 .. N) \X T
        PROVE  step[<<p[2], f[p[1]]>>] \in T
    <3>1. p[2] \in T /\ f[p[1]] \in A
      OBVIOUS
    <3> QED
      BY <3>1 DEF Steps
  <2>2. next \in [(1 .. N) \X T -> T]
    BY <2>1
  <2>3. N \in Nat
    OBVIOUS
  <2> HIDE DEF next, N
  <2> QED
    BY <2>2, <2>3 DEF Counts, Steps
<1>2. PICK h : /\ h \in [0 .. N -> T]
               /\ h = [n \in 0 .. N |-> IF n = 0 THEN a ELSE next[<<n, h[n - 1]>>]]
  <2> HIDE DEF next, N
  <2> QED
    BY <1>1, CountedRecursion
<1>3. ASSUME NEW n \in 0 .. N, n # 0
      PROVE  next[<<n, h[n - 1]>>] = step[<<h[n - 1], f[n]>>]
  <2>1. n - 1 \in 0 .. N
    BY <1>3
  <2>2. h[n - 1] \in T
    BY <1>2, <2>1
  <2>3. <<n, h[n - 1]>> \in (1 .. N) \X T
    BY <1>3, <2>2
  <2> QED
    BY <2>3
<1>4. Along(h, f, a, step)
  <2>1. h = [n \in 0 .. N |-> IF n = 0 THEN a ELSE step[<<h[n - 1], f[n]>>]]
    <3> HIDE DEF next, N
    <3> QED
      BY <1>2, <1>3
  <2> QED
    BY <2>1 DEF Along
<1> QED
  BY <1>2, <1>4

LEMMA AlongType ==
  ASSUME NEW A, NEW T, NEW a, NEW step, Steps(A, T, a, step),
         NEW f \in Seq(A), NEW h, Along(h, f, a, step)
  PROVE  /\ h[0] = a
         /\ \A n \in 0 .. Len(f) : h[n] \in T
         /\ \A n \in 1 .. Len(f) : h[n] = step[<<h[n - 1], f[n]>>]
<1>1. Len(f) \in Nat /\ 0 \in 0 .. Len(f)
  OBVIOUS
<1>2. h[0] = a
  BY <1>1 DEF Along
<1>3. \A n \in 1 .. Len(f) : h[n] = step[<<h[n - 1], f[n]>>]
  BY <1>1 DEF Along
<1> DEFINE S == {n \in 0 .. Len(f) : h[n] \in T}
<1>4. 0 \in S
  BY <1>1, <1>2 DEF Steps
<1>5. ASSUME NEW n \in 1 .. Len(f), n - 1 \in S
      PROVE  n \in S
  <2>1. h[n - 1] \in T /\ f[n] \in A
    BY <1>5
  <2>2. step[<<h[n - 1], f[n]>>] \in T
    BY <2>1 DEF Steps
  <2> QED
    BY <2>2, <1>3
<1>6. 0 .. Len(f) \subseteq S
  <2> HIDE DEF S
  <2> QED
    BY <1>1, <1>4, <1>5, Bounded
<1> QED
  BY <1>2, <1>3, <1>6

(* The states depend only on what has been passed.                         *)
LEMMA AlongPrefix ==
  ASSUME NEW A, NEW T, NEW a, NEW step, Steps(A, T, a, step),
         NEW f \in Seq(A), NEW g \in Seq(A), NEW m \in Nat, m <= Len(f), m <= Len(g),
         \A n \in 1 .. m : f[n] = g[n],
         NEW h, Along(h, f, a, step), NEW k, Along(k, g, a, step)
  PROVE  h[m] = k[m]
<1>1. Len(f) \in Nat /\ Len(g) \in Nat
  OBVIOUS
<1> DEFINE S == {n \in 0 .. m : h[n] = k[n]}
<1>2. 0 \in S
  BY AlongType
<1>3. ASSUME NEW n \in 1 .. m, n - 1 \in S
      PROVE  n \in S
  <2>1. n \in 1 .. Len(f) /\ n \in 1 .. Len(g)
    BY <1>1
  <2>2. h[n] = step[<<h[n - 1], f[n]>>]
    BY <2>1, AlongType
  <2>3. k[n] = step[<<k[n - 1], g[n]>>]
    BY <2>1, AlongType
  <2>4. f[n] = g[n] /\ h[n - 1] = k[n - 1]
    BY <1>3
  <2> QED
    BY <2>2, <2>3, <2>4
<1>4. 0 .. m \subseteq S
  <2> HIDE DEF S
  <2> QED
    BY <1>2, <1>3, Bounded
<1> QED
  BY <1>4
==============================================================================
