----------------------------- MODULE Recursion -----------------------------
(***************************************************************************)
(* Induction and recursion over the natural numbers, said of sets and of   *)
(* functions: the walks over data that the models define step by step      *)
(* exist, and what holds at each step holds of them.                       *)
(***************************************************************************)
EXTENDS Integers, WellFoundedInduction, TLAPS

LEMMA LeastOne ==
  ASSUME NEW T, T \subseteq Nat, T # {}
  PROVE  \E x \in T : \A y \in T : x <= y
<1> DEFINE R == {r \in Nat \X Nat : r[1] < r[2]}
<1>1. IsWellFoundedOn(R, Nat)
  BY NatLessThanWellFounded DEF OpToRel
<1>2. \E x \in T : \A y \in T : ~ (<<y, x>> \in R)
  <2> HIDE DEF R
  <2> QED BY <1>1, WFMin
<1>3. PICK x \in T : \A y \in T : ~ (<<y, x>> \in R)
  BY <1>2
<1>4. ASSUME NEW y \in T PROVE x <= y
  <2>1. ~ (y < x)
    BY <1>3 
  <2> QED BY <2>1
<1> QED BY <1>4

\* What holds of 0, and of n + 1 when it holds of n, holds of all numbers.
LEMMA SetInduction ==
  ASSUME NEW H, 0 \in H, \A n \in Nat : n \in H => n + 1 \in H
  PROVE  Nat \subseteq H
<1> SUFFICES ASSUME ~ (Nat \subseteq H) PROVE FALSE
  OBVIOUS
<1> DEFINE T == {n \in Nat : n \notin H}
<1>1. PICK x \in T : \A y \in T : x <= y
  <2>1. T \subseteq Nat /\ T # {}
    OBVIOUS
  <2> HIDE DEF T
  <2> QED BY <2>1, LeastOne
<1>2. x # 0 /\ x \in Nat /\ x \notin H
  OBVIOUS
<1>3. x - 1 \in Nat /\ ~ (x <= x - 1) /\ (x - 1) + 1 = x
  BY <1>2
<1>4. x - 1 \in H
  BY <1>1, <1>3
<1>5. x \in H
  BY <1>3, <1>4
<1> QED BY <1>2, <1>5

\* f starts with a and goes on as next says, for n steps.
Goes(f, n, D, next, a) ==
  f \in [0..n -> D] /\ f[0] = a /\ \A i \in 0..(n - 1) : f[i + 1] = next[f[i]]

LEMMA GoesAsFar ==
  ASSUME NEW D, NEW next \in [D -> D], NEW a \in D
  PROVE  \A n \in Nat : \E f : Goes(f, n, D, next, a)
<1> DEFINE H == {n \in Nat : \E f : Goes(f, n, D, next, a)}
<1>1. 0 \in H
  <2>1. Goes([i \in 0..0 |-> a], 0, D, next, a)
    BY DEF Goes
  <2> QED BY <2>1
<1>2. ASSUME NEW n \in Nat, n \in H PROVE n + 1 \in H
  <2>1. PICK f : Goes(f, n, D, next, a)
    BY <1>2
  <2> DEFINE g == [i \in 0..(n + 1) |-> IF i <= n THEN f[i] ELSE next[f[n]]]
  <2>2. g \in [0..(n + 1) -> D] /\ g[0] = a
    BY <2>1 DEF Goes
  <2>3. ASSUME NEW i \in 0..n PROVE g[i + 1] = next[g[i]]
    <3>1. CASE i = n
      BY <3>1
    <3>2. CASE i # n
      <4>1. i \in 0..(n - 1) /\ i + 1 <= n /\ i + 1 \in 0..(n + 1)
        BY <3>2
      <4> QED BY <2>1, <4>1 DEF Goes
    <3> QED BY <3>1, <3>2
  <2>4. (n + 1) - 1 = n
    OBVIOUS
  <2> HIDE DEF g
  <2>5. Goes(g, n + 1, D, next, a)
    BY <2>2, <2>3, <2>4 DEF Goes
  <2> QED BY <2>5
<1> HIDE DEF H
<1>3. Nat \subseteq H
  BY <1>1, <1>2, SetInduction
<1> QED BY <1>3 DEF H

LEMMA GoesOneWay ==
  ASSUME NEW D, NEW next, NEW a, NEW m \in Nat, NEW n \in Nat, NEW f, NEW g, m <= n,
         Goes(f, m, D, next, a), Goes(g, n, D, next, a)
  PROVE  f[m] = g[m]
<1> DEFINE H == {i \in Nat : i <= m => f[i] = g[i]}
<1>1. 0 \in H
  BY DEF Goes
<1>2. ASSUME NEW i \in Nat, i \in H PROVE i + 1 \in H
  <2>1. CASE i + 1 <= m
    <3>1. i \in 0..(m - 1) /\ i \in 0..(n - 1) /\ i <= m
      BY <2>1
    <3>2. f[i] = g[i]
      BY <1>2, <3>1
    <3>3. f[i + 1] = next[f[i]] /\ g[i + 1] = next[g[i]]
      BY <3>1 DEF Goes
    <3> QED BY <3>2, <3>3
  <2> QED BY <2>1
<1> HIDE DEF H
<1>3. Nat \subseteq H
  BY <1>1, <1>2, SetInduction
<1> QED BY <1>3 DEF H

\* What f[k \in Nat] == IF k = 0 THEN a ELSE next[f[k - 1]] defines.
Recursive(f, next, a) == f = [k \in Nat |-> IF k = 0 THEN a ELSE next[f[k - 1]]]

\* There is such a function.
LEMMA RecursiveExists ==
  ASSUME NEW D, NEW next \in [D -> D], NEW a \in D
  PROVE  \E f : Recursive(f, next, a)
<1> DEFINE far(n) == CHOOSE f : Goes(f, n, D, next, a)
           g == [n \in Nat |-> far(n)[n]]
<1>1. ASSUME NEW n \in Nat PROVE Goes(far(n), n, D, next, a)
  BY GoesAsFar
<1> HIDE DEF far
<1>2. g[0] = a
  BY <1>1 DEF Goes
<1>3. ASSUME NEW n \in Nat PROVE g[n + 1] = next[g[n]]
  <2>1. n + 1 \in Nat /\ n <= n + 1 /\ n \in 0..((n + 1) - 1)
    OBVIOUS
  <2>2. Goes(far(n), n, D, next, a) /\ Goes(far(n + 1), n + 1, D, next, a)
    BY <1>1, <2>1
  <2>3. far(n)[n] = far(n + 1)[n]
    BY <2>1, <2>2, GoesOneWay
  <2>4. far(n + 1)[n + 1] = next[far(n + 1)[n]]
    BY <2>1, <2>2 DEF Goes
  <2>5. g[n + 1] = far(n + 1)[n + 1] /\ g[n] = far(n)[n]
    BY <2>1
  <2> QED BY <2>3, <2>4, <2>5
<1>4. ASSUME NEW k \in Nat PROVE g[k] = IF k = 0 THEN a ELSE next[g[k - 1]]
  <2>1. CASE k = 0
    BY <1>2, <2>1
  <2>2. CASE k # 0
    <3>1. k - 1 \in Nat /\ (k - 1) + 1 = k
      BY <2>2
    <3>2. g[(k - 1) + 1] = next[g[k - 1]]
      BY <1>3, <3>1
    <3> QED BY <2>2, <3>1, <3>2
  <2> QED BY <2>1, <2>2
<1>5. g = [k \in Nat |-> g[k]]
  OBVIOUS
<1> HIDE DEF g
<1>6. Recursive(g, next, a)
  BY <1>4, <1>5 DEF Recursive
<1> QED BY <1>6

LEMMA RecursiveIs ==
  ASSUME NEW D, NEW next \in [D -> D], NEW a \in D, NEW w, Recursive(w, next, a)
  PROVE  w \in [Nat -> D] /\ w[0] = a /\ \A k \in Nat : w[k + 1] = next[w[k]]
<1>1. w = [k \in Nat |-> IF k = 0 THEN a ELSE next[w[k - 1]]]
  BY DEF Recursive
<1>2. w[0] = a
  BY <1>1
<1>3. ASSUME NEW k \in Nat PROVE w[k + 1] = next[w[k]]
  <2>1. k + 1 \in Nat /\ k + 1 # 0 /\ (k + 1) - 1 = k
    OBVIOUS
  <2>2. w[k + 1] = next[w[(k + 1) - 1]]
    BY <1>1, <2>1
  <2> QED BY <2>1, <2>2
<1>4. \A k \in Nat : w[k] \in D
  <2> DEFINE H == {k \in Nat : w[k] \in D}
  <2>1. 0 \in H
    BY <1>2
  <2>2. ASSUME NEW k \in Nat, k \in H PROVE k + 1 \in H
    BY <1>3, <2>2
  <2> HIDE DEF H
  <2>3. Nat \subseteq H
    BY <2>1, <2>2, SetInduction
  <2> QED BY <2>3 DEF H
<1>5. w \in [Nat -> D]
  BY <1>1, <1>4
<1> QED BY <1>2, <1>3, <1>5

\* f starts with a and goes on as step says of each number.
Indexed(f, n, D, step, a) ==
  f \in [0..n -> D] /\ f[0] = a /\ \A i \in 1..n : f[i] = step[i][f[i - 1]]

\* There is such a function.
LEMMA IndexedExists ==
  ASSUME NEW D, NEW a \in D, NEW step \in [Nat -> [D -> D]], NEW n \in Nat
  PROVE  \E f : Indexed(f, n, D, step, a)
<1> DEFINE D2 == Nat \X D
           next == [x \in D2 |-> <<x[1] + 1, step[x[1] + 1][x[2]]>>]
<1>1. next \in [D2 -> D2] /\ <<0, a>> \in D2
  OBVIOUS
<1>2. PICK w : Recursive(w, next, <<0, a>>)
  <2> HIDE DEF next, D2
  <2> QED BY <1>1, RecursiveExists
<1>3. w \in [Nat -> D2] /\ w[0] = <<0, a>> /\ \A k \in Nat : w[k + 1] = next[w[k]]
  <2> HIDE DEF next, D2
  <2> QED BY <1>1, <1>2, RecursiveIs
<1>4. \A k \in Nat : w[k][1] = k
  <2> DEFINE H == {k \in Nat : w[k][1] = k}
  <2>1. 0 \in H
    BY <1>3
  <2>2. ASSUME NEW k \in Nat, k \in H PROVE k + 1 \in H
    <3>1. w[k + 1] = next[w[k]] /\ w[k] \in D2
      BY <1>3
    <3> QED BY <2>2, <3>1
  <2> HIDE DEF H
  <2>3. Nat \subseteq H
    BY <2>1, <2>2, SetInduction
  <2> QED BY <2>3 DEF H
<1> DEFINE f == [i \in 0..n |-> w[i][2]]
<1>5. f \in [0..n -> D]
  <2>1. ASSUME NEW i \in 0..n PROVE w[i][2] \in D
    BY <1>3
  <2> QED BY <2>1
<1>6. ASSUME NEW i \in 1..n PROVE f[i] = step[i][f[i - 1]]
  <2>1. i - 1 \in Nat /\ i - 1 \in 0..n /\ i \in 0..n /\ (i - 1) + 1 = i
    OBVIOUS
  <2>2. w[i] = next[w[i - 1]] /\ w[i - 1] \in D2 /\ w[i - 1][1] = i - 1
    BY <1>3, <1>4, <2>1
  <2>3. w[i][2] = step[i][w[i - 1][2]]
    BY <2>1, <2>2
  <2> QED BY <2>1, <2>3
<1>7. f[0] = a
  BY <1>3
<1> HIDE DEF f
<1>8. Indexed(f, n, D, step, a)
  BY <1>5, <1>6, <1>7 DEF Indexed
<1> QED BY <1>8
=============================================================================
