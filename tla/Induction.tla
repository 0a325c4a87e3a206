------------------------------ MODULE Induction ------------------------------
(***************************************************************************)
(* What the proofs need to know of recursive functions and of sequences.   *)
(* Induction is stated for a set of numbers, not for a predicate: every    *)
(* recursion of the modules is over an interval 0 .. n.                    *)
(***************************************************************************)
EXTENDS Integers, Sequences, FiniteSetsExt, FiniteSetTheorems, TLAPS

(* A set of natural numbers with a member has a least one. *)
LEMMA LeastElement ==
  ASSUME NEW T, T \subseteq Nat, T # {}
  PROVE  \E m \in T : \A k \in T : m <= k
<1> DEFINE R == {ss \in Nat \X Nat : ss[1] < ss[2]}
<1>1. IsWellFoundedOn(R, Nat)
  BY NatLessThanWellFounded DEF OpToRel
<1>2. PICK m \in T : \A k \in T : ~ (<<k, m>> \in R)
  <2> HIDE DEF R
  <2> QED BY <1>1, WFMin
<1>3. \A k \in T : m <= k
  <2>1. SUFFICES ASSUME NEW k \in T, k < m PROVE FALSE
    OBVIOUS
  <2>2. <<k, m>> \in R
    BY <2>1, SMT
  <2>3. QED BY <2>2, <1>2
<1>4. QED
  BY <1>3

LEMMA MinIsLeast ==
  ASSUME NEW T, T \subseteq Nat, T # {}
  PROVE  Min(T) \in T /\ \A k \in T : Min(T) <= k
BY LeastElement DEF Min

(* Induction over 0 .. n, by way of a set. *)
LEMMA SetInduction ==
  ASSUME NEW n \in Nat, NEW S, 0 \in S, \A i \in 1 .. n : (i - 1) \in S => i \in S
  PROVE  \A i \in 0 .. n : i \in S
<1> DEFINE T == {i \in 0 .. n : i \notin S}
<1>1. SUFFICES ASSUME T # {} PROVE FALSE
  OBVIOUS
<1>2. T \subseteq Nat
  OBVIOUS
<1>3. PICK m \in T : \A k \in T : m <= k
  <2> HIDE DEF T
  <2> QED BY <1>1, <1>2, LeastElement
<1>4. m \in 1 .. n /\ m - 1 \in 0 .. n /\ m - 1 \notin T
  BY <1>3
<1>5. QED
  BY <1>3, <1>4

(* f is defined by recursion: f[0] = x, and f[i] is F of f[i - 1] and i. *)
Solves(f, n, x, F) == f[0] = x /\ \A i \in 1 .. n : f[i] = F[<<f[i - 1], i>>]

(* A recursion over 0 .. n with values in X has a solution. *)
LEMMA RecursionExists ==
  ASSUME NEW n \in Nat, NEW X, NEW x \in X, NEW F \in [X \X (1 .. n) -> X]
  PROVE  \E f \in [0 .. n -> X] : Solves(f, n, x, F)
<1> DEFINE Good(f, m) == Solves(f, m, x, F)
           S == {m \in 0 .. n : \E f \in [0 .. m -> X] : Good(f, m)}
<1> USE DEF Solves
<1>1. 0 \in S
  <2> DEFINE g == [i \in 0 .. 0 |-> x]
  <2>1. g \in [0 .. 0 -> X] /\ g[0] = x
    OBVIOUS
  <2>2. \E f \in [0 .. 0 -> X] : Good(f, 0)
    <3> HIDE DEF g
    <3>1. Good(g, 0)
      BY <2>1
    <3>2. QED BY <2>1, <3>1
  <2>3. QED BY <2>2
<1>2. ASSUME NEW m \in 1 .. n, m - 1 \in S PROVE m \in S
  <2>1. PICK f \in [0 .. m - 1 -> X] : Good(f, m - 1)
    BY <1>2
  <2> DEFINE v == F[<<f[m - 1], m>>]
             g == [i \in 0 .. m |-> IF i = m THEN v ELSE f[i]]
  <2>2. v \in X
    <3>1. <<f[m - 1], m>> \in X \X (1 .. n)
      BY <2>1
    <3>2. QED BY <3>1
  <2>3. g \in [0 .. m -> X]
    <3> HIDE DEF v
    <3> QED BY <2>1, <2>2
  <2>4. g[m] = v /\ \A i \in 0 .. m - 1 : g[i] = f[i]
    <3> HIDE DEF v
    <3> QED OBVIOUS
  <2>5. Good(g, m)
    <3> HIDE DEF g
    <3>1. g[0] = x
      BY <2>1, <2>4
    <3>2. ASSUME NEW i \in 1 .. m PROVE g[i] = F[<<g[i - 1], i>>]
      <4>1. g[i - 1] = f[i - 1]
        BY <2>4
      <4>2. CASE i = m
        BY <4>1, <4>2, <2>4
      <4>3. CASE i # m
        <5>1. i \in 1 .. m - 1 /\ g[i] = f[i]
          BY <4>3, <2>4
        <5>2. f[i] = F[<<f[i - 1], i>>]
          BY <5>1, <2>1
        <5>3. QED BY <5>1, <5>2, <4>1
      <4>4. QED BY <4>2, <4>3
    <3>3. QED BY <3>1, <3>2
  <2>6. \E h \in [0 .. m -> X] : Good(h, m)
    <3> HIDE DEF g, Good
    <3> QED BY <2>3, <2>5
  <2>7. QED
    BY <2>6
<1>3. n \in S
  <2> HIDE DEF S
  <2>1. \A i \in 0 .. n : i \in S
    BY <1>1, <1>2, SetInduction
  <2>2. QED BY <2>1
<1>4. QED
  BY <1>3

(* f is B below b, and G of f[d[n]] and n from there on. *)
Descends(f, b, B, G, d) ==
  \A n \in Nat : f[n] = IF n < b THEN B[n] ELSE G[<<f[d[n]], n>>]

(* A recursion that descends from n to a smaller d[n] has a solution. *)
LEMMA DescentExists ==
  ASSUME NEW X, NEW b \in Nat, NEW B \in [Nat -> X], NEW G \in [X \X Nat -> X],
         NEW d \in [Nat -> Nat], \A n \in Nat : n >= b => d[n] < n
  PROVE  \E f \in [Nat -> X] : Descends(f, b, B, G, d)
<1> DEFINE Step(g, n) == IF n < b THEN B[n] ELSE G[<<g[d[n]], n>>]
           Sol(g, m) == g \in [0 .. m -> X] /\ \A n \in 0 .. m : g[n] = Step(g, n)
<1>1. ASSUME NEW m \in Nat, NEW k \in Nat, NEW g, NEW h, Sol(g, m), Sol(h, k),
             NEW i \in Nat, i <= m, i <= k
      PROVE  g[i] = h[i]
  <2> DEFINE T == {j \in Nat : j <= m /\ j <= k /\ g[j] # h[j]}
  <2>1. SUFFICES ASSUME T # {} PROVE FALSE
    BY <1>1
  <2>2. PICK j \in T : \A l \in T : j <= l
    <3>1. T \subseteq Nat
      OBVIOUS
    <3> HIDE DEF T
    <3> QED BY <3>1, <2>1, LeastElement
  <2>3. j \in Nat /\ j \in 0 .. m /\ j \in 0 .. k /\ g[j] # h[j]
    BY <2>2
  <2>4. g[j] = Step(g, j) /\ h[j] = Step(h, j)
    BY <2>3, <1>1
  <2>5. CASE j < b
    BY <2>3, <2>4, <2>5
  <2>6. CASE j >= b
    <3>1. d[j] \in Nat /\ d[j] < j
      BY <2>6, <2>3
    <3>2. g[d[j]] = h[d[j]]
      BY <3>1, <2>2, <2>3
    <3>3. QED BY <3>2, <2>3, <2>4, <2>6
  <2>7. QED BY <2>5, <2>6, <2>3
<1>2. ASSUME NEW m \in Nat PROVE \E g : Sol(g, m)
  <2> DEFINE T == {j \in Nat : ~ \E g : Sol(g, j)}
  <2>1. SUFFICES ASSUME T # {} PROVE FALSE
    OBVIOUS
  <2>2. PICK j \in T : \A l \in T : j <= l
    <3>1. T \subseteq Nat
      OBVIOUS
    <3> HIDE DEF T
    <3> QED BY <3>1, <2>1, LeastElement
  <2>3. PICK e : j > 0 => Sol(e, j - 1)
    <3>1. CASE j = 0
      BY <3>1
    <3>2. CASE j > 0
      <4>1. j - 1 \in Nat /\ j - 1 \notin T
        <5>1. T \subseteq Nat
          OBVIOUS
        <5> HIDE DEF T
        <5> QED BY <2>2, <3>2, <5>1
      <4>2. QED BY <4>1
    <3>3. QED BY <3>1, <3>2, <2>2
  <2> DEFINE v == Step(e, j)
             g == [i \in 0 .. j |-> IF i = j THEN v ELSE e[i]]
  <2>4. j \in Nat /\ ~ (\E h : Sol(h, j))
    BY <2>2
  <2>5. v \in X
    <3>1. CASE j < b
      BY <3>1, <2>4
    <3>2. CASE j >= b
      <4>1. d[j] \in Nat /\ d[j] < j
        BY <3>2, <2>4
      <4>2. j > 0 /\ e[d[j]] \in X
        BY <4>1, <2>3, <2>4
      <4>3. <<e[d[j]], j>> \in X \X Nat
        BY <4>2, <2>4
      <4>4. QED BY <4>3, <3>2
    <3>3. QED BY <3>1, <3>2, <2>4
  <2>6. /\ g \in [0 .. j -> X]
        /\ g[j] = v
        /\ \A i \in 0 .. j : i # j => g[i] = e[i]
    <3>1. \A i \in 0 .. j : i # j => e[i] \in X
      BY <2>3, <2>4
    <3> HIDE DEF v
    <3> QED BY <3>1, <2>5, <2>4
  <2>7. ASSUME NEW i \in 0 .. j PROVE g[i] = Step(g, i)
    <3> HIDE DEF g, v
    <3>0. i \in Nat /\ (i < b \/ i >= b)
      BY <2>4
    <3>1. i >= b => d[i] \in 0 .. j /\ d[i] # j /\ g[d[i]] = e[d[i]]
      <4>1. i \in Nat /\ (i >= b => d[i] \in Nat /\ d[i] < i)
        BY <2>4
      <4>2. QED BY <4>1, <2>4, <2>6
    <3>2. CASE i = j
      <4>1. g[i] = Step(e, i)
        BY <3>2, <2>6 DEF v
      <4>2. Step(g, i) = Step(e, i)
        BY <3>0, <3>1
      <4>3. QED BY <4>1, <4>2
    <3>3. CASE i # j
      <4>1. j > 0 /\ i \in 0 .. j - 1 /\ g[i] = e[i]
        BY <3>3, <2>4, <2>6
      <4>2. e[i] = Step(e, i)
        BY <4>1, <2>3
      <4>3. Step(g, i) = Step(e, i)
        BY <3>0, <3>1
      <4>4. QED BY <4>1, <4>2, <4>3
    <3>4. QED BY <3>2, <3>3
  <2>8. Sol(g, j)
    BY <2>6, <2>7
  <2>9. QED
    BY <2>8, <2>4
<1> DEFINE Chosen(n) == CHOOSE g : Sol(g, n)
           f == [n \in Nat |-> Chosen(n)[n]]
<1>3. ASSUME NEW n \in Nat PROVE Sol(Chosen(n), n)
  <2> HIDE DEF Sol
  <2> QED BY <1>2
<1>4. f \in [Nat -> X]
  <2>1. \A n \in Nat : Chosen(n)[n] \in X
    <3> HIDE DEF Chosen
    <3> QED BY <1>3
  <2> HIDE DEF Chosen
  <2> QED BY <2>1
<1>5. ASSUME NEW n \in Nat PROVE f[n] = Step(f, n)
  <2>1. Chosen(n)[n] = Step(Chosen(n), n)
    <3> HIDE DEF Chosen
    <3>1. Sol(Chosen(n), n) /\ n \in 0 .. n
      BY <1>3
    <3>2. QED BY <3>1
  <2>2. CASE n < b
    <3> HIDE DEF Chosen
    <3> QED BY <2>1, <2>2
  <2>3. CASE n >= b
    <3>1. d[n] \in Nat /\ d[n] < n
      BY <2>3
    <3>2. Chosen(n)[d[n]] = Chosen(d[n])[d[n]]
      <4> HIDE DEF Chosen, Sol
      <4>1. Sol(Chosen(n), n) /\ Sol(Chosen(d[n]), d[n])
        BY <1>3, <3>1
      <4>2. QED BY <4>1, <3>1, <1>1
    <3> HIDE DEF Chosen
    <3>3. QED BY <2>1, <2>3, <3>1, <3>2
  <2>4. QED BY <2>2, <2>3
<1>6. QED
  <2>1. Descends(f, b, B, G, d)
    <3> HIDE DEF f
    <3> QED BY <1>5 DEF Descends
  <2>2. QED BY <1>4, <2>1

(* Remainders *)
LEMMA RemainderIs ==
  ASSUME NEW n \in Nat \ {0}, NEW q \in Int, NEW r \in 0 .. n - 1
  PROVE  (n * q + r) % n = r
OBVIOUS

LEMMA Remainder ==
  ASSUME NEW n \in Nat \ {0}, NEW a \in Int
  PROVE  a % n \in 0 .. n - 1 /\ a = n * (a \div n) + (a % n) /\ a \div n \in Int
OBVIOUS
=============================================================================
