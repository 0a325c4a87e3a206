-------------------------- MODULE SideBySideProofs ---------------------------
(***************************************************************************)
(* What holds of notifier chains, of the out of memory killer, of          *)
(* teletypes, of QSH and of the shell, for every size of ring, line and    *)
(* table; and, with the invariants of ServicesProofs, of all the services  *)
(* side by side.                                                           *)
(***************************************************************************)
EXTENDS ServicesProofs

-----------------------------------------------------------------------------
(* Notifier chains *)

BlockOrNil == Blocks \union {Nil}

\* The i-th block of a sequence, Nil where there is none
BlockAt(s, i) == IF i \in 1 .. Len(s) THEN s[i] ELSE Nil

Apart(s) == \A i, j \in 1 .. Len(s) : s[i] = s[j] => i = j
Within(s, b) == \E i \in 1 .. Len(s) : s[i] = b

\* The links of a chain lead through the blocks of s
Leads(h, nx, s) ==
  /\ s \in Seq(Blocks) /\ Apart(s) /\ nx \in [Blocks -> BlockOrNil] /\ h = BlockAt(s, 1)
  /\ \A i \in 1 .. Len(s) : nx[s[i]] = BlockAt(s, i + 1)

InOrder(ord, s) == \A i, j \in 1 .. Len(s) : i < j => ComesFirst(ord, s[i], s[j])

\* The call under way goes on with block p of s
GoesOn(s, p) ==
  /\ call \in Blocks /\ p \in 1 .. Len(s) + 1 /\ next[call] = BlockAt(s, p)
  /\ Within(s, call) => p > 1 /\ s[p - 1] = call
  /\ \A i \in 1 .. Len(s) : s[i] \in stayed => (Within(visited, s[i]) <=> i < p)

ChainIs(s) ==
  /\ Leads(head, next, s)
  /\ order \in Seq(Blocks) /\ Apart(order) /\ Len(order) = Len(s)
  /\ \A b \in Blocks : Within(order, b) <=> Within(s, b)
  /\ InOrder(order, s)

VisitsAre(s) ==
  /\ visited \in Seq(Blocks) /\ stayed \subseteq Blocks /\ \A b \in stayed : Within(s, b)
  /\ \A i, j \in 1 .. Len(visited) :
       i < j /\ visited[i] \in stayed /\ visited[j] \in stayed => ComesFirst(order, visited[i], visited[j])
  /\ call = Nil /\ ~stopped => \A b \in stayed : Within(visited, b)
  /\ call # Nil => \E p \in 1 .. Len(s) + 1 : GoesOn(s, p)

ChainInv == \E s \in Seq(Blocks) : ChainIs(s) /\ VisitsAre(s)

LEMMA BlocksKnown ==
  IsFiniteSet(Blocks) /\ Nil \notin Blocks /\ Priority \in [Blocks -> Int] /\ Cardinality(Blocks) \in Nat
BY ServicesAssumption, FS_CardinalityType DEF ServicesAssumption

-----------------------------------------------------------------------------
(* The walk over a chain *)

WalkedBody(f, first, after) ==
  [k \in 0 .. Cardinality(Blocks) |->
     IF k = 0 THEN << >>
     ELSE LET at == IF k = 1 THEN first ELSE IF f[k - 1] = << >> THEN Nil ELSE after[Last(f[k - 1])]
          IN IF at = Nil \/ Len(f[k - 1]) < k - 1 THEN f[k - 1] ELSE Append(f[k - 1], at)]

\* One step of the walk, from the blocks t that it has met
WalksTo(t, k, first, after) ==
  LET at == IF k = 1 THEN first ELSE IF t = << >> THEN Nil ELSE after[Last(t)]
  IN IF at = Nil \/ Len(t) < k - 1 THEN t ELSE Append(t, at)

LEMMA GreatestElement ==
  ASSUME NEW n \in Nat, NEW T, T \subseteq 1 .. n, T # {}
  PROVE  \E m \in T : \A k \in T : k <= m
<1> DEFINE U == {n - x : x \in T}
<1>1. U \subseteq Nat /\ U # {}
  <2>1. ASSUME NEW x \in T PROVE n - x \in Nat
    <3>1. x \in 1 .. n
      OBVIOUS
    <3>2. QED BY <3>1
  <2>2. QED BY <2>1
<1>2. PICK u \in U : \A v \in U : u <= v
  <2> HIDE DEF U
  <2> QED BY <1>1, LeastElement
<1>3. PICK m \in T : u = n - m
  BY <1>2
<1>4. ASSUME NEW k \in T PROVE k <= m
  <2>1. n - m <= n - k
    BY <1>2, <1>3
  <2>2. k \in Nat /\ m \in Nat
    OBVIOUS
  <2>3. QED BY <2>1, <2>2
<1>5. QED BY <1>4

LEMMA ChainFits ==
  ASSUME NEW s \in Seq(Blocks), Apart(s)
  PROVE  Len(s) <= Cardinality(Blocks)
<1> DEFINE n == Len(s)
           f == [i \in 1 .. n |-> s[i]]
<1>1. n \in Nat
  OBVIOUS
<1>2. f \in Injection(1 .. n, Blocks)
  BY DEF Injection, IsInjective, Apart
<1>3. IsFiniteSet(1 .. n) /\ Cardinality(1 .. n) = n
  <2> HIDE DEF n, f
  <2>1. IsFiniteSet(1 .. n) /\ Cardinality(1 .. n) = IF 1 > n THEN 0 ELSE n - 1 + 1
    BY <1>1, FS_Interval
  <2>2. QED BY <1>1, <2>1
<1>4. Cardinality(1 .. n) <= Cardinality(Blocks)
  <2> HIDE DEF n, f
  <2> QED BY <1>2, <1>3, BlocksKnown, FS_Injection
<1>5. QED BY <1>3, <1>4

LEMMA WalkStep ==
  ASSUME NEW h, NEW nx, NEW s, Leads(h, nx, s), NEW k \in Nat \ {0}
  PROVE  LET Met(i) == SubSeq(s, 1, IF i < Len(s) THEN i ELSE Len(s)) IN
         WalksTo(Met(k - 1), k, h, nx) = Met(k)
<1> DEFINE n == Len(s)
           Met(i) == SubSeq(s, 1, IF i < n THEN i ELSE n)
           t == Met(k - 1)
<1>1. s \in Seq(Blocks) /\ n \in Nat /\ h = BlockAt(s, 1) /\ \A i \in 1 .. n : nx[s[i]] = BlockAt(s, i + 1)
  BY DEF Leads
<1>2. \A i \in 1 .. n : s[i] \in Blocks /\ s[i] # Nil
  BY <1>1, BlocksKnown
<1>3. CASE k <= n
  <2>1. t = SubSeq(s, 1, k - 1) /\ Met(k) = SubSeq(s, 1, k)
    BY <1>1, <1>3
  <2>2. Len(t) = k - 1 /\ t \in Seq(Blocks) /\ \A i \in 1 .. k - 1 : t[i] = s[i]
    BY <1>1, <1>3, <2>1
  <2>3. Append(t, s[k]) = SubSeq(s, 1, k)
    <3> DEFINE u == SubSeq(s, 1, k)
               v == Append(t, s[k])
    <3>1. s[k] \in Blocks
      BY <1>2, <1>3
    <3>2. u \in Seq(Blocks) /\ Len(u) = k /\ \A i \in 1 .. k : u[i] = s[i]
      BY <1>1, <1>3
    <3> HIDE DEF t
    <3>3. v \in Seq(Blocks) /\ Len(v) = k /\ v[k] = s[k] /\ \A i \in 1 .. k - 1 : v[i] = t[i]
      BY <2>2, <3>1
    <3> HIDE DEF u, v
    <3>4. \A i \in 1 .. k : v[i] = u[i]
      <4> TAKE i \in 1 .. k
      <4>1. i = k \/ i \in 1 .. k - 1
        OBVIOUS
      <4>2. QED BY <2>2, <3>2, <3>3, <4>1
    <3>5. v = u
      BY <3>2, <3>3, <3>4, SeqEqual
    <3>6. QED BY <3>5 DEF u, v
  <2> HIDE DEF t, n, Met
  <2>4. (IF k = 1 THEN h ELSE IF t = << >> THEN Nil ELSE nx[Last(t)]) = s[k]
    <3>1. CASE k = 1
      <4>1. 1 \in 1 .. n
        BY <1>1, <1>3, <3>1
      <4>2. QED BY <1>1, <3>1, <4>1 DEF BlockAt, n
    <3>2. CASE k # 1
      <4>1. k - 1 \in 1 .. n /\ k - 1 \in 1 .. k - 1 /\ (k - 1) + 1 = k /\ k \in 1 .. n
        BY <1>1, <1>3, <3>2
      <4>2. Last(t) = s[k - 1] /\ t # << >>
        BY <2>2, <4>1 DEF Last
      <4>3. nx[s[k - 1]] = s[k]
        BY <1>1, <4>1 DEF BlockAt, n
      <4>4. QED BY <3>2, <4>2, <4>3
    <3>3. QED BY <3>1, <3>2
  <2>5. s[k] # Nil /\ ~(Len(t) < k - 1)
    <3>1. k \in 1 .. n
      BY <1>1, <1>3
    <3>2. QED BY <1>2, <2>2, <3>1
  <2>6. WalksTo(t, k, h, nx) = Append(t, s[k])
    BY <2>4, <2>5 DEF WalksTo
  <2>7. QED BY <2>1, <2>3, <2>6 DEF t, n, Met
<1>4. CASE k > n
  <2>1. t = SubSeq(s, 1, n) /\ Met(k) = SubSeq(s, 1, n)
    BY <1>1, <1>4
  <2>2. t = s
    BY <1>1, <2>1
  <2> HIDE DEF t, n, Met
  <2>3. WalksTo(t, k, h, nx) = t
    <3>1. CASE Len(t) < k - 1
      BY <3>1 DEF WalksTo
    <3>2. CASE ~(Len(t) < k - 1)
      <4>1. k = n + 1 /\ Len(s) = n
        BY <1>1, <1>4, <2>2, <3>2 DEF n
      <4>2. CASE n = 0
        <5>1. k = 1 /\ h = Nil
          <6>1. ~(1 \in 1 .. Len(s))
            BY <4>1, <4>2
          <6>2. QED BY <1>1, <4>1, <4>2, <6>1 DEF BlockAt
        <5>2. QED BY <5>1 DEF WalksTo
      <4>3. CASE n # 0
        <5>1. k # 1 /\ n \in 1 .. n /\ ~(n + 1 \in 1 .. Len(s))
          BY <1>1, <4>1, <4>3
        <5>2. nx[s[n]] = Nil
          BY <1>1, <5>1 DEF BlockAt
        <5>3. Last(t) = s[n] /\ t # << >>
          BY <1>1, <2>2, <4>1, <4>3 DEF Last
        <5>4. QED BY <5>1, <5>2, <5>3 DEF WalksTo
      <4>4. QED BY <4>2, <4>3
    <3>3. QED BY <3>1, <3>2
  <2>4. QED BY <2>1, <2>3 DEF t, n, Met
<1>5. QED BY <1>1, <1>3, <1>4

LEMMA WalkMeets ==
  ASSUME NEW h, NEW nx, NEW s, Leads(h, nx, s)
  PROVE  Walked(h, nx) = s
<1> DEFINE N == Cardinality(Blocks)
           n == Len(s)
           Met(i) == SubSeq(s, 1, IF i < n THEN i ELSE n)
           g == [k \in 0 .. N |-> Met(k)]
<1>1. N \in Nat /\ s \in Seq(Blocks) /\ n \in Nat /\ n <= N
  BY BlocksKnown, ChainFits DEF Leads
<1>2. ASSUME NEW k \in Nat \ {0} PROVE WalksTo(Met(k - 1), k, h, nx) = Met(k)
  BY WalkStep
<1>3. Met(0) = << >> /\ Met(N) = s
  <2>1. Met(0) = SubSeq(s, 1, 0) /\ Met(N) = SubSeq(s, 1, n)
    BY <1>1
  <2>2. QED BY <1>1, <2>1
<1> HIDE DEF Met, N, n
<1>4. g = WalkedBody(g, h, nx)
  <2>1. \A k \in 0 .. N : g[k] = IF k = 0 THEN << >> ELSE WalksTo(g[k - 1], k, h, nx)
    <3> TAKE k \in 0 .. N
    <3>1. CASE k = 0
      BY <1>3, <3>1
    <3>2. CASE k # 0
      <4>1. k \in Nat \ {0} /\ k - 1 \in 0 .. N
        BY <1>1, <3>2
      <4>2. QED BY <1>2, <3>2, <4>1
    <3>3. QED BY <3>1, <3>2
  <2>2. g = [k \in 0 .. N |-> g[k]]
    OBVIOUS
  <2> HIDE DEF g
  <2>3. WalkedBody(g, h, nx) = [k \in 0 .. N |-> IF k = 0 THEN << >> ELSE WalksTo(g[k - 1], k, h, nx)]
    BY DEF WalkedBody, WalksTo, N
  <2>4. QED BY <2>1, <2>2, <2>3
<1> DEFINE f == CHOOSE e : e = WalkedBody(e, h, nx)
<1>5. f = WalkedBody(f, h, nx)
  BY <1>4
<1>6. Walked(h, nx) = f[N]
  BY DEF Walked, WalkedBody, N
<1> HIDE DEF f, g
<1>7. f[0] = << >> /\ \A k \in 1 .. N : f[k] = WalksTo(f[k - 1], k, h, nx)
  <2>1. WalkedBody(f, h, nx)[0] = << >>
    BY <1>1 DEF WalkedBody, N
  <2>2. ASSUME NEW k \in 1 .. N PROVE WalkedBody(f, h, nx)[k] = WalksTo(f[k - 1], k, h, nx)
    <3>1. k \in 0 .. N /\ k # 0
      BY <1>1
    <3>2. QED BY <3>1 DEF WalkedBody, WalksTo, N
  <2>3. \A k \in 0 .. N : f[k] = WalkedBody(f, h, nx)[k]
    BY <1>5
  <2>4. 0 \in 0 .. N /\ \A k \in 1 .. N : k \in 0 .. N
    BY <1>1
  <2>5. QED BY <2>1, <2>2, <2>3, <2>4
<1> DEFINE S == {k \in 0 .. N : f[k] = Met(k)}
<1>8. \A k \in 0 .. N : k \in S
  <2>1. 0 \in S
    BY <1>1, <1>3, <1>7
  <2>2. ASSUME NEW k \in 1 .. N, (k - 1) \in S PROVE k \in S
    <3>1. f[k - 1] = Met(k - 1) /\ k \in Nat \ {0} /\ k \in 0 .. N
      BY <1>1, <2>2
    <3>2. QED BY <1>2, <1>7, <3>1
  <2> HIDE DEF S
  <2>3. QED BY <1>1, <2>1, <2>2, SetInduction
<1>9. f[N] = Met(N)
  <2>1. N \in S
    BY <1>1, <1>8
  <2>2. QED BY <2>1
<1>10. QED BY <1>3, <1>6, <1>9

-----------------------------------------------------------------------------
(* Blocks that are put into a sequence and taken out *)

\* s with n behind its first k blocks
WithBlock(s, k, n) == [i \in 1 .. Len(s) + 1 |-> IF i <= k THEN s[i] ELSE IF i = k + 1 THEN n ELSE s[i - 1]]
\* s without its k-th block
WithoutBlock(s, k) == [i \in 1 .. Len(s) - 1 |-> IF i < k THEN s[i] ELSE s[i + 1]]

LEMMA PutIs ==
  ASSUME NEW s \in Seq(Blocks), NEW n \in Blocks, NEW k \in 0 .. Len(s)
  PROVE  /\ WithBlock(s, k, n) \in Seq(Blocks) /\ Len(WithBlock(s, k, n)) = Len(s) + 1
         /\ \A i \in 1 .. k : WithBlock(s, k, n)[i] = s[i]
         /\ WithBlock(s, k, n)[k + 1] = n
         /\ \A i \in k + 1 .. Len(s) : WithBlock(s, k, n)[i + 1] = s[i]
<1> DEFINE m == Len(s)
           F(i) == IF i <= k THEN s[i] ELSE IF i = k + 1 THEN n ELSE s[i - 1]
           p == [i \in 1 .. m + 1 |-> F(i)]
<1>1. m \in Nat /\ k \in 0 .. m
  OBVIOUS
<1>2. \A i \in 1 .. m : s[i] \in Blocks
  OBVIOUS
<1> HIDE DEF m
<1>3. \A i \in 1 .. m + 1 : F(i) \in Blocks
  <2> TAKE i \in 1 .. m + 1
  <2>1. CASE i <= k
    <3>1. i \in 1 .. m
      BY <1>1, <2>1
    <3>2. QED BY <1>2, <2>1, <3>1
  <2>2. CASE i = k + 1
    BY <1>1, <2>2
  <2>3. CASE i > k + 1
    <3>1. i - 1 \in 1 .. m /\ ~(i <= k) /\ i # k + 1
      BY <1>1, <2>3
    <3>2. QED BY <1>2, <3>1
  <2>4. QED BY <1>1, <2>1, <2>2, <2>3
<1>4. p \in Seq(Blocks) /\ Len(p) = m + 1
  <2> HIDE DEF F
  <2>1. m + 1 \in Nat
    BY <1>1
  <2>2. QED BY <1>3, <2>1
<1>5. (\A i \in 1 .. k : p[i] = s[i]) /\ p[k + 1] = n /\ \A i \in k + 1 .. m : p[i + 1] = s[i]
  BY <1>1
<1>6. WithBlock(s, k, n) = p
  BY DEF WithBlock, m
<1>7. QED BY <1>4, <1>5, <1>6 DEF m

LEMMA OutIs ==
  ASSUME NEW s \in Seq(Blocks), NEW k \in 1 .. Len(s)
  PROVE  /\ WithoutBlock(s, k) \in Seq(Blocks) /\ Len(WithoutBlock(s, k)) = Len(s) - 1
         /\ \A i \in 1 .. k - 1 : WithoutBlock(s, k)[i] = s[i]
         /\ \A i \in k .. Len(s) - 1 : WithoutBlock(s, k)[i] = s[i + 1]
         /\ RemoveAt(s, k) = WithoutBlock(s, k)
<1> DEFINE m == Len(s)
           o == WithoutBlock(s, k)
           a == SubSeq(s, 1, k - 1)
           b == SubSeq(s, k + 1, m)
<1>1. m \in Nat /\ k \in 1 .. m /\ \A i \in 1 .. m : s[i] \in Blocks
  OBVIOUS
<1>2. o \in Seq(Blocks) /\ Len(o) = m - 1
  <2>1. \A i \in 1 .. m - 1 : (IF i < k THEN s[i] ELSE s[i + 1]) \in Blocks
    BY <1>1
  <2>2. m - 1 \in Nat
    BY <1>1
  <2> HIDE DEF m
  <2>3. QED BY <2>1, <2>2 DEF WithoutBlock, m
<1>3. (\A i \in 1 .. k - 1 : o[i] = s[i]) /\ \A i \in k .. m - 1 : o[i] = s[i + 1]
  BY <1>1 DEF WithoutBlock
<1>4. a \in Seq(Blocks) /\ Len(a) = k - 1 /\ \A i \in 1 .. k - 1 : a[i] = s[i]
  BY <1>1
<1>5. b \in Seq(Blocks) /\ Len(b) = m - k /\ \A i \in 1 .. m - k : b[i] = s[k + i]
  BY <1>1
<1>6. RemoveAt(s, k) = a \o b
  BY DEF RemoveAt
<1> HIDE DEF o, a, b, m
<1>7. a \o b \in Seq(Blocks) /\ Len(a \o b) = m - 1
  <2>1. a \o b \in Seq(Blocks) /\ Len(a \o b) = Len(a) + Len(b)
    BY <1>4, <1>5, ConcatProperties
  <2>2. (k - 1) + (m - k) = m - 1
    BY <1>1
  <2>3. QED BY <1>4, <1>5, <2>1, <2>2
<1>8. \A i \in 1 .. m - 1 : (a \o b)[i] = o[i]
  <2> TAKE i \in 1 .. m - 1
  <2>1. CASE i < k
    <3>1. i \in 1 .. k - 1
      BY <2>1
    <3>2. (a \o b)[i] = a[i]
      BY <1>4, <1>5, <3>1
    <3>3. QED BY <1>3, <1>4, <3>1, <3>2
  <2>2. CASE ~(i < k)
    <3>1. i \in k .. m - 1 /\ i - (k - 1) \in 1 .. m - k /\ k + (i - (k - 1)) = i + 1
      BY <1>1, <2>2
    <3>2. (a \o b)[i] = b[i - (k - 1)]
      <4>1. i \in 1 .. Len(a) + Len(b) /\ i > Len(a)
        BY <1>1, <1>4, <1>5, <2>2
      <4>2. QED BY <1>4, <1>5, <4>1
    <3>3. b[i - (k - 1)] = s[k + (i - (k - 1))]
      BY <1>5, <3>1
    <3>4. QED BY <1>3, <3>1, <3>2, <3>3
  <2>3. QED BY <2>1, <2>2
<1>9. a \o b = o
  <2> DEFINE c == a \o b
  <2>1. c \in Seq(Blocks) /\ Len(c) = Len(o) /\ \A i \in 1 .. Len(c) : c[i] = o[i]
    BY <1>2, <1>7, <1>8
  <2> HIDE DEF c
  <2>2. c = o
    BY <1>2, <2>1, SeqEqual
  <2>3. QED BY <2>2 DEF c
<1>10. QED BY <1>2, <1>3, <1>6, <1>9 DEF o, m

\* Where the blocks of a longer sequence come from
LEMMA PutWhere ==
  ASSUME NEW s \in Seq(Blocks), NEW n \in Blocks, NEW k \in 0 .. Len(s), NEW i \in 1 .. Len(s) + 1
  PROVE  \/ i <= k /\ i \in 1 .. Len(s) /\ WithBlock(s, k, n)[i] = s[i]
         \/ i = k + 1 /\ WithBlock(s, k, n)[i] = n
         \/ i > k + 1 /\ i - 1 \in 1 .. Len(s) /\ WithBlock(s, k, n)[i] = s[i - 1]
<1>1. Len(s) \in Nat
  OBVIOUS
<1>2. CASE i <= k
  <2>1. i \in 1 .. k /\ i \in 1 .. Len(s)
    BY <1>1, <1>2
  <2>2. QED BY <1>2, <2>1, PutIs
<1>3. CASE i = k + 1
  BY <1>3, PutIs
<1>4. CASE i > k + 1
  <2>1. i - 1 \in k + 1 .. Len(s) /\ (i - 1) + 1 = i /\ i - 1 \in 1 .. Len(s)
    BY <1>1, <1>4
  <2>2. WithBlock(s, k, n)[(i - 1) + 1] = s[i - 1]
    BY <2>1, PutIs
  <2>3. QED BY <1>4, <2>1, <2>2
<1>5. QED BY <1>1, <1>2, <1>3, <1>4

LEMMA PutApart ==
  ASSUME NEW s \in Seq(Blocks), Apart(s), NEW n \in Blocks, NEW k \in 0 .. Len(s), ~Within(s, n)
  PROVE  Apart(WithBlock(s, k, n)) /\ \A b \in Blocks : Within(WithBlock(s, k, n), b) <=> Within(s, b) \/ b = n
<1> DEFINE p == WithBlock(s, k, n)
           m == Len(s)
<1>1. m \in Nat /\ k \in 0 .. m /\ Len(p) = m + 1
  BY PutIs
<1>2. \A i \in 1 .. m : s[i] # n
  BY DEF Within
<1>3. \A i \in 1 .. m + 1 : \/ i <= k /\ i \in 1 .. m /\ p[i] = s[i]
                            \/ i = k + 1 /\ p[i] = n
                            \/ i > k + 1 /\ i - 1 \in 1 .. m /\ p[i] = s[i - 1]
  BY PutWhere
<1>4. \A i, j \in 1 .. m : s[i] = s[j] => i = j
  BY DEF Apart
<1> HIDE DEF p, m
<1>5. Apart(p)
  <2> SUFFICES ASSUME NEW i \in 1 .. m + 1, NEW j \in 1 .. m + 1, p[i] = p[j] PROVE i = j
    BY <1>1 DEF Apart
  <2>1. \/ i <= k /\ i \in 1 .. m /\ p[i] = s[i]
        \/ i = k + 1 /\ p[i] = n
        \/ i > k + 1 /\ i - 1 \in 1 .. m /\ p[i] = s[i - 1]
    BY <1>3
  <2>2. \/ j <= k /\ j \in 1 .. m /\ p[j] = s[j]
        \/ j = k + 1 /\ p[j] = n
        \/ j > k + 1 /\ j - 1 \in 1 .. m /\ p[j] = s[j - 1]
    BY <1>3
  <2>3. \A x, y \in 1 .. m : s[x] = s[y] => x = y
    BY <1>4
  <2>4. QED BY <1>1, <1>2, <2>1, <2>2, <2>3
<1>6. ASSUME NEW b \in Blocks PROVE Within(p, b) <=> Within(s, b) \/ b = n
  <2>1. ASSUME Within(p, b) PROVE Within(s, b) \/ b = n
    <3>1. PICK i \in 1 .. m + 1 : p[i] = b
      BY <1>1, <2>1 DEF Within
    <3>2. QED BY <1>3, <3>1 DEF Within, m
  <2>2. ASSUME Within(s, b) PROVE Within(p, b)
    <3>1. PICK i \in 1 .. m : s[i] = b
      BY <2>2 DEF Within, m
    <3>2. CASE i <= k
      <4>1. i \in 1 .. k /\ i \in 1 .. m + 1
        BY <1>1, <3>2
      <4>2. p[i] = s[i]
        BY <4>1, PutIs DEF p
      <4>3. QED BY <1>1, <3>1, <4>1, <4>2 DEF Within
    <3>3. CASE i > k
      <4>1. i \in k + 1 .. m /\ i + 1 \in 1 .. m + 1
        BY <1>1, <3>3
      <4>2. p[i + 1] = s[i]
        BY <4>1, PutIs DEF p, m
      <4>3. QED BY <1>1, <3>1, <4>1, <4>2 DEF Within
    <3>4. QED BY <1>1, <3>2, <3>3
  <2>3. ASSUME b = n PROVE Within(p, b)
    <3>1. k + 1 \in 1 .. m + 1 /\ p[k + 1] = n
      BY <1>1, PutIs DEF p
    <3>2. QED BY <1>1, <2>3, <3>1 DEF Within
  <2>4. QED BY <2>1, <2>2, <2>3
<1>7. QED BY <1>5, <1>6 DEF p

LEMMA OutWhere ==
  ASSUME NEW s \in Seq(Blocks), NEW k \in 1 .. Len(s), NEW i \in 1 .. Len(s) - 1
  PROVE  \/ i < k /\ i \in 1 .. Len(s) /\ WithoutBlock(s, k)[i] = s[i]
         \/ i >= k /\ i + 1 \in 1 .. Len(s) /\ WithoutBlock(s, k)[i] = s[i + 1]
<1>1. Len(s) \in Nat
  OBVIOUS
<1>2. CASE i < k
  <2>1. i \in 1 .. k - 1 /\ i \in 1 .. Len(s)
    BY <1>1, <1>2
  <2>2. QED BY <1>2, <2>1, OutIs
<1>3. CASE i >= k
  <2>1. i \in k .. Len(s) - 1 /\ i + 1 \in 1 .. Len(s)
    BY <1>1, <1>3
  <2>2. QED BY <1>3, <2>1, OutIs
<1>4. QED BY <1>1, <1>2, <1>3

LEMMA OutApart ==
  ASSUME NEW s \in Seq(Blocks), Apart(s), NEW k \in 1 .. Len(s)
  PROVE  Apart(WithoutBlock(s, k)) /\ \A b \in Blocks : Within(WithoutBlock(s, k), b) <=> Within(s, b) /\ b # s[k]
<1> DEFINE o == WithoutBlock(s, k)
           m == Len(s)
<1>1. m \in Nat /\ k \in 1 .. m /\ Len(o) = m - 1
  BY OutIs
<1>3. \A i \in 1 .. m - 1 : \/ i < k /\ i \in 1 .. m /\ o[i] = s[i]
                            \/ i >= k /\ i + 1 \in 1 .. m /\ o[i] = s[i + 1]
  BY OutWhere
<1>4. \A i, j \in 1 .. m : s[i] = s[j] => i = j
  BY DEF Apart
<1> HIDE DEF o, m
<1>5. Apart(o)
  <2> SUFFICES ASSUME NEW i \in 1 .. m - 1, NEW j \in 1 .. m - 1, o[i] = o[j] PROVE i = j
    BY <1>1 DEF Apart
  <2>1. (i < k /\ i \in 1 .. m /\ o[i] = s[i]) \/ (i >= k /\ i + 1 \in 1 .. m /\ o[i] = s[i + 1])
    BY <1>3
  <2>2. (j < k /\ j \in 1 .. m /\ o[j] = s[j]) \/ (j >= k /\ j + 1 \in 1 .. m /\ o[j] = s[j + 1])
    BY <1>3
  <2>3. \A x, y \in 1 .. m : s[x] = s[y] => x = y
    BY <1>4
  <2>4. CASE i < k /\ i \in 1 .. m /\ o[i] = s[i]
    <3>1. CASE j < k /\ j \in 1 .. m /\ o[j] = s[j]
      BY <2>3, <2>4, <3>1
    <3>2. CASE j >= k /\ j + 1 \in 1 .. m /\ o[j] = s[j + 1]
      <4>1. i = j + 1
        BY <2>3, <2>4, <3>2
      <4>2. QED BY <1>1, <2>4, <3>2, <4>1
    <3>3. QED BY <2>2, <3>1, <3>2
  <2>5. CASE i >= k /\ i + 1 \in 1 .. m /\ o[i] = s[i + 1]
    <3>1. CASE j < k /\ j \in 1 .. m /\ o[j] = s[j]
      <4>1. i + 1 = j
        BY <2>3, <2>5, <3>1
      <4>2. QED BY <1>1, <2>5, <3>1, <4>1
    <3>2. CASE j >= k /\ j + 1 \in 1 .. m /\ o[j] = s[j + 1]
      <4>1. i + 1 = j + 1
        BY <2>3, <2>5, <3>2
      <4>2. QED BY <1>1, <4>1
    <3>3. QED BY <2>2, <3>1, <3>2
  <2>6. QED BY <2>1, <2>4, <2>5
<1>6. ASSUME NEW b \in Blocks PROVE Within(o, b) <=> Within(s, b) /\ b # s[k]
  <2>1. ASSUME Within(o, b) PROVE Within(s, b) /\ b # s[k]
    <3>1. PICK i \in 1 .. m - 1 : o[i] = b
      BY <1>1, <2>1 DEF Within
    <3>2. PICK j \in 1 .. m : b = s[j] /\ j # k
      <4>1. (i < k /\ i \in 1 .. m /\ o[i] = s[i]) \/ (i >= k /\ i + 1 \in 1 .. m /\ o[i] = s[i + 1])
        BY <1>3
      <4>2. i # k \/ i + 1 # k
        BY <1>1
      <4>3. CASE i < k /\ i \in 1 .. m /\ o[i] = s[i]
        BY <1>1, <3>1, <4>3
      <4>4. CASE i >= k /\ i + 1 \in 1 .. m /\ o[i] = s[i + 1]
        <5>1. i + 1 # k
          BY <1>1, <4>4
        <5>2. QED BY <3>1, <4>4, <5>1
      <4>5. QED BY <4>1, <4>3, <4>4
    <3>3. QED BY <1>1, <1>4, <3>2 DEF Within, m
  <2>2. ASSUME Within(s, b), b # s[k] PROVE Within(o, b)
    <3>1. PICK i \in 1 .. m : s[i] = b
      BY <2>2 DEF Within, m
    <3>2. CASE i < k
      <4>1. i \in 1 .. k - 1 /\ i \in 1 .. m - 1
        BY <1>1, <3>2
      <4>2. o[i] = s[i]
        BY <4>1, OutIs DEF o
      <4>3. QED BY <1>1, <3>1, <4>1, <4>2 DEF Within
    <3>3. CASE i > k
      <4>1. i - 1 \in k .. m - 1 /\ i - 1 \in 1 .. m - 1 /\ (i - 1) + 1 = i
        BY <1>1, <3>3
      <4>2. o[i - 1] = s[(i - 1) + 1]
        BY <4>1, OutIs DEF o, m
      <4>3. QED BY <1>1, <3>1, <4>1, <4>2 DEF Within
    <3>4. QED BY <1>1, <2>2, <3>1, <3>2, <3>3
  <2>3. QED BY <2>1, <2>2
<1>7. QED BY <1>5, <1>6 DEF o

LEMMA WithAt ==
  ASSUME NEW s \in Seq(Blocks), NEW n \in Blocks, NEW k \in 0 .. Len(s), NEW j \in Nat \ {0}
  PROVE  /\ j <= k => BlockAt(WithBlock(s, k, n), j) = BlockAt(s, j)
         /\ j = k + 1 => BlockAt(WithBlock(s, k, n), j) = n
         /\ j > k + 1 => BlockAt(WithBlock(s, k, n), j) = BlockAt(s, j - 1)
<1> DEFINE p == WithBlock(s, k, n)
           m == Len(s)
<1>1. m \in Nat /\ k \in 0 .. m /\ Len(p) = m + 1
  BY PutIs
<1>2. ASSUME j \in 1 .. m + 1
      PROVE  \/ j <= k /\ j \in 1 .. m /\ p[j] = s[j]
             \/ j = k + 1 /\ p[j] = n
             \/ j > k + 1 /\ j - 1 \in 1 .. m /\ p[j] = s[j - 1]
  BY <1>2, PutWhere
<1> HIDE DEF p, m
<1>3. CASE j <= k
  <2>1. j \in 1 .. m /\ j \in 1 .. m + 1 /\ ~(j = k + 1) /\ ~(j > k + 1)
    BY <1>1, <1>3
  <2>2. p[j] = s[j]
    BY <1>2, <2>1
  <2>3. BlockAt(p, j) = p[j] /\ BlockAt(s, j) = s[j]
    BY <1>1, <2>1 DEF BlockAt, m
  <2>4. QED BY <2>1, <2>2, <2>3 DEF p
<1>4. CASE j = k + 1
  <2>1. j \in 1 .. m + 1 /\ ~(j <= k) /\ ~(j > k + 1)
    BY <1>1, <1>4
  <2>2. p[j] = n
    BY <1>2, <2>1
  <2>3. BlockAt(p, j) = p[j]
    BY <1>1, <2>1 DEF BlockAt
  <2>4. QED BY <2>1, <2>2, <2>3 DEF p
<1>5. CASE j > k + 1
  <2>0. ~(j <= k) /\ ~(j = k + 1)
    BY <1>1, <1>5
  <2>1. CASE j \in 1 .. m + 1
    <3>1. j - 1 \in 1 .. m /\ p[j] = s[j - 1]
      BY <1>2, <2>0, <2>1
    <3>2. BlockAt(p, j) = p[j] /\ BlockAt(s, j - 1) = s[j - 1]
      BY <1>1, <2>1, <3>1 DEF BlockAt, m
    <3>3. QED BY <2>0, <3>1, <3>2 DEF p
  <2>2. CASE j \notin 1 .. m + 1
    <3>1. j - 1 \notin 1 .. m
      BY <1>1, <2>2
    <3>2. BlockAt(p, j) = Nil /\ BlockAt(s, j - 1) = Nil
      BY <1>1, <2>2, <3>1 DEF BlockAt, m
    <3>3. QED BY <2>0, <3>2 DEF p
  <2>3. QED BY <2>1, <2>2
<1>6. QED BY <1>1, <1>3, <1>4, <1>5

LEMMA WithoutAt ==
  ASSUME NEW s \in Seq(Blocks), NEW k \in 1 .. Len(s), NEW j \in Nat \ {0}
  PROVE  /\ j < k => BlockAt(WithoutBlock(s, k), j) = BlockAt(s, j)
         /\ j >= k => BlockAt(WithoutBlock(s, k), j) = BlockAt(s, j + 1)
<1> DEFINE o == WithoutBlock(s, k)
           m == Len(s)
<1>1. m \in Nat /\ k \in 1 .. m /\ Len(o) = m - 1
  BY OutIs
<1>2. ASSUME j \in 1 .. m - 1
      PROVE  \/ j < k /\ j \in 1 .. m /\ o[j] = s[j]
             \/ j >= k /\ j + 1 \in 1 .. m /\ o[j] = s[j + 1]
  BY <1>2, OutWhere
<1> HIDE DEF o, m
<1>3. CASE j < k
  <2>1. j \in 1 .. m /\ j \in 1 .. m - 1 /\ ~(j >= k)
    BY <1>1, <1>3
  <2>2. o[j] = s[j]
    BY <1>2, <2>1
  <2>3. BlockAt(o, j) = o[j] /\ BlockAt(s, j) = s[j]
    BY <1>1, <2>1 DEF BlockAt, m
  <2>4. QED BY <2>1, <2>2, <2>3 DEF o
<1>4. CASE j >= k
  <2>0. ~(j < k)
    BY <1>1, <1>4
  <2>1. CASE j \in 1 .. m - 1
    <3>1. j + 1 \in 1 .. m /\ o[j] = s[j + 1]
      BY <1>2, <2>0, <2>1
    <3>2. BlockAt(o, j) = o[j] /\ BlockAt(s, j + 1) = s[j + 1]
      BY <1>1, <2>1, <3>1 DEF BlockAt, m
    <3>3. QED BY <2>0, <3>1, <3>2 DEF o
  <2>2. CASE j \notin 1 .. m - 1
    <3>1. j + 1 \notin 1 .. m
      BY <1>1, <2>2
    <3>2. BlockAt(o, j) = Nil /\ BlockAt(s, j + 1) = Nil
      BY <1>1, <2>2, <3>1 DEF BlockAt, m
    <3>3. QED BY <2>0, <3>2 DEF o
  <2>3. QED BY <2>1, <2>2
<1>5. QED BY <1>1, <1>3, <1>4

\* Where the links lead to, said of places
LEMMA LeadsOn ==
  ASSUME NEW h, NEW nx, NEW s, Leads(h, nx, s)
  PROVE  /\ s \in Seq(Blocks) /\ Apart(s) /\ nx \in [Blocks -> BlockOrNil] /\ h = BlockAt(s, 1)
         /\ \A i \in 1 .. Len(s) : BlockAt(s, i) = s[i] /\ s[i] \in Blocks /\ nx[s[i]] = BlockAt(s, i + 1)
         /\ \A i, j \in 1 .. Len(s) : s[i] = s[j] => i = j
         /\ \A i : BlockAt(s, i) \in BlockOrNil
BY DEF Leads, Apart, BlockAt, BlockOrNil

LEMMA PutFirstLeads ==
  ASSUME NEW h, NEW nx, NEW s, Leads(h, nx, s), NEW n \in Blocks, ~Within(s, n)
  PROVE  Leads(n, [nx EXCEPT ![n] = h], WithBlock(s, 0, n))
<1> DEFINE z == 0
           p == WithBlock(s, z, n)
           m == Len(s)
           x == [nx EXCEPT ![n] = h]
<1>1. /\ s \in Seq(Blocks) /\ Apart(s) /\ nx \in [Blocks -> BlockOrNil] /\ h = BlockAt(s, 1)
      /\ \A i \in 1 .. m : BlockAt(s, i) = s[i] /\ s[i] \in Blocks /\ nx[s[i]] = BlockAt(s, i + 1)
      /\ h \in BlockOrNil
  BY LeadsOn
<1>2. m \in Nat /\ z \in 0 .. m /\ z = 0
  BY <1>1
<1>3. \A i \in 1 .. m : s[i] # n
  BY DEF Within
<1>4. x \in [Blocks -> BlockOrNil] /\ x[n] = h /\ \A b \in Blocks : b # n => x[b] = nx[b]
  BY <1>1
<1> HIDE DEF z, x
<1>5. p \in Seq(Blocks) /\ Len(p) = m + 1 /\ Apart(p)
  BY <1>1, <1>2, PutIs, PutApart DEF m
<1>6. \A j \in Nat \ {0} : (j = 1 => BlockAt(p, j) = n) /\ (j > 1 => BlockAt(p, j) = BlockAt(s, j - 1))
  <2> TAKE j \in Nat \ {0}
  <2>1. (j = z + 1 => BlockAt(p, j) = n) /\ (j > z + 1 => BlockAt(p, j) = BlockAt(s, j - 1))
    BY <1>1, <1>2, WithAt DEF m
  <2>2. QED BY <1>2, <2>1
<1>7. ASSUME NEW i \in 1 .. m + 1 PROVE x[p[i]] = BlockAt(p, i + 1)
  <2>0. p[i] = BlockAt(p, i) /\ i \in Nat \ {0} /\ i + 1 \in Nat \ {0} /\ i + 1 > 1 /\ (i + 1) - 1 = i
    BY <1>2, <1>5 DEF BlockAt
  <2>1. BlockAt(p, i + 1) = BlockAt(s, i)
    BY <1>6, <2>0
  <2>2. CASE i = 1
    BY <1>1, <1>4, <1>6, <2>0, <2>1, <2>2
  <2>3. CASE i # 1
    <3>1. i > 1 /\ i - 1 \in 1 .. m /\ (i - 1) + 1 = i
      BY <1>2, <2>3
    <3>2. p[i] = s[i - 1]
      BY <1>1, <1>6, <2>0, <3>1
    <3>3. nx[s[i - 1]] = BlockAt(s, (i - 1) + 1)
      BY <1>1, <3>1
    <3>4. x[s[i - 1]] = nx[s[i - 1]]
      BY <1>1, <1>3, <1>4, <3>1
    <3>5. QED BY <2>1, <3>1, <3>2, <3>3, <3>4
  <2>4. QED BY <2>2, <2>3
<1>8. n = BlockAt(p, 1)
  BY <1>6
<1>9. Leads(n, x, p)
  BY <1>4, <1>5, <1>7, <1>8 DEF Leads
<1>10. QED BY <1>9 DEF x, z

\* next of a chain in which n comes behind b
Spliced(nx, n, b) == [nx EXCEPT ![n] = nx[b], ![b] = n]

LEMMA SplicedIs ==
  ASSUME NEW nx \in [Blocks -> BlockOrNil], NEW n \in Blocks, NEW b \in Blocks, n # b
  PROVE  /\ Spliced(nx, n, b) \in [Blocks -> BlockOrNil]
         /\ Spliced(nx, n, b)[n] = nx[b] /\ Spliced(nx, n, b)[b] = n
         /\ \A c \in Blocks : c # n /\ c # b => Spliced(nx, n, b)[c] = nx[c]
<1> DEFINE u == [nx EXCEPT ![n] = nx[b]]
<1>1. u \in [Blocks -> BlockOrNil] /\ u[n] = nx[b] /\ \A c \in Blocks : c # n => u[c] = nx[c]
  OBVIOUS
<1>2. Spliced(nx, n, b) = [u EXCEPT ![b] = n]
  BY DEF Spliced
<1> HIDE DEF u
<1>3. n \in BlockOrNil
  BY DEF BlockOrNil
<1>4. QED BY <1>1, <1>2, <1>3

LEMMA PutLeads ==
  ASSUME NEW h, NEW nx, NEW s, Leads(h, nx, s), NEW n \in Blocks, ~Within(s, n), NEW k \in 1 .. Len(s)
  PROVE  Leads(h, Spliced(nx, n, s[k]), WithBlock(s, k, n))
<1> DEFINE p == WithBlock(s, k, n)
           m == Len(s)
           x == Spliced(nx, n, s[k])
<1>1. /\ s \in Seq(Blocks) /\ Apart(s) /\ nx \in [Blocks -> BlockOrNil] /\ h = BlockAt(s, 1)
      /\ \A i \in 1 .. m : BlockAt(s, i) = s[i] /\ s[i] \in Blocks /\ nx[s[i]] = BlockAt(s, i + 1)
      /\ \A i, j \in 1 .. m : s[i] = s[j] => i = j
  BY LeadsOn
<1>2. m \in Nat /\ k \in 1 .. m /\ k \in 0 .. Len(s)
  BY <1>1
<1>3. \A i \in 1 .. m : s[i] # n
  BY DEF Within
<1>4. /\ x \in [Blocks -> BlockOrNil] /\ x[n] = nx[s[k]] /\ x[s[k]] = n
      /\ \A b \in Blocks : b # n /\ b # s[k] => x[b] = nx[b]
  <2>1. s[k] \in Blocks /\ n # s[k]
    BY <1>1, <1>2, <1>3
  <2>2. QED BY <1>1, <2>1, SplicedIs
<1> HIDE DEF x
<1>5. p \in Seq(Blocks) /\ Len(p) = m + 1 /\ Apart(p)
  BY <1>1, <1>2, PutIs, PutApart DEF m
<1>6. \A j \in Nat \ {0} : /\ j <= k => BlockAt(p, j) = BlockAt(s, j)
                           /\ j = k + 1 => BlockAt(p, j) = n
                           /\ j > k + 1 => BlockAt(p, j) = BlockAt(s, j - 1)
  BY <1>1, <1>2, WithAt DEF m
<1> HIDE DEF p, m
<1>7. ASSUME NEW i \in 1 .. m + 1 PROVE x[p[i]] = BlockAt(p, i + 1)
  <2>0. p[i] = BlockAt(p, i) /\ i \in Nat \ {0} /\ i + 1 \in Nat \ {0} /\ (i + 1) - 1 = i
    BY <1>2, <1>5 DEF BlockAt
  <2>1. CASE i < k
    <3>1. i \in 1 .. m /\ i + 1 <= k /\ i <= k
      BY <1>2, <2>1
    <3>2. p[i] = s[i] /\ BlockAt(p, i + 1) = BlockAt(s, i + 1)
      BY <1>1, <1>6, <2>0, <3>1
    <3>3. s[i] # n /\ s[i] # s[k] /\ s[i] \in Blocks
      BY <1>1, <1>2, <1>3, <2>1, <3>1
    <3>4. QED BY <1>1, <1>4, <3>1, <3>2, <3>3
  <2>2. CASE i = k
    <3>1. p[i] = s[k] /\ BlockAt(p, i + 1) = n
      BY <1>1, <1>2, <1>6, <2>0, <2>2
    <3>2. QED BY <1>4, <3>1
  <2>3. CASE i = k + 1
    <3>1. p[i] = n /\ BlockAt(p, i + 1) = BlockAt(s, k + 1)
      <4>1. i + 1 > k + 1
        BY <1>2, <2>3
      <4>2. QED BY <1>6, <2>0, <2>3, <4>1
    <3>2. QED BY <1>1, <1>2, <1>4, <3>1
  <2>4. CASE i > k + 1
    <3>1. i - 1 \in 1 .. m /\ i + 1 > k + 1 /\ (i - 1) + 1 = i /\ i - 1 # k
      BY <1>2, <2>4
    <3>2. p[i] = s[i - 1] /\ BlockAt(p, i + 1) = BlockAt(s, i)
      BY <1>1, <1>6, <2>0, <2>4, <3>1
    <3>3. s[i - 1] # n /\ s[i - 1] # s[k] /\ s[i - 1] \in Blocks /\ nx[s[i - 1]] = BlockAt(s, i)
      <4>1. nx[s[i - 1]] = BlockAt(s, (i - 1) + 1)
        BY <1>1, <3>1
      <4>2. QED BY <1>1, <1>2, <1>3, <3>1, <4>1
    <3>4. QED BY <1>4, <3>2, <3>3
  <2>5. QED BY <1>2, <2>1, <2>2, <2>3, <2>4
<1>8. h = BlockAt(p, 1)
  <2>1. 1 \in Nat \ {0} /\ 1 <= k
    BY <1>2
  <2>2. QED BY <1>1, <1>6, <2>1
<1>9. Leads(h, x, p)
  BY <1>4, <1>5, <1>7, <1>8 DEF Leads
<1>10. QED BY <1>9 DEF x, p

LEMMA OutFirstLeads ==
  ASSUME NEW h, NEW nx, NEW s, Leads(h, nx, s), Len(s) > 0
  PROVE  Leads(nx[h], nx, WithoutBlock(s, 1))
<1> DEFINE one == 1
           o == WithoutBlock(s, one)
           m == Len(s)
<1>1. /\ s \in Seq(Blocks) /\ Apart(s) /\ nx \in [Blocks -> BlockOrNil] /\ h = BlockAt(s, 1)
      /\ \A i \in 1 .. m : BlockAt(s, i) = s[i] /\ s[i] \in Blocks /\ nx[s[i]] = BlockAt(s, i + 1)
  BY LeadsOn
<1>2. m \in Nat /\ one \in 1 .. m /\ one = 1
  BY <1>1
<1> HIDE DEF one
<1>5. o \in Seq(Blocks) /\ Len(o) = m - 1 /\ Apart(o)
  BY <1>1, <1>2, OutIs, OutApart DEF m
<1>6. \A j \in Nat \ {0} : BlockAt(o, j) = BlockAt(s, j + 1)
  <2> TAKE j \in Nat \ {0}
  <2>1. j >= one => BlockAt(o, j) = BlockAt(s, j + 1)
    BY <1>1, <1>2, WithoutAt DEF m
  <2>2. QED BY <1>2, <2>1
<1> HIDE DEF o, m
<1>7. ASSUME NEW i \in 1 .. m - 1 PROVE nx[o[i]] = BlockAt(o, i + 1)
  <2>1. o[i] = BlockAt(o, i) /\ i \in Nat \ {0} /\ i + 1 \in Nat \ {0} /\ i + 1 \in 1 .. m
    BY <1>2, <1>5 DEF BlockAt
  <2>2. o[i] = s[i + 1] /\ BlockAt(o, i + 1) = BlockAt(s, (i + 1) + 1)
    BY <1>1, <1>6, <2>1
  <2>3. QED BY <1>1, <2>1, <2>2
<1>8. nx[h] = BlockAt(o, 1)
  <2>1. 1 \in 1 .. m /\ 1 \in Nat \ {0}
    BY <1>2
  <2>2. h = s[1] /\ nx[s[1]] = BlockAt(s, 1 + 1)
    BY <1>1, <2>1
  <2>3. QED BY <1>6, <2>1, <2>2
<1>9. QED BY <1>1, <1>5, <1>7, <1>8 DEF Leads, o, one

LEMMA OutLeads ==
  ASSUME NEW h, NEW nx, NEW s, Leads(h, nx, s), NEW k \in 2 .. Len(s)
  PROVE  Leads(h, [nx EXCEPT ![s[k - 1]] = nx[s[k]]], WithoutBlock(s, k))
<1> DEFINE o == WithoutBlock(s, k)
           m == Len(s)
           x == [nx EXCEPT ![s[k - 1]] = nx[s[k]]]
<1>1. /\ s \in Seq(Blocks) /\ Apart(s) /\ nx \in [Blocks -> BlockOrNil] /\ h = BlockAt(s, 1)
      /\ \A i \in 1 .. m : BlockAt(s, i) = s[i] /\ s[i] \in Blocks /\ nx[s[i]] = BlockAt(s, i + 1)
      /\ \A i, j \in 1 .. m : s[i] = s[j] => i = j
      /\ \A i : BlockAt(s, i) \in BlockOrNil
  BY LeadsOn
<1>2. m \in Nat /\ k \in 1 .. Len(s) /\ k \in 1 .. m /\ k - 1 \in 1 .. m /\ k > 1
  BY <1>1
<1>4. /\ x \in [Blocks -> BlockOrNil] /\ x[s[k - 1]] = nx[s[k]]
      /\ \A b \in Blocks : b # s[k - 1] => x[b] = nx[b]
  <2>1. s[k - 1] \in Blocks /\ nx[s[k]] \in BlockOrNil
    BY <1>1, <1>2
  <2>2. QED BY <1>1, <2>1
<1> HIDE DEF x
<1>5. o \in Seq(Blocks) /\ Len(o) = m - 1 /\ Apart(o)
  BY <1>1, <1>2, OutIs, OutApart DEF m
<1>6. \A j \in Nat \ {0} : /\ j < k => BlockAt(o, j) = BlockAt(s, j)
                           /\ j >= k => BlockAt(o, j) = BlockAt(s, j + 1)
  BY <1>1, <1>2, WithoutAt DEF m
<1> HIDE DEF o, m
<1>7. ASSUME NEW i \in 1 .. m - 1 PROVE x[o[i]] = BlockAt(o, i + 1)
  <2>0. o[i] = BlockAt(o, i) /\ i \in Nat \ {0} /\ i + 1 \in Nat \ {0}
    BY <1>2, <1>5 DEF BlockAt
  <2>1. CASE i < k - 1
    <3>1. i \in 1 .. m /\ i + 1 < k /\ i < k /\ i # k - 1
      BY <1>2, <2>1
    <3>2. o[i] = s[i] /\ BlockAt(o, i + 1) = BlockAt(s, i + 1)
      BY <1>1, <1>6, <2>0, <3>1
    <3>3. s[i] # s[k - 1]
      BY <1>1, <1>2, <3>1
    <3>4. QED BY <1>1, <1>4, <3>1, <3>2, <3>3
  <2>2. CASE i = k - 1
    <3>1. i < k /\ i + 1 >= k /\ i + 1 = k
      BY <1>2, <2>2
    <3>2. o[i] = s[k - 1] /\ BlockAt(o, i + 1) = BlockAt(s, k + 1)
      BY <1>1, <1>2, <1>6, <2>0, <2>2, <3>1
    <3>3. QED BY <1>1, <1>2, <1>4, <3>2
  <2>3. CASE i >= k
    <3>1. i + 1 \in 1 .. m /\ i + 1 >= k /\ i + 1 # k - 1
      BY <1>2, <2>3
    <3>2. o[i] = s[i + 1] /\ BlockAt(o, i + 1) = BlockAt(s, (i + 1) + 1)
      BY <1>1, <1>6, <2>0, <2>3, <3>1
    <3>3. s[i + 1] # s[k - 1]
      BY <1>1, <1>2, <3>1
    <3>4. QED BY <1>1, <1>4, <3>1, <3>2, <3>3
  <2>4. QED BY <1>2, <2>1, <2>2, <2>3
<1>8. h = BlockAt(o, 1)
  <2>1. 1 \in Nat \ {0} /\ 1 < k
    BY <1>2
  <2>2. QED BY <1>1, <1>6, <2>1
<1>9. Leads(h, x, o)
  BY <1>4, <1>5, <1>7, <1>8 DEF Leads
<1>10. QED BY <1>9 DEF x, o

-----------------------------------------------------------------------------
(* Which block comes first *)

LEMMA AgeIs ==
  ASSUME NEW ord \in Seq(Blocks), Apart(ord), NEW i \in 1 .. Len(ord)
  PROVE  Age(ord, ord[i]) = i
<1>1. DOMAIN ord = 1 .. Len(ord) /\ \A j \in 1 .. Len(ord) : ord[j] = ord[i] => j = i
  BY DEF Apart
<1>2. QED BY <1>1 DEF Age

LEMMA OrderGrows ==
  ASSUME NEW ord \in Seq(Blocks), Apart(ord), NEW n \in Blocks, ~Within(ord, n)
  PROVE  /\ Append(ord, n) \in Seq(Blocks) /\ Apart(Append(ord, n)) /\ Len(Append(ord, n)) = Len(ord) + 1
         /\ \A b \in Blocks : Within(Append(ord, n), b) <=> Within(ord, b) \/ b = n
         /\ \A a, b \in Blocks : Within(ord, a) /\ Within(ord, b) /\ ComesFirst(ord, a, b)
                                 => ComesFirst(Append(ord, n), a, b)
         /\ \A a \in Blocks : Within(ord, a) /\ Priority[a] >= Priority[n] => ComesFirst(Append(ord, n), a, n)
<1> DEFINE m == Len(ord)
           o == Append(ord, n)
<1>1. m \in Nat /\ \A i \in 1 .. m : ord[i] \in Blocks
  OBVIOUS
<1>2. o \in Seq(Blocks) /\ Len(o) = m + 1 /\ o[m + 1] = n /\ \A i \in 1 .. m : o[i] = ord[i]
  OBVIOUS
<1>3. \A i \in 1 .. m : ord[i] # n
  BY DEF Within
<1>4. \A i, j \in 1 .. m : ord[i] = ord[j] => i = j
  BY DEF Apart
<1>5. \A b : Within(ord, b) <=> \E i \in 1 .. m : ord[i] = b
  BY DEF Within
<1>6. \A i \in 1 .. m : Age(ord, ord[i]) = i
  BY AgeIs
<1> HIDE DEF m, o
<1>7. \A i \in 1 .. m + 1 : i \in 1 .. m \/ i = m + 1
  BY <1>1
<1>8. Apart(o)
  <2> SUFFICES ASSUME NEW i \in 1 .. m + 1, NEW j \in 1 .. m + 1, o[i] = o[j] PROVE i = j
    BY <1>2 DEF Apart
  <2>1. CASE i \in 1 .. m /\ j \in 1 .. m
    BY <1>2, <1>4, <2>1
  <2>2. CASE i = m + 1 /\ j \in 1 .. m
    BY <1>2, <1>3, <2>2
  <2>3. CASE j = m + 1 /\ i \in 1 .. m
    BY <1>2, <1>3, <2>3
  <2>4. QED BY <1>7, <2>1, <2>2, <2>3
<1>9. m + 1 \in 1 .. m + 1 /\ \A i \in 1 .. m : i \in 1 .. m + 1
  BY <1>1
<1>10. ASSUME NEW b \in Blocks PROVE Within(o, b) <=> Within(ord, b) \/ b = n
  <2>1. Within(o, b) <=> \E i \in 1 .. m + 1 : o[i] = b
    BY <1>2 DEF Within
  <2>2. QED BY <1>2, <1>5, <1>7, <1>9, <2>1
<1>11. \A i \in 1 .. m + 1 : Age(o, o[i]) = i
  BY <1>2, <1>8, AgeIs
<1>12. \A a : Within(ord, a) => Age(o, a) = Age(ord, a) /\ Age(o, a) \in 1 .. m
  <2> SUFFICES ASSUME NEW a, Within(ord, a) PROVE Age(o, a) = Age(ord, a) /\ Age(o, a) \in 1 .. m
    OBVIOUS
  <2>1. PICK i \in 1 .. m : ord[i] = a
    BY <1>5
  <2>2. o[i] = a /\ i \in 1 .. m + 1
    BY <1>2, <1>9, <2>1
  <2>3. QED BY <1>6, <1>11, <2>1, <2>2
<1>13. \A a, b \in Blocks : Within(ord, a) /\ Within(ord, b) /\ ComesFirst(ord, a, b) => ComesFirst(o, a, b)
  BY <1>12 DEF ComesFirst
<1>14. ASSUME NEW a \in Blocks, Within(ord, a), Priority[a] >= Priority[n] PROVE ComesFirst(o, a, n)
  <2>1. Age(o, n) = m + 1
    BY <1>2, <1>9, <1>11
  <2>2. Age(o, a) < Age(o, n)
    <3> DEFINE x == Age(o, a)
    <3>1. x \in 1 .. m
      BY <1>12, <1>14
    <3> HIDE DEF x
    <3>2. x < m + 1
      BY <1>1, <3>1
    <3>3. QED BY <2>1, <3>2 DEF x
  <2>3. Priority[a] \in Int /\ Priority[n] \in Int
    BY BlocksKnown
  <2>4. Priority[a] > Priority[n] \/ Priority[a] = Priority[n]
    BY <1>14, <2>3
  <2>5. QED BY <2>2, <2>4 DEF ComesFirst
<1>15. QED BY <1>2, <1>8, <1>10, <1>13, <1>14 DEF m, o

LEMMA OrderShrinks ==
  ASSUME NEW ord \in Seq(Blocks), Apart(ord), NEW n \in Blocks, Within(ord, n)
  PROVE  LET o == RemoveAt(ord, Age(ord, n)) IN
         /\ o \in Seq(Blocks) /\ Apart(o) /\ Len(o) = Len(ord) - 1
         /\ \A b \in Blocks : Within(o, b) <=> Within(ord, b) /\ b # n
         /\ \A a, b \in Blocks : /\ Within(ord, a) /\ Within(ord, b) /\ a # n /\ b # n
                                 /\ ComesFirst(ord, a, b)
                                 => ComesFirst(o, a, b)
<1> DEFINE o == RemoveAt(ord, Age(ord, n))
           m == Len(ord)
<1>1. PICK k \in 1 .. m : ord[k] = n
  BY DEF Within
<1>2. Age(ord, n) = k
  BY <1>1, AgeIs
<1>3. /\ o \in Seq(Blocks) /\ Len(o) = m - 1 /\ \A i \in 1 .. k - 1 : o[i] = ord[i]
      /\ \A i \in k .. m - 1 : o[i] = ord[i + 1]
      /\ o = WithoutBlock(ord, k)
  BY <1>1, <1>2, OutIs
<1>4. Apart(o) /\ \A b \in Blocks : Within(o, b) <=> Within(ord, b) /\ b # n
  BY <1>1, <1>3, OutApart
<1>5. m \in Nat /\ k \in 1 .. m /\ \A b : Within(ord, b) <=> \E i \in 1 .. m : ord[i] = b
  BY <1>1 DEF Within
<1>6. \A i \in 1 .. m : Age(ord, ord[i]) = i
  BY AgeIs
<1>7. \A i \in 1 .. m - 1 : Age(o, o[i]) = i
  BY <1>3, <1>4, AgeIs
<1> HIDE DEF o, m
<1>8. ASSUME NEW i \in 1 .. m, ord[i] # n
      PROVE  (i < k => Age(o, ord[i]) = i) /\ (i > k => Age(o, ord[i]) = i - 1) /\ i # k
  <2>1. CASE i < k
    <3>1. i \in 1 .. k - 1 /\ i \in 1 .. m - 1 /\ ~(i > k)
      BY <1>5, <2>1
    <3>2. QED BY <1>3, <1>7, <2>1, <3>1
  <2>2. CASE i > k
    <3>1. i - 1 \in k .. m - 1 /\ i - 1 \in 1 .. m - 1 /\ (i - 1) + 1 = i /\ ~(i < k)
      BY <1>5, <2>2
    <3>2. o[i - 1] = ord[(i - 1) + 1]
      BY <1>3, <3>1
    <3>3. QED BY <1>7, <2>2, <3>1, <3>2
  <2>3. i # k
    BY <1>1, <1>8
  <2>4. QED BY <1>5, <2>1, <2>2, <2>3
<1>9. ASSUME NEW a \in Blocks, NEW b \in Blocks, Within(ord, a), Within(ord, b), a # n, b # n, ComesFirst(ord, a, b)
      PROVE  ComesFirst(o, a, b)
  <2>1. PICK i \in 1 .. m, j \in 1 .. m : ord[i] = a /\ ord[j] = b
    BY <1>5, <1>9
  <2>2. Age(ord, a) = i /\ Age(ord, b) = j
    BY <1>6, <2>1
  <2>3. i < j => Age(o, a) < Age(o, b)
    <3> DEFINE x == Age(o, a)
               y == Age(o, b)
    <3>1. (i < k => x = i) /\ (i > k => x = i - 1) /\ i # k
      BY <1>8, <1>9, <2>1
    <3>2. (j < k => y = j) /\ (j > k => y = j - 1) /\ j # k
      BY <1>8, <1>9, <2>1
    <3> HIDE DEF x, y
    <3>3. i < j => x < y
      BY <1>5, <3>1, <3>2
    <3>4. QED BY <3>3 DEF x, y
  <2>4. QED BY <1>9, <2>2, <2>3 DEF ComesFirst
<1>10. QED BY <1>3, <1>4, <1>9 DEF m, o

LEMMA ComesFirstRanks ==
  ASSUME NEW ord, NEW a \in Blocks, NEW b \in Blocks, ComesFirst(ord, a, b)
  PROVE  Priority[a] >= Priority[b]
<1>1. Priority[a] \in Int /\ Priority[b] \in Int
  BY BlocksKnown
<1>2. Priority[a] > Priority[b] \/ Priority[a] = Priority[b]
  BY DEF ComesFirst
<1>3. QED BY <1>1, <1>2

\* The place that a new block gets
LEMMA BehindIs ==
  ASSUME NEW s \in Seq(Blocks), Chain = s, NEW ord, InOrder(ord, s), NEW n \in Blocks
  PROVE  \E k \in 0 .. Len(s) :
           /\ IF k = 0 THEN Behind(n) = Nil ELSE Behind(n) = s[k]
           /\ \A i \in 1 .. k : Priority[s[i]] >= Priority[n]
           /\ \A i \in k + 1 .. Len(s) : Priority[n] > Priority[s[i]]
<1> DEFINE m == Len(s)
           T == {i \in DOMAIN s : \A j \in 1 .. i : ~GoesBefore(n, s[j])}
<1>1. m \in Nat /\ DOMAIN s = 1 .. m /\ \A i \in 1 .. m : s[i] \in Blocks
  OBVIOUS
<1>2. \A b \in Blocks : Priority[b] \in Int
  BY BlocksKnown
<1>3. \A i \in 1 .. m : GoesBefore(n, s[i]) <=> Priority[n] > Priority[s[i]]
  BY DEF GoesBefore
<1>4. \A i, j \in 1 .. m : i < j => Priority[s[i]] >= Priority[s[j]]
  BY <1>1, ComesFirstRanks DEF InOrder
<1>5. Behind(n) = IF T = {} THEN Nil ELSE s[Max(T)]
  BY DEF Behind
<1>6. T \subseteq 1 .. m /\ \A i \in 1 .. m : i \in T <=> \A j \in 1 .. i : ~GoesBefore(n, s[j])
  BY <1>1
<1> HIDE DEF T, m
<1>7. ASSUME NEW i \in 1 .. m, i \notin T PROVE Priority[n] > Priority[s[i]]
  <2>1. PICK j \in 1 .. i : GoesBefore(n, s[j])
    BY <1>6, <1>7
  <2>2. j \in 1 .. m /\ (j = i \/ j < i)
    BY <1>1
  <2>3. Priority[n] > Priority[s[j]]
    BY <1>3, <2>1, <2>2
  <2>4. Priority[s[j]] >= Priority[s[i]]
    <3>1. CASE j = i
      BY <1>1, <1>2, <3>1
    <3>2. CASE j < i
      BY <1>4, <2>2, <3>2
    <3>3. QED BY <2>2, <3>1, <3>2
  <2>5. Priority[s[j]] \in Int /\ Priority[s[i]] \in Int /\ Priority[n] \in Int
    BY <1>1, <1>2, <2>2
  <2>6. QED BY <2>3, <2>4, <2>5
<1>8. CASE T = {}
  <2>1. 0 \in 0 .. m /\ Behind(n) = Nil /\ \A i \in 0 + 1 .. m : i \in 1 .. m
    BY <1>1, <1>5, <1>8
  <2>2. \A i \in 0 + 1 .. m : Priority[n] > Priority[s[i]]
    BY <1>7, <1>8, <2>1
  <2>3. \A i \in 1 .. 0 : Priority[s[i]] >= Priority[n]
    OBVIOUS
  <2>4. QED BY <2>1, <2>2, <2>3 DEF m
<1>9. CASE T # {}
  <2>1. PICK g \in T : \A i \in T : i <= g
    <3>1. \E x \in T : \A i \in T : i <= x
      BY <1>1, <1>6, <1>9, GreatestElement
    <3>2. QED BY <3>1
  <2>2. Max(T) \in T /\ \A i \in T : Max(T) >= i
    <3>1. \A i \in T : g >= i
      BY <1>1, <1>6, <2>1
    <3>2. QED BY <3>1 DEF Max
  <2> DEFINE k == Max(T)
  <2> HIDE DEF k
  <2>3. k \in T /\ k \in 1 .. m /\ \A i \in T : ~(i > k)
    <3>1. k \in T /\ \A i \in T : k >= i
      BY <2>2 DEF k
    <3>2. QED BY <1>1, <1>6, <3>1
  <2>4. ASSUME NEW i \in 1 .. k PROVE Priority[s[i]] >= Priority[n]
    <3>1. i \in 1 .. m /\ ~GoesBefore(n, s[i])
      BY <1>1, <1>6, <2>3
    <3>2. Priority[s[i]] \in Int /\ Priority[n] \in Int /\ ~(Priority[n] > Priority[s[i]])
      BY <1>1, <1>2, <1>3, <3>1
    <3>3. QED BY <3>2
  <2>5. ASSUME NEW i \in k + 1 .. m PROVE Priority[n] > Priority[s[i]]
    <3>1. i \in 1 .. m /\ i > k
      BY <1>1, <2>3
    <3>2. QED BY <1>7, <2>3, <3>1
  <2>6. k \in 0 .. m /\ k # 0 /\ Behind(n) = s[k]
    BY <1>1, <1>5, <1>9, <2>3 DEF k
  <2>7. QED BY <2>4, <2>5, <2>6 DEF m
<1>10. QED BY <1>8, <1>9

-----------------------------------------------------------------------------
(* The steps of chains *)

LEMMA ChainInvInit == ServicesInit => ChainInv
<1> SUFFICES ASSUME ServicesInit PROVE ChainInv
  OBVIOUS
<1> DEFINE s == << >>
<1>1. /\ head = Nil /\ next = [b \in Blocks |-> Nil] /\ call = Nil /\ visited = << >>
      /\ stayed = {} /\ order = << >>
  BY DEF ServicesInit
<1>2. s \in Seq(Blocks) /\ Len(s) = 0
  OBVIOUS
<1> HIDE DEF s
<1>3. Leads(head, next, s)
  <2>1. next \in [Blocks -> BlockOrNil]
    BY <1>1 DEF BlockOrNil
  <2>2. head = BlockAt(s, 1)
    BY <1>1, <1>2 DEF BlockAt
  <2>3. Apart(s)
    BY <1>2 DEF Apart
  <2>4. QED BY <1>2, <2>1, <2>2, <2>3 DEF Leads
<1>4. ChainIs(s)
  <2>1. order = s
    BY <1>1 DEF s
  <2>2. QED BY <1>2, <1>3, <2>1 DEF ChainIs, InOrder, Leads
<1>5. VisitsAre(s)
  <2>1. visited \in Seq(Blocks) /\ Len(visited) = 0
    BY <1>1
  <2>2. QED BY <1>1, <2>1 DEF VisitsAre
<1>6. QED BY <1>2, <1>4, <1>5 DEF ChainInv

LEMMA ChainKnown ==
  ASSUME NEW s \in Seq(Blocks), ChainIs(s)
  PROVE  /\ Chain = s /\ \A b : Contains(Chain, b) <=> Within(s, b)
         /\ \A b : b \in ToSet(Chain) <=> Within(s, b)
<1>1. Chain = s
  BY WalkMeets DEF ChainIs, Chain
<1>2. DOMAIN s = 1 .. Len(s)
  OBVIOUS
<1>3. QED BY <1>1, <1>2 DEF Contains, Within, ToSet

\* The place where a call goes on is the one behind its block
LEMMA CallPlace ==
  ASSUME NEW s \in Seq(Blocks), ChainIs(s), VisitsAre(s), call # Nil, MayChange
  PROVE  \E q \in 1 .. Len(s) : s[q] = call /\ GoesOn(s, q + 1)
<1>1. PICK p \in 1 .. Len(s) + 1 : GoesOn(s, p)
  BY DEF VisitsAre
<1>2. Within(s, call)
  BY ChainKnown DEF MayChange
<1>3. p > 1 /\ s[p - 1] = call
  BY <1>1, <1>2 DEF GoesOn
<1>4. Len(s) \in Nat
  OBVIOUS
<1>5. p - 1 \in 1 .. Len(s) /\ (p - 1) + 1 = p
  BY <1>1, <1>3, <1>4
<1>6. QED BY <1>1, <1>3, <1>5

LEMMA RegisterKeeps ==
  ASSUME ChainInv, NEW n \in Blocks, NotifierRegister(n)
  PROVE  ChainInv'
<1>1. PICK s \in Seq(Blocks) : ChainIs(s) /\ VisitsAre(s)
  BY DEF ChainInv
<1> DEFINE m == Len(s)
<1>2. /\ Leads(head, next, s) /\ Apart(s) /\ order \in Seq(Blocks) /\ Apart(order) /\ Len(order) = m
      /\ (\A b \in Blocks : Within(order, b) <=> Within(s, b)) /\ InOrder(order, s) /\ m \in Nat
      /\ \A i \in 1 .. m : s[i] \in Blocks
  BY <1>1 DEF ChainIs, Leads
<1>3. /\ visited \in Seq(Blocks) /\ stayed \subseteq Blocks /\ (\A b \in stayed : Within(s, b))
      /\ \A i, j \in 1 .. Len(visited) :
           i < j /\ visited[i] \in stayed /\ visited[j] \in stayed => ComesFirst(order, visited[i], visited[j])
      /\ (call = Nil /\ ~stopped => \A b \in stayed : Within(visited, b))
  BY <1>1 DEF VisitsAre
<1>4. Chain = s /\ ~Within(s, n) /\ MayChange
  BY <1>1, ChainKnown DEF NotifierRegister
<1>5. PICK k \in 0 .. m : /\ IF k = 0 THEN Behind(n) = Nil ELSE Behind(n) = s[k]
                          /\ \A i \in 1 .. k : Priority[s[i]] >= Priority[n]
                          /\ \A i \in k + 1 .. m : Priority[n] > Priority[s[i]]
  BY <1>2, <1>4, BehindIs
<1> DEFINE p == WithBlock(s, k, n)
<1>6. p \in Seq(Blocks) /\ Len(p) = m + 1 /\ Apart(p) /\ \A b \in Blocks : Within(p, b) <=> Within(s, b) \/ b = n
  BY <1>2, <1>4, PutIs, PutApart
<1>7. \A i \in 1 .. m + 1 : \/ i <= k /\ i \in 1 .. m /\ p[i] = s[i]
                            \/ i = k + 1 /\ p[i] = n
                            \/ i > k + 1 /\ i - 1 \in 1 .. m /\ p[i] = s[i - 1]
  BY PutWhere
<1>8. Leads(head', next', p)
  <2>1. CASE k = 0
    <3>1. head' = n /\ next' = [next EXCEPT ![n] = head]
      BY <1>5, <2>1 DEF NotifierRegister
    <3>2. Leads(n, [next EXCEPT ![n] = head], WithBlock(s, 0, n))
      BY <1>2, <1>4, PutFirstLeads
    <3>3. QED BY <2>1, <3>1, <3>2
  <2>2. CASE k # 0
    <3>1. k \in 1 .. m /\ Behind(n) = s[k]
      BY <1>2, <1>5, <2>2
    <3>2. s[k] # Nil
      BY <1>2, <3>1, BlocksKnown
    <3>3. head' = head /\ next' = Spliced(next, n, s[k])
      BY <3>1, <3>2 DEF NotifierRegister, Spliced
    <3>4. QED BY <1>2, <1>4, <3>1, <3>3, PutLeads
  <2>3. QED BY <2>1, <2>2
<1>9. order' = Append(order, n) /\ UNCHANGED <<call, visited, stopped, stayed>>
  BY DEF NotifierRegister
<1>10. ~Within(order, n)
  BY <1>2, <1>4
<1>11. /\ order' \in Seq(Blocks) /\ Apart(order') /\ Len(order') = m + 1
       /\ \A b \in Blocks : Within(order', b) <=> Within(order, b) \/ b = n
       /\ \A a, b \in Blocks : Within(order, a) /\ Within(order, b) /\ ComesFirst(order, a, b)
                               => ComesFirst(order', a, b)
       /\ \A a \in Blocks : Within(order, a) /\ Priority[a] >= Priority[n] => ComesFirst(order', a, n)
  BY <1>2, <1>9, <1>10, OrderGrows
<1> HIDE DEF p, m
<1>12. \A i \in 1 .. m : Within(s, s[i]) /\ Within(order, s[i])
  BY <1>2 DEF Within, m
<1>13. InOrder(order', p)
  <2>1. \A i, j \in 1 .. m : i < j => ComesFirst(order', s[i], s[j])
    <3>1. \A i, j \in 1 .. m : i < j => ComesFirst(order, s[i], s[j])
      BY <1>2 DEF InOrder, m
    <3>2. QED BY <1>2, <1>11, <1>12, <3>1
  <2>2. \A i \in 1 .. m : i <= k => ComesFirst(order', s[i], n)
    <3> TAKE i \in 1 .. m
    <3> HAVE i <= k
    <3>1. i \in 1 .. k
      BY <1>2
    <3>2. Priority[s[i]] >= Priority[n]
      BY <1>5, <3>1
    <3>3. QED BY <1>2, <1>11, <1>12, <3>2
  <2>3. \A i \in 1 .. m : i > k => ComesFirst(order', n, s[i])
    <3> TAKE i \in 1 .. m
    <3> HAVE i > k
    <3>1. i \in k + 1 .. m
      BY <1>2
    <3>2. Priority[n] > Priority[s[i]]
      BY <1>5, <3>1
    <3>3. QED BY <3>2 DEF ComesFirst
  <2> SUFFICES ASSUME NEW i \in 1 .. m + 1, NEW j \in 1 .. m + 1, i < j PROVE ComesFirst(order', p[i], p[j])
    BY <1>6 DEF InOrder
  <2>4. \/ i <= k /\ i \in 1 .. m /\ p[i] = s[i]
        \/ i = k + 1 /\ p[i] = n
        \/ i > k + 1 /\ i - 1 \in 1 .. m /\ p[i] = s[i - 1]
    BY <1>7
  <2>5. \/ j <= k /\ j \in 1 .. m /\ p[j] = s[j]
        \/ j = k + 1 /\ p[j] = n
        \/ j > k + 1 /\ j - 1 \in 1 .. m /\ p[j] = s[j - 1]
    BY <1>7
  <2>6. CASE i <= k /\ i \in 1 .. m /\ p[i] = s[i]
    <3>1. CASE j <= k /\ j \in 1 .. m /\ p[j] = s[j]
      BY <2>1, <2>6, <3>1
    <3>2. CASE j = k + 1 /\ p[j] = n
      BY <2>2, <2>6, <3>2
    <3>3. CASE j > k + 1 /\ j - 1 \in 1 .. m /\ p[j] = s[j - 1]
      <4>1. i < j - 1
        BY <1>2, <2>6, <3>3
      <4>2. QED BY <2>1, <2>6, <3>3, <4>1
    <3>4. QED BY <2>5, <3>1, <3>2, <3>3
  <2>7. CASE i = k + 1 /\ p[i] = n
    <3>1. j > k + 1 /\ j - 1 \in 1 .. m /\ p[j] = s[j - 1] /\ j - 1 > k
      <4>1. ~(j <= k) /\ ~(j = k + 1)
        BY <1>2, <2>7
      <4>2. j > k + 1 => j - 1 > k
        BY <1>2
      <4>3. QED BY <2>5, <4>1, <4>2
    <3>2. QED BY <2>3, <2>7, <3>1
  <2>8. CASE i > k + 1 /\ i - 1 \in 1 .. m /\ p[i] = s[i - 1]
    <3>1. j > k + 1 /\ j - 1 \in 1 .. m /\ p[j] = s[j - 1]
      <4>1. ~(j <= k) /\ ~(j = k + 1)
        BY <1>2, <2>8
      <4>2. QED BY <2>5, <4>1
    <3>2. i - 1 < j - 1
      BY <1>2
    <3>3. QED BY <2>1, <2>8, <3>1, <3>2
  <2>9. QED BY <2>4, <2>6, <2>7, <2>8
<1>14. ChainIs(p)'
  <2>1. Len(order') = Len(p)
    BY <1>6, <1>11
  <2>2. \A b \in Blocks : Within(order', b) <=> Within(p, b)
    BY <1>2, <1>6, <1>11
  <2>3. QED BY <1>8, <1>11, <1>13, <2>1, <2>2 DEF ChainIs
<1>15. ASSUME call # Nil PROVE \E g \in 1 .. Len(p) + 1 : GoesOn(p, g)'
  <2>1. PICK q \in 1 .. m : s[q] = call /\ GoesOn(s, q + 1)
    BY <1>1, <1>4, <1>15, CallPlace DEF m
  <2>2. /\ call \in Blocks
        /\ \A i \in 1 .. m : s[i] \in stayed => (Within(visited, s[i]) <=> i < q + 1)
    BY <2>1 DEF GoesOn, m
  <2> DEFINE g == IF k < q THEN q + 2 ELSE q + 1
  <2>3. g \in 1 .. m + 2 /\ g > 1 /\ g - 1 \in 1 .. m + 1 /\ (g - 1) + 1 = g
    BY <1>2
  <2>4. p[g - 1] = call
    <3>1. CASE k < q
      <4>1. g - 1 = q + 1 /\ q \in k + 1 .. m
        BY <1>2, <3>1
      <4>2. p[q + 1] = s[q]
        BY <4>1, PutIs DEF p, m
      <4>3. QED BY <2>1, <4>1, <4>2
    <3>2. CASE ~(k < q)
      <4>1. g - 1 = q /\ q \in 1 .. k
        BY <1>2, <3>2
      <4>2. p[q] = s[q]
        BY <4>1, PutIs DEF p, m
      <4>3. QED BY <2>1, <4>1, <4>2
    <3>3. QED BY <3>1, <3>2
  <2>5. ASSUME NEW i \in 1 .. m + 1, p[i] \in stayed PROVE Within(visited, p[i]) <=> i < g
    <3>0. \/ i <= k /\ i \in 1 .. m /\ p[i] = s[i]
          \/ i = k + 1 /\ p[i] = n
          \/ i > k + 1 /\ i - 1 \in 1 .. m /\ p[i] = s[i - 1]
      BY <1>7
    <3>1. CASE i <= k /\ i \in 1 .. m /\ p[i] = s[i]
      <4>1. Within(visited, s[i]) <=> i < q + 1
        BY <2>2, <2>5, <3>1
      <4>2. i < q + 1 <=> i < g
        BY <1>2, <3>1
      <4>3. QED BY <3>1, <4>1, <4>2
    <3>2. CASE i = k + 1 /\ p[i] = n
      BY <1>3, <1>4, <2>5, <3>2
    <3>3. CASE i > k + 1 /\ i - 1 \in 1 .. m /\ p[i] = s[i - 1]
      <4>1. Within(visited, s[i - 1]) <=> i - 1 < q + 1
        BY <2>2, <2>5, <3>3
      <4>2. i - 1 < q + 1 <=> i < g
        BY <1>2, <3>3
      <4>3. QED BY <3>3, <4>1, <4>2
    <3>4. QED BY <3>0, <3>1, <3>2, <3>3
  <2> HIDE DEF g
  <2>6. next'[call] = BlockAt(p, g)
    <3>1. next'[p[g - 1]] = BlockAt(p, (g - 1) + 1)
      BY <1>6, <1>8, <2>3 DEF Leads
    <3>2. QED BY <2>3, <2>4, <3>1
  <2>7. GoesOn(p, g)'
    <3>1. \A i \in 1 .. Len(p) : p[i] \in stayed' => (Within(visited', p[i]) <=> i < g)
      BY <1>6, <1>9, <2>5
    <3>2. g \in 1 .. Len(p) + 1
      BY <1>2, <1>6, <2>3
    <3>3. QED BY <1>9, <2>2, <2>3, <2>4, <2>6, <3>1, <3>2 DEF GoesOn
  <2>8. g \in 1 .. Len(p) + 1
    BY <1>2, <1>6, <2>3
  <2>9. QED BY <2>7, <2>8
<1>16. VisitsAre(p)'
  <2>1. \A b \in stayed' : Within(p, b)
    BY <1>3, <1>6, <1>9
  <2>2. ASSUME NEW i \in 1 .. Len(visited), NEW j \in 1 .. Len(visited),
               i < j, visited[i] \in stayed, visited[j] \in stayed
        PROVE  ComesFirst(order', visited[i], visited[j])
    <3>1. ComesFirst(order, visited[i], visited[j])
      BY <1>3, <2>2
    <3>2. /\ visited[i] \in Blocks /\ visited[j] \in Blocks /\ Within(order, visited[i]) /\ Within(order, visited[j])
      BY <1>2, <1>3, <2>2
    <3>3. QED BY <1>11, <3>1, <3>2
  <2>3. \A i, j \in 1 .. Len(visited') : i < j /\ visited'[i] \in stayed' /\ visited'[j] \in stayed'
                                         => ComesFirst(order', visited'[i], visited'[j])
    BY <1>9, <2>2
  <2>4. call' = Nil /\ ~stopped' => \A b \in stayed' : Within(visited', b)
    BY <1>3, <1>9
  <2>5. call' # Nil => \E g \in 1 .. Len(p) + 1 : GoesOn(p, g)'
    BY <1>9, <1>15
  <2>6. QED BY <1>3, <1>9, <2>1, <2>3, <2>4, <2>5 DEF VisitsAre
<1>17. QED BY <1>6, <1>14, <1>16 DEF ChainInv

LEMMA UnregisterKeeps ==
  ASSUME ChainInv, NEW n \in Blocks, NotifierUnregister(n)
  PROVE  ChainInv'
<1>1. PICK s \in Seq(Blocks) : ChainIs(s) /\ VisitsAre(s)
  BY DEF ChainInv
<1> DEFINE m == Len(s)
<1>2. /\ Leads(head, next, s) /\ Apart(s) /\ order \in Seq(Blocks) /\ Apart(order) /\ Len(order) = m
      /\ (\A b \in Blocks : Within(order, b) <=> Within(s, b)) /\ InOrder(order, s) /\ m \in Nat
      /\ \A i \in 1 .. m : s[i] \in Blocks
  BY <1>1 DEF ChainIs, Leads
<1>3. /\ visited \in Seq(Blocks) /\ stayed \subseteq Blocks /\ (\A b \in stayed : Within(s, b))
      /\ \A i, j \in 1 .. Len(visited) :
           i < j /\ visited[i] \in stayed /\ visited[j] \in stayed => ComesFirst(order, visited[i], visited[j])
      /\ (call = Nil /\ ~stopped => \A b \in stayed : Within(visited, b))
  BY <1>1 DEF VisitsAre
<1>4. Chain = s /\ Within(s, n) /\ MayChange /\ \A b : b \in ToSet(Chain) <=> Within(s, b)
  BY <1>1, ChainKnown DEF NotifierUnregister
<1>5. PICK k \in 1 .. m : s[k] = n
  BY <1>4 DEF Within
<1> DEFINE p == WithoutBlock(s, k)
<1>6. p \in Seq(Blocks) /\ Len(p) = m - 1 /\ Apart(p) /\ \A b \in Blocks : Within(p, b) <=> Within(s, b) /\ b # n
  BY <1>2, <1>5, OutIs, OutApart
<1>7. \A i \in 1 .. m - 1 : \/ i < k /\ i \in 1 .. m /\ p[i] = s[i]
                            \/ i >= k /\ i + 1 \in 1 .. m /\ p[i] = s[i + 1]
  BY <1>2, OutWhere
<1>20. /\ \A i \in 1 .. m : BlockAt(s, i) = s[i] /\ next[s[i]] = BlockAt(s, i + 1)
       /\ (\A i, j \in 1 .. m : s[i] = s[j] => i = j) /\ head = BlockAt(s, 1)
  BY <1>2, LeadsOn
<1>8. Leads(head', next', p) /\ (call = n => next'[call] = next[call])
  <2>1. CASE k = 1
    <3>1. head = n
      BY <1>5, <1>20, <2>1
    <3>2. head' = next[head] /\ next' = next
      BY <3>1 DEF NotifierUnregister
    <3>3. Leads(next[head], next, WithoutBlock(s, 1))
      <4>1. Len(s) > 0
        BY <1>2, <1>5
      <4>2. QED BY <1>2, <4>1, OutFirstLeads
    <3>4. QED BY <2>1, <3>2, <3>3
  <2>2. CASE k # 1
    <3>1. k \in 2 .. m /\ k - 1 \in 1 .. m /\ (k - 1) + 1 = k /\ 1 \in 1 .. m
      BY <1>2, <2>2
    <3>2. head # n
      BY <1>5, <1>20, <2>2, <3>1
    <3>3. next[s[k - 1]] = n /\ s[k - 1] \in ToSet(Chain) /\ s[k - 1] \in Blocks /\ s[k - 1] # n
      <4>1. next[s[k - 1]] = BlockAt(s, (k - 1) + 1)
        BY <1>20, <3>1
      <4>2. BlockAt(s, k) = n
        BY <1>5, <1>20
      <4>3. Within(s, s[k - 1])
        BY <3>1 DEF Within
      <4>4. s[k - 1] # n
        <5>1. k - 1 # k
          BY <1>2
        <5>2. QED BY <1>5, <1>20, <3>1, <5>1
      <4>5. QED BY <1>2, <1>4, <3>1, <4>1, <4>2, <4>3, <4>4
    <3>4. ASSUME NEW b \in ToSet(Chain), next[b] = n PROVE b = s[k - 1]
      <4>1. PICK i \in 1 .. m : s[i] = b
        BY <1>4, <3>4 DEF Within
      <4>2. BlockAt(s, i + 1) = n
        BY <1>20, <3>4, <4>1
      <4>3. i + 1 \in 1 .. m /\ s[i + 1] = n
        BY <4>2, BlocksKnown DEF BlockAt
      <4>4. i + 1 = k
        BY <1>5, <1>20, <4>3
      <4>5. i = k - 1
        BY <1>2, <4>4
      <4>6. QED BY <4>1, <4>5
    <3>5. (CHOOSE b \in ToSet(Chain) : next[b] = n) = s[k - 1]
      BY <3>3, <3>4
    <3>6. head' = head /\ next' = [next EXCEPT ![s[k - 1]] = next[n]]
      BY <3>2, <3>5 DEF NotifierUnregister
    <3>7. Leads(head', next', p)
      BY <1>2, <1>5, <3>1, <3>6, OutLeads
    <3>8. call = n => next'[call] = next[call]
      BY <1>2, <3>3, <3>6 DEF Leads
    <3>9. QED BY <3>7, <3>8
  <2>3. QED BY <2>1, <2>2
<1>9. /\ order' = RemoveAt(order, Age(order, n)) /\ stayed' = stayed \ {n} /\ UNCHANGED <<call, visited, stopped>>
  BY DEF NotifierUnregister
<1>10. Within(order, n)
  BY <1>2, <1>4
<1>11. /\ order' \in Seq(Blocks) /\ Apart(order') /\ Len(order') = m - 1
       /\ \A b \in Blocks : Within(order', b) <=> Within(order, b) /\ b # n
       /\ \A a, b \in Blocks : /\ Within(order, a) /\ Within(order, b) /\ a # n /\ b # n
                               /\ ComesFirst(order, a, b)
                               => ComesFirst(order', a, b)
  BY <1>2, <1>9, <1>10, OrderShrinks
<1> HIDE DEF p, m
<1>12. \A i \in 1 .. m : Within(s, s[i]) /\ Within(order, s[i])
  BY <1>2 DEF Within, m
<1>13. InOrder(order', p)
  <2> SUFFICES ASSUME NEW i \in 1 .. m - 1, NEW j \in 1 .. m - 1, i < j PROVE ComesFirst(order', p[i], p[j])
    BY <1>6 DEF InOrder
  <2>1. \A x, y \in 1 .. m : x < y => ComesFirst(order, s[x], s[y])
    BY <1>2 DEF InOrder, m
  <2>2. PICK x \in 1 .. m, y \in 1 .. m : p[i] = s[x] /\ p[j] = s[y] /\ x < y /\ x # k /\ y # k
    <3>1. (i < k /\ i \in 1 .. m /\ p[i] = s[i]) \/ (i >= k /\ i + 1 \in 1 .. m /\ p[i] = s[i + 1])
      BY <1>7
    <3>2. (j < k /\ j \in 1 .. m /\ p[j] = s[j]) \/ (j >= k /\ j + 1 \in 1 .. m /\ p[j] = s[j + 1])
      BY <1>7
    <3>3. CASE i < k /\ i \in 1 .. m /\ p[i] = s[i]
      <4>1. CASE j < k /\ j \in 1 .. m /\ p[j] = s[j]
        <5>1. i # k /\ j # k
          BY <3>3, <4>1
        <5>2. QED BY <2>1, <3>3, <4>1, <5>1
      <4>2. CASE j >= k /\ j + 1 \in 1 .. m /\ p[j] = s[j + 1]
        <5>1. i # k /\ j + 1 # k /\ i < j + 1
          BY <1>2, <3>3, <4>2
        <5>2. QED BY <3>3, <4>2, <5>1
      <4>3. QED BY <3>2, <4>1, <4>2
    <3>4. CASE i >= k /\ i + 1 \in 1 .. m /\ p[i] = s[i + 1]
      <4>1. j >= k /\ j + 1 \in 1 .. m /\ p[j] = s[j + 1]
        <5>1. ~(j < k)
          BY <1>2, <3>4
        <5>2. QED BY <3>2, <5>1
      <4>2. i + 1 # k /\ j + 1 # k /\ i + 1 < j + 1
        BY <1>2, <3>4, <4>1
      <4>3. QED BY <3>4, <4>1, <4>2
    <3>5. QED BY <3>1, <3>3, <3>4
  <2>3. s[x] # n /\ s[y] # n
    BY <1>5, <1>20, <2>2
  <2>4. ComesFirst(order, s[x], s[y])
    BY <2>1, <2>2
  <2>5. QED BY <1>2, <1>11, <1>12, <2>2, <2>3, <2>4
<1>14. ChainIs(p)'
  <2>1. Len(order') = Len(p)
    BY <1>6, <1>11
  <2>2. \A b \in Blocks : Within(order', b) <=> Within(p, b)
    BY <1>2, <1>6, <1>11
  <2>3. QED BY <1>8, <1>11, <1>13, <2>1, <2>2 DEF ChainIs
<1>15. ASSUME call # Nil PROVE \E g \in 1 .. Len(p) + 1 : GoesOn(p, g)'
  <2>1. PICK q \in 1 .. m : s[q] = call /\ GoesOn(s, q + 1)
    BY <1>1, <1>4, <1>15, CallPlace DEF m
  <2>2. /\ call \in Blocks /\ next[call] = BlockAt(s, q + 1)
        /\ \A i \in 1 .. m : s[i] \in stayed => (Within(visited, s[i]) <=> i < q + 1)
    BY <2>1 DEF GoesOn, m
  <2> DEFINE g == IF k < q + 1 THEN q ELSE q + 1
  <2>3. g \in 1 .. m /\ (m - 1) + 1 = m
    BY <1>2
  <2>4. call # n => g > 1 /\ g - 1 \in 1 .. m - 1 /\ (g - 1) + 1 = g /\ p[g - 1] = call
    <3> SUFFICES ASSUME call # n PROVE g > 1 /\ g - 1 \in 1 .. m - 1 /\ (g - 1) + 1 = g /\ p[g - 1] = call
      OBVIOUS
    <3>0. q # k
      BY <1>5, <2>1
    <3>1. CASE k < q
      <4>1. g = q /\ g > 1 /\ g - 1 \in k .. m - 1 /\ g - 1 \in 1 .. m - 1 /\ (g - 1) + 1 = g
        BY <1>2, <3>1
      <4>2. p[q - 1] = s[(q - 1) + 1]
        BY <4>1, OutIs DEF p, m
      <4>3. QED BY <2>1, <4>1, <4>2
    <3>2. CASE q < k
      <4>1. g = q + 1 /\ g > 1 /\ g - 1 = q /\ q \in 1 .. k - 1 /\ q \in 1 .. m - 1 /\ (g - 1) + 1 = g
        BY <1>2, <3>2
      <4>2. p[q] = s[q]
        BY <4>1, OutIs DEF p, m
      <4>3. QED BY <2>1, <4>1, <4>2
    <3>3. QED BY <1>2, <3>0, <3>1, <3>2
  <2>5. ASSUME NEW i \in 1 .. m - 1, p[i] \in stayed PROVE Within(visited, p[i]) <=> i < g
    <3>0. (i < k /\ i \in 1 .. m /\ p[i] = s[i]) \/ (i >= k /\ i + 1 \in 1 .. m /\ p[i] = s[i + 1])
      BY <1>7
    <3>1. CASE i < k /\ i \in 1 .. m /\ p[i] = s[i]
      <4>1. Within(visited, s[i]) <=> i < q + 1
        BY <2>2, <2>5, <3>1
      <4>2. i < q + 1 <=> i < g
        BY <1>2, <3>1
      <4>3. QED BY <3>1, <4>1, <4>2
    <3>2. CASE i >= k /\ i + 1 \in 1 .. m /\ p[i] = s[i + 1]
      <4>1. Within(visited, s[i + 1]) <=> i + 1 < q + 1
        BY <2>2, <2>5, <3>2
      <4>2. i + 1 < q + 1 <=> i < g
        BY <1>2, <3>2
      <4>3. QED BY <3>2, <4>1, <4>2
    <3>3. QED BY <3>0, <3>1, <3>2
  <2>6. next'[call] = BlockAt(p, g)
    <3>1. CASE call = n
      <4>1. q = k /\ g = k
        BY <1>2, <1>5, <1>20, <2>1, <3>1
      <4>2. next'[call] = BlockAt(s, k + 1)
        BY <1>8, <2>2, <3>1, <4>1
      <4>3. BlockAt(p, k) = BlockAt(s, k + 1)
        <5>1. k \in Nat \ {0} /\ k >= k
          BY <1>2
        <5>2. QED BY <5>1, WithoutAt DEF p, m
      <4>4. QED BY <4>1, <4>2, <4>3
    <3>2. CASE call # n
      <4>1. g - 1 \in 1 .. m - 1 /\ (g - 1) + 1 = g /\ p[g - 1] = call
        BY <2>4, <3>2
      <4> HIDE DEF g
      <4>2. next'[p[g - 1]] = BlockAt(p, (g - 1) + 1)
        BY <1>6, <1>8, <4>1 DEF Leads
      <4>3. QED BY <4>1, <4>2
    <3>3. QED BY <3>1, <3>2
  <2> HIDE DEF g
  <2>7. GoesOn(p, g)'
    <3>1. \A i \in 1 .. Len(p) : p[i] \in stayed' => (Within(visited', p[i]) <=> i < g)
      BY <1>6, <1>9, <2>5
    <3>2. g \in 1 .. Len(p) + 1
      BY <1>2, <1>6, <2>3
    <3>3. Within(p, call) => call # n
      BY <1>6, <2>2
    <3>4. QED BY <1>9, <2>2, <2>4, <2>6, <3>1, <3>2, <3>3 DEF GoesOn
  <2>8. g \in 1 .. Len(p) + 1
    BY <1>2, <1>6, <2>3
  <2>9. QED BY <2>7, <2>8
<1>16. VisitsAre(p)'
  <2>1. \A b \in stayed' : Within(p, b)
    BY <1>3, <1>6, <1>9
  <2>2. ASSUME NEW i \in 1 .. Len(visited), NEW j \in 1 .. Len(visited),
               i < j, visited[i] \in stayed', visited[j] \in stayed'
        PROVE  ComesFirst(order', visited[i], visited[j])
    <3>1. ComesFirst(order, visited[i], visited[j])
      BY <1>3, <1>9, <2>2
    <3>2. /\ visited[i] \in Blocks /\ visited[j] \in Blocks /\ Within(order, visited[i]) /\ Within(order, visited[j])
          /\ visited[i] # n /\ visited[j] # n
      BY <1>2, <1>3, <1>9, <2>2
    <3>3. QED BY <1>11, <3>1, <3>2
  <2>3. \A i, j \in 1 .. Len(visited') : i < j /\ visited'[i] \in stayed' /\ visited'[j] \in stayed'
                                         => ComesFirst(order', visited'[i], visited'[j])
    BY <1>9, <2>2
  <2>4. call' = Nil /\ ~stopped' => \A b \in stayed' : Within(visited', b)
    BY <1>3, <1>9
  <2>5. call' # Nil => \E g \in 1 .. Len(p) + 1 : GoesOn(p, g)'
    BY <1>9, <1>15
  <2>6. stayed' \subseteq Blocks
    BY <1>3, <1>9
  <2>7. QED BY <1>3, <1>9, <2>1, <2>3, <2>4, <2>5, <2>6 DEF VisitsAre
<1>17. QED BY <1>6, <1>14, <1>16 DEF ChainInv

LEMMA CallChainKeeps ==
  ASSUME ChainInv, CallChain
  PROVE  ChainInv'
<1>1. PICK s \in Seq(Blocks) : ChainIs(s) /\ VisitsAre(s)
  BY DEF ChainInv
<1> DEFINE m == Len(s)
<1>2. Leads(head, next, s) /\ m \in Nat /\ \A b : b \in ToSet(Chain) <=> Within(s, b)
  BY <1>1, ChainKnown DEF ChainIs
<1>3. /\ \A i \in 1 .. m : BlockAt(s, i) = s[i] /\ s[i] \in Blocks /\ next[s[i]] = BlockAt(s, i + 1)
      /\ (\A i, j \in 1 .. m : s[i] = s[j] => i = j) /\ head = BlockAt(s, 1)
  BY <1>2, LeadsOn
<1>4. /\ call' = head /\ visited' = <<head>> /\ stopped' = FALSE /\ stayed' = ToSet(Chain)
      /\ UNCHANGED <<head, next, order>> /\ head # Nil
  BY DEF CallChain
<1>5. 1 \in 1 .. m /\ head = s[1] /\ head \in Blocks
  BY <1>3, <1>4 DEF BlockAt
<1>6. ChainIs(s)'
  <2>1. ChainIs(s)
    BY <1>1
  <2>2. QED BY <1>4, <2>1 DEF ChainIs
<1>7. visited' \in Seq(Blocks) /\ Len(visited') = 1 /\ visited'[1] = head
  BY <1>4, <1>5
<1>8. \A b : Within(visited', b) <=> b = head
  BY <1>7 DEF Within
<1> HIDE DEF m
<1>9. GoesOn(s, 2)'
  <2>1. \A i \in 1 .. m : Within(visited', s[i]) <=> i < 2
    <3> TAKE i \in 1 .. m
    <3>1. s[i] = head <=> i = 1
      BY <1>3, <1>5
    <3>2. i = 1 <=> i < 2
      BY <1>2
    <3>3. QED BY <1>8, <3>1, <3>2
  <2>2. next[s[1]] = BlockAt(s, 1 + 1)
    BY <1>3, <1>5
  <2>3. 2 \in 1 .. m + 1 /\ 2 > 1 /\ 2 - 1 = 1 /\ 1 + 1 = 2
    BY <1>2, <1>5
  <2>4. QED BY <1>4, <1>5, <2>1, <2>2, <2>3 DEF GoesOn, m
<1>10. VisitsAre(s)'
  <2>1. stayed' \subseteq Blocks /\ \A b \in stayed' : Within(s, b)
    BY <1>2, <1>3, <1>4 DEF Within, m
  <2>2. ~(\E i, j \in 1 .. Len(visited') : i < j)
    BY <1>7
  <2>3. call' # Nil /\ \E p \in 1 .. Len(s) + 1 : GoesOn(s, p)'
    <3>1. 2 \in 1 .. Len(s) + 1
      BY <1>2, <1>5 DEF m
    <3>2. QED BY <1>4, <1>9, <3>1
  <2>4. QED BY <1>7, <2>1, <2>2, <2>3 DEF VisitsAre
<1>11. QED BY <1>6, <1>10 DEF ChainInv

LEMMA CallbackKeeps ==
  ASSUME ChainInv, NEW ret, CallbackReturns(ret)
  PROVE  ChainInv'
<1>1. PICK s \in Seq(Blocks) : ChainIs(s) /\ VisitsAre(s)
  BY DEF ChainInv
<1> DEFINE m == Len(s)
<1>2. Leads(head, next, s) /\ m \in Nat /\ InOrder(order, s)
  BY <1>1 DEF ChainIs
<1>3. /\ \A i \in 1 .. m : BlockAt(s, i) = s[i] /\ s[i] \in Blocks /\ next[s[i]] = BlockAt(s, i + 1)
      /\ \A i, j \in 1 .. m : s[i] = s[j] => i = j
  BY <1>2, LeadsOn
<1>4. /\ visited \in Seq(Blocks) /\ stayed \subseteq Blocks /\ (\A b \in stayed : Within(s, b))
      /\ \A i, j \in 1 .. Len(visited) :
           i < j /\ visited[i] \in stayed /\ visited[j] \in stayed => ComesFirst(order, visited[i], visited[j])
  BY <1>1 DEF VisitsAre
<1>5. call # Nil /\ UNCHANGED <<head, next, stayed, order>>
  BY DEF CallbackReturns
<1>6. PICK p \in 1 .. m + 1 : GoesOn(s, p)
  BY <1>1, <1>5 DEF VisitsAre
<1>7. next[call] = BlockAt(s, p) /\ \A i \in 1 .. m : s[i] \in stayed => (Within(visited, s[i]) <=> i < p)
  BY <1>6 DEF GoesOn
<1>8. ChainIs(s)'
  <2>1. ChainIs(s)
    BY <1>1
  <2>2. QED BY <1>5, <2>1 DEF ChainIs
<1> HIDE DEF m
<1>9. CASE ret = "BAD"
  <2>1. call' = Nil /\ stopped' = TRUE /\ visited' = visited
    BY <1>9 DEF CallbackReturns
  <2>2. VisitsAre(s)'
    BY <1>4, <1>5, <2>1 DEF VisitsAre
  <2>3. QED BY <1>8, <2>2 DEF ChainInv
<1>10. CASE ret # "BAD" /\ next[call] = Nil
  <2>1. call' = Nil /\ stopped' = stopped /\ visited' = visited
    BY <1>10 DEF CallbackReturns
  <2>2. p = m + 1
    <3>1. p \notin 1 .. m
      BY <1>3, <1>7, <1>10, BlocksKnown
    <3>2. QED BY <1>2, <3>1
  <2>3. ASSUME NEW b \in stayed PROVE Within(visited, b)
    <3>1. PICK i \in 1 .. m : s[i] = b
      BY <1>4 DEF Within, m
    <3>2. i < p
      BY <1>2, <2>2
    <3>3. QED BY <1>7, <3>1, <3>2
  <2>4. VisitsAre(s)'
    BY <1>4, <1>5, <2>1, <2>3 DEF VisitsAre
  <2>5. QED BY <1>8, <2>4 DEF ChainInv
<1>11. CASE ret # "BAD" /\ next[call] # Nil
  <2>1. call' = next[call] /\ stopped' = stopped /\ visited' = Append(visited, next[call])
    BY <1>11 DEF CallbackReturns
  <2>2. p \in 1 .. m /\ next[call] = s[p] /\ s[p] \in Blocks
    BY <1>3, <1>7, <1>11 DEF BlockAt, m
  <2> DEFINE n == Len(visited)
  <2>3. /\ n \in Nat /\ visited' \in Seq(Blocks) /\ Len(visited') = n + 1 /\ visited'[n + 1] = s[p]
        /\ \A i \in 1 .. n : visited'[i] = visited[i]
    BY <1>4, <2>1, <2>2
  <2> HIDE DEF n
  <2>4. \A b : Within(visited', b) <=> Within(visited, b) \/ b = s[p]
    <3>1. \A i \in 1 .. n + 1 : i \in 1 .. n \/ i = n + 1
      BY <2>3
    <3>2. n + 1 \in 1 .. n + 1 /\ \A i \in 1 .. n : i \in 1 .. n + 1
      BY <2>3
    <3>3. \A b : Within(visited', b) <=> \E i \in 1 .. n + 1 : visited'[i] = b
      BY <2>3 DEF Within
    <3>4. \A b : Within(visited, b) <=> \E i \in 1 .. n : visited[i] = b
      BY DEF Within, n
    <3>5. QED BY <2>3, <3>1, <3>2, <3>3, <3>4
  <2>5. GoesOn(s, p + 1)'
    <3>1. p + 1 \in 1 .. m + 1 /\ p + 1 > 1 /\ (p + 1) - 1 = p
      BY <1>2, <2>2
    <3>2. \A i \in 1 .. m : s[i] \in stayed => (Within(visited', s[i]) <=> i < p + 1)
      <4> TAKE i \in 1 .. m
      <4> HAVE s[i] \in stayed
      <4>1. Within(visited, s[i]) <=> i < p
        BY <1>7
      <4>2. s[i] = s[p] <=> i = p
        BY <1>3, <2>2
      <4>3. i < p + 1 <=> i < p \/ i = p
        BY <1>2
      <4>4. QED BY <2>4, <4>1, <4>2, <4>3
    <3>3. next[s[p]] = BlockAt(s, p + 1)
      BY <1>3, <2>2
    <3>4. QED BY <1>5, <2>1, <2>2, <3>1, <3>2, <3>3 DEF GoesOn, m
  <2>6. ASSUME NEW i \in 1 .. n + 1, NEW j \in 1 .. n + 1, i < j, visited'[i] \in stayed, visited'[j] \in stayed
        PROVE  ComesFirst(order, visited'[i], visited'[j])
    <3>1. CASE j \in 1 .. n
      <4>1. i \in 1 .. n
        BY <2>3, <2>6, <3>1
      <4>2. QED BY <1>4, <2>3, <2>6, <3>1, <4>1 DEF n
    <3>2. CASE j \notin 1 .. n
      <4>1. j = n + 1 /\ i \in 1 .. n
        BY <2>3, <2>6, <3>2
      <4>2. PICK g \in 1 .. m : s[g] = visited[i]
        BY <1>4, <2>3, <2>6, <4>1 DEF Within, m
      <4>3. Within(visited, s[g])
        BY <4>1, <4>2 DEF Within, n
      <4>4. g < p
        BY <1>7, <2>3, <2>6, <4>1, <4>2, <4>3
      <4>5. ComesFirst(order, s[g], s[p])
        BY <1>2, <2>2, <4>4 DEF InOrder, m
      <4>6. QED BY <2>3, <4>1, <4>2, <4>5
    <3>3. QED BY <3>1, <3>2
  <2>7. VisitsAre(s)'
    <3>1. p + 1 \in 1 .. Len(s) + 1
      BY <1>2, <2>2 DEF m
    <3>2. call' # Nil
      BY <1>11, <2>1
    <3>3. \A i, j \in 1 .. Len(visited') : i < j /\ visited'[i] \in stayed' /\ visited'[j] \in stayed'
                                           => ComesFirst(order', visited'[i], visited'[j])
      BY <1>5, <2>3, <2>6
    <3>4. QED BY <1>4, <1>5, <2>3, <2>5, <3>1, <3>2, <3>3 DEF VisitsAre
  <2>8. QED BY <1>8, <2>7 DEF ChainInv
<1>12. QED BY <1>9, <1>10, <1>11

LEMMA ChainStep == ChainInv /\ (ChainNext \/ UNCHANGED chainVars) => ChainInv'
<1> SUFFICES ASSUME ChainInv, ChainNext \/ UNCHANGED chainVars PROVE ChainInv'
  OBVIOUS
<1>1. ASSUME NEW n \in Blocks, NotifierRegister(n) PROVE ChainInv'
  BY <1>1, RegisterKeeps
<1>2. ASSUME NEW n \in Blocks, NotifierUnregister(n) PROVE ChainInv'
  BY <1>2, UnregisterKeeps
<1>3. CASE CallChain
  BY <1>3, CallChainKeeps
<1>4. ASSUME NEW ret, CallbackReturns(ret) PROVE ChainInv'
  BY <1>4, CallbackKeeps
<1>5. CASE UNCHANGED chainVars
  <2>1. UNCHANGED <<head, next, call, visited, stopped, stayed, order>>
    BY <1>5 DEF chainVars
  <2>2. QED BY <2>1 DEF ChainInv, ChainIs, VisitsAre, GoesOn
<1>6. QED BY <1>1, <1>2, <1>3, <1>4, <1>5 DEF ChainNext

LEMMA ChainInvSound == ChainInv => ChainWhole
<1> SUFFICES ASSUME ChainInv PROVE ChainWhole
  OBVIOUS
<1>1. PICK s \in Seq(Blocks) : ChainIs(s) /\ VisitsAre(s)
  BY DEF ChainInv
<1>2. Chain = s /\ \A b : b \in ToSet(Chain) <=> Within(s, b)
  BY <1>1, ChainKnown
<1>3. /\ order \in Seq(Blocks) /\ Len(order) = Len(s) /\ (\A b \in Blocks : Within(order, b) <=> Within(s, b))
      /\ InOrder(order, s)
  BY <1>1 DEF ChainIs
<1>4. /\ visited \in Seq(Blocks) /\ stayed \subseteq Blocks
      /\ \A i, j \in 1 .. Len(visited) :
           i < j /\ visited[i] \in stayed /\ visited[j] \in stayed => ComesFirst(order, visited[i], visited[j])
      /\ (call = Nil /\ ~stopped => \A b \in stayed : Within(visited, b))
  BY <1>1 DEF VisitsAre
<1>5. DOMAIN s = 1 .. Len(s) /\ DOMAIN order = 1 .. Len(order) /\ DOMAIN visited = 1 .. Len(visited)
  BY <1>3, <1>4
<1>6. ToSet(Chain) = ToSet(order)
  <2>1. \A b : b \in ToSet(order) <=> Within(order, b)
    BY <1>5 DEF ToSet, Within
  <2>2. \A b : (Within(s, b) => b \in Blocks) /\ (Within(order, b) => b \in Blocks)
    BY <1>3 DEF Within
  <2>3. QED BY <1>2, <1>3, <2>1, <2>2
<1>7. \A i, j \in DOMAIN Chain : i < j => ComesFirst(order, Chain[i], Chain[j])
  BY <1>2, <1>3, <1>5 DEF InOrder
<1>8. call = Nil /\ ~stopped => stayed \subseteq ToSet(visited)
  <2>1. \A b : b \in ToSet(visited) <=> Within(visited, b)
    BY <1>5 DEF ToSet, Within
  <2>2. QED BY <1>4, <2>1
<1>9. \A i, j \in DOMAIN visited :
        i < j /\ {visited[i], visited[j]} \subseteq stayed => ComesFirst(order, visited[i], visited[j])
  BY <1>4, <1>5
<1>10. QED BY <1>2, <1>3, <1>6, <1>7, <1>8, <1>9 DEF ChainWhole

-----------------------------------------------------------------------------
(* Victims of the out of memory killer *)

VictimsInv ==
  /\ procs \in [DOMAIN Procs -> Nat] /\ killed \in Seq(DOMAIN Procs)
  /\ \A p \in DOMAIN Procs : procs[p] \in {0, Procs[p].pages_used}
  /\ \A i \in 1 .. Len(killed) : ~Procs[killed[i]].protected /\ procs[killed[i]] = 0
  /\ \A i, j \in 1 .. Len(killed) : i < j =>
       killed[i] # killed[j] /\ Procs[killed[i]].pages_used >= Procs[killed[j]].pages_used
  /\ \A i \in 1 .. Len(killed) : \A p \in Candidates : Procs[killed[i]].pages_used >= procs[p]

LEMMA VictimsInvInit == ServicesInit => VictimsInv
<1> SUFFICES ASSUME ServicesInit PROVE VictimsInv
  OBVIOUS
<1>1. procs = [p \in DOMAIN Procs |-> Procs[p].pages_used] /\ killed = << >>
  BY DEF ServicesInit
<1>2. \A p \in DOMAIN Procs : Procs[p].pages_used \in Nat
  BY ServicesAssumption DEF ServicesAssumption
<1>3. killed \in Seq(DOMAIN Procs) /\ Len(killed) = 0
  BY <1>1
<1>4. QED BY <1>1, <1>2, <1>3 DEF VictimsInv

LEMMA RescueKeeps == ASSUME VictimsInv, OutOfMemoryRescue PROVE VictimsInv'
<1> DEFINE P == DOMAIN Procs
           Used(q) == Procs[q].pages_used
           n == Len(killed)
<1>0. /\ procs \in [P -> Nat] /\ killed \in Seq(P) /\ n \in Nat
      /\ (\A p \in P : procs[p] \in {0, Used(p)})
      /\ (\A i \in 1 .. n : ~Procs[killed[i]].protected /\ procs[killed[i]] = 0)
      /\ (\A i, j \in 1 .. n : i < j => killed[i] # killed[j] /\ Used(killed[i]) >= Used(killed[j]))
      /\ \A i \in 1 .. n : \A p \in Candidates : Used(killed[i]) >= procs[p]
  BY DEF VictimsInv
<1>1. PICK v \in Candidates : Worst(v) /\ procs' = [procs EXCEPT ![v] = 0] /\ killed' = Append(killed, v)
  BY DEF OutOfMemoryRescue
<1>2. v \in P /\ ~Procs[v].protected /\ procs[v] > 0 /\ procs[v] = Used(v) /\ Used(v) \in Nat
  BY <1>0, <1>1 DEF Candidates
<1>3. procs' \in [P -> Nat] /\ procs'[v] = 0 /\ \A p \in P : p # v => procs'[p] = procs[p]
  BY <1>0, <1>1, <1>2
<1>4. /\ killed' \in Seq(P) /\ Len(killed') = n + 1 /\ killed'[n + 1] = v
      /\ \A i \in 1 .. n : killed'[i] = killed[i] /\ killed[i] \in P
  BY <1>0, <1>1, <1>2
<1>5. \A p \in Candidates' : p \in Candidates /\ procs'[p] = procs[p] /\ p \in P
  BY <1>0, <1>3 DEF Candidates
<1>6. \A p \in Candidates : procs[p] <= procs[v]
  BY <1>0, <1>1, <1>2 DEF Candidates, Worst
<1> HIDE DEF n, Used, P
<1>7. \A i \in 1 .. n + 1 : i \in 1 .. n \/ i = n + 1
  BY <1>0
<1>8. \A i \in 1 .. n : killed[i] # v /\ Used(killed[i]) >= Used(v)
  BY <1>0, <1>1, <1>2
<1>9. \A i \in 1 .. n + 1 : ~Procs[killed'[i]].protected /\ procs'[killed'[i]] = 0
  <2> TAKE i \in 1 .. n + 1
  <2>1. CASE i \in 1 .. n
    <3>1. killed'[i] = killed[i] /\ killed[i] \in P /\ killed[i] # v
      BY <1>4, <1>8, <2>1
    <3>2. procs'[killed[i]] = procs[killed[i]]
      BY <1>3, <3>1
    <3>3. ~Procs[killed[i]].protected /\ procs[killed[i]] = 0
      BY <1>0, <2>1
    <3>4. procs'[killed'[i]] = 0
      BY <3>1, <3>2, <3>3
    <3>5. ~Procs[killed'[i]].protected
      BY <3>1, <3>3, Zenon
    <3>6. QED BY <3>4, <3>5
  <2>2. CASE i = n + 1
    BY <1>2, <1>3, <1>4, <2>2
  <2>3. QED BY <1>7, <2>1, <2>2
<1>10. ASSUME NEW i \in 1 .. n + 1, NEW j \in 1 .. n + 1, i < j
       PROVE  killed'[i] # killed'[j] /\ Used(killed'[i]) >= Used(killed'[j])
  <2>1. i \in 1 .. n
    BY <1>0, <1>10
  <2>2. CASE j \in 1 .. n
    BY <1>0, <1>4, <1>10, <2>1, <2>2
  <2>3. CASE j = n + 1
    BY <1>4, <1>8, <2>1, <2>3
  <2>4. QED BY <1>7, <2>2, <2>3
<1>11. ASSUME NEW i \in 1 .. n + 1, NEW p \in Candidates' PROVE Used(killed'[i]) >= procs'[p]
  <2>1. p \in Candidates /\ procs'[p] = procs[p]
    BY <1>5
  <2>2. CASE i \in 1 .. n
    BY <1>0, <1>4, <2>1, <2>2
  <2>3. CASE i = n + 1
    <3>1. procs[p] <= procs[v] /\ procs[p] \in Nat
      BY <1>0, <1>5, <1>6, <2>1
    <3>2. procs[v] >= procs[p]
      BY <1>2, <3>1
    <3>3. QED BY <1>2, <1>4, <2>1, <2>3, <3>2
  <2>4. QED BY <1>7, <2>2, <2>3
<1>12. \A p \in P : procs'[p] \in {0, Used(p)}
  BY <1>0, <1>3
<1>13. QED BY <1>3, <1>4, <1>9, <1>10, <1>11, <1>12 DEF VictimsInv, P, Used

LEMMA VictimsStep == VictimsInv /\ (PolicyNext \/ UNCHANGED <<procs, killed>>) => VictimsInv'
<1> SUFFICES ASSUME VictimsInv, PolicyNext \/ UNCHANGED <<procs, killed>> PROVE VictimsInv'
  OBVIOUS
<1>1. CASE OutOfMemoryRescue
  BY <1>1, RescueKeeps
<1>2. CASE UNCHANGED <<procs, killed>>
  BY <1>2 DEF VictimsInv, Candidates
<1>3. CASE \E name \in DOMAIN SysctlTable, text \in SysctlTexts : SysctlSet(name, text)
  BY <1>2, <1>3 DEF SysctlSet
<1>4. CASE \E mode \in {"performance", "powersave", "ondemand"} : SetGovernor(mode)
  BY <1>2, <1>4 DEF SetGovernor
<1>5. CASE \E latency \in {50, 500, 5000} : CpuIdle(latency)
  BY <1>2, <1>5 DEF CpuIdle
<1>6. CASE \E s \in {1, 3, 5} : AcpiEnterSleepState(s)
  BY <1>2, <1>6 DEF AcpiEnterSleepState
<1>7. QED BY <1>1, <1>2, <1>3, <1>4, <1>5, <1>6 DEF PolicyNext

LEMMA VictimsInvSound == VictimsInv => VictimsFair
<1> SUFFICES ASSUME VictimsInv PROVE VictimsFair
  OBVIOUS
<1>1. killed \in Seq(DOMAIN Procs)
  BY DEF VictimsInv
<1>2. DOMAIN killed = 1 .. Len(killed)
  BY <1>1
<1>3. QED BY <1>2 DEF VictimsInv, VictimsFair

-----------------------------------------------------------------------------
(* Teletypes *)

Chars == Letters \union {Newline}
Cells == Chars \union {""}
Places == 0 .. (TTY_BUFFER_SIZE - 1)
Rings == [buffer : [Places -> Cells], head : Places, tail : Places, count : 0 .. TTY_BUFFER_SIZE]
\* ... once a key has cut into a read, count may be anything
Most == COUNT_RANGE - 1
WideRings == [buffer : [Places -> Cells], head : Places, tail : Places, count : 0 .. Most]

\* The characters of ring r, from its tail on, are p
Holds(r, p) ==
  /\ Len(p) = r.count /\ (r.tail + r.count) % TTY_BUFFER_SIZE = r.head
  /\ \A i \in 1 .. r.count : p[i] = r.buffer[(r.tail + i - 1) % TTY_BUFFER_SIZE]

WithTail(r, x) == [r EXCEPT !.tail = x]

ReadKnown ==
  /\ read.at \in {"idle", "check", "taken", "advanced", "loaded"}
  /\ read.at # "idle" => read.tty \in Ttys
  /\ read.at \in {"advanced", "loaded"} => read.from \in Places
  /\ read.at = "loaded" => read.count \in 0 .. Most

Moved(t) == read.at \in {"advanced", "loaded"} /\ read.tty = t
InHand(t) == read.at \in {"taken", "advanced", "loaded"} /\ read.tty = t
\* The ring of t as it was before the read that is at it moved the tail
Before(t) == IF Moved(t) THEN WithTail(ring[t], read.from) ELSE ring[t]

\* What is owed at t is in its ring, but for the character in hand, which is both
InStep(t) ==
  /\ Before(t) \in Rings /\ Holds(Before(t), pending[t])
  /\ read.at = "check" /\ read.tty = t => read.got = read.owed
  /\ InHand(t) => pending[t] # <<>> /\ read.got = Append(read.owed, Head(pending[t]))
  /\ Moved(t) => ring[t].tail = Forward(read.from)
  /\ read.at = "loaded" /\ read.tty = t => read.count = ring[t].count

LinesInv ==
  /\ front \in Ttys /\ typed \in 0 .. MaxTyped
  /\ ring \in [Ttys -> WideRings] /\ pending \in [Ttys -> Seq(Chars)]
  /\ ReadKnown /\ \A t \in Ttys \ crossed : InStep(t)
  /\ handed

LEMMA RingSize == TTY_BUFFER_SIZE \in Nat \ {0}
BY LineAssumption DEF LineAssumption

LEMMA RangeSize ==
  /\ COUNT_RANGE \in Nat \ {0} /\ Most \in Nat /\ Most = COUNT_RANGE - 1 /\ TTY_BUFFER_SIZE <= Most
  /\ \A k \in 0 .. TTY_BUFFER_SIZE : k \in 0 .. Most
BY LineAssumption DEF LineAssumption, Most

LEMMA RingsWide == ASSUME NEW r \in Rings PROVE r \in WideRings
BY RangeSize DEF Rings, WideRings

LEMMA TimesAdds ==
  ASSUME NEW n \in Int, NEW q \in Int, NEW d \in Int
  PROVE  n * (q + d) = n * q + n * d /\ n * q \in Int /\ n * d \in Int
OBVIOUS

LEMMA RemainderOnce ==
  ASSUME NEW n \in Nat \ {0}, NEW q \in Int, NEW x \in Int
  PROVE  (n * q + x) % n = x % n
<1>1. PICK r \in 0 .. n - 1, d \in Int : x % n = r /\ x = n * d + r
  BY Remainder
<1>2. n * (q + d) = n * q + n * d /\ n * q \in Int /\ n * d \in Int /\ q + d \in Int
  BY TimesAdds
<1> DEFINE a == n * q
           b == n * d
           c == n * (q + d)
<1>3. a \in Int /\ b \in Int /\ c = a + b /\ x = b + r
  BY <1>1, <1>2
<1>4. (c + r) % n = r
  BY <1>2, RemainderIs
<1> HIDE DEF a, b, c
<1>5. a + x = c + r
  BY <1>3
<1>6. (a + x) % n = r
  BY <1>4, <1>5
<1>7. QED BY <1>1, <1>6 DEF a

\* A remainder may be taken before something is added
LEMMA RemainderAdds ==
  ASSUME NEW n \in Nat \ {0}, NEW a \in Int, NEW b \in Int
  PROVE  ((a % n) + b) % n = (a + b) % n
<1> DEFINE r == a % n
           d == a \div n
           m == n * d
<1>1. r \in 0 .. n - 1 /\ a = m + r /\ d \in Int
  BY Remainder
<1>2. m \in Int
  <2> HIDE DEF d
  <2> QED BY <1>1, TimesAdds
<1>3. r + b \in Int
  <2> HIDE DEF r, d, m
  <2> QED BY <1>1
<1>4. (m + (r + b)) % n = (r + b) % n
  <2> HIDE DEF r, d
  <2> QED BY <1>1, <1>3, RemainderOnce
<1> HIDE DEF r, d, m
<1>5. a + b = m + (r + b)
  BY <1>1, <1>2
<1>6. QED BY <1>4, <1>5 DEF r

LEMMA PlaceFits == ASSUME NEW a \in Int PROVE a % TTY_BUFFER_SIZE \in Places
BY RingSize DEF Places

\* The character before the head is the last one
LEMMA LastIsBack ==
  ASSUME NEW r \in Rings, NEW p \in Seq(Chars), Holds(r, p), r.count > 0
  PROVE  /\ Back(r.head) = (r.tail + (r.count - 1)) % TTY_BUFFER_SIZE /\ Back(r.head) \in Places
         /\ r.buffer[Back(r.head)] = p[r.count]
<1> DEFINE n == TTY_BUFFER_SIZE
           a == r.tail + r.count
<1>1. r.tail \in Int /\ r.count \in Nat \ {0} /\ n \in Nat \ {0} /\ a \in Int
  BY RingSize DEF Rings, Places
<1>2. r.head = a % n
  BY DEF Holds
<1> DEFINE one == -1
<1>3. Back(r.head) = ((a % n) + one) % n
  <2>1. a % n \in Int
    BY <1>1, Remainder
  <2>2. (a % n) - 1 = (a % n) + one
    <3> DEFINE b == a % n
    <3> HIDE DEF b
    <3> QED BY <2>1 DEF b
  <2>3. QED BY <1>2, <2>2 DEF Back
<1>5. a + one = r.tail + (r.count - 1) /\ a + one = r.tail + r.count - 1 /\ one \in Int
  BY <1>1
<1>4. ((a % n) + one) % n = (a + one) % n
  <2> HIDE DEF a, n, one
  <2> QED BY <1>1, <1>5, RemainderAdds
<1>6. Back(r.head) = (r.tail + (r.count - 1)) % n /\ Back(r.head) = (r.tail + r.count - 1) % n
  BY <1>3, <1>4, <1>5
<1>7. Back(r.head) \in Places
  <2>1. a + one \in Int
    BY <1>1
  <2> HIDE DEF a, one
  <2>2. QED BY <1>3, <1>4, <2>1, PlaceFits
<1>8. p[r.count] = r.buffer[(r.tail + r.count - 1) % n]
  <2>1. r.count \in 1 .. r.count
    BY <1>1
  <2>2. QED BY <2>1 DEF Holds
<1>9. QED BY <1>6, <1>7, <1>8

LEMMA ErasedIs ==
  ASSUME NEW r \in WideRings
  PROVE  Erased(r) = [buffer |-> r.buffer, head |-> Back(r.head), tail |-> r.tail, count |-> r.count - 1]
<1>1. PICK b \in [Places -> Cells], h \in Places, t \in Places, c \in 0 .. Most :
        r = [buffer |-> b, head |-> h, tail |-> t, count |-> c]
  BY DEF WideRings
<1> DEFINE u == [r EXCEPT !.head = Back(r.head)]
           k == r.count - 1
           w == Back(r.head)
<1>2. u = [buffer |-> b, head |-> w, tail |-> t, count |-> c]
  BY <1>1
<1>3. Erased(r) = [u EXCEPT !.count = k]
  BY <1>1 DEF Erased
<1> HIDE DEF u, k, w
<1>4. Erased(r) = [buffer |-> b, head |-> w, tail |-> t, count |-> k]
  BY <1>2, <1>3
<1>5. QED BY <1>1, <1>4 DEF k, w

LEMMA ErasedHolds ==
  ASSUME NEW r \in Rings, NEW p \in Seq(Chars), Holds(r, p), r.count > 0
  PROVE  Erased(r) \in Rings /\ Holds(Erased(r), Front(p)) /\ Front(p) \in Seq(Chars) /\ Erased(r).count = r.count - 1
<1> DEFINE e == Erased(r)
           n == r.count
<1>1. e = [buffer |-> r.buffer, head |-> Back(r.head), tail |-> r.tail, count |-> n - 1]
  BY RingsWide, ErasedIs
<1>2. /\ r.buffer \in [Places -> Cells] /\ r.tail \in Places /\ n \in 1 .. TTY_BUFFER_SIZE
      /\ Len(p) = n
  BY RingSize DEF Rings, Holds
<1>3. Back(r.head) = (r.tail + (n - 1)) % TTY_BUFFER_SIZE /\ Back(r.head) \in Places
  BY LastIsBack
<1>4. Front(p) = SubSeq(p, 1, n - 1)
  BY <1>2 DEF Front
<1>5. Front(p) \in Seq(Chars) /\ Len(Front(p)) = n - 1 /\ \A i \in 1 .. n - 1 : Front(p)[i] = p[i]
  <2> HIDE DEF n
  <2> QED BY <1>2, <1>4, RingSize
<1>6. \A i \in 1 .. n : p[i] = r.buffer[(r.tail + i - 1) % TTY_BUFFER_SIZE]
  BY DEF Holds
<1> HIDE DEF e, n
<1>7. e.buffer = r.buffer /\ e.head = Back(r.head) /\ e.tail = r.tail /\ e.count = n - 1
  BY <1>1
<1>8. n - 1 \in 0 .. TTY_BUFFER_SIZE /\ \A i \in 1 .. n - 1 : i \in 1 .. n
  BY <1>2, RingSize
<1>9. e \in Rings
  BY <1>1, <1>2, <1>3, <1>8 DEF Rings
<1>10. Holds(e, Front(p))
  BY <1>3, <1>5, <1>6, <1>7, <1>8 DEF Holds
<1>11. QED BY <1>5, <1>7, <1>9, <1>10 DEF e, n

\* Two numbers less than n apart have different remainders
LEMMA RemaindersDiffer ==
  ASSUME NEW n \in Nat \ {0}, NEW a \in Int, NEW d \in 1 .. n - 1
  PROVE  (a + d) % n # a % n
<1> DEFINE r == a % n
           q == a \div n
           m == n * q
<1>1. r \in 0 .. n - 1 /\ a = m + r /\ q \in Int
  BY Remainder
<1>2. m \in Int
  <2> HIDE DEF q
  <2> QED BY <1>1, TimesAdds
<1>3. (m + (r + d)) % n = (r + d) % n
  <2>1. r + d \in Int
    <3> HIDE DEF r
    <3> QED BY <1>1
  <2> HIDE DEF q, r
  <2>2. QED BY <1>1, <2>1, RemainderOnce
<1> HIDE DEF r, q, m
<1>4. a + d = m + (r + d)
  BY <1>1, <1>2
<1>5. (r + d) % n # r
  <2>1. CASE r + d < n
    <3>1. r + d \in 0 .. n - 1 /\ r + d = n * 0 + (r + d)
      BY <1>1, <2>1
    <3>2. (n * 0 + (r + d)) % n = r + d
      <4> DEFINE e == r + d
      <4>1. e \in 0 .. n - 1 /\ 0 \in Int
        BY <3>1
      <4> HIDE DEF e
      <4>2. (n * 0 + e) % n = e
        BY <4>1, RemainderIs
      <4>3. QED BY <4>2 DEF e
    <3>3. (r + d) % n = r + d
      BY <3>1, <3>2
    <3>4. QED BY <1>1, <3>3
  <2>2. CASE r + d >= n
    <3> DEFINE e == r + d - n
    <3>1. e \in 0 .. n - 1 /\ r + d = n * 1 + e /\ e # r
      BY <1>1, <2>2
    <3> HIDE DEF e
    <3>2. (n * 1 + e) % n = e
      BY <3>1, RemainderIs
    <3>3. QED BY <3>1, <3>2
  <2>3. QED BY <1>1, <2>1, <2>2
<1>6. QED BY <1>3, <1>4, <1>5 DEF r

LEMMA ReceivedIs ==
  ASSUME NEW r \in WideRings, NEW c \in Chars
  PROVE  Received(r, c) = [buffer |-> [r.buffer EXCEPT ![r.head] = c], head |-> Forward(r.head),
                           tail |-> r.tail, count |-> r.count + 1]
<1>1. PICK b \in [Places -> Cells], h \in Places, t \in Places, k \in 0 .. Most :
        r = [buffer |-> b, head |-> h, tail |-> t, count |-> k]
  BY DEF WideRings
<1> DEFINE b1 == [b EXCEPT ![h] = c]
           u1 == [r EXCEPT !.buffer[r.head] = c]
           w == Forward(r.head)
           u2 == [u1 EXCEPT !.head = w]
           n == r.count + 1
<1>2. u1 = [buffer |-> b1, head |-> h, tail |-> t, count |-> k]
  BY <1>1
<1>3. Received(r, c) = [u2 EXCEPT !.count = n]
  <2>1. u1.head = r.head /\ u1.count = r.count
    BY <1>1, <1>2
  <2>2. QED BY <1>1, <2>1 DEF Received
<1>4. b1 = [r.buffer EXCEPT ![r.head] = c]
  BY <1>1
<1> HIDE DEF u1, w, n, b1
<1>5. u2 = [buffer |-> b1, head |-> w, tail |-> t, count |-> k]
  BY <1>2
<1> HIDE DEF u2
<1>6. Received(r, c) = [buffer |-> b1, head |-> w, tail |-> t, count |-> n]
  BY <1>3, <1>5
<1>7. QED BY <1>1, <1>4, <1>6 DEF n, w

LEMMA ReceivedHolds ==
  ASSUME NEW r \in Rings, NEW p \in Seq(Chars), Holds(r, p), r.count < TTY_BUFFER_SIZE, NEW c \in Chars
  PROVE  Received(r, c) \in Rings /\ Holds(Received(r, c), Append(p, c)) /\ Append(p, c) \in Seq(Chars)
<1> DEFINE e == Received(r, c)
           n == r.count
           N == TTY_BUFFER_SIZE
           b == [r.buffer EXCEPT ![r.head] = c]
<1>1. e = [buffer |-> b, head |-> Forward(r.head), tail |-> r.tail, count |-> n + 1]
  BY RingsWide, ReceivedIs
<1>2. /\ r.buffer \in [Places -> Cells] /\ r.tail \in Int /\ r.tail \in Places /\ r.head \in Places
      /\ n \in Nat /\ n < N /\ Len(p) = n /\ N \in Nat \ {0}
  BY RingSize DEF Rings, Holds, Places
<1>3. r.head = (r.tail + n) % N /\ \A i \in 1 .. n : p[i] = r.buffer[(r.tail + i - 1) % N]
  BY DEF Holds
<1>4. b \in [Places -> Cells] /\ b[r.head] = c /\ \A x \in Places : x # r.head => b[x] = r.buffer[x]
  BY <1>2 DEF Cells
<1>5. Append(p, c) \in Seq(Chars) /\ Len(Append(p, c)) = n + 1 /\ Append(p, c)[n + 1] = c
      /\ \A i \in 1 .. n : Append(p, c)[i] = p[i]
  BY <1>2
<1> HIDE DEF e, b, n, N
<1>6. e.buffer = b /\ e.head = Forward(r.head) /\ e.tail = r.tail /\ e.count = n + 1
  BY <1>1
<1>7. Forward(r.head) = (r.tail + (n + 1)) % N /\ Forward(r.head) \in Places
  <2> DEFINE a == r.tail + n
             one == 1
  <2>1. a \in Int /\ a + 1 = r.tail + (n + 1) /\ a + 1 \in Int /\ one \in Int
    BY <1>2
  <2> HIDE DEF a, one
  <2>6. ((a % N) + one) % N = (a + one) % N
    BY <1>2, <2>1, RemainderAdds
  <2>2. ((a % N) + 1) % N = (a + 1) % N
    BY <2>6 DEF one
  <2>3. Forward(r.head) = ((a % N) + 1) % N
    BY <1>3 DEF Forward, a, N
  <2>4. (a + 1) % N \in Places
    BY <2>1, PlaceFits DEF N
  <2>5. QED BY <2>1, <2>2, <2>3, <2>4
<1>8. e \in Rings
  <2>1. n + 1 \in 0 .. N
    BY <1>2
  <2>2. QED BY <1>1, <1>2, <1>4, <1>7, <2>1 DEF Rings, N
<1>9. ASSUME NEW i \in 1 .. n + 1 PROVE Append(p, c)[i] = b[(r.tail + i - 1) % N]
  <2>1. CASE i = n + 1
    <3>1. r.tail + i - 1 = r.tail + n
      BY <1>2, <2>1
    <3>2. QED BY <1>3, <1>4, <1>5, <2>1, <3>1
  <2>2. CASE i # n + 1
    <3> DEFINE a == r.tail + i - 1
               d == n - i + 1
    <3>1. i \in 1 .. n /\ a \in Int /\ d \in 1 .. N - 1 /\ a + d = r.tail + n
      BY <1>2, <2>2
    <3> HIDE DEF a, d
    <3>2. a % N # r.head /\ a % N \in Places
      <4>1. (a + d) % N # a % N
        BY <1>2, <3>1, RemaindersDiffer
      <4>2. a % N \in Places
        BY <3>1, PlaceFits DEF N
      <4>3. QED BY <1>3, <3>1, <4>1, <4>2
    <3>3. b[a % N] = r.buffer[a % N]
      BY <1>4, <3>2
    <3>4. p[i] = r.buffer[a % N]
      BY <1>3, <3>1 DEF a
    <3>5. QED BY <1>5, <3>1, <3>3, <3>4 DEF a
  <2>3. QED BY <2>1, <2>2
<1>10. Holds(e, Append(p, c))
  BY <1>5, <1>6, <1>7, <1>9 DEF Holds, N
<1>11. QED BY <1>5, <1>8, <1>10 DEF e

LEMMA ContentsIs ==
  ASSUME NEW r \in Rings, NEW p \in Seq(Chars), Holds(r, p)
  PROVE  Contents(r) = p
<1>1. p = [i \in 1 .. Len(p) |-> p[i]] /\ Len(p) = r.count
  BY DEF Holds
<1>2. \A i \in 1 .. r.count : p[i] = r.buffer[(r.tail + i - 1) % TTY_BUFFER_SIZE]
  BY DEF Holds
<1>3. QED BY <1>1, <1>2 DEF Contents

\* A ring that k characters are read from
ReadFrom(r, k) == [[r EXCEPT !.tail = (@ + k) % TTY_BUFFER_SIZE] EXCEPT !.count = @ - k]

LEMMA ReadIs ==
  ASSUME NEW r \in Rings, NEW k
  PROVE  ReadFrom(r, k) = [buffer |-> r.buffer, head |-> r.head,
                           tail |-> (r.tail + k) % TTY_BUFFER_SIZE, count |-> r.count - k]
<1>1. PICK b \in [Places -> Cells], h \in Places, t \in Places, c \in 0 .. TTY_BUFFER_SIZE :
        r = [buffer |-> b, head |-> h, tail |-> t, count |-> c]
  BY DEF Rings
<1> DEFINE w == (r.tail + k) % TTY_BUFFER_SIZE
           u == [r EXCEPT !.tail = w]
           n == r.count - k
<1>2. u = [buffer |-> b, head |-> h, tail |-> w, count |-> c]
  BY <1>1
<1>3. ReadFrom(r, k) = [u EXCEPT !.count = n]
  <2>1. u.count = r.count
    BY <1>1, <1>2
  <2>2. QED BY <2>1 DEF ReadFrom
<1> HIDE DEF u, w, n
<1>4. ReadFrom(r, k) = [buffer |-> b, head |-> h, tail |-> w, count |-> n]
  BY <1>2, <1>3
<1>5. QED BY <1>1, <1>4 DEF n, w

LEMMA ReadHolds ==
  ASSUME NEW r \in Rings, NEW p \in Seq(Chars), Holds(r, p), NEW k \in 0 .. r.count
  PROVE  /\ ReadFrom(r, k) \in Rings /\ Holds(ReadFrom(r, k), SubSeq(p, k + 1, Len(p)))
         /\ SubSeq(p, k + 1, Len(p)) \in Seq(Chars)
<1> DEFINE e == ReadFrom(r, k)
           n == r.count
           N == TTY_BUFFER_SIZE
           q == SubSeq(p, k + 1, Len(p))
           a == r.tail + k
<1>1. e = [buffer |-> r.buffer, head |-> r.head, tail |-> a % N, count |-> n - k]
  BY ReadIs
<1>2. /\ r.buffer \in [Places -> Cells] /\ r.tail \in Int /\ r.head \in Places
      /\ n \in 0 .. N /\ Len(p) = n /\ N \in Nat \ {0} /\ k \in 0 .. n
  BY RingSize DEF Rings, Holds, Places
<1>3. r.head = (r.tail + n) % N /\ \A i \in 1 .. n : p[i] = r.buffer[(r.tail + i - 1) % N]
  BY DEF Holds
<1> HIDE DEF e, n, N
<1>4. q \in Seq(Chars) /\ Len(q) = n - k /\ \A i \in 1 .. n - k : q[i] = p[k + i]
  BY <1>2
<1>5. a \in Int /\ n - k \in 0 .. N /\ n - k \in Int
  BY <1>2
<1>6. e.buffer = r.buffer /\ e.head = r.head /\ e.tail = a % N /\ e.count = n - k
  BY <1>1
<1>7. a % N \in Places
  <2> HIDE DEF a
  <2> QED BY <1>5, PlaceFits DEF N
<1> HIDE DEF q
<1>8. e \in Rings
  <2> HIDE DEF a
  <2> QED BY <1>1, <1>2, <1>5, <1>7 DEF Rings, N
<1>9. ((a % N) + (n - k)) % N = r.head
  <2>1. ((a % N) + (n - k)) % N = (a + (n - k)) % N
    <3> DEFINE d == n - k
    <3> HIDE DEF a, d
    <3>1. ((a % N) + d) % N = (a + d) % N
      BY <1>2, <1>5, RemainderAdds DEF d
    <3>2. QED BY <3>1 DEF d
  <2>2. a + (n - k) = r.tail + n
    BY <1>2
  <2>3. QED BY <1>3, <2>1, <2>2
<1>10. ASSUME NEW i \in 1 .. n - k PROVE q[i] = r.buffer[((a % N) + i - 1) % N]
  <2> DEFINE d == i - 1
  <2>1. d \in Int /\ k + i \in 1 .. n /\ r.tail + (k + i) - 1 = a + d
    <3>1. k \in Nat /\ n \in Nat /\ i \in Nat \ {0} /\ i <= n - k /\ r.tail \in Int
      BY <1>2
    <3> DEFINE t == r.tail
    <3> HIDE DEF t, n
    <3>2. k + i \in 1 .. n
      BY <3>1
    <3>3. t + (k + i) - 1 = (t + k) + (i - 1)
      BY <3>1 DEF t
    <3>4. QED BY <3>1, <3>2, <3>3 DEF t
  <2>2. (a % N) + i - 1 = (a % N) + d
    <3> DEFINE z == a % N
    <3>1. z \in Int
      BY <1>7, <1>2 DEF Places, N
    <3> HIDE DEF z
    <3>2. z + i - 1 = z + d
      BY <3>1
    <3>3. QED BY <3>2 DEF z
  <2>3. ((a % N) + d) % N = (a + d) % N
    <3> HIDE DEF a, d
    <3> QED BY <1>2, <1>5, <2>1, RemainderAdds
  <2>4. p[k + i] = r.buffer[(a + d) % N]
    BY <1>3, <2>1
  <2>5. QED BY <1>4, <2>2, <2>3, <2>4
<1>11. Holds(e, q)
  BY <1>4, <1>6, <1>9, <1>10 DEF Holds, N
<1>12. QED BY <1>4, <1>8, <1>11 DEF e, q

\* No newline comes after the last one
LEMMA LastNewlineIs ==
  ASSUME NEW s \in Seq(Chars)
  PROVE  /\ LastNewline(s) \in 0 .. Len(s) /\ \A i \in LastNewline(s) + 1 .. Len(s) : s[i] # Newline
         /\ LastNewline(s) # 0 => s[LastNewline(s)] = Newline
<1> DEFINE T == {i \in DOMAIN s : s[i] = Newline}
<1>1. LastNewline(s) = IF T = {} THEN 0 ELSE CHOOSE i \in T : \A j \in T : j <= i
  BY DEF LastNewline
<1>2. Len(s) \in Nat /\ DOMAIN s = 1 .. Len(s) /\ T \subseteq 1 .. Len(s)
  OBVIOUS
<1>3. \A i \in 1 .. Len(s) : i \notin T => s[i] # Newline
  BY <1>2
<1>4. CASE T = {}
  <2>1. LastNewline(s) = 0
    BY <1>1, <1>4
  <2>2. QED BY <1>2, <1>3, <1>4, <2>1
<1>5. CASE T # {}
  <2>0. \A i \in T : s[i] = Newline
    OBVIOUS
  <2> HIDE DEF T
  <2>1. PICK x \in T : \A k \in T : k <= x
    BY <1>2, <1>5, GreatestElement
  <2> DEFINE m == LastNewline(s)
             n == Len(s)
  <2>2. m \in T /\ \A j \in T : j <= m
    BY <1>1, <1>5, <2>1
  <2>3. m \in 1 .. n /\ n \in Nat
    BY <1>2, <2>2
  <2> HIDE DEF m, n
  <2>4. ASSUME NEW i \in m + 1 .. n PROVE s[i] # Newline
    <3>1. i \in 1 .. n /\ ~(i <= m)
      BY <2>3
    <3>2. i \notin T
      BY <2>2, <3>1
    <3>3. QED BY <1>3, <3>1, <3>2 DEF n
  <2>5. m \in 0 .. n
    BY <2>3
  <2>6. s[m] = Newline
    BY <2>0, <2>2
  <2>7. QED BY <2>4, <2>5, <2>6 DEF m, n
<1>6. QED BY <1>4, <1>5

KillOnce(x) ==
  IF x.count > 0 /\ x.buffer[Back(x.head)] # Newline THEN Erased(x) ELSE x
KilledBody(f, r) ==
  [k \in 0 .. (COUNT_RANGE - 1) |->
     IF k = 0 THEN r
     ELSE IF f[k - 1].count > 0 /\ f[k - 1].buffer[Back(f[k - 1].head)] # Newline
          THEN Erased(f[k - 1]) ELSE f[k - 1]]

LEMMA KillOnceFits == ASSUME NEW x \in WideRings PROVE KillOnce(x) \in WideRings
<1>1. CASE x.count > 0
  <2>1. Erased(x) = [buffer |-> x.buffer, head |-> Back(x.head), tail |-> x.tail, count |-> x.count - 1]
    BY ErasedIs
  <2>2. x.buffer \in [Places -> Cells] /\ x.tail \in Places /\ x.count - 1 \in 0 .. Most
    BY <1>1, RangeSize DEF WideRings
  <2>3. Back(x.head) \in Places
    <3>1. x.head - 1 \in Int
      BY RingSize DEF WideRings, Places
    <3>2. QED BY <3>1, PlaceFits DEF Back
  <2>4. Erased(x) \in WideRings
    BY <2>1, <2>2, <2>3 DEF WideRings
  <2>5. QED BY <2>4 DEF KillOnce
<1>2. CASE ~(x.count > 0)
  BY <1>2 DEF KillOnce
<1>3. QED BY <1>1, <1>2

LEMMA KilledSteps ==
  ASSUME NEW r \in WideRings
  PROVE  \E f : /\ Killed(r) = f[Most] /\ f[0] = r
                /\ \A k \in 1 .. Most : f[k] = KillOnce(f[k - 1])
<1> DEFINE N == Most
           F == [z \in WideRings \X (1 .. N) |-> KillOnce(z[1])]
<1>1. N \in Nat /\ F \in [WideRings \X (1 .. N) -> WideRings]
  BY RangeSize, KillOnceFits
<1>2. PICK g \in [0 .. N -> WideRings] : Solves(g, N, r, F)
  <2> HIDE DEF F, N
  <2> QED BY <1>1, RecursionExists
<1>3. g[0] = r /\ \A k \in 1 .. N : g[k] = KillOnce(g[k - 1])
  <2>1. ASSUME NEW k \in 1 .. N PROVE g[k] = KillOnce(g[k - 1])
    <3>1. k - 1 \in 0 .. N
      BY <1>1
    <3>2. g[k - 1] \in WideRings
      BY <3>1
    <3>3. g[k] = F[<<g[k - 1], k>>]
      <4> HIDE DEF F, N
      <4>1. QED BY <1>2 DEF Solves
    <3>4. F[<<g[k - 1], k>>] = KillOnce(g[k - 1])
      BY <3>2
    <3>5. QED BY <3>3, <3>4
  <2>2. QED BY <1>2, <2>1 DEF Solves
<1> HIDE DEF N
<1>4. g = KilledBody(g, r)
  <2>1. g = [k \in 0 .. N |-> g[k]]
    OBVIOUS
  <2>2. \A k \in 0 .. N : g[k] = IF k = 0 THEN r
            ELSE IF g[k - 1].count > 0 /\ g[k - 1].buffer[Back(g[k - 1].head)] # Newline
                 THEN Erased(g[k - 1]) ELSE g[k - 1]
    <3> TAKE k \in 0 .. N
    <3>1. CASE k = 0
      BY <1>3, <3>1
    <3>2. CASE k # 0
      <4>1. k \in 1 .. N
        BY <1>1, <3>2
      <4>2. g[k] = KillOnce(g[k - 1])
        BY <1>3, <4>1
      <4>3. QED BY <3>2, <4>2 DEF KillOnce
    <3>3. QED BY <3>1, <3>2
  <2>3. QED BY <2>1, <2>2 DEF KilledBody, N, Most
<1> DEFINE f == CHOOSE h : h = KilledBody(h, r)
<1>5. f = KilledBody(f, r)
  BY <1>4
<1>6. Killed(r) = f[N]
  BY DEF Killed, KilledBody, N, Most
<1> HIDE DEF f
<1>7. f[0] = r
  <2>1. KilledBody(f, r)[0] = r
    BY <1>1 DEF KilledBody, N, Most
  <2>2. QED BY <1>5, <2>1
<1>8. ASSUME NEW k \in 1 .. N PROVE f[k] = KillOnce(f[k - 1])
  <2>1. KilledBody(f, r)[k] = KillOnce(f[k - 1])
    <3>1. k \in 0 .. N /\ k # 0
      BY <1>1
    <3>2. QED BY <3>1 DEF KilledBody, KillOnce, N, Most
  <2>2. f[k] = KilledBody(f, r)[k]
    BY <1>5
  <2>3. QED BY <2>1, <2>2
<1>9. QED BY <1>6, <1>7, <1>8 DEF N

\* VKILL takes what comes after the last newline
LEMMA KilledHolds ==
  ASSUME NEW r \in Rings, NEW p \in Seq(Chars), Holds(r, p)
  PROVE  /\ Killed(r) \in Rings /\ Holds(Killed(r), SubSeq(p, 1, LastNewline(p)))
         /\ SubSeq(p, 1, LastNewline(p)) \in Seq(Chars)
<1> DEFINE N == Most
           n == Len(p)
           L == LastNewline(p)
           Pre(c) == SubSeq(p, 1, c)
<1>1. PICK f : Killed(r) = f[N] /\ f[0] = r /\ \A k \in 1 .. N : f[k] = KillOnce(f[k - 1])
  BY RingsWide, KilledSteps
<1>2. /\ L \in 0 .. n /\ n \in 0 .. N /\ N \in Nat /\ (\A i \in L + 1 .. n : p[i] # Newline)
      /\ (L # 0 => p[L] = Newline) /\ n = r.count
  BY LastNewlineIs, RangeSize DEF Holds, Rings
<1>3. ASSUME NEW c \in 0 .. n
      PROVE  Pre(c) \in Seq(Chars) /\ Len(Pre(c)) = c /\ (\A i \in 1 .. c : Pre(c)[i] = p[i])
             /\ (c > 0 => Front(Pre(c)) = Pre(c - 1))
  <2>1. Pre(c) \in Seq(Chars) /\ Len(Pre(c)) = c /\ \A i \in 1 .. c : Pre(c)[i] = p[i]
    OBVIOUS
  <2>2. c > 0 => Front(Pre(c)) = Pre(c - 1)
    <3> SUFFICES ASSUME c > 0 PROVE Front(Pre(c)) = Pre(c - 1)
      OBVIOUS
    <3>1. Front(Pre(c)) = SubSeq(Pre(c), 1, c - 1)
      BY <2>1 DEF Front
    <3> DEFINE a == SubSeq(Pre(c), 1, c - 1)
               b == Pre(c - 1)
    <3>2. a \in Seq(Chars) /\ Len(a) = c - 1 /\ \A i \in 1 .. c - 1 : a[i] = Pre(c)[i]
      <4> DEFINE z == Pre(c)
      <4>1. z \in Seq(Chars) /\ Len(z) = c /\ c - 1 \in 0 .. c
        BY <2>1
      <4> HIDE DEF z
      <4>2. SubSeq(z, 1, c - 1) \in Seq(Chars) /\ Len(SubSeq(z, 1, c - 1)) = c - 1
            /\ \A i \in 1 .. c - 1 : SubSeq(z, 1, c - 1)[i] = z[i]
        BY <4>1
      <4>3. QED BY <4>2 DEF z
    <3>3. b \in Seq(Chars) /\ Len(b) = c - 1 /\ \A i \in 1 .. c - 1 : b[i] = p[i]
      OBVIOUS
    <3> HIDE DEF a, b
    <3>4. \A i \in 1 .. c - 1 : a[i] = b[i]
      BY <2>1, <3>2, <3>3
    <3>5. a = b
      BY <3>2, <3>3, <3>4, SeqEqual
    <3>6. QED BY <3>1, <3>5 DEF a, b
  <2>3. QED BY <2>1, <2>2
<1> HIDE DEF Pre, L, n, N
<1> DEFINE Good(k) == f[k] \in Rings /\ \E c \in L .. n : Holds(f[k], Pre(c)) /\ (c = L \/ c <= n - k)
           S == {k \in 0 .. N : Good(k)}
<1>4. 0 \in S
  <2>1. Pre(n) = p
    <3>1. Len(Pre(n)) = n /\ Pre(n) \in Seq(Chars) /\ \A i \in 1 .. n : Pre(n)[i] = p[i]
      BY <1>2, <1>3
    <3>2. QED BY <3>1, SeqEqual DEF n
  <2>2. n \in L .. n /\ n <= n - 0 /\ 0 \in 0 .. N
    BY <1>2
  <2>3. QED BY <1>1, <2>1, <2>2
<1>5. ASSUME NEW k \in 1 .. N, (k - 1) \in S PROVE k \in S
  <2>1. PICK c \in L .. n : f[k - 1] \in Rings /\ Holds(f[k - 1], Pre(c)) /\ (c = L \/ c <= n - (k - 1))
    BY <1>5
  <2> DEFINE x == f[k - 1]
  <2>2. f[k] = KillOnce(x) /\ x \in Rings /\ k \in 0 .. N /\ c \in 0 .. n
    BY <1>1, <1>2, <2>1
  <2>3. Len(Pre(c)) = c /\ Pre(c) \in Seq(Chars) /\ x.count = c
    BY <1>3, <2>1, <2>2 DEF Holds
  <2> HIDE DEF x
  <2>7. Holds(x, Pre(c))
    BY <2>1 DEF x
  <2>4. CASE c > 0 /\ c # L
    <3>1. x.buffer[Back(x.head)] = p[c] /\ p[c] # Newline
      <4>1. x.buffer[Back(x.head)] = Pre(c)[x.count]
        BY <2>2, <2>3, <2>4, <2>7, LastIsBack
      <4>2. Pre(c)[c] = p[c]
        BY <1>3, <2>2, <2>4
      <4>3. c \in L + 1 .. n
        BY <1>2, <2>4
      <4>4. QED BY <1>2, <2>3, <4>1, <4>2, <4>3
    <3>2. f[k] = Erased(x)
      BY <2>2, <2>3, <2>4, <3>1 DEF KillOnce
    <3>3. Erased(x) \in Rings /\ Holds(Erased(x), Front(Pre(c)))
      BY <2>2, <2>3, <2>4, <2>7, ErasedHolds
    <3>4. Front(Pre(c)) = Pre(c - 1)
      BY <1>3, <2>2, <2>4
    <3>5. c - 1 \in L .. n /\ (c - 1 = L \/ c - 1 <= n - k)
      BY <1>2, <2>1, <2>4
    <3>6. Good(k)
      BY <3>2, <3>3, <3>4, <3>5
    <3>7. QED BY <2>2, <3>6
  <2>5. CASE ~(c > 0 /\ c # L)
    <3>1. c = L
      BY <1>2, <2>2, <2>5
    <3>2. f[k] = x
      <4>1. CASE c = 0
        BY <2>2, <2>3, <4>1 DEF KillOnce
      <4>2. CASE c # 0
        <5>1. x.buffer[Back(x.head)] = Pre(c)[x.count]
          BY <2>2, <2>3, <4>2, <2>7, LastIsBack
        <5>2. Pre(c)[c] = p[c]
          BY <1>3, <2>2, <4>2
        <5>3. QED BY <1>2, <2>2, <2>3, <3>1, <4>2, <5>1, <5>2 DEF KillOnce
      <4>3. QED BY <4>1, <4>2
    <3>3. Good(k)
      BY <2>2, <2>7, <3>1, <3>2
    <3>4. QED BY <2>2, <3>3
  <2>6. QED BY <2>4, <2>5
<1>6. Good(N)
  <2>1. \A k \in 0 .. N : k \in S
    <3> HIDE DEF S
    <3> QED BY <1>2, <1>4, <1>5, SetInduction
  <2>2. N \in S
    BY <1>2, <2>1
  <2>3. QED BY <2>2
<1>7. PICK c \in L .. n : f[N] \in Rings /\ Holds(f[N], Pre(c)) /\ (c = L \/ c <= n - N)
  BY <1>6
<1>8. c = L
  BY <1>2, <1>7
<1>9. Pre(L) \in Seq(Chars)
  BY <1>2, <1>3
<1>10. QED BY <1>1, <1>7, <1>8, <1>9 DEF Pre, L, N

\* What a key does to the ring, and to what is owed when it holds k characters
Keyed(r, c) ==
  IF c = VINTR THEN r
  ELSE IF c = VERASE THEN (IF r.count > 0 THEN Erased(r) ELSE r)
  ELSE IF c = VKILL THEN Killed(r)
  ELSE IF r.count < TTY_BUFFER_SIZE THEN Received(r, Cooked(c)) ELSE r
Owes(p, k, c) ==
  IF c = VINTR THEN p
  ELSE IF c = VERASE THEN (IF k > 0 THEN Front(p) ELSE p)
  ELSE IF c = VKILL THEN SubSeq(p, 1, LastNewline(p))
  ELSE IF k < TTY_BUFFER_SIZE THEN Append(p, Cooked(c)) ELSE p
Keys == Letters \union {Return, VERASE, VKILL, VINTR}

LEMMA CookedKnown == ASSUME NEW c \in Keys, c \notin {VINTR, VERASE, VKILL} PROVE Cooked(c) \in Chars
BY DEF Keys, Cooked, Chars

LEMMA KeyHolds ==
  ASSUME NEW r \in Rings, NEW p \in Seq(Chars), Holds(r, p), NEW c \in Keys
  PROVE  Keyed(r, c) \in Rings /\ Holds(Keyed(r, c), Owes(p, r.count, c))
<1>1. CASE c = VERASE /\ r.count > 0
  BY <1>1, ErasedHolds DEF Keyed, Owes, VERASE, VINTR
<1>2. CASE c = VKILL
  BY <1>2, KilledHolds DEF Keyed, Owes, VERASE, VINTR, VKILL
<1>3. CASE c \notin {VINTR, VERASE, VKILL} /\ r.count < TTY_BUFFER_SIZE
  BY <1>3, ReceivedHolds, CookedKnown DEF Keyed, Owes
<1>4. CASE ~(c = VERASE /\ r.count > 0) /\ c # VKILL
           /\ ~(c \notin {VINTR, VERASE, VKILL} /\ r.count < TTY_BUFFER_SIZE)
  BY <1>4 DEF Keyed, Owes
<1>5. QED BY <1>1, <1>2, <1>3, <1>4

LEMMA OwesFits ==
  ASSUME NEW p \in Seq(Chars), NEW k \in Nat, NEW c \in Keys
  PROVE  /\ Owes(p, k, c) \in Seq(Chars)
         /\ p # <<>> /\ Owes(p, k, c) # <<>> => Head(Owes(p, k, c)) = Head(p)
<1> DEFINE q == Owes(p, k, c)
<1>1. CASE q = p
  BY <1>1
<1>2. CASE q = Front(p)
  <2>1. Front(p) = SubSeq(p, 1, Len(p) - 1)
    BY DEF Front
  <2> HIDE DEF q
  <2>2. q = SubSeq(p, 1, Len(p) - 1)
    BY <1>2, <2>1
  <2>3. QED BY <2>2 DEF q
<1>3. CASE q = SubSeq(p, 1, LastNewline(p))
  <2> DEFINE m == LastNewline(p)
  <2>1. m \in 0 .. Len(p)
    BY LastNewlineIs
  <2> HIDE DEF q, m
  <2>2. q = SubSeq(p, 1, m)
    BY <1>3 DEF m
  <2>3. QED BY <2>1, <2>2 DEF q
<1>4. CASE c \notin {VINTR, VERASE, VKILL} /\ q = Append(p, Cooked(c))
  <2>1. Cooked(c) \in Chars
    BY <1>4, CookedKnown
  <2> HIDE DEF q
  <2>2. QED BY <1>4, <2>1 DEF q
<1>5. QED BY <1>1, <1>2, <1>3, <1>4 DEF Owes

LEMMA WithTailIs ==
  ASSUME NEW r \in WideRings, NEW x \in Places
  PROVE  /\ WithTail(r, x) = [buffer |-> r.buffer, head |-> r.head, tail |-> x, count |-> r.count]
         /\ WithTail(r, x) \in WideRings
<1>1. PICK b \in [Places -> Cells], h \in Places, t \in Places, c \in 0 .. Most :
        r = [buffer |-> b, head |-> h, tail |-> t, count |-> c]
  BY DEF WideRings
<1>2. WithTail(r, x) = [buffer |-> b, head |-> h, tail |-> x, count |-> c]
  BY <1>1 DEF WithTail
<1>3. QED BY <1>1, <1>2 DEF WideRings

LEMMA ErasedFits ==
  ASSUME NEW r \in WideRings, r.count > 0, NEW x \in Places
  PROVE  /\ Erased(r) \in WideRings /\ Erased(r).tail = r.tail
         /\ Erased(WithTail(r, x)) = WithTail(Erased(r), x)
<1>1. Erased(r) = [buffer |-> r.buffer, head |-> Back(r.head), tail |-> r.tail, count |-> r.count - 1]
  BY ErasedIs
<1>2. Back(r.head) \in Places
  <2>1. r.head - 1 \in Int
    BY RingSize DEF WideRings, Places
  <2>2. QED BY <2>1, PlaceFits DEF Back
<1>3. Erased(r) \in WideRings
  <2>1. r.count - 1 \in 0 .. Most /\ r.buffer \in [Places -> Cells] /\ r.tail \in Places
    BY RangeSize DEF WideRings
  <2>2. QED BY <1>1, <1>2, <2>1 DEF WideRings
<1>4. Erased(r).tail = r.tail
  BY <1>1
<1> DEFINE w == WithTail(r, x)
           e == Erased(r)
<1>5. w = [buffer |-> r.buffer, head |-> r.head, tail |-> x, count |-> r.count] /\ w \in WideRings
  BY WithTailIs
<1>6. WithTail(e, x) = [buffer |-> e.buffer, head |-> e.head, tail |-> x, count |-> e.count]
  BY <1>3, WithTailIs
<1> HIDE DEF w, e
<1>7. Erased(w) = [buffer |-> w.buffer, head |-> Back(w.head), tail |-> w.tail, count |-> w.count - 1]
  BY <1>5, ErasedIs
<1>8. w.buffer = r.buffer /\ w.head = r.head /\ w.tail = x /\ w.count = r.count
  BY <1>5
<1>9. e.buffer = r.buffer /\ e.head = Back(r.head) /\ e.count = r.count - 1
  BY <1>1 DEF e
<1>10. QED BY <1>3, <1>4, <1>6, <1>7, <1>8, <1>9 DEF w, e

LEMMA ReceivedFits ==
  ASSUME NEW r \in WideRings, r.count < TTY_BUFFER_SIZE, NEW c \in Chars, NEW x \in Places
  PROVE  /\ Received(r, c) \in WideRings /\ Received(r, c).tail = r.tail
         /\ Received(WithTail(r, x), c) = WithTail(Received(r, c), x)
<1> DEFINE e == Received(r, c)
           w == WithTail(r, x)
<1>1. e = [buffer |-> [r.buffer EXCEPT ![r.head] = c], head |-> Forward(r.head),
           tail |-> r.tail, count |-> r.count + 1]
  BY ReceivedIs
<1>2. Forward(r.head) \in Places
  <2>1. r.head + 1 \in Int
    BY RingSize DEF WideRings, Places
  <2>2. QED BY <2>1, PlaceFits DEF Forward
<1>3. w = [buffer |-> r.buffer, head |-> r.head, tail |-> x, count |-> r.count] /\ w \in WideRings
  BY WithTailIs
<1> HIDE DEF e, w
<1>4. e \in WideRings /\ e.tail = r.tail
  <2>1. r.count + 1 \in 0 .. Most /\ r.tail \in Places
    BY RangeSize, RingSize DEF WideRings
  <2>2. [r.buffer EXCEPT ![r.head] = c] \in [Places -> Cells]
    <3>1. r.buffer \in [Places -> Cells] /\ c \in Cells
      BY DEF WideRings, Cells
    <3>2. QED BY <3>1
  <2>3. QED BY <1>1, <1>2, <2>1, <2>2 DEF WideRings
<1>5. WithTail(e, x) = [buffer |-> e.buffer, head |-> e.head, tail |-> x, count |-> e.count]
  BY <1>4, WithTailIs
<1>6. Received(w, c) = [buffer |-> [w.buffer EXCEPT ![w.head] = c], head |-> Forward(w.head),
                        tail |-> w.tail, count |-> w.count + 1]
  BY <1>3, ReceivedIs
<1>7. w.buffer = r.buffer /\ w.head = r.head /\ w.tail = x /\ w.count = r.count
  BY <1>3
<1>8. e.buffer = [r.buffer EXCEPT ![r.head] = c] /\ e.head = Forward(r.head) /\ e.count = r.count + 1
  BY <1>1
<1>9. QED BY <1>4, <1>5, <1>6, <1>7, <1>8 DEF e, w

LEMMA KilledFits ==
  ASSUME NEW r \in WideRings, NEW x \in Places
  PROVE  /\ Killed(r) \in WideRings /\ Killed(r).tail = r.tail
         /\ Killed(WithTail(r, x)) = WithTail(Killed(r), x)
<1>1. WithTail(r, x) \in WideRings
  BY WithTailIs
<1>2. PICK f : Killed(r) = f[Most] /\ f[0] = r /\ \A k \in 1 .. Most : f[k] = KillOnce(f[k - 1])
  BY KilledSteps
<1>3. PICK g : /\ Killed(WithTail(r, x)) = g[Most] /\ g[0] = WithTail(r, x)
               /\ \A k \in 1 .. Most : g[k] = KillOnce(g[k - 1])
  BY <1>1, KilledSteps
<1> DEFINE Like(k) == f[k] \in WideRings /\ f[k].tail = r.tail /\ g[k] = WithTail(f[k], x)
           S == {k \in 0 .. Most : Like(k)}
<1>4. 0 \in S
  BY <1>2, <1>3, RangeSize
<1>5. ASSUME NEW k \in 1 .. Most, (k - 1) \in S PROVE k \in S
  <2> DEFINE a == f[k - 1]
             b == g[k - 1]
  <2>1. a \in WideRings /\ a.tail = r.tail /\ b = WithTail(a, x)
    BY <1>5
  <2>2. f[k] = KillOnce(a) /\ g[k] = KillOnce(b)
    BY <1>2, <1>3
  <2>3. k \in 0 .. Most
    BY RangeSize
  <2> HIDE DEF a, b
  <2>4. b.count = a.count /\ b.head = a.head /\ b.buffer = a.buffer
    <3>1. b = [buffer |-> a.buffer, head |-> a.head, tail |-> x, count |-> a.count]
      BY <2>1, WithTailIs
    <3>2. QED BY <3>1
  <2>5. KillOnce(a) \in WideRings /\ KillOnce(a).tail = r.tail /\ KillOnce(b) = WithTail(KillOnce(a), x)
    <3>1. CASE a.count > 0 /\ a.buffer[Back(a.head)] # Newline
      <4>1. KillOnce(a) = Erased(a) /\ KillOnce(b) = Erased(b)
        BY <2>4, <3>1 DEF KillOnce
      <4>2. QED BY <2>1, <3>1, <4>1, ErasedFits
    <3>2. CASE ~(a.count > 0 /\ a.buffer[Back(a.head)] # Newline)
      <4>1. KillOnce(a) = a /\ KillOnce(b) = b
        BY <2>4, <3>2 DEF KillOnce
      <4>2. QED BY <2>1, <4>1
    <3>3. QED BY <3>1, <3>2
  <2>6. Like(k)
    BY <2>2, <2>5
  <2>7. QED BY <2>3, <2>6
<1>6. Like(Most)
  <2>1. \A k \in 0 .. Most : k \in S
    <3> HIDE DEF S
    <3> QED BY RangeSize, <1>4, <1>5, SetInduction
  <2>2. Most \in S
    BY RangeSize, <2>1
  <2>3. QED BY <2>2
<1>7. QED BY <1>2, <1>3, <1>6

LEMMA KeyFits ==
  ASSUME NEW r \in WideRings, NEW c \in Keys, NEW x \in Places
  PROVE  /\ Keyed(r, c) \in WideRings /\ Keyed(r, c).tail = r.tail
         /\ Keyed(WithTail(r, x), c) = WithTail(Keyed(r, c), x)
<1> DEFINE w == WithTail(r, x)
<1>1. w.count = r.count
  <2>1. w = [buffer |-> r.buffer, head |-> r.head, tail |-> x, count |-> r.count]
    BY WithTailIs
  <2>2. QED BY <2>1
<1> HIDE DEF w
<1>2. CASE c = VERASE /\ r.count > 0
  <2>1. Keyed(r, c) = Erased(r) /\ Keyed(w, c) = Erased(w)
    BY <1>1, <1>2 DEF Keyed, VERASE, VINTR
  <2>2. QED BY <1>2, <2>1, ErasedFits DEF w
<1>3. CASE c = VKILL
  <2>1. Keyed(r, c) = Killed(r) /\ Keyed(w, c) = Killed(w)
    BY <1>3 DEF Keyed, VERASE, VINTR, VKILL
  <2>2. QED BY <2>1, KilledFits DEF w
<1>4. CASE c \notin {VINTR, VERASE, VKILL} /\ r.count < TTY_BUFFER_SIZE
  <2>1. Keyed(r, c) = Received(r, Cooked(c)) /\ Keyed(w, c) = Received(w, Cooked(c))
    BY <1>1, <1>4 DEF Keyed
  <2>2. QED BY <1>4, <2>1, ReceivedFits, CookedKnown DEF w
<1>5. CASE ~(c = VERASE /\ r.count > 0) /\ c # VKILL
           /\ ~(c \notin {VINTR, VERASE, VKILL} /\ r.count < TTY_BUFFER_SIZE)
  <2>1. Keyed(r, c) = r /\ Keyed(w, c) = w
    BY <1>1, <1>5 DEF Keyed
  <2>2. QED BY <2>1 DEF w
<1>6. QED BY <1>2, <1>3, <1>4, <1>5

-----------------------------------------------------------------------------
LEMMA LinesInvInit == LinesInit => LinesInv
<1> SUFFICES ASSUME LinesInit PROVE LinesInv
  OBVIOUS
<1> DEFINE new == [buffer |-> [i \in Places |-> ""], head |-> 0, tail |-> 0, count |-> 0]
<1>1. "" \in Cells
  BY Zenon DEF Cells
<1>2. [i \in Places |-> ""] \in [Places -> Cells]
  BY <1>1, Zenon
<1>3. 0 \in Places /\ 0 \in 0 .. TTY_BUFFER_SIZE
  BY RingSize DEF Places
<1>4. new \in Rings
  <2> DEFINE b == [i \in Places |-> ""]
  <2> HIDE DEF b
  <2>1. [buffer |-> b, head |-> 0, tail |-> 0, count |-> 0] \in Rings
    BY <1>2, <1>3 DEF Rings, b
  <2>2. QED BY <2>1 DEF b
<1>5. ring = [t \in Ttys |-> new]
  BY Zenon DEF LinesInit, Places
<1>6. new.count = 0 /\ new.tail = 0 /\ new.head = 0
  OBVIOUS
<1> HIDE DEF new
<1>7. ring \in [Ttys -> WideRings]
  BY <1>4, <1>5, RingsWide
<1>8. pending = [t \in Ttys |-> <<>>] /\ front = 1 /\ typed = 0 /\ handed /\ read.at = "idle"
  BY DEF LinesInit, NoRead
<1>9. pending \in [Ttys -> Seq(Chars)]
  BY <1>8
<1>10. 0 % TTY_BUFFER_SIZE = 0
  BY RingSize
<1>11. Holds(new, <<>>)
  BY <1>6, <1>10 DEF Holds
<1>12. \A t \in Ttys : InStep(t)
  BY <1>4, <1>5, <1>8, <1>11 DEF InStep, Before, Moved, InHand
<1>13. front \in Ttys /\ typed \in 0 .. MaxTyped
  BY <1>8, LineAssumption DEF LineAssumption, Ttys
<1>14. ReadKnown
  BY <1>8 DEF ReadKnown
<1>15. QED BY <1>7, <1>8, <1>9, <1>12, <1>13, <1>14 DEF LinesInv

\* No read is at t
Away(t) == read.at = "idle" \/ read.tty # t

LEMMA AwayStep ==
  ASSUME NEW t, InStep(t), ring'[t] = ring[t], pending'[t] = pending[t], Away(t), Away(t)'
  PROVE  InStep(t)'
BY DEF InStep, Before, Moved, InHand, Away

LEMMA SameStep ==
  ASSUME NEW t, InStep(t), ring'[t] = ring[t], pending'[t] = pending[t], read' = read
  PROVE  InStep(t)'
BY DEF InStep, Before, Moved, InHand

LEMMA TtyInputIs ==
  ASSUME LinesInv, NEW c \in Keys, TtyInput(c)
  PROVE  /\ ring' = [ring EXCEPT ![front] = Keyed(ring[front], c)]
         /\ pending' = [pending EXCEPT ![front] = Owes(pending[front], ring[front].count, c)]
<1> DEFINE r == ring[front]
           p == pending[front]
           k == ring[front].count
<1>1. front \in Ttys /\ ring \in [Ttys -> WideRings] /\ pending \in [Ttys -> Seq(Chars)]
  BY DEF LinesInv
<1>2. ring = [ring EXCEPT ![front] = r] /\ pending = [pending EXCEPT ![front] = p]
  BY <1>1
<1>3. CASE c = VINTR
  <2>1. c # VERASE /\ c # VKILL
    BY <1>3 DEF VERASE, VINTR, VKILL
  <2>2. QED BY <1>2, <1>3, <2>1 DEF TtyInput, Keyed, Owes
<1>4. CASE c = VERASE
  <2>1. c # VINTR /\ c # VKILL
    BY <1>4 DEF VERASE, VINTR, VKILL
  <2>2. CASE k > 0
    BY <1>4, <2>1, <2>2 DEF TtyInput, Keyed, Owes
  <2>3. CASE ~(k > 0)
    BY <1>2, <1>4, <2>1, <2>3 DEF TtyInput, Keyed, Owes
  <2>4. QED BY <2>2, <2>3
<1>5. CASE c = VKILL
  <2>1. c # VINTR /\ c # VERASE
    BY <1>5 DEF VERASE, VINTR, VKILL
  <2>2. QED BY <1>5, <2>1 DEF TtyInput, Keyed, Owes
<1>6. CASE c \notin {VINTR, VERASE, VKILL}
  <2>1. CASE k < TTY_BUFFER_SIZE
    BY <1>6, <2>1 DEF TtyInput, Keyed, Owes
  <2>2. CASE ~(k < TTY_BUFFER_SIZE)
    BY <1>2, <1>6, <2>2 DEF TtyInput, Keyed, Owes
  <2>3. QED BY <2>1, <2>2
<1>7. QED BY <1>3, <1>4, <1>5, <1>6

\* A key at t that does not cut into a read
LEMMA KeyInStep ==
  ASSUME NEW t \in Ttys, InStep(t), NEW c \in Keys, NEW r \in WideRings, NEW p \in Seq(Chars), ReadKnown,
         ring[t] = r, pending[t] = p, ring'[t] = Keyed(r, c), pending'[t] = Owes(p, r.count, c), read' = read,
         InHand(t) => Keyed(r, c).count # 0,
         read.at = "loaded" /\ read.tty = t => Keyed(r, c) = r
  PROVE  InStep(t)'
<1> DEFINE g == Before(t)
           w == Keyed(r, c)
           q == Owes(p, r.count, c)
<1>1. g \in Rings /\ Holds(g, p) /\ g.count = r.count
  <2>1. CASE Moved(t)
    <3>1. g = WithTail(r, read.from) /\ read.from \in Places
      BY <2>1 DEF Before, Moved, ReadKnown
    <3>2. g = [buffer |-> r.buffer, head |-> r.head, tail |-> read.from, count |-> r.count]
      BY <3>1, WithTailIs
    <3>3. g.count = r.count
      BY <3>2
    <3>4. QED BY <3>3 DEF InStep
  <2>2. CASE ~Moved(t)
    BY <2>2 DEF Before, InStep
  <2>3. QED BY <2>1, <2>2
<1>2. Keyed(g, c) \in Rings /\ Holds(Keyed(g, c), q)
  <2> HIDE DEF g
  <2> QED BY <1>1, KeyHolds
<1>3. w.tail = r.tail /\ w \in WideRings /\ \A x \in Places : Keyed(WithTail(r, x), c) = WithTail(w, x)
  <2>1. r.tail \in Places
    BY DEF WideRings
  <2>2. QED BY <2>1, KeyFits
<1>4. Before(t)' = Keyed(g, c)
  <2>1. CASE Moved(t)
    <3>1. read.from \in Places /\ g = WithTail(r, read.from) /\ Before(t)' = WithTail(w, read.from)
      BY <2>1 DEF Before, Moved, ReadKnown
    <3>2. QED BY <1>3, <3>1
  <2>2. CASE ~Moved(t)
    BY <2>2 DEF Before, Moved
  <2>3. QED BY <2>1, <2>2
<1>5. /\ q \in Seq(Chars)
      /\ p # <<>> /\ q # <<>> => Head(q) = Head(p)
  <2>1. r.count \in Nat
    BY RangeSize DEF WideRings
  <2>2. QED BY <2>1, OwesFits
<1>6. Len(q) = Keyed(g, c).count /\ Keyed(g, c).count = w.count
  <2>1. Len(q) = Keyed(g, c).count
    BY <1>2 DEF Holds
  <2>2. Keyed(g, c).count = w.count
    <3>1. CASE Moved(t)
      <4>1. read.from \in Places /\ Keyed(g, c) = WithTail(w, read.from)
        BY <1>3, <3>1 DEF Before, Moved, ReadKnown
      <4> HIDE DEF w
      <4>2. WithTail(w, read.from) = [buffer |-> w.buffer, head |-> w.head, tail |-> read.from, count |-> w.count]
        BY <1>3, <4>1, WithTailIs
      <4>3. QED BY <4>1, <4>2
    <3>2. CASE ~Moved(t)
      BY <3>2 DEF Before
    <3>3. QED BY <3>1, <3>2
  <2>3. QED BY <2>1, <2>2
<1> DEFINE z == Keyed(g, c)
<1> HIDE DEF g, w, q, z
<1>7. Before(t)' \in Rings /\ Holds(Before(t)', q)
  BY <1>2, <1>4
<1>8. InHand(t) => q # <<>> /\ read.got = Append(read.owed, Head(q))
  <2> SUFFICES ASSUME InHand(t) PROVE q # <<>> /\ read.got = Append(read.owed, Head(q))
    OBVIOUS
  <2>1. Len(q) # 0
    BY <1>6 DEF w
  <2>2. q # <<>>
    BY <2>1
  <2>3. p # <<>> /\ read.got = Append(read.owed, Head(p))
    BY DEF InStep
  <2>4. QED BY <1>5, <2>2, <2>3
<1>9. ring'[t] = w /\ pending'[t] = q
  BY DEF w, q
<1>10. Moved(t) => w.tail = Forward(read.from)
  BY <1>3 DEF InStep
<1>11. read.at = "loaded" /\ read.tty = t => read.count = w.count
  BY DEF InStep, w
<1>12. read.at = "check" /\ read.tty = t => read.got = read.owed
  BY DEF InStep
<1>13. (InHand(t))' = InHand(t) /\ (Moved(t))' = Moved(t)
  BY DEF InHand, Moved
<1>14. QED BY <1>7, <1>8, <1>9, <1>10, <1>11, <1>12, <1>13 DEF InStep

LEMMA TtyInputKeeps ==
  ASSUME LinesInv, NEW c \in Keys, TtyInput(c)
  PROVE  LinesInv'
<1> DEFINE r == ring[front]
           p == pending[front]
<1>1. /\ front \in Ttys /\ r \in WideRings /\ p \in Seq(Chars) /\ typed \in Nat /\ ReadKnown /\ handed
      /\ ring \in [Ttys -> WideRings] /\ pending \in [Ttys -> Seq(Chars)] /\ \A t \in Ttys \ crossed : InStep(t)
  BY DEF LinesInv
<1>2. typed' \in 0 .. MaxTyped /\ UNCHANGED <<front, handed, read>>
      /\ crossed' = IF CutsIn THEN crossed \union {front} ELSE crossed
  <2>1. typed' = typed + 1 /\ typed < MaxTyped /\ MaxTyped \in Nat
    BY LineAssumption DEF TtyInput, LineAssumption
  <2>2. QED BY <1>1, <2>1 DEF TtyInput
<1>3. ring' = [ring EXCEPT ![front] = Keyed(r, c)] /\ pending' = [pending EXCEPT ![front] = Owes(p, r.count, c)]
  BY TtyInputIs
<1> HIDE DEF r, p
<1>4. Keyed(r, c) \in WideRings /\ Owes(p, r.count, c) \in Seq(Chars)
  <2>1. r.tail \in Places /\ r.count \in Nat
    BY <1>1, RangeSize DEF WideRings
  <2>2. QED BY <1>1, <2>1, KeyFits, OwesFits
<1>5. ring' \in [Ttys -> WideRings] /\ pending' \in [Ttys -> Seq(Chars)]
  BY <1>1, <1>3, <1>4
<1>6. ASSUME NEW t \in Ttys \ crossed' PROVE InStep(t)'
  <2>1. t \in Ttys /\ InStep(t)
    BY <1>1, <1>2
  <2>2. CASE t # front
    <3>1. ring'[t] = ring[t] /\ pending'[t] = pending[t]
      BY <1>1, <1>3, <2>2
    <3>2. QED BY <1>2, <2>1, <3>1, SameStep
  <2>3. CASE t = front
    <3>1. ~CutsIn
      BY <1>2, <2>3
    <3>2. /\ ring[t] = r /\ pending[t] = p /\ ring'[t] = Keyed(r, c) /\ pending'[t] = Owes(p, r.count, c)
      BY <1>1, <1>3, <2>3 DEF r, p
    <3>3. /\ InHand(t) => Keyed(r, c).count # 0
          /\ read.at = "loaded" /\ read.tty = t => Keyed(r, c) = r
      BY <2>3, <3>1, <3>2 DEF CutsIn, InHand
    <3>4. QED BY <1>1, <1>2, <2>1, <3>2, <3>3, KeyInStep
  <2>4. QED BY <2>2, <2>3
<1>7. ReadKnown'
  BY <1>1, <1>2 DEF ReadKnown
<1>8. QED BY <1>1, <1>2, <1>5, <1>6, <1>7 DEF LinesInv

LEMMA ReadStartKeeps ==
  ASSUME LinesInv, NEW n, ReadStart(n) PROVE LinesInv'
<1>1. /\ front \in Ttys /\ read.at = "idle" /\ read'.at = "check" /\ read'.tty = front
      /\ read'.got = read'.owed /\ UNCHANGED <<ring, front, pending, crossed, handed, typed>>
  BY DEF ReadStart, NoRead, LinesInv
<1>2. ASSUME NEW t \in Ttys \ crossed' PROVE InStep(t)'
  <2>1. InStep(t) /\ ~Moved(t) /\ Before(t) = ring[t] /\ Before(t)' = ring[t]
    BY <1>1 DEF LinesInv, Moved, Before
  <2>2. QED BY <1>1, <2>1 DEF InStep, InHand, Moved
<1>3. ReadKnown'
  BY <1>1 DEF ReadKnown
<1>4. QED BY <1>1, <1>2, <1>3 DEF LinesInv

LEMMA ReadTakeKeeps ==
  ASSUME LinesInv, ReadTake PROVE LinesInv'
<1> DEFINE tt == read.tty
           r == ring[tt]
<1>1. /\ tt \in Ttys /\ read.at = "check" /\ r \in WideRings /\ pending[tt] \in Seq(Chars)
      /\ UNCHANGED <<ring, front, pending, crossed, typed>>
  BY DEF ReadTake, ReadEnds, LinesInv, ReadKnown
<1>2. \A t \in Ttys \ crossed : InStep(t) /\ ~Moved(t) /\ Before(t) = ring[t]
  BY <1>1 DEF LinesInv, Moved, Before
<1>3. CASE ReadEnds
  <2>1. read'.at = "idle" /\ handed' = (read.got = read.owed \/ tt \in crossed)
    BY <1>3 DEF ReadEnds, NoRead
  <2>2. read.got = read.owed \/ tt \in crossed
    BY <1>1, <1>2 DEF InStep
  <2>3. ASSUME NEW t \in Ttys \ crossed' PROVE InStep(t)'
    <3>1. Before(t)' = ring[t] /\ InStep(t) /\ Before(t) = ring[t]
      BY <1>1, <1>2, <2>1 DEF Before, Moved
    <3>2. QED BY <1>1, <2>1, <3>1 DEF InStep, InHand, Moved
  <2>4. ReadKnown'
    BY <2>1 DEF ReadKnown
  <2>5. QED BY <1>1, <2>1, <2>2, <2>3, <2>4 DEF LinesInv
<1>4. CASE ~ReadEnds
  <2>1. /\ read'.at = "taken" /\ read'.tty = tt /\ read'.owed = read.owed
        /\ read'.got = Append(read.got, r.buffer[r.tail]) /\ r.count # 0 /\ UNCHANGED handed
    BY <1>4 DEF ReadTake
  <2>2. ASSUME NEW t \in Ttys \ crossed' PROVE InStep(t)'
    <3>1. Before(t)' = ring[t] /\ InStep(t) /\ Before(t) = ring[t] /\ pending'[t] = pending[t]
      BY <1>1, <1>2, <2>1 DEF Before, Moved
    <3>2. CASE t # tt
      BY <1>1, <2>1, <3>1, <3>2 DEF InStep, InHand, Moved
    <3>3. CASE t = tt
      <4>1. Holds(r, pending[tt]) /\ r \in Rings /\ read.got = read.owed
        BY <1>1, <3>1, <3>3 DEF InStep
      <4> HIDE DEF tt, r
      <4>2. PICK p \in Seq(Chars) : p = pending[tt]
        BY <1>1
      <4>3. Len(p) # 0 /\ Head(p) = p[1] /\ 1 \in 1 .. r.count
        <5>1. r.count \in Nat /\ Len(p) = r.count
          BY <4>1, <4>2, RingSize DEF Holds, Rings
        <5>2. QED BY <2>1, <5>1
      <4>4. p[1] = r.buffer[(r.tail + 1 - 1) % TTY_BUFFER_SIZE]
        BY <4>1, <4>2, <4>3 DEF Holds
      <4>5. (r.tail + 1 - 1) % TTY_BUFFER_SIZE = r.tail
        <5>1. r.tail \in 0 .. TTY_BUFFER_SIZE - 1
          BY <4>1 DEF Rings, Places
        <5>2. QED BY <5>1, RingSize
      <4>6. p # <<>> /\ read'.got = Append(read'.owed, Head(p))
        BY <2>1, <4>1, <4>3, <4>4, <4>5
      <4>7. InHand(t)' /\ ~(Moved(t)')
        BY <1>1, <2>1, <3>3 DEF InHand, Moved
      <4>8. QED BY <1>1, <2>1, <3>1, <3>3, <4>2, <4>6, <4>7 DEF InStep
    <3>4. QED BY <3>2, <3>3
  <2>3. ReadKnown'
    BY <1>1, <2>1 DEF ReadKnown
  <2>4. QED BY <1>1, <2>1, <2>2, <2>3 DEF LinesInv
<1>5. QED BY <1>3, <1>4

LEMMA ReadAdvanceKeeps ==
  ASSUME LinesInv, ReadAdvance PROVE LinesInv'
<1> DEFINE tt == read.tty
           r == ring[tt]
           w == WithTail(r, Forward(r.tail))
<1>1. /\ tt \in Ttys /\ read.at = "taken" /\ r \in WideRings /\ r.tail \in Places
      /\ ring \in [Ttys -> WideRings] /\ UNCHANGED <<front, pending, crossed, handed, typed>>
      /\ read'.at = "advanced" /\ read'.tty = tt /\ read'.owed = read.owed /\ read'.got = read.got
      /\ read'.from = r.tail
  BY DEF ReadAdvance, LinesInv, ReadKnown, WideRings
<1>2. ring' = [ring EXCEPT ![tt] = w]
  BY <1>1 DEF ReadAdvance, WithTail
<1>3. Forward(r.tail) \in Places
  <2>1. r.tail + 1 \in Int
    BY <1>1, RingSize DEF Places
  <2>2. QED BY <2>1, PlaceFits DEF Forward
<1>4. w = [buffer |-> r.buffer, head |-> r.head, tail |-> Forward(r.tail), count |-> r.count] /\ w \in WideRings
  BY <1>1, <1>3, WithTailIs
<1> HIDE DEF w
<1>5. ring' \in [Ttys -> WideRings] /\ ring'[tt] = w /\ \A t \in Ttys : t # tt => ring'[t] = ring[t]
  BY <1>1, <1>2, <1>4
<1>6. ASSUME NEW t \in Ttys \ crossed' PROVE InStep(t)'
  <2>1. InStep(t) /\ ~Moved(t) /\ Before(t) = ring[t] /\ pending'[t] = pending[t]
    BY <1>1 DEF LinesInv, Moved, Before
  <2>2. CASE t # tt
    BY <1>1, <1>5, <2>1, <2>2, AwayStep DEF Away
  <2>3. CASE t = tt
    <3>1. Moved(t)' /\ InHand(t)' /\ InHand(t)
      BY <1>1, <2>3 DEF Moved, InHand
    <3>2. Before(t)' = WithTail(w, r.tail)
      BY <1>1, <1>5, <2>3, <3>1 DEF Before
    <3>3. WithTail(w, r.tail) = r
      <4>1. WithTail(w, r.tail) = [buffer |-> w.buffer, head |-> w.head, tail |-> r.tail, count |-> w.count]
        BY <1>1, <1>4, WithTailIs
      <4>2. w.buffer = r.buffer /\ w.head = r.head /\ w.count = r.count
        BY <1>4
      <4>3. r = [buffer |-> r.buffer, head |-> r.head, tail |-> r.tail, count |-> r.count]
        BY <1>1 DEF WideRings
      <4>4. QED BY <4>1, <4>2, <4>3
    <3>4. ring'[t].tail = Forward(read'.from)
      BY <1>1, <1>4, <1>5, <2>3
    <3>5. Before(t)' = Before(t)
      BY <2>1, <2>3, <3>2, <3>3
    <3> HIDE DEF tt, r
    <3>6. QED BY <1>1, <2>1, <3>1, <3>4, <3>5 DEF InStep
  <2>4. QED BY <2>2, <2>3
<1>7. ReadKnown'
  BY <1>1 DEF ReadKnown
<1>8. QED BY <1>1, <1>5, <1>6, <1>7 DEF LinesInv

LEMMA ReadLoadKeeps ==
  ASSUME LinesInv, ReadLoad PROVE LinesInv'
<1>1. /\ read.tty \in Ttys /\ read.at = "advanced" /\ UNCHANGED <<ring, front, pending, crossed, handed, typed>>
      /\ read'.at = "loaded" /\ read'.tty = read.tty /\ read'.owed = read.owed /\ read'.got = read.got
      /\ read'.from = read.from /\ read'.count = ring[read.tty].count /\ read.from \in Places
  BY DEF ReadLoad, LinesInv, ReadKnown
<1>2. \A t \in Ttys \ crossed' : InStep(t)'
  BY <1>1 DEF LinesInv, InStep, Before, Moved, InHand
<1>3. ring[read.tty].count \in 0 .. Most
  BY <1>1 DEF LinesInv, WideRings
<1>4. ReadKnown'
  BY <1>1, <1>3 DEF ReadKnown
<1>5. QED BY <1>1, <1>2, <1>4 DEF LinesInv

LEMMA ReadStoreKeeps ==
  ASSUME LinesInv, ReadStore PROVE LinesInv'
<1> DEFINE tt == read.tty
           r == ring[tt]
           k == (read.count - 1) % COUNT_RANGE
           w == [r EXCEPT !.count = k]
           q == SubSeq(pending[tt], 2, Len(pending[tt]))
<1>1. /\ tt \in Ttys /\ read.at = "loaded" /\ r \in WideRings /\ pending[tt] \in Seq(Chars)
      /\ ring \in [Ttys -> WideRings] /\ pending \in [Ttys -> Seq(Chars)] /\ read.from \in Places
      /\ read.count \in 0 .. Most /\ UNCHANGED <<front, crossed, handed, typed>>
  BY DEF ReadStore, LinesInv, ReadKnown
<1>2. /\ read'.at = "check" /\ read'.tty = tt /\ read'.got = read.got
      /\ read'.owed = IF pending[tt] = <<>> THEN read.owed ELSE Append(read.owed, Head(pending[tt]))
      /\ ring' = [ring EXCEPT ![tt] = w] /\ pending' = [pending EXCEPT ![tt] = q]
  BY <1>1 DEF ReadStore
<1>3. k \in 0 .. Most
  BY <1>1, RangeSize
<1>4. q \in Seq(Chars)
  BY <1>1
<1>5. w = [buffer |-> r.buffer, head |-> r.head, tail |-> r.tail, count |-> k] /\ w \in WideRings
  <2> HIDE DEF k
  <2>1. PICK b \in [Places -> Cells], h \in Places, t \in Places, c \in 0 .. Most :
          r = [buffer |-> b, head |-> h, tail |-> t, count |-> c]
    BY <1>1 DEF WideRings
  <2>2. w = [buffer |-> b, head |-> h, tail |-> t, count |-> k]
    BY <2>1
  <2>3. QED BY <1>3, <2>1, <2>2 DEF WideRings
<1> HIDE DEF k, w, q
<1>6. /\ ring' \in [Ttys -> WideRings] /\ pending' \in [Ttys -> Seq(Chars)]
      /\ ring'[tt] = w /\ pending'[tt] = q
      /\ \A t \in Ttys : t # tt => ring'[t] = ring[t] /\ pending'[t] = pending[t]
  BY <1>1, <1>2, <1>4, <1>5
<1>7. ASSUME NEW t \in Ttys \ crossed' PROVE InStep(t)'
  <2>1. InStep(t) /\ Away(t)' = (t # tt) /\ t \in Ttys
    BY <1>1, <1>2 DEF LinesInv, Away
  <2>2. CASE t # tt
    BY <1>6, <2>1, <2>2, AwayStep DEF Away
  <2>3. CASE t = tt
    <3> DEFINE g == WithTail(r, read.from)
    <3>1. /\ g \in Rings /\ Holds(g, pending[tt]) /\ pending[tt] # <<>>
          /\ read.got = Append(read.owed, Head(pending[tt])) /\ r.tail = Forward(read.from) /\ read.count = r.count
      BY <1>1, <2>1, <2>3 DEF InStep, Before, Moved, InHand
    <3>2. g = [buffer |-> r.buffer, head |-> r.head, tail |-> read.from, count |-> r.count]
      BY <1>1, WithTailIs
    <3> HIDE DEF g
    <3>3. g.buffer = r.buffer /\ g.head = r.head /\ g.tail = read.from /\ g.count = r.count
      BY <3>2
    <3>4. r.count \in 1 .. TTY_BUFFER_SIZE
      <4>1. Len(pending[tt]) # 0
        BY <1>1, <3>1
      <4>2. r.count \in 0 .. TTY_BUFFER_SIZE /\ Len(pending[tt]) = r.count
        BY <3>1, <3>3, RingSize DEF Rings, Holds
      <4>3. QED BY <4>1, <4>2, RingSize
    <3>5. k = r.count - 1
      <4> DEFINE c == r.count
      <4>1. c \in Nat /\ c - 1 \in 0 .. COUNT_RANGE - 1
        BY <3>4, RangeSize
      <4>2. k = (c - 1) % COUNT_RANGE
        BY <3>1 DEF k
      <4> HIDE DEF c
      <4>3. k = c - 1
        BY <4>1, <4>2, RangeSize
      <4>4. QED BY <4>3 DEF c
    <3>6. ReadFrom(g, 1) = w
      <4>1. ReadFrom(g, 1) = [buffer |-> g.buffer, head |-> g.head,
                              tail |-> (g.tail + 1) % TTY_BUFFER_SIZE, count |-> g.count - 1]
        BY <3>1, ReadIs
      <4>2. (g.tail + 1) % TTY_BUFFER_SIZE = r.tail
        BY <3>1, <3>3 DEF Forward
      <4>3. QED BY <1>5, <3>3, <3>5, <4>1, <4>2
    <3>7. w \in Rings /\ Holds(w, q)
      <4>1. 1 \in 0 .. g.count /\ 1 + 1 = 2
        BY <3>3, <3>4
      <4>2. PICK one \in 0 .. g.count : one = 1
        BY <4>1
      <4>3. PICK p \in Seq(Chars) : p = pending[tt]
        BY <1>1
      <4>4. ReadFrom(g, one) \in Rings /\ Holds(ReadFrom(g, one), SubSeq(p, one + 1, Len(p)))
        BY <3>1, <4>3, ReadHolds
      <4>5. SubSeq(p, one + 1, Len(p)) = q
        BY <4>2, <4>3 DEF q
      <4>6. QED BY <3>6, <4>2, <4>4, <4>5
    <3>8. Before(t)' = w /\ ~(Moved(t)') /\ ~(InHand(t)')
      BY <1>2, <1>6, <2>3 DEF Before, Moved, InHand
    <3>9. read'.got = read'.owed
      BY <1>2, <3>1
    <3>10. pending'[t] = q
      BY <1>6, <2>3
    <3>11. QED BY <1>2, <3>7, <3>8, <3>9, <3>10 DEF InStep
  <2>4. QED BY <2>2, <2>3
<1>8. ReadKnown'
  BY <1>1, <1>2 DEF ReadKnown
<1>9. front' \in Ttys /\ typed' \in 0 .. MaxTyped /\ handed'
  BY <1>1 DEF LinesInv
<1>10. QED BY <1>6, <1>7, <1>8, <1>9 DEF LinesInv

LEMMA LinesStep == LinesInv /\ [LinesNext]_lineVars => LinesInv'
<1> SUFFICES ASSUME LinesInv, [LinesNext]_lineVars PROVE LinesInv'
  OBVIOUS
<1>1. ASSUME NEW c \in Letters \union {Return, VERASE, VKILL, VINTR}, TtyInput(c) PROVE LinesInv'
  BY <1>1, TtyInputKeeps DEF Keys
<1>2. ASSUME NEW n \in 1 .. TTY_BUFFER_SIZE, ReadStart(n) PROVE LinesInv'
  BY <1>2, ReadStartKeeps
<1>3. CASE ReadTake \/ ReadAdvance \/ ReadLoad \/ ReadStore
  BY <1>3, ReadTakeKeeps, ReadAdvanceKeeps, ReadLoadKeeps, ReadStoreKeeps
<1>4. ASSUME NEW id \in Ttys, TtySwitch(id) PROVE LinesInv'
  <2>1. UNCHANGED <<ring, read, pending, crossed, handed>> /\ front' \in Ttys /\ typed' \in 0 .. MaxTyped
    BY <1>4 DEF TtySwitch, LinesInv
  <2>2. QED BY <2>1 DEF LinesInv, ReadKnown, InStep, Before, Moved, InHand
<1>5. CASE UNCHANGED lineVars
  <2>1. UNCHANGED <<ring, read, pending, crossed, handed, front, typed>>
    BY <1>5 DEF lineVars
  <2>2. QED BY <2>1 DEF LinesInv, ReadKnown, InStep, Before, Moved, InHand
<1>6. QED BY <1>1, <1>2, <1>3, <1>4, <1>5 DEF LinesNext

LEMMA LinesInvSound == LinesInv => LinesTypeOK /\ LinesArrive
<1> SUFFICES ASSUME LinesInv PROVE LinesTypeOK /\ LinesArrive
  OBVIOUS
<1>1. /\ front \in Ttys /\ typed \in 0 .. MaxTyped /\ handed
      /\ ring \in [Ttys -> WideRings] /\ pending \in [Ttys -> Seq(Chars)]
      /\ \A t \in Ttys \ crossed : InStep(t)
  BY DEF LinesInv
<1>2. LinesTypeOK
  BY <1>1 DEF LinesTypeOK, WideRings, Places, Most
<1>3. ASSUME NEW t \in Ttys \ crossed, read = NoRead \/ read.tty # t
      PROVE  /\ Contents(ring[t]) = pending[t]
             /\ (ring[t].tail + ring[t].count) % TTY_BUFFER_SIZE = ring[t].head
  <2>1. ring[t] \in Rings /\ pending[t] \in Seq(Chars) /\ Holds(ring[t], pending[t])
    <3>1. Before(t) = ring[t]
      BY <1>3 DEF Before, Moved, NoRead
    <3>2. QED BY <1>1, <3>1 DEF InStep
  <2>2. Contents(ring[t]) = pending[t]
    BY <2>1, ContentsIs
  <2>3. (ring[t].tail + ring[t].count) % TTY_BUFFER_SIZE = ring[t].head
    BY <2>1 DEF Holds
  <2>4. QED BY <2>2, <2>3
<1>4. LinesArrive
  BY <1>1, <1>3 DEF LinesArrive
<1>5. QED BY <1>2, <1>4

-----------------------------------------------------------------------------
LEMMA QshConstants ==
  /\ HISTORY_SIZE \in Nat /\ HISTORY_SIZE # 0 /\ LINE_MAX \in Nat /\ LINE_MAX > 1 /\ MaxKeys \in Nat
  /\ NUL \notin QshKeys
BY QshAssumption DEF QshAssumption

\* the array of the code is indexed from 0 on
Cells0 == 0 .. LINE_MAX - 1

(* The text of an array whose first end mark is at n *)
LEMMA TextUpTo ==
  ASSUME NEW a, NEW n \in Cells0, a[n] = NUL, \A j \in 0 .. n - 1 : a[j] # NUL
  PROVE  TextOf(a) = [i \in 1 .. n |-> a[i - 1]]
<1> DEFINE Good(i) == (i = LINE_MAX \/ a[i] = NUL) /\ \A j \in 0 .. i - 1 : a[j] # NUL
           m == CHOOSE i \in 0 .. LINE_MAX : Good(i)
<1>0. n \in Int /\ 0 <= n /\ n < LINE_MAX /\ LINE_MAX \in Int
  BY QshConstants DEF Cells0
<1>1. Good(n) /\ n \in 0 .. LINE_MAX
  BY <1>0
<1>2. ASSUME NEW i \in 0 .. LINE_MAX, Good(i) PROVE i = n
  <2>1. CASE i < n
    <3>1. i \in 0 .. n - 1 /\ i # LINE_MAX
      BY <1>0, <2>1
    <3>2. QED BY <1>2, <3>1
  <2>2. CASE i > n
    <3>1. n \in 0 .. i - 1
      BY <1>0, <2>2
    <3>2. QED BY <1>2, <3>1
  <2>3. QED BY <1>0, <2>1, <2>2
<1>3. m = n
  <2> HIDE DEF Good
  <2> QED BY <1>1, <1>2
<1>4. TextOf(a) = [i \in 1 .. m |-> a[i - 1]]
  BY DEF TextOf
<1>5. QED BY <1>3, <1>4

-----------------------------------------------------------------------------
(* The line that is edited *)

PromptInv ==
  /\ line \in [Cells0 -> QshKeys \union {NUL}]
  /\ ptr \in Cells0 /\ cursor \in Nat /\ keys \in 0 .. MaxKeys
  /\ edited = <<edited[1], edited[2]>> /\ edited[1] \in Seq(QshKeys) /\ edited[2] \in Seq(QshKeys)
  /\ cursor = Len(edited[1]) /\ ptr = Len(edited[1]) + Len(edited[2])
  /\ \A i \in 1 .. Len(edited[1]) : line[i - 1] = edited[1][i]
  /\ \A i \in 1 .. Len(edited[2]) : line[cursor + i - 1] = edited[2][i]

\* Lines fit the array
FitsLine(text) == text \in Seq(QshKeys) /\ Len(text) < LINE_MAX
HistoryFits ==
  /\ DOMAIN qsh_history = 0 .. HISTORY_SIZE - 1 /\ \A i \in 0 .. HISTORY_SIZE - 1 : FitsLine(qsh_history[i])
  /\ qsh_history_count \in Nat /\ qsh_history_index \in -1 .. qsh_history_count
  /\ qsh_history_count > 0 => qsh_history_index >= 0
  /\ qsh_history = [i \in 0 .. HISTORY_SIZE - 1 |-> qsh_history[i]]

\* What the line is when enter is pressed
MarkedLine == [line EXCEPT ![ptr] = NUL]

LEMMA MarkedText ==
  ASSUME PromptInv
  PROVE  TextOf(MarkedLine) = edited[1] \o edited[2] /\ FitsLine(TextOf(MarkedLine))
<1> DEFINE b == edited[1]
           e == edited[2]
           nb == Len(b)
           ne == Len(e)
<1>1. /\ line \in [Cells0 -> QshKeys \union {NUL}] /\ b \in Seq(QshKeys) /\ e \in Seq(QshKeys)
      /\ nb \in Nat /\ ne \in Nat /\ ptr = nb + ne /\ ptr \in Cells0 /\ cursor = nb
      /\ (\A i \in 1 .. nb : line[i - 1] = b[i] /\ b[i] \in QshKeys)
      /\ \A i \in 1 .. ne : line[nb + i - 1] = e[i] /\ e[i] \in QshKeys
  BY DEF PromptInv
<1>2. ptr < LINE_MAX /\ Cells0 = 0 .. LINE_MAX - 1 /\ LINE_MAX \in Nat /\ NUL \notin QshKeys
  <2>1. LINE_MAX \in Nat /\ NUL \notin QshKeys /\ Cells0 = 0 .. LINE_MAX - 1
    BY QshConstants DEF Cells0
  <2>2. ptr \in Cells0
    BY <1>1
  <2>3. QED BY <2>1, <2>2
<1>3. /\ Len(b \o e) = nb + ne
      /\ \A i \in 1 .. nb + ne : (b \o e)[i] = IF i <= nb THEN b[i] ELSE e[i - nb]
  BY <1>1, ConcatProperties
<1>4. b \o e \in Seq(QshKeys)
  BY <1>1, ConcatProperties
<1>c. \A j \in Cells0 : MarkedLine[j] = IF j = ptr THEN NUL ELSE line[j]
  BY <1>1 DEF MarkedLine
<1> DEFINE w == b \o e
<1>5. w \in Seq(QshKeys) /\ Len(w) = ptr /\ \A i \in 1 .. ptr : w[i] = IF i <= nb THEN b[i] ELSE e[i - nb]
  BY <1>1, <1>3, <1>4
<1> HIDE DEF w, nb, ne, b, e
<1>6. ASSUME NEW i \in 1 .. ptr PROVE line[i - 1] = w[i] /\ w[i] \in QshKeys /\ MarkedLine[i - 1] = line[i - 1]
  <2>1. i - 1 \in Cells0 /\ i - 1 # ptr
    BY <1>1, <1>2
  <2>2. MarkedLine[i - 1] = line[i - 1]
    BY <1>c, <2>1
  <2>3. CASE i <= nb
    <3>1. i \in 1 .. nb
      BY <1>1, <2>3
    <3>2. QED BY <1>1, <1>5, <2>2, <2>3, <3>1
  <2>4. CASE i > nb
    <3>1. i - nb \in 1 .. ne /\ nb + (i - nb) - 1 = i - 1 /\ ~(i <= nb)
      BY <1>1, <2>4
    <3>2. line[nb + (i - nb) - 1] = e[i - nb] /\ e[i - nb] \in QshKeys
      BY <1>1, <3>1
    <3>3. w[i] = e[i - nb]
      BY <1>5, <3>1
    <3>4. QED BY <2>2, <3>1, <3>2, <3>3
  <2>5. QED BY <1>1, <2>3, <2>4
<1>7. ASSUME NEW j \in 0 .. ptr - 1 PROVE MarkedLine[j] # NUL
  <2>1. j + 1 \in 1 .. ptr /\ (j + 1) - 1 = j
    BY <1>1, <1>2
  <2>2. MarkedLine[(j + 1) - 1] \in QshKeys
    BY <1>6, <2>1
  <2>3. QED BY <1>2, <2>1, <2>2
<1>8. MarkedLine[ptr] = NUL
  BY <1>c, <1>1
<1>9. TextOf(MarkedLine) = [i \in 1 .. ptr |-> MarkedLine[i - 1]]
  BY <1>1, <1>7, <1>8, TextUpTo
<1>10. w = [i \in 1 .. ptr |-> w[i]]
  BY <1>5
<1>11. TextOf(MarkedLine) = w
  BY <1>6, <1>9, <1>10
<1>12. FitsLine(w)
  BY <1>2, <1>5 DEF FitsLine
<1>13. QED BY <1>11, <1>12 DEF w, b, e


\* What the steps of the prompt that press no enter leave
Unrun == UNCHANGED <<qsh_history, qsh_history_count, entered, executed, script, source_stack>>

LEMMA CharacterKeepsPrompt ==
  ASSUME PromptInv, NEW c \in QshKeys, PressCharacter(c) PROVE PromptInv'
<1> DEFINE b == edited[1]
           e == edited[2]
           nb == Len(b)
           ne == Len(e)
<1>1. /\ line \in [Cells0 -> QshKeys \union {NUL}] /\ b \in Seq(QshKeys) /\ e \in Seq(QshKeys)
      /\ nb \in Nat /\ ne \in Nat /\ ptr = nb + ne /\ ptr \in Cells0 /\ cursor = nb
      /\ edited = <<b, e>> /\ keys \in 0 .. MaxKeys
      /\ (\A i \in 1 .. nb : line[i - 1] = b[i])
      /\ \A i \in 1 .. ne : line[nb + i - 1] = e[i]
  BY DEF PromptInv
<1>2. /\ ptr < LINE_MAX - 1 /\ keys < MaxKeys /\ keys' = keys + 1 /\ line' = Inserted(line, c)
      /\ ptr' = ptr + 1 /\ cursor' = cursor + 1 /\ edited' = [edited EXCEPT ![1] = Append(@, c)]
  BY DEF PressCharacter, Editing
<1> HIDE DEF nb, ne, b, e
<1>3. edited' = <<Append(b, c), e>> /\ edited'[1] = Append(b, c) /\ edited'[2] = e
  BY <1>1, <1>2
<1>4. /\ Append(b, c) \in Seq(QshKeys) /\ Len(Append(b, c)) = nb + 1 /\ Append(b, c)[nb + 1] = c
      /\ \A i \in 1 .. nb : Append(b, c)[i] = b[i]
  BY <1>1 DEF nb
<1>5. LINE_MAX \in Nat /\ MaxKeys \in Nat /\ Cells0 = 0 .. LINE_MAX - 1
  BY QshConstants DEF Cells0
<1>6. \A i \in Cells0 : line'[i] = IF i = nb THEN c ELSE IF i > nb /\ i <= ptr THEN line[i - 1] ELSE line[i]
  BY <1>1, <1>2 DEF Inserted
<1>7. line' \in [Cells0 -> QshKeys \union {NUL}]
  <2>1. ASSUME NEW i \in Cells0
        PROVE (IF i = cursor THEN c ELSE IF i > cursor /\ i <= ptr THEN line[i - 1] ELSE line[i])
                \in QshKeys \union {NUL}
    <3>1. i > cursor => i - 1 \in Cells0
      BY <1>1, <1>5
    <3>2. QED BY <1>1, <3>1
  <2>2. DOMAIN line = Cells0
    BY <1>1
  <2>3. QED BY <1>2, <2>1, <2>2 DEF Inserted
<1>8. ptr' \in Cells0 /\ ptr' = (nb + 1) + ne /\ cursor' = nb + 1 /\ keys' \in 0 .. MaxKeys
  BY <1>1, <1>2, <1>5
<1>9. ASSUME NEW i \in 1 .. nb + 1 PROVE line'[i - 1] = Append(b, c)[i]
  <2>0. i - 1 \in Cells0
    BY <1>1, <1>2, <1>5
  <2>1. CASE i = nb + 1
    BY <1>1, <1>4, <1>6, <2>0, <2>1
  <2>2. CASE i # nb + 1
    <3>1. i \in 1 .. nb /\ i - 1 # nb /\ ~(i - 1 > nb)
      BY <1>1, <2>2
    <3>2. QED BY <1>1, <1>4, <1>6, <2>0, <3>1
  <2>3. QED BY <2>1, <2>2
<1>10. ASSUME NEW i \in 1 .. ne PROVE line'[(nb + 1) + i - 1] = e[i]
  <2>1. /\ (nb + 1) + i - 1 = nb + i /\ nb + i \in Cells0 /\ nb + i # nb /\ nb + i > nb /\ nb + i <= ptr
        /\ (nb + i) - 1 = nb + i - 1
    BY <1>1, <1>2, <1>5
  <2>2. line'[nb + i] = line[nb + i - 1]
    BY <1>6, <2>1
  <2>3. QED BY <1>1, <2>1, <2>2
<1>11. QED
  <2>1. edited' = <<edited'[1], edited'[2]>>
    BY <1>3
  <2>2. Len(edited'[1]) = nb + 1 /\ Len(edited'[2]) = ne
    BY <1>3, <1>4 DEF ne
  <2>3. \A i \in 1 .. Len(edited'[1]) : line'[i - 1] = edited'[1][i]
    BY <1>3, <1>9, <2>2
  <2>4. \A i \in 1 .. Len(edited'[2]) : line'[cursor' + i - 1] = edited'[2][i]
    BY <1>3, <1>8, <1>10, <2>2
  <2>5. edited'[1] \in Seq(QshKeys) /\ edited'[2] \in Seq(QshKeys)
    BY <1>1, <1>3, <1>4
  <2>6. cursor' \in Nat /\ cursor' = Len(edited'[1]) /\ ptr' = Len(edited'[1]) + Len(edited'[2])
    BY <1>1, <1>8, <2>2
  <2>7. QED BY <1>7, <1>8, <2>1, <2>3, <2>4, <2>5, <2>6 DEF PromptInv

LEMMA BackspaceKeepsPrompt ==
  ASSUME PromptInv, PressBackspace PROVE PromptInv'
<1> DEFINE b == edited[1]
           e == edited[2]
           nb == Len(b)
           ne == Len(e)
<1>1. /\ line \in [Cells0 -> QshKeys \union {NUL}] /\ b \in Seq(QshKeys) /\ e \in Seq(QshKeys)
      /\ nb \in Nat /\ ne \in Nat /\ ptr = nb + ne /\ ptr \in Cells0 /\ cursor = nb
      /\ edited = <<b, e>> /\ keys \in 0 .. MaxKeys
      /\ (\A i \in 1 .. nb : line[i - 1] = b[i])
      /\ \A i \in 1 .. ne : line[nb + i - 1] = e[i]
  BY DEF PromptInv
<1>2. /\ ptr < LINE_MAX - 1 /\ keys < MaxKeys /\ keys' = keys + 1
      /\ (ptr > 0 /\ cursor > 0 => line' = Backspaced(line) /\ ptr' = ptr - 1 /\ cursor' = cursor - 1)
      /\ (~(ptr > 0 /\ cursor > 0) => UNCHANGED <<line, ptr, cursor>>)
      /\ edited' = [edited EXCEPT ![1] = SubSeq(@, 1, Len(@) - 1)]
  BY DEF PressBackspace, Editing
<1> DEFINE f == SubSeq(b, 1, nb - 1)
<1>3. edited' = <<f, e>> /\ edited'[1] = f /\ edited'[2] = e
  BY <1>1, <1>2
<1> HIDE DEF ne, e
<1>5. LINE_MAX \in Nat /\ MaxKeys \in Nat /\ Cells0 = 0 .. LINE_MAX - 1
  BY QshConstants DEF Cells0
<1>6. keys' \in 0 .. MaxKeys /\ edited' = <<edited'[1], edited'[2]>> /\ Len(edited'[2]) = ne
  <2>1. keys' \in 0 .. MaxKeys
    BY <1>1, <1>2, <1>5
  <2>2. edited' = <<edited'[1], edited'[2]>>
    BY <1>3
  <2>3. Len(edited'[2]) = ne
    BY <1>3 DEF ne
  <2>4. QED BY <2>1, <2>2, <2>3
<1>7. CASE nb = 0
  <2>1. f = << >> /\ f \in Seq(QshKeys) /\ Len(f) = 0
    BY <1>1, <1>7
  <2> HIDE DEF f, b, nb
  <2>2. line' = line /\ ptr' = ptr /\ cursor' = cursor
    BY <1>1, <1>2, <1>7
  <2>3. \A i \in 1 .. Len(edited'[1]) : line'[i - 1] = edited'[1][i]
    BY <1>3, <2>1
  <2>4. QED BY <1>1, <1>3, <1>6, <1>7, <2>1, <2>2, <2>3 DEF PromptInv
<1>8. CASE nb > 0
  <2>1. f \in Seq(QshKeys) /\ Len(f) = nb - 1 /\ \A i \in 1 .. nb - 1 : f[i] = b[i]
    <3> DEFINE one == 1
               k == nb - 1
    <3>1. one \in 1 .. nb + 1 /\ k \in one - 1 .. nb /\ b \in Seq(QshKeys) /\ nb = Len(b) /\ one = 1 /\ k = nb - 1
      BY <1>1, <1>8
    <3> HIDE DEF one, k, b, nb
    <3>2. /\ SubSeq(b, one, k) \in Seq(QshKeys)
          /\ Len(SubSeq(b, one, k)) = IF one <= k THEN k - one + 1 ELSE 0
          /\ \A i \in 1 .. k - one + 1 : SubSeq(b, one, k)[i] = b[one + i - 1]
      BY <3>1, SubSeqProperties
    <3>3. f = SubSeq(b, one, k)
      BY <3>1
    <3> HIDE DEF f
    <3>4. Len(f) = nb - 1
      BY <1>1, <1>8, <3>1, <3>2, <3>3
    <3>5. ASSUME NEW i \in 1 .. nb - 1 PROVE f[i] = b[i]
      <4>1. i \in 1 .. k - one + 1 /\ one + i - 1 = i
        BY <1>1, <3>1
      <4>2. QED BY <3>2, <3>3, <4>1
    <3>6. QED BY <3>2, <3>3, <3>4, <3>5
  <2> HIDE DEF f, b, nb
  <2>2. line' = Backspaced(line) /\ ptr' = ptr - 1 /\ cursor' = nb - 1
    BY <1>1, <1>2, <1>8
  <2>3. ptr' \in Cells0 /\ ptr' = (nb - 1) + ne /\ cursor' \in Nat
    BY <1>1, <1>5, <1>8, <2>2
  <2>4. \A i \in Cells0 : line'[i] = IF i = ptr - 1 THEN NUL
                                     ELSE IF i >= nb - 1 /\ i < ptr - 1 THEN line[i + 1] ELSE line[i]
    BY <1>1, <2>2 DEF Backspaced
  <2>5. line' \in [Cells0 -> QshKeys \union {NUL}]
    <3>1. ASSUME NEW i \in Cells0
          PROVE (IF i = ptr - 1 THEN NUL
                 ELSE IF i >= cursor - 1 /\ i < ptr - 1 THEN line[i + 1] ELSE line[i]) \in QshKeys \union {NUL}
      <4>1. i < ptr - 1 => i + 1 \in Cells0
        BY <1>1, <1>5
      <4>2. QED BY <1>1, <4>1
    <3>2. DOMAIN line = Cells0
      BY <1>1
    <3>3. QED BY <2>2, <3>1, <3>2 DEF Backspaced
  <2>6. ASSUME NEW i \in 1 .. nb - 1 PROVE line'[i - 1] = f[i]
    <3>1. /\ i - 1 \in Cells0 /\ i - 1 # ptr - 1 /\ ~(i - 1 >= nb - 1) /\ i \in 1 .. nb
      BY <1>1, <1>5
    <3>2. QED BY <1>1, <2>1, <2>4, <3>1
  <2>7. ASSUME NEW i \in 1 .. ne PROVE line'[(nb - 1) + i - 1] = e[i]
    <3>1. /\ (nb - 1) + i - 1 = nb + i - 2 /\ nb + i - 2 \in Cells0 /\ nb + i - 2 # ptr - 1
          /\ nb + i - 2 >= nb - 1 /\ nb + i - 2 < ptr - 1 /\ (nb + i - 2) + 1 = nb + i - 1
      BY <1>1, <1>5, <1>8
    <3>2. line'[nb + i - 2] = line[nb + i - 1]
      BY <2>4, <3>1
    <3>3. QED BY <1>1, <3>1, <3>2
  <2>8. \A i \in 1 .. Len(edited'[1]) : line'[i - 1] = edited'[1][i]
    BY <1>3, <2>1, <2>6
  <2>9. \A i \in 1 .. Len(edited'[2]) : line'[cursor' + i - 1] = edited'[2][i]
    BY <1>3, <1>6, <2>2, <2>7
  <2>10. QED BY <1>1, <1>3, <1>6, <2>1, <2>2, <2>3, <2>5, <2>8, <2>9 DEF PromptInv
<1>9. QED BY <1>1, <1>7, <1>8

LEMMA FrontIs ==
  ASSUME NEW S, NEW s \in Seq(S), Len(s) > 0
  PROVE  /\ Front(s) \in Seq(S) /\ Len(Front(s)) = Len(s) - 1
         /\ (\A i \in 1 .. Len(s) - 1 : Front(s)[i] = s[i]) /\ Last(s) = s[Len(s)]
<1> DEFINE n == Len(s)
           one == 1
           k == n - 1
<1>1. n \in Nat /\ n > 0 /\ one \in Int /\ k \in Int /\ one = 1 /\ k = n - 1
  OBVIOUS
<1>2. \A i \in one .. k : s[i] \in S
  OBVIOUS
<1>3. Front(s) = SubSeq(s, one, k) /\ Last(s) = s[n]
  BY DEF Front, Last
<1> HIDE DEF n, one, k
<1>4. /\ SubSeq(s, one, k) \in Seq(S)
      /\ Len(SubSeq(s, one, k)) = IF one <= k THEN k - one + 1 ELSE 0
      /\ \A i \in 1 .. k - one + 1 : SubSeq(s, one, k)[i] = s[one + i - 1]
  BY <1>1, <1>2, SubSeqProperties
<1>5. Len(Front(s)) = n - 1
  BY <1>1, <1>3, <1>4
<1>6. ASSUME NEW i \in 1 .. n - 1 PROVE Front(s)[i] = s[i]
  <2>1. i \in 1 .. k - one + 1 /\ one + i - 1 = i
    BY <1>1
  <2>2. QED BY <1>3, <1>4, <2>1
<1>7. QED BY <1>3, <1>4, <1>5, <1>6 DEF n

LEMMA LeftKeepsPrompt ==
  ASSUME PromptInv, PressArrow("LEFT") PROVE PromptInv'
<1> DEFINE b == edited[1]
           e == edited[2]
           nb == Len(b)
           ne == Len(e)
<1>1. /\ line \in [Cells0 -> QshKeys \union {NUL}] /\ b \in Seq(QshKeys) /\ e \in Seq(QshKeys)
      /\ nb \in Nat /\ ne \in Nat /\ ptr = nb + ne /\ ptr \in Cells0 /\ cursor = nb
      /\ edited = <<b, e>> /\ keys \in 0 .. MaxKeys
      /\ (\A i \in 1 .. nb : line[i - 1] = b[i])
      /\ \A i \in 1 .. ne : line[nb + i - 1] = e[i]
  BY DEF PromptInv
<1>2. /\ keys < MaxKeys /\ keys' = keys + 1 /\ cursor > 0 /\ cursor' = cursor - 1
      /\ edited' = <<Front(edited[1]), <<Last(edited[1])>> \o edited[2]>> /\ line' = line /\ ptr' = ptr
  BY DEF PressArrow, Editing
<1> HIDE DEF nb, ne, b, e
<1>3. nb > 0 /\ MaxKeys \in Nat /\ nb = Len(b) /\ ne = Len(e)
  BY <1>1, <1>2, QshConstants DEF nb, ne
<1> DEFINE f == Front(b)
           x == b[nb]
           h == << x >>
           g == h \o e
<1>4. f \in Seq(QshKeys) /\ Len(f) = nb - 1 /\ (\A i \in 1 .. nb - 1 : f[i] = b[i]) /\ Last(b) = x
  BY <1>1, <1>3, FrontIs
<1>5. x \in QshKeys /\ h \in Seq(QshKeys) /\ Len(h) = 1 /\ h[1] = x
  BY <1>1, <1>3
<1> HIDE DEF h
<1>6. g \in Seq(QshKeys) /\ Len(g) = 1 + ne /\ \A i \in 1 .. 1 + ne : g[i] = IF i <= 1 THEN h[i] ELSE e[i - 1]
  <2>1. /\ h \o e \in Seq(QshKeys) /\ Len(h \o e) = Len(h) + Len(e)
        /\ \A i \in 1 .. Len(h) + Len(e) : (h \o e)[i] = IF i <= Len(h) THEN h[i] ELSE e[i - Len(h)]
    BY <1>1, <1>5, ConcatProperties
  <2>2. QED BY <1>3, <1>5, <2>1
<1>7. edited' = <<f, g>> /\ edited'[1] = f /\ edited'[2] = g
  BY <1>2, <1>4 DEF h, b, e
<1> HIDE DEF f, g, x
<1>8. /\ keys' \in 0 .. MaxKeys /\ cursor' \in Nat /\ cursor' = Len(edited'[1]) /\ cursor' = nb - 1
      /\ ptr' = Len(edited'[1]) + Len(edited'[2]) /\ ptr' \in Cells0
  BY <1>1, <1>2, <1>3, <1>4, <1>6, <1>7
<1>9. \A i \in 1 .. Len(edited'[1]) : line'[i - 1] = edited'[1][i]
  <2>1. Len(edited'[1]) = nb - 1
    BY <1>4, <1>7
  <2>2. ASSUME NEW i \in 1 .. nb - 1 PROVE line'[i - 1] = f[i]
    <3>1. i \in 1 .. nb
      BY <1>1
    <3>2. line[i - 1] = b[i] /\ f[i] = b[i]
      BY <1>1, <1>4, <3>1
    <3>3. QED BY <1>2, <3>2
  <2>3. QED BY <2>1, <2>2, <1>7
<1>10. ASSUME NEW i \in 1 .. 1 + ne PROVE line[(nb - 1) + i - 1] = g[i]
  <2>1. CASE i = 1
    <3>1. line[nb - 1] = b[nb]
      BY <1>1, <1>3
    <3>2. g[i] = h[i]
      BY <1>6, <2>1
    <3>3. h[i] = x /\ (nb - 1) + i - 1 = nb - 1
      BY <1>1, <1>5, <2>1
    <3>4. QED BY <3>1, <3>2, <3>3 DEF x
  <2>2. CASE i # 1
    <3>1. i - 1 \in 1 .. ne /\ (nb - 1) + i - 1 = nb + (i - 1) - 1 /\ ~(i <= 1)
      BY <1>1, <2>2
    <3>2. g[i] = e[i - 1]
      BY <1>6, <3>1
    <3>3. QED BY <1>1, <3>1, <3>2
  <2>3. QED BY <2>1, <2>2
<1>11. \A i \in 1 .. Len(edited'[2]) : line'[cursor' + i - 1] = edited'[2][i]
  BY <1>2, <1>6, <1>7, <1>8, <1>10
<1>12. edited' = <<edited'[1], edited'[2]>> /\ edited'[1] \in Seq(QshKeys) /\ edited'[2] \in Seq(QshKeys)
  BY <1>4, <1>6, <1>7
<1>13. line' \in [Cells0 -> QshKeys \union {NUL}]
  BY <1>1, <1>2
<1>14. QED BY <1>8, <1>9, <1>11, <1>12, <1>13 DEF PromptInv

LEMMA RightKeepsPrompt ==
  ASSUME PromptInv, PressArrow("RIGHT") PROVE PromptInv'
<1> DEFINE b == edited[1]
           e == edited[2]
           nb == Len(b)
           ne == Len(e)
<1>1. /\ line \in [Cells0 -> QshKeys \union {NUL}] /\ b \in Seq(QshKeys) /\ e \in Seq(QshKeys)
      /\ nb \in Nat /\ ne \in Nat /\ ptr = nb + ne /\ ptr \in Cells0 /\ cursor = nb
      /\ edited = <<b, e>> /\ keys \in 0 .. MaxKeys
      /\ (\A i \in 1 .. nb : line[i - 1] = b[i])
      /\ \A i \in 1 .. ne : line[nb + i - 1] = e[i]
  BY DEF PromptInv
<1>2. /\ keys < MaxKeys /\ keys' = keys + 1 /\ cursor < ptr /\ cursor' = cursor + 1
      /\ edited' = <<Append(edited[1], Head(edited[2])), Tail(edited[2])>> /\ line' = line /\ ptr' = ptr
  BY DEF PressArrow, Editing
<1> DEFINE f == Append(b, Head(e))
           g == Tail(e)
<1>3. ne > 0
  BY <1>1, <1>2
<1>4. /\ Head(e) = e[1] /\ e[1] \in QshKeys /\ g \in Seq(QshKeys) /\ Len(g) = ne - 1
      /\ \A i \in 1 .. ne - 1 : g[i] = e[i + 1]
  BY <1>1, <1>3
<1>5. /\ f \in Seq(QshKeys) /\ Len(f) = nb + 1 /\ f[nb + 1] = e[1]
      /\ \A i \in 1 .. nb : f[i] = b[i]
  BY <1>1, <1>4
<1>7. edited' = <<f, g>> /\ edited'[1] = f /\ edited'[2] = g
  BY <1>2
<1> HIDE DEF f, g, nb, ne, b, e
<1>8. /\ keys' \in 0 .. MaxKeys /\ cursor' \in Nat /\ cursor' = Len(edited'[1]) /\ cursor' = nb + 1
      /\ ptr' = Len(edited'[1]) + Len(edited'[2]) /\ ptr' \in Cells0
  <2>1. Len(edited'[1]) = nb + 1 /\ Len(edited'[2]) = ne - 1
    BY <1>4, <1>5, <1>7
  <2>2. keys' \in 0 .. MaxKeys
    BY <1>1, <1>2, QshConstants
  <2>3. ptr' \in Cells0 /\ ptr' = (nb + 1) + (ne - 1) /\ cursor' = nb + 1
    BY <1>1, <1>2
  <2>4. QED BY <1>1, <2>1, <2>2, <2>3
<1>9. ASSUME NEW i \in 1 .. nb + 1 PROVE line[i - 1] = f[i]
  <2>1. CASE i = nb + 1
    <3>1. 1 \in 1 .. ne /\ nb + 1 - 1 = i - 1
      BY <1>1, <1>3, <2>1
    <3>2. QED BY <1>1, <1>5, <2>1, <3>1
  <2>2. CASE i # nb + 1
    <3>1. i \in 1 .. nb
      BY <1>1, <2>2
    <3>2. QED BY <1>1, <1>5, <3>1
  <2>3. QED BY <2>1, <2>2
<1>10. \A i \in 1 .. Len(edited'[1]) : line'[i - 1] = edited'[1][i]
  BY <1>2, <1>5, <1>7, <1>9
<1>11. ASSUME NEW i \in 1 .. ne - 1 PROVE line[(nb + 1) + i - 1] = g[i]
  <2>1. i + 1 \in 1 .. ne /\ (nb + 1) + i - 1 = nb + (i + 1) - 1
    BY <1>1
  <2>2. QED BY <1>1, <1>4, <2>1
<1>12. \A i \in 1 .. Len(edited'[2]) : line'[cursor' + i - 1] = edited'[2][i]
  BY <1>2, <1>4, <1>7, <1>8, <1>11
<1>13. edited' = <<edited'[1], edited'[2]>> /\ edited'[1] \in Seq(QshKeys) /\ edited'[2] \in Seq(QshKeys)
  BY <1>4, <1>5, <1>7
<1>14. line' \in [Cells0 -> QshKeys \union {NUL}]
  BY <1>1, <1>2
<1>15. QED BY <1>8, <1>10, <1>12, <1>13, <1>14 DEF PromptInv

LEMMA RecallKeepsPrompt ==
  ASSUME PromptInv, NEW text, FitsLine(text), NEW index, Recalled(text, index), Editing,
         index < qsh_history_count \/ text = << >>
  PROVE  PromptInv'
<1> DEFINE n == Len(text)
<1>1. line \in [Cells0 -> QshKeys \union {NUL}] /\ keys \in 0 .. MaxKeys /\ DOMAIN line = Cells0
  BY DEF PromptInv
<1>2. text \in Seq(QshKeys) /\ n \in Nat /\ n < LINE_MAX /\ \A i \in 1 .. n : text[i] \in QshKeys
  BY DEF FitsLine
<1>3. LINE_MAX \in Nat /\ LINE_MAX > 1 /\ MaxKeys \in Nat /\ Cells0 = 0 .. LINE_MAX - 1
  BY QshConstants DEF Cells0
<1>4. /\ line' = (IF index < qsh_history_count THEN Copied(line, text) ELSE [line EXCEPT ![0] = NUL])
      /\ ptr' = n /\ cursor' = n /\ edited' = <<text, << >> >> /\ keys < MaxKeys /\ keys' = keys + 1
  BY DEF Recalled, Editing
<1> HIDE DEF n
<1>5. Copied(line, text) \in [Cells0 -> QshKeys \union {NUL}] /\ \A i \in 1 .. n : Copied(line, text)[i - 1] = text[i]
  <2>1. Copied(line, text) = [i \in Cells0 |-> IF i < n THEN text[i + 1] ELSE IF i = n THEN NUL ELSE line[i]]
    BY <1>1 DEF Copied, n
  <2>2. ASSUME NEW i \in Cells0
        PROVE (IF i < n THEN text[i + 1] ELSE IF i = n THEN NUL ELSE line[i]) \in QshKeys \union {NUL}
    <3>1. i < n => i + 1 \in 1 .. n
      BY <1>2, <1>3
    <3>2. QED BY <1>1, <1>2, <3>1
  <2>3. ASSUME NEW i \in 1 .. n PROVE Copied(line, text)[i - 1] = text[i]
    <3>1. i - 1 \in Cells0 /\ i - 1 < n /\ (i - 1) + 1 = i
      BY <1>2, <1>3
    <3>2. QED BY <2>1, <3>1
  <2>4. QED BY <2>1, <2>2, <2>3
<1>6. line' \in [Cells0 -> QshKeys \union {NUL}]
  <2>1. CASE index < qsh_history_count
    BY <1>4, <1>5, <2>1
  <2>2. CASE ~(index < qsh_history_count)
    BY <1>1, <1>3, <1>4, <2>2
  <2>3. QED BY <2>1, <2>2
<1>7. ASSUME NEW i \in 1 .. n PROVE line'[i - 1] = text[i]
  <2>1. index < qsh_history_count
    <3>1. text = << >> => n = 0
      BY DEF n
    <3>2. QED BY <3>1
  <2>2. QED BY <1>4, <1>5, <2>1
<1>8. /\ edited' = <<edited'[1], edited'[2]>> /\ edited'[1] = text /\ edited'[2] = << >>
      /\ Len(edited'[1]) = n /\ Len(edited'[2]) = 0 /\ edited'[2] \in Seq(QshKeys)
  BY <1>4 DEF n
<1>9. /\ ptr' \in Cells0 /\ cursor' \in Nat /\ keys' \in 0 .. MaxKeys
      /\ cursor' = Len(edited'[1]) /\ ptr' = Len(edited'[1]) + Len(edited'[2])
  BY <1>1, <1>2, <1>3, <1>4, <1>8
<1>10. \A i \in 1 .. Len(edited'[1]) : line'[i - 1] = edited'[1][i]
  BY <1>7, <1>8
<1>11. \A i \in 1 .. Len(edited'[2]) : line'[cursor' + i - 1] = edited'[2][i]
  BY <1>8
<1>12. edited'[1] \in Seq(QshKeys)
  BY <1>2, <1>8
<1>13. QED BY <1>6, <1>8, <1>9, <1>10, <1>11, <1>12 DEF PromptInv

-----------------------------------------------------------------------------
(* The history *)

\* One more line for the distinct ones, and the recursion of DistinctOf
NextDistinct(q, x) == IF q # << >> /\ Last(q) = x THEN q ELSE Append(q, x)
DistinctBody(f, t) ==
  [i \in 0 .. Len(t) |-> IF i = 0 THEN << >>
                         ELSE IF f[i - 1] # << >> /\ Last(f[i - 1]) = t[i] THEN f[i - 1] ELSE Append(f[i - 1], t[i])]
Distincts(f, t) == f[0] = << >> /\ \A i \in 1 .. Len(t) : f[i] = NextDistinct(f[i - 1], t[i])

LEMMA NextDistinctType ==
  ASSUME NEW L, NEW q \in Seq(L), NEW x \in L PROVE NextDistinct(q, x) \in Seq(L)
BY DEF NextDistinct

LEMMA DistinctRecursion ==
  ASSUME NEW L, NEW t \in Seq(L)
  PROVE  \E f : (\A i \in 0 .. Len(t) : f[i] \in Seq(L)) /\ Distincts(f, t) /\ DistinctOf(t) = f[Len(t)]
<1> DEFINE n == Len(t)
           X == Seq(L)
           F == [v \in X \X (1 .. n) |-> NextDistinct(v[1], t[v[2]])]
<1>1. n \in Nat /\ << >> \in X /\ \A i \in 1 .. n : t[i] \in L
  OBVIOUS
<1>2. F \in [X \X (1 .. n) -> X]
  BY <1>1, NextDistinctType
<1>3. PICK g \in [0 .. n -> X] : Solves(g, n, << >>, F)
  <2> HIDE DEF F, X, n
  <2> QED BY <1>1, <1>2, RecursionExists
<1>4. g[0] = << >> /\ \A i \in 1 .. n : g[i] = NextDistinct(g[i - 1], t[i])
  <2>1. ASSUME NEW i \in 1 .. n PROVE g[i - 1] \in X
    <3>1. i - 1 \in 0 .. n
      BY <1>1
    <3> HIDE DEF X, F, n
    <3>2. QED BY <1>3, <3>1
  <2>2. ASSUME NEW i \in 1 .. n PROVE F[<<g[i - 1], i>>] = NextDistinct(g[i - 1], t[i])
    <3>1. <<g[i - 1], i>> \in X \X (1 .. n)
      BY <2>1
    <3>2. QED BY <3>1
  <2> HIDE DEF F, X, n
  <2>3. QED BY <1>3, <2>2 DEF Solves
<1>z. << >> \in Seq(L) /\ 0 \in 0 .. n
  BY <1>1
<1> HIDE DEF X, F
<1>5. g = DistinctBody(g, t)
  <2>1. g = [i \in 0 .. n |-> g[i]]
    BY <1>3
  <2>2. \A i \in 0 .. n : g[i] = IF i = 0 THEN << >> ELSE NextDistinct(g[i - 1], t[i])
    <3> TAKE i \in 0 .. n
    <3>1. i # 0 => i \in 1 .. n
      BY <1>1
    <3>2. QED BY <1>4, <3>1
  <2>3. DistinctBody(g, t) = [i \in 0 .. n |-> IF i = 0 THEN << >> ELSE NextDistinct(g[i - 1], t[i])]
    BY DEF DistinctBody, NextDistinct
  <2> HIDE DEF n
  <2>4. QED BY <2>1, <2>2, <2>3
<1> DEFINE f == CHOOSE e : e = DistinctBody(e, t)
<1>6. f = DistinctBody(f, t)
  BY <1>5
<1>7. DistinctOf(t) = f[n]
  BY DEF DistinctOf, DistinctBody
<1> HIDE DEF f, n
<1>n. n = Len(t)
  BY DEF n
<1>8. f[0] = << >> /\ \A i \in 1 .. n : f[i] = NextDistinct(f[i - 1], t[i])
  <2>1. DistinctBody(f, t)[0] = << >>
    BY <1>1, <1>n DEF DistinctBody
  <2>2. ASSUME NEW i \in 1 .. n PROVE DistinctBody(f, t)[i] = NextDistinct(f[i - 1], t[i])
    <3>1. i \in 0 .. n /\ i # 0
      BY <1>1
    <3>2. QED BY <1>n, <3>1 DEF DistinctBody, NextDistinct
  <2>3. \A i \in 0 .. n : f[i] = DistinctBody(f, t)[i]
    BY <1>6
  <2>4. 0 \in 0 .. n /\ \A i \in 1 .. n : i \in 0 .. n
    BY <1>1
  <2>5. QED BY <2>1, <2>2, <2>3, <2>4
<1> DEFINE S == {i \in 0 .. n : f[i] \in Seq(L)}
<1>9. \A i \in 0 .. n : i \in S
  <2>1. 0 \in S
    BY <1>z, <1>8
  <2>2. ASSUME NEW i \in 1 .. n, (i - 1) \in S PROVE i \in S
    <3>1. f[i - 1] \in Seq(L) /\ t[i] \in L /\ i \in 0 .. n
      BY <1>1, <2>2
    <3>2. QED BY <1>8, <3>1, NextDistinctType
  <2> HIDE DEF S
  <2>3. QED BY <1>1, <2>1, <2>2, SetInduction
<1>10. QED BY <1>7, <1>8, <1>9, <1>n DEF Distincts

LEMMA DistinctType ==
  ASSUME NEW L, NEW t \in Seq(L) PROVE DistinctOf(t) \in Seq(L)
<1>1. PICK f : (\A i \in 0 .. Len(t) : f[i] \in Seq(L)) /\ DistinctOf(t) = f[Len(t)]
  BY DistinctRecursion
<1>2. Len(t) \in 0 .. Len(t)
  OBVIOUS
<1>3. QED BY <1>1, <1>2

LEMMA DistinctOfNone == DistinctOf(<< >>) = << >>
<1>1. << >> \in Seq({}) /\ Len(<< >>) = 0
  OBVIOUS
<1>2. PICK f : Distincts(f, << >>) /\ DistinctOf(<< >>) = f[Len(<< >>)]
  BY <1>1, DistinctRecursion
<1>3. QED BY <1>1, <1>2 DEF Distincts

LEMMA DistinctOfMore ==
  ASSUME NEW L, NEW t \in Seq(L), NEW x \in L
  PROVE  DistinctOf(t) \in Seq(L) /\ DistinctOf(Append(t, x)) = NextDistinct(DistinctOf(t), x)
<1> DEFINE u == Append(t, x)
           n == Len(t)
<1>1. /\ u \in Seq(L) /\ n \in Nat /\ Len(u) = n + 1 /\ u[n + 1] = x
      /\ \A i \in 1 .. n : u[i] = t[i]
  OBVIOUS
<1>2. PICK f : (\A i \in 0 .. n : f[i] \in Seq(L)) /\ Distincts(f, t) /\ DistinctOf(t) = f[n]
  BY DistinctRecursion
<1> HIDE DEF u
<1>3. PICK g : Distincts(g, u) /\ DistinctOf(u) = g[Len(u)]
  BY <1>1, DistinctRecursion
<1>4. f[0] = << >> /\ \A i \in 1 .. n : f[i] = NextDistinct(f[i - 1], t[i])
  BY <1>2 DEF Distincts
<1>5. g[0] = << >> /\ \A i \in 1 .. n + 1 : g[i] = NextDistinct(g[i - 1], u[i])
  BY <1>1, <1>3 DEF Distincts
<1> HIDE DEF n
<1> DEFINE S == {i \in 0 .. n : g[i] = f[i]}
<1>6. \A i \in 0 .. n : i \in S
  <2>1. 0 \in S
    BY <1>1, <1>4, <1>5
  <2>2. ASSUME NEW i \in 1 .. n, (i - 1) \in S PROVE i \in S
    <3>1. g[i - 1] = f[i - 1] /\ i \in 1 .. n + 1 /\ i \in 0 .. n /\ u[i] = t[i]
      BY <1>1, <2>2
    <3>2. QED BY <1>4, <1>5, <3>1
  <2> HIDE DEF S
  <2>3. QED BY <1>1, <2>1, <2>2, SetInduction
<1>7. g[n] = f[n]
  <2>1. n \in S
    <3> HIDE DEF S
    <3> QED BY <1>1, <1>6
  <2>2. QED BY <2>1
<1>8. g[n + 1] = NextDistinct(g[n], u[n + 1])
  <2>1. n + 1 \in 1 .. n + 1 /\ (n + 1) - 1 = n
    BY <1>1
  <2>2. QED BY <1>5, <2>1
<1>9. f[n] \in Seq(L)
  BY <1>1, <1>2
<1>10. QED BY <1>1, <1>2, <1>3, <1>7, <1>8, <1>9 DEF u

\* A line that was entered, and the ring of the newest distinct ones
EnteredLines == {x \in Seq(QshKeys) : x # << >> /\ Len(x) < LINE_MAX}
RingKeeps(h, d) ==
  \A i \in 1 .. Len(d) : i > Len(d) - HISTORY_SIZE => h[(i - 1) % HISTORY_SIZE] = d[i]

HistoryInv ==
  /\ HistoryFits
  /\ entered \in Seq(EnteredLines)
  /\ qsh_history_count = Len(Distinct)
  /\ RingKeeps(qsh_history, Distinct)

\* A line that is the last of d does not go to the history
LEMMA RemembersNew ==
  ASSUME HistoryInv, NEW text \in EnteredLines
  PROVE  Remembers(text) <=> ~(Distinct # << >> /\ Last(Distinct) = text)
<1> DEFINE d == Distinct
           n == Len(d)
           H == HISTORY_SIZE
<1>0. d \in Seq(EnteredLines)
  BY DistinctType DEF HistoryInv, Distinct
<1>1. d \in Seq(EnteredLines) /\ n \in Nat /\ qsh_history_count = n /\ text # << >>
  <2>1. n \in Nat
    BY <1>0
  <2>2. QED BY <1>0, <2>1 DEF HistoryInv, EnteredLines
<1>2. H \in Nat /\ H # 0
  BY QshConstants
<1>3. \A i \in 1 .. n : i > n - H => qsh_history[(i - 1) % H] = d[i]
  BY DEF HistoryInv, RingKeeps
<1>4. (d = << >> <=> n = 0) /\ Last(d) = d[n]
  BY <1>1 DEF Last
<1> HIDE DEF d, n, H
<1>5. n # 0 => qsh_history[(n - 1) % H] = d[n]
  <2> SUFFICES ASSUME n # 0 PROVE qsh_history[(n - 1) % H] = d[n]
    OBVIOUS
  <2>1. n \in 1 .. n /\ n > n - H
    BY <1>1, <1>2
  <2>2. QED BY <1>3, <2>1
<1>6. Remembers(text) <=> (n = 0 \/ qsh_history[(n - 1) % H] # text)
  BY <1>1 DEF Remembers, H
<1>7. QED BY <1>4, <1>5, <1>6 DEF d

LEMMA EnterKeepsHistory ==
  ASSUME PromptInv, HistoryInv, PressEnter PROVE HistoryInv'
<1> DEFINE text == TextOf(MarkedLine)
           d == Distinct
           n == Len(d)
           H == HISTORY_SIZE
<1>0. /\ n \in Nat /\ d \in Seq(EnteredLines) /\ qsh_history_count = n /\ entered \in Seq(EnteredLines)
      /\ HistoryFits /\ (\A i \in 1 .. n : i > n - H => qsh_history[(i - 1) % H] = d[i])
  <2>1. entered \in Seq(EnteredLines) /\ qsh_history_count = n /\ HistoryFits /\ RingKeeps(qsh_history, Distinct)
    BY DEF HistoryInv
  <2>2. d \in Seq(EnteredLines)
    BY <2>1, DistinctType DEF Distinct
  <2>3. QED BY <2>1, <2>2 DEF RingKeeps
<1>1. FitsLine(text)
  BY MarkedText
<1>2. /\ H \in Nat /\ H # 0
      /\ (\A i \in 0 .. H - 1 : FitsLine(qsh_history[i]))
      /\ qsh_history_index \in -1 .. n /\ (n > 0 => qsh_history_index >= 0)
      /\ qsh_history = [i \in 0 .. H - 1 |-> qsh_history[i]]
  BY <1>0, QshConstants DEF HistoryFits
<1>3. CASE text \in {<< >>, <<"q">>}
  <2>1. UNCHANGED <<qsh_history, qsh_history_count, qsh_history_index, entered>>
    BY <1>3 DEF PressEnter, KeepHistory, MarkedLine
  <2>2. QED BY <2>1 DEF HistoryInv, HistoryFits, FitsLine, RingKeeps, Distinct
<1>4. CASE text \notin {<< >>, <<"q">>}
  <2>1. /\ entered' = Append(entered, text)
        /\ qsh_history' = IF Remembers(text) THEN [qsh_history EXCEPT ![qsh_history_count % HISTORY_SIZE] = text]
                          ELSE qsh_history
        /\ qsh_history_count' = qsh_history_count + (IF Remembers(text) THEN 1 ELSE 0)
        /\ qsh_history_index' = qsh_history_count'
    BY <1>4 DEF PressEnter, MarkedLine
  <2>2. text \in EnteredLines
    BY <1>1, <1>4 DEF FitsLine, EnteredLines
  <2> HIDE DEF text
  <2>3. entered' \in Seq(EnteredLines) /\ Distinct' = NextDistinct(d, text)
    <3>1. DistinctOf(Append(entered, text)) = NextDistinct(DistinctOf(entered), text)
      BY <1>0, <2>2, DistinctOfMore
    <3>2. QED BY <1>0, <2>1, <2>2, <3>1 DEF Distinct
  <2>4. Remembers(text) <=> ~(d # << >> /\ Last(d) = text)
    BY <2>2, RemembersNew
  <2>5. CASE ~Remembers(text)
    <3>1. Distinct' = Distinct /\ qsh_history' = qsh_history /\ qsh_history_count' = qsh_history_count
      BY <1>0, <2>1, <2>3, <2>4, <2>5 DEF NextDistinct
    <3>2. qsh_history_index' \in -1 .. qsh_history_count' /\ (qsh_history_count' > 0 => qsh_history_index' >= 0)
      BY <1>0, <2>1, <3>1
    <3>3. HistoryFits'
      BY <1>0, <3>1, <3>2 DEF HistoryFits, FitsLine
    <3>4. RingKeeps(qsh_history, Distinct)'
      BY <3>1 DEF HistoryInv, RingKeeps
    <3>5. QED BY <1>0, <2>3, <3>1, <3>3, <3>4 DEF HistoryInv
  <2>6. CASE Remembers(text)
    <3> DEFINE d1 == Append(d, text)
               h1 == qsh_history'
               p == n % H
    <3>1. Distinct' = d1 /\ h1 = [qsh_history EXCEPT ![p] = text] /\ qsh_history_count' = n + 1
      BY <1>0, <2>1, <2>3, <2>4, <2>6 DEF NextDistinct
    <3>2. /\ Len(d1) = n + 1 /\ d1[n + 1] = text /\ \A i \in 1 .. n : d1[i] = d[i]
      BY <1>0, <2>2
    <3>3. p \in 0 .. H - 1
      BY <1>0, <1>2, Remainder
    <3> HIDE DEF d1, p, d, n, H
    <3>4. h1 = [i \in 0 .. H - 1 |-> h1[i]] /\ h1[p] = text /\ \A i \in 0 .. H - 1 : i # p => h1[i] = qsh_history[i]
      BY <1>2, <3>1, <3>3
    <3>5. \A i \in 0 .. H - 1 : FitsLine(h1[i])
      BY <1>1, <1>2, <3>4
    <3>6. HistoryFits'
      <4>1. qsh_history_count' \in Nat /\ qsh_history_index' \in -1 .. qsh_history_count' /\ qsh_history_index' >= 0
        BY <1>0, <2>1, <3>1
      <4>2. DOMAIN h1 = 0 .. H - 1
        BY <3>4
      <4>3. QED BY <3>4, <3>5, <4>1, <4>2 DEF HistoryFits, FitsLine, H
    <3>7. ASSUME NEW i \in 1 .. n + 1, i > n + 1 - H PROVE h1[(i - 1) % H] = d1[i]
      <4>1. CASE i = n + 1
        <5>1. (i - 1) % H = p
          BY <1>0, <4>1 DEF p
        <5>2. QED BY <3>2, <3>4, <4>1, <5>1
      <4>2. CASE i # n + 1
        <5>1. i \in 1 .. n /\ i > n - H /\ i - 1 \in Int /\ n - (i - 1) \in 1 .. H - 1 /\ (i - 1) + (n - (i - 1)) = n
          <6>1. n \in Nat /\ H \in Nat /\ i \in 1 .. n + 1 /\ i > n + 1 - H /\ i # n + 1
            BY <1>0, <1>2, <3>7, <4>2
          <6>2. QED BY <6>1
        <5> DEFINE a == i - 1
                   g == n - (i - 1)
        <5>2. (a + g) % H # a % H
          <6>1. a \in Int /\ g \in 1 .. H - 1 /\ H \in Nat \ {0}
            BY <1>2, <5>1
          <6> HIDE DEF a, g
          <6>2. QED BY <6>1, RemaindersDiffer
        <5>3. a % H \in 0 .. H - 1
          <6>1. a \in Int /\ H \in Nat \ {0}
            BY <1>2, <5>1
          <6> HIDE DEF a
          <6>2. QED BY <6>1, Remainder
        <5>4. a % H # p
          BY <5>1, <5>2 DEF p
        <5>5. h1[a % H] = qsh_history[a % H]
          <6> HIDE DEF a
          <6> QED BY <3>4, <5>3, <5>4
        <5>6. QED BY <1>0, <3>2, <5>1, <5>5
      <4>3. QED BY <4>1, <4>2
    <3>8. RingKeeps(qsh_history, Distinct)'
      <4>1. RingKeeps(h1, d1)
        <5>1. ASSUME NEW i \in 1 .. Len(d1), i > Len(d1) - HISTORY_SIZE
              PROVE  h1[(i - 1) % HISTORY_SIZE] = d1[i]
          <6>1. i \in 1 .. n + 1 /\ i > n + 1 - H
            <7>1. Len(d1) = n + 1
              BY <3>2
            <7>2. i \in 1 .. Len(d1) /\ i > Len(d1) - H
              BY <5>1 DEF H
            <7>3. n \in Nat /\ H \in Nat
              BY <1>0, <1>2
            <7> HIDE DEF d1
            <7>4. QED BY <7>1, <7>2, <7>3
          <6>2. h1[(i - 1) % H] = d1[i]
            BY <3>7, <6>1
          <6>3. QED BY <6>2 DEF H
        <5> HIDE DEF h1
        <5>2. QED BY <5>1 DEF RingKeeps
      <4>2. QED BY <3>1, <4>1 DEF RingKeeps
    <3>9. QED BY <2>3, <3>1, <3>2, <3>6, <3>8 DEF HistoryInv
  <2>7. QED BY <2>5, <2>6
<1>5. QED BY <1>3, <1>4

LEMMA EnterKeepsPrompt ==
  ASSUME PromptInv, PressEnter PROVE PromptInv'
<1>1. line \in [Cells0 -> QshKeys \union {NUL}] /\ keys \in 0 .. MaxKeys /\ DOMAIN line = Cells0
  BY DEF PromptInv
<1>2. /\ line' = [i \in DOMAIN line |-> NUL] /\ ptr' = 0 /\ cursor' = 0 /\ edited' = << << >>, << >> >>
      /\ (keys' = keys + 1 /\ keys < MaxKeys) \/ keys' = keys
  BY DEF PressEnter, Editing
<1>3. LINE_MAX \in Nat /\ LINE_MAX > 1 /\ MaxKeys \in Nat
  BY QshConstants
<1>4. /\ edited'[1] = << >> /\ edited'[2] = << >> /\ edited' = <<edited'[1], edited'[2]>>
      /\ Len(edited'[1]) = 0 /\ Len(edited'[2]) = 0
      /\ edited'[1] \in Seq(QshKeys) /\ edited'[2] \in Seq(QshKeys)
  BY <1>2
<1>5. line' \in [Cells0 -> QshKeys \union {NUL}]
  BY <1>1, <1>2
<1>6. keys' \in 0 .. MaxKeys
  BY <1>1, <1>2, <1>3
<1>7. /\ ptr' \in Cells0 /\ cursor' \in Nat /\ cursor' = Len(edited'[1])
      /\ ptr' = Len(edited'[1]) + Len(edited'[2])
  BY <1>2, <1>3, <1>4 DEF Cells0
<1>8. /\ \A i \in 1 .. Len(edited'[1]) : line'[i - 1] = edited'[1][i]
      /\ \A i \in 1 .. Len(edited'[2]) : line'[cursor' + i - 1] = edited'[2][i]
  BY <1>4
<1>9. QED BY <1>4, <1>5, <1>6, <1>7, <1>8 DEF PromptInv

LEMMA HistoryUnrun ==
  ASSUME HistoryInv, UNCHANGED <<qsh_history, qsh_history_count, entered>>,
         qsh_history_index' \in -1 .. qsh_history_count, qsh_history_count > 0 => qsh_history_index' >= 0
  PROVE  HistoryInv'
BY DEF HistoryInv, HistoryFits, FitsLine, RingKeeps, Distinct

LEMMA UpKeeps ==
  ASSUME PromptInv, HistoryInv, PressUp PROVE PromptInv' /\ HistoryInv'
<1> DEFINE index == IF qsh_history_index > 0 THEN qsh_history_index - 1 ELSE qsh_history_index
           text == qsh_history[index % HISTORY_SIZE]
<1>1. Editing /\ qsh_history_count > 0 /\ Recalled(text, index)
  BY DEF PressUp
<1>2. /\ qsh_history_count \in Nat /\ qsh_history_index \in 0 .. qsh_history_count
      /\ \A i \in 0 .. HISTORY_SIZE - 1 : FitsLine(qsh_history[i])
  BY <1>1 DEF HistoryInv, HistoryFits
<1>3. index \in 0 .. qsh_history_count /\ index < qsh_history_count
  BY <1>1, <1>2
<1> HIDE DEF index
<1>4. FitsLine(text)
  <2>1. index % HISTORY_SIZE \in 0 .. HISTORY_SIZE - 1
    BY <1>3, QshConstants, Remainder
  <2>2. QED BY <1>2, <2>1
<1> HIDE DEF text
<1>5. PromptInv'
  BY <1>1, <1>3, <1>4, RecallKeepsPrompt
<1>6. UNCHANGED <<qsh_history, qsh_history_count, entered>> /\ qsh_history_index' = index
  BY <1>1 DEF Recalled
<1>7. HistoryInv'
  BY <1>2, <1>3, <1>6, HistoryUnrun
<1>8. QED BY <1>5, <1>7

LEMMA DownKeeps ==
  ASSUME PromptInv, HistoryInv, PressDown PROVE PromptInv' /\ HistoryInv'
<1> DEFINE index == qsh_history_index + 1
           text == IF index < qsh_history_count THEN qsh_history[index % HISTORY_SIZE] ELSE << >>
<1>1. Editing /\ qsh_history_index < qsh_history_count /\ Recalled(text, index)
  BY DEF PressDown
<1>2. /\ qsh_history_count \in Nat /\ qsh_history_index \in -1 .. qsh_history_count
      /\ \A i \in 0 .. HISTORY_SIZE - 1 : FitsLine(qsh_history[i])
  BY <1>1 DEF HistoryInv, HistoryFits
<1>3. index \in 0 .. qsh_history_count
  BY <1>1, <1>2
<1> HIDE DEF index
<1>4. FitsLine(text) /\ (index < qsh_history_count \/ text = << >>)
  <2>1. index % HISTORY_SIZE \in 0 .. HISTORY_SIZE - 1
    BY <1>3, QshConstants, Remainder
  <2>2. FitsLine(qsh_history[index % HISTORY_SIZE])
    BY <1>2, <2>1
  <2>3. FitsLine(<< >>)
    BY QshConstants DEF FitsLine
  <2>4. QED BY <2>2, <2>3
<1> HIDE DEF text
<1>5. PromptInv'
  BY <1>1, <1>3, <1>4, RecallKeepsPrompt
<1>6. UNCHANGED <<qsh_history, qsh_history_count, entered>> /\ qsh_history_index' = index
  BY <1>1 DEF Recalled
<1>7. HistoryInv'
  BY <1>2, <1>3, <1>6, HistoryUnrun
<1>8. QED BY <1>5, <1>7

-----------------------------------------------------------------------------
(* Scripts *)

ScriptShape ==
  /\ script = [text |-> script.text, at |-> script.at, skip_logic |-> script.skip_logic,
               condition_met |-> script.condition_met, ran |-> script.ran, exstat |-> script.exstat]
  /\ script.text \in Scripts /\ script.at \in 1 .. Len(script.text) + 1
  /\ script.skip_logic \in BOOLEAN /\ script.condition_met \in BOOLEAN
ScriptInv ==
  script = NoScript \/
  /\ ScriptShape
  /\ script.skip_logic <=> ~IsRun(script.text, script.at - 1)
  /\ script.condition_met <=> IsMet(script.text, script.at - 1)
  /\ script.ran = Chosen(script.text)[script.at - 1]

LEMMA ScriptLines ==
  ASSUME NEW text \in Scripts
  PROVE  Len(text) \in Nat /\ DOMAIN text = 1 .. Len(text) /\ \A i \in 1 .. Len(text) : text[i].k \in LineKinds
BY QshAssumption DEF QshAssumption

\* The last if up to a line, and whether the line runs
LEMMA MetAt ==
  ASSUME NEW text, NEW i \in Nat, i > 0
  PROVE  /\ text[i].k = "if" => (IsMet(text, i) <=> EvalCondition(text[i]))
         /\ text[i].k # "if" => (IsMet(text, i) <=> IsMet(text, i - 1))
<1>1. CASE text[i].k = "if"
  <2>1. ASSUME IsMet(text, i) PROVE EvalCondition(text[i])
    <3>1. PICK j \in 1 .. i : /\ EvalCondition(text[j])
                              /\ \A m \in (j + 1) .. i : text[m].k # "if"
      BY <2>1 DEF IsMet
    <3>2. ~(j < i)
      <4>1. SUFFICES ASSUME j < i PROVE FALSE
        OBVIOUS
      <4>2. i \in (j + 1) .. i
        BY <4>1
      <4>3. QED BY <1>1, <3>1, <4>2
    <3>3. j = i
      BY <3>2
    <3>4. QED BY <3>1, <3>3
  <2>2. ASSUME EvalCondition(text[i]) PROVE IsMet(text, i)
    <3>1. i \in 1 .. i /\ \A m \in (i + 1) .. i : text[m].k # "if"
      OBVIOUS
    <3>2. QED BY <1>1, <2>2, <3>1 DEF IsMet
  <2>3. QED BY <1>1, <2>1, <2>2
<1>2. CASE text[i].k # "if"
  <2>1. ASSUME IsMet(text, i) PROVE IsMet(text, i - 1)
    <3>1. PICK j \in 1 .. i : /\ text[j].k = "if" /\ EvalCondition(text[j])
                              /\ \A m \in (j + 1) .. i : text[m].k # "if"
      BY <2>1 DEF IsMet
    <3>2. j # i
      BY <1>2, <3>1
    <3>3. j \in 1 .. i - 1 /\ \A m \in (j + 1) .. (i - 1) : m \in (j + 1) .. i
      BY <3>2
    <3>4. QED BY <3>1, <3>3 DEF IsMet
  <2>2. ASSUME IsMet(text, i - 1) PROVE IsMet(text, i)
    <3>1. PICK j \in 1 .. i - 1 : /\ text[j].k = "if" /\ EvalCondition(text[j])
                                  /\ \A m \in (j + 1) .. (i - 1) : text[m].k # "if"
      BY <2>2 DEF IsMet
    <3>2. j \in 1 .. i /\ \A m \in (j + 1) .. i : m = i \/ m \in (j + 1) .. (i - 1)
      OBVIOUS
    <3>3. \A m \in (j + 1) .. i : text[m].k # "if"
      BY <1>2, <3>1, <3>2
    <3>4. QED BY <3>1, <3>2, <3>3 DEF IsMet
  <2>3. QED BY <1>2, <2>1, <2>2
<1>3. QED BY <1>1, <1>2

Chooses == {"if", "else", "fi"}
LastChoice(text, j, i) == text[j].k \in Chooses /\ \A m \in (j + 1) .. i : text[m].k \notin Chooses
LetsRun(text, j) ==
  \/ text[j].k = "fi"
  \/ text[j].k = "if" /\ EvalCondition(text[j])
  \/ text[j].k = "else" /\ ~IsMet(text, j)

LEMMA IsRunBy ==
  ASSUME NEW text, NEW i PROVE IsRun(text, i) <=> \A j \in 1 .. i : LastChoice(text, j, i) => LetsRun(text, j)
BY DEF IsRun, LastChoice, LetsRun, Chooses

LEMMA RunAt ==
  ASSUME NEW text, NEW i \in Nat, i > 0
  PROVE  /\ text[i].k \in Chooses => (IsRun(text, i) <=> LetsRun(text, i))
         /\ text[i].k \notin Chooses => (IsRun(text, i) <=> IsRun(text, i - 1))
<1>1. CASE text[i].k \in Chooses
  <2>1. LastChoice(text, i, i) /\ i \in 1 .. i
    BY <1>1 DEF LastChoice
  <2>2. ASSUME NEW j \in 1 .. i, LastChoice(text, j, i) PROVE j = i
    <3>1. ~(j < i)
      <4>1. SUFFICES ASSUME j < i PROVE FALSE
        OBVIOUS
      <4>2. i \in (j + 1) .. i
        BY <4>1
      <4>3. QED BY <1>1, <2>2, <4>2 DEF LastChoice
    <3>2. QED BY <3>1
  <2>3. QED BY <1>1, <2>1, <2>2, IsRunBy
<1>2. CASE text[i].k \notin Chooses
  <2>1. ASSUME NEW j \in 1 .. i, LastChoice(text, j, i) PROVE j \in 1 .. i - 1 /\ LastChoice(text, j, i - 1)
    <3>1. j # i
      BY <1>2, <2>1 DEF LastChoice
    <3>2. j \in 1 .. i - 1 /\ \A m \in (j + 1) .. (i - 1) : m \in (j + 1) .. i
      BY <3>1
    <3>3. QED BY <2>1, <3>2 DEF LastChoice
  <2>2. ASSUME NEW j \in 1 .. i - 1, LastChoice(text, j, i - 1) PROVE j \in 1 .. i /\ LastChoice(text, j, i)
    <3>1. j \in 1 .. i /\ \A m \in (j + 1) .. i : m = i \/ m \in (j + 1) .. (i - 1)
      OBVIOUS
    <3>2. QED BY <1>2, <2>2, <3>1 DEF LastChoice
  <2>3. QED BY <1>2, <2>1, <2>2, IsRunBy
<1>3. QED BY <1>1, <1>2

NextChosen(text, q, i) == IF text[i].k = "cmd" /\ IsRun(text, i) THEN Append(q, text[i].n) ELSE q
ChosenBody(c, text) ==
  [i \in 0 .. Len(text) |-> IF i = 0 THEN << >>
     ELSE IF text[i].k = "cmd" /\ IsRun(text, i) THEN Append(c[i - 1], text[i].n) ELSE c[i - 1]]

LEMMA ChosenRecursion ==
  ASSUME NEW text \in Scripts
  PROVE  /\ Chosen(text)[0] = << >>
         /\ \A i \in 1 .. Len(text) : Chosen(text)[i] = NextChosen(text, Chosen(text)[i - 1], i)
<1> DEFINE n == Len(text)
           N == {text[i].n : i \in 1 .. n}
           X == Seq(N)
           F == [v \in X \X (1 .. n) |-> NextChosen(text, v[1], v[2])]
<1>1. n \in Nat /\ (\A i \in 1 .. n : text[i].n \in N) /\ n = Len(text)
  BY ScriptLines
<1> HIDE DEF N, n
<1>2. F \in [X \X (1 .. n) -> X]
  <2>1. ASSUME NEW q \in X, NEW i \in 1 .. n PROVE NextChosen(text, q, i) \in X
    BY <1>1 DEF NextChosen
  <2> HIDE DEF X
  <2>2. QED BY <2>1
<1>3. << >> \in X
  OBVIOUS
<1>4. PICK g \in [0 .. n -> X] : Solves(g, n, << >>, F)
  <2> HIDE DEF F, X
  <2> QED BY <1>1, <1>2, <1>3, RecursionExists
<1>5. g[0] = << >> /\ \A i \in 1 .. n : g[i] = NextChosen(text, g[i - 1], i)
  <2>1. ASSUME NEW i \in 1 .. n PROVE g[i - 1] \in X
    <3>1. i - 1 \in 0 .. n
      BY <1>1
    <3> HIDE DEF X, F
    <3>2. QED BY <1>4, <3>1
  <2> HIDE DEF X
  <2>2. ASSUME NEW i \in 1 .. n PROVE F[<<g[i - 1], i>>] = NextChosen(text, g[i - 1], i)
    <3>1. <<g[i - 1], i>> \in X \X (1 .. n)
      BY <2>1
    <3>2. QED BY <3>1
  <2> HIDE DEF F
  <2>3. QED BY <1>4, <2>2 DEF Solves
<1> HIDE DEF X, F
<1>6. g = ChosenBody(g, text)
  <2>1. g = [i \in 0 .. n |-> g[i]]
    BY <1>4
  <2>2. \A i \in 0 .. n : g[i] = IF i = 0 THEN << >> ELSE NextChosen(text, g[i - 1], i)
    <3> TAKE i \in 0 .. n
    <3>1. i # 0 => i \in 1 .. n
      BY <1>1
    <3>2. QED BY <1>5, <3>1
  <2>3. ChosenBody(g, text) = [i \in 0 .. n |-> IF i = 0 THEN << >> ELSE NextChosen(text, g[i - 1], i)]
    BY <1>1 DEF ChosenBody, NextChosen
  <2>4. QED BY <2>1, <2>2, <2>3
<1> DEFINE f == CHOOSE e : e = ChosenBody(e, text)
<1>7. f = ChosenBody(f, text)
  BY <1>6
<1>8. Chosen(text) = f
  BY DEF Chosen, ChosenBody
<1> HIDE DEF f
<1>9. ChosenBody(f, text)[0] = << >>
  BY <1>1 DEF ChosenBody
<1>10. ASSUME NEW i \in 1 .. n PROVE ChosenBody(f, text)[i] = NextChosen(text, f[i - 1], i)
  <2>1. i \in 0 .. n /\ i # 0
    BY <1>1
  <2>2. QED BY <1>1, <2>1 DEF ChosenBody, NextChosen
<1>11. \A i \in 0 .. n : f[i] = ChosenBody(f, text)[i]
  BY <1>7
<1>12. 0 \in 0 .. n /\ \A i \in 1 .. n : i \in 0 .. n
  BY <1>1
<1>13. QED BY <1>1, <1>8, <1>9, <1>10, <1>11, <1>12

LEMMA RunLineKeeps == ASSUME ScriptInv, RunLine PROVE ScriptInv'
<1> DEFINE text == script.text
           i == script.at
           l == text[i]
<1>1. PICK status \in {0, 1} : script' = [NextLine(script, l, status) EXCEPT !.at = @ + 1]
  BY DEF RunLine, CurrentLine
<1>2. i \in DOMAIN text
  BY DEF RunLine
<1>3. script # NoScript
  <2>1. DOMAIN NoScript.text = {}
    BY DEF NoScript
  <2>2. QED BY <1>2, <2>1
<1>4. /\ ScriptShape /\ (script.skip_logic <=> ~IsRun(text, i - 1))
      /\ (script.condition_met <=> IsMet(text, i - 1)) /\ script.ran = Chosen(text)[i - 1]
  BY <1>3 DEF ScriptInv
<1>5. /\ text \in Scripts /\ Len(text) \in Nat /\ i \in 1 .. Len(text) /\ l.k \in LineKinds
      /\ script.skip_logic \in BOOLEAN /\ script.condition_met \in BOOLEAN
  BY <1>2, <1>4, ScriptLines DEF ScriptShape
<1>6. /\ i \in Nat /\ i > 0 /\ (i + 1) - 1 = i /\ i + 1 \in 1 .. Len(text) + 1
  BY <1>5
<1>7. Chosen(text)[i] = NextChosen(text, script.ran, i)
  BY <1>4, <1>5, ChosenRecursion
<1>8. /\ l.k = "if" => (IsMet(text, i) <=> EvalCondition(l))
      /\ l.k # "if" => (IsMet(text, i) <=> IsMet(text, i - 1))
  BY <1>6, MetAt
<1>9. /\ l.k \in Chooses => (IsRun(text, i) <=> LetsRun(text, i))
      /\ l.k \notin Chooses => (IsRun(text, i) <=> IsRun(text, i - 1))
  BY <1>6, RunAt
<1>10. EvalCondition(l) \in BOOLEAN
  BY DEF EvalCondition
<1>s. script = [text |-> script.text, at |-> script.at, skip_logic |-> script.skip_logic,
               condition_met |-> script.condition_met, ran |-> script.ran, exstat |-> script.exstat]
  BY <1>4 DEF ScriptShape
<1>11. SUFFICES ASSUME TRUE
       PROVE  /\ script' = [text |-> text, at |-> i + 1, skip_logic |-> script'.skip_logic,
                            condition_met |-> script'.condition_met, ran |-> script'.ran, exstat |-> script'.exstat]
              /\ script'.skip_logic \in BOOLEAN /\ script'.condition_met \in BOOLEAN
              /\ script'.skip_logic <=> ~IsRun(text, i)
              /\ script'.condition_met <=> IsMet(text, i)
              /\ script'.ran = NextChosen(text, script.ran, i)
  <2>1. script'.text = text /\ script'.at = i + 1
    BY <1>11
  <2>2. ScriptShape'
    BY <1>5, <1>6, <1>11, <2>1 DEF ScriptShape
  <2>3. QED BY <1>6, <1>7, <1>11, <2>1, <2>2 DEF ScriptInv
<1> DEFINE s == NextLine(script, l, status)
<1>12. CASE l.k = "if"
  <2>1. s = [script EXCEPT !.condition_met = EvalCondition(l), !.skip_logic = ~EvalCondition(l)]
    BY <1>12 DEF NextLine
  <2>2. /\ script' = [text |-> text, at |-> i + 1, skip_logic |-> ~EvalCondition(l),
                      condition_met |-> EvalCondition(l), ran |-> script.ran, exstat |-> script.exstat]
    BY <1>1, <1>s, <2>1
  <2>3. (IsRun(text, i) <=> EvalCondition(l)) /\ (IsMet(text, i) <=> EvalCondition(l))
    BY <1>8, <1>9, <1>12 DEF Chooses, LetsRun
  <2>4. NextChosen(text, script.ran, i) = script.ran
    BY <1>12 DEF NextChosen
  <2>5. QED BY <1>10, <2>2, <2>3, <2>4
<1>13. CASE l.k = "else"
  <2>1. s = [script EXCEPT !.skip_logic = script.condition_met]
    BY <1>13 DEF NextLine, ElseSkips
  <2>2. script' = [text |-> text, at |-> i + 1, skip_logic |-> script.condition_met,
                   condition_met |-> script.condition_met, ran |-> script.ran, exstat |-> script.exstat]
    BY <1>1, <1>s, <2>1
  <2>3. (IsRun(text, i) <=> ~IsMet(text, i)) /\ (IsMet(text, i) <=> IsMet(text, i - 1))
    BY <1>8, <1>9, <1>13 DEF Chooses, LetsRun
  <2>4. NextChosen(text, script.ran, i) = script.ran
    BY <1>13 DEF NextChosen
  <2>5. QED BY <1>4, <1>5, <2>2, <2>3, <2>4
<1>14. CASE l.k = "fi"
  <2>1. s = [script EXCEPT !.skip_logic = FALSE]
    BY <1>14 DEF NextLine
  <2>2. script' = [text |-> text, at |-> i + 1, skip_logic |-> FALSE,
                   condition_met |-> script.condition_met, ran |-> script.ran, exstat |-> script.exstat]
    BY <1>1, <1>s, <2>1
  <2>3. IsRun(text, i) /\ (IsMet(text, i) <=> IsMet(text, i - 1))
    BY <1>8, <1>9, <1>14 DEF Chooses, LetsRun
  <2>4. NextChosen(text, script.ran, i) = script.ran
    BY <1>14 DEF NextChosen
  <2>5. QED BY <1>4, <1>5, <2>2, <2>3, <2>4
<1>15. CASE l.k \in {"then", "#"}
  <2>1. s = script
    BY <1>15 DEF NextLine
  <2>2. script' = [text |-> text, at |-> i + 1, skip_logic |-> script.skip_logic,
                   condition_met |-> script.condition_met, ran |-> script.ran, exstat |-> script.exstat]
    BY <1>1, <1>s, <2>1
  <2>3. (IsRun(text, i) <=> IsRun(text, i - 1)) /\ (IsMet(text, i) <=> IsMet(text, i - 1))
    BY <1>8, <1>9, <1>15 DEF Chooses, LetsRun
  <2>4. NextChosen(text, script.ran, i) = script.ran
    BY <1>15 DEF NextChosen
  <2>5. QED BY <1>4, <1>5, <2>2, <2>3, <2>4
<1>16. CASE l.k = "cmd"
  <2>0. (IsRun(text, i) <=> IsRun(text, i - 1)) /\ (IsMet(text, i) <=> IsMet(text, i - 1))
    BY <1>8, <1>9, <1>16 DEF Chooses, LetsRun
  <2>1. s = IF script.skip_logic THEN script ELSE [script EXCEPT !.ran = Append(script.ran, l.n), !.exstat = status]
    BY <1>16 DEF NextLine
  <2>2. CASE script.skip_logic
    <3>1. script' = [text |-> text, at |-> i + 1, skip_logic |-> script.skip_logic,
                     condition_met |-> script.condition_met, ran |-> script.ran, exstat |-> script.exstat]
      <4>1. s = script
        BY <2>1, <2>2
      <4>2. QED BY <1>1, <1>s, <4>1
    <3>2. NextChosen(text, script.ran, i) = script.ran
      BY <1>4, <2>0, <2>2 DEF NextChosen
    <3>3. QED BY <1>4, <1>5, <2>0, <3>1, <3>2
  <2>3. CASE ~script.skip_logic
    <3>1. script' = [text |-> text, at |-> i + 1, skip_logic |-> script.skip_logic,
                     condition_met |-> script.condition_met, ran |-> Append(script.ran, l.n), exstat |-> status]
      BY <1>1, <1>s, <2>1, <2>3
    <3>2. NextChosen(text, script.ran, i) = Append(script.ran, l.n)
      BY <1>4, <1>16, <2>0, <2>3 DEF NextChosen
    <3>3. QED BY <1>4, <1>5, <2>0, <3>1, <3>2
  <2>4. QED BY <2>2, <2>3
<1>17. QED BY <1>5, <1>12, <1>13, <1>14, <1>15, <1>16 DEF LineKinds

LEMMA OpenKeeps ==
  ASSUME ScriptInv, NEW text \in Scripts, OpenScript(text) PROVE ScriptInv'
<1>1. script' = [text |-> text, at |-> 1, skip_logic |-> FALSE, condition_met |-> FALSE, ran |-> << >>, exstat |-> 0]
  BY DEF OpenScript, NoScript
<1>2. Len(text) \in Nat
  BY ScriptLines
<1>3. ScriptShape'
  BY <1>1, <1>2 DEF ScriptShape
<1>4. IsRun(text, 0) /\ ~IsMet(text, 0)
  BY DEF IsRun, IsMet
<1>5. Chosen(text)[0] = << >>
  BY ChosenRecursion
<1>6. QED BY <1>1, <1>3, <1>4, <1>5 DEF ScriptInv

-----------------------------------------------------------------------------

QshInv == PromptInv /\ HistoryInv /\ ScriptInv

LEMMA QshInvInit == QshInit => QshInv
<1> SUFFICES ASSUME QshInit PROVE QshInv
  OBVIOUS
<1>1. /\ line = [i \in Cells0 |-> NUL] /\ ptr = 0 /\ cursor = 0
      /\ qsh_history = [i \in 0 .. HISTORY_SIZE - 1 |-> << >>]
      /\ qsh_history_count = 0 /\ qsh_history_index = -1
      /\ edited = << << >>, << >> >> /\ entered = << >> /\ script = NoScript /\ keys = 0
  BY DEF QshInit, Cells0
<1>2. LINE_MAX \in Nat /\ LINE_MAX > 1 /\ MaxKeys \in Nat
  BY QshConstants
<1>3. PromptInv
  <2>1. /\ edited[1] = << >> /\ edited[2] = << >> /\ edited = <<edited[1], edited[2]>>
        /\ Len(edited[1]) = 0 /\ Len(edited[2]) = 0
        /\ edited[1] \in Seq(QshKeys) /\ edited[2] \in Seq(QshKeys)
    BY <1>1
  <2>2. ptr \in Cells0 /\ keys \in 0 .. MaxKeys
    BY <1>1, <1>2 DEF Cells0
  <2>3. line \in [Cells0 -> QshKeys \union {NUL}]
    BY <1>1
  <2>4. cursor \in Nat /\ cursor = Len(edited[1]) /\ ptr = Len(edited[1]) + Len(edited[2])
    BY <1>1, <2>1
  <2>5. /\ \A i \in 1 .. Len(edited[1]) : line[i - 1] = edited[1][i]
        /\ \A i \in 1 .. Len(edited[2]) : line[cursor + i - 1] = edited[2][i]
    BY <2>1
  <2>6. QED BY <2>1, <2>2, <2>3, <2>4, <2>5 DEF PromptInv
<1>4. HistoryInv
  <2>1. FitsLine(<< >>)
    BY <1>2 DEF FitsLine
  <2>2. HistoryFits
    BY <1>1, <2>1 DEF HistoryFits
  <2>3. Distinct = << >> /\ Len(Distinct) = 0
    BY <1>1, DistinctOfNone DEF Distinct
  <2>4. RingKeeps(qsh_history, Distinct)
    BY <2>3 DEF RingKeeps
  <2>5. entered \in Seq(EnteredLines)
    BY <1>1
  <2>6. QED BY <1>1, <2>2, <2>3, <2>4, <2>5 DEF HistoryInv
<1>5. QED BY <1>1, <1>3, <1>4 DEF QshInv, ScriptInv

LEMMA PromptUnchanged ==
  ASSUME PromptInv, UNCHANGED <<line, ptr, cursor, edited, keys>> PROVE PromptInv'
BY DEF PromptInv

LEMMA EditKeepsHistory ==
  ASSUME HistoryInv, KeepHistory, UNCHANGED entered PROVE HistoryInv'
<1>1. qsh_history_index \in -1 .. qsh_history_count /\ (qsh_history_count > 0 => qsh_history_index >= 0)
  BY DEF HistoryInv, HistoryFits
<1>2. QED BY <1>1, HistoryUnrun DEF KeepHistory

LEMMA ScriptUnchanged == ASSUME ScriptInv, UNCHANGED script PROVE ScriptInv'
BY DEF ScriptInv, ScriptShape

LEMMA QshStep == QshInv /\ [QshNext]_qshVars => QshInv'
<1> SUFFICES ASSUME QshInv, [QshNext]_qshVars PROVE QshInv'
  OBVIOUS
<1> USE DEF QshInv
<1>1. CASE PressBackspace
  <2>1. KeepHistory /\ UNCHANGED entered /\ UNCHANGED script
    BY <1>1 DEF PressBackspace
  <2>2. QED BY <1>1, <2>1, BackspaceKeepsPrompt, EditKeepsHistory, ScriptUnchanged
<1>2. CASE PressUp
  <2>1. UNCHANGED script
    BY <1>2 DEF PressUp, Recalled
  <2>2. QED BY <1>2, <2>1, UpKeeps, ScriptUnchanged
<1>3. CASE PressDown
  <2>1. UNCHANGED script
    BY <1>3 DEF PressDown, Recalled
  <2>2. QED BY <1>3, <2>1, DownKeeps, ScriptUnchanged
<1>4. CASE PressEnter
  <2>1. UNCHANGED script
    BY <1>4 DEF PressEnter
  <2>2. QED BY <1>4, <2>1, EnterKeepsPrompt, EnterKeepsHistory, ScriptUnchanged
<1>5. CASE \E c \in QshKeys : PressCharacter(c)
  <2>1. PICK c \in QshKeys : PressCharacter(c)
    BY <1>5
  <2>2. KeepHistory /\ UNCHANGED entered /\ UNCHANGED script
    BY <2>1 DEF PressCharacter
  <2>3. QED BY <2>1, <2>2, CharacterKeepsPrompt, EditKeepsHistory, ScriptUnchanged
<1>6. CASE \E key \in {"LEFT", "RIGHT"} : PressArrow(key)
  <2>1. PICK key \in {"LEFT", "RIGHT"} : PressArrow(key)
    BY <1>6
  <2>2. KeepHistory /\ UNCHANGED entered /\ UNCHANGED script
    BY <2>1 DEF PressArrow
  <2>3. PromptInv'
    BY <2>1, LeftKeepsPrompt, RightKeepsPrompt
  <2>4. QED BY <2>2, <2>3, EditKeepsHistory, ScriptUnchanged
<1>7. CASE \E text \in Scripts : OpenScript(text)
  <2>1. PICK text \in Scripts : OpenScript(text)
    BY <1>7
  <2>2. UNCHANGED <<line, ptr, cursor, edited, keys>> /\ KeepHistory /\ UNCHANGED entered
    BY <2>1 DEF OpenScript, prompt, KeepHistory
  <2>3. QED BY <2>1, <2>2, OpenKeeps, PromptUnchanged, EditKeepsHistory
<1>8. CASE OpenStdin \/ CloseScript
  <2>1. UNCHANGED <<line, ptr, cursor, edited, keys>> /\ KeepHistory /\ UNCHANGED entered /\ UNCHANGED script
    BY <1>8 DEF OpenStdin, CloseScript, prompt, KeepHistory
  <2>2. QED BY <2>1, PromptUnchanged, EditKeepsHistory, ScriptUnchanged
<1>9. CASE RunLine
  <2>1. UNCHANGED <<line, ptr, cursor, edited, keys>> /\ KeepHistory /\ UNCHANGED entered
    BY <1>9 DEF RunLine, prompt, KeepHistory
  <2>2. QED BY <1>9, <2>1, RunLineKeeps, PromptUnchanged, EditKeepsHistory
<1>10. CASE UNCHANGED qshVars
  <2>1. UNCHANGED <<line, ptr, cursor, edited, keys>> /\ KeepHistory /\ UNCHANGED entered /\ UNCHANGED script
    BY <1>10 DEF qshVars, KeepHistory
  <2>2. QED BY <2>1, PromptUnchanged, EditKeepsHistory, ScriptUnchanged
<1>11. QED
  BY <1>1, <1>2, <1>3, <1>4, <1>5, <1>6, <1>7, <1>8, <1>9, <1>10 DEF QshNext

LEMMA QshInvSound == QshInv => QshTypeOK /\ QshSound
<1> SUFFICES ASSUME QshInv PROVE QshTypeOK /\ QshSound
  OBVIOUS
<1> USE DEF QshInv
<1>1. TextOf([line EXCEPT ![ptr] = NUL]) = edited[1] \o edited[2] /\ cursor = Len(edited[1])
  BY MarkedText DEF MarkedLine, PromptInv
<1>2. /\ qsh_history_count = Len(Distinct)
      /\ \A i \in 1 .. Len(Distinct) :
           i > Len(Distinct) - HISTORY_SIZE => qsh_history[(i - 1) % HISTORY_SIZE] = Distinct[i]
  BY DEF HistoryInv, RingKeeps
<1>3. script.at > 0 => script.ran = Chosen(script.text)[script.at - 1]
  BY DEF ScriptInv, NoScript
<1>4. QshSound
  BY <1>1, <1>2, <1>3 DEF QshSound
<1>5. ptr \in 0 .. LINE_MAX - 1 /\ cursor \in 0 .. ptr /\ keys \in 0 .. MaxKeys
  <2>1. /\ ptr \in Cells0 /\ cursor \in Nat /\ keys \in 0 .. MaxKeys /\ cursor = Len(edited[1])
        /\ ptr = Len(edited[1]) + Len(edited[2]) /\ Len(edited[1]) \in Nat /\ Len(edited[2]) \in Nat
    BY DEF PromptInv
  <2> DEFINE nb == Len(edited[1])
             ne == Len(edited[2])
  <2>2. cursor = nb /\ ptr = nb + ne /\ nb \in Nat /\ ne \in Nat
    BY <2>1
  <2> HIDE DEF nb, ne
  <2>3. cursor \in 0 .. ptr
    BY <2>2
  <2>4. QED BY <2>1, <2>3 DEF Cells0
<1>6. qsh_history_count \in Nat /\ qsh_history_index \in -1 .. qsh_history_count
  BY DEF HistoryInv, HistoryFits
<1>7. QED BY <1>4, <1>5, <1>6 DEF QshTypeOK

-----------------------------------------------------------------------------
(* Tables of names *)

Commands == UNION {ToSet(typedLine) : typedLine \in Lines}
Entries == [name : {c.name : c \in Commands}, value : {c.value : c \in Commands}]

\* A table says f, every name once
TableHolds(t, f) ==
  /\ t \in Seq(Entries)
  /\ \A i, j \in 1 .. Len(t) : t[i].name = t[j].name => i = j
  /\ TableMeans(t, f)

\* A set of numbers with a member has a first slot
LEMMA FirstSlotIs ==
  ASSUME NEW S, S \subseteq Nat, S # {} PROVE FirstSlot(S) \in S /\ \A j \in S : FirstSlot(S) <= j
BY LeastElement DEF FirstSlot

LEMMA EntryIs ==
  ASSUME NEW t, NEW f, TableHolds(t, f), NEW name
  PROVE  /\ EntriesNamed(t, name) # {} <=> name \in DOMAIN f
         /\ EntriesNamed(t, name) \subseteq 1 .. Len(t)
         /\ \A i \in EntriesNamed(t, name) : EntriesNamed(t, name) = {i} /\ t[i].name = name
<1>1. t \in Seq(Entries) /\ DOMAIN t = 1 .. Len(t) /\ DOMAIN f = {t[i].name : i \in DOMAIN t}
  BY DEF TableHolds, TableMeans
<1>2. \A i, j \in 1 .. Len(t) : t[i].name = t[j].name => i = j
  BY DEF TableHolds
<1>3. EntriesNamed(t, name) = {i \in 1 .. Len(t) : t[i].name = name}
  BY <1>1 DEF EntriesNamed
<1>4. QED BY <1>1, <1>2, <1>3

TableFacts(t, f) ==
  /\ t \in Seq(Entries) /\ Len(t) \in Nat /\ DOMAIN t = 1 .. Len(t)
  /\ \A j, k \in 1 .. Len(t) : t[j].name = t[k].name => j = k
  /\ DOMAIN f = {t[j].name : j \in 1 .. Len(t)}
  /\ \A j \in 1 .. Len(t) : t[j].value = f[t[j].name]

LEMMA TableHasFacts ==
  ASSUME NEW t, NEW f, TableHolds(t, f) PROVE TableFacts(t, f)
<1>1. t \in Seq(Entries) /\ TableMeans(t, f) /\ \A j, k \in 1 .. Len(t) : t[j].name = t[k].name => j = k
  BY DEF TableHolds
<1>2. Len(t) \in Nat /\ DOMAIN t = 1 .. Len(t)
  BY <1>1
<1>3. DOMAIN f = {t[j].name : j \in DOMAIN t} /\ \A j \in DOMAIN t : t[j].value = f[t[j].name]
  BY <1>1 DEF TableMeans
<1>4. QED BY <1>1, <1>2, <1>3 DEF TableFacts

\* t with the value of entry i changed, and with an entry more
LEMMA ValueHolds ==
  ASSUME NEW t, NEW f, TableHolds(t, f), NEW e \in Entries, NEW i \in 1 .. Len(t), t[i].name = e.name,
         NEW u \in Seq(Entries), Len(u) = Len(t), u[i] = e, \A j \in 1 .. Len(t) : j # i => u[j] = t[j]
  PROVE  TableHolds(u, Stored(f, e.name, e.value))
<1> DEFINE n == Len(t)
           g == Stored(f, e.name, e.value)
<1>0. TableFacts(t, f)
  BY TableHasFacts
<1>a. t \in Seq(Entries) /\ n \in Nat
  BY <1>0 DEF TableFacts
<1>b. \A j, k \in 1 .. n : t[j].name = t[k].name => j = k
  BY <1>0, Zenon DEF TableFacts
<1>c. DOMAIN f = {t[j].name : j \in 1 .. n}
  BY <1>0, Zenon DEF TableFacts
<1>d. \A j \in 1 .. n : t[j].value = f[t[j].name]
  BY <1>0, Zenon DEF TableFacts
<1>1. /\ t \in Seq(Entries) /\ n \in Nat /\ (\A j, k \in 1 .. n : t[j].name = t[k].name => j = k)
      /\ DOMAIN f = {t[j].name : j \in 1 .. n} /\ \A j \in 1 .. n : t[j].value = f[t[j].name]
  BY <1>a, <1>b, <1>c, <1>d, Zenon
<1>2. DOMAIN g = DOMAIN f \union {e.name} /\ \A x \in DOMAIN g : g[x] = IF x = e.name THEN e.value ELSE f[x]
  BY DEF Stored
<1> HIDE DEF g, n
<1>n. n = Len(t) /\ Len(u) = n /\ DOMAIN u = 1 .. n /\ i \in 1 .. n
  BY DEF n
<1>3. \A j \in 1 .. n : u[j].name = t[j].name
  BY <1>n
<1>4. \A j, k \in 1 .. n : u[j].name = u[k].name => j = k
  BY <1>1, <1>3
<1>5. DOMAIN g = {u[j].name : j \in 1 .. n}
  <2>1. e.name \in DOMAIN f
    BY <1>1, <1>n
  <2>2. DOMAIN g = {t[j].name : j \in 1 .. n}
    BY <1>1, <1>2, <2>1
  <2>3. QED BY <1>3, <2>2
<1>6. ASSUME NEW j \in 1 .. n PROVE u[j].value = g[u[j].name]
  <2>1. u[j].name \in DOMAIN g
    BY <1>5
  <2>2. CASE j = i
    BY <1>2, <2>1, <2>2
  <2>3. CASE j # i
    <3>1. u[j] = t[j] /\ t[j].name # e.name
      BY <1>1, <1>n, <2>3
    <3>2. u[j].value = f[t[j].name]
      BY <1>1, <3>1
    <3>3. g[t[j].name] = f[t[j].name]
      BY <1>2, <2>1, <3>1
    <3>4. QED BY <3>1, <3>2, <3>3
  <2>4. QED BY <2>2, <2>3
<1>7. TableHolds(u, g)
  BY <1>4, <1>5, <1>6, <1>n DEF TableHolds, TableMeans
<1>8. QED BY <1>7 DEF g

LEMMA MoreHolds ==
  ASSUME NEW t, NEW f, TableHolds(t, f), NEW e \in Entries, e.name \notin DOMAIN f,
         NEW u \in Seq(Entries), Len(u) = Len(t) + 1, u[Len(t) + 1] = e, \A j \in 1 .. Len(t) : u[j] = t[j]
  PROVE  TableHolds(u, Stored(f, e.name, e.value))
<1> DEFINE n == Len(t)
           g == Stored(f, e.name, e.value)
<1>0. TableFacts(t, f)
  BY TableHasFacts
<1>a. t \in Seq(Entries) /\ n \in Nat
  BY <1>0 DEF TableFacts
<1>b. \A j, k \in 1 .. n : t[j].name = t[k].name => j = k
  BY <1>0, Zenon DEF TableFacts
<1>c. DOMAIN f = {t[j].name : j \in 1 .. n}
  BY <1>0, Zenon DEF TableFacts
<1>d. \A j \in 1 .. n : t[j].value = f[t[j].name]
  BY <1>0, Zenon DEF TableFacts
<1>1. /\ t \in Seq(Entries) /\ n \in Nat /\ (\A j, k \in 1 .. n : t[j].name = t[k].name => j = k)
      /\ DOMAIN f = {t[j].name : j \in 1 .. n} /\ \A j \in 1 .. n : t[j].value = f[t[j].name]
  BY <1>a, <1>b, <1>c, <1>d, Zenon
<1>2. DOMAIN g = DOMAIN f \union {e.name} /\ \A x \in DOMAIN g : g[x] = IF x = e.name THEN e.value ELSE f[x]
  BY DEF Stored
<1> HIDE DEF g, n
<1>n. n = Len(t) /\ Len(u) = n + 1 /\ DOMAIN u = 1 .. n + 1 /\ u[n + 1] = e /\ \A j \in 1 .. n : u[j] = t[j]
  BY DEF n
<1>3. \A j \in 1 .. n + 1 : j = n + 1 \/ (j \in 1 .. n /\ u[j] = t[j] /\ t[j].name \in DOMAIN f /\ t[j].name # e.name)
  BY <1>1, <1>n
<1>4. ASSUME NEW j \in 1 .. n + 1, NEW k \in 1 .. n + 1, u[j].name = u[k].name PROVE j = k
  <2>1. CASE j = n + 1
    BY <1>3, <1>4, <1>n, <2>1
  <2>2. CASE j # n + 1 /\ k = n + 1
    BY <1>3, <1>4, <1>n, <2>2
  <2>3. CASE j # n + 1 /\ k # n + 1
    BY <1>1, <1>3, <1>4, <2>3
  <2>4. QED BY <2>1, <2>2, <2>3
<1>5. DOMAIN g = {u[j].name : j \in 1 .. n + 1}
  <2>1. ASSUME NEW x \in DOMAIN g PROVE \E j \in 1 .. n + 1 : x = u[j].name
    <3>1. CASE x = e.name
      <4>1. n + 1 \in 1 .. n + 1
        BY <1>1
      <4>2. QED BY <1>n, <3>1, <4>1
    <3>2. CASE x # e.name
      <4>1. PICK j \in 1 .. n : x = t[j].name
        BY <1>1, <1>2, <3>2
      <4>2. j \in 1 .. n + 1
        BY <1>1
      <4>3. QED BY <1>n, <4>1, <4>2
    <3>3. QED BY <3>1, <3>2
  <2>2. \A j \in 1 .. n + 1 : u[j].name \in DOMAIN g
    BY <1>2, <1>3, <1>n
  <2>3. QED BY <2>1, <2>2
<1>6. ASSUME NEW j \in 1 .. n + 1 PROVE u[j].value = g[u[j].name]
  <2>1. u[j].name \in DOMAIN g
    BY <1>5
  <2>2. CASE j = n + 1
    BY <1>2, <1>n, <2>1, <2>2
  <2>3. CASE j # n + 1
    <3>1. j \in 1 .. n /\ u[j] = t[j] /\ t[j].name # e.name
      BY <1>3, <2>3
    <3>2. u[j].value = f[t[j].name]
      BY <1>1, <3>1
    <3>3. g[t[j].name] = f[t[j].name]
      BY <1>2, <2>1, <3>1
    <3>4. QED BY <3>1, <3>2, <3>3
  <2>4. QED BY <2>2, <2>3
<1>7. TableHolds(u, g)
  BY <1>4, <1>5, <1>6, <1>n DEF TableHolds, TableMeans
<1>8. QED BY <1>7 DEF g

\* set_env_var: the table says the new value, or is full and stays as it was
LEMMA SetEnvVarHolds ==
  ASSUME NEW t, NEW f, TableHolds(t, f), NEW e \in Entries
  PROVE  TableHolds(SetEnvVar(t, e.name, e.value),
                    IF e.name \in DOMAIN f \/ Len(t) < MAX_ENV_VARS THEN Stored(f, e.name, e.value) ELSE f)
<1> DEFINE E == EntriesNamed(t, e.name)
           n == Len(t)
<1>0. t \in Seq(Entries) /\ n \in Nat /\ e = [name |-> e.name, value |-> e.value]
  BY DEF TableHolds, Entries
<1>1. /\ E # {} <=> e.name \in DOMAIN f
      /\ E \subseteq 1 .. n /\ \A i \in E : E = {i} /\ t[i].name = e.name
  BY EntryIs
<1>2. CASE E # {}
  <2> DEFINE i == FirstSlot(E)
             u == [t EXCEPT ![i].value = e.value]
  <2>1. i \in E
    <3> HIDE DEF E
    <3>1. E \subseteq Nat
      BY <1>0, <1>1
    <3>2. QED BY <1>2, <3>1, FirstSlotIs
  <2>2. i \in 1 .. n /\ t[i].name = e.name
    BY <1>1, <2>1
  <2>3. SetEnvVar(t, e.name, e.value) = u
    BY <1>2 DEF SetEnvVar
  <2> HIDE DEF i, E
  <2>4. t[i] \in Entries
    BY <1>0, <2>2
  <2>5. [t[i] EXCEPT !.value = e.value] = e
    BY <2>2, <2>4 DEF Entries
  <2>6. u = [t EXCEPT ![i] = e]
    BY <2>5
  <2>7. u \in Seq(Entries) /\ Len(u) = n /\ u[i] = e /\ \A j \in 1 .. n : j # i => u[j] = t[j]
    <3> HIDE DEF u
    <3> QED BY <1>0, <2>2, <2>6
  <2> HIDE DEF u
  <2>8. TableHolds(u, Stored(f, e.name, e.value))
    BY <2>2, <2>7, ValueHolds
  <2>9. QED BY <1>1, <1>2, <2>3, <2>8
<1>3. CASE E = {} /\ n < MAX_ENV_VARS
  <2> DEFINE u == Append(t, e)
  <2>1. SetEnvVar(t, e.name, e.value) = u
    BY <1>0, <1>3 DEF SetEnvVar
  <2>2. u \in Seq(Entries) /\ Len(u) = n + 1 /\ u[n + 1] = e /\ \A j \in 1 .. n : u[j] = t[j]
    BY <1>0
  <2> HIDE DEF u, E
  <2>3. TableHolds(u, Stored(f, e.name, e.value))
    BY <1>1, <1>3, <2>2, MoreHolds
  <2>4. QED BY <1>3, <2>1, <2>3
<1>4. CASE E = {} /\ ~(n < MAX_ENV_VARS)
  <2>1. SetEnvVar(t, e.name, e.value) = t
    BY <1>4 DEF SetEnvVar
  <2>2. QED BY <1>1, <1>4, <2>1
<1>5. QED BY <1>2, <1>3, <1>4

\* cmd_alias: it succeeds when the table says the new value
LEMMA SetAliasHolds ==
  ASSUME NEW t, NEW f, TableHolds(t, f), NEW e \in Entries
  PROVE  LET u == SetAlias(t, e.name, e.value)
         IN IF EntriesNamed(u, e.name) = {} THEN u = t ELSE TableHolds(u, Stored(f, e.name, e.value))
<1> DEFINE E == EntriesNamed(t, e.name)
           n == Len(t)
           u == SetAlias(t, e.name, e.value)
<1>0. t \in Seq(Entries) /\ n \in Nat /\ e = [name |-> e.name, value |-> e.value]
  BY DEF TableHolds, Entries
<1>1. /\ E # {} <=> e.name \in DOMAIN f
      /\ E \subseteq 1 .. n /\ \A i \in E : E = {i} /\ t[i].name = e.name
  BY EntryIs
<1>2. CASE E = {} /\ ~(n < MAX_ALIAS)
  <2>1. u = t
    BY <1>2 DEF SetAlias
  <2>2. QED BY <1>2, <2>1
<1>3. CASE E # {} \/ n < MAX_ALIAS
  <2> DEFINE slots == E \union {n + 1}
             i == FirstSlot(slots)
             m == IF i > n THEN i ELSE n
             w == [j \in 1 .. m |-> IF j = i THEN e ELSE t[j]]
  <2>1. u = w
    BY <1>0, <1>3 DEF SetAlias
  <2>2. i \in slots /\ \A j \in slots : i <= j
    <3>1. slots \subseteq Nat /\ slots # {}
      BY <1>0, <1>1
    <3> HIDE DEF slots
    <3>2. QED BY <3>1, FirstSlotIs
  <2>3. CASE E # {}
    <3>1. PICK k \in E : TRUE
      BY <2>3
    <3>2. k \in 1 .. n /\ E = {k} /\ t[k].name = e.name /\ slots = {k, n + 1}
      BY <1>1, <3>1
    <3>3. i = k /\ m = n
      <4> HIDE DEF i, slots
      <4>1. i \in {k, n + 1} /\ i <= k
        BY <2>2, <3>2
      <4>2. QED BY <1>0, <3>2, <4>1
    <3>4. i \in 1 .. n /\ t[i].name = e.name
      BY <3>2, <3>3
    <3> HIDE DEF i, m, E
    <3>5. w \in Seq(Entries) /\ Len(w) = n /\ w[i] = e /\ \A j \in 1 .. n : j # i => w[j] = t[j]
      BY <1>0, <3>3, <3>4
    <3> HIDE DEF w, u
    <3>6. TableHolds(w, Stored(f, e.name, e.value))
      BY <3>4, <3>5, ValueHolds
    <3>7. TableHolds(u, Stored(f, e.name, e.value)) /\ u[i].name = e.name /\ i \in DOMAIN u
      BY <1>0, <2>1, <3>4, <3>5, <3>6
    <3>8. EntriesNamed(u, e.name) # {}
      BY <3>7 DEF EntriesNamed
    <3>9. QED BY <3>7, <3>8 DEF u
  <2>4. CASE E = {}
    <3>1. i = n + 1 /\ m = n + 1
      <4>1. slots = {n + 1}
        BY <2>4
      <4> HIDE DEF i, slots
      <4>2. i = n + 1
        BY <2>2, <4>1
      <4>3. QED BY <1>0, <4>2
    <3> HIDE DEF i, m, E
    <3>2. w \in Seq(Entries) /\ Len(w) = n + 1 /\ w[n + 1] = e /\ \A j \in 1 .. n : w[j] = t[j]
      BY <1>0, <3>1
    <3> HIDE DEF w, u
    <3>3. TableHolds(w, Stored(f, e.name, e.value))
      BY <1>1, <2>4, <3>2, MoreHolds
    <3>4. TableHolds(u, Stored(f, e.name, e.value)) /\ u[n + 1].name = e.name /\ n + 1 \in DOMAIN u
      BY <1>0, <2>1, <3>2, <3>3
    <3>5. EntriesNamed(u, e.name) # {}
      BY <3>4 DEF EntriesNamed
    <3>6. QED BY <3>4, <3>5 DEF u
  <2>5. QED BY <2>3, <2>4
<1>4. QED BY <1>2, <1>3

-----------------------------------------------------------------------------
(* Commands *)

\* The files that the user may expect are there
FilesHold(files, f) == \A x \in DOMAIN f : x \in DOMAIN files /\ files[x] = f[x]

ShellShape(s) ==
  s = [env |-> s.env, alias |-> s.alias, layout |-> s.layout, loops |-> s.loops,
       domain |-> s.domain, files |-> s.files, connector |-> s.connector]
MeantShape(m) == m = [env |-> m.env, alias |-> m.alias, files |-> m.files, loop |-> m.loop]
Devices0 == 0 .. LoopDevices - 1

ShellHolds(s, m) ==
  /\ ShellShape(s) /\ MeantShape(m)
  /\ TableHolds(s.env, m.env) /\ TableHolds(s.alias, m.alias) /\ FilesHold(s.files, m.files)
  /\ DOMAIN s.loops = Devices0 /\ s.loops[0] = m.loop

\* s and m say what shell and meant do
LikeShell(s) ==
  ShellShape(s) /\ s.env = shell.env /\ s.alias = shell.alias /\ s.files = shell.files /\ s.loops = shell.loops

LEMMA LikeShellHolds ==
  ASSUME NEW s, NEW m, ShellHolds(shell, meant), LikeShell(s), m = meant PROVE ShellHolds(s, m)
BY DEF ShellHolds, LikeShell

LEMMA FilesStored ==
  ASSUME NEW fs, NEW f, FilesHold(fs, f), NEW x, NEW y
  PROVE  FilesHold(Stored(fs, x, y), Drop(f, {x})) /\ FilesHold(fs, Drop(f, {x}))
BY DEF FilesHold, Stored, Drop

LEMMA OtherFiles ==
  ASSUME ShellHolds(shell, meant), NEW fs, NEW f, FilesHold(fs, f)
  PROVE  ShellHolds([shell EXCEPT !.files = fs], [meant EXCEPT !.files = f])
<1> DEFINE s == [shell EXCEPT !.files = fs]
           m == [meant EXCEPT !.files = f]
<1>1. ShellShape(shell) /\ MeantShape(meant)
  BY DEF ShellHolds
<1>2. /\ s = [env |-> shell.env, alias |-> shell.alias, layout |-> shell.layout, loops |-> shell.loops,
              domain |-> shell.domain, files |-> fs, connector |-> shell.connector]
      /\ m = [env |-> meant.env, alias |-> meant.alias, files |-> f, loop |-> meant.loop]
  BY <1>1 DEF ShellShape, MeantShape
<1> HIDE DEF s, m
<1>3. ShellShape(s) /\ MeantShape(m)
  BY <1>2 DEF ShellShape, MeantShape
<1>4. /\ s.env = shell.env /\ s.alias = shell.alias /\ s.files = fs /\ s.loops = shell.loops
      /\ m.env = meant.env /\ m.alias = meant.alias /\ m.files = f /\ m.loop = meant.loop
  BY <1>2
<1>5. ShellHolds(s, m)
  BY <1>3, <1>4 DEF ShellHolds
<1>6. QED BY <1>5 DEF s, m

\* What command c with outcome o leaves
After(c, o) == ShellHolds(o.s, Meant(c, o))

LEMMA OthersHold ==
  ASSUME ShellHolds(shell, meant), NEW c, NEW o \in Execute(c, shell),
         c.c \in {"env", "kbd", "mdev", "domainname", "msg", "printf", "run", "word"}
  PROVE  After(c, o)
<1>1. Meant(c, o) = meant
  BY DEF Meant
<1>2. ShellShape(shell)
  BY DEF ShellHolds
<1>3. LikeShell(o.s)
  <2>1. CASE c.c = "env"
    BY <1>2, <2>1 DEF Execute, CmdEnv, NoReturn, Outcome, LikeShell
  <2>2. CASE c.c = "kbd"
    <3>1. o \in CmdKbd(c, shell)
      BY <2>2 DEF Execute
    <3>2. o.s = shell \/ o.s = [shell EXCEPT !.layout = c.layout]
      BY <3>1 DEF CmdKbd, Failing, Outcome
    <3>3. QED BY <1>2, <3>2 DEF LikeShell, ShellShape
  <2>3. CASE c.c = "mdev"
    BY <1>2, <2>3 DEF Execute, CmdMdev, Outcome, LikeShell
  <2>4. CASE c.c = "domainname"
    <3>1. o \in CmdDomainname(c, shell)
      BY <2>4 DEF Execute
    <3>2. o.s = shell \/ o.s = [shell EXCEPT !.domain = c.name]
      BY <3>1 DEF CmdDomainname, Outcome
    <3>3. QED BY <1>2, <3>2 DEF LikeShell, ShellShape
  <2>5. CASE c.c = "msg"
    <3>1. o \in CmdMsg(c, shell)
      BY <2>5 DEF Execute
    <3>2. o.s = shell \/ o.s = [shell EXCEPT !.connector = CoreMessage]
      BY <3>1 DEF CmdMsg, Failing, Outcome
    <3>3. QED BY <1>2, <3>2 DEF LikeShell, ShellShape
  <2>6. CASE c.c = "printf"
    BY <1>2, <2>6 DEF Execute, CmdPrintf, Outcome, LikeShell
  <2>7. CASE c.c = "run"
    BY <1>2, <2>7 DEF Execute, CmdRun, Failing, Outcome, LikeShell
  <2>8. CASE c.c = "word"
    BY <1>2, <2>8 DEF Execute, TryExecuteBinary, Failing, Outcome, LikeShell
  <2>9. QED BY <2>1, <2>2, <2>3, <2>4, <2>5, <2>6, <2>7, <2>8
<1>4. QED BY <1>1, <1>3, LikeShellHolds DEF After

LEMMA SetHolds ==
  ASSUME ShellHolds(shell, meant), NEW c \in Commands, NEW o \in Execute(c, shell), c.c = "set"
  PROVE  After(c, o)
<1> DEFINE e == [name |-> c.name, value |-> c.value]
           t == SetEnvVar(shell.env, c.name, c.value)
           f == IF c.name \in DOMAIN meant.env \/ Len(shell.env) < MAX_ENV_VARS
                THEN Stored(meant.env, c.name, c.value) ELSE meant.env
           m == Meant(c, o)
<1>1. e \in Entries /\ e.name = c.name /\ e.value = c.value
  BY DEF Entries
<1>2. TableHolds(t, f)
  <2>1. TableHolds(shell.env, meant.env)
    BY DEF ShellHolds
  <2> HIDE DEF e
  <2>2. TableHolds(SetEnvVar(shell.env, e.name, e.value),
                   IF e.name \in DOMAIN meant.env \/ Len(shell.env) < MAX_ENV_VARS
                   THEN Stored(meant.env, e.name, e.value) ELSE meant.env)
    BY <1>1, <2>1, SetEnvVarHolds
  <2>3. QED BY <1>1, <2>2
<1>3. o.s = [shell EXCEPT !.env = t]
  <2>1. o \in CmdSet(c, shell)
    BY DEF Execute
  <2> HIDE DEF t
  <2>2. QED BY <2>1 DEF CmdSet, NoReturn, Outcome, t
<1>4. m = [meant EXCEPT !.env = f]
  BY DEF Meant
<1> HIDE DEF t, f, m, e
<1>5. ShellShape(shell) /\ MeantShape(meant)
  BY DEF ShellHolds
<1>6. /\ o.s = [env |-> t, alias |-> shell.alias, layout |-> shell.layout, loops |-> shell.loops,
                domain |-> shell.domain, files |-> shell.files, connector |-> shell.connector]
      /\ m = [env |-> f, alias |-> meant.alias, files |-> meant.files, loop |-> meant.loop]
  BY <1>3, <1>4, <1>5 DEF ShellShape, MeantShape
<1> DEFINE s == o.s
<1>7. s.env = t /\ s.alias = shell.alias /\ s.files = shell.files /\ s.loops = shell.loops /\ ShellShape(s)
  BY <1>6 DEF ShellShape
<1>8. m.env = f /\ m.alias = meant.alias /\ m.files = meant.files /\ m.loop = meant.loop /\ MeantShape(m)
  BY <1>6 DEF MeantShape
<1> HIDE DEF s
<1>9. ShellHolds(s, m)
  BY <1>2, <1>7, <1>8 DEF ShellHolds
<1>10. QED BY <1>9 DEF After, s, m

LEMMA AliasHolds ==
  ASSUME ShellHolds(shell, meant), NEW c \in Commands, NEW o \in Execute(c, shell), c.c = "alias"
  PROVE  After(c, o)
<1> DEFINE e == [name |-> c.name, value |-> c.value]
           t == SetAlias(shell.alias, c.name, c.value)
           m == Meant(c, o)
<1>1. e \in Entries /\ e.name = c.name /\ e.value = c.value
  BY DEF Entries
<1>2. IF EntriesNamed(t, c.name) = {} THEN t = shell.alias ELSE TableHolds(t, Stored(meant.alias, c.name, c.value))
  <2>1. TableHolds(shell.alias, meant.alias)
    BY DEF ShellHolds
  <2> HIDE DEF e
  <2>2. LET u == SetAlias(shell.alias, e.name, e.value)
        IN IF EntriesNamed(u, e.name) = {} THEN u = shell.alias
           ELSE TableHolds(u, Stored(meant.alias, e.name, e.value))
    BY <1>1, <2>1, SetAliasHolds
  <2>3. QED BY <1>1, <2>2
<1>3. o \in CmdAlias(c, shell)
  BY DEF Execute
<1>4. ShellShape(shell) /\ MeantShape(meant)
  BY DEF ShellHolds
<1>5. CASE c.name = NoWord
  <2>1. o.s = shell
    BY <1>3, <1>5 DEF CmdAlias, Outcome
  <2>2. m = meant
    BY <1>5 DEF Meant
  <2>3. QED BY <2>1, <2>2 DEF After
<1>6. CASE c.name # NoWord /\ EntriesNamed(t, c.name) = {}
  <2>1. o.s = [shell EXCEPT !.alias = t] /\ o.ret = 1
    <3> HIDE DEF t
    <3> QED BY <1>3, <1>6 DEF CmdAlias, Outcome, t
  <2>2. m = meant
    BY <2>1 DEF Meant
  <2>3. t = shell.alias
    BY <1>2, <1>6
  <2> HIDE DEF t, m
  <2>4. LikeShell(o.s)
    BY <1>4, <2>1, <2>3 DEF LikeShell, ShellShape
  <2>5. QED BY <2>2, <2>4, LikeShellHolds DEF After, m
<1>7. CASE c.name # NoWord /\ EntriesNamed(t, c.name) # {}
  <2> DEFINE f == Stored(meant.alias, c.name, c.value)
  <2>1. o.s = [shell EXCEPT !.alias = t] /\ o.ret = 0
    <3> HIDE DEF t
    <3> QED BY <1>3, <1>7 DEF CmdAlias, Outcome, t
  <2>2. m = [meant EXCEPT !.alias = f]
    BY <1>7, <2>1 DEF Meant
  <2>3. TableHolds(t, f)
    BY <1>2, <1>7
  <2> HIDE DEF t, f, m, e
  <2>4. /\ o.s = [env |-> shell.env, alias |-> t, layout |-> shell.layout, loops |-> shell.loops,
                  domain |-> shell.domain, files |-> shell.files, connector |-> shell.connector]
        /\ m = [env |-> meant.env, alias |-> f, files |-> meant.files, loop |-> meant.loop]
    BY <1>4, <2>1, <2>2 DEF ShellShape, MeantShape
  <2> DEFINE s == o.s
  <2>5. s.alias = t /\ s.env = shell.env /\ s.files = shell.files /\ s.loops = shell.loops /\ ShellShape(s)
    BY <2>4 DEF ShellShape
  <2>6. m.alias = f /\ m.env = meant.env /\ m.files = meant.files /\ m.loop = meant.loop /\ MeantShape(m)
    BY <2>4 DEF MeantShape
  <2> HIDE DEF s
  <2>7. ShellHolds(s, m)
    BY <2>3, <2>5, <2>6 DEF ShellHolds
  <2>8. QED BY <2>7 DEF After, s, m
<1>8. QED BY <1>5, <1>6, <1>7

\* A command that leaves all but the files: what it did, and what was meant
LEMMA FileOutcome ==
  ASSUME ShellHolds(shell, meant), NEW c, NEW o, NEW os, NEW ret, NEW failed,
         o \in Touched(shell, os, ret, failed)
  PROVE  \E w \in os : o.s = [shell EXCEPT !.files = w.files] /\ o.out = <<w.ok>>
BY DEF Touched

TouchedAs(fs, x, w) ==
  \/ w.ok = FALSE /\ w.files = fs
  \/ w.ok = TRUE /\ w.files \in {Stored(fs, x, << >>), fs}
LEMMA TouchOutcome ==
  ASSUME NEW fs, NEW x, NEW w \in TouchOutcomes(fs, x) PROVE TouchedAs(fs, x, w)
BY DEF TouchOutcomes, TouchedAs

LEMMA TruthValues == << FALSE >> # << TRUE >> /\ << >> # << TRUE >>
OBVIOUS

LEMMA FilesMeant == ShellHolds(shell, meant) => FilesHold(shell.files, meant.files)
BY DEF ShellHolds

\* The outcome says files fs, and f is what was meant
LEMMA AfterFiles ==
  ASSUME ShellHolds(shell, meant), NEW c, NEW o, NEW fs, NEW f,
         o.s = [shell EXCEPT !.files = fs], Meant(c, o) = [meant EXCEPT !.files = f], FilesHold(fs, f)
  PROVE  After(c, o)
BY OtherFiles DEF After

\* Nothing was meant by it, and it left the files
LEMMA AfterNothing ==
  ASSUME ShellHolds(shell, meant), NEW c, NEW o, o.s = shell \/ o.s = [shell EXCEPT !.files = shell.files],
         Meant(c, o) = meant
  PROVE  After(c, o)
<1>1. CASE o.s = shell
  BY <1>1 DEF After
<1>2. CASE o.s = [shell EXCEPT !.files = shell.files]
  <2>1. ShellShape(shell)
    BY DEF ShellHolds
  <2>2. LikeShell(o.s)
    BY <1>2, <2>1 DEF LikeShell, ShellShape
  <2>3. QED BY <2>2, LikeShellHolds DEF After
<1>3. QED BY <1>1, <1>2

\* A command that touches x, or fails
LEMMA WrittenHolds ==
  ASSUME ShellHolds(shell, meant), NEW c, NEW o, NEW x, NEW w, TouchedAs(shell.files, x, w),
         o.s = [shell EXCEPT !.files = w.files], o.out = <<w.ok>>,
         o.out = <<FALSE>> => Meant(c, o) = meant,
         o.out = <<TRUE>> => Meant(c, o) = [meant EXCEPT !.files = Drop(@, {x})]
  PROVE  After(c, o)
<1> DEFINE fs == shell.files
           f == meant.files
<1>1. FilesHold(fs, f)
  BY FilesMeant
<1>2. CASE w.ok = FALSE /\ w.files = fs
  BY <1>2, AfterNothing
<1>3. CASE w.ok = TRUE /\ w.files \in {Stored(fs, x, << >>), fs}
  <2> DEFINE g == Drop(f, {x})
             y == << >>
  <2>1. Meant(c, o) = [meant EXCEPT !.files = g]
    BY <1>3
  <2>2. w.files = Stored(fs, x, y) \/ w.files = fs
    BY <1>3
  <2>3. FilesHold(w.files, g)
    <3> HIDE DEF fs, f, y
    <3> QED BY <1>1, <2>2, FilesStored
  <2> HIDE DEF g
  <2>4. QED BY <2>1, <2>3, AfterFiles
<1>4. QED BY <1>2, <1>3 DEF TouchedAs

LEMMA CopyHolds ==
  ASSUME ShellHolds(shell, meant), NEW c, NEW o \in Execute(c, shell), c.c \in {"cp", "dd"}
  PROVE  After(c, o)
<1> DEFINE fs == shell.files
<1>1. o \in (IF c.dst = NoWord THEN Failing(shell) ELSE Touched(shell, CopyFile(fs, c.src, c.dst), 0, 0))
  BY DEF Execute, CmdCp, CmdDd
<1>2. CASE c.dst = NoWord
  <2>1. o.s = shell /\ o.out = << >>
    BY <1>1, <1>2 DEF Failing, Outcome
  <2>2. Meant(c, o) = meant
    BY <2>1, TruthValues DEF Meant
  <2>3. QED BY <2>1, <2>2, AfterNothing
<1>3. CASE c.dst # NoWord
  <2>1. PICK w \in CopyFile(fs, c.src, c.dst) : o.s = [shell EXCEPT !.files = w.files] /\ o.out = <<w.ok>>
    <3>1. o \in Touched(shell, CopyFile(fs, c.src, c.dst), 0, 0)
      BY <1>1, <1>3
    <3> HIDE DEF fs
    <3>2. QED BY <3>1, FileOutcome
  <2>2. TouchedAs(fs, c.dst, w)
    <3>1. CASE c.src \in DOMAIN fs
      <4> HIDE DEF fs
      <4>1. w \in TouchOutcomes(fs, c.dst)
        BY <2>1, <3>1 DEF CopyFile
      <4>2. QED BY <4>1, TouchOutcome
    <3>2. CASE c.src \notin DOMAIN fs
      BY <2>1, <3>2 DEF CopyFile, TouchedAs
    <3>3. QED BY <3>1, <3>2
  <2>3. /\ o.out = <<FALSE>> => Meant(c, o) = meant
        /\ o.out = <<TRUE>> => Meant(c, o) = [meant EXCEPT !.files = Drop(@, {c.dst})]
    BY TruthValues DEF Meant
  <2>4. QED BY <2>1, <2>2, <2>3, WrittenHolds
<1>4. QED BY <1>2, <1>3

LEMMA MoveHolds ==
  ASSUME ShellHolds(shell, meant), NEW c, NEW o \in Execute(c, shell), c.c = "mv"
  PROVE  After(c, o)
<1> DEFINE w == MoveFile(shell.files, c.src, c.dst)
<1>1. o \in (IF c.dst = NoWord THEN Failing(shell) ELSE Touched(shell, {w}, 0, 0))
  BY DEF Execute, CmdMv
<1>2. w.files = shell.files
  BY DEF MoveFile
<1> HIDE DEF w
<1>3. o.s = shell \/ o.s = [shell EXCEPT !.files = shell.files]
  BY <1>1, <1>2 DEF Failing, Outcome, Touched
<1>4. Meant(c, o) = meant
  BY DEF Meant
<1>5. QED BY <1>3, <1>4, AfterNothing

LEMMA EdHolds ==
  ASSUME ShellHolds(shell, meant), NEW c, NEW o \in Execute(c, shell), c.c = "ed"
  PROVE  After(c, o)
<1> DEFINE fs == shell.files
<1>1. o \in Touched(shell, TouchOutcomes(fs, c.name), 0, 1)
  BY DEF Execute, CmdEd
<1>2. PICK w \in TouchOutcomes(fs, c.name) : o.s = [shell EXCEPT !.files = w.files] /\ o.out = <<w.ok>>
  <2> HIDE DEF fs
  <2> QED BY <1>1, FileOutcome
<1>3. TouchedAs(fs, c.name, w)
  <2> HIDE DEF fs
  <2> QED BY <1>2, TouchOutcome
<1>4. /\ o.out = <<FALSE>> => Meant(c, o) = meant
      /\ o.out = <<TRUE>> => Meant(c, o) = [meant EXCEPT !.files = Drop(@, {c.name})]
  BY TruthValues DEF Meant
<1>5. QED BY <1>2, <1>3, <1>4, WrittenHolds

LEMMA TouchHolds ==
  ASSUME ShellHolds(shell, meant), NEW c, NEW o \in Execute(c, shell), c.c = "touch"
  PROVE  After(c, o)
<1> DEFINE fs == shell.files
<1>1. o \in CmdTouch(c, shell)
  BY DEF Execute
<1>2. PICK w \in TouchOutcomes(fs, c.name) : o.s = [shell EXCEPT !.files = w.files] /\ o.out = <<w.ok>>
  <2>1. PICK w \in TouchOutcomes(fs, c.name) : o \in NoReturn([shell EXCEPT !.files = w.files], <<w.ok>>)
    BY <1>1 DEF CmdTouch
  <2> DEFINE s == [shell EXCEPT !.files = w.files]
             out == <<w.ok>>
  <2>2. o \in NoReturn(s, out)
    BY <2>1
  <2> HIDE DEF s, out
  <2>3. o.s = s /\ o.out = out
    BY <2>2 DEF NoReturn, Outcome
  <2>4. QED BY <2>3 DEF s, out
<1>3. TouchedAs(fs, c.name, w)
  <2> HIDE DEF fs
  <2> QED BY <1>2, TouchOutcome
<1>4. /\ o.out = <<FALSE>> => Meant(c, o) = meant
      /\ o.out = <<TRUE>> => Meant(c, o) = [meant EXCEPT !.files = Drop(@, {c.name})]
  BY TruthValues DEF Meant
<1>5. QED BY <1>2, <1>3, <1>4, WrittenHolds

LEMMA RmHolds ==
  ASSUME ShellHolds(shell, meant), NEW c, NEW o \in Execute(c, shell), c.c = "rm"
  PROVE  After(c, o)
<1>1. o.s = shell
  <2>1. o \in CmdRm(c, shell)
    BY DEF Execute
  <2>2. QED BY <2>1 DEF CmdRm, Failing, Outcome
<1>2. Meant(c, o) = meant
  BY DEF Meant
<1>3. QED BY <1>1, <1>2, AfterNothing

LEMMA LosetupHolds ==
  ASSUME ShellHolds(shell, meant), NEW c, NEW o \in Execute(c, shell), c.c = "losetup"
  PROVE  After(c, o)
<1> DEFINE l == [shell.loops EXCEPT ![0] = c.name]
<1>0. ShellShape(shell) /\ MeantShape(meant) /\ DOMAIN shell.loops = Devices0
  BY DEF ShellHolds
<1>1. o \in CmdLosetup(c, shell)
  BY DEF Execute
<1>2. CASE c.name \notin DOMAIN shell.files
  <2>1. o.s = shell /\ o.ret = 1
    BY <1>1, <1>2 DEF CmdLosetup, Failing, Outcome
  <2>2. Meant(c, o) = meant
    BY <2>1 DEF Meant
  <2>3. QED BY <2>1, <2>2, AfterNothing
<1>3. CASE c.name \in DOMAIN shell.files
  <2> DEFINE m == Meant(c, o)
             s == o.s
  <2>1. s = [shell EXCEPT !.loops[0] = c.name] /\ o.ret = 0
    BY <1>1, <1>3 DEF CmdLosetup, Outcome
  <2>2. m = [meant EXCEPT !.loop = c.name]
    BY <2>1 DEF Meant
  <2> HIDE DEF m, s
  <2>3. /\ s = [env |-> shell.env, alias |-> shell.alias, layout |-> shell.layout, loops |-> l,
                domain |-> shell.domain, files |-> shell.files, connector |-> shell.connector]
        /\ m = [env |-> meant.env, alias |-> meant.alias, files |-> meant.files, loop |-> c.name]
    BY <1>0, <2>1, <2>2 DEF ShellShape, MeantShape
  <2>4. DOMAIN l = Devices0 /\ l[0] = c.name
    <3>1. 0 \in Devices0
      BY ShellAssumption DEF ShellAssumption, Devices0
    <3>2. QED BY <1>0, <3>1
  <2> HIDE DEF l
  <2>5. s.env = shell.env /\ s.alias = shell.alias /\ s.files = shell.files /\ s.loops = l /\ ShellShape(s)
    BY <2>3 DEF ShellShape
  <2>6. m.env = meant.env /\ m.alias = meant.alias /\ m.files = meant.files /\ m.loop = c.name /\ MeantShape(m)
    BY <2>3 DEF MeantShape
  <2>7. ShellHolds(s, m)
    BY <2>4, <2>5, <2>6 DEF ShellHolds
  <2>8. QED BY <2>7 DEF After, s, m
<1>4. QED BY <1>2, <1>3

-----------------------------------------------------------------------------

ShellInv == ShellHolds(shell, meant) /\ chain \in Seq(Commands)

LEMMA ShellInvInit == ShellInit => ShellInv
<1> SUFFICES ASSUME ShellInit PROVE ShellInv
  OBVIOUS
<1>1. /\ shell.env = << >> /\ shell.alias = << >> /\ shell.loops = [i \in 0 .. LoopDevices - 1 |-> None]
      /\ shell.files = Archive /\ ShellShape(shell) /\ chain = << >>
  BY DEF ShellInit, ShellShape
<1>2. /\ meant.env = [n \in {} |-> None] /\ meant.alias = [n \in {} |-> None]
      /\ meant.files = Archive /\ meant.loop = None /\ MeantShape(meant)
  BY DEF ShellInit, MeantShape
<1>3. TableHolds(<< >>, [n \in {} |-> None])
  BY DEF TableHolds, TableMeans
<1>4. FilesHold(Archive, Archive)
  BY DEF FilesHold
<1>5. DOMAIN shell.loops = Devices0 /\ shell.loops[0] = None
  <2>1. 0 \in Devices0
    BY ShellAssumption DEF ShellAssumption, Devices0
  <2>2. QED BY <1>1, <2>1 DEF Devices0
<1>6. ShellHolds(shell, meant)
  BY <1>1, <1>2, <1>3, <1>4, <1>5 DEF ShellHolds
<1>7. QED BY <1>1, <1>6 DEF ShellInv

LEMMA CommandsKnown ==
  ASSUME NEW typedLine \in Lines
  PROVE  /\ typedLine \in Seq(Commands)
         /\ \A i \in DOMAIN typedLine : typedLine[i] \in Commands /\ typedLine[i].c \in CommandWords
<1>1. typedLine \in Seq(ToSet(typedLine)) /\ \A i \in DOMAIN typedLine : typedLine[i].c \in CommandWords
  BY ShellAssumption DEF ShellAssumption
<1>2. ToSet(typedLine) \subseteq Commands
  BY DEF Commands
<1>3. DOMAIN typedLine = 1 .. Len(typedLine) /\ \A i \in DOMAIN typedLine : typedLine[i] \in ToSet(typedLine)
  BY <1>1
<1>4. typedLine \in Seq(Commands)
  <2> HIDE DEF Commands
  <2> QED BY <1>1, <1>2
<1>5. QED BY <1>1, <1>2, <1>3, <1>4

LEMMA CommandKnown ==
  ASSUME NEW c \in Commands PROVE c.c \in CommandWords
<1>1. PICK typedLine \in Lines : c \in ToSet(typedLine)
  BY DEF Commands
<1>2. PICK i \in DOMAIN typedLine : c = typedLine[i]
  BY <1>1 DEF ToSet
<1>3. QED BY <1>2, CommandsKnown

LEMMA ShellStep ==
  ASSUME ShellInv, [ShellNext]_shellVars PROVE ShellInv'
<1>1. CASE ExecuteSingle
  <2> DEFINE c == Head(chain)
  <2>1. PICK o \in Execute(c, shell) : /\ shell' = o.s /\ meant' = Meant(c, o)
                                       /\ chain' = IF o.ret = 0 THEN Tail(chain) ELSE << >>
    BY <1>1 DEF ExecuteSingle
  <2>2. chain \in Seq(Commands) /\ chain # << >> /\ ShellHolds(shell, meant)
    BY <1>1 DEF ExecuteSingle, ShellInv
  <2>3. c \in Commands /\ Tail(chain) \in Seq(Commands)
    <3> HIDE DEF Commands
    <3> QED BY <2>2
  <2>4. c.c \in CommandWords
    <3> HIDE DEF c
    <3> QED BY <2>3, CommandKnown
  <2> HIDE DEF c
  <2>5. After(c, o)
    <3>1. CASE c.c \in {"env", "kbd", "mdev", "domainname", "msg", "printf", "run", "word"}
      BY <2>2, <3>1, OthersHold
    <3>2. CASE c.c \in {"set", "alias"}
      BY <2>2, <2>3, <3>2, SetHolds, AliasHolds
    <3>3. CASE c.c \in {"cp", "dd", "mv"}
      BY <2>2, <3>3, CopyHolds, MoveHolds
    <3>4. CASE c.c \in {"ed", "touch"}
      BY <2>2, <3>4, EdHolds, TouchHolds
    <3>5. CASE c.c \in {"rm", "losetup"}
      BY <2>2, <3>5, RmHolds, LosetupHolds
    <3>6. QED BY <2>4, <3>1, <3>2, <3>3, <3>4, <3>5 DEF CommandWords
  <2>6. ShellHolds(shell, meant)'
    BY <2>1, <2>5 DEF After, ShellHolds, ShellShape, MeantShape
  <2>7. chain' \in Seq(Commands)
    BY <2>1, <2>3
  <2>8. QED BY <2>6, <2>7 DEF ShellInv
<1>2. CASE \E typedLine \in Lines : ExecuteShellCommand(typedLine)
  <2>1. PICK typedLine \in Lines : chain' = typedLine /\ UNCHANGED <<shell, meant>>
    BY <1>2 DEF ExecuteShellCommand
  <2>2. typedLine \in Seq(Commands)
    BY CommandsKnown
  <2>3. QED BY <2>1, <2>2 DEF ShellInv, ShellHolds, ShellShape, MeantShape
<1>3. CASE UNCHANGED shellVars
  BY <1>3 DEF shellVars, ShellInv, ShellHolds, ShellShape, MeantShape
<1>4. QED BY <1>1, <1>2, <1>3 DEF ShellNext

LEMMA ShellInvSound == ShellInv => ShellSound
BY DEF ShellInv, ShellHolds, TableHolds, FilesHold, ShellSound

-----------------------------------------------------------------------------
(* Side by side *)

(* A step of one service is a step of it and leaves the others as they are. *)
LEMMA ServicesSteps ==
  ASSUME [Next]_mcVars
  PROVE  /\ [TimerNext]_timerVars /\ [LogNext]_logVars /\ [SlabNext]_slabVars
         /\ [LruNext]_lruVars /\ [TasksNext]_taskVars
         /\ [ShellNext]_shellVars /\ [QshNext]_qshVars /\ [LinesNext]_lineVars
         /\ ChainNext \/ UNCHANGED chainVars
         /\ PolicyNext \/ UNCHANGED <<procs, killed>>
<1>1. ASSUME UNCHANGED coreVars
      PROVE  UNCHANGED timerVars /\ UNCHANGED logVars /\ UNCHANGED slabVars /\ UNCHANGED lruVars
             /\ UNCHANGED taskVars
  BY <1>1, Zenon DEF coreVars
<1>2. ASSUME UNCHANGED userVars
      PROVE  UNCHANGED shellVars /\ UNCHANGED qshVars /\ UNCHANGED lineVars
  BY <1>2, Zenon DEF userVars
<1>3. ASSUME UNCHANGED servicesVars
      PROVE  UNCHANGED chainVars /\ UNCHANGED <<procs, killed>>
  BY <1>3, Zenon DEF servicesVars, machineVars
<1>4. ASSUME ChainNext PROVE UNCHANGED <<procs, killed>>
  BY <1>4 DEF ChainNext, NotifierRegister, NotifierUnregister, CallChain, CallbackReturns, machineVars
<1>5. ASSUME EbpfNext \/ CmdlineNext PROVE UNCHANGED chainVars /\ UNCHANGED <<procs, killed>>
  BY <1>5, Zenon DEF EbpfNext, EbpfRegisterHelper, EbpfRun, CmdlineNext, LookUp
<1>6. ASSUME PolicyNext PROVE UNCHANGED chainVars
  <2>1. /\ \A name, text : SysctlSet(name, text) => UNCHANGED chainVars
        /\ OutOfMemoryRescue => UNCHANGED chainVars
    BY Zenon DEF SysctlSet, OutOfMemoryRescue
  <2>2. /\ \A mode : SetGovernor(mode) => UNCHANGED chainVars
        /\ \A latency : CpuIdle(latency) => UNCHANGED chainVars
        /\ \A s : AcpiEnterSleepState(s) => UNCHANGED chainVars
    BY Zenon DEF SetGovernor, CpuIdle, AcpiEnterSleepState
  <2>3. QED BY <1>6, <2>1, <2>2 DEF PolicyNext
<1>7. CASE UNCHANGED mcVars
  <2>1. UNCHANGED coreVars /\ UNCHANGED userVars /\ UNCHANGED servicesVars
    BY <1>7, Zenon DEF mcVars
  <2>2. QED BY <2>1, <1>1, <1>2, <1>3
<1>8. CASE /\ UNCHANGED userVars /\ UNCHANGED servicesVars
           /\ [TimerNext]_timerVars /\ [LogNext]_logVars /\ [SlabNext]_slabVars
           /\ [LruNext]_lruVars /\ [TasksNext]_taskVars
  BY <1>8, <1>2, <1>3
<1>9. CASE /\ UNCHANGED coreVars /\ UNCHANGED servicesVars
           /\ [ShellNext]_shellVars /\ [QshNext]_qshVars /\ [LinesNext]_lineVars
  BY <1>9, <1>1, <1>3
<1>10. CASE /\ UNCHANGED coreVars /\ UNCHANGED userVars
            /\ ChainNext \/ EbpfNext \/ CmdlineNext \/ PolicyNext
  BY <1>10, <1>1, <1>2, <1>4, <1>5, <1>6
<1>11. QED
  <2>1. CASE Next
    BY <2>1, <1>8, <1>9, <1>10, Zenon DEF Next
  <2>2. QED BY <2>1, <1>7

(* The invariants of the services together. *)
ServicesInv ==
  TimerInv /\ ChipTypes /\ LogInv /\ SlabInv /\ LruInv /\ TasksInv /\ BootOrder /\ QshInv /\ LinesInv

(* The invariants of the lists. *)
ListsInv == SlabInv /\ LruInv /\ ChainInv /\ VictimsInv

(* For every number of slabs, pages, blocks and processes: a slab's count of free  *)
(* objects is its bitmap's and makes it partial or full (slab.c), both ways       *)
(* through an LRU list meet the same pages (multilru.c), a chain is its            *)
(* registrations by priority also while a call walks it (notifier.c), and the      *)
(* killer takes the largest process that is not protected (oom_killer.c).          *)
THEOREM ListsAreWhole == Spec => []ListsStayWhole
<1>1. Init => ListsInv
  BY SlabInvInit, LruInvInit, ChainInvInit, VictimsInvInit, Zenon DEF Init, ListsInv
<1>2. ListsInv /\ [Next]_mcVars => ListsInv'
  <2> SUFFICES ASSUME ListsInv, [Next]_mcVars PROVE ListsInv'
    OBVIOUS
  <2>1. /\ [SlabNext]_slabVars /\ [LruNext]_lruVars
        /\ ChainNext \/ UNCHANGED chainVars
        /\ PolicyNext \/ UNCHANGED <<procs, killed>>
    BY ServicesSteps
  <2>2. QED
    BY <2>1, SlabStep, LruStep, ChainStep, VictimsStep, Zenon DEF ListsInv
<1>3. ListsInv => ListsStayWhole
  BY SlabInvSound, LruInvSound, ChainInvSound, VictimsInvSound, Zenon DEF ListsInv, ListsStayWhole
<1>4. QED BY <1>1, <1>2, <1>3, PTL DEF Spec

(* Alarms, the log, slabs, LRU lists, tasks, QSH and the teletypes keep their      *)
(* invariants in any run of the services side by side.                             *)
THEOREM ServicesInvariant ==
  ASSUME SysTimerAssumption, TasksAssumption PROVE Spec => []ServicesInv
<1>1. Init => ServicesInv
  BY TimerInvInit, ChipTypesInit, LogInvInit, SlabInvInit, LruInvInit, TasksInvInit, QshInvInit,
     LinesInvInit, Zenon DEF Init, ServicesInv
<1>2. ServicesInv /\ [Next]_mcVars => ServicesInv'
  <2> SUFFICES ASSUME ServicesInv, [Next]_mcVars PROVE ServicesInv'
    OBVIOUS
  <2>1. /\ [TimerNext]_timerVars /\ [LogNext]_logVars /\ [SlabNext]_slabVars /\ [LruNext]_lruVars
        /\ [TasksNext]_taskVars /\ [QshNext]_qshVars /\ [LinesNext]_lineVars
    BY ServicesSteps
  <2>2. TimerInv' /\ ChipTypes'
    BY <2>1, TimerInvStep, ChipTypesStep, Zenon DEF ServicesInv
  <2>3. LogInv' /\ SlabInv' /\ LruInv'
    BY <2>1, LogInvStep, SlabStep, LruStep, Zenon DEF ServicesInv
  <2>4. TasksInv' /\ BootOrder'
    BY <2>1, TasksInvStep, NextKeepsOrder, Zenon DEF ServicesInv
  <2>5. QshInv' /\ LinesInv'
    BY <2>1, QshStep, LinesStep, Zenon DEF ServicesInv
  <2>6. QED BY <2>2, <2>3, <2>4, <2>5 DEF ServicesInv
<1>3. QED BY <1>1, <1>2, PTL DEF Spec

(* No service's variable leaves its type: counters, positions and table slots stay *)
(* inside what timer.c, printk.c, slab.c, multilru.c, sched.c, qsh.c and tty.c     *)
(* declare.                                                                        *)
THEOREM ServicesAreTyped ==
  ASSUME SysTimerAssumption, TasksAssumption PROVE Spec => []ServicesTypeOK
<1>1. ServicesInv => ServicesTypeOK
  BY TimerInvTyped, SlabInvSound, LruInvSound, TasksInvTyped, QshInvSound, LinesInvSound, Zenon
     DEF ServicesInv, ServicesTypeOK, LogInv
<1>2. QED BY <1>1, ServicesInvariant, PTL

(* The invariants of what users see. *)
UserInv == LinesInv /\ QshInv /\ ShellInv

(* A line reaches its reader as it was edited (tty.c, qsh.c), a script takes the   *)
(* branch of its condition (qsh.c), and a command leaves variables, aliases and    *)
(* the files it does not write as they were (commands.c).                         *)
THEOREM LinesAreSound == Spec => []LinesSound
<1>1. Init => UserInv
  BY LinesInvInit, QshInvInit, ShellInvInit, Zenon DEF Init, UserInv
<1>2. UserInv /\ [Next]_mcVars => UserInv'
  <2> SUFFICES ASSUME UserInv, [Next]_mcVars PROVE UserInv'
    OBVIOUS
  <2>1. [LinesNext]_lineVars /\ [QshNext]_qshVars /\ [ShellNext]_shellVars
    BY ServicesSteps
  <2>2. QED
    BY <2>1, LinesStep, QshStep, ShellStep, Zenon DEF UserInv
<1>3. UserInv => LinesSound
  BY LinesInvSound, QshInvSound, ShellInvSound, Zenon DEF UserInv, LinesSound
<1>4. QED BY <1>1, <1>2, <1>3, PTL DEF Spec
=============================================================================
