--------------------------- MODULE NaturalLemmas ---------------------------
(***************************************************************************)
(* Facts about naturals that the proofs of several components use: a least *)
(* and a greatest element of a set, from which induction and recursion on  *)
(* finite trees follow by taking a least counterexample, the size of a set *)
(* that is shifted, and division with remainder.                           *)
(***************************************************************************)
EXTENDS Integers, FiniteSetTheorems, TLAPS

\* A set of naturals that is not empty has a least element: the one whose
\* initial segment is least for the inclusion of finite sets.
LEMMA LeastNatural ==
    ASSUME NEW T \in SUBSET Nat, T # {}
    PROVE  \E m \in T : \A n \in T : m <= n
<1> DEFINE Segments == {1..n : n \in T}
<1>1. Segments \subseteq FiniteSubsetsOf(Nat)
  <2> SUFFICES ASSUME NEW n \in T PROVE 1..n \in FiniteSubsetsOf(Nat)
    OBVIOUS
  <2>1. n \in Nat /\ 1..n \subseteq Nat /\ IsFiniteSet(1..n)
    BY FS_Interval
  <2> QED BY <2>1 DEF FiniteSubsetsOf
<1>2. Segments # {}
  OBVIOUS
<1>3. PICK s \in Segments : \A t \in Segments : <<t, s>> \notin StrictSubsetOrdering(Nat)
  <2> HIDE DEF Segments
  <2> QED BY <1>1, <1>2, WFMin, FS_StrictSubsetOrderingWellFounded
<1>4. PICK m \in T : s = 1..m
  OBVIOUS
<1>5. ASSUME NEW n \in T, ~(m <= n) PROVE FALSE
  <2>1. m \in Nat /\ n \in Nat /\ n < m
    BY <1>5
  <2>2. 1..n \subseteq 1..m /\ m \in 1..m /\ m \notin 1..n /\ 1..n \in SUBSET Nat /\ 1..m \in SUBSET Nat
    BY <2>1
  <2>3. <<1..n, 1..m>> \in StrictSubsetOrdering(Nat)
    BY <2>2 DEF StrictSubsetOrdering
  <2> QED BY <1>3, <1>4, <2>3
<1> QED BY <1>5

\* A set of naturals with a bound has a greatest element: the bound less the
\* least distance to it.
LEMMA GreatestNatural ==
    ASSUME NEW b \in Nat, NEW T \in SUBSET (0..b), T # {}
    PROVE  \E m \in T : \A n \in T : n <= m
<1> DEFINE D == {b - n : n \in T}
<1>1. D \in SUBSET Nat /\ D # {}
  <2>1. \A n \in T : b - n \in Nat
    OBVIOUS
  <2>2. PICK n \in T : TRUE
    OBVIOUS
  <2>3. b - n \in D
    OBVIOUS
  <2> QED BY <2>1, <2>3
<1>2. PICK d \in D : \A e \in D : d <= e
  <2> HIDE DEF D
  <2> QED BY <1>1, LeastNatural
<1>3. PICK m \in T : d = b - m
  BY <1>2
<1>4. ASSUME NEW n \in T PROVE n <= m
  <2>1. b - m <= b - n
    BY <1>2, <1>3
  <2> QED BY <2>1
<1> QED BY <1>4

\* A finite set of integers keeps its size when it is shifted by k.
LEMMA ShiftedSize ==
    ASSUME NEW S \in SUBSET Int, IsFiniteSet(S), NEW k \in Int, NEW T \in SUBSET Int,
           \A n \in S : n + k \in T, \A t \in T : t - k \in S
    PROVE  IsFiniteSet(T) /\ Cardinality(T) = Cardinality(S)
<1> DEFINE f == [n \in S |-> n + k]
<1>1. f \in [S -> T] /\ \A a, b \in S : f[a] = f[b] => a = b
  OBVIOUS
<1>2. ASSUME NEW t \in T PROVE \E n \in S : f[n] = t
  <2>1. f[t - k] = t
    OBVIOUS
  <2> QED BY <2>1
<1>3. f \in Bijection(S, T)
  <2> HIDE DEF f
  <2> QED BY <1>1, <1>2 DEF Bijection, Injection, Surjection, IsInjective
<1>4. ExistsBijection(S, T)
  BY <1>3 DEF ExistsBijection
<1> QED BY <1>4, FS_Bijection
-----------------------------------------------------------------------------
\* T has every tree of S all whose lower trees it has.
Hereditary(S, height, T) ==
    /\ height \in [S -> Nat] /\ T \subseteq S
    /\ \A x \in S : (\A y \in S : height[y] < height[x] => y \in T) => x \in T

\* Induction over trees: what holds of a tree as soon as it holds of all lower
\* ones holds of every tree.
LEMMA TreeInduction ==
    ASSUME NEW S, NEW height, NEW T, Hereditary(S, height, T)
    PROVE  T = S
<1> USE DEF Hereditary
<1> SUFFICES ASSUME S \ T # {} PROVE FALSE
  OBVIOUS
<1> DEFINE H == {height[x] : x \in S \ T}
<1>1. H \in SUBSET Nat /\ H # {}
  OBVIOUS
<1>2. PICK m \in H : \A n \in H : m <= n
  <2> HIDE DEF H
  <2> QED BY <1>1, LeastNatural
<1>3. PICK x \in S \ T : m = height[x]
  BY <1>2
<1>4. ASSUME NEW y \in S, height[y] < height[x], y \notin T PROVE FALSE
  <2>1. m <= height[y]
    BY <1>2, <1>4
  <2> QED BY <1>3, <1>4, <2>1
<1> QED BY <1>3, <1>4

\* G[x][f], what a recursive definition with values in V gives for x when f are
\* the values it looks at, looks at the values of lower trees only.
LooksBelow(S, V, height, G) ==
    /\ V # {} /\ height \in [S -> Nat] /\ G \in [S -> [[S -> V] -> V]]
    /\ \A x \in S : \A f, h \in [S -> V] :
          (\A y \in S : height[y] < height[x] => f[y] = h[y]) => G[x][f] = G[x][h]

\* f satisfies the recursive definition.
Recursive(S, V, G, f) == f \in [S -> V] /\ \A x \in S : f[x] = G[x][f]

\* Recursion over trees: a definition of a function that looks at lower trees
\* only is satisfied by some function.
LEMMA TreeRecursion ==
    ASSUME NEW S, NEW V, NEW height, NEW G, LooksBelow(S, V, height, G)
    PROVE  \E f : Recursive(S, V, G, f)
<1> USE DEF LooksBelow, Recursive
<1>0. PICK v0 \in V : TRUE
  OBVIOUS
<1> DEFINE Upto(n, f) == f \in [S -> V] /\ \A x \in S : height[x] < n => f[x] = G[x][f]
           Missing == {n \in Nat : ~ \E f : Upto(n, f)}
<1>1. Missing = {}
  <2> SUFFICES ASSUME Missing # {} PROVE FALSE
    OBVIOUS
  <2>1. PICK m \in Missing : \A n \in Missing : m <= n
    <3>1. Missing \in SUBSET Nat
      OBVIOUS
    <3> HIDE DEF Missing
    <3> QED BY <3>1, LeastNatural
  <2>2. Upto(0, [x \in S |-> v0])
    BY <1>0
  <2>3. m \in Nat /\ m # 0
    BY <2>1, <2>2
  <2>4. m - 1 \in Nat /\ m - 1 \notin Missing
    <3>1. m - 1 \in Nat /\ ~(m <= m - 1)
      BY <2>3
    <3> HIDE DEF Missing
    <3> QED BY <2>1, <3>1
  <2>5. PICK f : Upto(m - 1, f)
    BY <2>4
  <2> DEFINE more == [x \in S |-> IF height[x] < m - 1 THEN f[x] ELSE G[x][f]]
  <2>6. more \in [S -> V]
    BY <2>5
  <2>7. ASSUME NEW x \in S, height[x] < m PROVE more[x] = G[x][more]
    <3>1. more[x] = G[x][f]
      BY <2>5
    <3>2. \A y \in S : height[y] < height[x] => f[y] = more[y]
      BY <2>3, <2>7
    <3> HIDE DEF more
    <3> QED BY <2>5, <2>6, <3>1, <3>2
  <2>8. Upto(m, more)
    BY <2>6, <2>7
  <2> QED BY <2>1, <2>8
<1> DEFINE F == [n \in Nat |-> CHOOSE f : Upto(n, f)]
<1>2. ASSUME NEW n \in Nat PROVE Upto(n, F[n])
  <2>1. \E f : Upto(n, f)
    BY <1>1
  <2>2. F[n] = CHOOSE f : Upto(n, f)
    OBVIOUS
  <2> HIDE DEF F, Upto
  <2> QED BY <2>1, <2>2
<1> HIDE DEF F
<1> DEFINE Same == {x \in S : \A n, m \in Nat : height[x] < n /\ height[x] < m => F[n][x] = F[m][x]}
<1>3. Same = S
  <2>1. ASSUME NEW x \in S, \A y \in S : height[y] < height[x] => y \in Same
        PROVE  x \in Same
    <3> SUFFICES ASSUME NEW n \in Nat, NEW m \in Nat, height[x] < n, height[x] < m
                 PROVE  F[n][x] = F[m][x]
      OBVIOUS
    <3>1. F[n][x] = G[x][F[n]] /\ F[m][x] = G[x][F[m]] /\ F[n] \in [S -> V] /\ F[m] \in [S -> V]
      BY <1>2
    <3>2. \A y \in S : height[y] < height[x] => F[n][y] = F[m][y]
      <4> SUFFICES ASSUME NEW y \in S, height[y] < height[x] PROVE F[n][y] = F[m][y]
        OBVIOUS
      <4>1. height[y] < n /\ height[y] < m
        OBVIOUS
      <4> QED BY <2>1, <4>1
    <3> QED BY <3>1, <3>2
  <2>2. Same \in SUBSET S
    OBVIOUS
  <2> HIDE DEF Same
  <2>3. Hereditary(S, height, Same)
    BY <2>1, <2>2 DEF Hereditary
  <2> QED BY <2>2, <2>3, TreeInduction, Zenon
<1> DEFINE all == [x \in S |-> F[height[x] + 1][x]]
<1>4. all \in [S -> V]
  BY <1>2
<1>5. ASSUME NEW x \in S PROVE all[x] = G[x][all]
  <2> DEFINE n == height[x] + 1
  <2>1. n \in Nat /\ height[x] < n /\ all[x] = F[n][x]
    OBVIOUS
  <2>2. F[n] \in [S -> V] /\ F[n][x] = G[x][F[n]]
    BY <1>2, <2>1
  <2>3. \A y \in S : height[y] < height[x] => F[n][y] = all[y]
    <3> SUFFICES ASSUME NEW y \in S, height[y] < height[x] PROVE F[n][y] = all[y]
      OBVIOUS
    <3>1. height[y] + 1 \in Nat /\ height[y] < height[y] + 1 /\ height[y] < n
      OBVIOUS
    <3> HIDE DEF n
    <3> QED BY <1>3, <2>1, <3>1
  <2> HIDE DEF n, all
  <2> QED BY <1>4, <2>1, <2>2, <2>3
<1> QED BY <1>4, <1>5
-----------------------------------------------------------------------------
\* Division with a remainder, for any divisor.
LEMMA Euclid ==
    ASSUME NEW a \in Int, NEW n \in Int, n > 0
    PROVE  a = n * (a \div n) + (a % n) /\ a % n \in 0..(n - 1) /\ a \div n \in Int
BY SMTT(60)

\* The products the solvers have to be told of.
LEMMA Products ==
    ASSUME NEW n \in Int, NEW p \in Int, NEW q \in Int
    PROVE  /\ n * (q - p) = n * q - n * p /\ n * (q + 1) = n * q + n
           /\ n * q \in Int /\ n * p \in Int
           /\ n > 0 /\ q >= 1 => n * q >= n
BY SMTT(60)

\* A remainder is what is left after any multiple of the divisor.
LEMMA ModIs ==
    ASSUME NEW a \in Int, NEW n \in Int, n > 0, NEW q \in Int, NEW s \in 0..(n - 1),
           a = n * q + s
    PROVE  a % n = s
<1> DEFINE p == a \div n
           t == a % n
<1>1. a = n * p + t /\ t \in 0..(n - 1) /\ p \in Int
  BY Euclid
<1> HIDE DEF p, t
<1>2. n * (q - p) = t - s /\ n * (p - q) = s - t
  <2>1. n * (q - p) = n * q - n * p /\ n * (p - q) = n * p - n * q
    BY <1>1, Products
  <2>2. n * q \in Int /\ n * p \in Int
    BY <1>1, Products
  <2> QED BY <1>1, <2>1, <2>2
<1>3. CASE q - p >= 1
  <2>1. n * (q - p) >= n
    BY <1>1, <1>3, Products
  <2> QED BY <1>1, <1>2, <2>1
<1>4. CASE p - q >= 1
  <2>1. n * (p - q) >= n
    BY <1>1, <1>4, Products
  <2> QED BY <1>1, <1>2, <2>1
<1>5. CASE p = q
  <2>1. n * q \in Int
    BY Products
  <2> QED BY <1>1, <1>5, <2>1 DEF t
<1> QED BY <1>1, <1>3, <1>4, <1>5

\* Remainders of numbers that follow each other go round.
LEMMA ModNext ==
    ASSUME NEW a \in Int, NEW n \in Int, n > 0
    PROVE  (a + 1) % n = IF (a % n) + 1 = n THEN 0 ELSE (a % n) + 1
<1> DEFINE q == a \div n
           t == a % n
<1>1. a = n * q + t /\ t \in 0..(n - 1) /\ q \in Int
  BY Euclid
<1> HIDE DEF q, t
<1>2. n * q \in Int /\ n * (q + 1) = n * q + n
  BY <1>1, Products
<1>3. CASE t + 1 = n
  <2>1. a + 1 = n * (q + 1) + 0 /\ q + 1 \in Int /\ 0 \in 0..(n - 1) /\ a + 1 \in Int
    BY <1>1, <1>2, <1>3
  <2>2. (a + 1) % n = 0
    BY <2>1, ModIs
  <2> QED BY <2>2, <1>3 DEF t
<1>4. CASE t + 1 # n
  <2>1. a + 1 = n * q + (t + 1) /\ t + 1 \in 0..(n - 1) /\ a + 1 \in Int
    BY <1>1, <1>2, <1>4
  <2>2. (a + 1) % n = t + 1
    BY <1>1, <2>1, ModIs
  <2> QED BY <2>2, <1>4 DEF t
<1> QED BY <1>3, <1>4
============================================================================
