----------------------------- MODULE Induction -----------------------------
(***************************************************************************)
(* Induction in the form the proofs of this project use it.  The library's *)
(* induction theorems take a predicate; these speak of the set of the      *)
(* numbers, or of the sets, that have the property, and so can be cited    *)
(* with any of the provers.  All rest on one fact of the library, that the *)
(* order of the naturals is well-founded.                                  *)
(***************************************************************************)
EXTENDS Integers, FiniteSets, FiniteSetTheorems, WellFoundedInduction, TLAPS

\* A set of naturals that is not empty has a least member.
THEOREM LeastMember ==
    ASSUME NEW T, T \subseteq Nat, T # {}
    PROVE  \E m \in T : \A n \in T : m <= n
<1>1. \E x \in T : \A y \in T : ~(<<y, x>> \in OpToRel(<, Nat))
  BY NatLessThanWellFounded, WFMin, Zenon
<1>2. ASSUME NEW x \in Nat, NEW y \in Nat, y < x
      PROVE  <<y, x>> \in OpToRel(<, Nat)
  <2>1. <<y, x>>[1] = y /\ <<y, x>>[2] = x /\ <<y, x>> \in Nat \X Nat
    BY SMT
  <2>2. <<y, x>>[1] < <<y, x>>[2]
    BY <2>1, <1>2
  <2> QED  BY <2>1, <2>2, Zenon DEF OpToRel
<1>3. PICK x \in T : \A y \in T : ~(<<y, x>> \in OpToRel(<, Nat))
  BY <1>1, Zenon
<1>4. \A y \in T : ~(y < x)
  BY <1>2, <1>3, Zenon
<1>5. \A y \in T : x <= y
  BY <1>4, SMT
<1> QED  BY <1>5, Zenon

\* What holds of zero, and of every number up to N if it holds of the one
\* before, holds of all numbers up to N.
THEOREM UpTo ==
    ASSUME NEW N \in Nat, NEW T, 0 \in T,
           \A n \in 1 .. N : n - 1 \in T => n \in T
    PROVE  \A n \in 0 .. N : n \in T
<1> SUFFICES ASSUME (0 .. N) \ T # {} PROVE FALSE
  OBVIOUS
<1>1. (0 .. N) \ T \subseteq Nat
  OBVIOUS
<1>2. PICK m \in (0 .. N) \ T : \A n \in (0 .. N) \ T : m <= n
  BY <1>1, LeastMember
<1>3. m \in 1 .. N /\ m - 1 \in 0 .. N /\ ~(m <= m - 1)
  BY <1>2
<1>4. m - 1 \in T
  BY <1>2, <1>3
<1> QED  BY <1>2, <1>3, <1>4

\* What holds of all naturals.
THEOREM AllNaturals ==
    ASSUME NEW T, 0 \in T, \A n \in Nat : n \in T => n + 1 \in T
    PROVE  Nat \subseteq T
<1> SUFFICES ASSUME NEW N \in Nat PROVE N \in T
  OBVIOUS
<1>1. \A n \in 1 .. N : n - 1 \in T => n \in T
  <2> SUFFICES ASSUME NEW n \in 1 .. N, n - 1 \in T PROVE n \in T
    OBVIOUS
  <2>1. n - 1 \in Nat /\ (n - 1) + 1 = n
    OBVIOUS
  <2> QED  BY <2>1
<1> QED  BY <1>1, UpTo

\* What holds of the empty set, and of a set with one element more if it
\* holds of the set, holds of every finite set.
THEOREM FiniteGrowth ==
    ASSUME NEW S, IsFiniteSet(S), NEW F, {} \in F,
           \A T \in SUBSET S, x \in S : T \in F => T \cup {x} \in F
    PROVE  S \in F
<1> DEFINE Sizes == {n \in Nat : \A T \in SUBSET S : Cardinality(T) = n => T \in F}
<1>1. \A T \in SUBSET S : IsFiniteSet(T) /\ Cardinality(T) \in Nat
  BY FS_Subset, FS_CardinalityType
<1>2. 0 \in Sizes
  BY <1>1, FS_EmptySet
<1>3. ASSUME NEW n \in Nat, n \in Sizes PROVE n + 1 \in Sizes
  <2>0. n + 1 \in Nat
    OBVIOUS
  <2> SUFFICES ASSUME NEW T \in SUBSET S, Cardinality(T) = n + 1 PROVE T \in F
    BY <2>0
  <2>1. T # {}
    <3> SUFFICES ASSUME T = {} PROVE FALSE
      OBVIOUS
    <3>1. Cardinality(T) = 0
      BY FS_EmptySet
    <3> QED  BY <3>1
  <2>2. PICK x \in T : TRUE
    BY <2>1
  <2>3. Cardinality(T \ {x}) = n
    BY <1>1, <2>2, FS_RemoveElement
  <2>4. T \ {x} \in F /\ x \in S /\ T = (T \ {x}) \cup {x}
    BY <1>3, <2>2, <2>3
  <2> QED  BY <2>4
<1> HIDE DEF Sizes
<1>4. Nat \subseteq Sizes
  BY <1>2, <1>3, AllNaturals
<1>5. Cardinality(S) \in Sizes
  BY <1>1, <1>4
<1> QED  BY <1>5 DEF Sizes

\* A finite set of naturals that is not empty has a greatest member.
THEOREM GreatestMember ==
    ASSUME NEW S, S \subseteq Nat, IsFiniteSet(S), S # {}
    PROVE  \E m \in S : \A n \in S : n <= m
<1> DEFINE F == {T \in SUBSET S : T = {} \/ \E m \in T : \A n \in T : n <= m}
<1>1. {} \in F
  OBVIOUS
<1>2. ASSUME NEW T \in SUBSET S, NEW x \in S, T \in F PROVE T \cup {x} \in F
  <2>1. CASE T = {}
    BY <2>1
  <2>2. CASE T # {}
    <3>1. PICK m \in T : \A n \in T : n <= m
      BY <1>2, <2>2
    <3>2. CASE x <= m
      BY <3>1, <3>2
    <3>3. CASE ~(x <= m)
      <4>1. \A n \in T \cup {x} : n <= x
        BY <3>1, <3>3
      <4> QED  BY <4>1
    <3> QED  BY <3>2, <3>3
  <2> QED  BY <2>1, <2>2
<1> HIDE DEF F
<1>3. S \in F
  BY <1>1, <1>2, FiniteGrowth
<1> QED  BY <1>3 DEF F

-----------------------------------------------------------------------------
(* Iteration. *)

Iteration(f, a, G, N) == f[0] = a /\ \A n \in 1 .. N : f[n] = G[f[n - 1]]

\* What is defined step by step, with a function as the step, is defined.
THEOREM Iterated ==
    ASSUME NEW D, NEW a, NEW G, a \in D, G \in [D -> D], NEW N \in Nat
    PROVE  \E f : f \in [0 .. N -> D] /\ Iteration(f, a, G, N)
<1> DEFINE Steps(f, n) == f[0] = a /\ \A m \in 1 .. n : f[m] = G[f[m - 1]]
           T == {n \in Nat : \E f \in [0 .. n -> D] : Steps(f, n)}
<1>1. 0 \in T
  <2> DEFINE f == [m \in 0 .. 0 |-> a]
  <2>1. f \in [0 .. 0 -> D] /\ Steps(f, 0)
    OBVIOUS
  <2> QED  BY <2>1
<1>2. ASSUME NEW n \in Nat, n \in T PROVE n + 1 \in T
  <2>1. PICK f \in [0 .. n -> D] : Steps(f, n)
    BY <1>2
  <2> DEFINE g == [m \in 0 .. n + 1 |-> IF m = n + 1 THEN G[f[n]] ELSE f[m]]
  <2>2. /\ g \in [0 .. n + 1 -> D] /\ g[n + 1] = G[f[n]]
        /\ \A m \in 0 .. n : g[m] = f[m]
    OBVIOUS
  <2> HIDE DEF g
  <2>3. \A m \in 1 .. n + 1 : g[m] = G[g[m - 1]]
    <3> SUFFICES ASSUME NEW m \in 1 .. n + 1 PROVE g[m] = G[g[m - 1]]
      OBVIOUS
    <3>1. CASE m = n + 1
      <4>1. m - 1 = n /\ n \in 0 .. n
        BY <3>1
      <4> QED  BY <2>2, <3>1, <4>1
    <3>2. CASE m # n + 1
      <4>1. m \in 1 .. n /\ m \in 0 .. n /\ m - 1 \in 0 .. n
        BY <3>2
      <4> QED  BY <2>1, <2>2, <4>1
    <3> QED  BY <3>1, <3>2
  <2>4. g[0] = a
    BY <2>1, <2>2
  <2>5. n + 1 \in Nat /\ Steps(g, n + 1)
    BY <2>3, <2>4
  <2> QED  BY <2>2, <2>5
<1> HIDE DEF T
<1>3. N \in T
  BY <1>1, <1>2, AllNaturals
<1>4. \E f \in [0 .. N -> D] : Steps(f, N)
  BY <1>3 DEF T
<1> QED  BY <1>4 DEF Iteration

\* G takes subsets of S to subsets of S, larger ones to larger ones.
Adds(S, a, G) ==
    /\ a \in SUBSET S /\ G \in [SUBSET S -> SUBSET S] /\ a \subseteq G[a]
    /\ \A X, Y \in SUBSET S : X \subseteq Y => G[X] \subseteq G[Y]
LeastAbove(c, S, a, G) ==
    /\ c \in SUBSET S /\ a \subseteq c /\ G[c] = c
    /\ \A Y \in SUBSET S : a \subseteq Y /\ G[Y] \subseteq Y => c \subseteq Y

\* A step that only adds to the sets of a finite S comes, in as many steps
\* as S has members, to the least set above a that it adds nothing to.
THEOREM Closure ==
    ASSUME NEW S, IsFiniteSet(S), NEW N \in Nat, Cardinality(S) <= N,
           NEW a, NEW G, Adds(S, a, G), NEW f, Iteration(f, a, G, N)
    PROVE  LeastAbove(f[N], S, a, G)
<1> USE DEF Adds, Iteration
<1> DEFINE Grown(n) == f[n] \in SUBSET S /\ a \subseteq f[n] /\ f[n] \subseteq G[f[n]]
           T == {n \in 0 .. N : Grown(n)}
<1>2. \A n \in 0 .. N : Grown(n)
  <2>1. 0 \in T
    OBVIOUS
  <2>2. ASSUME NEW n \in 1 .. N, n - 1 \in T PROVE n \in T
    <3>1. f[n] = G[f[n - 1]] /\ Grown(n - 1)
      BY <2>2
    <3>2. f[n] \in SUBSET S /\ f[n - 1] \subseteq f[n] /\ a \subseteq f[n]
      BY <3>1
    <3>3. G[f[n - 1]] \subseteq G[f[n]]
      BY <3>1, <3>2
    <3> QED  BY <3>1, <3>2, <3>3
  <2> HIDE DEF T
  <2>3. \A n \in 0 .. N : n \in T
    BY <2>1, <2>2, UpTo
  <2> QED  BY <2>3 DEF T
<1> HIDE DEF T
<1>3. \A X \in SUBSET S : IsFiniteSet(X) /\ Cardinality(X) \in Nat /\ Cardinality(X) <= Cardinality(S)
  BY FS_Subset, FS_CardinalityType
<1> DEFINE U == {n \in 0 .. N : G[f[n]] = f[n] \/ n <= Cardinality(f[n])}
<1>4. N \in U
  <2>1. 0 \in U
    BY <1>2, <1>3
  <2>2. ASSUME NEW n \in 1 .. N, n - 1 \in U PROVE n \in U
    <3> DEFINE x == f[n - 1]
               y == f[n]
    <3>1. n - 1 \in 0 .. N /\ n \in 0 .. N
      OBVIOUS
    <3>2. x \in SUBSET S /\ x \subseteq y /\ y = G[x] /\ y \in SUBSET S
      BY <1>2, <3>1
    <3>3. CASE G[x] = x
      <4>1. G[y] = y
        BY <3>2, <3>3
      <4> QED  BY <3>1, <4>1
    <3>4. CASE G[x] # x
      <4>1. n - 1 <= Cardinality(x)
        BY <2>2, <3>4
      <4>2. PICK z \in y : z \notin x
        BY <3>2, <3>4
      <4> HIDE DEF x, y
      <4>3. /\ IsFiniteSet(x) /\ Cardinality(x) \in Nat /\ IsFiniteSet(y)
            /\ Cardinality(y) \in Nat
        BY <1>3, <3>2
      <4>4. Cardinality(x \cup {z}) = Cardinality(x) + 1 /\ IsFiniteSet(x \cup {z})
        BY <4>2, <4>3, FS_AddElement
      <4>5. x \cup {z} \subseteq y
        BY <3>2, <4>2
      <4>6. Cardinality(x \cup {z}) <= Cardinality(y)
        BY <4>3, <4>5, FS_Subset
      <4>7. n <= Cardinality(y)
        BY <4>1, <4>3, <4>4, <4>6
      <4> QED  BY <3>1, <4>7 DEF y
    <3> QED  BY <3>3, <3>4
  <2> HIDE DEF U
  <2>3. \A n \in 0 .. N : n \in U
    BY <2>1, <2>2, UpTo
  <2> QED  BY <2>3
<1>5. f[N] \in SUBSET S /\ a \subseteq f[N] /\ f[N] \subseteq G[f[N]]
  BY <1>2
<1>6. G[f[N]] = f[N]
  <2>1. CASE N <= Cardinality(f[N])
    <3>1. Cardinality(f[N]) = Cardinality(S)
      <4>1. Cardinality(S) \in Nat /\ Cardinality(f[N]) \in Nat /\ Cardinality(f[N]) <= Cardinality(S)
        BY <1>3, <1>5
      <4> QED  BY <2>1, <4>1
    <3>2. f[N] = S
      BY <1>5, <3>1, FS_Subset
    <3>3. G[f[N]] \in SUBSET S
      BY <1>5
    <3> QED  BY <1>5, <3>2, <3>3, Zenon
  <2> QED  BY <1>4, <2>1
<1>7. ASSUME NEW Y \in SUBSET S, a \subseteq Y, G[Y] \subseteq Y
      PROVE  f[N] \subseteq Y
  <2> DEFINE V == {n \in 0 .. N : f[n] \subseteq Y}
  <2>1. 0 \in V
    BY <1>7
  <2>2. ASSUME NEW n \in 1 .. N, n - 1 \in V PROVE n \in V
    <3>1. f[n] = G[f[n - 1]] /\ f[n - 1] \in SUBSET S /\ f[n - 1] \subseteq Y
      BY <1>2, <2>2
    <3>2. G[f[n - 1]] \subseteq G[Y]
      BY <3>1
    <3> QED  BY <1>7, <3>1, <3>2
  <2> HIDE DEF V
  <2>3. \A n \in 0 .. N : n \in V
    BY <2>1, <2>2, UpTo
  <2> QED  BY <2>3 DEF V
<1> QED  BY <1>5, <1>6, <1>7 DEF LeastAbove

-----------------------------------------------------------------------------
(* Rank.  R is a strict order of S, as a set of pairs. *)

RankIn(x, S, R) == Cardinality({y \in S : <<y, x>> \in R})
StrictOrder(S, R) ==
    /\ \A x \in S : <<x, x>> \notin R
    /\ \A x, y, z \in S : <<x, y>> \in R /\ <<y, z>> \in R => <<x, z>> \in R
    /\ \A x, y \in S : x # y => <<x, y>> \in R \/ <<y, x>> \in R

\* The ranks of the members of a finite set are 0, 1, 2 ..., each of one member.
THEOREM Ranks ==
    ASSUME NEW S, IsFiniteSet(S), NEW R, StrictOrder(S, R)
    PROVE  /\ \A x \in S : RankIn(x, S, R) \in 0 .. Cardinality(S) - 1
           /\ \A x, y \in S : <<x, y>> \in R => RankIn(x, S, R) < RankIn(y, S, R)
           /\ \A x, y \in S : RankIn(x, S, R) = RankIn(y, S, R) => x = y
           /\ \A n \in 0 .. Cardinality(S) - 1 : \E x \in S : RankIn(x, S, R) = n
<1> DEFINE N == Cardinality(S)
           below(x) == {y \in S : <<y, x>> \in R}
<1>1. N \in Nat
  BY FS_CardinalityType
<1>2. \A x \in S : IsFiniteSet(below(x)) /\ Cardinality(below(x)) \in Nat
  <2> SUFFICES ASSUME NEW x \in S PROVE IsFiniteSet(below(x)) /\ Cardinality(below(x)) \in Nat
    OBVIOUS
  <2> DEFINE b == below(x)
  <2>1. b \subseteq S
    OBVIOUS
  <2> HIDE DEF b
  <2>2. IsFiniteSet(b) /\ Cardinality(b) \in Nat
    BY <2>1, FS_Subset, FS_CardinalityType
  <2> QED  BY <2>2 DEF b
<1>3. ASSUME NEW x \in S PROVE RankIn(x, S, R) \in 0 .. N - 1
  <2> DEFINE b == below(x)
  <2>1. b \subseteq S \ {x} /\ RankIn(x, S, R) = Cardinality(b) /\ Cardinality(b) \in Nat
    BY <1>2 DEF RankIn, StrictOrder
  <2> HIDE DEF b
  <2>2. Cardinality(S \ {x}) = N - 1 /\ IsFiniteSet(S \ {x})
    BY FS_RemoveElement
  <2>3. Cardinality(b) <= Cardinality(S \ {x})
    BY <2>1, <2>2, FS_Subset
  <2> QED  BY <1>1, <2>1, <2>2, <2>3
<1>4. ASSUME NEW x \in S, NEW y \in S, <<x, y>> \in R
      PROVE  RankIn(x, S, R) < RankIn(y, S, R)
  <2> DEFINE b == below(x)
             c == below(y)
  <2>1. x \notin b /\ b \cup {x} \subseteq c
    BY <1>4, Zenon DEF StrictOrder
  <2>2. /\ RankIn(x, S, R) = Cardinality(b) /\ RankIn(y, S, R) = Cardinality(c)
        /\ IsFiniteSet(b) /\ IsFiniteSet(c) /\ Cardinality(b) \in Nat /\ Cardinality(c) \in Nat
    BY <1>2 DEF RankIn
  <2> HIDE DEF b, c
  <2>3. Cardinality(b \cup {x}) = Cardinality(b) + 1
    BY <2>1, <2>2, FS_AddElement
  <2>4. Cardinality(b \cup {x}) <= Cardinality(c)
    BY <2>1, <2>2, FS_Subset
  <2> QED  BY <2>2, <2>3, <2>4
<1>5. ASSUME NEW x \in S, NEW y \in S, RankIn(x, S, R) = RankIn(y, S, R)
      PROVE  x = y
  <2> SUFFICES ASSUME x # y PROVE FALSE
    OBVIOUS
  <2>1. <<x, y>> \in R \/ <<y, x>> \in R
    BY Zenon DEF StrictOrder
  <2>2. RankIn(x, S, R) \in Int /\ RankIn(y, S, R) \in Int
    BY <1>1, <1>3
  <2>3. RankIn(x, S, R) < RankIn(y, S, R) \/ RankIn(y, S, R) < RankIn(x, S, R)
    BY <1>4, <2>1
  <2> QED  BY <1>5, <2>2, <2>3
<1>6. ASSUME NEW n \in 0 .. N - 1 PROVE \E x \in S : RankIn(x, S, R) = n
  <2> DEFINE m == N - 1
             K == 0 .. m
             P == [x \in S |-> RankIn(x, S, R)]
  <2>1. m \in Int /\ 0 \in Int
    BY <1>1
  <2>2. IsFiniteSet(0 .. m) /\ Cardinality(0 .. m) = IF 0 > m THEN 0 ELSE m - 0 + 1
    <3> HIDE DEF m
    <3> QED  BY <2>1, FS_Interval, Zenon
  <2>3. IsFiniteSet(K) /\ Cardinality(K) = Cardinality(S) /\ n \in K
    BY <1>1, <2>2
  <2>4. P \in [S -> K] /\ \A x, y \in S : P[x] = P[y] => x = y
    BY <1>3, <1>5
  <2>5. P \in Injection(S, K)
    BY <2>4 DEF Injection, IsInjective
  <2> HIDE DEF P, K
  <2>6. P \in Surjection(S, K)
    BY <2>3, <2>5, FS_Injection, Zenon
  <2>7. \E x \in S : P[x] = n
    BY <2>3, <2>6 DEF Surjection
  <2> QED  BY <2>7 DEF P
<1> QED  BY <1>3, <1>4, <1>5, <1>6
=============================================================================
