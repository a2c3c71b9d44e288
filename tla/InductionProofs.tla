--------------------------- MODULE InductionProofs ---------------------------
(***************************************************************************)
(* Proofs that need induction over data: what the stakes of AutoBettor sum *)
(* to, and what the pages of Feed add up to, for any number of keys, rows, *)
(* and pages.                                                              *)
(*                                                                         *)
(* An induction theorem that takes a predicate cannot be used here, so     *)
(* both inductions below are about a set instead: the numbers, or the      *)
(* subsets of a finite set, for which something holds.  They follow from   *)
(* the existence of minimal elements in a well-founded order.              *)
(*                                                                         *)
(* The bets: Exposure, what is open or planned for each key, fits the cap  *)
(* with half a cent per bet for the rounding (Fits); a plan that looks at  *)
(* the open exposure keeps that, and every later step only shrinks a bet   *)
(* or moves it from planned to open.  The pages: what the client has is in *)
(* the order of the listing and every row that is due is with it or ahead  *)
(* of its cursor (WalkOK); the tables only grow, rows keep their times,    *)
(* and a row that stops matching does not match again.                     *)
(***************************************************************************)
EXTENDS AutoBettor, Feed, SequenceTheorems, FiniteSetTheorems, WellFoundedInduction, TLAPS

-----------------------------------------------------------------------------
(***************************************************************************)
(* Induction.                                                              *)
(***************************************************************************)

\* Induction over the natural numbers, for a set instead of a predicate.
LEMMA NatSetInduction ==
  ASSUME NEW N, 0 \in N, \A n \in Nat : n \in N => n + 1 \in N
  PROVE  Nat \subseteq N
<1> DEFINE R == OpToRel(<, Nat)
           T == Nat \ N
<1> SUFFICES ASSUME T # {} PROVE FALSE
  OBVIOUS
<1>1. IsWellFoundedOn(R, Nat)
  BY NatLessThanWellFounded
<1>2. T \subseteq Nat
  OBVIOUS
<1> HIDE DEF R, T
<1>3. PICK x \in T : \A y \in T : <<y, x>> \notin R
  BY <1>1, <1>2, WFMin
<1>4. x \in Nat /\ x # 0 /\ x \notin N
  BY <1>3 DEF T
<1>5. x - 1 \in Nat /\ x - 1 < x /\ x = (x - 1) + 1
  BY <1>4
<1>6. x - 1 \in T
  BY <1>4, <1>5 DEF T
<1>7. <<x - 1, x>> \in R
  BY <1>4, <1>5 DEF R, OpToRel
<1> QED
  BY <1>3, <1>6, <1>7

\* Induction over the subsets of a finite set, likewise.
LEMMA SubsetInduction ==
  ASSUME NEW S, IsFiniteSet(S), NEW P,
         \A T \in SUBSET S : (\A x \in T : T \ {x} \in P) => T \in P
  PROVE  SUBSET S \subseteq P
<1> DEFINE R == StrictSubsetOrdering(S)
           Q == (SUBSET S) \ P
<1> SUFFICES ASSUME Q # {} PROVE FALSE
  OBVIOUS
<1>1. IsWellFoundedOn(R, SUBSET S)
  <2>1. IsWellFoundedOn(R, FiniteSubsetsOf(S))
    BY FS_StrictSubsetOrderingWellFounded
  <2>2. FiniteSubsetsOf(S) = SUBSET S
    BY FS_FiniteSubsetsOfFinite
  <2> QED
    BY <2>1, <2>2
<1>2. Q \subseteq SUBSET S
  OBVIOUS
<1> HIDE DEF R, Q
<1>3. PICK T \in Q : \A U \in Q : <<U, T>> \notin R
  BY <1>1, <1>2, WFMin
<1>4. PICK x \in T : T \ {x} \notin P
  BY <1>3 DEF Q
<1>5. T \ {x} \in Q /\ T \ {x} \subseteq T /\ T \ {x} # T
  BY <1>3, <1>4 DEF Q
<1>6. <<T \ {x}, T>> \in R
  BY <1>3, <1>5 DEF R, StrictSubsetOrdering, Q
<1> QED
  BY <1>3, <1>5, <1>6

\* F tells the k-th value from the one before it.
Steps(F, n, D) == F \in [(1..n) \X D -> D]

Unfolds(t, F, n, D, base) ==
  t \in [0..n -> D] /\ t[0] = base /\ \A k \in 1..n : t[k] = F[<<k, t[k - 1]>>]

\* Such values exist.
LEMMA RecursionExists ==
  ASSUME NEW n \in Nat, NEW D, NEW base \in D, NEW F, Steps(F, n, D)
  PROVE  \E t : Unfolds(t, F, n, D, base)
<1> USE DEF Steps
<1> DEFINE Built(m, t) == t[0] = base /\ \A k \in 1..m : t[k] = F[<<k, t[k - 1]>>]
           N == {m \in Nat : m <= n => \E t \in [0..m -> D] : Built(m, t)}
<1>1. 0 \in N
  <2> DEFINE t == [k \in 0..0 |-> base]
  <2>1. t \in [0..0 -> D] /\ Built(0, t)
    OBVIOUS
  <2> QED
    BY <2>1
<1>2. ASSUME NEW m \in Nat, m \in N, m + 1 <= n
      PROVE  \E t \in [0..(m + 1) -> D] : Built(m + 1, t)
  <2>1. PICK t \in [0..m -> D] : Built(m, t)
    BY <1>2
  <2> DEFINE u == [k \in 0..(m + 1) |-> IF k <= m THEN t[k] ELSE F[<<m + 1, t[m]>>]]
  <2>2. t[m] \in D /\ m + 1 \in 1..n
    BY <1>2
  <2>3. F[<<m + 1, t[m]>>] \in D
    BY <2>2
  <2>4. u \in [0..(m + 1) -> D]
    BY <2>3
  <2>5. (\A k \in 0..m : u[k] = t[k]) /\ u[m + 1] = F[<<m + 1, t[m]>>]
    OBVIOUS
  <2> HIDE DEF u
  <2>6. ASSUME NEW k \in 1..(m + 1) PROVE u[k] = F[<<k, u[k - 1]>>]
    <3>1. CASE k = m + 1
      BY <2>5, <3>1
    <3>2. CASE k \in 1..m
      <4>1. k \in 0..m /\ k - 1 \in 0..m
        BY <3>2
      <4> QED
        BY <2>1, <2>5, <3>2, <4>1
    <3> QED
      BY <3>1, <3>2
  <2>7. u[0] = base
    BY <2>1, <2>5
  <2> QED
    BY <2>4, <2>6, <2>7
<1>3. \A m \in Nat : m \in N => m + 1 \in N
  <2> SUFFICES ASSUME NEW m \in Nat, m \in N, m + 1 <= n
               PROVE  \E t \in [0..(m + 1) -> D] : Built(m + 1, t)
    OBVIOUS
  <2> QED
    BY <1>2
<1>4. n \in N => \E t \in [0..n -> D] : Built(n, t)
  OBVIOUS
<1> HIDE DEF N
<1>5. Nat \subseteq N
  BY <1>1, <1>3, NatSetInduction
<1> QED
  BY <1>4, <1>5 DEF Unfolds

-----------------------------------------------------------------------------
(***************************************************************************)
(* Sums, as MapThenSumSet computes them: one element after the other, each *)
(* chosen among those that are left.                                       *)
(***************************************************************************)

Added(sum, f, s) ==
  IF s = {} THEN 0 ELSE f[CHOOSE x \in s : TRUE] + sum[s \ {CHOOSE x \in s : TRUE}]

\* The function that sums f over every subset of S.
Adds(sum, f, S) == sum = [s \in SUBSET S |-> Added(sum, f, s)]

\* It exists, whatever is chosen: it is built up from the smaller subsets.
LEMMA SumExists ==
  ASSUME NEW S, IsFiniteSet(S), NEW f
  PROVE  \E sum : Adds(sum, f, S)
<1> DEFINE Small(n) == {s \in SUBSET S : Cardinality(s) <= n}
           Rest(s) == s \ {CHOOSE x \in s : TRUE}
           Sums(g, n) == g = [s \in Small(n) |-> Added(g, f, s)]
           N == {n \in Nat : \E g : Sums(g, n)}
<1>1. \A s \in SUBSET S : IsFiniteSet(s) /\ Cardinality(s) \in Nat
  BY FS_Subset, FS_CardinalityType
<1>2. ASSUME NEW n \in Nat, NEW s \in Small(n + 1), s # {}
      PROVE  Rest(s) \in Small(n)
  <2>1. s \in SUBSET S /\ Cardinality(s) <= n + 1 /\ (CHOOSE x \in s : TRUE) \in s
    BY <1>2
  <2>2. Rest(s) \in SUBSET S /\ Cardinality(Rest(s)) = Cardinality(s) - 1
    BY <1>1, <2>1, FS_RemoveElement
  <2> QED
    BY <1>1, <2>1, <2>2
<1>3. Small(0) \subseteq {{}}
  BY <1>1, FS_EmptySet
<1>4. Small(Cardinality(S)) = SUBSET S
  BY FS_Subset
<1>5. ASSUME NEW n \in Nat PROVE Small(n) \subseteq Small(n + 1)
  BY <1>1
<1>6. \A g, s : Added(g, f, s) = IF s = {} THEN 0 ELSE f[CHOOSE x \in s : TRUE] + g[Rest(s)]
  BY DEF Added
<1> HIDE DEF Small, Rest
<1>7. 0 \in N
  <2> DEFINE g == [s \in Small(0) |-> 0]
  <2>1. g = [s \in Small(0) |-> Added(g, f, s)]
    BY <1>3, <1>6
  <2> QED
    BY <2>1
<1>8. ASSUME NEW n \in Nat, n \in N PROVE n + 1 \in N
  <2>1. PICK g : Sums(g, n)
    BY <1>8
  <2> DEFINE h == [s \in Small(n + 1) |-> Added(g, f, s)]
  <2>2. \A s \in Small(n) : s \in Small(n + 1) /\ g[s] = Added(g, f, s)
    BY <1>5, <2>1
  <2>3. \A s \in Small(n) : h[s] = g[s]
    BY <2>2
  <2>4. DOMAIN h = Small(n + 1) /\ \A s \in Small(n + 1) : h[s] = Added(g, f, s)
    OBVIOUS
  <2>5. h = [s \in DOMAIN h |-> h[s]]
    OBVIOUS
  <2> HIDE DEF h
  <2>6. \A s \in Small(n + 1) : Added(g, f, s) = Added(h, f, s)
    BY <1>2, <1>6, <2>3
  <2>7. h = [s \in Small(n + 1) |-> Added(h, f, s)]
    BY <2>4, <2>5, <2>6
  <2> QED
    BY <2>7
<1>9. Cardinality(S) \in N
  <2> HIDE DEF N
  <2>1. Nat \subseteq N
    BY <1>7, <1>8, NatSetInduction
  <2> QED
    BY <2>1, FS_CardinalityType
<1> QED
  BY <1>4, <1>9 DEF Adds

\* sum is the sum of f over every subset of S.
Sums(sum, f, S) ==
  \A T \in SUBSET S :
    /\ sum[T] \in Int
    /\ T = {} => sum[T] = 0
    /\ \A x \in T : sum[T \ {x}] \in Int /\ sum[T] = f[x] + sum[T \ {x}]

\* The order of the choices does not matter.
LEMMA SumRemove ==
  ASSUME NEW S, IsFiniteSet(S), NEW f, \A x \in S : f[x] \in Int, NEW sum, Adds(sum, f, S)
  PROVE  Sums(sum, f, S)
<1> DEFINE Good(T) == /\ sum[T] \in Int
                      /\ T = {} => sum[T] = 0
                      /\ \A x \in T : sum[T \ {x}] \in Int /\ sum[T] = f[x] + sum[T \ {x}]
           P == {T \in SUBSET S : Good(T)}
<1>0. \A T \in SUBSET S : sum[T] = Added(sum, f, T)
  BY DEF Adds
<1>1. ASSUME NEW T \in SUBSET S, \A x \in T : T \ {x} \in P PROVE Good(T)
  <2>1. CASE T = {}
    <3>1. sum[T] = 0
      BY <1>0, <2>1 DEF Added
    <3> QED
      BY <2>1, <3>1
  <2>2. CASE T # {}
    <3> DEFINE c == CHOOSE x \in T : TRUE
    <3>1. c \in T
      BY <2>2
    <3>2. sum[T] = f[c] + sum[T \ {c}]
      BY <1>0, <2>2 DEF Added
    <3> HIDE DEF c
    <3>3. \A x \in T : sum[T \ {x}] \in Int /\ f[x] \in Int
      BY <1>1
    <3>4. ASSUME NEW x \in T, x # c PROVE sum[T] = f[x] + sum[T \ {x}]
      <4> DEFINE U == (T \ {c}) \ {x}
      <4>1. U = (T \ {x}) \ {c} /\ x \in T \ {c} /\ c \in T \ {x}
        BY <3>1, <3>4
      <4>2. sum[U] \in Int /\ sum[T \ {c}] = f[x] + sum[U]
        BY <1>1, <3>1, <4>1
      <4>3. sum[T \ {x}] = f[c] + sum[U]
        BY <1>1, <3>4, <4>1
      <4> HIDE DEF U
      <4> QED
        BY <3>1, <3>2, <3>3, <4>2, <4>3
    <3>5. sum[T] \in Int
      <4>1. sum[T \ {c}] \in Int /\ f[c] \in Int
        BY <3>1, <3>3
      <4> QED
        BY <3>2, <4>1
    <3> QED
      BY <2>2, <3>2, <3>3, <3>4, <3>5
  <2> QED
    BY <2>1, <2>2
<1>2. \A T \in SUBSET S : (\A x \in T : T \ {x} \in P) => T \in P
  BY <1>1
<1>3. \A T \in P : Good(T)
  OBVIOUS
<1> HIDE DEF P
<1>4. SUBSET S \subseteq P
  BY <1>2, SubsetInduction
<1> QED
  BY <1>3, <1>4 DEF Sums

\* Total is such a sum.
LEMMA TotalSums ==
  ASSUME NEW S, IsFiniteSet(S), NEW f \in [S -> Int]
  PROVE  \E sum : Sums(sum, f, S) /\ Total(f) = sum[S]
<1>1. DOMAIN f = S
  OBVIOUS
<1>2. \E sum : Adds(sum, f, DOMAIN f)
  BY <1>1, SumExists
<1>3. PICK sum : Adds(sum, f, DOMAIN f) /\ Total(f) = sum[DOMAIN f]
  BY <1>2 DEF Total, MapThenSumSet, MapThenFoldSet, Adds, Added
<1>4. Sums(sum, f, S)
  BY <1>1, <1>3, SumRemove
<1> QED
  BY <1>1, <1>3, <1>4

\* Functions that agree have one sum.
LEMMA SumsAgree ==
  ASSUME NEW S, IsFiniteSet(S), NEW f, NEW g, NEW F, NEW G, Sums(F, f, S), Sums(G, g, S),
         NEW T \in SUBSET S, \A x \in T : f[x] = g[x]
  PROVE  F[T] = G[T]
<1> DEFINE P == {U \in SUBSET T : F[U] = G[U]}
<1>1. ASSUME NEW U \in SUBSET T, \A x \in U : U \ {x} \in P PROVE F[U] = G[U]
  <2>1. U \in SUBSET S /\ \A x \in U : f[x] = g[x] /\ F[U \ {x}] = G[U \ {x}]
    BY <1>1
  <2>2. \A x \in U : F[U] = f[x] + F[U \ {x}] /\ G[U] = g[x] + G[U \ {x}]
    BY <2>1 DEF Sums
  <2>3. U = {} => F[U] = 0 /\ G[U] = 0
    BY <2>1 DEF Sums
  <2>4. CASE U # {}
    <3>1. PICK x \in U : TRUE
      BY <2>4
    <3>2. f[x] = g[x] /\ F[U \ {x}] = G[U \ {x}]
      BY <2>1, <3>1
    <3>3. F[U] = f[x] + F[U \ {x}] /\ G[U] = g[x] + G[U \ {x}]
      BY <2>2, <3>1
    <3> QED
      BY <3>2, <3>3
  <2> QED
    BY <2>3, <2>4
<1>2. \A U \in SUBSET T : (\A x \in U : U \ {x} \in P) => U \in P
  BY <1>1
<1>3. \A U \in P : F[U] = G[U]
  OBVIOUS
<1>4. IsFiniteSet(T)
  BY FS_Subset
<1> HIDE DEF P
<1>5. SUBSET T \subseteq P
  BY <1>2, <1>4, SubsetInduction
<1> QED
  BY <1>3, <1>5

\* The sum changes by what one of its terms changes by.
LEMMA TotalChange ==
  ASSUME NEW S, IsFiniteSet(S), NEW f \in [S -> Int], NEW g \in [S -> Int], NEW k \in S,
         \A x \in S \ {k} : g[x] = f[x]
  PROVE  Total(f) \in Int /\ Total(g) = Total(f) - f[k] + g[k]
<1>1. PICK F : Sums(F, f, S) /\ Total(f) = F[S]
  BY TotalSums
<1>2. PICK G : Sums(G, g, S) /\ Total(g) = G[S]
  BY TotalSums
<1>3. F[S \ {k}] = G[S \ {k}]
  <2>1. S \ {k} \in SUBSET S /\ \A x \in S \ {k} : f[x] = g[x]
    OBVIOUS
  <2> QED
    BY <1>1, <1>2, <2>1, SumsAgree
<1>4. /\ F[S] \in Int /\ F[S \ {k}] \in Int /\ F[S] = f[k] + F[S \ {k}]
      /\ G[S] = g[k] + G[S \ {k}]
  BY <1>1, <1>2 DEF Sums
<1>5. f[k] \in Int /\ g[k] \in Int
  OBVIOUS
<1> QED
  BY <1>1, <1>2, <1>3, <1>4, <1>5

\* Sums add up.
LEMMA TotalPlus ==
  ASSUME NEW S, IsFiniteSet(S), NEW f \in [S -> Int], NEW g \in [S -> Int], NEW h \in [S -> Int],
         \A x \in S : h[x] = f[x] + g[x]
  PROVE  Total(h) = Total(f) + Total(g)
<1>1. PICK F : Sums(F, f, S) /\ Total(f) = F[S]
  BY TotalSums
<1>2. PICK G : Sums(G, g, S) /\ Total(g) = G[S]
  BY TotalSums
<1>3. PICK H : Sums(H, h, S) /\ Total(h) = H[S]
  BY TotalSums
<1> DEFINE P == {T \in SUBSET S : H[T] = F[T] + G[T]}
<1>4. ASSUME NEW T \in SUBSET S, \A x \in T : T \ {x} \in P PROVE H[T] = F[T] + G[T]
  <2>1. CASE T = {}
    BY <1>1, <1>2, <1>3, <2>1 DEF Sums
  <2>2. ASSUME NEW x \in T PROVE H[T] = F[T] + G[T]
    <3>1. H[T \ {x}] = F[T \ {x}] + G[T \ {x}]
      BY <1>4
    <3>2. F[T] = f[x] + F[T \ {x}] /\ G[T] = g[x] + G[T \ {x}] /\ H[T] = h[x] + H[T \ {x}]
      BY <1>1, <1>2, <1>3 DEF Sums
    <3>3. F[T \ {x}] \in Int /\ G[T \ {x}] \in Int /\ f[x] \in Int /\ g[x] \in Int
      BY <1>1, <1>2 DEF Sums
    <3>4. h[x] = f[x] + g[x]
      OBVIOUS
    <3> QED
      BY <3>1, <3>2, <3>3, <3>4
  <2> QED
    BY <2>1, <2>2
<1>5. \A T \in SUBSET S : (\A x \in T : T \ {x} \in P) => T \in P
  BY <1>4
<1>6. \A T \in P : H[T] = F[T] + G[T]
  OBVIOUS
<1> HIDE DEF P
<1>7. SUBSET S \subseteq P
  BY <1>5, SubsetInduction
<1> QED
  BY <1>1, <1>2, <1>3, <1>6, <1>7

\* Terms that are zero add nothing.
LEMMA ZeroSum ==
  ASSUME NEW S, IsFiniteSet(S), NEW f, NEW F, Sums(F, f, S),
         NEW T \in SUBSET S, \A x \in T : f[x] = 0
  PROVE  F[T] = 0
<1> DEFINE P == {U \in SUBSET T : F[U] = 0}
<1>1. ASSUME NEW U \in SUBSET T, \A x \in U : U \ {x} \in P PROVE F[U] = 0
  <2>1. U \in SUBSET S /\ \A x \in U : f[x] = 0 /\ F[U \ {x}] = 0
    BY <1>1
  <2>2. \A x \in U : F[U] = f[x] + F[U \ {x}]
    BY <2>1 DEF Sums
  <2>3. U = {} => F[U] = 0
    BY <2>1 DEF Sums
  <2>4. CASE U # {}
    <3>1. PICK x \in U : TRUE
      BY <2>4
    <3>2. f[x] = 0 /\ F[U \ {x}] = 0
      BY <2>1, <3>1
    <3>3. F[U] = f[x] + F[U \ {x}]
      BY <2>2, <3>1
    <3> QED
      BY <3>2, <3>3
  <2> QED
    BY <2>3, <2>4
<1>2. \A U \in SUBSET T : (\A x \in U : U \ {x} \in P) => U \in P
  BY <1>1
<1>3. \A U \in P : F[U] = 0
  OBVIOUS
<1>4. IsFiniteSet(T)
  BY FS_Subset
<1> HIDE DEF P
<1>5. SUBSET T \subseteq P
  BY <1>2, <1>4, SubsetInduction
<1> QED
  BY <1>3, <1>5

\* The sum of zeros is zero.
LEMMA TotalZero ==
  ASSUME NEW S, IsFiniteSet(S), NEW f \in [S -> Int], \A x \in S : f[x] = 0
  PROVE  Total(f) = 0
BY TotalSums, ZeroSum

\* The sum of a function that is zero but at one place is what it is there.
LEMMA TotalSingle ==
  ASSUME NEW S, IsFiniteSet(S), NEW f \in [S -> Int], NEW k \in S, \A x \in S \ {k} : f[x] = 0
  PROVE  Total(f) = f[k]
<1>1. PICK F : Sums(F, f, S) /\ Total(f) = F[S]
  BY TotalSums
<1>2. F[S \ {k}] = 0
  <2>1. S \ {k} \in SUBSET S
    OBVIOUS
  <2> QED
    BY <1>1, <2>1, ZeroSum
<1>3. F[S] = f[k] + F[S \ {k}]
  BY <1>1 DEF Sums
<1> QED
  BY <1>1, <1>2, <1>3

\* A function that is zero elsewhere has the sum of the part that may not be.
LEMMA TotalExtend ==
  ASSUME NEW K, IsFiniteSet(K), NEW S \in SUBSET K, NEW f \in [S -> Int], NEW g \in [K -> Int],
         \A x \in K : g[x] = IF x \in S THEN f[x] ELSE 0
  PROVE  Total(g) = Total(f)
<1>1. IsFiniteSet(S)
  BY FS_Subset
<1>2. PICK F : Sums(F, f, S) /\ Total(f) = F[S]
  BY <1>1, TotalSums
<1>3. PICK G : Sums(G, g, K) /\ Total(g) = G[K]
  BY TotalSums
<1>4. G[S] = F[S]
  <2>1. Sums(G, g, S)
    BY <1>3 DEF Sums
  <2>2. S \in SUBSET S /\ \A x \in S : g[x] = f[x]
    OBVIOUS
  <2> QED
    BY <1>1, <1>2, <2>1, <2>2, SumsAgree
<1> DEFINE P == {T \in SUBSET K : S \subseteq T => G[T] = G[S]}
<1>5. ASSUME NEW T \in SUBSET K, \A x \in T : T \ {x} \in P, S \subseteq T PROVE G[T] = G[S]
  <2>1. CASE T = S
    BY <2>1
  <2>2. CASE T # S
    <3>1. PICK x \in T : x \notin S
      BY <1>5, <2>2
    <3>2. G[T \ {x}] = G[S]
      BY <1>5, <3>1
    <3>3. G[T] = g[x] + G[T \ {x}] /\ G[T \ {x}] \in Int
      BY <1>3 DEF Sums
    <3>4. g[x] = 0
      BY <3>1
    <3> QED
      BY <3>2, <3>3, <3>4
  <2> QED
    BY <2>1, <2>2
<1>6. \A T \in SUBSET K : (\A x \in T : T \ {x} \in P) => T \in P
  BY <1>5
<1>7. \A T \in P : S \subseteq T => G[T] = G[S]
  OBVIOUS
<1> HIDE DEF P
<1>8. SUBSET K \subseteq P
  BY <1>6, SubsetInduction
<1> QED
  BY <1>2, <1>3, <1>4, <1>7, <1>8

Positive(f, S) == {x \in S : f[x] > 0}

\* What is positive, one element less.
LEMMA PositiveRemove ==
  ASSUME NEW T, IsFiniteSet(T), NEW f, NEW x \in T
  PROVE  /\ Cardinality(Positive(f, T \ {x})) \in Nat
         /\ Cardinality(Positive(f, T))
              = Cardinality(Positive(f, T \ {x})) + IF f[x] > 0 THEN 1 ELSE 0
<1>1. IsFiniteSet(Positive(f, T \ {x}))
  <2>1. Positive(f, T \ {x}) \in SUBSET T
    BY DEF Positive
  <2> QED
    BY <2>1, FS_Subset
<1>2. x \notin Positive(f, T \ {x})
  BY DEF Positive
<1>3. CASE f[x] > 0
  <2>1. Positive(f, T) = Positive(f, T \ {x}) \union {x}
    BY <1>3 DEF Positive
  <2> QED
    BY <1>1, <1>2, <1>3, <2>1, FS_AddElement, FS_CardinalityType
<1>4. CASE ~(f[x] > 0)
  <2>1. Positive(f, T) = Positive(f, T \ {x})
    BY <1>4 DEF Positive
  <2> QED
    BY <1>1, <1>4, <2>1, FS_CardinalityType
<1> QED
  BY <1>3, <1>4

\* A bound on every term, with an allowance for each that is positive, is one
\* on the sum; and every positive term counts for one at least.
LEMMA TotalBound ==
  ASSUME NEW S, IsFiniteSet(S), NEW f \in [S -> Nat], NEW g \in [S -> Nat],
         NEW a \in Nat, NEW b \in Nat, NEW c \in Nat,
         \A x \in S : a * f[x] <= b * g[x] + (IF f[x] > 0 THEN c ELSE 0)
  PROVE  /\ Total(f) \in Nat /\ Total(g) \in Nat /\ Cardinality(Positive(f, S)) \in Nat
         /\ Cardinality(Positive(f, S)) <= Total(f)
         /\ a * Total(f) <= b * Total(g) + c * Cardinality(Positive(f, S))
<1>0. f \in [S -> Int] /\ g \in [S -> Int]
  OBVIOUS
<1>1. PICK F : Sums(F, f, S) /\ Total(f) = F[S]
  BY <1>0, TotalSums
<1>2. PICK G : Sums(G, g, S) /\ Total(g) = G[S]
  BY <1>0, TotalSums
<1> DEFINE n(T) == Cardinality(Positive(f, T))
           Good(T) == /\ F[T] \in Nat /\ G[T] \in Nat /\ n(T) \in Nat /\ n(T) <= F[T]
                      /\ a * F[T] <= b * G[T] + c * n(T)
           P == {T \in SUBSET S : Good(T)}
<1>3. ASSUME NEW T \in SUBSET S, \A x \in T : T \ {x} \in P PROVE Good(T)
  <2>1. CASE T = {}
    <3>1. F[T] = 0 /\ G[T] = 0
      BY <1>1, <1>2, <2>1 DEF Sums
    <3>2. n(T) = 0
      BY <2>1, FS_EmptySet DEF Positive
    <3> HIDE DEF n
    <3> QED
      BY <3>1, <3>2
  <2>2. ASSUME NEW x \in T PROVE Good(T)
    <3>1. Good(T \ {x})
      BY <1>3
    <3>2. F[T] = f[x] + F[T \ {x}] /\ G[T] = g[x] + G[T \ {x}]
      BY <1>1, <1>2 DEF Sums
    <3>3. n(T) = n(T \ {x}) + IF f[x] > 0 THEN 1 ELSE 0
      <4>1. IsFiniteSet(T)
        BY FS_Subset
      <4> QED
        BY <4>1, PositiveRemove
    <3> DEFINE F0 == F[T \ {x}]
               G0 == G[T \ {x}]
               n0 == n(T \ {x})
    <3>4. /\ F0 \in Nat /\ G0 \in Nat /\ n0 \in Nat /\ n0 <= F0 /\ a * F0 <= b * G0 + c * n0
          /\ f[x] \in Nat /\ g[x] \in Nat /\ a * f[x] <= b * g[x] + (IF f[x] > 0 THEN c ELSE 0)
      BY <3>1
    <3>5. F[T] = f[x] + F0 /\ G[T] = g[x] + G0 /\ n(T) = n0 + IF f[x] > 0 THEN 1 ELSE 0
      BY <3>2, <3>3
    <3> HIDE DEF n, F0, G0, n0
    <3>6. F[T] \in Nat /\ G[T] \in Nat /\ n(T) \in Nat /\ n(T) <= F[T]
      BY <3>4, <3>5
    <3>7. a * F[T] = a * f[x] + a * F0 /\ b * G[T] = b * g[x] + b * G0
      BY <3>4, <3>5
    <3>8. c * n(T) = c * n0 + IF f[x] > 0 THEN c ELSE 0
      BY <3>4, <3>5
    <3> QED
      BY <3>4, <3>6, <3>7, <3>8
  <2> QED
    BY <2>1, <2>2
<1>4. \A T \in SUBSET S : (\A x \in T : T \ {x} \in P) => T \in P
  BY <1>3
<1>5. \A T \in P : Good(T)
  OBVIOUS
<1> HIDE DEF P
<1>6. SUBSET S \subseteq P
  BY <1>4, SubsetInduction
<1> QED
  BY <1>1, <1>2, <1>5, <1>6

-----------------------------------------------------------------------------
(***************************************************************************)
(* plan: what is staked fits into what is available.                       *)
(***************************************************************************)

\* Rounding errs by half a unit at most.
LEMMA RoundDivBound ==
  ASSUME NEW n \in Nat, NEW d \in Nat \ {0}
  PROVE  RoundDiv(n, d) \in Nat /\ 2 * (d * RoundDiv(n, d)) <= 2 * n + d
<1> DEFINE q == n \div d
           m == n % d
           r == RoundDiv(n, d)
<1>1. q \in Nat /\ m \in Nat /\ m < d /\ n = d * q + m
  OBVIOUS
<1>2. \/ r = q
      \/ r = q + 1 /\ 2 * m >= d
  BY <1>1 DEF RoundDiv
<1>3. d * (q + 1) = d * q + d
  BY <1>1
<1>4. d * q \in Nat
  BY <1>1
<1> HIDE DEF q, m, r
<1>5. r \in Nat /\ 2 * (d * r) <= 2 * n + d
  BY <1>1, <1>2, <1>3, <1>4
<1> QED
  BY <1>5 DEF r

\* The room under the cap is never negative.
LEMMA AvailableNat ==
  ASSUME NEW bankroll \in Nat, NEW open \in Nat
  PROVE  Available(bankroll, open) \in Nat
BY MoneyAssumption DEF Available

\* What a plan stakes in all fits the room it saw, rounding apart.
LEMMA StakesFit ==
  ASSUME NEW keys \in SUBSET Key, NEW kelly \in [keys -> Kelly],
         NEW bankroll \in Nat, NEW open \in Nat
  PROVE  LET sized == Stakes(kelly, bankroll, open)
             n == Cardinality(Positive(sized, keys))
         IN  /\ sized \in [keys -> Nat]
             /\ Total(sized) \in Nat /\ n \in Nat /\ n <= Total(sized)
             /\ 100 * Total(sized) <= Available(bankroll, open) + 50 * n
<1> DEFINE total == Total(kelly)
           room == Available(bankroll, open)
           sized == Stakes(kelly, bankroll, open)
           n == Cardinality(Positive(sized, keys))
<1>1. IsFiniteSet(keys)
  BY FiniteAssumption, FS_Subset
<1>2. kelly \in [keys -> Nat] /\ DOMAIN kelly = keys
  <2>1. Kelly \subseteq Nat
    BY KellyAssumption
  <2> QED
    BY <2>1
<1>3. room \in Nat
  BY AvailableNat
<1>4. total \in Nat
  <2>1. \A x \in keys : 0 * kelly[x] <= 0 * kelly[x] + (IF kelly[x] > 0 THEN 0 ELSE 0)
    BY <1>2
  <2> QED
    BY <1>1, <1>2, <2>1, TotalBound
<1>5. CASE total * bankroll <= room
  <2>1. sized = [k \in keys |-> RoundDiv(kelly[k] * bankroll, 100)]
    BY <1>2, <1>5 DEF Stakes
  <2> DEFINE a == 100
             c == 50
  <2> HIDE DEF sized
  <2>2. ASSUME NEW k \in keys
        PROVE  /\ sized[k] \in Nat
               /\ a * sized[k] <= bankroll * kelly[k] + (IF sized[k] > 0 THEN c ELSE 0)
    <3>1. kelly[k] * bankroll \in Nat /\ bankroll * kelly[k] = kelly[k] * bankroll
      BY <1>2
    <3>2. sized[k] = RoundDiv(kelly[k] * bankroll, a) /\ a \in Nat \ {0}
      BY <2>1
    <3>3. sized[k] \in Nat /\ 2 * (a * sized[k]) <= 2 * (kelly[k] * bankroll) + a
      <4> HIDE DEF a
      <4> QED
        BY <3>1, <3>2, RoundDivBound
    <3> QED
      BY <3>1, <3>3
  <2>3. sized \in [keys -> Nat]
    BY <2>1, <2>2
  <2>4. a \in Nat /\ c \in Nat
    OBVIOUS
  <2>5. /\ Total(sized) \in Nat /\ n \in Nat /\ n <= Total(sized)
        /\ a * Total(sized) <= bankroll * total + c * n
    <3> HIDE DEF a, c
    <3> QED
      BY <1>1, <1>2, <2>2, <2>3, <2>4, TotalBound
  <2>6. bankroll * total <= room /\ bankroll * total \in Nat
    BY <1>4, <1>5
  <2> HIDE DEF n, total, room
  <2>7. 100 * Total(sized) <= room + 50 * n
    BY <1>3, <2>5, <2>6
  <2> QED
    BY <2>3, <2>5, <2>7 DEF sized, n, room
<1>6. CASE total * bankroll > room
  <2>0. total > 0 /\ total * 100 \in Nat \ {0}
    BY <1>3, <1>4, <1>6
  <2>1. sized = [k \in keys |-> RoundDiv(kelly[k] * room, total * 100)]
    BY <1>2, <1>3, <1>4, <1>6 DEF Stakes
  <2> DEFINE a == 100 * total
             c == 50 * total
  <2>2. ASSUME NEW k \in keys
        PROVE  /\ sized[k] \in Nat
               /\ a * sized[k] <= room * kelly[k] + (IF sized[k] > 0 THEN c ELSE 0)
    <3>1. kelly[k] * room \in Nat /\ room * kelly[k] = kelly[k] * room
      BY <1>2, <1>3
    <3>2. /\ sized[k] \in Nat
          /\ 2 * ((total * 100) * sized[k]) <= 2 * (kelly[k] * room) + total * 100
      BY <2>0, <2>1, <3>1, RoundDivBound
    <3>3. (total * 100) * sized[k] = a * sized[k] /\ total * 100 = 2 * c
      BY <1>4
    <3>4. a * sized[k] \in Nat /\ c \in Nat /\ (sized[k] = 0 => a * sized[k] = 0)
      BY <1>4, <3>2
    <3> HIDE DEF sized, total, room, a, c
    <3> QED
      BY <3>1, <3>2, <3>3, <3>4
  <2>3. sized \in [keys -> Nat]
    BY <2>1, <2>2
  <2>4. a \in Nat /\ c \in Nat
    BY <1>4
  <2> HIDE DEF sized
  <2>5. /\ Total(sized) \in Nat /\ n \in Nat /\ n <= Total(sized)
        /\ a * Total(sized) <= room * total + c * n
    <3> HIDE DEF a, c
    <3> QED
      BY <1>1, <1>2, <1>3, <2>2, <2>3, <2>4, TotalBound
  <2> HIDE DEF n, room
  <2> DEFINE t == Total(sized)
  <2>6. a * t = total * (100 * t) /\ room * total + c * n = total * (room + 50 * n)
    BY <1>3, <1>4, <2>5
  <2>7. t \in Nat
    BY <2>5
  <2> HIDE DEF t, total
  <2>8. 100 * t <= room + 50 * n
    <3> DEFINE u == 100 * t
               v == room + 50 * n
    <3>1. u \in Nat /\ v \in Nat /\ total \in Nat /\ total > 0 /\ total * u <= total * v
      BY <1>3, <1>4, <2>0, <2>5, <2>6, <2>7 DEF t
    <3> HIDE DEF u, v
    <3>2. u <= v
      BY <3>1
    <3> QED
      BY <3>2 DEF u, v
  <2> QED
    BY <2>3, <2>5, <2>8 DEF sized, n, room, t
<1> QED
  BY <1>3, <1>4, <1>5, <1>6

-----------------------------------------------------------------------------
(***************************************************************************)
(* The invariant.                                                          *)
(***************************************************************************)

\* What is open under each key or still to be placed by its league's run.
Exposure == [k \in Key |-> bets[k] + stakes[KeyLeague[k]][k]]

Fits(exposure) == 100 * Total(exposure) <= Cap * Bankroll + 50 * Cardinality(Positive(exposure, Key))

BetInv ==
  /\ TypeOK
  /\ \A l \in League : pc[l] = "pricing" => stakes[l] = NoStakes
  /\ ~blind => parlays = 0 /\ Fits(Exposure)

\* The sum and the number of stakes are natural numbers.
LEMMA TotalNat ==
  ASSUME NEW f \in [Key -> Nat]
  PROVE  Total(f) \in Nat /\ Cardinality(Positive(f, Key)) \in Nat
<1>1. \A x \in Key : 0 * f[x] <= 0 * f[x] + (IF f[x] > 0 THEN 0 ELSE 0)
  OBVIOUS
<1> QED
  BY <1>1, TotalBound, FiniteAssumption

\* Smaller stakes have fewer positive ones.
LEMMA PositiveMonotonic ==
  ASSUME NEW f \in [Key -> Nat], NEW g \in [Key -> Nat], \A k \in Key : f[k] > 0 => g[k] > 0
  PROVE  Cardinality(Positive(f, Key)) <= Cardinality(Positive(g, Key))
<1>1. Positive(f, Key) \in SUBSET Positive(g, Key) /\ Positive(g, Key) \in SUBSET Key
  BY DEF Positive
<1> QED
  BY <1>1, FiniteAssumption, FS_Subset

\* What fits still does when a bet shrinks, and even when it goes and takes
\* its allowance for rounding with it: a bet is a cent at least.
LEMMA FitsLess ==
  ASSUME NEW e \in [Key -> Nat], NEW f \in [Key -> Nat], Fits(e), NEW k \in Key,
         \A x \in Key \ {k} : f[x] = e[x], f[k] <= e[k]
  PROVE  Fits(f)
<1>1. Total(f) = Total(e) - e[k] + f[k] /\ Total(e) \in Int
  <2>1. e \in [Key -> Int] /\ f \in [Key -> Int]
    OBVIOUS
  <2> QED
    BY <2>1, FiniteAssumption, TotalChange
<1> DEFINE rest == Cardinality(Positive(e, Key \ {k}))
<1>2. Positive(e, Key \ {k}) = Positive(f, Key \ {k})
  BY DEF Positive
<1>3. /\ rest \in Nat
      /\ Cardinality(Positive(e, Key)) = rest + IF e[k] > 0 THEN 1 ELSE 0
      /\ Cardinality(Positive(f, Key)) = rest + IF f[k] > 0 THEN 1 ELSE 0
  BY <1>2, FiniteAssumption, PositiveRemove
<1>4. e[k] \in Nat /\ f[k] \in Nat /\ Cap * Bankroll \in Nat
  BY MoneyAssumption
<1> HIDE DEF rest
<1> QED
  BY <1>1, <1>3, <1>4 DEF Fits

\* What is open or planned is a stake for every key.
LEMMA ExposureNat ==
  /\ TypeOK => Exposure \in [Key -> Nat]
  /\ TypeOK' => Exposure' \in [Key -> Nat]
<1>1. \A k \in Key : KeyLeague[k] \in League
  BY KeyAssumption
<1> QED
  BY <1>1 DEF TypeOK, Exposure

\* At the start nothing is open or planned.
LEMMA BetInit == Init => BetInv
<1> SUFFICES ASSUME Init PROVE BetInv
  OBVIOUS
<1> USE DEF Init
<1>1. NoStakes \in [Key -> Nat]
  BY DEF NoStakes
<1>2. TypeOK
  BY <1>1 DEF TypeOK, NoStakes
<1>3. \A k \in Key : Exposure[k] = 0
  BY KeyAssumption DEF Exposure, NoStakes
<1>4. Exposure \in [Key -> Nat]
  BY <1>2, ExposureNat
<1>5. Total(Exposure) = 0
  <2>1. Exposure \in [Key -> Int]
    BY <1>4
  <2> QED
    BY <1>3, <2>1, FiniteAssumption, TotalZero
<1>6. Cap * Bankroll \in Nat /\ Cardinality(Positive(Exposure, Key)) \in Nat
  BY <1>4, TotalNat, MoneyAssumption
<1>7. Fits(Exposure)
  BY <1>5, <1>6 DEF Fits
<1> QED
  BY <1>2, <1>7 DEF BetInv

\* The types, after a run has sized its bets.
LEMMA SizedTypes ==
  ASSUME BetInv, NEW l \in League, NEW bankroll \in Nat, NEW open \in Nat,
         SizeFor(l, bankroll, open)
  PROVE  /\ TypeOK'
         /\ \A m \in League : pc'[m] = "pricing" => stakes'[m] = NoStakes
<1> USE DEF BetInv, SizeFor
<1> DEFINE Sized(kelly, keys) ==
      stakes' = [stakes EXCEPT ![l] =
                   [k \in Key |-> IF k \in keys THEN Stakes(kelly, bankroll, open)[k] ELSE 0]]
<1>0. PICK bettable \in SUBSET KeysOf(l) : \E kelly \in [bettable -> Kelly] : Sized(kelly, bettable)
  OBVIOUS
<1>1. PICK kelly \in [bettable -> Kelly] : Sized(kelly, bettable)
  BY <1>0
<1> DEFINE sized == Stakes(kelly, bankroll, open)
           new == [k \in Key |-> IF k \in bettable THEN sized[k] ELSE 0]
<1>2. sized \in [bettable -> Nat]
  <2>1. bettable \in SUBSET Key
    BY DEF KeysOf
  <2> QED
    BY <2>1, StakesFit
<1>3. stakes' = [stakes EXCEPT ![l] = new]
  BY <1>1
<1> HIDE DEF sized
<1>4. new \in [Key -> Nat] /\ \A k \in Key : new[k] > 0 => KeyLeague[k] = l
  BY <1>2 DEF KeysOf
<1> HIDE DEF new
<1>5. TypeOK'
  BY <1>3, <1>4 DEF TypeOK
<1>6. \A m \in League : pc'[m] = "pricing" => stakes'[m] = NoStakes
  BY <1>3 DEF TypeOK
<1> QED
  BY <1>5, <1>6

\* A plan that looks at all there is keeps the cap.
LEMMA FetchAndPlanInv == ASSUME BetInv, NEW l \in League, FetchAndPlan(l) PROVE BetInv'
<1> USE DEF BetInv, FetchAndPlan
<1>0. bets \in [Key -> Nat] /\ Total(bets) \in Nat
  BY TotalNat DEF TypeOK
<1>1. OpenExposure \in Nat /\ Bankroll \in Nat /\ Cap * Bankroll \in Nat
  BY <1>0, MoneyAssumption DEF OpenExposure, TypeOK
<1>2. /\ TypeOK'
      /\ \A m \in League : pc'[m] = "pricing" => stakes'[m] = NoStakes
  BY <1>1, SizedTypes
<1>3. ASSUME ~blind' PROVE Fits(Exposure)'
  <2>1. ~blind /\ parlays = 0 /\ Fits(Exposure) /\ pc[l] = "pricing" /\ bets' = bets
    BY <1>3 DEF SizeFor
  <2>2. \A m \in League : stakes[m] = NoStakes
    BY <1>3, <2>1 DEF OthersPending
  <2>3. \A k \in Key : Exposure[k] = bets[k]
    BY <1>0, <2>2, KeyAssumption DEF Exposure, NoStakes
  <2>4. Exposure = bets
    BY <1>0, <2>3 DEF Exposure
  <2> DEFINE open == Total(bets)
  <2> DEFINE Sized(kelly, keys) ==
        stakes' = [stakes EXCEPT ![l] =
                     [k \in Key |-> IF k \in keys THEN Stakes(kelly, Bankroll, OpenExposure)[k] ELSE 0]]
  <2>a. PICK bettable \in SUBSET KeysOf(l) : \E kelly \in [bettable -> Kelly] : Sized(kelly, bettable)
    BY DEF SizeFor
  <2>5. PICK kelly \in [bettable -> Kelly] : Sized(kelly, bettable)
    BY <2>a
  <2> DEFINE sized == Stakes(kelly, Bankroll, open)
             new == [k \in Key |-> IF k \in bettable THEN sized[k] ELSE 0]
             n == Cardinality(Positive(sized, bettable))
             room == Available(Bankroll, open)
  <2>6. OpenExposure = open
    BY <1>0, <2>1 DEF OpenExposure
  <2>7. bettable \in SUBSET Key
    BY DEF KeysOf
  <2>8. /\ sized \in [bettable -> Nat] /\ Total(sized) \in Nat /\ n \in Nat /\ n <= Total(sized)
        /\ 100 * Total(sized) <= room + 50 * n
    BY <1>0, <1>1, <2>7, StakesFit
  <2>9. stakes' = [stakes EXCEPT ![l] = new]
    BY <2>5, <2>6
  <2> HIDE DEF sized
  <2>10. new \in [Key -> Nat] /\ Total(new) = Total(sized)
    <3>1. new \in [Key -> Nat]
      BY <2>7, <2>8
    <3>2. new \in [Key -> Int] /\ sized \in [bettable -> Int]
      BY <3>1, <2>8
    <3>3. \A x \in Key : new[x] = IF x \in bettable THEN sized[x] ELSE 0
      OBVIOUS
    <3> HIDE DEF new
    <3> QED
      BY <3>1, <3>2, <3>3, <2>7, FiniteAssumption, TotalExtend
  <2>11. Positive(new, Key) = Positive(sized, bettable)
    BY <2>7, <2>8 DEF Positive
  <2>12. \A k \in Key : k \notin bettable => new[k] = 0
    OBVIOUS
  <2> HIDE DEF new
  <2>13. Exposure' \in [Key -> Nat]
    BY <1>2, ExposureNat
  <2>14. \A k \in Key : Exposure'[k] = bets[k] + new[k]
    <3> TAKE k \in Key
    <3>1. Exposure'[k] = bets[k] + stakes'[KeyLeague[k]][k] /\ KeyLeague[k] \in League
      BY <2>1, KeyAssumption DEF Exposure
    <3>2. CASE KeyLeague[k] = l
      BY <2>9, <3>1, <3>2 DEF TypeOK
    <3>3. CASE KeyLeague[k] # l
      <4>1. k \notin bettable
        BY <3>3 DEF KeysOf
      <4>2. stakes'[KeyLeague[k]] = NoStakes
        BY <2>2, <2>9, <3>1, <3>3 DEF TypeOK
      <4> QED
        BY <2>12, <3>1, <4>1, <4>2 DEF NoStakes
    <3> QED
      BY <3>2, <3>3
  <2>15. Total(Exposure') = open + Total(new)
    <3>1. Exposure' \in [Key -> Int] /\ bets \in [Key -> Int] /\ new \in [Key -> Int]
      BY <1>0, <2>10, <2>13
    <3> QED
      BY <2>14, <3>1, FiniteAssumption, TotalPlus
  <2> DEFINE all == Cardinality(Positive(Exposure', Key))
             old == Cardinality(Positive(bets, Key))
  <2>16. n <= all /\ old <= all /\ all \in Nat /\ old \in Nat
    <3>1. \A k \in Key : new[k] > 0 => Exposure'[k] > 0
      BY <1>0, <2>10, <2>14
    <3>2. \A k \in Key : bets[k] > 0 => Exposure'[k] > 0
      BY <1>0, <2>10, <2>14
    <3> QED
      BY <1>0, <2>10, <2>11, <2>13, <3>1, <3>2, PositiveMonotonic, TotalNat
  <2>17. 100 * open <= Cap * Bankroll + 50 * old
    BY <2>1, <2>4 DEF Fits
  <2>18. room = 0 \/ room = Cap * Bankroll - 100 * open
    BY DEF Available
  <2> DEFINE t == Total(sized)
  <2>19. Total(Exposure') = open + t
    BY <2>10, <2>15
  <2>20. open \in Nat /\ t \in Nat /\ n \in Nat /\ n <= t /\ 100 * t <= room + 50 * n
    BY <1>0, <2>8
  <2> HIDE DEF n, room, all, old, open, t
  <2>21. 100 * (open + t) <= Cap * Bankroll + 50 * all
    BY <1>1, <2>16, <2>17, <2>18, <2>20
  <2> QED
    BY <2>19, <2>21 DEF Fits, all
<1>4. ~blind' => parlays' = 0
  BY DEF SizeFor
<1> QED
  BY <1>2, <1>3, <1>4

\* The steps that leave a key with no more than it has, and the others alone.
LEMMA LessInv ==
  ASSUME BetInv, TypeOK', NEW k \in Key,
         \A l \in League : pc'[l] = "pricing" => stakes'[l] = NoStakes,
         blind' = blind, parlays' = parlays,
         \A x \in Key \ {k} : Exposure'[x] = Exposure[x], Exposure'[k] <= Exposure[k]
  PROVE  BetInv'
<1>1. Exposure \in [Key -> Nat] /\ Exposure' \in [Key -> Nat]
  BY ExposureNat DEF BetInv
<1>2. Fits(Exposure) => Fits(Exposure')
  BY <1>1, FitsLess
<1> QED
  BY <1>2 DEF BetInv, Fits

\* A placed bet is open instead of pending; one that is not, or was already
\* there, is pending no more.
LEMMA PlaceInv ==
  ASSUME BetInv, NEW l \in League, NEW k \in Key, PlaceBet(l, k) \/ PlaceBetFails(l, k)
  PROVE  BetInv'
<1>0. /\ pc[l] = "betting" /\ stakes[l][k] > 0
      /\ pc' = pc /\ parlays' = parlays /\ blind' = blind
      /\ stakes' = [stakes EXCEPT ![l][k] = 0]
      /\ bets' = bets \/ (bets[k] = 0 /\ bets' = [bets EXCEPT ![k] = stakes[l][k]])
  BY DEF PlaceBet, PlaceBetFails, Place
<1> USE DEF BetInv
<1>1. stakes[l][k] \in Nat /\ bets[k] \in Nat /\ KeyLeague[k] = l
  BY <1>0 DEF TypeOK
<1>2. TypeOK'
  BY <1>0, <1>1 DEF TypeOK
<1>3. \A m \in League : pc'[m] = "pricing" => stakes'[m] = NoStakes
  BY <1>0, <1>1 DEF TypeOK
<1>4. \A x \in Key \ {k} : Exposure'[x] = Exposure[x]
  BY <1>0, <1>1, KeyAssumption DEF TypeOK, Exposure
<1>5. Exposure'[k] <= Exposure[k]
  <2>1. Exposure[k] = bets[k] + stakes[l][k] /\ Exposure'[k] = bets'[k] + stakes'[l][k]
    BY <1>0, <1>1 DEF Exposure
  <2>2. stakes'[l][k] = 0
    BY <1>0, <1>1 DEF TypeOK
  <2>3. bets'[k] = bets[k] \/ (bets[k] = 0 /\ bets'[k] = stakes[l][k])
    BY <1>0, <1>1 DEF TypeOK
  <2> QED
    BY <1>1, <2>1, <2>2, <2>3
<1> QED
  BY <1>0, <1>2, <1>3, <1>4, <1>5, LessInv

\* Every step preserves it.
LEMMA BetNext == ASSUME BetInv, [Next]_vars PROVE BetInv'
<1>1. ASSUME NEW l \in League, FetchAndPlan(l) PROVE BetInv'
  BY <1>1, FetchAndPlanInv
<1>2. ASSUME NEW l \in League, FetchFailsAndPlan(l) PROVE BetInv'
  <2>1. Fallback \in Nat /\ 0 \in Nat /\ blind'
    BY <1>2, MoneyAssumption DEF FetchFailsAndPlan
  <2> QED
    BY <1>2, <2>1, SizedTypes DEF FetchFailsAndPlan, BetInv
<1>3. ASSUME NEW l \in League, PlaceParlay(l) PROVE BetInv'
  BY <1>3 DEF PlaceParlay, BetInv, TypeOK
<1>4. ASSUME NEW l \in League, EndRun(l) PROVE BetInv'
  BY <1>4 DEF EndRun, BetInv, TypeOK, Exposure, Fits
<1>5. ASSUME NEW l \in League, NEW k \in Key, PlaceBet(l, k) \/ PlaceBetFails(l, k) PROVE BetInv'
  BY <1>5, PlaceInv
<1>6. CASE UNCHANGED vars
  BY <1>6 DEF vars, BetInv, TypeOK, Exposure, Fits
<1> QED
  BY <1>1, <1>2, <1>3, <1>4, <1>5, <1>6 DEF Next

\* What is open or planned fits into the cap, unless a plan was blind to some
\* of it: for any leagues, keys, Kelly fractions, bankroll, cap and faults.
THEOREM BetInvariant == Spec => []BetInv
<1> QED
  BY BetInit, BetNext, PTL DEF Spec

\* The cap on the open exposure is only exceeded through what no plan looks
\* at: a run's bets fit beside the open ones, and failures only free room.
THEOREM CapHolds == Spec => []CapExceededOnlyBlindly
<1>1. ASSUME BetInv, ~blind
      PROVE  LET pending == [k \in Key |-> Total([l \in League |-> stakes[l][k]])]
             IN  WithinCap(OpenExposure + Total(pending),
                           OpenKeys \union {k \in Key : pending[k] > 0})
  <2> DEFINE pending == [k \in Key |-> Total([l \in League |-> stakes[l][k]])]
  <2>1. \A k \in Key : pending[k] = stakes[KeyLeague[k]][k]
    <3> TAKE k \in Key
    <3> DEFINE f == [l \in League |-> stakes[l][k]]
    <3>1. f \in [League -> Int] /\ KeyLeague[k] \in League
      BY <1>1, KeyAssumption DEF BetInv, TypeOK
    <3>2. \A l \in League \ {KeyLeague[k]} : f[l] = 0
      BY <1>1 DEF BetInv, TypeOK
    <3>3. f[KeyLeague[k]] = stakes[KeyLeague[k]][k]
      BY <3>1
    <3>4. pending[k] = Total(f)
      OBVIOUS
    <3> HIDE DEF f, pending
    <3> QED
      BY <3>1, <3>2, <3>3, <3>4, FiniteAssumption, TotalSingle
  <2>2. bets \in [Key -> Nat] /\ \A k \in Key : stakes[KeyLeague[k]][k] \in Nat
    BY <1>1, KeyAssumption DEF BetInv, TypeOK
  <2>3. pending \in [Key -> Nat]
    <3>1. pending = [k \in Key |-> pending[k]]
      OBVIOUS
    <3> HIDE DEF pending
    <3> QED
      BY <2>1, <2>2, <3>1
  <2> HIDE DEF pending
  <2>4. Exposure \in [Key -> Nat] /\ \A k \in Key : Exposure[k] = bets[k] + pending[k]
    BY <1>1, <2>1, ExposureNat DEF BetInv, Exposure
  <2>5. Total(Exposure) = Total(bets) + Total(pending)
    <3>1. Exposure \in [Key -> Int] /\ bets \in [Key -> Int] /\ pending \in [Key -> Int]
      BY <2>2, <2>3, <2>4
    <3> QED
      BY <2>4, <3>1, FiniteAssumption, TotalPlus
  <2>6. OpenExposure + Total(pending) = Total(Exposure)
    <3>1. Total(bets) \in Nat /\ Total(pending) \in Nat /\ parlays = 0
      BY <1>1, <2>2, <2>3, TotalNat DEF BetInv
    <3> QED
      BY <2>5, <3>1 DEF OpenExposure
  <2>7. OpenKeys \union {k \in Key : pending[k] > 0} = Positive(Exposure, Key)
    BY <2>2, <2>3, <2>4 DEF OpenKeys, Positive
  <2>8. WithinCap(OpenExposure + Total(pending), OpenKeys \union {k \in Key : pending[k] > 0})
    BY <1>1, <2>6, <2>7 DEF WithinCap, BetInv, Fits
  <2> QED
    BY <2>8 DEF pending
<1>2. BetInv => CapExceededOnlyBlindly
  BY <1>1 DEF CapExceededOnlyBlindly
<1> QED
  BY <1>2, BetInvariant, PTL

-----------------------------------------------------------------------------
(***************************************************************************)
(* Feed: a listing and its pages.                                          *)
(***************************************************************************)

\* A table whose rows carry an id and a time.
Timed(rows) ==
  DOMAIN rows \subseteq Nat /\ IsFiniteSet(DOMAIN rows) /\ \A e \in DOMAIN rows : rows[e].at \in Nat

\* The order of a listing is total and strict.
LEMMA ListingOrder ==
  ASSUME NEW rows, Timed(rows), NEW e \in DOMAIN rows, NEW f \in DOMAIN rows, NEW g \in DOMAIN rows
  PROVE  /\ ~Before(rows, e, e)
         /\ Before(rows, e, f) /\ Before(rows, f, g) => Before(rows, e, g)
         /\ e = f \/ Before(rows, e, f) \/ Before(rows, f, e)
<1>1. e \in Nat /\ f \in Nat /\ g \in Nat /\ rows[e].at \in Nat /\ rows[f].at \in Nat /\ rows[g].at \in Nat
  BY DEF Timed
<1> QED
  BY <1>1 DEF Before

\* Among rows there is one that is listed first.
LEMMA NewestIsFirst ==
  ASSUME NEW rows, Timed(rows), NEW S \in SUBSET (DOMAIN rows), S # {}
  PROVE  /\ Newest(rows, S) \in S
         /\ \A f \in S \ {Newest(rows, S)} : Before(rows, f, Newest(rows, S))
<1> DEFINE First(e, T) == e \in T /\ \A f \in T \ {e} : Before(rows, f, e)
           P == {T \in SUBSET S : T = {} \/ \E e \in T : First(e, T)}
<1>1. ASSUME NEW T \in SUBSET S, \A x \in T : T \ {x} \in P, T # {}
      PROVE  \E e \in T : First(e, T)
  <2>1. PICK x \in T : TRUE
    BY <1>1
  <2>2. T \ {x} \in P
    BY <1>1
  <2>3. CASE T \ {x} = {}
    <3>1. First(x, T)
      BY <2>3
    <3> QED
      BY <3>1
  <2>4. ASSUME NEW e \in T \ {x}, First(e, T \ {x}) PROVE \E d \in T : First(d, T)
    <3>1. e \in DOMAIN rows /\ x \in DOMAIN rows /\ e # x /\ T \subseteq DOMAIN rows
      OBVIOUS
    <3>2. CASE Before(rows, x, e)
      <4>1. First(e, T)
        BY <2>4, <3>2
      <4> QED
        BY <4>1
    <3>3. CASE Before(rows, e, x)
      <4>1. ASSUME NEW f \in T \ {x} PROVE Before(rows, f, x)
        <5>1. f = e \/ Before(rows, f, e)
          BY <2>4
        <5> QED
          BY <3>1, <3>3, <5>1, ListingOrder
      <4>2. First(x, T)
        BY <4>1
      <4> QED
        BY <4>2
    <3> QED
      BY <3>1, <3>2, <3>3, ListingOrder
  <2> QED
    BY <2>2, <2>3, <2>4
<1>2. \A T \in SUBSET S : (\A x \in T : T \ {x} \in P) => T \in P
  BY <1>1
<1>3. S \in P => \E e \in S : First(e, S)
  OBVIOUS
<1>4. IsFiniteSet(S)
  BY FS_Subset DEF Timed
<1> HIDE DEF P
<1>5. \E e \in S : First(e, S)
  BY <1>2, <1>3, <1>4, SubsetInduction
<1> QED
  BY <1>5 DEF Newest, Before

\* read is the first page of at most n of the rows S.
PageOf(rows, S, n, read) ==
  /\ read \in Seq(S) /\ Len(read) <= n
  /\ \A i, j \in 1..Len(read) : i < j => Before(rows, read[j], read[i])
  /\ \A e \in S : \/ \E i \in 1..Len(read) : read[i] = e
                  \/ Len(read) = n /\ \A j \in 1..Len(read) : Before(rows, e, read[j])

\* One more row, the newest of those that are left, or none if none is left.
LEMMA OneMoreRow ==
  ASSUME NEW rows, Timed(rows), NEW S \in SUBSET (DOMAIN rows), NEW n \in Nat, NEW read,
         PageOf(rows, S, n, read), NEW left, left = S \ {read[i] : i \in DOMAIN read}
  PROVE  PageOf(rows, S, n + 1, IF left = {} THEN read ELSE Append(read, Newest(rows, left)))
<1>1. /\ read \in Seq(S) /\ Len(read) \in Nat /\ Len(read) <= n
      /\ \A i, j \in 1..Len(read) : i < j => Before(rows, read[j], read[i])
  BY DEF PageOf
<1>0. left = S \ {read[i] : i \in 1..Len(read)}
  BY <1>1
<1>2. CASE left = {}
  <2>1. \A e \in S : \E i \in 1..Len(read) : read[i] = e
    BY <1>0, <1>2
  <2>2. PageOf(rows, S, n + 1, read)
    BY <1>1, <2>1 DEF PageOf
  <2> QED
    BY <1>2, <2>2
<1>3. CASE left # {}
  <2> DEFINE new == Newest(rows, left)
             longer == Append(read, new)
  <2>1. new \in left /\ \A f \in left \ {new} : Before(rows, f, new)
    BY <1>3, NewestIsFirst
  <2> HIDE DEF new
  <2>2. \A e \in left : Len(read) = n /\ \A j \in 1..Len(read) : Before(rows, e, read[j])
    BY <1>0 DEF PageOf
  <2>3. /\ longer \in Seq(S) /\ Len(longer) = n + 1 /\ longer[n + 1] = new
        /\ \A i \in 1..n : longer[i] = read[i]
    BY <1>1, <2>1, <2>2
  <2> HIDE DEF longer
  <2>4. ASSUME NEW i \in 1..Len(longer), NEW j \in 1..Len(longer), i < j
        PROVE  Before(rows, longer[j], longer[i])
    BY <1>1, <2>1, <2>2, <2>3, <2>4
  <2>5. ASSUME NEW e \in S
        PROVE  \/ \E i \in 1..Len(longer) : longer[i] = e
               \/ \A j \in 1..Len(longer) : Before(rows, e, longer[j])
    <3>1. CASE e \notin left
      <4>1. PICK i \in 1..Len(read) : read[i] = e
        BY <1>0, <3>1
      <4>2. i \in 1..Len(longer) /\ longer[i] = e
        BY <1>1, <2>1, <2>2, <2>3, <4>1
      <4> QED
        BY <4>2
    <3>2. CASE e = new
      <4>1. n + 1 \in 1..Len(longer)
        BY <2>3
      <4> QED
        BY <2>3, <3>2, <4>1
    <3>3. CASE e \in left \ {new}
      BY <2>1, <2>2, <2>3, <3>3
    <3> QED
      BY <3>1, <3>2, <3>3
  <2>6. PageOf(rows, S, n + 1, longer)
    BY <2>3, <2>4, <2>5 DEF PageOf
  <2> QED
    BY <1>3, <2>6 DEF longer, new
<1> QED
  BY <1>2, <1>3

\* FirstRows reads such a page.
LEMMA FirstRowsArePage ==
  ASSUME NEW rows, Timed(rows), NEW S \in SUBSET (DOMAIN rows), NEW n \in Nat
  PROVE  PageOf(rows, S, n, FirstRows(rows, S, n))
<1> DEFINE More(read) == IF S \ {read[i] : i \in DOMAIN read} = {} THEN read
                         ELSE Append(read, Newest(rows, S \ {read[i] : i \in DOMAIN read}))
           Takes(t) == t = [k \in 0..n |-> IF k = 0 THEN <<>> ELSE More(t[k - 1])]
           D == Seq(S)
           F == [p \in (1..n) \X D |-> More(p[2])]
<1>1. ASSUME NEW read \in D PROVE More(read) \in D
  <2> DEFINE left == S \ {read[i] : i \in DOMAIN read}
  <2>1. CASE left # {}
    <3>1. Newest(rows, left) \in S
      BY <2>1, NewestIsFirst
    <3> QED
      BY <2>1, <3>1
  <2> QED
    BY <2>1
<1> HIDE DEF More
<1>2. \E t : Takes(t)
  <2>1. Steps(F, n, D)
    BY <1>1 DEF Steps
  <2>2. \A k \in 1..n, read \in D : F[<<k, read>>] = More(read)
    OBVIOUS
  <2> DEFINE none == <<>>
  <2>6. none \in D
    OBVIOUS
  <2> HIDE DEF F, D, none
  <2>3. PICK t : Unfolds(t, F, n, D, none)
    BY <2>1, <2>6, RecursionExists
  <2>4. ASSUME NEW k \in 0..n PROVE t[k] = IF k = 0 THEN <<>> ELSE More(t[k - 1])
    <3>1. CASE k # 0
      <4>1. k \in 1..n /\ k - 1 \in 0..n
        BY <3>1
      <4>2. t[k] = F[<<k, t[k - 1]>>] /\ t[k - 1] \in D
        BY <2>3, <4>1 DEF Unfolds
      <4> QED
        BY <2>2, <3>1, <4>1, <4>2
    <3> QED
      BY <2>3, <3>1 DEF Unfolds, none
  <2>7. t = [k \in 0..n |-> t[k]]
    BY <2>3 DEF Unfolds
  <2>5. Takes(t)
    BY <2>4, <2>7
  <2> QED
    BY <2>5
<1>3. PICK t : Takes(t) /\ FirstRows(rows, S, n) = t[n]
  <2>1. FirstRows(rows, S, n) = (CHOOSE t : Takes(t))[n]
    BY DEF FirstRows, ToSet, More
  <2> QED
    BY <1>2, <2>1
<1> DEFINE N == {k \in Nat : k <= n => PageOf(rows, S, k, t[k])}
<1>4. 0 \in N
  <2>1. t[0] = <<>>
    BY <1>3
  <2>2. PageOf(rows, S, 0, <<>>)
    BY DEF PageOf
  <2> QED
    BY <2>1, <2>2
<1>5. ASSUME NEW k \in Nat, k \in N, k + 1 <= n PROVE PageOf(rows, S, k + 1, t[k + 1])
  <2>1. PageOf(rows, S, k, t[k])
    BY <1>5
  <2>2. t[k + 1] = More(t[k])
    <3>1. k + 1 \in 0..n /\ k + 1 # 0 /\ (k + 1) - 1 = k
      BY <1>5
    <3> QED
      BY <1>3, <3>1
  <2>3. PageOf(rows, S, k + 1, More(t[k]))
    BY <2>1, OneMoreRow DEF More
  <2> QED
    BY <2>2, <2>3
<1>6. \A k \in Nat : k \in N => k + 1 \in N
  <2> SUFFICES ASSUME NEW k \in Nat, k \in N, k + 1 <= n PROVE PageOf(rows, S, k + 1, t[k + 1])
    OBVIOUS
  <2> QED
    BY <1>5
<1>7. n \in N => PageOf(rows, S, n, t[n])
  OBVIOUS
<1> HIDE DEF N
<1>8. Nat \subseteq N
  BY <1>4, <1>6, NatSetInduction
<1> QED
  BY <1>3, <1>7, <1>8

\* What is announced of a batch is a sequence of edges, too.
LEMMA AnnouncedAreEdges ==
  ASSUME NEW b \in Batches
  PROVE  ToAnnounce(b) \in Seq(Nat)
<1> DEFINE n == Len(b)
           D == Seq(Nat)
           Keep(k, kept) == IF b[k] \in Actionable THEN Append(kept, b[k]) ELSE kept
           Keeps(t) == t = [k \in 0..n |-> IF k = 0 THEN <<>> ELSE Keep(k, t[k - 1])]
           F == [p \in (1..n) \X D |-> Keep(p[1], p[2])]
<1>1. b \in Seq(Nat) /\ n \in Nat
  BY BatchAssumption
<1>2. \A k \in 1..n, kept \in D : Keep(k, kept) \in D
  BY <1>1
<1>3. ToAnnounce(b) = (CHOOSE t : Keeps(t))[n]
  BY DEF ToAnnounce
<1> HIDE DEF Keep, n
<1>4. \E t : Keeps(t)
  <2>1. Steps(F, n, D)
    BY <1>2 DEF Steps
  <2>2. \A k \in 1..n, kept \in D : F[<<k, kept>>] = Keep(k, kept)
    OBVIOUS
  <2> DEFINE none == <<>>
  <2>6. none \in D
    OBVIOUS
  <2> HIDE DEF F, D, none
  <2>3. PICK t : Unfolds(t, F, n, D, none)
    BY <1>1, <2>1, <2>6, RecursionExists
  <2>4. ASSUME NEW k \in 0..n PROVE t[k] = IF k = 0 THEN <<>> ELSE Keep(k, t[k - 1])
    <3>1. CASE k # 0
      <4>1. k \in 1..n /\ k - 1 \in 0..n
        BY <1>1, <3>1
      <4>2. t[k] = F[<<k, t[k - 1]>>] /\ t[k - 1] \in D
        BY <2>3, <4>1 DEF Unfolds
      <4> QED
        BY <2>2, <3>1, <4>1, <4>2
    <3> QED
      BY <2>3, <3>1 DEF Unfolds, none
  <2>7. t = [k \in 0..n |-> t[k]]
    BY <2>3 DEF Unfolds
  <2>5. Keeps(t)
    BY <2>4, <2>7
  <2> QED
    BY <2>5
<1>5. PICK u : Keeps(u) /\ ToAnnounce(b) = u[n]
  BY <1>3, <1>4
<1> DEFINE N == {k \in Nat : k <= n => u[k] \in D}
<1>6. 0 \in N
  <2>1. u[0] = <<>>
    BY <1>1, <1>5
  <2>2. u[0] \in D
    BY <2>1
  <2> QED
    BY <2>2
<1>7. ASSUME NEW k \in Nat, k \in N, k + 1 <= n PROVE u[k + 1] \in D
  <2>1. k + 1 \in 0..n /\ k + 1 # 0 /\ (k + 1) - 1 = k /\ k + 1 \in 1..n
    BY <1>1, <1>7
  <2>2. u[k + 1] = Keep(k + 1, u[k])
    BY <1>5, <2>1
  <2>3. u[k] \in D
    BY <1>1, <1>7
  <2> HIDE DEF D
  <2> QED
    BY <1>2, <2>1, <2>2, <2>3
<1>8. \A k \in Nat : k \in N => k + 1 \in N
  <2> SUFFICES ASSUME NEW k \in Nat, k \in N, k + 1 <= n PROVE u[k + 1] \in D
    OBVIOUS
  <2> QED
    BY <1>7
<1>9. n \in N => u[n] \in D
  BY <1>1
<1> HIDE DEF N
<1>10. Nat \subseteq N
  BY <1>6, <1>8, NatSetInduction
<1> QED
  BY <1>1, <1>5, <1>9, <1>10

-----------------------------------------------------------------------------
(***************************************************************************)
(* The feed and the walk through it.                                       *)
(***************************************************************************)

WritersOK ==
  /\ writers \in [Batches -> [step : {"insert", "describe", "publish", "record", "end", "abandoned"},
                              i : Nat, at : Nat]]
  /\ \A b \in Batches :
       /\ writers[b].step = "insert" => writers[b].i \in 1..Len(b)
       /\ writers[b].step \in {"describe", "publish", "record"} =>
            writers[b].i \in 1..Len(ToAnnounce(b))

TablesOK ==
  /\ now \in Nat
  /\ Timed(edges) /\ Timed(alerts)
  /\ \A e \in DOMAIN edges : edges[e] \in [at : Nat, stale : BOOLEAN, expires : Nat]
  /\ \A e \in DOMAIN alerts : alerts[e] \in [at : Nat, acknowledged : Nat]

Seen(got) == {got[i] : i \in 1..Len(got)}

\* e comes after the cursor, the last row the client has.
Ahead(rows, e, got) == got # <<>> => Before(rows, e, got[Len(got)])

\* The client has rows of the table in the order of the listing.
Listed(rows, got) ==
  /\ got \in Seq(DOMAIN rows)
  /\ \A i, j \in 1..Len(got) : i < j => Before(rows, got[j], got[i])

\* A row that is due is with the client or still ahead of it.
Covered(rows, due, got, more) ==
  \A e \in due : e \in Seen(got) \/ (more /\ Ahead(rows, e, got))

WalkOK ==
  /\ walk = [on |-> walk.on, query |-> walk.query, got |-> walk.got, more |-> walk.more,
             first |-> walk.first]
  /\ walk.on \in BOOLEAN /\ walk.more \in BOOLEAN
  /\ walk.on =>
       /\ Listed(Rows(walk.query.table), walk.got)
       /\ walk.first \subseteq DOMAIN Rows(walk.query.table)
       /\ Covered(Rows(walk.query.table), walk.first \cap Matching(walk.query),
                  walk.got, walk.more)

FeedInv == WritersOK /\ TablesOK /\ WalkOK

\* A table that has all the rows of another one, with their times.
Extends(longer, rows) ==
  DOMAIN rows \subseteq DOMAIN longer /\ \A e \in DOMAIN rows : longer[e].at = rows[e].at

\* A page is appended: what the client has is still listed in order, and what
\* is due is there or ahead.
LEMMA PageCovers ==
  ASSUME NEW rows, Timed(rows), NEW S \in SUBSET (DOMAIN rows), NEW got,
         Listed(rows, got), NEW first, Covered(rows, first \cap S, got, TRUE),
         NEW rest, rest = {e \in S : Ahead(rows, e, got)},
         NEW read, PageOf(rows, rest, Limit + 1, read),
         NEW n, n = IF Len(read) < Limit THEN Len(read) ELSE Limit,
         NEW all, all = got \o SubSeq(read, 1, n)
  PROVE  Listed(rows, all) /\ Covered(rows, first \cap S, all, Len(read) > Limit)
<1> DEFINE m == Len(got)
<1>1. Limit \in Nat /\ Limit > 0
  BY PageAssumption
<1>2. /\ got \in Seq(DOMAIN rows) /\ m \in Nat
      /\ \A i \in 1..m : got[i] \in DOMAIN rows
      /\ \A i, j \in 1..m : i < j => Before(rows, got[j], got[i])
  BY DEF Listed
<1>3. /\ read \in Seq(DOMAIN rows) /\ Len(read) \in Nat /\ Len(read) <= Limit + 1
      /\ \A i \in 1..Len(read) : read[i] \in rest /\ read[i] \in DOMAIN rows
      /\ \A i, j \in 1..Len(read) : i < j => Before(rows, read[j], read[i])
  <2>1. read \in Seq(rest) /\ rest \subseteq DOMAIN rows
    BY DEF PageOf
  <2> QED
    BY <2>1 DEF PageOf
<1>4. n \in Nat /\ n <= Len(read) /\ n <= Limit
  BY <1>1, <1>3
<1>5. /\ all \in Seq(DOMAIN rows) /\ Len(all) = m + n
      /\ \A i \in 1..m : all[i] = got[i]
      /\ \A i \in 1..n : all[m + i] = read[i]
  <2>1. /\ SubSeq(read, 1, n) \in Seq(DOMAIN rows) /\ Len(SubSeq(read, 1, n)) = n
        /\ \A i \in 1..n : SubSeq(read, 1, n)[i] = read[i]
    BY <1>3, <1>4, SubSeqProperties
  <2> DEFINE page == SubSeq(read, 1, n)
  <2> HIDE DEF page
  <2>2. all = got \o page /\ page \in Seq(DOMAIN rows) /\ Len(page) = n
    BY <2>1 DEF page
  <2>3. /\ all \in Seq(DOMAIN rows) /\ Len(all) = m + n
        /\ \A i \in 1..(m + n) : all[i] = IF i <= m THEN got[i] ELSE page[i - m]
    <3> DEFINE Known == DOMAIN rows
    <3>1. got \in Seq(Known) /\ page \in Seq(Known) /\ Len(page) = n /\ m = Len(got)
      BY <1>2, <2>2
    <3> HIDE DEF Known, m
    <3>2. /\ got \o page \in Seq(Known) /\ Len(got \o page) = Len(got) + Len(page)
          /\ \A i \in 1..(Len(got) + Len(page)) :
               (got \o page)[i] = IF i <= Len(got) THEN got[i] ELSE page[i - Len(got)]
      <4>1. got \in Seq(Known) /\ page \in Seq(Known)
        BY <3>1
      <4> QED
        BY <4>1, ConcatProperties
    <3>3. /\ got \o page \in Seq(Known) /\ Len(got \o page) = m + n
          /\ \A i \in 1..(m + n) : (got \o page)[i] = IF i <= m THEN got[i] ELSE page[i - m]
      BY <3>1, <3>2
    <3> QED
      BY <2>2, <3>3 DEF Known
  <2>4. \A i \in 1..m : all[i] = got[i]
    BY <1>2, <1>4, <2>3
  <2>5. ASSUME NEW i \in 1..n PROVE all[m + i] = page[i]
    <3>1. m + i \in 1..(m + n) /\ ~(m + i <= m) /\ (m + i) - m = i
      BY <1>2, <1>4
    <3> QED
      BY <2>3, <3>1
  <2> QED
    BY <2>1, <2>3, <2>4, <2>5 DEF page
<1> HIDE DEF m
<1>6. \A e \in rest : got # <<>> => Before(rows, e, got[m])
  BY DEF Ahead, m
<1>7. m > 0 => got # <<>>
  BY <1>2 DEF m
<1>8. ASSUME NEW i \in 1..m, NEW j \in 1..n PROVE Before(rows, read[j], got[i])
  <2>1. read[j] \in rest /\ read[j] \in DOMAIN rows
    BY <1>3, <1>4
  <2>2. m \in 1..m /\ got[m] \in DOMAIN rows /\ got[i] \in DOMAIN rows
    BY <1>2
  <2>3. Before(rows, read[j], got[m])
    BY <1>2, <1>6, <1>7, <2>1
  <2>4. i = m \/ Before(rows, got[m], got[i])
    BY <1>2, <2>2
  <2> QED
    BY <2>1, <2>2, <2>3, <2>4, ListingOrder
<1>9. ASSUME NEW i \in 1..Len(all), NEW j \in 1..Len(all), i < j
      PROVE  Before(rows, all[j], all[i])
  <2>1. CASE j <= m
    <3>1. i \in 1..m /\ j \in 1..m
      BY <1>2, <1>4, <1>5, <1>9, <2>1
    <3> QED
      BY <1>2, <1>5, <1>9, <3>1
  <2>2. CASE i <= m /\ j > m
    <3>1. i \in 1..m /\ j - m \in 1..n /\ m + (j - m) = j
      BY <1>2, <1>4, <1>5, <1>9, <2>2
    <3>2. all[i] = got[i] /\ all[j] = read[j - m]
      BY <1>5, <3>1
    <3> QED
      BY <1>8, <3>1, <3>2
  <2>3. CASE i > m
    <3>1. /\ i - m \in 1..n /\ m + (i - m) = i /\ j - m \in 1..n /\ m + (j - m) = j
          /\ i - m < j - m
      BY <1>2, <1>4, <1>5, <1>9, <2>3
    <3>2. all[i] = read[i - m] /\ all[j] = read[j - m]
      BY <1>5, <3>1
    <3>3. i - m \in 1..Len(read) /\ j - m \in 1..Len(read)
      BY <1>3, <1>4, <3>1
    <3> QED
      BY <1>3, <3>1, <3>2, <3>3
  <2> QED
    BY <1>2, <1>4, <1>5, <2>1, <2>2, <2>3
<1>10. Listed(rows, all)
  BY <1>5, <1>9 DEF Listed
<1>11. \A i \in 1..m : got[i] \in Seen(all)
  <2> SUFFICES ASSUME NEW i \in 1..m PROVE got[i] \in Seen(all)
    OBVIOUS
  <2>1. i \in 1..Len(all) /\ all[i] = got[i]
    BY <1>2, <1>4, <1>5
  <2> QED
    BY <2>1 DEF Seen
<1>12. \A i \in 1..n : read[i] \in Seen(all)
  <2> SUFFICES ASSUME NEW i \in 1..n PROVE read[i] \in Seen(all)
    OBVIOUS
  <2>1. m + i \in 1..Len(all) /\ all[m + i] = read[i]
    BY <1>2, <1>4, <1>5
  <2> QED
    BY <2>1 DEF Seen
<1>13. Len(read) = Limit + 1 => all[Len(all)] = read[Limit] /\ Limit \in 1..Len(read)
  <2> SUFFICES ASSUME Len(read) = Limit + 1 PROVE all[Len(all)] = read[Limit] /\ Limit \in 1..Len(read)
    OBVIOUS
  <2>1. n = Limit /\ n \in 1..n /\ Len(all) = m + n
    BY <1>1, <1>5
  <2> QED
    BY <1>1, <1>5, <2>1
<1>14. ASSUME NEW e \in first \cap S, e \notin Seen(all)
       PROVE  Len(read) > Limit /\ Ahead(rows, e, all)
  <2>1. e \in rest
    <3>1. e \notin Seen(got)
      BY <1>11, <1>14 DEF Seen, m
    <3> QED
      BY <3>1 DEF Covered
  <2>2. \/ \E i \in 1..Len(read) : read[i] = e
        \/ Len(read) = Limit + 1 /\ \A j \in 1..Len(read) : Before(rows, e, read[j])
    BY <2>1 DEF PageOf
  <2>3. CASE \E i \in 1..Len(read) : read[i] = e
    <3>1. PICK i \in 1..Len(read) : read[i] = e
      BY <2>3
    <3>2. i \notin 1..n
      BY <1>12, <1>14, <3>1
    <3>3. Len(read) = Limit + 1 /\ i > Limit
      BY <1>1, <1>3, <1>4, <3>2
    <3>4. Before(rows, e, read[Limit])
      BY <1>1, <1>3, <1>13, <3>1, <3>3
    <3> QED
      BY <1>1, <1>13, <3>3, <3>4 DEF Ahead
  <2>4. CASE Len(read) = Limit + 1 /\ \A j \in 1..Len(read) : Before(rows, e, read[j])
    BY <1>1, <1>13, <2>4 DEF Ahead
  <2> QED
    BY <2>2, <2>3, <2>4
<1>15. Covered(rows, first \cap S, all, Len(read) > Limit)
  BY <1>14 DEF Covered
<1> QED
  BY <1>10, <1>15

\* More rows, or the same ones with their times, do not change what is listed.
LEMMA LongerTable ==
  ASSUME NEW rows, NEW longer, Extends(longer, rows), NEW got, Listed(rows, got),
         NEW due \in SUBSET (DOMAIN rows), NEW more, Covered(rows, due, got, more)
  PROVE  /\ Listed(longer, got)
         /\ \A fewer \in SUBSET due : Covered(longer, fewer, got, more)
<1>1. \A e, f \in DOMAIN rows : Before(longer, e, f) <=> Before(rows, e, f)
  BY DEF Extends, Before
<1>2. got \in Seq(DOMAIN rows) /\ Len(got) \in Nat /\ \A i \in 1..Len(got) : got[i] \in DOMAIN rows
  BY DEF Listed
<1>3. Listed(longer, got)
  <2>1. got \in Seq(DOMAIN longer)
    <3>1. \A i \in 1..Len(got) : got[i] \in DOMAIN longer
      BY <1>2 DEF Extends
    <3> QED
      BY <1>2, <3>1
  <2> QED
    BY <1>1, <1>2, <2>1 DEF Listed
<1>4. ASSUME NEW e \in due, Ahead(rows, e, got) PROVE Ahead(longer, e, got)
  <2>1. got # <<>> => Len(got) \in 1..Len(got) /\ got[Len(got)] \in DOMAIN rows
    BY <1>2
  <2> QED
    BY <1>1, <1>4, <2>1 DEF Ahead
<1> QED
  BY <1>3, <1>4 DEF Covered

\* The walk's invariant survives what others do to the tables: they add rows,
\* keep the times, and a row that stops matching does not match again.
LEMMA WalkKept ==
  ASSUME WalkOK, walk' = walk, now \in Nat, now' \in Nat, now <= now',
         Extends(edges', edges), Extends(alerts', alerts),
         \A e \in DOMAIN edges : /\ ~edges'[e].stale => ~edges[e].stale
                                 /\ edges[e].expires \in Nat /\ edges'[e].expires = edges[e].expires,
         \A e \in DOMAIN alerts :
            alerts'[e].acknowledged = NotYet => alerts[e].acknowledged = NotYet
  PROVE  WalkOK'
<1> DEFINE q == walk.query
           rows == Rows(q.table)
           longer == IF q.table = "edges" THEN edges' ELSE alerts'
<1>1. rows = (IF q.table = "edges" THEN edges ELSE alerts) /\ rows' = longer
  BY DEF Rows
<1>2. Extends(longer, rows)
  BY <1>1
<1>3. ASSUME NEW e \in DOMAIN rows, e \in Matching(q)'
      PROVE  e \in Matching(q)
  <2>1. CASE q.table = "edges"
    <3>1. /\ e \in DOMAIN edges
          /\ q.priority = "HIGH" => e \in HighPriority
          /\ q.live => ~edges'[e].stale /\ edges'[e].expires > now'
      BY <1>1, <1>3, <2>1 DEF Matching, Rows
    <3>3. e \in DOMAIN edges
      BY <3>1
    <3>4. (~edges'[e].stale => ~edges[e].stale) /\ edges[e].expires \in Nat /\ edges'[e].expires = edges[e].expires
      BY <3>3
    <3>5. edges'[e].expires > now' => edges[e].expires > now
      BY <3>4
    <3>2. q.live => ~edges[e].stale /\ edges[e].expires > now
      BY <3>1, <3>4, <3>5
    <3> QED
      BY <2>1, <3>1, <3>2 DEF Matching, Rows
  <2>2. CASE q.table # "edges"
    <3>1. /\ e \in DOMAIN alerts
          /\ q.priority = "HIGH" => e \in HighPriority
          /\ q.live => alerts'[e].acknowledged = NotYet
      BY <1>1, <1>3, <2>2 DEF Matching, Rows
    <3> QED
      BY <2>2, <3>1 DEF Matching, Rows
  <2> QED
    BY <2>1, <2>2
<1>4. CASE walk.on
  <2> DEFINE due == walk.first \cap Matching(q)
             fewer == walk.first \cap Matching(q)'
  <2>1. /\ Listed(rows, walk.got) /\ walk.first \subseteq DOMAIN rows
        /\ Covered(rows, due, walk.got, walk.more)
    BY <1>4 DEF WalkOK
  <2>2. fewer \subseteq due /\ due \subseteq DOMAIN rows
    BY <1>3, <2>1
  <2> HIDE DEF due, fewer, rows, longer
  <2>3. Listed(longer, walk.got) /\ Covered(longer, fewer, walk.got, walk.more)
    BY <1>2, <2>1, <2>2, LongerTable
  <2>4. walk.first \subseteq DOMAIN longer
    BY <1>2, <2>1 DEF Extends
  <2> QED
    BY <1>1, <2>3, <2>4 DEF WalkOK, fewer, longer, rows
<1>5. CASE ~walk.on
  BY <1>5 DEF WalkOK
<1> QED
  BY <1>4, <1>5

\* An insert adds a row and leaves the others alone.
LEMMA RowAdded ==
  ASSUME NEW table, Timed(table), NEW e \in Nat, NEW row, row.at \in Nat
  PROVE  /\ Timed(WithRow(table, e, row)) /\ Extends(WithRow(table, e, row), table)
         /\ \A f \in DOMAIN WithRow(table, e, row) :
              \/ WithRow(table, e, row)[f] = row
              \/ f \in DOMAIN table /\ WithRow(table, e, row)[f] = table[f]
         /\ \A f \in DOMAIN table : WithRow(table, e, row)[f] = table[f]
<1> DEFINE longer == WithRow(table, e, row)
<1>1. /\ DOMAIN longer = DOMAIN table \cup {e}
      /\ \A f \in DOMAIN longer : longer[f] = IF f \in DOMAIN table THEN table[f] ELSE row
  BY DEF WithRow
<1> HIDE DEF longer
<1>2. IsFiniteSet(DOMAIN longer)
  BY <1>1, FS_AddElement DEF Timed
<1>3. Timed(longer) /\ Extends(longer, table)
  BY <1>1, <1>2 DEF Timed, Extends
<1>4. /\ \A f \in DOMAIN longer : longer[f] = row \/ (f \in DOMAIN table /\ longer[f] = table[f])
      /\ \A f \in DOMAIN table : longer[f] = table[f]
  BY <1>1
<1> QED
  BY <1>3, <1>4 DEF longer

\* At the start the tables are empty, and nobody walks.
LEMMA FeedStart ==
  ASSUME FeedInit PROVE FeedInv
<1>1. WritersOK
  <2>1. \A b \in Batches : 1 \in 1..Len(b)
    BY BatchAssumption
  <2> QED
    BY <2>1 DEF FeedInit, WritersOK
<1>2. TablesOK
  BY FS_EmptySet DEF FeedInit, TablesOK, Timed
<1>3. WalkOK
  BY DEF FeedInit, WalkOK, NoWalk
<1> QED
  BY <1>1, <1>2, <1>3 DEF FeedInv

\* The i-th item of the list a writer goes through is an edge.
LEMMA ItemsAreEdges ==
  ASSUME WritersOK, NEW b \in Batches
  PROVE  /\ Len(b) \in Nat /\ Len(b) > 0 /\ Len(ToAnnounce(b)) \in Nat
         /\ writers[b].step = "insert" => b[writers[b].i] \in Nat
         /\ writers[b].step \in {"describe", "publish", "record"} =>
              ToAnnounce(b)[writers[b].i] \in Nat
<1>1. b \in Seq(Nat) /\ Len(b) \in Nat /\ Len(b) > 0
  BY BatchAssumption
<1>2. ToAnnounce(b) \in Seq(Nat) /\ Len(ToAnnounce(b)) \in Nat
  BY AnnouncedAreEdges
<1> QED
  BY <1>1, <1>2 DEF WritersOK

\* A writer goes on to the next item, or to the next list.
LEMMA AdvanceOK ==
  ASSUME WritersOK, NEW b \in Batches, NEW list, NEW step, NEW after, Len(list) \in Nat,
         Advance(b, step, list, after), writers[b].i <= Len(list),
         \/ /\ step = "insert" /\ list = b
            /\ after = "end" \/ (after = "describe" /\ Len(ToAnnounce(b)) \in Nat \ {0})
         \/ /\ step = "describe" /\ list = ToAnnounce(b)
            /\ after = "end"
  PROVE  WritersOK'
<1> DEFINE w == [step |-> IF writers[b].i < Len(list) THEN step ELSE after,
                 i |-> IF writers[b].i < Len(list) THEN writers[b].i + 1 ELSE 1, at |-> 0]
<1>1. writers' = [writers EXCEPT ![b] = w]
  BY DEF Advance
<1>2. writers[b].i \in Nat
  BY DEF WritersOK
<1>3. w \in [step : {"insert", "describe", "publish", "record", "end", "abandoned"}, i : Nat, at : Nat]
  BY <1>2
<1>4. /\ w.step = "insert" => w.i \in 1..Len(b)
      /\ w.step \in {"describe", "publish", "record"} => w.i \in 1..Len(ToAnnounce(b))
  BY <1>2
<1> HIDE DEF w
<1> QED
  BY <1>1, <1>3, <1>4 DEF WritersOK

\* A writer goes on with its item, or gives up.
LEMMA MoveOK ==
  ASSUME WritersOK, NEW b \in Batches, NEW step, Move(b, step),
         \/ writers[b].step = "describe" /\ step = "publish"
         \/ writers[b].step = "publish" /\ step = "record"
         \/ step = "abandoned"
  PROVE  WritersOK'
<1>1. writers' = [writers EXCEPT ![b].step = step]
  BY DEF Move
<1>2. /\ writers[b].step = "insert" => writers[b].i \in 1..Len(b)
      /\ writers[b].step \in {"describe", "publish", "record"} =>
            writers[b].i \in 1..Len(ToAnnounce(b))
  BY DEF WritersOK
<1> QED
  BY <1>1, <1>2 DEF WritersOK

\* Every step preserves it: the writers' by RowAdded and WalkKept, a page by
\* FirstRowsArePage and PageCovers.
LEMMA FeedStep ==
  ASSUME FeedInv, [FeedNext]_feedVars
  PROVE  FeedInv'
<1> USE DEF FeedInv
<1>0. /\ now \in Nat
      /\ Timed(edges) /\ Timed(alerts)
      /\ \A e \in DOMAIN edges : edges[e] \in [at : Nat, stale : BOOLEAN, expires : Nat]
      /\ \A e \in DOMAIN alerts : alerts[e] \in [at : Nat, acknowledged : Nat]
  BY DEF TablesOK
<1>1. MaxTime \in Nat
  BY PageAssumption
\* Steps that leave both tables, the clock and the walk alone.
<1>2. ASSUME UNCHANGED <<now, tables, walk>>, WritersOK' PROVE FeedInv'
  <2>1. UNCHANGED <<now, edges, alerts, walk>>
    BY <1>2 DEF tables
  <2>2. TablesOK'
    BY <2>1 DEF TablesOK, Timed
  <2>3. WalkOK'
    BY <2>1 DEF WalkOK, Matching, Rows
  <2> QED
    BY <1>2, <2>2, <2>3
<1>3. ASSUME NEW b \in Batches, Begin(b) PROVE FeedInv'
  <2>1. writers' = [writers EXCEPT ![b].at = now] /\ UNCHANGED <<now, tables, walk>>
    BY <1>3 DEF Begin
  <2>2. WritersOK'
    BY <1>0, <2>1 DEF WritersOK
  <2> QED
    BY <1>2, <2>1, <2>2
<1>4. ASSUME NEW b \in Batches, InsertEdge(b) PROVE FeedInv'
  <2> DEFINE e == b[writers[b].i]
  <2>1. PICK expires \in {writers[b].at + 1, MaxTime + 1} :
          edges' = WithRow(edges, e, [at |-> writers[b].at, stale |-> FALSE, expires |-> expires])
    BY <1>4 DEF InsertEdge
  <2> DEFINE row == [at |-> writers[b].at, stale |-> FALSE, expires |-> expires]
  <2>2. /\ writers[b].step = "insert" /\ UNCHANGED <<now, alerts, walk>>
        /\ Advance(b, "insert", b, IF ToAnnounce(b) = <<>> THEN "end" ELSE "describe")
    BY <1>4 DEF InsertEdge
  <2>3. row \in [at : Nat, stale : BOOLEAN, expires : Nat] /\ e \in Nat
    <3>1. writers[b].at \in Nat /\ FALSE \in BOOLEAN
      BY DEF WritersOK
    <3> QED
      BY <1>1, <2>2, <3>1, ItemsAreEdges
  <2> HIDE DEF row, e
  <2>4. /\ Timed(edges') /\ Extends(edges', edges)
        /\ \A f \in DOMAIN edges' : edges'[f] = row \/ (f \in DOMAIN edges /\ edges'[f] = edges[f])
        /\ \A f \in DOMAIN edges : edges'[f] = edges[f]
    <3>1. edges' = WithRow(edges, e, row) /\ row.at \in Nat
      BY <2>1, <2>3 DEF row
    <3> DEFINE longer == WithRow(edges, e, row)
    <3>2. /\ Timed(longer) /\ Extends(longer, edges)
          /\ \A f \in DOMAIN longer : longer[f] = row \/ (f \in DOMAIN edges /\ longer[f] = edges[f])
          /\ \A f \in DOMAIN edges : longer[f] = edges[f]
      <4>1. Timed(edges) /\ e \in Nat /\ row.at \in Nat
        BY <1>0, <2>3, <3>1
      <4> QED
        BY <4>1, RowAdded
    <3> HIDE DEF longer
    <3> QED
      BY <3>1, <3>2 DEF longer
  <2>5. TablesOK'
    BY <1>0, <2>2, <2>3, <2>4 DEF TablesOK
  <2>6. WalkOK'
    <3>1. Extends(alerts', alerts)
      BY <2>2 DEF Extends
    <3> QED
      BY <1>0, <2>2, <2>4, <3>1, WalkKept
  <2>7. WritersOK'
    <3>1. writers[b].i <= Len(b) /\ Len(b) \in Nat
      BY <2>2, ItemsAreEdges DEF WritersOK
    <3>2. CASE ToAnnounce(b) = <<>>
      <4>1. Advance(b, "insert", b, "end")
        BY <2>2, <3>2
      <4> QED
        BY <3>1, <4>1, AdvanceOK
    <3>3. CASE ToAnnounce(b) # <<>>
      <4>1. Advance(b, "insert", b, "describe")
        BY <2>2, <3>3
      <4>2. Len(ToAnnounce(b)) \in Nat \ {0}
        BY <3>3, AnnouncedAreEdges
      <4> QED
        BY <3>1, <4>1, <4>2, AdvanceOK
    <3> QED
      BY <3>2, <3>3
  <2> QED
    BY <2>5, <2>6, <2>7
<1>5. ASSUME NEW b \in Batches, Describe(b) PROVE FeedInv'
  <2>1. writers[b].step = "describe" /\ Move(b, "publish") /\ UNCHANGED <<now, tables, walk>>
    BY <1>5 DEF Describe
  <2>2. WritersOK'
    BY <2>1, MoveOK
  <2> QED
    BY <1>2, <2>1, <2>2
<1>6. ASSUME NEW b \in Batches, Publish(b) PROVE FeedInv'
  <2>1. writers[b].step = "publish" /\ Move(b, "record") /\ UNCHANGED <<now, tables, walk>>
    BY <1>6 DEF Publish
  <2>2. WritersOK'
    BY <2>1, MoveOK
  <2> QED
    BY <1>2, <2>1, <2>2
<1>7. ASSUME NEW b \in Batches, Record(b) PROVE FeedInv'
  <2> DEFINE e == ToAnnounce(b)[writers[b].i]
             row == [at |-> writers[b].at, acknowledged |-> NotYet]
  <2>1. /\ writers[b].step = "record" /\ UNCHANGED <<now, edges, walk>>
        /\ alerts' = WithRow(alerts, e, row) \/ UNCHANGED alerts
        /\ Advance(b, "describe", ToAnnounce(b), "end")
    BY <1>7 DEF Record
  <2>2. row \in [at : Nat, acknowledged : Nat] /\ e \in Nat
    BY <2>1, ItemsAreEdges DEF WritersOK, NotYet
  <2> HIDE DEF row, e
  <2>3. /\ Timed(alerts') /\ Extends(alerts', alerts)
        /\ \A f \in DOMAIN alerts' : alerts'[f] = row \/ (f \in DOMAIN alerts /\ alerts'[f] = alerts[f])
        /\ \A f \in DOMAIN alerts : alerts'[f] = alerts[f]
    <3>1. CASE alerts' = WithRow(alerts, e, row)
      <4>1. row.at \in Nat
        BY <2>2
      <4> DEFINE longer == WithRow(alerts, e, row)
      <4>2. /\ Timed(longer) /\ Extends(longer, alerts)
            /\ \A f \in DOMAIN longer : longer[f] = row \/ (f \in DOMAIN alerts /\ longer[f] = alerts[f])
            /\ \A f \in DOMAIN alerts : longer[f] = alerts[f]
        <5>1. Timed(alerts) /\ e \in Nat
          BY <1>0, <2>2
        <5> QED
          BY <4>1, <5>1, RowAdded
      <4> HIDE DEF longer
      <4> QED
        BY <3>1, <4>2 DEF longer
    <3>2. CASE UNCHANGED alerts
      BY <1>0, <3>2 DEF Extends
    <3> QED
      BY <2>1, <3>1, <3>2
  <2>4. TablesOK'
    BY <1>0, <2>1, <2>2, <2>3 DEF TablesOK
  <2>5. WalkOK'
    <3>1. Extends(edges', edges)
      BY <2>1 DEF Extends
    <3> QED
      BY <1>0, <2>1, <2>3, <3>1, WalkKept
  <2>6. WritersOK'
    <3>1. writers[b].i <= Len(ToAnnounce(b)) /\ Len(ToAnnounce(b)) \in Nat
      BY <2>1, ItemsAreEdges DEF WritersOK
    <3> QED
      BY <2>1, <3>1, AdvanceOK
  <2> QED
    BY <2>4, <2>5, <2>6
<1>8. ASSUME NEW b \in Batches, Abandon(b) PROVE FeedInv'
  BY <1>2, <1>8, MoveOK DEF Abandon
<1>9. ASSUME NEW e, MarkStale(e) PROVE FeedInv'
  <2>1. /\ e \in DOMAIN edges /\ edges' = [edges EXCEPT ![e].stale = TRUE]
        /\ UNCHANGED <<now, writers, alerts, walk>>
    BY <1>9 DEF MarkStale
  <2>2. /\ DOMAIN edges' = DOMAIN edges
        /\ \A f \in DOMAIN edges : f # e => edges'[f] = edges[f]
        /\ edges'[e].at = edges[e].at /\ edges'[e].expires = edges[e].expires /\ edges'[e].stale = TRUE
        /\ edges'[e] \in [at : Nat, stale : BOOLEAN, expires : Nat]
    <3>1. edges[e] \in [at : Nat, stale : BOOLEAN, expires : Nat] /\ TRUE \in BOOLEAN
      BY <1>0, <2>1
    <3> QED
      BY <2>1, <3>1
  <2>3. Timed(edges') /\ Extends(edges', edges) /\ Extends(alerts', alerts)
    BY <1>0, <2>1, <2>2 DEF Timed, Extends
  <2>4. TablesOK'
    BY <1>0, <2>1, <2>2, <2>3 DEF TablesOK
  <2>5. \A f \in DOMAIN edges : /\ ~edges'[f].stale => ~edges[f].stale
                                /\ edges[f].expires \in Nat /\ edges'[f].expires = edges[f].expires
    BY <1>0, <2>1, <2>2
  <2>6. WalkOK'
    BY <1>0, <2>1, <2>3, <2>5, WalkKept
  <2> QED
    BY <2>1, <2>4, <2>6 DEF WritersOK
<1>10. ASSUME NEW e, Acknowledge(e) PROVE FeedInv'
  <2>1. /\ e \in DOMAIN alerts /\ alerts[e].acknowledged = NotYet
        /\ alerts' = [alerts EXCEPT ![e].acknowledged = now]
        /\ UNCHANGED <<now, writers, edges, walk>>
    BY <1>10 DEF Acknowledge
  <2>2. /\ DOMAIN alerts' = DOMAIN alerts
        /\ \A f \in DOMAIN alerts : f # e => alerts'[f] = alerts[f]
        /\ alerts'[e].at = alerts[e].at
        /\ alerts'[e] \in [at : Nat, acknowledged : Nat]
    <3>1. alerts[e] \in [at : Nat, acknowledged : Nat]
      BY <1>0, <2>1
    <3> QED
      BY <1>0, <2>1, <3>1
  <2>3. Timed(alerts') /\ Extends(edges', edges) /\ Extends(alerts', alerts)
    BY <1>0, <2>1, <2>2 DEF Timed, Extends
  <2>4. TablesOK'
    BY <1>0, <2>1, <2>2, <2>3 DEF TablesOK
  <2>5. \A f \in DOMAIN alerts :
          alerts'[f].acknowledged = NotYet => alerts[f].acknowledged = NotYet
    BY <2>1, <2>2
  <2>6. WalkOK'
    BY <1>0, <2>1, <2>3, <2>5, WalkKept
  <2> QED
    BY <2>1, <2>4, <2>6 DEF WritersOK
<1>11. CASE Tick
  <2>1. now' = now + 1 /\ UNCHANGED <<writers, edges, alerts, walk>>
    BY <1>11 DEF Tick, tables
  <2>2. Extends(edges', edges) /\ Extends(alerts', alerts)
    BY <2>1 DEF Extends
  <2>3. WalkOK'
    BY <1>0, <2>1, <2>2, WalkKept
  <2>4. TablesOK'
    BY <1>0, <2>1 DEF TablesOK, Timed
  <2> QED
    BY <2>1, <2>3, <2>4 DEF WritersOK
<1>12. CASE StartWalk
  <2>1. UNCHANGED <<now, writers, edges, alerts>>
    BY <1>12 DEF StartWalk, tables
  <2>2. PICK q \in Queries :
          walk' = [on |-> TRUE, query |-> q, got |-> <<>>, more |-> TRUE, first |-> Matching(q)]
    BY <1>12 DEF StartWalk
  <2>3. Matching(q)' = Matching(q) /\ Rows(q.table)' = Rows(q.table)
    BY <2>1 DEF Matching, Rows
  <2>4. Listed(Rows(q.table), <<>>)
    BY DEF Listed
  <2>5. Matching(q) \subseteq DOMAIN Rows(q.table)
    BY DEF Matching
  <2>6. Covered(Rows(q.table), Matching(q) \cap Matching(q), <<>>, TRUE)
    BY DEF Covered, Ahead
  <2>7. WalkOK'
    BY <2>2, <2>3, <2>4, <2>5, <2>6 DEF WalkOK
  <2> QED
    BY <2>1, <2>7 DEF WritersOK, TablesOK, Timed
<1>13. CASE GetPage
  <2>0. PICK q : q = walk.query
    OBVIOUS
  <2> DEFINE rows == Rows(q.table)
             rest == {e \in Matching(q) : Ahead(rows, e, walk.got)}
             read == FirstRows(rows, rest, Limit + 1)
             n == IF Len(read) < Limit THEN Len(read) ELSE Limit
             all == walk.got \o SubSeq(read, 1, n)
  <2>1. walk.on /\ walk.more = TRUE /\ UNCHANGED <<now, writers, edges, alerts>>
    BY <1>13 DEF GetPage, tables, WalkOK
  <2>2. walk' = [walk EXCEPT !.got = all, !.more = Len(read) > Limit]
    BY <1>13, <2>0 DEF GetPage, Last, Ahead
  <2>3. walk' = [on |-> walk.on, query |-> q, got |-> all, more |-> Len(read) > Limit,
                 first |-> walk.first]
    BY <2>0, <2>2 DEF WalkOK
  <2>4. Matching(q)' = Matching(q) /\ Rows(q.table)' = rows
    BY <2>1 DEF Matching, Rows
  <2>5. Timed(rows) /\ Matching(q) \subseteq DOMAIN rows /\ Limit + 1 \in Nat
    BY <1>0, PageAssumption DEF Matching, Rows
  <2>6. PageOf(rows, rest, Limit + 1, read)
    <3>1. rest \in SUBSET (DOMAIN rows)
      BY <2>5
    <3> HIDE DEF rest, rows
    <3> QED
      BY <2>5, <3>1, FirstRowsArePage
  <2>7. /\ Listed(rows, walk.got) /\ walk.first \subseteq DOMAIN rows
        /\ Covered(rows, walk.first \cap Matching(q), walk.got, TRUE)
    BY <2>0, <2>1 DEF WalkOK
  <2>8. Listed(rows, all) /\ Covered(rows, walk.first \cap Matching(q), all, Len(read) > Limit)
    <3> HIDE DEF rows, read
    <3> QED
      BY <2>5, <2>6, <2>7, PageCovers
  <2>10. (Len(read) > Limit) \in BOOLEAN
    OBVIOUS
  <2> HIDE DEF all, read, rest, rows
  <2>9. WalkOK'
    BY <2>1, <2>3, <2>4, <2>7, <2>8, <2>10 DEF WalkOK
  <2> QED
    BY <2>1, <2>9 DEF WritersOK, TablesOK, Timed
<1>14. CASE EndWalk
  <2>1. UNCHANGED <<now, writers, edges, alerts>> /\ walk' = NoWalk
    BY <1>14 DEF EndWalk, tables
  <2>2. WalkOK'
    BY <2>1 DEF WalkOK, NoWalk
  <2> QED
    BY <2>1, <2>2 DEF WritersOK, TablesOK, Timed
<1>15. CASE UNCHANGED feedVars
  BY <1>2, <1>15 DEF feedVars, WritersOK
<1> QED
  BY <1>3, <1>4, <1>5, <1>6, <1>7, <1>8, <1>9, <1>10, <1>11, <1>12, <1>13, <1>14, <1>15
     DEF FeedNext, WriterStep

\* In every reachable state the writers are within their batches, the rows of
\* both tables have ids and times, and a walk under way is where it should be.
THEOREM FeedInvariant == FeedSpec => []FeedInv
<1>1. FeedInit => FeedInv
  BY FeedStart
<1>2. FeedInv /\ [FeedNext]_feedVars => FeedInv'
  BY FeedStep
<1> QED
  BY <1>1, <1>2, PTL DEF FeedSpec

\* A walk to the last page returns every row that matched when it started and
\* still does, and no row twice (list_edges, list_alerts, next_cursor), for any
\* batches, any page size and any length of the walk.
THEOREM WalksAreExact == FeedSpec => []WalkIsExact
<1>1. FeedInv => WalkIsExact
  <2> SUFFICES ASSUME FeedInv, walk.on PROVE WalkIsExact
    BY DEF WalkIsExact
  <2> DEFINE rows == Rows(walk.query.table)
  <2>1. /\ Listed(rows, walk.got) /\ walk.more \in BOOLEAN
        /\ Covered(rows, walk.first \cap Matching(walk.query), walk.got, walk.more)
    BY DEF FeedInv, WalkOK
  <2>2. Timed(rows)
    BY DEF FeedInv, TablesOK, Rows
  <2> HIDE DEF rows
  <2>3. walk.got \in Seq(DOMAIN rows) /\ DOMAIN walk.got = 1..Len(walk.got) /\ Len(walk.got) \in Nat
    BY <2>1 DEF Listed
  <2>4. ASSUME NEW i \in 1..Len(walk.got), NEW j \in 1..Len(walk.got), i < j
        PROVE  walk.got[i] # walk.got[j]
    <3>1. Before(rows, walk.got[j], walk.got[i]) /\ walk.got[i] \in DOMAIN rows
      BY <2>1, <2>3, <2>4 DEF Listed
    <3> QED
      BY <2>2, <3>1, ListingOrder
  <2>5. \A i, j \in 1..Len(walk.got) : walk.got[i] = walk.got[j] => i = j
    <3> SUFFICES ASSUME NEW i \in 1..Len(walk.got), NEW j \in 1..Len(walk.got), i # j
                 PROVE  walk.got[i] # walk.got[j]
      OBVIOUS
    <3>1. i < j \/ j < i
      OBVIOUS
    <3> QED
      BY <2>4, <3>1
  <2>6. Seen(walk.got) = ToSet(walk.got)
    BY <2>3 DEF Seen, ToSet
  <2> QED
    BY <2>1, <2>3, <2>5, <2>6 DEF WalkIsExact, IsInjective, Covered
<1> QED
  BY <1>1, FeedInvariant, PTL
=============================================================================
