---------------------------- MODULE NaturalLemmas ----------------------------
(***************************************************************************)
(* Facts about natural numbers and finite sets of them that the proofs of  *)
(* several components need: division and products, least and greatest      *)
(* elements.  The least element of a set of counterexamples also stands    *)
(* for an induction where a proof needs one.                               *)
(***************************************************************************)
EXTENDS Integers, FiniteSets, FiniteSetsExt, FiniteSetTheorems,
        NaturalsInduction, WellFoundedInduction, TLAPS

(* Integer division, as the chunk sizes of _contiguous_chunks use it.      *)
LEMMA Division ==
  ASSUME NEW n \in Nat, NEW c \in Nat \ {0}
  PROVE  /\ n \div c \in Nat /\ n % c \in 0..(c - 1)
         /\ n = c * (n \div c) + (n % c)
BY SMT

LEMMA ProductGrows ==
  ASSUME NEW s \in Nat, NEW t \in Nat, NEW q \in Nat, s <= t
  PROVE  s * q \in Nat /\ t * q \in Nat /\ s * q <= t * q
BY SMT

LEMMA ProductStep ==
  ASSUME NEW t \in Nat \ {0}, NEW q \in Nat
  PROVE  t * q = (t - 1) * q + q
BY SMT

(* A non-empty set of naturals has a least element, which Min chooses.     *)
LEMMA LeastElement ==
  ASSUME NEW S \in SUBSET Nat, S # {}
  PROVE  Min(S) \in S /\ \A y \in S : Min(S) <= y
<1> DEFINE R == {ss \in Nat \X Nat : ss[1] < ss[2]}
<1>1. IsWellFoundedOn(R, Nat)
  BY NatLessThanWellFounded, Zenon DEF OpToRel
<1> HIDE DEF R
<1>2. PICK x \in S : \A y \in S : ~(<<y, x>> \in R)
  BY <1>1, WFMin, Zenon
<1>3. \A y \in S : ~(y < x)
  BY <1>2 DEF R
<1>4. \E z \in S : \A y \in S : z <= y
  BY <1>3, SMT
<1> QED BY <1>4, Zenon DEF Min

(* A set that holds 0 and the successor of its naturals holds them all.    *)
LEMMA EveryNatural ==
  ASSUME NEW S, 0 \in S, \A n \in Nat : n \in S => n + 1 \in S
  PROVE  \A n \in Nat : n \in S
<1> SUFFICES ASSUME Nat \ S # {} PROVE FALSE
  OBVIOUS
<1> DEFINE d == Min(Nat \ S)
<1>1. d \in Nat \ S /\ \A n \in Nat \ S : d <= n
  BY LeastElement
<1> HIDE DEF d
<1>2. d # 0 /\ d - 1 \in Nat
  BY <1>1
<1>3. d - 1 \in S
  BY <1>1, <1>2
<1> QED BY <1>1, <1>2, <1>3

(* The least failure of an interval is the least of all when none precedes *)
(* the interval.                                                           *)
LEMMA LeastOfInterval ==
  ASSUME NEW F \in SUBSET Nat, NEW a \in Nat, NEW b \in Nat,
         \A x \in F : x > a, ((a + 1)..b) \cap F # {}
  PROVE  /\ Min(((a + 1)..b) \cap F) = Min(F)
         /\ Min(F) \in ((a + 1)..b) \cap F
<1> DEFINE T == ((a + 1)..b) \cap F
<1>1. T \in SUBSET Nat /\ T # {} /\ F # {}
  OBVIOUS
<1>2. Min(T) \in T /\ \A y \in T : Min(T) <= y
  BY <1>1, LeastElement
<1>3. Min(F) \in F /\ \A y \in F : Min(F) <= y
  BY <1>1, LeastElement
<1> DEFINE m == Min(T)  n == Min(F)
<1>4. m \in T /\ \A y \in T : m <= y
  BY <1>2
<1>5. n \in F /\ \A y \in F : n <= y
  BY <1>3
<1> HIDE DEF m, n
<1>6. n <= m /\ m <= b /\ n > a
  BY <1>4, <1>5
<1>7. n \in T
  BY <1>4, <1>5, <1>6
<1>8. m = n
  BY <1>4, <1>5, <1>6, <1>7
<1> QED BY <1>7, <1>8 DEF m, n

(* A non-empty set of naturals with an upper bound has a greatest element, *)
(* which Max chooses.                                                      *)
LEMMA GreatestElement ==
  ASSUME NEW S \in SUBSET Nat, S # {}, NEW b \in Nat, \A x \in S : x <= b
  PROVE  Max(S) \in S /\ \A y \in S : y <= Max(S)
<1> DEFINE U == {u \in Nat : \A x \in S : x <= u}
<1>1. U \in SUBSET Nat /\ b \in U
  OBVIOUS
<1>2. Min(U) \in U /\ \A y \in U : Min(U) <= y
  BY <1>1, LeastElement
<1> DEFINE m == Min(U)
<1>3. m \in Nat /\ \A x \in S : x <= m
  BY <1>2
<1>4. \A u \in Nat : (\A x \in S : x <= u) => m <= u
  BY <1>2
<1> HIDE DEF m, U
<1>5. m \in S
  <2> SUFFICES ASSUME m \notin S PROVE FALSE
    OBVIOUS
  <2>1. \A x \in S : x \in Nat /\ x < m
    BY <1>3
  <2>2. m - 1 \in Nat
    <3>1. PICK x \in S : TRUE
      OBVIOUS
    <3> QED BY <3>1, <1>3, <2>1
  <2>3. \A x \in S : x <= m - 1
    BY <1>3, <2>1
  <2> QED BY <1>3, <1>4, <2>2, <2>3
<1>6. \A y \in S : m >= y
  BY <1>3
<1>7. \E z \in S : \A y \in S : z >= y
  BY <1>5, <1>6, Zenon
<1>8. Max(S) \in S /\ \A y \in S : Max(S) >= y
  BY <1>7, Zenon DEF Max
<1> QED BY <1>8

(* A cost that is additive over the sets of K is at most the size of a set *)
(* times the cost of its dearest element: a set of least size that cost    *)
(* more would, less one element, cost more too.                            *)
LEMMA AdditiveBound ==
  ASSUME NEW K, IsFiniteSet(K), NEW W \in [SUBSET K -> Nat], W[{}] = 0,
         \A S, T \in SUBSET K : S \cap T = {} => W[S \cup T] = W[S] + W[T],
         NEW m \in Nat, NEW A \in SUBSET K, \A k \in A : W[{k}] <= m
  PROVE  Cardinality(A) \in Nat /\ W[A] <= Cardinality(A) * m
<1>1. \A S \in SUBSET K : IsFiniteSet(S) /\ Cardinality(S) \in Nat
  BY FS_Subset, FS_CardinalityType
<1> DEFINE Dear(n) == \E S \in SUBSET A : Cardinality(S) = n /\ ~(W[S] <= n * m)
           D == {n \in Nat : Dear(n)}
<1>2. D = {}
  <2> SUFFICES ASSUME D # {} PROVE FALSE
    OBVIOUS
  <2> DEFINE d == Min(D)
  <2>1. d \in D /\ \A n \in D : d <= n
    BY LeastElement
  <2> HIDE DEF d
  <2>2. PICK S \in SUBSET A : Cardinality(S) = d /\ ~(W[S] <= d * m)
    BY <2>1
  <2>3. S # {}
    <3> SUFFICES ASSUME S = {} PROVE FALSE
      OBVIOUS
    <3>1. d = 0
      BY <2>2, FS_EmptySet
    <3> QED BY <2>2, <3>1
  <2>4. PICK k \in S : TRUE
    BY <2>3
  <2> DEFINE R == S \ {k}
  <2>5. R \in SUBSET A /\ Cardinality(R) = d - 1 /\ Cardinality(R) \in Nat
    BY <1>1, <2>2, FS_RemoveElement
  <2>6. W[S] = W[R] + W[{k}]
    <3>1. S = R \cup {k} /\ R \cap {k} = {} /\ R \in SUBSET K /\ {k} \in SUBSET K
      OBVIOUS
    <3> HIDE DEF R
    <3> QED BY <3>1
  <2> HIDE DEF R
  <2>7. W[R] <= (d - 1) * m
    <3>1. ~Dear(d - 1)
      BY <2>1, <2>5
    <3> QED BY <2>5, <3>1
  <2>8. d \in Nat \ {0}
    BY <2>1, <2>5
  <2>9. d * m = (d - 1) * m + m
    BY <2>8, ProductStep
  <2>10. (d - 1) * m \in Nat /\ d * m \in Nat
    <3>1. d \in Nat /\ d - 1 \in Nat /\ d - 1 <= d
      BY <2>8
    <3> QED BY <3>1, ProductGrows
  <2>11. W[R] \in Nat /\ W[S] \in Nat /\ W[{k}] \in Nat /\ W[{k}] <= m
    <3>1. {k} \in SUBSET K /\ k \in A
      OBVIOUS
    <3> QED BY <2>5, <3>1
  <2> DEFINE a == (d - 1) * m  b == d * m
  <2>12. b = a + m /\ W[R] <= a /\ ~(W[S] <= b) /\ a \in Nat /\ b \in Nat
    BY <2>2, <2>7, <2>9, <2>10
  <2> HIDE DEF a, b
  <2> QED BY <2>6, <2>11, <2>12
<1>3. Cardinality(A) \in Nat
  BY <1>1
<1>4. ~Dear(Cardinality(A))
  BY <1>2, <1>3
<1> QED BY <1>3, <1>4

(* The contiguous cut of n items into m ranges, the first n % m of them    *)
(* one item longer: where the ranges begin.                                *)
LEMMA Cut ==
  ASSUME NEW n \in Nat \ {0}, NEW m \in Nat \ {0}, m <= n, NEW F,
         \A k \in 1..(m + 1) :
           F[k] = (k - 1) * (n \div m) + Min({k - 1, n % m}) + 1
  PROVE  /\ F[1] = 1 /\ F[m + 1] = n + 1
         /\ \A k \in 1..(m + 1) : F[k] \in Nat
         /\ \A k, l \in 1..(m + 1) : k < l => F[k] < F[l]
<1> DEFINE q == n \div m  r == n % m
<1>f. \A k \in 1..(m + 1) : F[k] = (k - 1) * q + Min({k - 1, r}) + 1
  OBVIOUS
<1>2. q \in Nat /\ r \in 0..(m - 1) /\ n = m * q + r
  BY Division, Zenon
<1> HIDE DEF q, r
<1>3. q > 0
  <2> SUFFICES ASSUME q = 0 PROVE FALSE
    BY <1>2
  <2> QED BY <1>2
<1>4. \A k \in 1..(m + 1) : Min({k - 1, r}) = IF k - 1 < r THEN k - 1 ELSE r
  <2> TAKE k \in 1..(m + 1)
  <2> DEFINE x == Min({k - 1, r})
  <2>1. {k - 1, r} \in SUBSET Nat /\ {k - 1, r} # {}
    BY <1>2
  <2>2. x \in {k - 1, r} /\ \A y \in {k - 1, r} : x <= y
    BY <2>1, LeastElement
  <2> HIDE DEF x
  <2>3. x = IF k - 1 < r THEN k - 1 ELSE r
    BY <1>2, <2>2
  <2> QED BY <2>3 DEF x
<1>5. \A k \in 1..(m + 1) :
        F[k] = (k - 1) * q + (IF k - 1 < r THEN k - 1 ELSE r) + 1
  BY <1>f, <1>4
<1>6. \A k \in 1..(m + 1) : (k - 1) * q \in Nat
  BY <1>2, ProductGrows
<1>7. \A k \in 1..(m + 1) : F[k] \in Nat
  BY <1>2, <1>5, <1>6
<1>8. F[1] = 1
  <2>1. 0 * q = 0
    BY <1>2
  <2>2. 1 \in 1..(m + 1)
    OBVIOUS
  <2> QED BY <1>2, <1>5, <2>1, <2>2
<1>9. F[m + 1] = n + 1
  <2>1. m + 1 \in 1..(m + 1) /\ (m + 1) - 1 = m /\ ~(m < r)
    BY <1>2
  <2>2. F[m + 1] = m * q + r + 1
    BY <1>5, <2>1
  <2> QED BY <1>2, <2>2
<1>10. ASSUME NEW k \in 1..(m + 1), NEW l \in 1..(m + 1), k < l
       PROVE  F[k] < F[l]
  <2>1. k * q = (k - 1) * q + q
    BY <1>2, ProductStep
  <2>2. k * q \in Nat /\ (l - 1) * q \in Nat /\ k * q <= (l - 1) * q
    BY <1>2, <1>10, ProductGrows
  <2> DEFINE x == (k - 1) * q  y == k * q  z == (l - 1) * q
  <2>3. y = x + q /\ x \in Nat /\ y <= z /\ z \in Nat
    BY <2>1, <2>2, <1>6
  <2>4. /\ F[k] = x + (IF k - 1 < r THEN k - 1 ELSE r) + 1
        /\ F[l] = z + (IF l - 1 < r THEN l - 1 ELSE r) + 1
    BY <1>5
  <2> HIDE DEF x, y, z
  <2> QED BY <1>2, <1>3, <1>10, <2>3, <2>4
<1> QED BY <1>7, <1>8, <1>9, <1>10

=============================================================================
