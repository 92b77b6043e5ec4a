----------------------------- MODULE Induction ------------------------------
(***************************************************************************)
(* Least and greatest elements of sets of naturals, and induction over an   *)
(* interval, stated for a set. The proofs of the components rest their      *)
(* arguments about CHOOSE, Max and recursive functions on these.            *)
(***************************************************************************)
EXTENDS Integers, WellFoundedInduction, NaturalsInduction, FiniteSetTheorems, TLAPS

(* A set of naturals that is not empty has a least element.                  *)
LEMMA LeastElement ==
    ASSUME NEW T, T \subseteq Nat, T # {}
    PROVE  \E x \in T : \A y \in T : x <= y
<1>1. PICK x \in T : \A y \in T : ~(<<y, x>> \in OpToRel(<, Nat))
  BY NatLessThanWellFounded, WFMin, Zenon
<1>2. ASSUME NEW y \in T PROVE x <= y
  <2>1. <<y, x>> \notin OpToRel(<, Nat)
    BY <1>1
  <2>2. y \in Nat /\ x \in Nat
    OBVIOUS
  <2>3. CASE y < x
    <3>1. <<y, x>> \in OpToRel(<, Nat)
      BY <2>2, <2>3 DEF OpToRel
    <3> QED
      BY <3>1, <2>1
  <2> QED
    BY <2>2, <2>3
<1> QED
  BY <1>2

(* A set of naturals below a bound has a greatest element.                   *)
LEMMA GreatestElement ==
    ASSUME NEW n \in Nat, NEW T, T \subseteq 0..n, T # {}
    PROVE  \E x \in T : \A y \in T : y <= x
<1> DEFINE U == {n - y : y \in T}
<1>1. U \subseteq Nat /\ U # {}
  <2>1. ASSUME NEW y \in T PROVE n - y \in Nat
    OBVIOUS
  <2>2. PICK y \in T : TRUE
    OBVIOUS
  <2>3. n - y \in U
    BY <2>2
  <2> QED
    BY <2>1, <2>3
<1>2. PICK u \in U : \A v \in U : u <= v
  <2> HIDE DEF U
  <2> QED
    BY <1>1, LeastElement
<1>3. PICK x \in T : u = n - x
  OBVIOUS
<1>4. ASSUME NEW y \in T PROVE y <= x
  <2>1. u <= n - y
    BY <1>2
  <2> QED
    BY <1>3, <2>1
<1> QED
  BY <1>4

(* Induction over 0..n: a set that holds 0 and the successors of its members *)
(* below n holds the interval.                                              *)
LEMMA UpTo ==
    ASSUME NEW n \in Nat, NEW T, 0 \in T, \A k \in T : k \in 0..n - 1 => k + 1 \in T
    PROVE  0..n \subseteq T
<1> DEFINE U == (0..n) \ T
<1> SUFFICES ASSUME U # {} PROVE FALSE
  OBVIOUS
<1>1. U \subseteq Nat
  OBVIOUS
<1>2. PICK k \in U : \A j \in U : k <= j
  <2> HIDE DEF U
  <2> QED
    BY <1>1, LeastElement
<1>3. k \in 1..n /\ k - 1 \in T
  <2>1. k \in 1..n
    BY <1>2
  <2> QED
    BY <1>2, <2>1
<1>4. k - 1 + 1 = k /\ k - 1 \in 0..n - 1
  BY <1>3
<1> QED
  BY <1>2, <1>3, <1>4

(* Induction over the subsets of a finite set, one element at a time.        *)
LEMMA OneByOne ==
    ASSUME NEW S, IsFiniteSet(S), NEW P, {} \in P,
           \A T \in SUBSET S : \A x \in S \ T : T \in P => T \cup {x} \in P
    PROVE  S \in P
<1> DEFINE K == {k \in Nat : \A T \in SUBSET S : Cardinality(T) = k => T \in P}
<1>1. Cardinality(S) \in Nat
  BY FS_CardinalityType
<1>2. 0 \in K
  <2>1. ASSUME NEW T \in SUBSET S, Cardinality(T) = 0 PROVE T \in P
    <3>1. IsFiniteSet(T)
      BY FS_Subset
    <3>2. T = {}
      BY <2>1, <3>1, FS_EmptySet
    <3> QED
      BY <3>2
  <2> QED
    BY <2>1
<1>3. ASSUME NEW k \in K PROVE k + 1 \in K
  <2>1. ASSUME NEW T \in SUBSET S, Cardinality(T) = k + 1 PROVE T \in P
    <3>1. IsFiniteSet(T) /\ k \in Nat
      BY FS_Subset
    <3>2. PICK x \in T : TRUE
      <4>1. T # {}
        BY <2>1, <3>1, FS_EmptySet
      <4> QED
        BY <4>1
    <3>3. IsFiniteSet(T \ {x}) /\ Cardinality(T \ {x}) = Cardinality(T) - 1
      BY <3>1, <3>2, FS_RemoveElement
    <3>4. T \ {x} \in SUBSET S /\ x \in S \ (T \ {x}) /\ Cardinality(T \ {x}) = k
      BY <2>1, <3>1, <3>2, <3>3
    <3>5. T \ {x} \in P
      BY <3>4
    <3>6. (T \ {x}) \cup {x} \in P
      BY <3>4, <3>5
    <3>7. (T \ {x}) \cup {x} = T
      BY <3>2
    <3> QED
      BY <3>6, <3>7
  <2> QED
    BY <2>1
<1>4. 0..Cardinality(S) \subseteq K
  <2> HIDE DEF K
  <2> QED
    BY <1>1, <1>2, <1>3, UpTo
<1> QED
  BY <1>1, <1>4

(* Recursion over the subsets of a finite set: a fold that takes the elements *)
(* of a set in the order that pick says is a function.                       *)
CanFold(D, V, base, pick, step) ==
  /\ IsFiniteSet(D)
  /\ base \in V
  /\ \A s \in SUBSET D : s # {} => pick[s] \in s
  /\ \A x \in D : \A v \in V : step[x][v] \in V

IsFold(f, D, V, base, pick, step) ==
  /\ f \in [SUBSET D -> V]
  /\ \A s \in SUBSET D : f[s] = IF s = {} THEN base ELSE step[pick[s]][f[s \ {pick[s]}]]

LEMMA FoldExists ==
    ASSUME NEW D, NEW V, NEW base, NEW pick, NEW step, CanFold(D, V, base, pick, step)
    PROVE  \E f : IsFold(f, D, V, base, pick, step)
<1> DEFINE Upto(n) == {s \in SUBSET D : Cardinality(s) <= n}
           Folds(f, n) ==
             /\ f \in [SUBSET D -> V]
             /\ \A s \in Upto(n) :
                   f[s] = IF s = {} THEN base ELSE step[pick[s]][f[s \ {pick[s]}]]
           N == {n \in Nat : \E f : Folds(f, n)}
<1> USE DEF CanFold
<1>a. \A s \in SUBSET D : IsFiniteSet(s) /\ Cardinality(s) \in Nat
  BY FS_Subset, FS_CardinalityType
<1>1. 0 \in N
  <2> DEFINE f == [s \in SUBSET D |-> base]
  <2>1. ASSUME NEW s \in Upto(0) PROVE s = {}
    BY <1>a, FS_EmptySet
  <2>2. Folds(f, 0)
    BY <2>1
  <2> HIDE DEF f, Folds
  <2> QED
    BY <2>2
<1>2. ASSUME NEW n \in N PROVE n + 1 \in N
  <2>1. PICK f : Folds(f, n)
    OBVIOUS
  <2> DEFINE g == [s \in SUBSET D |->
                     IF s = {} THEN base ELSE step[pick[s]][f[s \ {pick[s]}]]]
  <2>2. g \in [SUBSET D -> V]
    <3>1. ASSUME NEW s \in SUBSET D, s # {} PROVE step[pick[s]][f[s \ {pick[s]}]] \in V
      <4>1. pick[s] \in D /\ s \ {pick[s]} \in SUBSET D
        BY <3>1
      <4>2. f[s \ {pick[s]}] \in V
        BY <2>1, <4>1
      <4> QED
        BY <4>1, <4>2
    <3> QED
      BY <3>1
  <2>3. ASSUME NEW s \in Upto(n + 1)
        PROVE  g[s] = IF s = {} THEN base ELSE step[pick[s]][g[s \ {pick[s]}]]
    <3>1. CASE s = {}
      BY <3>1
    <3>2. CASE s # {}
      <4> DEFINE r == s \ {pick[s]}
      <4>1. pick[s] \in s /\ r \in SUBSET D
        BY <3>2
      <4>2. Cardinality(r) = Cardinality(s) - 1
        BY <1>a, <4>1, FS_RemoveElement
      <4>3. r \in Upto(n)
        BY <1>a, <4>1, <4>2
      <4>4. f[r] = g[r]
        BY <2>1, <4>1, <4>3
      <4> QED
        BY <3>2, <4>4
    <3> QED
      BY <3>1, <3>2
  <2>4. Folds(g, n + 1)
    <3> HIDE DEF g
    <3> QED
      BY <2>2, <2>3
  <2> HIDE DEF Folds
  <2> QED
    BY <2>4
<1>3. Cardinality(D) \in N
  <2>1. 0..Cardinality(D) \subseteq N
    <3> HIDE DEF N
    <3> QED
      BY <1>1, <1>2, <1>a, UpTo
  <2>2. Cardinality(D) \in Nat
    BY FS_CardinalityType
  <2> HIDE DEF N
  <2> QED
    BY <2>1, <2>2
<1>4. PICK f : Folds(f, Cardinality(D))
  BY <1>3
<1>5. \A s \in SUBSET D : s \in Upto(Cardinality(D))
  BY FS_Subset, <1>a
<1> QED
  BY <1>4, <1>5 DEF IsFold
=============================================================================
