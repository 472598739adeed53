-------------------------- MODULE Induction_proofs --------------------------
(***************************************************************************)
(* Induction over numbers and over finite sets, as facts about sets: a set *)
(* of counterexamples that is not empty has a least element.               *)
(***************************************************************************)
EXTENDS Integers, FiniteSetsExt, FiniteSetTheorems, TLAPS

\* A set of numbers that is not empty has a least element.
LEMMA LeastNumber ==
    ASSUME NEW T, T \subseteq Nat, T # {}
    PROVE  \E x \in T : \A y \in T : x <= y
<1> DEFINE R == OpToRel(<, Nat)
<1>1. \A x, y \in Nat : <<y, x>> \in R <=> y < x
  BY DEF OpToRel
<1>2. IsWellFoundedOn(R, Nat)
  BY NatLessThanWellFounded
<1> HIDE DEF R
<1>3. \E x \in T : \A y \in T : ~(<<y, x>> \in R)
  BY <1>2, WFMin
<1>4. PICK x \in T : \A y \in T : ~(<<y, x>> \in R)
  BY <1>3
<1>5. ASSUME NEW y \in T PROVE x <= y
  <2>1. x \in Nat /\ y \in Nat /\ ~(<<y, x>> \in R)
    BY <1>4
  <2>2. ~(y < x)
    BY <1>1, <2>1
  <2> QED
    BY <2>1, <2>2
<1> QED
  BY <1>4, <1>5

\* A set that holds zero, and the successor of each number it holds, holds all
\* the numbers.
LEMMA EveryNumber ==
    ASSUME NEW S, 0 \in S, \A n \in Nat : n \in S => n + 1 \in S
    PROVE  \A n \in Nat : n \in S
<1> DEFINE T == {n \in Nat : n \notin S}
<1>1. SUFFICES ASSUME T # {} PROVE FALSE
  OBVIOUS
<1>2. PICK x \in T : \A y \in T : x <= y
  BY <1>1, LeastNumber
<1>3. x # 0 /\ x - 1 \in Nat /\ x - 1 \in S
  BY <1>2
<1> QED
  BY <1>2, <1>3

\* A set of sets that holds every part of a finite set all of whose parts
\* without one element it holds, holds that set.
LEMMA EverySubset ==
    ASSUME NEW D, IsFiniteSet(D), NEW S,
           \A s \in SUBSET D : (\A x \in s : s \ {x} \in S) => s \in S
    PROVE  \A s \in SUBSET D : s \in S
<1> DEFINE T == {s \in SUBSET D : s \notin S}
           R == StrictSubsetOrdering(D)
<1>1. SUFFICES ASSUME T # {} PROVE FALSE
  OBVIOUS
<1>2. IsWellFoundedOn(R, SUBSET D)
  BY FS_StrictSubsetOrderingWellFounded, FS_FiniteSubsetsOfFinite
<1>3. T \subseteq SUBSET D
  OBVIOUS
<1>4. \A t, s \in SUBSET D : t \subseteq s /\ t # s => <<t, s>> \in R
  BY DEF StrictSubsetOrdering
<1> HIDE DEF R
<1>5. PICK s \in T : \A t \in T : <<t, s>> \notin R
  <2>1. \E s \in T : \A t \in T : ~(<<t, s>> \in R)
    <3> HIDE DEF T
    <3> QED
      BY <1>1, <1>2, <1>3, WFMin
  <2> QED
    BY <2>1
<1>6. ASSUME NEW x \in s PROVE s \ {x} \in S
  <2>1. /\ s \in SUBSET D /\ s \ {x} \in SUBSET D
        /\ s \ {x} \subseteq s /\ s \ {x} # s
    BY <1>3, <1>5
  <2>2. <<s \ {x}, s>> \in R
    BY <1>4, <2>1
  <2>3. s \ {x} \notin T
    BY <1>5, <2>2
  <2> QED
    BY <2>1, <2>3
<1> QED
  BY <1>5, <1>6

-----------------------------------------------------------------------------
(***************************************************************************)
(* The sum of the values of a function, counted as pairs.                  *)
(***************************************************************************)
Units(f, s) == UNION {{i} \X (1 .. f[i]) : i \in s}

\* A sum is a number, nothing sums up to zero, and every element adds its
\* value.
LEMMA UnitsAdd ==
    ASSUME NEW D, IsFiniteSet(D), NEW f \in [D -> Nat]
    PROVE  /\ Cardinality(Units(f, {})) = 0
           /\ \A s \in SUBSET D : /\ IsFiniteSet(Units(f, s))
                                  /\ Cardinality(Units(f, s)) \in Nat
           /\ \A s \in SUBSET D : \A x \in s :
                 Cardinality(Units(f, s)) =
                     f[x] + Cardinality(Units(f, s \ {x}))
<1>1. ASSUME NEW x \in D
      PROVE  IsFiniteSet({x} \X (1 .. f[x])) /\ Cardinality({x} \X (1 .. f[x])) = f[x]
  <2> DEFINE X == {x}
             N == 1 .. f[x]
  <2>1. IsFiniteSet(N) /\ Cardinality(N) = f[x] /\ f[x] \in Nat
    BY FS_Interval
  <2>2. IsFiniteSet(X) /\ Cardinality(X) = 1
    BY FS_Singleton
  <2> HIDE DEF X, N
  <2>3. IsFiniteSet(X \X N) /\ Cardinality(X \X N) = Cardinality(X) * Cardinality(N)
    BY <2>1, <2>2, FS_Product
  <2>4. Cardinality(X \X N) = f[x]
    BY <2>1, <2>2, <2>3
  <2> QED
    BY <2>3, <2>4 DEF X, N
<1>2. \A s \in SUBSET D : IsFiniteSet(Units(f, s))
  <2> DEFINE S == {s \in SUBSET D : IsFiniteSet(Units(f, s))}
  <2>1. ASSUME NEW s \in SUBSET D, \A x \in s : s \ {x} \in S
        PROVE  s \in S
    <3>1. CASE s = {}
      BY <3>1, FS_EmptySet DEF Units
    <3>2. ASSUME NEW x \in s PROVE s \in S
      <4> DEFINE A == {x} \X (1 .. f[x])
                 B == Units(f, s \ {x})
      <4>1. Units(f, s) = A \cup B
        BY DEF Units
      <4>2. IsFiniteSet(A) /\ IsFiniteSet(B)
        BY <1>1, <2>1
      <4> HIDE DEF A, B
      <4>3. IsFiniteSet(Units(f, s))
        BY <4>1, <4>2, FS_Union
      <4> QED
        BY <4>3
    <3> QED
      BY <3>1, <3>2
  <2> HIDE DEF S
  <2>2. \A s \in SUBSET D : s \in S
    BY <2>1, EverySubset
  <2> QED
    BY <2>2 DEF S
<1>3. ASSUME NEW s \in SUBSET D, NEW x \in s
      PROVE  Cardinality(Units(f, s)) = f[x] + Cardinality(Units(f, s \ {x}))
  <2> DEFINE A == {x} \X (1 .. f[x])
             B == Units(f, s \ {x})
  <2>1. Units(f, s) = A \cup B
    BY DEF Units
  <2>2. A \cap B = {}
    BY DEF Units
  <2>3. IsFiniteSet(A) /\ Cardinality(A) = f[x] /\ IsFiniteSet(B) /\ f[x] \in Nat
    BY <1>1, <1>2
  <2>4. Cardinality(B) \in Nat
    BY <2>3, FS_CardinalityType
  <2> HIDE DEF A, B
  <2>5. Cardinality(A \cup B)
            = Cardinality(A) + Cardinality(B) - Cardinality(A \cap B)
    BY <2>3, FS_Union
  <2>6. Cardinality(A \cap B) = 0
    BY <2>2, FS_EmptySet
  <2> QED
    BY <2>1, <2>3, <2>4, <2>5, <2>6 DEF B
<1>4. Cardinality(Units(f, {})) = 0
  BY FS_EmptySet DEF Units
<1> QED
  BY <1>2, <1>3, <1>4, FS_CardinalityType

-----------------------------------------------------------------------------
(***************************************************************************)
(* Folding a sequence from the left, as the community modules define it:   *)
(* over the sets of its places, the greatest one last.                     *)
(***************************************************************************)
\* A set of numbers up to n that is not empty has a greatest element.
LEMMA GreatestExists ==
    ASSUME NEW n \in Nat, NEW s \in SUBSET (1 .. n), s # {}
    PROVE  Max(s) \in s /\ \A y \in s : Max(s) >= y
<1> DEFINE T == {n - y : y \in s}
<1>1. T \subseteq Nat /\ T # {}
  <2>1. \A y \in s : y \in 1 .. n
    OBVIOUS
  <2>2. \A y \in s : n - y \in Nat
    BY <2>1
  <2> QED
    BY <2>2
<1>2. PICK t \in T : \A u \in T : t <= u
  <2> HIDE DEF T
  <2> QED
    BY <1>1, LeastNumber
<1>3. PICK x \in s : t = n - x
  OBVIOUS
<1>4. \A y \in s : n - x <= n - y
  BY <1>2, <1>3
<1>5. \A y \in s : x >= y
  BY <1>4
<1> QED
  BY <1>3, <1>5 DEF Max

LEMMA GreatestIs ==
    ASSUME NEW n \in Nat, NEW s \in SUBSET (1 .. n), n \in s
    PROVE  Max(s) = n
<1>1. Max(s) \in s /\ \A y \in s : Max(s) >= y
  BY GreatestExists
<1>2. Max(s) \in 1 .. n /\ Max(s) >= n
  BY <1>1
<1> QED
  BY <1>2

\* f is what the step h makes, within A, of b and the elements of cs at the
\* places in D.
Folds(f, A, h, b, cs, D) ==
    /\ f \in [SUBSET D -> A]
    /\ f = [s \in SUBSET D |->
               IF s = {} THEN b ELSE h[<<f[s \ {Max(s)}], cs[Max(s)]>>]]

\* There is such a function, and it stays among the values of the step.
LEMMA FoldExists ==
    ASSUME NEW A, NEW C, NEW b \in A, NEW h \in [A \X C -> A],
           NEW cs, NEW m \in Nat, \A i \in 1 .. m : cs[i] \in C
    PROVE  \E f : Folds(f, A, h, b, cs, 1 .. m)
<1> DEFINE Exists(n) == \E f : Folds(f, A, h, b, cs, 1 .. n)
           S == {n \in Nat : n <= m => Exists(n)}
<1>1. 0 \in S
  <2> DEFINE f == [s \in SUBSET (1 .. 0) |-> b]
  <2>1. \A s \in SUBSET (1 .. 0) : s = {}
    OBVIOUS
  <2>2. Folds(f, A, h, b, cs, 1 .. 0)
    BY <2>1 DEF Folds
  <2> QED
    BY <2>2
<1>2. ASSUME NEW n \in Nat, n \in S PROVE n + 1 \in S
  <2> SUFFICES ASSUME n + 1 <= m PROVE Exists(n + 1)
    <3> HIDE DEF Exists
    <3> QED
      OBVIOUS
  <2>1. Exists(n)
    <3> HIDE DEF Exists
    <3> QED
      BY <1>2
  <2>2. PICK f : Folds(f, A, h, b, cs, 1 .. n)
    BY <2>1
  <2>3. f \in [SUBSET (1 .. n) -> A]
    BY <2>2 DEF Folds
  <2> DEFINE g == [s \in SUBSET (1 .. n + 1) |->
                      IF n + 1 \in s THEN h[<<f[s \ {n + 1}], cs[n + 1]>>]
                      ELSE f[s]]
             Made(s) == IF s = {} THEN b
                        ELSE h[<<g[s \ {Max(s)}], cs[Max(s)]>>]
  <2>4. \A s \in SUBSET (1 .. n) :
           /\ s \in SUBSET (1 .. n + 1) /\ n + 1 \notin s
           /\ f[s] = IF s = {} THEN b ELSE h[<<f[s \ {Max(s)}], cs[Max(s)]>>]
    <3> SUFFICES ASSUME NEW s \in SUBSET (1 .. n)
                 PROVE  /\ s \in SUBSET (1 .. n + 1) /\ n + 1 \notin s
                        /\ f[s] = IF s = {} THEN b
                                  ELSE h[<<f[s \ {Max(s)}], cs[Max(s)]>>]
      OBVIOUS
    <3>1. \A y \in s : y \in 1 .. n
      OBVIOUS
    <3>2. s \subseteq 1 .. n + 1 /\ n + 1 \notin s
      BY <3>1
    <3> QED
      BY <2>2, <3>2 DEF Folds
  <2>5. \A s \in SUBSET (1 .. n) : g[s] = f[s]
    BY <2>4
  <2>6. ASSUME NEW s \in SUBSET (1 .. n + 1)
        PROVE  g[s] = Made(s) /\ g[s] \in A
    <3>1. CASE n + 1 \in s
      <4>1. Max(s) = n + 1
        <5>1. n + 1 \in Nat
          OBVIOUS
        <5> QED
          BY <3>1, <5>1, GreatestIs
      <4>2. s \ {n + 1} \in SUBSET (1 .. n)
        <5>1. \A y \in s : y \in 1 .. n + 1
          OBVIOUS
        <5>2. \A y \in s \ {n + 1} : y \in 1 .. n
          BY <5>1
        <5> QED
          BY <5>2
      <4>3. g[s \ {n + 1}] = f[s \ {n + 1}]
        BY <4>2, <2>5
      <4>4. g[s] = h[<<f[s \ {n + 1}], cs[n + 1]>>]
        BY <3>1
      <4>5. f[s \ {n + 1}] \in A /\ cs[n + 1] \in C
        BY <4>2, <2>3
      <4> HIDE DEF g
      <4> QED
        BY <3>1, <4>1, <4>3, <4>4, <4>5
    <3>2. CASE n + 1 \notin s
      <4>1. s \in SUBSET (1 .. n)
        <5>1. \A y \in s : y \in 1 .. n + 1 /\ y # n + 1
          BY <3>2
        <5>2. \A y \in s : y \in 1 .. n
          BY <5>1
        <5> QED
          BY <5>2
      <4>2. g[s] = f[s] /\ f[s] = IF s = {} THEN b
                     ELSE h[<<f[s \ {Max(s)}], cs[Max(s)]>>]
        BY <4>1, <2>4, <2>5
      <4>3. g[s \ {Max(s)}] = f[s \ {Max(s)}] /\ f[s] \in A
        BY <4>1, <2>5, <2>3
      <4> HIDE DEF g
      <4> QED
        BY <4>2, <4>3
    <3> QED
      BY <3>1, <3>2
  <2>7. Folds(g, A, h, b, cs, 1 .. n + 1)
    <3>1. g = [s \in SUBSET (1 .. n + 1) |-> g[s]]
      OBVIOUS
    <3>2. [s \in SUBSET (1 .. n + 1) |-> g[s]]
             = [s \in SUBSET (1 .. n + 1) |-> Made(s)]
      <4> HIDE DEF g, Made
      <4> QED
        BY <2>6
    <3> HIDE DEF g
    <3> QED
      BY <3>1, <3>2, <2>6 DEF Folds
  <2> HIDE DEF g
  <2> QED
    BY <2>7
<1> HIDE DEF S
<1>3. m \in S
  BY <1>1, <1>2, EveryNumber
<1>4. Exists(m)
  <2> HIDE DEF Exists
  <2> QED
    BY <1>3 DEF S
<1> QED
  BY <1>4
=============================================================================
