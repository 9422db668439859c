----------------------------- MODULE FoldLemmas -----------------------------
(***************************************************************************)
(* What a fold computes, for any operator it folds with: an instance of    *)
(* this module gives Step its meaning.  A step takes a context as well,    *)
(* which stays the same, since an operator cannot be passed a LET.         *)
(***************************************************************************)
EXTENDS Integers, SequencesExt, FiniteSetTheorems, WellFoundedInduction, TLAPS

CONSTANT Step(_, _, _)    \* what a fold does with a context, what it has so far, and an element

\* Induction on the naturals, for a set in place of a predicate.
LEMMA Induction ==
    ASSUME NEW P, 0 \in P, \A n \in Nat : n \in P => n + 1 \in P
    PROVE  Nat \subseteq P
<1> SUFFICES ASSUME Nat \ P # {} PROVE FALSE
  OBVIOUS
<1>1. PICK x \in Nat \ P : \A y \in Nat \ P : <<y, x>> \notin OpToRel(<, Nat)
  BY NatLessThanWellFounded, WFMin
<1>2. \A y \in Nat \ P : ~(y < x)
  BY <1>1 DEF OpToRel
<1>3. x # 0 /\ x - 1 \in Nat /\ x - 1 < x /\ (x - 1) + 1 = x
  OBVIOUS
<1> QED  BY <1>2, <1>3

\* The largest of the numbers up to k + 1, when k + 1 is one of them.
LEMMA MaxOfPrefix ==
    ASSUME NEW k \in Nat, NEW T \in SUBSET (1..(k + 1)), k + 1 \in T
    PROVE  Max(T) = k + 1
<1>1. \A y \in T : k + 1 >= y
  OBVIOUS
<1>2. \A x \in T : (\A y \in T : x >= y) => x = k + 1
  OBVIOUS
<1> QED  BY <1>1, <1>2 DEF Max

\* Some numbers from 1..n have a largest.
LEMMA Largest ==
    ASSUME NEW n \in Nat, NEW T \in SUBSET (1..n), T # {}
    PROVE  \E x \in T : \A y \in T : x >= y
<1> DEFINE P == {k \in Nat : \A U \in SUBSET (1..k) : U # {} => \E x \in U : \A y \in U : x >= y}
<1>1. 0 \in P
  <2>1. \A U \in SUBSET (1..0) : U = {}
    OBVIOUS
  <2> QED  BY <2>1
<1>2. ASSUME NEW k \in Nat, k \in P PROVE k + 1 \in P
  <2> SUFFICES ASSUME NEW U \in SUBSET (1..(k + 1)), U # {}
               PROVE  \E x \in U : \A y \in U : x >= y
    OBVIOUS
  <2>1. CASE k + 1 \in U
    BY <2>1
  <2>2. CASE k + 1 \notin U
    BY <1>2, <2>2
  <2> QED  BY <2>1, <2>2
<1> HIDE DEF P
<1>3. n \in P
  BY <1>1, <1>2, Induction
<1> QED  BY <1>3 DEF P

LEMMA MaxIsMember ==
    ASSUME NEW n \in Nat, NEW T \in SUBSET (1..n), T # {}
    PROVE  Max(T) \in T
  BY Largest DEF Max

\* The steps of a fold from the left over 1..n, as FoldLeft takes them.
LeftFolds(n, A, base, F) ==
    {g \in [SUBSET (1..n) -> A] : \A T \in SUBSET (1..n) :
        g[T] = IF T = {} THEN base ELSE F[<<Max(T), g[T \ {Max(T)}]>>]}

\* The recursion has a solution.
LEMMA LeftFoldsExist ==
    ASSUME NEW n \in Nat, NEW A, NEW base \in A, NEW F \in [(1..n) \X A -> A]
    PROVE  \E g : g \in LeftFolds(n, A, base, F)
<1> DEFINE P == {k \in Nat : k <= n => \E g : g \in LeftFolds(k, A, base, F)}
<1>1. 0 \in P
  <2> DEFINE g == [T \in SUBSET (1..0) |-> base]
  <2>1. g \in [SUBSET (1..0) -> A] /\ \A T \in SUBSET (1..0) : T = {} /\ g[T] = base
    OBVIOUS
  <2> HIDE DEF g
  <2>2. g \in LeftFolds(0, A, base, F)
    BY <2>1 DEF LeftFolds
  <2> QED  BY <2>2
<1>2. ASSUME NEW k \in Nat, k \in P PROVE k + 1 \in P
  <2> SUFFICES ASSUME k + 1 <= n PROVE \E h : h \in LeftFolds(k + 1, A, base, F)
    OBVIOUS
  <2>1. PICK g : g \in LeftFolds(k, A, base, F)
    BY <1>2
  <2>2. /\ g \in [SUBSET (1..k) -> A]
        /\ \A T \in SUBSET (1..k) :
             g[T] = IF T = {} THEN base ELSE F[<<Max(T), g[T \ {Max(T)}]>>]
    BY <2>1 DEF LeftFolds
  <2> DEFINE U == SUBSET (1..(k + 1))
             h == [T \in U |-> IF k + 1 \in T THEN F[<<k + 1, g[T \ {k + 1}]>>] ELSE g[T]]
  <2>3. \A T \in U : /\ T \ {k + 1} \in SUBSET (1..k)
                     /\ k + 1 \notin T => T \in SUBSET (1..k)
    OBVIOUS
  <2>4. h \in [U -> A]
    <3> SUFFICES ASSUME NEW T \in U PROVE h[T] \in A
      OBVIOUS
    <3>1. k + 1 \in 1..n
      OBVIOUS
    <3>2. CASE k + 1 \in T
      BY <2>2, <2>3, <3>1, <3>2
    <3>3. CASE k + 1 \notin T
      BY <2>2, <2>3, <3>3
    <3> QED  BY <3>2, <3>3
  <2>5. ASSUME NEW T \in U
        PROVE  h[T] = IF T = {} THEN base ELSE F[<<Max(T), h[T \ {Max(T)}]>>]
    <3>1. CASE k + 1 \in T
      <4>1. Max(T) = k + 1
        BY <3>1, MaxOfPrefix
      <4>2. h[T \ {k + 1}] = g[T \ {k + 1}]
        BY <2>3
      <4> QED  BY <3>1, <4>1, <4>2
    <3>2. CASE k + 1 \notin T
      <4>1. T \in SUBSET (1..k) /\ h[T] = g[T]
        BY <2>3, <3>2
      <4>2. ASSUME NEW x PROVE h[T \ {x}] = g[T \ {x}]
        BY <4>1, <3>2
      <4> HIDE DEF h
      <4> QED  BY <2>2, <4>1, <4>2
    <3> QED  BY <3>1, <3>2
  <2> HIDE DEF h
  <2>6. h \in LeftFolds(k + 1, A, base, F)
    BY <2>4, <2>5 DEF LeftFolds
  <2> QED  BY <2>6
<1> HIDE DEF P
<1>3. n \in P
  BY <1>1, <1>2, Induction
<1> QED  BY <1>3 DEF P

\* What a fold takes from a prefix.
LEMMA PrefixOfFold ==
    ASSUME NEW n \in Nat, NEW k \in 1..n
    PROVE  /\ 1..k \in SUBSET (1..n) /\ 1..k # {}
           /\ Max(1..k) = k /\ (1..k) \ {k} = 1..(k - 1)
<1>1. k - 1 \in Nat /\ (k - 1) + 1 = k /\ k \in 1..k
  OBVIOUS
<1>2. Max(1..k) = k
  BY <1>1, MaxOfPrefix
<1> QED  BY <1>1, <1>2

-----------------------------------------------------------------------------

\* The fold of a sequence with Step.
Fold(c, base, s) == FoldLeft(LAMBDA a, x : Step(c, a, x), base, s)

\* What a fold of s has in A after each element, and before the first.
FoldSteps(c, base, s, A) ==
    {f \in [0..Len(s) -> A] : /\ f[0] = base /\ f[Len(s)] = Fold(c, base, s)
                              /\ \A k \in 1..Len(s) : f[k] = Step(c, f[k - 1], s[k])}

\* A fold whose steps stay in A computes step by step.
LEMMA FoldLeftSteps ==
    ASSUME NEW c, NEW S, NEW s \in Seq(S), NEW A, NEW base \in A,
           \A a \in A, x \in S : Step(c, a, x) \in A
    PROVE  \E f : f \in FoldSteps(c, base, s, A)
<1> DEFINE n == Len(s)
           F == [p \in (1..n) \X A |-> Step(c, p[2], s[p[1]])]
           Body(g, T) == IF T = {} THEN base ELSE Step(c, g[T \ {Max(T)}], s[Max(T)])
           Is(g) == g = [T \in SUBSET (1..n) |-> Body(g, T)]
           g == CHOOSE x : Is(x)
           f == [k \in 0..n |-> g[1..k]]
<1>1. n \in Nat /\ DOMAIN s = 1..n /\ \A i \in 1..n : s[i] \in S
  OBVIOUS
<1>2. F \in [(1..n) \X A -> A]
  BY <1>1
<1> HIDE DEF F, n
<1>3. PICK h : h \in LeftFolds(n, A, base, F)
  BY <1>1, <1>2, LeftFoldsExist
<1>4. Is(h)
  <2>1. h \in [SUBSET (1..n) -> A]
    BY <1>3 DEF LeftFolds
  <2> SUFFICES ASSUME NEW T \in SUBSET (1..n) PROVE h[T] = Body(h, T)
    BY <2>1
  <2>2. h[T] = IF T = {} THEN base ELSE F[<<Max(T), h[T \ {Max(T)}]>>]
    BY <1>3 DEF LeftFolds
  <2>3. T # {} => Max(T) \in 1..n /\ h[T \ {Max(T)}] \in A
    BY <1>1, <2>1, MaxIsMember
  <2> QED  BY <2>2, <2>3 DEF F
<1>5. Fold(c, base, s) = g[1..n]
  BY <1>1 DEF Fold, FoldLeft, MapThenFoldSet
<1>6. Is(g)
  BY <1>4, Zenon
<1>7. ASSUME NEW T \in SUBSET (1..n) PROVE g[T] = Body(g, T)
  <2> HIDE DEF Body, g
  <2> QED  BY <1>6
<1> HIDE DEF g, Is
<1>8. f[0] = base /\ f[n] = g[1..n]
  <2>1. 1..0 = {} /\ {} \in SUBSET (1..n) /\ 0 \in 0..n /\ n \in 0..n
    BY <1>1
  <2> QED  BY <1>7, <2>1
<1>9. ASSUME NEW k \in 1..n PROVE f[k] = Step(c, f[k - 1], s[k])
  <2>1. k - 1 \in 0..n /\ k \in 0..n
    BY <1>1
  <2>2. g[1..k] = Body(g, 1..k)
    BY <1>1, <1>7, PrefixOfFold
  <2>3. g[1..k] = Step(c, g[1..(k - 1)], s[k])
    BY <1>1, <2>2, PrefixOfFold
  <2> QED  BY <2>1, <2>3
<1>10. f \in [0..n -> A]
  <2> DEFINE P == {k \in Nat : k <= n => f[k] \in A}
  <2>1. 0 \in P
    BY <1>8
  <2>2. ASSUME NEW k \in Nat, k \in P PROVE k + 1 \in P
    <3> SUFFICES ASSUME k + 1 <= n PROVE f[k + 1] \in A
      OBVIOUS
    <3>1. f[k] \in A /\ k + 1 \in 1..n
      BY <1>1, <2>2
    <3>2. f[k + 1] = Step(c, f[(k + 1) - 1], s[k + 1])
      BY <1>9, <3>1
    <3> QED  BY <1>1, <3>1, <3>2
  <2> HIDE DEF P, f
  <2>3. \A k \in Nat : k \in P
    BY <2>1, <2>2, Induction
  <2>4. \A k \in 0..n : f[k] \in A
    BY <1>1, <2>3 DEF P
  <2>5. f = [k \in 0..n |-> f[k]]
    BY DEF f
  <2> QED  BY <2>4, <2>5
<1> HIDE DEF f
<1>11. /\ f[0] = base /\ f[n] = Fold(c, base, s)
       /\ \A k \in 1..n : f[k] = Step(c, f[k - 1], s[k])
  BY <1>5, <1>8, <1>9
<1> HIDE DEF Body
<1> QED  BY <1>10, <1>11 DEF n, FoldSteps
-----------------------------------------------------------------------------
(* Sums.                                                                   *)

\* Induction on the subsets of a finite set, for a set in place of a predicate.
LEMMA SetInduction ==
    ASSUME NEW S, IsFiniteSet(S), NEW P, {} \in P,
           \A T \in SUBSET S : \A x \in S \ T : T \in P => T \cup {x} \in P
    PROVE  SUBSET S \subseteq P
<1> DEFINE Q == {n \in Nat : \A T \in SUBSET S : Cardinality(T) = n => T \in P}
<1>1. \A T \in SUBSET S : IsFiniteSet(T) /\ Cardinality(T) \in Nat
  BY FS_Subset, FS_CardinalityType
<1>2. 0 \in Q
  BY <1>1, FS_EmptySet
<1>3. ASSUME NEW n \in Nat, n \in Q PROVE n + 1 \in Q
  <2> SUFFICES ASSUME NEW T \in SUBSET S, Cardinality(T) = n + 1 PROVE T \in P
    OBVIOUS
  <2>0. IsFiniteSet(T) /\ n + 1 # 0
    BY <1>1
  <2>1. T # {}
    BY <2>0, FS_EmptySet
  <2>2. PICK x \in T : TRUE
    BY <2>1
  <2>3. T \ {x} \in SUBSET S /\ x \in S \ (T \ {x}) /\ T = (T \ {x}) \cup {x}
    BY <2>2
  <2>4. Cardinality(T \ {x}) = n
    <3>1. Cardinality(T \ {x}) = (n + 1) - 1
      BY <2>0, <2>2, FS_RemoveElement
    <3> QED  BY <3>1
  <2> QED  BY <1>3, <2>3, <2>4
<1> HIDE DEF Q
<1>4. \A n \in Nat : n \in Q
  BY <1>2, <1>3, Induction
<1> QED  BY <1>1, <1>4 DEF Q

\* What an element adds to a sum: its step from 0.
Term(c, x) == Step(c, 0, x)
Sum(c, S) == MapThenSumSet(LAMBDA x : Step(c, 0, x), S)

\* The sums of the subsets of S, whichever element is taken first.
SubsetSums(c, S) ==
    {g \in [SUBSET S -> Int] :
        g[{}] = 0 /\ \A T \in SUBSET S : \A x \in T : g[T] = Term(c, x) + g[T \ {x}]}

LEMMA SubsetSumsExist ==
    ASSUME NEW c, NEW S, IsFiniteSet(S), \A x \in S : Term(c, x) \in Int
    PROVE  \E g : g \in SubsetSums(c, S)
<1> DEFINE P == {T \in SUBSET S : \E g : g \in SubsetSums(c, T)}
<1>1. {} \in P
  <2> DEFINE g == [T \in SUBSET {} |-> 0]
  <2>1. g \in SubsetSums(c, {})
    BY DEF SubsetSums
  <2> QED  BY <2>1
<1>2. ASSUME NEW T \in SUBSET S, NEW y \in S \ T, T \in P PROVE T \cup {y} \in P
  <2>1. PICK g : g \in SubsetSums(c, T)
    BY <1>2
  <2>2. /\ g \in [SUBSET T -> Int] /\ g[{}] = 0
        /\ \A U \in SUBSET T : \A x \in U : g[U] = Term(c, x) + g[U \ {x}]
    BY <2>1 DEF SubsetSums
  <2> DEFINE all == SUBSET (T \cup {y})
             h == [U \in all |-> IF y \in U THEN Term(c, y) + g[U \ {y}] ELSE g[U]]
  <2>3. \A U \in all : U \ {y} \in SUBSET T /\ (y \notin U => U \in SUBSET T)
    OBVIOUS
  <2>4. \A U \in SUBSET T : g[U] \in Int
    BY <2>2
  <2>5. \A x \in T \cup {y} : Term(c, x) \in Int
    OBVIOUS
  <2>6. h \in [all -> Int]
    BY <2>3, <2>4, <2>5
  <2>7. {} \in all /\ h[{}] = 0
    BY <2>2
  <2>8. ASSUME NEW U \in all, NEW x \in U PROVE h[U] = Term(c, x) + h[U \ {x}]
    <3>1. CASE x = y
      <4>1. h[U] = Term(c, y) + g[U \ {y}] /\ h[U \ {y}] = g[U \ {y}]
        BY <3>1
      <4> QED  BY <3>1, <4>1
    <3>2. CASE x # y /\ y \in U
      <4>1. U \ {y} \in SUBSET T /\ x \in U \ {y} /\ (U \ {y}) \ {x} = (U \ {x}) \ {y}
            /\ (U \ {x}) \ {y} \in SUBSET T /\ U \ {x} \in all /\ y \in U \ {x}
        BY <2>3, <3>2
      <4>2. g[U \ {y}] = Term(c, x) + g[(U \ {x}) \ {y}]
        BY <2>2, <4>1
      <4>3. h[U] = Term(c, y) + g[U \ {y}] /\ h[U \ {x}] = Term(c, y) + g[(U \ {x}) \ {y}]
        BY <3>2, <4>1
      <4>4. Term(c, x) \in Int /\ Term(c, y) \in Int /\ g[(U \ {x}) \ {y}] \in Int
        BY <2>4, <2>5, <4>1
      <4> QED  BY <4>2, <4>3, <4>4
    <3>3. CASE y \notin U
      <4>1. U \in SUBSET T /\ U \ {x} \in all /\ y \notin U \ {x}
        BY <2>3, <3>3
      <4> QED  BY <2>2, <3>3, <4>1
    <3> QED  BY <3>1, <3>2, <3>3
  <2> HIDE DEF h
  <2>9. h \in SubsetSums(c, T \cup {y})
    BY <2>6, <2>7, <2>8 DEF SubsetSums
  <2> QED  BY <2>9
<1> HIDE DEF P
<1>3. S \in P
  BY <1>1, <1>2, SetInduction
<1> QED  BY <1>3 DEF P

LEMMA SumIsSubsetSum ==
    ASSUME NEW c, NEW S, IsFiniteSet(S), NEW g \in SubsetSums(c, S)
    PROVE  Sum(c, S) = g[S]
<1> DEFINE First(T) == CHOOSE x \in T : TRUE
           Body(f, T) == IF T = {} THEN 0 ELSE Step(c, 0, First(T)) + f[T \ {First(T)}]
           Is(f) == f = [T \in SUBSET S |-> Body(f, T)]
           f == CHOOSE x : Is(x)
<1>1. /\ g \in [SUBSET S -> Int] /\ g[{}] = 0
      /\ \A T \in SUBSET S : \A x \in T : g[T] = Term(c, x) + g[T \ {x}]
  BY DEF SubsetSums
<1>2. Is(g)
  <2> SUFFICES ASSUME NEW T \in SUBSET S PROVE g[T] = Body(g, T)
    BY <1>1
  <2>1. CASE T = {}
    BY <1>1, <2>1
  <2>2. CASE T # {}
    <3>1. First(T) \in T
      BY <2>2
    <3> QED  BY <1>1, <2>2, <3>1 DEF Term
  <2> QED  BY <2>1, <2>2
<1>3. Sum(c, S) = f[S]
  BY DEF Sum, MapThenSumSet, MapThenFoldSet
<1>4. Is(f)
  BY <1>2, Zenon
<1>5. ASSUME NEW T \in SUBSET S PROVE f[T] = Body(f, T)
  <2> HIDE DEF Body, f
  <2> QED  BY <1>4
<1> HIDE DEF f, Is
<1> DEFINE P == {n \in Nat : \A T \in SUBSET S : Cardinality(T) = n => f[T] = g[T]}
<1>6. \A T \in SUBSET S : IsFiniteSet(T) /\ Cardinality(T) \in Nat
  BY FS_Subset, FS_CardinalityType
<1>7. 0 \in P
  <2>1. f[{}] = 0
    BY <1>5
  <2> QED  BY <1>1, <1>6, <2>1, FS_EmptySet
<1>8. ASSUME NEW n \in Nat, n \in P PROVE n + 1 \in P
  <2> SUFFICES ASSUME NEW T \in SUBSET S, Cardinality(T) = n + 1 PROVE f[T] = g[T]
    OBVIOUS
  <2>1. T # {}
    <3>1. n + 1 # 0
      OBVIOUS
    <3> QED  BY <3>1, FS_EmptySet
  <2> DEFINE x == First(T)
  <2>2. x \in T
    BY <2>1
  <2>3. f[T] = Term(c, x) + f[T \ {x}]
    BY <1>5, <2>1 DEF Term
  <2> HIDE DEF x
  <2>4. T \ {x} \in SUBSET S /\ Cardinality(T \ {x}) = n
    <3>1. Cardinality(T \ {x}) = (n + 1) - 1
      BY <1>6, <2>2, FS_RemoveElement
    <3> QED  BY <3>1
  <2>5. f[T \ {x}] = g[T \ {x}]
    BY <1>8, <2>4
  <2> QED  BY <1>1, <2>2, <2>3, <2>5
<1> HIDE DEF P
<1>9. \A n \in Nat : n \in P
  BY <1>7, <1>8, Induction
<1>10. f[S] = g[S]
  BY <1>6, <1>9 DEF P
<1> QED  BY <1>3, <1>10

\* A sum of integers can be taken from any of its elements.
LEMMA SumStep ==
    ASSUME NEW c, NEW S, IsFiniteSet(S), \A x \in S : Term(c, x) \in Int
    PROVE  /\ Sum(c, {}) = 0 /\ Sum(c, S) \in Int
           /\ \A x \in S : Sum(c, S \ {x}) \in Int /\ Sum(c, S) = Term(c, x) + Sum(c, S \ {x})
<1>1. PICK g : g \in SubsetSums(c, S)
  BY SubsetSumsExist
<1>2. /\ g \in [SUBSET S -> Int] /\ g[{}] = 0
      /\ \A T \in SUBSET S : \A x \in T : g[T] = Term(c, x) + g[T \ {x}]
  BY <1>1 DEF SubsetSums
<1>3. ASSUME NEW T \in SUBSET S PROVE Sum(c, T) = g[T] /\ g[T] \in Int
  <2> DEFINE h == [U \in SUBSET T |-> g[U]]
  <2>1. h \in SubsetSums(c, T)
    <3>1. h \in [SUBSET T -> Int]
      BY <1>2
    <3>2. h[{}] = 0
      BY <1>2
    <3>3. ASSUME NEW U \in SUBSET T, NEW x \in U PROVE h[U] = Term(c, x) + h[U \ {x}]
      <4>1. U \in SUBSET S /\ h[U] = g[U] /\ h[U \ {x}] = g[U \ {x}]
        OBVIOUS
      <4> QED  BY <1>2, <4>1
    <3> HIDE DEF h
    <3> QED  BY <3>1, <3>2, <3>3 DEF SubsetSums
  <2>2. IsFiniteSet(T)
    BY FS_Subset
  <2>3. h[T] = g[T]
    OBVIOUS
  <2> HIDE DEF h
  <2> QED  BY <1>2, <2>1, <2>2, <2>3, SumIsSubsetSum
<1>4. {} \in SUBSET S /\ S \in SUBSET S /\ \A x \in S : S \ {x} \in SUBSET S
  OBVIOUS
<1> QED  BY <1>2, <1>3, <1>4

\* A sum over two sets with nothing in common.
LEMMA SumOfUnion ==
    ASSUME NEW c, NEW S, IsFiniteSet(S), NEW T, IsFiniteSet(T), S \cap T = {},
           \A x \in S \cup T : Term(c, x) \in Int
    PROVE  Sum(c, S \cup T) = Sum(c, S) + Sum(c, T)
<1> DEFINE P == {U \in SUBSET S : Sum(c, U \cup T) = Sum(c, U) + Sum(c, T)}
<1>1. Sum(c, T) \in Int /\ Sum(c, {}) = 0
  BY SumStep
<1>2. {} \in P
  BY <1>1
<1>3. ASSUME NEW U \in SUBSET S, NEW x \in S \ U, U \in P PROVE U \cup {x} \in P
  <2> DEFINE V == U \cup {x}
  <2>1. IsFiniteSet(V) /\ IsFiniteSet(V \cup T)
    BY FS_Subset, FS_Union
  <2>2. /\ x \in V /\ V \ {x} = U /\ x \in V \cup T /\ (V \cup T) \ {x} = U \cup T
        /\ V \subseteq S \cup T /\ V \cup T \subseteq S \cup T
    OBVIOUS
  <2> DEFINE W == V \cup T
  <2> HIDE DEF V
  <2>3. Sum(c, V) = Term(c, x) + Sum(c, U) /\ Sum(c, U) \in Int
    BY <2>1, <2>2, SumStep
  <2>4. Sum(c, V \cup T) = Term(c, x) + Sum(c, U \cup T)
    <3>1. IsFiniteSet(W) /\ x \in W /\ W \ {x} = U \cup T /\ \A y \in W : Term(c, y) \in Int
      BY <2>1, <2>2
    <3> HIDE DEF W
    <3>2. Sum(c, W) = Term(c, x) + Sum(c, W \ {x})
      BY <3>1, SumStep
    <3> QED  BY <3>1, <3>2 DEF W
  <2>5. Sum(c, U \cup T) = Sum(c, U) + Sum(c, T) /\ Term(c, x) \in Int
    BY <1>3
  <2>6. Sum(c, V \cup T) = Sum(c, V) + Sum(c, T)
    BY <1>1, <2>3, <2>4, <2>5
  <2> QED  BY <2>6 DEF V
<1> HIDE DEF P
<1>4. S \in P
  BY <1>2, <1>3, SetInduction
<1> QED  BY <1>4 DEF P
=============================================================================
