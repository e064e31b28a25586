----------------------------- MODULE FoldLemmas -----------------------------
(***************************************************************************)
(* Facts about the folds the models are written with, by induction over    *)
(* data.  The induction theorems of the library take an operator and no    *)
(* installed prover can instantiate one, so induction is stated here with  *)
(* a set in place of the operator, from the fact that a non-empty set of   *)
(* natural numbers has a least element.                                    *)
(*                                                                         *)
(* A fold is a function of the subsets of a finite set S: the base for the *)
(* empty set, and otherwise a step with a picked element, applied to the   *)
(* fold of the others.  VMController sums allocations with one, NodeReader *)
(* passes over the records of dmidecode with another.                      *)
(***************************************************************************)
EXTENDS FiniteSetTheorems, FiniteSetsExt, TLAPS

\* Induction over the natural numbers for a set of them.
LEMMA NatSetInduction ==
    ASSUME NEW P \in SUBSET Nat, 0 \in P, \A n \in P : n + 1 \in P
    PROVE  P = Nat
  <1> DEFINE T == Nat \ P
  <1> SUFFICES ASSUME T # {} PROVE FALSE
    OBVIOUS
  <1>1. IsWellFoundedOn(OpToRel(<, Nat), Nat)
    BY NatLessThanWellFounded
  <1>2. PICK x \in T : \A y \in T : <<y, x>> \notin OpToRel(<, Nat)
    BY <1>1, WFMin, Zenon
  <1>3. x \in Nat /\ x - 1 \in T
    OBVIOUS
  <1>4. <<x - 1, x>> \in OpToRel(<, Nat)
    BY <1>3 DEF OpToRel
  <1> QED
    BY <1>2, <1>3, <1>4, Zenon

\* What remains of a finite set without one of its elements is smaller by one.
LEMMA Smaller ==
    ASSUME NEW S, IsFiniteSet(S), NEW s \in SUBSET S, NEW x \in s
    PROVE  /\ IsFiniteSet(s) /\ Cardinality(s) \in Nat \ {0}
           /\ s \ {x} \in SUBSET S /\ Cardinality(s \ {x}) = Cardinality(s) - 1
  <1>1. IsFiniteSet(s)
    BY FS_Subset
  <1>2. Cardinality(s) \in Nat /\ (Cardinality(s) = 0 <=> s = {})
    BY <1>1, FS_CardinalityType, FS_EmptySet
  <1>3. Cardinality(s \ {x}) = Cardinality(s) - 1
    BY <1>1, FS_RemoveElement
  <1> QED
    BY <1>1, <1>2, <1>3

\* A set with a positive number of elements has one.
LEMMA NonEmpty == ASSUME NEW s, NEW n \in Nat, Cardinality(s) = n + 1 PROVE s # {}
  BY FS_EmptySet

-----------------------------------------------------------------------------
(* Folds over the subsets of a finite set *)

\* The right-hand side of a fold's recursive definition.
FoldStep(g, s, base, step, pick) ==
    IF s = {} THEN base ELSE step[pick[s]][g[s \ {pick[s]}]]

\* pick takes an element of every non-empty subset of S.
Picks(pick, S) == \A s \in SUBSET S : s # {} => pick[s] \in s

\* g is the fold over the subsets of S, with values in V.
IsFold(g, S, V, base, step, pick) ==
    /\ g \in [SUBSET S -> V]
    /\ \A s \in SUBSET S : g[s] = FoldStep(g, s, base, step, pick)

\* The subsets of S with at most n elements.
UpTo(S, n) == {s \in SUBSET S : Cardinality(s) <= n}

\* A fold exists, has the values of its step, and satisfies its definition.
LEMMA FoldExists ==
    ASSUME NEW S, IsFiniteSet(S), NEW V, NEW base \in V, NEW step \in [S -> [V -> V]],
           NEW pick, Picks(pick, S)
    PROVE  \E g : IsFold(g, S, V, base, step, pick)
  <1> DEFINE Defined(g, n) ==
                 \A s \in UpTo(S, n) : g[s] = FoldStep(g, s, base, step, pick)
             P == {n \in Nat : \E g \in [UpTo(S, n) -> V] : Defined(g, n)}
  <1>1. 0 \in P
    <2> DEFINE g == [s \in UpTo(S, 0) |-> base]
    <2>1. g \in [UpTo(S, 0) -> V]
      OBVIOUS
    <2>2. ASSUME NEW s \in UpTo(S, 0) PROVE s = {}
      <3>1. IsFiniteSet(s) /\ s \in SUBSET S /\ Cardinality(s) <= 0
        BY FS_Subset DEF UpTo
      <3>2. Cardinality(s) \in Nat
        BY <3>1, FS_CardinalityType
      <3> QED
        BY <3>1, <3>2, FS_EmptySet
    <2>3. Defined(g, 0)
      BY <2>2 DEF FoldStep
    <2> QED
      BY <2>1, <2>3
  <1>2. ASSUME NEW n \in P PROVE n + 1 \in P
    <2>1. PICK g \in [UpTo(S, n) -> V] : Defined(g, n)
      OBVIOUS
    <2> DEFINE h == [s \in UpTo(S, n + 1) |-> FoldStep(g, s, base, step, pick)]
    <2>2. ASSUME NEW s \in UpTo(S, n + 1), s # {}
          PROVE  pick[s] \in S /\ s \ {pick[s]} \in UpTo(S, n)
      <3>1. s \in SUBSET S /\ Cardinality(s) <= n + 1 /\ pick[s] \in s
        BY <2>2 DEF UpTo, Picks
      <3>2. PICK x \in s : x = pick[s]
        BY <3>1
      <3>3. Cardinality(s) \in Nat \ {0} /\ Cardinality(s \ {x}) = Cardinality(s) - 1
        BY <3>1, Smaller
      <3> QED
        BY <3>1, <3>2, <3>3 DEF UpTo
    <2>3. h \in [UpTo(S, n + 1) -> V]
      BY <2>2 DEF FoldStep
    <2>4. UpTo(S, n) \subseteq UpTo(S, n + 1)
      <3> SUFFICES ASSUME NEW s \in UpTo(S, n) PROVE s \in UpTo(S, n + 1)
        OBVIOUS
      <3>1. IsFiniteSet(s) /\ s \in SUBSET S /\ Cardinality(s) <= n
        BY FS_Subset DEF UpTo
      <3>2. Cardinality(s) \in Nat
        BY <3>1, FS_CardinalityType
      <3> QED
        BY <3>1, <3>2 DEF UpTo
    <2>5. \A s \in UpTo(S, n) : h[s] = g[s]
      BY <2>1, <2>4
    <2>6. Defined(h, n + 1)
      BY <2>2, <2>5 DEF FoldStep
    <2>7. n + 1 \in Nat
      OBVIOUS
    <2> HIDE DEF h
    <2> QED
      BY <2>3, <2>6, <2>7, Zenon
  <1>3. P = Nat
    <2> HIDE DEF P
    <2>1. P \in SUBSET Nat
      BY DEF P
    <2> QED
      BY <1>1, <1>2, <2>1, NatSetInduction
  <1>4. Cardinality(S) \in Nat
    BY FS_CardinalityType
  <1>5. UpTo(S, Cardinality(S)) = SUBSET S
    BY FS_Subset DEF UpTo
  <1>6. PICK g \in [SUBSET S -> V] : \A s \in SUBSET S : g[s] = FoldStep(g, s, base, step, pick)
    BY <1>3, <1>4, <1>5
  <1> QED
    BY <1>6 DEF IsFold

-----------------------------------------------------------------------------
(* Sums *)

\* The element that MapThenSumSet takes from a set next.
Pick(s) == CHOOSE x \in s : TRUE

\* The recursive definition in MapThenSumSet, of w over the subsets of S.
IsSum(g, w, S) ==
    g = [s \in SUBSET S |-> IF s = {} THEN 0 ELSE w[Pick(s)] + g[s \ {Pick(s)}]]

\* The sum of w over S.
SumOver(w, S) == MapThenSumSet(LAMBDA x : w[x], S)

\* A set with an element has a picked one.
LEMMA PickIn == ASSUME NEW s, s # {} PROVE Pick(s) \in s
  BY Zenon DEF Pick

\* The recursive definition of a sum of natural numbers is satisfied.
LEMMA SumDefined ==
    ASSUME NEW S, IsFiniteSet(S), NEW w, \A x \in S : w[x] \in Nat
    PROVE  \E g : IsSum(g, w, S) /\ SumOver(w, S) = g[S]
  <1> DEFINE pick == [s \in SUBSET S |-> Pick(s)]
             step == [x \in S |-> [v \in Nat |-> w[x] + v]]
             iter == CHOOSE g : IsSum(g, w, S)
  <1>1. step \in [S -> [Nat -> Nat]]
    OBVIOUS
  <1>2. Picks(pick, S)
    BY PickIn DEF Picks
  <1> HIDE DEF pick, step
  <1>3. PICK g : IsFold(g, S, Nat, 0, step, pick)
    BY <1>1, <1>2, FoldExists
  <1>4. ASSUME NEW s \in SUBSET S
        PROVE  FoldStep(g, s, 0, step, pick)
                  = IF s = {} THEN 0 ELSE w[Pick(s)] + g[s \ {Pick(s)}]
    BY <1>3, PickIn DEF IsFold, FoldStep, pick, step
  <1>5. IsSum(g, w, S)
    BY <1>3, <1>4 DEF IsFold, IsSum
  <1>6. IsSum(iter, w, S)
    BY <1>5, Zenon
  <1>7. SumOver(w, S) = iter[S]
    BY Zenon DEF SumOver, MapThenSumSet, MapThenFoldSet, IsSum, Pick
  <1> QED
    BY <1>6, <1>7, Zenon

\* What a sum's definition says of the empty set and of any other.
LEMMA SumEquation ==
    ASSUME NEW S, NEW w, NEW g, IsSum(g, w, S)
    PROVE  /\ g[{}] = 0
           /\ \A s \in SUBSET S :
                 s # {} => Pick(s) \in s /\ g[s] = w[Pick(s)] + g[s \ {Pick(s)}]
  <1>1. \A s \in SUBSET S :
            g[s] = IF s = {} THEN 0 ELSE w[Pick(s)] + g[s \ {Pick(s)}]
    BY Zenon DEF IsSum
  <1>2. \A s \in SUBSET S : s # {} => Pick(s) \in s
    BY PickIn
  <1> QED
    BY <1>1, <1>2

\* A sum of natural numbers is one.
LEMMA SumType ==
    ASSUME NEW S, IsFiniteSet(S), NEW w, \A x \in S : w[x] \in Nat,
           NEW g, IsSum(g, w, S)
    PROVE  \A s \in SUBSET S : g[s] \in Nat
  <1> DEFINE P == {n \in Nat : \A s \in SUBSET S : Cardinality(s) = n => g[s] \in Nat}
  <1>0. /\ g[{}] = 0
        /\ \A s \in SUBSET S :
              s # {} => Pick(s) \in s /\ g[s] = w[Pick(s)] + g[s \ {Pick(s)}]
    BY SumEquation
  <1>1. 0 \in P
    <2> SUFFICES ASSUME NEW s \in SUBSET S, Cardinality(s) = 0 PROVE g[s] \in Nat
      OBVIOUS
    <2>1. s = {}
      BY FS_Subset, FS_EmptySet
    <2> QED
      BY <2>1, <1>0
  <1>2. ASSUME NEW n \in P PROVE n + 1 \in P
    <2>0. n \in Nat /\ \A s \in SUBSET S : Cardinality(s) = n => g[s] \in Nat
      OBVIOUS
    <2> SUFFICES ASSUME NEW s \in SUBSET S, Cardinality(s) = n + 1 PROVE g[s] \in Nat
      BY <2>0
    <2> HIDE DEF P
    <2>1. s # {}
      BY <2>0, NonEmpty
    <2>2. PICK x \in s : g[s] = w[x] + g[s \ {x}]
      BY <1>0, <2>1
    <2>3. s \ {x} \in SUBSET S /\ Cardinality(s \ {x}) = n
      BY <2>0, Smaller
    <2> QED
      BY <2>0, <2>2, <2>3
  <1>3. P = Nat
    <2> HIDE DEF P
    <2>1. P \in SUBSET Nat
      BY DEF P
    <2> QED
      BY <1>1, <1>2, <2>1, NatSetInduction
  <1> QED
    BY <1>3, FS_Subset, FS_CardinalityType

\* Any element may be taken first.
LEMMA SumAnyFirst ==
    ASSUME NEW S, IsFiniteSet(S), NEW w, \A x \in S : w[x] \in Nat,
           NEW g, IsSum(g, w, S)
    PROVE  \A s \in SUBSET S : \A x \in s : g[s] = w[x] + g[s \ {x}]
  <1> DEFINE P == {n \in Nat : \A s \in SUBSET S : Cardinality(s) = n =>
                                  \A x \in s : g[s] = w[x] + g[s \ {x}]}
  <1>0. \A s \in SUBSET S : g[s] \in Nat
    BY SumType
  <1>4. \A s \in SUBSET S :
            s # {} => Pick(s) \in s /\ g[s] = w[Pick(s)] + g[s \ {Pick(s)}]
    BY SumEquation
  <1>1. 0 \in P
    BY FS_Subset, FS_EmptySet
  <1>2. ASSUME NEW n \in P PROVE n + 1 \in P
    <2>0. n \in Nat /\ \A s \in SUBSET S : Cardinality(s) = n =>
                          \A x \in s : g[s] = w[x] + g[s \ {x}]
      OBVIOUS
    <2> SUFFICES ASSUME NEW s \in SUBSET S, Cardinality(s) = n + 1, NEW x \in s
                 PROVE  g[s] = w[x] + g[s \ {x}]
      BY <2>0
    <2> HIDE DEF P
    <2>2. PICK y \in s : g[s] = w[y] + g[s \ {y}]
      BY <1>4
    <2>3. CASE x = y
      BY <2>2, <2>3
    <2>4. CASE x # y
      <3>1. /\ s \ {x} \in SUBSET S /\ Cardinality(s \ {x}) = n
            /\ s \ {y} \in SUBSET S /\ Cardinality(s \ {y}) = n
        BY <2>0, Smaller
      <3>2. g[s \ {y}] = w[x] + g[(s \ {y}) \ {x}]
        BY <2>0, <2>4, <3>1
      <3>3. g[s \ {x}] = w[y] + g[(s \ {x}) \ {y}]
        BY <2>0, <2>4, <3>1
      <3>4. (s \ {y}) \ {x} = (s \ {x}) \ {y} /\ (s \ {y}) \ {x} \in SUBSET S
        OBVIOUS
      <3>5. w[x] \in Nat /\ w[y] \in Nat /\ g[(s \ {y}) \ {x}] \in Nat
        BY <1>0, <3>4
      <3>6. \A a, b, c \in Nat : a + (b + c) = b + (a + c)
        OBVIOUS
      <3>7. w[y] + (w[x] + g[(s \ {y}) \ {x}]) = w[x] + (w[y] + g[(s \ {y}) \ {x}])
        BY <3>5, <3>6, Zenon
      <3> QED
        BY <2>2, <3>2, <3>3, <3>4, <3>7, Zenon
    <2> QED
      BY <2>3, <2>4
  <1>3. P = Nat
    <2> HIDE DEF P
    <2>1. P \in SUBSET Nat
      BY DEF P
    <2> QED
      BY <1>1, <1>2, <2>1, NatSetInduction
  <1> QED
    BY <1>3, FS_Subset, FS_CardinalityType

\* Sums of the same numbers are the same, whatever set they are defined on.
LEMMA SumsAgree ==
    ASSUME NEW S, IsFiniteSet(S), NEW T \in SUBSET S, NEW v, NEW w,
           \A x \in T : v[x] = w[x],
           NEW g, IsSum(g, v, S), NEW h, IsSum(h, w, T)
    PROVE  \A s \in SUBSET T : g[s] = h[s]
  <1> DEFINE P == {n \in Nat : \A s \in SUBSET T : Cardinality(s) = n => g[s] = h[s]}
  <1>0. /\ g[{}] = 0 /\ h[{}] = 0
        /\ \A s \in SUBSET S : s # {} => /\ Pick(s) \in s
                                         /\ g[s] = v[Pick(s)] + g[s \ {Pick(s)}]
        /\ \A s \in SUBSET T : s # {} => h[s] = w[Pick(s)] + h[s \ {Pick(s)}]
    BY SumEquation
  <1>1. 0 \in P
    <2> SUFFICES ASSUME NEW s \in SUBSET T, Cardinality(s) = 0 PROVE g[s] = h[s]
      OBVIOUS
    <2>1. s = {} /\ s \in SUBSET S
      BY FS_Subset, FS_EmptySet
    <2> QED
      BY <1>0, <2>1
  <1>2. ASSUME NEW n \in P PROVE n + 1 \in P
    <2>0. n \in Nat /\ \A s \in SUBSET T : Cardinality(s) = n => g[s] = h[s]
      OBVIOUS
    <2> SUFFICES ASSUME NEW s \in SUBSET T, Cardinality(s) = n + 1 PROVE g[s] = h[s]
      BY <2>0
    <2> HIDE DEF P
    <2>1. s # {} /\ s \in SUBSET S
      BY <2>0, NonEmpty
    <2>2. PICK x \in s : g[s] = v[x] + g[s \ {x}] /\ h[s] = w[x] + h[s \ {x}]
      BY <1>0, <2>1
    <2>3. s \ {x} \in SUBSET T /\ Cardinality(s \ {x}) = n
      BY <2>0, <2>1, Smaller
    <2> QED
      BY <2>0, <2>2, <2>3
  <1>3. P = Nat
    <2> HIDE DEF P
    <2>1. P \in SUBSET Nat
      BY DEF P
    <2> QED
      BY <1>1, <1>2, <2>1, NatSetInduction
  <1>4. \A s \in SUBSET T : Cardinality(s) \in Nat
    BY FS_Subset, FS_CardinalityType
  <1> QED
    BY <1>3, <1>4

\* The sum over the empty set is 0.
LEMMA SumEmpty == ASSUME NEW w PROVE SumOver(w, {}) = 0
  <1>1. PICK g : IsSum(g, w, {}) /\ SumOver(w, {}) = g[{}]
    BY SumDefined, FS_EmptySet
  <1> QED
    BY <1>1 DEF IsSum

\* The sum is a natural number, and splits off any element.
LEMMA SumSplit ==
    ASSUME NEW S, IsFiniteSet(S), NEW w, \A x \in S : w[x] \in Nat
    PROVE  /\ SumOver(w, S) \in Nat
           /\ \A x \in S : /\ SumOver(w, S) = w[x] + SumOver(w, S \ {x})
                           /\ SumOver(w, S \ {x}) \in Nat
  <1>1. PICK g : IsSum(g, w, S) /\ SumOver(w, S) = g[S]
    BY SumDefined
  <1>2. \A s \in SUBSET S : g[s] \in Nat
    BY <1>1, SumType
  <1>3. ASSUME NEW x \in S
        PROVE  /\ SumOver(w, S) = w[x] + SumOver(w, S \ {x})
               /\ SumOver(w, S \ {x}) \in Nat
    <2> DEFINE T == S \ {x}
    <2>1. T \in SUBSET S /\ IsFiniteSet(T)
      BY FS_Subset
    <2> HIDE DEF T
    <2>2. PICK h : IsSum(h, w, T) /\ SumOver(w, T) = h[T]
      BY <2>1, SumDefined
    <2>3. g[T] = h[T]
      BY <1>1, <2>1, <2>2, SumsAgree
    <2>4. g[S] = w[x] + g[S \ {x}]
      BY <1>1, SumAnyFirst
    <2> QED
      BY <1>1, <1>2, <2>1, <2>2, <2>3, <2>4 DEF T
  <1> QED
    BY <1>1, <1>2, <1>3

\* The sum depends on the numbers it adds and on nothing else.
LEMMA SumSame ==
    ASSUME NEW S, IsFiniteSet(S), NEW v, NEW w,
           \A x \in S : v[x] = w[x] /\ w[x] \in Nat
    PROVE  SumOver(v, S) = SumOver(w, S)
  <1>1. PICK g : IsSum(g, v, S) /\ SumOver(v, S) = g[S]
    BY SumDefined
  <1>2. PICK h : IsSum(h, w, S) /\ SumOver(w, S) = h[S]
    BY SumDefined
  <1> QED
    BY <1>1, <1>2, SumsAgree

-----------------------------------------------------------------------------
(* Folds over a sequence take the largest index first *)

\* A non-empty set of indices has a largest one, which is what Max chooses.
LEMMA MaxOfIndices ==
    ASSUME NEW n \in Nat, NEW s \in SUBSET (1..n), s # {}
    PROVE  Max(s) \in s /\ \A y \in s : y <= Max(s)
  <1> DEFINE T == {n - x : x \in s}
  <1>0. \A x \in s : x \in Nat /\ n - x \in Nat
    OBVIOUS
  <1>1. T \subseteq Nat /\ T # {}
    BY <1>0, Zenon
  <1>2. IsWellFoundedOn(OpToRel(<, Nat), Nat)
    BY NatLessThanWellFounded
  <1>3. PICK m \in T : \A t \in T : <<t, m>> \notin OpToRel(<, Nat)
    BY <1>1, <1>2, WFMin, Zenon
  <1>4. PICK x \in s : m = n - x
    OBVIOUS
  <1>5. ASSUME NEW y \in s PROVE y <= x
    <2>1. n - y \in T /\ n - y \in Nat /\ m \in Nat
      BY <1>1
    <2>2. ~(n - y < m)
      BY <1>3, <2>1 DEF OpToRel
    <2> QED
      BY <1>4, <2>1, <2>2
  <1>6. \A y \in s : x >= y
    BY <1>5
  <1>7. Max(s) \in s /\ \A y \in s : Max(s) >= y
    BY <1>6, Zenon DEF Max
  <1> QED
    BY <1>7

\* The largest of the first k indices is k.
LEMMA MaxOfPrefix == ASSUME NEW k \in Nat \ {0} PROVE Max(1..k) = k
  <1>1. k \in Nat /\ 1..k \in SUBSET (1..k) /\ k \in 1..k
    OBVIOUS
  <1>2. 1..k # {}
    BY <1>1, Zenon
  <1>3. Max(1..k) \in 1..k /\ \A y \in 1..k : y <= Max(1..k)
    BY <1>1, <1>2, MaxOfIndices, Zenon
  <1> QED
    BY <1>1, <1>3
=============================================================================
