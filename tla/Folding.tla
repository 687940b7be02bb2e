------------------------------- MODULE Folding ------------------------------
(***************************************************************************)
(* Folds keep what their steps keep.  The requests that configure a node   *)
(* are folds over sets and sequences; whoever wants to know something of   *)
(* one instantiates this module with the step of the fold as Op.           *)
(***************************************************************************)
EXTENDS Sequences, FiniteSetTheorems

CONSTANTS
  Op(_, _, _, _),       \* context, argument, element, value -> next value
  Good(_, _)            \* context, value: what a step keeps

(* A fold over a set, in the order of CHOOSE, and one over a sequence, from *)
(* its end: what FoldSet and FoldLeft come to.                              *)
Run(c, a, base, S) ==
  LET one(T)  == CHOOSE x \in T : TRUE
      fold[T \in SUBSET S] ==
        IF T = {} THEN base ELSE Op(c, a, one(T), fold[T \ {one(T)}]) IN
  fold[S]
RunLeft(c, a, base, seq) ==
  LET last(T) == CHOOSE x \in T : \A y \in T : x >= y
      fold[T \in SUBSET DOMAIN seq] ==
        IF T = {} THEN base ELSE Op(c, a, seq[last(T)], fold[T \ {last(T)}]) IN
  fold[DOMAIN seq]

LEMMA LeastNumber ==
  ASSUME NEW T, T \subseteq Nat, T # {}
  PROVE  \E m \in T : \A k \in T : m <= k
<1>1. PICK m \in T : \A k \in T : ~(<<k, m>> \in OpToRel(<, Nat))
  BY NatLessThanWellFounded, WFMin
<1>2. \A k \in T : ~(k < m)
  BY <1>1 DEF OpToRel
<1> QED
  BY <1>2

(* A recursion that takes one element after another from a finite set, pick *)
(* says which, has a solution: from one for the small subsets a solution    *)
(* for those with one element more.                                         *)
IsFold(c, a, base, S, pick, elem, g) ==
  g = [T \in SUBSET S |->
         IF T = {} THEN base ELSE Op(c, a, elem[pick[T]], g[T \ {pick[T]}])]
LEMMA RecursionExists ==
  ASSUME NEW c, NEW a, NEW base, NEW S, IsFiniteSet(S), NEW pick, NEW elem,
         \A T \in SUBSET S : T # {} => pick[T] \in T
  PROVE  \E g : IsFold(c, a, base, S, pick, elem, g)
<1> DEFINE Small(m)  == {T \in SUBSET S : Cardinality(T) <= m}
           Rec(g, T) == IF T = {} THEN base ELSE Op(c, a, elem[pick[T]], g[T \ {pick[T]}])
           Solves(g, m) == g = [T \in Small(m) |-> Rec(g, T)]
<1>1. \A T \in SUBSET S : /\ IsFiniteSet(T) /\ Cardinality(T) \in Nat
                          /\ Cardinality(T) <= Cardinality(S)
  BY FS_Subset, FS_CardinalityType
<1>2. \A T \in SUBSET S : T # {} =>
        /\ T \ {pick[T]} \in SUBSET S /\ Cardinality(T) \in Nat
        /\ Cardinality(T \ {pick[T]}) = Cardinality(T) - 1
  BY <1>1, FS_RemoveElement
<1>3. \E g : Solves(g, 0)
  <2> DEFINE g == [T \in Small(0) |-> base]
  <2>1. \A T \in Small(0) : T = {}
    BY <1>1, FS_EmptySet
  <2>2. g = [T \in Small(0) |-> Rec(g, T)]
    BY <2>1
  <2> QED
    BY <2>2
<1>4. ASSUME NEW m \in Nat, NEW f, Solves(f, m) PROVE \E g : Solves(g, m + 1)
  <2> DEFINE g == [T \in Small(m + 1) |-> Rec(f, T)]
  <2>1. \A T \in Small(m) : T \in Small(m + 1)
    BY <1>1
  <2>2. \A T \in Small(m) : f[T] = Rec(f, T)
    BY <1>4
  <2>3. \A T \in Small(m) : g[T] = f[T]
    BY <2>1, <2>2
  <2>4. \A T \in Small(m + 1) : T # {} => T \ {pick[T]} \in Small(m)
    BY <1>2
  <2>5. \A T \in Small(m + 1) : Rec(f, T) = Rec(g, T)
    BY <2>3, <2>4
  <2>6. g = [T \in Small(m + 1) |-> Rec(g, T)]
    BY <2>5
  <2> QED
    BY <2>6
<1>5. \A m \in Nat : \E g : Solves(g, m)
  <2> HIDE DEF Solves
  <2> SUFFICES ASSUME NEW n \in Nat, ~\E g : Solves(g, n) PROVE FALSE
    OBVIOUS
  <2> DEFINE Bad == {m \in Nat : ~\E g : Solves(g, m)}
  <2>1. PICK m \in Bad : \A k \in Bad : m <= k
    <3>1. n \in Bad
      OBVIOUS
    <3> HIDE DEF Bad
    <3>2. Bad \subseteq Nat
      BY DEF Bad
    <3> QED
      BY <3>1, <3>2, LeastNumber
  <2>2. m \in Nat /\ ~\E g : Solves(g, m)
    BY <2>1
  <2>3. m # 0
    BY <1>3, <2>2
  <2>4. m - 1 \in Nat /\ m - 1 \notin Bad /\ (m - 1) + 1 = m
    BY <2>1, <2>2, <2>3
  <2>5. PICK f : Solves(f, m - 1)
    BY <2>4
  <2>6. \E g : Solves(g, (m - 1) + 1)
    BY <1>4, <2>4, <2>5
  <2> QED
    BY <2>2, <2>4, <2>6
<1>6. Cardinality(S) \in Nat /\ Small(Cardinality(S)) = SUBSET S
  BY <1>1
<1>7. \E g : Solves(g, Cardinality(S))
  BY <1>5, <1>6
<1> QED
  BY <1>6, <1>7 DEF IsFold

(* What each step keeps, the solution keeps.                                *)
LEMMA RecursionKeeps ==
  ASSUME NEW c, NEW a, NEW base, NEW S, IsFiniteSet(S), NEW pick, NEW elem, NEW g,
         \A T \in SUBSET S : T # {} => pick[T] \in T,
         IsFold(c, a, base, S, pick, elem, g), Good(c, base),
         \A i \in S : \A s : Good(c, s) => Good(c, Op(c, a, elem[i], s))
  PROVE  Good(c, g[S])
<1>1. \A T \in SUBSET S : IsFiniteSet(T) /\ Cardinality(T) \in Nat
  BY FS_Subset, FS_CardinalityType
<1> DEFINE Sizes == {m \in Nat : \E T \in SUBSET S : Cardinality(T) = m /\ ~Good(c, g[T])}
<1>2. ASSUME ~Good(c, g[S]) PROVE FALSE
  <2>1. Cardinality(S) \in Sizes
    BY <1>1, <1>2
  <2>2. PICK m \in Sizes : \A k \in Sizes : m <= k
    <3> HIDE DEF Sizes
    <3>1. Sizes \subseteq Nat
      BY DEF Sizes
    <3> QED
      BY <2>1, <3>1, LeastNumber
  <2>3. PICK T \in SUBSET S : Cardinality(T) = m /\ ~Good(c, g[T])
    BY <2>2
  <2>4. g[T] = IF T = {} THEN base ELSE Op(c, a, elem[pick[T]], g[T \ {pick[T]}])
    BY DEF IsFold
  <2>5. T # {} /\ pick[T] \in T /\ T \ {pick[T]} \in SUBSET S
    BY <2>3, <2>4
  <2>6. Cardinality(T \ {pick[T]}) = Cardinality(T) - 1 /\ Cardinality(T) \in Nat
    BY <1>1, <2>5, FS_RemoveElement
  <2>7. Cardinality(T \ {pick[T]}) \notin Sizes /\ Cardinality(T \ {pick[T]}) \in Nat
    <3> HIDE DEF Sizes
    <3>1. ~(m <= Cardinality(T) - 1) /\ m \in Nat
      BY <1>1, <2>3, <2>6
    <3> QED
      BY <1>1, <2>2, <2>5, <2>6, <3>1
  <2>8. Good(c, g[T \ {pick[T]}])
    BY <2>5, <2>7
  <2>9. Good(c, Op(c, a, elem[pick[T]], g[T \ {pick[T]}]))
    BY <2>5, <2>8
  <2>10. g[T] = Op(c, a, elem[pick[T]], g[T \ {pick[T]}])
    BY <2>4, <2>5
  <2> QED
    BY <2>3, <2>9, <2>10
<1> QED
  BY <1>2

THEOREM FoldKeeps ==
  ASSUME NEW c, NEW a, NEW base, NEW S, IsFiniteSet(S), Good(c, base),
         \A x \in S : \A s : Good(c, s) => Good(c, Op(c, a, x, s))
  PROVE  Good(c, Run(c, a, base, S))
<1> DEFINE pick == [T \in SUBSET S |-> CHOOSE x \in T : TRUE]
           elem == [x \in S |-> x]
<1>1. \A T \in SUBSET S : T # {} => pick[T] \in T
  OBVIOUS
<1> DEFINE Iter(g) == IsFold(c, a, base, S, pick, elem, g)
           Fold(g) == g = [T \in SUBSET S |->
             IF T = {} THEN base
             ELSE Op(c, a, CHOOSE x \in T : TRUE, g[T \ {CHOOSE x \in T : TRUE}])]
<1>2. \A g : Fold(g) <=> Iter(g)
  <2> SUFFICES ASSUME NEW g PROVE Fold(g) <=> Iter(g)
    OBVIOUS
  <2>1. \A T \in SUBSET S : T # {} =>
          /\ elem[pick[T]] = (CHOOSE x \in T : TRUE)
          /\ pick[T] = (CHOOSE x \in T : TRUE)
    BY <1>1
  <2> QED
    BY <2>1 DEF IsFold
<1>3. \E g : Iter(g)
  <2> HIDE DEF pick, elem
  <2> QED
    BY <1>1, RecursionExists
<1>4. Run(c, a, base, S) = (CHOOSE g : Fold(g))[S]
  BY DEF Run
<1>5. Fold(CHOOSE g : Fold(g))
  <2> HIDE DEF Fold, Iter
  <2>1. \E g : Fold(g)
    BY <1>2, <1>3
  <2> QED
    BY <2>1
<1>6. Iter(CHOOSE g : Fold(g))
  BY <1>2, <1>5
<1>7. \A i \in S : \A s : Good(c, s) => Good(c, Op(c, a, elem[i], s))
  OBVIOUS
<1> DEFINE solution == CHOOSE g : Fold(g)
<1>8. Good(c, solution[S])
  <2>1. Iter(solution)
    BY <1>6
  <2> HIDE DEF solution, pick, elem
  <2> QED
    BY <1>1, <1>7, <2>1, RecursionKeeps
<1> QED
  BY <1>4, <1>8

THEOREM FoldLeftKeeps ==
  ASSUME NEW c, NEW a, NEW base, NEW R, NEW seq \in Seq(R), Good(c, base),
         \A x \in R : \A s : Good(c, s) => Good(c, Op(c, a, x, s))
  PROVE  Good(c, RunLeft(c, a, base, seq))
<1> DEFINE S == DOMAIN seq
           last(T) == CHOOSE x \in T : \A y \in T : x >= y
           pick == [T \in SUBSET S |-> last(T)]
<1>1. IsFiniteSet(S) /\ S \subseteq Nat
  BY FS_Interval
<1>2. \A T \in SUBSET S : T # {} => pick[T] \in T
  <2> SUFFICES ASSUME NEW T \in SUBSET S, T # {} PROVE \E x \in T : \A y \in T : x >= y
    OBVIOUS
  <2> DEFINE Rest == {Len(seq) - x : x \in T}
  <2>1. Rest \subseteq Nat /\ Rest # {}
    OBVIOUS
  <2>2. PICK m \in Rest : \A k \in Rest : m <= k
    BY <2>1, LeastNumber
  <2>3. PICK x \in T : m = Len(seq) - x
    BY <2>2
  <2>4. \A y \in T : Len(seq) - x <= Len(seq) - y
    BY <2>2, <2>3
  <2>5. \A y \in T : x >= y
    BY <2>4
  <2> QED
    BY <2>5
<1> DEFINE Iter(g) == IsFold(c, a, base, S, pick, seq, g)
           Fold(g) == g = [T \in SUBSET S |->
             IF T = {} THEN base ELSE Op(c, a, seq[last(T)], g[T \ {last(T)}])]
<1>3. \A g : Fold(g) <=> Iter(g)
  BY DEF IsFold
<1>4. \E g : Iter(g)
  <2> HIDE DEF pick, S
  <2> QED
    BY <1>1, <1>2, RecursionExists
<1>5. RunLeft(c, a, base, seq) = (CHOOSE g : Fold(g))[S]
  BY DEF RunLeft
<1>6. Iter(CHOOSE g : Fold(g))
  <2>1. \E g : Fold(g)
    BY <1>3, <1>4
  <2>2. Fold(CHOOSE g : Fold(g))
    <3> HIDE DEF Fold
    <3> QED
      BY <2>1
  <2> QED
    BY <1>3, <2>2
<1>7. \A i \in S : \A s : Good(c, s) => Good(c, Op(c, a, seq[i], s))
  OBVIOUS
<1> DEFINE solution == CHOOSE g : Fold(g)
<1>8. Good(c, solution[S])
  <2>1. Iter(solution)
    BY <1>6
  <2> HIDE DEF solution, pick, S
  <2> QED
    BY <1>1, <1>2, <1>7, <2>1, RecursionKeeps
<1> QED
  BY <1>5, <1>8
=============================================================================
