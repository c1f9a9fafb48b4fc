---------------------------- MODULE FoldInduction ----------------------------
(***************************************************************************)
(* Induction over a left fold.  Several passes of the pipeline walk a list *)
(* and change a graph at every element; the models write them as FoldLeft. *)
(* Instantiated with what such a pass does to one element (op) and with    *)
(* what holds after the first n elements (P), FoldInvariant says what the  *)
(* whole pass establishes.  The induction rests on the least member of a   *)
(* set of naturals, because a principle with an operator as its parameter  *)
(* could not be cited.                                                     *)
(***************************************************************************)
EXTENDS Integers, SequencesExt, FiniteSetTheorems, WellFoundedInduction, TLAPS

CONSTANTS
    op(_, _, _),   \* context, accumulator, element: the next accumulator
    P(_, _, _)     \* context, elements seen, accumulator: what holds of them

FoldOf(ctx, base, seq) == FoldLeft(LAMBDA acc, x : op(ctx, acc, x), base, seq)

-----------------------------------------------------------------------------

(* A set of naturals has a least member. *)
THEOREM NatMin ==
    ASSUME NEW T, T \subseteq Nat, T # {}
    PROVE  \E n \in T : \A m \in T : n <= m
<1> DEFINE R == OpToRel(<, Nat)
<1>1. IsWellFoundedOn(R, Nat)
  BY NatLessThanWellFounded
<1>2. \A a, b \in Nat : a < b => <<a, b>> \in R
  <2> SUFFICES ASSUME NEW a \in Nat, NEW b \in Nat, a < b PROVE <<a, b>> \in R
    OBVIOUS
  <2>1. <<a, b>>[1] = a /\ <<a, b>>[2] = b /\ <<a, b>> \in Nat \X Nat
    OBVIOUS
  <2> QED
    BY <2>1 DEF OpToRel
<1> HIDE DEF R
<1>3. PICK n \in T : \A m \in T : ~(<<m, n>> \in R)
  BY <1>1, WFMin
<1>4. ASSUME NEW m \in T PROVE n <= m
  <2>1. ~(m < n)
    BY <1>2, <1>3
  <2> QED
    BY <2>1
<1> QED
  BY <1>4

(* Induction over a set of indices: what holds of 0 and goes from n to     *)
(* n + 1 holds of all.                                                     *)
THEOREM NatSet ==
    ASSUME NEW T, 0 \in T, \A n \in Nat : n \in T => n + 1 \in T
    PROVE  Nat \subseteq T
<1> SUFFICES ASSUME Nat \ T # {} PROVE FALSE
  OBVIOUS
<1>1. PICK n \in Nat \ T : \A m \in Nat \ T : n <= m
  BY NatMin
<1>2. n # 0 /\ n - 1 \in Nat
  OBVIOUS
<1>3. n - 1 \in T
  BY <1>1, <1>2
<1> QED
  BY <1>2, <1>3

(* The recursive function a left fold over n elements is defined by. *)
IsFold(g, n, ctx, base, seq) ==
    g = [s \in SUBSET (1..n) |->
            IF s = {} THEN base ELSE op(ctx, g[s \ {Max(s)}], seq[Max(s)])]

(* An upper bound that is a member is the maximum. *)
LEMMA MaxOf ==
    ASSUME NEW n \in Nat, NEW s \in SUBSET (1..n), n \in s
    PROVE  Max(s) = n
<1>1. \A y \in s : n >= y
  OBVIOUS
<1>2. Max(s) \in s /\ \A y \in s : Max(s) >= y
  BY <1>1 DEF Max
<1> DEFINE m == Max(s)
<1>3. m \in 1..n /\ n >= m /\ m >= n
  BY <1>1, <1>2
<1> HIDE DEF m
<1>4. m = n
  BY <1>3
<1> QED
  BY <1>4 DEF m

(* However long the prefix, a function that folds all its parts exists. *)
LEMMA FoldExists ==
    ASSUME NEW ctx, NEW base, NEW seq
    PROVE  \A n \in Nat : \E g : IsFold(g, n, ctx, base, seq)
<1> DEFINE T == {n \in Nat : \E g : IsFold(g, n, ctx, base, seq)}
<1>1. 0 \in T
  <2> DEFINE g == [s \in SUBSET (1..0) |-> base]
  <2>1. 1..0 = {}
    OBVIOUS
  <2>2. IsFold(g, 0, ctx, base, seq)
    BY <2>1 DEF IsFold
  <2> QED
    BY <2>2
<1>2. ASSUME NEW n \in Nat, n \in T PROVE n + 1 \in T
  <2>1. PICK g : IsFold(g, n, ctx, base, seq)
    BY <1>2
  <2> DEFINE h == [s \in SUBSET (1..(n + 1)) |->
                      IF n + 1 \in s THEN op(ctx, g[s \ {n + 1}], seq[n + 1]) ELSE g[s]]
  <2>2. ASSUME NEW s \in SUBSET (1..(n + 1))
        PROVE  h[s] = IF s = {} THEN base ELSE op(ctx, h[s \ {Max(s)}], seq[Max(s)])
    <3>1. CASE n + 1 \in s
      <4>1. Max(s) = n + 1
        BY <3>1, MaxOf
      <4>2. s \ {n + 1} \in SUBSET (1..(n + 1)) /\ n + 1 \notin s \ {n + 1}
        OBVIOUS
      <4>3. h[s \ {n + 1}] = g[s \ {n + 1}]
        BY <4>2
      <4> QED
        BY <3>1, <4>1, <4>3
    <3>2. CASE n + 1 \notin s
      <4>1. s \in SUBSET (1..n)
        BY <3>2
      <4>2. g[s] = IF s = {} THEN base ELSE op(ctx, g[s \ {Max(s)}], seq[Max(s)])
        BY <2>1, <4>1 DEF IsFold
      <4>3. h[s \ {Max(s)}] = g[s \ {Max(s)}] /\ h[s] = g[s]
        BY <3>2
      <4> QED
        BY <4>2, <4>3
    <3> QED
      BY <3>1, <3>2
  <2>3. IsFold(h, n + 1, ctx, base, seq)
    BY <2>2 DEF IsFold
  <2> QED
    BY <2>3
<1> HIDE DEF T
<1>3. Nat \subseteq T
  BY <1>1, <1>2, NatSet
<1> QED
  BY <1>3 DEF T

(* A left fold is the last value of such a function. *)
LEMMA FoldIs ==
    ASSUME NEW ctx, NEW base, NEW seq, NEW n \in Nat, DOMAIN seq = 1..n
    PROVE  \E g : IsFold(g, n, ctx, base, seq) /\ FoldOf(ctx, base, seq) = g[1..n]
<1> DEFINE g == CHOOSE h : IsFold(h, n, ctx, base, seq)
<1>1. IsFold(g, n, ctx, base, seq)
  BY FoldExists
<1>2. FoldOf(ctx, base, seq) = g[DOMAIN seq]
  BY DEF FoldOf, FoldLeft, MapThenFoldSet, IsFold
<1> QED
  BY <1>1, <1>2

(* What holds of the base and goes from an accumulator to the next holds   *)
(* of the fold of a sequence.                                              *)
THEOREM FoldInvariant ==
    ASSUME NEW ctx, NEW base, NEW seq, NEW n \in Nat, DOMAIN seq = 1..n,
           P(ctx, 0, base),
           \A i \in 1..n : \A acc : P(ctx, i - 1, acc) => P(ctx, i, op(ctx, acc, seq[i]))
    PROVE  P(ctx, n, FoldOf(ctx, base, seq))
<1>1. PICK g : IsFold(g, n, ctx, base, seq) /\ FoldOf(ctx, base, seq) = g[1..n]
  BY FoldIs
<1> DEFINE T == {m \in Nat : m <= n => P(ctx, m, g[1..m])}
<1>2. 0 \in T
  <2>1. 1..0 = {} /\ {} \in SUBSET (1..n)
    OBVIOUS
  <2>2. g[{}] = base
    BY <1>1, <2>1 DEF IsFold
  <2> QED
    BY <2>1, <2>2
<1>3. ASSUME NEW m \in Nat, m \in T PROVE m + 1 \in T
  <2> SUFFICES ASSUME m + 1 <= n PROVE P(ctx, m + 1, g[1..(m + 1)])
    OBVIOUS
  <2>1. P(ctx, m, g[1..m])
    BY <1>3
  <2>2. 1..(m + 1) \in SUBSET (1..n) /\ 1..(m + 1) # {} /\ (1..(m + 1)) \ {m + 1} = 1..m
    OBVIOUS
  <2>3. Max(1..(m + 1)) = m + 1
    BY MaxOf
  <2>4. g[1..(m + 1)] = op(ctx, g[1..m], seq[m + 1])
    BY <1>1, <2>2, <2>3 DEF IsFold
  <2>5. m + 1 \in 1..n /\ (m + 1) - 1 = m
    OBVIOUS
  <2>6. P(ctx, (m + 1) - 1, g[1..m])
    BY <2>1, <2>5
  <2>7. P(ctx, m + 1, op(ctx, g[1..m], seq[m + 1]))
    BY <2>5, <2>6
  <2> QED
    BY <2>4, <2>7
<1> HIDE DEF T
<1>4. Nat \subseteq T
  BY <1>2, <1>3, NatSet
<1>5. n \in T
  BY <1>4
<1> QED
  BY <1>1, <1>5 DEF T

(* A finite, non-empty set of naturals has a greatest member. *)
THEOREM FiniteMax ==
    ASSUME NEW S, S \subseteq Nat, S # {}, IsFiniteSet(S)
    PROVE  Max(S) \in S /\ \A y \in S : Max(S) >= y
<1> DEFINE Bound(k, A) == A \subseteq Nat /\ IsFiniteSet(A) /\ Cardinality(A) = k
           T == {k \in Nat : \A A : Bound(k, A) => \E m \in Nat : \A y \in A : m >= y}
<1>1. 0 \in T
  BY FS_EmptySet
<1>2. ASSUME NEW k \in Nat, k \in T PROVE k + 1 \in T
  <2> SUFFICES ASSUME NEW A, Bound(k + 1, A) PROVE \E m \in Nat : \A y \in A : m >= y
    OBVIOUS
  <2>0. A \subseteq Nat /\ IsFiniteSet(A) /\ Cardinality(A) = k + 1
    OBVIOUS
  <2>1. PICK x : x \in A
    BY <2>0, FS_EmptySet
  <2>2. Bound(k, A \ {x})
    <3>1. IsFiniteSet(A \ {x}) /\ Cardinality(A \ {x}) = Cardinality(A) - 1
      BY <2>0, <2>1, FS_RemoveElement
    <3>2. A \ {x} \subseteq Nat
      BY <2>0
    <3> DEFINE c == Cardinality(A \ {x})
               d == Cardinality(A)
    <3>3. c = d - 1 /\ d = k + 1
      BY <2>0, <3>1
    <3> HIDE DEF c, d
    <3>4. c = k
      BY <3>3
    <3> QED
      BY <3>1, <3>2, <3>4 DEF c
  <2>3. PICK m \in Nat : \A y \in A \ {x} : m >= y
    BY <1>2, <2>2
  <2>4. x \in Nat
    BY <2>0, <2>1
  <2>5. CASE x >= m
    <3>1. \A y \in A : x >= y
      BY <2>0, <2>3, <2>4, <2>5
    <3> QED
      BY <2>4, <3>1
  <2>6. CASE m >= x
    <3>1. \A y \in A : m >= y
      BY <2>3, <2>6
    <3> QED
      BY <3>1
  <2> QED
    BY <2>4, <2>5, <2>6
<1>3. Nat \subseteq T
  <2> HIDE DEF T
  <2> QED
    BY <1>1, <1>2, NatSet
<1>4. Cardinality(S) \in Nat
  BY FS_CardinalityType
<1>5. \E m \in Nat : \A y \in S : m >= y
  BY <1>3, <1>4
<1> DEFINE U == {m \in Nat : \A y \in S : m >= y}
<1>6. PICK m \in U : \A k \in U : m <= k
  BY <1>5, NatMin
<1>7. m \in S
  <2> SUFFICES ASSUME m \notin S PROVE FALSE
    OBVIOUS
  <2>1. \A y \in S : y \in Nat /\ m > y
    BY <1>6
  <2>0. PICK y \in S : TRUE
    OBVIOUS
  <2>2. m - 1 \in Nat
    BY <1>6, <2>0, <2>1
  <2>3. \A x \in S : m - 1 >= x
    BY <1>6, <2>1
  <2> QED
    BY <1>6, <2>2, <2>3
<1> QED
  BY <1>6, <1>7 DEF Max
=============================================================================
