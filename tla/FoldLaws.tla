------------------------------- MODULE FoldLaws -------------------------------
(***************************************************************************)
(* What a loop that the modules write as FoldLeft computes, for every      *)
(* operator Op and every sequence: the states of the loop form a chain,    *)
(* each the operator applied to the one before.  The proof modules take    *)
(* these laws with INSTANCE, Op being the body of a loop of the code.      *)
(***************************************************************************)
EXTENDS Integers, Sequences, FiniteSets, SequencesExt, FiniteSetTheorems,
        WellFoundedInduction, TLAPS

CONSTANT Op(_, _)

\* A non-empty set of naturals has a smallest element.
LEMMA Smallest ==
    ASSUME NEW T \in SUBSET Nat, T # {}
    PROVE  \E x \in T : \A y \in T : x <= y
<1> DEFINE R == OpToRel(<, Nat)
<1>1. \A x, y \in Nat : x < y => <<x, y>> \in R
  BY DEF OpToRel
<1>2. IsWellFoundedOn(R, Nat)
  BY NatLessThanWellFounded
<1> HIDE DEF R
<1>3. PICK x \in T : \A y \in T : ~(<<y, x>> \in R)
  BY <1>2, WFMin
<1>4. \A y \in T : ~(y < x)
  BY <1>1, <1>3
<1> QED
  BY <1>4

\* Induction over the rounds of a loop: Z holds the rounds a claim is true of.
LEMMA Rounds ==
    ASSUME NEW n \in Nat, NEW Z, 0 \in Z, \A i \in 1 .. n : i - 1 \in Z => i \in Z
    PROVE  \A i \in 0 .. n : i \in Z
<1> DEFINE T == {i \in 0 .. n : i \notin Z}
<1> SUFFICES ASSUME T # {} PROVE FALSE
  OBVIOUS
<1>1. T \in SUBSET Nat
  OBVIOUS
<1> HIDE DEF T
<1>2. PICK x \in T : \A y \in T : x <= y
  BY <1>1, Smallest
<1>3. x \in 0 .. n /\ x \notin Z
  BY DEF T
<1>4. x \in 1 .. n /\ ~(x <= x - 1) /\ x - 1 \in 0 .. n
  BY <1>3
<1>5. x - 1 \notin T
  BY <1>2, <1>4
<1> QED
  BY <1>3, <1>4, <1>5 DEF T

\* Induction over the subsets of a finite set: Z holds those a claim is true of.
LEMMA Subsets ==
    ASSUME NEW S, IsFiniteSet(S), NEW Z,
           \A s \in SUBSET S : (\A t \in SUBSET s : t # s => t \in Z) => s \in Z
    PROVE  \A s \in SUBSET S : s \in Z
<1> DEFINE n == Cardinality(S)
           K == {k \in Nat : \A s \in SUBSET S : Cardinality(s) <= k => s \in Z}
<1>0. n \in Nat
  BY FS_CardinalityType
<1>1. \A s \in SUBSET S : IsFiniteSet(s) /\ Cardinality(s) \in 0 .. n
  <2> TAKE s \in SUBSET S
  <2>1. IsFiniteSet(s) /\ Cardinality(s) <= n
    BY FS_Subset
  <2> QED
    BY <1>0, <2>1, FS_CardinalityType
<1>2. \A s \in SUBSET S : \A t \in SUBSET s : t # s => Cardinality(t) < Cardinality(s)
  <2> SUFFICES ASSUME NEW s \in SUBSET S, NEW t \in SUBSET s, t # s
               PROVE  Cardinality(t) < Cardinality(s)
    OBVIOUS
  <2>1. Cardinality(t) \in Nat /\ Cardinality(s) \in Nat
    BY <1>0, <1>1
  <2>2. Cardinality(t) <= Cardinality(s) /\ Cardinality(t) # Cardinality(s)
    BY <1>1, FS_Subset
  <2> QED
    BY <2>1, <2>2
<1>3. 0 \in K
  <2> SUFFICES ASSUME NEW s \in SUBSET S, Cardinality(s) <= 0 PROVE s \in Z
    OBVIOUS
  <2>1. Cardinality(s) = 0
    BY <1>0, <1>1
  <2>2. s = {}
    BY <1>1, <2>1, FS_EmptySet
  <2> QED
    BY <2>2
<1> HIDE DEF n
<1>4. \A k \in 1 .. n : k - 1 \in K => k \in K
  <2> SUFFICES ASSUME NEW k \in 1 .. n, k - 1 \in K,
                      NEW s \in SUBSET S, Cardinality(s) <= k
               PROVE  s \in Z
    BY <1>0
  <2>1. \A t \in SUBSET s : t # s => Cardinality(t) <= k - 1
    BY <1>0, <1>1, <1>2
  <2> QED
    BY <2>1
<1> HIDE DEF K
<1>5. \A k \in 0 .. n : k \in K
  BY <1>0, <1>3, <1>4, Rounds
<1> TAKE s \in SUBSET S
<1>6. Cardinality(s) \in 0 .. n /\ Cardinality(s) <= Cardinality(s)
  BY <1>0, <1>1
<1> QED
  BY <1>5, <1>6 DEF K

\* Choosing an element of a set takes it away.
LEMMA MaxOfInterval ==
    ASSUME NEW i \in Nat \ {0}
    PROVE  Max(1 .. i) = i /\ (1 .. i) \ {i} = 1 .. i - 1
<1>1. i \in 1 .. i /\ \A y \in 1 .. i : i >= y
  OBVIOUS
<1>2. ASSUME NEW x \in 1 .. i, \A y \in 1 .. i : x >= y PROVE x = i
  BY <1>2
<1> QED
  BY <1>1, <1>2 DEF Max

LEMMA MaxMember ==
    ASSUME NEW n \in Nat, NEW s \in SUBSET (1 .. n), s # {}
    PROVE  Max(s) \in s
<1> DEFINE T == {n - x : x \in s}
<1>1. T \in SUBSET Nat
  OBVIOUS
<1>0. T # {}
  <2>1. PICK x \in s : TRUE
    OBVIOUS
  <2>2. n - x \in T
    BY <2>1
  <2> QED
    BY <2>2
<1> HIDE DEF T
<1>2. PICK t \in T : \A y \in T : t <= y
  BY <1>0, <1>1, Smallest
<1>3. PICK m \in s : t = n - m
  BY DEF T
<1>4. \A y \in s : m >= y
  <2> TAKE y \in s
  <2>1. n - y \in T
    BY DEF T
  <2>2. n - m <= n - y
    BY <1>2, <1>3, <2>1
  <2> QED
    BY <2>2
<1> QED
  BY <1>4 DEF Max

\* The recursion behind the folds, over a set S from which pick takes one element
\* after the other, has a solution.
Solves(it, S, pick, base, seq) ==
    it = [s \in SUBSET S |->
            IF s = {} THEN base ELSE Op(it[s \ {pick[s]}], seq[pick[s]])]

LEMMA SolutionExists ==
    ASSUME NEW S, IsFiniteSet(S), NEW base, NEW seq, NEW pick,
           \A s \in SUBSET S : s # {} => pick[s] \in s
    PROVE  \E it : Solves(it, S, pick, base, seq)
<1> DEFINE n == Cardinality(S)
           Rhs(h, s) == IF s = {} THEN base ELSE Op(h[s \ {pick[s]}], seq[pick[s]])
           Upto(h, k) == \A s \in SUBSET S : Cardinality(s) <= k => h[s] = Rhs(h, s)
           Z == {k \in Nat : \E h : h = [s \in SUBSET S |-> h[s]] /\ Upto(h, k)}
<1>0. n \in Nat
  BY FS_CardinalityType
<1>1. \A s \in SUBSET S : IsFiniteSet(s) /\ Cardinality(s) \in 0 .. n
  <2> TAKE s \in SUBSET S
  <2>1. IsFiniteSet(s) /\ Cardinality(s) <= n
    BY FS_Subset
  <2> QED
    BY <1>0, <2>1, FS_CardinalityType
<1> HIDE DEF n
<1>2. \A s \in SUBSET S : s # {} => /\ s \ {pick[s]} \in SUBSET S
                                    /\ Cardinality(s \ {pick[s]}) = Cardinality(s) - 1
  <2> SUFFICES ASSUME NEW s \in SUBSET S, s # {}
               PROVE  /\ s \ {pick[s]} \in SUBSET S
                      /\ Cardinality(s \ {pick[s]}) = Cardinality(s) - 1
    OBVIOUS
  <2>1. pick[s] \in s
    OBVIOUS
  <2> QED
    BY <1>1, <2>1, FS_RemoveElement
<1>3. 0 \in Z
  <2> DEFINE h == [s \in SUBSET S |-> base]
  <2>1. \A s \in SUBSET S : Cardinality(s) <= 0 => s = {}
    <3> SUFFICES ASSUME NEW s \in SUBSET S, Cardinality(s) <= 0 PROVE s = {}
      OBVIOUS
    <3>1. Cardinality(s) = 0
      BY <1>0, <1>1
    <3> QED
      BY <1>1, <3>1, FS_EmptySet
  <2>2. Upto(h, 0)
    BY <2>1
  <2>3. h = [s \in SUBSET S |-> h[s]]
    OBVIOUS
  <2> QED
    BY <2>2, <2>3
<1>4. \A k \in 1 .. n : k - 1 \in Z => k \in Z
  <2> SUFFICES ASSUME NEW k \in 1 .. n, k - 1 \in Z PROVE k \in Z
    OBVIOUS
  <2>1. PICK h : h = [s \in SUBSET S |-> h[s]] /\ Upto(h, k - 1)
    OBVIOUS
  <2> DEFINE g == [s \in SUBSET S |-> Rhs(h, s)]
  <2>2. ASSUME NEW s \in SUBSET S, Cardinality(s) <= k - 1 PROVE g[s] = h[s]
    BY <2>1, <2>2
  <2>3. ASSUME NEW s \in SUBSET S, Cardinality(s) <= k PROVE g[s] = Rhs(g, s)
    <3>1. CASE s = {}
      BY <3>1
    <3>2. CASE s # {}
      <4>1. s \ {pick[s]} \in SUBSET S /\ Cardinality(s \ {pick[s]}) <= k - 1
        BY <1>0, <1>1, <1>2, <2>3, <3>2
      <4>2. g[s \ {pick[s]}] = h[s \ {pick[s]}]
        BY <2>2, <4>1
      <4>3. g[s] = Op(h[s \ {pick[s]}], seq[pick[s]])
        BY <3>2
      <4>4. Rhs(g, s) = Op(g[s \ {pick[s]}], seq[pick[s]])
        BY <3>2
      <4> QED
        BY <4>2, <4>3, <4>4
    <3> QED
      BY <3>1, <3>2
  <2>4. g = [s \in SUBSET S |-> g[s]]
    OBVIOUS
  <2>5. Upto(g, k)
    BY <2>3
  <2>6. k \in Nat
    BY <1>0
  <2> HIDE DEF g, Upto
  <2> QED
    BY <2>4, <2>5, <2>6
<1> HIDE DEF Z
<1>5. n \in Z
  <2>1. \A i \in 0 .. n : i \in Z
    BY <1>0, <1>3, <1>4, Rounds
  <2> QED
    BY <1>0, <2>1
<1>6. PICK h : h = [s \in SUBSET S |-> h[s]] /\ Upto(h, n)
  BY <1>5 DEF Z
<1>7. \A s \in SUBSET S : h[s] = Rhs(h, s)
  <2> TAKE s \in SUBSET S
  <2>1. Cardinality(s) <= n
    BY <1>1
  <2> HIDE DEF Rhs
  <2> QED
    BY <1>6, <2>1
<1>8. h = [s \in SUBSET S |-> Rhs(h, s)]
  BY <1>6, <1>7
<1> QED
  BY <1>8 DEF Solves

\* The states of the loop: c[i] is the state after i rounds.
Chain(c, n, base, seq) ==
    /\ c[0] = base
    /\ \A i \in 1 .. n : c[i] = Op(c[i - 1], seq[i])

LEMMA FoldLeftChain ==
    ASSUME NEW n \in Nat, NEW base, NEW seq, DOMAIN seq = 1 .. n
    PROVE  \E c : Chain(c, n, base, seq) /\ FoldLeft(Op, base, seq) = c[n]
<1> DEFINE S == 1 .. n
           pick == [s \in SUBSET S |-> Max(s)]
           it == CHOOSE it : Solves(it, S, pick, base, seq)
           c == [i \in 0 .. n |-> it[1 .. i]]
<1>1. FoldLeft(Op, base, seq) = it[1 .. n]
  <2>1. FoldLeft(Op, base, seq) =
          (CHOOSE h : h = [s \in SUBSET S |->
                             IF s = {} THEN base
                             ELSE Op(h[s \ {Max(s)}], seq[Max(s)])])[S]
    BY DEF FoldLeft, MapThenFoldSet
  <2>2. \A h : [s \in SUBSET S |-> IF s = {} THEN base
                                   ELSE Op(h[s \ {Max(s)}], seq[Max(s)])]
            = [s \in SUBSET S |-> IF s = {} THEN base
                                 ELSE Op(h[s \ {pick[s]}], seq[pick[s]])]
    OBVIOUS
  <2>3. (CHOOSE h : h = [s \in SUBSET S |-> IF s = {} THEN base
                                           ELSE Op(h[s \ {Max(s)}], seq[Max(s)])])
        = it
    BY <2>2 DEF Solves
  <2> QED
    BY <2>1, <2>3
<1>2. Solves(it, S, pick, base, seq)
  <2>1. \A s \in SUBSET S : s # {} => pick[s] \in s
    BY MaxMember
  <2>2. IsFiniteSet(S)
    BY FS_Interval
  <2> HIDE DEF pick, S
  <2> QED
    BY <2>1, <2>2, SolutionExists
<1> HIDE DEF it
<1>3. it[{}] = base
  <2>1. {} \in SUBSET (1 .. n)
    OBVIOUS
  <2> QED
    BY <1>2, <2>1 DEF Solves
<1>4. ASSUME NEW i \in 1 .. n PROVE it[1 .. i] = Op(it[1 .. i - 1], seq[i])
  <2>1. /\ 1 .. i \in SUBSET (1 .. n) /\ 1 .. i # {}
        /\ Max(1 .. i) = i /\ (1 .. i) \ {i} = 1 .. i - 1
    BY MaxOfInterval
  <2>2. pick[1 .. i] = i
    BY <2>1
  <2>3. it[1 .. i] = Op(it[(1 .. i) \ {pick[1 .. i]}], seq[pick[1 .. i]])
    BY <1>2, <2>1 DEF Solves
  <2> QED
    BY <2>1, <2>2, <2>3
<1>5. c[0] = base
  <2>1. 1 .. 0 = {}
    OBVIOUS
  <2> QED
    BY <1>3, <2>1
<1>6. \A i \in 1 .. n : c[i] = Op(c[i - 1], seq[i])
  BY <1>4
<1>7. c[n] = it[1 .. n]
  OBVIOUS
<1> HIDE DEF c
<1> QED
  BY <1>1, <1>5, <1>6, <1>7 DEF Chain
=============================================================================
