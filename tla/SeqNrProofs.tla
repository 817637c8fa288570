----------------------------- MODULE SeqNrProofs -----------------------------
(***************************************************************************)
(* Facts about wrapped sequence numbers, for every size of the sequence    *)
(* space.  They are what lets a receiver that only sees numbers modulo     *)
(* SEQ_MOD know which packet it holds.                                     *)
(***************************************************************************)
EXTENDS SeqNr, FiniteSetsExt, TLAPS

\* Masking yields a sequence number.
LEMMA WrapType == \A n \in Int : Wrap(n) \in SeqNrs
  BY SeqModAssumption DEF Wrap, SeqNrs

\* Masking leaves a sequence number alone.
LEMMA WrapIdentity == \A n \in SeqNrs : Wrap(n) = n
  BY SeqModAssumption DEF Wrap, SeqNrs

\* The masked number is the remainder of a division by SEQ_MOD.
LEMMA WrapQuotient ==
  \A n \in Int : n \div SEQ_MOD \in Int /\ n = SEQ_MOD * (n \div SEQ_MOD) + Wrap(n)
  BY SeqModAssumption DEF Wrap

\* The only multiple of SEQ_MOD closer to zero than SEQ_MOD is zero.
LEMMA SmallMultiple ==
  \A d \in Int : SEQ_MOD * d < SEQ_MOD /\ -SEQ_MOD < SEQ_MOD * d => d = 0
<1> SUFFICES ASSUME NEW d \in Int, SEQ_MOD * d < SEQ_MOD, -SEQ_MOD < SEQ_MOD * d
             PROVE  d = 0
  OBVIOUS
<1>1. CASE d >= 1
  <2>1. SEQ_MOD * d >= SEQ_MOD * 1
    BY <1>1, SeqModAssumption
  <2> QED
    BY <2>1, SeqModAssumption
<1>2. CASE d <= -1
  <2>1. SEQ_MOD * d <= SEQ_MOD * (-1)
    BY <1>2, SeqModAssumption
  <2> QED
    BY <2>1, SeqModAssumption
<1> QED
  BY <1>1, <1>2

\* A remainder is determined by the number.
LEMMA WrapUnique ==
  \A n, q \in Int, r \in SeqNrs : n = SEQ_MOD * q + r => Wrap(n) = r
<1> SUFFICES ASSUME NEW n \in Int, NEW q \in Int, NEW r \in SeqNrs,
                    n = SEQ_MOD * q + r
             PROVE  Wrap(n) = r
  OBVIOUS
<1> DEFINE p == n \div SEQ_MOD
<1>1. n = SEQ_MOD * p + Wrap(n) /\ p \in Int /\ Wrap(n) \in 0 .. SEQ_MOD - 1
  BY WrapQuotient, WrapType DEF SeqNrs
<1> HIDE DEF p
<1>2. SEQ_MOD * (p - q) = r - Wrap(n)
  BY <1>1, SeqModAssumption DEF SeqNrs
<1>3. p - q = 0
  BY <1>1, <1>2, SmallMultiple, SeqModAssumption DEF SeqNrs
<1> QED
  BY <1>1, <1>3, SeqModAssumption DEF SeqNrs

\* Going around the sequence space any number of times changes nothing.
LEMMA WrapAround == \A n, k \in Int : Wrap(n + SEQ_MOD * k) = Wrap(n)
<1> SUFFICES ASSUME NEW n \in Int, NEW k \in Int
             PROVE  Wrap(n + SEQ_MOD * k) = Wrap(n)
  OBVIOUS
<1> DEFINE p == n \div SEQ_MOD
<1>1. n = SEQ_MOD * p + Wrap(n) /\ p \in Int /\ Wrap(n) \in 0 .. SEQ_MOD - 1
  BY WrapQuotient, WrapType DEF SeqNrs
<1> HIDE DEF p
<1>2. n + SEQ_MOD * k = SEQ_MOD * (p + k) + Wrap(n) /\ n + SEQ_MOD * k \in Int
  BY <1>1, SeqModAssumption
<1> QED
  BY <1>1, <1>2, WrapUnique DEF SeqNrs

\* Arithmetic may be masked early or late (the code does both).
LEMMA WrapAdd == \A a, b \in Int : Wrap(Wrap(a) + b) = Wrap(a + b)
<1> SUFFICES ASSUME NEW a \in Int, NEW b \in Int
             PROVE  Wrap(Wrap(a) + b) = Wrap(a + b)
  OBVIOUS
<1> DEFINE p == a \div SEQ_MOD
<1>1. a = SEQ_MOD * p + Wrap(a) /\ p \in Int /\ Wrap(a) \in 0 .. SEQ_MOD - 1
  BY WrapQuotient, WrapType DEF SeqNrs
<1> HIDE DEF p
<1>2. a + b = (Wrap(a) + b) + SEQ_MOD * p /\ Wrap(a) + b \in Int
  BY <1>1, SeqModAssumption
<1> QED
  BY <1>1, <1>2, WrapAround

\* Two numbers less than a whole sequence space apart are told apart.
LEMMA WrapInjective ==
  \A a, b \in Int :
    Wrap(a) = Wrap(b) /\ a - b < SEQ_MOD /\ b - a < SEQ_MOD => a = b
<1> SUFFICES ASSUME NEW a \in Int, NEW b \in Int, Wrap(a) = Wrap(b),
                    a - b < SEQ_MOD, b - a < SEQ_MOD
             PROVE  a = b
  OBVIOUS
<1> DEFINE p == a \div SEQ_MOD
           q == b \div SEQ_MOD
<1>1. /\ a = SEQ_MOD * p + Wrap(a) /\ p \in Int
      /\ b = SEQ_MOD * q + Wrap(b) /\ q \in Int
      /\ Wrap(a) \in Int
  BY WrapQuotient, WrapType DEF SeqNrs
<1> HIDE DEF p, q
<1>2. SEQ_MOD * (p - q) = a - b
  BY <1>1, SeqModAssumption
<1>3. p - q = 0
  BY <1>1, <1>2, SmallMultiple, SeqModAssumption
<1> QED
  BY <1>1, <1>3, SeqModAssumption

\* The difference of two wrapped numbers, masked, is the masked difference
\* (seqnr in process_incoming, every "distance" the code computes).
LEMMA WrapDifference ==
  \A a, b, c \in Int : Wrap(Wrap(b) - Wrap(a) + c) = Wrap(b - a + c)
<1> SUFFICES ASSUME NEW a \in Int, NEW b \in Int, NEW c \in Int
             PROVE  Wrap(Wrap(b) - Wrap(a) + c) = Wrap(b - a + c)
  OBVIOUS
<1> DEFINE p == a \div SEQ_MOD
<1>1. /\ a = SEQ_MOD * p + Wrap(a) /\ p \in Int
      /\ Wrap(a) \in Int /\ Wrap(b) \in Int
  BY WrapQuotient, WrapType DEF SeqNrs
<1> HIDE DEF p
<1>2. Wrap(Wrap(b) + (c - Wrap(a))) = Wrap(b + (c - Wrap(a)))
  BY <1>1, WrapAdd
<1>3. /\ b + (c - Wrap(a)) = (b - a + c) + SEQ_MOD * p
      /\ b - a + c \in Int
      /\ Wrap(b) + (c - Wrap(a)) = Wrap(b) - Wrap(a) + c
  BY <1>1, SeqModAssumption
<1> QED
  BY <1>1, <1>2, <1>3, WrapAround

-----------------------------------------------------------------------------
(* Minima and maxima of the sets the modules take them of *)

\* Min of two numbers is the smaller one.
LEMMA MinOfTwo ==
    ASSUME NEW a \in Int, NEW b \in Int
    PROVE  Min({a, b}) = IF a <= b THEN a ELSE b
<1>1. \A x \in {a, b} : (\A y \in {a, b} : x <= y) => x = IF a <= b THEN a ELSE b
  OBVIOUS
<1>2. \E x \in {a, b} : \A y \in {a, b} : x <= y
  OBVIOUS
<1> QED
  BY <1>1, <1>2 DEF Min

\* Max of two numbers is the larger one.
LEMMA MaxOfTwo ==
    ASSUME NEW a \in Int, NEW b \in Int
    PROVE  Max({a, b}) = IF a >= b THEN a ELSE b
<1>1. \A x \in {a, b} : (\A y \in {a, b} : x >= y) => x = IF a >= b THEN a ELSE b
  OBVIOUS
<1>2. \E x \in {a, b} : \A y \in {a, b} : x >= y
  OBVIOUS
<1> QED
  BY <1>1, <1>2 DEF Max

Plus == INSTANCE FoldLaws WITH Op <- LAMBDA x, y : y + x

\* A non-empty set of naturals with an upper bound has a largest member.
LEMMA MaxInBounds ==
    ASSUME NEW m \in Nat, NEW K \in SUBSET (0 .. m), K # {}
    PROVE  Max(K) \in K /\ \A y \in K : y <= Max(K)
<1> DEFINE T == {m - x : x \in K}
<1>1. T \in SUBSET Nat
  OBVIOUS
<1>2. T # {}
  <2>1. PICK x \in K : TRUE
    OBVIOUS
  <2>2. m - x \in T
    BY <2>1
  <2> QED
    BY <2>2
<1> HIDE DEF T
<1>3. PICK t \in T : \A y \in T : t <= y
  BY <1>1, <1>2, Plus!Smallest
<1>4. PICK z \in K : t = m - z
  BY DEF T
<1>5. \A y \in K : z >= y
  <2> TAKE y \in K
  <2>1. m - y \in T
    BY DEF T
  <2>2. m - z <= m - y
    BY <1>3, <1>4, <2>1
  <2> QED
    BY <2>2
<1>6. Max(K) \in K /\ \A y \in K : Max(K) >= y
  BY <1>5 DEF Max
<1> QED
  BY <1>6
=============================================================================
