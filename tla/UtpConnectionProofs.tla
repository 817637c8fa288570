-------------------------- MODULE UtpConnectionProofs --------------------------
(***************************************************************************)
(* The send window of a socket is consistent in every reachable state of   *)
(* a connection, for every size of the sequence space, of the windows and  *)
(* of the buffers, and whatever the network does to the datagrams.  The    *)
(* last part, on what a call may do to the packets in the window, is what  *)
(* the proofs about the two streams start from.                            *)
(***************************************************************************)
EXTENDS UtpConnection, SeqNrProofs, FiniteSetTheorems, SequenceTheorems

-----------------------------------------------------------------------------
(* Sums: cur_window is one, kept up to date term by term *)

Total(w, Q) == MapThenSumSet(LAMBDA q : w[q], Q)

Some(Q) == CHOOSE x \in Q : TRUE

\* The recursion that defines a sum.
Adds(it, w, Q) ==
  it = [s \in SUBSET Q |-> IF s = {} THEN 0 ELSE w[Some(s)] + it[s \ {Some(s)}]]

LEMMA TotalRecursion ==
    ASSUME NEW w, NEW Q, IsFiniteSet(Q)
    PROVE  \E it : Adds(it, w, Q) /\ Total(w, Q) = it[Q]
<1> DEFINE it == CHOOSE it : Adds(it, w, Q)
           pick == [s \in SUBSET Q |-> Some(s)]
<1>1. \A h : Plus!Solves(h, Q, pick, 0, w) => Adds(h, w, Q)
  <2> TAKE h
  <2>1. \A s \in SUBSET Q : pick[s] = Some(s)
    OBVIOUS
  <2> HIDE DEF pick
  <2>2. [s \in SUBSET Q |-> IF s = {} THEN 0 ELSE w[pick[s]] + h[s \ {pick[s]}]]
        = [s \in SUBSET Q |-> IF s = {} THEN 0 ELSE w[Some(s)] + h[s \ {Some(s)}]]
    BY <2>1
  <2> QED
    BY <2>2 DEF Plus!Solves, Adds
<1>2. \E h : Plus!Solves(h, Q, pick, 0, w)
  <2>1. \A s \in SUBSET Q : s # {} => pick[s] \in s
    BY DEF Some
  <2> DEFINE zero == 0
  <2> HIDE DEF pick, zero
  <2>2. \E h : Plus!Solves(h, Q, pick, zero, w)
    BY <2>1, Plus!SolutionExists DEF IsFiniteSet, Plus!IsFiniteSet
  <2> QED
    BY <2>2 DEF zero
<1>3. Adds(it, w, Q)
  BY <1>1, <1>2
<1>4. Total(w, Q) = it[Q]
  <2>1. Total(w, Q) =
          (CHOOSE h : h = [s \in SUBSET Q |->
                             IF s = {} THEN 0
                             ELSE w[CHOOSE x \in s : TRUE]
                                    + h[s \ {CHOOSE x \in s : TRUE}]])[Q]
    BY DEF Total, MapThenSumSet, MapThenFoldSet
  <2> QED
    BY <2>1 DEF Adds, Some
<1> HIDE DEF it
<1> QED
  BY <1>3, <1>4

\* A sum is the first term and the sum of the others.
LEMMA TotalStep ==
    ASSUME NEW w, NEW Q, IsFiniteSet(Q)
    PROVE  /\ Q = {} => Total(w, Q) = 0
           /\ Q # {} => Total(w, Q) = w[Some(Q)] + Total(w, Q \ {Some(Q)})
<1>1. PICK it : Adds(it, w, Q) /\ Total(w, Q) = it[Q]
  BY TotalRecursion
<1>2. CASE Q = {}
  BY <1>1, <1>2 DEF Adds
<1>3. CASE Q # {}
  <2> DEFINE R == Q \ {Some(Q)}
  <2>1. IsFiniteSet(R)
    BY FS_Subset
  <2>2. PICK jt : Adds(jt, w, R) /\ Total(w, R) = jt[R]
    BY <2>1, TotalRecursion
  <2> DEFINE Y == {s \in SUBSET R : it[s] = jt[s]}
  <2>3. \A s \in SUBSET R : (\A t \in SUBSET s : t # s => t \in Y) => s \in Y
    <3> SUFFICES ASSUME NEW s \in SUBSET R, \A t \in SUBSET s : t # s => t \in Y
                 PROVE  it[s] = jt[s]
      OBVIOUS
    <3>1. CASE s = {}
      BY <1>1, <2>2, <3>1 DEF Adds
    <3>2. CASE s # {}
      <4>1. Some(s) \in s
        BY <3>2 DEF Some
      <4>2. it[s \ {Some(s)}] = jt[s \ {Some(s)}]
        BY <4>1
      <4>3. s \in SUBSET Q
        OBVIOUS
      <4>4. it[s] = w[Some(s)] + it[s \ {Some(s)}]
        BY <1>1, <3>2, <4>3 DEF Adds
      <4>5. jt[s] = w[Some(s)] + jt[s \ {Some(s)}]
        BY <2>2, <3>2 DEF Adds
      <4> QED
        BY <4>2, <4>4, <4>5
    <3> QED
      BY <3>1, <3>2
  <2> HIDE DEF Y, R
  <2>4. R \in Y
    BY <2>1, <2>3, Plus!Subsets DEF IsFiniteSet, Plus!IsFiniteSet
  <2>5. it[R] = jt[R]
    BY <2>4 DEF Y
  <2>6. it[Q] = w[Some(Q)] + it[R]
    BY <1>1, <1>3 DEF Adds, R
  <2>7. Total(w, Q) = w[Some(Q)] + Total(w, R)
    BY <1>1, <2>2, <2>5, <2>6
  <2> QED
    BY <1>3, <2>7 DEF R
<1> QED
  BY <1>2, <1>3

\* A sum of naturals is a natural.
LEMMA TotalType ==
    ASSUME NEW w, NEW Q, IsFiniteSet(Q), \A q \in Q : w[q] \in Nat
    PROVE  Total(w, Q) \in Nat
<1> DEFINE Z == {s \in SUBSET Q : Total(w, s) \in Nat}
<1>1. \A s \in SUBSET Q : (\A t \in SUBSET s : t # s => t \in Z) => s \in Z
  <2> SUFFICES ASSUME NEW s \in SUBSET Q, \A t \in SUBSET s : t # s => t \in Z
               PROVE  Total(w, s) \in Nat
    OBVIOUS
  <2>1. IsFiniteSet(s)
    BY FS_Subset
  <2>2. CASE s # {}
    <3>1. Some(s) \in s
      BY <2>2 DEF Some
    <3>2. Total(w, s \ {Some(s)}) \in Nat /\ w[Some(s)] \in Nat
      BY <3>1
    <3>3. Total(w, s) = w[Some(s)] + Total(w, s \ {Some(s)})
      BY <2>1, <2>2, TotalStep
    <3> QED
      BY <3>2, <3>3
  <2>3. CASE s = {}
    <3>1. Total(w, s) = 0
      BY <2>1, <2>3, TotalStep
    <3> QED
      BY <3>1
  <2> QED
    BY <2>2, <2>3
<1> HIDE DEF Z
<1>2. Q \in Z
  BY <1>1, Plus!Subsets DEF IsFiniteSet, Plus!IsFiniteSet
<1> QED
  BY <1>2 DEF Z

\* Any term may come first.
LEMMA TotalRemove ==
    ASSUME NEW w, NEW Q, IsFiniteSet(Q), \A q \in Q : w[q] \in Nat, NEW x \in Q
    PROVE  Total(w, Q) = w[x] + Total(w, Q \ {x})
<1> DEFINE Z == {s \in SUBSET Q : \A y \in s : Total(w, s) = w[y] + Total(w, s \ {y})}
<1>0. \A s \in SUBSET Q : IsFiniteSet(s) /\ Total(w, s) \in Nat
  <2> TAKE s \in SUBSET Q
  <2>1. IsFiniteSet(s)
    BY FS_Subset
  <2> QED
    BY <2>1, TotalType
<1>1. \A s \in SUBSET Q : (\A t \in SUBSET s : t # s => t \in Z) => s \in Z
  <2> SUFFICES ASSUME NEW s \in SUBSET Q, \A t \in SUBSET s : t # s => t \in Z,
                      NEW y \in s
               PROVE  Total(w, s) = w[y] + Total(w, s \ {y})
    OBVIOUS
  <2> DEFINE z == Some(s)
  <2>1. z \in s
    BY DEF Some
  <2>2. Total(w, s) = w[z] + Total(w, s \ {z})
    BY <1>0, TotalStep
  <2> HIDE DEF z
  <2>3. CASE y # z
    <3> DEFINE b == s \ {z}
               c == s \ {y}
               d == s \ {y, z}
    <3>1. /\ b \in Z /\ c \in Z /\ y \in b /\ z \in c
          /\ b \ {y} = d /\ c \ {z} = d
      BY <2>1, <2>3
    <3>2. Total(w, b) = w[y] + Total(w, b \ {y})
      BY <3>1
    <3>3. Total(w, c) = w[z] + Total(w, c \ {z})
      BY <3>1
    <3>4. Total(w, b) = w[y] + Total(w, d) /\ Total(w, c) = w[z] + Total(w, d)
      BY <3>1, <3>2, <3>3, Zenon
    <3>5. w[y] \in Nat /\ w[z] \in Nat /\ Total(w, d) \in Nat
      BY <1>0, <2>1
    <3>6. Total(w, s) = w[z] + Total(w, b)
      BY <2>2
    <3> HIDE DEF b, c, d
    <3>7. Total(w, s) = w[y] + Total(w, c)
      BY <3>4, <3>5, <3>6
    <3> USE DEF c
    <3> QED
      BY <3>7
  <2> QED
    BY <2>2, <2>3
<1> HIDE DEF Z
<1>2. Q \in Z
  BY <1>1, Plus!Subsets DEF IsFiniteSet, Plus!IsFiniteSet
<1> QED
  BY <1>2 DEF Z

\* Sums of the same terms are the same.
LEMMA TotalSame ==
    ASSUME NEW v, NEW w, NEW Q, IsFiniteSet(Q), \A q \in Q : w[q] \in Nat /\ v[q] = w[q]
    PROVE  Total(v, Q) = Total(w, Q)
<1> DEFINE Z == {s \in SUBSET Q : Total(v, s) = Total(w, s)}
<1>1. \A s \in SUBSET Q : (\A t \in SUBSET s : t # s => t \in Z) => s \in Z
  <2> SUFFICES ASSUME NEW s \in SUBSET Q, \A t \in SUBSET s : t # s => t \in Z
               PROVE  Total(v, s) = Total(w, s)
    OBVIOUS
  <2>1. IsFiniteSet(s)
    BY FS_Subset
  <2>2. CASE s # {}
    <3>1. Some(s) \in s
      BY <2>2 DEF Some
    <3>2. Total(v, s \ {Some(s)}) = Total(w, s \ {Some(s)}) /\ v[Some(s)] = w[Some(s)]
      BY <3>1
    <3>3. /\ Total(v, s) = v[Some(s)] + Total(v, s \ {Some(s)})
          /\ Total(w, s) = w[Some(s)] + Total(w, s \ {Some(s)})
      BY <2>1, <2>2, TotalStep
    <3> QED
      BY <3>2, <3>3
  <2>3. CASE s = {}
    <3>1. Total(v, s) = 0 /\ Total(w, s) = 0
      BY <2>1, <2>3, TotalStep
    <3> QED
      BY <3>1
  <2> QED
    BY <2>2, <2>3
<1> HIDE DEF Z
<1>2. Q \in Z
  BY <1>1, Plus!Subsets DEF IsFiniteSet, Plus!IsFiniteSet
<1> QED
  BY <1>2 DEF Z

\* A sum of zeros is zero.
LEMMA TotalZero ==
    ASSUME NEW w, NEW Q, IsFiniteSet(Q), \A q \in Q : w[q] = 0
    PROVE  Total(w, Q) = 0
<1> DEFINE Z == {s \in SUBSET Q : Total(w, s) = 0}
<1>1. \A s \in SUBSET Q : (\A t \in SUBSET s : t # s => t \in Z) => s \in Z
  <2> SUFFICES ASSUME NEW s \in SUBSET Q, \A t \in SUBSET s : t # s => t \in Z
               PROVE  Total(w, s) = 0
    OBVIOUS
  <2>1. IsFiniteSet(s)
    BY FS_Subset
  <2>2. CASE s # {}
    <3>1. Some(s) \in s
      BY <2>2 DEF Some
    <3>2. Total(w, s \ {Some(s)}) = 0 /\ w[Some(s)] = 0
      BY <3>1
    <3>3. Total(w, s) = w[Some(s)] + Total(w, s \ {Some(s)})
      BY <2>1, <2>2, TotalStep
    <3> QED
      BY <3>2, <3>3
  <2>3. CASE s = {}
    BY <2>1, <2>3, TotalStep
  <2> QED
    BY <2>2, <2>3
<1> HIDE DEF Z
<1>2. Q \in Z
  BY <1>1, Plus!Subsets DEF IsFiniteSet, Plus!IsFiniteSet
<1> QED
  BY <1>2 DEF Z

\* A sum may be taken in two parts.
LEMMA TotalSplit ==
    ASSUME NEW w, NEW Q, IsFiniteSet(Q), \A q \in Q : w[q] \in Nat, NEW A \in SUBSET Q
    PROVE  Total(w, Q) = Total(w, A) + Total(w, Q \ A)
<1> DEFINE Z == {s \in SUBSET Q : Total(w, s) = Total(w, s \cap A) + Total(w, s \ A)}
<1>0. \A s \in SUBSET Q : IsFiniteSet(s) /\ Total(w, s) \in Nat
  <2> TAKE s \in SUBSET Q
  <2>1. IsFiniteSet(s)
    BY FS_Subset
  <2> QED
    BY <2>1, TotalType
<1>1. \A s \in SUBSET Q : (\A t \in SUBSET s : t # s => t \in Z) => s \in Z
  <2> SUFFICES ASSUME NEW s \in SUBSET Q, \A t \in SUBSET s : t # s => t \in Z
               PROVE  Total(w, s) = Total(w, s \cap A) + Total(w, s \ A)
    OBVIOUS
  <2>1. CASE s = {}
    <3>1. s \cap A = {} /\ s \ A = {}
      BY <2>1
    <3>2. Total(w, s) = 0 /\ Total(w, s \cap A) = 0 /\ Total(w, s \ A) = 0
      BY <1>0, <2>1, <3>1, TotalStep
    <3> QED
      BY <3>2
  <2>2. CASE s # {}
    <3> DEFINE x == Some(s)
               r == s \ {x}
               a == s \cap A
               b == s \ A
               c == r \cap A
               d == r \ A
    <3>1. x \in s
      BY <2>2 DEF Some
    <3>2. r \in Z
      BY <3>1
    <3>3. Total(w, r) = Total(w, c) + Total(w, d)
      BY <3>2
    <3>4. Total(w, s) = w[x] + Total(w, r)
      BY <1>0, <2>2, TotalStep
    <3>5. /\ w[x] \in Nat /\ Total(w, a) \in Nat /\ Total(w, b) \in Nat
          /\ Total(w, c) \in Nat /\ Total(w, d) \in Nat
      BY <1>0, <3>1
    <3>6. \/ Total(w, a) = w[x] + Total(w, c) /\ Total(w, b) = Total(w, d)
          \/ Total(w, b) = w[x] + Total(w, d) /\ Total(w, a) = Total(w, c)
      <4> HIDE DEF x
      <4>1. CASE x \in A
        <5>1. x \in a /\ a \ {x} = c /\ b = d
          BY <3>1, <4>1
        <5>2. IsFiniteSet(a) /\ \A q \in a : w[q] \in Nat
          BY <1>0
        <5> HIDE DEF a, b, c, d
        <5>3. Total(w, a) = w[x] + Total(w, a \ {x})
          BY <5>1, <5>2, TotalRemove
        <5> QED
          BY <5>1, <5>3, Zenon
      <4>2. CASE x \notin A
        <5>1. x \in b /\ b \ {x} = d /\ a = c
          BY <3>1, <4>2
        <5>2. IsFiniteSet(b) /\ \A q \in b : w[q] \in Nat
          BY <1>0
        <5> HIDE DEF a, b, c, d
        <5>3. Total(w, b) = w[x] + Total(w, b \ {x})
          BY <5>1, <5>2, TotalRemove
        <5> QED
          BY <5>1, <5>3, Zenon
      <4> QED
        BY <4>1, <4>2
    <3> HIDE DEF x, r, a, b, c, d
    <3>7. Total(w, s) = Total(w, a) + Total(w, b)
      BY <3>3, <3>4, <3>5, <3>6
    <3> QED
      BY <3>7 DEF a, b
  <2> QED
    BY <2>1, <2>2
<1> HIDE DEF Z
<1>2. Q \in Z
  BY <1>1, Plus!Subsets DEF IsFiniteSet, Plus!IsFiniteSet
<1>3. Q \cap A = A
  OBVIOUS
<1>4. Total(w, Q) = Total(w, Q \cap A) + Total(w, Q \ A)
  BY <1>2 DEF Z
<1> QED
  BY <1>3, <1>4, Zenon

-----------------------------------------------------------------------------
(* Types of the records *)

Datagrams ==
  [type : {"SYN", "DATA", "FIN", "STATE", "RESET"}, seq : SeqNrs, ack : SeqNrs,
   wnd : Nat, sack : (SUBSET Nat) \cup {NULL}, data : Seq(Nat)]

Outbufs == [SeqNrs -> OutPackets \cup {NULL}]
Inbufs == [SeqNrs -> Seq(Nat) \cup {NULL}]

Fields ==
  {"st", "closed", "err", "ack_nr", "reorder_count", "eof_pkt", "got_fin",
   "got_fin_reached", "read_shutdown", "last_rcv_win", "inbuf", "delivered",
   "unread", "seq_nr", "cwp", "fin_sent", "fin_sent_acked", "close_requested",
   "max_window_user", "flush_scan_start", "outbuf", "wrote", "fast_timeout",
   "fast_resend_seq_nr", "cur_window", "max_window", "retransmit_count",
   "rto_armed", "ack_pending", "out"}

\* A socket is a record of these fields, with values of these types.  (As a set of
\* records it would say the same, but the fields one by one serve the provers better.)
SocketType(s) ==
  /\ DOMAIN s = Fields
  /\ s.st \in States
  /\ s.closed \in BOOLEAN /\ s.got_fin \in BOOLEAN /\ s.got_fin_reached \in BOOLEAN
  /\ s.read_shutdown \in BOOLEAN /\ s.fin_sent \in BOOLEAN
  /\ s.fin_sent_acked \in BOOLEAN /\ s.close_requested \in BOOLEAN
  /\ s.fast_timeout \in BOOLEAN /\ s.rto_armed \in BOOLEAN
  /\ s.ack_pending \in BOOLEAN
  /\ s.err \in {"NONE", "ECONNRESET", "ECONNREFUSED", "ETIMEDOUT"}
  /\ s.ack_nr \in SeqNrs /\ s.eof_pkt \in SeqNrs /\ s.seq_nr \in SeqNrs
  /\ s.flush_scan_start \in SeqNrs /\ s.fast_resend_seq_nr \in SeqNrs
  /\ s.reorder_count \in Nat /\ s.last_rcv_win \in Nat /\ s.unread \in Nat
  /\ s.cwp \in Nat /\ s.max_window_user \in Nat /\ s.wrote \in Nat
  /\ s.retransmit_count \in Nat
  /\ s.inbuf \in Inbufs
  /\ s.delivered \in Seq(Seq(Nat))
  /\ s.outbuf \in Outbufs
  /\ s.cur_window \in Int
  /\ s.max_window \in Nat \ {0}
  /\ s.out \in SUBSET Datagrams

-----------------------------------------------------------------------------
(* The bytes in flight *)

Weight(p) == IF InFlight(p) THEN Len(p.data) ELSE 0
Weights(buf) == [q \in SeqNrs |-> Weight(buf[q])]
Load(buf) == Total(Weights(buf), SeqNrs)

LEMMA SeqNrsFinite == IsFiniteSet(SeqNrs) /\ \A A \in SUBSET SeqNrs : IsFiniteSet(A)
<1>1. IsFiniteSet(SeqNrs)
  BY FS_Interval, SeqModAssumption DEF SeqNrs
<1> QED
  BY <1>1, FS_Subset

LEMMA WeightType ==
    ASSUME NEW buf \in Outbufs
    PROVE  \A q \in SeqNrs : Weights(buf)[q] \in Nat /\ Weights(buf)[q] = Weight(buf[q])
<1> TAKE q \in SeqNrs
<1>1. CASE InFlight(buf[q])
  <2>1. buf[q] \in OutPackets
    BY <1>1 DEF Outbufs, InFlight
  <2>2. buf[q].data \in Seq(Nat)
    BY <2>1 DEF OutPackets
  <2> QED
    BY <1>1, <2>2, LenProperties DEF Weights, Weight
<1>2. CASE ~InFlight(buf[q])
  BY <1>2 DEF Weights, Weight
<1> QED
  BY <1>1, <1>2

LEMMA LoadType ==
    ASSUME NEW buf \in Outbufs
    PROVE  Load(buf) \in Nat /\ \A A \in SUBSET SeqNrs : Total(Weights(buf), A) \in Nat
<1>1. \A A \in SUBSET SeqNrs : Total(Weights(buf), A) \in Nat
  <2> TAKE A \in SUBSET SeqNrs
  <2>1. IsFiniteSet(A) /\ \A q \in A : Weights(buf)[q] \in Nat
    BY SeqNrsFinite, WeightType
  <2> QED
    BY <2>1, TotalType
<1> QED
  BY <1>1 DEF Load

\* One slot of outbuf changes.
LEMMA LoadOne ==
    ASSUME NEW buf \in Outbufs, NEW new \in Outbufs, NEW q \in SeqNrs,
           \A r \in SeqNrs \ {q} : new[r] = buf[r]
    PROVE  Load(new) = Load(buf) - Weight(buf[q]) + Weight(new[q])
<1> DEFINE v == Weights(new)
           w == Weights(buf)
           S == SeqNrs
           R == SeqNrs \ {q}
<1>1. IsFiniteSet(S) /\ IsFiniteSet(R)
  BY SeqNrsFinite
<1>2. \A r \in S : v[r] \in Nat /\ w[r] \in Nat
  BY WeightType
<1>3. \A r \in R : w[r] \in Nat /\ v[r] = w[r]
  BY WeightType
<1>4. v[q] = Weight(new[q]) /\ w[q] = Weight(buf[q])
  BY WeightType
<1>5. Total(v, S \ {q}) \in Nat /\ Total(w, S \ {q}) \in Nat
  BY LoadType
<1> HIDE DEF v, w, S
<1>6. q \in S /\ S \ {q} = R
  BY DEF S
<1> HIDE DEF R
<1>7. Total(v, S) = v[q] + Total(v, S \ {q}) /\ Total(w, S) = w[q] + Total(w, S \ {q})
  BY <1>1, <1>2, <1>6, TotalRemove
<1>8. Total(v, S) = v[q] + Total(v, R) /\ Total(w, S) = w[q] + Total(w, R)
  BY <1>6, <1>7
<1>9. Total(v, R) = Total(w, R)
  BY <1>1, <1>3, TotalSame
<1>10. Total(v, R) \in Nat /\ Total(w, R) \in Nat
  BY <1>5, <1>6
<1>11. v[q] \in Nat /\ w[q] \in Nat
  BY <1>2, <1>6
<1>12. Load(new) = Total(v, S) /\ Load(buf) = Total(w, S)
  BY DEF Load, S, v, w
<1> QED
  BY <1>4, <1>8, <1>9, <1>10, <1>11, <1>12

\* The packets of A leave the flight.
LEMMA LoadRemove ==
    ASSUME NEW buf \in Outbufs, NEW new \in Outbufs, NEW A \in SUBSET SeqNrs,
           \A r \in SeqNrs \ A : new[r] = buf[r],
           \A r \in A : ~InFlight(new[r])
    PROVE  Load(new) = Load(buf) - Total(Weights(buf), A)
<1> DEFINE v == Weights(new)
           w == Weights(buf)
           S == SeqNrs
           R == SeqNrs \ A
<1>1. IsFiniteSet(S) /\ IsFiniteSet(R) /\ IsFiniteSet(A)
  BY SeqNrsFinite
<1>2. \A r \in S : v[r] \in Nat /\ w[r] \in Nat
  BY WeightType
<1>3. \A r \in R : w[r] \in Nat /\ v[r] = w[r]
  BY WeightType
<1>4. \A r \in A : v[r] = 0
  BY WeightType DEF Weight
<1>5. Total(v, R) \in Nat /\ Total(w, R) \in Nat /\ Total(w, A) \in Nat
  BY LoadType
<1>6. A \in SUBSET S /\ S \ A = R
  OBVIOUS
<1>12. Load(new) = Total(v, S) /\ Load(buf) = Total(w, S)
  BY DEF Load
<1> HIDE DEF v, w, S, R
<1>7. Total(v, S) = Total(v, A) + Total(v, S \ A) /\ Total(w, S) = Total(w, A) + Total(w, S \ A)
  BY <1>1, <1>2, <1>6, TotalSplit
<1>8. Total(v, S) = Total(v, A) + Total(v, R) /\ Total(w, S) = Total(w, A) + Total(w, R)
  BY <1>6, <1>7, Zenon
<1>9. Total(v, R) = Total(w, R)
  BY <1>1, <1>3, TotalSame
<1>10. Total(v, A) = 0
  BY <1>1, <1>4, TotalZero
<1>11. Load(new) = Load(buf) - Total(w, A)
  BY <1>5, <1>8, <1>9, <1>10, <1>12
<1> QED
  BY <1>11 DEF w

\* Bytes, for packets that are all in flight.
LEMMA BytesTotal ==
    ASSUME NEW s, NEW Q \in SUBSET SeqNrs, \A q \in Q : InFlight(s.outbuf[q])
    PROVE  Bytes(s, Q) = Total(Weights(s.outbuf), Q)
<1> DEFINE w == Weights(s.outbuf)
           Inner(it) == [t \in SUBSET Q |-> IF t = {} THEN 0
                           ELSE Len(s.outbuf[CHOOSE x \in t : TRUE].data)
                                  + it[t \ {CHOOSE x \in t : TRUE}]]
           Outer(it) == [t \in SUBSET Q |-> IF t = {} THEN 0
                           ELSE w[CHOOSE x \in t : TRUE]
                                  + it[t \ {CHOOSE x \in t : TRUE}]]
<1>1. \A q \in Q : w[q] = Len(s.outbuf[q].data)
  BY DEF Weights, Weight
<1>2. \A it : Inner(it) = Outer(it)
  <2> TAKE it
  <2>1. \A t \in SUBSET Q : t # {} => (CHOOSE x \in t : TRUE) \in Q
    OBVIOUS
  <2> HIDE DEF w
  <2> QED
    BY <1>1, <2>1
<1>3. Bytes(s, Q) = (CHOOSE it : it = Inner(it))[Q]
  BY DEF Bytes, MapThenSumSet, MapThenFoldSet
<1>4. Total(w, Q) = (CHOOSE it : it = Outer(it))[Q]
  BY DEF Total, MapThenSumSet, MapThenFoldSet
<1> HIDE DEF Inner, Outer, w
<1>5. (CHOOSE it : it = Inner(it)) = (CHOOSE it : it = Outer(it))
  BY <1>2
<1> QED
  BY <1>3, <1>4, <1>5 DEF w

-----------------------------------------------------------------------------
(* The invariant of one socket, in three parts *)

\* cur_window is the load of outbuf, outside the window outbuf is empty, the
\* window is no larger than outbuf, of which one slot is left for the FIN.
SendOK(s) ==
  /\ SocketType(s)
  /\ s.cur_window = Load(s.outbuf)
  /\ \A q \in SeqNrs \ Window(s) : s.outbuf[q] = NULL
  /\ s.cwp <= OUT_MAX /\ (s.fin_sent \/ s.cwp < OUT_MAX)
  /\ s.retransmit_count <= RETRANSMIT_LIMIT

\* The window starts with a packet (broken between the two loops of an ACK).
Headed(s) == s.cwp > 0 => s.outbuf[WindowStart(s)] # NULL

\* reorder_count counts no more than the slots of the reorder window that are
\* filled, and nothing is buffered before the connection is open.
Filled(s) == {q \in SeqNrs : s.inbuf[q] # NULL /\ Ahead(s, q) \in 1 .. REORDER_MAX - 1}
RecvOK(s) == /\ s.reorder_count <= Cardinality(Filled(s))
             /\ s.st = "SYN_SENT" => s.reorder_count = 0

SameRecv(s, t) ==
  t.ack_nr = s.ack_nr /\ t.inbuf = s.inbuf /\ t.reorder_count = s.reorder_count

SameWindow(s, t) ==
  /\ t.seq_nr = s.seq_nr /\ t.cwp = s.cwp /\ t.fin_sent = s.fin_sent
  /\ \A q \in SeqNrs : t.outbuf[q] = NULL <=> s.outbuf[q] = NULL

\* From s to t no packet comes or goes.
Keeps(s, t) == SameRecv(s, t) /\ SameWindow(s, t) /\ t.wrote = s.wrote /\ t.st = s.st

SameSend(s, t) ==
  /\ t.outbuf = s.outbuf /\ t.cur_window = s.cur_window /\ t.seq_nr = s.seq_nr
  /\ t.cwp = s.cwp /\ t.fin_sent = s.fin_sent
  /\ t.retransmit_count = s.retransmit_count

LEMMA SameSendOK ==
    ASSUME NEW s, SendOK(s), NEW t, SocketType(t), SameSend(s, t)
    PROVE  SendOK(t) /\ SameWindow(s, t)
<1>1. Window(t) = Window(s)
  BY DEF SameSend, Window
<1> QED
  BY <1>1 DEF SendOK, SameSend, SameWindow

LEMMA WindowStartType ==
    ASSUME NEW s, SendOK(s)
    PROVE  /\ s.seq_nr \in Int /\ s.cwp \in Nat
           /\ WindowStart(s) \in SeqNrs /\ Window(s) \in SUBSET SeqNrs
<1>1. s.seq_nr \in Int /\ s.cwp \in Nat
  BY SeqModAssumption DEF SendOK, SocketType, SeqNrs
<1>2. \A j \in Int : s.seq_nr - j \in Int
  BY <1>1
<1>3. \A j \in Int : Wrap(s.seq_nr - j) \in SeqNrs
  BY <1>2, WrapType
<1> QED
  BY <1>1, <1>3 DEF WindowStart, Window

LEMMA SameWindowHeaded ==
    ASSUME NEW s, SendOK(s), Headed(s), NEW t, SameWindow(s, t)
    PROVE  Headed(t)
<1>1. WindowStart(t) = WindowStart(s)
  BY DEF SameWindow, WindowStart
<1> QED
  BY <1>1, WindowStartType DEF SameWindow, Headed

LEMMA SameRecvOK ==
    ASSUME NEW s, RecvOK(s), NEW t, SameRecv(s, t), t.st = "SYN_SENT" => s.st = "SYN_SENT"
    PROVE  RecvOK(t)
<1>1. Filled(t) = Filled(s)
  BY DEF SameRecv, Filled, Ahead
<1> QED
  BY <1>1 DEF SameRecv, RecvOK

LEMMA KeepsTransitive ==
    \A r, s, t : Keeps(r, s) /\ Keeps(s, t) => Keeps(r, t)
  BY DEF Keeps, SameRecv, SameWindow

LEMMA KeepsReflexive == \A s : Keeps(s, s)
  BY DEF Keeps, SameRecv, SameWindow

LEMMA TransmitSends ==
    ASSUME NEW s, SendOK(s), NEW q \in SeqNrs, s.outbuf[q] # NULL
    PROVE  SendOK(Transmit(s, q)) /\ Keeps(s, Transmit(s, q))
<1> DEFINE t == Transmit(s, q)
           p == s.outbuf[q]
           d == [type |-> p.type, seq |-> q, ack |-> s.ack_nr,
                 wnd |-> p.wnd, sack |-> NULL, data |-> p.data]
           n == IF InFlight(p) THEN 0 ELSE Len(p.data)
           new == [s.outbuf EXCEPT ![q] = [p EXCEPT !.sent = TRUE, !.need_resend = FALSE]]
<1>1. SocketType(s) /\ s.outbuf \in Outbufs /\ p \in OutPackets
  BY DEF SendOK, SocketType, Outbufs
<1>2. d \in Datagrams
  <2>1. /\ p.type \in {"SYN", "DATA", "FIN"} /\ s.ack_nr \in SeqNrs
        /\ p.wnd \in Nat /\ p.data \in Seq(Nat)
    BY <1>1 DEF OutPackets, SocketType
  <2> HIDE DEF p
  <2> QED
    BY <2>1 DEF Datagrams
<1>3. t = [s EXCEPT !.cur_window = @ + n, !.outbuf = new, !.out = @ \cup {d},
                    !.ack_pending = FALSE]
  BY DEF Transmit
<1>4. n \in Nat
  BY <1>1, LenProperties DEF OutPackets
<1>5. new \in Outbufs
  BY <1>1 DEF Outbufs, OutPackets
<1>6. SocketType(t)
  <2> HIDE DEF t, d, n, new
  <2> QED
    BY <1>1, <1>2, <1>3, <1>4, <1>5 DEF SocketType, Fields
<1>7. /\ t.cur_window = s.cur_window + n /\ t.outbuf = new
      /\ t.seq_nr = s.seq_nr /\ t.cwp = s.cwp /\ t.fin_sent = s.fin_sent
      /\ t.wrote = s.wrote /\ t.st = s.st /\ t.retransmit_count = s.retransmit_count
      /\ SameRecv(s, t)
  <2> HIDE DEF t, d, n, new
  <2> QED
    BY <1>1, <1>3 DEF SocketType, Fields, SameRecv
<1>8. /\ new[q] \in OutPackets /\ new[q].sent /\ ~new[q].need_resend
      /\ new[q].data = p.data
  BY <1>1 DEF Outbufs, OutPackets
<1>9. \A r \in SeqNrs \ {q} : new[r] = s.outbuf[r]
  BY <1>1 DEF Outbufs
<1>10. \A x \in OutPackets : x # NULL
  BY SendAssumption
<1>11. Weight(new[q]) = Weight(p) + n /\ Weight(p) \in Nat /\ Weight(new[q]) \in Nat
  <2> HIDE DEF new, p, n
  <2>1. Weight(new[q]) = Len(p.data) /\ Len(p.data) \in Nat
    BY <1>1, <1>8, <1>10, LenProperties DEF Weight, InFlight, OutPackets
  <2> QED
    BY <2>1 DEF n, Weight
<1>12. Load(new) = s.cur_window + n
  <2>1. Load(new) = Load(s.outbuf) - Weight(p) + Weight(new[q]) /\ Load(s.outbuf) \in Nat
    BY <1>1, <1>5, <1>9, LoadOne, LoadType
  <2> HIDE DEF new, p, n
  <2> QED
    BY <1>4, <1>11, <2>1 DEF SendOK
<1>13. \A r \in SeqNrs : new[r] = NULL <=> s.outbuf[r] = NULL
  BY <1>8, <1>9, <1>10
<1>14. Window(t) = Window(s)
  BY <1>7 DEF Window
<1> HIDE DEF t, new, n, p, d
<1>15. SendOK(t)
  BY <1>6, <1>7, <1>12, <1>13, <1>14 DEF SendOK
<1>16. Keeps(s, t)
  BY <1>7, <1>13 DEF Keeps, SameWindow
<1> QED
  BY <1>15, <1>16 DEF t

-----------------------------------------------------------------------------
(* Flushing *)

Flush == INSTANCE FoldLaws WITH Op <- FlushStep

\* The state of the loop of flush_packets that was entered with socket r.
FlushState(r, f) ==
  /\ DOMAIN f = {"s", "in_prefix", "full"} /\ f.in_prefix \in BOOLEAN /\ f.full \in BOOLEAN
  /\ SendOK(f.s) /\ Keeps(r, f.s)

LEMMA FlushStepKeeps ==
    ASSUME NEW r, NEW f, FlushState(r, f), NEW q \in SeqNrs
    PROVE  FlushState(r, FlushStep(f, q))
<1> DEFINE s == f.s
           p == s.outbuf[q]
           Advance(t) == IF f.in_prefix THEN [t EXCEPT !.flush_scan_start = Wrap(q + 1)]
                         ELSE t
<1>1. SendOK(s) /\ Keeps(r, s)
  BY DEF FlushState
<1>2. ASSUME NEW t, SendOK(t), Keeps(r, t)
      PROVE  SendOK(Advance(t)) /\ Keeps(r, Advance(t))
  <2>1. CASE f.in_prefix
    <3> DEFINE u == [t EXCEPT !.flush_scan_start = Wrap(q + 1)]
    <3>1. SocketType(t) /\ Wrap(q + 1) \in SeqNrs
      BY <1>2, WrapType DEF SendOK, SeqNrs
    <3>2. SocketType(u) /\ SameSend(t, u) /\ SameRecv(t, u) /\ u.wrote = t.wrote /\ u.st = t.st
      BY <3>1 DEF SocketType, Fields, SameSend, SameRecv
    <3> HIDE DEF u
    <3>3. SendOK(u) /\ Keeps(t, u)
      BY <1>2, <3>2, SameSendOK DEF Keeps
    <3>4. SendOK(u) /\ Keeps(r, u)
      BY <1>2, <3>3, KeepsTransitive
    <3> QED
      BY <2>1, <3>4 DEF u
  <2> QED
    BY <1>2, <2>1
<1>3. CASE f.full
  BY <1>3 DEF FlushStep
<1>4. CASE ~f.full /\ (p = NULL \/ InFlight(p))
  <2>1. FlushStep(f, q) = [f EXCEPT !.s = Advance(s)]
    BY <1>4 DEF FlushStep
  <2>2. SendOK(Advance(s)) /\ Keeps(r, Advance(s))
    BY <1>1, <1>2
  <2> HIDE DEF Advance, s
  <2> QED
    BY <2>1, <2>2 DEF FlushState
<1>5. CASE ~f.full /\ ~(p = NULL \/ InFlight(p))
  <2> DEFINE t == Transmit(s, q)
  <2>1. SendOK(t) /\ Keeps(s, t)
    BY <1>1, <1>5, TransmitSends
  <2>2. Keeps(r, t)
    BY <1>1, <2>1, KeepsTransitive
  <2>3. SendOK(Advance(t)) /\ Keeps(r, Advance(t))
    BY <1>2, <2>1, <2>2
  <2>4. \/ FlushStep(f, q) = [f EXCEPT !.full = TRUE]
        \/ FlushStep(f, q) = [f EXCEPT !.s = Advance(t)]
        \/ FlushStep(f, q) = [f EXCEPT !.in_prefix = FALSE]
    BY <1>5 DEF FlushStep
  <2> HIDE DEF Advance, t
  <2> QED
    BY <1>1, <2>3, <2>4 DEF FlushState
<1> QED
  BY <1>3, <1>4, <1>5

\* flush_packets sends packets, and moves the cursor, nothing else.
LEMMA FlushKeeps ==
    ASSUME NEW s, SendOK(s)
    PROVE  SendOK(FlushPackets(s)) /\ Keeps(s, FlushPackets(s))
<1> DEFINE begin == FlushBegin(s)
           n == Wrap(s.seq_nr - begin)
           scan == [i \in 1 .. n |-> Wrap(begin + i - 1)]
           base == [s |-> s, in_prefix |-> TRUE, full |-> FALSE]
           end == FoldLeft(FlushStep, base, scan)
<1>1. begin \in SeqNrs /\ s.seq_nr \in SeqNrs
  BY WindowStartType DEF SendOK, SocketType, FlushBegin
<1> HIDE DEF begin
<1>2. n \in Nat
  <2>1. s.seq_nr - begin \in Int
    BY <1>1 DEF SeqNrs
  <2> QED
    BY <2>1, WrapType DEF SeqNrs
<1>3. \A i \in 1 .. n : scan[i] \in SeqNrs
  BY <1>1, <1>2, WrapType DEF SeqNrs
<1>4. DOMAIN scan = 1 .. n
  OBVIOUS
<1>5. FlushState(s, base)
  BY KeepsReflexive DEF FlushState
<1>6. FlushPackets(s) = end.s
  BY DEF FlushPackets, begin
<1> HIDE DEF n, scan, base
<1>7. PICK c : Flush!Chain(c, n, base, scan) /\ end = c[n]
  <2>1. \E c : Flush!Chain(c, n, base, scan) /\ Flush!FoldLeft(FlushStep, base, scan) = c[n]
    BY <1>2, <1>4, Flush!FoldLeftChain
  <2>2. Flush!FoldLeft(FlushStep, base, scan) = end
    BY DEF FoldLeft, Flush!FoldLeft, MapThenFoldSet, Flush!MapThenFoldSet, Max, Flush!Max
  <2> HIDE DEF end
  <2> QED
    BY <2>1, <2>2
<1> HIDE DEF end
<1> DEFINE Z == {i \in 0 .. n : FlushState(s, c[i])}
<1>8. 0 \in Z
  BY <1>2, <1>5, <1>7 DEF Flush!Chain
<1>9. \A i \in 1 .. n : i - 1 \in Z => i \in Z
  <2> SUFFICES ASSUME NEW i \in 1 .. n, FlushState(s, c[i - 1])
               PROVE  i \in Z
    BY <1>2
  <2>1. c[i] = FlushStep(c[i - 1], scan[i])
    BY <1>7 DEF Flush!Chain
  <2>2. FlushState(s, FlushStep(c[i - 1], scan[i]))
    BY <1>3, FlushStepKeeps
  <2> QED
    BY <1>2, <2>1, <2>2
<1> HIDE DEF Z
<1>10. n \in Z
  <2>1. \A i \in 0 .. n : i \in Z
    BY <1>2, <1>8, <1>9, Flush!Rounds
  <2> QED
    BY <1>2, <2>1
<1> QED
  BY <1>6, <1>7, <1>10 DEF Z, FlushState

-----------------------------------------------------------------------------
(* Queueing *)

\* From s to t the window only grows at its end.
Grows(s, t) ==
  /\ SameRecv(s, t) /\ t.wrote = s.wrote /\ t.st = s.st /\ t.fin_sent = s.fin_sent
  /\ t.cwp >= s.cwp /\ (Headed(s) => Headed(t))

LEMMA GrowsTransitive ==
    ASSUME NEW r, SocketType(r), NEW s, SocketType(s), NEW t, SocketType(t),
           Grows(r, s), Grows(s, t)
    PROVE  Grows(r, t)
<1>1. r.cwp \in Nat /\ s.cwp \in Nat /\ t.cwp \in Nat
  BY DEF SocketType
<1> QED
  BY <1>1 DEF Grows, SameRecv

LEMMA KeepsGrows ==
    ASSUME NEW s, SendOK(s), NEW t, Keeps(s, t)
    PROVE  Grows(s, t)
<1>1. Headed(s) => Headed(t)
  BY SameWindowHeaded DEF Keeps
<1>2. t.cwp >= s.cwp
  BY WindowStartType DEF Keeps, SameWindow
<1> QED
  BY <1>1, <1>2 DEF Keeps, SameWindow, Grows

LEMMA RcvWindowType ==
    ASSUME NEW s, SocketType(s)
    PROVE  get_rcv_window(s) \in Nat
<1>1. s.unread \in Nat
  BY DEF SocketType
<1> QED
  BY <1>1, SendAssumption DEF get_rcv_window

\* The window after a packet was added.
LEMMA WindowGrows ==
    ASSUME NEW s, SendOK(s), s.cwp < SEQ_MOD,
           NEW t, t.seq_nr = Wrap(s.seq_nr + 1), t.cwp = s.cwp + 1
    PROVE  /\ s.seq_nr \notin Window(s)
           /\ Window(s) \subseteq Window(t) /\ s.seq_nr \in Window(t)
           /\ WindowStart(t) = WindowStart(s)
<1> DEFINE x == s.seq_nr
           n == s.cwp
<1>1. x \in Int /\ n \in Nat /\ x \in SeqNrs /\ Wrap(x) = x
  BY WindowStartType, WrapIdentity DEF SendOK, SocketType
<1> HIDE DEF x, n
<1>2. \A j \in Int : Wrap(Wrap(x + 1) - j) = Wrap(x - (j - 1))
  <2> TAKE j \in Int
  <2>1. x + 1 \in Int /\ -j \in Int /\ (x + 1) + (-j) = x - (j - 1)
    BY <1>1
  <2>2. Wrap(x + 1) \in Int
    BY <2>1, WrapType DEF SeqNrs
  <2>3. Wrap(Wrap(x + 1) + (-j)) = Wrap((x + 1) + (-j))
    BY <2>1, WrapAdd
  <2>4. Wrap(x + 1) + (-j) = Wrap(x + 1) - j
    BY <2>2
  <2> QED
    BY <2>1, <2>3, <2>4
<1>3. Window(s) = {Wrap(x - j) : j \in 1 .. n}
  BY DEF Window, x, n
<1>4. Window(t) = {Wrap(x - (j - 1)) : j \in 1 .. n + 1}
  BY <1>1, <1>2 DEF Window, x, n
<1>5. x \notin Window(s)
  <2> SUFFICES ASSUME NEW j \in 1 .. n, x = Wrap(x - j) PROVE FALSE
    BY <1>3
  <2>1. /\ x - j \in Int /\ x - (x - j) < SEQ_MOD /\ (x - j) - x < SEQ_MOD /\ x # x - j
        /\ Wrap(x) = Wrap(x - j)
    BY <1>1, SeqModAssumption DEF n
  <2> QED
    BY <1>1, <2>1, WrapInjective
<1>6. Window(s) \subseteq Window(t)
  <2> SUFFICES ASSUME NEW j \in 1 .. n PROVE Wrap(x - j) \in Window(t)
    BY <1>3
  <2>1. j + 1 \in 1 .. n + 1 /\ x - ((j + 1) - 1) = x - j
    BY <1>1
  <2> QED
    BY <1>4, <2>1
<1>7. x \in Window(t)
  <2>1. 1 \in 1 .. n + 1 /\ x - (1 - 1) = x
    BY <1>1
  <2> QED
    BY <1>1, <1>4, <2>1
<1>8. WindowStart(t) = WindowStart(s)
  <2>1. n + 1 \in Int /\ x - ((n + 1) - 1) = x - n
    BY <1>1
  <2>2. Wrap(Wrap(x + 1) - (n + 1)) = Wrap(x - n)
    BY <1>2, <2>1
  <2> QED
    BY <2>2 DEF WindowStart, x, n
<1> QED
  BY <1>5, <1>6, <1>7, <1>8 DEF x

LEMMA EnqueueGrows ==
    ASSUME NEW s, SendOK(s), s.cwp < OUT_MAX, s.fin_sent \/ s.cwp < OUT_MAX - 1,
           NEW type \in {"SYN", "DATA", "FIN"}, NEW data \in Seq(Nat)
    PROVE  LET t == Enqueue(s, type, data)
           IN  SendOK(t) /\ Grows(s, t) /\ t.cwp = s.cwp + 1
<1> DEFINE t == Enqueue(s, type, data)
           p == OutPacket(type, data, get_rcv_window(s))
           new == [s.outbuf EXCEPT ![s.seq_nr] = p]
<1>1. SocketType(s) /\ s.outbuf \in Outbufs /\ s.seq_nr \in SeqNrs
  BY DEF SendOK, SocketType
<1>2. p \in OutPackets /\ ~p.sent
  BY <1>1, RcvWindowType DEF OutPackets, OutPacket
<1>3. new \in Outbufs
  BY <1>1, <1>2 DEF Outbufs
<1>4. s.seq_nr \in Int /\ s.cwp \in Nat /\ Wrap(s.seq_nr + 1) \in SeqNrs
  BY WindowStartType, WrapType
<1>5. /\ SocketType(t) /\ SameRecv(s, t)
      /\ t.outbuf = new /\ t.seq_nr = Wrap(s.seq_nr + 1) /\ t.cwp = s.cwp + 1
      /\ t.cur_window = s.cur_window /\ t.fin_sent = s.fin_sent
      /\ t.retransmit_count = s.retransmit_count /\ t.wrote = s.wrote /\ t.st = s.st
  <2> DEFINE w == get_rcv_window(s)
             n == Wrap(s.seq_nr + 1)
  <2>1. t = [s EXCEPT !.outbuf = new, !.last_rcv_win = w, !.seq_nr = n, !.cwp = s.cwp + 1]
    BY DEF Enqueue
  <2>2. w \in Nat /\ n \in SeqNrs
    BY <1>1, <1>4, RcvWindowType
  <2> HIDE DEF t, new, w, n
  <2>3. /\ SocketType(t) /\ SameRecv(s, t)
        /\ t.outbuf = new /\ t.seq_nr = n /\ t.cwp = s.cwp + 1
        /\ t.cur_window = s.cur_window /\ t.fin_sent = s.fin_sent
        /\ t.retransmit_count = s.retransmit_count /\ t.wrote = s.wrote /\ t.st = s.st
    BY <1>1, <1>3, <1>4, <2>1, <2>2 DEF SocketType, Fields, SameRecv
  <2> QED
    BY <2>3 DEF n
<1> HIDE DEF t
<1>6. s.cwp < SEQ_MOD /\ s.cwp + 1 <= OUT_MAX /\ (s.fin_sent \/ s.cwp + 1 < OUT_MAX)
  BY <1>4, SendAssumption, SeqModAssumption
<1>7. /\ s.seq_nr \notin Window(s)
      /\ Window(s) \subseteq Window(t) /\ s.seq_nr \in Window(t)
      /\ WindowStart(t) = WindowStart(s)
  BY <1>5, <1>6, WindowGrows
<1>8. s.outbuf[s.seq_nr] = NULL
  BY <1>1, <1>7 DEF SendOK
<1>9. /\ \A r \in SeqNrs \ {s.seq_nr} : new[r] = s.outbuf[r]
      /\ new[s.seq_nr] = p
  BY <1>1 DEF Outbufs
<1>10. Load(new) = Load(s.outbuf)
  <2>1. Load(new) = Load(s.outbuf) - Weight(s.outbuf[s.seq_nr]) + Weight(new[s.seq_nr])
    BY <1>1, <1>3, <1>9, LoadOne
  <2>2. Weight(s.outbuf[s.seq_nr]) = 0 /\ Weight(new[s.seq_nr]) = 0
    BY <1>2, <1>8, <1>9 DEF Weight, InFlight
  <2>3. Load(s.outbuf) \in Nat
    BY <1>1, LoadType
  <2> QED
    BY <2>1, <2>2, <2>3
<1> HIDE DEF new, p
<1>11. SendOK(t)
  <2>1. \A q \in SeqNrs \ Window(t) : t.outbuf[q] = NULL
    BY <1>5, <1>7, <1>9 DEF SendOK
  <2> QED
    BY <1>5, <1>6, <1>10, <2>1 DEF SendOK
<1>12. ASSUME Headed(s) PROVE Headed(t)
  <2>1. p # NULL
    BY <1>2, SendAssumption
  <2>2. CASE s.cwp = 0
    <3>1. WindowStart(s) = s.seq_nr
      <4>1. s.seq_nr - s.cwp = s.seq_nr
        BY <1>4, <2>2
      <4> QED
        BY <1>1, <4>1, WrapIdentity DEF WindowStart
    <3> QED
      BY <1>5, <1>7, <1>9, <2>1, <3>1 DEF Headed
  <2>3. CASE s.cwp > 0
    <3>1. s.outbuf[WindowStart(s)] # NULL /\ WindowStart(s) \in SeqNrs
      BY <1>12, <2>3, WindowStartType DEF Headed
    <3>2. new[WindowStart(s)] = s.outbuf[WindowStart(s)]
      BY <1>8, <1>9, <3>1
    <3> QED
      BY <1>5, <1>7, <3>1, <3>2 DEF Headed
  <2> QED
    BY <1>4, <2>2, <2>3
<1>13. t.cwp >= s.cwp
  BY <1>4, <1>5
<1>14. Grows(s, t)
  BY <1>5, <1>12, <1>13 DEF Grows
<1> QED
  BY <1>5, <1>11, <1>14 DEF t

LEMMA AppendKeeps ==
    ASSUME NEW s, SendOK(s), s.outbuf[Wrap(s.seq_nr - 1)] # NULL,
           ~s.outbuf[Wrap(s.seq_nr - 1)].sent, NEW data \in Seq(Nat)
    PROVE  SendOK(AppendToLast(s, data)) /\ Keeps(s, AppendToLast(s, data))
<1> DEFINE t == AppendToLast(s, data)
           last == Wrap(s.seq_nr - 1)
           w == get_rcv_window(s)
           p == s.outbuf[last]
           c == p.data \o data
           new == [s.outbuf EXCEPT ![last] = [p EXCEPT !.data = c, !.wnd = w]]
<1>1. SocketType(s) /\ s.outbuf \in Outbufs /\ w \in Nat
  BY RcvWindowType DEF SendOK, SocketType
<1>2. last \in SeqNrs
  <2>1. s.seq_nr - 1 \in Int
    BY WindowStartType
  <2> QED
    BY <2>1, WrapType
<1>3. t = [s EXCEPT !.outbuf = new, !.last_rcv_win = w]
  BY DEF AppendToLast
<1> HIDE DEF w, last, t
<1>4. p \in OutPackets /\ p # NULL /\ ~p.sent
  BY <1>1, <1>2 DEF Outbufs, last
<1>5. c \in Seq(Nat)
  BY <1>4 DEF OutPackets
<1> HIDE DEF c
<1>6. /\ new[last] \in OutPackets /\ ~new[last].sent
      /\ \A r \in SeqNrs \ {last} : new[r] = s.outbuf[r]
  BY <1>1, <1>2, <1>4, <1>5 DEF Outbufs, OutPackets
<1>7. new \in Outbufs
  BY <1>1, <1>4, <1>5 DEF Outbufs, OutPackets
<1> HIDE DEF new, p
<1>8. /\ SocketType(t) /\ SameRecv(s, t)
      /\ t.outbuf = new /\ t.seq_nr = s.seq_nr /\ t.cwp = s.cwp
      /\ t.cur_window = s.cur_window /\ t.fin_sent = s.fin_sent
      /\ t.retransmit_count = s.retransmit_count /\ t.wrote = s.wrote /\ t.st = s.st
  BY <1>1, <1>3, <1>7 DEF SocketType, Fields, SameRecv
<1>9. \A x \in OutPackets : x # NULL
  BY SendAssumption
<1>10. \A r \in SeqNrs : new[r] = NULL <=> s.outbuf[r] = NULL
  BY <1>4, <1>6, <1>9 DEF p
<1>11. Load(new) = Load(s.outbuf)
  <2>1. Load(new) = Load(s.outbuf) - Weight(s.outbuf[last]) + Weight(new[last])
    BY <1>1, <1>2, <1>6, <1>7, LoadOne
  <2>2. Weight(s.outbuf[last]) = 0 /\ Weight(new[last]) = 0
    BY <1>4, <1>6 DEF Weight, InFlight, p
  <2>3. Load(s.outbuf) \in Nat
    BY <1>1, LoadType
  <2> QED
    BY <2>1, <2>2, <2>3
<1>12. Window(t) = Window(s)
  BY <1>8 DEF Window
<1>13. SendOK(t)
  BY <1>8, <1>10, <1>11, <1>12 DEF SendOK
<1>14. Keeps(s, t)
  BY <1>8, <1>10 DEF Keeps, SameWindow
<1> QED
  BY <1>13, <1>14 DEF t

\* A prefix of the data and what is left of it.
LEMMA Parts ==
    ASSUME NEW data \in Seq(Nat), NEW k \in 0 .. Len(data)
    PROVE  /\ SubSeq(data, 1, k) \in Seq(Nat) /\ SubSeq(data, k + 1, Len(data)) \in Seq(Nat)
           /\ Len(SubSeq(data, k + 1, Len(data))) = Len(data) - k
<1>1. Len(data) \in Nat
  BY LenProperties
<1>2. \A i \in 1 .. Len(data) : data[i] \in Nat
  BY ElementOfSeq
<1>3. SubSeq(data, 1, k) \in Seq(Nat)
  BY <1>1, <1>2, SubSeqProperties
<1> DEFINE m == k + 1
           n == Len(data)
<1>4. /\ m \in Int /\ n \in Int /\ \A i \in m .. n : data[i] \in Nat
      /\ (IF m <= n THEN n - m + 1 ELSE 0) = Len(data) - k
  BY <1>1, <1>2
<1> HIDE DEF m, n
<1>5. SubSeq(data, m, n) \in Seq(Nat) /\ Len(SubSeq(data, m, n)) = Len(data) - k
  BY <1>4, SubSeqProperties
<1> QED
  BY <1>3, <1>5 DEF m, n

LEMMA WriteOutgoingGrows ==
    ASSUME NEW s0, SendOK(s0), s0.cwp < OUT_MAX, s0.fin_sent \/ s0.cwp < OUT_MAX - 1,
           NEW type \in {"SYN", "DATA", "FIN"}, NEW data \in Seq(Nat)
    PROVE  SendOK(WriteOutgoing(s0, type, data)) /\ Grows(s0, WriteOutgoing(s0, type, data))
<1> DEFINE s     == [s0 EXCEPT !.rto_armed = @ \/ s0.cwp = 0]
           last  == s.outbuf[Wrap(s.seq_nr - 1)]
           room  == IF data # <<>> /\ CanAppend(s) THEN PACKET_SIZE - Len(last.data) ELSE 0
           added == Min({room, Len(data)})
           first == SubSeq(data, 1, added)
           rest  == SubSeq(data, added + 1, Len(data))
           s1    == IF added > 0 THEN AppendToLast(s, first) ELSE s
           s2    == IF rest = <<>> /\ added > 0 THEN s1 ELSE Enqueue(s1, type, rest)
           t     == FlushPackets(s2)
<1>1. /\ SocketType(s) /\ SameSend(s0, s) /\ SameRecv(s0, s)
      /\ s.wrote = s0.wrote /\ s.st = s0.st
  BY DEF SendOK, SocketType, Fields, SameSend, SameRecv
<1> HIDE DEF s
<1>2. SendOK(s) /\ Keeps(s0, s)
  BY <1>1, SameSendOK DEF Keeps
<1>3. room \in Nat /\ (room > 0 => CanAppend(s))
  <2>1. CASE CanAppend(s)
    <3>1. last \in OutPackets /\ Len(last.data) < PACKET_SIZE
      <4>1. Wrap(s.seq_nr - 1) \in SeqNrs /\ s.outbuf \in Outbufs
        <5>1. s.seq_nr - 1 \in Int
          BY <1>2, WindowStartType
        <5> QED
          BY <1>1, <5>1, WrapType DEF SocketType
      <4> QED
        BY <2>1, <4>1 DEF CanAppend, Unsent, Outbufs
    <3>2. Len(last.data) \in Nat
      BY <3>1, LenProperties DEF OutPackets
    <3> HIDE DEF last
    <3> QED
      BY <2>1, <3>1, <3>2, SendAssumption
  <2> QED
    BY <2>1
<1>4. Len(data) \in Nat
  BY LenProperties
<1>5. added \in 0 .. Len(data) /\ (added > 0 => room > 0)
  <2> HIDE DEF room
  <2> QED
    BY <1>3, <1>4, MinOfTwo
<1> HIDE DEF added, room
<1>6. first \in Seq(Nat) /\ rest \in Seq(Nat)
  BY <1>5, Parts
<1> HIDE DEF first, rest
<1>7. SendOK(s1) /\ Keeps(s, s1)
  <2>1. CASE added > 0
    <3>1. CanAppend(s)
      BY <1>3, <1>5, <2>1
    <3> QED
      BY <1>2, <1>6, <2>1, <3>1, AppendKeeps DEF CanAppend, Unsent
  <2>2. CASE ~(added > 0)
    BY <1>2, <2>2, KeepsReflexive
  <2> QED
    BY <2>1, <2>2
<1>8. SendOK(s1) /\ Keeps(s0, s1)
  BY <1>2, <1>7, KeepsTransitive
<1> HIDE DEF s1
<1>9. SendOK(s2) /\ Grows(s0, s2)
  <2>1. Grows(s0, s1)
    BY <1>8, KeepsGrows
  <2>2. SendOK(Enqueue(s1, type, rest)) /\ Grows(s1, Enqueue(s1, type, rest))
    <3>1. s1.cwp < OUT_MAX /\ (s1.fin_sent \/ s1.cwp < OUT_MAX - 1)
      BY <1>8 DEF Keeps, SameWindow
    <3> QED
      BY <1>6, <1>8, <3>1, EnqueueGrows
  <2>3. Grows(s0, Enqueue(s1, type, rest))
    BY <1>8, <2>1, <2>2, GrowsTransitive DEF SendOK
  <2> QED
    BY <1>8, <2>1, <2>2, <2>3
<1> HIDE DEF s2
<1>10. SendOK(t) /\ Grows(s2, t)
  BY <1>9, FlushKeeps, KeepsGrows
<1> HIDE DEF t
<1>11. Grows(s0, t)
  BY <1>9, <1>10, GrowsTransitive DEF SendOK
<1>12. t = WriteOutgoing(s0, type, data)
  BY DEF WriteOutgoing, t, s2, s1, first, rest, added, room, s
<1> QED
  BY <1>10, <1>11, <1>12

\* send_fin: the FIN may take the last slot.
LEMMA SendFinGrows ==
    ASSUME NEW s, SendOK(s), ~s.fin_sent
    PROVE  LET t == SendFin(s)
           IN  /\ SendOK(t) /\ SameRecv(s, t) /\ t.st = s.st /\ t.wrote = s.wrote
               /\ (Headed(s) => Headed(t))
<1> DEFINE u == [s EXCEPT !.fin_sent = TRUE]
           t == WriteOutgoing(u, "FIN", <<>>)
<1>1. /\ SocketType(u) /\ SameRecv(s, u) /\ u.wrote = s.wrote /\ u.st = s.st
      /\ u.outbuf = s.outbuf /\ u.cur_window = s.cur_window /\ u.seq_nr = s.seq_nr
      /\ u.cwp = s.cwp /\ u.fin_sent /\ u.retransmit_count = s.retransmit_count
  BY DEF SendOK, SocketType, Fields, SameRecv
<1> HIDE DEF u
<1>2. SendOK(u) /\ (Headed(s) => Headed(u))
  <2>1. Window(u) = Window(s) /\ WindowStart(u) = WindowStart(s)
    BY <1>1 DEF Window, WindowStart
  <2> QED
    BY <1>1, <2>1 DEF SendOK, Headed
<1>3. u.cwp < OUT_MAX
  BY <1>1 DEF SendOK
<1>4. <<>> \in Seq(Nat)
  OBVIOUS
<1> DEFINE none == <<>>
<1> HIDE DEF none
<1>5. SendOK(WriteOutgoing(u, "FIN", none)) /\ Grows(u, WriteOutgoing(u, "FIN", none))
  BY <1>1, <1>2, <1>3, <1>4, WriteOutgoingGrows DEF none
<1>6. SendOK(t) /\ Grows(u, t)
  BY <1>5 DEF none
<1> HIDE DEF t
<1>7. SameRecv(s, t) /\ t.st = s.st /\ t.wrote = s.wrote
  BY <1>1, <1>6 DEF Grows, SameRecv
<1>8. t = SendFin(s)
  BY DEF SendFin, t, u
<1> QED
  BY <1>2, <1>6, <1>7, <1>8 DEF Grows

-----------------------------------------------------------------------------
(* Writing *)

Chunks == INSTANCE FoldLaws WITH Op <- WriteChunk

\* The state of the loop of writev that was entered with socket r and k positions.
WriteState(r, k, w) ==
  /\ DOMAIN w = {"s", "data", "blocked"} /\ w.blocked \in BOOLEAN
  /\ w.data \in Seq(Nat) /\ Len(w.data) <= k
  /\ SendOK(w.s) /\ Grows(r, w.s)

LEMMA WriteChunkGrows ==
    ASSUME NEW r, SendOK(r), NEW k \in Nat, NEW w, WriteState(r, k, w), NEW i
    PROVE  WriteState(r, k, WriteChunk(w, i))
<1> DEFINE n == Min({Len(w.data), PACKET_SIZE})
           first == SubSeq(w.data, 1, n)
           rest  == SubSeq(w.data, n + 1, Len(w.data))
           t == WriteOutgoing(w.s, "DATA", first)
<1>1. SendOK(w.s) /\ Grows(r, w.s) /\ w.data \in Seq(Nat) /\ Len(w.data) \in Nat
  BY LenProperties DEF WriteState
<1>2. n \in 0 .. Len(w.data)
  <2> DEFINE l == Len(w.data)
             m == PACKET_SIZE
  <2>1. l \in Nat /\ m \in Nat
    BY <1>1, SendAssumption
  <2> HIDE DEF l, m
  <2>2. Min({l, m}) \in 0 .. l
    BY <2>1, MinOfTwo
  <2> QED
    BY <2>2 DEF l, m
<1> HIDE DEF n
<1>3. first \in Seq(Nat) /\ rest \in Seq(Nat) /\ Len(rest) = Len(w.data) - n
  BY <1>1, <1>2, Parts
<1> HIDE DEF first, rest
<1>4. CASE ~w.blocked /\ ~IsFull(w.s, n)
  <2>1. w.s.cwp < OUT_MAX - 1 /\ w.s.cwp < OUT_MAX
    <3>1. w.s.cwp \in Nat
      BY <1>1, WindowStartType
    <3> QED
      BY <1>4, <3>1, SendAssumption DEF IsFull
  <2>2. SendOK(t) /\ Grows(w.s, t)
    BY <1>1, <1>3, <2>1, WriteOutgoingGrows
  <2>3. Grows(r, t)
    BY <1>1, <2>2, GrowsTransitive DEF SendOK
  <2>4. WriteChunk(w, i) = [w EXCEPT !.s = t, !.data = rest]
    BY <1>4 DEF WriteChunk, n, first, rest
  <2>5. Len(rest) <= k
    BY <1>1, <1>2, <1>3 DEF WriteState
  <2> HIDE DEF t
  <2> QED
    BY <1>3, <2>2, <2>3, <2>4, <2>5 DEF WriteState
<1>5. CASE ~w.blocked /\ IsFull(w.s, n)
  <2>1. WriteChunk(w, i) = [w EXCEPT !.blocked = TRUE]
    BY <1>5 DEF WriteChunk, n
  <2> QED
    BY <2>1 DEF WriteState
<1>6. CASE w.blocked
  BY <1>6 DEF WriteChunk
<1> QED
  BY <1>4, <1>5, <1>6 DEF WriteState

\* What a write may change: the window grows at its end, and the socket may
\* be told that it is full.
Writes(s, t) ==
  /\ SendOK(t) /\ SameRecv(s, t) /\ t.fin_sent = s.fin_sent /\ t.cwp >= s.cwp
  /\ t.st \in {s.st, "CONNECTED_FULL"} /\ (Headed(s) => Headed(t))

LEMMA WriteVGrows ==
    ASSUME NEW s, SendOK(s), NEW data \in Seq(Nat)
    PROVE  LET w == WriteV(s, data)
           IN  /\ Writes(s, w.s) /\ w.s.wrote = s.wrote
               /\ w.data \in Seq(Nat) /\ Len(w.data) <= Len(data)
<1> DEFINE n == Max({1, (Len(data) + PACKET_SIZE - 1) \div PACKET_SIZE})
           base == [s |-> s, data |-> data, blocked |-> FALSE]
           loop == [i \in 1 .. n |-> i]
           end == FoldLeft(WriteChunk, base, loop)
           k == Len(data)
<1>1. k \in Nat
  BY LenProperties
<1>2. n \in Nat
  <2>1. (Len(data) + PACKET_SIZE - 1) \div PACKET_SIZE \in Int
    BY <1>1, SendAssumption
  <2> QED
    BY <2>1, MaxOfTwo
<1> HIDE DEF n, k
<1>3. DOMAIN loop = 1 .. n
  OBVIOUS
<1>4. WriteState(s, k, base)
  <2>1. k <= k /\ s.cwp >= s.cwp
    BY <1>1, WindowStartType
  <2> QED
    BY <2>1 DEF WriteState, Grows, SameRecv, k
<1> HIDE DEF base, loop
<1>5. PICK c : Chunks!Chain(c, n, base, loop) /\ end = c[n]
  <2>1. \E c : Chunks!Chain(c, n, base, loop) /\ Chunks!FoldLeft(WriteChunk, base, loop) = c[n]
    BY <1>2, <1>3, Chunks!FoldLeftChain
  <2>2. Chunks!FoldLeft(WriteChunk, base, loop) = end
    BY DEF FoldLeft, Chunks!FoldLeft, MapThenFoldSet, Chunks!MapThenFoldSet, Max, Chunks!Max
  <2> HIDE DEF end
  <2> QED
    BY <2>1, <2>2
<1> HIDE DEF end
<1> DEFINE Z == {i \in 0 .. n : WriteState(s, k, c[i])}
<1>6. 0 \in Z
  BY <1>2, <1>4, <1>5 DEF Chunks!Chain
<1>7. \A i \in 1 .. n : i - 1 \in Z => i \in Z
  <2> SUFFICES ASSUME NEW i \in 1 .. n, WriteState(s, k, c[i - 1])
               PROVE  i \in Z
    BY <1>2
  <2>1. c[i] = WriteChunk(c[i - 1], loop[i])
    BY <1>5 DEF Chunks!Chain
  <2>2. WriteState(s, k, WriteChunk(c[i - 1], loop[i]))
    BY <1>1, WriteChunkGrows
  <2> QED
    BY <1>2, <2>1, <2>2
<1> HIDE DEF Z
<1>8. WriteState(s, k, end)
  <2>1. \A i \in 0 .. n : i \in Z
    BY <1>2, <1>6, <1>7, Chunks!Rounds
  <2>2. n \in Z
    BY <1>2, <2>1
  <2> QED
    BY <1>5, <2>2 DEF Z
<1>9. WriteV(s, data) = IF end.blocked /\ IsFull(end.s, PACKET_SIZE)
                        THEN [end EXCEPT !.s.st = "CONNECTED_FULL"] ELSE end
  BY DEF WriteV, end, base, loop, n
<1>10. Writes(s, end.s)
  BY <1>8 DEF WriteState, Writes, Grows
<1> DEFINE u == [end.s EXCEPT !.st = "CONNECTED_FULL"]
<1>11. Writes(s, u) /\ u.wrote = end.s.wrote
  <2> DEFINE e == end.s
  <2>1. SendOK(e) /\ SocketType(e)
    BY <1>8 DEF WriteState, SendOK
  <2> HIDE DEF e
  <2>2. /\ SocketType([e EXCEPT !.st = "CONNECTED_FULL"])
        /\ SameSend(e, [e EXCEPT !.st = "CONNECTED_FULL"])
        /\ SameRecv(e, [e EXCEPT !.st = "CONNECTED_FULL"])
        /\ [e EXCEPT !.st = "CONNECTED_FULL"].st = "CONNECTED_FULL"
        /\ [e EXCEPT !.st = "CONNECTED_FULL"].wrote = e.wrote
    BY <2>1 DEF SocketType, Fields, States, SameSend, SameRecv
  <2>3. /\ SocketType(u) /\ SameSend(e, u) /\ SameRecv(e, u) /\ u.st = "CONNECTED_FULL"
        /\ u.wrote = e.wrote
    BY <2>2 DEF e
  <2> HIDE DEF u
  <2>4. SendOK(u) /\ SameWindow(e, u)
    BY <2>1, <2>3, SameSendOK
  <2>5. Headed(e) => Headed(u)
    BY <2>1, <2>4, SameWindowHeaded
  <2>6. Writes(s, e)
    BY <1>10 DEF e
  <2>7. Writes(s, u)
    BY <2>3, <2>4, <2>5, <2>6 DEF Writes, SameRecv, SameSend
  <2> QED
    BY <2>3, <2>7 DEF e
<1>12. \/ WriteV(s, data) = end
       \/ WriteV(s, data).s = u /\ WriteV(s, data).data = end.data
  BY <1>8, <1>9 DEF WriteState
<1>13. end.s.wrote = s.wrote /\ end.data \in Seq(Nat) /\ Len(end.data) <= Len(data)
  BY <1>8 DEF WriteState, Grows, k
<1> HIDE DEF u
<1> QED
  BY <1>10, <1>11, <1>12, <1>13

\* utp_write: wrote counts what was accepted.
LEMMA WriteSends ==
    ASSUME NEW s, SendOK(s), NEW n \in Nat
    PROVE  Writes(s, Write(s, n)) /\ s.wrote <= Write(s, n).wrote
<1> DEFINE data == [i \in 1 .. n |-> s.wrote + i]
           w == WriteV(s, data)
           e == w.s
           m == s.wrote + n - Len(w.data)
           u == [e EXCEPT !.wrote = m]
<1>1. s.wrote \in Nat /\ s.cwp \in Nat
  BY DEF SendOK, SocketType
<1>2. data \in Seq(Nat) /\ Len(data) = n
  <2>1. \A i \in 1 .. n : s.wrote + i \in Nat
    BY <1>1
  <2> QED
    BY <2>1
<1> HIDE DEF data
<1>3. /\ Writes(s, e) /\ e.wrote = s.wrote
      /\ w.data \in Seq(Nat) /\ Len(w.data) <= Len(data)
  BY <1>2, WriteVGrows
<1>4. Len(w.data) \in Nat
  BY <1>3, LenProperties
<1>5. m \in Nat /\ s.wrote <= m
  <2> HIDE DEF w
  <2> QED
    BY <1>1, <1>2, <1>3, <1>4
<1>6. Write(s, n) = IF s.st # "CONNECTED" \/ s.fin_sent THEN s ELSE [w.s EXCEPT !.wrote = @ + n - Len(w.data)]
  BY DEF Write, w, data
<1>7. Write(s, n) = IF s.st # "CONNECTED" \/ s.fin_sent THEN s ELSE u
  BY <1>3, <1>6
<1> HIDE DEF m, e
<1>8. SendOK(e) /\ SocketType(e)
  BY <1>3 DEF Writes, SendOK
<1>9. /\ SocketType(u) /\ SameSend(e, u) /\ SameRecv(e, u) /\ u.st = e.st
      /\ s.wrote <= u.wrote
  BY <1>5, <1>8 DEF SocketType, Fields, SameSend, SameRecv
<1> HIDE DEF u
<1>10. SendOK(u) /\ SameWindow(e, u)
  BY <1>8, <1>9, SameSendOK
<1>11. Headed(e) => Headed(u)
  BY <1>8, <1>10, SameWindowHeaded
<1>12. Writes(s, u)
  BY <1>3, <1>9, <1>10, <1>11 DEF Writes, SameRecv, SameSend
<1>13. Writes(s, s) /\ s.wrote <= s.wrote
  BY <1>1 DEF Writes, SameRecv
<1> QED
  BY <1>7, <1>9, <1>12, <1>13

-----------------------------------------------------------------------------
(* Acknowledging *)

LEMMA AckPacketsSends ==
    ASSUME NEW s, SendOK(s), NEW Q \in SUBSET SeqNrs
    PROVE  LET t == AckPackets(s, Q)
           IN  /\ SendOK(t) /\ SameRecv(s, t) /\ t.wrote = s.wrote /\ t.st = s.st
               /\ t.seq_nr = s.seq_nr /\ t.cwp = s.cwp /\ t.fin_sent = s.fin_sent
               /\ \A q \in SeqNrs : t.outbuf[q] =
                    IF q \in Q /\ s.outbuf[q] # NULL /\ s.outbuf[q].sent
                    THEN NULL ELSE s.outbuf[q]
<1> DEFINE t == AckPackets(s, Q)
           A == {q \in Q : s.outbuf[q] # NULL /\ s.outbuf[q].sent}
           F == {q \in A : InFlight(s.outbuf[q])}
           new == [q \in SeqNrs |-> IF q \in A THEN NULL ELSE s.outbuf[q]]
           n == Bytes(s, F)
<1>1. SocketType(s) /\ s.outbuf \in Outbufs
  BY DEF SendOK, SocketType
<1>2. new \in Outbufs
  BY <1>1 DEF Outbufs
<1>3. A \in SUBSET SeqNrs /\ F \in SUBSET SeqNrs /\ \A q \in F : InFlight(s.outbuf[q])
  OBVIOUS
<1>4. \A q \in SeqNrs : new[q] = IF q \in A THEN NULL ELSE s.outbuf[q]
  OBVIOUS
<1>5. t = [s EXCEPT !.outbuf = new, !.cur_window = @ - n,
                    !.retransmit_count = IF A = {} THEN @ ELSE 0,
                    !.rto_armed = @ \/ A # {}]
  BY DEF AckPackets
<1>6. n = Total(Weights(s.outbuf), F) /\ n \in Nat
  <2> HIDE DEF F
  <2> QED
    BY <1>1, <1>3, BytesTotal, LoadType
<1> HIDE DEF n, F
<1>7. Load(new) = Load(s.outbuf) - n
  <2> DEFINE w == Weights(s.outbuf)
             D == A \ F
  <2>1. Load(new) = Load(s.outbuf) - Total(w, A)
    <3>1. \A r \in SeqNrs \ A : new[r] = s.outbuf[r]
      OBVIOUS
    <3>2. \A r \in A : ~InFlight(new[r])
      BY <1>3 DEF InFlight
    <3> HIDE DEF new, A
    <3> QED
      BY <1>1, <1>2, <1>3, <3>1, <3>2, LoadRemove
  <2>2. F \in SUBSET A
    BY DEF F
  <2>3. \A q \in D : w[q] = 0
    <3> TAKE q \in D
    <3>1. w[q] = Weight(s.outbuf[q]) /\ ~InFlight(s.outbuf[q])
      BY <1>1, WeightType DEF F
    <3> QED
      BY <3>1 DEF Weight
  <2>4. IsFiniteSet(A) /\ IsFiniteSet(D) /\ \A q \in A : w[q] \in Nat
    BY <1>1, <1>3, SeqNrsFinite, WeightType
  <2> HIDE DEF w
  <2>5. Total(w, A) = Total(w, F) + Total(w, A \ F)
    <3> HIDE DEF A
    <3> QED
      BY <2>2, <2>4, TotalSplit
  <2>6. Total(w, D) = 0
    <3> HIDE DEF D
    <3> QED
      BY <2>3, <2>4, TotalZero
  <2>7. Total(w, A) = n
    <3> HIDE DEF A
    <3> QED
      BY <1>6, <2>5, <2>6 DEF w
  <2> HIDE DEF A, new
  <2> QED
    BY <2>1, <2>7
<1> DEFINE k == IF A = {} THEN s.retransmit_count ELSE 0
           b == s.rto_armed \/ A # {}
           m == s.cur_window - n
<1>8. k \in Nat /\ k <= RETRANSMIT_LIMIT /\ b \in BOOLEAN /\ m \in Int
  BY <1>1, <1>6, SocketAssumption DEF SendOK, SocketType
<1>9. t = [s EXCEPT !.outbuf = new, !.cur_window = m, !.retransmit_count = k, !.rto_armed = b]
  BY <1>5
<1> HIDE DEF t, new, k, b, m
<1>10. /\ SocketType(t) /\ SameRecv(s, t) /\ t.wrote = s.wrote /\ t.st = s.st
       /\ t.seq_nr = s.seq_nr /\ t.cwp = s.cwp /\ t.fin_sent = s.fin_sent
       /\ t.outbuf = new /\ t.cur_window = m /\ t.retransmit_count = k
  BY <1>1, <1>2, <1>8, <1>9 DEF SocketType, Fields, SameRecv
<1>11. m = Load(new)
  BY <1>7 DEF SendOK, m
<1>12. Window(t) = Window(s)
  BY <1>10 DEF Window
<1>13. \A q \in SeqNrs \ Window(t) : t.outbuf[q] = NULL
  BY <1>4, <1>10, <1>12 DEF SendOK
<1>14. SendOK(t)
  BY <1>8, <1>10, <1>11, <1>13 DEF SendOK
<1> QED
  BY <1>4, <1>10, <1>14 DEF t

\* The cumulative ACK: what leaves the window is gone from outbuf.
LEMMA AckCumulativeSends ==
    ASSUME NEW s, SendOK(s), NEW acks \in 0 .. s.cwp
    PROVE  LET t == AckCumulative(s, acks)
           IN  /\ SendOK(t) /\ SameRecv(s, t) /\ t.wrote = s.wrote /\ t.st = s.st
               /\ t.seq_nr = s.seq_nr /\ t.fin_sent = s.fin_sent
<1> DEFINE At(i) == Wrap(WindowStart(s) + i)
           K == {k \in 0 .. acks : \A i \in 0 .. k - 1 : ~Unsent(s.outbuf[At(i)])}
           n == Max(K)
           Q == {At(i) : i \in 0 .. n - 1}
           a == AckPackets(s, Q)
           t == [a EXCEPT !.cwp = @ - n]
           x == s.seq_nr
           c == s.cwp
<1>1. x \in Int /\ c \in Nat /\ acks \in Nat /\ WindowStart(s) \in SeqNrs
  BY WindowStartType
<1>2. \A i \in Int : At(i) \in SeqNrs /\ At(i) = Wrap(x - (c - i))
  <2> TAKE i \in Int
  <2>1. x - c \in Int /\ (x - c) + i = x - (c - i) /\ x - (c - i) \in Int
    BY <1>1
  <2> HIDE DEF x, c
  <2>2. Wrap(Wrap(x - c) + i) = Wrap((x - c) + i)
    BY <2>1, WrapAdd
  <2>3. At(i) = Wrap(x - (c - i))
    BY <2>1, <2>2 DEF WindowStart, x, c
  <2> QED
    BY <2>1, <2>3, WrapType
<1>3. n \in 0 .. acks /\ \A i \in 0 .. n - 1 : ~Unsent(s.outbuf[At(i)])
  <2>1. 0 \in K /\ K \in SUBSET (0 .. acks)
    BY <1>1
  <2>2. n \in K
    <3> HIDE DEF K
    <3> QED
      BY <1>1, <2>1, MaxInBounds
  <2> QED
    BY <2>2
<1> HIDE DEF n
<1>4. Q \in SUBSET SeqNrs
  BY <1>2, <1>3
<1>5. /\ SendOK(a) /\ SameRecv(s, a) /\ a.wrote = s.wrote /\ a.st = s.st
      /\ a.seq_nr = x /\ a.cwp = c /\ a.fin_sent = s.fin_sent
      /\ \A q \in SeqNrs : a.outbuf[q] =
            IF q \in Q /\ s.outbuf[q] # NULL /\ s.outbuf[q].sent
            THEN NULL ELSE s.outbuf[q]
  <2> HIDE DEF Q
  <2> QED
    BY <1>4, AckPacketsSends
<1> HIDE DEF a
<1>6. c - n \in Nat /\ c - n <= c
  BY <1>1, <1>3
<1>7. SocketType(a)
  BY <1>5 DEF SendOK
<1>8. /\ SocketType(t) /\ SameRecv(a, t) /\ t.wrote = a.wrote /\ t.st = a.st
      /\ t.outbuf = a.outbuf /\ t.cur_window = a.cur_window /\ t.seq_nr = x
      /\ t.cwp = c - n /\ t.fin_sent = a.fin_sent /\ t.retransmit_count = a.retransmit_count
  <2> DEFINE m == c - n
  <2>1. t = [a EXCEPT !.cwp = m]
    BY <1>5
  <2> HIDE DEF m, t, x, c
  <2>2. /\ SocketType(t) /\ SameRecv(a, t) /\ t.wrote = a.wrote /\ t.st = a.st
        /\ t.outbuf = a.outbuf /\ t.cur_window = a.cur_window /\ t.seq_nr = a.seq_nr
        /\ t.cwp = m /\ t.fin_sent = a.fin_sent /\ t.retransmit_count = a.retransmit_count
    BY <1>6, <1>7, <2>1 DEF SocketType, Fields, SameRecv, m
  <2> QED
    BY <1>5, <2>2 DEF m
<1>9. \A q \in SeqNrs \ Window(t) : t.outbuf[q] = NULL
  <2> SUFFICES ASSUME NEW q \in SeqNrs \ Window(t) PROVE a.outbuf[q] = NULL
    BY <1>8
  <2>1. CASE q \notin Window(s)
    BY <1>5, <2>1 DEF SendOK
  <2>2. CASE q \in Window(s)
    <3>1. PICK j \in 1 .. c : q = Wrap(x - j)
      BY <2>2 DEF Window
    <3>2. j \notin 1 .. c - n
      BY <1>8, <3>1 DEF Window
    <3> DEFINE i == c - j
    <3>3. i \in 0 .. n - 1 /\ c - i = j
      BY <1>1, <1>3, <3>1, <3>2
    <3> HIDE DEF i
    <3>4. q = At(i)
      BY <1>2, <3>1, <3>3
    <3>5. q \in Q /\ ~Unsent(s.outbuf[q])
      BY <1>3, <3>3, <3>4
    <3> QED
      BY <1>5, <3>5 DEF Unsent
  <2> QED
    BY <2>1, <2>2
<1>10. SendOK(t)
  <2>1. c - n <= OUT_MAX /\ (t.fin_sent \/ c - n < OUT_MAX)
    <3>1. c <= OUT_MAX /\ (a.fin_sent \/ c < OUT_MAX)
      BY <1>5 DEF SendOK
    <3> HIDE DEF c, t
    <3> QED
      BY <1>1, <1>6, <1>8, <3>1, SendAssumption
  <2> HIDE DEF t
  <2> QED
    BY <1>5, <1>8, <1>9, <2>1 DEF SendOK
<1>11. t = AckCumulative(s, acks)
  BY DEF AckCumulative, a, n
<1> HIDE DEF t
<1>12. SameRecv(s, t) /\ t.wrote = s.wrote /\ t.st = s.st /\ t.seq_nr = s.seq_nr
       /\ t.fin_sent = s.fin_sent
  BY <1>5, <1>8 DEF SameRecv
<1> QED
  BY <1>10, <1>11, <1>12

\* The second loop of an ACK: the window starts with a packet again.
LEMMA SkipAckedSends ==
    ASSUME NEW s, SendOK(s)
    PROVE  LET t == SkipAcked(s)
           IN  /\ SendOK(t) /\ Headed(t) /\ SameRecv(s, t) /\ t.wrote = s.wrote
               /\ t.st = s.st /\ t.fin_sent = s.fin_sent
<1> DEFINE x == s.seq_nr
           c == s.cwp
           J == {j \in 1 .. c : s.outbuf[Wrap(x - j)] # NULL}
           K == {0} \cup J
           m == Max(K)
           t == [s EXCEPT !.cwp = m]
<1>1. x \in Int /\ c \in Nat /\ SocketType(s)
  BY WindowStartType DEF SendOK
<1>2. m \in K /\ m \in 0 .. c /\ \A y \in K : y <= m
  <2>1. K \in SUBSET (0 .. c) /\ K # {}
    BY <1>1
  <2> HIDE DEF K
  <2>2. m \in K /\ \A y \in K : y <= m
    BY <1>1, <2>1, MaxInBounds
  <2> QED
    BY <2>1, <2>2
<1> HIDE DEF m
<1>3. /\ SocketType(t) /\ SameRecv(s, t) /\ t.wrote = s.wrote /\ t.st = s.st
      /\ t.outbuf = s.outbuf /\ t.cur_window = s.cur_window /\ t.seq_nr = x
      /\ t.cwp = m /\ t.fin_sent = s.fin_sent /\ t.retransmit_count = s.retransmit_count
  <2>1. m \in Nat
    BY <1>2
  <2> QED
    BY <1>1, <2>1 DEF SocketType, Fields, SameRecv
<1>4. \A q \in SeqNrs \ Window(t) : t.outbuf[q] = NULL
  <2> SUFFICES ASSUME NEW q \in SeqNrs \ Window(t) PROVE s.outbuf[q] = NULL
    BY <1>3
  <2>1. CASE q \notin Window(s)
    BY <2>1 DEF SendOK
  <2>2. CASE q \in Window(s)
    <3>1. PICK j \in 1 .. c : q = Wrap(x - j)
      BY <2>2 DEF Window
    <3>2. j \notin 1 .. m
      BY <1>3, <3>1 DEF Window
    <3>3. ~(j <= m)
      BY <1>2, <3>1, <3>2
    <3>4. j \notin K
      BY <1>2, <3>3
    <3> QED
      BY <3>1, <3>4
  <2> QED
    BY <2>1, <2>2
<1>5. SendOK(t)
  <2>1. m <= OUT_MAX /\ (t.fin_sent \/ m < OUT_MAX)
    BY <1>1, <1>2, <1>3, SendAssumption DEF SendOK
  <2> HIDE DEF t
  <2> QED
    BY <1>3, <1>4, <2>1 DEF SendOK
<1>6. Headed(t)
  <2> SUFFICES ASSUME m > 0 PROVE s.outbuf[Wrap(x - m)] # NULL
    BY <1>3 DEF Headed, WindowStart
  <2>1. m \in J
    BY <1>2
  <2> QED
    BY <2>1
<1>7. t = SkipAcked(s)
  BY DEF SkipAcked, m
<1> HIDE DEF t
<1> QED
  BY <1>3, <1>5, <1>6, <1>7

\* Fields that the window does not depend on.
LEMMA AsideKeeps ==
    ASSUME NEW s, SendOK(s), NEW t, SocketType(t), SameSend(s, t), SameRecv(s, t),
           t.wrote = s.wrote, t.st = s.st
    PROVE  SendOK(t) /\ Keeps(s, t)
  BY SameSendOK DEF Keeps

\* A lone packet that waited for more data goes out.
LEMMA SendLoneLastKeeps ==
    ASSUME NEW s, SendOK(s)
    PROVE  SendOK(SendLoneLast(s)) /\ Keeps(s, SendLoneLast(s))
<1> DEFINE q == Wrap(s.seq_nr - 1)
<1>1. q \in SeqNrs
  <2>1. s.seq_nr - 1 \in Int
    BY WindowStartType
  <2> QED
    BY <2>1, WrapType
<1>2. CASE s.cwp = 1 /\ Unsent(s.outbuf[q])
  <2>1. SendLoneLast(s) = Transmit(s, q)
    BY <1>2 DEF SendLoneLast
  <2> HIDE DEF q
  <2>2. SendOK(Transmit(s, q)) /\ Keeps(s, Transmit(s, q))
    BY <1>1, <1>2, TransmitSends DEF Unsent
  <2> QED
    BY <2>1, <2>2
<1>3. CASE ~(s.cwp = 1 /\ Unsent(s.outbuf[q]))
  BY <1>3, KeepsReflexive DEF SendLoneLast
<1> QED
  BY <1>2, <1>3

\* The retransmission that an ACK triggers after a timeout.
LEMMA FastTimeoutKeeps ==
    ASSUME NEW s, SendOK(s)
    PROVE  SendOK(FastTimeout(s)) /\ Keeps(s, FastTimeout(s))
<1> DEFINE head == WindowStart(s)
           n == Wrap(s.fast_resend_seq_nr + 1)
           u == [s EXCEPT !.fast_timeout = FALSE]
           v == [s EXCEPT !.fast_resend_seq_nr = n]
<1>1. SocketType(s) /\ head \in SeqNrs
  BY WindowStartType DEF SendOK
<1>2. n \in SeqNrs
  <2>1. s.fast_resend_seq_nr + 1 \in Int
    BY <1>1 DEF SocketType, SeqNrs
  <2> QED
    BY <2>1, WrapType
<1>3. FastTimeout(s) \in {s, u, Transmit(v, head)}
      /\ (FastTimeout(s) = Transmit(v, head) => s.outbuf[head] # NULL \/ FastTimeout(s) \in {s, u})
  BY DEF FastTimeout
<1> HIDE DEF n, head
<1>4. SendOK(u) /\ Keeps(s, u)
  <2>1. /\ SocketType(u) /\ SameSend(s, u) /\ SameRecv(s, u)
        /\ u.wrote = s.wrote /\ u.st = s.st
    BY <1>1 DEF SocketType, Fields, SameSend, SameRecv
  <2> HIDE DEF u
  <2> QED
    BY <2>1, AsideKeeps
<1>5. SendOK(v) /\ Keeps(s, v) /\ v.outbuf = s.outbuf
  <2>1. /\ SocketType(v) /\ SameSend(s, v) /\ SameRecv(s, v)
        /\ v.wrote = s.wrote /\ v.st = s.st
    BY <1>1, <1>2 DEF SocketType, Fields, SameSend, SameRecv
  <2> HIDE DEF v
  <2> QED
    BY <2>1, AsideKeeps DEF SameSend
<1> HIDE DEF u, v
<1>6. ASSUME s.outbuf[head] # NULL
      PROVE  SendOK(Transmit(v, head)) /\ Keeps(s, Transmit(v, head))
  <2>1. SendOK(Transmit(v, head)) /\ Keeps(v, Transmit(v, head))
    BY <1>1, <1>5, <1>6, TransmitSends
  <2> QED
    BY <1>5, <2>1, KeepsTransitive
<1> QED
  BY <1>3, <1>4, <1>5, <1>6, KeepsReflexive

-----------------------------------------------------------------------------
(* Timeouts *)

\* Marking everything in flight as lost empties the flight, not the window.
LEMMA MarkLostKeeps ==
    ASSUME NEW s, SendOK(s)
    PROVE  LET t == MarkLost(s)
           IN  SendOK(t) /\ Keeps(s, t) /\ t.retransmit_count = s.retransmit_count
<1> DEFINE t == MarkLost(s)
           lost == {q \in Window(s) : InFlight(s.outbuf[q])}
           new == [q \in SeqNrs |-> IF q \in lost
                                    THEN [s.outbuf[q] EXCEPT !.need_resend = TRUE]
                                    ELSE s.outbuf[q]]
           n == Bytes(s, lost)
           m == s.cur_window - n
           head == WindowStart(s)
<1>1. SocketType(s) /\ s.outbuf \in Outbufs /\ Window(s) \in SUBSET SeqNrs /\ head \in SeqNrs
  BY WindowStartType DEF SendOK, SocketType
<1>2. lost \in SUBSET SeqNrs /\ \A q \in lost : InFlight(s.outbuf[q])
  BY <1>1
<1>3. \A q \in lost : s.outbuf[q] \in OutPackets
  BY <1>1, <1>2 DEF Outbufs, InFlight
<1>4. \A q \in lost : new[q] \in OutPackets /\ new[q].need_resend
  BY <1>2, <1>3 DEF OutPackets
<1>5. \A q \in SeqNrs \ lost : new[q] = s.outbuf[q]
  OBVIOUS
<1>6. t = [s EXCEPT !.outbuf = new, !.cur_window = m, !.flush_scan_start = head]
  BY DEF MarkLost
<1>7. new \in Outbufs
  <2>1. \A q \in SeqNrs : new[q] \in OutPackets \cup {NULL}
    BY <1>1, <1>4, <1>5 DEF Outbufs
  <2>2. new = [q \in SeqNrs |-> new[q]]
    OBVIOUS
  <2> HIDE DEF new
  <2> QED
    BY <2>1, <2>2 DEF Outbufs
<1> HIDE DEF new, lost
<1>8. n = Total(Weights(s.outbuf), lost) /\ n \in Nat
  BY <1>1, <1>2, BytesTotal, LoadType
<1>9. Load(new) = m
  <2>1. \A q \in lost : ~InFlight(new[q])
    BY <1>4 DEF InFlight
  <2>2. Load(new) = Load(s.outbuf) - Total(Weights(s.outbuf), lost)
    BY <1>1, <1>2, <1>5, <1>7, <2>1, LoadRemove
  <2> HIDE DEF n
  <2> QED
    BY <1>8, <2>2 DEF SendOK
<1>10. m \in Int
  BY <1>1, <1>8 DEF SocketType
<1> HIDE DEF t, n, m, head
<1>11. /\ SocketType(t) /\ SameRecv(s, t) /\ t.wrote = s.wrote /\ t.st = s.st
       /\ t.seq_nr = s.seq_nr /\ t.cwp = s.cwp /\ t.fin_sent = s.fin_sent
       /\ t.outbuf = new /\ t.cur_window = m /\ t.retransmit_count = s.retransmit_count
  BY <1>1, <1>6, <1>7, <1>10 DEF SocketType, Fields, SameRecv
<1>12. \A q \in SeqNrs : new[q] = NULL <=> s.outbuf[q] = NULL
  <2>1. \A p \in OutPackets : p # NULL
    BY SendAssumption
  <2> QED
    BY <1>3, <1>4, <1>5, <2>1
<1>13. Window(t) = Window(s)
  BY <1>11 DEF Window
<1>14. SendOK(t)
  BY <1>9, <1>11, <1>12, <1>13 DEF SendOK
<1>15. Keeps(s, t)
  BY <1>11, <1>12 DEF Keeps, SameWindow
<1> QED
  BY <1>11, <1>14, <1>15 DEF t

LEMMA ShrinkWindowKeeps ==
    ASSUME NEW s, SendOK(s)
    PROVE  LET t == ShrinkWindow(s)
           IN  SendOK(t) /\ Keeps(s, t) /\ t.retransmit_count = s.retransmit_count
<1> DEFINE t == ShrinkWindow(s)
           third == (s.max_window * 2) \div 3
           m == IF s.cwp = 0 /\ s.max_window > PACKET_SIZE THEN Max({third, PACKET_SIZE})
                ELSE PACKET_SIZE
<1>1. SocketType(s) /\ s.max_window \in Nat
  BY DEF SendOK, SocketType
<1>2. m \in Nat \ {0}
  <2>1. third \in Int /\ PACKET_SIZE \in Nat \ {0}
    BY <1>1, SendAssumption
  <2> HIDE DEF third
  <2>2. Max({third, PACKET_SIZE}) = IF third >= PACKET_SIZE THEN third ELSE PACKET_SIZE
    BY <2>1, MaxOfTwo
  <2> QED
    BY <2>1, <2>2
<1>3. t = [s EXCEPT !.max_window = m]
  BY DEF ShrinkWindow
<1> HIDE DEF m, t
<1>4. /\ SocketType(t) /\ SameSend(s, t) /\ SameRecv(s, t)
      /\ t.wrote = s.wrote /\ t.st = s.st
  BY <1>1, <1>2, <1>3 DEF SocketType, Fields, SameSend, SameRecv
<1> QED
  BY <1>4, AsideKeeps DEF SameSend, t

\* The RTO branch: the first packet of the window goes out again.
LEMMA RetransmitTimeoutKeeps ==
    ASSUME NEW s, SendOK(s), Headed(s), s.retransmit_count < RETRANSMIT_LIMIT,
           NEW ignore_loss \in BOOLEAN
    PROVE  SendOK(RetransmitTimeout(s, ignore_loss)) /\ Keeps(s, RetransmitTimeout(s, ignore_loss))
<1> DEFINE b == IF ignore_loss THEN s ELSE ShrinkWindow(s)
           m == MarkLost(b)
           n == m.retransmit_count + 1
           u == [m EXCEPT !.retransmit_count = n, !.fast_timeout = TRUE]
           head == WindowStart(m)
<1>1. SendOK(b) /\ Keeps(s, b) /\ b.retransmit_count = s.retransmit_count
  BY ShrinkWindowKeeps, KeepsReflexive
<1> HIDE DEF b
<1>2. SendOK(m) /\ Keeps(b, m) /\ m.retransmit_count = s.retransmit_count
  BY <1>1, MarkLostKeeps
<1>3. RetransmitTimeout(s, ignore_loss) = IF s.cwp = 0 THEN m ELSE Transmit(u, head)
  BY DEF RetransmitTimeout, b
<1> HIDE DEF m
<1>4. Keeps(s, m)
  BY <1>1, <1>2, KeepsTransitive
<1>5. SocketType(m) /\ n \in Nat /\ n <= RETRANSMIT_LIMIT
  <2>1. SocketType(m)
    BY <1>2 DEF SendOK
  <2>2. m.retransmit_count \in Nat /\ m.retransmit_count < RETRANSMIT_LIMIT
    BY <1>2, <2>1 DEF SocketType
  <2> QED
    BY <2>1, <2>2, SocketAssumption
<1> HIDE DEF n
<1>6. /\ SocketType(u) /\ SameRecv(m, u) /\ u.wrote = m.wrote /\ u.st = m.st
      /\ u.outbuf = m.outbuf /\ u.cur_window = m.cur_window /\ u.seq_nr = m.seq_nr
      /\ u.cwp = m.cwp /\ u.fin_sent = m.fin_sent /\ u.retransmit_count = n
  BY <1>5 DEF SocketType, Fields, SameRecv
<1> HIDE DEF u
<1>7. SendOK(u) /\ Keeps(m, u)
  <2>1. Window(u) = Window(m)
    BY <1>6 DEF Window
  <2> QED
    BY <1>2, <1>5, <1>6, <2>1 DEF SendOK, Keeps, SameWindow
<1>8. CASE s.cwp = 0
  BY <1>2, <1>3, <1>4, <1>8
<1>9. CASE s.cwp # 0
  <2>1. Headed(m)
    BY <1>4, SameWindowHeaded DEF Keeps
  <2>2. m.cwp > 0 /\ head \in SeqNrs
    BY <1>2, <1>4, <1>9, WindowStartType DEF Keeps, SameWindow
  <2>3. u.outbuf[head] # NULL
    BY <1>6, <2>1, <2>2 DEF Headed
  <2> HIDE DEF head
  <2>4. SendOK(Transmit(u, head)) /\ Keeps(u, Transmit(u, head))
    BY <1>7, <2>2, <2>3, TransmitSends
  <2> QED
    BY <1>3, <1>4, <1>7, <1>9, <2>4, KeepsTransitive
<1> QED
  BY <1>8, <1>9

-----------------------------------------------------------------------------
(* Selective acknowledgement *)

Resend == INSTANCE FoldLaws WITH Op <- ResendLost

\* The state of the resend loop of selective_ack that was entered with socket r.
ResendState(r, f) ==
  /\ DOMAIN f = {"s", "ack", "lost", "left"} /\ f.ack \in SeqNrs
  /\ SendOK(f.s) /\ Keeps(r, f.s)

LEMMA ResendLostKeeps ==
    ASSUME NEW r, NEW f, ResendState(r, f), NEW i \in Nat
    PROVE  ResendState(r, ResendLost(f, i))
<1> DEFINE k == f.ack + (IF i = 0 THEN 1 ELSE i)
           v == Wrap(k)
           t == Transmit(f.s, v)
           n == Wrap(v + 1)
           u == [t EXCEPT !.fast_resend_seq_nr = n]
           l == f.left - 1
<1>1. v \in SeqNrs
  <2>1. k \in Int
    BY DEF ResendState, SeqNrs
  <2> QED
    BY <2>1, WrapType
<1>2. n \in SeqNrs
  <2>1. v + 1 \in Int
    BY <1>1 DEF SeqNrs
  <2> QED
    BY <2>1, WrapType
<1>3. \/ ResendLost(f, i) = f
      \/ f.s.outbuf[v] # NULL /\ ResendLost(f, i) = [f EXCEPT !.s = u, !.left = l]
  BY DEF ResendLost
<1> HIDE DEF v, l, n
<1>4. CASE f.s.outbuf[v] # NULL /\ ResendLost(f, i) = [f EXCEPT !.s = u, !.left = l]
  <2>1. SendOK(t) /\ Keeps(f.s, t)
    BY <1>1, <1>4, TransmitSends DEF ResendState
  <2> HIDE DEF t
  <2>2. /\ SocketType(u) /\ SameSend(t, u) /\ SameRecv(t, u)
        /\ u.wrote = t.wrote /\ u.st = t.st
    <3>1. SocketType(t)
      BY <2>1 DEF SendOK
    <3> QED
      BY <1>2, <3>1 DEF SocketType, Fields, SameSend, SameRecv
  <2> HIDE DEF u
  <2>3. SendOK(u) /\ Keeps(t, u)
    BY <2>1, <2>2, AsideKeeps
  <2>4. Keeps(r, u)
    BY <2>1, <2>3, KeepsTransitive DEF ResendState
  <2> QED
    BY <1>4, <2>3, <2>4 DEF ResendState
<1> QED
  BY <1>3, <1>4

\* No bit of a selective ACK stands for the first packet of the window.
LEMMA HeadNotInWindow ==
    ASSUME NEW s, SendOK(s), s.cwp > 0
    PROVE  ~SackInWindow(s, WindowStart(s))
<1> DEFINE x == s.seq_nr
           c == s.cwp
           y == x - c
           d == -1
<1>1. x \in Int /\ c \in Nat /\ x \in SeqNrs /\ Wrap(x) = x /\ c < SEQ_MOD /\ c > 0
  <2>1. s.cwp <= OUT_MAX /\ OUT_MAX \in Nat /\ 2 * (OUT_MAX + DUP_ACKS) < SEQ_MOD
        /\ DUP_ACKS \in Nat
    BY SendAssumption DEF SendOK
  <2>2. x \in Int /\ c \in Nat /\ x \in SeqNrs /\ Wrap(x) = x
    BY WindowStartType, WrapIdentity DEF SendOK, SocketType
  <2> QED
    BY <2>1, <2>2, SeqModAssumption
<1> HIDE DEF x, c
<1>2. y \in Int /\ d \in Int /\ x - y + d = c - 1
  BY <1>1
<1> HIDE DEF y, d
<1>3. Wrap(Wrap(x) - Wrap(y) + d) = Wrap(x - y + d)
  BY <1>1, <1>2, WrapDifference
<1>4. Wrap(c - 1) = c - 1
  <2>1. c - 1 \in SeqNrs
    BY <1>1, SeqModAssumption DEF SeqNrs
  <2> QED
    BY <2>1, WrapIdentity
<1>5. Wrap(y) \in Int
  BY <1>2, WrapType DEF SeqNrs
<1>6. x - Wrap(y) - 1 = Wrap(x) - Wrap(y) + d
  BY <1>1, <1>5 DEF d
<1>7. Wrap(x - Wrap(y) - 1) = c - 1
  BY <1>2, <1>3, <1>4, <1>6
<1>8. ~(c - 1 < c - 1)
  BY <1>1
<1> QED
  BY <1>7, <1>8 DEF SackInWindow, WindowStart, x, c, y

LEMMA SelectiveAckGrows ==
    ASSUME NEW s, SendOK(s), NEW ack \in SeqNrs, NEW sack \in SUBSET Nat,
           NEW decay \in BOOLEAN
    PROVE  SendOK(SelectiveAck(s, ack, sack, decay)) /\ Grows(s, SelectiveAck(s, ack, sack, decay))
<1> DEFINE At(b)     == Wrap(ack + 2 + b)
           counted   == {b \in sack : SackInWindow(s, At(b))}
           Q         == {At(b) : b \in counted}
           a         == AckPackets(s, Q)
           Above(b)  == Cardinality({c \in counted : c > b})
           lost      == {b \in -1 .. SACK_BITS - 1 :
                           /\ b \notin sack /\ SackInWindow(s, At(b))
                           /\ s.outbuf[At(b)] # NULL /\ s.outbuf[At(b)].sent
                           /\ NearFastResend(s, At(b)) /\ Above(b) >= DUP_ACKS}
           next      == IF NearFastResend(s, Wrap(ack + 1)) /\ Above(-2) >= DUP_ACKS
                        THEN {0} ELSE {}
           base      == [s |-> a, ack |-> ack, lost |-> next \cup {b + 2 : b \in lost},
                         left |-> MAX_FAST_RESENDS]
           n         == SACK_BITS + 2
           scan      == [i \in 1 .. n |-> i - 1]
           end       == FoldLeft(ResendLost, base, scan)
           m         == Max({MIN_WINDOW, end.s.max_window \div 2})
           u         == [end.s EXCEPT !.max_window = m]
<1>0. s.cwp \in Nat
  BY WindowStartType
<1>1. CASE s.cwp = 0
  <2>1. SelectiveAck(s, ack, sack, decay) = s
    BY <1>1 DEF SelectiveAck
  <2> QED
    BY <2>1, KeepsReflexive, KeepsGrows
<1>2. CASE s.cwp # 0
  <2>1. Q \in SUBSET SeqNrs
    <3>1. \A b \in sack : ack + 2 + b \in Int
      BY DEF SeqNrs
    <3> QED
      BY <3>1, WrapType
  <2>2. \A q \in Q : SackInWindow(s, q)
    OBVIOUS
  <2> HIDE DEF Q
  <2>3. SendOK(a) /\ Grows(s, a)
    <3>1. /\ SendOK(a) /\ SameRecv(s, a) /\ a.wrote = s.wrote /\ a.st = s.st
          /\ a.seq_nr = s.seq_nr /\ a.cwp = s.cwp /\ a.fin_sent = s.fin_sent
          /\ \A q \in SeqNrs : a.outbuf[q] =
               IF q \in Q /\ s.outbuf[q] # NULL /\ s.outbuf[q].sent
               THEN NULL ELSE s.outbuf[q]
      BY <2>1, AckPacketsSends
    <3>2. WindowStart(s) \in SeqNrs /\ WindowStart(s) \notin Q
      BY <1>0, <1>2, <2>2, HeadNotInWindow, WindowStartType
    <3> HIDE DEF a
    <3>3. a.outbuf[WindowStart(s)] = s.outbuf[WindowStart(s)]
      BY <3>1, <3>2
    <3>4. WindowStart(a) = WindowStart(s)
      BY <3>1 DEF WindowStart
    <3>5. Headed(s) => Headed(a)
      BY <3>1, <3>3, <3>4 DEF Headed
    <3> QED
      BY <1>0, <3>1, <3>5 DEF Grows
  <2>4. ResendState(a, base)
    <3> HIDE DEF a, lost, next
    <3> QED
      BY <2>3, KeepsReflexive DEF ResendState
  <2>5. n \in Nat /\ DOMAIN scan = 1 .. n /\ \A i \in 1 .. n : scan[i] \in Nat
    BY SendAssumption
  <2>6. SelectiveAck(s, ack, sack, decay) \in {end.s, u}
    BY <1>2 DEF SelectiveAck, Q, a
  <2> HIDE DEF base, scan, n, a
  <2>7. PICK c : Resend!Chain(c, n, base, scan) /\ end = c[n]
    <3>1. \E c : Resend!Chain(c, n, base, scan) /\ Resend!FoldLeft(ResendLost, base, scan) = c[n]
      BY <2>5, Resend!FoldLeftChain
    <3>2. Resend!FoldLeft(ResendLost, base, scan) = end
      BY DEF FoldLeft, Resend!FoldLeft, MapThenFoldSet, Resend!MapThenFoldSet, Max, Resend!Max
    <3> HIDE DEF end
    <3> QED
      BY <3>1, <3>2
  <2> HIDE DEF end
  <2> DEFINE Z == {i \in 0 .. n : ResendState(a, c[i])}
  <2>8. 0 \in Z
    BY <2>4, <2>5, <2>7 DEF Resend!Chain
  <2>9. \A i \in 1 .. n : i - 1 \in Z => i \in Z
    <3> SUFFICES ASSUME NEW i \in 1 .. n, ResendState(a, c[i - 1])
                 PROVE  i \in Z
      BY <2>5
    <3>1. c[i] = ResendLost(c[i - 1], scan[i])
      BY <2>7 DEF Resend!Chain
    <3>2. ResendState(a, ResendLost(c[i - 1], scan[i]))
      BY <2>5, ResendLostKeeps
    <3> QED
      BY <2>5, <3>1, <3>2
  <2> HIDE DEF Z
  <2>10. ResendState(a, end)
    <3>1. \A i \in 0 .. n : i \in Z
      BY <2>5, <2>8, <2>9, Resend!Rounds
    <3>2. n \in Z
      BY <2>5, <3>1
    <3> QED
      BY <2>7, <3>2 DEF Z
  <2> DEFINE e == end.s
  <2>11. SendOK(e) /\ Keeps(a, e) /\ SocketType(e)
    BY <2>10 DEF ResendState, SendOK
  <2>12. SendOK(u) /\ Keeps(e, u)
    <3>1. m \in Nat \ {0}
      <4> DEFINE h == end.s.max_window \div 2
      <4>1. h \in Int /\ MIN_WINDOW \in Nat \ {0}
        BY <2>11, SendAssumption DEF SocketType
      <4> HIDE DEF h
      <4>2. Max({MIN_WINDOW, h}) = IF MIN_WINDOW >= h THEN MIN_WINDOW ELSE h
        BY <4>1, MaxOfTwo
      <4>3. m = Max({MIN_WINDOW, h})
        BY DEF h
      <4> HIDE DEF m
      <4> QED
        BY <4>1, <4>2, <4>3
    <3>2. u = [e EXCEPT !.max_window = m]
      OBVIOUS
    <3> HIDE DEF e, m, u
    <3>3. /\ SocketType(u) /\ SameSend(e, u) /\ SameRecv(e, u)
          /\ u.wrote = e.wrote /\ u.st = e.st
      BY <2>11, <3>1, <3>2 DEF SocketType, Fields, SameSend, SameRecv
    <3> QED
      BY <2>11, <3>3, AsideKeeps
  <2> HIDE DEF u
  <2>13. ASSUME NEW t, SendOK(t), Keeps(a, t)
         PROVE  Grows(s, t)
    <3>1. Grows(a, t)
      BY <2>3, <2>13, KeepsGrows
    <3> QED
      BY <2>3, <2>13, <3>1, GrowsTransitive DEF SendOK
  <2>14. Grows(s, e) /\ Grows(s, u)
    BY <2>11, <2>12, <2>13, KeepsTransitive
  <2> QED
    BY <2>6, <2>11, <2>12, <2>14
<1> QED
  BY <1>1, <1>2

-----------------------------------------------------------------------------
(* The calls.  Each of them keeps the invariant of its socket. *)

SocketOK(s) == SendOK(s) /\ Headed(s) /\ RecvOK(s)

\* A socket that is not waiting for a SYN-ACK does not start to wait for one.
NoNewSyn(s, t) == t.st = "SYN_SENT" => s.st = "SYN_SENT"

LEMMA AsideOK ==
    ASSUME NEW s, SocketOK(s), NEW t, SocketType(t), SameSend(s, t), SameRecv(s, t),
           NoNewSyn(s, t)
    PROVE  SocketOK(t)
<1>1. SendOK(t) /\ SameWindow(s, t)
  BY SameSendOK DEF SocketOK
<1> QED
  BY <1>1, SameWindowHeaded, SameRecvOK DEF SocketOK, NoNewSyn

LEMMA KeepsOK ==
    ASSUME NEW s, SocketOK(s), NEW t, SendOK(t), Keeps(s, t)
    PROVE  SocketOK(t)
  BY SameWindowHeaded, SameRecvOK DEF SocketOK, Keeps

LEMMA FilledFinite ==
    ASSUME NEW s
    PROVE  IsFiniteSet(Filled(s)) /\ Cardinality(Filled(s)) \in Nat
<1>1. Filled(s) \in SUBSET SeqNrs
  BY DEF Filled
<1> QED
  BY <1>1, SeqNrsFinite, FS_CardinalityType

\* A socket with nothing in its buffers.
LEMMA FreshOK ==
    ASSUME NEW s, SocketType(s), \A q \in SeqNrs : s.outbuf[q] = NULL,
           s.cwp = 0, s.cur_window = 0, s.retransmit_count = 0, s.reorder_count = 0
    PROVE  SocketOK(s)
<1>1. Load(s.outbuf) = 0
  <2> DEFINE w == Weights(s.outbuf)
  <2>1. \A q \in SeqNrs : w[q] = 0
    BY DEF Weights, Weight, InFlight
  <2> HIDE DEF w
  <2>2. Total(w, SeqNrs) = 0
    BY <2>1, SeqNrsFinite, TotalZero
  <2> QED
    BY <2>2 DEF Load, w
<1>2. SendOK(s)
  BY <1>1, SendAssumption, SocketAssumption DEF SendOK
<1>3. Headed(s)
  BY DEF Headed
<1>4. RecvOK(s)
  BY FilledFinite DEF RecvOK
<1> QED
  BY <1>2, <1>3, <1>4 DEF SocketOK

LEMMA NewSocketOK == SocketType(NewSocket) /\ SocketOK(NewSocket)
<1> DEFINE none == [q \in SeqNrs |-> NULL]
           m == 255 * PACKET_SIZE
<1>1. none \in Outbufs /\ none \in Inbufs /\ \A q \in SeqNrs : none[q] = NULL
  BY DEF Outbufs, Inbufs
<1>2. 0 \in SeqNrs /\ 1 \in SeqNrs /\ m \in Nat /\ PACKET_SIZE \in Nat \ {0}
  BY SeqModAssumption, SendAssumption DEF SeqNrs
<1>3. NewSocket.delivered \in Seq(Seq(Nat)) /\ NewSocket.out \in SUBSET Datagrams
  BY DEF NewSocket
<1> HIDE DEF none, m
<1>4. /\ DOMAIN NewSocket = Fields /\ NewSocket.outbuf = none /\ NewSocket.inbuf = none
      /\ NewSocket.max_window_user = m /\ NewSocket.max_window = PACKET_SIZE
      /\ NewSocket.cwp = 0 /\ NewSocket.cur_window = 0
      /\ NewSocket.retransmit_count = 0 /\ NewSocket.reorder_count = 0
      /\ NewSocket.ack_nr = 0 /\ NewSocket.eof_pkt = 0 /\ NewSocket.seq_nr = 1
      /\ NewSocket.flush_scan_start = 1 /\ NewSocket.fast_resend_seq_nr = 1
      /\ NewSocket.last_rcv_win = 0 /\ NewSocket.unread = 0 /\ NewSocket.wrote = 0
  BY DEF NewSocket, Fields, none, m
<1>5. /\ NewSocket.st = "UNINITIALIZED" /\ NewSocket.err = "NONE"
      /\ NewSocket.closed \in BOOLEAN /\ NewSocket.got_fin \in BOOLEAN
      /\ NewSocket.got_fin_reached \in BOOLEAN /\ NewSocket.read_shutdown \in BOOLEAN
      /\ NewSocket.fin_sent \in BOOLEAN /\ NewSocket.fin_sent_acked \in BOOLEAN
      /\ NewSocket.close_requested \in BOOLEAN /\ NewSocket.fast_timeout \in BOOLEAN
      /\ NewSocket.rto_armed \in BOOLEAN /\ NewSocket.ack_pending \in BOOLEAN
  BY DEF NewSocket
<1>6. SocketType(NewSocket)
  <2>1. NewSocket.st \in States
    BY <1>5 DEF States
  <2> QED
    BY <1>1, <1>2, <1>3, <1>4, <1>5, <2>1 DEF SocketType
<1> QED
  BY <1>1, <1>4, <1>6, FreshOK

\* An ACK is a datagram more.
LEMMA SendAckForKeeps ==
    ASSUME NEW s, SendOK(s), NEW ack \in SeqNrs
    PROVE  SendOK(SendAckFor(s, ack)) /\ Keeps(s, SendAckFor(s, ack))
<1> DEFINE bits == {b \in 0 .. SACK_BITS - 3 : s.inbuf[Wrap(ack + b + 2)] # NULL}
           sack == IF s.reorder_count # 0 /\ ~s.got_fin_reached THEN bits ELSE NULL
           w == get_rcv_window(s)
           d == [type |-> "STATE", seq |-> s.seq_nr, ack |-> ack,
                 wnd |-> w, sack |-> sack, data |-> <<>>]
           out == s.out \cup {d}
           t == [s EXCEPT !.last_rcv_win = w, !.out = out, !.ack_pending = FALSE]
<1>1. SocketType(s) /\ s.seq_nr \in SeqNrs /\ s.out \in SUBSET Datagrams
  BY DEF SendOK, SocketType
<1>2. w \in Nat
  BY <1>1, RcvWindowType
<1>3. sack \in (SUBSET Nat) \cup {NULL}
  <2>1. bits \in SUBSET Nat
    OBVIOUS
  <2> HIDE DEF bits
  <2> QED
    BY <2>1
<1>4. SendAckFor(s, ack) = t
  BY DEF SendAckFor
<1> HIDE DEF sack, w
<1>5. out \in SUBSET Datagrams
  <2>1. d \in Datagrams
    BY <1>1, <1>2, <1>3 DEF Datagrams
  <2> HIDE DEF d
  <2> QED
    BY <1>1, <2>1
<1> HIDE DEF out
<1>6. /\ SocketType(t) /\ SameSend(s, t) /\ SameRecv(s, t)
      /\ t.wrote = s.wrote /\ t.st = s.st
  BY <1>1, <1>2, <1>5 DEF SocketType, Fields, SameSend, SameRecv
<1> HIDE DEF t
<1> QED
  BY <1>4, <1>6, AsideKeeps

LEMMA SendAckKeeps ==
    ASSUME NEW s, SendOK(s)
    PROVE  SendOK(SendAck(s)) /\ Keeps(s, SendAck(s))
<1>1. s.ack_nr \in SeqNrs
  BY DEF SendOK, SocketType
<1> QED
  BY <1>1, SendAckForKeeps DEF SendAck

LEMMA SendKeepAliveKeeps ==
    ASSUME NEW s, SendOK(s)
    PROVE  SendOK(SendKeepAlive(s)) /\ Keeps(s, SendKeepAlive(s))
<1> DEFINE n == Wrap(s.ack_nr - 1)
<1>1. n \in SeqNrs
  <2>1. s.ack_nr - 1 \in Int
    BY DEF SendOK, SocketType, SeqNrs
  <2> QED
    BY <2>1, WrapType
<1>2. SendKeepAlive(s) = SendAckFor(s, n)
  BY DEF SendKeepAlive
<1> HIDE DEF n
<1> QED
  BY <1>1, <1>2, SendAckForKeeps

LEMMA ScheduleAckKeeps ==
    ASSUME NEW s, SendOK(s)
    PROVE  SendOK(ScheduleAck(s)) /\ Keeps(s, ScheduleAck(s))
<1> DEFINE t == [s EXCEPT !.ack_pending = TRUE]
<1>1. SocketType(s)
  BY DEF SendOK
<1>2. /\ SocketType(t) /\ SameSend(s, t) /\ SameRecv(s, t)
      /\ t.wrote = s.wrote /\ t.st = s.st
  BY <1>1 DEF SocketType, Fields, SameSend, SameRecv
<1> QED
  BY <1>2, AsideKeeps DEF ScheduleAck

\* utp_connect: the SYN is the only packet of the window.
LEMMA ConnectOK ==
    ASSUME NEW isn \in SeqNrs
    PROVE  SocketOK(Connect(isn))
<1> DEFINE u == [NewSocket EXCEPT !.st = "SYN_SENT", !.rto_armed = TRUE, !.seq_nr = isn]
           none == <<>>
           s == Enqueue(u, "SYN", none)
           p == OutPacket("SYN", none, get_rcv_window(u))
           t == Transmit(s, isn)
<1>1. /\ SocketType(NewSocket) /\ \A q \in SeqNrs : NewSocket.outbuf[q] = NULL
      /\ NewSocket.cwp = 0 /\ NewSocket.cur_window = 0
      /\ NewSocket.retransmit_count = 0 /\ NewSocket.reorder_count = 0
  BY NewSocketOK DEF NewSocket
<1> HIDE DEF u
<1>2. /\ SocketType(u) /\ u.outbuf = NewSocket.outbuf /\ u.seq_nr = isn
      /\ u.cwp = 0 /\ u.cur_window = 0 /\ u.retransmit_count = 0 /\ u.reorder_count = 0
  BY <1>1 DEF SocketType, Fields, States, u
<1>3. SocketOK(u)
  BY <1>1, <1>2, FreshOK
<1>4. u.cwp < OUT_MAX /\ u.cwp < OUT_MAX - 1 /\ none \in Seq(Nat)
  BY <1>2, SendAssumption
<1>5. t = Connect(isn)
  BY DEF Connect, u
<1>6. s.outbuf[isn] = p /\ p # NULL
  <2>1. s.outbuf = [u.outbuf EXCEPT ![u.seq_nr] = p]
    BY <1>2 DEF Enqueue, SocketType, Fields
  <2>2. u.outbuf \in Outbufs
    BY <1>2 DEF SocketType
  <2>3. p \in OutPackets
    BY <1>2, <1>4, RcvWindowType DEF OutPackets, OutPacket
  <2> HIDE DEF s, p
  <2> QED
    BY <1>2, <2>1, <2>2, <2>3, SendAssumption DEF Outbufs
<1> HIDE DEF none, p
<1>7. SendOK(s) /\ Grows(u, s)
  BY <1>3, <1>4, EnqueueGrows DEF SocketOK
<1> HIDE DEF s
<1>8. SocketOK(s)
  <2>1. RecvOK(s)
    BY <1>3, <1>7, SameRecvOK DEF SocketOK, Grows
  <2> QED
    BY <1>3, <1>7, <2>1 DEF SocketOK, Grows
<1>9. SendOK(t) /\ Keeps(s, t)
  BY <1>6, <1>7, TransmitSends
<1> HIDE DEF t
<1> QED
  BY <1>5, <1>8, <1>9, KeepsOK

\* accept_syn and the SYN-ACK.
LEMMA AcceptSynOK ==
    ASSUME NEW isn \in SeqNrs, NEW seq \in SeqNrs
    PROVE  SocketOK(AcceptSyn(isn, seq))
<1> DEFINE u == [NewSocket EXCEPT !.st = "SYN_RECV", !.ack_nr = seq, !.seq_nr = isn,
                                  !.fast_resend_seq_nr = isn]
<1>1. /\ SocketType(NewSocket) /\ \A q \in SeqNrs : NewSocket.outbuf[q] = NULL
      /\ NewSocket.cwp = 0 /\ NewSocket.cur_window = 0
      /\ NewSocket.retransmit_count = 0 /\ NewSocket.reorder_count = 0
  BY NewSocketOK DEF NewSocket
<1> HIDE DEF u
<1>2. /\ SocketType(u) /\ u.outbuf = NewSocket.outbuf
      /\ u.cwp = 0 /\ u.cur_window = 0 /\ u.retransmit_count = 0 /\ u.reorder_count = 0
  BY <1>1 DEF SocketType, Fields, States, u
<1>3. SocketOK(u)
  BY <1>1, <1>2, FreshOK
<1>4. SendOK(SendAck(u)) /\ Keeps(u, SendAck(u))
  BY <1>3, SendAckKeeps DEF SocketOK
<1>5. AcceptSyn(isn, seq) = SendAck(u)
  BY DEF AcceptSyn, u
<1> QED
  BY <1>3, <1>4, <1>5, KeepsOK

LEMMA StateOK ==
    ASSUME NEW s, SocketOK(s), NEW st \in States \ {"SYN_SENT"}
    PROVE  SocketOK([s EXCEPT !.st = st])
<1> DEFINE t == [s EXCEPT !.st = st]
<1>1. SocketType(s)
  BY DEF SocketOK, SendOK
<1>2. SocketType(t) /\ SameSend(s, t) /\ SameRecv(s, t) /\ NoNewSyn(s, t)
  BY <1>1 DEF SocketType, Fields, SameSend, SameRecv, NoNewSyn
<1> HIDE DEF t
<1>3. SocketOK(t)
  BY <1>2, AsideOK
<1> QED
  BY <1>3 DEF t

LEMMA SendFinOK ==
    ASSUME NEW s, SocketOK(s), ~s.fin_sent
    PROVE  SocketOK(SendFin(s))
<1> DEFINE t == SendFin(s)
<1>1. SendOK(t) /\ SameRecv(s, t) /\ t.st = s.st /\ (Headed(s) => Headed(t))
  BY SendFinGrows DEF SocketOK
<1> HIDE DEF t
<1>2. SocketOK(t)
  BY <1>1, SameRecvOK DEF SocketOK
<1> QED
  BY <1>2 DEF t

LEMMA WriteOK ==
    ASSUME NEW s, SocketOK(s), NEW n \in Nat
    PROVE  SocketOK(Write(s, n))
<1> DEFINE t == Write(s, n)
<1>1. Writes(s, t)
  BY WriteSends DEF SocketOK
<1> HIDE DEF t
<1>2. SocketOK(t)
  BY <1>1, SameRecvOK DEF SocketOK, Writes
<1> QED
  BY <1>2 DEF t

LEMMA CloseOK ==
    ASSUME NEW s, SocketOK(s)
    PROVE  SocketOK(Close(s))
<1> DEFINE t == [s EXCEPT !.closed = TRUE]
           c == [t EXCEPT !.read_shutdown = TRUE, !.close_requested = TRUE]
<1>1. SocketOK(t)
  <2>1. SocketType(s)
    BY DEF SocketOK, SendOK
  <2>2. SocketType(t) /\ SameSend(s, t) /\ SameRecv(s, t) /\ NoNewSyn(s, t)
    BY <2>1 DEF SocketType, Fields, SameSend, SameRecv, NoNewSyn
  <2> HIDE DEF t
  <2> QED
    BY <2>2, AsideOK
<1>2. t.fin_sent = s.fin_sent
  BY DEF SocketOK, SendOK, SocketType, Fields
<1>3. Close(s) \in {[t EXCEPT !.st = "DESTROY"], [c EXCEPT !.st = "DESTROY"], c}
      \/ (~s.fin_sent /\ Close(s) = SendFin(c))
  BY DEF Close
<1> HIDE DEF t
<1>4. SocketOK(c) /\ c.fin_sent = t.fin_sent
  <2>1. SocketType(t)
    BY <1>1 DEF SocketOK, SendOK
  <2>2. /\ SocketType(c) /\ SameSend(t, c) /\ SameRecv(t, c) /\ NoNewSyn(t, c)
        /\ c.fin_sent = t.fin_sent
    BY <2>1 DEF SocketType, Fields, SameSend, SameRecv, NoNewSyn
  <2> HIDE DEF c
  <2> QED
    BY <1>1, <2>2, AsideOK
<1> HIDE DEF c
<1>5. SocketOK([t EXCEPT !.st = "DESTROY"]) /\ SocketOK([c EXCEPT !.st = "DESTROY"])
  <2> DEFINE st == "DESTROY"
  <2>1. st \in States \ {"SYN_SENT"}
    BY DEF States
  <2> HIDE DEF st
  <2>2. SocketOK([t EXCEPT !.st = st]) /\ SocketOK([c EXCEPT !.st = st])
    BY <1>1, <1>4, <2>1, StateOK
  <2> QED
    BY <2>2 DEF st
<1>6. ~s.fin_sent => SocketOK(SendFin(c))
  BY <1>2, <1>4, SendFinOK
<1> QED
  BY <1>3, <1>4, <1>5, <1>6

LEMMA ShutdownOK ==
    ASSUME NEW s, SocketOK(s), NEW how
    PROVE  SocketOK(Shutdown(s, how))
<1> DEFINE u == [s EXCEPT !.read_shutdown = TRUE]
           r == IF how # "WR" THEN u ELSE s
<1>1. SocketOK(u) /\ u.fin_sent = s.fin_sent
  <2>1. SocketType(s)
    BY DEF SocketOK, SendOK
  <2>2. /\ SocketType(u) /\ SameSend(s, u) /\ SameRecv(s, u) /\ NoNewSyn(s, u)
        /\ u.fin_sent = s.fin_sent
    BY <2>1 DEF SocketType, Fields, SameSend, SameRecv, NoNewSyn
  <2> HIDE DEF u
  <2> QED
    BY <2>2, AsideOK
<1>2. Shutdown(s, how) = r \/ (~s.fin_sent /\ Shutdown(s, how) = SendFin(r))
  BY DEF Shutdown
<1> HIDE DEF u
<1>3. SocketOK(r) /\ r.fin_sent = s.fin_sent
  BY <1>1
<1> HIDE DEF r
<1>4. ~s.fin_sent => SocketOK(SendFin(r))
  BY <1>3, SendFinOK
<1> QED
  BY <1>2, <1>3, <1>4

LEMMA ReadDrainedOK ==
    ASSUME NEW s, SocketOK(s)
    PROVE  SocketOK(ReadDrained(s))
<1> DEFINE r == [s EXCEPT !.unread = 0]
<1>1. SocketOK(r)
  <2>1. SocketType(s)
    BY DEF SocketOK, SendOK
  <2>2. SocketType(r) /\ SameSend(s, r) /\ SameRecv(s, r) /\ NoNewSyn(s, r)
    BY <2>1 DEF SocketType, Fields, SameSend, SameRecv, NoNewSyn
  <2> HIDE DEF r
  <2> QED
    BY <2>2, AsideOK
<1>2. ReadDrained(s) \in {r, SendAck(r), ScheduleAck(r)}
  BY DEF ReadDrained
<1> HIDE DEF r
<1>3. /\ SendOK(SendAck(r)) /\ Keeps(r, SendAck(r))
      /\ SendOK(ScheduleAck(r)) /\ Keeps(r, ScheduleAck(r))
  BY <1>1, SendAckKeeps, ScheduleAckKeeps DEF SocketOK
<1>4. SocketOK(SendAck(r)) /\ SocketOK(ScheduleAck(r))
  BY <1>1, <1>3, KeepsOK
<1> QED
  BY <1>1, <1>2, <1>4

\* on_reset and the ICMP error: only the state and the error code change.
LEMMA ErrorOK ==
    ASSUME NEW s, SocketOK(s)
    PROVE  SocketOK(OnReset(s)) /\ SocketOK(OnIcmpError(s))
<1> DEFINE st == IF s.close_requested THEN "DESTROY" ELSE "RESET"
           E == {"ECONNRESET", "ECONNREFUSED"}
<1>1. SocketType(s)
  BY DEF SocketOK, SendOK
<1>2. st \in States \ {"SYN_SENT"}
  BY DEF States
<1>3. \E err \in E : OnReset(s) = [s EXCEPT !.st = st, !.err = err]
  BY DEF OnReset
<1>4. \E err \in E : OnIcmpError(s) = [s EXCEPT !.st = st, !.err = err]
  BY DEF OnIcmpError
<1>5. E \subseteq {"NONE", "ECONNRESET", "ECONNREFUSED", "ETIMEDOUT"}
  OBVIOUS
<1> HIDE DEF st, E
<1>6. ASSUME NEW err \in E
      PROVE  SocketOK([s EXCEPT !.st = st, !.err = err])
  <2> DEFINE t == [s EXCEPT !.st = st, !.err = err]
  <2>1. SocketType(t) /\ SameSend(s, t) /\ SameRecv(s, t) /\ NoNewSyn(s, t)
    BY <1>1, <1>2, <1>5 DEF SocketType, Fields, SameSend, SameRecv, NoNewSyn
  <2> HIDE DEF t
  <2>2. SocketOK(t)
    BY <2>1, AsideOK
  <2> QED
    BY <2>2 DEF t
<1> QED
  BY <1>3, <1>4, <1>6

-----------------------------------------------------------------------------
(* process_incoming: the acknowledgements of a datagram *)

LEMMA CongestionControlKeeps ==
    ASSUME NEW s, SendOK(s), NEW p, NEW acks, NEW window \in Nat \ {0}
    PROVE  LET t == CongestionControl(s, p, acks, window) IN SendOK(t) /\ Keeps(s, t)
<1> DEFINE u == [s EXCEPT !.max_window = window]
<1>1. CongestionControl(s, p, acks, window) \in {s, u}
  BY DEF CongestionControl
<1>2. SocketType(s)
  BY DEF SendOK
<1>3. /\ SocketType(u) /\ SameSend(s, u) /\ SameRecv(s, u)
      /\ u.wrote = s.wrote /\ u.st = s.st
  BY <1>2 DEF SocketType, Fields, SameSend, SameRecv
<1> HIDE DEF u
<1>4. SendOK(u) /\ Keeps(s, u)
  BY <1>3, AsideKeeps
<1> QED
  BY <1>1, <1>4, KeepsReflexive

LEMMA AckCountType ==
    ASSUME NEW s, SendOK(s), NEW ack \in SeqNrs
    PROVE  AckCount(s, ack) \in 0 .. s.cwp
<1> DEFINE n == Wrap(ack - (s.seq_nr - 1 - s.cwp))
<1>1. s.cwp \in Nat /\ n \in Nat
  <2>1. s.cwp \in Nat /\ ack - (s.seq_nr - 1 - s.cwp) \in Int
    BY WindowStartType DEF SeqNrs
  <2> QED
    BY <2>1, WrapType DEF SeqNrs
<1>2. AckCount(s, ack) = IF n > s.cwp THEN 0 ELSE n
  BY DEF AckCount
<1> HIDE DEF n
<1> QED
  BY <1>1, <1>2

\* While an ACK is worked off the window may lack its head.
Follows(s, t) == SendOK(t) /\ SameRecv(s, t) /\ NoNewSyn(s, t)

LEMMA AdvanceStateFollows ==
    ASSUME NEW s, SendOK(s), NEW p, NEW acks, NEW n \in Nat
    PROVE  LET t == AdvanceState(s, p, acks, n) IN Follows(s, t) /\ t.cwp >= s.cwp
<1> DEFINE Moves(x, y) == Follows(x, y) /\ y.cwp >= x.cwp
           t == IF p.type = "DATA" /\ s.st = "SYN_RECV"
                THEN [s EXCEPT !.st = "CONNECTED"] ELSE s
           c == [t EXCEPT !.st = "CONNECTED"]
           e == IF t.close_requested THEN "DESTROY" ELSE t.st
           f == [t EXCEPT !.fin_sent_acked = TRUE, !.st = e]
<1>1. ASSUME NEW r, SendOK(r), NEW st \in States,
             st = "SYN_SENT" => r.st = "SYN_SENT", NEW b \in BOOLEAN
      PROVE  /\ Moves(r, [r EXCEPT !.st = st])
             /\ Moves(r, [r EXCEPT !.fin_sent_acked = b, !.st = st])
  <2> DEFINE u == [r EXCEPT !.st = st]
             v == [r EXCEPT !.fin_sent_acked = b, !.st = st]
  <2>1. SocketType(r) /\ r.cwp \in Nat
    BY <1>1 DEF SendOK, SocketType
  <2>2. SocketType(u) /\ SameSend(r, u) /\ SameRecv(r, u) /\ NoNewSyn(r, u)
    BY <1>1, <2>1 DEF SocketType, Fields, SameSend, SameRecv, NoNewSyn
  <2>3. SocketType(v) /\ SameSend(r, v) /\ SameRecv(r, v) /\ NoNewSyn(r, v)
    BY <1>1, <2>1 DEF SocketType, Fields, SameSend, SameRecv, NoNewSyn
  <2> HIDE DEF u, v
  <2>4. SendOK(u) /\ SendOK(v)
    BY <1>1, <2>2, <2>3, SameSendOK
  <2>5. Moves(r, u) /\ Moves(r, v)
    BY <2>1, <2>2, <2>3, <2>4 DEF Follows, SameSend
  <2> HIDE DEF Moves
  <2> QED
    BY <2>5 DEF u, v
<1>2. \A x, y, z : SendOK(x) /\ SendOK(y) /\ SendOK(z) /\ Moves(x, y) /\ Moves(y, z) => Moves(x, z)
  <2> TAKE x, y, z
  <2> HAVE SendOK(x) /\ SendOK(y) /\ SendOK(z) /\ Moves(x, y) /\ Moves(y, z)
  <2>1. x.cwp \in Nat /\ y.cwp \in Nat /\ z.cwp \in Nat
    BY WindowStartType
  <2> QED
    BY <2>1 DEF Follows, SameRecv, NoNewSyn
<1>3. \A x, y : Moves(x, y) => SendOK(y)
  BY DEF Follows
<1>4. Moves(s, s)
  <2>1. s.cwp \in Nat
    BY WindowStartType
  <2> QED
    BY <2>1 DEF Follows, SameRecv, NoNewSyn
<1>5. "CONNECTED" \in States \ {"SYN_SENT"} /\ "DESTROY" \in States \ {"SYN_SENT"}
  BY DEF States
<1>6. AdvanceState(s, p, acks, n) \in {t, c, f}
      \/ AdvanceState(s, p, acks, n) = Write(c, n)
  BY DEF AdvanceState
<1>7. \A x, y : Moves(x, y) <=> Follows(x, y) /\ y.cwp >= x.cwp
  OBVIOUS
<1> DEFINE connected == "CONNECTED"
<1> HIDE DEF Moves, connected
<1>8. Moves(s, t)
  <2>1. Moves(s, [s EXCEPT !.st = connected])
    BY <1>1, <1>5 DEF connected
  <2> QED
    BY <1>4, <2>1 DEF connected
<1> HIDE DEF t
<1>9. SendOK(t)
  BY <1>3, <1>8
<1>10. Moves(t, c)
  <2>1. Moves(t, [t EXCEPT !.st = connected])
    BY <1>1, <1>5, <1>9 DEF connected
  <2> QED
    BY <2>1 DEF connected
<1>11. Moves(t, f)
  <2>1. e \in States /\ (e = "SYN_SENT" => t.st = "SYN_SENT")
    BY <1>5, <1>9 DEF SendOK, SocketType
  <2> DEFINE b == TRUE
  <2>2. b \in BOOLEAN
    OBVIOUS
  <2> HIDE DEF e, b
  <2>3. Moves(t, [t EXCEPT !.fin_sent_acked = b, !.st = e])
    BY <1>1, <1>9, <2>1, <2>2
  <2> QED
    BY <2>3 DEF b
<1>12. Moves(c, Write(c, n))
  <2>1. SendOK(c) /\ c.st = "CONNECTED"
    <3>1. SendOK(c) /\ SocketType(t)
      BY <1>3, <1>9, <1>10 DEF SendOK
    <3> QED
      BY <3>1 DEF SocketType, Fields
  <2> HIDE DEF c
  <2>2. Writes(c, Write(c, n))
    BY <2>1, WriteSends
  <2> QED
    BY <1>7, <2>1, <2>2 DEF Writes, Follows, NoNewSyn
<1> HIDE DEF c, f, e
<1>13. Moves(s, c) /\ Moves(s, f) /\ Moves(s, Write(c, n))
  BY <1>2, <1>3, <1>8, <1>10, <1>11, <1>12
<1> QED
  BY <1>6, <1>7, <1>8, <1>13

LEMMA RaiseFastResendKeeps ==
    ASSUME NEW s, SendOK(s), NEW ack \in SeqNrs
    PROVE  SendOK(RaiseFastResend(s, ack)) /\ Keeps(s, RaiseFastResend(s, ack))
<1> DEFINE n == Wrap(ack + 1)
           u == [s EXCEPT !.fast_resend_seq_nr = n]
<1>1. SocketType(s) /\ n \in SeqNrs
  <2>1. ack + 1 \in Int
    BY DEF SeqNrs
  <2> QED
    BY <2>1, WrapType DEF SendOK
<1>2. RaiseFastResend(s, ack) \in {s, u}
  BY DEF RaiseFastResend
<1> HIDE DEF n
<1>3. /\ SocketType(u) /\ SameSend(s, u) /\ SameRecv(s, u)
      /\ u.wrote = s.wrote /\ u.st = s.st
  BY <1>1 DEF SocketType, Fields, SameSend, SameRecv
<1> HIDE DEF u
<1>4. SendOK(u) /\ Keeps(s, u)
  BY <1>3, AsideKeeps
<1> QED
  BY <1>2, <1>4, KeepsReflexive

LEMMA FollowsTransitive ==
    \A r, s, t : Follows(r, s) /\ Follows(s, t) => Follows(r, t)
  BY DEF Follows, SameRecv, NoNewSyn

LEMMA KeepsFollows ==
    \A s, t : SendOK(t) /\ Keeps(s, t) => Follows(s, t)
  BY DEF Follows, Keeps, NoNewSyn

\* advance_send_window: in the end the window starts with a packet.
LEMMA AdvanceSendWindowFollows ==
    ASSUME NEW s, SendOK(s), NEW p \in Datagrams, NEW acks \in 0 .. s.cwp, NEW n \in Nat
    PROVE  LET t == AdvanceSendWindow(s, p, acks, n) IN Follows(s, t) /\ Headed(t)
<1> DEFINE b == [s EXCEPT !.max_window_user = p.wnd]
           u == AdvanceState(b, p, acks, n)
           v == RaiseFastResend(u, p.ack)
           a == AckCumulative(v, acks)
           k == SkipAcked(a)
           l == SendLoneLast(k)
           t == FastTimeout(l)
<1>1. SocketType(s) /\ p.wnd \in Nat /\ p.ack \in SeqNrs /\ s.cwp \in Nat
  BY DEF SendOK, SocketType, Datagrams
<1>2. SendOK(b) /\ Follows(s, b) /\ b.cwp = s.cwp
  <2> DEFINE w == p.wnd
  <2>1. w \in Nat
    BY <1>1
  <2> HIDE DEF w
  <2>2. /\ SocketType(b) /\ SameSend(s, b) /\ SameRecv(s, b)
        /\ b.wrote = s.wrote /\ b.st = s.st
    BY <1>1, <2>1 DEF SocketType, Fields, SameSend, SameRecv
  <2> HIDE DEF b
  <2> QED
    BY <2>2, AsideKeeps, KeepsFollows DEF SameSend
<1> HIDE DEF b
<1>3. Follows(b, u) /\ u.cwp >= b.cwp
  BY <1>2, AdvanceStateFollows
<1> HIDE DEF u
<1>4. SendOK(u) /\ u.cwp \in Nat
  BY <1>3, WindowStartType DEF Follows
<1>5. SendOK(v) /\ Keeps(u, v)
  BY <1>1, <1>4, RaiseFastResendKeeps
<1> HIDE DEF v
<1>6. acks \in 0 .. v.cwp
  BY <1>1, <1>2, <1>3, <1>4, <1>5 DEF Keeps, SameWindow
<1>7. SendOK(a) /\ Follows(v, a)
  BY <1>5, <1>6, AckCumulativeSends DEF Follows, NoNewSyn
<1> HIDE DEF a
<1>8. SendOK(k) /\ Follows(a, k) /\ Headed(k)
  BY <1>7, SkipAckedSends DEF Follows, NoNewSyn
<1> HIDE DEF k
<1>9. SendOK(l) /\ Keeps(k, l)
  BY <1>8, SendLoneLastKeeps
<1> HIDE DEF l
<1>10. SendOK(t) /\ Keeps(l, t)
  BY <1>9, FastTimeoutKeeps
<1>11. t = AdvanceSendWindow(s, p, acks, n)
  BY DEF AdvanceSendWindow, l, k, a, v, u, b
<1> HIDE DEF t
<1>12. Headed(t)
  BY <1>8, <1>9, <1>10, SameWindowHeaded DEF Keeps
<1>13. Follows(b, v) /\ Follows(v, k) /\ Follows(k, t)
  BY <1>3, <1>5, <1>7, <1>8, <1>9, <1>10, KeepsFollows, FollowsTransitive
<1>14. Follows(s, t)
  BY <1>2, <1>13, FollowsTransitive
<1> QED
  BY <1>11, <1>12, <1>14

LEMMA BecomeWritableOK ==
    ASSUME NEW s, SocketOK(s)
    PROVE  /\ SocketOK(BecomeWritable(s)) /\ SameRecv(s, BecomeWritable(s))
           /\ BecomeWritable(s).out = s.out
<1> DEFINE st == "CONNECTED"
           t == [s EXCEPT !.st = st]
<1>1. st \in States \ {"SYN_SENT"} /\ SocketType(s)
  BY DEF States, SocketOK, SendOK
<1>2. BecomeWritable(s) \in {s, t}
  BY DEF BecomeWritable
<1> HIDE DEF st
<1>3. SocketOK(t) /\ SameRecv(s, t) /\ t.out = s.out
  BY <1>1, StateOK DEF SameRecv, SocketType, Fields
<1> HIDE DEF t
<1> QED
  BY <1>2, <1>3 DEF SameRecv

-----------------------------------------------------------------------------
(* process_incoming: delivery *)

\* The drain loop ends.
LEMMA DrainEnds ==
    ASSUME NEW r, r.reorder_count \in Nat
    PROVE  \E n \in 0 .. r.reorder_count : DrainStops(r, n)
<1> DEFINE Stop(n) == \/ AtEof(r, n)
                      \/ n = r.reorder_count
                      \/ r.inbuf[Wrap(r.ack_nr + n + 1)] = NULL
           T == {n \in 0 .. r.reorder_count : Stop(n)}
<1>1. T \in SUBSET Nat /\ T # {}
  <2>1. r.reorder_count \in T
    OBVIOUS
  <2> QED
    BY <2>1
<1>2. PICK n \in T : \A y \in T : n <= y
  <2> HIDE DEF T
  <2> QED
    BY <1>1, Plus!Smallest
<1>3. \A i \in 0 .. n - 1 : ~Stop(i)
  <2> TAKE i \in 0 .. n - 1
  <2>1. i \in 0 .. r.reorder_count /\ ~(n <= i)
    BY <1>2
  <2> QED
    BY <1>2, <2>1
<1>4. n \in 0 .. r.reorder_count /\ Stop(n)
  BY <1>2
<1>5. DrainStops(r, n)
  BY <1>3, <1>4 DEF DrainStops
<1> QED
  BY <1>4, <1>5

\* The receive half of a socket changed: what is to be shown of it.
LEMMA ReceivedOK ==
    ASSUME NEW s, SocketOK(s), NEW t, SocketType(t), SameSend(s, t), NoNewSyn(s, t),
           s.st # "SYN_SENT", t.reorder_count <= Cardinality(Filled(t))
    PROVE  SocketOK(t)
<1>1. SendOK(t) /\ SameWindow(s, t)
  BY SameSendOK DEF SocketOK
<1> QED
  BY <1>1, SameWindowHeaded DEF SocketOK, RecvOK, NoNewSyn

\* What the drain loop leaves is still in the window and not next in line.
LEMMA DrainCountOK ==
    ASSUME NEW s, SocketType(s), s.reorder_count <= Cardinality(Filled(s)),
           NEW r, r.ack_nr = Wrap(s.ack_nr + 1), r.inbuf = s.inbuf,
           r.reorder_count = s.reorder_count,
           NEW n \in 0 .. r.reorder_count, DrainStops(r, n),
           NEW d, d.ack_nr = Wrap(r.ack_nr + n),
           \A q \in SeqNrs : d.inbuf[q] = IF Ahead(r, q) < n THEN NULL ELSE r.inbuf[q],
           d.reorder_count = IF AtEof(r, n) THEN 0 ELSE r.reorder_count - n
    PROVE  d.reorder_count <= Cardinality(Filled(d))
<1> DEFINE x == s.ack_nr
           F == Filled(s)
           G == Filled(d)
           D == {Wrap(r.ack_nr + i) : i \in 1 .. n}
<1>1. x \in SeqNrs /\ x \in Int /\ s.reorder_count \in Nat /\ n \in Nat
      /\ r.ack_nr \in SeqNrs /\ r.ack_nr \in Int
  <2>1. x \in SeqNrs /\ x \in Int /\ s.reorder_count \in Nat
    BY DEF SocketType, SeqNrs
  <2>2. r.ack_nr \in SeqNrs /\ r.ack_nr \in Int
    BY <2>1, WrapType DEF SeqNrs
  <2> QED
    BY <2>1, <2>2
<1>2. CASE AtEof(r, n) \/ n = r.reorder_count
  BY <1>1, <1>2, FilledFinite
<1>3. CASE ~AtEof(r, n) /\ n # r.reorder_count
  <2>1. r.inbuf[Wrap(r.ack_nr + n + 1)] = NULL
    BY <1>3 DEF DrainStops
  <2> HIDE DEF x
  <2>2. ASSUME NEW q \in SeqNrs, NEW k \in Int, NEW a \in Int, NEW e, e.ack_nr = Wrap(a)
        PROVE  Ahead(e, q) = Wrap(q - a - 1)
    <3> DEFINE j == -1
    <3>1. q \in Int /\ j \in Int /\ Wrap(q) = q
      BY WrapIdentity DEF SeqNrs
    <3> HIDE DEF j
    <3>2. Wrap(Wrap(q) - Wrap(a) + j) = Wrap(q - a + j)
      BY <3>1, WrapDifference
    <3>3. Wrap(a) \in Int
      BY WrapType DEF SeqNrs
    <3>4. q - Wrap(a) - 1 = Wrap(q) - Wrap(a) + j /\ q - a - 1 = q - a + j
      BY <3>1, <3>3 DEF j
    <3> QED
      BY <2>2, <3>2, <3>4 DEF Ahead
  <2>3. r.ack_nr = Wrap(x + 1) /\ d.ack_nr = Wrap(x + 1 + n) /\ s.ack_nr = Wrap(x)
    <3>1. Wrap(Wrap(x + 1) + n) = Wrap((x + 1) + n)
      BY <1>1, WrapAdd
    <3> QED
      BY <1>1, <3>1, WrapIdentity DEF x
  <2>4. F \subseteq G \cup D
    <3> SUFFICES ASSUME NEW q \in F, q \notin D PROVE q \in G
      OBVIOUS
    <3> DEFINE e == Ahead(s, q)
    <3>1. q \in SeqNrs /\ q \in Int /\ s.inbuf[q] # NULL /\ e \in 1 .. REORDER_MAX - 1
      BY DEF Filled, SeqNrs
    <3> HIDE DEF e
    <3>2. e = Wrap(q - x - 1) /\ Ahead(r, q) = Wrap(q - (x + 1) - 1)
          /\ Ahead(d, q) = Wrap(q - (x + 1 + n) - 1)
      BY <1>1, <2>2, <2>3, <3>1 DEF e
    <3>3. \A k \in Int : Wrap(e - k) = Wrap(q - x - 1 - k)
      <4> TAKE k \in Int
      <4> DEFINE y == q - x - 1
                 z == -k
      <4>1. y \in Int /\ z \in Int /\ y + z = q - x - 1 - k
        BY <1>1, <3>1
      <4> HIDE DEF y, z
      <4>2. Wrap(Wrap(y) + z) = Wrap(y + z)
        BY <4>1, WrapAdd
      <4>3. e = Wrap(y) /\ e \in Int
        BY <3>1, <3>2 DEF y
      <4>4. Wrap(y) + z = e - k
        BY <4>3 DEF z
      <4> QED
        BY <4>1, <4>2, <4>4
    <3>4. \A k \in 0 .. e : Wrap(e - k) = e - k
      <4> TAKE k \in 0 .. e
      <4>1. e - k \in SeqNrs
        BY <3>1, ReorderMaxAssumption, SeqModAssumption DEF SeqNrs
      <4> QED
        BY <4>1, WrapIdentity
    <3>5. Ahead(r, q) = e - 1
      <4>1. 1 \in 0 .. e /\ q - (x + 1) - 1 = q - x - 1 - 1
        BY <1>1, <3>1
      <4> QED
        BY <3>1, <3>2, <3>3, <3>4, <4>1
    <3>6. q = Wrap(x + 1 + e)
      <4> DEFINE y == q - x - 1
                 z == x + 1
      <4>1. y \in Int /\ z \in Int /\ y + z = q
        BY <1>1, <3>1
      <4> HIDE DEF y, z
      <4>2. Wrap(Wrap(y) + z) = Wrap(y + z)
        BY <4>1, WrapAdd
      <4>3. e = Wrap(y) /\ Wrap(q) = q
        BY <3>1, <3>2, WrapIdentity DEF y
      <4>4. e + z = x + 1 + e
        BY <1>1, <3>1 DEF z
      <4> QED
        BY <4>1, <4>2, <4>3, <4>4
    <3>7. \A i \in Int : Wrap(r.ack_nr + i) = Wrap(x + 1 + i)
      <4> TAKE i \in Int
      <4>1. Wrap(Wrap(x + 1) + i) = Wrap((x + 1) + i)
        BY <1>1, WrapAdd
      <4> QED
        BY <2>3, <4>1
    <3>8. e > n
      <4> SUFFICES ASSUME e <= n PROVE FALSE
        BY <1>1, <3>1
      <4>1. e \in 1 .. n /\ e \in Int
        BY <1>1, <3>1
      <4>2. q = Wrap(r.ack_nr + e)
        BY <3>6, <3>7, <4>1
      <4> QED
        BY <4>1, <4>2
    <3>9. d.inbuf[q] = s.inbuf[q]
      <4>1. ~(e - 1 < n)
        BY <1>1, <3>1, <3>8
      <4> QED
        BY <3>1, <3>5, <4>1
    <3>10. Ahead(d, q) = e - (n + 1)
      <4> DEFINE k == n + 1
      <4>1. k \in 0 .. e /\ k \in Int /\ q - (x + 1 + n) - 1 = q - x - 1 - k
        BY <1>1, <3>1, <3>8
      <4> HIDE DEF k
      <4>2. Ahead(d, q) = e - k
        BY <3>2, <3>3, <3>4, <4>1
      <4> QED
        BY <4>2 DEF k
    <3>11. e # n + 1
      <4> SUFFICES ASSUME e = n + 1 PROVE FALSE
        OBVIOUS
      <4>1. r.ack_nr + e = r.ack_nr + n + 1 /\ e \in Int
        BY <1>1, <3>1
      <4>2. q = Wrap(r.ack_nr + n + 1)
        BY <3>6, <3>7, <4>1
      <4> QED
        BY <2>1, <3>1, <4>2
    <3>12. Ahead(d, q) \in 1 .. REORDER_MAX - 1
      BY <1>1, <3>1, <3>8, <3>10, <3>11, ReorderMaxAssumption
    <3> QED
      BY <3>1, <3>9, <3>12 DEF Filled
  <2>5. IsFiniteSet(D) /\ Cardinality(D) <= n
    <3> DEFINE I == 1 .. n
               f == [i \in I |-> Wrap(r.ack_nr + i)]
    <3>1. IsFiniteSet(I) /\ Cardinality(I) = n
      BY <1>1, FS_Interval
    <3>2. D = {f[i] : i \in I}
      OBVIOUS
    <3>3. f \in [I -> D]
      OBVIOUS
    <3>4. \A y \in D : \E i \in I : f[i] = y
      BY <3>2
    <3> HIDE DEF f, I, D
    <3>5. f \in Surjection(I, D)
      BY <3>3, <3>4 DEF Surjection
    <3> QED
      BY <3>1, <3>5, FS_Surjection
  <2>6. /\ IsFiniteSet(F) /\ IsFiniteSet(G) /\ Cardinality(F) \in Nat
        /\ Cardinality(G) \in Nat /\ Cardinality(D) \in Nat
    BY <2>5, FilledFinite, FS_CardinalityType
  <2> HIDE DEF F, G, D
  <2>7. Cardinality(F) <= Cardinality(G) + Cardinality(D)
    <3>1. /\ IsFiniteSet(G \cup D)
          /\ Cardinality(G \cup D) = Cardinality(G) + Cardinality(D) - Cardinality(G \cap D)
      BY <2>5, <2>6, FS_Union
    <3>2. Cardinality(G \cap D) \in Nat
      <4>1. IsFiniteSet(G \cap D)
        BY <2>6, FS_Intersection
      <4> QED
        BY <4>1, FS_CardinalityType
    <3>3. Cardinality(F) <= Cardinality(G \cup D)
      BY <2>4, <3>1, FS_Subset
    <3> QED
      BY <2>6, <3>1, <3>2, <3>3
  <2>8. s.reorder_count <= Cardinality(F)
    BY DEF F
  <2>9. s.reorder_count - n <= Cardinality(G)
    BY <1>1, <2>5, <2>6, <2>7, <2>8
  <2>10. d.reorder_count = s.reorder_count - n
    BY <1>3
  <2> QED
    BY <2>9, <2>10 DEF G
<1> QED
  BY <1>2, <1>3

\* What has been read is more, and nothing of what was read before has changed.
Continues(x, y) == Len(x) <= Len(y) /\ \A i \in 1 .. Len(x) : y[i] = x[i]

\* From s to t the application may have read more, and may have reached the end.
ReadsOn(s, t) ==
  /\ t.read_shutdown = s.read_shutdown /\ Continues(s.delivered, t.delivered)
  /\ s.read_shutdown => t.delivered = s.delivered
  /\ s.got_fin_reached => t.got_fin_reached

LEMMA SameReadsOn ==
    ASSUME NEW s, SocketType(s), NEW t, t.delivered = s.delivered,
           t.read_shutdown = s.read_shutdown, t.got_fin_reached = s.got_fin_reached
    PROVE  ReadsOn(s, t)
<1>1. Len(s.delivered) \in Nat
  BY LenProperties DEF SocketType
<1> QED
  BY <1>1 DEF ReadsOn, Continues

LEMMA ReadsOnTransitive ==
    ASSUME NEW r, SocketType(r), NEW s, SocketType(s), NEW t, SocketType(t),
           ReadsOn(r, s), ReadsOn(s, t)
    PROVE  ReadsOn(r, t)
<1> DEFINE x == r.delivered
           y == s.delivered
           z == t.delivered
<1>1. Len(x) \in Nat /\ Len(y) \in Nat /\ Len(z) \in Nat
  BY LenProperties DEF SocketType
<1>2. Continues(x, y) /\ Continues(y, z)
  BY DEF ReadsOn
<1> HIDE DEF x, y, z
<1>3. Continues(x, z)
  BY <1>1, <1>2 DEF Continues
<1> QED
  BY <1>3 DEF ReadsOn, x, z

LEMMA NoteFinOK ==
    ASSUME NEW s, SocketOK(s), NEW type, NEW seq \in SeqNrs
    PROVE  LET t == NoteFin(s, type, seq)
           IN  /\ SocketOK(t) /\ SameSend(s, t) /\ SameRecv(s, t) /\ t.st = s.st
               /\ ReadsOn(s, t)
<1> DEFINE u == [s EXCEPT !.got_fin = TRUE, !.eof_pkt = seq]
<1>1. NoteFin(s, type, seq) \in {s, u}
  BY DEF NoteFin
<1>2. SocketType(s)
  BY DEF SocketOK, SendOK
<1>3. /\ SocketType(u) /\ SameSend(s, u) /\ SameRecv(s, u) /\ NoNewSyn(s, u)
      /\ u.st = s.st /\ u.delivered = s.delivered /\ u.read_shutdown = s.read_shutdown
      /\ u.got_fin_reached = s.got_fin_reached
  BY <1>2 DEF SocketType, Fields, SameSend, SameRecv, NoNewSyn
<1> HIDE DEF u
<1>4. SocketOK(u)
  BY <1>3, AsideOK
<1>5. ReadsOn(s, s) /\ ReadsOn(s, u)
  BY <1>2, <1>3, SameReadsOn
<1> QED
  BY <1>1, <1>3, <1>4, <1>5 DEF SameSend, SameRecv

\* The next packet in order, and the buffered ones that follow it.
LEMMA InOrderOK ==
    ASSUME NEW s, SocketOK(s), s.st # "SYN_SENT", NEW data \in Seq(Nat),
           NEW n \in 0 .. s.reorder_count, DrainStops(AcceptInOrder(s, data), n)
    PROVE  LET d == Drain(AcceptInOrder(s, data), n)
           IN  SocketOK(d) /\ d.st = s.st /\ ReadsOn(s, d)
<1> DEFINE r == AcceptInOrder(s, data)
           ack == Wrap(s.ack_nr + 1)
           del == IF s.read_shutdown THEN s.delivered ELSE Append(s.delivered, data)
           run == [i \in 1 .. n |-> r.inbuf[Wrap(r.ack_nr + i)]]
           read == IF r.read_shutdown THEN r.delivered ELSE r.delivered \o run
           buf == [q \in SeqNrs |-> IF Ahead(r, q) < n THEN NULL ELSE r.inbuf[q]]
           next == Wrap(r.ack_nr + n)
           eof == r.got_fin_reached \/ AtEof(r, n)
           k == IF AtEof(r, n) THEN 0 ELSE r.reorder_count - n
           d == Drain(r, n)
<1>1. SocketType(s) /\ s.reorder_count \in Nat /\ n \in Nat
  BY DEF SocketOK, SendOK, SocketType
<1>2. ack \in SeqNrs
  <2>1. s.ack_nr \in SeqNrs
    BY <1>1 DEF SocketType
  <2>2. s.ack_nr + 1 \in Int
    BY <2>1 DEF SeqNrs
  <2> QED
    BY <2>2, WrapType
<1>3. del \in Seq(Seq(Nat)) /\ Continues(s.delivered, del)
  <2> DEFINE S == Seq(Nat)
             x == s.delivered
  <2>1. x \in Seq(S) /\ data \in S
    BY <1>1 DEF SocketType
  <2> HIDE DEF S, x
  <2>2. x \in Seq(S) /\ Len(x) \in Nat
    BY <2>1, LenProperties
  <2>3. /\ Append(x, data) \in Seq(S) /\ Len(Append(x, data)) = Len(x) + 1
        /\ \A i \in 1 .. Len(x) : Append(x, data)[i] = x[i]
    BY <2>1, AppendProperties
  <2>4. Continues(x, x) /\ Continues(x, Append(x, data))
    BY <2>2, <2>3 DEF Continues
  <2> QED
    BY <2>2, <2>3, <2>4 DEF S, x
<1>4. r = [s EXCEPT !.delivered = del, !.ack_nr = ack]
  BY DEF AcceptInOrder
<1>5. /\ d = [r EXCEPT !.delivered = read, !.inbuf = buf, !.ack_nr = next,
                       !.got_fin_reached = eof, !.reorder_count = k]
      /\ \A q \in SeqNrs : buf[q] = IF Ahead(r, q) < n THEN NULL ELSE r.inbuf[q]
  BY DEF Drain
<1> HIDE DEF r, ack, del
<1>6. /\ SocketType(r) /\ SameSend(s, r) /\ NoNewSyn(s, r) /\ r.st = s.st
      /\ r.ack_nr = ack /\ r.inbuf = s.inbuf /\ r.reorder_count = s.reorder_count
      /\ r.delivered = del /\ r.read_shutdown = s.read_shutdown
      /\ r.got_fin_reached = s.got_fin_reached
  BY <1>1, <1>2, <1>3, <1>4 DEF SocketType, Fields, SameSend, NoNewSyn
<1>7. DrainStops(r, n)
  BY DEF r
<1>8. r.ack_nr \in Int /\ \A i \in Int : Wrap(r.ack_nr + i) \in SeqNrs
  <2>1. r.ack_nr \in Int
    BY <1>2, <1>6 DEF SeqNrs
  <2>2. \A i \in Int : r.ack_nr + i \in Int
    BY <2>1
  <2> QED
    BY <2>1, <2>2, WrapType
<1>9. run \in Seq(Seq(Nat))
  <2> SUFFICES ASSUME NEW i \in 1 .. n PROVE r.inbuf[Wrap(r.ack_nr + i)] \in Seq(Nat)
    BY <1>1
  <2>1. i - 1 \in 0 .. n - 1 /\ r.ack_nr + (i - 1) + 1 = r.ack_nr + i
    BY <1>1, <1>8
  <2>2. r.inbuf[Wrap(r.ack_nr + i)] # NULL
    BY <1>7, <2>1 DEF DrainStops
  <2>3. r.inbuf[Wrap(r.ack_nr + i)] \in Seq(Nat) \cup {NULL}
    <3>1. Wrap(r.ack_nr + i) \in SeqNrs /\ r.inbuf \in Inbufs
      BY <1>1, <1>6, <1>8 DEF SocketType
    <3> QED
      BY <3>1 DEF Inbufs
  <2> QED
    BY <2>2, <2>3
<1> HIDE DEF run
<1>10. read \in Seq(Seq(Nat)) /\ Continues(r.delivered, read)
  <2> DEFINE S == Seq(Nat)
             x == r.delivered
  <2>1. x \in Seq(S) /\ run \in Seq(S)
    BY <1>6, <1>9 DEF SocketType
  <2> HIDE DEF S, x
  <2>2. Len(x) \in Nat /\ Len(run) \in Nat
    BY <2>1, LenProperties
  <2>3. /\ x \o run \in Seq(S) /\ Len(x \o run) = Len(x) + Len(run)
        /\ \A i \in 1 .. Len(x) + Len(run) :
             (x \o run)[i] = IF i <= Len(x) THEN x[i] ELSE run[i - Len(x)]
    BY <2>1, ConcatProperties
  <2>4. Continues(x, x) /\ Continues(x, x \o run)
    <3> DEFINE y == x \o run
    <3>1. \A i \in 1 .. Len(x) : i \in 1 .. Len(x) + Len(run) /\ i <= Len(x)
      BY <2>2
    <3>2. \A i \in 1 .. Len(x) : y[i] = x[i]
      BY <2>3, <3>1
    <3>3. Len(y) = Len(x) + Len(run)
      BY <2>3
    <3> HIDE DEF y
    <3>4. Continues(x, y)
      BY <2>2, <3>2, <3>3 DEF Continues
    <3> QED
      BY <2>2, <3>4 DEF Continues, y
  <2>5. read \in Seq(S)
    BY <2>1, <2>3 DEF x
  <2>6. Continues(x, read)
    BY <2>4 DEF x
  <2> QED
    BY <2>5, <2>6 DEF S, x
<1>11. buf \in Inbufs
  <2>1. \A q \in SeqNrs : r.inbuf[q] \in Seq(Nat) \cup {NULL}
    BY <1>6 DEF SocketType, Inbufs
  <2> QED
    BY <2>1 DEF Inbufs
<1>12. next \in SeqNrs /\ k \in Nat /\ eof \in BOOLEAN
  <2>1. next \in SeqNrs
    BY <1>1, <1>8
  <2>2. k \in Nat
    BY <1>1, <1>6
  <2>3. eof \in BOOLEAN
    OBVIOUS
  <2> QED
    BY <2>1, <2>2, <2>3
<1> HIDE DEF read, buf, next, eof, k, d
<1>13. /\ SocketType(d) /\ SameSend(r, d) /\ NoNewSyn(r, d) /\ d.st = r.st
       /\ d.ack_nr = next /\ d.inbuf = buf /\ d.reorder_count = k
       /\ d.delivered = read /\ d.read_shutdown = r.read_shutdown
       /\ d.got_fin_reached = eof
  BY <1>5, <1>6, <1>10, <1>11, <1>12 DEF SocketType, Fields, SameSend, NoNewSyn
<1>14. d.reorder_count <= Cardinality(Filled(d))
  <2>1. s.reorder_count <= Cardinality(Filled(s))
    BY DEF SocketOK, RecvOK
  <2>2. r.ack_nr = Wrap(s.ack_nr + 1) /\ n \in 0 .. r.reorder_count
    BY <1>6 DEF ack
  <2>3. d.ack_nr = Wrap(r.ack_nr + n)
    BY <1>13 DEF next
  <2>4. d.reorder_count = IF AtEof(r, n) THEN 0 ELSE r.reorder_count - n
    BY <1>13 DEF k
  <2>5. \A q \in SeqNrs : d.inbuf[q] = IF Ahead(r, q) < n THEN NULL ELSE r.inbuf[q]
    BY <1>5, <1>13
  <2> QED
    BY <1>1, <1>6, <1>7, <2>1, <2>2, <2>3, <2>4, <2>5, DrainCountOK
<1>15. SameSend(s, d) /\ NoNewSyn(s, d) /\ d.st = s.st
  BY <1>6, <1>13 DEF SameSend, NoNewSyn
<1>16. SocketOK(d)
  BY <1>13, <1>14, <1>15, ReceivedOK
<1>17. ReadsOn(s, d)
  <2>1. ReadsOn(s, r)
    BY <1>3, <1>6 DEF ReadsOn, del
  <2>2. ReadsOn(r, d)
    BY <1>10, <1>13 DEF ReadsOn, read, eof
  <2> QED
    BY <1>1, <1>6, <1>13, <2>1, <2>2, ReadsOnTransitive
<1>18. d = Drain(AcceptInOrder(s, data), n)
  BY DEF d, r
<1> QED
  BY <1>15, <1>16, <1>17, <1>18

\* A packet goes into the reorder buffer.
LEMMA StoreOK ==
    ASSUME NEW s, SocketOK(s), s.st # "SYN_SENT", NEW data \in Seq(Nat),
           NEW seq \in SeqNrs, Ahead(s, seq) \in 1 .. REORDER_MAX - 1, s.inbuf[seq] = NULL
    PROVE  LET t == Store(s, seq, data) IN SocketOK(t) /\ t.st = s.st /\ ReadsOn(s, t)
<1> DEFINE buf == [s.inbuf EXCEPT ![seq] = data]
           k == s.reorder_count + 1
           t == [s EXCEPT !.inbuf = buf, !.reorder_count = k]
<1>1. SocketType(s) /\ s.inbuf \in Inbufs /\ s.reorder_count \in Nat
      /\ s.reorder_count <= Cardinality(Filled(s))
  BY DEF SocketOK, SendOK, RecvOK, SocketType
<1>2. buf \in Inbufs /\ k \in Nat
  BY <1>1 DEF Inbufs
<1>3. /\ \A q \in SeqNrs \ {seq} : buf[q] = s.inbuf[q]
      /\ buf[seq] = data /\ data # NULL
  BY <1>1, SendAssumption DEF Inbufs
<1>4. Store(s, seq, data) = t
  BY DEF Store
<1> HIDE DEF buf, k
<1>5. /\ SocketType(t) /\ SameSend(s, t) /\ NoNewSyn(s, t) /\ t.st = s.st
      /\ t.ack_nr = s.ack_nr /\ t.inbuf = buf /\ t.reorder_count = k
      /\ t.delivered = s.delivered /\ t.read_shutdown = s.read_shutdown
      /\ t.got_fin_reached = s.got_fin_reached
  BY <1>1, <1>2 DEF SocketType, Fields, SameSend, NoNewSyn
<1> HIDE DEF t
<1>6. Filled(t) = Filled(s) \cup {seq} /\ seq \notin Filled(s)
  BY <1>3, <1>5 DEF Filled, Ahead
<1>7. Cardinality(Filled(t)) = Cardinality(Filled(s)) + 1
  <2> DEFINE F == Filled(s)
  <2>1. IsFiniteSet(F) /\ seq \notin F
    BY <1>6, FilledFinite
  <2> HIDE DEF F
  <2>2. Cardinality(F \cup {seq}) = Cardinality(F) + 1
    BY <2>1, FS_AddElement
  <2> QED
    BY <1>6, <2>2 DEF F
<1>8. t.reorder_count <= Cardinality(Filled(t))
  BY <1>1, <1>5, <1>7, FilledFinite DEF k
<1>9. SocketOK(t)
  BY <1>5, <1>8, ReceivedOK
<1>10. ReadsOn(s, t)
  BY <1>1, <1>5, SameReadsOn
<1> QED
  BY <1>4, <1>5, <1>9, <1>10

\* What on_read gets in one call.
LEMMA DeliveredType ==
    ASSUME NEW r, r.delivered \in Seq(Seq(Nat)), NEW a \in Nat
    PROVE  MapThenSumSet(LAMBDA i : Len(r.delivered[i]), a + 1 .. Len(r.delivered)) \in Nat
<1> DEFINE Q == a + 1 .. Len(r.delivered)
           w == [i \in Q |-> Len(r.delivered[i])]
           Inner(it) == [t \in SUBSET Q |-> IF t = {} THEN 0
                           ELSE Len(r.delivered[CHOOSE x \in t : TRUE])
                                  + it[t \ {CHOOSE x \in t : TRUE}]]
           Outer(it) == [t \in SUBSET Q |-> IF t = {} THEN 0
                           ELSE w[CHOOSE x \in t : TRUE]
                                  + it[t \ {CHOOSE x \in t : TRUE}]]
           got == MapThenSumSet(LAMBDA i : Len(r.delivered[i]), Q)
<1>1. \A i \in Q : w[i] = Len(r.delivered[i])
  OBVIOUS
<1>2. \A it : Inner(it) = Outer(it)
  <2> TAKE it
  <2>1. \A t \in SUBSET Q : t # {} => (CHOOSE x \in t : TRUE) \in Q
    OBVIOUS
  <2> HIDE DEF w, Q
  <2> QED
    BY <1>1, <2>1
<1>3. got = (CHOOSE it : it = Inner(it))[Q]
  BY DEF MapThenSumSet, MapThenFoldSet
<1>4. Total(w, Q) = (CHOOSE it : it = Outer(it))[Q]
  BY DEF Total, MapThenSumSet, MapThenFoldSet
<1>5. IsFiniteSet(Q) /\ \A i \in Q : w[i] \in Nat
  <2> DEFINE S == Seq(Nat)
  <2>1. r.delivered \in Seq(S) /\ Len(r.delivered) \in Nat
    BY LenProperties
  <2> HIDE DEF S
  <2>2. \A i \in 1 .. Len(r.delivered) : r.delivered[i] \in S
    BY <2>1, ElementOfSeq
  <2>3. \A i \in Q : r.delivered[i] \in S
    BY <2>1, <2>2
  <2>4. IsFiniteSet(Q)
    BY <2>1, FS_Interval
  <2> QED
    BY <2>3, <2>4, LenProperties DEF S
<1> HIDE DEF Inner, Outer, w, got
<1>6. (CHOOSE it : it = Inner(it)) = (CHOOSE it : it = Outer(it))
  BY <1>2
<1>7. Total(w, Q) \in Nat
  <2> HIDE DEF Q
  <2> QED
    BY <1>5, TotalType
<1>8. got \in Nat
  BY <1>3, <1>4, <1>6, <1>7
<1> QED
  BY <1>8 DEF got

\* The drain loop ends.
LEMMA DrainCountExists ==
    ASSUME NEW s, SocketOK(s), NEW type, NEW seq \in SeqNrs, NEW data
    PROVE  DrainCounts(s, type, seq, data) # {}
<1> DEFINE r1 == NoteFin(s, type, seq)
           b == AcceptInOrder(r1, data)
           C == DrainCounts(s, type, seq, data)
<1>1. SocketOK(r1)
  BY NoteFinOK
<1>2. C = IF Ahead(r1, seq) = 0 THEN {k \in 0 .. r1.reorder_count : DrainStops(b, k)} ELSE {0}
  BY DEF DrainCounts
<1> HIDE DEF r1, C
<1>3. b.reorder_count = r1.reorder_count /\ r1.reorder_count \in Nat
  BY <1>1 DEF AcceptInOrder, SocketOK, SendOK, SocketType, Fields
<1> HIDE DEF b
<1>4. \E k \in 0 .. b.reorder_count : DrainStops(b, k)
  BY <1>3, DrainEnds
<1>5. C # {}
  BY <1>2, <1>3, <1>4
<1> QED
  BY <1>5 DEF C

LEMMA DeliverDataOK ==
    ASSUME NEW s, SocketOK(s), s.st # "SYN_SENT", NEW type, NEW seq \in SeqNrs,
           Ahead(s, seq) < REORDER_MAX, NEW data \in Seq(Nat),
           NEW n \in DrainCounts(s, type, seq, data)
    PROVE  LET r == DeliverData(s, type, seq, data, n)
           IN  SocketOK(r) /\ r.st = s.st /\ ReadsOn(s, r)
<1> DEFINE C == DrainCounts(s, type, seq, data)
           r1 == NoteFin(s, type, seq)
           r == DeliverData(s, type, seq, data, n)
<1>1. SocketType(s)
  BY DEF SocketOK, SendOK
<1>2. SocketOK(r1) /\ SameSend(s, r1) /\ SameRecv(s, r1) /\ r1.st = s.st /\ ReadsOn(s, r1)
  BY NoteFinOK
<1>3. /\ C = IF Ahead(r1, seq) = 0
             THEN {k \in 0 .. r1.reorder_count : DrainStops(AcceptInOrder(r1, data), k)}
             ELSE {0}
      /\ r = IF Ahead(r1, seq) = 0 THEN Drain(AcceptInOrder(r1, data), n)
             ELSE IF Rejected(r1, seq) THEN r1
             ELSE Store(r1, seq, data)
      /\ n \in C
  BY DEF DrainCounts, DeliverData
<1> HIDE DEF r1, C, r
<1>7. ASSUME NEW d, SocketOK(d), d.st = r1.st, ReadsOn(r1, d), r = d
      PROVE  SocketOK(r) /\ r.st = s.st /\ ReadsOn(s, r)
  <2>1. SocketType(r1) /\ SocketType(d)
    BY <1>2, <1>7 DEF SocketOK, SendOK
  <2> QED
    BY <1>1, <1>2, <1>7, <2>1, ReadsOnTransitive
<1>4. CASE Ahead(r1, seq) = 0
  <2>1. n \in 0 .. r1.reorder_count /\ DrainStops(AcceptInOrder(r1, data), n)
    BY <1>3, <1>4
  <2>2. /\ SocketOK(Drain(AcceptInOrder(r1, data), n))
        /\ Drain(AcceptInOrder(r1, data), n).st = r1.st
        /\ ReadsOn(r1, Drain(AcceptInOrder(r1, data), n))
    BY <1>2, <2>1, InOrderOK
  <2> QED
    BY <1>3, <1>4, <1>7, <2>2 DEF r
<1>5. CASE Ahead(r1, seq) # 0 /\ ~Rejected(r1, seq)
  <2>1. Ahead(r1, seq) \in 1 .. REORDER_MAX - 1 /\ r1.inbuf[seq] = NULL
    <3>1. Ahead(r1, seq) = Ahead(s, seq)
      BY <1>2 DEF Ahead, SameRecv
    <3>2. Ahead(s, seq) \in SeqNrs
      <4>1. s.ack_nr \in SeqNrs
        BY <1>1 DEF SocketType
      <4>2. seq - s.ack_nr - 1 \in Int
        BY <4>1 DEF SeqNrs
      <4> QED
        BY <4>2, WrapType DEF Ahead
    <3> QED
      BY <1>5, <3>1, <3>2, ReorderMaxAssumption DEF SeqNrs, Rejected
  <2>2. /\ SocketOK(Store(r1, seq, data)) /\ Store(r1, seq, data).st = r1.st
        /\ ReadsOn(r1, Store(r1, seq, data))
    BY <1>2, <2>1, StoreOK
  <2> QED
    BY <1>3, <1>5, <1>7, <2>2 DEF r
<1>6. CASE Ahead(r1, seq) # 0 /\ Rejected(r1, seq)
  BY <1>2, <1>3, <1>6 DEF r
<1> QED
  BY <1>4, <1>5, <1>6

\* The bytes that deliver_data hands up between s and r.
Got(s, r) ==
  MapThenSumSet(LAMBDA i : Len(r.delivered[i]), Len(s.delivered) + 1 .. Len(r.delivered))

LEMMA GotType ==
    ASSUME NEW s, SocketType(s), NEW r, SocketType(r)
    PROVE  r.unread + Got(s, r) \in Nat
<1> DEFINE a == Len(s.delivered)
<1>1. a \in Nat
  <2>1. s.delivered \in Seq(Seq(Nat))
    BY DEF SocketType
  <2> QED
    BY <2>1, LenProperties
<1>2. Got(s, r) = MapThenSumSet(LAMBDA i : Len(r.delivered[i]), a + 1 .. Len(r.delivered))
  BY DEF Got
<1> HIDE DEF a
<1>3. r.delivered \in Seq(Seq(Nat)) /\ r.unread \in Nat
  BY DEF SocketType
<1>4. Got(s, r) \in Nat
  BY <1>1, <1>2, <1>3, DeliveredType
<1> QED
  BY <1>3, <1>4

\* deliver_data.
LEMMA DeliverOK ==
    ASSUME NEW s, SocketOK(s), s.st # "SYN_SENT", NEW p \in Datagrams,
           Ahead(s, p.seq) < REORDER_MAX, NEW hold \in BOOLEAN
    PROVE  SocketOK(Deliver(s, p, hold))
<1> DEFINE C == DrainCounts(s, p.type, p.seq, p.data)
           n == CHOOSE k \in C : TRUE
           r == DeliverData(s, p.type, p.seq, p.data, n)
           m == r.unread + Got(s, r)
           v == [r EXCEPT !.unread = m]
           u == IF hold THEN v ELSE r
           f == [u EXCEPT !.rto_armed = TRUE]
           e == IF u.got_fin_reached /\ ~s.got_fin_reached THEN SendAck(f) ELSE u
<1>1. SocketType(s) /\ p.seq \in SeqNrs /\ p.data \in Seq(Nat)
  BY DEF SocketOK, SendOK, Datagrams
<1>2. Deliver(s, p, hold) = IF u.ack_nr # s.ack_nr \/ u.reorder_count # s.reorder_count
                            THEN ScheduleAck(e) ELSE e
  BY DEF Deliver, Got
<1>3. n \in C
  BY <1>1, DrainCountExists
<1> HIDE DEF n
<1>4. SocketOK(r)
  BY <1>1, <1>3, DeliverDataOK
<1> HIDE DEF r
<1>5. SocketType(r)
  BY <1>4 DEF SocketOK, SendOK
<1>6. m \in Nat
  BY <1>1, <1>5, GotType
<1> HIDE DEF m
<1>7. SocketOK(u)
  <2>1. SocketType(v) /\ SameSend(r, v) /\ SameRecv(r, v) /\ NoNewSyn(r, v)
    BY <1>5, <1>6 DEF SocketType, Fields, SameSend, SameRecv, NoNewSyn
  <2> HIDE DEF v
  <2>2. SocketOK(v)
    BY <1>4, <2>1, AsideOK
  <2> QED
    BY <1>4, <2>2
<1> HIDE DEF u
<1>8. SocketOK(e)
  <2>1. SocketType(u)
    BY <1>7 DEF SocketOK, SendOK
  <2>2. SocketType(f) /\ SameSend(u, f) /\ SameRecv(u, f) /\ NoNewSyn(u, f)
    BY <2>1 DEF SocketType, Fields, SameSend, SameRecv, NoNewSyn
  <2> HIDE DEF f
  <2>3. SocketOK(f)
    BY <1>7, <2>2, AsideOK
  <2>4. SendOK(SendAck(f)) /\ Keeps(f, SendAck(f))
    BY <2>3, SendAckKeeps DEF SocketOK
  <2>5. SocketOK(SendAck(f))
    BY <2>3, <2>4, KeepsOK
  <2> QED
    BY <1>7, <2>5
<1> HIDE DEF e
<1>9. SocketOK(ScheduleAck(e))
  <2>1. SendOK(ScheduleAck(e)) /\ Keeps(e, ScheduleAck(e))
    BY <1>8, ScheduleAckKeeps DEF SocketOK
  <2> QED
    BY <1>8, <2>1, KeepsOK
<1> QED
  BY <1>2, <1>8, <1>9

\* The choices of the environment that process_incoming meets.
ChoiceType(c) == /\ c.window \in Nat \ {0} /\ c.write \in Nat
                 /\ c.decay \in BOOLEAN /\ c.hold \in BOOLEAN

\* What a datagram acknowledges, in process_incoming.
LEMMA AcknowledgedOK ==
    ASSUME NEW s, SocketOK(s), NEW p \in Datagrams, NEW c, ChoiceType(c)
    PROVE  LET acks == AckCount(s, p.ack)
               s1   == CongestionControl(s, p, acks, c.window)
               s2   == AdvanceSendWindow(s1, p, acks, c.write)
               s3   == IF p.sack = NULL THEN s2 ELSE SelectiveAck(s2, p.ack, p.sack, c.decay)
               s4   == BecomeWritable(s3)
           IN  SocketOK(s4) /\ SameRecv(s, s4)
<1> DEFINE acks == AckCount(s, p.ack)
           s1   == CongestionControl(s, p, acks, c.window)
           s2   == AdvanceSendWindow(s1, p, acks, c.write)
           s3   == IF p.sack = NULL THEN s2 ELSE SelectiveAck(s2, p.ack, p.sack, c.decay)
           s4   == BecomeWritable(s3)
<1>1. /\ p.seq \in SeqNrs /\ p.ack \in SeqNrs /\ p.sack \in (SUBSET Nat) \cup {NULL}
      /\ c.window \in Nat \ {0} /\ c.write \in Nat /\ c.decay \in BOOLEAN
  BY DEF Datagrams, ChoiceType
<1>2. acks \in 0 .. s.cwp
  BY <1>1, AckCountType DEF SocketOK
<1> HIDE DEF acks
<1>3. SendOK(s1) /\ Keeps(s, s1)
  BY <1>1, CongestionControlKeeps DEF SocketOK
<1> HIDE DEF s1
<1>4. Follows(s1, s2) /\ Headed(s2)
  <2>1. acks \in 0 .. s1.cwp
    BY <1>2, <1>3 DEF Keeps, SameWindow
  <2> QED
    BY <1>1, <1>3, <2>1, AdvanceSendWindowFollows
<1> HIDE DEF s2
<1>5. Follows(s2, s3) /\ Headed(s3)
  <2>1. Follows(s2, s2)
    BY <1>4 DEF Follows, SameRecv, NoNewSyn
  <2>2. ASSUME p.sack # NULL
        PROVE  /\ Follows(s2, SelectiveAck(s2, p.ack, p.sack, c.decay))
               /\ Headed(SelectiveAck(s2, p.ack, p.sack, c.decay))
    <3>1. p.sack \in SUBSET Nat /\ SendOK(s2)
      BY <1>1, <1>4, <2>2 DEF Follows
    <3>2. /\ SendOK(SelectiveAck(s2, p.ack, p.sack, c.decay))
          /\ Grows(s2, SelectiveAck(s2, p.ack, p.sack, c.decay))
      BY <1>1, <3>1, SelectiveAckGrows
    <3> QED
      BY <1>4, <3>2 DEF Grows, Follows, NoNewSyn
  <2> QED
    BY <1>4, <2>1, <2>2
<1> HIDE DEF s3
<1>6. SocketOK(s3) /\ SameRecv(s, s3)
  <2>1. Follows(s, s3)
    BY <1>3, <1>4, <1>5, KeepsFollows, FollowsTransitive
  <2> QED
    BY <1>5, <2>1, SameRecvOK DEF Follows, NoNewSyn, SocketOK
<1>7. SocketOK(s4) /\ SameRecv(s3, s4)
  BY <1>6, BecomeWritableOK
<1> HIDE DEF s4
<1>8. SocketOK(s4) /\ SameRecv(s, s4)
  BY <1>6, <1>7 DEF SameRecv
<1> QED
  BY <1>8, Zenon DEF s4, s3, s2, s1, acks

\* The socket as process_incoming finds it: the SYN-ACK tells the initiator where
\* the stream of its peer starts.
LEMMA SyncedOK ==
    ASSUME NEW s, SocketOK(s), NEW ack \in SeqNrs
    PROVE  SocketOK(IF s.st = "SYN_SENT" THEN [s EXCEPT !.ack_nr = ack] ELSE s)
<1> DEFINE b == [s EXCEPT !.ack_nr = ack]
<1>1. SocketType(s) /\ SendOK(s) /\ Headed(s) /\ RecvOK(s)
  BY DEF SocketOK, SendOK
<1>2. /\ SocketType(b) /\ SameSend(s, b) /\ b.st = s.st
      /\ b.reorder_count = s.reorder_count
  BY <1>1 DEF SocketType, Fields, SameSend
<1> HIDE DEF b
<1>3. SendOK(b) /\ Headed(b)
  BY <1>1, <1>2, SameSendOK, SameWindowHeaded
<1>4. ASSUME s.st = "SYN_SENT" PROVE RecvOK(b)
  <2>1. b.reorder_count = 0
    BY <1>1, <1>2, <1>4 DEF RecvOK
  <2> QED
    BY <2>1, FilledFinite DEF RecvOK
<1>5. s.st = "SYN_SENT" => SocketOK(b)
  BY <1>3, <1>4 DEF SocketOK
<1> QED
  BY <1>5 DEF b

\* process_incoming.
LEMMA ProcessIncomingOK ==
    ASSUME NEW s, SocketOK(s), NEW p \in Datagrams, NEW c, ChoiceType(c)
    PROVE  SocketOK(ProcessIncoming(s, p, c))
<1> DEFINE ack  == Wrap(p.seq - 1)
           s0   == IF s.st = "SYN_SENT" THEN [s EXCEPT !.ack_nr = ack] ELSE s
           d    == Ahead(s0, p.seq)
           acks == AckCount(s0, p.ack)
           s1   == CongestionControl(s0, p, acks, c.window)
           s2   == AdvanceSendWindow(s1, p, acks, c.write)
           s3   == IF p.sack = NULL THEN s2 ELSE SelectiveAck(s2, p.ack, p.sack, c.decay)
           s4   == BecomeWritable(s3)
<1>1. p.seq \in SeqNrs /\ c.hold \in BOOLEAN
  BY DEF Datagrams, ChoiceType
<1>2. ProcessIncoming(s, p, c) =
        IF InvalidAck(s, p) THEN s
        ELSE IF OutOfWindow(d)
        THEN IF FromThePast(d) /\ p.type # "STATE" THEN ScheduleAck(s0) ELSE s0
        ELSE IF p.type = "STATE" \/ ~Established(s4) THEN s4
        ELSE Deliver(s4, p, c.hold)
  BY DEF ProcessIncoming
<1>3. SocketOK(s0)
  <2>1. ack \in SeqNrs
    <3>1. p.seq - 1 \in Int
      BY <1>1 DEF SeqNrs
    <3> QED
      BY <3>1, WrapType
  <2> HIDE DEF ack
  <2> QED
    BY <2>1, SyncedOK
<1> HIDE DEF s0
<1>4. SocketOK(s4) /\ SameRecv(s0, s4)
  BY <1>3, AcknowledgedOK
<1> HIDE DEF s4
<1>5. SocketOK(ScheduleAck(s0))
  <2>1. SendOK(ScheduleAck(s0)) /\ Keeps(s0, ScheduleAck(s0))
    BY <1>3, ScheduleAckKeeps DEF SocketOK
  <2> QED
    BY <1>3, <2>1, KeepsOK
<1>6. ASSUME ~OutOfWindow(d), Established(s4)
      PROVE  SocketOK(Deliver(s4, p, c.hold))
  <2>1. s4.st # "SYN_SENT"
    BY <1>6 DEF Established
  <2>2. Ahead(s4, p.seq) = d
    BY <1>4 DEF SameRecv, Ahead
  <2>3. d \in SeqNrs
    <3>1. s0.ack_nr \in SeqNrs
      BY <1>3 DEF SocketOK, SendOK, SocketType
    <3>2. p.seq - s0.ack_nr - 1 \in Int
      BY <1>1, <3>1 DEF SeqNrs
    <3> QED
      BY <3>2, WrapType DEF Ahead
  <2>4. d < REORDER_MAX
    BY <1>6, <2>3, ReorderMaxAssumption DEF OutOfWindow, SeqNrs
  <2> HIDE DEF d
  <2> QED
    BY <1>1, <1>4, <2>1, <2>2, <2>4, DeliverOK
<1> QED
  BY <1>2, <1>3, <1>4, <1>5, <1>6

-----------------------------------------------------------------------------
(* check_timeouts *)

LEMMA RtoExpiredOK ==
    ASSUME NEW s, SocketOK(s), NEW ignore_loss \in BOOLEAN
    PROVE  SocketOK(RtoExpired(s, ignore_loss))
<1> DEFINE err == "ETIMEDOUT"
           st == IF s.st = "SYN_RECV" \/ s.close_requested THEN "DESTROY" ELSE "RESET"
           u == [s EXCEPT !.st = st, !.err = err]
<1>1. SocketType(s) /\ s.retransmit_count \in Nat
  BY DEF SocketOK, SendOK, SocketType
<1>2. \/ RtoExpired(s, ignore_loss) = u
      \/ (~GivesUp(s) /\ RtoExpired(s, ignore_loss) = RetransmitTimeout(s, ignore_loss))
  BY DEF RtoExpired
<1>3. st \in States \ {"SYN_SENT"} /\ err \in {"NONE", "ECONNRESET", "ECONNREFUSED", "ETIMEDOUT"}
  BY DEF States
<1> HIDE DEF st, err
<1>4. SocketType(u) /\ SameSend(s, u) /\ SameRecv(s, u) /\ NoNewSyn(s, u)
  BY <1>1, <1>3 DEF SocketType, Fields, SameSend, SameRecv, NoNewSyn
<1> HIDE DEF u
<1>5. SocketOK(u)
  BY <1>4, AsideOK
<1>6. ASSUME ~GivesUp(s)
      PROVE  SocketOK(RetransmitTimeout(s, ignore_loss))
  <2>1. s.retransmit_count < RETRANSMIT_LIMIT
    BY <1>1, <1>6, SocketAssumption DEF GivesUp
  <2> DEFINE t == RetransmitTimeout(s, ignore_loss)
  <2>2. SendOK(t) /\ Keeps(s, t)
    BY <2>1, RetransmitTimeoutKeeps DEF SocketOK
  <2> HIDE DEF t
  <2>3. SocketOK(t)
    BY <2>2, KeepsOK
  <2> QED
    BY <2>3 DEF t
<1> QED
  BY <1>2, <1>5, <1>6

LEMMA CheckTimeoutsOK ==
    ASSUME NEW s, SocketOK(s), NEW t
    PROVE  SocketOK(CheckTimeouts(s, t))
<1> DEFINE f == IF s.st # "DESTROY" THEN FlushPackets(s) ELSE s
           v == [f EXCEPT !.max_window_user = PACKET_SIZE]
           z == IF t.zero /\ f.max_window_user = 0 THEN v ELSE f
           ignore == t.probe /\ z.cwp = 1
           r == IF t.rto /\ z.rto_armed THEN RtoExpired(z, ignore) ELSE z
           w == BecomeWritable(r)
           k == SendKeepAlive(w)
<1>1. SocketOK(f)
  <2>1. SendOK(FlushPackets(s)) /\ Keeps(s, FlushPackets(s))
    BY FlushKeeps DEF SocketOK
  <2>2. SocketOK(FlushPackets(s))
    BY <2>1, KeepsOK
  <2> QED
    BY <2>2
<1>2. CheckTimeouts(s, t) \in {f, r, k, w}
  BY DEF CheckTimeouts
<1> HIDE DEF f
<1>3. SocketOK(z)
  <2>1. SocketType(f) /\ PACKET_SIZE \in Nat
    BY <1>1, SendAssumption DEF SocketOK, SendOK
  <2>2. SocketType(v) /\ SameSend(f, v) /\ SameRecv(f, v) /\ NoNewSyn(f, v)
    BY <2>1 DEF SocketType, Fields, SameSend, SameRecv, NoNewSyn
  <2> HIDE DEF v
  <2>3. SocketOK(v)
    BY <1>1, <2>2, AsideOK
  <2> QED
    BY <1>1, <2>3
<1> HIDE DEF z
<1>4. SocketOK(r)
  <2>1. ignore \in BOOLEAN
    OBVIOUS
  <2> HIDE DEF ignore
  <2>2. SocketOK(RtoExpired(z, ignore))
    BY <1>3, <2>1, RtoExpiredOK
  <2> QED
    BY <1>3, <2>2
<1> HIDE DEF r
<1>5. SocketOK(w)
  BY <1>4, BecomeWritableOK
<1> HIDE DEF w
<1>6. SocketOK(k)
  <2>1. SendOK(k) /\ Keeps(w, k)
    BY <1>5, SendKeepAliveKeeps DEF SocketOK
  <2> HIDE DEF k
  <2> QED
    BY <1>5, <2>1, KeepsOK
<1> QED
  BY <1>1, <1>2, <1>4, <1>5, <1>6

\* destroy_socket.
LEMMA DestroyedOK ==
    ASSUME NEW s, SocketOK(s)
    PROVE  SocketOK([Destroyed(s) EXCEPT !.out = s.out])
<1> DEFINE new == NewSocket
           out == s.out
           t == [new EXCEPT !.st = "GONE", !.closed = s.closed, !.err = s.err,
                            !.delivered = s.delivered, !.wrote = s.wrote,
                            !.fin_sent = s.fin_sent, !.fin_sent_acked = s.fin_sent_acked,
                            !.got_fin_reached = s.got_fin_reached,
                            !.read_shutdown = s.read_shutdown]
           u == [t EXCEPT !.out = out]
<1>1. SocketType(s)
  BY DEF SocketOK, SendOK
<1>2. /\ SocketType(new) /\ \A q \in SeqNrs : new.outbuf[q] = NULL
      /\ new.cwp = 0 /\ new.cur_window = 0
      /\ new.retransmit_count = 0 /\ new.reorder_count = 0
  BY NewSocketOK DEF NewSocket
<1>3. [Destroyed(s) EXCEPT !.out = s.out] = u
  BY DEF Destroyed
<1> HIDE DEF new
<1>4. /\ SocketType(t) /\ t.outbuf = new.outbuf /\ t.cwp = 0 /\ t.cur_window = 0
      /\ t.retransmit_count = 0 /\ t.reorder_count = 0
  <2>1. "GONE" \in States
    BY DEF States
  <2> QED
    BY <1>1, <1>2, <2>1 DEF SocketType, Fields
<1> HIDE DEF t
<1>5. out \in SUBSET Datagrams
  BY <1>1 DEF SocketType
<1> HIDE DEF out
<1>6. /\ SocketType(u) /\ u.outbuf = new.outbuf /\ u.cwp = 0 /\ u.cur_window = 0
      /\ u.retransmit_count = 0 /\ u.reorder_count = 0
  BY <1>4, <1>5 DEF SocketType, Fields
<1> HIDE DEF u
<1>7. SocketOK(u)
  BY <1>2, <1>6, FreshOK
<1> QED
  BY <1>3, <1>7

-----------------------------------------------------------------------------
(* The connection *)

Packets == [to : Nodes, p : Datagrams]

(* The inductive invariant: both sockets are in order between two calls, the
   datagrams are well-formed, and the bounds of the behaviour are kept. *)
ConnectionInv ==
  /\ sock = [n \in Nodes |-> sock[n]]
  /\ \A n \in Nodes : SocketOK(sock[n]) /\ sock[n].out = {}
  /\ net \in SUBSET Packets
  /\ rst_info \in [Nodes -> SUBSET SeqNrs]
  /\ losses \in 0 .. MaxLosses /\ dups \in 0 .. MaxDups

LEMMA PeerIsNode == \A n \in Nodes : Peer(n) \in Nodes
  BY DEF Peer, Nodes

\* What is sent is well-formed.
LEMMA SendsOK ==
    ASSUME ConnectionInv, NEW n \in Nodes, NEW out \in SUBSET Datagrams, NEW R,
           Sends(n, out, R)
    PROVE  net' \in SUBSET Packets
<1> DEFINE new == {[to |-> Peer(n), p |-> p] : p \in out}
           old == net \ R
<1>1. new \in SUBSET Packets
  BY PeerIsNode DEF Packets
<1>2. \E S \in SUBSET new : net' = old \cup S
  BY DEF Sends
<1> HIDE DEF new
<1> QED
  BY <1>1, <1>2 DEF ConnectionInv

\* A call that leaves its socket in order.
LEMMA CommitOK ==
    ASSUME ConnectionInv, NEW n \in Nodes, NEW s, SocketOK(s), NEW R, Commit(n, s, R)
    PROVE  /\ sock' = [k \in Nodes |-> sock'[k]]
           /\ \A k \in Nodes : SocketOK(sock'[k]) /\ sock'[k].out = {}
           /\ net' \in SUBSET Packets
<1> DEFINE none == {}
           t == [s EXCEPT !.out = none]
<1>1. SocketType(s) /\ s.out \in SUBSET Datagrams /\ none \in SUBSET Datagrams
  BY DEF SocketOK, SendOK, SocketType
<1>2. sock' = [sock EXCEPT ![n] = t] /\ Sends(n, s.out, R)
  BY DEF Commit
<1>3. net' \in SUBSET Packets
  BY <1>1, <1>2, SendsOK
<1> HIDE DEF none
<1>4. /\ SocketType(t) /\ SameSend(s, t) /\ SameRecv(s, t) /\ NoNewSyn(s, t)
      /\ t.out = none
  BY <1>1 DEF SocketType, Fields, SameSend, SameRecv, NoNewSyn
<1> HIDE DEF t
<1>5. SocketOK(t)
  BY <1>4, AsideOK
<1>6. /\ sock' = [k \in Nodes |-> sock'[k]]
      /\ \A k \in Nodes : sock'[k] = IF k = n THEN t ELSE sock[k]
  BY <1>2 DEF ConnectionInv
<1>7. \A k \in Nodes : SocketOK(sock'[k]) /\ sock'[k].out = {}
  BY <1>4, <1>5, <1>6 DEF ConnectionInv, none
<1> QED
  BY <1>3, <1>6, <1>7

\* The steps at one node that are a call of the library and nothing else.
LEMMA CallInv ==
    ASSUME ConnectionInv, NEW n \in Nodes, NEW s, SocketOK(s), NEW R, Commit(n, s, R),
           rst_info' = rst_info, losses' = losses, dups' \in 0 .. MaxDups
    PROVE  ConnectionInv'
<1>1. /\ sock' = [k \in Nodes |-> sock'[k]]
      /\ \A k \in Nodes : SocketOK(sock'[k]) /\ sock'[k].out = {}
      /\ net' \in SUBSET Packets
  BY CommitOK
<1>2. rst_info' \in [Nodes -> SUBSET SeqNrs] /\ losses' \in 0 .. MaxLosses
  BY DEF ConnectionInv
<1> QED
  BY <1>1, <1>2 DEF ConnectionInv

LEMMA InitConnection == Init => ConnectionInv
<1> SUFFICES ASSUME Init PROVE ConnectionInv
  OBVIOUS
<1>1. \A n \in Nodes : sock[n] = NewSocket
  BY DEF Init
<1>2. SocketOK(NewSocket) /\ NewSocket.out = {}
  BY NewSocketOK DEF NewSocket
<1>3. \A n \in Nodes : SocketOK(sock[n]) /\ sock[n].out = {}
  BY <1>1, <1>2, Zenon
<1>4. sock = [n \in Nodes |-> sock[n]]
  <2> DEFINE new == NewSocket
  <2>1. sock = [n \in Nodes |-> new]
    BY DEF Init
  <2> HIDE DEF new
  <2> QED
    BY <2>1
<1>5. rst_info \in [Nodes -> SUBSET SeqNrs] /\ net \in SUBSET Packets
      /\ losses \in 0 .. MaxLosses /\ dups \in 0 .. MaxDups
  BY ConnectionAssumption DEF Init
<1> QED
  BY <1>3, <1>4, <1>5 DEF ConnectionInv

\* What the applications do, the deferred ACKs and the ICMP errors.
LEMMA ApplicationInv ==
    ASSUME ConnectionInv, NEW n \in Nodes,
           AppConnect \/ Application(n) \/ IssueDeferredAcks(n) \/ IcmpError(n)
    PROVE  ConnectionInv'
<1> DEFINE s == sock[n]
<1>1. SocketOK(s) /\ dups \in 0 .. MaxDups
  BY DEF ConnectionInv
<1>2. CASE AppConnect
  <2> DEFINE a == "A"
             u == Connect(ISN[a])
  <2>1. a \in Nodes /\ ISN[a] \in SeqNrs
    BY ConnectionAssumption DEF Nodes
  <2>2. Commit(a, u, {}) /\ UNCHANGED <<rst_info, losses, dups>>
    BY <1>2 DEF AppConnect
  <2> HIDE DEF a
  <2>3. SocketOK(u)
    BY <2>1, ConnectOK
  <2> HIDE DEF u
  <2> QED
    BY <1>1, <2>1, <2>2, <2>3, CallInv
<1>3. ASSUME NEW k \in WriteSizes, AppWrite(n, k)
      PROVE  ConnectionInv'
  <2> DEFINE u == Write(s, k)
  <2>1. Commit(n, u, {}) /\ UNCHANGED <<rst_info, losses, dups>>
    BY <1>3 DEF AppWrite
  <2>2. k \in Nat
    BY ConnectionAssumption
  <2>3. SocketOK(u)
    BY <1>1, <2>2, WriteOK
  <2> HIDE DEF u
  <2> QED
    BY <1>1, <2>1, <2>3, CallInv
<1>4. CASE AppClose(n)
  <2> DEFINE u == Close(s)
  <2>1. Commit(n, u, {}) /\ UNCHANGED <<rst_info, losses, dups>>
    BY <1>4 DEF AppClose
  <2>2. SocketOK(u)
    BY <1>1, CloseOK
  <2> HIDE DEF u
  <2> QED
    BY <1>1, <2>1, <2>2, CallInv
<1>5. ASSUME NEW how, AppShutdown(n, how)
      PROVE  ConnectionInv'
  <2> DEFINE u == Shutdown(s, how)
  <2>1. Commit(n, u, {}) /\ UNCHANGED <<rst_info, losses, dups>>
    BY <1>5 DEF AppShutdown
  <2>2. SocketOK(u)
    BY <1>1, ShutdownOK
  <2> HIDE DEF u
  <2> QED
    BY <1>1, <2>1, <2>2, CallInv
<1>6. CASE AppReadDrained(n)
  <2> DEFINE u == ReadDrained(s)
  <2>1. Commit(n, u, {}) /\ UNCHANGED <<rst_info, losses, dups>>
    BY <1>6 DEF AppReadDrained
  <2>2. SocketOK(u)
    BY <1>1, ReadDrainedOK
  <2> HIDE DEF u
  <2> QED
    BY <1>1, <2>1, <2>2, CallInv
<1>7. CASE IssueDeferredAcks(n)
  <2> DEFINE u == SendAck(s)
  <2>1. Commit(n, u, {}) /\ UNCHANGED <<rst_info, losses, dups>>
    BY <1>7 DEF IssueDeferredAcks
  <2>2. SocketOK(u)
    <3>1. SendOK(u) /\ Keeps(s, u)
      BY <1>1, SendAckKeeps DEF SocketOK
    <3> HIDE DEF u, s
    <3> QED
      BY <1>1, <3>1, KeepsOK
  <2> HIDE DEF u
  <2> QED
    BY <1>1, <2>1, <2>2, CallInv
<1>8. CASE IcmpError(n)
  <2> DEFINE u == OnIcmpError(s)
  <2>1. Commit(n, u, {}) /\ UNCHANGED <<rst_info, losses, dups>>
    BY <1>8 DEF IcmpError
  <2>2. SocketOK(u)
    BY <1>1, ErrorOK
  <2> HIDE DEF u
  <2> QED
    BY <1>1, <2>1, <2>2, CallInv
<1> QED
  BY <1>2, <1>3, <1>4, <1>5, <1>6, <1>7, <1>8 DEF Application

\* What the environment may choose.
LEMMA EnvironmentType ==
    ASSUME NEW n, sock[n].max_window \in Nat \ {0}, NEW p, NEW c \in Environment(n, p)
    PROVE  ChoiceType(c)
<1> DEFINE s == sock[n]
<1>1. /\ c.window \in WINDOWS \cup {s.max_window}
      /\ c.decay \in IF p.sack = NULL THEN {FALSE} ELSE BOOLEAN
      /\ c.write \in {0} \cup {k \in WriteSizes :
            s.st = "SYN_SENT" /\ k <= MaxWrite[n] /\ ~s.closed}
      /\ c.hold \in IF n \in MayHold THEN BOOLEAN ELSE {FALSE}
      /\ s.max_window \in Nat \ {0}
  BY DEF Environment
<1> HIDE DEF s
<1>2. c.window \in Nat \ {0}
  BY <1>1, ConnectionAssumption
<1>3. c.decay \in BOOLEAN
  <2>1. CASE p.sack = NULL
    BY <1>1, <2>1
  <2>2. CASE p.sack # NULL
    BY <1>1, <2>2
  <2> QED
    BY <2>1, <2>2
<1>4. c.write \in Nat
  <2>1. c.write = 0 \/ c.write \in WriteSizes
    BY <1>1
  <2>2. WriteSizes \subseteq Nat
    BY ConnectionAssumption
  <2>3. CASE c.write = 0
    BY <2>3
  <2>4. CASE c.write \in WriteSizes
    BY <2>2, <2>4, Zenon
  <2> QED
    BY <2>1, <2>3, <2>4, Zenon
<1>5. c.hold \in BOOLEAN
  <2>1. CASE n \in MayHold
    BY <1>1, <2>1
  <2>2. CASE n \notin MayHold
    BY <1>1, <2>2
  <2> QED
    BY <2>1, <2>2
<1> QED
  BY <1>2, <1>3, <1>4, <1>5 DEF ChoiceType

\* A datagram arrives.
LEMMA ReceiveInv ==
    ASSUME ConnectionInv, NEW m \in net, Receive(m)
    PROVE  ConnectionInv'
<1> DEFINE n == m.to
           p == m.p
           s == sock[n]
<1>1. m \in Packets
  BY DEF ConnectionInv
<1>2. n \in Nodes /\ p \in Datagrams
  BY <1>1 DEF Packets
<1>3. SocketOK(s) /\ s.max_window \in Nat \ {0} /\ p.seq \in SeqNrs
  BY <1>2 DEF ConnectionInv, SocketOK, SendOK, SocketType, Datagrams
<1>4. \A R : Consumes(m, R) => dups' \in 0 .. MaxDups
  BY ConnectionAssumption DEF Consumes, ConnectionInv
<1> HIDE DEF n, p
<1>5. CASE ReceiveReset(m)
  <2> DEFINE u == IF Registered(s) THEN OnReset(s) ELSE s
  <2>1. PICK R \in {{}, {m}} : Consumes(m, R) /\ Commit(n, u, R)
    BY <1>5 DEF ReceiveReset, n
  <2>2. rst_info' = rst_info /\ losses' = losses
    BY <1>5 DEF ReceiveReset
  <2>3. SocketOK(u)
    <3> HIDE DEF s
    <3> QED
      BY <1>3, ErrorOK
  <2> HIDE DEF u
  <2> QED
    BY <1>2, <1>4, <2>1, <2>2, <2>3, CallInv
<1>6. CASE ReceivePacket(m)
  <2>1. PICK R \in {{}, {m}}, c \in Environment(n, p) :
          Consumes(m, R) /\ Commit(n, ProcessIncoming(s, p, c), R)
    BY <1>6 DEF ReceivePacket, n, p
  <2>2. rst_info' = rst_info /\ losses' = losses
    BY <1>6 DEF ReceivePacket
  <2>3. ChoiceType(c)
    BY <1>3, EnvironmentType
  <2> DEFINE u == ProcessIncoming(s, p, c)
  <2>4. SocketOK(u)
    BY <1>2, <1>3, <2>3, ProcessIncomingOK
  <2>5. Commit(n, u, R)
    BY <2>1
  <2> HIDE DEF u
  <2> QED
    BY <1>2, <1>4, <2>1, <2>2, <2>4, <2>5, CallInv
<1>7. CASE ReceiveStray(m)
  <2>1. PICK R \in {{}, {m}} :
          /\ Consumes(m, R)
          /\ \/ Sends(n, {}, R) /\ UNCHANGED rst_info
             \/ /\ Sends(n, {Reset}, R)
                /\ rst_info' = [rst_info EXCEPT ![n] = @ \cup {p.seq}]
    BY <1>7 DEF ReceiveStray, n, p
  <2>2. sock' = sock /\ losses' = losses
    BY <1>7 DEF ReceiveStray
  <2>3. {} \in SUBSET Datagrams /\ {Reset} \in SUBSET Datagrams
    BY SeqModAssumption DEF Datagrams, Reset, SeqNrs
  <2>4. net' \in SUBSET Packets
    BY <1>2, <2>1, <2>3, SendsOK
  <2>5. rst_info' \in [Nodes -> SUBSET SeqNrs]
    BY <1>2, <1>3, <2>1 DEF ConnectionInv
  <2>6. dups' \in 0 .. MaxDups
    BY <1>4, <2>1
  <2> QED
    BY <2>2, <2>4, <2>5, <2>6 DEF ConnectionInv
<1>8. CASE ReceiveSyn(m)
  <2> DEFINE u == IF s.st # "UNINITIALIZED" THEN s ELSE AcceptSyn(ISN[n], p.seq)
  <2>1. PICK R \in {{}, {m}} : Consumes(m, R) /\ Commit(n, u, R)
    BY <1>8 DEF ReceiveSyn, n, p
  <2>2. rst_info' = rst_info /\ losses' = losses
    BY <1>8 DEF ReceiveSyn
  <2>3. SocketOK(u)
    <3>1. ISN[n] \in SeqNrs
      BY <1>2, ConnectionAssumption
    <3>2. SocketOK(AcceptSyn(ISN[n], p.seq))
      BY <1>3, <3>1, AcceptSynOK
    <3> HIDE DEF s
    <3> QED
      BY <1>3, <3>2
  <2> HIDE DEF u
  <2> QED
    BY <1>2, <1>4, <2>1, <2>2, <2>3, CallInv
<1> QED
  BY <1>5, <1>6, <1>7, <1>8 DEF Receive

\* check_timeouts of a context.
LEMMA TimeoutsInv ==
    ASSUME ConnectionInv, NEW n \in Nodes, NEW t, NEW expired,
           ContextCheckTimeouts(n, t, expired)
    PROVE  ConnectionInv'
<1> DEFINE s == IF Registered(sock[n]) THEN CheckTimeouts(sock[n], t) ELSE sock[n]
           u == IF s.st = "DESTROY" THEN [Destroyed(s) EXCEPT !.out = s.out] ELSE s
<1>1. /\ Commit(n, u, {}) /\ UNCHANGED <<losses, dups>>
      /\ rst_info' = [rst_info EXCEPT ![n] = @ \ expired]
  BY DEF ContextCheckTimeouts
<1>2. SocketOK(s)
  <2>1. SocketOK(sock[n])
    BY DEF ConnectionInv
  <2>2. SocketOK(CheckTimeouts(sock[n], t))
    BY <2>1, CheckTimeoutsOK
  <2> QED
    BY <2>1, <2>2
<1> HIDE DEF s
<1>3. SocketOK(u)
  BY <1>2, DestroyedOK
<1> HIDE DEF u
<1>4. /\ sock' = [k \in Nodes |-> sock'[k]]
      /\ \A k \in Nodes : SocketOK(sock'[k]) /\ sock'[k].out = {}
      /\ net' \in SUBSET Packets
  BY <1>1, <1>3, CommitOK
<1>5. rst_info' \in [Nodes -> SUBSET SeqNrs]
  BY <1>1 DEF ConnectionInv
<1>6. losses' \in 0 .. MaxLosses /\ dups' \in 0 .. MaxDups
  BY <1>1 DEF ConnectionInv
<1> QED
  BY <1>4, <1>5, <1>6 DEF ConnectionInv

\* Every step keeps the invariant.
LEMMA StepConnection == ConnectionInv /\ [Next]_vars => ConnectionInv'
<1> SUFFICES ASSUME ConnectionInv, [Next]_vars PROVE ConnectionInv'
  OBVIOUS
<1>1. CASE AppConnect
  <2>1. "A" \in Nodes
    BY DEF Nodes
  <2> QED
    BY <1>1, <2>1, ApplicationInv
<1>2. ASSUME NEW n \in Nodes, Application(n) \/ IssueDeferredAcks(n) \/ IcmpError(n)
      PROVE  ConnectionInv'
  BY <1>2, ApplicationInv
<1>3. ASSUME NEW n \in Nodes, NEW t \in ClockEvents(n), NEW expired \in ExpiredRst(n),
             ContextCheckTimeouts(n, t, expired)
      PROVE  ConnectionInv'
  BY <1>3, TimeoutsInv
<1>4. ASSUME NEW m \in net, Receive(m)
      PROVE  ConnectionInv'
  BY <1>4, ReceiveInv
<1>5. ASSUME NEW m \in net, Lose(m)
      PROVE  ConnectionInv'
  <2>1. /\ losses < MaxLosses /\ losses' = losses + 1 /\ net' = net \ {m}
        /\ UNCHANGED <<sock, rst_info, dups>>
    BY <1>5 DEF Lose
  <2>2. losses' \in 0 .. MaxLosses
    BY <2>1, ConnectionAssumption DEF ConnectionInv
  <2> QED
    BY <2>1, <2>2 DEF ConnectionInv
<1>6. CASE UNCHANGED vars
  BY <1>6 DEF ConnectionInv, vars
<1> QED
  BY <1>1, <1>2, <1>3, <1>4, <1>5, <1>6 DEF Next

\* The inductive invariant holds in every reachable state.
THEOREM ConnectionIsConsistent == Spec => []ConnectionInv
<1>1. Init => ConnectionInv
  BY InitConnection
<1>2. ConnectionInv /\ [Next]_vars => ConnectionInv'
  BY StepConnection
<1> QED
  BY <1>1, <1>2, PTL DEF Spec

-----------------------------------------------------------------------------
(* What follows from it *)

\* The reorder counter of a socket never exceeds the reorder window.
LEMMA ReorderBounded ==
    ASSUME NEW s, SocketOK(s)
    PROVE  s.reorder_count <= REORDER_MAX
<1> DEFINE F == Filled(s)
           I == 1 .. REORDER_MAX - 1
           f == [q \in F |-> Ahead(s, q)]
<1>1. s.ack_nr \in SeqNrs /\ s.reorder_count \in Nat /\ s.reorder_count <= Cardinality(F)
  BY DEF SocketOK, SendOK, SocketType, RecvOK
<1>2. \A q \in F : q \in SeqNrs /\ f[q] = Ahead(s, q) /\ f[q] \in I
  BY DEF Filled
<1>3. ASSUME NEW q \in F, NEW r \in F, f[q] = f[r]
      PROVE  q = r
  <2> DEFINE a == q - s.ack_nr - 1
             b == r - s.ack_nr - 1
  <2>1. q \in SeqNrs /\ r \in SeqNrs /\ Wrap(a) = Wrap(b)
    BY <1>2, <1>3 DEF Ahead
  <2>2. /\ a \in Int /\ b \in Int /\ a - b < SEQ_MOD /\ b - a < SEQ_MOD
        /\ (a = b => q = r)
    BY <1>1, <2>1, SeqModAssumption DEF SeqNrs
  <2> HIDE DEF a, b
  <2> QED
    BY <2>1, <2>2, WrapInjective
<1>4. f \in Injection(F, I)
  <2>1. f \in [F -> I]
    BY <1>2
  <2> HIDE DEF f, F, I
  <2> QED
    BY <1>3, <2>1 DEF Injection, IsInjective
<1>5. IsFiniteSet(I) /\ Cardinality(I) = REORDER_MAX - 1
  <2> DEFINE k == REORDER_MAX - 1
  <2>1. k \in Nat
    BY ReorderMaxAssumption
  <2>2. I = 1 .. k
    OBVIOUS
  <2> HIDE DEF k, I
  <2>3. 1 \in Int /\ k \in Int /\ (IF 1 > k THEN 0 ELSE k - 1 + 1) = k
    BY <2>1
  <2>4. IsFiniteSet(1 .. k) /\ Cardinality(1 .. k) = IF 1 > k THEN 0 ELSE k - 1 + 1
    BY <2>3, FS_Interval
  <2>5. IsFiniteSet(I) /\ Cardinality(I) = k
    BY <2>2, <2>3, <2>4
  <2> QED
    BY <2>5 DEF k
<1> HIDE DEF f, I
<1>6. Cardinality(F) <= Cardinality(I)
  BY <1>4, <1>5, FS_Injection
<1>7. Cardinality(F) \in Nat
  BY FilledFinite
<1> HIDE DEF F
<1> QED
  BY <1>1, <1>5, <1>6, <1>7, ReorderMaxAssumption

LEMMA TypeFollows == ConnectionInv => TypeOK
<1> SUFFICES ASSUME ConnectionInv PROVE TypeOK
  OBVIOUS
<1>1. ASSUME NEW n \in Nodes
      PROVE  LET s == sock[n]
             IN  /\ s.st \in States
                 /\ {s.seq_nr, s.ack_nr, s.eof_pkt, s.flush_scan_start, s.fast_resend_seq_nr}
                      \subseteq SeqNrs
                 /\ s.cwp \in 0 .. OUT_MAX /\ s.cur_window \in Nat
                 /\ s.reorder_count \in 0 .. REORDER_MAX
                 /\ s.max_window \in Nat \ {0} /\ s.retransmit_count \in 0 .. RETRANSMIT_LIMIT
                 /\ s.out = {} /\ rst_info[n] \subseteq SeqNrs
  <2> DEFINE s == sock[n]
  <2>1. SocketOK(s) /\ s.out = {} /\ rst_info[n] \in SUBSET SeqNrs
    BY DEF ConnectionInv
  <2> HIDE DEF s
  <2>2. SocketType(s) /\ s.cwp <= OUT_MAX /\ s.retransmit_count <= RETRANSMIT_LIMIT
        /\ s.cur_window = Load(s.outbuf) /\ s.outbuf \in Outbufs
    BY <2>1 DEF SocketOK, SendOK, SocketType
  <2>3. s.cur_window \in Nat
    BY <2>2, LoadType
  <2>4. s.reorder_count <= REORDER_MAX
    BY <2>1, ReorderBounded
  <2>5. /\ s.st \in States /\ s.max_window \in Nat \ {0}
        /\ {s.seq_nr, s.ack_nr, s.eof_pkt, s.flush_scan_start, s.fast_resend_seq_nr}
             \subseteq SeqNrs
        /\ s.cwp \in Nat /\ s.reorder_count \in Nat /\ s.retransmit_count \in Nat
    BY <2>2 DEF SocketType
  <2>6. /\ s.cwp \in 0 .. OUT_MAX /\ s.reorder_count \in 0 .. REORDER_MAX
        /\ s.retransmit_count \in 0 .. RETRANSMIT_LIMIT
    BY <2>2, <2>4, <2>5, SendAssumption, ReorderMaxAssumption, SocketAssumption
  <2> QED
    BY <2>1, <2>3, <2>5, <2>6 DEF s
<1>2. losses \in 0 .. MaxLosses /\ dups \in 0 .. MaxDups
  BY DEF ConnectionInv
<1> QED
  BY <1>1, <1>2 DEF TypeOK

\* Outside the window nothing is in flight, so its load is that of the window.
LEMMA WindowLoad ==
    ASSUME NEW s, SendOK(s)
    PROVE  s.cur_window = Bytes(s, {q \in Window(s) : InFlight(s.outbuf[q])})
<1> DEFINE w == Weights(s.outbuf)
           S == SeqNrs
           F == {q \in Window(s) : InFlight(s.outbuf[q])}
           D == S \ F
<1>1. s.outbuf \in Outbufs /\ Window(s) \in SUBSET SeqNrs
  BY WindowStartType DEF SendOK, SocketType
<1>2. F \in SUBSET S /\ \A q \in F : InFlight(s.outbuf[q])
  BY <1>1
<1>3. \A q \in D : w[q] = 0
  <2> TAKE q \in D
  <2>1. ~InFlight(s.outbuf[q])
    BY DEF SendOK, InFlight
  <2>2. w[q] = Weight(s.outbuf[q])
    BY <1>1, WeightType
  <2> QED
    BY <2>1, <2>2 DEF Weight
<1>4. IsFiniteSet(S) /\ IsFiniteSet(D) /\ \A q \in S : w[q] \in Nat
  BY <1>1, SeqNrsFinite, WeightType
<1>5. Total(w, F) \in Nat
  BY <1>1, <1>2, LoadType
<1>6. Bytes(s, F) = Total(w, F)
  BY <1>2, BytesTotal
<1>7. s.cur_window = Total(w, S)
  BY DEF SendOK, Load
<1> HIDE DEF w, S, F
<1>8. Total(w, S) = Total(w, F) + Total(w, S \ F)
  BY <1>2, <1>4, TotalSplit
<1>9. Total(w, S \ F) = 0
  <2> HIDE DEF D
  <2>1. Total(w, D) = 0
    BY <1>3, <1>4, TotalZero
  <2> QED
    BY <2>1 DEF D
<1>10. s.cur_window = Bytes(s, F)
  BY <1>5, <1>6, <1>7, <1>8, <1>9
<1> QED
  BY <1>10 DEF F

(* check_invariant: cur_window counts the payload of the packets in flight, for
   every size of the window, the buffers and the sequence space, whatever the
   network loses, duplicates and reorders and whenever the timers run. *)
THEOREM FlightIsCounted == Spec => []InFlightAccounting
<1>1. ConnectionInv => InFlightAccounting
  <2> SUFFICES ASSUME ConnectionInv PROVE InFlightAccounting
    OBVIOUS
  <2>1. ASSUME NEW n \in Nodes
        PROVE  sock[n].cur_window =
                 Bytes(sock[n], {q \in Window(sock[n]) : InFlight(sock[n].outbuf[q])})
    <3> DEFINE s == sock[n]
    <3>1. SendOK(s)
      BY DEF ConnectionInv, SocketOK
    <3> HIDE DEF s
    <3>2. s.cur_window = Bytes(s, {q \in Window(s) : InFlight(s.outbuf[q])})
      BY <3>1, WindowLoad
    <3> QED
      BY <3>2 DEF s
  <2> QED
    BY <2>1, TypeFollows DEF InFlightAccounting
<1> QED
  BY <1>1, ConnectionIsConsistent, PTL

(* The assertions of process_incoming and check_timeouts: the window starts
   with a packet that is not acknowledged and no packet is outside it. *)
THEOREM WindowHasHead == Spec => []WindowHead
<1>1. ConnectionInv => WindowHead
  BY DEF ConnectionInv, SocketOK, SendOK, Headed, WindowHead
<1> QED
  BY <1>1, ConnectionIsConsistent, PTL

-----------------------------------------------------------------------------
(* Serving the window: packets are sent and sent again, and leave outbuf when
   their numbers are in Q *)

\* What the streams depend on besides the window.
SameStream(s, t) ==
  /\ SameRecv(s, t) /\ t.delivered = s.delivered /\ t.read_shutdown = s.read_shutdown
  /\ t.got_fin = s.got_fin /\ t.got_fin_reached = s.got_fin_reached
  /\ t.eof_pkt = s.eof_pkt /\ t.unread = s.unread /\ t.wrote = s.wrote
  /\ t.fin_sent = s.fin_sent /\ t.fin_sent_acked = s.fin_sent_acked

\* The state does not move back, and no call but connect and accept opens a socket.
StateMoves(s, t) ==
  /\ Established(t) => Established(s)
  /\ t.st = "SYN_SENT" => s.st = "SYN_SENT"
  /\ t.st # "UNINITIALIZED"
  /\ Registered(t) => Registered(s)

\* The slot of outbuf with number q goes from packet p to packet r.
SlotMoves(p, r, gone) ==
  IF r = NULL THEN p = NULL \/ gone
  ELSE p # NULL /\ r.type = p.type /\ r.data = p.data /\ (p.sent => r.sent)

\* d is packet q of s, sent by the time of t.
FromSlot(s, t, q, d) ==
  /\ s.outbuf[q] # NULL /\ ~Unsent(t.outbuf[q])
  /\ d.type = s.outbuf[q].type /\ d.data = s.outbuf[q].data /\ d.seq = q
  /\ d.ack = s.ack_nr /\ d.sack = NULL

Serves(s, t, Q) ==
  /\ SameStream(s, t) /\ StateMoves(s, t) /\ (t.ack_pending => s.ack_pending)
  /\ t.seq_nr = s.seq_nr /\ t.cwp <= s.cwp
  /\ \A q \in SeqNrs : SlotMoves(s.outbuf[q], t.outbuf[q], q \in Q)
  /\ \A d \in t.out : d \in s.out \/ \E q \in SeqNrs : FromSlot(s, t, q, d)

LEMMA ServesReflexive ==
    ASSUME NEW s, SocketType(s), s.st # "UNINITIALIZED", NEW Q
    PROVE  Serves(s, s, Q)
<1>1. s.cwp <= s.cwp
  BY DEF SocketType
<1> QED
  BY <1>1 DEF Serves, SameStream, SameRecv, StateMoves, SlotMoves

LEMMA ServesTransitive ==
    ASSUME NEW r, NEW s, NEW t, SocketType(r), SocketType(s), SocketType(t),
           NEW Q, NEW P, Serves(r, s, Q), Serves(s, t, P)
    PROVE  Serves(r, t, Q \cup P)
<1>1. SameStream(r, t) /\ StateMoves(r, t) /\ (t.ack_pending => r.ack_pending)
      /\ t.seq_nr = r.seq_nr
  BY DEF Serves, SameStream, SameRecv, StateMoves
<1>2. t.cwp <= r.cwp
  <2>1. t.cwp <= s.cwp /\ s.cwp <= r.cwp /\ r.cwp \in Nat /\ s.cwp \in Nat /\ t.cwp \in Nat
    BY DEF Serves, SocketType
  <2> QED
    BY <2>1
<1>3. ASSUME NEW q \in SeqNrs
      PROVE  /\ SlotMoves(r.outbuf[q], t.outbuf[q], q \in Q \cup P)
             /\ ~Unsent(s.outbuf[q]) => ~Unsent(t.outbuf[q])
  <2>1. SlotMoves(r.outbuf[q], s.outbuf[q], q \in Q)
        /\ SlotMoves(s.outbuf[q], t.outbuf[q], q \in P)
    BY DEF Serves
  <2> QED
    BY <2>1 DEF SlotMoves, Unsent
<1>4. ASSUME NEW d \in t.out PROVE d \in r.out \/ \E q \in SeqNrs : FromSlot(r, t, q, d)
  <2>1. CASE d \in s.out
    <3>1. CASE d \in r.out
      BY <3>1
    <3>2. CASE d \notin r.out
      <4>1. PICK q \in SeqNrs : FromSlot(r, s, q, d)
        BY <2>1, <3>2 DEF Serves
      <4>2. FromSlot(r, t, q, d)
        BY <1>3, <4>1 DEF FromSlot
      <4> QED
        BY <4>2
    <3> QED
      BY <3>1, <3>2
  <2>2. CASE d \notin s.out
    <3>1. PICK q \in SeqNrs : FromSlot(s, t, q, d)
      BY <2>2 DEF Serves
    <3>2. SlotMoves(r.outbuf[q], s.outbuf[q], q \in Q) /\ s.ack_nr = r.ack_nr
      BY DEF Serves, SameStream, SameRecv
    <3>3. FromSlot(r, t, q, d)
      BY <3>1, <3>2 DEF FromSlot, SlotMoves
    <3> QED
      BY <3>3
  <2> QED
    BY <2>1, <2>2
<1> QED
  BY <1>1, <1>2, <1>3, <1>4 DEF Serves

\* Only the numbers of what left outbuf count.
LEMMA ServesWider ==
    ASSUME NEW s, NEW t, NEW Q, NEW P, Serves(s, t, Q), Q \subseteq P
    PROVE  Serves(s, t, P)
<1>1. ASSUME NEW q \in SeqNrs PROVE SlotMoves(s.outbuf[q], t.outbuf[q], q \in P)
  <2>1. SlotMoves(s.outbuf[q], t.outbuf[q], q \in Q)
    BY DEF Serves
  <2> QED
    BY <2>1 DEF SlotMoves
<1> QED
  BY <1>1 DEF Serves

\* Fields that neither the streams nor the window depend on.
LEMMA AsideServes ==
    ASSUME NEW s, SocketType(s), s.st # "UNINITIALIZED", NEW t, SameStream(s, t),
           t.st = s.st, t.ack_pending = s.ack_pending, t.seq_nr = s.seq_nr,
           t.cwp = s.cwp, t.outbuf = s.outbuf, t.out = s.out, NEW Q
    PROVE  Serves(s, t, Q)
<1>1. t.cwp <= s.cwp
  BY DEF SocketType
<1>2. StateMoves(s, t)
  BY DEF StateMoves, Established, Registered
<1> QED
  BY <1>1, <1>2 DEF Serves, SlotMoves

LEMMA TransmitServes ==
    ASSUME NEW s, SocketType(s), s.st # "UNINITIALIZED", NEW q \in SeqNrs,
           s.outbuf[q] # NULL
    PROVE  Serves(s, Transmit(s, q), {})
<1> DEFINE t == Transmit(s, q)
           p == s.outbuf[q]
           d == [type |-> p.type, seq |-> q, ack |-> s.ack_nr,
                 wnd |-> p.wnd, sack |-> NULL, data |-> p.data]
           new == [s.outbuf EXCEPT ![q] = [p EXCEPT !.sent = TRUE, !.need_resend = FALSE]]
           x == s.cur_window + (IF InFlight(p) THEN 0 ELSE Len(p.data))
           e == s.out \cup {d}
<1>1. s.outbuf \in Outbufs /\ p \in OutPackets
  BY DEF SocketType, Outbufs
<1>2. t = [s EXCEPT !.cur_window = x, !.outbuf = new, !.out = e, !.ack_pending = FALSE]
  BY DEF Transmit
<1>3. /\ new[q].sent /\ new[q].type = p.type /\ new[q].data = p.data /\ new[q] \in OutPackets
      /\ \A r \in SeqNrs \ {q} : new[r] = s.outbuf[r]
  BY <1>1 DEF Outbufs, OutPackets
<1>4. new[q] # NULL
  BY <1>3, SendAssumption
<1>5. \A r \in SeqNrs : SlotMoves(s.outbuf[r], new[r], FALSE)
  BY <1>3, <1>4 DEF SlotMoves
<1>6. d.type = p.type /\ d.data = p.data /\ d.seq = q /\ d.ack = s.ack_nr /\ d.sack = NULL
  OBVIOUS
<1> HIDE DEF t, new, x, d, e
<1>7. /\ t.outbuf = new /\ t.out = e /\ t.seq_nr = s.seq_nr /\ t.cwp = s.cwp
      /\ t.st = s.st /\ SameStream(s, t) /\ ~t.ack_pending
  BY <1>2 DEF SocketType, Fields, SameStream, SameRecv
<1>8. FromSlot(s, t, q, d)
  BY <1>3, <1>4, <1>6, <1>7 DEF FromSlot, Unsent
<1>9. t.cwp <= s.cwp
  BY <1>7 DEF SocketType
<1>10. \A r \in t.out : r \in s.out \/ \E y \in SeqNrs : FromSlot(s, t, y, r)
  BY <1>7, <1>8 DEF e
<1>11. StateMoves(s, t)
  BY <1>7 DEF StateMoves, Established, Registered
<1>12. \A r \in SeqNrs : SlotMoves(s.outbuf[r], t.outbuf[r], r \in {})
  BY <1>5, <1>7 DEF SlotMoves
<1>13. Serves(s, t, {})
  BY <1>7, <1>9, <1>10, <1>11, <1>12 DEF Serves
<1> QED
  BY <1>13 DEF t

\* flush_packets.
LEMMA FlushStepServes ==
    ASSUME NEW r, SocketType(r), NEW f, FlushState(r, f), Serves(r, f.s, {}),
           NEW q \in SeqNrs
    PROVE  Serves(r, FlushStep(f, q).s, {})
<1> DEFINE s == f.s
           p == s.outbuf[q]
           Advance(t) == IF f.in_prefix THEN [t EXCEPT !.flush_scan_start = Wrap(q + 1)]
                         ELSE t
<1>1. SendOK(s) /\ SocketType(s) /\ s.st # "UNINITIALIZED" /\ DOMAIN f = {"s", "in_prefix", "full"}
  BY DEF FlushState, SendOK, Serves, StateMoves
<1>2. ASSUME NEW t, SendOK(t), Serves(r, t, {})
      PROVE  Serves(r, Advance(t), {})
  <2>1. CASE f.in_prefix
    <3> DEFINE u == [t EXCEPT !.flush_scan_start = Wrap(q + 1)]
    <3>1. SocketType(t) /\ Wrap(q + 1) \in SeqNrs /\ t.st # "UNINITIALIZED"
      BY <1>2, WrapType DEF SendOK, SeqNrs, Serves, StateMoves
    <3>2. /\ SocketType(u) /\ SameStream(t, u) /\ u.st = t.st
          /\ u.ack_pending = t.ack_pending /\ u.seq_nr = t.seq_nr /\ u.cwp = t.cwp
          /\ u.outbuf = t.outbuf /\ u.out = t.out
      BY <3>1 DEF SocketType, Fields, SameStream, SameRecv
    <3> HIDE DEF u
    <3>3. Serves(t, u, {})
      BY <3>1, <3>2, AsideServes
    <3>4. Serves(r, u, {} \cup {})
      BY <1>2, <3>1, <3>2, <3>3, ServesTransitive
    <3>5. Serves(r, u, {})
      BY <3>4, ServesWider
    <3> QED
      BY <2>1, <3>5 DEF u
  <2> QED
    BY <1>2, <2>1
<1>3. CASE f.full
  BY <1>3 DEF FlushStep
<1>4. CASE ~f.full /\ (p = NULL \/ InFlight(p))
  <2>1. FlushStep(f, q) = [f EXCEPT !.s = Advance(s)]
    BY <1>4 DEF FlushStep
  <2>2. Serves(r, Advance(s), {})
    BY <1>1, <1>2
  <2> HIDE DEF Advance
  <2>3. FlushStep(f, q).s = Advance(s)
    BY <1>1, <2>1
  <2> QED
    BY <2>2, <2>3
<1>5. CASE ~f.full /\ ~(p = NULL \/ InFlight(p))
  <2> DEFINE t == Transmit(s, q)
  <2>1. SendOK(t) /\ SocketType(t)
    BY <1>1, <1>5, TransmitSends DEF SendOK
  <2>2. Serves(s, t, {})
    BY <1>1, <1>5, TransmitServes
  <2> HIDE DEF t, s
  <2>3. Serves(r, t, {} \cup {})
    BY <1>1, <2>1, <2>2, ServesTransitive DEF s
  <2>4. Serves(r, t, {})
    BY <2>3, ServesWider
  <2>5. Serves(r, Advance(t), {})
    BY <1>2, <2>1, <2>4
  <2>6. \/ FlushStep(f, q) = [f EXCEPT !.full = TRUE]
        \/ FlushStep(f, q) = [f EXCEPT !.s = Advance(t)]
        \/ FlushStep(f, q) = [f EXCEPT !.in_prefix = FALSE]
    BY <1>5 DEF FlushStep, t, s
  <2> HIDE DEF Advance
  <2>7. FlushStep(f, q).s \in {f.s, Advance(t)}
    BY <1>1, <2>6
  <2> QED
    BY <2>5, <2>7
<1> QED
  BY <1>3, <1>4, <1>5

LEMMA FlushServes ==
    ASSUME NEW s, SendOK(s), s.st # "UNINITIALIZED"
    PROVE  Serves(s, FlushPackets(s), {})
<1> DEFINE begin == FlushBegin(s)
           n == Wrap(s.seq_nr - begin)
           scan == [i \in 1 .. n |-> Wrap(begin + i - 1)]
           base == [s |-> s, in_prefix |-> TRUE, full |-> FALSE]
           end == FoldLeft(FlushStep, base, scan)
<1>1. begin \in SeqNrs /\ s.seq_nr \in SeqNrs /\ SocketType(s)
  BY WindowStartType DEF SendOK, SocketType, FlushBegin
<1> HIDE DEF begin
<1>2. n \in Nat
  <2>1. s.seq_nr - begin \in Int
    BY <1>1 DEF SeqNrs
  <2> QED
    BY <2>1, WrapType DEF SeqNrs
<1>3. \A i \in 1 .. n : scan[i] \in SeqNrs
  BY <1>1, <1>2, WrapType DEF SeqNrs
<1>4. DOMAIN scan = 1 .. n
  OBVIOUS
<1>5. FlushState(s, base) /\ Serves(s, base.s, {})
  BY <1>1, KeepsReflexive, ServesReflexive DEF FlushState
<1>6. FlushPackets(s) = end.s
  BY DEF FlushPackets, begin
<1> HIDE DEF n, scan, base
<1>7. PICK c : Flush!Chain(c, n, base, scan) /\ end = c[n]
  <2>1. \E c : Flush!Chain(c, n, base, scan) /\ Flush!FoldLeft(FlushStep, base, scan) = c[n]
    BY <1>2, <1>4, Flush!FoldLeftChain
  <2>2. Flush!FoldLeft(FlushStep, base, scan) = end
    BY DEF FoldLeft, Flush!FoldLeft, MapThenFoldSet, Flush!MapThenFoldSet, Max, Flush!Max
  <2> HIDE DEF end
  <2> QED
    BY <2>1, <2>2
<1> HIDE DEF end
<1> DEFINE Z == {i \in 0 .. n : FlushState(s, c[i]) /\ Serves(s, c[i].s, {})}
<1>8. 0 \in Z
  BY <1>2, <1>5, <1>7 DEF Flush!Chain
<1>9. \A i \in 1 .. n : i - 1 \in Z => i \in Z
  <2> SUFFICES ASSUME NEW i \in 1 .. n, FlushState(s, c[i - 1]), Serves(s, c[i - 1].s, {})
               PROVE  i \in Z
    BY <1>2
  <2>1. c[i] = FlushStep(c[i - 1], scan[i])
    BY <1>7 DEF Flush!Chain
  <2>2. FlushState(s, FlushStep(c[i - 1], scan[i]))
        /\ Serves(s, FlushStep(c[i - 1], scan[i]).s, {})
    BY <1>1, <1>3, FlushStepKeeps, FlushStepServes
  <2> QED
    BY <1>2, <2>1, <2>2
<1> HIDE DEF Z
<1>10. n \in Z
  <2>1. \A i \in 0 .. n : i \in Z
    BY <1>2, <1>8, <1>9, Flush!Rounds
  <2> QED
    BY <1>2, <2>1
<1> QED
  BY <1>6, <1>7, <1>10 DEF Z

\* A lone packet that waited, and the retransmission that an ACK triggers.
LEMMA SendLoneLastServes ==
    ASSUME NEW s, SendOK(s), s.st # "UNINITIALIZED"
    PROVE  Serves(s, SendLoneLast(s), {})
<1> DEFINE q == Wrap(s.seq_nr - 1)
<1>1. q \in SeqNrs /\ SocketType(s)
  <2>1. s.seq_nr - 1 \in Int
    BY WindowStartType
  <2> QED
    BY <2>1, WrapType DEF SendOK
<1>2. CASE s.cwp = 1 /\ Unsent(s.outbuf[q])
  <2>1. SendLoneLast(s) = Transmit(s, q)
    BY <1>2 DEF SendLoneLast
  <2> HIDE DEF q
  <2> QED
    BY <1>1, <1>2, <2>1, TransmitServes DEF Unsent
<1>3. CASE ~(s.cwp = 1 /\ Unsent(s.outbuf[q]))
  BY <1>1, <1>3, ServesReflexive DEF SendLoneLast
<1> QED
  BY <1>2, <1>3

LEMMA FastTimeoutServes ==
    ASSUME NEW s, SendOK(s), s.st # "UNINITIALIZED"
    PROVE  Serves(s, FastTimeout(s), {})
<1> DEFINE head == WindowStart(s)
           n == Wrap(s.fast_resend_seq_nr + 1)
           u == [s EXCEPT !.fast_timeout = FALSE]
           v == [s EXCEPT !.fast_resend_seq_nr = n]
           t == Transmit(v, head)
<1>1. SocketType(s) /\ head \in SeqNrs
  BY WindowStartType DEF SendOK
<1>2. n \in SeqNrs
  <2>1. s.fast_resend_seq_nr + 1 \in Int
    BY <1>1 DEF SocketType, SeqNrs
  <2> QED
    BY <2>1, WrapType
<1>3. FastTimeout(s) \in {s, u, t}
      /\ (FastTimeout(s) = t => s.outbuf[head] # NULL \/ FastTimeout(s) \in {s, u})
  BY DEF FastTimeout
<1> HIDE DEF n, head
<1>4. Serves(s, u, {})
  <2>1. /\ SameStream(s, u) /\ u.st = s.st /\ u.ack_pending = s.ack_pending
        /\ u.seq_nr = s.seq_nr /\ u.cwp = s.cwp /\ u.outbuf = s.outbuf /\ u.out = s.out
    BY <1>1 DEF SocketType, Fields, SameStream, SameRecv
  <2> HIDE DEF u
  <2> QED
    BY <1>1, <2>1, AsideServes
<1>5. SendOK(v) /\ SocketType(v) /\ v.st = s.st /\ v.outbuf = s.outbuf /\ Serves(s, v, {})
  <2>1. /\ SocketType(v) /\ SameSend(s, v) /\ SameRecv(s, v) /\ SameStream(s, v)
        /\ v.wrote = s.wrote /\ v.st = s.st /\ v.ack_pending = s.ack_pending
        /\ v.seq_nr = s.seq_nr /\ v.cwp = s.cwp /\ v.outbuf = s.outbuf /\ v.out = s.out
    BY <1>1, <1>2 DEF SocketType, Fields, SameSend, SameStream, SameRecv
  <2> HIDE DEF v
  <2> QED
    BY <1>1, <2>1, AsideKeeps, AsideServes
<1> HIDE DEF u, v
<1>6. ASSUME s.outbuf[head] # NULL PROVE Serves(s, t, {})
  <2>1. SendOK(t) /\ SocketType(t) /\ Serves(v, t, {})
    BY <1>1, <1>5, <1>6, TransmitSends, TransmitServes DEF SendOK
  <2> HIDE DEF t
  <2>2. Serves(s, t, {} \cup {})
    BY <1>1, <1>5, <2>1, ServesTransitive
  <2> QED
    BY <2>2, ServesWider
<1> QED
  BY <1>1, <1>3, <1>4, <1>6, ServesReflexive

\* Timeouts: packets are marked, the first of the window goes out again.
LEMMA MarkLostServes ==
    ASSUME NEW s, SocketType(s), s.st # "UNINITIALIZED"
    PROVE  Serves(s, MarkLost(s), {})
<1> DEFINE t == MarkLost(s)
           lost == {q \in Window(s) : InFlight(s.outbuf[q])}
           new == [q \in SeqNrs |-> IF q \in lost THEN [s.outbuf[q] EXCEPT !.need_resend = TRUE]
                                    ELSE s.outbuf[q]]
           x == s.cur_window - Bytes(s, lost)
           y == WindowStart(s)
<1>1. t = [s EXCEPT !.outbuf = new, !.cur_window = x, !.flush_scan_start = y]
  BY DEF MarkLost
<1>2. \A q \in SeqNrs : SlotMoves(s.outbuf[q], new[q], FALSE)
  <2> TAKE q \in SeqNrs
  <2> DEFINE p == s.outbuf[q]
             r == [p EXCEPT !.need_resend = TRUE]
  <2>1. p \in OutPackets \cup {NULL}
    BY DEF SocketType, Outbufs
  <2>2. CASE q \in lost
    <3>1. p \in OutPackets
      BY <2>1, <2>2 DEF InFlight
    <3>2. r \in OutPackets /\ r.type = p.type /\ r.data = p.data /\ r.sent = p.sent
      BY <3>1 DEF OutPackets
    <3>3. new[q] = r
      BY <2>2
    <3>4. r # NULL /\ p # NULL
      BY <3>1, <3>2, SendAssumption
    <3> HIDE DEF r, p, new
    <3> QED
      BY <3>2, <3>3, <3>4 DEF SlotMoves, p
  <2>3. CASE q \notin lost
    BY <2>3 DEF SlotMoves
  <2> QED
    BY <2>2, <2>3
<1> HIDE DEF t, new, x, y
<1>3. /\ SameStream(s, t) /\ t.st = s.st /\ t.ack_pending = s.ack_pending
      /\ t.seq_nr = s.seq_nr /\ t.cwp = s.cwp /\ t.outbuf = new /\ t.out = s.out
  BY <1>1 DEF SocketType, Fields, SameStream, SameRecv
<1>4. t.cwp <= s.cwp /\ StateMoves(s, t)
  BY <1>3 DEF SocketType, StateMoves, Established, Registered
<1>5. \A q \in SeqNrs : SlotMoves(s.outbuf[q], t.outbuf[q], q \in {})
  BY <1>2, <1>3 DEF SlotMoves
<1>6. Serves(s, t, {})
  BY <1>3, <1>4, <1>5 DEF Serves
<1> QED
  BY <1>6 DEF t

LEMMA ShrinkWindowServes ==
    ASSUME NEW s, SocketType(s), s.st # "UNINITIALIZED"
    PROVE  Serves(s, ShrinkWindow(s), {})
<1> DEFINE x == IF s.cwp = 0 /\ s.max_window > PACKET_SIZE
                THEN Max({(s.max_window * 2) \div 3, PACKET_SIZE}) ELSE PACKET_SIZE
           t == [s EXCEPT !.max_window = x]
<1>1. t = ShrinkWindow(s)
  BY DEF ShrinkWindow
<1> HIDE DEF x
<1>2. /\ SameStream(s, t) /\ t.st = s.st /\ t.ack_pending = s.ack_pending
      /\ t.seq_nr = s.seq_nr /\ t.cwp = s.cwp /\ t.outbuf = s.outbuf /\ t.out = s.out
  BY DEF SocketType, Fields, SameStream, SameRecv
<1> HIDE DEF t
<1>3. Serves(s, t, {})
  BY <1>2, AsideServes
<1> QED
  BY <1>1, <1>3

LEMMA RetransmitTimeoutServes ==
    ASSUME NEW s, SendOK(s), Headed(s), s.st # "UNINITIALIZED", NEW ignore_loss \in BOOLEAN
    PROVE  Serves(s, RetransmitTimeout(s, ignore_loss), {})
<1> DEFINE a == IF ignore_loss THEN s ELSE ShrinkWindow(s)
           m == MarkLost(a)
           u == [m EXCEPT !.retransmit_count = @ + 1, !.fast_timeout = TRUE]
           head == WindowStart(m)
           t == Transmit(u, head)
<1>1. SocketType(s)
  BY DEF SendOK
<1>2. SendOK(a) /\ Keeps(s, a) /\ Serves(s, a, {})
  BY <1>1, ShrinkWindowKeeps, ShrinkWindowServes, KeepsReflexive, ServesReflexive
<1> HIDE DEF a
<1>3. SocketType(a) /\ a.st # "UNINITIALIZED"
  BY <1>2 DEF SendOK, Serves, StateMoves
<1>4. SendOK(m) /\ Keeps(a, m) /\ Serves(a, m, {})
  BY <1>2, <1>3, MarkLostKeeps, MarkLostServes
<1> HIDE DEF m
<1>5. SocketType(m) /\ m.st # "UNINITIALIZED" /\ Keeps(s, m)
  BY <1>2, <1>4, KeepsTransitive DEF SendOK, Serves, StateMoves
<1>6. Serves(s, m, {})
  <2>1. Serves(s, m, {} \cup {})
    BY <1>1, <1>2, <1>3, <1>4, <1>5, ServesTransitive
  <2> QED
    BY <2>1, ServesWider
<1>7. CASE s.cwp = 0
  <2>1. RetransmitTimeout(s, ignore_loss) = m
    BY <1>7 DEF RetransmitTimeout, m, a
  <2> QED
    BY <1>6, <2>1
<1>8. CASE s.cwp # 0
  <2>1. RetransmitTimeout(s, ignore_loss) = t
    BY <1>8 DEF RetransmitTimeout, m, a
  <2>2. /\ SocketType(u) /\ SameStream(m, u) /\ u.st = m.st /\ u.ack_pending = m.ack_pending
        /\ u.seq_nr = m.seq_nr /\ u.cwp = m.cwp /\ u.outbuf = m.outbuf /\ u.out = m.out
    BY <1>5 DEF SocketType, Fields, SameStream, SameRecv
  <2>3. head \in SeqNrs /\ m.outbuf[head] # NULL
    <3>1. s.cwp > 0 /\ s.outbuf[WindowStart(s)] # NULL
      BY <1>1, <1>8 DEF Headed, SocketType
    <3>2. WindowStart(s) \in SeqNrs /\ head = WindowStart(s)
      BY <1>5, WindowStartType DEF Keeps, SameWindow, WindowStart
    <3> QED
      BY <1>5, <3>1, <3>2 DEF Keeps, SameWindow
  <2> HIDE DEF u, head
  <2>4. Serves(m, u, {})
    BY <1>5, <2>2, AsideServes
  <2>5. Serves(u, t, {}) /\ SocketType(t)
    <3>1. Serves(u, t, {})
      BY <1>5, <2>2, <2>3, TransmitServes
    <3>2. SocketType(t)
      <4> DEFINE p == u.outbuf[head]
                 d == [type |-> p.type, seq |-> head, ack |-> u.ack_nr,
                       wnd |-> p.wnd, sack |-> NULL, data |-> p.data]
                 n == u.cur_window + (IF InFlight(p) THEN 0 ELSE Len(p.data))
                 new == [u.outbuf EXCEPT ![head] = [p EXCEPT !.sent = TRUE, !.need_resend = FALSE]]
                 e == u.out \cup {d}
      <4>1. p \in OutPackets /\ u.outbuf \in Outbufs /\ u.ack_nr \in SeqNrs
            /\ u.cur_window \in Int /\ u.out \in SUBSET Datagrams
        BY <2>2, <2>3 DEF SocketType, Outbufs
      <4>2. n \in Int
        BY <4>1, LenProperties DEF OutPackets
      <4>3. new \in Outbufs
        BY <4>1, <2>3 DEF Outbufs, OutPackets
      <4>4. d \in Datagrams
        <5>1. p.type \in {"SYN", "DATA", "FIN"} /\ p.wnd \in Nat /\ p.data \in Seq(Nat)
          BY <4>1 DEF OutPackets
        <5> HIDE DEF p
        <5> QED
          BY <4>1, <5>1, <2>3 DEF Datagrams
      <4>5. e \in SUBSET Datagrams
        BY <4>1, <4>4
      <4>6. t = [u EXCEPT !.cur_window = n, !.outbuf = new, !.out = e, !.ack_pending = FALSE]
        BY DEF Transmit
      <4> HIDE DEF t, n, new, e, d, p
      <4> QED
        BY <2>2, <4>2, <4>3, <4>5, <4>6 DEF SocketType, Fields
    <3> QED
      BY <3>1, <3>2
  <2> HIDE DEF t
  <2>6. Serves(m, t, {} \cup {})
    BY <1>5, <2>2, <2>4, <2>5, ServesTransitive
  <2>7. Serves(m, t, {})
    BY <2>6, ServesWider
  <2>8. Serves(s, t, {} \cup {})
    BY <1>1, <1>5, <1>6, <2>5, <2>7, ServesTransitive
  <2>9. Serves(s, t, {})
    BY <2>8, ServesWider
  <2> QED
    BY <2>1, <2>9
<1> QED
  BY <1>7, <1>8

\* Acknowledgement: what leaves outbuf was sent and has a number of Q.
LEMMA AckPacketsServes ==
    ASSUME NEW s, SendOK(s), s.st # "UNINITIALIZED", NEW Q \in SUBSET SeqNrs
    PROVE  Serves(s, AckPackets(s, Q), Q)
<1> DEFINE t == AckPackets(s, Q)
           A == {q \in Q : s.outbuf[q] # NULL /\ s.outbuf[q].sent}
           new == [q \in SeqNrs |-> IF q \in A THEN NULL ELSE s.outbuf[q]]
           n == s.cur_window - Bytes(s, {q \in A : InFlight(s.outbuf[q])})
           k == IF A = {} THEN s.retransmit_count ELSE 0
           b == s.rto_armed \/ A # {}
<1>1. SocketType(s)
  BY DEF SendOK
<1>2. t = [s EXCEPT !.outbuf = new, !.cur_window = n, !.retransmit_count = k, !.rto_armed = b]
  BY DEF AckPackets
<1>3. \A q \in SeqNrs : SlotMoves(s.outbuf[q], new[q], q \in Q)
  BY DEF SlotMoves
<1> HIDE DEF t, new, n, k, b, A
<1>4. /\ SameStream(s, t) /\ t.st = s.st /\ t.ack_pending = s.ack_pending
      /\ t.seq_nr = s.seq_nr /\ t.cwp = s.cwp /\ t.outbuf = new /\ t.out = s.out
  BY <1>1, <1>2 DEF SocketType, Fields, SameStream, SameRecv
<1>5. t.cwp <= s.cwp /\ StateMoves(s, t)
  BY <1>1, <1>4 DEF SocketType, StateMoves, Established, Registered
<1>6. Serves(s, t, Q)
  BY <1>3, <1>4, <1>5 DEF Serves
<1> QED
  BY <1>6 DEF t

\* The first numbers of the window.
Leading(s, acks) == {Wrap(WindowStart(s) + i) : i \in 0 .. acks - 1}

LEMMA LeadingType ==
    ASSUME NEW s, SendOK(s), NEW acks \in Nat
    PROVE  Leading(s, acks) \in SUBSET SeqNrs
<1>1. WindowStart(s) \in Int
  BY WindowStartType DEF SeqNrs
<1>2. \A i \in 0 .. acks - 1 : WindowStart(s) + i \in Int
  BY <1>1
<1> QED
  BY <1>2, WrapType DEF Leading

LEMMA AckCumulativeServes ==
    ASSUME NEW s, SendOK(s), s.st # "UNINITIALIZED", NEW acks \in 0 .. s.cwp
    PROVE  Serves(s, AckCumulative(s, acks), Leading(s, acks))
<1> DEFINE At(i) == Wrap(WindowStart(s) + i)
           K == {k \in 0 .. acks : \A i \in 0 .. k - 1 : ~Unsent(s.outbuf[At(i)])}
           n == Max(K)
           Q == {At(i) : i \in 0 .. n - 1}
           a == AckPackets(s, Q)
           m == a.cwp - n
           t == [a EXCEPT !.cwp = m]
<1>1. SocketType(s) /\ s.cwp \in Nat /\ acks \in Nat
  BY DEF SendOK, SocketType
<1>2. n \in 0 .. acks
  <2>1. 0 \in K /\ K \in SUBSET (0 .. acks)
    BY <1>1
  <2>2. n \in K
    <3> HIDE DEF K
    <3> QED
      BY <1>1, <2>1, MaxInBounds
  <2> QED
    BY <2>2
<1> HIDE DEF n
<1>3. Q \subseteq Leading(s, acks) /\ Q \in SUBSET SeqNrs
  <2>1. Q = Leading(s, n) /\ n \in Nat
    BY <1>2 DEF Leading
  <2>2. Leading(s, n) \subseteq Leading(s, acks)
    BY <1>1, <1>2 DEF Leading
  <2> QED
    BY <2>1, <2>2, LeadingType
<1>4. t = AckCumulative(s, acks)
  BY DEF AckCumulative, n
<1> HIDE DEF Q
<1>5. SendOK(a) /\ a.cwp = s.cwp /\ Serves(s, a, Q)
  BY <1>3, AckPacketsSends, AckPacketsServes
<1> HIDE DEF a
<1>6. SocketType(a) /\ a.st # "UNINITIALIZED" /\ m \in Nat /\ m <= a.cwp
  BY <1>1, <1>2, <1>5 DEF SendOK, Serves, StateMoves
<1>7. Serves(a, t, {}) /\ SocketType(t)
  <2> HIDE DEF m
  <2>1. /\ SocketType(t) /\ SameStream(a, t) /\ t.st = a.st /\ t.ack_pending = a.ack_pending
        /\ t.seq_nr = a.seq_nr /\ t.cwp = m /\ t.outbuf = a.outbuf /\ t.out = a.out
    BY <1>6 DEF SocketType, Fields, SameStream, SameRecv
  <2> HIDE DEF t
  <2>2. StateMoves(a, t)
    BY <1>6, <2>1 DEF StateMoves, Established, Registered
  <2> QED
    BY <1>6, <2>1, <2>2 DEF Serves, SlotMoves
<1> HIDE DEF t
<1>8. Serves(s, t, Q \cup {})
  BY <1>1, <1>5, <1>6, <1>7, ServesTransitive
<1> QED
  BY <1>3, <1>4, <1>8, ServesWider

LEMMA SkipAckedServes ==
    ASSUME NEW s, SendOK(s), s.st # "UNINITIALIZED"
    PROVE  Serves(s, SkipAcked(s), {})
<1> DEFINE K == {0} \cup {j \in 1 .. s.cwp : s.outbuf[Wrap(s.seq_nr - j)] # NULL}
           m == Max(K)
           t == [s EXCEPT !.cwp = m]
<1>1. SocketType(s) /\ s.cwp \in Nat
  BY DEF SendOK, SocketType
<1>2. m \in 0 .. s.cwp
  <2>1. K \in SUBSET (0 .. s.cwp) /\ K # {}
    BY <1>1
  <2> HIDE DEF K
  <2> QED
    BY <1>1, <2>1, MaxInBounds
<1>3. t = SkipAcked(s)
  BY DEF SkipAcked
<1> HIDE DEF m
<1>4. /\ SameStream(s, t) /\ t.st = s.st /\ t.ack_pending = s.ack_pending
      /\ t.seq_nr = s.seq_nr /\ t.cwp = m /\ t.outbuf = s.outbuf /\ t.out = s.out
  BY <1>1 DEF SocketType, Fields, SameStream, SameRecv
<1> HIDE DEF t
<1>5. t.cwp <= s.cwp /\ StateMoves(s, t)
  BY <1>2, <1>4 DEF StateMoves, Established, Registered
<1>6. Serves(s, t, {})
  BY <1>4, <1>5 DEF Serves, SlotMoves
<1> QED
  BY <1>3, <1>6

\* Two calls in a row, the second of which empties no slot that the first may not.
LEMMA ServesThen ==
    ASSUME NEW r, SendOK(r), NEW s, SendOK(s), NEW t, SendOK(t),
           NEW Q, NEW P, P \subseteq Q, Serves(r, s, Q), Serves(s, t, P)
    PROVE  Serves(r, t, Q)
<1>1. Serves(r, t, Q \cup P)
  BY ServesTransitive DEF SendOK
<1> QED
  BY <1>1, ServesWider

\* A socket that was served is not a new one.
LEMMA ServedState ==
    ASSUME NEW s, NEW t, NEW Q, Serves(s, t, Q)
    PROVE  t.st # "UNINITIALIZED"
BY DEF Serves, StateMoves

\* Fields that neither the window nor the streams depend on.
SameSocket(s, t) ==
  /\ SameSend(s, t) /\ SameStream(s, t) /\ t.st = s.st /\ t.out = s.out
  /\ t.ack_pending = s.ack_pending

LEMMA AsideServed ==
    ASSUME NEW s, SendOK(s), s.st # "UNINITIALIZED", NEW t, SocketType(t),
           SameSocket(s, t), NEW Q
    PROVE  SendOK(t) /\ Keeps(s, t) /\ Serves(s, t, Q)
<1>1. SocketType(s) /\ SameSend(s, t) /\ SameRecv(s, t) /\ t.wrote = s.wrote
  BY DEF SendOK, SameSocket, SameStream
<1>2. SendOK(t) /\ Keeps(s, t)
  BY <1>1, AsideKeeps DEF SameSocket
<1>3. Serves(s, t, Q)
  BY <1>1, AsideServes DEF SameSocket, SameSend
<1> QED
  BY <1>2, <1>3

\* Selective acknowledgement.
LEMMA ResendLostServes ==
    ASSUME NEW r, SendOK(r), NEW f, ResendState(r, f), NEW i \in Nat, Serves(r, f.s, {})
    PROVE  Serves(r, ResendLost(f, i).s, {})
<1> DEFINE k == f.ack + (IF i = 0 THEN 1 ELSE i)
           v == Wrap(k)
           s == f.s
           t == Transmit(s, v)
           n == Wrap(v + 1)
           u == [t EXCEPT !.fast_resend_seq_nr = n]
           l == f.left - 1
<1>1. v \in SeqNrs
  <2>1. k \in Int
    BY DEF ResendState, SeqNrs
  <2> QED
    BY <2>1, WrapType
<1>2. n \in SeqNrs
  <2>1. v + 1 \in Int
    BY <1>1 DEF SeqNrs
  <2> QED
    BY <2>1, WrapType
<1>3. \/ ResendLost(f, i) = f
      \/ s.outbuf[v] # NULL /\ ResendLost(f, i) = [f EXCEPT !.s = u, !.left = l]
  BY DEF ResendLost
<1>4. SendOK(s) /\ SocketType(s) /\ s.st # "UNINITIALIZED" /\ DOMAIN f = {"s", "ack", "lost", "left"}
  BY ServedState DEF ResendState, SendOK
<1> HIDE DEF v, l, n
<1>5. CASE s.outbuf[v] # NULL /\ ResendLost(f, i) = [f EXCEPT !.s = u, !.left = l]
  <2> HIDE DEF s
  <2>1. SendOK(t) /\ Serves(s, t, {})
    BY <1>1, <1>4, <1>5, TransmitSends, TransmitServes
  <2> HIDE DEF t
  <2>2. t.st # "UNINITIALIZED" /\ SocketType(t)
    BY <2>1, ServedState DEF SendOK
  <2>3. SocketType(u) /\ SameSocket(t, u)
    BY <1>2, <2>2 DEF SocketType, Fields, SameSocket, SameStream, SameSend, SameRecv
  <2> HIDE DEF u
  <2>4. SendOK(u) /\ Serves(t, u, {})
    BY <2>1, <2>2, <2>3, AsideServed
  <2>5. Serves(r, s, {})
    BY DEF s
  <2>6. Serves(r, t, {})
    BY <1>4, <2>1, <2>5, ServesThen
  <2>7. Serves(r, u, {})
    BY <2>1, <2>4, <2>6, ServesThen
  <2>8. ResendLost(f, i).s = u
    BY <1>4, <1>5
  <2> QED
    BY <2>7, <2>8
<1> QED
  BY <1>3, <1>5

\* The numbers that a selective ACK names.
Sacked(ack, sack) == {Wrap(ack + 2 + b) : b \in sack}

LEMMA SelectiveAckServes ==
    ASSUME NEW s, SendOK(s), s.st # "UNINITIALIZED", NEW ack \in SeqNrs,
           NEW sack \in SUBSET Nat, NEW decay \in BOOLEAN
    PROVE  Serves(s, SelectiveAck(s, ack, sack, decay), Sacked(ack, sack))
<1> DEFINE At(b)     == Wrap(ack + 2 + b)
           counted   == {b \in sack : SackInWindow(s, At(b))}
           Q         == {At(b) : b \in counted}
           P         == Sacked(ack, sack)
           a         == AckPackets(s, Q)
           Above(b)  == Cardinality({c \in counted : c > b})
           lost      == {b \in -1 .. SACK_BITS - 1 :
                           /\ b \notin sack /\ SackInWindow(s, At(b))
                           /\ s.outbuf[At(b)] # NULL /\ s.outbuf[At(b)].sent
                           /\ NearFastResend(s, At(b)) /\ Above(b) >= DUP_ACKS}
           next      == IF NearFastResend(s, Wrap(ack + 1)) /\ Above(-2) >= DUP_ACKS
                        THEN {0} ELSE {}
           base      == [s |-> a, ack |-> ack, lost |-> next \cup {b + 2 : b \in lost},
                         left |-> MAX_FAST_RESENDS]
           n         == SACK_BITS + 2
           scan      == [i \in 1 .. n |-> i - 1]
           end       == FoldLeft(ResendLost, base, scan)
           m         == Max({MIN_WINDOW, end.s.max_window \div 2})
           u         == [end.s EXCEPT !.max_window = m]
<1>1. CASE s.cwp = 0
  <2>1. SelectiveAck(s, ack, sack, decay) = s
    BY <1>1 DEF SelectiveAck
  <2> QED
    BY <2>1, ServesReflexive DEF SendOK
<1>2. CASE s.cwp # 0
  <2>1. Q \in SUBSET SeqNrs /\ Q \subseteq P
    <3>1. \A b \in sack : ack + 2 + b \in Int
      BY DEF SeqNrs
    <3> QED
      BY <3>1, WrapType DEF Sacked
  <2> HIDE DEF Q, P
  <2>2. SendOK(a) /\ Serves(s, a, P) /\ a.st # "UNINITIALIZED"
    <3>1. SendOK(a) /\ Serves(s, a, Q)
      BY <2>1, AckPacketsSends, AckPacketsServes
    <3> HIDE DEF a
    <3> QED
      BY <2>1, <3>1, ServesWider, ServedState
  <2>3. ResendState(a, base) /\ Serves(a, base.s, {})
    <3> HIDE DEF a, lost, next
    <3>1. ResendState(a, base)
      BY <2>2, KeepsReflexive DEF ResendState
    <3> QED
      BY <2>2, <3>1, ServesReflexive DEF SendOK
  <2>4. n \in Nat /\ DOMAIN scan = 1 .. n /\ \A i \in 1 .. n : scan[i] \in Nat
    BY SendAssumption
  <2>5. SelectiveAck(s, ack, sack, decay) \in {end.s, u}
    BY <1>2 DEF SelectiveAck, Q, a
  <2> HIDE DEF base, scan, n, a
  <2>6. PICK c : Resend!Chain(c, n, base, scan) /\ end = c[n]
    <3>1. \E c : Resend!Chain(c, n, base, scan) /\ Resend!FoldLeft(ResendLost, base, scan) = c[n]
      BY <2>4, Resend!FoldLeftChain
    <3>2. Resend!FoldLeft(ResendLost, base, scan) = end
      BY DEF FoldLeft, Resend!FoldLeft, MapThenFoldSet, Resend!MapThenFoldSet, Max, Resend!Max
    <3> HIDE DEF end
    <3> QED
      BY <3>1, <3>2
  <2> HIDE DEF end
  <2> DEFINE Z == {i \in 0 .. n : ResendState(a, c[i]) /\ Serves(a, c[i].s, {})}
  <2>7. 0 \in Z
    BY <2>3, <2>4, <2>6 DEF Resend!Chain
  <2>8. \A i \in 1 .. n : i - 1 \in Z => i \in Z
    <3> SUFFICES ASSUME NEW i \in 1 .. n, ResendState(a, c[i - 1]), Serves(a, c[i - 1].s, {})
                 PROVE  i \in Z
      BY <2>4
    <3>1. c[i] = ResendLost(c[i - 1], scan[i])
      BY <2>6 DEF Resend!Chain
    <3>2. ResendState(a, ResendLost(c[i - 1], scan[i]))
          /\ Serves(a, ResendLost(c[i - 1], scan[i]).s, {})
      BY <2>2, <2>4, ResendLostKeeps, ResendLostServes
    <3> QED
      BY <2>4, <3>1, <3>2
  <2> HIDE DEF Z
  <2>9. ResendState(a, end) /\ Serves(a, end.s, {})
    <3>1. \A i \in 0 .. n : i \in Z
      BY <2>4, <2>7, <2>8, Resend!Rounds
    <3>2. n \in Z
      BY <2>4, <3>1
    <3> QED
      BY <2>6, <3>2 DEF Z
  <2> DEFINE e == end.s
  <2>10. SendOK(e) /\ SocketType(e) /\ Serves(a, e, {}) /\ e.st # "UNINITIALIZED"
    BY <2>9, ServedState DEF ResendState, SendOK
  <2>11. SendOK(u) /\ Serves(e, u, {})
    <3>1. m \in Nat \ {0}
      <4> DEFINE h == end.s.max_window \div 2
      <4>1. h \in Int /\ MIN_WINDOW \in Nat \ {0}
        BY <2>10, SendAssumption DEF SocketType
      <4> HIDE DEF h
      <4>2. Max({MIN_WINDOW, h}) = IF MIN_WINDOW >= h THEN MIN_WINDOW ELSE h
        BY <4>1, MaxOfTwo
      <4>3. m = Max({MIN_WINDOW, h})
        BY DEF h
      <4> HIDE DEF m
      <4> QED
        BY <4>1, <4>2, <4>3
    <3>2. u = [e EXCEPT !.max_window = m]
      OBVIOUS
    <3> HIDE DEF e, m, u
    <3>3. SocketType(u) /\ SameSocket(e, u)
      BY <2>10, <3>1, <3>2 DEF SocketType, Fields, SameSocket, SameSend, SameStream, SameRecv
    <3> QED
      BY <2>10, <3>3, AsideServed
  <2> HIDE DEF u, e
  <2>12. Serves(s, e, P)
    BY <2>2, <2>10, ServesThen
  <2>13. Serves(s, u, P)
    BY <2>10, <2>11, <2>12, ServesThen
  <2> QED
    BY <2>5, <2>12, <2>13 DEF P, e
<1> QED
  BY <1>1, <1>2

\* The congestion window, the number for the fast resend and the event WRITABLE.
LEMMA CongestionControlServes ==
    ASSUME NEW s, SendOK(s), s.st # "UNINITIALIZED", NEW p, NEW acks, NEW window \in Nat \ {0}
    PROVE  Serves(s, CongestionControl(s, p, acks, window), {})
<1> DEFINE u == [s EXCEPT !.max_window = window]
<1>1. CongestionControl(s, p, acks, window) \in {s, u}
  BY DEF CongestionControl
<1>2. SocketType(s)
  BY DEF SendOK
<1>3. SocketType(u) /\ SameSocket(s, u)
  BY <1>2 DEF SocketType, Fields, SameSocket, SameSend, SameStream, SameRecv
<1> HIDE DEF u
<1> QED
  BY <1>1, <1>2, <1>3, AsideServed, ServesReflexive

LEMMA RaiseFastResendServes ==
    ASSUME NEW s, SendOK(s), s.st # "UNINITIALIZED", NEW ack \in SeqNrs
    PROVE  Serves(s, RaiseFastResend(s, ack), {})
<1> DEFINE n == Wrap(ack + 1)
           u == [s EXCEPT !.fast_resend_seq_nr = n]
<1>1. SocketType(s) /\ n \in SeqNrs
  <2>1. ack + 1 \in Int
    BY DEF SeqNrs
  <2> QED
    BY <2>1, WrapType DEF SendOK
<1>2. RaiseFastResend(s, ack) \in {s, u}
  BY DEF RaiseFastResend
<1> HIDE DEF n
<1>3. SocketType(u) /\ SameSocket(s, u)
  BY <1>1 DEF SocketType, Fields, SameSocket, SameSend, SameStream, SameRecv
<1> HIDE DEF u
<1> QED
  BY <1>1, <1>2, <1>3, AsideServed, ServesReflexive

LEMMA BecomeWritableServes ==
    ASSUME NEW s, SendOK(s), s.st # "UNINITIALIZED"
    PROVE  Serves(s, BecomeWritable(s), {}) /\ SendOK(BecomeWritable(s))
<1> DEFINE st == "CONNECTED"
           u == [s EXCEPT !.st = st]
<1>1. SocketType(s) /\ st \in States /\ s.cwp <= s.cwp
  BY DEF States, SendOK, SocketType
<1>2. \/ BecomeWritable(s) = s
      \/ s.st = "CONNECTED_FULL" /\ BecomeWritable(s) = u
  BY DEF BecomeWritable
<1>3. CASE s.st = "CONNECTED_FULL" /\ BecomeWritable(s) = u
  <2> HIDE DEF st
  <2>1. /\ SocketType(u) /\ SameSend(s, u) /\ SameStream(s, u) /\ u.out = s.out
        /\ u.ack_pending = s.ack_pending /\ u.st = st
    BY <1>1 DEF SocketType, Fields, SameSend, SameStream, SameRecv
  <2> HIDE DEF u
  <2>2. SendOK(u)
    BY <2>1, SameSendOK
  <2>3. StateMoves(s, u)
    BY <1>3, <2>1 DEF StateMoves, Established, Registered, st
  <2> QED
    BY <1>1, <1>3, <2>1, <2>2, <2>3 DEF Serves, SameSend, SlotMoves
<1> QED
  BY <1>1, <1>2, <1>3, ServesReflexive

\* What advance_send_window does after the state changes.
LEMMA AdvanceServes ==
    ASSUME NEW s, SendOK(s), s.st # "UNINITIALIZED", NEW ack \in SeqNrs,
           NEW acks \in 0 .. s.cwp
    PROVE  LET t == FastTimeout(SendLoneLast(SkipAcked(AckCumulative(RaiseFastResend(s, ack), acks))))
           IN  SendOK(t) /\ Serves(s, t, Leading(s, acks))
<1> DEFINE v == RaiseFastResend(s, ack)
           a == AckCumulative(v, acks)
           k == SkipAcked(a)
           l == SendLoneLast(k)
           t == FastTimeout(l)
           Q == Leading(s, acks)
<1>1. SendOK(v) /\ Keeps(s, v) /\ Serves(s, v, Q) /\ v.st # "UNINITIALIZED"
  <2>1. SendOK(v) /\ Keeps(s, v) /\ Serves(s, v, {})
    BY RaiseFastResendKeeps, RaiseFastResendServes
  <2> HIDE DEF v, Q
  <2>2. Serves(s, v, Q)
    BY <2>1, ServesWider
  <2> QED
    BY <2>1, <2>2, ServedState
<1> HIDE DEF v
<1>2. acks \in 0 .. v.cwp /\ Leading(v, acks) = Q
  BY <1>1 DEF Keeps, SameWindow, Leading, WindowStart
<1> HIDE DEF Q
<1>3. SendOK(a) /\ Serves(v, a, Q) /\ a.st # "UNINITIALIZED"
  <2>1. SendOK(a) /\ Serves(v, a, Q)
    BY <1>1, <1>2, AckCumulativeSends, AckCumulativeServes
  <2> HIDE DEF a
  <2> QED
    BY <2>1, ServedState
<1> HIDE DEF a
<1>4. SendOK(k) /\ Serves(a, k, {}) /\ k.st # "UNINITIALIZED"
  <2>1. SendOK(k) /\ Serves(a, k, {})
    BY <1>3, SkipAckedSends, SkipAckedServes
  <2> HIDE DEF k
  <2> QED
    BY <2>1, ServedState
<1> HIDE DEF k
<1>5. SendOK(l) /\ Serves(k, l, {}) /\ l.st # "UNINITIALIZED"
  <2>1. SendOK(l) /\ Serves(k, l, {})
    BY <1>4, SendLoneLastKeeps, SendLoneLastServes
  <2> HIDE DEF l
  <2> QED
    BY <2>1, ServedState
<1> HIDE DEF l
<1>6. SendOK(t) /\ Serves(l, t, {})
  BY <1>5, FastTimeoutKeeps, FastTimeoutServes
<1> HIDE DEF t
<1>7. Serves(s, a, Q)
  BY <1>1, <1>3, ServesThen
<1>8. Serves(s, k, Q)
  BY <1>3, <1>4, <1>7, ServesThen
<1>9. Serves(s, l, Q)
  BY <1>4, <1>5, <1>8, ServesThen
<1>10. Serves(s, t, Q)
  BY <1>5, <1>6, <1>9, ServesThen
<1> QED
  BY <1>6, <1>10 DEF t, l, k, a, v, Q
=============================================================================
