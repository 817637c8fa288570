---------------------------- MODULE BufferProofs -----------------------------
(***************************************************************************)
(* Theorems about what holds the packets of a socket.  ReceiveWindow: for  *)
(* every sequence space, window size, initial sequence number and number   *)
(* of packets, the stream is handed over in order and once.                *)
(* SequenceBuffer: for every initial size, every span of its users and     *)
(* every width of the sequence numbers, the growing ring behind inbuf and  *)
(* outbuf is a map from sequence numbers to packets.                       *)
(***************************************************************************)
EXTENDS ReceiveWindow, SequenceBuffer, SeqNrProofs, FiniteSetTheorems, SequenceTheorems

-----------------------------------------------------------------------------
(* How wrapped numbers relate to absolute ones.                            *)

\* The distance the receiver computes for the packet with absolute number k
\* is the true one, reduced to one sequence space.
LEMMA AheadOf ==
  ASSUME NEW r, NEW a \in Int, NEW k \in Int, r.ack_nr = Wrap(ISN + a)
  PROVE  Ahead(r, Wrap(ISN + k)) = Wrap(k - a - 1)
<1>1. ISN \in Int
  BY WindowAssumption, SeqModAssumption DEF SeqNrs
<1>2. Wrap(Wrap(ISN + k) - Wrap(ISN + a) + (-1)) = Wrap((ISN + k) - (ISN + a) + (-1))
  BY <1>1, WrapDifference
<1>3. Wrap(ISN + k) \in Int /\ Wrap(ISN + a) \in Int
  BY <1>1, WrapType DEF SeqNrs
<1> QED
  BY <1>1, <1>2, <1>3 DEF Ahead

\* Every sequence number is that of the packet its distance says.
LEMMA SlotOf ==
  ASSUME NEW r, NEW a \in Int, NEW q \in SeqNrs, r.ack_nr = Wrap(ISN + a)
  PROVE  /\ Ahead(r, q) \in SeqNrs
         /\ q = Wrap(ISN + a + 1 + Ahead(r, q))
<1>1. ISN \in Int /\ q \in Int
  BY WindowAssumption, SeqModAssumption DEF SeqNrs
<1>2. PICK b \in Int : b = q - ISN
  BY <1>1
<1>3. q = Wrap(ISN + b)
  BY <1>1, <1>2, WrapIdentity
<1>4. Ahead(r, q) = Wrap(b - a - 1)
  BY <1>3, AheadOf
<1>5. Wrap(Wrap(b - a - 1) + (ISN + a + 1)) = Wrap((b - a - 1) + (ISN + a + 1))
  BY <1>1, WrapAdd
<1>6. Wrap(b - a - 1) \in SeqNrs /\ Wrap(b - a - 1) \in Int
  BY WrapType DEF SeqNrs
<1> QED
  BY <1>1, <1>3, <1>4, <1>5, <1>6

\* In the window, arrivals are new packets: what is not out of the window is
\* past the last acknowledged one, by the distance the receiver computes.
LEMMA WithinWindow ==
  ASSUME WindowInv, NEW k \in 1 .. sent, StillAround(k),
         ~OutOfWindow(Ahead(recv, Wrap(ISN + k)))
  PROVE  /\ k > acked
         /\ Ahead(recv, Wrap(ISN + k)) = k - acked - 1
<1>1. Ahead(recv, Wrap(ISN + k)) = Wrap(k - acked - 1)
  BY AheadOf DEF WindowInv, TypeOK, RecvType
<1>2. k > acked
  <2> SUFFICES ASSUME k <= acked PROVE FALSE
    BY DEF WindowInv, TypeOK, RecvType
  <2>1. k - acked - 1 + SEQ_MOD \in SeqNrs
    BY SeqModAssumption, ReorderMaxAssumption DEF StillAround, SeqNrs, WindowInv, TypeOK, RecvType
  <2>2. Wrap((k - acked - 1) + SEQ_MOD * 1) = Wrap(k - acked - 1)
    BY WrapAround DEF WindowInv, TypeOK, RecvType
  <2>3. Wrap(k - acked - 1) = k - acked - 1 + SEQ_MOD
    BY <2>1, <2>2, WrapIdentity, SeqModAssumption DEF WindowInv, TypeOK, RecvType
  <2> QED
    BY <1>1, <2>3, SeqModAssumption, ReorderMaxAssumption
       DEF StillAround, OutOfWindow, WindowInv, TypeOK, RecvType
<1>3. k - acked - 1 \in SeqNrs
  BY <1>2, WindowAssumption, SeqModAssumption DEF WindowInv, TypeOK, RecvType, SentBounds, SeqNrs
<1> QED
  BY <1>1, <1>2, <1>3, WrapIdentity

-----------------------------------------------------------------------------
(* The initial state and the peer's steps.                                 *)

(* The state after the handshake satisfies the inductive invariant: nothing
   was sent, ack_nr is the number of the peer's SYN, no slot is filled. *)
LEMMA InitInv == Init => WindowInv
<1> SUFFICES ASSUME Init PROVE WindowInv
  OBVIOUS
<1>1. /\ ISN \in SeqNrs /\ ISN \in Int /\ ISN = Wrap(ISN)
      /\ 0 \in SeqNrs /\ Wrap(ISN + 1) \in SeqNrs
  BY WindowAssumption, SeqModAssumption, WrapIdentity, WrapType DEF SeqNrs
<1>2. Filled = {}
  BY DEF Init, RecvInit, Filled
<1>3. TypeOK
  BY <1>1 DEF Init, RecvInit, TypeOK, RecvType
<1>4. BufferConsistent
  BY <1>1, <1>2, FS_EmptySet DEF Init, RecvInit, BufferConsistent
<1>5. InOrderOnce /\ EofIsLast /\ FinNoted
  BY DEF Init, RecvInit, InOrderOnce, EofIsLast, FinNoted
<1>6. SentBounds /\ recv.ack_nr = Wrap(ISN + acked)
  BY <1>1, WindowAssumption DEF Init, RecvInit, SentBounds
<1> QED
  BY <1>2, <1>3, <1>4, <1>5, <1>6 DEF WindowInv

\* Steps that leave the window and its contents alone.
LEMMA PeerStepInv ==
  ASSUME WindowInv, PeerSendsData \/ PeerSendsFin
  PROVE  WindowInv'
<1>1. /\ recv' = recv /\ acked' = acked /\ sent' = sent + 1
      /\ fin = 0 /\ fin' \in {0, sent + 1} /\ sent < acked + OUT_MAX
  BY DEF PeerSendsData, PeerSendsFin, PeerMaySend
<1>2. Filled' = Filled
  BY <1>1 DEF Filled
<1>3. ~recv.got_fin /\ ~recv.got_fin_reached
  BY <1>1 DEF WindowInv, FinNoted, EofIsLast
<1>4. TypeOK'
  BY <1>1 DEF WindowInv, TypeOK, RecvType
<1>5. SentBounds'
  BY <1>1, WindowAssumption DEF WindowInv, TypeOK, RecvType, SentBounds
<1>6. BufferConsistent'
  BY <1>1, <1>2 DEF WindowInv, BufferConsistent, Ahead
<1>7. InOrderOnce' /\ EofIsLast' /\ FinNoted'
  BY <1>1, <1>3 DEF WindowInv, InOrderOnce, EofIsLast, FinNoted
<1>8. \A q \in Filled' : recv'.inbuf[q] <= sent'
  BY <1>1, <1>2 DEF WindowInv, TypeOK, RecvType, BufferConsistent, Ahead, Wrap, Filled
<1> QED
  BY <1>1, <1>4, <1>5, <1>6, <1>7, <1>8 DEF WindowInv

(* utp_shutdown(SHUT_RD) only sets read_shutdown, on which the invariant
   does not depend. *)
LEMMA ShutdownInv ==
  ASSUME WindowInv, ShutdownRead
  PROVE  WindowInv'
<1>1. /\ UNCHANGED <<sent, fin, acked>>
      /\ recv' = [recv EXCEPT !.read_shutdown = TRUE]
  BY DEF ShutdownRead
<1>2. TypeOK'
  BY <1>1 DEF WindowInv, TypeOK, RecvType
<1>3. /\ recv'.ack_nr = recv.ack_nr /\ recv'.inbuf = recv.inbuf
      /\ recv'.reorder_count = recv.reorder_count /\ recv'.read_shutdown
      /\ recv'.got_fin = recv.got_fin /\ recv'.eof_pkt = recv.eof_pkt
      /\ recv'.got_fin_reached = recv.got_fin_reached
      /\ recv'.delivered = recv.delivered
  BY <1>1 DEF WindowInv, TypeOK, RecvType
<1>4. Filled' = Filled
  BY <1>3 DEF Filled
<1>5. BufferConsistent'
  BY <1>1, <1>3, <1>4 DEF WindowInv, BufferConsistent, Ahead
<1>6. InOrderOnce' /\ EofIsLast' /\ FinNoted' /\ SentBounds'
  BY <1>1, <1>3 DEF WindowInv, InOrderOnce, EofIsLast, FinNoted, SentBounds
<1> QED
  BY <1>1, <1>2, <1>3, <1>4, <1>5, <1>6 DEF WindowInv

-----------------------------------------------------------------------------
(* A packet arrives inside the window.                                     *)

\* What NoteFin changes, and that the FIN it notes is the peer's.
LEMMA NoteFinFields ==
  ASSUME WindowInv, NEW k \in 1 .. sent,
         NEW r, r = NoteFin(recv, TypeOf(k), Wrap(ISN + k))
  PROVE  /\ r \in RecvType
         /\ r.ack_nr = recv.ack_nr /\ r.reorder_count = recv.reorder_count
         /\ r.got_fin_reached = recv.got_fin_reached
         /\ r.read_shutdown = recv.read_shutdown
         /\ r.inbuf = recv.inbuf /\ r.delivered = recv.delivered
         /\ r.got_fin => fin > 0 /\ r.eof_pkt = Wrap(ISN + fin)
<1>1. Wrap(ISN + k) \in SeqNrs
  BY WrapType, WindowAssumption DEF SeqNrs
<1>2. CASE TypeOf(k) = "FIN" /\ ~recv.got_fin
  <2>1. k = fin /\ fin > 0
    BY <1>2 DEF TypeOf, WindowInv, TypeOK, RecvType
  <2>2. PICK s \in SeqNrs : s = Wrap(ISN + k)
    BY <1>1
  <2>3. r = [recv EXCEPT !.got_fin = TRUE, !.eof_pkt = s]
    BY <1>2, <2>2 DEF NoteFin
  <2>4. /\ r \in RecvType
        /\ r.ack_nr = recv.ack_nr /\ r.reorder_count = recv.reorder_count
        /\ r.got_fin_reached = recv.got_fin_reached
        /\ r.read_shutdown = recv.read_shutdown
        /\ r.inbuf = recv.inbuf /\ r.delivered = recv.delivered
        /\ r.eof_pkt = s
    BY <2>2, <2>3 DEF WindowInv, TypeOK, RecvType
  <2> QED
    BY <2>1, <2>2, <2>4
<1>3. CASE ~(TypeOf(k) = "FIN" /\ ~recv.got_fin)
  BY <1>3 DEF NoteFin, WindowInv, TypeOK, RecvType, FinNoted
<1> QED
  BY <1>2, <1>3

\* Not the next expected packet, and rejected: at most the FIN is noted.
LEMMA RejectInv ==
  ASSUME WindowInv, NEW k \in 1 .. sent, UNCHANGED <<sent, fin, acked>>,
         recv' = NoteFin(recv, TypeOf(k), Wrap(ISN + k))
  PROVE  WindowInv'
<1>1. /\ recv' \in RecvType
      /\ recv'.ack_nr = recv.ack_nr /\ recv'.reorder_count = recv.reorder_count
      /\ recv'.got_fin_reached = recv.got_fin_reached
      /\ recv'.read_shutdown = recv.read_shutdown
      /\ recv'.inbuf = recv.inbuf /\ recv'.delivered = recv.delivered
      /\ recv'.got_fin => fin > 0 /\ recv'.eof_pkt = Wrap(ISN + fin)
  BY NoteFinFields
<1>2. TypeOK'
  BY <1>1 DEF WindowInv, TypeOK, RecvType
<1>3. Filled' = Filled
  BY <1>1 DEF Filled
<1>4. BufferConsistent'
  BY <1>1, <1>3 DEF WindowInv, BufferConsistent, Ahead
<1>5. InOrderOnce' /\ EofIsLast' /\ FinNoted' /\ SentBounds'
  BY <1>1 DEF WindowInv, InOrderOnce, EofIsLast, FinNoted, SentBounds
<1> QED
  BY <1>1, <1>2, <1>3, <1>4, <1>5 DEF WindowInv

(* The filled slots of inbuf are finitely many, so that their number may be
   compared with reorder_count. *)
LEMMA FilledFinite == IsFiniteSet(Filled) /\ Cardinality(Filled) \in Nat
<1>1. IsFiniteSet(SeqNrs)
  BY FS_Interval, SeqModAssumption DEF SeqNrs
<1>2. Filled \in SUBSET SeqNrs
  BY DEF Filled
<1> QED
  BY <1>1, <1>2, FS_Subset, FS_CardinalityType

\* Out of order and new: it goes into the reorder buffer.
LEMMA StoreInv ==
  ASSUME WindowInv, NEW k \in 1 .. sent, UNCHANGED <<sent, fin, acked>>,
         k > acked + 1, k - acked - 1 < REORDER_MAX,
         Ahead(recv, Wrap(ISN + k)) = k - acked - 1,
         recv.inbuf[Wrap(ISN + k)] = NULL,
         NEW r, r = NoteFin(recv, TypeOf(k), Wrap(ISN + k)),
         recv' = Store(r, Wrap(ISN + k), k)
  PROVE  WindowInv'
<1> DEFINE seq == Wrap(ISN + k)
<1>1. seq \in SeqNrs /\ k \in Nat /\ k # NULL
  <2>1. ISN \in Int /\ k \in Nat
    BY WindowAssumption, SeqModAssumption DEF SeqNrs, WindowInv, TypeOK, RecvType
  <2> QED
    BY <2>1, WrapType, WindowAssumption
<1> HIDE DEF seq
<1>2. /\ r \in RecvType
      /\ r.ack_nr = recv.ack_nr /\ r.reorder_count = recv.reorder_count
      /\ r.got_fin_reached = recv.got_fin_reached
      /\ r.read_shutdown = recv.read_shutdown
      /\ r.inbuf = recv.inbuf /\ r.delivered = recv.delivered
      /\ r.got_fin => fin > 0 /\ r.eof_pkt = Wrap(ISN + fin)
  BY NoteFinFields
<1> DEFINE buf == [r.inbuf EXCEPT ![seq] = k]
           cnt == r.reorder_count + 1
<1>3. recv' = [r EXCEPT !.inbuf = buf, !.reorder_count = cnt]
  BY <1>2 DEF Store, seq
<1>3a. buf \in [SeqNrs -> Nat \cup {NULL}] /\ cnt \in Nat
  BY <1>1, <1>2 DEF RecvType
<1>3b. buf = [recv.inbuf EXCEPT ![seq] = k] /\ cnt = recv.reorder_count + 1
  BY <1>2
<1> HIDE DEF buf, cnt
<1>4. TypeOK'
  BY <1>2, <1>3, <1>3a DEF WindowInv, TypeOK, RecvType
<1>5. /\ recv'.ack_nr = recv.ack_nr
      /\ recv'.reorder_count = recv.reorder_count + 1
      /\ recv'.got_fin_reached = recv.got_fin_reached
      /\ recv'.read_shutdown = recv.read_shutdown
      /\ recv'.delivered = recv.delivered
      /\ recv'.got_fin = r.got_fin /\ recv'.eof_pkt = r.eof_pkt
      /\ recv'.inbuf = [recv.inbuf EXCEPT ![seq] = k]
  BY <1>2, <1>3, <1>3b DEF RecvType
<1>6. recv.inbuf \in [SeqNrs -> Nat \cup {NULL}] /\ recv.inbuf[seq] = NULL
  BY DEF WindowInv, TypeOK, RecvType, seq
<1>7. Filled' = Filled \cup {seq} /\ seq \notin Filled
  BY <1>1, <1>5, <1>6 DEF Filled
<1>8. Cardinality(Filled') = Cardinality(Filled) + 1
  BY <1>7, FilledFinite, FS_AddElement
<1>9. recv'.inbuf[Wrap(recv'.ack_nr + 1)] = NULL
  <2>1. /\ recv.ack_nr = Wrap(ISN + acked) /\ ISN + acked \in Int
        /\ ISN \in Int /\ acked \in Int
    BY WindowAssumption DEF WindowInv, TypeOK, RecvType, SeqNrs
  <2>2. Wrap(recv.ack_nr + 1) = Wrap(ISN + acked + 1)
    BY <2>1, WrapAdd
  <2>3. Wrap(ISN + acked + 1) # seq
    <3>1. Ahead(recv, Wrap(ISN + (acked + 1))) = Wrap((acked + 1) - acked - 1)
      BY <2>1, AheadOf
    <3>2. Wrap((acked + 1) - acked - 1) = 0
      BY <2>1, SeqModAssumption, WrapIdentity DEF SeqNrs
    <3> QED
      BY <2>1, <3>1, <3>2 DEF seq, WindowInv, TypeOK, RecvType
  <2>4. Wrap(recv.ack_nr + 1) \in SeqNrs /\ recv.inbuf[Wrap(recv.ack_nr + 1)] = NULL
    BY <2>1, <2>2, WrapType DEF WindowInv, BufferConsistent
  <2> QED
    BY <1>5, <1>6, <2>2, <2>3, <2>4
<1>10. \A q \in Filled' : /\ Ahead(recv', q) < REORDER_MAX
                          /\ recv'.inbuf[q] = acked' + 1 + Ahead(recv', q)
                          /\ recv'.inbuf[q] <= sent'
  <2> SUFFICES ASSUME NEW q \in Filled'
               PROVE  /\ Ahead(recv', q) < REORDER_MAX
                      /\ recv'.inbuf[q] = acked' + 1 + Ahead(recv', q)
                      /\ recv'.inbuf[q] <= sent'
    OBVIOUS
  <2>1. Ahead(recv', q) = Ahead(recv, q)
    BY <1>5 DEF Ahead
  <2>2. CASE q = seq
    <3>1. recv'.inbuf[seq] = k /\ Ahead(recv, seq) = k - acked - 1
      BY <1>1, <1>5, <1>6 DEF seq
    <3> QED
      BY <2>1, <2>2, <3>1 DEF WindowInv, TypeOK, RecvType
  <2>3. CASE q # seq
    BY <1>1, <1>5, <1>6, <1>7, <2>1, <2>3
       DEF WindowInv, BufferConsistent, Filled
  <2> QED
    BY <2>2, <2>3
<1>11. BufferConsistent'
  BY <1>5, <1>8, <1>9, <1>10 DEF WindowInv, BufferConsistent
<1>12. InOrderOnce' /\ EofIsLast' /\ FinNoted' /\ SentBounds'
  BY <1>2, <1>5 DEF WindowInv, InOrderOnce, EofIsLast, FinNoted, SentBounds
<1> QED
  BY <1>4, <1>5, <1>10, <1>11, <1>12 DEF WindowInv

\* The next expected packet: it is delivered, and the n buffered packets that
\* follow it leave the buffer.  r is the state the drain loop starts from.
LEMMA InOrderInv ==
  ASSUME WindowInv, NEW k \in 1 .. sent, k = acked + 1,
         NEW r0, r0 = NoteFin(recv, TypeOf(k), Wrap(ISN + k)),
         NEW r, r = AcceptInOrder(r0, k),
         NEW n \in Nat, DrainStops(r, n),
         recv' = Drain(r, n), acked' = acked + 1 + n,
         UNCHANGED <<sent, fin>>
  PROVE  WindowInv'
<1>1. /\ r0 \in RecvType
      /\ r0.ack_nr = recv.ack_nr /\ r0.reorder_count = recv.reorder_count
      /\ r0.got_fin_reached = recv.got_fin_reached
      /\ r0.read_shutdown = recv.read_shutdown
      /\ r0.inbuf = recv.inbuf /\ r0.delivered = recv.delivered
      /\ r0.got_fin => fin > 0 /\ r0.eof_pkt = Wrap(ISN + fin)
  BY NoteFinFields
<1>2. /\ ISN \in Int /\ acked \in Nat /\ sent \in Nat /\ fin \in Nat
      /\ acked \in Int /\ ISN + acked \in Int /\ ISN + acked + 1 \in Int
      /\ recv \in RecvType /\ recv.ack_nr = Wrap(ISN + acked)
  BY WindowAssumption, SeqModAssumption DEF SeqNrs, WindowInv, TypeOK
\* The fields of r
<1>3. /\ r \in RecvType /\ r.ack_nr = Wrap(ISN + acked + 1)
      /\ r.inbuf = recv.inbuf /\ r.reorder_count = recv.reorder_count
      /\ r.got_fin_reached = recv.got_fin_reached
      /\ r.read_shutdown = recv.read_shutdown
      /\ r.got_fin => fin > 0 /\ r.eof_pkt = Wrap(ISN + fin)
      /\ r.delivered = IF recv.read_shutdown THEN recv.delivered
                       ELSE Append(recv.delivered, acked + 1)
  <2> DEFINE del == IF r0.read_shutdown THEN r0.delivered ELSE Append(r0.delivered, k)
             ack == Wrap(r0.ack_nr + 1)
  <2>1. r = [r0 EXCEPT !.delivered = del, !.ack_nr = ack]
    BY DEF AcceptInOrder
  <2>2. del \in Seq(Nat)
    BY <1>1, <1>2 DEF RecvType
  <2>3. ack = Wrap(ISN + acked + 1) /\ ack \in SeqNrs
    <3>1. Wrap(Wrap(ISN + acked) + 1) = Wrap((ISN + acked) + 1)
      BY <1>2, WrapAdd
    <3> QED
      BY <1>1, <1>2, <3>1, WrapType
  <2>4. del = IF recv.read_shutdown THEN recv.delivered
              ELSE Append(recv.delivered, acked + 1)
    BY <1>1
  <2> HIDE DEF del, ack
  <2> QED
    BY <1>1, <2>1, <2>2, <2>3, <2>4 DEF RecvType
\* The drained slots, by distance from the packet that arrived
<1>4. /\ n <= r.reorder_count /\ r.reorder_count = Cardinality(Filled)
      /\ \A i \in 1 .. n : recv.inbuf[Wrap(ISN + acked + 1 + i)] # NULL
  <2>1. \A i \in 0 .. n - 1 : recv.inbuf[Wrap(r.ack_nr + i + 1)] # NULL
    BY <1>3 DEF DrainStops
  <2>2. ASSUME NEW i \in 1 .. n
        PROVE  Wrap(r.ack_nr + (i - 1) + 1) = Wrap(ISN + acked + 1 + i)
    <3>1. Wrap(Wrap(ISN + acked + 1) + i) = Wrap((ISN + acked + 1) + i)
      BY <1>2, WrapAdd
    <3>2. r.ack_nr \in Int
      BY <1>3, SeqModAssumption DEF RecvType, SeqNrs
    <3> QED
      BY <1>2, <1>3, <3>1, <3>2
  <2>3. \A i \in 1 .. n : i - 1 \in 0 .. n - 1
    OBVIOUS
  <2> QED
    BY <1>3, <2>1, <2>2, <2>3 DEF DrainStops, WindowInv, BufferConsistent
\* Each filled slot seen from recv and from r
<1>5. ASSUME NEW q \in SeqNrs, recv.inbuf[q] # NULL
      PROVE  /\ Ahead(recv, q) \in 1 .. REORDER_MAX - 1
             /\ Ahead(r, q) = Ahead(recv, q) - 1
             /\ recv.inbuf[q] = acked + 1 + Ahead(recv, q)
             /\ recv.inbuf[q] <= sent
  <2>1. q \in Filled
    BY <1>5 DEF Filled
  <2>2. /\ Ahead(recv, q) < REORDER_MAX
        /\ recv.inbuf[q] = acked + 1 + Ahead(recv, q)
        /\ recv.inbuf[q] <= sent
    BY <2>1 DEF WindowInv, BufferConsistent
  <2>3. PICK e \in SeqNrs : e = Ahead(recv, q) /\ q = Wrap(ISN + acked + 1 + e)
    BY <1>2, SlotOf
  <2>4. e # 0
    <3> SUFFICES ASSUME e = 0 PROVE FALSE
      OBVIOUS
    <3>1. Wrap(Wrap(ISN + acked) + 1) = Wrap((ISN + acked) + 1)
      BY <1>2, WrapAdd
    <3>2. ISN + acked + 1 + e = (ISN + acked) + 1
      BY <1>2
    <3>3. q = Wrap(recv.ack_nr + 1)
      BY <1>2, <2>3, <3>1, <3>2
    <3> QED
      BY <1>5, <3>3 DEF WindowInv, BufferConsistent
  <2>5. Ahead(r, q) = Wrap(e - 1)
    <3>1. Ahead(r, Wrap(ISN + (acked + 1 + e))) = Wrap((acked + 1 + e) - (acked + 1) - 1)
      <4> DEFINE a == acked + 1
                 b == acked + 1 + e
      <4>1. a \in Int /\ b \in Int /\ r.ack_nr = Wrap(ISN + a)
        BY <1>2, <1>3, SeqModAssumption DEF SeqNrs
      <4> HIDE DEF a, b
      <4>2. Ahead(r, Wrap(ISN + b)) = Wrap(b - a - 1)
        BY <4>1, AheadOf
      <4> QED
        BY <4>2 DEF a, b
    <3> QED
      BY <1>2, <2>3, <3>1, SeqModAssumption DEF SeqNrs
  <2>6. Wrap(e - 1) = e - 1
    BY <2>4, WrapIdentity, SeqModAssumption DEF SeqNrs
  <2> QED
    BY <2>2, <2>3, <2>4, <2>5, <2>6, ReorderMaxAssumption, SeqModAssumption DEF SeqNrs
<1>6. ASSUME NEW i \in 1 .. n
      PROVE  /\ i < REORDER_MAX /\ acked + 1 + i <= sent
             /\ Ahead(recv, Wrap(ISN + acked + 1 + i)) = i
             /\ recv.inbuf[Wrap(ISN + acked + 1 + i)] = acked + 1 + i
  <2> DEFINE q == Wrap(ISN + acked + 1 + i)
  <2>1. q \in SeqNrs /\ recv.inbuf[q] # NULL
    BY <1>2, <1>4, WrapType
  <2>2. i \in SeqNrs
    <3> DEFINE x == Wrap(recv.ack_nr + 1)
    <3>1. x \in SeqNrs /\ x \notin Filled
      <4>1. recv.ack_nr \in Int
        BY <1>2, SeqModAssumption DEF RecvType, SeqNrs
      <4> QED
        BY <4>1, WrapType DEF WindowInv, BufferConsistent, Filled
    <3> HIDE DEF x
    <3>2. IsFiniteSet(SeqNrs) /\ Cardinality(SeqNrs) = SEQ_MOD
      <4>1. Cardinality(0 .. SEQ_MOD - 1) = (SEQ_MOD - 1) - 0 + 1
        BY FS_Interval, SeqModAssumption
      <4> QED
        BY <4>1, FS_Interval, SeqModAssumption DEF SeqNrs
    <3>3. IsFiniteSet(SeqNrs \ {x}) /\ Cardinality(SeqNrs \ {x}) = SEQ_MOD - 1
      BY <3>1, <3>2, FS_RemoveElement
    <3>4. Filled \in SUBSET (SeqNrs \ {x})
      BY <3>1 DEF Filled
    <3>5. Cardinality(Filled) <= SEQ_MOD - 1
      BY <3>3, <3>4, FS_Subset
    <3> QED
      BY <1>4, <3>5, FilledFinite, SeqModAssumption DEF SeqNrs
  <2>3. Ahead(recv, q) = i
    <3>1. PICK m \in Int : m = acked + 1 + i
      BY <1>2
    <3>2. Ahead(recv, Wrap(ISN + m)) = Wrap(m - acked - 1)
      BY <1>2, AheadOf
    <3>3. m - acked - 1 = i /\ ISN + m = ISN + acked + 1 + i /\ Wrap(i) = i
      BY <1>2, <2>2, <3>1, WrapIdentity
    <3> QED
      BY <3>2, <3>3
  <2> HIDE DEF q
  <2>4. i < REORDER_MAX /\ acked + 1 + i <= sent /\ recv.inbuf[q] = acked + 1 + i
    BY <1>5, <2>1, <2>3, ReorderMaxAssumption
  <2> QED
    BY <2>3, <2>4 DEF q
<1> DEFINE D == {q \in SeqNrs : Ahead(r, q) < n}
<1>7. ASSUME NEW i \in 1 .. n
      PROVE  /\ Wrap(ISN + acked + 1 + i) \in D
             /\ Ahead(r, Wrap(ISN + acked + 1 + i)) = i - 1
  <2> DEFINE q == Wrap(ISN + acked + 1 + i)
  <2>1. q \in SeqNrs /\ recv.inbuf[q] # NULL /\ Ahead(recv, q) = i
    <3>1. ISN + acked + 1 + i \in Int
      BY <1>2
    <3> QED
      BY <1>4, <1>6, <3>1, WrapType
  <2> HIDE DEF q
  <2>2. Ahead(r, q) = i - 1
    BY <1>5, <2>1
  <2> QED
    BY <2>1, <2>2 DEF q
<1>8. ASSUME NEW q \in D
      PROVE  /\ Ahead(r, q) + 1 \in 1 .. n
             /\ q = Wrap(ISN + acked + 1 + (Ahead(r, q) + 1))
             /\ q \in Filled
  <2>1. q \in SeqNrs /\ Ahead(r, q) < n
    OBVIOUS
  <2>2. PICK e \in SeqNrs : e = Ahead(r, q) /\ q = Wrap(ISN + (acked + 1) + 1 + e)
    <3>1. r.ack_nr = Wrap(ISN + (acked + 1)) /\ acked + 1 \in Int
      BY <1>2, <1>3
    <3> QED
      BY <2>1, <3>1, SlotOf
  <2>3. e + 1 \in 1 .. n /\ q = Wrap(ISN + acked + 1 + (e + 1))
    BY <1>2, <2>1, <2>2, SeqModAssumption DEF SeqNrs
  <2>4. recv.inbuf[q] # NULL
    BY <1>4, <2>3
  <2> QED
    BY <2>1, <2>2, <2>3, <2>4 DEF Filled
\* There are exactly n drained slots
<1>9. IsFiniteSet(D) /\ Cardinality(D) = n /\ D \in SUBSET Filled
  <2>1. D \in SUBSET Filled /\ IsFiniteSet(D)
    BY <1>8, FilledFinite, FS_Subset
  <2> DEFINE f == [i \in 1 .. n |-> Wrap(ISN + acked + 1 + i)]
  <2>2. f \in [1 .. n -> D]
    BY <1>7
  <2>3. \A i, j \in 1 .. n : f[i] = f[j] => i = j
    <3>1. \A i \in 1 .. n : f[i] = Wrap(ISN + acked + 1 + i)
      OBVIOUS
    <3> HIDE DEF f
    <3> QED
      BY <1>7, <3>1
  <2>4. \A q \in D : \E i \in 1 .. n : f[i] = q
    BY <1>8
  <2> HIDE DEF f, D
  <2>5. f \in Bijection(1 .. n, D)
    BY <2>2, <2>3, <2>4 DEF Bijection, Injection, Surjection, IsInjective
  <2> QED
    BY <2>1, <2>5, FS_CountingElements DEF ExistsBijection
<1> HIDE DEF D
\* The fields of recv'
<1> DEFINE app == [i \in 1 .. n |-> r.inbuf[Wrap(r.ack_nr + i)]]
           buf == [q \in SeqNrs |-> IF Ahead(r, q) < n THEN NULL ELSE r.inbuf[q]]
           cnt == IF AtEof(r, n) THEN 0 ELSE r.reorder_count - n
<1>10. app = [i \in 1 .. n |-> acked + 1 + i] /\ app \in Seq(Nat) /\ Len(app) = n
  <2>1. ASSUME NEW i \in 1 .. n
        PROVE  r.inbuf[Wrap(r.ack_nr + i)] = acked + 1 + i
    <3>1. Wrap(Wrap(ISN + acked + 1) + i) = Wrap((ISN + acked + 1) + i)
      BY <1>2, WrapAdd
    <3> QED
      BY <1>2, <1>3, <1>6, <3>1
  <2>2. app = [i \in 1 .. n |-> acked + 1 + i]
    BY <2>1
  <2>3. \A i \in 1 .. n : acked + 1 + i \in Nat
    BY <1>2
  <2> HIDE DEF app
  <2>4. app \in [1 .. n -> Nat]
    BY <2>2, <2>3
  <2>5. app \in Seq(Nat) /\ Len(app) = n
    BY <2>4
  <2> QED
    BY <2>2, <2>5
<1>11. /\ buf \in [SeqNrs -> Nat \cup {NULL}]
       /\ \A q \in SeqNrs : buf[q] = IF q \in D THEN NULL ELSE recv.inbuf[q]
  BY <1>3 DEF D, RecvType
<1>12. /\ recv' \in RecvType
       /\ recv'.ack_nr = Wrap(ISN + acked')
       /\ recv'.inbuf = buf /\ recv'.reorder_count = cnt
       /\ recv'.got_fin_reached = (recv.got_fin_reached \/ AtEof(r, n))
       /\ recv'.read_shutdown = recv.read_shutdown
       /\ recv'.got_fin => fin > 0 /\ recv'.eof_pkt = Wrap(ISN + fin)
       /\ recv'.delivered = IF recv.read_shutdown THEN recv.delivered
                            ELSE Append(recv.delivered, acked + 1) \o app
  <2> DEFINE del == IF r.read_shutdown THEN r.delivered ELSE r.delivered \o app
             ack == Wrap(r.ack_nr + n)
             eof == r.got_fin_reached \/ AtEof(r, n)
  <2>1. recv' = [r EXCEPT !.delivered = del, !.inbuf = buf, !.ack_nr = ack,
                          !.got_fin_reached = eof, !.reorder_count = cnt]
    BY DEF Drain
  <2>2. ack = Wrap(ISN + acked') /\ ack \in SeqNrs
    <3>1. Wrap(Wrap(ISN + acked + 1) + n) = Wrap(ISN + acked + 1 + n)
      BY <1>2, WrapAdd
    <3> QED
      BY <1>2, <1>3, <3>1, WrapType
  <2>3. del \in Seq(Nat)
    BY <1>3, <1>10 DEF RecvType
  <2>4. cnt \in Nat /\ eof \in BOOLEAN
    BY <1>3, <1>4 DEF RecvType, AtEof
  <2>5. del = IF recv.read_shutdown THEN recv.delivered
              ELSE Append(recv.delivered, acked + 1) \o app
    BY <1>3
  <2>6. eof = (recv.got_fin_reached \/ AtEof(r, n))
    BY <1>3
  <2> HIDE DEF del, ack, eof, buf, cnt, app
  <2>7. recv' \in RecvType
    BY <1>3, <1>11, <2>1, <2>2, <2>3, <2>4 DEF RecvType
  <2>8. /\ recv'.ack_nr = ack /\ recv'.inbuf = buf /\ recv'.reorder_count = cnt
        /\ recv'.read_shutdown = r.read_shutdown /\ recv'.delivered = del
        /\ recv'.got_fin = r.got_fin /\ recv'.eof_pkt = r.eof_pkt
    BY <1>3, <2>1 DEF RecvType
  <2>9. recv'.got_fin_reached = eof
    BY <1>3, <2>1 DEF RecvType
  <2> QED
    BY <1>3, <2>2, <2>5, <2>6, <2>7, <2>8, <2>9
<1> HIDE DEF app, buf, cnt
<1>13. ~recv.got_fin_reached
  BY <1>2 DEF WindowInv, EofIsLast, SentBounds
\* The loop stops at the FIN only behind the last packet
<1>14. AtEof(r, n) => fin > 0 /\ acked + 1 + n = fin /\ sent = fin
  <2> SUFFICES ASSUME AtEof(r, n) PROVE fin > 0 /\ acked + 1 + n = fin /\ sent = fin
    OBVIOUS
  <2>1. fin > 0 /\ sent = fin /\ r.eof_pkt = Wrap(ISN + fin)
    BY <1>3 DEF AtEof, WindowInv, SentBounds
  <2>2. Wrap(Wrap(ISN + acked + 1) + n) = Wrap(ISN + acked + 1 + n)
    BY <1>2, WrapAdd
  <2>3. Wrap(ISN + fin) = Wrap(ISN + acked + 1 + n)
    BY <1>3, <2>1, <2>2 DEF AtEof
  <2>4. acked + 1 + n <= sent
    <3>1. CASE n = 0
      BY <1>2, <3>1
    <3>2. CASE n # 0
      <4>1. n \in 1 .. n
        BY <3>2
      <4> QED
        BY <1>6, <4>1
    <3> QED
      BY <3>1, <3>2
  <2>5. ISN + fin = ISN + acked + 1 + n
    <3>1. PICK a \in Int, b \in Int : a = ISN + fin /\ b = ISN + acked + 1 + n
      BY <1>2
    <3>2. a - b < SEQ_MOD /\ b - a < SEQ_MOD
      BY <1>2, <2>1, <2>4, <3>1, WindowAssumption, SeqModAssumption
         DEF WindowInv, SentBounds
    <3> QED
      BY <2>3, <3>1, <3>2, WrapInjective
  <2> QED
    BY <1>2, <2>1, <2>5
<1>15. Filled' = Filled \ D
  BY <1>11, <1>12 DEF Filled
<1>16. ASSUME NEW q \in Filled'
       PROVE  /\ Ahead(recv', q) < REORDER_MAX
              /\ recv'.inbuf[q] = acked' + 1 + Ahead(recv', q)
              /\ recv'.inbuf[q] <= sent'
  <2>1. q \in SeqNrs /\ q \notin D /\ recv.inbuf[q] # NULL /\ recv'.inbuf[q] = recv.inbuf[q]
    BY <1>11, <1>12, <1>15 DEF Filled
  <2>2. PICK e \in 1 .. REORDER_MAX - 1 :
          /\ e = Ahead(recv, q) /\ Ahead(r, q) = e - 1
          /\ recv.inbuf[q] = acked + 1 + e /\ recv.inbuf[q] <= sent
    BY <1>5, <2>1
  <2>3. e - 1 >= n
    BY <2>1, <2>2, ReorderMaxAssumption DEF D
  <2>4. Ahead(recv', q) = e - 1 - n
    <3>1. q = Wrap(ISN + acked + 1 + e)
      BY <1>2, <2>1, <2>2, SlotOf
    <3>2. PICK m \in Int : m = acked + 1 + e
      BY <1>2
    <3>3. acked' \in Int /\ m - acked' - 1 = e - 1 - n /\ ISN + m = ISN + acked + 1 + e
      BY <1>2, <3>2
    <3>4. Ahead(recv', Wrap(ISN + m)) = Wrap(m - acked' - 1)
      BY <1>12, <3>3, AheadOf
    <3>5. Wrap(e - 1 - n) = e - 1 - n
      BY <2>3, WrapIdentity, ReorderMaxAssumption, SeqModAssumption DEF SeqNrs
    <3> QED
      BY <3>1, <3>3, <3>4, <3>5
  <2> QED
    BY <1>2, <2>1, <2>2, <2>3, <2>4, ReorderMaxAssumption
<1>17. Cardinality(Filled') = recv'.reorder_count
  <2>1. CASE AtEof(r, n)
    <3>1. Filled' = {}
      <4> SUFFICES ASSUME NEW q \in Filled' PROVE FALSE
        OBVIOUS
      <4>1. q \in SeqNrs /\ q \notin D /\ recv.inbuf[q] # NULL
        BY <1>15 DEF Filled
      <4> QED
        BY <1>2, <1>5, <1>14, <2>1, <4>1, ReorderMaxAssumption DEF D
    <3> QED
      BY <1>12, <2>1, <3>1, FS_EmptySet DEF cnt
  <2>2. CASE ~AtEof(r, n)
    <3>1. Filled \cap D = D
      BY <1>9
    <3>2. Cardinality(Filled \ D) = Cardinality(Filled) - n
      BY <1>9, <3>1, FilledFinite, FS_Difference
    <3> QED
      BY <1>4, <1>12, <1>15, <2>2, <3>2 DEF cnt
  <2> QED
    BY <2>1, <2>2
\* The three ways the loop stops all leave the next slot empty
<1>18. recv'.inbuf[Wrap(recv'.ack_nr + 1)] = NULL
  <2> DEFINE q == Wrap(recv'.ack_nr + 1)
  <2>1. q = Wrap(ISN + acked' + 1) /\ q \in SeqNrs /\ acked' \in Int
    <3>1. acked' \in Int /\ ISN + acked' \in Int
      BY <1>2
    <3>2. Wrap(Wrap(ISN + acked') + 1) = Wrap((ISN + acked') + 1)
      BY <3>1, WrapAdd
    <3> QED
      BY <1>2, <1>12, <3>1, <3>2, WrapType
  <2> HIDE DEF q
  <2> SUFFICES ASSUME recv'.inbuf[q] # NULL PROVE FALSE
    BY DEF q
  <2>2. q \in Filled' /\ q \in Filled /\ q \notin D /\ recv.inbuf[q] # NULL
    BY <1>11, <1>12, <1>15, <2>1 DEF Filled
  <2>3. Ahead(recv', q) = 0
    <3>1. PICK m \in Int : m = acked' + 1
      BY <2>1
    <3>2. Ahead(recv', Wrap(ISN + m)) = Wrap(m - acked' - 1)
      BY <1>12, <2>1, AheadOf
    <3>3. m - acked' - 1 = 0 /\ ISN + m = ISN + acked' + 1 /\ Wrap(0) = 0
      BY <1>2, <2>1, <3>1, WrapIdentity, SeqModAssumption DEF SeqNrs
    <3> QED
      BY <2>1, <3>2, <3>3
  <2>4. acked' + 1 <= sent
    BY <1>2, <1>16, <2>2, <2>3
  <2>5. ~AtEof(r, n)
    BY <1>2, <1>14, <2>4
  <2>6. n # r.reorder_count
    <3> SUFFICES ASSUME n = r.reorder_count PROVE FALSE
      OBVIOUS
    <3>1. D = Filled
      BY <1>4, <1>9, FilledFinite, FS_Subset
    <3> QED
      BY <2>2, <3>1
  <2>7. r.inbuf[Wrap(r.ack_nr + n + 1)] # NULL
    <3>1. Wrap(Wrap(ISN + acked + 1) + (n + 1)) = Wrap(ISN + acked + 1 + (n + 1))
      BY <1>2, WrapAdd
    <3>2. r.ack_nr \in Int
      BY <1>3, SeqModAssumption DEF RecvType, SeqNrs
    <3>3. r.ack_nr + n + 1 = r.ack_nr + (n + 1) /\ ISN + acked + 1 + (n + 1) = ISN + acked' + 1
      BY <1>2, <3>2
    <3> QED
      BY <1>3, <2>1, <2>2, <3>1, <3>3
  <2> QED
    BY <2>5, <2>6, <2>7 DEF DrainStops
<1>19. BufferConsistent'
  BY <1>16, <1>17, <1>18 DEF BufferConsistent
<1>20. EofIsLast' /\ FinNoted'
  BY <1>2, <1>12, <1>13, <1>14 DEF EofIsLast, FinNoted
<1>21. SentBounds'
  <2>1. acked + 1 + n <= sent
    <3>1. CASE n = 0
      BY <1>2, <3>1
    <3>2. CASE n # 0
      <4>1. n \in 1 .. n
        BY <3>2
      <4> QED
        BY <1>6, <4>1
    <3> QED
      BY <3>1, <3>2
  <2> QED
    BY <1>2, <2>1, WindowAssumption DEF WindowInv, SentBounds
<1>22. InOrderOnce'
  <2>1. CASE recv.read_shutdown
    BY <1>12, <2>1 DEF WindowInv, InOrderOnce
  <2>2. CASE ~recv.read_shutdown
    <3> DEFINE s == recv.delivered
    <3>1. s \in Seq(Nat) /\ Len(s) = acked /\ \A i \in 1 .. Len(s) : s[i] = i
      BY <1>2, <2>2 DEF WindowInv, InOrderOnce, RecvType
    <3> HIDE DEF s
    <3> DEFINE u == Append(s, acked + 1)
               w == u \o app
    <3>2. u \in Seq(Nat) /\ Len(u) = acked + 1
      BY <1>2, <3>1
    <3>3. \A i \in 1 .. acked + 1 : u[i] = i
      BY <1>2, <3>1
    <3>4. \A i \in 1 .. n : app[i] = acked + 1 + i
      BY <1>10
    <3> HIDE DEF u
    <3>5. /\ w \in Seq(Nat) /\ Len(w) = acked + 1 + n
          /\ \A i \in 1 .. acked + 1 + n :
               w[i] = IF i <= acked + 1 THEN u[i] ELSE app[i - (acked + 1)]
      <4>1. app \in Seq(Nat) /\ Len(app) = n
        BY <1>10
      <4>2. /\ w \in Seq(Nat) /\ Len(w) = Len(u) + Len(app)
            /\ \A i \in 1 .. Len(u) + Len(app) :
                 w[i] = IF i <= Len(u) THEN u[i] ELSE app[i - Len(u)]
        BY <3>2, <4>1, ConcatProperties, Zenon
      <4> HIDE DEF w
      <4> QED
        BY <3>2, <4>1, <4>2
    <3> HIDE DEF w
    <3>6. ASSUME NEW i \in 1 .. acked + 1 + n PROVE w[i] = i
      <4>1. CASE i <= acked + 1
        BY <1>2, <3>3, <3>5, <4>1
      <4>2. CASE ~(i <= acked + 1)
        <5>1. PICK j \in 1 .. n : j = i - (acked + 1)
          BY <1>2, <4>2
        <5>2. w[i] = app[j]
          BY <3>5, <4>2, <5>1
        <5> QED
          BY <1>2, <3>4, <5>1, <5>2
      <4> QED
        BY <4>1, <4>2
    <3>7. recv'.delivered = w
      BY <1>12, <2>2 DEF s, u, w
    <3> QED
      BY <1>2, <3>5, <3>6, <3>7 DEF InOrderOnce
  <2> QED
    BY <2>1, <2>2
<1>23. TypeOK'
  BY <1>2, <1>12 DEF TypeOK
<1> QED
  BY <1>12, <1>16, <1>19, <1>20, <1>21, <1>22, <1>23 DEF WindowInv

-----------------------------------------------------------------------------
(* Any packet ever sent, arriving now for the first time or again, leaves
   the invariant true: it is rejected, stored, or delivered with what it
   uncovers (process_incoming and deliver_data). *)
LEMMA ArrivesInv ==
  ASSUME WindowInv, NEW k \in 1 .. sent, Arrives(k)
  PROVE  WindowInv'
<1> DEFINE seq == Wrap(ISN + k)
           d   == Ahead(recv, seq)
           r0  == NoteFin(recv, TypeOf(k), seq)
<1>1. /\ StillAround(k) /\ ~OutOfWindow(d) /\ UNCHANGED <<sent, fin>>
  BY DEF Arrives
<1>2. k > acked /\ d = k - acked - 1
  BY <1>1, WithinWindow
<1>3. Ahead(r0, seq) = d
  BY NoteFinFields DEF Ahead
<1>4. PICK n \in DrainCounts(recv, TypeOf(k), seq, k) :
        /\ recv' = DeliverData(recv, TypeOf(k), seq, k, n)
        /\ acked' = acked + (IF d = 0 THEN 1 + n ELSE 0)
  BY DEF Arrives
<1>5. acked \in Nat /\ sent \in Nat /\ k \in Nat
  BY DEF WindowInv, TypeOK
<1>6. CASE d = 0
  <2>1. DrainStops(AcceptInOrder(r0, k), n) /\ n \in 0 .. r0.reorder_count
    BY <1>3, <1>4, <1>6 DEF DrainCounts
  <2>2. recv' = Drain(AcceptInOrder(r0, k), n)
    BY <1>3, <1>4, <1>6 DEF DeliverData
  <2>3. n \in Nat /\ acked' = acked + 1 + n /\ k = acked + 1
    BY <1>2, <1>4, <1>5, <1>6, <2>1
  <2> QED
    BY <1>1, <2>1, <2>2, <2>3, InOrderInv
<1>7. CASE d # 0 /\ Rejected(r0, seq)
  <2>1. recv' = r0 /\ acked' = acked
    BY <1>3, <1>4, <1>5, <1>7 DEF DeliverData
  <2> QED
    BY <1>1, <2>1, RejectInv
<1>8. CASE d # 0 /\ ~Rejected(r0, seq)
  <2>1. recv' = Store(r0, seq, k) /\ acked' = acked
    BY <1>3, <1>4, <1>5, <1>8 DEF DeliverData
  <2>2. recv.inbuf[seq] = NULL
    BY <1>8, NoteFinFields DEF Rejected
  <2>3. k > acked + 1 /\ k - acked - 1 < REORDER_MAX
    BY <1>1, <1>2, <1>5, <1>8, ReorderMaxAssumption DEF OutOfWindow
  <2> QED
    BY <1>1, <1>2, <2>1, <2>2, <2>3, StoreInv
<1> QED
  BY <1>6, <1>7, <1>8

(* Every step of the specification preserves the invariant. *)
LEMMA StepInv == WindowInv /\ [Next]_vars => WindowInv'
<1> SUFFICES ASSUME WindowInv, [Next]_vars PROVE WindowInv'
  OBVIOUS
<1>1. CASE PeerSendsData \/ PeerSendsFin
  BY <1>1, PeerStepInv
<1>2. ASSUME NEW k \in 1 .. sent, Arrives(k) PROVE WindowInv'
  BY <1>2, ArrivesInv
<1>3. CASE ShutdownRead
  BY <1>3, ShutdownInv
<1>4. CASE UNCHANGED vars
  BY <1>4 DEF vars, WindowInv, TypeOK, SentBounds, FinNoted, Filled, InOrderOnce,
              EofIsLast, BufferConsistent, Ahead
<1> QED
  BY <1>1, <1>2, <1>3, <1>4 DEF Next

\* The receiver's wrapped view always agrees with the absolute one.
THEOREM WindowInvariant == Spec => []WindowInv
  BY InitInv, StepInv, PTL DEF Spec

\* recv_ keeps its types: ack_nr and eof_pkt stay 16-bit numbers (deliver_data).
THEOREM TypeCorrect == Spec => []TypeOK
<1>1. WindowInv => TypeOK
  BY DEF WindowInv
<1> QED
  BY <1>1, WindowInvariant, PTL

\* In order, nothing missing, nothing twice: what on_read delivers for every
\* window and sequence-space size.
THEOREM DeliveryInOrder == Spec => []InOrderOnce
<1>1. WindowInv => InOrderOnce
  BY DEF WindowInv
<1> QED
  BY <1>1, WindowInvariant, PTL

\* End of stream is announced behind the last packet only.
THEOREM EofComplete == Spec => []EofIsLast
<1>1. WindowInv => EofIsLast
  BY DEF WindowInv
<1> QED
  BY <1>1, WindowInvariant, PTL

\* The assertions of check_invariant and send_ack about the reorder buffer.
THEOREM ReorderBuffer == Spec => []BufferConsistent
<1>1. WindowInv => BufferConsistent
  BY DEF WindowInv
<1> QED
  BY <1>1, WindowInvariant, PTL

-----------------------------------------------------------------------------
(* Remainders by any size m *)

Residue(n, m) == n % m

LEMMA ResidueType ==
    ASSUME NEW m \in Nat \ {0}, NEW n \in Int
    PROVE  Residue(n, m) \in 0 .. m - 1
BY DEF Residue

LEMMA ResidueIdentity ==
    ASSUME NEW m \in Nat \ {0}, NEW n \in 0 .. m - 1
    PROVE  Residue(n, m) = n
BY DEF Residue

LEMMA ResidueQuotient ==
    ASSUME NEW m \in Nat \ {0}, NEW n \in Int
    PROVE  n \div m \in Int /\ n = m * (n \div m) + Residue(n, m)
BY DEF Residue

LEMMA ResidueSplit ==
    ASSUME NEW m \in Nat \ {0}, NEW n \in Int
    PROVE  \E p \in Int : n = m * p + Residue(n, m)
BY ResidueQuotient

\* The only multiple of m closer to zero than m is zero.
LEMMA NearMultiple ==
    ASSUME NEW m \in Nat \ {0}, NEW d \in Int, m * d < m, -m < m * d
    PROVE  d = 0
<1>1. CASE d >= 1
  <2>1. m * d >= m * 1
    BY <1>1
  <2> QED
    BY <2>1
<1>2. CASE d <= -1
  <2>1. m * d <= m * (-1)
    BY <1>2
  <2> QED
    BY <2>1
<1> QED
  BY <1>1, <1>2

LEMMA ResidueUnique ==
    ASSUME NEW m \in Nat \ {0}, NEW n \in Int, NEW q \in Int, NEW r \in 0 .. m - 1,
           n = m * q + r
    PROVE  Residue(n, m) = r
<1> DEFINE p == n \div m
           s == Residue(n, m)
<1>1. n = m * p + s /\ p \in Int /\ s \in 0 .. m - 1
  BY ResidueQuotient, ResidueType
<1> HIDE DEF p, s
<1>2. m * (p - q) = r - s /\ p - q \in Int
  BY <1>1
<1>3. p - q = 0
  <2> DEFINE d == p - q
  <2>1. d \in Int /\ m * d < m /\ -m < m * d
    BY <1>1, <1>2
  <2> HIDE DEF d
  <2>2. d = 0
    BY <2>1, NearMultiple
  <2> QED
    BY <2>2 DEF d
<1>4. r - s = 0
  BY <1>2, <1>3
<1> QED
  BY <1>1, <1>4 DEF s

\* A whole number of rounds changes nothing.
LEMMA ResidueAround ==
    ASSUME NEW m \in Nat \ {0}, NEW n \in Int, NEW k \in Int
    PROVE  Residue(n + m * k, m) = Residue(n, m)
<1> DEFINE p == n \div m
           s == Residue(n, m)
<1>1. n = m * p + s /\ p \in Int /\ s \in 0 .. m - 1
  BY ResidueQuotient, ResidueType
<1> HIDE DEF p, s
<1> DEFINE x == n + m * k
           q == p + k
<1>2. x = m * q + s /\ x \in Int /\ q \in Int
  BY <1>1
<1> HIDE DEF x, q
<1>3. Residue(x, m) = s
  BY <1>1, <1>2, ResidueUnique
<1> QED
  BY <1>3 DEF x, s

LEMMA ResidueAdd ==
    ASSUME NEW m \in Nat \ {0}, NEW a \in Int, NEW b \in Int
    PROVE  Residue(Residue(a, m) + b, m) = Residue(a + b, m)
<1> DEFINE p == a \div m
           s == Residue(a, m)
           y == s + b
<1>1. a = m * p + s /\ p \in Int /\ s \in 0 .. m - 1
  BY ResidueQuotient, ResidueType
<1> HIDE DEF p, s
<1>2. y \in Int /\ a + b = y + m * p
  BY <1>1
<1> HIDE DEF y
<1>3. Residue(y + m * p, m) = Residue(y, m)
  BY <1>1, <1>2, ResidueAround
<1> QED
  BY <1>2, <1>3 DEF y, s

LEMMA ResidueInjective ==
    ASSUME NEW m \in Nat \ {0}, NEW a \in Int, NEW b \in Int,
           Residue(a, m) = Residue(b, m), a - b < m, b - a < m
    PROVE  a = b
<1> DEFINE s == Residue(a, m)
<1>0. s \in 0 .. m - 1
  BY ResidueType
<1>4. PICK p \in Int : a = m * p + s
  BY ResidueSplit
<1>5. PICK q \in Int : b = m * q + s
  BY ResidueSplit
<1>1. /\ a = m * p + s /\ p \in Int /\ s \in Int
      /\ b = m * q + s /\ q \in Int
  BY <1>0, <1>4, <1>5
<1> HIDE DEF s
<1> DEFINE d == p - q
<1>2. m * d = a - b /\ d \in Int
  BY <1>1
<1> HIDE DEF d
<1>3. d = 0
  BY <1>2, NearMultiple
<1> QED
  BY <1>2, <1>3

\* A remainder by n, reduced to one by a divisor m of n.
LEMMA ResidueNested ==
    ASSUME NEW m \in Nat \ {0}, NEW n \in Nat \ {0}, n % m = 0, NEW a \in Int
    PROVE  Residue(Residue(a, n), m) = Residue(a, m)
<1> DEFINE s == Residue(a, n)
<1>0. s \in 0 .. n - 1
  BY ResidueType
<1>5. Residue(n, m) = 0
  BY DEF Residue
<1>8. n \in Int
  OBVIOUS
<1>6. PICK k \in Int : n = m * k + Residue(n, m)
  BY <1>8, ResidueSplit
<1>1. n = m * k
  BY <1>5, <1>6
<1>7. PICK p \in Int : a = n * p + s
  BY ResidueSplit
<1>2. a = n * p + s /\ s \in Int
  BY <1>0, <1>7
<1> HIDE DEF s
<1> DEFINE j == k * p
<1>3. a = s + m * j /\ j \in Int
  BY <1>1, <1>2
<1> HIDE DEF j
<1>4. Residue(s + m * j, m) = Residue(s, m)
  BY <1>2, <1>3, ResidueAround
<1> QED
  BY <1>3, <1>4 DEF s

\* The way from b to where the way from a ends.
LEMMA ResidueBack ==
    ASSUME NEW m \in Nat \ {0}, NEW a \in Int, NEW b \in Int
    PROVE  Residue(b + Residue(a - b, m), m) = Residue(a, m)
<1> DEFINE c == a - b
           s == Residue(c, m)
<1>1. c \in Int /\ c + b = a /\ s \in Int
  BY ResidueType
<1>2. Residue(s + b, m) = Residue(c + b, m)
  BY <1>1, ResidueAdd
<1>3. b + s = s + b
  BY <1>1
<1> QED
  BY <1>1, <1>2, <1>3 DEF c, s

-----------------------------------------------------------------------------
(* The slots of a ring, named by their distance from the start of the window *)

IsRing(r, m) == m \in RingSizes /\ r \in [0 .. m - 1 -> Packets \cup {NULL}]

Slots(m) == 0 .. m - 1

\* The sequence number d places from b
NumberAt(b, d) == Wrap(b + d)

Place(r, m, b, d) == r[Residue(b + d, m)]

LEMMA SizesFit ==
    ASSUME NEW m \in RingSizes
    PROVE  m \in Nat \ {0} /\ m \in Int /\ m <= SEQ_MOD /\ SEQ_MOD % m = 0
<1>1. m \in 1 .. SEQ_MOD /\ SEQ_MOD \in RingSizes
  BY RingAssumption DEF RingSizes
<1>2. m <= SEQ_MOD
  BY <1>1, SeqModAssumption
<1> QED
  BY <1>1, <1>2, SizesDivide, SeqModAssumption

LEMMA RingSize ==
    ASSUME NEW r, NEW m, IsRing(r, m)
    PROVE  Size(r) = m /\ DOMAIN r = 0 .. m - 1
<1>1. m \in Nat \ {0} /\ DOMAIN r = 0 .. m - 1
  BY SizesFit DEF IsRing
<1> DEFINE z == m - 1
<1>2. z \in Int /\ 0 \in Int /\ ~(0 > z) /\ z - 0 + 1 = m
  BY <1>1
<1> HIDE DEF z
<1>3. Cardinality(0 .. z) = z - 0 + 1
  BY <1>2, FS_Interval
<1> QED
  BY <1>1, <1>2, <1>3 DEF Size, z

\* Masking a number by SEQ_MOD does not change its slot.
LEMMA SlotOfWrap ==
    ASSUME NEW m \in RingSizes, NEW a \in Int
    PROVE  Residue(Wrap(a), m) = Residue(a, m)
<1>1. Wrap(a) = Residue(a, SEQ_MOD)
  BY DEF Wrap, Residue
<1>2. m \in Nat \ {0} /\ SEQ_MOD \in Nat \ {0} /\ SEQ_MOD % m = 0
  BY SizesFit, SeqModAssumption
<1> QED
  BY <1>1, <1>2, ResidueNested

LEMMA GetPlace ==
    ASSUME NEW r, NEW m, IsRing(r, m), NEW b \in Int, NEW d \in Int
    PROVE  get(r, Wrap(b + d)) = Place(r, m, b, d)
<1> DEFINE a == b + d
<1>1. a \in Int /\ Size(r) = m /\ m \in RingSizes
  BY RingSize DEF IsRing
<1> HIDE DEF a
<1>2. Residue(Wrap(a), m) = Residue(a, m)
  BY <1>1, SlotOfWrap
<1>3. get(r, Wrap(a)) = r[Residue(Wrap(a), m)]
  BY <1>1 DEF get, Residue
<1> QED
  BY <1>2, <1>3 DEF Place, a

\* A number of the sequence space is in the place that its distance names.
LEMMA GetNumber ==
    ASSUME NEW r, NEW m, IsRing(r, m), NEW b \in Int, NEW q \in SeqNrs
    PROVE  get(r, q) = Place(r, m, b, Wrap(q - b))
<1> DEFINE c == q - b
           d == Wrap(c)
<1>1. c \in Int /\ q \in Int /\ c + b = q /\ Wrap(q) = q
  BY WrapIdentity, SeqModAssumption DEF SeqNrs
<1>2. d \in Int /\ b + d = d + b
  BY <1>1, WrapType, SeqModAssumption DEF SeqNrs
<1> HIDE DEF c
<1>3. Wrap(Wrap(c) + b) = Wrap(c + b)
  BY <1>1, WrapAdd
<1>4. Wrap(b + d) = q
  BY <1>1, <1>2, <1>3
<1> HIDE DEF d
<1>5. get(r, Wrap(b + d)) = Place(r, m, b, d)
  BY <1>2, GetPlace
<1> QED
  BY <1>4, <1>5 DEF c, d

\* Places of a ring hold packets or nothing, and repeat with its size.
LEMMA PlaceType ==
    ASSUME NEW r, NEW m, IsRing(r, m), NEW b \in Int, NEW d \in Int
    PROVE  Place(r, m, b, d) \in Packets \cup {NULL}
<1> DEFINE a == b + d
<1>1. a \in Int /\ m \in Nat \ {0}
  BY SizesFit DEF IsRing
<1> HIDE DEF a
<1>2. Residue(a, m) \in 0 .. m - 1
  BY <1>1, ResidueType
<1>3. r[Residue(a, m)] \in Packets \cup {NULL}
  BY <1>2 DEF IsRing
<1> QED
  BY <1>3 DEF Place, a

\* The window moved k places: its place d was place k + d.
LEMMA PlaceShift ==
    ASSUME NEW r, NEW m \in RingSizes, NEW b \in Int, NEW k \in Int, NEW d \in Int
    PROVE  Place(r, m, Wrap(b + k), d) = Place(r, m, b, k + d)
<1> DEFINE a == b + k
           w == Wrap(a)
<1>1. a \in Int /\ m \in Nat \ {0} /\ a + d = b + (k + d)
  BY SizesFit
<1> HIDE DEF a
<1>2. w \in Int
  BY <1>1, WrapType, SeqModAssumption DEF SeqNrs
<1>3. Residue(w, m) = Residue(a, m)
  BY <1>1, SlotOfWrap
<1> HIDE DEF w
<1>4. Residue(Residue(w, m) + d, m) = Residue(w + d, m)
  BY <1>1, <1>2, ResidueAdd
<1>5. Residue(Residue(a, m) + d, m) = Residue(a + d, m)
  BY <1>1, ResidueAdd
<1> QED
  BY <1>1, <1>3, <1>4, <1>5 DEF Place, w, a

LEMMA PlaceOfWrap ==
    ASSUME NEW r, NEW m \in RingSizes, NEW b \in Int, NEW d \in Int
    PROVE  Place(r, m, Wrap(b), d) = Place(r, m, b, d)
<1> DEFINE w == Wrap(b)
<1>1. m \in Nat \ {0} /\ w \in Int
  BY SizesFit, WrapType, SeqModAssumption DEF SeqNrs
<1>2. Residue(w, m) = Residue(b, m)
  BY SlotOfWrap
<1> HIDE DEF w
<1>3. Residue(Residue(w, m) + d, m) = Residue(w + d, m)
  BY <1>1, ResidueAdd
<1>4. Residue(Residue(b, m) + d, m) = Residue(b + d, m)
  BY <1>1, ResidueAdd
<1> QED
  BY <1>2, <1>3, <1>4 DEF Place, w

\* One round further is the same place.
LEMMA PlaceRound ==
    ASSUME NEW r, NEW m \in RingSizes, NEW b \in Int, NEW d \in Int
    PROVE  Place(r, m, b, d + m) = Place(r, m, b, d)
<1> DEFINE a == b + d
<1>1. a \in Int /\ m \in Nat \ {0} /\ b + (d + m) = a + m * 1 /\ 1 \in Int
  BY SizesFit
<1> HIDE DEF a
<1>2. Residue(a + m * 1, m) = Residue(a, m)
  BY <1>1, ResidueAround
<1> QED
  BY <1>1, <1>2 DEF Place, a

\* Two places of one round are two slots.
LEMMA PlacesDiffer ==
    ASSUME NEW m \in RingSizes, NEW b \in Int, NEW d \in Int, NEW e \in Int,
           d - e < m, e - d < m, Residue(b + d, m) = Residue(b + e, m)
    PROVE  d = e
<1> DEFINE x == b + d
           y == b + e
<1>1. m \in Nat \ {0} /\ x \in Int /\ y \in Int /\ x - y < m /\ y - x < m
  BY SizesFit
<1> HIDE DEF x, y
<1>2. Residue(x, m) = Residue(y, m)
  BY DEF x, y
<1>3. x = y
  BY <1>1, <1>2, ResidueInjective
<1> QED
  BY <1>3 DEF x, y

\* put and take change one place of the round, every other one stays.
LEMMA PutPlace ==
    ASSUME NEW r, NEW m, IsRing(r, m), NEW b \in Int, NEW d \in Slots(m),
           NEW v, v \in Packets \/ v = NULL, NEW t, t = put(r, NumberAt(b, d), v)
    PROVE  /\ IsRing(t, m)
           /\ \A e \in Slots(m) :
                Place(t, m, b, e) = IF e = d THEN v ELSE Place(r, m, b, e)
<1> DEFINE a == b + d
           s == Residue(a, m)
<1>1. /\ m \in RingSizes /\ m \in Nat \ {0} /\ m \in Int /\ a \in Int /\ Size(r) = m
      /\ r \in [0 .. m - 1 -> Packets \cup {NULL}]
  BY SizesFit, RingSize DEF IsRing, Slots
<1> HIDE DEF a
<1>2. s \in 0 .. m - 1 /\ Residue(Wrap(a), m) = s
  BY <1>1, ResidueType, SlotOfWrap
<1> HIDE DEF s
<1>3. t = [r EXCEPT ![s] = v]
  BY <1>1, <1>2 DEF put, Residue, NumberAt, a
<1>4. IsRing(t, m)
  BY <1>1, <1>2, <1>3 DEF IsRing
<1>5. ASSUME NEW e \in Slots(m)
      PROVE  Place(t, m, b, e) = IF e = d THEN v ELSE Place(r, m, b, e)
  <2> DEFINE c == b + e
             u == Residue(c, m)
  <2>1. c \in Int /\ e \in Int /\ d \in Int /\ d - e < m /\ e - d < m
    BY <1>1 DEF Slots
  <2> HIDE DEF c
  <2>2. u \in 0 .. m - 1
    BY <1>1, <2>1, ResidueType
  <2>3. u = s => e = d
    BY <1>1, <2>1, PlacesDiffer DEF u, s, c, a
  <2>4. e = d => u = s
    BY DEF u, s, c, a
  <2> HIDE DEF u
  <2>5. t[u] = IF u = s THEN v ELSE r[u]
    BY <1>1, <1>3, <2>2
  <2> QED
    BY <2>3, <2>4, <2>5 DEF Place, u, c
<1> QED
  BY <1>4, <1>5

\* The doubling of grow stops at a size that holds index.
LEMMA NewSizeFits ==
    ASSUME NEW r, NEW m, IsRing(r, m), NEW index \in Nat, m <= index, index < SEQ_MOD
    PROVE  NewSize(r, index) \in RingSizes /\ m < NewSize(r, index) /\ index < NewSize(r, index)
<1> DEFINE T == {n \in RingSizes : m < n /\ index < n}
<1>1. m \in RingSizes /\ Size(r) = m /\ m \in Int
  BY RingSize, SizesFit DEF IsRing
<1>2. T \in SUBSET Nat
  BY SizesFit
<1>3. SEQ_MOD \in T
  BY <1>1, RingAssumption, SeqModAssumption
<1>4. NewSize(r, index) = Min(T)
  BY <1>1 DEF NewSize
<1> HIDE DEF T
<1>5. PICK n \in T : \A y \in T : n <= y
  BY <1>2, <1>3, Plus!Smallest
<1>6. Min(T) \in T
  BY <1>5 DEF Min
<1> QED
  BY <1>4, <1>6 DEF T

\* Growing keeps every packet in its place of the window, and adds empty places.
LEMMA GrowPlaces ==
    ASSUME NEW r, NEW m, IsRing(r, m), NEW index \in Nat, m <= index, index < SEQ_MOD,
           NEW item \in Int
    PROVE  LET t == grow(r, item, index)
               n == NewSize(r, index)
               b == Wrap(item - index)
           IN  /\ IsRing(t, n)
               /\ \A d \in 0 .. n - 1 :
                    Place(t, n, b, d) = IF d < m THEN Place(r, m, b, d) ELSE NULL
<1> DEFINE t == grow(r, item, index)
           n == NewSize(r, index)
           start == item - index
           b == Wrap(start)
           Dist(i) == Residue(i - start, n)
<1>1. /\ m \in RingSizes /\ m \in Nat \ {0} /\ m \in Int /\ Size(r) = m
      /\ r \in [0 .. m - 1 -> Packets \cup {NULL}]
  BY SizesFit, RingSize DEF IsRing
<1>2. n \in RingSizes /\ n \in Nat \ {0} /\ n \in Int /\ m < n /\ start \in Int
  BY NewSizeFits, SizesFit
<1>3. t = [i \in 0 .. n - 1 |->
             IF Dist(i) < m THEN r[Residue(start + Dist(i), m)] ELSE NULL]
  BY <1>1 DEF grow, Residue
<1> HIDE DEF t, n, start
<1>4. ASSUME NEW i \in 0 .. n - 1
      PROVE  /\ Dist(i) \in 0 .. n - 1
             /\ r[Residue(start + Dist(i), m)] \in Packets \cup {NULL}
  <2> DEFINE c == i - start
             e == Residue(c, n)
             a == start + e
  <2>1. c \in Int
    BY <1>2
  <2> HIDE DEF c
  <2>2. e \in 0 .. n - 1
    BY <1>2, <2>1, ResidueType
  <2> HIDE DEF e
  <2>3. a \in Int
    BY <1>2, <2>2
  <2> HIDE DEF a
  <2>4. Residue(a, m) \in 0 .. m - 1
    BY <1>1, <2>3, ResidueType
  <2>5. r[Residue(a, m)] \in Packets \cup {NULL}
    BY <1>1, <2>4
  <2> QED
    BY <2>2, <2>5 DEF a, e, c
<1>5. IsRing(t, n)
  <2> HIDE DEF Dist
  <2> QED
    BY <1>2, <1>3, <1>4 DEF IsRing
<1>6. ASSUME NEW d \in 0 .. n - 1
      PROVE  Place(t, n, b, d) = IF d < m THEN Place(r, m, b, d) ELSE NULL
  <2> DEFINE a == start + d
             i == Residue(a, n)
             w == b + d
  <2>1. a \in Int /\ d \in Int /\ a + (0 - start) = d /\ d + start = a
    BY <1>2
  <2>2. b \in Int
    BY <1>2, WrapType, SeqModAssumption DEF SeqNrs
  <2> HIDE DEF a, b
  <2>3. i \in 0 .. n - 1 /\ i \in Int
    BY <1>2, <2>1, ResidueType
  <2>4. Place(t, n, b, d) = Place(t, n, start, d) /\ Place(r, m, b, d) = Place(r, m, start, d)
    BY <1>1, <1>2, <2>1, PlaceOfWrap DEF b
  <2>5. Dist(i) = d
    <3> DEFINE o == 0 - start
    <3>1. o \in Int /\ a + o = d /\ i - start = i + o
      BY <1>2, <2>1, <2>3
    <3> HIDE DEF o
    <3>2. Residue(Residue(a, n) + o, n) = Residue(a + o, n)
      BY <1>2, <2>1, <3>1, ResidueAdd
    <3>3. Residue(d, n) = d
      BY <1>2, ResidueIdentity
    <3> QED
      BY <3>1, <3>2, <3>3
  <2> HIDE DEF i, Dist
  <2>6. t[i] = IF Dist(i) < m THEN r[Residue(start + Dist(i), m)] ELSE NULL
    BY <1>3, <2>3
  <2> QED
    BY <2>4, <2>5, <2>6 DEF Place, i, a
<1> QED
  BY <1>5, <1>6 DEF t, n, b, start

\* ensure_size: index fits afterwards, and every packet is where it was.
LEMMA EnsurePlaces ==
    ASSUME NEW r, NEW m, IsRing(r, m), NEW index \in Nat, index < SEQ_MOD,
           NEW item \in Int, NEW b, b = Wrap(item - index),
           NEW t, t = ensure_size(r, item, index)
    PROVE  \E n \in RingSizes :
             /\ IsRing(t, n) /\ m <= n /\ index < n
             /\ \A d \in 0 .. n - 1 :
                  Place(t, n, b, d) = IF d < m THEN Place(r, m, b, d) ELSE NULL
<1>1. m \in RingSizes /\ Size(r) = m /\ m \in Int
  BY RingSize, SizesFit DEF IsRing
<1>2. CASE index < m
  <2>1. t = r
    BY <1>1, <1>2 DEF ensure_size
  <2>2. \A d \in 0 .. m - 1 : d < m
    BY <1>1
  <2>3. \A d \in 0 .. m - 1 : Place(t, m, b, d) = IF d < m THEN Place(r, m, b, d) ELSE NULL
    BY <2>1, <2>2
  <2> QED
    BY <1>1, <1>2, <2>1, <2>3
<1>3. CASE m <= index
  <2> DEFINE n == NewSize(r, index)
  <2>1. t = grow(r, item, index)
    BY <1>1, <1>3 DEF ensure_size
  <2>2. n \in RingSizes /\ m < n /\ index < n /\ n \in Int
    BY <1>3, NewSizeFits, SizesFit
  <2>3. IsRing(t, n) /\ \A d \in 0 .. n - 1 :
          Place(t, n, b, d) = IF d < m THEN Place(r, m, b, d) ELSE NULL
    BY <1>3, <2>1, GrowPlaces
  <2> HIDE DEF n
  <2> QED
    BY <1>1, <2>2, <2>3
<1> QED
  BY <1>1, <1>2, <1>3

-----------------------------------------------------------------------------
(* The invariant *)

Occupied(r, m, b) == {d \in Slots(m) : Place(r, m, b, d) # NULL}

\* inbuf: the place of ack_nr + 1 is empty, no packet is SPAN or more ahead,
\* and reorder_count counts the packets.  outbuf: the window fits the ring, so
\* that no two of its packets share a slot.
RingFits(u, r, b, c, m) ==
  /\ u \in {"in", "out"} /\ b \in SeqNrs /\ c \in 0 .. SPAN
  /\ IsRing(r, m)
  /\ u = "in" => /\ Occupied(r, m, b) \subseteq 1 .. SPAN - 1
                 /\ c = Cardinality(Occupied(r, m, b))
  /\ u = "out" => c <= m

RingInv == \E m \in RingSizes : RingFits(user, ring, base, count, m)

LEMMA SlotsAreFinite ==
    ASSUME NEW m \in Nat
    PROVE  IsFiniteSet(Slots(m))
<1> DEFINE z == m - 1
<1>1. z \in Int /\ 0 \in Int
  OBVIOUS
<1> HIDE DEF z
<1>2. IsFiniteSet(0 .. z)
  BY <1>1, FS_Interval
<1> QED
  BY <1>2 DEF z, Slots

LEMMA OccupiedIsFinite ==
    ASSUME NEW r, NEW m \in RingSizes, NEW b
    PROVE  IsFiniteSet(Occupied(r, m, b))
<1>1. Occupied(r, m, b) \in SUBSET Slots(m) /\ m \in Nat
  BY SizesFit DEF Occupied
<1> HIDE DEF Slots
<1>2. IsFiniteSet(Slots(m))
  BY <1>1, SlotsAreFinite
<1> QED
  BY <1>1, <1>2, FS_Subset

\* What is in use of the sequence space and of the counters.
LEMMA SpanFits ==
    SPAN \in Nat \ {0} /\ SPAN < SEQ_MOD /\ 0 \in SeqNrs
BY RingAssumption, SeqModAssumption DEF SeqNrs

\* What the users of a ring see of it, and the same by places
HeldOf(u, r, b, c) ==
  [q \in SeqNrs |->
     IF Wrap(q - b) < (IF u = "in" THEN Min({SPAN, Size(r)}) ELSE c)
     THEN get(r, q) ELSE NULL]

Reach(u, c, m) == IF u = "in" THEN m ELSE c

LEMMA HeldPlace ==
    ASSUME NEW u, NEW r, NEW b, NEW c, NEW m \in RingSizes, RingFits(u, r, b, c, m),
           NEW q \in SeqNrs
    PROVE  LET e == Wrap(q - b)
           IN  /\ e \in 0 .. SEQ_MOD - 1
               /\ Reach(u, c, m) \in 0 .. m
               /\ HeldOf(u, r, b, c)[q] =
                    IF e < Reach(u, c, m) THEN Place(r, m, b, e) ELSE NULL
<1> DEFINE a == q - b
           e == Wrap(a)
           w == IF u = "in" THEN Min({SPAN, m}) ELSE c
<1>1. /\ b \in Int /\ a \in Int /\ m \in Nat \ {0} /\ m \in Int /\ Size(r) = m
      /\ c \in Nat /\ IsRing(r, m) /\ SPAN \in Nat \ {0} /\ u \in {"in", "out"}
  BY SizesFit, RingSize, SpanFits, SeqModAssumption DEF RingFits, SeqNrs
<1>2. get(r, q) = Place(r, m, b, e)
  BY <1>1, GetNumber
<1>3. e \in 0 .. SEQ_MOD - 1
  BY <1>1, WrapType DEF SeqNrs
<1>4. HeldOf(u, r, b, c)[q] = IF e < w THEN Place(r, m, b, e) ELSE NULL
  BY <1>1, <1>2 DEF HeldOf
<1>5. Reach(u, c, m) \in 0 .. m
  BY <1>1 DEF Reach, RingFits
<1>6. CASE u = "in"
  <2>1. Min({SPAN, m}) = IF SPAN <= m THEN SPAN ELSE m
    BY <1>1, MinOfTwo
  <2>2. e < m /\ ~(e < SPAN) => Place(r, m, b, e) = NULL
    BY <1>1, <1>3, <1>6 DEF RingFits, Occupied, Slots
  <2> HIDE DEF e
  <2> QED
    BY <1>1, <1>3, <1>4, <1>5, <1>6, <2>1, <2>2 DEF Reach, e
<1>7. CASE u # "in"
  <2> HIDE DEF e
  <2> QED
    BY <1>3, <1>4, <1>5, <1>7 DEF Reach, e
<1> QED
  BY <1>6, <1>7

\* A number is the one d places from b exactly when its distance from b is d.
LEMMA DistanceNames ==
    ASSUME NEW b \in SeqNrs, NEW q \in SeqNrs, NEW d \in 0 .. SEQ_MOD - 1
    PROVE  q = Wrap(b + d) <=> Wrap(q - b) = d
<1>1. /\ b \in Int /\ q \in Int /\ d \in Int /\ d \in SeqNrs
      /\ Wrap(q) = q /\ Wrap(b) = b /\ Wrap(d) = d
  BY WrapIdentity, SeqModAssumption DEF SeqNrs
<1>2. ASSUME q = Wrap(b + d) PROVE Wrap(q - b) = d
  <2> DEFINE x == b + d
             o == 0 - b
  <2>1. x \in Int /\ o \in Int /\ x + o = d /\ q - b = q + o
    BY <1>1
  <2> HIDE DEF x, o
  <2>2. Wrap(Wrap(x) + o) = Wrap(x + o)
    BY <2>1, WrapAdd
  <2>3. q = Wrap(x)
    BY <1>2 DEF x
  <2> QED
    BY <1>1, <2>1, <2>2, <2>3
<1>3. ASSUME Wrap(q - b) = d PROVE q = Wrap(b + d)
  <2> DEFINE x == q - b
  <2>1. x \in Int /\ x + b = q /\ b + d = d + b
    BY <1>1
  <2> HIDE DEF x
  <2>2. Wrap(Wrap(x) + b) = Wrap(x + b)
    BY <1>1, <2>1, WrapAdd
  <2>3. Wrap(x) = d
    BY <1>3 DEF x
  <2> QED
    BY <1>1, <2>1, <2>2, <2>3
<1> QED
  BY <1>2, <1>3

\* A ring replaced by a larger one with the same window start looks the same
\* to its user where the places are the same and the new ones are empty.
LEMMA HeldEqual ==
    ASSUME NEW u, NEW r, NEW b, NEW c, NEW m \in RingSizes, RingFits(u, r, b, c, m),
           NEW t, NEW a, NEW n \in RingSizes, RingFits(u, t, b, a, n),
           NEW q \in SeqNrs, NEW e, e = Wrap(q - b),
           Reach(u, c, m) <= Reach(u, a, n),
           e < Reach(u, c, m) => Place(t, n, b, e) = Place(r, m, b, e),
           Reach(u, c, m) <= e /\ e < Reach(u, a, n) => Place(t, n, b, e) = NULL
    PROVE  HeldOf(u, t, b, a)[q] = HeldOf(u, r, b, c)[q]
<1> DEFINE v == Reach(u, c, m)
           w == Reach(u, a, n)
<1>1. /\ e \in 0 .. SEQ_MOD - 1 /\ v \in 0 .. m
      /\ HeldOf(u, r, b, c)[q] = IF e < v THEN Place(r, m, b, e) ELSE NULL
  BY HeldPlace
<1>2. /\ w \in 0 .. n
      /\ HeldOf(u, t, b, a)[q] = IF e < w THEN Place(t, n, b, e) ELSE NULL
  BY HeldPlace
<1>3. m \in Int /\ n \in Int
  BY SizesFit
<1> HIDE DEF v, w
<1> QED
  BY <1>1, <1>2, <1>3, SeqModAssumption DEF v, w

-----------------------------------------------------------------------------
(* RingInit *)

LEMMA InitFits ==
    ASSUME RingInit
    PROVE  RingInv /\ Held = [q \in SeqNrs |-> NULL]
<1> DEFINE m == INITIAL_SIZE
<1>1. m \in RingSizes /\ m \in Nat \ {0}
  BY RingAssumption, SizesFit
<1>2. IsRing(ring, m)
  BY <1>1 DEF RingInit, Empty, IsRing
<1>3. ASSUME NEW d \in 0 .. m - 1 PROVE Place(ring, m, base, d) = NULL
  <2> DEFINE a == base + d
  <2>1. a \in Int
    BY <1>1, SeqModAssumption DEF RingInit, SeqNrs
  <2> HIDE DEF a
  <2>2. Residue(a, m) \in 0 .. m - 1
    BY <1>1, <2>1, ResidueType
  <2> QED
    BY <2>2 DEF RingInit, Empty, Place, a
<1>4. Occupied(ring, m, base) = {}
  BY <1>3 DEF Occupied, Slots
<1>5. Cardinality(Occupied(ring, m, base)) = 0
  BY <1>4, FS_EmptySet
<1>6. RingFits(user, ring, base, count, m)
  BY <1>1, <1>2, <1>4, <1>5, SpanFits DEF RingFits, RingInit
<1>7. ASSUME NEW q \in SeqNrs PROVE HeldOf(user, ring, base, count)[q] = NULL
  <2> DEFINE e == Wrap(q - base)
             w == Reach(user, count, m)
  <2>1. /\ e \in 0 .. SEQ_MOD - 1 /\ w \in 0 .. m
        /\ HeldOf(user, ring, base, count)[q] = IF e < w THEN Place(ring, m, base, e) ELSE NULL
    BY <1>1, <1>6, HeldPlace
  <2> HIDE DEF e, w
  <2>2. e < w => e \in 0 .. m - 1
    BY <1>1, <2>1
  <2> QED
    BY <1>3, <2>1, <2>2
<1>8. Held = HeldOf(user, ring, base, count)
  BY DEF Held, HeldOf, InWindow
<1>9. Held = [q \in SeqNrs |-> Held[q]]
  BY DEF Held
<1> QED
  BY <1>1, <1>6, <1>7, <1>8, <1>9 DEF RingInv

-----------------------------------------------------------------------------
(* StoreIncoming *)

LEMMA StoreIncomingFits ==
    ASSUME RingInv, NEW d \in 1 .. SPAN - 1, NEW v \in Packets, StoreIncoming(d, v)
    PROVE  RingInv' /\ (Map!Put \/ UNCHANGED Held)
<1> DEFINE seq == Wrap(base + d)
           index == d + 1
           item == seq + 1
           r == ensure_size(ring, item, index)
           u == "in"
<1>1. PICK m \in RingSizes : RingFits(user, ring, base, count, m)
  BY DEF RingInv
<1>2. user = "in" /\ user' = "in" /\ base' = base
  BY DEF StoreIncoming
<1>3. /\ IsRing(ring, m) /\ base \in SeqNrs /\ base \in Int /\ d \in Int /\ m \in Int /\ m \in Nat \ {0}
      /\ Occupied(ring, m, base) \subseteq 1 .. SPAN - 1
      /\ count = Cardinality(Occupied(ring, m, base)) /\ count \in 0 .. SPAN
      /\ seq \in SeqNrs /\ seq \in Int
  BY <1>1, <1>2, SizesFit, WrapType, SeqModAssumption, SpanFits DEF RingFits, SeqNrs
<1>4. item \in Int /\ index \in Nat /\ index < SEQ_MOD /\ d < index
  BY <1>3, SpanFits, SeqModAssumption
<1>5. base = Wrap(item - index)
  <2> DEFINE a == base + d
             o == 0 - d
  <2>1. a \in Int /\ o \in Int /\ a + o = base /\ item - index = Wrap(a) + o
    BY <1>3
  <2> HIDE DEF a, o
  <2>2. Wrap(Wrap(a) + o) = Wrap(a + o)
    BY <2>1, WrapAdd
  <2> QED
    BY <1>3, <2>1, <2>2, WrapIdentity
<1>16. r = ensure_size(ring, item, index)
  OBVIOUS
<1> HIDE DEF index, item, r
<1>6. PICK n \in RingSizes :
        /\ IsRing(r, n) /\ m <= n /\ index < n
        /\ \A e \in 0 .. n - 1 :
             Place(r, n, base, e) = IF e < m THEN Place(ring, m, base, e) ELSE NULL
  <2>1. IsRing(ring, m)
    BY <1>3
  <2>2. index \in Nat /\ index < SEQ_MOD /\ item \in Int
    BY <1>4
  <2> HIDE DEF u, seq
  <2> QED
    BY <2>1, <2>2, <1>5, <1>16, EnsurePlaces
<1>7. n \in Nat \ {0} /\ n \in Int /\ d \in 0 .. n - 1
  BY <1>3, <1>4, <1>6, SizesFit
<1>8. /\ get(r, seq) = Place(r, n, base, d)
      /\ ring' = IF get(r, seq) # NULL THEN r ELSE put(r, seq, v)
      /\ count' = IF get(r, seq) # NULL THEN count ELSE count + 1
  <2>1. get(r, seq) = Place(r, n, base, d)
    BY <1>3, <1>6, GetPlace
  <2> QED
    BY <2>1 DEF StoreIncoming, item, index, r
<1>9. Occupied(r, n, base) = Occupied(ring, m, base)
  BY <1>3, <1>6, <1>7 DEF Occupied, Slots
<1>10. RingFits(u, r, base, count, n)
  BY <1>1, <1>2, <1>3, <1>6, <1>9 DEF RingFits
<1>11. \A q \in SeqNrs : HeldOf(u, r, base, count)[q] = HeldOf(u, ring, base, count)[q]
  <2> TAKE q \in SeqNrs
  <2> DEFINE e == Wrap(q - base)
             o == q - base
  <2>1. o \in Int
    BY <1>3, SeqModAssumption DEF SeqNrs
  <2> HIDE DEF o
  <2>2. Wrap(o) \in 0 .. SEQ_MOD - 1
    BY <2>1, WrapType DEF SeqNrs
  <2>3. e \in Nat
    BY <2>2, SeqModAssumption DEF o
  <2> HIDE DEF e
  <2>4. e < m => Place(r, n, base, e) = Place(ring, m, base, e)
    BY <1>3, <1>6, <1>7, <2>3
  <2>5. m <= e /\ e < n => Place(r, n, base, e) = NULL
    BY <1>3, <1>6, <1>7, <2>3
  <2>6. Reach(u, count, m) = m /\ Reach(u, count, n) = n
    BY DEF Reach
  <2>7. RingFits(u, ring, base, count, m)
    BY <1>1, <1>2
  <2> HIDE DEF u
  <2> QED
    BY <1>6, <1>10, <2>4, <2>5, <2>6, <2>7, HeldEqual DEF e
<1>12. /\ Held = HeldOf(user, ring, base, count)
       /\ Held' = HeldOf(user', ring', base', count')
  BY DEF Held, HeldOf, InWindow
<1>13. HeldOf(u, r, base, count) = HeldOf(u, ring, base, count)
  <2>1. /\ HeldOf(u, r, base, count) = [q \in SeqNrs |-> HeldOf(u, r, base, count)[q]]
        /\ HeldOf(u, ring, base, count) = [q \in SeqNrs |-> HeldOf(u, ring, base, count)[q]]
    BY DEF HeldOf
  <2> QED
    BY <1>11, <2>1
<1>14. CASE get(r, seq) # NULL
  <2>1. ring' = r /\ count' = count
    BY <1>8, <1>14
  <2>2. RingInv'
    BY <1>2, <1>6, <1>10, <2>1 DEF RingInv
  <2>3. Held' = Held
    BY <1>2, <1>12, <1>13, <2>1
  <2> QED
    BY <2>2, <2>3
<1>15. CASE get(r, seq) = NULL
  <2>1. ring' = put(r, seq, v) /\ count' = count + 1
    BY <1>8, <1>15
  <2>2. /\ IsRing(ring', n)
        /\ \A e \in 0 .. n - 1 :
             Place(ring', n, base, e) = IF e = d THEN v ELSE Place(r, n, base, e)
    <3>1. v \in Packets \/ v = NULL
      OBVIOUS
    <3>2. IsRing(r, n) /\ ring' = put(r, NumberAt(base, d), v)
      BY <1>6, <2>1 DEF NumberAt
    <3>3. base \in Int /\ d \in Slots(n)
      BY <1>3, <1>7 DEF Slots
    <3> HIDE DEF u, seq
    <3>4. IsRing(ring', n) /\ \A e \in Slots(n) :
            Place(ring', n, base, e) = IF e = d THEN v ELSE Place(r, n, base, e)
      BY <3>1, <3>2, <3>3, PutPlace
    <3> QED
      BY <3>4 DEF Slots
  <2>3. /\ Occupied(ring', n, base) = Occupied(r, n, base) \cup {d}
        /\ d \notin Occupied(r, n, base)
    BY <1>7, <1>8, <1>15, <2>2, RingAssumption DEF Occupied, Slots
  <2>4. Cardinality(Occupied(ring', n, base)) = count + 1
    BY <1>3, <1>6, <1>9, <2>3, OccupiedIsFinite, FS_AddElement
  <2>5. Occupied(ring', n, base) \subseteq 1 .. SPAN - 1
    BY <1>3, <1>9, <2>3
  <2>6. count + 1 \in 0 .. SPAN
    <3> DEFINE z == SPAN - 1
    <3>1. z \in Int /\ 1 \in Int /\ ~(1 > z) /\ z - 1 + 1 = SPAN - 1
      BY <1>3, SpanFits
    <3> HIDE DEF z
    <3>2. IsFiniteSet(1 .. z) /\ Cardinality(1 .. z) = z - 1 + 1
      BY <3>1, FS_Interval
    <3>3. Occupied(ring', n, base) \in SUBSET (1 .. z)
      BY <2>5 DEF z
    <3>4. Cardinality(Occupied(ring', n, base)) <= Cardinality(1 .. z)
      BY <3>2, <3>3, FS_Subset
    <3> QED
      BY <1>3, <2>4, <3>1, <3>2, <3>4, SpanFits
  <2>7. RingFits(u, ring', base, count', n)
    BY <1>3, <2>1, <2>2, <2>4, <2>5, <2>6 DEF RingFits
  <2>8. RingInv'
    BY <1>2, <1>6, <2>7 DEF RingInv
  <2>9. Held[seq] = NULL
    <3>1. Held[seq] = HeldOf(u, r, base, count)[seq]
      BY <1>2, <1>12, <1>13
    <3>2. HeldOf(u, r, base, count)[seq] = get(r, seq) \/ HeldOf(u, r, base, count)[seq] = NULL
      BY <1>3 DEF HeldOf
    <3> QED
      BY <1>15, <3>1, <3>2
  <2>10. Held' = [Held EXCEPT ![seq] = v]
    <3>1. ASSUME NEW q \in SeqNrs
          PROVE  Held'[q] = IF q = seq THEN v ELSE Held[q]
      <4> DEFINE e == Wrap(q - base)
      <4>1. /\ e \in 0 .. SEQ_MOD - 1 /\ Reach(u, count, n) \in 0 .. n
            /\ HeldOf(u, r, base, count)[q] =
                 IF e < Reach(u, count, n) THEN Place(r, n, base, e) ELSE NULL
        BY <1>6, <1>10, HeldPlace
      <4>2. HeldOf(u, ring', base, count')[q] =
              IF e < Reach(u, count', n) THEN Place(ring', n, base, e) ELSE NULL
        BY <1>6, <2>7, HeldPlace
      <4>3. Reach(u, count, n) = n /\ Reach(u, count', n) = n
        BY DEF Reach
      <4>4. q = seq <=> e = d
        BY <1>3, <1>4, DistanceNames, SpanFits, SeqModAssumption
      <4> HIDE DEF e
      <4>5. Held'[q] = HeldOf(u, ring', base, count')[q] /\ Held[q] = HeldOf(u, r, base, count)[q]
        BY <1>2, <1>12, <1>13
      <4> QED
        BY <1>7, <2>2, <4>1, <4>2, <4>3, <4>4, <4>5, SeqModAssumption
    <3>2. Held \in [SeqNrs -> {Held[q] : q \in SeqNrs}] /\ Held' = [q \in SeqNrs |-> Held'[q]]
      BY DEF Held
    <3> QED
      BY <3>1, <3>2
  <2>11. Map!Put
    BY <1>3, <2>9, <2>10 DEF Map!Put
  <2> QED
    BY <2>8, <2>11
<1> QED
  BY <1>14, <1>15

-----------------------------------------------------------------------------
(* AppendOutgoing *)

LEMMA AppendOutgoingFits ==
    ASSUME RingInv, NEW v \in Packets, AppendOutgoing(v)
    PROVE  RingInv' /\ (Map!Put \/ UNCHANGED Held)
<1> DEFINE seq == Wrap(base + count)
           r == ensure_size(ring, seq, count)
           u == "out"
<1>1. PICK m \in RingSizes : RingFits(user, ring, base, count, m)
  BY DEF RingInv
<1>2. /\ user = "out" /\ user' = "out" /\ base' = base /\ count < SPAN
      /\ count' = count + 1 /\ ring' = put(r, seq, v)
  BY DEF AppendOutgoing
<1>3. /\ IsRing(ring, m) /\ base \in SeqNrs /\ base \in Int /\ m \in Int /\ m \in Nat \ {0}
      /\ count \in 0 .. SPAN /\ count \in Nat /\ count \in Int /\ count <= m
      /\ seq \in SeqNrs /\ seq \in Int
  BY <1>1, <1>2, SizesFit, WrapType, SeqModAssumption, SpanFits DEF RingFits, SeqNrs
<1>4. count < SEQ_MOD
  BY <1>2, <1>3, SpanFits, SeqModAssumption
<1>5. base = Wrap(seq - count)
  <2> DEFINE a == base + count
             o == 0 - count
  <2>1. a \in Int /\ o \in Int /\ a + o = base /\ seq - count = Wrap(a) + o
    BY <1>3
  <2> HIDE DEF a, o
  <2>2. Wrap(Wrap(a) + o) = Wrap(a + o)
    BY <2>1, WrapAdd
  <2> QED
    BY <1>3, <2>1, <2>2, WrapIdentity
<1>6. r = ensure_size(ring, seq, count)
  OBVIOUS
<1>7. ring' = put(r, NumberAt(base, count), v)
  BY <1>2 DEF NumberAt
<1>8. \A q \in SeqNrs : q = seq <=> Wrap(q - base) = count
  BY <1>3, <1>4, DistanceNames, SeqModAssumption
<1> HIDE DEF r, seq
<1>9. PICK n \in RingSizes :
        /\ IsRing(r, n) /\ m <= n /\ count < n
        /\ \A e \in 0 .. n - 1 :
             Place(r, n, base, e) = IF e < m THEN Place(ring, m, base, e) ELSE NULL
  <2>1. IsRing(ring, m)
    BY <1>3
  <2>2. count \in Nat /\ count < SEQ_MOD /\ seq \in Int
    BY <1>3, <1>4
  <2> HIDE DEF u
  <2> QED
    BY <2>1, <2>2, <1>5, <1>6, EnsurePlaces
<1>10. n \in Nat \ {0} /\ n \in Int /\ count \in Slots(n)
  BY <1>3, <1>9, SizesFit DEF Slots
<1>11. /\ IsRing(ring', n)
       /\ \A e \in Slots(n) :
            Place(ring', n, base, e) = IF e = count THEN v ELSE Place(r, n, base, e)
  <2>1. IsRing(r, n) /\ (v \in Packets \/ v = NULL)
    BY <1>9
  <2> QED
    BY <1>3, <1>7, <1>10, <2>1, PutPlace
<1>12. RingFits(u, ring', base, count', n)
  <2>1. count' \in 0 .. SPAN /\ count' <= n
    BY <1>2, <1>3, <1>9, <1>10, SpanFits
  <2> QED
    BY <1>3, <1>11, <2>1 DEF RingFits
<1>13. RingInv'
  BY <1>2, <1>9, <1>12 DEF RingInv
<1>14. /\ Held = HeldOf(user, ring, base, count)
       /\ Held' = HeldOf(user', ring', base', count')
  BY DEF Held, HeldOf, InWindow
<1>15. ASSUME NEW q \in SeqNrs
       PROVE  /\ Held'[q] = IF q = seq THEN v ELSE Held[q]
              /\ q = seq => Held[q] = NULL
  <2> DEFINE e == Wrap(q - base)
  <2>1. /\ e \in 0 .. SEQ_MOD - 1
        /\ HeldOf(user, ring, base, count)[q] =
             IF e < Reach(user, count, m) THEN Place(ring, m, base, e) ELSE NULL
    BY <1>1, HeldPlace
  <2>2. HeldOf(u, ring', base, count')[q] =
          IF e < Reach(u, count', n) THEN Place(ring', n, base, e) ELSE NULL
    BY <1>9, <1>12, HeldPlace
  <2>3. Reach(user, count, m) = count /\ Reach(u, count', n) = count + 1
    BY <1>2 DEF Reach
  <2>4. q = seq <=> e = count
    BY <1>8
  <2> HIDE DEF e
  <2>5. e < count + 1 => e \in Slots(n) /\ e \in 0 .. n - 1
    BY <1>3, <1>9, <1>10, <2>1, SeqModAssumption DEF Slots
  <2>6. e < count => Place(ring', n, base, e) = Place(ring, m, base, e)
    BY <1>3, <1>9, <1>11, <2>1, <2>5, SeqModAssumption
  <2>7. e = count => Place(ring', n, base, e) = v
    BY <1>3, <1>11, <2>5
  <2>8. /\ Held[q] = IF e < count THEN Place(ring, m, base, e) ELSE NULL
        /\ Held'[q] = IF e < count + 1 THEN Place(ring', n, base, e) ELSE NULL
    BY <1>2, <1>14, <2>1, <2>2, <2>3
  <2>9. e < count + 1 <=> e < count \/ e = count
    BY <1>3, <2>1, SeqModAssumption
  <2>10. e = count => ~(e < count)
    BY <1>3
  <2> QED
    BY <2>4, <2>6, <2>7, <2>8, <2>9, <2>10
<1>16. Held' = [Held EXCEPT ![seq] = v] /\ Held[seq] = NULL
  <2>1. Held = [q \in SeqNrs |-> Held[q]] /\ Held' = [q \in SeqNrs |-> Held'[q]]
    BY DEF Held
  <2> QED
    BY <1>3, <1>15, <2>1
<1>17. Map!Put
  BY <1>3, <1>16 DEF Map!Put
<1> QED
  BY <1>13, <1>17

-----------------------------------------------------------------------------
(* Steps that only take packets out *)

\* The slot of every number holds what it held or nothing, and the window
\* holds no number that it did not: the map loses packets, and that is all.
LEMMA OnlyTaken ==
    ASSUME NEW m \in RingSizes, RingFits(user, ring, base, count, m),
           IsRing(ring', m), user' = user,
           \A q \in SeqNrs :
             Held'[q] # NULL => Held'[q] = Held[q]
    PROVE  Map!Take
<1>1. Size(ring') = m
  BY RingSize
<1>2. ASSUME NEW q \in SeqNrs PROVE Held'[q] \in Packets \cup {NULL}
  <2> DEFINE s == q % m
  <2>1. m \in Nat \ {0} /\ q \in Int
    BY SizesFit, SeqModAssumption DEF SeqNrs
  <2>2. s \in 0 .. m - 1
    BY <2>1, ResidueType DEF Residue
  <2>3. ring'[s] \in Packets \cup {NULL}
    BY <2>2 DEF IsRing
  <2>4. get(ring', q) = ring'[s]
    BY <1>1 DEF get
  <2>5. Held'[q] = get(ring', q) \/ Held'[q] = NULL
    BY DEF Held, get, Size
  <2> QED
    BY <2>3, <2>4, <2>5
<1>3. Held' = [q \in SeqNrs |-> Held'[q]]
  BY DEF Held
<1>4. Held' \in [SeqNrs -> Packets \cup {NULL}]
  BY <1>2, <1>3
<1>5. \A q \in SeqNrs : Held'[q] \in {Held[q], NULL}
  OBVIOUS
<1> QED
  BY <1>4, <1>5 DEF Map!Take

LEMMA AckSelectiveFits ==
    ASSUME RingInv, NEW d \in 1 .. SPAN - 1, AckSelective(d)
    PROVE  RingInv' /\ Map!Take
<1>1. PICK m \in RingSizes : RingFits(user, ring, base, count, m)
  BY DEF RingInv
<1>2. /\ user = "out" /\ user' = user /\ base' = base /\ count' = count /\ d < count
      /\ ring' = put(ring, NumberAt(base, d), NULL)
  BY DEF AckSelective, take, NumberAt
<1>3. /\ IsRing(ring, m) /\ base \in SeqNrs /\ base \in Int /\ m \in Int /\ m \in Nat \ {0}
      /\ count \in Int /\ count <= m /\ d \in Slots(m)
  BY <1>1, <1>2, SizesFit, SeqModAssumption, SpanFits DEF RingFits, SeqNrs, Slots
<1>4. /\ IsRing(ring', m)
      /\ \A e \in Slots(m) :
           Place(ring', m, base, e) = IF e = d THEN NULL ELSE Place(ring, m, base, e)
  <2>1. NULL \in Packets \/ NULL = NULL
    OBVIOUS
  <2> DEFINE v == NULL
  <2>2. ring' = put(ring, NumberAt(base, d), v) /\ (v \in Packets \/ v = NULL)
    BY <1>2
  <2> HIDE DEF v
  <2>3. /\ IsRing(ring', m)
        /\ \A e \in Slots(m) :
             Place(ring', m, base, e) = IF e = d THEN v ELSE Place(ring, m, base, e)
    BY <1>3, <2>2, PutPlace
  <2> QED
    BY <2>3 DEF v
<1>5. RingFits(user', ring', base', count', m)
  BY <1>1, <1>2, <1>4 DEF RingFits
<1>6. /\ Held = HeldOf(user, ring, base, count)
      /\ Held' = HeldOf(user', ring', base', count')
  BY DEF Held, HeldOf, InWindow
<1>7. ASSUME NEW q \in SeqNrs, Held'[q] # NULL PROVE Held'[q] = Held[q]
  <2> DEFINE e == Wrap(q - base)
  <2>1. /\ e \in 0 .. SEQ_MOD - 1
        /\ HeldOf(user, ring, base, count)[q] =
             IF e < Reach(user, count, m) THEN Place(ring, m, base, e) ELSE NULL
    BY <1>1, HeldPlace
  <2>2. HeldOf(user', ring', base', count')[q] =
          IF Wrap(q - base') < Reach(user', count', m)
          THEN Place(ring', m, base', Wrap(q - base')) ELSE NULL
    BY <1>5, HeldPlace
  <2>3. Reach(user, count, m) = count /\ Reach(user', count', m) = count
    BY <1>2 DEF Reach
  <2>4. /\ Held[q] = IF e < count THEN Place(ring, m, base, e) ELSE NULL
        /\ Held'[q] = IF e < count THEN Place(ring', m, base, e) ELSE NULL
    BY <1>2, <1>6, <2>1, <2>2, <2>3
  <2> HIDE DEF e
  <2>5. e < count => e \in Slots(m)
    BY <1>3, <2>1, SeqModAssumption DEF Slots
  <2> QED
    BY <1>4, <1>7, <2>4, <2>5
<1>8. Map!Take
  BY <1>1, <1>2, <1>4, <1>7, OnlyTaken
<1> QED
  BY <1>1, <1>5, <1>8 DEF RingInv

\* A number e places from a window start that moved k places was k + e away.
LEMMA DistanceShift ==
    ASSUME NEW b \in SeqNrs, NEW k \in Nat, NEW a, a = Wrap(b + k),
           NEW q \in SeqNrs, k + Wrap(q - a) < SEQ_MOD
    PROVE  Wrap(q - b) = k + Wrap(q - a)
<1> DEFINE e == Wrap(q - a)
           x == b + k
           d == k + e
<1>1. b \in Int /\ k \in Int /\ q \in Int /\ x \in Int
  BY SeqModAssumption DEF SeqNrs
<1> HIDE DEF x
<1>2. a \in SeqNrs /\ a \in Int
  BY <1>1, WrapType, SeqModAssumption DEF SeqNrs, x
<1>3. e \in 0 .. SEQ_MOD - 1
  <2> DEFINE o == q - a
  <2>1. o \in Int
    BY <1>1, <1>2
  <2> HIDE DEF o
  <2>2. Wrap(o) \in 0 .. SEQ_MOD - 1
    BY <2>1, WrapType DEF SeqNrs
  <2> QED
    BY <2>2 DEF o
<1>4. q = Wrap(a + e)
  BY <1>2, <1>3, DistanceNames
<1> HIDE DEF e
<1>5. d \in 0 .. SEQ_MOD - 1 /\ x + e = b + d /\ e \in Int
  BY <1>1, <1>3, SeqModAssumption DEF e, x
<1>6. Wrap(Wrap(x) + e) = Wrap(x + e)
  BY <1>1, <1>5, WrapAdd
<1>7. q = Wrap(b + d)
  BY <1>4, <1>5, <1>6 DEF x
<1> HIDE DEF d
<1>8. Wrap(q - b) = d
  BY <1>5, <1>7, DistanceNames
<1> QED
  BY <1>8 DEF d, e

LEMMA AckFirstFits ==
    ASSUME RingInv, AckFirst
    PROVE  RingInv' /\ Map!Take
<1> DEFINE G == {n \in 1 .. count :
                   \A i \in 1 .. n - 1 : get(ring, Wrap(base + i)) = NULL}
           k == Max(G)
           z == 0
<1>1. PICK m \in RingSizes : RingFits(user, ring, base, count, m)
  BY DEF RingInv
<1>2. /\ user = "out" /\ user' = user /\ count > 0 /\ base' = Wrap(base + k)
      /\ count' = count - k /\ ring' = put(ring, base, NULL)
  BY DEF AckFirst, take
<1>3. /\ IsRing(ring, m) /\ base \in SeqNrs /\ base \in Int /\ m \in Int /\ m \in Nat \ {0}
      /\ count \in Nat /\ count <= SPAN /\ count <= m /\ z \in Slots(m)
  BY <1>1, <1>2, SizesFit, SeqModAssumption, SpanFits DEF RingFits, SeqNrs, Slots
<1>4. k \in 1 .. count
  <2>1. G \in SUBSET (0 .. count)
    BY <1>3
  <2>2. 1 \in G
    BY <1>2, <1>3
  <2>3. G # {}
    BY <2>2
  <2> HIDE DEF G
  <2>4. Max(G) \in G
    BY <1>3, <2>1, <2>3, MaxInBounds
  <2> QED
    BY <2>4 DEF G
<1> HIDE DEF k, G
<1>5. ring' = put(ring, NumberAt(base, z), NULL)
  <2>1. base + 0 = base /\ Wrap(base) = base
    BY <1>3, WrapIdentity
  <2> QED
    BY <1>2, <2>1 DEF NumberAt
<1> HIDE DEF z
<1>6. /\ IsRing(ring', m)
      /\ \A e \in Slots(m) :
           Place(ring', m, base, e) = IF e = z THEN NULL ELSE Place(ring, m, base, e)
  <2> DEFINE v == NULL
  <2>1. ring' = put(ring, NumberAt(base, z), v) /\ (v \in Packets \/ v = NULL)
    BY <1>5
  <2> HIDE DEF v
  <2>2. /\ IsRing(ring', m)
        /\ \A e \in Slots(m) :
             Place(ring', m, base, e) = IF e = z THEN v ELSE Place(ring, m, base, e)
    BY <1>3, <2>1, PutPlace
  <2> QED
    BY <2>2 DEF v
<1>7. base' \in SeqNrs
  <2> DEFINE a == base + k
  <2>1. a \in Int
    BY <1>3, <1>4
  <2> HIDE DEF a
  <2>2. Wrap(a) \in SeqNrs
    BY <2>1, WrapType
  <2> QED
    BY <1>2, <2>2 DEF a
<1>8. RingFits(user', ring', base', count', m)
  <2>1. count' \in 0 .. SPAN /\ count' <= m
    BY <1>2, <1>3, <1>4, SpanFits
  <2> QED
    BY <1>2, <1>6, <1>7, <2>1 DEF RingFits
<1>9. /\ Held = HeldOf(user, ring, base, count)
      /\ Held' = HeldOf(user', ring', base', count')
  BY DEF Held, HeldOf, InWindow
<1>10. ASSUME NEW q \in SeqNrs, Held'[q] # NULL PROVE Held'[q] = Held[q]
  <2> DEFINE e == Wrap(q - base')
             d == Wrap(q - base)
  <2>1. /\ d \in 0 .. SEQ_MOD - 1
        /\ HeldOf(user, ring, base, count)[q] =
             IF d < Reach(user, count, m) THEN Place(ring, m, base, d) ELSE NULL
    BY <1>1, HeldPlace
  <2>2. /\ e \in 0 .. SEQ_MOD - 1
        /\ HeldOf(user', ring', base', count')[q] =
             IF e < Reach(user', count', m) THEN Place(ring', m, base', e) ELSE NULL
    BY <1>8, HeldPlace
  <2>3. Reach(user, count, m) = count /\ Reach(user', count', m) = count - k
    BY <1>2 DEF Reach
  <2>4. e < count - k /\ Held'[q] = Place(ring', m, base', e)
    BY <1>9, <1>10, <2>2, <2>3
  <2>5. k \in Nat /\ k \in Int /\ e \in Int /\ k + e < count /\ k + e < SEQ_MOD
    BY <1>3, <1>4, <2>2, <2>4, SpanFits, SeqModAssumption
  <2>6. d = k + e
    BY <1>2, <1>3, <2>5, DistanceShift
  <2>7. Place(ring', m, Wrap(base + k), e) = Place(ring', m, base, k + e)
    BY <1>3, <2>5, PlaceShift
  <2> HIDE DEF d, e
  <2>8. d \in Slots(m) /\ d # z /\ d < count
    BY <1>3, <1>4, <2>2, <2>5, <2>6, SeqModAssumption DEF Slots, z
  <2>9. Place(ring', m, base, d) = Place(ring, m, base, d)
    BY <1>6, <2>8
  <2> QED
    BY <1>2, <1>9, <2>1, <2>3, <2>4, <2>6, <2>7, <2>8, <2>9
<1>11. Map!Take
  BY <1>1, <1>2, <1>6, <1>10, OnlyTaken
<1> QED
  BY <1>1, <1>8, <1>11 DEF RingInv

-----------------------------------------------------------------------------
(* DeliverInOrder *)

\* Moving a set of places towards the start of the window keeps its size.
LEMMA ShiftedSet ==
    ASSUME NEW S \in SUBSET Int, IsFiniteSet(S), NEW k \in Int,
           NEW T \in SUBSET Int, \A e \in Int : e \in T <=> k + e \in S
    PROVE  Cardinality(T) = Cardinality(S)
<1> DEFINE f == [d \in S |-> d - k]
<1>1. f \in [S -> T]
  <2>1. \A d \in S : d \in Int /\ d - k \in Int /\ k + (d - k) = d
    OBVIOUS
  <2>2. \A d \in S : d - k \in T
    BY <2>1
  <2> QED
    BY <2>2
<1>2. \A d, e \in S : f[d] = f[e] => d = e
  OBVIOUS
<1>3. \A e \in T : \E d \in S : f[d] = e
  <2> TAKE e \in T
  <2>1. k + e \in S /\ (k + e) - k = e
    OBVIOUS
  <2> QED
    BY <2>1
<1> HIDE DEF f
<1>4. f \in Bijection(S, T)
  BY <1>1, <1>2, <1>3, Zenon DEF Bijection, Injection, Surjection, IsInjective
<1>5. ExistsBijection(S, T)
  BY <1>4 DEF ExistsBijection
<1> QED
  BY <1>5, FS_Bijection

\* The run that the drain loop takes: packets 1 .. n are there, packet n + 1
\* is not, and the run does not go around the ring.
LEMMA RunStops ==
    ASSUME NEW m \in RingSizes, RingFits(user, ring, base, count, m), user = "in",
           NEW n, n = Run(base)
    PROVE  /\ n \in 0 .. count /\ n < m
           /\ 1 .. n \subseteq Occupied(ring, m, base)
           /\ n + 1 \notin Occupied(ring, m, base)
<1> DEFINE G == {j \in 0 .. count : \A i \in 1 .. j : get(ring, Wrap(base + i)) # NULL}
           O == Occupied(ring, m, base)
           z == 0
<1>1. /\ IsRing(ring, m) /\ base \in Int /\ m \in Int /\ m \in Nat \ {0}
      /\ count \in Nat /\ O \subseteq 1 .. SPAN - 1 /\ count = Cardinality(O)
  BY SizesFit, SeqModAssumption, SpanFits DEF RingFits, SeqNrs
<1>2. n \in G /\ \A j \in G : j <= n
  <2>1. G \in SUBSET (0 .. count)
    BY <1>1
  <2>2. 0 \in G
    BY <1>1
  <2>3. G # {}
    BY <2>2
  <2>4. n = Max(G)
    BY DEF Run
  <2> HIDE DEF G
  <2>5. Max(G) \in G /\ \A j \in G : j <= Max(G)
    BY <1>1, <2>1, <2>3, MaxInBounds
  <2> QED
    BY <2>4, <2>5
<1>3. n \in 0 .. count /\ n \in Int
  BY <1>1, <1>2
<1>4. ASSUME NEW i \in 1 .. n PROVE Place(ring, m, base, i) # NULL
  <2>1. get(ring, Wrap(base + i)) = Place(ring, m, base, i)
    BY <1>1, GetPlace
  <2> QED
    BY <1>2, <2>1
<1>5. n < m
  <2> SUFFICES ASSUME m <= n PROVE FALSE
    BY <1>1, <1>3
  <2>1. Place(ring, m, base, m) # NULL
    BY <1>1, <1>3, <1>4
  <2>2. z \in Int /\ z + m = m /\ z \in Slots(m) /\ z \notin 1 .. SPAN - 1
    BY <1>1, SpanFits DEF Slots
  <2> HIDE DEF z
  <2>3. Place(ring, m, base, z + m) = Place(ring, m, base, z)
    BY <1>1, <2>2, PlaceRound
  <2>4. Place(ring, m, base, z) = NULL
    BY <1>1, <2>2 DEF Occupied
  <2> QED
    BY <2>1, <2>2, <2>3, <2>4
<1>6. 1 .. n \subseteq O
  BY <1>1, <1>3, <1>4, <1>5 DEF Occupied, Slots
<1>7. n + 1 \notin O
  <2> SUFFICES ASSUME n + 1 \in O PROVE FALSE
    OBVIOUS
  <2>1. CASE n < count
    <3>1. Place(ring, m, base, n + 1) # NULL
      BY DEF Occupied
    <3> DEFINE j == n + 1
    <3>2. j \in Int /\ j \in 0 .. count /\ j > n
      BY <1>1, <1>3, <2>1
    <3>3. \A i \in 1 .. j : i \in 1 .. n \/ i = j
      BY <1>3
    <3> HIDE DEF j
    <3>4. get(ring, Wrap(base + j)) = Place(ring, m, base, j)
      BY <1>1, <3>2, GetPlace
    <3>5. \A i \in 1 .. n : get(ring, Wrap(base + i)) # NULL
      BY <1>2
    <3>6. get(ring, Wrap(base + j)) # NULL
      BY <3>1, <3>4 DEF j
    <3>7. j \in G
      BY <3>2, <3>3, <3>5, <3>6
    <3> QED
      BY <1>2, <1>3, <3>2, <3>7
  <2>2. CASE n = count
    <3> DEFINE a == 1
               I == a .. n
    <3>1. a \in Int /\ (IF a > n THEN 0 ELSE n - a + 1) = n
      BY <1>3
    <3> HIDE DEF a
    <3>2. IsFiniteSet(I) /\ Cardinality(I) = n
      BY <1>3, <3>1, FS_Interval
    <3>3. IsFiniteSet(O)
      BY <1>1, OccupiedIsFinite
    <3>4. I \in SUBSET O
      BY <1>6 DEF a
    <3> HIDE DEF I
    <3>5. O = I
      BY <1>1, <2>2, <3>2, <3>3, <3>4, FS_Subset
    <3>6. n + 1 \notin I
      BY <1>3 DEF I, a
    <3> QED
      BY <3>5, <3>6
  <2> QED
    BY <1>1, <1>3, <2>1, <2>2
<1> QED
  BY <1>3, <1>5, <1>6, <1>7

\* Taking the run empties its places, and those only.
LEMMA DrainedPlaces ==
    ASSUME NEW m \in RingSizes, RingFits(user, ring, base, count, m), DeliverInOrder,
           NEW n, n = Run(base)
    PROVE  /\ IsRing(ring', m)
           /\ \A d \in Slots(m) :
                Place(ring', m, base, d) =
                  IF d \in 1 .. n THEN NULL ELSE Place(ring, m, base, d)
<1>1. user = "in"
  BY DEF DeliverInOrder
<1>2. /\ IsRing(ring, m) /\ base \in Int /\ m \in Int /\ m \in Nat \ {0} /\ count \in Nat
      /\ Size(ring) = m /\ DOMAIN ring = Slots(m)
      /\ ring \in [0 .. m - 1 -> Packets \cup {NULL}]
  BY SizesFit, RingSize, SeqModAssumption DEF RingFits, SeqNrs, Slots, IsRing
<1>3. n \in 0 .. count /\ n < m /\ n \in Int
  BY <1>1, <1>2, RunStops
<1>4. ring' = [i \in Slots(m) |->
        IF \E k \in 1 .. n : i = Residue(Wrap(base + k), m) THEN NULL ELSE ring[i]]
  BY <1>2 DEF DeliverInOrder, Residue
<1>5. IsRing(ring', m)
  BY <1>2, <1>4 DEF IsRing, Slots
<1>6. ASSUME NEW d \in Slots(m)
      PROVE  Place(ring', m, base, d) =
               IF d \in 1 .. n THEN NULL ELSE Place(ring, m, base, d)
  <2> DEFINE c == base + d
             i == Residue(c, m)
  <2>1. c \in Int /\ d \in Int /\ 0 <= d /\ d < m
    BY <1>2 DEF Slots
  <2> HIDE DEF c
  <2>2. i \in Slots(m)
    BY <1>2, <2>1, ResidueType DEF Slots
  <2>3. ASSUME NEW k \in 1 .. n
        PROVE  i = Residue(Wrap(base + k), m) <=> d = k
    <3> DEFINE x == base + k
    <3>1. x \in Int /\ k \in Int /\ d - k < m /\ k - d < m
      BY <1>2, <1>3, <2>1
    <3> HIDE DEF x
    <3>2. Residue(Wrap(x), m) = Residue(x, m)
      BY <3>1, SlotOfWrap
    <3> HIDE DEF i
    <3>3. Residue(base + d, m) = Residue(base + k, m) => d = k
      BY <1>2, <2>1, <3>1, PlacesDiffer
    <3> QED
      BY <3>2, <3>3 DEF x, i, c
  <2> HIDE DEF i
  <2>4. (\E k \in 1 .. n : i = Residue(Wrap(base + k), m)) <=> d \in 1 .. n
    BY <2>3
  <2>5. ring'[i] = IF d \in 1 .. n THEN NULL ELSE ring[i]
    BY <1>4, <2>2, <2>4
  <2> QED
    BY <2>5 DEF Place, i, c
<1> QED
  BY <1>5, <1>6

LEMMA DeliverInOrderFits ==
    ASSUME RingInv, DeliverInOrder
    PROVE  RingInv' /\ Map!Take
<1> DEFINE n == Run(base)
           k == n + 1
<1>1. PICK m \in RingSizes : RingFits(user, ring, base, count, m)
  BY DEF RingInv
<1> DEFINE O == Occupied(ring, m, base)
           T == Occupied(ring', m, base')
<1>2. /\ user = "in" /\ user' = "in" /\ base' = Wrap(base + k) /\ count' = count - n
  <2>1. base + n + 1 = base + k
    <3>1. base \in Int /\ count \in Nat /\ m \in Int
      BY <1>1, SizesFit, SpanFits, SeqModAssumption DEF RingFits, SeqNrs
    <3>2. user = "in"
      BY DEF DeliverInOrder
    <3>3. n \in 0 .. count
      BY <1>1, <3>2, RunStops
    <3> QED
      BY <3>1, <3>3
  <2> QED
    BY <2>1 DEF DeliverInOrder
<1>3. /\ IsRing(ring, m) /\ base \in SeqNrs /\ base \in Int /\ m \in Int /\ m \in Nat \ {0}
      /\ count \in Nat /\ count <= SPAN /\ O \subseteq 1 .. SPAN - 1 /\ O \subseteq Slots(m)
      /\ count = Cardinality(O)
  BY <1>1, <1>2, SizesFit, SeqModAssumption, SpanFits DEF RingFits, SeqNrs, Occupied
<1>4. n \in 0 .. count /\ n < m /\ 1 .. n \subseteq O /\ k \notin O
  BY <1>1, <1>2, RunStops
<1>5. /\ IsRing(ring', m)
      /\ \A d \in Slots(m) :
           Place(ring', m, base, d) =
             IF d \in 1 .. n THEN NULL ELSE Place(ring, m, base, d)
  BY <1>1, DrainedPlaces
<1> HIDE DEF n, O
<1>6. n \in Int /\ n \in Nat /\ k \in Int /\ k \in Nat /\ k = n + 1
  BY <1>3, <1>4
<1> HIDE DEF k
<1>7. ASSUME NEW e \in Slots(m)
      PROVE  Place(ring', m, base', e) =
               IF k + e < m THEN Place(ring, m, base, k + e) ELSE NULL
  <2>1. e \in Int /\ 0 <= e /\ e < m
    BY <1>3 DEF Slots
  <2>5. Place(ring', m, Wrap(base + k), e) = Place(ring', m, base, k + e)
    <3> HIDE DEF T
    <3>1. base \in Int /\ k \in Int /\ e \in Int
      BY <1>3, <1>6, <2>1
    <3> QED
      BY <3>1, PlaceShift
  <2>2. Place(ring', m, base', e) = Place(ring', m, base, k + e)
    BY <1>2, <2>5
  <2>3. CASE k + e < m
    <3> DEFINE d == k + e
    <3>1. d \in Slots(m) /\ d \notin 1 .. n
      BY <1>3, <1>4, <1>6, <2>1, <2>3 DEF Slots
    <3> HIDE DEF d
    <3>2. Place(ring', m, base, d) = Place(ring, m, base, d)
      BY <1>5, <3>1
    <3> QED
      BY <2>2, <2>3, <3>2 DEF d
  <2>4. CASE ~(k + e < m)
    <3> DEFINE d == k + e - m
    <3>1. d \in Int /\ d + m = k + e /\ d \in 0 .. n /\ d \in Slots(m)
      BY <1>3, <1>4, <1>6, <2>1, <2>4 DEF Slots
    <3> HIDE DEF d
    <3>2. Place(ring', m, base, d + m) = Place(ring', m, base, d)
      BY <1>3, <3>1, PlaceRound
    <3>3. d \notin 1 .. n => d = 0
      BY <1>6, <3>1
    <3>4. d = 0 => d \notin O
      BY <1>3, SpanFits
    <3>5. d \notin O => Place(ring, m, base, d) = NULL
      BY <3>1 DEF O, Occupied
    <3>6. Place(ring', m, base, d) = NULL
      BY <1>5, <3>1, <3>3, <3>4, <3>5
    <3> QED
      BY <2>2, <2>4, <3>1, <3>2, <3>6
  <2> QED
    BY <2>3, <2>4
<1> DEFINE D == O \ (1 .. n)
<1>16. \A d \in O : d \in 1 .. SPAN - 1 /\ d \in Slots(m) /\ d \in Int
  <2>1. O \subseteq 1 .. SPAN - 1 /\ O \subseteq Slots(m)
    BY <1>3
  <2>2. \A d \in 1 .. SPAN - 1 : d \in Int
    OBVIOUS
  <2> QED
    BY <2>1, <2>2
<1>8. \A e \in Int : e \in T <=> k + e \in D
  <2> TAKE e \in Int
  <2>1. ASSUME e \in T PROVE k + e \in D
    <3>1. e \in Slots(m) /\ Place(ring', m, base', e) # NULL
      BY <2>1 DEF Occupied
    <3> DEFINE d == k + e
    <3>2. d < m /\ Place(ring, m, base, d) # NULL
      BY <1>7, <3>1
    <3>3. d \in Slots(m) /\ d \notin 1 .. n
      BY <1>3, <1>4, <1>6, <3>1, <3>2 DEF Slots
    <3> HIDE DEF d
    <3>4. d \in O
      BY <3>2, <3>3 DEF O, Occupied
    <3> QED
      BY <3>3, <3>4 DEF d
  <2>2. ASSUME k + e \in D PROVE e \in T
    <3> DEFINE d == k + e
    <3>1. d \in O /\ d \notin 1 .. n
      BY <2>2
    <3>2. d \in 1 .. SPAN - 1 /\ d \in Slots(m) /\ d \in Int
      BY <1>16, <3>1
    <3>3. e \in Slots(m) /\ d < m
      BY <1>3, <1>6, <3>1, <3>2, SpanFits DEF Slots
    <3> HIDE DEF d
    <3>4. Place(ring, m, base, d) # NULL
      BY <3>1 DEF O, Occupied
    <3>5. Place(ring', m, base', e) # NULL
      BY <1>7, <3>3, <3>4 DEF d
    <3> QED
      BY <3>3, <3>5 DEF Occupied
  <2> QED
    BY <2>1, <2>2
<1>9. T \subseteq 1 .. SPAN - 1
  <2> SUFFICES ASSUME NEW e \in T PROVE e \in 1 .. SPAN - 1
    OBVIOUS
  <2>1. e \in Int /\ 0 <= e
    BY <1>3 DEF Occupied, Slots
  <2>2. k + e \in O
    BY <1>8, <2>1
  <2>3. e # 0
    BY <1>4, <1>6, <2>2
  <2> QED
    BY <1>3, <1>6, <2>1, <2>2, <2>3, SpanFits
<1>10. Cardinality(T) = count - n
  <2>1. IsFiniteSet(O)
    BY OccupiedIsFinite DEF O
  <2> DEFINE a == 1
             I == a .. n
  <2>2. a \in Int /\ (IF a > n THEN 0 ELSE n - a + 1) = n
    BY <1>6
  <2> HIDE DEF a
  <2>3. IsFiniteSet(I) /\ Cardinality(I) = n
    BY <1>6, <2>2, FS_Interval
  <2>4. D = O \ I /\ O \cap I = I
    BY <1>4 DEF a
  <2> HIDE DEF I
  <2>5. IsFiniteSet(O \ I) /\ Cardinality(O \ I) = Cardinality(O) - Cardinality(O \cap I)
    BY <2>1, FS_Difference
  <2>6. IsFiniteSet(D) /\ Cardinality(D) = count - n
    BY <1>3, <2>3, <2>4, <2>5
  <2>8. T \in SUBSET Int
    BY <1>9
  <2>7. D \in SUBSET Int /\ T \in SUBSET Int
    BY <1>16, <2>8
  <2> HIDE DEF D, T
  <2> QED
    BY <1>6, <1>8, <2>6, <2>7, ShiftedSet
<1>11. base' \in SeqNrs
  <2> DEFINE a == base + k
  <2>1. a \in Int
    BY <1>3, <1>6
  <2> HIDE DEF a
  <2>2. Wrap(a) \in SeqNrs
    BY <2>1, WrapType
  <2> QED
    BY <1>2, <2>2 DEF a
<1>12. RingFits(user', ring', base', count', m)
  <2>1. count' \in 0 .. SPAN
    BY <1>2, <1>3, <1>4, SpanFits
  <2> QED
    BY <1>2, <1>5, <1>9, <1>10, <1>11, <2>1 DEF RingFits
<1>13. /\ Held = HeldOf(user, ring, base, count)
       /\ Held' = HeldOf(user', ring', base', count')
  BY DEF Held, HeldOf, InWindow
<1>14. ASSUME NEW q \in SeqNrs, Held'[q] # NULL PROVE Held'[q] = Held[q]
  <2> DEFINE e == Wrap(q - base')
             d == Wrap(q - base)
  <2>1. /\ d \in 0 .. SEQ_MOD - 1
        /\ HeldOf(user, ring, base, count)[q] =
             IF d < Reach(user, count, m) THEN Place(ring, m, base, d) ELSE NULL
    BY <1>1, HeldPlace
  <2>2. /\ e \in 0 .. SEQ_MOD - 1
        /\ HeldOf(user', ring', base', count')[q] =
             IF e < Reach(user', count', m) THEN Place(ring', m, base', e) ELSE NULL
    BY <1>12, HeldPlace
  <2>3. Reach(user, count, m) = m /\ Reach(user', count', m) = m
    BY <1>2 DEF Reach
  <2>4. e < m /\ Held'[q] = Place(ring', m, base', e)
    BY <1>13, <1>14, <2>2, <2>3
  <2>5. e \in Slots(m) /\ e \in Int
    BY <1>3, <2>2, <2>4, SeqModAssumption DEF Slots
  <2>6. k + e < m /\ Held'[q] = Place(ring, m, base, k + e)
    BY <1>7, <1>14, <2>4, <2>5
  <2>7. m <= SEQ_MOD
    BY SizesFit
  <2>8. d = k + e
    <3>1. k + e < SEQ_MOD
      BY <1>3, <1>6, <2>5, <2>6, <2>7, SeqModAssumption
    <3> QED
      BY <1>2, <1>3, <1>6, <3>1, DistanceShift
  <2> HIDE DEF d, e
  <2> QED
    BY <1>13, <2>1, <2>3, <2>6, <2>8
<1>15. Map!Take
  BY <1>1, <1>2, <1>5, <1>14, OnlyTaken
<1> QED
  BY <1>1, <1>12, <1>15 DEF RingInv

-----------------------------------------------------------------------------
(* The theorems *)

LEMMA StepFits ==
    ASSUME RingInv, [RingNext]_ringVars
    PROVE  RingInv' /\ [Map!Put \/ Map!Take]_Held
<1>1. ASSUME NEW d \in 1 .. SPAN - 1, NEW v \in Packets, StoreIncoming(d, v)
      PROVE  RingInv' /\ [Map!Put \/ Map!Take]_Held
  BY <1>1, StoreIncomingFits
<1>2. CASE DeliverInOrder
  BY <1>2, DeliverInOrderFits
<1>3. ASSUME NEW v \in Packets, AppendOutgoing(v)
      PROVE  RingInv' /\ [Map!Put \/ Map!Take]_Held
  BY <1>3, AppendOutgoingFits
<1>4. ASSUME NEW d \in 1 .. SPAN - 1, AckSelective(d)
      PROVE  RingInv' /\ [Map!Put \/ Map!Take]_Held
  BY <1>4, AckSelectiveFits
<1>5. CASE AckFirst
  BY <1>5, AckFirstFits
<1>6. CASE UNCHANGED ringVars
  <2>1. user' = user /\ ring' = ring /\ base' = base /\ count' = count
    BY <1>6 DEF ringVars
  <2>2. RingInv'
    BY <2>1 DEF RingInv
  <2>3. Held' = Held
    BY <2>1 DEF Held, InWindow
  <2> QED
    BY <2>2, <2>3
<1> QED
  BY <1>1, <1>2, <1>3, <1>4, <1>5, <1>6 DEF RingNext

\* The invariant behind the three results below: every packet sits in the slot
\* that its distance from the window start names, and the window never holds
\* two packets of one slot, although nothing in the class prevents it.
THEOREM RingIsConsistent == RingSpec => []RingInv
<1>1. RingInit => RingInv
  BY InitFits
<1>2. RingInv /\ [RingNext]_ringVars => RingInv'
  BY StepFits
<1> QED
  BY <1>1, <1>2, PTL DEF RingSpec

\* grow, put and the drain loop make the ring a map from sequence numbers to
\* packets: growing loses and moves nothing, nothing is overwritten, and what
\* was taken does not come back under another number.
THEOREM RingIsAMap == RingSpec => RefinesMap
<1>1. RingInit => Map!Init
  <2> SUFFICES ASSUME RingInit PROVE Map!Init
    OBVIOUS
  <2> QED
    BY InitFits DEF Map!Init
<1>2. RingInv /\ [RingNext]_ringVars => [Map!Put \/ Map!Take]_Held
  BY StepFits
<1> QED
  BY <1>1, <1>2, RingIsConsistent, PTL DEF RingSpec, RefinesMap, Map!Spec

\* reorder_count is the number of packets in inbuf, the slot of ack_nr + 1 is
\* empty (asserted in send_ack and deliver_data), and the ring is never wider
\* than the sequence numbers.
THEOREM CountersAgree == RingSpec => []RingCounts
<1>1. RingInv => RingCounts
  <2> SUFFICES ASSUME RingInv PROVE RingCounts
    OBVIOUS
  <2>1. PICK m \in RingSizes : RingFits(user, ring, base, count, m)
    BY DEF RingInv
  <2>2. /\ IsRing(ring, m) /\ Size(ring) = m /\ DOMAIN ring = 0 .. m - 1 /\ m <= SEQ_MOD
        /\ m \in Nat \ {0} /\ m \in Int /\ base \in SeqNrs /\ base \in Int /\ count \in 0 .. SPAN
    BY <2>1, SizesFit, RingSize, SeqModAssumption DEF RingFits, SeqNrs
  <2>3. ASSUME user = "in"
        PROVE  /\ count = Cardinality({i \in DOMAIN ring : ring[i] # NULL})
               /\ get(ring, base) = NULL
    <3> DEFINE O == Occupied(ring, m, base)
               T == {i \in DOMAIN ring : ring[i] # NULL}
               f == [d \in O |-> Residue(base + d, m)]
               z == 0
    <3>1. count = Cardinality(O) /\ O \subseteq 1 .. SPAN - 1 /\ IsFiniteSet(O)
      BY <2>1, <2>3, OccupiedIsFinite DEF RingFits
    <3>2. ASSUME NEW d \in Slots(m)
          PROVE  Residue(base + d, m) \in 0 .. m - 1
      <4> DEFINE x == base + d
      <4>1. x \in Int
        BY <2>2 DEF Slots
      <4> HIDE DEF x
      <4>2. Residue(x, m) \in 0 .. m - 1
        BY <2>2, <4>1, ResidueType
      <4> QED
        BY <4>2 DEF x
    <3>3. f \in [O -> T]
      BY <2>2, <3>2 DEF Occupied, Place
    <3>4. ASSUME NEW d \in O, NEW e \in O, f[d] = f[e] PROVE d = e
      <4>1. d \in Int /\ e \in Int /\ d - e < m /\ e - d < m
        BY <2>2 DEF Occupied, Slots
      <4>2. Residue(base + d, m) = Residue(base + e, m)
        BY <3>4
      <4> HIDE DEF O, f
      <4> QED
        BY <2>2, <4>1, <4>2, PlacesDiffer
    <3>5. ASSUME NEW i \in T PROVE \E d \in O : f[d] = i
      <4> DEFINE x == i - base
                 d == Residue(x, m)
      <4>1. i \in 0 .. m - 1 /\ i \in Int /\ x \in Int /\ ring[i] # NULL
        BY <2>2
      <4>2. Residue(base + Residue(i - base, m), m) = Residue(i, m)
        BY <2>2, <4>1, ResidueBack
      <4>3. Residue(i, m) = i
        BY <2>2, <4>1, ResidueIdentity
      <4> HIDE DEF x
      <4>4. d \in Slots(m)
        BY <2>2, <4>1, ResidueType DEF Slots
      <4>5. Residue(base + d, m) = i
        BY <4>2, <4>3 DEF x
      <4> HIDE DEF d
      <4>6. d \in O
        BY <4>1, <4>4, <4>5 DEF Occupied, Place
      <4> QED
        BY <4>5, <4>6
    <3> HIDE DEF f, O, T
    <3>6. f \in Bijection(O, T)
      BY <3>3, <3>4, <3>5, Zenon DEF Bijection, Injection, Surjection, IsInjective
    <3>7. ExistsBijection(O, T)
      BY <3>6 DEF ExistsBijection
    <3>8. Cardinality(T) = Cardinality(O)
      BY <3>1, <3>7, FS_Bijection
    <3>9. get(ring, base) = NULL
      <4>1. z \in Int /\ base + z = base /\ z \in Slots(m) /\ z \notin 1 .. SPAN - 1 /\ Wrap(base) = base
        BY <2>2, WrapIdentity DEF Slots
      <4> HIDE DEF z
      <4>2. get(ring, Wrap(base + z)) = Place(ring, m, base, z)
        BY <2>2, <4>1, GetPlace
      <4>3. Place(ring, m, base, z) = NULL
        BY <3>1, <4>1 DEF O, Occupied
      <4> QED
        BY <4>1, <4>2, <4>3
    <3> QED
      BY <3>1, <3>8, <3>9 DEF T
  <2> QED
    BY <2>2, <2>3 DEF RingCounts
<1> QED
  BY <1>1, RingIsConsistent, PTL

\* The selective ACK that send_ack builds names exactly the packets received,
\* although the places it looks at may lie outside the ring and alias others.
THEOREM BitmapIsExact == RingSpec => []SackBitmapExact
<1>1. RingInv => SackBitmapExact
  <2> SUFFICES ASSUME RingInv, user = "in"
               PROVE  {i \in 0 .. Min({SACK_MAX, Size(ring)}) - 1 : get(ring, base + i + 1) # NULL}
                        = {i \in 0 .. SACK_MAX - 1 : i + 1 < SPAN /\ Held[Wrap(base + i + 1)] # NULL}
    BY DEF SackBitmapExact
  <2>1. PICK m \in RingSizes : RingFits(user, ring, base, count, m)
    BY DEF RingInv
  <2>2. /\ IsRing(ring, m) /\ Size(ring) = m /\ m <= SEQ_MOD
        /\ m \in Nat \ {0} /\ m \in Int /\ base \in SeqNrs /\ base \in Int
        /\ Occupied(ring, m, base) \subseteq 1 .. SPAN - 1
    BY <2>1, SizesFit, RingSize, SeqModAssumption DEF RingFits, SeqNrs
  <2>3. Min({SACK_MAX, m}) = IF SACK_MAX <= m THEN SACK_MAX ELSE m
    BY <2>2, MinOfTwo, RingAssumption
  <2>4. ASSUME NEW i \in 0 .. SACK_MAX - 1
        PROVE  /\ i < m => (get(ring, base + i + 1) # NULL
                              <=> i + 1 < SPAN /\ Held[Wrap(base + i + 1)] # NULL)
               /\ ~(i < m) /\ i + 1 < SPAN => Held[Wrap(base + i + 1)] = NULL
    <3> DEFINE d == i + 1
               q == Wrap(base + d)
               z == 0
    <3>1. d \in Int /\ d \in Nat \ {0} /\ base + i + 1 = base + d /\ i \in Int /\ i + 1 = d
      BY <2>2
    <3> HIDE DEF d
    <3>2. get(ring, base + d) = Place(ring, m, base, d)
      <4> DEFINE a == base + d
      <4>1. a \in Int
        BY <2>2, <3>1
      <4>2. get(ring, a) = ring[Residue(a, m)]
        BY <2>2 DEF get, Residue
      <4> QED
        BY <4>2 DEF Place
    <3>3. q \in SeqNrs
      <4> DEFINE a == base + d
      <4>1. a \in Int
        BY <2>2, <3>1
      <4> HIDE DEF a
      <4>2. Wrap(a) \in SeqNrs
        BY <4>1, WrapType
      <4> QED
        BY <4>2 DEF a
    <3>4. d < SPAN => Wrap(q - base) = d
      <4> SUFFICES ASSUME d < SPAN PROVE Wrap(q - base) = d
        OBVIOUS
      <4>1. d \in 0 .. SEQ_MOD - 1
        BY <3>1, SpanFits, SeqModAssumption
      <4> QED
        BY <2>2, <3>3, <4>1, DistanceNames
    <3>5. HeldOf(user, ring, base, count)[q] =
            IF Wrap(q - base) < Reach(user, count, m)
            THEN Place(ring, m, base, Wrap(q - base)) ELSE NULL
      <4> HIDE DEF q
      <4> QED
        BY <2>1, <3>3, HeldPlace
    <3>6. Held = HeldOf(user, ring, base, count) /\ Reach(user, count, m) = m
      BY DEF Held, HeldOf, InWindow, Reach
    <3>7. d < SPAN => Held[q] = IF d < m THEN Place(ring, m, base, d) ELSE NULL
      BY <3>4, <3>5, <3>6
    <3> HIDE DEF q
    <3>8. d < m /\ Place(ring, m, base, d) # NULL => d < SPAN
      <4> SUFFICES ASSUME d < m, Place(ring, m, base, d) # NULL PROVE d < SPAN
        OBVIOUS
      <4>1. d \in Slots(m)
        BY <2>2, <3>1 DEF Slots
      <4>2. d \in 1 .. SPAN - 1
        BY <2>2, <4>1 DEF Occupied
      <4> QED
        BY <4>2, <3>1, SpanFits
    <3>9. Place(ring, m, base, m) = NULL
      <4>1. z \in Int /\ z + m = m /\ z \in Slots(m) /\ z \notin 1 .. SPAN - 1
        BY <2>2 DEF Slots
      <4> HIDE DEF z
      <4>2. Place(ring, m, base, z + m) = Place(ring, m, base, z)
        BY <2>2, <4>1, PlaceRound
      <4>3. Place(ring, m, base, z) = NULL
        BY <2>2, <4>1 DEF Occupied
      <4> QED
        BY <4>1, <4>2, <4>3
    <3>10. i < m <=> d < m \/ d = m
      BY <2>2, <3>1
    <3>11. d < m \/ d = m => (Place(ring, m, base, d) # NULL <=> d < SPAN /\ Held[q] # NULL)
      <4>1. CASE d = m
        <5>1. ~(d < m)
          BY <4>1, <2>2
        <5> QED
          BY <3>7, <3>9, <4>1, <5>1
      <4>2. CASE d < m
        BY <3>7, <3>8, <4>2
      <4> QED
        BY <4>1, <4>2
    <3>12. ~(d < m \/ d = m) /\ d < SPAN => Held[q] = NULL
      BY <3>7
    <3> QED
      BY <3>1, <3>2, <3>10, <3>11, <3>12 DEF q
  <2>5. SACK_MAX \in Nat
    BY RingAssumption
  <2>6. \A i \in Int : i \in 0 .. Min({SACK_MAX, m}) - 1 <=> i \in 0 .. SACK_MAX - 1 /\ i < m
    BY <2>2, <2>3, <2>5
  <2>7. \A i : i \in 0 .. Min({SACK_MAX, m}) - 1 <=> i \in 0 .. SACK_MAX - 1 /\ i < m
    BY <2>2, <2>3, <2>5, <2>6
  <2> QED
    BY <2>2, <2>4, <2>7
<1> QED
  BY <1>1, RingIsConsistent, PTL
=============================================================================
