-------------------------------- MODULE Send --------------------------------
(***************************************************************************)
(* The send half of UtpSocket: outbuf, the flush cursor, acknowledgement,  *)
(* selective acknowledgement and retransmission.  Operators take the       *)
(* socket record s (module Socket lists its fields) and return it updated. *)
(*                                                                         *)
(* outbuf maps a sequence number to its OutgoingPacket, NULL for an empty  *)
(* slot.  Of transmissions only "never sent" is told apart (sent); data is *)
(* the payload, a sequence of stream positions.  s.out collects the        *)
(* datagrams the current call hands to sendto.  Timestamps, RTT and the    *)
(* LEDBAT arithmetic are abstracted: max_window is what a caller chooses.  *)
(***************************************************************************)
EXTENDS SeqNr, Sequences, SequencesExt, FiniteSets, FiniteSetsExt

CONSTANTS OUT_MAX,      \* OUTGOING_BUFFER_MAX_SIZE
          PACKET_SIZE,  \* payload of a full packet, in stream positions
          SNDBUF,       \* opt_sndbuf
          RCVBUF,       \* opt_rcvbuf
          DUP_ACKS,     \* DUPLICATE_ACKS_BEFORE_RESEND, ACK_NR_ALLOWED_WINDOW
          MIN_WINDOW,   \* MIN_WINDOW_SIZE
          SACK_BITS     \* bits in the SACK extension

\* OutgoingPacket; transmissions is told apart from 0 only
OutPackets == [type : {"SYN", "DATA", "FIN"}, data : Seq(Nat), wnd : Nat,
               sent : BOOLEAN, need_resend : BOOLEAN]

ASSUME SendAssumption ==
  /\ OUT_MAX \in Nat /\ OUT_MAX > 1 /\ 2 * (OUT_MAX + DUP_ACKS) < SEQ_MOD
  /\ PACKET_SIZE \in Nat \ {0} /\ DUP_ACKS \in Nat \ {0}
  /\ MIN_WINDOW \in Nat \ {0}
  /\ SNDBUF \in Nat /\ RCVBUF \in Nat /\ SACK_BITS \in Nat
  /\ NULL \notin OutPackets /\ NULL \notin Seq(Nat)

MAX_FAST_RESENDS == 4   \* of one SACK

OutPacket(type, data, wnd) ==
  [type |-> type, data |-> data, wnd |-> wnd, sent |-> FALSE, need_resend |-> FALSE]

Unsent(p) == p # NULL /\ ~p.sent
InFlight(p) == p # NULL /\ p.sent /\ ~p.need_resend

\* seq_nr - cur_window_packets, and the sequence numbers of the send window
WindowStart(s) == Wrap(s.seq_nr - s.cwp)
Window(s) == {Wrap(s.seq_nr - j) : j \in 1 .. s.cwp}

\* Payload bytes of the packets in Q
Bytes(s, Q) == MapThenSumSet(LAMBDA q : Len(s.outbuf[q].data), Q)

get_rcv_window(s) == IF RCVBUF > s.unread THEN RCVBUF - s.unread ELSE 0

-----------------------------------------------------------------------------
(* Transmission *)

\* mutant: a packet marked for retransmission is not counted again
TransmitUncounted(s, q) ==
  LET p == s.outbuf[q]
  IN  [s EXCEPT !.cur_window = @ + (IF p.sent THEN 0 ELSE Len(p.data)),
                !.outbuf[q] = [p EXCEPT !.sent = TRUE, !.need_resend = FALSE],
                !.out = @ \cup {[type |-> p.type, seq |-> q, ack |-> s.ack_nr,
                                 wnd |-> p.wnd, sack |-> NULL, data |-> p.data]},
                !.ack_pending = FALSE]

\* send_packet and send_data: the datagram also carries the current ack_nr,
\* so the deferred ACK is dropped from the list
Transmit(s, q) ==
  LET p == s.outbuf[q]
  IN  [s EXCEPT !.cur_window = @ + (IF InFlight(p) THEN 0 ELSE Len(p.data)),
                !.outbuf[q] = [p EXCEPT !.sent = TRUE, !.need_resend = FALSE],
                !.out = @ \cup {[type |-> p.type, seq |-> q, ack |-> s.ack_nr,
                                 wnd |-> p.wnd, sack |-> NULL, data |-> p.data]},
                !.ack_pending = FALSE]

IsFull(s, bytes) ==
  \/ s.cwp >= OUT_MAX - 1
  \/ s.cur_window + bytes > Min({s.max_window, SNDBUF, s.max_window_user})

\* Where flush_packets starts to scan: the cursor, or the window start when
\* the cursor has fallen out of the window
FlushBegin(s) ==
  IF Wrap(s.flush_scan_start - WindowStart(s)) > s.cwp
  THEN WindowStart(s) ELSE s.flush_scan_start

\* One round of the loop of flush_packets, for sequence number q
FlushStep(f, q) ==
  LET s == f.s
      p == s.outbuf[q]
      Advance(t) == IF f.in_prefix THEN [t EXCEPT !.flush_scan_start = Wrap(q + 1)]
                    ELSE t
  IN  IF f.full THEN f
      ELSE IF p = NULL \/ InFlight(p) THEN [f EXCEPT !.s = Advance(s)]
      ELSE IF IsFull(s, PACKET_SIZE) THEN [f EXCEPT !.full = TRUE]
      ELSE IF q # Wrap(s.seq_nr - 1) \/ s.cwp = 1 \/ Len(p.data) >= PACKET_SIZE
           THEN [f EXCEPT !.s = Advance(Transmit(s, q))]
      ELSE [f EXCEPT !.in_prefix = FALSE]

FlushPackets(s) ==
  LET begin == FlushBegin(s)
      scan  == [i \in 1 .. Wrap(s.seq_nr - begin) |-> Wrap(begin + i - 1)]
  IN  FoldLeft(FlushStep, [s |-> s, in_prefix |-> TRUE, full |-> FALSE], scan).s

-----------------------------------------------------------------------------
(* Queueing *)

\* A new packet at the end of the window
Enqueue(s, type, data) ==
  [s EXCEPT !.outbuf[s.seq_nr] = OutPacket(type, data, get_rcv_window(s)),
            !.last_rcv_win = get_rcv_window(s),
            !.seq_nr = Wrap(@ + 1),
            !.cwp = @ + 1]

\* mutant: data is also added to a packet that was sent already
CanAppendSent(s) ==
  /\ s.cwp > 0
  /\ s.outbuf[Wrap(s.seq_nr - 1)] # NULL
  /\ Len(s.outbuf[Wrap(s.seq_nr - 1)].data) < PACKET_SIZE

\* The last packet of the window still takes data: not sent and not full
CanAppend(s) ==
  /\ s.cwp > 0
  /\ Unsent(s.outbuf[Wrap(s.seq_nr - 1)])
  /\ Len(s.outbuf[Wrap(s.seq_nr - 1)].data) < PACKET_SIZE

\* Fill the last packet with a prefix of data
AppendToLast(s, data) ==
  LET last == Wrap(s.seq_nr - 1)
      p    == s.outbuf[last]
  IN  [s EXCEPT !.outbuf[last] = [p EXCEPT !.data = @ \o data, !.wnd = get_rcv_window(s)],
                !.last_rcv_win = get_rcv_window(s)]

\* write_outgoing_packet: at most one packet's worth of data
WriteOutgoing(s0, type, data) ==
  LET s     == [s0 EXCEPT !.rto_armed = @ \/ s0.cwp = 0]
      room  == IF data # <<>> /\ CanAppend(s)
               THEN PACKET_SIZE - Len(s.outbuf[Wrap(s.seq_nr - 1)].data) ELSE 0
      added == Min({room, Len(data)})
      s1    == IF added > 0 THEN AppendToLast(s, SubSeq(data, 1, added)) ELSE s
      rest  == SubSeq(data, added + 1, Len(data))
  IN  FlushPackets(IF rest = <<>> /\ added > 0 THEN s1 ELSE Enqueue(s1, type, rest))

SendFin(s) == WriteOutgoing([s EXCEPT !.fin_sent = TRUE], "FIN", <<>>)

\* One round of the loop of writev: the next packet's worth of data, unless
\* the window is full
WriteChunk(w, i) ==
  LET n == Min({Len(w.data), PACKET_SIZE})
  IN  IF w.blocked THEN w
      ELSE IF IsFull(w.s, n) THEN [w EXCEPT !.blocked = TRUE]
      ELSE [w EXCEPT !.s = WriteOutgoing(w.s, "DATA", SubSeq(w.data, 1, n)),
                     !.data = SubSeq(w.data, n + 1, Len(w.data))]

\* writev on a writable socket; an empty write queues an empty packet.  The
\* result holds the socket and the data that was not accepted
WriteV(s, data) ==
  LET rounds == Max({1, (Len(data) + PACKET_SIZE - 1) \div PACKET_SIZE})
      w == FoldLeft(WriteChunk, [s |-> s, data |-> data, blocked |-> FALSE],
                    [i \in 1 .. rounds |-> i])
  IN  IF w.blocked /\ IsFull(w.s, PACKET_SIZE)
      THEN [w EXCEPT !.s.st = "CONNECTED_FULL"] ELSE w

-----------------------------------------------------------------------------
(* Acknowledgement *)

\* ack_packet for every packet of Q that was sent
AckPackets(s, Q) ==
  LET A == {q \in Q : s.outbuf[q] # NULL /\ s.outbuf[q].sent}
  IN  [s EXCEPT !.outbuf = [q \in SeqNrs |-> IF q \in A THEN NULL ELSE @[q]],
                !.cur_window = @ - Bytes(s, {q \in A : InFlight(s.outbuf[q])}),
                !.retransmit_count = IF A = {} THEN @ ELSE 0,
                !.rto_armed = @ \/ A # {}]

\* mutant: the ACK is taken for the next packet expected, not the last received
AckCountOneMore(s, ack) ==
  LET n == Wrap(ack - (s.seq_nr - 1 - s.cwp))
  IN  IF n > s.cwp THEN 0 ELSE Min({n + 1, s.cwp})

\* acks of process_incoming: how many packets of the window ack covers
AckCount(s, ack) ==
  LET n == Wrap(ack - (s.seq_nr - 1 - s.cwp)) IN IF n > s.cwp THEN 0 ELSE n

\* The cumulative ACK loop: it stops in front of a packet that was never sent
AckCumulative(s, acks) ==
  LET At(i) == Wrap(WindowStart(s) + i)
      n == Max({k \in 0 .. acks : \A i \in 0 .. k - 1 : ~Unsent(s.outbuf[At(i)])})
  IN  [AckPackets(s, {At(i) : i \in 0 .. n - 1}) EXCEPT !.cwp = @ - n]

\* mutant: the window start stays on a packet that was acknowledged by SACK
SkipAckedNot(s) == s

\* The window start moves past packets acknowledged by SACK
SkipAcked(s) ==
  [s EXCEPT !.cwp = Max({0} \cup {j \in 1 .. s.cwp : s.outbuf[Wrap(s.seq_nr - j)] # NULL})]

\* A last packet that waited for more data goes out when nothing else is left
SendLoneLast(s) ==
  IF s.cwp = 1 /\ Unsent(s.outbuf[Wrap(s.seq_nr - 1)])
  THEN Transmit(s, Wrap(s.seq_nr - 1)) ELSE s

\* After a timeout every ACK triggers the next retransmission, until the
\* window start is no longer the packet expected next
FastTimeout(s) ==
  LET head == WindowStart(s)
  IN  IF ~s.fast_timeout THEN s
      ELSE IF head # s.fast_resend_seq_nr THEN [s EXCEPT !.fast_timeout = FALSE]
      ELSE IF s.outbuf[head] # NULL /\ s.outbuf[head].sent
           THEN Transmit([s EXCEPT !.fast_resend_seq_nr = Wrap(@ + 1)], head)
      ELSE s

\* v lies in the window, behind its first packet
SackInWindow(s, v) == Wrap(s.seq_nr - v - 1) < s.cwp - 1

\* Bytes that ACK (the packets in Q) and SACK acknowledge together
SackedSlots(s, ack, sack) ==
  IF sack = NULL \/ s.cwp = 0 THEN {}
  ELSE {v \in {Wrap(ack + 2 + b) : b \in sack} :
          SackInWindow(s, v) /\ s.outbuf[v] # NULL /\ s.outbuf[v].sent}

NearFastResend(s, v) == Wrap(v - s.fast_resend_seq_nr) <= OUT_MAX

\* One entry of the list of lost packets, lowest first: ack + 1 twice (0 and 1),
\* then the packets behind it.  An empty slot is passed over
ResendLost(f, i) ==
  LET v == Wrap(f.ack + (IF i = 0 THEN 1 ELSE i))
  IN  IF i \notin f.lost \/ f.left = 0 \/ f.s.outbuf[v] = NULL THEN f
      ELSE [f EXCEPT !.s = [Transmit(f.s, v) EXCEPT !.fast_resend_seq_nr = Wrap(v + 1)],
                     !.left = @ - 1]

\* selective_ack: acknowledge the packets of the bitmap; a hole with at least
\* DUP_ACKS received packets above it is lost, and up to four of the lost ones
\* are sent again, lowest first; the congestion window is then halved if
\* the last time was long enough ago (decay)
SelectiveAck(s, ack, sack, decay) ==
  LET At(b)     == Wrap(ack + 2 + b)
      counted   == {b \in sack : SackInWindow(s, At(b))}
      Above(b)  == Cardinality({c \in counted : c > b})
      lost      == {b \in -1 .. SACK_BITS - 1 :
                      /\ b \notin sack /\ SackInWindow(s, At(b))
                      /\ s.outbuf[At(b)] # NULL /\ s.outbuf[At(b)].sent
                      /\ NearFastResend(s, At(b)) /\ Above(b) >= DUP_ACKS}
      next      == IF NearFastResend(s, Wrap(ack + 1)) /\ Above(-2) >= DUP_ACKS
                   THEN {0} ELSE {}
      end       == FoldLeft(ResendLost,
                            [s |-> AckPackets(s, {At(b) : b \in counted}), ack |-> ack,
                             lost |-> next \cup {b + 2 : b \in lost},
                             left |-> MAX_FAST_RESENDS],
                            [i \in 1 .. SACK_BITS + 2 |-> i - 1])
  IN  IF s.cwp = 0 THEN s
      ELSE IF end.left < MAX_FAST_RESENDS /\ decay
           THEN [end.s EXCEPT !.max_window = Max({MIN_WINDOW, @ \div 2})]
      ELSE end.s

-----------------------------------------------------------------------------
(* Retransmission timeout *)

\* mutant: the cursor stays where it was although packets before it wait
MarkLostKeepCursor(s) ==
  LET lost == {q \in Window(s) : InFlight(s.outbuf[q])}
  IN  [s EXCEPT !.outbuf = [q \in SeqNrs |->
                  IF q \in lost THEN [@[q] EXCEPT !.need_resend = TRUE] ELSE @[q]],
                !.cur_window = @ - Bytes(s, lost)]

\* Every packet in flight is marked and leaves the flight; the flush cursor
\* returns to the window start
MarkLost(s) ==
  LET lost == {q \in Window(s) : InFlight(s.outbuf[q])}
  IN  [s EXCEPT !.outbuf = [q \in SeqNrs |->
                  IF q \in lost THEN [@[q] EXCEPT !.need_resend = TRUE] ELSE @[q]],
                !.cur_window = @ - Bytes(s, lost),
                !.flush_scan_start = WindowStart(s)]

\* on_rto_timeout of the congestion controller
ShrinkWindow(s) ==
  [s EXCEPT !.max_window =
     IF s.cwp = 0 /\ @ > PACKET_SIZE THEN Max({(@ * 2) \div 3, PACKET_SIZE})
     ELSE PACKET_SIZE]

\* The RTO branch of check_timeouts once the connection is not given up; a lost
\* MTU probe (ignore_loss) does not touch the congestion window
RetransmitTimeout(s, ignore_loss) ==
  LET m == MarkLost(IF ignore_loss THEN s ELSE ShrinkWindow(s))
  IN  IF s.cwp = 0 THEN m
      ELSE Transmit([m EXCEPT !.retransmit_count = @ + 1, !.fast_timeout = TRUE],
                    WindowStart(m))
=============================================================================
