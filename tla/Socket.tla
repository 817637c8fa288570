------------------------------- MODULE Socket -------------------------------
(***************************************************************************)
(* One UtpSocket: the connection state machine, process_incoming,          *)
(* check_timeouts and the operations of the C API, built from the send and *)
(* receive halves.  Every operator maps the socket record to the record    *)
(* after the whole call; datagrams handed to sendto are in the field out.  *)
(***************************************************************************)
EXTENDS Send, Receive

CONSTANTS RETRANSMIT_LIMIT,      \* timeouts in a row before giving up
          SYN_RETRANSMIT_LIMIT   \* the same while the SYN is not answered

ASSUME SocketAssumption == RETRANSMIT_LIMIT \in Nat /\ SYN_RETRANSMIT_LIMIT \in Nat

\* The fields of conn_, recv_, send_, timing_ and cc_ that control depends on,
\* and histories of what the application gave (wrote) and got (delivered, err)
NewSocket ==
  [st |-> "UNINITIALIZED", closed |-> FALSE, err |-> "NONE",
   ack_nr |-> 0, reorder_count |-> 0, eof_pkt |-> 0, got_fin |-> FALSE,
   got_fin_reached |-> FALSE, read_shutdown |-> FALSE, last_rcv_win |-> 0,
   inbuf |-> [q \in SeqNrs |-> NULL], delivered |-> <<>>, unread |-> 0,
   seq_nr |-> 1, cwp |-> 0, fin_sent |-> FALSE, fin_sent_acked |-> FALSE,
   close_requested |-> FALSE, max_window_user |-> 255 * PACKET_SIZE,
   flush_scan_start |-> 1, outbuf |-> [q \in SeqNrs |-> NULL], wrote |-> 0,
   fast_timeout |-> FALSE, fast_resend_seq_nr |-> 1, cur_window |-> 0,
   max_window |-> PACKET_SIZE, retransmit_count |-> 0, rto_armed |-> FALSE,
   ack_pending |-> FALSE, out |-> {}]

Established(s) == s.st \in {"CONNECTED", "CONNECTED_FULL"}
TimeoutActive(s) == s.st \in {"SYN_SENT", "SYN_RECV"} \/ Established(s)

ScheduleAck(s) == [s EXCEPT !.ack_pending = TRUE]

\* send_ack with a given ack_nr: a STATE packet; while packets are buffered
\* out of order it carries their bitmap (14 + 16 of 32 bits are looked at)
SendAckFor(s, ack) ==
  LET sack == IF s.reorder_count # 0 /\ ~s.got_fin_reached
              THEN {b \in 0 .. SACK_BITS - 3 : s.inbuf[Wrap(ack + b + 2)] # NULL}
              ELSE NULL
  IN  [s EXCEPT !.last_rcv_win = get_rcv_window(s),
                !.out = @ \cup {[type |-> "STATE", seq |-> s.seq_nr, ack |-> ack,
                                 wnd |-> get_rcv_window(s), sack |-> sack,
                                 data |-> <<>>]},
                !.ack_pending = FALSE]

SendAck(s) == SendAckFor(s, s.ack_nr)

\* A keep-alive is an ACK for the packet before the last one received
SendKeepAlive(s) == SendAckFor(s, Wrap(s.ack_nr - 1))

-----------------------------------------------------------------------------
(* Opening a connection *)

Connect(isn) ==
  LET s == Enqueue([NewSocket EXCEPT !.st = "SYN_SENT", !.rto_armed = TRUE,
                                     !.seq_nr = isn], "SYN", <<>>)
  IN  Transmit(s, isn)

\* create_socket, initialize, accept_syn and the SYN-ACK, for a SYN numbered seq
AcceptSyn(isn, seq) ==
  SendAck([NewSocket EXCEPT !.st = "SYN_RECV", !.ack_nr = seq, !.seq_nr = isn,
                            !.fast_resend_seq_nr = isn])

-----------------------------------------------------------------------------
(* The application's calls *)

\* utp_writev of the next n positions of the stream
Write(s, n) ==
  LET w == WriteV(s, [i \in 1 .. n |-> s.wrote + i])
  IN  IF s.st # "CONNECTED" \/ s.fin_sent THEN s
      ELSE [w.s EXCEPT !.wrote = @ + n - Len(w.data)]

\* utp_close, dispatched on the connection state
Close(s) ==
  LET t == [s EXCEPT !.closed = TRUE]
      c == [t EXCEPT !.read_shutdown = TRUE, !.close_requested = TRUE]
  IN  IF ~Established(s) THEN [t EXCEPT !.st = "DESTROY"]
      ELSE IF ~s.fin_sent THEN SendFin(c)
      ELSE IF s.fin_sent_acked THEN [c EXCEPT !.st = "DESTROY"]
      ELSE c

\* utp_shutdown with how in {"RD", "WR", "RDWR"}
Shutdown(s, how) ==
  LET r == IF how # "WR" THEN [s EXCEPT !.read_shutdown = TRUE] ELSE s
  IN  IF Established(s) /\ how # "RD" /\ ~s.fin_sent THEN SendFin(r) ELSE r

\* The application takes everything it buffered and calls utp_read_drained
ReadDrained(s) ==
  LET r == [s EXCEPT !.unread = 0]
  IN  IF get_rcv_window(r) <= r.last_rcv_win THEN r
      ELSE IF r.last_rcv_win = 0 THEN SendAck(r)
      ELSE ScheduleAck(r)

-----------------------------------------------------------------------------
(* Errors reported by the network *)

\* mutant: a RST after utp_close leaves the socket in RESET
OnResetForgetsClose(s) == [s EXCEPT !.st = "RESET", !.err = "ECONNRESET"]

\* on_reset; the error code is chosen after the state has been overwritten
OnReset(s) ==
  [s EXCEPT !.st = IF s.close_requested THEN "DESTROY" ELSE "RESET",
            !.err = "ECONNRESET"]

OnIcmpError(s) ==
  [s EXCEPT !.st = IF s.close_requested THEN "DESTROY" ELSE "RESET",
            !.err = IF s.st = "SYN_SENT" THEN "ECONNREFUSED" ELSE "ECONNRESET"]

-----------------------------------------------------------------------------
(* process_incoming *)

\* ack_nr is ahead of everything sent, or older than the allowed window
InvalidAck(s, p) ==
  /\ p.type # "SYN" \/ s.st # "SYN_RECV"
  /\ \/ WrappingLess(s.seq_nr - 1, p.ack)
     \/ WrappingLess(p.ack, s.seq_nr - 1 - (s.cwp + DUP_ACKS))

\* process_acks: when bytes are acknowledged the controller picks a window
CongestionControl(s, p, acks, window) ==
  LET cumulative == {q \in {Wrap(WindowStart(s) + i) : i \in 0 .. acks - 1} :
                       s.outbuf[q] # NULL /\ s.outbuf[q].sent}
  IN  IF Bytes(s, cumulative \cup SackedSlots(s, p.ack, p.sack)) >= 1
      THEN [s EXCEPT !.max_window = window] ELSE s

\* mutant: any ACK after the FIN was queued counts as its acknowledgement
AdvanceStateAnyAck(s, p, acks, n) ==
  LET t == IF p.type = "DATA" /\ s.st = "SYN_RECV"
           THEN [s EXCEPT !.st = "CONNECTED"] ELSE s
  IN  IF p.type = "STATE" /\ t.st = "SYN_SENT"
      THEN LET c == [t EXCEPT !.st = "CONNECTED"]
           IN  IF n = 0 THEN c ELSE Write(c, n)
      ELSE IF t.fin_sent
      THEN [t EXCEPT !.fin_sent_acked = TRUE,
                     !.st = IF t.close_requested THEN "DESTROY" ELSE @]
      ELSE t

\* The state changes of advance_send_window.  The application may write from
\* the on_connect callback (n positions, 0 for no call), while the SYN is
\* still in the window
AdvanceState(s, p, acks, n) ==
  LET t == IF p.type = "DATA" /\ s.st = "SYN_RECV"
           THEN [s EXCEPT !.st = "CONNECTED"] ELSE s
  IN  IF p.type = "STATE" /\ t.st = "SYN_SENT"
      THEN LET c == [t EXCEPT !.st = "CONNECTED"]
           IN  IF n = 0 THEN c ELSE Write(c, n)
      ELSE IF t.fin_sent /\ t.cwp = acks
      THEN [t EXCEPT !.fin_sent_acked = TRUE,
                     !.st = IF t.close_requested THEN "DESTROY" ELSE @]
      ELSE t

RaiseFastResend(s, ack) ==
  IF WrappingLess(s.fast_resend_seq_nr, Wrap(ack + 1))
  THEN [s EXCEPT !.fast_resend_seq_nr = Wrap(ack + 1)] ELSE s

AdvanceSendWindow(s, p, acks, n) ==
  LET u == AdvanceState([s EXCEPT !.max_window_user = p.wnd], p, acks, n)
      a == AckCumulative(RaiseFastResend(u, p.ack), acks)
  IN  FastTimeout(SendLoneLast(SkipAcked(a)))

\* mutant: the socket becomes writable only when nothing is in flight
BecomeWritableIdle(s) ==
  IF s.st = "CONNECTED_FULL" /\ s.cwp = 0 /\ ~IsFull(s, 2 * PACKET_SIZE)
  THEN [s EXCEPT !.st = "CONNECTED"] ELSE s

\* UTP_STATE_WRITABLE is announced once the window has room
BecomeWritable(s) ==
  IF s.st = "CONNECTED_FULL" /\ ~IsFull(s, PACKET_SIZE)
  THEN [s EXCEPT !.st = "CONNECTED"] ELSE s

\* deliver_data: at the end of the stream the ACK is sent at once and the
\* retransmission timer is started; the application keeps what it reads
\* (unread) when hold is set
Deliver(s, p, hold) ==
  LET n == CHOOSE k \in DrainCounts(s, p.type, p.seq, p.data) : TRUE
      r == DeliverData(s, p.type, p.seq, p.data, n)
      got == MapThenSumSet(LAMBDA i : Len(r.delivered[i]),
                           Len(s.delivered) + 1 .. Len(r.delivered))
      u == IF hold THEN [r EXCEPT !.unread = @ + got] ELSE r
      e == IF u.got_fin_reached /\ ~s.got_fin_reached
           THEN SendAck([u EXCEPT !.rto_armed = TRUE]) ELSE u
  IN  IF u.ack_nr # s.ack_nr \/ u.reorder_count # s.reorder_count
      THEN ScheduleAck(e) ELSE e

\* process_incoming for a packet that is not a RST.  c holds the choices of
\* the environment: the congestion window, whether it may be halved, what the
\* application writes from on_connect and whether it buffers what it reads
ProcessIncoming(s, p, c) ==
  LET s0   == IF s.st = "SYN_SENT" THEN [s EXCEPT !.ack_nr = Wrap(p.seq - 1)] ELSE s
      d    == Ahead(s0, p.seq)
      acks == AckCount(s0, p.ack)
      s1   == CongestionControl(s0, p, acks, c.window)
      s2   == AdvanceSendWindow(s1, p, acks, c.write)
      s3   == IF p.sack = NULL THEN s2 ELSE SelectiveAck(s2, p.ack, p.sack, c.decay)
      s4   == BecomeWritable(s3)
  IN  IF InvalidAck(s, p) THEN s
      ELSE IF OutOfWindow(d)
      THEN IF FromThePast(d) /\ p.type # "STATE" THEN ScheduleAck(s0) ELSE s0
      ELSE IF p.type = "STATE" \/ ~Established(s4) THEN s4
      ELSE Deliver(s4, p, c.hold)

-----------------------------------------------------------------------------
(* check_timeouts *)

GivesUp(s) == \/ s.retransmit_count >= RETRANSMIT_LIMIT
              \/ s.st = "SYN_SENT" /\ s.retransmit_count >= SYN_RETRANSMIT_LIMIT

\* The RTO has expired
RtoExpired(s, ignore_loss) ==
  IF s.st = "SYN_RECV" THEN [s EXCEPT !.st = "DESTROY", !.err = "ETIMEDOUT"]
  ELSE IF GivesUp(s)
  THEN [s EXCEPT !.st = IF s.close_requested THEN "DESTROY" ELSE "RESET",
                 !.err = "ETIMEDOUT"]
  ELSE RetransmitTimeout(s, ignore_loss)

\* What the clock says: t.rto and t.zero for an expired retransmission and
\* zero-window timer, t.idle for nothing sent during KEEPALIVE_INTERVAL (and so
\* nothing by this call); t.probe when the packet lost is an MTU probe
CheckTimeouts(s, t) ==
  LET f == IF s.st # "DESTROY" THEN FlushPackets(s) ELSE s
      z == IF t.zero /\ f.max_window_user = 0
           THEN [f EXCEPT !.max_window_user = PACKET_SIZE] ELSE f
      r == IF t.rto /\ z.rto_armed THEN RtoExpired(z, t.probe /\ z.cwp = 1) ELSE z
      w == BecomeWritable(r)
  IN  IF ~TimeoutActive(s) THEN f
      ELSE IF ~TimeoutActive(r) THEN r
      ELSE IF t.idle /\ w.out = {} /\ Established(w) /\ ~w.fin_sent
      THEN SendKeepAlive(w)
      ELSE w
=============================================================================
