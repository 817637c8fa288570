------------------------------- MODULE Receive -------------------------------
(***************************************************************************)
(* The receive half of UtpSocket: recv_ and deliver_data.  Operators take  *)
(* a record r with (at least) the fields of ReceiveState and return it     *)
(* updated, so that the stand-alone specification ReceiveWindow and the    *)
(* whole socket (module Socket) share them.                                *)
(*                                                                         *)
(* inbuf is the map that the ring of SequenceBuffer implements: sequence   *)
(* number -> payload, NULL for an empty slot.  delivered is the history of *)
(* payloads in the order in which they left the window for on_read (an     *)
(* empty payload, that of a FIN, is recorded although the callback is      *)
(* skipped for it).                                                        *)
(***************************************************************************)
EXTENDS SeqNr, Sequences

CONSTANT REORDER_MAX   \* REORDER_BUFFER_MAX_SIZE

ASSUME ReorderMaxAssumption ==
  REORDER_MAX \in Nat /\ 0 < REORDER_MAX /\ 2 * REORDER_MAX <= SEQ_MOD

\* seqnr of process_incoming: how far seq is past the next expected packet
Ahead(r, seq) == Wrap(seq - r.ack_nr - 1)

\* Too far ahead to buffer, or a packet from the past
OutOfWindow(d) == d >= REORDER_MAX
FromThePast(d) == d >= SEQ_MOD - REORDER_MAX

NoteFin(r, type, seq) ==
  IF type = "FIN" /\ ~r.got_fin
  THEN [r EXCEPT !.got_fin = TRUE, !.eof_pkt = seq]
  ELSE r

\* mutant: data is passed up although the application has shut down reading
AcceptInOrderDeaf(r, data) ==
  [r EXCEPT !.delivered = Append(@, data), !.ack_nr = Wrap(@ + 1)]

\* The in-order packet goes straight to the application
AcceptInOrder(r, data) ==
  [r EXCEPT !.delivered = IF r.read_shutdown THEN @ ELSE Append(@, data),
            !.ack_nr = Wrap(@ + 1)]

\* mutant: EOF is announced as soon as the FIN has been seen
AtEofOnceSeen(r, n) == r.got_fin /\ ~r.got_fin_reached

\* EOF test of the drain loop once n buffered packets have been taken
AtEof(r, n) ==
  r.got_fin /\ ~r.got_fin_reached /\ r.eof_pkt = Wrap(r.ack_nr + n)

\* The drain loop entered in state r leaves after taking exactly n packets
DrainStops(r, n) ==
  /\ n \in 0 .. r.reorder_count
  /\ \A i \in 0 .. n - 1 : /\ ~AtEof(r, i)
                           /\ r.inbuf[Wrap(r.ack_nr + i + 1)] # NULL
  /\ \/ AtEof(r, n)
     \/ n = r.reorder_count
     \/ r.inbuf[Wrap(r.ack_nr + n + 1)] = NULL

\* mutant: the loop reads the slots (get) and leaves the packets in them
DrainKeepsSlots(r, n) ==
  [r EXCEPT !.delivered = IF r.read_shutdown THEN @
              ELSE @ \o [i \in 1 .. n |-> r.inbuf[Wrap(r.ack_nr + i)]],
            !.ack_nr = Wrap(@ + n),
            !.got_fin_reached = @ \/ AtEof(r, n),
            !.reorder_count = IF AtEof(r, n) THEN 0 ELSE @ - n]

\* mutant: ack_nr is advanced without truncating it to 16 bits
DrainNoWrap(r, n) == [DrainKeepsSlots(r, n) EXCEPT !.ack_nr = r.ack_nr + n]

\* The effect of a drain loop that takes n packets
Drain(r, n) ==
  [r EXCEPT !.delivered = IF r.read_shutdown THEN @
              ELSE @ \o [i \in 1 .. n |-> r.inbuf[Wrap(r.ack_nr + i)]],
            !.inbuf = [q \in SeqNrs |->
              IF Ahead(r, q) < n THEN NULL ELSE r.inbuf[q]],
            !.ack_nr = Wrap(@ + n),
            !.got_fin_reached = @ \/ AtEof(r, n),
            !.reorder_count = IF AtEof(r, n) THEN 0 ELSE @ - n]

\* A FIN already seen lies before the packet that is d ahead
PastEof(r, d) == r.got_fin /\ d > Wrap(r.eof_pkt - r.ack_nr - 1)

Store(r, seq, data) ==
  [r EXCEPT !.inbuf[seq] = data, !.reorder_count = @ + 1]

\* mutant: a buffered packet that arrives again is stored and counted again
RejectedNoDupCheck(r, seq) == PastEof(r, Ahead(r, seq))

\* The out-of-order packet is rejected: past the FIN, or a duplicate
Rejected(r, seq) == PastEof(r, Ahead(r, seq)) \/ r.inbuf[seq] # NULL

\* deliver_data for a packet inside the window; n packets leave the buffer
DeliverData(r, type, seq, data, n) ==
  LET r1 == NoteFin(r, type, seq)
  IN  IF Ahead(r1, seq) = 0 THEN Drain(AcceptInOrder(r1, data), n)
      ELSE IF Rejected(r1, seq) THEN r1
      ELSE Store(r1, seq, data)

\* The values of n that the drain loop of DeliverData can end with
DrainCounts(r, type, seq, data) ==
  LET r1 == NoteFin(r, type, seq)
  IN  IF Ahead(r1, seq) = 0
      THEN {n \in 0 .. r1.reorder_count : DrainStops(AcceptInOrder(r1, data), n)}
      ELSE {0}
=============================================================================
