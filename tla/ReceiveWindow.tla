---------------------------- MODULE ReceiveWindow ----------------------------
(***************************************************************************)
(* The receive window on its own, against a peer that numbers its packets  *)
(* 1, 2, 3, ... and a network that may delay, reorder, duplicate and drop  *)
(* them.  Packet k travels with sequence number Wrap(ISN + k), where ISN   *)
(* is the sequence number of the SYN, and carries payload k.               *)
(*                                                                         *)
(* acked is a history variable: the absolute number of the packet that     *)
(* ack_nr stands for.  What is to be shown is that the receiver, which     *)
(* only ever sees wrapped numbers, is never deceived by them.              *)
(***************************************************************************)
EXTENDS Receive, FiniteSets

CONSTANTS OUT_MAX,   \* how far the peer sends past what was acknowledged
          ISN,       \* sequence number of the peer's SYN
          MaxSent    \* bound on the number of packets the peer sends

ASSUME WindowAssumption ==
  /\ OUT_MAX \in Nat /\ OUT_MAX > 0 /\ OUT_MAX < SEQ_MOD
  /\ ISN \in SeqNrs
  /\ MaxSent \in Nat
  /\ NULL \notin Nat

VARIABLES recv,   \* recv_ of the socket
          sent,   \* packets the peer has sent: 1 .. sent
          fin,    \* the number of the peer's FIN, 0 while there is none
          acked   \* history: absolute number of recv.ack_nr

vars == <<recv, sent, fin, acked>>

\* recv_ right after accept_syn (and after the SYN-ACK, on the other side)
RecvInit ==
  [ack_nr |-> ISN, reorder_count |-> 0, eof_pkt |-> 0, got_fin |-> FALSE,
   got_fin_reached |-> FALSE, read_shutdown |-> FALSE,
   inbuf |-> [q \in SeqNrs |-> NULL], delivered |-> <<>>]

Init == /\ recv = RecvInit
        /\ sent = 0
        /\ fin = 0
        /\ acked = 0

PeerMaySend == fin = 0 /\ sent < MaxSent /\ sent < acked + OUT_MAX

\* writev at the peer
PeerSendsData == /\ PeerMaySend
                 /\ sent' = sent + 1
                 /\ UNCHANGED <<recv, fin, acked>>

\* send_fin at the peer: nothing is written after it
PeerSendsFin == /\ PeerMaySend
                /\ sent' = sent + 1
                /\ fin' = sent + 1
                /\ UNCHANGED <<recv, acked>>

\* Packet lifetime: nothing older than this is still in the network, and a
\* sequence number therefore denotes one packet
StillAround(k) == k > acked + REORDER_MAX - SEQ_MOD

TypeOf(k) == IF k = fin THEN "FIN" ELSE "DATA"

\* process_incoming for data or FIN packet k, as far as recv_ is concerned
Arrives(k) ==
  LET seq == Wrap(ISN + k)
      d   == Ahead(recv, seq)
  IN  /\ StillAround(k)
      /\ ~OutOfWindow(d)
      /\ \E n \in DrainCounts(recv, TypeOf(k), seq, k) :
           /\ recv' = DeliverData(recv, TypeOf(k), seq, k, n)
           /\ acked' = acked + (IF d = 0 THEN 1 + n ELSE 0)
      /\ UNCHANGED <<sent, fin>>

\* utp_shutdown(SHUT_RD) or utp_close: payloads are acknowledged, not delivered
ShutdownRead == /\ recv' = [recv EXCEPT !.read_shutdown = TRUE]
                /\ UNCHANGED <<sent, fin, acked>>

Next == \/ PeerSendsData
        \/ PeerSendsFin
        \/ \E k \in 1 .. sent : Arrives(k)
        \/ ShutdownRead

Spec == Init /\ [][Next]_vars

-----------------------------------------------------------------------------
Filled == {q \in SeqNrs : recv.inbuf[q] # NULL}

RecvType ==
  [ack_nr : SeqNrs, reorder_count : Nat, eof_pkt : SeqNrs,
   got_fin : BOOLEAN, got_fin_reached : BOOLEAN, read_shutdown : BOOLEAN,
   inbuf : [SeqNrs -> Nat \cup {NULL}], delivered : Seq(Nat)]

\* Type invariant of recv_ and of the history variables.
TypeOK ==
  /\ recv \in RecvType
  /\ sent \in Nat /\ fin \in Nat /\ acked \in Nat

\* The application reads the peer's stream from its start, in order, with
\* nothing missing and nothing twice (on_read in deliver_data), although the
\* receiver only compares wrapped sequence numbers.
InOrderOnce ==
  /\ \A i \in 1 .. Len(recv.delivered) : recv.delivered[i] = i
  /\ ~recv.read_shutdown => Len(recv.delivered) = acked

\* UTP_STATE_EOF is only announced when every packet of the peer, up to the
\* FIN, has been taken out of the window (eof_pkt == ack_nr in deliver_data).
EofIsLast == recv.got_fin_reached => fin > 0 /\ acked = fin

\* check_invariant and the assertion in send_ack: the slot of the next
\* expected packet is empty, every buffered payload sits where its absolute
\* number says, inside the reorder window, and reorder_count, which decides
\* whether the drain loop looks at the buffer at all, counts them exactly.
BufferConsistent ==
  /\ recv.inbuf[Wrap(recv.ack_nr + 1)] = NULL
  /\ \A q \in Filled : /\ Ahead(recv, q) < REORDER_MAX
                       /\ recv.inbuf[q] = acked + 1 + Ahead(recv, q)
  /\ recv.reorder_count = Cardinality(Filled)

\* How far the peer is ahead; its FIN is its last packet.
SentBounds == /\ acked <= sent /\ sent <= acked + OUT_MAX
              /\ fin \in {0, sent}

\* A noted FIN is the peer's FIN.
FinNoted == recv.got_fin => fin > 0 /\ recv.eof_pkt = Wrap(ISN + fin)

\* The inductive invariant: the receiver's wrapped view of the stream agrees
\* with the absolute one.
WindowInv ==
  /\ TypeOK
  /\ SentBounds
  /\ FinNoted
  /\ recv.ack_nr = Wrap(ISN + acked)
  /\ \A q \in Filled : recv.inbuf[q] <= sent
  /\ InOrderOnce
  /\ EofIsLast
  /\ BufferConsistent
=============================================================================
