---------------------------- MODULE MtuDiscovery ----------------------------
(***************************************************************************)
(* Path MTU discovery: the binary search of class MtuDiscovery and the     *)
(* send window as far as it drives the search (which packet is sent as a   *)
(* probe, whose ACK or loss ends it).  The path carries PATH bytes in one  *)
(* piece: a longer datagram is fragmented and arrives, unless it is sent   *)
(* with UTP_UDP_DONTFRAG, when it is dropped.                              *)
(*                                                                         *)
(* Time and the window are choices: how many packets flush_packets may     *)
(* send, which datagrams are lost, when the search starts anew.  The       *)
(* search is stored as in the code, with 0 for "no probe".                 *)
(***************************************************************************)
EXTENDS SeqNr, FiniteSets, FiniteSetsExt, Sequences, SequencesExt

CONSTANTS MIN_MTU,     \* 576
          UDP_MTU,     \* what get_udp_mtu yields
          DONE_GAP,    \* 16: an interval this small ends the search
          HEADER,      \* bytes of the uTP header
          OVERHEAD,    \* bytes of the IP and UDP headers
          PATH,        \* the path MTU, without OVERHEAD
          NextHopMtu,  \* whether routers report the MTU of the next hop
          OUT_MAX,     \* OUTGOING_BUFFER_MAX_SIZE
          DUP_ACKS,    \* DUPLICATE_ACKS_BEFORE_RESEND
          WriteSizes   \* bytes of one write

\* OutgoingPacket; transmissions is told apart from 0 only
OutPackets == [payload : Nat, sent : BOOLEAN, need_resend : BOOLEAN]

ASSUME MtuAssumption ==
  /\ MIN_MTU \in Nat /\ UDP_MTU \in Nat /\ DONE_GAP \in Nat /\ PATH \in Nat
  /\ HEADER \in Nat /\ OVERHEAD \in Nat
  /\ HEADER < MIN_MTU /\ MIN_MTU <= UDP_MTU
  /\ OUT_MAX \in Nat /\ OUT_MAX > 1 /\ 2 * OUT_MAX < SEQ_MOD
  /\ DUP_ACKS \in Nat \ {0} /\ NextHopMtu \in BOOLEAN
  /\ WriteSizes \subseteq Nat \ {0}
  /\ NULL \notin OutPackets

VARIABLES mtu,      \* floor, ceiling, last, probe_seq, probe_size; due when the
                    \*   time mtu_discover_time to search again has come
          snd,      \* seq_nr, cwp, outbuf, fast_resend, dup (duplicate_ack_)
          arrived,  \* packets of the window that the peer has received
          too_big   \* a router has dropped a probe and may report it

mtuVars == <<mtu, snd, arrived, too_big>>

-----------------------------------------------------------------------------
(* class MtuDiscovery *)

ClearProbe(m) == [m EXCEPT !.probe_seq = 0, !.probe_size = 0]

Reset(m) == [m EXCEPT !.ceiling = UDP_MTU, !.floor = MIN_MTU, !.due = FALSE]

\* mutant: the probe survives a change of the interval
SearchUpdateKeepProbe(m) ==
  IF m.floor <= m.ceiling /\ m.ceiling - m.floor <= DONE_GAP
  THEN [m EXCEPT !.last = m.floor, !.ceiling = m.floor, !.due = FALSE]
  ELSE [m EXCEPT !.last = (m.floor + m.ceiling) \div 2]

\* The subtraction is unsigned: an interval turned inside out is not small
SearchUpdate(m) ==
  ClearProbe(IF m.floor <= m.ceiling /\ m.ceiling - m.floor <= DONE_GAP
             THEN [m EXCEPT !.last = m.floor, !.ceiling = m.floor, !.due = FALSE]
             ELSE [m EXCEPT !.last = (m.floor + m.ceiling) \div 2])

IsProbe(m, seq) == m.probe_seq # 0 /\ seq = m.probe_seq

HandleProbeAck(m, seq) ==
  IF IsProbe(m, seq) THEN SearchUpdate([m EXCEPT !.floor = m.probe_size]) ELSE m

\* The probe was too long: handle_probe_loss, and the like in a timeout
ProbeTooLong(m) == SearchUpdate([m EXCEPT !.ceiling = m.probe_size - 1])

HandleProbeTimeout(m, seq, cwp) ==
  IF cwp = 1 /\ IsProbe(m, seq) THEN ProbeTooLong(m) ELSE ClearProbe(m)

HandleIcmpFragmentation(m, next_hop) ==
  LET u == SearchUpdate([m EXCEPT !.ceiling = Min({next_hop, m.ceiling})])
  IN  [u EXCEPT !.last = u.ceiling]

HandleIcmpUnknown(m) ==
  SearchUpdate([m EXCEPT !.ceiling = (m.floor + m.ceiling) \div 2])

\* A next hop below MIN_MTU is not believed
OnIcmpFragmentation(m, next_hop) ==
  IF next_hop >= MIN_MTU THEN HandleIcmpFragmentation(m, next_hop)
  ELSE HandleIcmpUnknown(m)

\* get_packet_size; last is never 0 once initialize has run
PacketSize(m) == m.last - HEADER

-----------------------------------------------------------------------------
(* The send window.  A call is a function of the whole state f and of its  *)
(* choice: f.through is the set of packets that are not lost by chance if  *)
(* this call sends them.                                                   *)

At(s, i) == Wrap(s.seq_nr - s.cwp + i)
Window(s) == {At(s, i) : i \in 0 .. s.cwp - 1}
Sent(s, q) == s.outbuf[q] # NULL /\ s.outbuf[q].sent

State(through) ==
  [mtu |-> mtu, snd |-> snd, arrived |-> arrived, too_big |-> too_big,
   through |-> through]

Commit(f) == /\ mtu' = f.mtu
             /\ snd' = f.snd
             /\ arrived' = f.arrived \cap Window(f.snd)
             /\ too_big' = f.too_big

\* mutant: the size of a probe is not compared with the ceiling
MayProbeAnyLength(m, s, p) ==
  /\ m.floor < m.ceiling /\ HEADER + p.payload > m.floor
  /\ m.probe_seq = 0 /\ s.seq_nr # 1 /\ ~p.sent

\* mutant: it is not compared with the floor
MayProbeShort(m, s, p) ==
  /\ m.floor < m.ceiling /\ HEADER + p.payload <= m.ceiling
  /\ m.probe_seq = 0 /\ s.seq_nr # 1 /\ ~p.sent

MayProbe(m, s, p) ==
  /\ m.floor < m.ceiling
  /\ HEADER + p.payload > m.floor /\ HEADER + p.payload <= m.ceiling
  /\ m.probe_seq = 0 /\ s.seq_nr # 1 /\ ~p.sent

\* send_packet: a probe is recorded under the number of the last packet of the
\* window, whichever packet it is
SendPacket(f, q) ==
  LET p     == f.snd.outbuf[q]
      len   == HEADER + p.payload
      m     == IF f.mtu.due THEN Reset(f.mtu) ELSE f.mtu
      probe == MayProbe(m, f.snd, p)
      big   == probe /\ len > PATH
  IN  [f EXCEPT
        !.mtu = IF probe THEN [m EXCEPT !.probe_seq = Wrap(f.snd.seq_nr - 1),
                                        !.probe_size = len] ELSE m,
        !.snd.outbuf[q] = [payload |-> p.payload, sent |-> TRUE, need_resend |-> FALSE],
        !.arrived = IF q \in f.through /\ ~big THEN @ \cup {q} ELSE @,
        !.too_big = @ \/ big]

\* The first k positions of a loop that are in Q
Foremost(Q, k) == {i \in Q : Cardinality({j \in Q : j < i}) < k}

\* One round of a loop that sends some of the packets it passes, NULL for none
SendOne(f, q) == IF q = NULL THEN f ELSE SendPacket(f, q)

\* flush_packets when the window has room for this many packets
FlushPackets(f, room) ==
  LET s == f.snd
      Waits(q) == s.outbuf[q] # NULL /\ (~s.outbuf[q].sent \/ s.outbuf[q].need_resend)
      Goes(q) == \/ q # Wrap(s.seq_nr - 1) \/ s.cwp = 1
                 \/ s.outbuf[q].payload >= PacketSize(f.mtu)
      go == Foremost({i \in 1 .. s.cwp : Waits(At(s, i - 1)) /\ Goes(At(s, i - 1))}, room)
  IN  FoldLeft(SendOne, f, [i \in 1 .. s.cwp |-> IF i \in go THEN At(s, i - 1) ELSE NULL])

\* write_outgoing_packet without its flush
Queue(s, n, packet_size) ==
  LET last   == Wrap(s.seq_nr - 1)
      p      == s.outbuf[last]
      open   == s.cwp > 0 /\ p # NULL /\ ~p.sent /\ p.payload < packet_size
      added  == IF open THEN Min({n, packet_size - p.payload}) ELSE 0
      filled == IF open
                THEN [s EXCEPT !.outbuf[last] = [p EXCEPT !.payload = @ + added]] ELSE s
  IN  IF open /\ added = n THEN filled
      ELSE [filled EXCEPT
             !.outbuf[s.seq_nr] = [payload |-> n - added, sent |-> FALSE,
                                   need_resend |-> FALSE],
             !.seq_nr = Wrap(@ + 1), !.cwp = @ + 1]

-----------------------------------------------------------------------------
(* An acknowledgement *)

\* duplicate_ack_ saturates; the byte of the code wraps after 256 duplicates
CountDup(n) == Min({n, DUP_ACKS + 1})

\* The duplicate-ACK branch of process_incoming: the third one tells of a lost
\* probe if the probe is the packet that is missing
DuplicateAck(f) ==
  LET s == f.snd
      dup == CountDup(s.dup + 1)
      m == f.mtu
  IN  [f EXCEPT
        !.snd.dup = dup,
        !.mtu = IF dup # DUP_ACKS \/ m.probe_seq = 0 THEN m
                ELSE IF At(s, 0) = m.probe_seq THEN ProbeTooLong(m)
                ELSE ClearProbe(m)]

Acked(s, n) == {At(s, i) : i \in 0 .. n - 1}

\* advance_send_window: n packets leave, and those behind them that a SACK has
\* acknowledged before
AdvanceWindow(s, n) ==
  LET out  == [q \in SeqNrs |-> IF q \in Acked(s, n) THEN NULL ELSE s.outbuf[q]]
      left == Max({0} \cup {j \in 1 .. s.cwp - n : out[Wrap(s.seq_nr - j)] # NULL})
      next == At(s, n)
  IN  [s EXCEPT !.outbuf = out, !.cwp = left,
                !.fast_resend = IF WrappingLess(@, next) THEN next ELSE @]

\* process_acks and advance_send_window for an ACK of n packets
AckCumulative(f, n) ==
  LET s     == f.snd
      t     == AdvanceWindow(s, n)
      probe == \E q \in Acked(s, n) : Sent(s, q) /\ IsProbe(f.mtu, q)
      m     == IF probe THEN HandleProbeAck(f.mtu, f.mtu.probe_seq) ELSE f.mtu
      g     == [f EXCEPT !.mtu = m, !.snd = t]
      last  == Wrap(t.seq_nr - 1)
  IN  IF t.cwp = 1 /\ ~t.outbuf[last].sent THEN SendPacket(g, last) ELSE g

\* One entry of the list of lost packets.  An empty slot is passed over
ResendLost(f, q) ==
  IF q = NULL \/ f.snd.outbuf[q] = NULL THEN f
  ELSE [SendPacket(f, q) EXCEPT !.snd.fast_resend = Wrap(q + 1)]

\* selective_ack: next is the packet the peer waits for, sack what it has beyond.
\* Up to four of the lost packets go, next (0) first
SelectiveAck(f, next, sack) ==
  LET s       == f.snd
      counted == {i \in 1 .. s.cwp - 1 : At(s, i) \in sack}
      Above(i) == Cardinality({j \in counted : j > i})
      Near(q) == Wrap(q - s.fast_resend) <= OUT_MAX
      out     == [q \in SeqNrs |->
                    IF \E i \in counted : q = At(s, i) /\ Sent(s, q) THEN NULL
                    ELSE s.outbuf[q]]
      lost    == {i \in (1 .. s.cwp - 1) \ counted :
                    Sent(s, At(s, i)) /\ Near(At(s, i)) /\ Above(i) >= DUP_ACKS}
      first   == IF Near(next) /\ Cardinality(counted) >= DUP_ACKS /\ out[next] # NULL
                 THEN {0} ELSE {}
      go      == Foremost(first \cup lost, 4)
      resends == [i \in 1 .. s.cwp |-> IF i - 1 \notin go THEN NULL
                                       ELSE IF i = 1 THEN next ELSE At(s, i - 1)]
  IN  IF s.cwp = 0 THEN f
      ELSE [FoldLeft(ResendLost, [f EXCEPT !.snd.outbuf = out], resends)
              EXCEPT !.snd.dup = CountDup(Cardinality(counted))]

\* process_incoming for an ACK that tells what the peer has received; state is
\* whether it comes in a STATE packet, which may carry a SACK, or with data
ProcessAck(f, state) ==
  LET s    == f.snd
      n    == Max({k \in 0 .. s.cwp : \A i \in 0 .. k - 1 : At(s, i) \in f.arrived})
      sack == f.arrived \ {At(s, i) : i \in 0 .. n - 1}
      d    == IF s.cwp = 0 THEN f
              ELSE IF n = 0 /\ state THEN DuplicateAck(f)
              ELSE [f EXCEPT !.snd.dup = 0]
      a    == AckCumulative(d, n)
  IN  IF state /\ sack # {} THEN SelectiveAck(a, At(s, n), sack) ELSE a

\* The RTO branch of check_timeouts, after its flush
RetransmitTimeout(f) ==
  LET s      == f.snd
      last   == Wrap(s.seq_nr - 1)
      ignore == s.cwp = 1 /\ IsProbe(f.mtu, last)
      marked == [q \in SeqNrs |-> IF Sent(s, q)
                                  THEN [s.outbuf[q] EXCEPT !.need_resend = TRUE]
                                  ELSE s.outbuf[q]]
      dup    == IF ignore THEN s.dup ELSE 0
      g      == [f EXCEPT !.mtu = HandleProbeTimeout(f.mtu, last, s.cwp),
                          !.snd = [s EXCEPT !.outbuf = marked, !.dup = dup]]
  IN  IF s.cwp = 0 THEN g ELSE SendPacket(g, At(s, 0))

-----------------------------------------------------------------------------
(* The specification *)

\* initialize, and a connection whose SYN has been acknowledged
MtuInit == /\ mtu = [floor |-> MIN_MTU, ceiling |-> UDP_MTU, last |-> UDP_MTU,
                     probe_seq |-> 0, probe_size |-> 0, due |-> FALSE]
           /\ \E seq \in SeqNrs :
                snd = [seq_nr |-> seq, cwp |-> 0, outbuf |-> [q \in SeqNrs |-> NULL],
                       fast_resend |-> seq, dup |-> 0]
           /\ arrived = {}
           /\ too_big = FALSE

\* One round of the loop of writev
Write(through) ==
  /\ snd.cwp < OUT_MAX - 1
  /\ \E k \in WriteSizes, room \in 0 .. OUT_MAX - 1 :
       LET f == State(through)
           n == Min({k, PacketSize(mtu)})
       IN  Commit(FlushPackets([f EXCEPT !.snd = Queue(@, n, PacketSize(mtu))], room))

AckArrives(through) ==
  \E state \in BOOLEAN : Commit(ProcessAck(State(through), state))

CheckTimeouts(through) ==
  \E room \in 0 .. OUT_MAX - 1, rto \in BOOLEAN :
    LET f == FlushPackets(State(through), room)
    IN  Commit(IF rto THEN RetransmitTimeout(f) ELSE f)

\* process_icmp_fragmentation: the router reports the MTU of the next hop, in
\* bytes of the IP packet, or 0
IcmpFragmentation ==
  /\ too_big
  /\ mtu' = OnIcmpFragmentation(mtu, IF NextHopMtu THEN PATH + OVERHEAD ELSE 0)
  /\ UNCHANGED <<snd, arrived, too_big>>

\* 30 minutes have passed since the last search was started or done
DiscoverTimePasses == /\ mtu' = [mtu EXCEPT !.due = TRUE]
                      /\ UNCHANGED <<snd, arrived, too_big>>

MtuNext == \/ \E through \in SUBSET ((Window(snd) \cup {snd.seq_nr}) \ arrived) :
                \/ Write(through)
                \/ AckArrives(through)
                \/ CheckTimeouts(through)
           \/ IcmpFragmentation
           \/ DiscoverTimePasses

MtuSpec == MtuInit /\ [][MtuNext]_mtuVars
-----------------------------------------------------------------------------
(* Properties *)

\* Type invariant: sizes stay within what get_udp_mtu allows.
MtuTypeOK ==
  /\ mtu \in [floor : MIN_MTU .. UDP_MTU, ceiling : MIN_MTU .. UDP_MTU,
              last : MIN_MTU .. UDP_MTU, probe_seq : SeqNrs, probe_size : 0 .. UDP_MTU,
              due : BOOLEAN]
  /\ snd.seq_nr \in SeqNrs /\ snd.cwp \in 0 .. OUT_MAX
  /\ snd.fast_resend \in SeqNrs /\ snd.dup \in 0 .. DUP_ACKS + 1
  /\ \A q \in SeqNrs \ Window(snd) : snd.outbuf[q] = NULL
  /\ arrived \subseteq Window(snd) /\ too_big \in BOOLEAN

\* The assertion of reset and search_update, floor <= ceiling, and the packet
\* size in use lies between them, in whatever order ACKs, duplicate ACKs,
\* timeouts, ICMP messages and new searches come.
SearchInterval == MtuTypeOK /\ mtu.floor <= mtu.last /\ mtu.last <= mtu.ceiling

\* The assertions of send_packet, for as long as the probe is on its way: its
\* answer, whichever it is, makes the interval smaller.
ProbeInRange ==
  mtu.probe_seq # 0 => mtu.floor < mtu.probe_size /\ mtu.probe_size <= mtu.ceiling

\* Until it starts again the search only ever narrows its interval.
IntervalNarrows ==
  [][~mtu.due => mtu'.floor >= mtu.floor /\ mtu'.ceiling <= mtu.ceiling]_mtuVars
=============================================================================
