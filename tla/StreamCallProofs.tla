-------------------------- MODULE StreamCallProofs ---------------------------
(***************************************************************************)
(* The two byte streams of a connection, for every size of the sequence    *)
(* space, of the windows and of the packets.  What the sockets and the     *)
(* datagrams on their way say of each stream (which packet a sequence      *)
(* number stands for, which positions it carries, what its receiver has)   *)
(* is stated by StreamInv, over the cut of each stream into packets.  Here *)
(* are the steps that bring nothing from the peer (the calls of the        *)
(* application, the timers, ICMP errors and RSTs), the SYN, and what an    *)
(* acknowledgement means.                                                  *)
(***************************************************************************)
EXTENDS UtpConnectionProofs

-----------------------------------------------------------------------------
(* The two streams: what a packet, a datagram and a buffer stand for *)

\* The hypothesis of the theorems on the streams.  A datagram may stay in the
\* network for ever, so no sequence number may come round again: a SYN, a FIN
\* and one packet per position fit in the sequence space, the reorder window too.
ShortConnection == \A n \in Nodes : MaxWrite[n] + 2 + REORDER_MAX < SEQ_MOD

\* The number of the k-th packet of node n, counted from 0, and the first packet
\* that is delivered (the SYN of the initiator takes a number).
No(n, k) == Wrap(ISN[n] + k)
First(n) == IF n = "A" THEN 1 ELSE 0

\* What is known of the stream of one node: count packets have been queued, packet
\* k ends before position cut[k + 1]; its receiver (once it knows the first number,
\* open) has the packets in has, and all those before next.
Streams == [count : Nat, cut : [Nat -> Nat], open : BOOLEAN, next : Nat,
            has : SUBSET Nat]
Piece(g, k) == [i \in 1 .. g.cut[k + 1] - g.cut[k] |-> g.cut[k] + i]

StreamOK(n, g) ==
  /\ g \in Streams
  /\ g.cut[0] = 0 /\ g.cut[First(n)] = 0
  /\ \A j, k \in 0 .. g.count : j <= k => g.cut[j] <= g.cut[k]
  /\ g.next <= g.count /\ g.has \subseteq 0 .. g.count - 1
  /\ 0 .. g.next - 1 \subseteq g.has /\ g.next \notin g.has
  /\ ~g.open => g.next = 0 /\ g.has = {}

\* p, a packet of outbuf or a datagram, is packet k of node n.
IsPacket(n, g, fin, k, p) ==
  /\ p.data = Piece(g, k)
  /\ p.type = "FIN" <=> fin /\ k = g.count - 1
  /\ p.type = "SYN" <=> n = "A" /\ k = 0

\* What a datagram sent by n (socket s) says of the stream of n.
DataClaim(n, s, g, p) ==
  p.type \in {"SYN", "DATA", "FIN"} =>
    \E k \in 0 .. g.count - 1 :
      /\ p.seq = No(n, k) /\ IsPacket(n, g, s.fin_sent, k, p)
      /\ ~Unsent(s.outbuf[No(n, k)])

\* What a datagram sent to n says of the stream of n: the receiver has what it
\* acknowledges (a keep-alive acknowledges one packet less).
AckClaim(n, g, p) ==
  p.type \in {"DATA", "FIN", "STATE"} =>
    /\ \E a \in -1 .. g.next : p.ack = No(n, a - 1)
    /\ p.sack # NULL => \A b \in p.sack : \E k \in g.has : Wrap(p.ack + 2 + b) = No(n, k)

\* The sending half of socket s of node n, which has accepted wrote positions.
\* A slot of outbuf that is empty is that of a packet the receiver has.
Sending(n, s, g, wrote) ==
  /\ g.cut[g.count] = wrote
  /\ g.count <= wrote + First(n) + (IF s.fin_sent THEN 1 ELSE 0)
  /\ s.fin_sent => g.count > First(n)
  /\ s.fin_sent_acked => s.fin_sent /\ g.next = g.count
  /\ \A k \in g.has \cup 0 .. First(n) - 1 : ~Unsent(s.outbuf[No(n, k)])
  /\ \A p \in s.out : DataClaim(n, s, g, p)
  /\ Registered(s) =>
       /\ s.seq_nr = No(n, g.count) /\ s.cwp <= g.count /\ g.count >= First(n)
       /\ \A k \in 0 .. g.count - 1 :
            LET p == s.outbuf[No(n, k)]
            IN  IF p = NULL THEN k \in g.has ELSE IsPacket(n, g, s.fin_sent, k, p)

\* The receiving half of socket t for the stream g of node n, which has ended
\* when fin holds.
Behind(g) == {k \in g.has : k >= g.next}
Receiving(n, t, g, fin) ==
  /\ t.delivered = [i \in 1 .. Len(t.delivered) |-> Piece(g, First(n) + i - 1)]
  /\ Len(t.delivered) > 0 => First(n) + Len(t.delivered) <= g.next
  /\ t.got_fin_reached <=> fin /\ g.next = g.count
  /\ Registered(t) /\ g.open =>
       /\ t.ack_nr = No(n, g.next - 1)
       /\ \A q \in SeqNrs : t.inbuf[q] # NULL =>
            \E k \in g.has : q = No(n, k) /\ t.inbuf[q] = Piece(g, k)
       /\ \A k \in Behind(g) : t.inbuf[No(n, k)] # NULL
       /\ Cardinality(Behind(g)) <= t.reorder_count
       /\ ~t.read_shutdown => First(n) + Len(t.delivered) = g.next
       /\ t.got_fin => fin /\ t.eof_pkt = No(n, g.count - 1)
       /\ fin /\ g.count - 1 \in g.has => t.got_fin

\* A socket that does not know the first number of its peer has nothing, and
\* sends nothing but its SYN.
Unsynced(t) ==
  /\ ~Established(t) /\ ~t.ack_pending /\ t.unread = 0 /\ t.reorder_count = 0
  /\ ~t.got_fin /\ t.wrote = 0 /\ ~t.fin_sent /\ t.delivered = <<>>
  /\ \A q \in SeqNrs : t.inbuf[q] = NULL
  /\ \A p \in t.out : p.type = "SYN"

\* Before the initiator has heard of its peer, the peer has only sent SYN-ACKs.
Opening(g) ==
  /\ ~g["B"].open =>
       /\ ~Established(sock["B"]) /\ g["B"].count = 0
       /\ Unsynced(sock["A"])
       /\ \A m \in net :
            IF m.to = "B" THEN m.p.type \in {"SYN", "RESET"}
            ELSE m.p.type = "RESET" \/ (m.p.type = "STATE" /\ m.p.seq = ISN["B"])
  /\ g["B"].open => sock["A"].st \notin {"UNINITIALIZED", "SYN_SENT"}
  /\ g["A"].open <=> sock["B"].st # "UNINITIALIZED"
  /\ sock["B"].st # "SYN_SENT"
  /\ \A n \in Nodes : sock[n].st = "UNINITIALIZED" => sock[n] = NewSocket /\ g[n].count = 0

StreamBody(g) ==
  /\ \A n \in Nodes :
       /\ StreamOK(n, g[n])
       /\ Sending(n, sock[n], g[n], sock[n].wrote) /\ sock[n].wrote <= MaxWrite[n]
       /\ Receiving(n, sock[Peer(n)], g[n], sock[n].fin_sent)
       /\ \A m \in net : IF m.to = n THEN AckClaim(n, g[n], m.p)
                         ELSE DataClaim(n, sock[n], g[n], m.p)
  /\ Opening(g)

StreamInv == \E g \in [Nodes -> Streams] : StreamBody(g)

-----------------------------------------------------------------------------
(* Numbers *)

LEMMA NoType == \A n \in Nodes : \A k \in Int : ISN[n] \in Int /\ No(n, k) \in SeqNrs
<1> SUFFICES ASSUME NEW n \in Nodes, NEW k \in Int
             PROVE  ISN[n] \in Int /\ No(n, k) \in SeqNrs
  OBVIOUS
<1>1. ISN[n] \in Int
  BY ConnectionAssumption, SeqModAssumption DEF SeqNrs
<1>2. ISN[n] + k \in Int
  BY <1>1
<1> QED
  BY <1>1, <1>2, WrapType DEF No

\* Packets less than a sequence space apart are told apart.
LEMMA NoInjective ==
    ASSUME NEW n \in Nodes, NEW j \in Int, NEW k \in Int, No(n, j) = No(n, k),
           j - k < SEQ_MOD, k - j < SEQ_MOD
    PROVE  j = k
<1>1. ISN[n] \in Int
  BY NoType
<1> DEFINE a == ISN[n] + j
           b == ISN[n] + k
<1>2. a \in Int /\ b \in Int /\ a - b = j - k /\ b - a = k - j
  BY <1>1
<1>3. Wrap(a) = Wrap(b)
  BY DEF No
<1>4. a = b
  <2> HIDE DEF a, b
  <2> QED
    BY <1>2, <1>3, WrapInjective
<1> QED
  BY <1>1, <1>4

LEMMA NoShift ==
    ASSUME NEW n \in Nodes, NEW k \in Int, NEW d \in Int
    PROVE  Wrap(No(n, k) + d) = No(n, k + d)
<1>1. ISN[n] \in Int
  BY NoType
<1> DEFINE a == ISN[n] + k
<1>2. a \in Int /\ ISN[n] + (k + d) = a + d
  BY <1>1
<1>3. Wrap(Wrap(a) + d) = Wrap(a + d)
  <2> HIDE DEF a
  <2> QED
    BY <1>2, WrapAdd
<1> QED
  BY <1>2, <1>3 DEF No

LEMMA NoDistance ==
    ASSUME NEW n \in Nodes, NEW j \in Int, NEW k \in Int, NEW d \in Int
    PROVE  Wrap(No(n, j) - No(n, k) + d) = Wrap(j - k + d)
<1>1. ISN[n] \in Int
  BY NoType
<1> DEFINE a == ISN[n] + k
           b == ISN[n] + j
<1>2. a \in Int /\ b \in Int /\ b - a + d = j - k + d
  BY <1>1
<1>3. Wrap(Wrap(b) - Wrap(a) + d) = Wrap(b - a + d)
  <2> HIDE DEF a, b
  <2> QED
    BY <1>2, WrapDifference
<1> QED
  BY <1>2, <1>3 DEF No

\* Masking a small number, positive or negative.
LEMMA WrapSmall ==
    ASSUME NEW d \in Int, -SEQ_MOD < d, d < SEQ_MOD
    PROVE  Wrap(d) = IF d >= 0 THEN d ELSE d + SEQ_MOD
<1>1. CASE d >= 0
  <2>1. d \in SeqNrs
    BY <1>1, SeqModAssumption DEF SeqNrs
  <2> QED
    BY <1>1, <2>1, WrapIdentity
<1>2. CASE ~(d >= 0)
  <2>1. d + SEQ_MOD \in SeqNrs /\ d = SEQ_MOD * (-1) + (d + SEQ_MOD) /\ -1 \in Int
    BY <1>2, SeqModAssumption DEF SeqNrs
  <2>2. Wrap(d) = d + SEQ_MOD
    BY <2>1, WrapUnique
  <2> QED
    BY <1>2, <2>2
<1> QED
  BY <1>1, <1>2

-----------------------------------------------------------------------------
(* The sending half of a stream *)

\* The reading half of the socket is the same.
SameReading(s, t) ==
  /\ SameRecv(s, t) /\ t.delivered = s.delivered /\ t.got_fin = s.got_fin
  /\ t.got_fin_reached = s.got_fin_reached /\ t.eof_pkt = s.eof_pkt
  /\ t.unread = s.unread

\* From s to t packets may have been queued (h for g); none that was sent changed.
Extends(n, s, g, t, h) ==
  /\ h.open = g.open /\ h.next = g.next /\ h.has = g.has /\ g.count <= h.count
  /\ s.fin_sent => t.fin_sent /\ h.count = g.count
  /\ t.fin_sent /\ ~s.fin_sent => h.count > g.count
  /\ \A k \in 0 .. g.count - 1 : ~Unsent(s.outbuf[No(n, k)]) =>
       ~Unsent(t.outbuf[No(n, k)]) /\ Piece(h, k) = Piece(g, k)

\* The datagrams of the call carry packets and the current ack_nr.
Posts(s, t) ==
  \A d \in t.out : \/ d \in s.out
                   \/ d.type \in {"SYN", "DATA", "FIN"} /\ d.ack = s.ack_nr /\ d.sack = NULL

LEMMA FirstType == \A n \in Nodes : First(n) \in {0, 1}
  BY DEF First

\* A short connection uses every number once.
LEMMA CountBound ==
    ASSUME ShortConnection, NEW n \in Nodes, NEW s, NEW g, StreamOK(n, g),
           NEW w \in Nat, w <= MaxWrite[n], Sending(n, s, g, w)
    PROVE  g.count \in Nat /\ g.count + REORDER_MAX < SEQ_MOD /\ g.count + 1 < SEQ_MOD
<1>1. g.count \in Nat /\ MaxWrite[n] \in Nat /\ MaxWrite[n] + 2 + REORDER_MAX < SEQ_MOD
  BY ConnectionAssumption DEF ShortConnection, StreamOK, Streams
<1>2. g.count <= w + First(n) + (IF s.fin_sent THEN 1 ELSE 0)
  BY DEF Sending
<1>3. REORDER_MAX \in Nat /\ 0 < REORDER_MAX /\ SEQ_MOD \in Nat
  BY ReorderMaxAssumption, SeqModAssumption
<1>4. g.count <= w + 2
  BY <1>1, <1>2, FirstType
<1> QED
  BY <1>1, <1>3, <1>4

\* A slot of outbuf that is not empty is that of a packet of the stream.
LEMMA SlotOfStream ==
    ASSUME NEW n \in Nodes, NEW s, SendOK(s), Registered(s), NEW g, StreamOK(n, g),
           NEW w, Sending(n, s, g, w), NEW q \in SeqNrs, s.outbuf[q] # NULL
    PROVE  \E k \in 0 .. g.count - 1 :
             q = No(n, k) /\ IsPacket(n, g, s.fin_sent, k, s.outbuf[q])
<1>1. PICK j \in 1 .. s.cwp : q = Wrap(s.seq_nr - j)
  BY DEF SendOK, Window
<1>2. g.count \in Nat /\ s.cwp \in Nat /\ s.cwp <= g.count /\ s.seq_nr = No(n, g.count)
  BY DEF SendOK, SocketType, StreamOK, Streams, Sending
<1> DEFINE k == g.count - j
           d == -j
<1>3. k \in 0 .. g.count - 1 /\ d \in Int /\ g.count + d = k /\ s.seq_nr - j = s.seq_nr + d
  <2>1. s.seq_nr \in Int
    BY WindowStartType
  <2> QED
    BY <1>2, <2>1
<1> HIDE DEF k, d
<1>4. q = No(n, k)
  <2>1. g.count \in Int
    BY <1>2
  <2>2. Wrap(No(n, g.count) + d) = No(n, g.count + d)
    BY <1>3, <2>1, NoShift
  <2> QED
    BY <1>1, <1>2, <1>3, <2>2
<1>5. IsPacket(n, g, s.fin_sent, k, s.outbuf[q])
  <2>1. LET p == s.outbuf[No(n, k)]
        IN  IF p = NULL THEN k \in g.has ELSE IsPacket(n, g, s.fin_sent, k, p)
    BY <1>3 DEF Sending
  <2> QED
    BY <1>4, <2>1
<1> QED
  BY <1>3, <1>4, <1>5

\* The numbers of the packets that the receiver has.
Received(n, g) == {No(n, k) : k \in g.has}

\* Serving the window keeps what is known of the stream.
LEMMA ServesSending ==
    ASSUME NEW n \in Nodes, NEW s, SendOK(s), Registered(s), NEW g, StreamOK(n, g),
           g.count < SEQ_MOD, NEW w, Sending(n, s, g, w),
           NEW t, SendOK(t), Serves(s, t, Received(n, g))
    PROVE  Sending(n, t, g, w) /\ Extends(n, s, g, t, g)
           /\ SameReading(s, t) /\ Posts(s, t)
<1>1. /\ t.fin_sent = s.fin_sent /\ t.fin_sent_acked = s.fin_sent_acked
      /\ t.seq_nr = s.seq_nr /\ t.cwp <= s.cwp /\ SameReading(s, t) /\ t.ack_nr = s.ack_nr
  BY DEF Serves, SameStream, SameReading, SameRecv
<1>2. /\ g.count \in Nat /\ s.cwp \in Nat /\ t.cwp \in Nat
      /\ g.has \subseteq 0 .. g.count - 1
  BY DEF StreamOK, Streams, SendOK, SocketType
<1>3. \A k \in Int : No(n, k) \in SeqNrs
  BY NoType
<1>4. \A q \in SeqNrs : ~Unsent(s.outbuf[q]) => ~Unsent(t.outbuf[q])
  <2> TAKE q \in SeqNrs
  <2>1. SlotMoves(s.outbuf[q], t.outbuf[q], q \in Received(n, g))
    BY DEF Serves
  <2> QED
    BY <2>1 DEF SlotMoves, Unsent
<1>5. \A k \in g.has \cup 0 .. First(n) - 1 : ~Unsent(t.outbuf[No(n, k)])
  <2> TAKE k \in g.has \cup 0 .. First(n) - 1
  <2>1. k \in Int
    BY <1>2, FirstType
  <2>2. ~Unsent(s.outbuf[No(n, k)])
    BY DEF Sending
  <2> QED
    BY <1>3, <1>4, <2>1, <2>2
<1>6. \A d \in t.out :
        /\ DataClaim(n, t, g, d)
        /\ \/ d \in s.out
           \/ d.type \in {"SYN", "DATA", "FIN"} /\ d.ack = s.ack_nr /\ d.sack = NULL
  <2> TAKE d \in t.out
  <2>1. CASE d \in s.out
    <3>1. DataClaim(n, s, g, d)
      BY <2>1 DEF Sending
    <3>2. ASSUME d.type \in {"SYN", "DATA", "FIN"} PROVE DataClaim(n, t, g, d)
      <4>1. PICK k \in 0 .. g.count - 1 :
              d.seq = No(n, k) /\ IsPacket(n, g, s.fin_sent, k, d) /\ ~Unsent(s.outbuf[No(n, k)])
        BY <3>1, <3>2 DEF DataClaim
      <4>2. ~Unsent(t.outbuf[No(n, k)])
        BY <1>2, <1>3, <1>4, <4>1
      <4> QED
        BY <1>1, <4>1, <4>2 DEF DataClaim
    <3> QED
      BY <2>1, <3>2 DEF DataClaim
  <2>2. CASE d \notin s.out
    <3>1. PICK q \in SeqNrs : FromSlot(s, t, q, d)
      BY <2>2 DEF Serves
    <3>2. PICK k \in 0 .. g.count - 1 :
            q = No(n, k) /\ IsPacket(n, g, s.fin_sent, k, s.outbuf[q])
      BY <3>1, SlotOfStream DEF FromSlot
    <3>3. s.outbuf[q] \in OutPackets
      BY <3>1 DEF FromSlot, SendOK, SocketType, Outbufs
    <3>4. d.type \in {"SYN", "DATA", "FIN"} /\ d.ack = s.ack_nr /\ d.sack = NULL
      BY <3>1, <3>3 DEF FromSlot, OutPackets
    <3>5. DataClaim(n, t, g, d)
      BY <1>1, <3>1, <3>2 DEF DataClaim, FromSlot, IsPacket
    <3> QED
      BY <3>4, <3>5
  <2> QED
    BY <2>1, <2>2
<1>7. \A k \in 0 .. g.count - 1 :
        LET p == t.outbuf[No(n, k)]
        IN  IF p = NULL THEN k \in g.has ELSE IsPacket(n, g, t.fin_sent, k, p)
  <2> TAKE k \in 0 .. g.count - 1
  <2> DEFINE q == No(n, k)
  <2>1. q \in SeqNrs
    BY <1>2, <1>3
  <2>2. SlotMoves(s.outbuf[q], t.outbuf[q], q \in Received(n, g))
    BY <2>1 DEF Serves
  <2>3. IF s.outbuf[q] = NULL THEN k \in g.has ELSE IsPacket(n, g, s.fin_sent, k, s.outbuf[q])
    BY DEF Sending
  <2>4. q \in Received(n, g) => k \in g.has
    <3> SUFFICES ASSUME NEW j \in g.has, No(n, k) = No(n, j) PROVE k \in g.has
      BY DEF Received
    <3>1. j \in Int /\ k \in Int /\ j - k < SEQ_MOD /\ k - j < SEQ_MOD
      BY <1>2, SeqModAssumption
    <3> QED
      BY <3>1, NoInjective
  <2> HIDE DEF q
  <2>5. IF t.outbuf[q] = NULL THEN k \in g.has ELSE IsPacket(n, g, t.fin_sent, k, t.outbuf[q])
    <3>1. CASE t.outbuf[q] = NULL
      BY <2>2, <2>3, <2>4, <3>1 DEF SlotMoves
    <3>2. CASE t.outbuf[q] # NULL
      BY <1>1, <2>2, <2>3, <3>2 DEF SlotMoves, IsPacket
    <3> QED
      BY <3>1, <3>2
  <2> QED
    BY <2>5 DEF q
<1>8. Sending(n, t, g, w)
  <2>1. Registered(t) => t.seq_nr = No(n, g.count) /\ t.cwp <= g.count /\ g.count >= First(n)
    BY <1>1, <1>2 DEF Sending
  <2>2. /\ g.cut[g.count] = w
        /\ g.count <= w + First(n) + (IF t.fin_sent THEN 1 ELSE 0)
        /\ t.fin_sent => g.count > First(n)
        /\ t.fin_sent_acked => t.fin_sent /\ g.next = g.count
    BY <1>1 DEF Sending
  <2> QED
    BY <1>5, <1>6, <1>7, <2>1, <2>2 DEF Sending
<1>9. Extends(n, s, g, t, g)
  <2>1. \A k \in 0 .. g.count - 1 : No(n, k) \in SeqNrs
    BY <1>2, <1>3
  <2> QED
    BY <1>1, <1>2, <1>4, <2>1 DEF Extends
<1> QED
  BY <1>1, <1>6, <1>8, <1>9 DEF Posts

-----------------------------------------------------------------------------
(* Queueing: the stream grows at its end *)

\* k positions after position w.
Run(w, k) == [i \in 1 .. k |-> w + i]

LEMMA RunType ==
    ASSUME NEW w \in Nat, NEW k \in Nat
    PROVE  Run(w, k) \in Seq(Nat) /\ Len(Run(w, k)) = k
<1>1. \A i \in 1 .. k : w + i \in Nat
  OBVIOUS
<1> QED
  BY <1>1 DEF Run

LEMMA RunJoin ==
    ASSUME NEW w \in Nat, NEW j \in Nat, NEW k \in Nat
    PROVE  Run(w, j) \o Run(w + j, k) = Run(w, j + k)
<1> DEFINE a == Run(w, j)
           b == Run(w + j, k)
           c == Run(w, j + k)
<1>1. /\ a \in Seq(Nat) /\ b \in Seq(Nat) /\ c \in Seq(Nat)
      /\ Len(a) = j /\ Len(b) = k /\ Len(c) = j + k
  <2>1. w + j \in Nat /\ j + k \in Nat
    OBVIOUS
  <2> QED
    BY <2>1, RunType
<1>2. \A i \in 1 .. j + k : c[i] = IF i <= j THEN a[i] ELSE b[i - j]
  <2> TAKE i \in 1 .. j + k
  <2>1. c[i] = w + i
    BY DEF Run
  <2>2. CASE i <= j
    <3>1. a[i] = w + i
      BY <2>2 DEF Run
    <3> QED
      BY <2>1, <2>2, <3>1
  <2>3. CASE ~(i <= j)
    <3>1. i - j \in 1 .. k
      BY <2>3
    <3>2. b[i - j] = w + j + (i - j)
      BY <3>1 DEF Run
    <3> QED
      BY <2>1, <2>3, <3>2
  <2> QED
    BY <2>2, <2>3
<1> HIDE DEF a, b, c
<1>3. /\ a \o b \in Seq(Nat) /\ Len(a \o b) = j + k
      /\ \A i \in 1 .. j + k : (a \o b)[i] = IF i <= j THEN a[i] ELSE b[i - j]
  BY <1>1, ConcatProperties
<1>4. a \o b = c
  BY <1>1, <1>2, <1>3, SeqEqual
<1> QED
  BY <1>4 DEF a, b, c

\* A part of a run is a run.
LEMMA RunParts ==
    ASSUME NEW w \in Nat, NEW k \in Nat, NEW j \in 0 .. k
    PROVE  /\ SubSeq(Run(w, k), 1, j) = Run(w, j)
           /\ SubSeq(Run(w, k), j + 1, Len(Run(w, k))) = Run(w + j, k - j)
<1> DEFINE a == Run(w, k)
           b == SubSeq(a, 1, j)
           m == j + 1
           c == SubSeq(a, m, k)
           d == Run(w, j)
           e == Run(w + j, k - j)
<1>1. a \in Seq(Nat) /\ Len(a) = k /\ \A i \in 1 .. k : a[i] = w + i
  BY RunType DEF Run
<1>2. /\ d \in Seq(Nat) /\ Len(d) = j /\ \A i \in 1 .. j : d[i] = w + i
      /\ e \in Seq(Nat) /\ Len(e) = k - j /\ \A i \in 1 .. k - j : e[i] = w + j + i
  BY RunType DEF Run
<1> HIDE DEF a, d, e
<1>3. \A i \in 1 .. k : a[i] \in Nat
  BY <1>1
<1>4. b \in Seq(Nat) /\ Len(b) = j /\ \A i \in 1 .. j : b[i] = a[i]
  <2>1. b \in Seq(Nat) /\ Len(b) = (IF 1 <= j THEN j - 1 + 1 ELSE 0)
        /\ \A i \in 1 .. j - 1 + 1 : b[i] = a[1 + i - 1]
    BY <1>3, SubSeqProperties
  <2> HIDE DEF b
  <2> QED
    BY <2>1
<1>5. c \in Seq(Nat) /\ Len(c) = k - j /\ \A i \in 1 .. k - j : c[i] = a[j + i]
  <2>1. m \in Int /\ m = j + 1 /\ \A i \in m .. k : a[i] \in Nat
    BY <1>3
  <2> HIDE DEF m
  <2>2. c \in Seq(Nat) /\ Len(c) = (IF m <= k THEN k - m + 1 ELSE 0)
        /\ \A i \in 1 .. k - m + 1 : c[i] = a[m + i - 1]
    BY <2>1, SubSeqProperties
  <2> HIDE DEF c
  <2> QED
    BY <2>1, <2>2
<1> HIDE DEF b, c
<1>6. b = d
  <2>1. \A i \in 1 .. j : b[i] = d[i]
    BY <1>1, <1>2, <1>4
  <2> QED
    BY <1>2, <1>4, <2>1, SeqEqual
<1>7. c = e
  <2>1. \A i \in 1 .. k - j : c[i] = e[i]
    BY <1>1, <1>2, <1>5
  <2> QED
    BY <1>2, <1>5, <2>1, SeqEqual
<1> QED
  BY <1>1, <1>6, <1>7 DEF a, b, c, d, e, m

\* From s to t packets were queued or sent; h tells the stream of t, of which w
\* positions have been accepted.
Queues(n, s, g, t, h, w) ==
  /\ StreamOK(n, h) /\ Sending(n, t, h, w) /\ Extends(n, s, g, t, h)
  /\ SameReading(s, t) /\ Posts(s, t) /\ StateMoves(s, t)
  /\ h.count - t.cwp = g.count - s.cwp
  /\ t.fin_sent_acked = s.fin_sent_acked /\ t.read_shutdown = s.read_shutdown
  /\ (t.ack_pending => s.ack_pending)

\* The hypotheses on a socket of node n that may write, and its stream.
Open(n, s, g, w) ==
  /\ n \in Nodes /\ SendOK(s) /\ Registered(s) /\ w \in Nat
  /\ StreamOK(n, g) /\ Sending(n, s, g, w) /\ g.count + 1 < SEQ_MOD

LEMMA OpenType ==
    ASSUME NEW n, NEW s, NEW g, NEW w, Open(n, s, g, w)
    PROVE  /\ SocketType(s) /\ s.cwp \in Nat /\ s.cwp <= g.count /\ s.st # "UNINITIALIZED"
           /\ s.seq_nr = No(n, g.count) /\ g.count \in Nat /\ First(n) <= g.count
           /\ \A k \in g.has \cup 0 .. First(n) - 1 : k \in 0 .. g.count - 1
           /\ g.cut \in [Nat -> Nat] /\ g.cut[g.count] = w
<1>1. g.has \subseteq 0 .. g.count - 1 /\ g.count \in Nat /\ g.cut \in [Nat -> Nat]
  BY DEF Open, StreamOK, Streams
<1>2. /\ SocketType(s) /\ s.cwp \in Nat /\ s.cwp <= g.count /\ s.st # "UNINITIALIZED"
      /\ s.seq_nr = No(n, g.count) /\ First(n) <= g.count /\ g.cut[g.count] = w
  BY <1>1, FirstType DEF Open, Sending, SendOK, SocketType, Registered
<1>3. \A k \in g.has \cup 0 .. First(n) - 1 : k \in 0 .. g.count - 1
  BY <1>1, <1>2, FirstType DEF Open
<1> QED
  BY <1>1, <1>2, <1>3

LEMMA SmallNumbers ==
    ASSUME NEW n \in Nodes, NEW c \in Nat, c < SEQ_MOD
    PROVE  \A j, k \in 0 .. c : No(n, j) \in SeqNrs /\ (No(n, j) = No(n, k) => j = k)
<1> SUFFICES ASSUME NEW j \in 0 .. c, NEW k \in 0 .. c
             PROVE  No(n, j) \in SeqNrs /\ (No(n, j) = No(n, k) => j = k)
  OBVIOUS
<1>1. j \in Int /\ k \in Int /\ j - k < SEQ_MOD /\ k - j < SEQ_MOD
  BY SeqModAssumption
<1> QED
  BY <1>1, NoType, NoInjective

\* A packet is added: h.count is one more.
LEMMA PacketQueues ==
    ASSUME NEW n, NEW s, NEW g, NEW w, Open(n, s, g, w), ~s.fin_sent,
           NEW type \in {"DATA", "FIN"}, NEW k \in Nat, type = "FIN" <=> k = 0,
           NEW p \in OutPackets, p.type = type, p.data = Run(w, k),
           NEW t, t.outbuf = [s.outbuf EXCEPT ![s.seq_nr] = p], t.out = s.out,
           t.seq_nr = Wrap(s.seq_nr + 1), t.cwp = s.cwp + 1, t.st = s.st,
           t.fin_sent <=> type = "FIN", t.fin_sent_acked = s.fin_sent_acked,
           SameReading(s, t), t.read_shutdown = s.read_shutdown,
           t.ack_pending = s.ack_pending
    PROVE  \E h : Queues(n, s, g, t, h, w + k)
<1> DEFINE c == g.count
           new == [g.cut EXCEPT ![c + 1] = w + k]
           h == [count |-> c + 1, cut |-> new, open |-> g.open, next |-> g.next, has |-> g.has]
<1>1. /\ SocketType(s) /\ s.cwp \in Nat /\ s.cwp <= c /\ s.st # "UNINITIALIZED"
      /\ s.seq_nr = No(n, c) /\ c \in Nat /\ First(n) <= c /\ w \in Nat
      /\ \A i \in g.has \cup 0 .. First(n) - 1 : i \in 0 .. c - 1
      /\ g.cut \in [Nat -> Nat] /\ g.cut[c] = w /\ n \in Nodes
  BY OpenType DEF Open
<1>2. /\ g.has \in SUBSET Nat /\ g.next \in Nat /\ g.open \in BOOLEAN /\ g.next <= c
      /\ StreamOK(n, g) /\ c + 1 < SEQ_MOD
  BY DEF Open, StreamOK, Streams
<1>3. new \in [Nat -> Nat] /\ new[c + 1] = w + k /\ \A i \in 0 .. c : new[i] = g.cut[i]
  BY <1>1
<1> HIDE DEF new
<1>4. /\ h.count = c + 1 /\ h.cut = new /\ h.open = g.open /\ h.next = g.next
      /\ h.has = g.has /\ h \in Streams
  BY <1>1, <1>2, <1>3 DEF Streams
<1> HIDE DEF h
<1>5. \A i \in 0 .. c - 1 : Piece(h, i) = Piece(g, i)
  <2> TAKE i \in 0 .. c - 1
  <2>1. i \in 0 .. c /\ i + 1 \in 0 .. c
    BY <1>1
  <2> QED
    BY <1>3, <1>4, <2>1 DEF Piece
<1>6. Piece(h, c) = p.data
  <2>1. new[c] = w
    BY <1>1, <1>3
  <2>2. new[c + 1] - new[c] = k
    BY <1>1, <1>3, <2>1
  <2>3. Piece(h, c) = [i \in 1 .. k |-> w + i]
    BY <1>4, <2>1, <2>2 DEF Piece
  <2> QED
    BY <2>3 DEF Run
<1>7. \A i, j \in 0 .. c : No(n, i) \in SeqNrs /\ (No(n, i) = No(n, j) => i = j)
  BY <1>1, <1>2, SmallNumbers, SeqModAssumption
<1>8. /\ t.outbuf[No(n, c)] = p
      /\ \A i \in 0 .. c - 1 : t.outbuf[No(n, i)] = s.outbuf[No(n, i)]
  <2>1. s.outbuf \in Outbufs
    BY <1>1 DEF SocketType
  <2>2. \A i \in 0 .. c - 1 : No(n, i) # No(n, c) /\ No(n, i) \in SeqNrs
    BY <1>1, <1>7
  <2> QED
    BY <1>1, <1>7, <2>1, <2>2 DEF Outbufs
<1>9. StreamOK(n, h)
  <2>1. h.cut[0] = 0 /\ h.cut[First(n)] = 0
    BY <1>1, <1>2, <1>3, <1>4, FirstType DEF StreamOK
  <2>2. \A i, j \in 0 .. h.count : i <= j => h.cut[i] <= h.cut[j]
    <3> TAKE i, j \in 0 .. h.count
    <3> HAVE i <= j
    <3>1. CASE j \in 0 .. c
      <4>1. i \in 0 .. c /\ g.cut[i] <= g.cut[j]
        BY <1>1, <1>2, <3>1 DEF StreamOK
      <4> QED
        BY <1>3, <1>4, <3>1, <4>1
    <3>2. CASE j = c + 1 /\ i \in 0 .. c
      <4>1. g.cut[i] <= w /\ g.cut[i] \in Nat
        BY <1>1, <1>2, <3>2 DEF StreamOK
      <4> QED
        BY <1>1, <1>3, <1>4, <3>2, <4>1
    <3>3. CASE j = c + 1 /\ i = c + 1
      BY <1>1, <1>3, <1>4, <3>3
    <3> QED
      BY <1>1, <1>4, <3>1, <3>2, <3>3
  <2>3. h.next <= h.count /\ h.has \subseteq 0 .. h.count - 1
    BY <1>1, <1>2, <1>4
  <2>4. 0 .. h.next - 1 \subseteq h.has /\ h.next \notin h.has
        /\ (~h.open => h.next = 0 /\ h.has = {})
    BY <1>2, <1>4 DEF StreamOK
  <2> QED
    BY <1>4, <2>1, <2>2, <2>3, <2>4 DEF StreamOK
<1>10. \A i \in 0 .. c - 1 : \A d : IsPacket(n, g, s.fin_sent, i, d) => IsPacket(n, h, t.fin_sent, i, d)
  <2> TAKE i \in 0 .. c - 1
  <2>1. Piece(h, i) = Piece(g, i) /\ i # h.count - 1
    BY <1>1, <1>4, <1>5
  <2> QED
    BY <2>1 DEF IsPacket
<1>11. IsPacket(n, h, t.fin_sent, c, p)
  <2>1. c = h.count - 1 /\ ~(n = "A" /\ c = 0)
    BY <1>1, <1>4 DEF First
  <2>2. p.type # "SYN" /\ (p.type = "FIN" <=> t.fin_sent)
    OBVIOUS
  <2> QED
    BY <1>6, <2>1, <2>2 DEF IsPacket
<1>12. Sending(n, t, h, w + k)
  <2>0. Sending(n, s, g, w) /\ Registered(s)
    BY DEF Open
  <2>1. h.cut[h.count] = w + k
    BY <1>3, <1>4
  <2>2. h.count <= (w + k) + First(n) + (IF t.fin_sent THEN 1 ELSE 0)
    <3>1. c <= w + First(n)
      BY <1>1, <2>0, FirstType DEF Sending
    <3>2. CASE type = "FIN"
      BY <1>1, <1>4, <3>1, <3>2, FirstType
    <3>3. CASE type # "FIN"
      <4>1. k >= 1 /\ ~t.fin_sent
        BY <3>3
      <4> QED
        BY <1>1, <1>4, <3>1, <4>1, FirstType
    <3> QED
      BY <3>2, <3>3
  <2>3. h.count > First(n)
    BY <1>1, <1>4, FirstType
  <2>4. ~t.fin_sent_acked
    BY <2>0 DEF Sending
  <2>5. \A i \in h.has \cup 0 .. First(n) - 1 : ~Unsent(t.outbuf[No(n, i)])
    <3> TAKE i \in h.has \cup 0 .. First(n) - 1
    <3>1. i \in 0 .. c - 1 /\ ~Unsent(s.outbuf[No(n, i)])
      BY <1>1, <1>4, <2>0 DEF Sending
    <3> QED
      BY <1>8, <3>1
  <2>6. \A d \in t.out : DataClaim(n, t, h, d)
    <3> TAKE d \in t.out
    <3> SUFFICES ASSUME d.type \in {"SYN", "DATA", "FIN"} PROVE DataClaim(n, t, h, d)
      BY DEF DataClaim
    <3>1. DataClaim(n, s, g, d)
      BY <2>0 DEF Sending
    <3>2. PICK i \in 0 .. c - 1 :
            d.seq = No(n, i) /\ IsPacket(n, g, s.fin_sent, i, d) /\ ~Unsent(s.outbuf[No(n, i)])
      BY <3>1 DEF DataClaim
    <3>3. IsPacket(n, h, t.fin_sent, i, d) /\ i \in 0 .. h.count - 1
      BY <1>1, <1>4, <1>10, <3>2
    <3> QED
      BY <1>8, <3>2, <3>3 DEF DataClaim
  <2>7. t.seq_nr = No(n, h.count)
    <3>1. c \in Int /\ 1 \in Int
      BY <1>1
    <3> QED
      BY <1>1, <1>4, <3>1, NoShift
  <2>8. t.cwp <= h.count /\ h.count >= First(n)
    BY <1>1, <1>4, FirstType
  <2>9. \A i \in 0 .. h.count - 1 :
          LET d == t.outbuf[No(n, i)]
          IN  IF d = NULL THEN i \in h.has ELSE IsPacket(n, h, t.fin_sent, i, d)
    <3> TAKE i \in 0 .. h.count - 1
    <3>1. CASE i = c
      <4>1. p # NULL
        BY SendAssumption
      <4> QED
        BY <1>8, <1>11, <3>1, <4>1
    <3>2. CASE i \in 0 .. c - 1
      <4>1. LET d == s.outbuf[No(n, i)]
            IN  IF d = NULL THEN i \in g.has ELSE IsPacket(n, g, s.fin_sent, i, d)
        BY <2>0, <3>2 DEF Sending
      <4> QED
        BY <1>4, <1>8, <1>10, <3>2, <4>1
    <3> QED
      BY <1>1, <1>4, <3>1, <3>2
  <2> QED
    BY <2>1, <2>2, <2>3, <2>4, <2>5, <2>6, <2>7, <2>8, <2>9 DEF Sending
<1>13. Extends(n, s, g, t, h)
  BY <1>1, <1>4, <1>5, <1>8 DEF Extends
<1>14. h.count - t.cwp = g.count - s.cwp
  BY <1>1, <1>4
<1>15. Posts(s, t) /\ StateMoves(s, t)
  BY <1>1 DEF Posts, StateMoves, Established, Registered
<1> QED
  BY <1>9, <1>12, <1>13, <1>14, <1>15 DEF Queues

\* Data is added to the last packet, which was not sent.
LEMMA AppendQueues ==
    ASSUME NEW n, NEW s, NEW g, NEW w, Open(n, s, g, w), ~s.fin_sent, CanAppend(s),
           NEW k \in Nat
    PROVE  \E h : Queues(n, s, g, AppendToLast(s, Run(w, k)), h, w + k) /\ h.count = g.count
<1> DEFINE c == g.count
           last == Wrap(s.seq_nr - 1)
           p == s.outbuf[last]
           data == p.data \o Run(w, k)
           wnd == get_rcv_window(s)
           r == [p EXCEPT !.data = data, !.wnd = wnd]
           buf == [s.outbuf EXCEPT ![last] = r]
           t == AppendToLast(s, Run(w, k))
           new == [g.cut EXCEPT ![c] = w + k]
           h == [count |-> c, cut |-> new, open |-> g.open, next |-> g.next, has |-> g.has]
<1>1. /\ SocketType(s) /\ s.cwp \in Nat /\ s.cwp <= c /\ s.st # "UNINITIALIZED"
      /\ s.seq_nr = No(n, c) /\ c \in Nat /\ First(n) <= c /\ w \in Nat
      /\ \A i \in g.has \cup 0 .. First(n) - 1 : i \in 0 .. c - 1
      /\ g.cut \in [Nat -> Nat] /\ g.cut[c] = w /\ n \in Nodes
  BY OpenType DEF Open
<1>2. /\ g.has \in SUBSET Nat /\ g.next \in Nat /\ g.open \in BOOLEAN /\ g.next <= c
      /\ StreamOK(n, g) /\ c < SEQ_MOD /\ s.cwp > 0 /\ c >= 1
      /\ Sending(n, s, g, w) /\ Registered(s) /\ SendOK(s)
  <2>1. s.cwp > 0 /\ c >= 1
    <3>1. s.cwp > 0
      BY Zenon DEF CanAppend
    <3> HIDE DEF c
    <3> QED
      BY <1>1, <3>1
  <2>2. /\ StreamOK(n, g) /\ c + 1 < SEQ_MOD
        /\ Sending(n, s, g, w) /\ Registered(s) /\ SendOK(s)
    BY DEF Open
  <2>3. g.has \in SUBSET Nat /\ g.next \in Nat /\ g.open \in BOOLEAN /\ g.next <= c
    BY <2>2 DEF StreamOK, Streams
  <2>4. c < SEQ_MOD
    BY <1>1, <2>2, SeqModAssumption
  <2> QED
    BY <2>1, <2>2, <2>3, <2>4
<1>3. \A i, j \in 0 .. c : No(n, i) \in SeqNrs /\ (No(n, i) = No(n, j) => i = j)
  BY <1>1, <1>2, SmallNumbers
<1>4. last = No(n, c - 1) /\ last \in SeqNrs
  <2> DEFINE d == -1
  <2>1. c \in Int /\ d \in Int /\ c + d = c - 1 /\ c - 1 \in 0 .. c
    BY <1>1, <1>2
  <2>2. s.seq_nr \in Int /\ s.seq_nr - 1 = No(n, c) + d
    BY <1>1, <1>2, WindowStartType
  <2> HIDE DEF d
  <2>3. Wrap(No(n, c) + d) = No(n, c - 1)
    BY <1>1, <2>1, NoShift
  <2> QED
    BY <1>3, <2>1, <2>2, <2>3
<1>5. Unsent(p) /\ p \in OutPackets /\ p # NULL /\ ~p.sent
  BY <1>1, <1>4 DEF CanAppend, Unsent, SocketType, Outbufs
<1>6. IsPacket(n, g, s.fin_sent, c - 1, p)
  <2>1. c - 1 \in 0 .. c - 1
    BY <1>1, <1>2
  <2> QED
    BY <1>2, <1>4, <1>5, <2>1 DEF Sending
<1>7. \A i \in g.has \cup 0 .. First(n) - 1 : i # c - 1
  BY <1>2, <1>4, <1>5 DEF Sending
<1>8. c # First(n)
  <2>1. First(n) = 1 => 0 \in 0 .. First(n) - 1
    OBVIOUS
  <2> QED
    BY <1>1, <1>2, <1>7, <2>1, FirstType
<1>9. new \in [Nat -> Nat] /\ new[c] = w + k /\ \A i \in 0 .. c - 1 : new[i] = g.cut[i]
  BY <1>1
<1> HIDE DEF new
<1>10. /\ h.count = c /\ h.cut = new /\ h.open = g.open /\ h.next = g.next
       /\ h.has = g.has /\ h \in Streams
  BY <1>1, <1>2, <1>9 DEF Streams
<1> HIDE DEF h
<1>11. \A i \in 0 .. c - 2 : Piece(h, i) = Piece(g, i)
  <2> TAKE i \in 0 .. c - 2
  <2>1. i \in 0 .. c - 1 /\ i + 1 \in 0 .. c - 1
    BY <1>1
  <2> QED
    BY <1>9, <1>10, <2>1 DEF Piece
<1>12. data = Piece(h, c - 1) /\ data \in Seq(Nat)
  <2> DEFINE a == g.cut[c - 1]
             j == w - a
  <2>1. a \in Nat /\ j \in Nat /\ a + j = w /\ w + k - a = j + k /\ c - 1 + 1 = c
        /\ c - 1 \in 0 .. c - 1
    <3>1. c - 1 \in 0 .. c /\ c \in 0 .. c /\ c - 1 <= c
      BY <1>1, <1>2
    <3>2. g.cut[c - 1] <= g.cut[c] /\ a \in Nat
      BY <1>1, <1>2, <3>1 DEF StreamOK
    <3> QED
      BY <1>1, <1>2, <3>2
  <2>2. p.data = Run(a, j)
    BY <1>1, <1>6, <2>1 DEF IsPacket, Piece, Run
  <2>3. Piece(h, c - 1) = Run(a, j + k)
    <3>1. new[c - 1] = a
      BY <1>9, <2>1
    <3>2. Piece(h, c - 1) = [i \in 1 .. new[c] - new[c - 1] |-> new[c - 1] + i]
      BY <1>10, <2>1 DEF Piece
    <3>3. new[c] - new[c - 1] = j + k
      BY <1>9, <2>1, <3>1
    <3> QED
      BY <3>1, <3>2, <3>3 DEF Run
  <2>4. data = Run(a, j + k)
    <3>1. data = Run(a, j) \o Run(w, k)
      BY <2>2
    <3> HIDE DEF a, j, data
    <3>2. Run(a, j) \o Run(a + j, k) = Run(a, j + k)
      BY <2>1, RunJoin
    <3> QED
      BY <2>1, <3>1, <3>2
  <2> HIDE DEF a, j
  <2> QED
    BY <2>1, <2>3, <2>4, RunType
<1> HIDE DEF data, wnd
<1>13. r \in OutPackets /\ r.type = p.type /\ r.data = data /\ ~r.sent /\ r # NULL
  <2>1. wnd \in Nat
    BY <1>1, RcvWindowType DEF wnd
  <2>2. r \in OutPackets /\ r.type = p.type /\ r.data = data /\ ~r.sent
    BY <1>5, <1>12, <2>1 DEF OutPackets
  <2> QED
    BY <2>2, SendAssumption
<1> HIDE DEF r
<1>14. /\ buf[last] = r /\ \A q \in SeqNrs \ {last} : buf[q] = s.outbuf[q]
       /\ buf \in Outbufs
  BY <1>1, <1>4, <1>13 DEF SocketType, Outbufs
<1>15. t = [s EXCEPT !.outbuf = buf, !.last_rcv_win = wnd]
  BY DEF AppendToLast, buf, r, data, wnd, p, last
<1> HIDE DEF buf, t, p, last
<1>16. /\ t.outbuf = buf /\ t.out = s.out /\ t.seq_nr = s.seq_nr /\ t.cwp = s.cwp
       /\ t.st = s.st /\ t.fin_sent = s.fin_sent /\ t.fin_sent_acked = s.fin_sent_acked
       /\ SameReading(s, t) /\ t.read_shutdown = s.read_shutdown
       /\ t.ack_pending = s.ack_pending
  BY <1>1, <1>15 DEF SocketType, Fields, SameReading, SameRecv
<1>17. \A i \in 0 .. c - 2 : t.outbuf[No(n, i)] = s.outbuf[No(n, i)]
  <2> TAKE i \in 0 .. c - 2
  <2>1. i \in 0 .. c /\ c - 1 \in 0 .. c /\ i # c - 1
    BY <1>1, <1>2
  <2> QED
    BY <1>3, <1>4, <1>14, <1>16, <2>1
<1>18. t.outbuf[No(n, c - 1)] = r
  BY <1>4, <1>14, <1>16
<1>19. \A i \in 0 .. c - 1 : i = c - 1 \/ i \in 0 .. c - 2
  BY <1>1
<1>20. StreamOK(n, h)
  <2>1. h.cut[0] = 0 /\ h.cut[First(n)] = 0
    <3>1. 0 \in 0 .. c - 1 /\ First(n) \in 0 .. c - 1
      BY <1>1, <1>2, <1>8, FirstType
    <3> QED
      BY <1>2, <1>9, <1>10, <3>1 DEF StreamOK
  <2>2. \A i, j \in 0 .. h.count : i <= j => h.cut[i] <= h.cut[j]
    <3> TAKE i, j \in 0 .. h.count
    <3> HAVE i <= j
    <3>0. i \in 0 .. c /\ j \in 0 .. c /\ g.cut[i] <= g.cut[j] /\ g.cut[i] \in Nat
      BY <1>1, <1>2, <1>10 DEF StreamOK
    <3>1. CASE j # c
      <4>1. i \in 0 .. c - 1 /\ j \in 0 .. c - 1
        BY <1>1, <3>0, <3>1
      <4> QED
        BY <1>9, <1>10, <3>0, <4>1
    <3>2. CASE j = c /\ i # c
      <4>1. i \in 0 .. c - 1 /\ g.cut[i] <= w
        BY <1>1, <3>0, <3>2
      <4> QED
        BY <1>1, <1>9, <1>10, <3>0, <3>2, <4>1
    <3>3. CASE j = c /\ i = c
      BY <1>1, <1>9, <1>10, <3>3
    <3> QED
      BY <3>1, <3>2, <3>3
  <2> QED
    BY <1>2, <1>10, <2>1, <2>2 DEF StreamOK
<1>21. \A i \in 0 .. c - 2 : \A d : IsPacket(n, g, s.fin_sent, i, d) => IsPacket(n, h, t.fin_sent, i, d)
  BY <1>10, <1>11, <1>16 DEF IsPacket
<1>22. IsPacket(n, h, t.fin_sent, c - 1, r)
  BY <1>6, <1>10, <1>12, <1>13, <1>16 DEF IsPacket
<1>23. Sending(n, t, h, w + k)
  <2>1. h.cut[h.count] = w + k
    BY <1>9, <1>10
  <2>2. h.count <= (w + k) + First(n) + (IF t.fin_sent THEN 1 ELSE 0)
    <3>1. c <= w + First(n)
      BY <1>1, <1>2, FirstType DEF Sending
    <3> QED
      BY <1>1, <1>10, <1>16, <3>1, FirstType
  <2>3. ~t.fin_sent_acked
    BY <1>2, <1>16 DEF Sending
  <2>4. \A i \in h.has \cup 0 .. First(n) - 1 : ~Unsent(t.outbuf[No(n, i)])
    <3> TAKE i \in h.has \cup 0 .. First(n) - 1
    <3>1. i \in 0 .. c - 2 /\ ~Unsent(s.outbuf[No(n, i)])
      BY <1>1, <1>2, <1>7, <1>10, <1>19 DEF Sending
    <3> QED
      BY <1>17, <3>1
  <2>5. \A d \in t.out : DataClaim(n, t, h, d)
    <3> TAKE d \in t.out
    <3> SUFFICES ASSUME d.type \in {"SYN", "DATA", "FIN"} PROVE DataClaim(n, t, h, d)
      BY DEF DataClaim
    <3>1. DataClaim(n, s, g, d)
      BY <1>2, <1>16 DEF Sending
    <3>2. PICK i \in 0 .. c - 1 :
            d.seq = No(n, i) /\ IsPacket(n, g, s.fin_sent, i, d) /\ ~Unsent(s.outbuf[No(n, i)])
      BY <3>1 DEF DataClaim
    <3>3. i \in 0 .. c - 2
      BY <1>4, <1>5, <1>19, <3>2 DEF p
    <3>4. IsPacket(n, h, t.fin_sent, i, d) /\ i \in 0 .. h.count - 1
      BY <1>10, <1>21, <3>2, <3>3
    <3> QED
      BY <1>17, <3>2, <3>3, <3>4 DEF DataClaim
  <2>6. t.seq_nr = No(n, h.count) /\ t.cwp <= h.count /\ h.count >= First(n)
    BY <1>1, <1>10, <1>16
  <2>7. \A i \in 0 .. h.count - 1 :
          LET d == t.outbuf[No(n, i)]
          IN  IF d = NULL THEN i \in h.has ELSE IsPacket(n, h, t.fin_sent, i, d)
    <3> TAKE i \in 0 .. h.count - 1
    <3>1. CASE i = c - 1
      BY <1>13, <1>18, <1>22, <3>1
    <3>2. CASE i \in 0 .. c - 2
      <4>1. LET d == s.outbuf[No(n, i)]
            IN  IF d = NULL THEN i \in g.has ELSE IsPacket(n, g, s.fin_sent, i, d)
        BY <1>2, <1>10, <3>2 DEF Sending
      <4> QED
        BY <1>10, <1>17, <1>21, <3>2, <4>1
    <3> QED
      BY <1>10, <1>19, <3>1, <3>2
  <2> QED
    BY <1>16, <2>1, <2>2, <2>3, <2>4, <2>5, <2>6, <2>7 DEF Sending
<1>24. Extends(n, s, g, t, h)
  <2>1. \A i \in 0 .. c - 1 : ~Unsent(s.outbuf[No(n, i)]) => i \in 0 .. c - 2
    BY <1>4, <1>5, <1>19 DEF p
  <2> QED
    BY <1>1, <1>10, <1>11, <1>16, <1>17, <2>1 DEF Extends
<1>25. h.count - t.cwp = g.count - s.cwp /\ Posts(s, t) /\ StateMoves(s, t)
  BY <1>1, <1>10, <1>16 DEF Posts, StateMoves, Established, Registered
<1> QED
  BY <1>10, <1>16, <1>20, <1>23, <1>24, <1>25 DEF Queues, t

\* Packets are sent.
LEMMA ServeQueues ==
    ASSUME NEW n \in Nodes, NEW s, SendOK(s), Registered(s), NEW g, StreamOK(n, g),
           g.count < SEQ_MOD, NEW w, Sending(n, s, g, w),
           NEW t, SendOK(t), Serves(s, t, {}), t.cwp = s.cwp
    PROVE  Queues(n, s, g, t, g, w)
<1>1. Serves(s, t, Received(n, g))
  BY ServesWider
<1>2. Sending(n, t, g, w) /\ Extends(n, s, g, t, g) /\ SameReading(s, t) /\ Posts(s, t)
  BY <1>1, ServesSending
<1> QED
  BY <1>2 DEF Queues, Serves, SameStream

LEMMA QueuesTransitive ==
    ASSUME NEW n, NEW r, NEW f, NEW v, NEW s, NEW g, NEW w, NEW t, NEW h,
           SendOK(r), SendOK(s), SendOK(t), f.count \in Nat,
           Queues(n, r, f, s, g, v), Queues(n, s, g, t, h, w)
    PROVE  Queues(n, r, f, t, h, w)
<1>1. r.cwp \in Nat /\ s.cwp \in Nat /\ t.cwp \in Nat /\ g.count \in Nat /\ h.count \in Nat
  BY DEF SendOK, SocketType, Queues, StreamOK, Streams
<1>2. StreamOK(n, h) /\ Sending(n, t, h, w)
  BY DEF Queues
<1>3. Extends(n, r, f, t, h)
  <2>1. Extends(n, r, f, s, g) /\ Extends(n, s, g, t, h)
    BY DEF Queues
  <2>2. \A k \in 0 .. f.count - 1 : k \in 0 .. g.count - 1
    BY <1>1, <2>1 DEF Extends
  <2>3. f.count <= h.count /\ (t.fin_sent /\ ~r.fin_sent => h.count > f.count)
    BY <1>1, <2>1 DEF Extends
  <2> QED
    BY <2>1, <2>2, <2>3 DEF Extends
<1>4. SameReading(r, t) /\ StateMoves(r, t)
  BY DEF Queues, SameReading, SameRecv, StateMoves
<1>5. Posts(r, t)
  BY DEF Queues, Posts, SameReading, SameRecv
<1>6. h.count - t.cwp = f.count - r.cwp
  BY <1>1 DEF Queues
<1> QED
  BY <1>2, <1>3, <1>4, <1>5, <1>6 DEF Queues

\* write_outgoing_packet with data: the last packet is filled, the rest is queued.
LEMMA WriteOutgoingQueues ==
    ASSUME NEW n, NEW s0, NEW g, NEW w, Open(n, s0, g, w), ~s0.fin_sent,
           s0.cwp < OUT_MAX - 1, NEW k \in Nat, k > 0
    PROVE  \E h : Queues(n, s0, g, WriteOutgoing(s0, "DATA", Run(w, k)), h, w + k)
<1> DEFINE data  == Run(w, k)
           s     == [s0 EXCEPT !.rto_armed = @ \/ s0.cwp = 0]
           last  == s.outbuf[Wrap(s.seq_nr - 1)]
           room  == IF data # <<>> /\ CanAppend(s) THEN PACKET_SIZE - Len(last.data) ELSE 0
           added == Min({room, Len(data)})
           first == SubSeq(data, 1, added)
           rest  == SubSeq(data, added + 1, Len(data))
           s1    == IF added > 0 THEN AppendToLast(s, first) ELSE s
           s2    == IF rest = <<>> /\ added > 0 THEN s1 ELSE Enqueue(s1, "DATA", rest)
           t     == FlushPackets(s2)
<1>1. /\ SocketType(s0) /\ s0.cwp \in Nat /\ s0.st # "UNINITIALIZED" /\ w \in Nat
      /\ g.count \in Nat /\ g.count + 1 < SEQ_MOD /\ g.count < SEQ_MOD
      /\ n \in Nodes /\ SendOK(s0) /\ Registered(s0) /\ StreamOK(n, g) /\ Sending(n, s0, g, w)
  BY OpenType, SeqModAssumption DEF Open
<1>2. /\ SocketType(s) /\ SameSocket(s0, s)
  BY <1>1 DEF SocketType, Fields, SameSocket, SameSend, SameStream, SameRecv
<1> HIDE DEF s
<1>3. SendOK(s) /\ Keeps(s0, s) /\ Serves(s0, s, {})
  BY <1>1, <1>2, AsideServed
<1>4. Queues(n, s0, g, s, g, w) /\ s.cwp = s0.cwp
  BY <1>1, <1>3, ServeQueues DEF Keeps, SameWindow
<1>5. Open(n, s, g, w) /\ ~s.fin_sent
  BY <1>1, <1>2, <1>3, <1>4 DEF Open, Queues, SameSocket, SameSend, Registered
<1>6. room \in Nat /\ (room > 0 => CanAppend(s))
  <2>1. CASE CanAppend(s)
    <3>1. last \in OutPackets /\ Len(last.data) < PACKET_SIZE
      <4>1. Wrap(s.seq_nr - 1) \in SeqNrs /\ s.outbuf \in Outbufs
        <5>1. s.seq_nr - 1 \in Int
          BY <1>3, WindowStartType
        <5> QED
          BY <1>2, <5>1, WrapType DEF SocketType
      <4> QED
        BY <2>1, <4>1 DEF CanAppend, Unsent, Outbufs
    <3>2. Len(last.data) \in Nat
      BY <3>1, LenProperties DEF OutPackets
    <3> HIDE DEF last
    <3> QED
      BY <2>1, <3>1, <3>2, SendAssumption
  <2> QED
    BY <2>1
<1>7. data \in Seq(Nat) /\ Len(data) = k
  BY <1>1, RunType
<1>8. added \in 0 .. k /\ (added > 0 => room > 0)
  <2> HIDE DEF room, data
  <2> QED
    BY <1>6, <1>7, MinOfTwo
<1>9. first = Run(w, added) /\ rest = Run(w + added, k - added)
  <2> HIDE DEF added
  <2> QED
    BY <1>1, <1>8, RunParts
<1>10. w + added \in Nat /\ k - added \in Nat /\ (w + added) + (k - added) = w + k
       /\ added \in Nat
  <2> HIDE DEF added
  <2> QED
    BY <1>1, <1>8
<1> HIDE DEF added, room, first, rest, data
<1>11. PICK g1 : /\ SendOK(s1) /\ s1.cwp = s0.cwp /\ s1.st = s0.st /\ ~s1.fin_sent
                 /\ g1.count = g.count /\ Queues(n, s0, g, s1, g1, w + added)
  <2>1. CASE added > 0
    <3>1. CanAppend(s)
      BY <1>6, <1>8, <2>1
    <3>2. PICK g1 : Queues(n, s, g, AppendToLast(s, first), g1, w + added) /\ g1.count = g.count
      BY <1>5, <1>9, <1>10, <3>1, AppendQueues
    <3>3. SendOK(AppendToLast(s, first)) /\ Keeps(s, AppendToLast(s, first))
      <4>1. first \in Seq(Nat)
        BY <1>1, <1>9, <1>10, RunType
      <4> QED
        BY <1>3, <3>1, <4>1, AppendKeeps DEF CanAppend, Unsent
    <3>4. s1 = AppendToLast(s, first)
      BY <2>1
    <3> HIDE DEF s1
    <3>5. Queues(n, s0, g, s1, g1, w + added)
      BY <1>1, <1>3, <1>4, <3>2, <3>3, <3>4, QueuesTransitive
    <3>6. s1.cwp = s0.cwp /\ s1.st = s0.st /\ ~s1.fin_sent
      BY <1>2, <1>4, <1>5, <3>3, <3>4 DEF Keeps, SameWindow, SameSocket
    <3> QED
      BY <3>2, <3>3, <3>4, <3>5, <3>6
  <2>2. CASE ~(added > 0)
    <3>1. w + added = w
      BY <1>1, <1>8, <2>2
    <3> QED
      BY <1>2, <1>3, <1>4, <1>5, <2>2, <3>1 DEF SameSocket
  <2> QED
    BY <2>1, <2>2
<1> HIDE DEF s1
<1>12. Open(n, s1, g1, w + added) /\ SocketType(s1) /\ s1.cwp \in Nat
  BY <1>1, <1>10, <1>11 DEF Open, Queues, Registered, SendOK
<1>13. PICK h : SendOK(s2) /\ Queues(n, s0, g, s2, h, w + k) /\ h.count < SEQ_MOD
                /\ Registered(s2)
  <2>1. CASE rest = <<>> /\ added > 0
    <3>1. k - added = 0
      <4>1. Len(rest) = k - added
        BY <1>9, <1>10, RunType
      <4> QED
        BY <2>1, <4>1
    <3>2. w + added = w + k
      BY <1>10, <3>1
    <3> QED
      BY <1>1, <1>11, <2>1, <3>2 DEF Registered
  <2>2. CASE ~(rest = <<>> /\ added > 0)
    <3>1. k - added > 0
      <4>1. CASE added > 0
        <5>1. rest # <<>> /\ Len(rest) = k - added
          BY <1>9, <1>10, <2>2, <4>1, RunType
        <5>2. rest \in Seq(Nat)
          BY <1>9, <1>10, RunType
        <5>3. Len(rest) # 0
          BY <5>1, <5>2, EmptySeq
        <5> QED
          BY <1>10, <5>1, <5>3
      <4>2. CASE ~(added > 0)
        BY <1>8, <1>10, <4>2
      <4> QED
        BY <4>1, <4>2
    <3> DEFINE type == "DATA"
               wnd == get_rcv_window(s1)
               p == OutPacket(type, rest, wnd)
               q == Wrap(s1.seq_nr + 1)
               buf == [s1.outbuf EXCEPT ![s1.seq_nr] = p]
               c == s1.cwp + 1
               e == Enqueue(s1, type, rest)
    <3>2. wnd \in Nat
      BY <1>12, RcvWindowType
    <3>3. rest \in Seq(Nat)
      BY <1>9, <1>10, RunType
    <3>4. p \in OutPackets /\ p.type = type /\ p.data = rest
      <4> HIDE DEF wnd
      <4> QED
        BY <3>2, <3>3 DEF OutPackets, OutPacket
    <3>5. SendOK(e) /\ e.cwp = s1.cwp + 1
      <4>1. s1.cwp < OUT_MAX /\ (s1.fin_sent \/ s1.cwp < OUT_MAX - 1) /\ type \in {"SYN", "DATA", "FIN"}
        BY <1>11, <1>12, SendAssumption
      <4> HIDE DEF e, type
      <4> QED
        BY <1>11, <3>3, <4>1, EnqueueGrows DEF e
    <3>6. e = [s1 EXCEPT !.outbuf = buf, !.last_rcv_win = wnd, !.seq_nr = q, !.cwp = c]
      BY DEF Enqueue
    <3> HIDE DEF e, buf, wnd, q, c
    <3>7. /\ e.outbuf = buf /\ e.out = s1.out /\ e.seq_nr = q /\ e.cwp = c
          /\ e.st = s1.st /\ e.fin_sent = s1.fin_sent /\ e.fin_sent_acked = s1.fin_sent_acked
          /\ SameReading(s1, e) /\ e.read_shutdown = s1.read_shutdown
          /\ e.ack_pending = s1.ack_pending
      BY <1>12, <3>6 DEF SocketType, Fields, SameReading, SameRecv
    <3>8. type \in {"DATA", "FIN"} /\ (type = "FIN" <=> k - added = 0) /\ (e.fin_sent <=> type = "FIN")
      BY <1>11, <3>1, <3>7
    <3> HIDE DEF type, p
    <3>9. \E h : Queues(n, s1, g1, e, h, (w + added) + (k - added))
      BY <1>9, <1>10, <1>11, <1>12, <3>4, <3>7, <3>8, PacketQueues DEF buf, q, c
    <3>10. PICK h : Queues(n, s1, g1, e, h, w + k)
      BY <1>10, <3>9
    <3>11. Queues(n, s0, g, e, h, w + k)
      BY <1>1, <1>11, <3>5, <3>10, QueuesTransitive
    <3>12. h.count < SEQ_MOD
      <4>1. h.count \in Nat /\ h.count - e.cwp = g.count - s0.cwp
        BY <3>11 DEF Queues, StreamOK, Streams
      <4> QED
        BY <1>1, <1>11, <3>5, <4>1
    <3>13. s2 = e
      BY <2>2 DEF e, type
    <3> QED
      BY <1>1, <1>11, <3>5, <3>7, <3>11, <3>12, <3>13 DEF Registered
  <2> QED
    BY <2>1, <2>2
<1> HIDE DEF s2
<1>14. SendOK(t) /\ Serves(s2, t, {}) /\ t.cwp = s2.cwp
  <2>1. s2.st # "UNINITIALIZED"
    BY <1>13 DEF Registered
  <2> QED
    BY <1>13, <2>1, FlushKeeps, FlushServes DEF Keeps, SameWindow
<1>15. t = WriteOutgoing(s0, "DATA", Run(w, k))
  BY DEF WriteOutgoing, t, s2, s1, first, rest, added, room, s, data
<1> HIDE DEF t
<1>16. Queues(n, s2, h, t, h, w + k)
  BY <1>1, <1>13, <1>14, ServeQueues DEF Queues
<1>17. Queues(n, s0, g, t, h, w + k)
  BY <1>1, <1>13, <1>14, <1>16, QueuesTransitive
<1> QED
  BY <1>15, <1>17

\* send_fin: an empty packet ends the stream.
LEMMA SendFinQueues ==
    ASSUME NEW n, NEW s, NEW g, NEW w, Open(n, s, g, w), ~s.fin_sent
    PROVE  LET t == SendFin(s)
           IN  /\ SendOK(t) /\ t.st = s.st /\ t.wrote = s.wrote
               /\ \E h : Queues(n, s, g, t, h, w)
<1> DEFINE fin == "FIN"
           none == <<>>
           u == [s EXCEPT !.fin_sent = TRUE]
           v == [u EXCEPT !.rto_armed = @ \/ u.cwp = 0]
           wnd == get_rcv_window(v)
           p == OutPacket(fin, none, wnd)
           q == Wrap(v.seq_nr + 1)
           buf == [v.outbuf EXCEPT ![v.seq_nr] = p]
           c == v.cwp + 1
           e == Enqueue(v, fin, none)
           t == FlushPackets(e)
<1>1. /\ SocketType(s) /\ s.cwp \in Nat /\ s.st # "UNINITIALIZED" /\ w \in Nat
      /\ g.count \in Nat /\ g.count + 1 < SEQ_MOD
      /\ n \in Nodes /\ SendOK(s) /\ Registered(s) /\ StreamOK(n, g) /\ Sending(n, s, g, w)
  BY OpenType DEF Open
<1>2. none \in Seq(Nat) /\ Run(w, 0) = none
  <2>1. Run(w, 0) \in Seq(Nat) /\ Len(Run(w, 0)) = 0
    BY <1>1, RunType
  <2> QED
    BY <2>1, EmptySeq
<1>3. WriteOutgoing(u, fin, none) = t
  <2> DEFINE last  == v.outbuf[Wrap(v.seq_nr - 1)]
             room  == IF none # <<>> /\ CanAppend(v) THEN PACKET_SIZE - Len(last.data) ELSE 0
             added == Min({room, Len(none)})
             first == SubSeq(none, 1, added)
             rest  == SubSeq(none, added + 1, Len(none))
             s1    == IF added > 0 THEN AppendToLast(v, first) ELSE v
             s2    == IF rest = <<>> /\ added > 0 THEN s1 ELSE Enqueue(s1, fin, rest)
  <2>1. WriteOutgoing(u, fin, none) = FlushPackets(s2)
    BY DEF WriteOutgoing
  <2>2. room = 0 /\ Len(none) = 0
    BY EmptySeq
  <2>3. added = 0
    <3> DEFINE zero == 0
    <3>1. Min({zero, zero}) = zero
      <4>1. zero \in Int
        OBVIOUS
      <4> HIDE DEF zero
      <4>2. zero <= zero
        BY <4>1
      <4> QED
        BY <4>1, <4>2, MinOfTwo
    <3> QED
      BY <2>2, <3>1
  <2> HIDE DEF added
  <2>4. s1 = v /\ rest = none
    <3>1. SubSeq(none, 1, 0) = <<>>
      BY SubSeqEmpty
    <3> QED
      BY <2>2, <2>3, <3>1
  <2> HIDE DEF s1, rest, v
  <2>5. s2 = e
    BY <2>3, <2>4
  <2> HIDE DEF s2, e
  <2> QED
    BY <2>1, <2>5
<1> HIDE DEF none, fin
<1>4. fin = "FIN"
  BY DEF fin
<1>5. /\ SocketType(u) /\ u.outbuf = s.outbuf /\ u.out = s.out /\ u.seq_nr = s.seq_nr
      /\ u.cwp = s.cwp /\ u.st = s.st /\ u.fin_sent /\ u.fin_sent_acked = s.fin_sent_acked
      /\ u.wrote = s.wrote /\ SameReading(s, u) /\ u.read_shutdown = s.read_shutdown
      /\ u.ack_pending = s.ack_pending /\ u.cur_window = s.cur_window
      /\ u.retransmit_count = s.retransmit_count
  BY <1>1 DEF SocketType, Fields, SameReading, SameRecv
<1> HIDE DEF u
<1>6. SendOK(u)
  <2>1. Window(u) = Window(s)
    BY <1>5 DEF Window
  <2> QED
    BY <1>1, <1>5, <2>1 DEF SendOK
<1>7. /\ SocketType(v) /\ v.outbuf = u.outbuf /\ v.out = u.out /\ v.seq_nr = u.seq_nr
      /\ v.cwp = u.cwp /\ v.st = u.st /\ v.fin_sent /\ v.fin_sent_acked = u.fin_sent_acked
      /\ v.wrote = u.wrote /\ SameReading(u, v) /\ v.read_shutdown = u.read_shutdown
      /\ v.ack_pending = u.ack_pending /\ SameSend(u, v)
  BY <1>5 DEF SocketType, Fields, SameReading, SameRecv, SameSend
<1> HIDE DEF v
<1>8. SendOK(v)
  BY <1>6, <1>7, SameSendOK
<1>9. wnd \in Nat
  BY <1>7, RcvWindowType
<1>10. p \in OutPackets /\ p.type = fin /\ p.data = none
  <2> HIDE DEF wnd
  <2> QED
    BY <1>2, <1>4, <1>9 DEF OutPackets, OutPacket
<1>11. SendOK(e) /\ e.wrote = v.wrote
  <2>1. v.cwp < OUT_MAX
    BY <1>1, <1>5, <1>7 DEF SendOK
  <2> HIDE DEF e
  <2>2. SendOK(e) /\ Grows(v, e)
    BY <1>2, <1>4, <1>7, <1>8, <2>1, EnqueueGrows DEF e
  <2> QED
    BY <2>2 DEF Grows
<1>12. e = [v EXCEPT !.outbuf = buf, !.last_rcv_win = wnd, !.seq_nr = q, !.cwp = c]
  BY DEF Enqueue
<1> HIDE DEF e, buf, wnd, q, c
<1>13. /\ e.outbuf = buf /\ e.out = v.out /\ e.seq_nr = q /\ e.cwp = c
       /\ e.st = v.st /\ e.fin_sent = v.fin_sent /\ e.fin_sent_acked = v.fin_sent_acked
       /\ SameReading(v, e) /\ e.read_shutdown = v.read_shutdown
       /\ e.ack_pending = v.ack_pending
  BY <1>7, <1>12 DEF SocketType, Fields, SameReading, SameRecv
<1>14. SameReading(s, e) /\ e.cwp = s.cwp + 1
  BY <1>5, <1>7, <1>13 DEF SameReading, SameRecv, c
<1>15. \E h : Queues(n, s, g, e, h, w + 0)
  <2> DEFINE z == 0
  <2>1. fin \in {"DATA", "FIN"} /\ z \in Nat /\ (fin = "FIN" <=> z = 0)
    BY <1>4
  <2>2. e.fin_sent <=> fin = "FIN"
    BY <1>4, <1>7, <1>13
  <2>3. e.outbuf = [s.outbuf EXCEPT ![s.seq_nr] = p] /\ e.seq_nr = Wrap(s.seq_nr + 1)
    BY <1>5, <1>7, <1>13 DEF buf, q
  <2>4. /\ e.out = s.out /\ e.st = s.st /\ e.fin_sent_acked = s.fin_sent_acked
        /\ e.read_shutdown = s.read_shutdown /\ e.ack_pending = s.ack_pending
    BY <1>5, <1>7, <1>13
  <2>5. p.data = Run(w, z)
    BY <1>2, <1>10
  <2> HIDE DEF p, z
  <2>6. \E h : Queues(n, s, g, e, h, w + z)
    BY <1>10, <1>14, <2>1, <2>2, <2>3, <2>4, <2>5, PacketQueues
  <2> QED
    BY <2>6 DEF z
<1>16. PICK h : Queues(n, s, g, e, h, w)
  BY <1>1, <1>15
<1>17. h.count < SEQ_MOD /\ Registered(e)
  <2>1. h.count \in Nat /\ h.count - e.cwp = g.count - s.cwp
    BY <1>16 DEF Queues, StreamOK, Streams
  <2> QED
    BY <1>1, <1>5, <1>7, <1>13, <1>14, <2>1 DEF Registered
<1>18. SendOK(t) /\ Serves(e, t, {}) /\ t.cwp = e.cwp /\ t.wrote = e.wrote /\ t.st = e.st
  <2>1. e.st # "UNINITIALIZED"
    BY <1>17 DEF Registered
  <2> QED
    BY <1>11, <2>1, FlushKeeps, FlushServes DEF Keeps, SameWindow
<1> HIDE DEF t
<1>19. Queues(n, e, h, t, h, w)
  BY <1>1, <1>11, <1>16, <1>17, <1>18, ServeQueues DEF Queues
<1>20. Queues(n, s, g, t, h, w)
  BY <1>1, <1>11, <1>16, <1>18, <1>19, QueuesTransitive
<1>21. t = SendFin(s)
  BY <1>3 DEF SendFin, u, fin, none
<1> QED
  BY <1>5, <1>7, <1>11, <1>13, <1>18, <1>20, <1>21

\* As many rounds of the loop of writev as there are packets' worth of data: each
\* finds some data left.
LEMMA RoundsHaveData ==
    ASSUME NEW k \in Nat \ {0}, NEW m \in Nat \ {0},
           NEW i \in 1 .. Max({1, (k + m - 1) \div m})
    PROVE  (i - 1) * m < k
<1> DEFINE d == (k + m - 1) \div m
<1>1. d \in Int /\ m * d <= k + m - 1
  OBVIOUS
<1> HIDE DEF d
<1>2. Max({1, d}) = IF 1 >= d THEN 1 ELSE d
  BY <1>1, MaxOfTwo
<1>3. i \in Int /\ 1 <= i /\ (i = 1 \/ i <= d)
  BY <1>1, <1>2 DEF d
<1>4. CASE i = 1
  <2>1. (i - 1) * m = 0
    BY <1>4
  <2> QED
    BY <2>1
<1>5. CASE i <= d
  <2>1. (d - i) * m >= 0
    BY <1>1, <1>3, <1>5
  <2>2. (d - i) * m = m * d - m - (i - 1) * m
    BY <1>1, <1>3
  <2>3. (i - 1) * m \in Int /\ m * d \in Int
    BY <1>1, <1>3
  <2> DEFINE x == (i - 1) * m
             y == m * d
             z == (d - i) * m
  <2>4. z = y - m - x /\ z >= 0 /\ x \in Int /\ y \in Int /\ y <= k + m - 1
    BY <1>1, <2>1, <2>2, <2>3
  <2> HIDE DEF x, y, z
  <2>5. x < k
    BY <2>4
  <2> QED
    BY <2>5 DEF x
<1> QED
  BY <1>3, <1>4, <1>5

\* Fields of a socket that wrote may differ that the stream does not depend on.
LEMMA QueuesAside ==
    ASSUME NEW n, NEW s, NEW g, NEW t, NEW h, NEW w, Queues(n, s, g, t, h, w),
           NEW u, StateMoves(s, u), Registered(u) => Registered(t),
           u.outbuf = t.outbuf, u.seq_nr = t.seq_nr, u.cwp = t.cwp, u.out = t.out,
           u.fin_sent = t.fin_sent, u.fin_sent_acked = t.fin_sent_acked,
           SameReading(t, u), u.read_shutdown = t.read_shutdown,
           u.ack_pending => t.ack_pending
    PROVE  Queues(n, s, g, u, h, w)
<1>1. SameReading(s, u)
  BY DEF Queues, SameReading, SameRecv
<1>2. Sending(n, u, h, w)
  BY DEF Queues, Sending, DataClaim
<1>3. Extends(n, s, g, u, h)
  BY DEF Queues, Extends
<1>4. Posts(s, u)
  BY DEF Queues, Posts
<1> QED
  BY <1>1, <1>2, <1>3, <1>4 DEF Queues

\* One round of the loop of writev that was entered with socket s, stream g and k
\* positions after position w: v positions were accepted in the first i rounds.
Written(n, s, g, w, k, x, i, v, h) ==
  /\ WriteState(s, k, x) /\ v \in Nat /\ w <= v /\ v <= w + k
  /\ x.data = Run(v, w + k - v) /\ Queues(n, s, g, x.s, h, v)
  /\ ~x.blocked => v <= w + i * PACKET_SIZE

LEMMA WriteChunkQueues ==
    ASSUME ShortConnection, NEW n, NEW s, NEW g, NEW w, Open(n, s, g, w), ~s.fin_sent,
           NEW k \in Nat, w + k <= MaxWrite[n],
           NEW i \in Nat \ {0}, (i - 1) * PACKET_SIZE < k,
           NEW x, NEW v, NEW h, Written(n, s, g, w, k, x, i - 1, v, h), NEW r
    PROVE  \E u, f : Written(n, s, g, w, k, WriteChunk(x, r), i, u, f)
<1> DEFINE m     == Min({Len(x.data), PACKET_SIZE})
           first == SubSeq(x.data, 1, m)
           rest  == SubSeq(x.data, m + 1, Len(x.data))
           t     == WriteOutgoing(x.s, "DATA", first)
           left  == w + k - v
           done  == (i - 1) * PACKET_SIZE
<1>1. /\ n \in Nodes /\ w \in Nat /\ SendOK(s) /\ Registered(s) /\ v \in Nat /\ left \in Nat
      /\ g.count \in Nat /\ w <= v /\ v <= w + k
  BY OpenType DEF Open, Written
<1>2. PACKET_SIZE \in Nat /\ PACKET_SIZE > 0 /\ done \in Nat /\ i * PACKET_SIZE = done + PACKET_SIZE
  BY SendAssumption
<1>3. x.data = Run(v, left) /\ Len(x.data) = left
  <2>1. x.data = Run(v, left)
    BY DEF Written
  <2>2. Len(Run(v, left)) = left
    BY <1>1, RunType
  <2> QED
    BY <2>1, <2>2
<1>4. /\ SendOK(x.s) /\ x.s.st = s.st /\ x.s.fin_sent = s.fin_sent
      /\ StreamOK(n, h) /\ Sending(n, x.s, h, v) /\ Queues(n, s, g, x.s, h, v)
  BY DEF Written, WriteState, Grows, Queues
<1>5. WriteState(s, k, WriteChunk(x, r))
  BY <1>1, WriteChunkGrows DEF Written
<1>6. Open(n, x.s, h, v) /\ ~x.s.fin_sent
  <2>1. MaxWrite[n] \in Nat /\ v <= MaxWrite[n]
    BY <1>1, ConnectionAssumption
  <2>2. h.count + 1 < SEQ_MOD
    BY <1>1, <1>4, <2>1, CountBound
  <2> QED
    BY <1>1, <1>4, <2>2 DEF Open, Registered
<1>7. CASE x.blocked
  <2>1. WriteChunk(x, r) = x
    BY <1>7 DEF WriteChunk
  <2> QED
    BY <1>7, <2>1 DEF Written
<1>8. CASE ~x.blocked /\ IsFull(x.s, m)
  <2>1. WriteChunk(x, r) = [x EXCEPT !.blocked = TRUE]
    BY <1>8 DEF WriteChunk
  <2> DEFINE y == WriteChunk(x, r)
  <2>2. y.s = x.s /\ y.data = x.data /\ y.blocked
    BY <2>1 DEF Written, WriteState
  <2> HIDE DEF y
  <2>3. Written(n, s, g, w, k, y, i, v, h)
    BY <1>5, <2>2 DEF Written, y
  <2> QED
    BY <2>3 DEF y
<1>9. CASE ~x.blocked /\ ~IsFull(x.s, m)
  <2>1. v <= w + done
    BY <1>9 DEF Written
  <2>2. left > 0
    <3> HIDE DEF done
    <3> QED
      BY <1>1, <1>2, <2>1 DEF done
  <2>3. m \in 1 .. left /\ m <= PACKET_SIZE
    <3> HIDE DEF left
    <3> QED
      BY <1>1, <1>2, <1>3, <2>2, MinOfTwo
  <2> HIDE DEF m
  <2>4. first = Run(v, m) /\ rest = Run(v + m, left - m)
    <3> HIDE DEF left
    <3>1. m \in 0 .. left /\ v \in Nat /\ left \in Nat
      BY <1>1, <2>3
    <3>2. /\ SubSeq(Run(v, left), 1, m) = Run(v, m)
          /\ SubSeq(Run(v, left), m + 1, Len(Run(v, left))) = Run(v + m, left - m)
      BY <3>1, RunParts
    <3> QED
      BY <1>3, <3>2
  <2>5. x.s.cwp < OUT_MAX - 1
    <3>1. x.s.cwp \in Nat
      BY <1>4, WindowStartType
    <3> QED
      BY <1>9, <3>1, SendAssumption DEF IsFull
  <2>6. m \in Nat /\ m > 0 /\ v + m \in Nat /\ left - m = w + k - (v + m) /\ v + m <= w + k
    BY <1>1, <2>3
  <2>7. PICK f : Queues(n, x.s, h, WriteOutgoing(x.s, "DATA", Run(v, m)), f, v + m)
    BY <1>6, <2>5, <2>6, WriteOutgoingQueues
  <2> DEFINE y == WriteChunk(x, r)
  <2>8. y = [x EXCEPT !.s = t, !.data = rest]
    BY <1>9 DEF WriteChunk, m, first, rest
  <2>9. y.s = t /\ y.data = Run(v + m, w + k - (v + m)) /\ Queues(n, x.s, h, t, f, v + m)
    <3> HIDE DEF t
    <3> QED
      BY <2>4, <2>6, <2>7, <2>8 DEF Written, WriteState, t
  <2> HIDE DEF t, y
  <2>10. SendOK(y.s)
    BY <1>5 DEF WriteState, y
  <2>11. Queues(n, s, g, y.s, f, v + m)
    BY <1>1, <1>4, <2>9, <2>10, QueuesTransitive
  <2>12. v + m <= w + i * PACKET_SIZE
    <3> HIDE DEF done
    <3> QED
      BY <1>1, <1>2, <2>1, <2>3, <2>6
  <2>13. Written(n, s, g, w, k, y, i, v + m, f)
    BY <1>1, <1>5, <2>6, <2>9, <2>11, <2>12 DEF Written, y
  <2> QED
    BY <2>13 DEF y
<1> QED
  BY <1>7, <1>8, <1>9

\* utp_write: what was accepted is queued, wrote counts it.
LEMMA WriteQueues ==
    ASSUME ShortConnection, NEW n, NEW s, NEW g, Open(n, s, g, s.wrote),
           s.st = "CONNECTED", ~s.fin_sent,
           NEW k \in Nat \ {0}, s.wrote + k <= MaxWrite[n]
    PROVE  LET t == Write(s, k)
           IN  /\ SendOK(t) /\ t.wrote <= MaxWrite[n]
               /\ \E h : Queues(n, s, g, t, h, t.wrote)
<1> DEFINE w == s.wrote
           data == Run(w, k)
           rounds == Max({1, (Len(data) + PACKET_SIZE - 1) \div PACKET_SIZE})
           base == [s |-> s, data |-> data, blocked |-> FALSE]
           loop == [i \in 1 .. rounds |-> i]
           end == FoldLeft(WriteChunk, base, loop)
           full == [end.s EXCEPT !.st = "CONNECTED_FULL"]
           y == IF end.blocked /\ IsFull(end.s, PACKET_SIZE) THEN full ELSE end.s
           m == w + k - Len(end.data)
           t == [y EXCEPT !.wrote = m]
<1>1. /\ n \in Nodes /\ w \in Nat /\ SendOK(s) /\ SocketType(s) /\ Registered(s)
      /\ g.count \in Nat /\ StreamOK(n, g) /\ Sending(n, s, g, w) /\ g.count < SEQ_MOD
      /\ MaxWrite[n] \in Nat /\ s.cwp \in Nat
  <2>1. /\ n \in Nodes /\ w \in Nat /\ SendOK(s) /\ Registered(s)
        /\ StreamOK(n, g) /\ Sending(n, s, g, w) /\ g.count + 1 < SEQ_MOD
    BY DEF Open
  <2>2. SocketType(s) /\ g.count \in Nat /\ s.cwp \in Nat
    BY OpenType
  <2>3. MaxWrite[n] \in Nat
    BY <2>1, ConnectionAssumption
  <2> HIDE DEF w
  <2> QED
    BY <2>1, <2>2, <2>3, SeqModAssumption
<1>2. data \in Seq(Nat) /\ Len(data) = k
  BY <1>1, RunType
<1>3. rounds \in Nat
  <2>1. (Len(data) + PACKET_SIZE - 1) \div PACKET_SIZE \in Int
    BY <1>2, SendAssumption
  <2> QED
    BY <2>1, MaxOfTwo
<1>4. rounds = Max({1, (k + PACKET_SIZE - 1) \div PACKET_SIZE})
  BY <1>2
<1> HIDE DEF rounds
<1>5. DOMAIN loop = 1 .. rounds
  OBVIOUS
<1>6. Written(n, s, g, w, k, base, 0, w, g)
  <2>1. SendOK(s) /\ Serves(s, s, {})
    BY <1>1, ServesReflexive DEF Registered
  <2>2. Queues(n, s, g, s, g, w)
    BY <1>1, <2>1, ServeQueues
  <2>3. WriteState(s, k, base)
    <3>1. k <= k /\ s.cwp >= s.cwp
      BY <1>1
    <3> QED
      BY <1>1, <1>2, <3>1 DEF WriteState, Grows, SameRecv
  <2>4. w <= w /\ w <= w + k /\ w + k - w = k /\ w <= w + 0 * PACKET_SIZE
    BY <1>1, SendAssumption
  <2>5. base.s = s /\ base.data = Run(w, w + k - w)
    BY <2>4
  <2> HIDE DEF base
  <2> QED
    BY <1>1, <2>2, <2>3, <2>4, <2>5 DEF Written
<1> HIDE DEF base, loop
<1>7. PICK c : Chunks!Chain(c, rounds, base, loop) /\ end = c[rounds]
  <2>1. \E c : Chunks!Chain(c, rounds, base, loop) /\ Chunks!FoldLeft(WriteChunk, base, loop) = c[rounds]
    BY <1>3, <1>5, Chunks!FoldLeftChain
  <2>2. Chunks!FoldLeft(WriteChunk, base, loop) = end
    BY DEF FoldLeft, Chunks!FoldLeft, MapThenFoldSet, Chunks!MapThenFoldSet, Max, Chunks!Max
  <2> HIDE DEF end
  <2> QED
    BY <2>1, <2>2
<1> HIDE DEF end
<1> DEFINE Z == {i \in 0 .. rounds : \E v, h : Written(n, s, g, w, k, c[i], i, v, h)}
<1>8. 0 \in Z
  BY <1>3, <1>6, <1>7 DEF Chunks!Chain
<1>9. \A i \in 1 .. rounds : i - 1 \in Z => i \in Z
  <2> SUFFICES ASSUME NEW i \in 1 .. rounds, NEW v, NEW h,
                      Written(n, s, g, w, k, c[i - 1], i - 1, v, h)
               PROVE  \E u, f : Written(n, s, g, w, k, c[i], i, u, f)
    BY <1>3
  <2>1. c[i] = WriteChunk(c[i - 1], loop[i])
    BY <1>7 DEF Chunks!Chain
  <2>2. i \in Nat \ {0}
    BY <1>3
  <2>3. (i - 1) * PACKET_SIZE < k
    <3>1. i \in 1 .. Max({1, (k + PACKET_SIZE - 1) \div PACKET_SIZE})
      BY <1>4
    <3> QED
      BY <3>1, RoundsHaveData, SendAssumption
  <2>4. Open(n, s, g, w) /\ w + k <= MaxWrite[n] /\ k \in Nat
    OBVIOUS
  <2> HIDE DEF w
  <2>5. \E u, f : Written(n, s, g, w, k, WriteChunk(c[i - 1], loop[i]), i, u, f)
    BY <2>2, <2>3, <2>4, WriteChunkQueues
  <2> QED
    BY <2>1, <2>5
<1> HIDE DEF Z
<1>10. PICK v, h : Written(n, s, g, w, k, end, rounds, v, h)
  <2>1. \A i \in 0 .. rounds : i \in Z
    BY <1>3, <1>8, <1>9, Chunks!Rounds
  <2>2. rounds \in Z
    BY <1>3, <2>1
  <2> QED
    BY <1>7, <2>2 DEF Z
<1>11. v \in Nat /\ m = v /\ v <= MaxWrite[n]
  <2>1. Len(end.data) = w + k - v
    <3>1. w + k - v \in Nat
      BY <1>1, <1>10 DEF Written
    <3> QED
      BY <1>10, <3>1, RunType DEF Written
  <2>2. v \in Nat /\ w <= v /\ v <= w + k
    BY <1>10 DEF Written
  <2>3. w + k <= MaxWrite[n]
    OBVIOUS
  <2> HIDE DEF w
  <2> QED
    BY <1>1, <2>1, <2>2, <2>3
<1>12. /\ SendOK(end.s) /\ SocketType(end.s) /\ end.s.st = s.st /\ end.s.wrote = w
       /\ Queues(n, s, g, end.s, h, v)
  BY <1>10 DEF Written, WriteState, Grows, SendOK
<1>13. Write(s, k) = t
  <2> DEFINE x == WriteV(s, data)
  <2>1. x = IF end.blocked /\ IsFull(end.s, PACKET_SIZE)
            THEN [end EXCEPT !.s.st = "CONNECTED_FULL"] ELSE end
    BY DEF WriteV, end, base, loop, rounds
  <2>2. x.s = y /\ x.data = end.data
    <3>1. DOMAIN end = {"s", "data", "blocked"}
      BY <1>10 DEF Written, WriteState
    <3> HIDE DEF x
    <3> QED
      BY <2>1, <3>1
  <2>3. Write(s, k) = [x.s EXCEPT !.wrote = @ + k - Len(x.data)]
    BY DEF Write, Run
  <2>4. y.wrote = w
    <3> DEFINE e == end.s
    <3>1. SocketType(e) /\ e.wrote = w
      BY <1>12
    <3> HIDE DEF e, w
    <3>2. [e EXCEPT !.st = "CONNECTED_FULL"].wrote = w
      BY <3>1 DEF SocketType, Fields
    <3> QED
      BY <3>1, <3>2 DEF e
  <2> HIDE DEF x, y, w
  <2> QED
    BY <2>2, <2>3, <2>4
<1> DEFINE e == end.s
<1>14. y \in {e, [e EXCEPT !.st = "CONNECTED_FULL"]}
  OBVIOUS
<1> HIDE DEF y, m, e
<1>15. SocketType(e) /\ e.st = "CONNECTED"
  BY <1>12 DEF e
<1>16. /\ SocketType(y) /\ SameSend(e, y) /\ SameStream(e, y) /\ y.out = e.out
       /\ y.ack_pending = e.ack_pending /\ y.st \in {"CONNECTED", "CONNECTED_FULL"}
  <2>1. CASE y = e
    BY <1>15, <2>1 DEF SameSend, SameStream, SameRecv
  <2>2. CASE y = [e EXCEPT !.st = "CONNECTED_FULL"]
    BY <1>15, <2>2 DEF SocketType, Fields, States, SameSend, SameStream, SameRecv
  <2> QED
    BY <1>14, <2>1, <2>2
<1>17. /\ SocketType(t) /\ SameSend(y, t) /\ SameReading(y, t) /\ t.out = y.out
       /\ t.ack_pending = y.ack_pending /\ t.st = y.st /\ t.wrote = m
       /\ t.fin_sent_acked = y.fin_sent_acked /\ t.read_shutdown = y.read_shutdown
  BY <1>11, <1>16 DEF SocketType, Fields, SameSend, SameReading, SameRecv
<1> HIDE DEF t
<1>18. SendOK(t)
  <2>1. SendOK(e)
    BY <1>12 DEF e
  <2>2. SameSend(e, t)
    BY <1>16, <1>17 DEF SameSend
  <2> QED
    BY <1>17, <2>1, <2>2, SameSendOK
<1>19. StateMoves(s, t)
  BY <1>1, <1>16, <1>17 DEF StateMoves, Established, Registered
<1>20. /\ SameReading(e, t) /\ (Registered(t) => Registered(e))
       /\ t.fin_sent_acked = e.fin_sent_acked /\ t.read_shutdown = e.read_shutdown
       /\ t.outbuf = e.outbuf /\ t.seq_nr = e.seq_nr /\ t.cwp = e.cwp
       /\ t.fin_sent = e.fin_sent /\ t.out = e.out /\ t.ack_pending = e.ack_pending
  BY <1>15, <1>16, <1>17
    DEF SameReading, SameRecv, SameStream, SameSend, Registered
<1>21. Queues(n, s, g, e, h, v)
  BY <1>12 DEF e
<1>22. Queues(n, s, g, t, h, v)
  BY <1>19, <1>20, <1>21, QueuesAside
<1> QED
  BY <1>11, <1>13, <1>17, <1>18, <1>22
-----------------------------------------------------------------------------
(* The calls that bring nothing from the peer *)

\* The reading half from s to t: the application may have drained what it held.
Hears(s, t) ==
  /\ SameRecv(s, t) /\ t.delivered = s.delivered /\ t.got_fin = s.got_fin
  /\ t.got_fin_reached = s.got_fin_reached /\ t.eof_pkt = s.eof_pkt
  /\ t.unread \in {0, s.unread} /\ (s.read_shutdown => t.read_shutdown)
  /\ (t.ack_pending => s.ack_pending \/ s.unread > 0)

\* d is an ACK or a keep-alive: a socket that does not know the numbers of its
\* peer has no reason to send one.
Acks(s, d) ==
  /\ d.type = "STATE" /\ (d.seq = s.seq_nr \/ Established(s))
  /\ (s.ack_pending \/ s.unread > 0 \/ Established(s))
  /\ d.ack \in {s.ack_nr, Wrap(s.ack_nr - 1)}
  /\ d.sack # NULL => \A b \in d.sack : s.inbuf[Wrap(d.ack + 2 + b)] # NULL

Emits(s, t) ==
  \A d \in t.out : \/ d \in s.out \/ Acks(s, d)
                   \/ d.type \in {"SYN", "DATA", "FIN"} /\ d.ack = s.ack_nr /\ d.sack = NULL

\* A call of the library at node n from s, with stream g, to t, with stream h.
Calls(n, s, g, t, h) ==
  /\ StreamOK(n, h) /\ Sending(n, t, h, t.wrote) /\ t.wrote <= MaxWrite[n]
  /\ Extends(n, s, g, t, h) /\ StateMoves(s, t) /\ Hears(s, t) /\ Emits(s, t)
  /\ ~Established(s) => /\ h = g /\ t.wrote = s.wrote /\ t.seq_nr = s.seq_nr
                        /\ t.fin_sent = s.fin_sent

\* What a call may rely on.
Steady(n, s, g) == Open(n, s, g, s.wrote) /\ s.wrote <= MaxWrite[n]

LEMMA CallsTransitive ==
    ASSUME NEW n, NEW r, NEW f, NEW s, NEW g, NEW t, NEW h,
           SocketType(r), SocketType(s), SocketType(t), f.count \in Nat,
           Calls(n, r, f, s, g), Calls(n, s, g, t, h)
    PROVE  Calls(n, r, f, t, h)
<1>1. /\ g.count \in Nat /\ h.count \in Nat
      /\ r.fin_sent \in BOOLEAN /\ s.fin_sent \in BOOLEAN /\ t.fin_sent \in BOOLEAN
  BY DEF SocketType, Calls, StreamOK, Streams
<1>2. Extends(n, r, f, t, h)
  <2>1. Extends(n, r, f, s, g) /\ Extends(n, s, g, t, h)
    BY DEF Calls
  <2>2. \A k \in 0 .. f.count - 1 : k \in 0 .. g.count - 1
    BY <1>1, <2>1 DEF Extends
  <2>3. f.count <= h.count /\ (t.fin_sent /\ ~r.fin_sent => h.count > f.count)
    BY <1>1, <2>1 DEF Extends
  <2> QED
    BY <2>1, <2>2, <2>3 DEF Extends
<1>3. StateMoves(r, t) /\ (Established(s) => Established(r))
  BY DEF Calls, StateMoves
<1>4. Hears(r, t)
  <2>1. Hears(r, s) /\ Hears(s, t) /\ r.unread \in Nat
    BY DEF Calls, SocketType
  <2>2. s.unread > 0 => r.unread > 0
    BY <2>1 DEF Hears
  <2> QED
    BY <2>1, <2>2 DEF Hears, SameRecv
<1>5. ASSUME NEW d, Acks(s, d) PROVE Acks(r, d)
  <2>1. Hears(r, s) /\ r.unread \in Nat
    BY DEF Calls, SocketType
  <2>2. s.unread > 0 => r.unread > 0
    BY <2>1 DEF Hears
  <2>3. Established(r) \/ s.seq_nr = r.seq_nr
    BY DEF Calls
  <2> QED
    BY <1>3, <1>5, <2>1, <2>2, <2>3 DEF Acks, Hears, SameRecv
<1>6. Emits(r, t)
  <2>1. Emits(r, s) /\ Emits(s, t) /\ s.ack_nr = r.ack_nr
    BY DEF Calls, Hears, SameRecv
  <2> QED
    BY <1>5, <2>1 DEF Emits
<1>7. ~Established(r) => /\ h = f /\ t.wrote = r.wrote /\ t.seq_nr = r.seq_nr
                         /\ t.fin_sent = r.fin_sent
  BY <1>3 DEF Calls
<1> QED
  BY <1>2, <1>3, <1>4, <1>6, <1>7 DEF Calls

\* After a call the next may rely on the same.
LEMMA SteadyAfter ==
    ASSUME ShortConnection, NEW n, NEW s, NEW g, Steady(n, s, g),
           NEW t, NEW h, Calls(n, s, g, t, h), SendOK(t), Registered(t)
    PROVE  Steady(n, t, h)
<1>1. n \in Nodes /\ StreamOK(n, h) /\ Sending(n, t, h, t.wrote) /\ t.wrote <= MaxWrite[n]
  BY DEF Calls, Steady, Open
<1>2. t.wrote \in Nat
  BY DEF SendOK, SocketType
<1>3. h.count + 1 < SEQ_MOD
  BY <1>1, <1>2, CountBound
<1> QED
  BY <1>1, <1>2, <1>3 DEF Steady, Open

\* Nothing is queued.
LEMMA AsideCalls ==
    ASSUME NEW n, NEW s, NEW g, Steady(n, s, g),
           NEW t, SameSend(s, t), t.wrote = s.wrote, t.fin_sent_acked = s.fin_sent_acked,
           StateMoves(s, t), Hears(s, t), Emits(s, t),
           \A d \in t.out : d \in s.out \/ d.type = "STATE"
    PROVE  Calls(n, s, g, t, g)
<1>1. /\ n \in Nodes /\ StreamOK(n, g) /\ Sending(n, s, g, s.wrote) /\ g.count \in Nat
      /\ s.fin_sent \in BOOLEAN
  BY OpenType DEF Steady, Open, SocketType
<1>2. t.outbuf = s.outbuf /\ t.seq_nr = s.seq_nr /\ t.cwp = s.cwp /\ t.fin_sent = s.fin_sent
  BY DEF SameSend
<1>3. Sending(n, t, g, t.wrote)
  <2>1. \A d \in t.out : DataClaim(n, t, g, d)
    BY <1>1, <1>2 DEF Sending, DataClaim
  <2>2. Registered(t) => Registered(s)
    BY DEF StateMoves
  <2> QED
    BY <1>1, <1>2, <2>1, <2>2 DEF Sending
<1>4. Extends(n, s, g, t, g)
  BY <1>1, <1>2 DEF Extends
<1> QED
  BY <1>1, <1>2, <1>3, <1>4 DEF Calls, Steady

\* Packets are sent.
LEMMA ServesCalls ==
    ASSUME NEW n, NEW s, NEW g, Steady(n, s, g), NEW t, SendOK(t), Serves(s, t, {})
    PROVE  Calls(n, s, g, t, g)
<1>1. /\ n \in Nodes /\ StreamOK(n, g) /\ Sending(n, s, g, s.wrote) /\ g.count \in Nat
      /\ SendOK(s) /\ Registered(s) /\ g.count + 1 < SEQ_MOD
  BY OpenType DEF Steady, Open
<1>2. g.count < SEQ_MOD
  BY <1>1, SeqModAssumption
<1>3. Serves(s, t, Received(n, g))
  BY ServesWider
<1>4. Sending(n, t, g, s.wrote) /\ Extends(n, s, g, t, g) /\ SameReading(s, t) /\ Posts(s, t)
  BY <1>1, <1>2, <1>3, ServesSending
<1>5. /\ StateMoves(s, t) /\ (t.ack_pending => s.ack_pending) /\ t.wrote = s.wrote
      /\ t.seq_nr = s.seq_nr /\ t.fin_sent = s.fin_sent /\ t.read_shutdown = s.read_shutdown
  BY DEF Serves, SameStream
<1>6. Hears(s, t)
  BY <1>4, <1>5 DEF Hears, SameReading
<1>7. Emits(s, t)
  BY <1>4 DEF Emits, Posts
<1> QED
  BY <1>1, <1>4, <1>5, <1>6, <1>7 DEF Calls, Steady

\* Packets are queued.
LEMMA QueuesCalls ==
    ASSUME NEW n, NEW s, NEW g, Established(s), NEW t, NEW h, Queues(n, s, g, t, h, t.wrote),
           t.wrote <= MaxWrite[n]
    PROVE  Calls(n, s, g, t, h)
<1>1. Hears(s, t)
  BY DEF Hears, Queues, SameReading
<1>2. Emits(s, t)
  BY DEF Emits, Queues, Posts
<1> QED
  BY <1>1, <1>2 DEF Calls, Queues

\* The application drains what it held (r), and an ACK may follow, at once or later.
LEMMA AckCalls ==
    ASSUME NEW n, NEW s, NEW g, Steady(n, s, g), SocketType(s), NEW r, SocketType(r),
           SameSend(s, r), Hears(s, r), r.wrote = s.wrote,
           r.fin_sent_acked = s.fin_sent_acked, r.st = s.st, r.out = s.out,
           s.ack_pending \/ s.unread > 0 \/ Established(s),
           NEW ack \in {s.ack_nr, Wrap(s.ack_nr - 1)}
    PROVE  Calls(n, s, g, SendAckFor(r, ack), g)
<1> DEFINE sack == IF r.reorder_count # 0 /\ ~r.got_fin_reached
                   THEN {b \in 0 .. SACK_BITS - 3 : r.inbuf[Wrap(ack + b + 2)] # NULL}
                   ELSE NULL
           wnd == get_rcv_window(r)
           d == [type |-> "STATE", seq |-> r.seq_nr, ack |-> ack, wnd |-> wnd,
                 sack |-> sack, data |-> <<>>]
           ds == r.out \cup {d}
           t == SendAckFor(r, ack)
<1>1. t = [r EXCEPT !.last_rcv_win = wnd, !.out = ds, !.ack_pending = FALSE]
  BY DEF SendAckFor
<1>2. /\ d.type = "STATE" /\ d.seq = r.seq_nr /\ d.ack = ack
      /\ (d.sack # NULL => \A b \in d.sack : r.inbuf[Wrap(ack + 2 + b)] # NULL)
  <2>1. s.ack_nr \in Int /\ ack \in Int
    BY WrapType DEF SocketType, SeqNrs
  <2>2. \A b \in 0 .. SACK_BITS - 3 : ack + b + 2 = ack + 2 + b
    BY <2>1, SendAssumption
  <2> HIDE DEF wnd
  <2> QED
    BY <2>2
<1> HIDE DEF wnd, t, d
<1>3. /\ SameSend(r, t) /\ t.wrote = r.wrote /\ t.fin_sent_acked = r.fin_sent_acked
      /\ t.st = r.st /\ t.out = ds /\ ~t.ack_pending
      /\ SameRecv(r, t) /\ t.delivered = r.delivered /\ t.got_fin = r.got_fin
      /\ t.got_fin_reached = r.got_fin_reached /\ t.eof_pkt = r.eof_pkt
      /\ t.unread = r.unread /\ t.read_shutdown = r.read_shutdown
  BY <1>1 DEF SocketType, Fields, SameSend, SameRecv
<1>4. SameSend(s, t) /\ t.wrote = s.wrote /\ t.fin_sent_acked = s.fin_sent_acked
  BY <1>3 DEF SameSend
<1>5. StateMoves(s, t)
  <2>1. t.st = s.st /\ s.st # "UNINITIALIZED"
    BY <1>3 DEF Steady, Open, Registered
  <2> QED
    BY <2>1 DEF StateMoves, Established, Registered
<1>6. Hears(s, t)
  BY <1>3 DEF Hears, SameRecv
<1>7. Acks(s, d)
  <2>1. r.seq_nr = s.seq_nr /\ r.inbuf = s.inbuf
    BY DEF SameSend, Hears, SameRecv
  <2> QED
    BY <1>2, <2>1 DEF Acks
<1>8. Emits(s, t)
  BY <1>3, <1>7 DEF Emits
<1>9. \A x \in t.out : x \in s.out \/ x.type = "STATE"
  BY <1>2, <1>3
<1>10. Calls(n, s, g, t, g)
  BY <1>4, <1>5, <1>6, <1>8, <1>9, AsideCalls
<1> QED
  BY <1>10 DEF t

\* Only fields change that the streams do not depend on, or the application wants
\* to read no more.
LEMMA FieldCalls ==
    ASSUME NEW n, NEW s, NEW g, Steady(n, s, g),
           NEW t, SameSend(s, t), t.wrote = s.wrote, t.fin_sent_acked = s.fin_sent_acked,
           StateMoves(s, t), SameReading(s, t), s.read_shutdown => t.read_shutdown,
           t.ack_pending => s.ack_pending, t.out = s.out
    PROVE  Calls(n, s, g, t, g)
<1>1. Hears(s, t)
  BY DEF Hears, SameReading
<1>2. Emits(s, t) /\ \A d \in t.out : d \in s.out \/ d.type = "STATE"
  BY DEF Emits
<1> QED
  BY <1>1, <1>2, AsideCalls

\* utp_write.
LEMMA WriteCalls ==
    ASSUME ShortConnection, NEW n, NEW s, NEW g, Steady(n, s, g),
           s.st = "CONNECTED", ~s.fin_sent,
           NEW k \in Nat \ {0}, s.wrote + k <= MaxWrite[n]
    PROVE  \E h : Calls(n, s, g, Write(s, k), h)
<1> DEFINE t == Write(s, k)
<1>1. Open(n, s, g, s.wrote)
  BY DEF Steady
<1>2. t.wrote <= MaxWrite[n] /\ \E h : Queues(n, s, g, t, h, t.wrote)
  BY <1>1, WriteQueues
<1>3. Established(s)
  BY DEF Established
<1> HIDE DEF t
<1>4. \E h : Calls(n, s, g, t, h)
  BY <1>2, <1>3, QueuesCalls
<1> QED
  BY <1>4 DEF t

\* send_fin.
LEMMA SendFinCalls ==
    ASSUME NEW n, NEW s, NEW g, Steady(n, s, g), Established(s), ~s.fin_sent
    PROVE  \E h : Calls(n, s, g, SendFin(s), h)
<1> DEFINE t == SendFin(s)
<1>1. Open(n, s, g, s.wrote)
  BY DEF Steady
<1>2. t.wrote = s.wrote /\ \E h : Queues(n, s, g, t, h, s.wrote)
  BY <1>1, SendFinQueues
<1> HIDE DEF t
<1>3. \E h : Calls(n, s, g, t, h)
  BY <1>2, QueuesCalls DEF Steady
<1> QED
  BY <1>3 DEF t

\* utp_close.
LEMMA CloseCalls ==
    ASSUME ShortConnection, NEW n, NEW s, NEW g, Steady(n, s, g)
    PROVE  Close(s).wrote = s.wrote /\ \E h : Calls(n, s, g, Close(s), h)
<1> DEFINE t == [s EXCEPT !.closed = TRUE]
           c == [t EXCEPT !.read_shutdown = TRUE, !.close_requested = TRUE]
           x == [t EXCEPT !.st = "DESTROY"]
           y == [c EXCEPT !.st = "DESTROY"]
           Like(u) == /\ SocketType(u) /\ SameSend(s, u) /\ SameReading(s, u)
                      /\ u.wrote = s.wrote /\ u.fin_sent_acked = s.fin_sent_acked
                      /\ (s.read_shutdown => u.read_shutdown)
                      /\ u.ack_pending = s.ack_pending /\ u.out = s.out
<1>1. SocketType(s) /\ SendOK(s) /\ Registered(s) /\ s.st # "UNINITIALIZED" /\ g.count \in Nat
  BY OpenType DEF Steady, Open
<1>2. Like(t) /\ t.st = s.st
  BY <1>1 DEF SocketType, Fields, SameSend, SameReading, SameRecv
<1> HIDE DEF t
<1>3. Like(c) /\ c.st = s.st
  BY <1>2 DEF SocketType, Fields, SameSend, SameReading, SameRecv
<1>4. Like(x) /\ x.st = "DESTROY"
  BY <1>2 DEF SocketType, Fields, States, SameSend, SameReading, SameRecv
<1> HIDE DEF c
<1>5. Like(y) /\ y.st = "DESTROY"
  BY <1>3 DEF SocketType, Fields, States, SameSend, SameReading, SameRecv
<1> HIDE DEF x, y
<1>6. ASSUME NEW u, Like(u), u.st \in {s.st, "DESTROY"} PROVE Calls(n, s, g, u, g)
  <2>1. StateMoves(s, u)
    BY <1>1, <1>6 DEF StateMoves, Established, Registered
  <2> QED
    BY <1>6, <2>1, FieldCalls
<1>7. Close(s) = IF ~Established(s) THEN x
                 ELSE IF ~s.fin_sent THEN SendFin(c)
                 ELSE IF s.fin_sent_acked THEN y
                 ELSE c
  BY DEF Close, t, c, x, y
<1>8. /\ Calls(n, s, g, x, g) /\ Calls(n, s, g, y, g) /\ Calls(n, s, g, c, g)
      /\ x.wrote = s.wrote /\ y.wrote = s.wrote /\ c.wrote = s.wrote
  BY <1>3, <1>4, <1>5, <1>6
<1>9. CASE Established(s) /\ ~s.fin_sent
  <2>1. SendOK(c)
    BY <1>1, <1>3, SameSendOK
  <2>2. Registered(c) /\ Established(c) /\ ~c.fin_sent
    BY <1>1, <1>3, <1>9 DEF Registered, Established, SameSend
  <2>3. Steady(n, c, g)
    BY <1>8, <2>1, <2>2, SteadyAfter
  <2>4. PICK h : Calls(n, c, g, SendFin(c), h)
    BY <2>2, <2>3, SendFinCalls
  <2>5. SocketType(SendFin(c)) /\ SendFin(c).wrote = c.wrote
    BY <2>1, <2>2, SendFinGrows DEF SendOK
  <2>6. Calls(n, s, g, SendFin(c), h)
    BY <1>1, <1>3, <1>8, <2>4, <2>5, CallsTransitive
  <2> QED
    BY <1>7, <1>8, <1>9, <2>5, <2>6
<1> QED
  BY <1>7, <1>8, <1>9

\* utp_shutdown.
LEMMA ShutdownCalls ==
    ASSUME ShortConnection, NEW n, NEW s, NEW g, Steady(n, s, g), NEW how
    PROVE  /\ Shutdown(s, how).wrote = s.wrote
           /\ \E h : Calls(n, s, g, Shutdown(s, how), h)
<1> DEFINE d == [s EXCEPT !.read_shutdown = TRUE]
           r == IF how # "WR" THEN d ELSE s
<1>1. SocketType(s) /\ SendOK(s) /\ Registered(s) /\ s.st # "UNINITIALIZED" /\ g.count \in Nat
  BY OpenType DEF Steady, Open
<1>2. /\ SocketType(d) /\ SameSend(s, d) /\ SameReading(s, d) /\ d.wrote = s.wrote
      /\ d.fin_sent_acked = s.fin_sent_acked /\ d.read_shutdown
      /\ d.ack_pending = s.ack_pending /\ d.out = s.out /\ d.st = s.st
  BY <1>1 DEF SocketType, Fields, SameSend, SameReading, SameRecv
<1> HIDE DEF d
<1>3. /\ SocketType(r) /\ SameSend(s, r) /\ SameReading(s, r) /\ r.wrote = s.wrote
      /\ r.fin_sent_acked = s.fin_sent_acked /\ (s.read_shutdown => r.read_shutdown)
      /\ r.ack_pending = s.ack_pending /\ r.out = s.out /\ r.st = s.st
  BY <1>1, <1>2 DEF SameSend, SameReading, SameRecv
<1>4. Shutdown(s, how) = IF Established(s) /\ how # "RD" /\ ~s.fin_sent THEN SendFin(r) ELSE r
  BY DEF Shutdown, d
<1> HIDE DEF r
<1>5. Calls(n, s, g, r, g)
  <2>1. StateMoves(s, r)
    BY <1>1, <1>3 DEF StateMoves, Established, Registered
  <2> QED
    BY <1>3, <2>1, FieldCalls
<1>6. CASE Established(s) /\ how # "RD" /\ ~s.fin_sent
  <2>1. SendOK(r)
    BY <1>1, <1>3, SameSendOK
  <2>2. Registered(r) /\ Established(r) /\ ~r.fin_sent
    BY <1>1, <1>3, <1>6 DEF Registered, Established, SameSend
  <2>3. Steady(n, r, g)
    BY <1>5, <2>1, <2>2, SteadyAfter
  <2>4. PICK h : Calls(n, r, g, SendFin(r), h)
    BY <2>2, <2>3, SendFinCalls
  <2>5. SocketType(SendFin(r)) /\ SendFin(r).wrote = r.wrote
    BY <2>1, <2>2, SendFinGrows DEF SendOK
  <2>6. Calls(n, s, g, SendFin(r), h)
    BY <1>1, <1>3, <1>5, <2>4, <2>5, CallsTransitive
  <2> QED
    BY <1>3, <1>4, <1>6, <2>5, <2>6
<1> QED
  BY <1>3, <1>4, <1>5, <1>6

\* utp_read_drained.
LEMMA ReadDrainedCalls ==
    ASSUME NEW n, NEW s, NEW g, Steady(n, s, g), s.unread > 0
    PROVE  ReadDrained(s).wrote = s.wrote /\ Calls(n, s, g, ReadDrained(s), g)
<1> DEFINE r == [s EXCEPT !.unread = 0]
           a == [r EXCEPT !.ack_pending = TRUE]
<1>1. SocketType(s) /\ SendOK(s) /\ Registered(s) /\ s.st # "UNINITIALIZED"
  BY OpenType DEF Steady, Open
<1>2. /\ SocketType(r) /\ SameSend(s, r) /\ Hears(s, r) /\ r.wrote = s.wrote
      /\ r.fin_sent_acked = s.fin_sent_acked /\ r.st = s.st /\ r.out = s.out
      /\ r.ack_nr = s.ack_nr
  BY <1>1 DEF SocketType, Fields, SameSend, Hears, SameRecv
<1> HIDE DEF r
<1>3. /\ SocketType(a) /\ SameSend(s, a) /\ Hears(s, a) /\ a.wrote = s.wrote
      /\ a.fin_sent_acked = s.fin_sent_acked /\ a.st = s.st /\ a.out = s.out
  BY <1>2 DEF SocketType, Fields, SameSend, Hears, SameRecv
<1> HIDE DEF a
<1>4. StateMoves(s, r) /\ StateMoves(s, a)
  BY <1>1, <1>2, <1>3 DEF StateMoves, Established, Registered
<1>5. /\ Emits(s, r) /\ Emits(s, a)
      /\ \A d \in r.out : d \in s.out \/ d.type = "STATE"
      /\ \A d \in a.out : d \in s.out \/ d.type = "STATE"
  BY <1>2, <1>3 DEF Emits
<1>6. Calls(n, s, g, r, g) /\ Calls(n, s, g, a, g)
  BY <1>2, <1>3, <1>4, <1>5, AsideCalls
<1>7. Calls(n, s, g, SendAckFor(r, r.ack_nr), g)
  BY <1>1, <1>2, AckCalls
<1>8. SendAckFor(r, r.ack_nr).wrote = s.wrote
  <2>1. SendOK(r) /\ r.ack_nr \in SeqNrs
    BY <1>1, <1>2, SameSendOK DEF SocketType
  <2> QED
    BY <1>2, <2>1, SendAckForKeeps DEF Keeps
<1>9. ReadDrained(s) \in {r, a, SendAckFor(r, r.ack_nr)}
  BY DEF ReadDrained, SendAck, ScheduleAck, r, a
<1> QED
  BY <1>2, <1>3, <1>6, <1>7, <1>8, <1>9

\* A RST, and an ICMP error.
LEMMA ErrorCalls ==
    ASSUME NEW n, NEW s, NEW g, Steady(n, s, g)
    PROVE  /\ Calls(n, s, g, OnReset(s), g) /\ Calls(n, s, g, OnIcmpError(s), g)
           /\ OnReset(s).wrote = s.wrote /\ OnIcmpError(s).wrote = s.wrote
<1>1. SocketType(s) /\ SendOK(s) /\ Registered(s) /\ s.st # "UNINITIALIZED"
  BY OpenType DEF Steady, Open
<1>2. ASSUME NEW st \in {"DESTROY", "RESET"}, NEW err
      PROVE  /\ Calls(n, s, g, [s EXCEPT !.st = st, !.err = err], g)
             /\ [s EXCEPT !.st = st, !.err = err].wrote = s.wrote
  <2> DEFINE u == [s EXCEPT !.st = st, !.err = err]
  <2>1. /\ SameSend(s, u) /\ SameReading(s, u) /\ u.wrote = s.wrote
        /\ u.fin_sent_acked = s.fin_sent_acked /\ u.read_shutdown = s.read_shutdown
        /\ u.ack_pending = s.ack_pending /\ u.out = s.out /\ u.st = st
    BY <1>1 DEF SocketType, Fields, SameSend, SameReading, SameRecv
  <2> HIDE DEF u
  <2>2. StateMoves(s, u)
    BY <1>1, <1>2, <2>1 DEF StateMoves, Established, Registered
  <2>3. Calls(n, s, g, u, g)
    BY <2>1, <2>2, FieldCalls
  <2> QED
    BY <2>1, <2>3 DEF u
<1> DEFINE st == IF s.close_requested THEN "DESTROY" ELSE "RESET"
           err == IF s.st = "SYN_SENT" THEN "ECONNREFUSED" ELSE "ECONNRESET"
<1>3. st \in {"DESTROY", "RESET"}
  OBVIOUS
<1>4. /\ OnReset(s) = [s EXCEPT !.st = st, !.err = "ECONNRESET"]
      /\ OnIcmpError(s) = [s EXCEPT !.st = st, !.err = err]
  BY DEF OnReset, OnIcmpError
<1> HIDE DEF st, err
<1>5. /\ Calls(n, s, g, [s EXCEPT !.st = st, !.err = "ECONNRESET"], g)
      /\ Calls(n, s, g, [s EXCEPT !.st = st, !.err = err], g)
      /\ [s EXCEPT !.st = st, !.err = "ECONNRESET"].wrote = s.wrote
      /\ [s EXCEPT !.st = st, !.err = err].wrote = s.wrote
  BY <1>2, <1>3
<1> QED
  BY <1>4, <1>5

\* An ACK, or a keep-alive.
LEMMA SendAckCalls ==
    ASSUME NEW n, NEW s, NEW g, Steady(n, s, g), s.ack_pending \/ Established(s)
    PROVE  /\ Calls(n, s, g, SendAck(s), g)
           /\ Established(s) => Calls(n, s, g, SendKeepAlive(s), g)
<1>1. SocketType(s)
  BY OpenType DEF Steady
<1>2. SameSend(s, s) /\ Hears(s, s)
  BY DEF SameSend, Hears, SameRecv
<1>3. \A ack \in {s.ack_nr, Wrap(s.ack_nr - 1)} : Calls(n, s, g, SendAckFor(s, ack), g)
  BY <1>1, <1>2, AckCalls
<1> QED
  BY <1>3 DEF SendAck, SendKeepAlive

\* check_timeouts.
LEMMA CheckTimeoutsCalls ==
    ASSUME ShortConnection, NEW n, NEW s, NEW g, SocketOK(s), Steady(n, s, g), NEW t
    PROVE  CheckTimeouts(s, t).wrote = s.wrote /\ Calls(n, s, g, CheckTimeouts(s, t), g)
<1> DEFINE Reached(u) == /\ SocketOK(u) /\ Calls(n, s, g, u, g) /\ Steady(n, u, g)
                         /\ u.wrote = s.wrote
           f == IF s.st # "DESTROY" THEN FlushPackets(s) ELSE s
           v == [f EXCEPT !.max_window_user = PACKET_SIZE]
           z == IF t.zero /\ f.max_window_user = 0 THEN v ELSE f
           ignore == t.probe /\ z.cwp = 1
           r == IF t.rto /\ z.rto_armed THEN RtoExpired(z, ignore) ELSE z
           w == BecomeWritable(r)
           k == SendKeepAlive(w)
<1>1. /\ SocketType(s) /\ SendOK(s) /\ Registered(s) /\ s.st # "UNINITIALIZED"
      /\ g.count \in Nat
  BY OpenType DEF Steady, Open
<1>2. ASSUME NEW u, Reached(u), NEW x, SocketOK(x), Calls(n, u, g, x, g), Registered(x),
             x.wrote = u.wrote
      PROVE  Reached(x)
  <2>1. SocketType(u) /\ SocketType(x) /\ SendOK(x)
    BY <1>2 DEF SocketOK, SendOK
  <2>2. Calls(n, s, g, x, g)
    BY <1>1, <1>2, <2>1, CallsTransitive
  <2>3. Steady(n, x, g)
    BY <1>2, <2>1, SteadyAfter
  <2> QED
    BY <1>2, <2>2, <2>3
<1>3. ASSUME NEW u, Reached(u), NEW x, SocketOK(x), Serves(u, x, {}), x.st \in {u.st, "CONNECTED"}
      PROVE  Reached(x)
  <2>1. SendOK(x)
    BY <1>3 DEF SocketOK
  <2>2. Calls(n, u, g, x, g)
    BY <1>3, <2>1, ServesCalls
  <2>3. Registered(x)
    BY <1>3 DEF Steady, Open, Registered
  <2>4. x.wrote = u.wrote
    BY <1>3 DEF Serves, SameStream
  <2> HIDE DEF Reached
  <2> QED
    BY <1>2, <1>3, <2>2, <2>3, <2>4
<1>4. Reached(s)
  <2>1. Serves(s, s, {})
    BY <1>1, ServesReflexive
  <2>2. Calls(n, s, g, s, g)
    BY <1>1, <2>1, ServesCalls
  <2> QED
    BY <2>2
<1>5. \/ CheckTimeouts(s, t) \in {f, r, w}
      \/ Established(w) /\ CheckTimeouts(s, t) = k
  BY DEF CheckTimeouts
<1> HIDE DEF Reached
<1>6. Reached(f)
  <2> DEFINE x == FlushPackets(s)
  <2>1. SendOK(x) /\ Keeps(s, x) /\ Serves(s, x, {})
    BY <1>1, FlushKeeps, FlushServes
  <2>2. f \in {s, x}
    OBVIOUS
  <2> HIDE DEF x, f
  <2>3. SocketOK(x) /\ x.st = s.st
    BY <2>1, KeepsOK DEF Keeps
  <2>4. Reached(x)
    BY <1>3, <1>4, <2>1, <2>3
  <2> QED
    BY <1>4, <2>2, <2>4
<1>7. ASSUME NEW u, Reached(u)
      PROVE  /\ SocketOK(u) /\ SendOK(u) /\ Headed(u) /\ SocketType(u) /\ Steady(n, u, g)
             /\ u.st # "UNINITIALIZED" /\ Registered(u)
  BY <1>7 DEF Reached, SocketOK, SendOK, Steady, Open, Registered
<1> HIDE DEF f
<1>8. Reached(z)
  <2>1. PACKET_SIZE \in Nat
    BY SendAssumption
  <2>2. SocketType(f) /\ SendOK(f) /\ SocketOK(f) /\ f.st # "UNINITIALIZED"
    BY <1>6, <1>7
  <2>3. /\ SocketType(v) /\ SameSocket(f, v)
    BY <2>1, <2>2 DEF SocketType, Fields, SameSocket, SameSend, SameStream, SameRecv
  <2>4. z \in {f, v}
    OBVIOUS
  <2> HIDE DEF v, z
  <2>5. SendOK(v) /\ Keeps(f, v) /\ Serves(f, v, {})
    BY <2>2, <2>3, AsideServed
  <2>6. SocketOK(v) /\ v.st = f.st
    BY <2>2, <2>5, KeepsOK DEF Keeps
  <2>7. Reached(v)
    BY <1>3, <1>6, <2>5, <2>6
  <2> QED
    BY <1>6, <2>4, <2>7
<1> HIDE DEF z
<1>9. Reached(r)
  <2>1. ignore \in BOOLEAN
    OBVIOUS
  <2> HIDE DEF ignore
  <2> DEFINE st == IF z.st = "SYN_RECV" \/ z.close_requested THEN "DESTROY" ELSE "RESET"
             err == "ETIMEDOUT"
             u == [z EXCEPT !.st = st, !.err = err]
             x == RetransmitTimeout(z, ignore)
             y == RtoExpired(z, ignore)
  <2>2. SocketOK(y)
    BY <1>7, <1>8, <2>1, RtoExpiredOK
  <2>3. y = u \/ (~GivesUp(z) /\ y = x)
    BY DEF RtoExpired
  <2>4. /\ SocketType(z) /\ SendOK(z) /\ Headed(z) /\ Steady(n, z, g)
        /\ z.st # "UNINITIALIZED" /\ Registered(z)
    BY <1>7, <1>8
  <2>5. st \in {"DESTROY", "RESET"}
    OBVIOUS
  <2> HIDE DEF st, err
  <2>6. /\ SameSend(z, u) /\ SameReading(z, u) /\ u.wrote = z.wrote
        /\ u.fin_sent_acked = z.fin_sent_acked /\ u.read_shutdown = z.read_shutdown
        /\ u.ack_pending = z.ack_pending /\ u.out = z.out /\ u.st = st
    BY <2>4 DEF SocketType, Fields, SameSend, SameReading, SameRecv
  <2> HIDE DEF u, x, y
  <2>7. ASSUME y = u PROVE Reached(y)
    <3>1. StateMoves(z, y) /\ Registered(y)
      BY <2>4, <2>5, <2>6, <2>7 DEF StateMoves, Established, Registered
    <3>2. Calls(n, z, g, y, g)
      BY <2>4, <2>6, <2>7, <3>1, FieldCalls
    <3> QED
      BY <1>2, <1>8, <2>2, <2>6, <2>7, <3>1, <3>2
  <2>8. ASSUME ~GivesUp(z), y = x PROVE Reached(y)
    <3>1. z.retransmit_count < RETRANSMIT_LIMIT
      BY <2>4, <2>8, SocketAssumption DEF GivesUp, SocketType
    <3>2. Serves(z, y, {}) /\ y.st = z.st
      BY <2>1, <2>4, <2>8, <3>1, RetransmitTimeoutServes, RetransmitTimeoutKeeps DEF Keeps, x
    <3> QED
      BY <1>3, <1>8, <2>2, <3>2
  <2>9. Reached(y)
    BY <2>3, <2>7, <2>8
  <2> QED
    BY <1>8, <2>9 DEF y
<1> HIDE DEF r
<1>10. Reached(w)
  <2>1. SocketOK(r) /\ SendOK(r) /\ r.st # "UNINITIALIZED"
    BY <1>7, <1>9
  <2>2. SocketOK(w) /\ Serves(r, w, {})
    BY <2>1, BecomeWritableOK, BecomeWritableServes
  <2>3. w.st \in {r.st, "CONNECTED"}
    BY <2>1 DEF BecomeWritable, SendOK, SocketType, Fields
  <2> HIDE DEF w
  <2> QED
    BY <1>3, <1>9, <2>2, <2>3
<1> HIDE DEF w
<1>11. ASSUME Established(w) PROVE Calls(n, s, g, k, g) /\ k.wrote = s.wrote
  <2>1. SocketType(w) /\ SocketOK(w) /\ Steady(n, w, g) /\ SendOK(w)
    BY <1>7, <1>10
  <2>2. Calls(n, w, g, k, g)
    BY <1>11, <2>1, SendAckCalls
  <2>3. SocketType(k) /\ k.wrote = w.wrote
    BY <2>1, SendKeepAliveKeeps DEF SendOK, Keeps
  <2> HIDE DEF k
  <2> QED
    BY <1>1, <1>10, <2>1, <2>2, <2>3, CallsTransitive DEF Reached
<1>12. /\ Calls(n, s, g, f, g) /\ Calls(n, s, g, r, g) /\ Calls(n, s, g, w, g)
       /\ f.wrote = s.wrote /\ r.wrote = s.wrote /\ w.wrote = s.wrote
  BY <1>6, <1>9, <1>10 DEF Reached
<1> QED
  BY <1>5, <1>11, <1>12
-----------------------------------------------------------------------------
(* One step of a node *)

\* Queueing does not touch what the receiver has.
LEMMA SentPieces ==
    ASSUME NEW n \in Nodes, NEW s, NEW g, NEW w, StreamOK(n, g), Sending(n, s, g, w),
           NEW t, NEW h, Extends(n, s, g, t, h)
    PROVE  /\ g.count \in Nat /\ g.next \in Nat /\ g.next <= g.count
           /\ \A k \in g.has : k \in 0 .. g.count - 1 /\ Piece(h, k) = Piece(g, k)
           /\ \A k \in 0 .. g.next - 1 : k \in g.has
<1>1. g.count \in Nat /\ g.next \in Nat /\ g.next <= g.count
  BY DEF StreamOK, Streams
<1>2. \A k \in g.has : k \in 0 .. g.count - 1 /\ Piece(h, k) = Piece(g, k)
  BY DEF StreamOK, Sending, Extends
<1> QED
  BY <1>1, <1>2 DEF StreamOK

\* What the receiver of a stream knows stays true when the stream grows at its end.
LEMMA ReceivingExtends ==
    ASSUME NEW n \in Nodes, NEW s, NEW g, NEW w, StreamOK(n, g), Sending(n, s, g, w),
           NEW t, NEW h, StreamOK(n, h), Extends(n, s, g, t, h),
           NEW u, SocketType(u), Receiving(n, u, g, s.fin_sent)
    PROVE  Receiving(n, u, h, t.fin_sent)
<1>1. /\ g.count \in Nat /\ g.next \in Nat /\ g.next <= g.count /\ h.count \in Nat
      /\ \A k \in g.has : k \in 0 .. g.count - 1 /\ Piece(h, k) = Piece(g, k)
      /\ \A k \in 0 .. g.next - 1 : k \in g.has
  <2>1. h.count \in Nat
    BY DEF StreamOK, Streams
  <2> QED
    BY <2>1, SentPieces
<1>2. /\ h.open = g.open /\ h.next = g.next /\ h.has = g.has /\ g.count <= h.count
      /\ (s.fin_sent => t.fin_sent /\ h.count = g.count)
      /\ (t.fin_sent /\ ~s.fin_sent => h.count > g.count)
  BY DEF Extends
<1>3. u.delivered = [i \in 1 .. Len(u.delivered) |-> Piece(h, First(n) + i - 1)]
  <2> DEFINE d == u.delivered
  <2>1. Len(d) \in Nat /\ First(n) \in {0, 1}
    BY FirstType, LenProperties DEF SocketType
  <2>2. d = [i \in 1 .. Len(d) |-> Piece(g, First(n) + i - 1)]
    BY DEF Receiving
  <2>3. Len(d) > 0 => First(n) + Len(d) <= g.next
    BY DEF Receiving
  <2> HIDE DEF d
  <2>4. \A i \in 1 .. Len(d) : Piece(g, First(n) + i - 1) = Piece(h, First(n) + i - 1)
    <3> TAKE i \in 1 .. Len(d)
    <3>1. First(n) + i - 1 \in 0 .. g.next - 1
      BY <1>1, <2>1, <2>3
    <3> QED
      BY <1>1, <3>1
  <2> QED
    BY <2>2, <2>4 DEF d
<1>4. (t.fin_sent /\ h.next = h.count) <=> (s.fin_sent /\ g.next = g.count)
  BY <1>1, <1>2
<1>5. /\ Behind(h) = Behind(g)
      /\ (t.fin_sent /\ h.count - 1 \in h.has) => (s.fin_sent /\ g.count - 1 \in g.has)
  <2>1. ASSUME ~s.fin_sent, t.fin_sent PROVE h.count - 1 \notin h.has
    BY <1>1, <1>2, <2>1
  <2> QED
    BY <1>2, <2>1 DEF Behind
<1>6. \A q \in SeqNrs : \A k \in g.has : u.inbuf[q] = Piece(g, k) => u.inbuf[q] = Piece(h, k)
  BY <1>1
<1> HIDE DEF Piece
<1>7. ASSUME Registered(u), h.open
      PROVE  /\ u.ack_nr = No(n, h.next - 1)
             /\ \A q \in SeqNrs : u.inbuf[q] # NULL =>
                  \E k \in h.has : q = No(n, k) /\ u.inbuf[q] = Piece(h, k)
             /\ \A k \in Behind(h) : u.inbuf[No(n, k)] # NULL
             /\ Cardinality(Behind(h)) <= u.reorder_count
             /\ ~u.read_shutdown => First(n) + Len(u.delivered) = h.next
             /\ u.got_fin => t.fin_sent /\ u.eof_pkt = No(n, h.count - 1)
             /\ t.fin_sent /\ h.count - 1 \in h.has => u.got_fin
  BY <1>2, <1>5, <1>6, <1>7 DEF Receiving
<1>8. Len(u.delivered) > 0 => First(n) + Len(u.delivered) <= h.next
  BY <1>2 DEF Receiving
<1>9. u.got_fin_reached <=> t.fin_sent /\ h.next = h.count
  BY <1>4 DEF Receiving
<1> QED
  BY <1>3, <1>7, <1>8, <1>9 DEF Receiving

\* What a datagram says stays true.
LEMMA ClaimExtends ==
    ASSUME NEW n \in Nodes, NEW s, NEW g, StreamOK(n, g), s.fin_sent \in BOOLEAN,
           NEW t, NEW h, Extends(n, s, g, t, h), t.fin_sent \in BOOLEAN, h.count \in Nat,
           NEW p, DataClaim(n, s, g, p)
    PROVE  DataClaim(n, t, h, p)
<1> SUFFICES ASSUME p.type \in {"SYN", "DATA", "FIN"},
                    NEW k \in 0 .. g.count - 1,
                    p.seq = No(n, k), IsPacket(n, g, s.fin_sent, k, p),
                    ~Unsent(s.outbuf[No(n, k)])
             PROVE  \E j \in 0 .. h.count - 1 :
                      /\ p.seq = No(n, j) /\ IsPacket(n, h, t.fin_sent, j, p)
                      /\ ~Unsent(t.outbuf[No(n, j)])
  BY DEF DataClaim
<1>1. /\ g.count \in Nat /\ g.count <= h.count
      /\ (s.fin_sent => t.fin_sent /\ h.count = g.count)
      /\ (t.fin_sent /\ ~s.fin_sent => h.count > g.count)
      /\ ~Unsent(t.outbuf[No(n, k)]) /\ Piece(h, k) = Piece(g, k)
  BY DEF Extends, StreamOK, Streams
<1>2. k \in 0 .. h.count - 1
  BY <1>1
<1>3. (t.fin_sent /\ k = h.count - 1) <=> (s.fin_sent /\ k = g.count - 1)
  BY <1>1
<1>4. IsPacket(n, h, t.fin_sent, k, p)
  BY <1>1, <1>3 DEF IsPacket
<1> QED
  BY <1>1, <1>2, <1>4

\* The receiver of stream g of node m (socket u) heard more of it, f.
Advances(m, u, g, f) ==
  /\ f.count = g.count /\ f.cut = g.cut /\ g.next <= f.next /\ g.has \subseteq f.has
  /\ g.open => f.open
  /\ \A k \in f.has : ~Unsent(u.outbuf[No(m, k)])

\* What the writer of a stream knows stays true when its receiver has more of it.
LEMMA SendingAdvances ==
    ASSUME NEW m \in Nodes, NEW u, NEW g, NEW f, NEW w, StreamOK(m, g), StreamOK(m, f),
           Sending(m, u, g, w), Advances(m, u, g, f)
    PROVE  Sending(m, u, f, w)
<1>1. /\ f.count = g.count /\ f.cut = g.cut /\ g.next <= f.next /\ g.has \subseteq f.has
      /\ f.next <= f.count /\ f.next \in Nat /\ g.next \in Nat /\ f.count \in Nat
  BY DEF Advances, StreamOK, Streams
<1>2. \A fin, k, p : IsPacket(m, f, fin, k, p) <=> IsPacket(m, g, fin, k, p)
  BY <1>1 DEF IsPacket, Piece
<1>3. \A p : DataClaim(m, u, g, p) => DataClaim(m, u, f, p)
  BY <1>1, <1>2 DEF DataClaim
<1>4. u.fin_sent_acked => u.fin_sent /\ f.next = f.count
  BY <1>1 DEF Sending
<1>5. \A k \in f.has \cup 0 .. First(m) - 1 : ~Unsent(u.outbuf[No(m, k)])
  BY DEF Sending, Advances
<1>6. Registered(u) =>
       /\ u.seq_nr = No(m, f.count) /\ u.cwp <= f.count /\ f.count >= First(m)
       /\ \A k \in 0 .. f.count - 1 :
            LET p == u.outbuf[No(m, k)]
            IN  IF p = NULL THEN k \in f.has ELSE IsPacket(m, f, u.fin_sent, k, p)
  BY <1>1, <1>2 DEF Sending
<1>7. /\ f.cut[f.count] = w
      /\ f.count <= w + First(m) + (IF u.fin_sent THEN 1 ELSE 0)
      /\ u.fin_sent => f.count > First(m)
      /\ \A p \in u.out : DataClaim(m, u, f, p)
  BY <1>1, <1>3 DEF Sending
<1> QED
  BY <1>4, <1>5, <1>6, <1>7 DEF Sending

\* So does what the datagrams of both ends say of it.
LEMMA ClaimAdvances ==
    ASSUME NEW m \in Nodes, NEW u, NEW g, NEW f, StreamOK(m, g), StreamOK(m, f),
           Advances(m, u, g, f), NEW p
    PROVE  /\ DataClaim(m, u, g, p) => DataClaim(m, u, f, p)
           /\ AckClaim(m, g, p) => AckClaim(m, f, p)
<1>1. /\ f.count = g.count /\ f.cut = g.cut /\ g.next <= f.next /\ g.has \subseteq f.has
      /\ f.next \in Nat /\ g.next \in Nat
  BY DEF Advances, StreamOK, Streams
<1>2. \A fin, k : IsPacket(m, f, fin, k, p) <=> IsPacket(m, g, fin, k, p)
  BY <1>1 DEF IsPacket, Piece
<1>3. \A a \in -1 .. g.next : a \in -1 .. f.next
  BY <1>1
<1> QED
  BY <1>1, <1>2, <1>3 DEF DataClaim, AckClaim

\* After a call at node n a socket whose peer has said nothing yet has said nothing
\* but SYN or SYN-ACK; h is the stream of n, f that of its peer.
Opened(n, t, h, f) ==
  /\ t.st # "UNINITIALIZED"
  /\ n = "A" => IF f.open THEN t.st # "SYN_SENT" ELSE Unsynced(t)
  /\ n = "B" => /\ f.open /\ t.st # "SYN_SENT"
                /\ ~h.open => /\ ~Established(t) /\ h.count = 0
                              /\ \A p \in t.out : p.type = "STATE" /\ p.seq = ISN["B"]

\* The call at node n, from s with stream g, ends with t and stream h; f for e is
\* the stream of the peer, whose socket is u.
Ends(n, s, g, t, h, u, e, f) ==
  /\ StreamOK(n, h) /\ Sending(n, t, h, t.wrote) /\ t.wrote <= MaxWrite[n]
  /\ Extends(n, s, g, t, h)
  /\ StreamOK(Peer(n), f) /\ Advances(Peer(n), u, e, f)
  /\ Receiving(Peer(n), t, f, u.fin_sent)
  /\ \A p \in t.out : AckClaim(Peer(n), f, p)
  /\ Opened(n, t, h, f)

\* A call that ends well for both streams of its node keeps the invariant: what it sent
\* joins the datagrams on their way, and everything else still means what it meant.
LEMMA CommitStreams ==
    ASSUME ConnectionInv, NEW g \in [Nodes -> Streams], StreamBody(g),
           NEW n \in Nodes, NEW t, SocketType(t), NEW R, Commit(n, t, R),
           NEW h, NEW f, Ends(n, sock[n], g[n], t, h, sock[Peer(n)], g[Peer(n)], f)
    PROVE  StreamInv'
<1> DEFINE m == Peer(n)
           u == sock[m]
           none == {}
           s2 == [t EXCEPT !.out = none]
           g2 == [k \in Nodes |-> IF k = n THEN h ELSE f]
<1>1. m \in Nodes /\ m # n /\ Nodes = {n, m} /\ (n = "A" <=> m = "B") /\ Peer(m) = n
  BY DEF Nodes, Peer
<1>2. /\ sock'[n] = s2 /\ sock'[m] = u
      /\ \A x \in net' : x \in net \/ (x.to = m /\ x.p \in t.out)
  <2>1. sock = [k \in Nodes |-> sock[k]]
    BY DEF ConnectionInv
  <2>2. sock' = [sock EXCEPT ![n] = s2]
    BY DEF Commit
  <2>3. sock'[n] = s2 /\ sock'[m] = u
    BY <1>1, <2>1, <2>2
  <2>4. PICK S \in SUBSET {[to |-> Peer(n), p |-> p] : p \in t.out} : net' = (net \ R) \cup S
    BY DEF Commit, Sends
  <2> QED
    BY <2>3, <2>4
<1>3. /\ SocketType(sock[n]) /\ SocketType(u) /\ \A x \in net : x.to \in Nodes
  BY <1>1 DEF ConnectionInv, SocketOK, SendOK, Packets
<1>4. \A k \in Nodes :
        /\ StreamOK(k, g[k])
        /\ Sending(k, sock[k], g[k], sock[k].wrote) /\ sock[k].wrote <= MaxWrite[k]
        /\ Receiving(k, sock[Peer(k)], g[k], sock[k].fin_sent)
        /\ \A x \in net : IF x.to = k THEN AckClaim(k, g[k], x.p)
                          ELSE DataClaim(k, sock[k], g[k], x.p)
  BY DEF StreamBody
<1>5. /\ StreamOK(n, h) /\ Sending(n, t, h, t.wrote) /\ t.wrote <= MaxWrite[n]
      /\ Extends(n, sock[n], g[n], t, h)
      /\ StreamOK(m, f) /\ Advances(m, u, g[m], f)
      /\ Receiving(m, t, f, u.fin_sent)
      /\ \A p \in t.out : AckClaim(m, f, p)
      /\ Opened(n, t, h, f)
  BY DEF Ends
<1>6. g2[n] = h /\ g2[m] = f /\ g2 \in [Nodes -> Streams]
  BY <1>1, <1>5 DEF StreamOK
<1>7. /\ s2.out = {} /\ s2.st = t.st /\ s2.outbuf = t.outbuf /\ s2.seq_nr = t.seq_nr
      /\ s2.cwp = t.cwp /\ s2.fin_sent = t.fin_sent /\ s2.fin_sent_acked = t.fin_sent_acked
      /\ s2.wrote = t.wrote /\ s2.delivered = t.delivered /\ s2.inbuf = t.inbuf
      /\ s2.ack_nr = t.ack_nr /\ s2.reorder_count = t.reorder_count
      /\ s2.got_fin = t.got_fin /\ s2.got_fin_reached = t.got_fin_reached
      /\ s2.eof_pkt = t.eof_pkt /\ s2.read_shutdown = t.read_shutdown
      /\ s2.unread = t.unread /\ s2.ack_pending = t.ack_pending
  BY DEF SocketType, Fields
<1> HIDE DEF s2, g2, m
<1> DEFINE v == sock'[n]
<1>8. v = s2 /\ sock'[m] = sock[m]
  BY <1>2
<1>9. /\ Sending(n, s2, h, s2.wrote) /\ s2.wrote <= MaxWrite[n]
      /\ Receiving(m, s2, f, u.fin_sent)
  <2>1. Sending(n, s2, h, s2.wrote)
    BY <1>5, <1>7 DEF Sending, Registered, DataClaim
  <2>2. Receiving(m, s2, f, u.fin_sent)
    BY <1>5, <1>7 DEF Receiving, Registered
  <2> QED
    BY <1>5, <1>7, <2>1, <2>2
<1>10. Receiving(n, u, h, s2.fin_sent)
  <2>1. Peer(n) = m
    BY DEF m
  <2>2. StreamOK(n, g[n]) /\ Sending(n, sock[n], g[n], sock[n].wrote)
        /\ Receiving(n, u, g[n], sock[n].fin_sent)
    BY <1>4, <2>1
  <2>3. Receiving(n, u, h, t.fin_sent)
    BY <1>3, <1>5, <2>2, ReceivingExtends
  <2> QED
    BY <1>7, <2>3
<1>11. Sending(m, u, f, u.wrote) /\ u.wrote <= MaxWrite[m]
  BY <1>1, <1>4, <1>5, SendingAdvances
<1>12. ASSUME NEW x \in net'
       PROVE  /\ IF x.to = n THEN AckClaim(n, h, x.p) ELSE DataClaim(n, s2, h, x.p)
              /\ IF x.to = m THEN AckClaim(m, f, x.p) ELSE DataClaim(m, u, f, x.p)
  <2>1. \A p : DataClaim(n, t, h, p) => DataClaim(n, s2, h, p)
    BY <1>7 DEF DataClaim
  <2>2. CASE x \in net
    <3>1. x.to \in {n, m}
      BY <1>1, <1>3, <2>2
    <3>2. AckClaim(n, g[n], x.p) => AckClaim(n, h, x.p)
      BY <1>5 DEF AckClaim, Extends
    <3>3. DataClaim(n, sock[n], g[n], x.p) => DataClaim(n, s2, h, x.p)
      <4>1. /\ sock[n].fin_sent \in BOOLEAN /\ t.fin_sent \in BOOLEAN /\ h.count \in Nat
            /\ StreamOK(n, g[n])
        BY <1>3, <1>4, <1>5 DEF SocketType, StreamOK, Streams
      <4> QED
        BY <1>5, <2>1, <4>1, ClaimExtends
    <3>4. /\ AckClaim(m, g[m], x.p) => AckClaim(m, f, x.p)
          /\ DataClaim(m, u, g[m], x.p) => DataClaim(m, u, f, x.p)
      BY <1>1, <1>4, <1>5, ClaimAdvances
    <3>5. CASE x.to = n
      BY <1>1, <1>4, <2>2, <3>2, <3>4, <3>5
    <3>6. CASE x.to = m
      BY <1>1, <1>4, <2>2, <3>3, <3>4, <3>6
    <3> QED
      BY <3>1, <3>5, <3>6
  <2>3. CASE x.to = m /\ x.p \in t.out
    <3>1. DataClaim(n, t, h, x.p)
      BY <1>5, <2>3 DEF Sending
    <3> QED
      BY <1>1, <1>5, <2>1, <2>3, <3>1
  <2> QED
    BY <1>2, <2>2, <2>3
<1>13. Opening(g2)'
  <2>1. Opening(g)
    BY DEF StreamBody
  <2>2. h.open = g[n].open /\ f.count = g[m].count /\ (g[m].open => f.open)
    BY <1>5 DEF Extends, Advances
  <2>3. s2.st # "UNINITIALIZED"
    BY <1>5, <1>7 DEF Opened
  <2>4. Established(s2) <=> Established(t)
    BY <1>7 DEF Established
  <2>5. ASSUME n = "A" PROVE Opening(g2)'
    <3>1. m = "B"
      BY <1>1, <2>5
    <3>2. ~f.open => Unsynced(s2) /\ \A p \in t.out : p.type = "SYN"
      BY <1>5, <1>7, <2>4, <2>5 DEF Opened, Unsynced
    <3>3. f.open => s2.st # "SYN_SENT"
      BY <1>5, <1>7, <2>5 DEF Opened
    <3>4. ~f.open => /\ ~Established(u) /\ f.count = 0
                     /\ \A x \in net : IF x.to = "B" THEN x.p.type \in {"SYN", "RESET"}
                                       ELSE \/ x.p.type = "RESET"
                                            \/ (x.p.type = "STATE" /\ x.p.seq = ISN["B"])
      BY <2>1, <2>2, <3>1 DEF Opening
    <3>5. ~f.open => \A x \in net' : IF x.to = "B" THEN x.p.type \in {"SYN", "RESET"}
                                     ELSE \/ x.p.type = "RESET"
                                          \/ (x.p.type = "STATE" /\ x.p.seq = ISN["B"])
      BY <1>2, <3>1, <3>2, <3>4
    <3>6. h.open <=> u.st # "UNINITIALIZED"
      BY <2>1, <2>2, <2>5, <3>1 DEF Opening
    <3>7. u.st = "UNINITIALIZED" => u = NewSocket /\ f.count = 0
      BY <2>1, <2>2, <3>1, <1>1 DEF Opening
    <3>8. sock'["A"] = s2 /\ sock'["B"] = u /\ g2["A"] = h /\ g2["B"] = f
      BY <1>2, <1>6, <2>5, <3>1
    <3>9. u.st # "SYN_SENT"
      BY <2>1, <3>1 DEF Opening
    <3> QED
      BY <1>1, <2>3, <2>5, <3>1, <3>2, <3>3, <3>4, <3>5, <3>6, <3>7, <3>8, <3>9 DEF Opening
  <2>6. ASSUME n = "B" PROVE Opening(g2)'
    <3>1. m = "A"
      BY <1>1, <2>6 DEF Nodes
    <3>2. /\ f.open
          /\ ~h.open => /\ ~Established(s2) /\ h.count = 0
                        /\ \A p \in t.out : p.type = "STATE" /\ p.seq = ISN["B"]
      BY <1>5, <2>4, <2>6 DEF Opened
    <3>3. ~h.open => Unsynced(u)
      BY <2>1, <2>2, <2>6, <3>1 DEF Opening
    <3>4. h.open => u.st \notin {"UNINITIALIZED", "SYN_SENT"}
      BY <2>1, <2>2, <2>6, <3>1 DEF Opening
    <3>5. ~h.open => \A x \in net : IF x.to = "B" THEN x.p.type \in {"SYN", "RESET"}
                                    ELSE \/ x.p.type = "RESET"
                                         \/ (x.p.type = "STATE" /\ x.p.seq = ISN["B"])
      BY <2>1, <2>2, <2>6 DEF Opening
    <3>6. ~h.open => \A x \in net' : IF x.to = "B" THEN x.p.type \in {"SYN", "RESET"}
                                     ELSE \/ x.p.type = "RESET"
                                          \/ (x.p.type = "STATE" /\ x.p.seq = ISN["B"])
      BY <1>2, <3>1, <3>2, <3>5
    <3>7. u.st = "UNINITIALIZED" => u = NewSocket /\ f.count = 0
      BY <2>1, <2>2, <3>1, <1>1 DEF Opening
    <3>8. sock'["A"] = u /\ sock'["B"] = s2 /\ g2["A"] = f /\ g2["B"] = h
      BY <1>2, <1>6, <2>6, <3>1
    <3>9. s2.st # "SYN_SENT"
      BY <1>5, <1>7, <2>6 DEF Opened
    <3> QED
      BY <1>1, <2>3, <2>6, <3>1, <3>2, <3>3, <3>4, <3>6, <3>7, <3>8, <3>9 DEF Opening
  <2> QED
    BY <2>5, <2>6 DEF Nodes
<1>14. StreamBody(g2)'
  <2>1. \A k \in Nodes :
         /\ StreamOK(k, g2[k])
         /\ Sending(k, sock'[k], g2[k], sock'[k].wrote) /\ sock'[k].wrote <= MaxWrite[k]
         /\ Receiving(k, sock'[Peer(k)], g2[k], sock'[k].fin_sent)
         /\ \A x \in net' : IF x.to = k THEN AckClaim(k, g2[k], x.p)
                            ELSE DataClaim(k, sock'[k], g2[k], x.p)
    <3> TAKE k \in Nodes
    <3>1. CASE k = n
      <4>1. Peer(k) = m
        BY <3>1 DEF m
      <4> QED
        BY <1>2, <1>5, <1>6, <1>9, <1>10, <1>12, <3>1, <4>1
    <3>2. CASE k = m
      <4>1. Peer(k) = n
        BY <1>1, <3>2
      <4> QED
        BY <1>2, <1>5, <1>6, <1>9, <1>11, <1>12, <3>2, <4>1
    <3> QED
      BY <1>1, <3>1, <3>2
  <2> QED
    BY <1>13, <2>1 DEF StreamBody
<1> QED
  BY <1>6, <1>14 DEF StreamInv

\* Neither socket changes, and nothing but a RST comes into the network.
LEMMA NothingMoves ==
    ASSUME NEW g \in [Nodes -> Streams], StreamBody(g), sock' = sock,
           \A x \in net' : x \in net \/ x.p.type = "RESET"
    PROVE  StreamInv'
<1>1. \A n \in Nodes : \A x \in net' : IF x.to = n THEN AckClaim(n, g[n], x.p)
                                       ELSE DataClaim(n, sock[n], g[n], x.p)
  <2> TAKE n \in Nodes
  <2> TAKE x \in net'
  <2>1. CASE x \in net
    BY <2>1 DEF StreamBody
  <2>2. CASE x.p.type = "RESET"
    BY <2>2 DEF AckClaim, DataClaim
  <2> QED
    BY <2>1, <2>2
<1>2. Opening(g)'
  BY DEF StreamBody, Opening
<1>3. StreamBody(g)'
  <2>1. \A n \in Nodes :
         /\ StreamOK(n, g[n])
         /\ Sending(n, sock'[n], g[n], sock'[n].wrote) /\ sock'[n].wrote <= MaxWrite[n]
         /\ Receiving(n, sock'[Peer(n)], g[n], sock'[n].fin_sent)
         /\ \A x \in net' : IF x.to = n THEN AckClaim(n, g[n], x.p)
                            ELSE DataClaim(n, sock'[n], g[n], x.p)
    BY <1>1 DEF StreamBody
  <2> QED
    BY <1>2, <2>1 DEF StreamBody
<1> QED
  BY <1>3 DEF StreamInv

\* What is known of the two halves of the socket of a node.
LEMMA StreamFacts ==
    ASSUME ConnectionInv, NEW g \in [Nodes -> Streams], StreamBody(g), NEW n \in Nodes
    PROVE  LET s == sock[n]  m == Peer(n)  u == sock[m]
           IN  /\ m \in Nodes /\ Peer(m) = n /\ m # n
               /\ SocketOK(s) /\ SendOK(s) /\ SocketType(s) /\ s.out = {}
               /\ SocketOK(u) /\ SendOK(u) /\ SocketType(u)
               /\ StreamOK(n, g[n]) /\ Sending(n, s, g[n], s.wrote) /\ s.wrote <= MaxWrite[n]
               /\ StreamOK(m, g[m]) /\ Sending(m, u, g[m], u.wrote) /\ u.wrote <= MaxWrite[m]
               /\ Receiving(m, s, g[m], u.fin_sent)
               /\ Advances(m, u, g[m], g[m])
<1>1. Peer(n) \in Nodes /\ Peer(Peer(n)) = n /\ Peer(n) # n
  BY DEF Nodes, Peer
<1>2. \A k \in Nodes : SocketOK(sock[k]) /\ SendOK(sock[k]) /\ SocketType(sock[k]) /\ sock[k].out = {}
  BY DEF ConnectionInv, SocketOK, SendOK
<1>3. \A k \in Nodes :
        /\ StreamOK(k, g[k])
        /\ Sending(k, sock[k], g[k], sock[k].wrote) /\ sock[k].wrote <= MaxWrite[k]
        /\ Receiving(k, sock[Peer(k)], g[k], sock[k].fin_sent)
  BY DEF StreamBody
<1>4. Advances(Peer(n), sock[Peer(n)], g[Peer(n)], g[Peer(n)])
  <2>1. g[Peer(n)].next <= g[Peer(n)].next
    BY <1>1, <1>3 DEF StreamOK, Streams
  <2> QED
    BY <1>1, <1>3, <2>1 DEF Advances, Sending
<1> QED
  BY <1>1, <1>2, <1>3, <1>4

\* The socket may rely on its half of the invariant.
LEMMA SteadyNow ==
    ASSUME ShortConnection, ConnectionInv, NEW g \in [Nodes -> Streams], StreamBody(g),
           NEW n \in Nodes, Registered(sock[n])
    PROVE  Steady(n, sock[n], g[n])
<1>1. /\ SendOK(sock[n]) /\ SocketType(sock[n]) /\ StreamOK(n, g[n])
      /\ Sending(n, sock[n], g[n], sock[n].wrote) /\ sock[n].wrote <= MaxWrite[n]
  BY StreamFacts
<1>2. sock[n].wrote \in Nat
  BY <1>1 DEF SocketType
<1>3. g[n].count + 1 < SEQ_MOD
  BY <1>1, <1>2, CountBound
<1> QED
  BY <1>1, <1>2, <1>3 DEF Steady, Open

\* The initiator that has not heard of its peer has a SYN in its window, or nothing.
LEMMA OnlySyn ==
    ASSUME NEW t, NEW h, StreamOK("A", h), Sending("A", t, h, t.wrote),
           t.wrote = 0, ~t.fin_sent, NEW d \in t.out, d.type \in {"SYN", "DATA", "FIN"}
    PROVE  d.type = "SYN"
<1>1. h.count \in Nat /\ h.count <= 1
  BY DEF StreamOK, Streams, Sending, First
<1>2. DataClaim("A", t, h, d)
  BY DEF Sending
<1>3. PICK k \in 0 .. h.count - 1 : IsPacket("A", h, t.fin_sent, k, d)
  BY <1>2 DEF DataClaim
<1>4. k = 0
  BY <1>1
<1> QED
  BY <1>3, <1>4 DEF IsPacket

\* What a node sends of its own accord says nothing that its socket does not know.
LEMMA EmittedClaims ==
    ASSUME NEW m \in Nodes, NEW s, SocketType(s), Registered(s), NEW e, StreamOK(m, e),
           e.open, NEW fin, Receiving(m, s, e, fin), NEW t, SocketType(t), Emits(s, t),
           NEW d \in t.out, d \notin s.out
    PROVE  AckClaim(m, e, d)
<1>1. /\ s.ack_nr = No(m, e.next - 1) /\ e.next \in Nat /\ e.next - 1 \in Int
      /\ \A q \in SeqNrs : s.inbuf[q] # NULL => \E k \in e.has : q = No(m, k)
  <2>1. e.next \in Nat
    BY DEF StreamOK, Streams
  <2>2. /\ s.ack_nr = No(m, e.next - 1)
        /\ \A q \in SeqNrs : s.inbuf[q] # NULL =>
             \E k \in e.has : q = No(m, k) /\ s.inbuf[q] = Piece(e, k)
    BY DEF Receiving
  <2> QED
    BY <2>1, <2>2
<1>2. Wrap(s.ack_nr - 1) = No(m, (e.next - 1) - 1)
  <2>1. Wrap(No(m, e.next - 1) + (-1)) = No(m, (e.next - 1) + (-1))
    BY <1>1, NoShift
  <2>2. s.ack_nr \in Int
    <3>1. s.ack_nr \in SeqNrs
      BY DEF SocketType
    <3> QED
      BY <3>1 DEF SeqNrs
  <2> QED
    BY <1>1, <2>1, <2>2
<1>3. CASE d.type \in {"SYN", "DATA", "FIN"} /\ d.ack = s.ack_nr /\ d.sack = NULL
  <2>1. e.next \in -1 .. e.next
    BY <1>1
  <2> QED
    BY <1>1, <1>3, <2>1 DEF AckClaim
<1>4. CASE Acks(s, d)
  <2>1. d.ack \in {s.ack_nr, Wrap(s.ack_nr - 1)}
    BY <1>4 DEF Acks
  <2>2. \E a \in -1 .. e.next : d.ack = No(m, a - 1)
    <3>1. e.next \in -1 .. e.next /\ e.next - 1 \in -1 .. e.next
      BY <1>1
    <3> QED
      BY <1>1, <1>2, <2>1, <3>1
  <2>3. d.ack \in Int /\ (d.sack # NULL => d.sack \in SUBSET Nat)
    <3>1. d \in Datagrams
      BY DEF SocketType
    <3> QED
      BY <3>1 DEF Datagrams, SeqNrs
  <2>4. d.sack # NULL => \A b \in d.sack : s.inbuf[Wrap(d.ack + 2 + b)] # NULL
    BY <1>4 DEF Acks
  <2>5. d.sack # NULL => \A b \in d.sack : Wrap(d.ack + 2 + b) \in SeqNrs
    BY <2>3, WrapType
  <2>6. d.sack # NULL => \A b \in d.sack : \E k \in e.has : Wrap(d.ack + 2 + b) = No(m, k)
    BY <1>1, <2>4, <2>5
  <2> QED
    BY <2>2, <2>6 DEF AckClaim
<1> QED
  BY <1>3, <1>4 DEF Emits

\* Node B only sends SYN-ACKs until the connection is established.
LEMMA OnlySynAck ==
    ASSUME NEW s, Registered(s), ~Established(s), NEW g, g.count = 0,
           Sending("B", s, g, s.wrote), NEW t, NEW h, Calls("B", s, g, t, h),
           NEW d \in t.out, d \notin s.out
    PROVE  d.type = "STATE" /\ d.seq = ISN["B"]
<1>1. ~(d.type \in {"SYN", "DATA", "FIN"})
  <2>1. DataClaim("B", t, h, d) /\ h = g
    BY DEF Calls, Sending
  <2>2. 0 .. h.count - 1 = {}
    BY <2>1
  <2> QED
    BY <2>1, <2>2 DEF DataClaim
<1>2. Acks(s, d)
  BY <1>1 DEF Calls, Emits
<1>3. d.type = "STATE" /\ d.seq = s.seq_nr
  BY <1>2 DEF Acks
<1>4. s.seq_nr = No("B", 0)
  BY DEF Sending
<1>5. ISN["B"] \in SeqNrs
  BY ConnectionAssumption DEF Nodes
<1> QED
  BY <1>3, <1>4, <1>5, WrapIdentity DEF No, SeqNrs

\* A call that brings nothing from the peer leaves its claims as they are.
LEMMA CallsEnds ==
    ASSUME ConnectionInv, NEW g \in [Nodes -> Streams], StreamBody(g), NEW n \in Nodes,
           sock[n].st # "UNINITIALIZED", NEW t, SocketType(t),
           Registered(sock[n]) \/ t.out = {},
           NEW h, Calls(n, sock[n], g[n], t, h)
    PROVE  Ends(n, sock[n], g[n], t, h, sock[Peer(n)], g[Peer(n)], g[Peer(n)])
<1> DEFINE s == sock[n]
           m == Peer(n)
           u == sock[m]
           e == g[m]
<1>1. /\ m \in Nodes /\ SocketType(s) /\ s.out = {}
      /\ StreamOK(n, g[n]) /\ Sending(n, s, g[n], s.wrote)
      /\ StreamOK(m, e) /\ Advances(m, u, e, e) /\ Receiving(m, s, e, u.fin_sent)
  BY StreamFacts
<1>2. /\ StreamOK(n, h) /\ Sending(n, t, h, t.wrote) /\ t.wrote <= MaxWrite[n]
      /\ Extends(n, s, g[n], t, h) /\ StateMoves(s, t) /\ Hears(s, t) /\ Emits(s, t)
      /\ ~Established(s) => /\ h = g[n] /\ t.wrote = s.wrote /\ t.seq_nr = s.seq_nr
                            /\ t.fin_sent = s.fin_sent
  BY DEF Calls
<1>3. Opening(g)
  BY DEF StreamBody
<1>4. /\ n \in {"A", "B"} /\ (n = "A" => m = "B") /\ (n = "B" => m = "A")
  BY DEF Nodes, Peer
<1>5. /\ n = "B" => e.open /\ s.st # "SYN_SENT"
      /\ n = "A" /\ ~e.open => Unsynced(s)
      /\ n = "A" /\ e.open => s.st # "SYN_SENT"
      /\ n = "B" /\ ~g[n].open => ~Established(s) /\ g[n].count = 0
  BY <1>3, <1>4 DEF Opening
<1> HIDE DEF s, u, e, m
<1>6. s.st # "UNINITIALIZED" /\ (Registered(s) \/ t.out = {})
  BY DEF s
<1>7. Receiving(m, t, e, u.fin_sent)
  <2>1. Registered(t) => Registered(s)
    BY <1>2 DEF StateMoves
  <2> QED
    BY <1>1, <1>2, <2>1 DEF Receiving, Hears, SameRecv
<1>8. ASSUME n = "A", ~e.open PROVE \A d \in t.out : d.type = "SYN"
  <2> TAKE d \in t.out
  <2>1. Unsynced(s) /\ ~Established(s) /\ s.unread = 0 /\ ~s.ack_pending
    BY <1>5, <1>8 DEF Unsynced
  <2>2. d.type \in {"SYN", "DATA", "FIN"}
    BY <1>1, <1>2, <2>1 DEF Emits, Acks
  <2>3. t.wrote = 0 /\ ~t.fin_sent
    BY <1>2, <2>1 DEF Unsynced
  <2>4. StreamOK("A", h) /\ Sending("A", t, h, t.wrote)
    BY <1>2, <1>8
  <2> QED
    BY <2>2, <2>3, <2>4, OnlySyn
<1>9. \A d \in t.out : AckClaim(m, e, d)
  <2> TAKE d \in t.out
  <2>1. CASE ~e.open
    BY <1>4, <1>5, <1>8, <2>1 DEF AckClaim
  <2>2. CASE e.open
    <3>1. Registered(s) /\ d \notin s.out
      BY <1>1, <1>6
    <3> QED
      BY <1>1, <1>2, <2>2, <3>1, EmittedClaims
  <2> QED
    BY <2>1, <2>2
<1>10. Opened(n, t, h, e)
  <2>1. t.st # "UNINITIALIZED" /\ (t.st = "SYN_SENT" => s.st = "SYN_SENT")
        /\ (Established(t) => Established(s))
    BY <1>2 DEF StateMoves
  <2>2. ASSUME n = "A", ~e.open PROVE Unsynced(t)
    <3>1. Unsynced(s)
      BY <1>5, <2>2
    <3>2. \A d \in t.out : d.type = "SYN"
      BY <1>8, <2>2
    <3> QED
      BY <1>2, <2>1, <3>1, <3>2 DEF Unsynced, Hears, SameRecv
  <2>3. ASSUME n = "B", ~h.open
        PROVE  /\ ~Established(t) /\ h.count = 0
               /\ \A p \in t.out : p.type = "STATE" /\ p.seq = ISN["B"]
    <3>1. ~g[n].open
      BY <1>2, <2>3 DEF Extends
    <3>2. ~Established(s) /\ g[n].count = 0 /\ h = g[n]
      BY <1>2, <1>5, <2>3, <3>1
    <3>3. ASSUME NEW d \in t.out PROVE d.type = "STATE" /\ d.seq = ISN["B"]
      <4>1. Calls("B", s, g[n], t, h) /\ Sending("B", s, g[n], s.wrote) /\ Registered(s)
            /\ d \notin s.out
        BY <1>1, <1>6, <2>3 DEF s
      <4> QED
        BY <3>2, <4>1, OnlySynAck
    <3> QED
      BY <2>1, <3>2, <3>3
  <2> QED
    BY <1>4, <1>5, <2>1, <2>2, <2>3 DEF Opened
<1> QED
  BY <1>1, <1>2, <1>7, <1>9, <1>10 DEF Ends, s, u, e, m

\* destroy_socket keeps what the applications have seen.
LEMMA DestroyedEnds ==
    ASSUME NEW n \in Nodes, NEW s, NEW g, NEW t, SocketType(t), NEW h, NEW u, NEW e, NEW f,
           Ends(n, s, g, t, h, u, e, f)
    PROVE  Ends(n, s, g, [Destroyed(t) EXCEPT !.out = t.out], h, u, e, f)
<1> DEFINE new == NewSocket
           out == t.out
           x == [new EXCEPT !.st = "GONE", !.closed = t.closed, !.err = t.err,
                            !.delivered = t.delivered, !.wrote = t.wrote,
                            !.fin_sent = t.fin_sent, !.fin_sent_acked = t.fin_sent_acked,
                            !.got_fin_reached = t.got_fin_reached,
                            !.read_shutdown = t.read_shutdown]
           d == [x EXCEPT !.out = out]
<1>1. /\ SocketType(new) /\ \A q \in SeqNrs : new.outbuf[q] = NULL /\ new.inbuf[q] = NULL
      /\ ~new.ack_pending /\ new.unread = 0 /\ new.reorder_count = 0 /\ ~new.got_fin
  BY NewSocketOK DEF NewSocket
<1>2. [Destroyed(t) EXCEPT !.out = t.out] = d
  BY DEF Destroyed
<1> HIDE DEF new
<1>3. /\ DOMAIN x = Fields /\ x.st = "GONE" /\ x.outbuf = new.outbuf /\ x.inbuf = new.inbuf
      /\ x.delivered = t.delivered /\ x.wrote = t.wrote /\ x.fin_sent = t.fin_sent
      /\ x.fin_sent_acked = t.fin_sent_acked /\ x.got_fin_reached = t.got_fin_reached
      /\ x.ack_pending = new.ack_pending /\ x.unread = new.unread
      /\ x.reorder_count = new.reorder_count /\ x.got_fin = new.got_fin
  BY <1>1 DEF SocketType, Fields
<1> HIDE DEF x, out
<1>4. /\ d.st = "GONE" /\ d.outbuf = new.outbuf /\ d.inbuf = new.inbuf
      /\ d.delivered = t.delivered /\ d.wrote = t.wrote /\ d.fin_sent = t.fin_sent
      /\ d.fin_sent_acked = t.fin_sent_acked /\ d.got_fin_reached = t.got_fin_reached
      /\ d.ack_pending = new.ack_pending /\ d.unread = new.unread
      /\ d.reorder_count = new.reorder_count /\ d.got_fin = new.got_fin /\ d.out = out
  BY <1>3 DEF Fields
<1> HIDE DEF d
<1>5. ~Registered(d) /\ ~Established(d) /\ d.st # "UNINITIALIZED" /\ d.st # "SYN_SENT"
  BY <1>4 DEF Registered, Established
<1>6. \A k \in Int : ~Unsent(d.outbuf[No(n, k)])
  BY <1>1, <1>4, NoType DEF Unsent
<1>7. /\ StreamOK(n, h) /\ Sending(n, t, h, t.wrote) /\ t.wrote <= MaxWrite[n]
      /\ Extends(n, s, g, t, h)
      /\ StreamOK(Peer(n), f) /\ Advances(Peer(n), u, e, f)
      /\ Receiving(Peer(n), t, f, u.fin_sent)
      /\ \A p \in t.out : AckClaim(Peer(n), f, p)
      /\ Opened(n, t, h, f)
  BY DEF Ends
<1>8. \A k \in h.has \cup 0 .. First(n) - 1 : k \in Int
  BY <1>7 DEF StreamOK, Streams
<1>9. Sending(n, d, h, d.wrote)
  <2>1. \A p \in d.out : DataClaim(n, d, h, p)
    <3> TAKE p \in d.out
    <3>1. DataClaim(n, t, h, p)
      BY <1>4, <1>7 DEF Sending, out
    <3>2. h.count \in Nat
      BY <1>7 DEF StreamOK, Streams
    <3> QED
      BY <1>4, <1>6, <3>1, <3>2 DEF DataClaim
  <2> QED
    BY <1>4, <1>5, <1>6, <1>7, <1>8, <2>1 DEF Sending
<1>10. Extends(n, s, g, d, h)
  <2>1. \A k \in 0 .. g.count - 1 : k \in Int
    OBVIOUS
  <2> QED
    BY <1>4, <1>6, <1>7, <2>1 DEF Extends
<1>11. Receiving(Peer(n), d, f, u.fin_sent)
  BY <1>4, <1>5, <1>7 DEF Receiving
<1>12. Opened(n, d, h, f)
  <2>1. n = "A" /\ ~f.open => Unsynced(d)
    BY <1>1, <1>4, <1>5, <1>7 DEF Opened, Unsynced, out
  <2> QED
    BY <1>4, <1>5, <1>7, <2>1 DEF Opened, out
<1> QED
  BY <1>2, <1>4, <1>7, <1>9, <1>10, <1>11, <1>12 DEF Ends, out
-----------------------------------------------------------------------------
(* The steps that bring nothing from the peer *)

\* The node's call leaves its socket as it is.
LEMMA IdleStreams ==
    ASSUME ConnectionInv, NEW g \in [Nodes -> Streams], StreamBody(g), NEW n \in Nodes,
           NEW R, Commit(n, sock[n], R)
    PROVE  StreamInv'
<1> DEFINE s == sock[n]
<1>1. /\ SocketType(s) /\ s.out = {} /\ StreamOK(n, g[n]) /\ Sending(n, s, g[n], s.wrote)
      /\ s.wrote <= MaxWrite[n] /\ s.fin_sent \in BOOLEAN /\ g[n].count \in Nat
  <2>1. /\ SocketType(s) /\ s.out = {} /\ StreamOK(n, g[n])
        /\ Sending(n, s, g[n], s.wrote) /\ s.wrote <= MaxWrite[n]
    BY StreamFacts
  <2>2. s.fin_sent \in BOOLEAN
    BY <2>1 DEF SocketType
  <2>3. g[n].count \in Nat
    BY <2>1 DEF StreamOK, Streams
  <2> QED
    BY <2>1, <2>2, <2>3
<1>2. CASE s.st = "UNINITIALIZED"
  <2> DEFINE new == NewSocket
             none == {}
  <2>1. s = new
    BY <1>2 DEF StreamBody, Opening
  <2>2. [new EXCEPT !.out = none] = new
    <3> DEFINE x == [new EXCEPT !.out = none]
    <3>1. DOMAIN new = Fields /\ new = [k \in DOMAIN new |-> new[k]] /\ new.out = none
      <4> DEFINE ib == [q \in SeqNrs |-> NULL]
                 mw == 255 * PACKET_SIZE
      <4> HIDE DEF ib, mw
      <4> QED
        BY DEF NewSocket, Fields, ib, mw
    <3> HIDE DEF new, none
    <3>2. x = [k \in DOMAIN new |-> IF k = "out" THEN none ELSE new[k]]
      BY <3>1
    <3>3. \A k \in DOMAIN new : (IF k = "out" THEN none ELSE new[k]) = new[k]
      BY <3>1
    <3> QED
      BY <3>1, <3>2, <3>3
  <2> HIDE DEF new, none
  <2>3. sock' = [sock EXCEPT ![n] = new]
    BY <2>1, <2>2 DEF Commit, none
  <2>4. sock' = sock
    <3>1. sock = [k \in Nodes |-> sock[k]]
      BY DEF ConnectionInv
    <3> QED
      BY <2>1, <2>3, <3>1
  <2>5. PICK S \in SUBSET {[to |-> Peer(n), p |-> p] : p \in s.out} : net' = (net \ R) \cup S
    BY DEF Commit, Sends
  <2>6. \A x \in net' : x \in net
    BY <1>1, <2>5
  <2> QED
    BY <2>4, <2>6, NothingMoves
<1>3. CASE s.st # "UNINITIALIZED"
  <2>1. StateMoves(s, s) /\ Hears(s, s) /\ Emits(s, s)
    BY <1>3 DEF StateMoves, Hears, Emits, SameRecv
  <2>2. Extends(n, s, g[n], s, g[n])
    BY <1>1 DEF Extends
  <2>3. Calls(n, s, g[n], s, g[n])
    BY <1>1, <2>1, <2>2 DEF Calls
  <2>4. Ends(n, s, g[n], s, g[n], sock[Peer(n)], g[Peer(n)], g[Peer(n)])
    BY <1>1, <1>3, <2>3, CallsEnds
  <2> QED
    BY <1>1, <2>4, CommitStreams
<1> QED
  BY <1>2, <1>3

\* A call of a registered socket that brings nothing from the peer keeps the invariant.
LEMMA CallStreams ==
    ASSUME ConnectionInv, NEW g \in [Nodes -> Streams], StreamBody(g), NEW n \in Nodes,
           Registered(sock[n]), NEW t, SocketOK(t), NEW R, Commit(n, t, R),
           \E h : Calls(n, sock[n], g[n], t, h)
    PROVE  StreamInv'
<1>1. SocketType(t) /\ sock[n].st # "UNINITIALIZED"
  BY DEF SocketOK, SendOK, Registered
<1>2. PICK h : Calls(n, sock[n], g[n], t, h)
  OBVIOUS
<1>3. Ends(n, sock[n], g[n], t, h, sock[Peer(n)], g[Peer(n)], g[Peer(n)])
  BY <1>1, <1>2, CallsEnds
<1> QED
  BY <1>1, <1>3, CommitStreams

\* utp_connect: the SYN is the first packet of the initiator.
LEMMA ConnectedSocket ==
    ASSUME NEW isn \in SeqNrs
    PROVE  LET t == Connect(isn)
           IN  /\ t.st = "SYN_SENT" /\ t.seq_nr = Wrap(isn + 1) /\ t.cwp = 1
               /\ t.wrote = 0 /\ ~t.fin_sent /\ ~t.fin_sent_acked /\ t.delivered = <<>>
               /\ ~t.ack_pending /\ t.unread = 0 /\ t.reorder_count = 0 /\ ~t.got_fin
               /\ ~t.got_fin_reached /\ \A q \in SeqNrs : t.inbuf[q] = NULL
               /\ t.outbuf[isn] \in OutPackets /\ t.outbuf[isn].sent
               /\ t.outbuf[isn].type = "SYN" /\ t.outbuf[isn].data = <<>>
               /\ \A x \in t.out : x.type = "SYN" /\ x.seq = isn /\ x.data = <<>>
<1> DEFINE u == [NewSocket EXCEPT !.st = "SYN_SENT", !.rto_armed = TRUE, !.seq_nr = isn]
           none == <<>>
           syn == "SYN"
           wnd == get_rcv_window(u)
           p == OutPacket(syn, none, wnd)
           q == Wrap(u.seq_nr + 1)
           buf == [u.outbuf EXCEPT ![u.seq_nr] = p]
           c == u.cwp + 1
           s == Enqueue(u, syn, none)
           t == Transmit(s, isn)
<1>1. /\ SocketType(NewSocket) /\ NewSocket.cwp = 0 /\ NewSocket.wrote = 0
      /\ ~NewSocket.fin_sent /\ ~NewSocket.fin_sent_acked /\ NewSocket.delivered = <<>>
      /\ ~NewSocket.ack_pending /\ NewSocket.unread = 0 /\ NewSocket.reorder_count = 0
      /\ ~NewSocket.got_fin /\ ~NewSocket.got_fin_reached /\ NewSocket.out = {}
      /\ \A x \in SeqNrs : NewSocket.inbuf[x] = NULL
  BY NewSocketOK DEF NewSocket
<1> HIDE DEF u
<1>2. /\ SocketType(u) /\ u.st = "SYN_SENT" /\ u.seq_nr = isn
      /\ u.cwp = 0 /\ u.wrote = 0 /\ ~u.fin_sent /\ ~u.fin_sent_acked /\ u.delivered = <<>>
      /\ ~u.ack_pending /\ u.unread = 0 /\ u.reorder_count = 0
      /\ ~u.got_fin /\ ~u.got_fin_reached /\ u.out = {} /\ u.inbuf = NewSocket.inbuf
  BY <1>1 DEF SocketType, Fields, States, u
<1>3. p \in OutPackets /\ p.type = syn /\ p.data = none /\ p # NULL
  <2>1. wnd \in Nat
    BY <1>2, RcvWindowType
  <2> HIDE DEF wnd
  <2>2. p \in OutPackets
    BY <2>1 DEF OutPackets, OutPacket
  <2>3. p.type = syn /\ p.data = none
    BY DEF OutPacket
  <2> HIDE DEF p
  <2> QED
    BY <2>2, <2>3, SendAssumption
<1>4. s = [u EXCEPT !.outbuf = buf, !.last_rcv_win = wnd, !.seq_nr = q, !.cwp = c]
  BY DEF Enqueue
<1> HIDE DEF p, wnd, syn, none, s
<1>5. buf[isn] = p /\ c = 1 /\ q = Wrap(isn + 1)
  BY <1>2 DEF SocketType, Outbufs
<1> HIDE DEF buf, c, q
<1>6. /\ DOMAIN s = Fields /\ s.st = "SYN_SENT" /\ s.seq_nr = q /\ s.outbuf = buf
      /\ s.cwp = c /\ s.wrote = 0 /\ ~s.fin_sent /\ ~s.fin_sent_acked /\ s.delivered = <<>>
      /\ ~s.ack_pending /\ s.unread = 0 /\ s.reorder_count = 0
      /\ ~s.got_fin /\ ~s.got_fin_reached /\ s.out = {} /\ s.inbuf = NewSocket.inbuf
  BY <1>2, <1>4 DEF SocketType, Fields
<1>7. buf \in Outbufs
  BY <1>2, <1>3 DEF SocketType, Outbufs, buf
<1> DEFINE pp == s.outbuf[isn]
           sentp == [pp EXCEPT !.sent = TRUE, !.need_resend = FALSE]
           buf2 == [s.outbuf EXCEPT ![isn] = sentp]
           cw == s.cur_window + (IF InFlight(pp) THEN 0 ELSE Len(pp.data))
           d == [type |-> pp.type, seq |-> isn, ack |-> s.ack_nr,
                 wnd |-> pp.wnd, sack |-> NULL, data |-> pp.data]
           ds == s.out \cup {d}
<1>8. t = [s EXCEPT !.cur_window = cw, !.outbuf = buf2, !.out = ds, !.ack_pending = FALSE]
  BY DEF Transmit
<1>9. pp = p
  BY <1>5, <1>6
<1>10. buf2[isn] = sentp
  BY <1>6, <1>7 DEF Outbufs
<1>11. /\ sentp \in OutPackets /\ sentp.sent /\ sentp.type = syn /\ sentp.data = none
  BY <1>3, <1>9 DEF OutPackets
<1>12. \A x \in ds : x.type = syn /\ x.seq = isn /\ x.data = none
  BY <1>3, <1>6, <1>9
<1> HIDE DEF cw, buf2, ds, t, sentp
<1>13. /\ t.st = "SYN_SENT" /\ t.seq_nr = q /\ t.outbuf = buf2
       /\ t.cwp = c /\ t.wrote = 0 /\ ~t.fin_sent /\ ~t.fin_sent_acked /\ t.delivered = <<>>
       /\ ~t.ack_pending /\ t.unread = 0 /\ t.reorder_count = 0
       /\ ~t.got_fin /\ ~t.got_fin_reached /\ t.out = ds /\ t.inbuf = NewSocket.inbuf
  BY <1>6, <1>8 DEF Fields
<1>14. t = Connect(isn)
  BY DEF Connect, t, s, u, syn, none
<1> QED
  BY <1>1, <1>5, <1>10, <1>11, <1>12, <1>13, <1>14, Zenon DEF syn, none

\* utp_connect: the stream of the initiator starts with the SYN.
LEMMA ConnectStreams ==
    ASSUME ConnectionInv, NEW g \in [Nodes -> Streams], StreamBody(g), AppConnect
    PROVE  StreamInv'
<1> DEFINE n == "A"
           m == Peer(n)
           s == sock[n]
           u == sock[m]
           e == g[m]
           isn == ISN[n]
           t == Connect(isn)
           cut == [i \in Nat |-> 0]
           h == [count |-> 1, cut |-> cut, open |-> g[n].open, next |-> g[n].next,
                 has |-> g[n].has]
<1>1. n \in Nodes /\ m = "B" /\ m \in Nodes /\ isn \in SeqNrs
  BY ConnectionAssumption DEF Nodes, Peer
<1>2. s.st = "UNINITIALIZED" /\ Commit(n, t, {})
  BY DEF AppConnect
<1>3. s = NewSocket /\ g[n].count = 0 /\ ~e.open
  BY <1>1, <1>2 DEF StreamBody, Opening
<1>4. /\ t.st = "SYN_SENT" /\ t.seq_nr = Wrap(isn + 1) /\ t.cwp = 1
      /\ t.wrote = 0 /\ ~t.fin_sent /\ ~t.fin_sent_acked /\ t.delivered = <<>>
      /\ ~t.ack_pending /\ t.unread = 0 /\ t.reorder_count = 0 /\ ~t.got_fin
      /\ ~t.got_fin_reached /\ \A q \in SeqNrs : t.inbuf[q] = NULL
      /\ t.outbuf[isn] \in OutPackets /\ t.outbuf[isn].sent
      /\ t.outbuf[isn].type = "SYN" /\ t.outbuf[isn].data = <<>>
      /\ \A x \in t.out : x.type = "SYN" /\ x.seq = isn /\ x.data = <<>>
  BY <1>1, ConnectedSocket
<1>5. SocketType(t)
  BY <1>1, ConnectOK DEF SocketOK, SendOK
<1>6. /\ StreamOK(n, g[n]) /\ Receiving(m, s, e, u.fin_sent) /\ StreamOK(m, e)
      /\ Advances(m, u, e, e) /\ ~s.got_fin_reached
  <2>1. /\ StreamOK(n, g[n]) /\ Receiving(m, s, e, u.fin_sent) /\ StreamOK(m, e)
        /\ Advances(m, u, e, e)
    BY <1>1, StreamFacts
  <2> QED
    BY <1>3, <2>1 DEF NewSocket
<1>7. g[n].next = 0 /\ g[n].has = {} /\ g[n].open \in BOOLEAN
  BY <1>3, <1>6 DEF StreamOK, Streams
<1>8. e.next = 0 /\ e.has = {} /\ e.count \in Nat
  BY <1>3, <1>6 DEF StreamOK, Streams
<1>9. No(n, 0) = isn /\ No(n, 1) = Wrap(isn + 1)
  BY <1>1, WrapIdentity DEF No, SeqNrs
<1>10. First(n) = 1 /\ First(m) = 0
  BY <1>1 DEF First
<1> HIDE DEF t, isn, s
<1>11. cut \in [Nat -> Nat] /\ cut[0] = 0 /\ cut[1] = 0
  OBVIOUS
<1> HIDE DEF cut
<1>12. /\ h.count = 1 /\ h.cut = cut /\ h.open = g[n].open /\ h.next = 0 /\ h.has = {}
       /\ h \in Streams
  BY <1>7, <1>11 DEF Streams
<1> HIDE DEF h
<1>13. Piece(h, 0) = <<>>
  <2>1. Piece(h, 0) = [i \in 1 .. 0 |-> 0 + i]
    BY <1>11, <1>12 DEF Piece
  <2>2. 1 .. 0 = {}
    OBVIOUS
  <2> QED
    BY <2>1, <2>2, EmptySeq
<1>14. 0 .. h.count - 1 = {0} /\ \A k \in 0 .. h.count : k = 0 \/ k = 1
  BY <1>12
<1>15. StreamOK(n, h)
  <2>1. \A j, k \in 0 .. h.count : h.cut[j] <= h.cut[k]
    BY <1>11, <1>12, <1>14
  <2>2. 0 .. h.next - 1 = {}
    BY <1>12
  <2> QED
    BY <1>10, <1>11, <1>12, <2>1, <2>2 DEF StreamOK
<1>16. \A x : x.type = "SYN" /\ x.data = <<>> => IsPacket(n, h, FALSE, 0, x)
  BY <1>13 DEF IsPacket
<1>17. t.fin_sent = FALSE
  BY <1>4, <1>5 DEF SocketType
<1>18. Sending(n, t, h, t.wrote)
  <2>1. \A k \in h.has \cup 0 .. First(n) - 1 : k = 0
    BY <1>10, <1>12
  <2>2. ~Unsent(t.outbuf[No(n, 0)])
    BY <1>4, <1>9 DEF Unsent
  <2>3. \A x \in t.out : DataClaim(n, t, h, x)
    BY <1>4, <1>9, <1>14, <1>16, <1>17, <2>2 DEF DataClaim
  <2>4. t.outbuf[No(n, 0)] # NULL
    BY <1>4, <1>9, SendAssumption
  <2>5. \A k \in 0 .. h.count - 1 : IsPacket(n, h, t.fin_sent, k, t.outbuf[No(n, k)])
    BY <1>4, <1>9, <1>14, <1>16, <1>17
  <2>6. \A k \in 0 .. h.count - 1 : t.outbuf[No(n, k)] # NULL
    BY <1>14, <2>4
  <2>7. \A k \in h.has \cup 0 .. First(n) - 1 : ~Unsent(t.outbuf[No(n, k)])
    BY <2>1, <2>2
  <2>8. /\ h.cut[h.count] = t.wrote /\ h.count <= t.wrote + First(n) + 0
        /\ t.seq_nr = No(n, h.count) /\ t.cwp <= h.count /\ h.count >= First(n)
    BY <1>4, <1>9, <1>10, <1>11, <1>12
  <2> QED
    BY <1>4, <2>3, <2>5, <2>6, <2>7, <2>8 DEF Sending
<1>19. Extends(n, s, g[n], t, h)
  <2>1. 0 .. g[n].count - 1 = {} /\ g[n].count <= h.count
    BY <1>3, <1>12
  <2>2. ~s.fin_sent
    BY <1>3 DEF NewSocket
  <2> QED
    BY <1>4, <1>7, <1>12, <2>1, <2>2 DEF Extends
<1>20. Receiving(m, t, e, u.fin_sent)
  <2>1. Len(t.delivered) = 0 /\ t.delivered = [i \in 1 .. 0 |-> Piece(e, First(m) + i - 1)]
    <3>1. 1 .. 0 = {}
      OBVIOUS
    <3> QED
      BY <1>4, <3>1, EmptySeq
  <2>2. t.got_fin_reached <=> u.fin_sent /\ e.next = e.count
    BY <1>4, <1>6 DEF Receiving
  <2> QED
    BY <1>3, <2>1, <2>2 DEF Receiving
<1>21. Unsynced(t)
  BY <1>4 DEF Unsynced, Established
<1>22. Opened(n, t, h, e)
  BY <1>3, <1>4, <1>21 DEF Opened
<1>23. \A x \in t.out : AckClaim(m, e, x)
  BY <1>4 DEF AckClaim
<1>24. t.wrote <= MaxWrite[n]
  BY <1>1, <1>4, ConnectionAssumption
<1>25. Ends(n, s, g[n], t, h, u, e, e)
  BY <1>6, <1>15, <1>18, <1>19, <1>20, <1>22, <1>23, <1>24 DEF Ends
<1> QED
  BY <1>1, <1>2, <1>5, <1>25, CommitStreams DEF s

\* What the application does once it is connected, the deferred ACKs and ICMP errors.
LEMMA ApplicationStreams ==
    ASSUME ShortConnection, ConnectionInv, NEW g \in [Nodes -> Streams], StreamBody(g),
           NEW n \in Nodes, Application(n) \/ IssueDeferredAcks(n) \/ IcmpError(n)
    PROVE  StreamInv'
<1> DEFINE s == sock[n]
<1>1. SocketOK(s)
  BY DEF ConnectionInv
<1>2. Registered(s) => Steady(n, s, g[n])
  BY SteadyNow
<1>3. ASSUME NEW k \in WriteSizes, AppWrite(n, k)
      PROVE  StreamInv'
  <2> DEFINE u == Write(s, k)
  <2>1. /\ Commit(n, u, {}) /\ Registered(s) /\ s.st = "CONNECTED" /\ ~s.fin_sent
        /\ s.wrote + k <= MaxWrite[n]
    BY <1>3 DEF AppWrite, Owns
  <2>2. k \in Nat /\ k \in Nat \ {0}
    BY ConnectionAssumption
  <2>3. SocketOK(u)
    BY <1>1, <2>2, WriteOK
  <2>4. \E h : Calls(n, s, g[n], u, h)
    BY <1>2, <2>1, <2>2, WriteCalls
  <2> HIDE DEF u
  <2> QED
    BY <2>1, <2>3, <2>4, CallStreams
<1>4. CASE AppClose(n)
  <2> DEFINE u == Close(s)
  <2>1. Commit(n, u, {}) /\ Registered(s)
    BY <1>4 DEF AppClose, Owns
  <2>2. SocketOK(u)
    BY <1>1, CloseOK
  <2>3. \E h : Calls(n, s, g[n], u, h)
    BY <1>2, <2>1, CloseCalls
  <2> HIDE DEF u
  <2> QED
    BY <2>1, <2>2, <2>3, CallStreams
<1>5. ASSUME NEW how, AppShutdown(n, how)
      PROVE  StreamInv'
  <2> DEFINE u == Shutdown(s, how)
  <2>1. Commit(n, u, {}) /\ Registered(s)
    BY <1>5 DEF AppShutdown, Owns
  <2>2. SocketOK(u)
    BY <1>1, ShutdownOK
  <2>3. \E h : Calls(n, s, g[n], u, h)
    BY <1>2, <2>1, ShutdownCalls
  <2> HIDE DEF u
  <2> QED
    BY <2>1, <2>2, <2>3, CallStreams
<1>6. CASE AppReadDrained(n)
  <2> DEFINE u == ReadDrained(s)
  <2>1. Commit(n, u, {}) /\ Registered(s) /\ s.unread > 0
    BY <1>6 DEF AppReadDrained, Owns
  <2>2. SocketOK(u)
    BY <1>1, ReadDrainedOK
  <2>3. Calls(n, s, g[n], u, g[n])
    BY <1>2, <2>1, ReadDrainedCalls
  <2> HIDE DEF u
  <2> QED
    BY <2>1, <2>2, <2>3, CallStreams
<1>7. CASE IssueDeferredAcks(n)
  <2> DEFINE u == SendAck(s)
  <2>1. Commit(n, u, {}) /\ Registered(s) /\ s.ack_pending
    BY <1>7 DEF IssueDeferredAcks
  <2>2. SendOK(u) /\ Keeps(s, u)
    BY <1>1, SendAckKeeps DEF SocketOK
  <2>3. Calls(n, s, g[n], u, g[n])
    BY <1>2, <2>1, SendAckCalls
  <2> HIDE DEF u, s
  <2>4. SocketOK(u)
    BY <1>1, <2>2, KeepsOK
  <2> QED
    BY <2>1, <2>3, <2>4, CallStreams DEF s
<1>8. CASE IcmpError(n)
  <2> DEFINE u == OnIcmpError(s)
  <2>1. Commit(n, u, {}) /\ Registered(s)
    BY <1>8 DEF IcmpError
  <2>2. SocketOK(u)
    BY <1>1, ErrorOK
  <2>3. Calls(n, s, g[n], u, g[n])
    BY <1>2, <2>1, ErrorCalls
  <2> HIDE DEF u
  <2> QED
    BY <2>1, <2>2, <2>3, CallStreams
<1> QED
  BY <1>3, <1>4, <1>5, <1>6, <1>7, <1>8 DEF Application

\* check_timeouts of a context.
LEMMA TimeoutsStreams ==
    ASSUME ShortConnection, ConnectionInv, NEW g \in [Nodes -> Streams], StreamBody(g),
           NEW n \in Nodes, NEW t, NEW expired, ContextCheckTimeouts(n, t, expired)
    PROVE  StreamInv'
<1> DEFINE r == sock[n]
           m == Peer(n)
           s == CheckTimeouts(r, t)
           d == [Destroyed(s) EXCEPT !.out = s.out]
<1>1. SocketOK(r)
  BY DEF ConnectionInv
<1>2. CASE Registered(r)
  <2>1. Commit(n, IF s.st = "DESTROY" THEN d ELSE s, {})
    BY <1>2 DEF ContextCheckTimeouts
  <2>2. Calls(n, r, g[n], s, g[n])
    BY <1>1, <1>2, SteadyNow, CheckTimeoutsCalls
  <2>3. SocketOK(s)
    BY <1>1, CheckTimeoutsOK
  <2> HIDE DEF s
  <2>4. SocketType(s) /\ SocketType(d)
    BY <2>3, DestroyedOK DEF SocketOK, SendOK
  <2>5. r.st # "UNINITIALIZED"
    BY <1>2 DEF Registered
  <2>6. Ends(n, r, g[n], s, g[n], sock[m], g[m], g[m])
    BY <1>2, <2>2, <2>4, <2>5, CallsEnds
  <2>7. Ends(n, r, g[n], d, g[n], sock[m], g[m], g[m])
    BY <2>4, <2>6, DestroyedEnds
  <2> HIDE DEF d
  <2> QED
    BY <2>1, <2>4, <2>6, <2>7, CommitStreams
<1>3. CASE ~Registered(r)
  <2>1. r.st # "DESTROY"
    BY <1>3 DEF Registered
  <2>2. Commit(n, sock[n], {})
    BY <1>3, <2>1 DEF ContextCheckTimeouts
  <2> QED
    BY <2>2, IdleStreams
<1> QED
  BY <1>2, <1>3

\* A datagram is lost.
LEMMA LoseStreams ==
    ASSUME NEW g \in [Nodes -> Streams], StreamBody(g), NEW m \in net, Lose(m)
    PROVE  StreamInv'
<1>1. sock' = sock /\ \A x \in net' : x \in net
  BY DEF Lose
<1> QED
  BY <1>1, NothingMoves

\* A packet for no socket.
LEMMA StrayStreams ==
    ASSUME NEW g \in [Nodes -> Streams], StreamBody(g), NEW m \in net, ReceiveStray(m)
    PROVE  StreamInv'
<1>1. PICK R : Sends(m.to, {}, R) \/ Sends(m.to, {Reset}, R)
  BY DEF ReceiveStray
<1>2. \A x \in net' : x \in net \/ x.p \in {Reset}
  <2>1. PICK out : Sends(m.to, out, R) /\ (out = {} \/ out = {Reset})
    BY <1>1
  <2>2. PICK S \in SUBSET {[to |-> Peer(m.to), p |-> p] : p \in out} : net' = (net \ R) \cup S
    BY <2>1 DEF Sends
  <2>3. \A x \in S : x.p \in out
    BY <2>2
  <2> QED
    BY <2>1, <2>2, <2>3
<1>3. Reset.type = "RESET"
  BY DEF Reset
<1>4. sock' = sock
  BY DEF ReceiveStray
<1> QED
  BY <1>2, <1>3, <1>4, NothingMoves

\* A RST.
LEMMA ResetStreams ==
    ASSUME ShortConnection, ConnectionInv, NEW g \in [Nodes -> Streams], StreamBody(g),
           NEW m \in net, ReceiveReset(m)
    PROVE  StreamInv'
<1> DEFINE n == m.to
           s == sock[n]
           u == OnReset(s)
<1>1. n \in Nodes
  BY DEF ConnectionInv, Packets
<1>2. PICK R : Commit(n, IF Registered(s) THEN u ELSE s, R)
  BY DEF ReceiveReset
<1> HIDE DEF n
<1>3. CASE Registered(s)
  <2>1. SocketOK(s) /\ SocketOK(u)
    BY <1>1, ErrorOK DEF ConnectionInv
  <2>2. Calls(n, s, g[n], u, g[n])
    BY <1>1, <1>3, SteadyNow, ErrorCalls
  <2> HIDE DEF u
  <2> QED
    BY <1>1, <1>2, <1>3, <2>1, <2>2, CallStreams
<1>4. CASE ~Registered(s)
  BY <1>1, <1>2, <1>4, IdleStreams
<1> QED
  BY <1>3, <1>4

\* accept_syn and the SYN-ACK.
LEMMA AcceptedSocket ==
    ASSUME NEW isn \in SeqNrs, NEW seq \in SeqNrs
    PROVE  LET t == AcceptSyn(isn, seq)
           IN  /\ t.st = "SYN_RECV" /\ t.seq_nr = isn /\ t.cwp = 0 /\ t.ack_nr = seq
               /\ t.wrote = 0 /\ ~t.fin_sent /\ ~t.fin_sent_acked /\ t.delivered = <<>>
               /\ t.reorder_count = 0 /\ ~t.got_fin /\ ~t.got_fin_reached
               /\ (\A q \in SeqNrs : t.inbuf[q] = NULL /\ t.outbuf[q] = NULL)
               /\ \A x \in t.out : x.type = "STATE" /\ x.seq = isn /\ x.ack = seq /\ x.sack = NULL
<1> DEFINE u == [NewSocket EXCEPT !.st = "SYN_RECV", !.ack_nr = seq, !.seq_nr = isn,
                                  !.fast_resend_seq_nr = isn]
<1>1. /\ SocketType(NewSocket) /\ NewSocket.cwp = 0 /\ NewSocket.wrote = 0
      /\ ~NewSocket.fin_sent /\ ~NewSocket.fin_sent_acked /\ NewSocket.delivered = <<>>
      /\ NewSocket.reorder_count = 0 /\ NewSocket.out = {}
      /\ ~NewSocket.got_fin /\ ~NewSocket.got_fin_reached
      /\ \A q \in SeqNrs : NewSocket.inbuf[q] = NULL /\ NewSocket.outbuf[q] = NULL
  BY NewSocketOK DEF NewSocket
<1> HIDE DEF u
<1>2. /\ DOMAIN u = Fields /\ u.st = "SYN_RECV" /\ u.seq_nr = isn /\ u.ack_nr = seq
      /\ u.cwp = 0 /\ u.wrote = 0 /\ ~u.fin_sent /\ ~u.fin_sent_acked /\ u.delivered = <<>>
      /\ u.reorder_count = 0 /\ ~u.got_fin /\ ~u.got_fin_reached /\ u.out = {}
      /\ u.inbuf = NewSocket.inbuf /\ u.outbuf = NewSocket.outbuf
  BY <1>1 DEF SocketType, Fields, u
<1> DEFINE sack == IF u.reorder_count # 0 /\ ~u.got_fin_reached
                   THEN {b \in 0 .. SACK_BITS - 3 : u.inbuf[Wrap(seq + b + 2)] # NULL}
                   ELSE NULL
           wnd == get_rcv_window(u)
           d == [type |-> "STATE", seq |-> u.seq_nr, ack |-> seq, wnd |-> wnd,
                 sack |-> sack, data |-> <<>>]
           ds == u.out \cup {d}
           t == AcceptSyn(isn, seq)
<1>3. t = SendAckFor(u, u.ack_nr)
  BY DEF AcceptSyn, SendAck, u
<1>4. t = [u EXCEPT !.last_rcv_win = wnd, !.out = ds, !.ack_pending = FALSE]
  BY <1>2, <1>3 DEF SendAckFor
<1>5. d.type = "STATE" /\ d.seq = isn /\ d.ack = seq /\ d.sack = NULL
  BY <1>2
<1> HIDE DEF d, wnd, t
<1>6. \A x \in ds : x.type = "STATE" /\ x.seq = isn /\ x.ack = seq /\ x.sack = NULL
  BY <1>2, <1>5
<1> HIDE DEF ds
<1>7. /\ t.st = u.st /\ t.seq_nr = u.seq_nr /\ t.ack_nr = u.ack_nr
      /\ t.cwp = u.cwp /\ t.wrote = u.wrote /\ t.fin_sent = u.fin_sent
      /\ t.fin_sent_acked = u.fin_sent_acked /\ t.delivered = u.delivered
      /\ t.reorder_count = u.reorder_count /\ t.got_fin = u.got_fin
      /\ t.got_fin_reached = u.got_fin_reached /\ t.inbuf = u.inbuf /\ t.outbuf = u.outbuf
      /\ t.out = ds
  BY <1>2, <1>4 DEF Fields
<1> QED
  BY <1>1, <1>2, <1>6, <1>7 DEF t

\* A SYN: the receiver of the stream of the initiator knows its first number.
LEMMA SynStreams ==
    ASSUME ConnectionInv, NEW g \in [Nodes -> Streams], StreamBody(g),
           NEW x \in net, ReceiveSyn(x)
    PROVE  StreamInv'
<1> DEFINE n == x.to
           m == Peer(n)
           s == sock[n]
           u == sock[m]
           p == x.p
           isn == ISN[n]
           seq == p.seq
           t == AcceptSyn(isn, seq)
           e == g[m]
           h == g[n]
           has == {0}
           f == [count |-> e.count, cut |-> e.cut, open |-> TRUE, next |-> 1, has |-> has]
<1>1. n \in Nodes /\ m \in Nodes /\ m # n /\ p.type = "SYN" /\ seq \in SeqNrs /\ isn \in SeqNrs
      /\ (m = "A" => n = "B")
  <2>1. n \in Nodes /\ p \in Datagrams
    BY DEF ConnectionInv, Packets
  <2>2. m \in Nodes /\ m # n /\ (m = "A" => n = "B")
    BY <2>1 DEF Nodes, Peer
  <2>3. p.type = "SYN"
    BY DEF ReceiveSyn
  <2> QED
    BY <2>1, <2>2, <2>3, ConnectionAssumption DEF Datagrams
<1>2. PICK R : Commit(n, IF s.st # "UNINITIALIZED" THEN s ELSE t, R)
  BY DEF ReceiveSyn
<1>3. DataClaim(m, u, e, p)
  BY <1>1 DEF StreamBody
<1> HIDE DEF n, p
<1>4. CASE s.st # "UNINITIALIZED"
  BY <1>1, <1>2, <1>4, IdleStreams
<1>5. CASE s.st = "UNINITIALIZED"
  <2>1. PICK k \in 0 .. e.count - 1 : p.seq = No(m, k) /\ IsPacket(m, e, u.fin_sent, k, p)
    BY <1>1, <1>3 DEF DataClaim
  <2>2. m = "A" /\ n = "B" /\ k = 0 /\ First(m) = 1 /\ First(n) = 0
    BY <1>1, <2>1 DEF IsPacket, First
  <2>3. /\ StreamOK(n, h) /\ StreamOK(m, e) /\ Sending(n, s, h, s.wrote)
        /\ Sending(m, u, e, u.wrote)
    BY <1>1, StreamFacts
  <2>4. s = NewSocket /\ h.count = 0 /\ ~e.open
    BY <1>1, <1>5, <2>2 DEF StreamBody, Opening
  <2>5. e.next = 0 /\ e.has = {} /\ e.count \in Nat /\ e.count >= 1 /\ e.cut \in [Nat -> Nat]
    BY <2>1, <2>3, <2>4 DEF StreamOK, Streams
  <2>6. h.next = 0 /\ h.has = {}
    BY <2>3, <2>4 DEF StreamOK, Streams
  <2>7. /\ t.st = "SYN_RECV" /\ t.seq_nr = isn /\ t.cwp = 0 /\ t.ack_nr = seq
        /\ t.wrote = 0 /\ ~t.fin_sent /\ ~t.fin_sent_acked /\ t.delivered = <<>>
        /\ t.reorder_count = 0 /\ ~t.got_fin /\ ~t.got_fin_reached
        /\ (\A q \in SeqNrs : t.inbuf[q] = NULL /\ t.outbuf[q] = NULL)
        /\ \A d \in t.out : d.type = "STATE" /\ d.seq = isn /\ d.ack = seq /\ d.sack = NULL
    BY <1>1, AcceptedSocket
  <2>8. SocketType(t)
    BY <1>1, AcceptSynOK DEF SocketOK, SendOK
  <2>9. No(n, 0) = isn /\ seq = No(m, 0)
    BY <1>1, <2>1, <2>2, WrapIdentity DEF No, SeqNrs
  <2> HIDE DEF t, isn, seq, s
  <2>10. 0 .. h.count - 1 = {}
    BY <2>4
  <2>11. Sending(n, t, h, t.wrote)
    <3>1. h.cut[h.count] = 0
      BY <2>3, <2>4 DEF StreamOK
    <3>2. h.has \cup 0 .. First(n) - 1 = {}
      BY <2>2, <2>6
    <3>3. \A d \in t.out : DataClaim(n, t, h, d)
      BY <2>7 DEF DataClaim
    <3>4. h.count <= t.wrote + First(n) + 0 /\ t.cwp <= h.count /\ h.count >= First(n)
          /\ t.seq_nr = No(n, h.count) /\ h.cut[h.count] = t.wrote
      BY <2>2, <2>4, <2>7, <2>9, <3>1
    <3> QED
      BY <2>7, <2>10, <3>2, <3>3, <3>4 DEF Sending
  <2>12. Extends(n, s, h, t, h)
    <3>1. ~s.fin_sent
      BY <2>4 DEF NewSocket
    <3>2. h.count <= h.count
      BY <2>4
    <3> QED
      BY <2>7, <2>10, <3>1, <3>2 DEF Extends
  <2> HIDE DEF has
  <2>13. /\ f.count = e.count /\ f.cut = e.cut /\ f.open = TRUE /\ f.next = 1 /\ f.has = has
         /\ \A k1 : k1 \in has <=> k1 = 0
    BY DEF has
  <2>14. StreamOK(m, f)
    <3>1. f \in Streams
      <4>1. has \in SUBSET Nat
        BY <2>13
      <4> QED
        BY <2>5, <4>1 DEF Streams
    <3> HIDE DEF f
    <3>2. 0 .. f.next - 1 \subseteq f.has /\ f.next \notin f.has /\ f.next <= f.count
          /\ f.has \subseteq 0 .. f.count - 1
      BY <2>5, <2>13
    <3> QED
      BY <2>3, <2>13, <3>1, <3>2 DEF StreamOK
  <2> HIDE DEF f
  <2>15. Advances(m, u, e, f)
    <3>1. ~Unsent(u.outbuf[No(m, 0)])
      <4>1. 0 \in e.has \cup 0 .. First(m) - 1
        BY <2>2
      <4> QED
        BY <2>3, <4>1 DEF Sending
    <3>2. e.next <= f.next
      BY <2>5, <2>13
    <3> QED
      BY <2>5, <2>13, <3>1, <3>2 DEF Advances
  <2>16. u.fin_sent => f.count > 1
    BY <2>2, <2>3, <2>13 DEF Sending
  <2>17. Receiving(m, t, f, u.fin_sent)
    <3>1. Len(t.delivered) = 0 /\ t.delivered = [i \in 1 .. 0 |-> Piece(f, First(m) + i - 1)]
      <4>1. 1 .. 0 = {}
        OBVIOUS
      <4> QED
        BY <2>7, <4>1, EmptySeq
    <3>2. t.got_fin_reached <=> u.fin_sent /\ f.next = f.count
      BY <2>7, <2>13, <2>16
    <3>3. Behind(f) = {} /\ Cardinality({}) = 0
      BY <2>13, FS_EmptySet DEF Behind
    <3>4. t.ack_nr = No(m, f.next - 1) /\ First(m) + Len(t.delivered) = f.next
      BY <2>2, <2>7, <2>9, <2>13, <3>1
    <3>5. ~(u.fin_sent /\ f.count - 1 \in f.has)
      BY <2>5, <2>13, <2>16
    <3>6. Cardinality(Behind(f)) <= t.reorder_count
      BY <2>7, <3>3
    <3> QED
      BY <2>7, <3>1, <3>2, <3>3, <3>4, <3>5, <3>6 DEF Receiving
  <2>18. \A d \in t.out : AckClaim(m, f, d)
    <3>1. 1 \in -1 .. f.next
      BY <2>13
    <3> QED
      BY <2>7, <2>9, <3>1 DEF AckClaim
  <2>19. Opened(n, t, h, f)
    BY <2>2, <2>4, <2>7, <2>13 DEF Opened, Established, isn
  <2>20. t.wrote <= MaxWrite[n]
    BY <1>1, <2>7, ConnectionAssumption
  <2>21. Ends(n, s, h, t, h, u, e, f)
    BY <2>3, <2>11, <2>12, <2>14, <2>15, <2>17, <2>18, <2>19, <2>20 DEF Ends
  <2> QED
    BY <1>1, <1>2, <1>5, <2>8, <2>21, CommitStreams DEF s
<1> QED
  BY <1>4, <1>5

-----------------------------------------------------------------------------
(* What an acknowledgement means *)

\* A count of acknowledged packets that is not zero leads to the number named.
LEMMA AckMeans ==
    ASSUME NEW n \in Nodes, NEW count \in Nat, count + 1 < SEQ_MOD,
           NEW a \in Int, -1 <= a, a <= count,
           NEW s, s.seq_nr = No(n, count), s.cwp \in Nat, s.cwp <= count
    PROVE  LET acks == AckCount(s, No(n, a - 1))
           IN  acks \in 0 .. s.cwp /\ (acks > 0 => acks = a - (count - s.cwp))
<1> DEFINE ack == No(n, a - 1)
           d == a - count + s.cwp
           k == Wrap(ack - (s.seq_nr - 1 - s.cwp))
<1>1. d \in Int /\ -SEQ_MOD < d /\ d < SEQ_MOD /\ (d < 0 => d + SEQ_MOD > s.cwp)
      /\ SEQ_MOD \in Nat
  BY SeqModAssumption
<1>2. k = Wrap(d)
  <2>1. Wrap(No(n, a - 1) - No(n, count) + (1 + s.cwp)) = Wrap((a - 1) - count + (1 + s.cwp))
    BY NoDistance
  <2>2. No(n, a - 1) \in Int /\ No(n, count) \in Int
    BY NoType DEF SeqNrs
  <2>3. No(n, a - 1) - No(n, count) + (1 + s.cwp) = ack - (s.seq_nr - 1 - s.cwp)
    BY <2>2
  <2>4. (a - 1) - count + (1 + s.cwp) = d
    OBVIOUS
  <2> QED
    BY <2>1, <2>3, <2>4
<1>3. AckCount(s, ack) = IF k > s.cwp THEN 0 ELSE k
  BY DEF AckCount
<1> HIDE DEF k, ack
<1>4. k = IF d >= 0 THEN d ELSE d + SEQ_MOD
  BY <1>1, <1>2, WrapSmall
<1>5. AckCount(s, ack) \in 0 .. s.cwp
      /\ (AckCount(s, ack) > 0 => AckCount(s, ack) = a - (count - s.cwp))
  <2>1. CASE d >= 0
    BY <1>3, <1>4, <2>1
  <2>2. CASE ~(d >= 0)
    BY <1>1, <1>3, <1>4, <2>2
  <2> QED
    BY <2>1, <2>2
<1> QED
  BY <1>5 DEF ack

\* A packet that an acknowledgement covers is with the receiver, and when all are
\* covered it has the whole stream so far.
LEMMA AckedReceived ==
    ASSUME NEW n, NEW s, NEW g, Steady(n, s, g), NEW p, AckClaim(n, g, p),
           p.type \in {"DATA", "FIN", "STATE"}
    PROVE  LET acks == AckCount(s, p.ack)
           IN  /\ \A i \in 0 .. acks - 1 : g.count - s.cwp + i \in g.has
               /\ s.cwp = acks => g.next = g.count
<1> DEFINE acks == AckCount(s, p.ack)
<1>1. /\ n \in Nodes /\ SendOK(s) /\ StreamOK(n, g) /\ Sending(n, s, g, s.wrote)
      /\ g.count + 1 < SEQ_MOD /\ s.cwp \in Nat /\ s.cwp <= g.count
      /\ s.seq_nr = No(n, g.count) /\ g.count \in Nat /\ Registered(s)
  BY OpenType DEF Steady, Open
<1>2. g.next \in Nat /\ g.next <= g.count /\ g.next \notin g.has
      /\ \A k \in 0 .. g.next - 1 : k \in g.has
  BY <1>1 DEF StreamOK, Streams
<1>3. PICK a \in -1 .. g.next : p.ack = No(n, a - 1)
  BY DEF AckClaim
<1>4. acks \in 0 .. s.cwp /\ (acks > 0 => acks = a - (g.count - s.cwp))
  <2>1. a \in Int /\ -1 <= a /\ a <= g.count
    BY <1>1, <1>2
  <2> QED
    BY <1>1, <1>3, <2>1, AckMeans
<1> HIDE DEF acks
<1>5. ASSUME NEW i \in 0 .. acks - 1 PROVE g.count - s.cwp + i \in g.has
  <2>1. g.count - s.cwp + i \in 0 .. g.next - 1
    BY <1>1, <1>2, <1>4
  <2> QED
    BY <1>2, <2>1
<1>6. ASSUME s.cwp = acks PROVE g.next = g.count
  <2>1. CASE acks > 0
    BY <1>1, <1>2, <1>4, <1>6, <2>1
  <2>2. CASE s.cwp = 0
    <3>1. ASSUME g.next < g.count PROVE FALSE
      <4>1. g.next \in 0 .. g.count - 1
        BY <1>1, <1>2, <3>1
      <4>2. No(n, g.next) \in SeqNrs
        BY <1>1, <1>2, NoType
      <4>3. No(n, g.next) \notin Window(s)
        BY <2>2 DEF Window
      <4>4. s.outbuf[No(n, g.next)] = NULL
        BY <1>1, <4>2, <4>3 DEF SendOK
      <4> QED
        BY <1>1, <1>2, <4>1, <4>4 DEF Sending
    <3> QED
      BY <1>1, <1>2, <3>1
  <2> QED
    BY <1>1, <1>4, <1>6, <2>1, <2>2
<1> QED
  BY <1>5, <1>6 DEF acks

\* Packets are sent, or leave outbuf because the receiver has them.
LEMMA ReceivedCalls ==
    ASSUME NEW n, NEW s, NEW g, Steady(n, s, g), NEW t, SendOK(t),
           NEW Q \in SUBSET Received(n, g), Serves(s, t, Q)
    PROVE  Calls(n, s, g, t, g)
<1>1. /\ n \in Nodes /\ StreamOK(n, g) /\ Sending(n, s, g, s.wrote) /\ g.count \in Nat
      /\ SendOK(s) /\ Registered(s) /\ g.count + 1 < SEQ_MOD
  BY OpenType DEF Steady, Open
<1>2. g.count < SEQ_MOD
  BY <1>1, SeqModAssumption
<1>3. Serves(s, t, Received(n, g))
  BY ServesWider
<1>4. Sending(n, t, g, s.wrote) /\ Extends(n, s, g, t, g) /\ SameReading(s, t) /\ Posts(s, t)
  BY <1>1, <1>2, <1>3, ServesSending
<1>5. /\ StateMoves(s, t) /\ (t.ack_pending => s.ack_pending) /\ t.wrote = s.wrote
      /\ t.seq_nr = s.seq_nr /\ t.fin_sent = s.fin_sent /\ t.read_shutdown = s.read_shutdown
  BY DEF Serves, SameStream
<1>6. Hears(s, t)
  BY <1>4, <1>5 DEF Hears, SameReading
<1>7. Emits(s, t)
  BY <1>4 DEF Emits, Posts
<1> QED
  BY <1>1, <1>4, <1>5, <1>6, <1>7 DEF Calls, Steady

\* The receiver has the FIN.
LEMMA FinAckedCalls ==
    ASSUME NEW n, NEW s, NEW g, Steady(n, s, g), s.fin_sent, g.next = g.count,
           NEW st \in {s.st, "DESTROY"}
    PROVE  LET t == [s EXCEPT !.fin_sent_acked = TRUE, !.st = st]
           IN  Calls(n, s, g, t, g) /\ SendOK(t)
<1> DEFINE t == [s EXCEPT !.fin_sent_acked = TRUE, !.st = st]
<1>1. /\ SendOK(s) /\ SocketType(s) /\ Registered(s) /\ s.st # "UNINITIALIZED"
      /\ StreamOK(n, g) /\ Sending(n, s, g, s.wrote) /\ g.count \in Nat /\ s.wrote <= MaxWrite[n]
  BY OpenType DEF Steady, Open
<1>2. /\ SocketType(t) /\ SameSend(s, t) /\ SameReading(s, t) /\ t.wrote = s.wrote /\ t.st = st
      /\ t.read_shutdown = s.read_shutdown /\ t.ack_pending = s.ack_pending /\ t.out = s.out
  BY <1>1 DEF SocketType, Fields, States, SameSend, SameReading, SameRecv
<1> HIDE DEF t
<1>3. SendOK(t)
  BY <1>1, <1>2, SameSendOK
<1>4. t.fin_sent = s.fin_sent /\ t.seq_nr = s.seq_nr /\ t.cwp = s.cwp /\ t.outbuf = s.outbuf
  BY <1>2 DEF SameSend
<1>5. Sending(n, t, g, t.wrote)
  <2>1. \A d \in t.out : DataClaim(n, t, g, d)
    BY <1>1, <1>2, <1>4 DEF Sending, DataClaim
  <2> QED
    BY <1>1, <1>2, <1>4, <2>1 DEF Sending
<1>6. Extends(n, s, g, t, g)
  BY <1>1, <1>4 DEF Extends
<1>7. StateMoves(s, t)
  BY <1>1, <1>2 DEF StateMoves, Established, Registered
<1>8. Hears(s, t) /\ Emits(s, t)
  BY <1>2 DEF Hears, Emits, SameReading
<1> QED
  BY <1>1, <1>2, <1>3, <1>4, <1>5, <1>6, <1>7, <1>8 DEF Calls, t

\* The socket once the connection is established.
Opens(s, p) ==
  IF (p.type = "DATA" /\ s.st = "SYN_RECV") \/ (p.type = "STATE" /\ s.st = "SYN_SENT")
  THEN [s EXCEPT !.st = "CONNECTED"] ELSE s

\* The applications see no change, except that on_connect may have written.
SameView(s, t) ==
  /\ t.fin_sent = s.fin_sent /\ t.read_shutdown = s.read_shutdown
  /\ t.delivered = s.delivered /\ t.got_fin_reached = s.got_fin_reached /\ t.wrote = s.wrote

WritesOnly(s, t) ==
  /\ t.fin_sent = s.fin_sent /\ t.read_shutdown = s.read_shutdown
  /\ t.delivered = s.delivered /\ t.got_fin_reached = s.got_fin_reached
  /\ s.wrote <= t.wrote /\ (s.st # "SYN_SENT" => t.wrote = s.wrote)

\* The number, counted from 0, of the packet that starts the window.
Oldest(s, g) == g.count - s.cwp

LEMMA ViewWrites ==
    ASSUME NEW s, s.wrote \in Nat, NEW t, SameView(s, t)
    PROVE  WritesOnly(s, t)
  BY DEF SameView, WritesOnly

\* What the state changes of advance_send_window make of socket s and its stream.
Advanced(n, s, p, g, t, h) ==
  Calls(n, Opens(s, p), g, t, h) /\ Oldest(t, h) = Oldest(s, g) /\ WritesOnly(s, t)

\* The state changes of advance_send_window, and what on_connect writes.
LEMMA AdvanceStateCalls ==
    ASSUME ShortConnection, NEW n, NEW s, NEW p, SocketType(s),
           NEW g, Steady(n, Opens(s, p), g),
           NEW acks, s.fin_sent /\ s.cwp = acks => g.next = g.count,
           NEW k \in Nat, k > 0 /\ s.st = "SYN_SENT" => ~s.fin_sent /\ s.wrote + k <= MaxWrite[n]
    PROVE  LET t == AdvanceState(s, p, acks, k)
           IN  SendOK(t) /\ \E h : Advanced(n, s, p, g, t, h)
<1> DEFINE con == "CONNECTED"
           c == [s EXCEPT !.st = con]
           o == Opens(s, p)
           t == AdvanceState(s, p, acks, k)
<1> SUFFICES /\ SendOK(t) /\ WritesOnly(s, t)
             /\ \E h : Calls(n, o, g, t, h) /\ h.count - t.cwp = g.count - s.cwp
  BY Zenon DEF Oldest, Advanced
<1>1. /\ SendOK(o) /\ SocketType(o) /\ n \in Nodes /\ o.wrote \in Nat
      /\ Open(n, o, g, o.wrote) /\ o.st # "UNINITIALIZED" /\ g.count \in Nat
  BY OpenType DEF Steady, Open
<1>2. c.st = con /\ c.fin_sent = s.fin_sent /\ c.cwp = s.cwp /\ c.wrote = s.wrote
      /\ c.close_requested = s.close_requested /\ SameView(s, c)
  BY DEF SocketType, Fields, SameView
<1> HIDE DEF c
<1>3. o.fin_sent = s.fin_sent /\ o.cwp = s.cwp /\ o.wrote = s.wrote /\ SameView(s, o)
  <2>1. SameView(s, s)
    BY DEF SameView
  <2> QED
    BY <1>2, <2>1 DEF Opens, c
<1>4. CASE p.type = "STATE" /\ s.st = "SYN_SENT"
  <2>1. o = c
    BY <1>4 DEF Opens, c
  <2>2. t = IF k = 0 THEN c ELSE Write(c, k)
    BY <1>4 DEF AdvanceState, c
  <2>3. CASE k = 0
    <3>1. Serves(o, o, {}) /\ {} \in SUBSET Received(n, g)
      BY <1>1, ServesReflexive
    <3>2. Calls(n, o, g, o, g)
      BY <1>1, <3>1, ReceivedCalls
    <3>3. t = o
      BY <2>1, <2>2, <2>3
    <3> HIDE DEF o, t
    <3>4. WritesOnly(s, t)
      BY <1>1, <1>3, <3>3 DEF WritesOnly, SameView
    <3> QED
      BY <1>1, <1>3, <3>2, <3>3, <3>4 DEF o, t
  <2>4. CASE k # 0
    <3> DEFINE w == Write(o, k)
    <3>1. w = t
      BY <2>1, <2>2, <2>4
    <3>2. o.st = con /\ ~o.fin_sent /\ k \in Nat \ {0} /\ o.wrote + k <= MaxWrite[n]
      BY <1>2, <1>3, <1>4, <2>1, <2>4
    <3>3. SendOK(w) /\ w.wrote <= MaxWrite[n] /\ \E h : Queues(n, o, g, w, h, w.wrote)
      BY <1>1, <3>2, WriteQueues
    <3> HIDE DEF w, o, t
    <3>4. PICK h : Queues(n, o, g, w, h, w.wrote)
      BY <3>3
    <3>5. Established(o)
      BY <3>2 DEF Established
    <3>6. Calls(n, o, g, w, h)
      BY <3>3, <3>4, <3>5, QueuesCalls
    <3>7. h.count - w.cwp = g.count - o.cwp
      BY <3>4 DEF Queues
    <3>8. w.fin_sent = o.fin_sent /\ o.wrote <= w.wrote
      BY <1>1, <3>2, WriteSends DEF Writes, w
    <3>9. /\ w.read_shutdown = o.read_shutdown /\ w.delivered = o.delivered
          /\ w.got_fin_reached = o.got_fin_reached
      BY <3>4 DEF Queues, SameReading
    <3>10. WritesOnly(s, t)
      BY <1>3, <1>4, <3>1, <3>8, <3>9 DEF WritesOnly, SameView
    <3> QED
      BY <1>3, <3>1, <3>3, <3>6, <3>7, <3>10 DEF o, t
  <2> QED
    BY <2>3, <2>4
<1>5. CASE ~(p.type = "STATE" /\ s.st = "SYN_SENT")
  <2> DEFINE st == IF o.close_requested THEN "DESTROY" ELSE o.st
             f == [o EXCEPT !.fin_sent_acked = TRUE, !.st = st]
  <2>1. t = IF o.fin_sent /\ o.cwp = acks THEN f ELSE o
    <3>1. o = IF p.type = "DATA" /\ s.st = "SYN_RECV" THEN [s EXCEPT !.st = "CONNECTED"] ELSE s
      BY <1>5 DEF Opens
    <3>2. ~(p.type = "STATE" /\ o.st = "SYN_SENT")
      BY <1>2, <1>5, <3>1 DEF c
    <3>3. t = IF p.type = "STATE" /\ o.st = "SYN_SENT"
              THEN LET x == [o EXCEPT !.st = "CONNECTED"] IN IF k = 0 THEN x ELSE Write(x, k)
              ELSE IF o.fin_sent /\ o.cwp = acks
              THEN [o EXCEPT !.fin_sent_acked = TRUE,
                             !.st = IF o.close_requested THEN "DESTROY" ELSE @]
              ELSE o
      BY <3>1, Zenon DEF AdvanceState
    <3> HIDE DEF o, t
    <3> QED
      BY <3>2, <3>3
  <2>2. CASE o.fin_sent /\ o.cwp = acks
    <3>1. g.next = g.count /\ st \in {o.st, "DESTROY"} /\ o.fin_sent
      BY <1>3, <2>2
    <3> HIDE DEF st, o
    <3>2. Calls(n, o, g, f, g) /\ SendOK(f)
      BY <3>1, FinAckedCalls DEF o
    <3>3. f.cwp = o.cwp /\ SameView(o, f)
      BY <1>1 DEF SocketType, Fields, SameView
    <3> HIDE DEF f, t
    <3>4. WritesOnly(s, t)
      <4>1. t = f
        BY <2>1, <2>2
      <4>2. SameView(s, t)
        BY <1>3, <3>3, <4>1 DEF SameView
      <4> QED
        BY <4>2, ViewWrites DEF SocketType
    <3> QED
      BY <1>3, <2>1, <2>2, <3>2, <3>3, <3>4 DEF o, t
  <2>3. CASE ~(o.fin_sent /\ o.cwp = acks)
    <3>1. Serves(o, o, {}) /\ {} \in SUBSET Received(n, g)
      BY <1>1, ServesReflexive
    <3>2. Calls(n, o, g, o, g)
      BY <1>1, <3>1, ReceivedCalls
    <3>3. t = o
      BY <2>1, <2>3
    <3> HIDE DEF o, t
    <3>4. WritesOnly(s, t)
      BY <1>1, <1>3, <3>3 DEF WritesOnly, SameView
    <3> QED
      BY <1>1, <1>3, <3>2, <3>3, <3>4 DEF o, t
  <2> QED
    BY <2>2, <2>3
<1> QED
  BY <1>4, <1>5

\* What follows the state changes: the window is acknowledged, cumulatively and
\* selectively, and may have room again.
LEMMA AfterStateCalls ==
    ASSUME ShortConnection, NEW n, NEW s, NEW g, Steady(n, s, g),
           NEW p \in Datagrams, AckClaim(n, g, p), p.type \in {"DATA", "FIN", "STATE"},
           NEW acks \in 0 .. s.cwp,
           \A i \in 0 .. acks - 1 : g.count - s.cwp + i \in g.has,
           NEW decay \in BOOLEAN
    PROVE  LET y == FastTimeout(SendLoneLast(SkipAcked(
                      AckCumulative(RaiseFastResend(s, p.ack), acks))))
               z == IF p.sack = NULL THEN y ELSE SelectiveAck(y, p.ack, p.sack, decay)
               w == BecomeWritable(z)
           IN  SendOK(w) /\ SameView(s, w) /\ Calls(n, s, g, w, g)
<1> DEFINE y == FastTimeout(SendLoneLast(SkipAcked(
                  AckCumulative(RaiseFastResend(s, p.ack), acks))))
           v == SelectiveAck(y, p.ack, p.sack, decay)
           z == IF p.sack = NULL THEN y ELSE v
           w == BecomeWritable(z)
           Q == Leading(s, acks)
           P == Sacked(p.ack, p.sack)
           Reached(x) == SendOK(x) /\ Calls(n, s, g, x, g) /\ Steady(n, x, g) /\ SameView(s, x)
                         /\ x.st # "UNINITIALIZED" /\ SocketType(x) /\ Registered(x)
<1>1. /\ SendOK(s) /\ n \in Nodes /\ SocketType(s) /\ g.count \in Nat /\ s.cwp \in Nat
      /\ s.st # "UNINITIALIZED" /\ s.seq_nr = No(n, g.count) /\ Registered(s) /\ s.cwp <= g.count
      /\ g.has \subseteq Nat
  <2>1. g.has \subseteq Nat
    BY DEF Steady, Open, StreamOK, Streams
  <2> QED
    BY <2>1, OpenType DEF Steady, Open
<1>2. p.ack \in SeqNrs /\ (p.sack # NULL => p.sack \in SUBSET Nat)
  BY DEF Datagrams
<1>3. Q \in SUBSET Received(n, g)
  <2> SUFFICES ASSUME NEW i \in 0 .. acks - 1
               PROVE  Wrap(WindowStart(s) + i) \in Received(n, g)
    BY DEF Leading
  <2> DEFINE k == g.count - s.cwp
  <2>1. k \in Int /\ i \in Int /\ k + i \in g.has
    BY <1>1
  <2>2. WindowStart(s) = No(n, k)
    <3>1. Wrap(No(n, g.count) + (-s.cwp)) = No(n, g.count + (-s.cwp))
      <4> DEFINE c == g.count
                 d == -s.cwp
      <4>1. c \in Int /\ d \in Int
        BY <1>1
      <4> HIDE DEF c, d
      <4>2. Wrap(No(n, c) + d) = No(n, c + d)
        BY <1>1, <4>1, NoShift
      <4> QED
        BY <4>2 DEF c, d
    <3>2. No(n, g.count) \in Int
      BY <1>1, NoType DEF SeqNrs
    <3>3. No(n, g.count) + (-s.cwp) = s.seq_nr - s.cwp /\ g.count + (-s.cwp) = k
      BY <1>1, <3>2
    <3> QED
      BY <3>1, <3>3 DEF WindowStart
  <2> HIDE DEF k
  <2>3. Wrap(No(n, k) + i) = No(n, k + i)
    BY <1>1, <2>1, NoShift
  <2> QED
    BY <2>1, <2>2, <2>3 DEF Received
<1>4. p.sack # NULL => P \in SUBSET Received(n, g)
  BY DEF AckClaim, Sacked, Received
<1>5. SendOK(y) /\ Serves(s, y, Q)
  BY <1>1, <1>2, AdvanceServes
<1>6. ASSUME NEW x, Reached(x), NEW r, SendOK(r), NEW S \in SUBSET Received(n, g), Serves(x, r, S),
             Registered(r)
      PROVE  Reached(r)
  <2>1. Calls(n, x, g, r, g)
    BY <1>6, ReceivedCalls
  <2>2. SocketType(r) /\ r.st # "UNINITIALIZED"
    BY <1>6 DEF SendOK, Registered
  <2>3. Calls(n, s, g, r, g)
    BY <1>1, <1>6, <2>1, <2>2, CallsTransitive
  <2>4. Steady(n, r, g)
    BY <1>6, <2>1, SteadyAfter
  <2>5. SameView(s, r)
    BY <1>6 DEF Serves, SameStream, SameView
  <2> QED
    BY <1>6, <2>2, <2>3, <2>4, <2>5
<1>7. Reached(s)
  <2>1. Serves(s, s, {}) /\ {} \in SUBSET Received(n, g)
    BY <1>1, ServesReflexive
  <2>2. Calls(n, s, g, s, g)
    BY <1>1, <2>1, ReceivedCalls
  <2>3. SameView(s, s)
    BY DEF SameView
  <2> QED
    BY <1>1, <2>2, <2>3
<1> HIDE DEF Reached, Q, P
<1>8. Reached(y)
  <2>1. y.st = s.st
    <3>1. SendOK(s) /\ p.ack \in SeqNrs
      BY <1>1, <1>2
    <3> DEFINE a == RaiseFastResend(s, p.ack)
               b == AckCumulative(a, acks)
               d == SkipAcked(b)
               e == SendLoneLast(d)
    <3>2. SendOK(a) /\ a.st = s.st /\ acks \in 0 .. a.cwp
      BY <3>1, RaiseFastResendKeeps DEF Keeps, SameWindow
    <3> HIDE DEF a
    <3>3. SendOK(b) /\ b.st = a.st
      BY <3>2, AckCumulativeSends
    <3> HIDE DEF b
    <3>4. SendOK(d) /\ d.st = b.st
      BY <3>3, SkipAckedSends
    <3> HIDE DEF d
    <3>5. SendOK(e) /\ e.st = d.st
      BY <3>4, SendLoneLastKeeps DEF Keeps
    <3> HIDE DEF e
    <3>6. FastTimeout(e).st = e.st
      BY <3>5, FastTimeoutKeeps DEF Keeps
    <3>7. y = FastTimeout(e)
      BY DEF e, d, b, a
    <3> HIDE DEF y
    <3> QED
      BY <3>2, <3>3, <3>4, <3>5, <3>6, <3>7
  <2> HIDE DEF y
  <2>2. Registered(y)
    BY <1>1, <2>1 DEF Registered
  <2> QED
    BY <1>3, <1>5, <1>6, <1>7, <2>2
<1> HIDE DEF y
<1>9. Reached(z)
  <2>1. SendOK(y) /\ y.st # "UNINITIALIZED" /\ Registered(y)
    BY <1>8 DEF Reached
  <2>2. CASE p.sack = NULL
    BY <1>8, <2>2
  <2>3. CASE p.sack # NULL
    <3>1. SendOK(v) /\ Grows(y, v) /\ Serves(y, v, P)
      BY <1>2, <2>1, <2>3, SelectiveAckGrows, SelectiveAckServes DEF P
    <3> HIDE DEF v
    <3>2. Registered(v)
      BY <2>1, <3>1 DEF Grows, Registered
    <3>3. Reached(v)
      BY <1>4, <1>6, <1>8, <2>3, <3>1, <3>2
    <3> QED
      BY <2>3, <3>3
  <2> QED
    BY <2>2, <2>3
<1> HIDE DEF z
<1>10. Reached(w)
  <2>1. SendOK(z) /\ z.st # "UNINITIALIZED" /\ Registered(z) /\ SocketType(z)
    BY <1>9 DEF Reached
  <2>2. Serves(z, w, {}) /\ SendOK(w)
    BY <2>1, BecomeWritableServes
  <2>3. w.st \in {z.st, "CONNECTED"}
    BY <2>1 DEF BecomeWritable, SocketType, Fields
  <2> HIDE DEF w
  <2>4. Registered(w) /\ {} \in SUBSET Received(n, g)
    BY <2>1, <2>3 DEF Registered
  <2> QED
    BY <1>6, <1>9, <2>2, <2>4
<1> HIDE DEF w
<1>11. SendOK(w) /\ SameView(s, w) /\ Calls(n, s, g, w, g)
  BY <1>10 DEF Reached
<1> QED
  BY <1>11 DEF w, z, v, y

\* The acknowledgements of a datagram, from the socket with its state changed on.
LEMMA AcksCalls ==
    ASSUME ShortConnection, NEW n, NEW s, NEW g, SendOK(s), NEW p \in Datagrams,
           Steady(n, Opens(s, p), g), AckClaim(n, g, p), p.type \in {"DATA", "FIN", "STATE"},
           NEW k \in Nat, k > 0 /\ s.st = "SYN_SENT" => ~s.fin_sent /\ s.wrote + k <= MaxWrite[n],
           NEW acks, acks = AckCount(s, p.ack), NEW decay \in BOOLEAN
    PROVE  LET x == AdvanceState(s, p, acks, k)
               y == FastTimeout(SendLoneLast(SkipAcked(
                      AckCumulative(RaiseFastResend(x, p.ack), acks))))
               z == IF p.sack = NULL THEN y ELSE SelectiveAck(y, p.ack, p.sack, decay)
               w == BecomeWritable(z)
           IN  SendOK(w) /\ WritesOnly(s, w) /\ \E h : Calls(n, Opens(s, p), g, w, h)
<1> DEFINE o == Opens(s, p)
           x == AdvanceState(s, p, acks, k)
           y == FastTimeout(SendLoneLast(SkipAcked(
                  AckCumulative(RaiseFastResend(x, p.ack), acks))))
           z == IF p.sack = NULL THEN y ELSE SelectiveAck(y, p.ack, p.sack, decay)
           w == BecomeWritable(z)
<1>1. /\ SocketType(s) /\ p.ack \in SeqNrs /\ s.cwp \in Nat
  BY DEF SendOK, SocketType, Datagrams
<1>2. o.cwp = s.cwp /\ o.seq_nr = s.seq_nr /\ o.wrote = s.wrote /\ o.fin_sent = s.fin_sent
      /\ o.st \in {s.st, "CONNECTED"}
  BY <1>1 DEF Opens, SocketType, Fields
<1>3. acks \in 0 .. s.cwp /\ acks = AckCount(o, p.ack)
  <2>1. AckCount(s, p.ack) \in 0 .. s.cwp
    BY <1>1, AckCountType
  <2> QED
    BY <1>2, <2>1 DEF AckCount
<1> HIDE DEF o
<1>4. /\ \A i \in 0 .. acks - 1 : g.count - s.cwp + i \in g.has
      /\ s.cwp = acks => g.next = g.count
  BY <1>2, <1>3, AckedReceived DEF o
<1>5. /\ SendOK(x) /\ WritesOnly(s, x)
      /\ \E h : Calls(n, o, g, x, h) /\ h.count - x.cwp = g.count - s.cwp
  <2> HIDE DEF x
  <2>1. Steady(n, Opens(s, p), g) /\ (s.fin_sent /\ s.cwp = acks => g.next = g.count)
    BY <1>4
  <2>2. k \in Nat /\ (k > 0 /\ s.st = "SYN_SENT" => ~s.fin_sent /\ s.wrote + k <= MaxWrite[n])
    OBVIOUS
  <2> HIDE DEF y, z, w
  <2>3. /\ SendOK(AdvanceState(s, p, acks, k))
        /\ \E h : Advanced(n, s, p, g, AdvanceState(s, p, acks, k), h)
    BY ONLY ShortConnection, <1>1, <2>1, <2>2, AdvanceStateCalls
  <2> QED
    BY <2>3, Zenon DEF o, x, Oldest, Advanced
<1>6. Registered(x) /\ x.cwp >= s.cwp
  <2>1. Follows(s, x) /\ x.cwp >= s.cwp
    BY AdvanceStateFollows
  <2>2. Registered(o) /\ n \in Nodes
    BY DEF Steady, Open, o
  <2>3. x.st \in {o.st, "DESTROY", "CONNECTED_FULL"}
    <3> DEFINE c == [s EXCEPT !.st = "CONNECTED"]
    <3>1. o \in {s, c} /\ (p.type = "STATE" /\ s.st = "SYN_SENT" => o = c)
      BY DEF Opens, o
    <3>2. CASE p.type = "STATE" /\ s.st = "SYN_SENT"
      <4>1. x \in {c, Write(c, k)} /\ o = c
        BY <3>1, <3>2 DEF AdvanceState
      <4>2. SendOK(c)
        BY <4>1 DEF Steady, Open, o
      <4> HIDE DEF c
      <4>3. Writes(c, Write(c, k))
        BY <4>2, WriteSends
      <4> QED
        BY <4>1, <4>3 DEF Writes
    <3>3. CASE ~(p.type = "STATE" /\ s.st = "SYN_SENT")
      <4>1. o = IF p.type = "DATA" /\ s.st = "SYN_RECV" THEN c ELSE s
        BY <3>3 DEF Opens, o
      <4>2. c.st = "CONNECTED"
        BY <1>1 DEF SocketType, Fields
      <4>3. ~(p.type = "STATE" /\ o.st = "SYN_SENT")
        BY <3>3, <4>1, <4>2
      <4> DEFINE st == IF o.close_requested THEN "DESTROY" ELSE o.st
      <4>4. x \in {o, [o EXCEPT !.fin_sent_acked = TRUE, !.st = st]}
        <5> HIDE DEF c
        <5>1. x = IF p.type = "STATE" /\ o.st = "SYN_SENT"
              THEN LET y1 == [o EXCEPT !.st = "CONNECTED"] IN IF k = 0 THEN y1 ELSE Write(y1, k)
              ELSE IF o.fin_sent /\ o.cwp = acks
              THEN [o EXCEPT !.fin_sent_acked = TRUE,
                             !.st = IF o.close_requested THEN "DESTROY" ELSE @]
              ELSE o
          BY <4>1, Zenon DEF AdvanceState, c
        <5> HIDE DEF x
        <5> QED
          BY <4>3, <5>1
      <4>5. SocketType(o)
        BY DEF Steady, Open, SendOK, o
      <4> HIDE DEF st, x
      <4>6. x.st = o.st \/ x.st = st
        BY <4>4, <4>5 DEF SocketType, Fields
      <4> QED
        BY <4>6 DEF st
    <3> QED
      BY <3>2, <3>3
  <2> HIDE DEF x
  <2> QED
    BY <2>1, <2>2, <2>3 DEF Registered
<1> HIDE DEF x
<1>7. PICK h : Calls(n, o, g, x, h) /\ h.count - x.cwp = g.count - s.cwp
  BY <1>5
<1>8. Steady(n, x, h)
  BY <1>5, <1>6, <1>7, SteadyAfter DEF o
<1>9. /\ h.has = g.has /\ h.next = g.next
      /\ g.count \in Nat /\ h.count \in Nat /\ x.cwp \in Nat
  <2>1. h.has = g.has /\ h.next = g.next
    BY <1>7 DEF Calls, Extends
  <2> QED
    BY <1>8, <2>1, OpenType DEF Steady, o
<1>10. AckClaim(n, h, p)
  BY <1>9 DEF AckClaim
<1>11. acks \in 0 .. x.cwp /\ \A i \in 0 .. acks - 1 : h.count - x.cwp + i \in h.has
  BY <1>1, <1>3, <1>4, <1>6, <1>7, <1>9
<1>12. SendOK(w) /\ SameView(x, w) /\ Calls(n, x, h, w, h)
  BY <1>8, <1>10, <1>11, AfterStateCalls
<1> HIDE DEF w
<1>13. Calls(n, o, g, w, h)
  <2>1. SocketType(o) /\ SocketType(x) /\ SocketType(w)
    BY <1>5, <1>12 DEF SendOK, Steady, Open, o
  <2> QED
    BY <1>7, <1>9, <1>12, <2>1, CallsTransitive
<1>14. SendOK(w) /\ WritesOnly(s, w) /\ \E r : Calls(n, o, g, w, r)
  BY <1>5, <1>12, <1>13 DEF WritesOnly, SameView
<1> QED
  BY <1>14 DEF w, z, y, x, o
=============================================================================
