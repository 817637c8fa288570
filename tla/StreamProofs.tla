---------------------------- MODULE StreamProofs -----------------------------
(***************************************************************************)
(* The two byte streams of a connection, continued: a SYN-ACK, an          *)
(* acknowledgement and a packet of data keep StreamInv, and what follows   *)
(* from it.  No byte is lost, a FIN is only taken as acknowledged when it  *)
(* was read, and the connection implements ReliableStream.                 *)
(***************************************************************************)
EXTENDS StreamCallProofs

-----------------------------------------------------------------------------
(* One packet: what follows what *)

\* A call in the middle of process_incoming, at a socket that knows its peer.
LEMMA CallsThen ==
    ASSUME NEW n \in Nodes, NEW s, SocketType(s), NEW g, g.count \in Nat,
           NEW r, SocketType(r), Registered(r), NEW i, NEW u, NEW e, NEW f, f.open,
           Ends(n, s, g, r, i, u, e, f), NEW t, SocketType(t), NEW h, Calls(n, r, i, t, h)
    PROVE  Ends(n, s, g, t, h, u, e, f)
<1> DEFINE m == Peer(n)
<1>1. /\ StreamOK(n, i) /\ Sending(n, r, i, r.wrote) /\ Extends(n, s, g, r, i)
      /\ StreamOK(m, f) /\ Advances(m, u, e, f) /\ Receiving(m, r, f, u.fin_sent)
      /\ \A p \in r.out : AckClaim(m, f, p)
      /\ Opened(n, r, i, f)
  BY DEF Ends
<1>2. /\ StreamOK(n, h) /\ Sending(n, t, h, t.wrote) /\ t.wrote <= MaxWrite[n]
      /\ Extends(n, r, i, t, h) /\ StateMoves(r, t) /\ Hears(r, t) /\ Emits(r, t)
      /\ (~Established(r) => h = i)
  BY DEF Calls
<1>3. m \in Nodes /\ n \in {"A", "B"}
  BY DEF Nodes, Peer
<1>4. Extends(n, s, g, t, h)
  <2>1. /\ i.count \in Nat /\ h.count \in Nat
        /\ r.fin_sent \in BOOLEAN /\ s.fin_sent \in BOOLEAN /\ t.fin_sent \in BOOLEAN
    BY <1>1, <1>2 DEF SocketType, StreamOK, Streams
  <2>2. \A k \in 0 .. g.count - 1 : k \in 0 .. i.count - 1
    BY <1>1, <2>1 DEF Extends
  <2>3. g.count <= h.count /\ (t.fin_sent /\ ~s.fin_sent => h.count > g.count)
    BY <1>1, <1>2, <2>1 DEF Extends
  <2> QED
    BY <1>1, <1>2, <2>1, <2>2, <2>3 DEF Extends
<1> HIDE DEF m
<1>5. Receiving(m, t, f, u.fin_sent)
  BY <1>1, <1>2 DEF Receiving, Hears, SameRecv
<1>6. \A d \in t.out : AckClaim(m, f, d)
  BY <1>1, <1>2, <1>3, EmittedClaims
<1>7. Opened(n, t, h, f)
  <2>1. t.st # "UNINITIALIZED" /\ (t.st = "SYN_SENT" => r.st = "SYN_SENT")
        /\ (Established(t) => Established(r))
    BY <1>2 DEF StateMoves
  <2>2. ASSUME n = "B", ~h.open
        PROVE  /\ ~Established(t) /\ h.count = 0
               /\ \A p \in t.out : p.type = "STATE" /\ p.seq = ISN["B"]
    <3>1. ~i.open
      BY <1>2, <2>2 DEF Extends
    <3>2. /\ ~Established(r) /\ i.count = 0 /\ h = i
          /\ \A p \in r.out : p.type = "STATE" /\ p.seq = ISN["B"]
      BY <1>1, <1>2, <2>2, <3>1 DEF Opened
    <3>3. Calls("B", r, i, t, h) /\ Sending("B", r, i, r.wrote)
      BY <1>1, <2>2
    <3> QED
      BY <2>1, <3>2, <3>3, OnlySynAck
  <2> QED
    BY <1>1, <1>3, <2>1, <2>2 DEF Opened
<1> QED
  BY <1>1, <1>2, <1>4, <1>5, <1>6, <1>7 DEF Ends, m

\* Fields change that the streams do not depend on.
LEMMA AsideEnds ==
    ASSUME NEW n \in Nodes, NEW s, NEW g, NEW r, NEW h, NEW u, NEW e, NEW f, f.open,
           Ends(n, s, g, r, h, u, e, f),
           NEW t, SameSend(r, t), t.wrote = r.wrote, t.fin_sent_acked = r.fin_sent_acked,
           t.st = r.st, t.out = r.out, SameRecv(r, t), t.delivered = r.delivered,
           t.got_fin = r.got_fin, t.got_fin_reached = r.got_fin_reached,
           t.eof_pkt = r.eof_pkt, t.read_shutdown = r.read_shutdown
    PROVE  Ends(n, s, g, t, h, u, e, f)
<1>1. t.seq_nr = r.seq_nr /\ t.cwp = r.cwp /\ t.outbuf = r.outbuf /\ t.fin_sent = r.fin_sent
  BY DEF SameSend
<1>2. Sending(n, t, h, t.wrote)
  BY <1>1 DEF Ends, Sending, DataClaim, Registered
<1>3. Extends(n, s, g, t, h)
  BY <1>1 DEF Ends, Extends
<1>4. Receiving(Peer(n), t, f, u.fin_sent)
  BY DEF Ends, Receiving, SameRecv, Registered
<1>5. Opened(n, t, h, f)
  BY DEF Ends, Opened, Established
<1> QED
  BY <1>2, <1>3, <1>4, <1>5 DEF Ends

\* The connection is established by the first DATA; node B has the number of its peer's
\* SYN then, and A that of the SYN-ACK.
LEMMA OpensEnds ==
    ASSUME NEW n \in Nodes, NEW s, NEW g, NEW r, SocketType(r), Registered(r), NEW h,
           NEW u, NEW e, NEW f, f.open, n = "B" => h.open, Ends(n, s, g, r, h, u, e, f)
    PROVE  Ends(n, s, g, [r EXCEPT !.st = "CONNECTED"], h, u, e, f)
<1> DEFINE con == "CONNECTED"
           t == [r EXCEPT !.st = con]
<1>1. /\ SameSend(r, t) /\ t.wrote = r.wrote /\ t.fin_sent_acked = r.fin_sent_acked
      /\ t.st = con /\ t.out = r.out /\ SameRecv(r, t) /\ t.delivered = r.delivered
      /\ t.got_fin = r.got_fin /\ t.got_fin_reached = r.got_fin_reached
      /\ t.eof_pkt = r.eof_pkt /\ t.read_shutdown = r.read_shutdown
  BY DEF SocketType, Fields, SameSend, SameRecv
<1>2. t.seq_nr = r.seq_nr /\ t.cwp = r.cwp /\ t.outbuf = r.outbuf /\ t.fin_sent = r.fin_sent
  BY <1>1 DEF SameSend
<1> HIDE DEF t
<1>3. Sending(n, t, h, t.wrote)
  BY <1>1, <1>2 DEF Ends, Sending, DataClaim
<1>4. Extends(n, s, g, t, h)
  BY <1>1, <1>2 DEF Ends, Extends
<1>5. Receiving(Peer(n), t, f, u.fin_sent)
  BY <1>1 DEF Ends, Receiving, SameRecv
<1>6. Opened(n, t, h, f)
  <2>1. n \in {"A", "B"}
    BY DEF Nodes
  <2>2. Opened(n, r, h, f)
    BY DEF Ends
  <2> QED
    BY <1>1, <2>1, <2>2 DEF Opened
<1> QED
  BY <1>1, <1>3, <1>4, <1>5, <1>6 DEF Ends, t

\* The SYN-ACK tells the initiator the first number of its peer.
LEMMA SynAckEnds ==
    ASSUME ConnectionInv, NEW g \in [Nodes -> Streams], StreamBody(g),
           sock["A"].st = "SYN_SENT",
           NEW t, SocketType(t), SameSend(sock["A"], t), t.st = "CONNECTED", t.out = {},
           t.ack_nr = No("B", -1), t.inbuf = sock["A"].inbuf,
           t.delivered = sock["A"].delivered, t.got_fin = sock["A"].got_fin,
           t.got_fin_reached = sock["A"].got_fin_reached,
           t.reorder_count = sock["A"].reorder_count, t.wrote = sock["A"].wrote,
           t.fin_sent_acked = sock["A"].fin_sent_acked
    PROVE  \E f : f.open /\ Ends("A", sock["A"], g["A"], t, g["A"], sock["B"], g["B"], f)
<1> DEFINE s == sock["A"]
           u == sock["B"]
           h == g["A"]
           e == g["B"]
           f == [count |-> e.count, cut |-> e.cut, open |-> TRUE, next |-> e.next,
                 has |-> e.has]
<1>1. /\ "A" \in Nodes /\ "B" \in Nodes /\ Peer("A") = "B" /\ First("B") = 0
  BY DEF Nodes, Peer, First
<1>2. /\ SocketType(s) /\ s.out = {}
      /\ StreamOK("A", h) /\ Sending("A", s, h, s.wrote) /\ s.wrote <= MaxWrite["A"]
      /\ StreamOK("B", e) /\ Sending("B", u, e, u.wrote)
      /\ Receiving("B", s, e, u.fin_sent) /\ Advances("B", u, e, e)
  <2>1. Receiving("B", s, e, u.fin_sent) /\ Advances("B", u, e, e)
    BY <1>1, StreamFacts
  <2> QED
    BY <1>1, <2>1, StreamFacts
<1>3. ~e.open /\ Unsynced(s) /\ e.count = 0
  BY DEF StreamBody, Opening
<1>4. /\ e.next = 0 /\ e.has = {} /\ e.count \in Nat /\ e.cut \in [Nat -> Nat]
      /\ h.count \in Nat /\ t.fin_sent = s.fin_sent /\ t.seq_nr = s.seq_nr
      /\ t.outbuf = s.outbuf /\ t.cwp = s.cwp /\ s.fin_sent \in BOOLEAN
  <2>1. e.next = 0 /\ e.has = {} /\ e.count \in Nat /\ e.cut \in [Nat -> Nat] /\ h.count \in Nat
    BY <1>2, <1>3 DEF StreamOK, Streams
  <2>2. s.fin_sent \in BOOLEAN
    BY <1>2 DEF SocketType
  <2> QED
    BY <2>1, <2>2 DEF SameSend
<1>5. ~u.fin_sent
  BY <1>1, <1>2, <1>3 DEF Sending
<1>6. /\ t.delivered = <<>> /\ ~t.got_fin /\ t.reorder_count = 0
      /\ \A q \in SeqNrs : t.inbuf[q] = NULL
  BY <1>3 DEF Unsynced
<1> HIDE DEF s, u
<1>7. f.count = e.count /\ f.cut = e.cut /\ f.open = TRUE /\ f.next = 0 /\ f.has = {}
  BY <1>4
<1>8. StreamOK("B", f)
  <2>1. f \in Streams
    BY <1>4 DEF Streams
  <2> HIDE DEF f
  <2> QED
    BY <1>2, <1>4, <1>7, <2>1 DEF StreamOK
<1> HIDE DEF f, e, h
<1>9. Sending("A", t, h, t.wrote)
  <2>1. t.wrote = s.wrote /\ t.fin_sent_acked = s.fin_sent_acked /\ Registered(s)
    BY DEF s, Registered
  <2> QED
    BY <1>2, <1>4, <2>1 DEF Sending
<1>10. Extends("A", s, h, t, h)
  BY <1>4 DEF Extends
<1>11. Advances("B", u, e, f)
  BY <1>2, <1>3, <1>4, <1>7 DEF Advances
<1>12. Receiving("B", t, f, u.fin_sent)
  <2>1. Len(t.delivered) = 0 /\ t.delivered = [i \in 1 .. 0 |-> Piece(f, First("B") + i - 1)]
    <3>1. 1 .. 0 = {}
      OBVIOUS
    <3> QED
      BY <1>6, <3>1, EmptySeq
  <2>2. ~t.got_fin_reached
    BY <1>2, <1>5 DEF Receiving, s
  <2>3. Behind(f) = {} /\ Cardinality({}) = 0
    BY <1>7, FS_EmptySet DEF Behind
  <2>4. t.ack_nr = No("B", f.next - 1) /\ First("B") + Len(t.delivered) = f.next
    BY <1>1, <1>7, <2>1
  <2> QED
    BY <1>5, <1>6, <2>1, <2>2, <2>3, <2>4 DEF Receiving
<1>13. Opened("A", t, h, f)
  BY <1>7 DEF Opened
<1>14. t.wrote <= MaxWrite["A"]
  BY <1>2 DEF s
<1>15. Ends("A", s, h, t, h, u, e, f)
  BY <1>1, <1>2, <1>8, <1>9, <1>10, <1>11, <1>12, <1>13, <1>14 DEF Ends
<1> QED
  BY <1>7, <1>15 DEF s, u, h, e

\* A socket that gets data knows the first number of its peer, and its peer knows
\* that of B.
LEMMA DataMeansOpen ==
    ASSUME NEW g \in [Nodes -> Streams], StreamBody(g), NEW x \in net, x.to \in Nodes,
           x.p.type \in {"DATA", "FIN"}, sock[x.to].st # "UNINITIALIZED"
    PROVE  g[Peer(x.to)].open /\ g["B"].open
<1>1. x.to \in {"A", "B"} /\ Opening(g)
  BY DEF Nodes, StreamBody
<1>2. g["B"].open
  BY <1>1 DEF Opening
<1>3. x.to = "B" => g["A"].open
  BY <1>1 DEF Opening
<1> QED
  BY <1>1, <1>2, <1>3 DEF Peer

\* The socket at the end of a call may rely on its half of the invariant.
LEMMA EndsSteady ==
    ASSUME ShortConnection, NEW n \in Nodes, NEW s, NEW g, NEW t, SendOK(t), Registered(t),
           NEW h, NEW u, NEW e, NEW f, Ends(n, s, g, t, h, u, e, f)
    PROVE  Steady(n, t, h)
<1>1. StreamOK(n, h) /\ Sending(n, t, h, t.wrote) /\ t.wrote <= MaxWrite[n] /\ t.wrote \in Nat
  <2>1. t.wrote \in Nat
    BY DEF SendOK, SocketType
  <2> QED
    BY <2>1 DEF Ends
<1>2. h.count + 1 < SEQ_MOD
  BY <1>1, CountBound
<1> QED
  BY <1>1, <1>2 DEF Steady, Open

\* The congestion window and the window of the peer are noted.
Noted(s, p, acks, window) ==
  [CongestionControl(s, p, acks, window) EXCEPT !.max_window_user = p.wnd]

\* What an acknowledgement does to the two windows changes nothing else.
LEMMA NotedSame ==
    ASSUME NEW s, SendOK(s), NEW p \in Datagrams, NEW acks, NEW window \in Nat \ {0}
    PROVE  LET b == Noted(s, p, acks, window) IN SendOK(b) /\ SameSocket(s, b)
<1> DEFINE wnd == p.wnd
           v == [s EXCEPT !.max_window = window]
           c == CongestionControl(s, p, acks, window)
           b == [c EXCEPT !.max_window_user = wnd]
<1>1. SocketType(s) /\ wnd \in Nat
  BY DEF SendOK, Datagrams
<1>2. SocketType(v) /\ SameSocket(s, v)
  BY <1>1 DEF SocketType, Fields, SameSocket, SameSend, SameStream, SameRecv
<1>3. c \in {s, v}
  BY DEF CongestionControl
<1>4. SameSocket(s, s)
  BY DEF SameSocket, SameSend, SameStream, SameRecv
<1> HIDE DEF v, c
<1>5. SocketType(c) /\ SameSocket(s, c)
  BY <1>1, <1>2, <1>3, <1>4
<1> HIDE DEF wnd
<1>6. SocketType(b) /\ SameSocket(c, b)
  BY <1>1, <1>5 DEF SocketType, Fields, SameSocket, SameSend, SameStream, SameRecv
<1>7. b = Noted(s, p, acks, window)
  BY DEF Noted, c, wnd
<1> HIDE DEF b
<1>8. SameSocket(s, b)
  BY <1>5, <1>6 DEF SameSocket, SameSend, SameStream, SameRecv
<1>9. SendOK(b)
  BY <1>6, <1>8, SameSendOK DEF SameSocket
<1> QED
  BY <1>7, <1>8, <1>9

\* The acknowledgements of a datagram that arrives at node n, as AcksCalls has them.
Acked(b, p, acks, c) ==
  LET y == FastTimeout(SendLoneLast(SkipAcked(
             AckCumulative(RaiseFastResend(AdvanceState(b, p, acks, c.write), p.ack), acks))))
  IN  BecomeWritable(IF p.sack = NULL THEN y ELSE SelectiveAck(y, p.ack, p.sack, c.decay))

\* What an acknowledgement does to the sending half, resends and on_connect included.
LEMMA AckedCalls ==
    ASSUME ShortConnection, NEW n, NEW b, SendOK(b), NEW g, NEW p \in Datagrams,
           Steady(n, Opens(b, p), g), AckClaim(n, g, p), p.type \in {"DATA", "FIN", "STATE"},
           NEW c, ChoiceType(c),
           b.st = "SYN_SENT" => ~b.fin_sent /\ b.wrote + c.write <= MaxWrite[n]
    PROVE  LET t == Acked(b, p, AckCount(b, p.ack), c)
           IN  SendOK(t) /\ WritesOnly(b, t) /\ \E h : Calls(n, Opens(b, p), g, t, h)
<1>1. c.write \in Nat /\ c.decay \in BOOLEAN
  BY DEF ChoiceType
<1> DEFINE acks == AckCount(b, p.ack)
           k == c.write
           decay == c.decay
<1>2. k \in Nat /\ decay \in BOOLEAN /\ acks = AckCount(b, p.ack)
      /\ (k > 0 /\ b.st = "SYN_SENT" => ~b.fin_sent /\ b.wrote + k <= MaxWrite[n])
  BY <1>1
<1>3. Acked(b, p, acks, c) =
        LET x == AdvanceState(b, p, acks, k)
            y == FastTimeout(SendLoneLast(SkipAcked(
                   AckCumulative(RaiseFastResend(x, p.ack), acks))))
            z == IF p.sack = NULL THEN y ELSE SelectiveAck(y, p.ack, p.sack, decay)
        IN  BecomeWritable(z)
  BY DEF Acked
<1> HIDE DEF acks, k, decay
<1>4. LET x == AdvanceState(b, p, acks, k)
          y == FastTimeout(SendLoneLast(SkipAcked(
                 AckCumulative(RaiseFastResend(x, p.ack), acks))))
          z == IF p.sack = NULL THEN y ELSE SelectiveAck(y, p.ack, p.sack, decay)
          w == BecomeWritable(z)
      IN  SendOK(w) /\ WritesOnly(b, w) /\ \E h : Calls(n, Opens(b, p), g, w, h)
  BY <1>2, AcksCalls
<1>5. /\ SendOK(Acked(b, p, acks, c)) /\ WritesOnly(b, Acked(b, p, acks, c))
      /\ \E h : Calls(n, Opens(b, p), g, Acked(b, p, acks, c), h)
  BY <1>3, <1>4, Zenon
<1> QED
  BY <1>5, Zenon DEF acks

\* The acknowledgements of a datagram, at a socket that knows its peer.
LEMMA AckedEnds ==
    ASSUME ShortConnection, ConnectionInv, NEW g \in [Nodes -> Streams], StreamBody(g),
           NEW x \in net, NEW n \in Nodes, n = x.to, NEW p \in Datagrams, p = x.p,
           p.type \in {"DATA", "FIN", "STATE"},
           Registered(sock[n]), sock[n].st # "SYN_SENT", NEW c, ChoiceType(c)
    PROVE  LET s == sock[n]
               acks == AckCount(s, p.ack)
               t == Acked(Noted(s, p, acks, c.window), p, acks, c)
           IN  /\ SendOK(t) /\ WritesOnly(s, t)
               /\ \E h : Ends(n, s, g[n], t, h, sock[Peer(n)], g[Peer(n)], g[Peer(n)])
<1> DEFINE s == sock[n]
           m == Peer(n)
           u == sock[m]
           e == g[m]
           i == g[n]
           acks == AckCount(s, p.ack)
           window == c.window
           b == Noted(s, p, acks, window)
           o == Opens(b, p)
           t == Acked(b, p, acks, c)
<1>1. /\ SendOK(s) /\ SocketType(s) /\ s.out = {} /\ s.st # "UNINITIALIZED"
      /\ window \in Nat \ {0} /\ Steady(n, s, i) /\ i.count \in Nat
  <2>1. Steady(n, s, i)
    BY SteadyNow
  <2>2. i.count \in Nat
    BY <2>1, OpenType DEF Steady
  <2> QED
    BY <2>1, <2>2, StreamFacts DEF ChoiceType, Registered
<1>2. AckClaim(n, i, p)
  BY DEF StreamBody
<1>3. p.type = "DATA" => e.open /\ (n = "B" => i.open)
  BY <1>1, DataMeansOpen
<1> HIDE DEF window
<1>4. SendOK(b) /\ SameSocket(s, b)
  <2> HIDE DEF acks, s
  <2> QED
    BY <1>1, NotedSame
<1> HIDE DEF acks, b
<1>5. /\ b.st = s.st /\ SocketType(b) /\ Registered(b) /\ b.st # "UNINITIALIZED"
      /\ acks = AckCount(b, p.ack)
  <2>1. b.st = s.st /\ b.seq_nr = s.seq_nr /\ b.cwp = s.cwp
    BY <1>4 DEF SameSocket, SameSend
  <2>2. AckCount(b, p.ack) = AckCount(s, p.ack)
    BY <2>1 DEF AckCount
  <2> QED
    BY <1>1, <1>4, <2>1, <2>2 DEF SendOK, Registered, acks
<1>6. Calls(n, s, i, b, i)
  <2>1. /\ SameSend(s, b) /\ b.wrote = s.wrote /\ b.fin_sent_acked = s.fin_sent_acked
        /\ SameReading(s, b) /\ b.read_shutdown = s.read_shutdown
        /\ b.ack_pending = s.ack_pending /\ b.out = s.out
    BY <1>4 DEF SameSocket, SameStream, SameReading
  <2>2. StateMoves(s, b)
    BY <1>5 DEF StateMoves, Established, Registered
  <2> HIDE DEF s
  <2> QED
    BY <1>1, <2>1, <2>2, FieldCalls
<1>7. Ends(n, s, i, b, i, u, e, e)
  BY <1>1, <1>5, <1>6, CallsEnds
<1>8. Steady(n, b, i)
  BY <1>4, <1>5, <1>7, EndsSteady
<1>9. o = b \/ (o = [b EXCEPT !.st = "CONNECTED"] /\ p.type = "DATA")
  BY <1>5 DEF Opens
<1>10. o # b => Ends(n, s, i, o, i, u, e, e)
  <2> HIDE DEF o, e, i
  <2> QED
    BY <1>3, <1>5, <1>7, <1>9, OpensEnds
<1>11. Steady(n, o, i) /\ SocketType(o) /\ Registered(o)
  <2>1. SocketType(o) /\ SameSend(b, o) /\ o.st \in {b.st, "CONNECTED"}
    <3> DEFINE con == "CONNECTED"
               d == [b EXCEPT !.st = con]
    <3>1. SocketType(d) /\ SameSend(b, d) /\ d.st = con
      BY <1>5 DEF SocketType, Fields, States, SameSend
    <3>2. o = b \/ o = d
      BY <1>9
    <3>3. SameSend(b, b)
      BY DEF SameSend
    <3> HIDE DEF d, o
    <3> QED
      BY <1>5, <3>1, <3>2, <3>3
  <2> HIDE DEF o
  <2>2. SendOK(o)
    BY <1>4, <2>1, SameSendOK
  <2>3. Registered(o)
    BY <1>5, <2>1 DEF Registered
  <2>4. o # b => Steady(n, o, i)
    BY <1>10, <2>2, <2>3, EndsSteady
  <2> QED
    BY <1>8, <2>1, <2>3, <2>4
<1>12. SendOK(t) /\ WritesOnly(b, t) /\ \E h : Calls(n, o, i, t, h)
  <2>1. Steady(n, Opens(b, p), i)
    BY <1>11
  <2> HIDE DEF i
  <2>2. /\ SendOK(Acked(b, p, AckCount(b, p.ack), c))
        /\ WritesOnly(b, Acked(b, p, AckCount(b, p.ack), c))
        /\ \E h : Calls(n, Opens(b, p), i, Acked(b, p, AckCount(b, p.ack), c), h)
    BY <1>2, <1>4, <1>5, <2>1, AckedCalls
  <2> QED
    BY <1>5, <2>2, Zenon
<1> HIDE DEF t, o
<1>13. PICK h : Calls(n, o, i, t, h)
  BY <1>12
<1>14. SocketType(t) /\ WritesOnly(s, t)
  <2>1. SocketType(t)
    BY <1>12 DEF SendOK
  <2> HIDE DEF s
  <2>2. WritesOnly(s, t)
    BY <1>4, <1>12 DEF SameSocket, SameStream, WritesOnly
  <2> QED
    BY <2>1, <2>2
<1>15. CASE o = b
  <2>1. Calls(n, s, i, t, h)
    BY <1>1, <1>5, <1>6, <1>13, <1>14, <1>15, CallsTransitive
  <2>2. Ends(n, s, i, t, h, u, e, e)
    BY <1>1, <1>14, <2>1, CallsEnds
  <2> QED
    BY <1>12, <1>14, <2>2 DEF t, b, acks, window
<1>16. CASE o # b
  <2> HIDE DEF s, i, e, u
  <2>1. Ends(n, s, i, t, h, u, e, e)
    BY <1>1, <1>3, <1>9, <1>10, <1>11, <1>13, <1>14, <1>16, CallsThen
  <2> QED
    BY <1>12, <1>14, <2>1 DEF t, b, acks, window, s, i, e, u
<1> QED
  BY <1>15, <1>16

\* The same for the initiator that waits for its SYN-ACK.
LEMMA SynAckedEnds ==
    ASSUME ShortConnection, ConnectionInv, NEW g \in [Nodes -> Streams], StreamBody(g),
           NEW x \in net, NEW n \in Nodes, n = x.to, NEW p \in Datagrams, p = x.p,
           p.type \in {"DATA", "FIN", "STATE"},
           sock[n].st = "SYN_SENT", NEW c, ChoiceType(c), c.write <= MaxWrite[n]
    PROVE  LET s == sock[n]
               s0 == [s EXCEPT !.ack_nr = Wrap(p.seq - 1)]
               acks == AckCount(s0, p.ack)
               t == Acked(Noted(s0, p, acks, c.window), p, acks, c)
           IN  /\ p.type = "STATE" /\ Ahead(s0, p.seq) = 0 /\ SendOK(t)
               /\ WritesOnly(s, t) /\ ~s.fin_sent
               /\ \E h, f : Ends(n, s, g[n], t, h, sock[Peer(n)], g[Peer(n)], f)
<1> DEFINE s == sock[n]
           m == Peer(n)
           u == sock[m]
           e == g[m]
           i == g[n]
           ack == Wrap(p.seq - 1)
           s0 == [s EXCEPT !.ack_nr = ack]
           acks == AckCount(s0, p.ack)
           window == c.window
           b == Noted(s0, p, acks, window)
           con == "CONNECTED"
           o == [b EXCEPT !.st = con]
           t == Acked(b, p, acks, c)
<1>1. /\ n = "A" /\ m = "B" /\ p.type = "STATE" /\ p.seq = ISN["B"] /\ Unsynced(s)
  <2>1. n \in {"A", "B"} /\ Opening(g)
    BY DEF Nodes, StreamBody
  <2>2. n = "A" /\ ~g["B"].open
    BY <2>1 DEF Opening
  <2> QED
    BY <2>1, <2>2 DEF Opening, Peer
<1>2. /\ SendOK(s) /\ SocketType(s) /\ s.out = {} /\ s.st = "SYN_SENT"
      /\ window \in Nat \ {0} /\ i.count \in Nat
  <2>1. StreamOK(n, i)
    BY StreamFacts
  <2>2. i.count \in Nat
    BY <2>1 DEF StreamOK, Streams
  <2> QED
    BY <2>2, StreamFacts DEF ChoiceType
<1>3. AckClaim(n, i, p)
  BY DEF StreamBody
<1>4. ack \in SeqNrs /\ ack = No("B", -1) /\ Wrap(p.seq - ack - 1) = 0
  <2>1. "B" \in Nodes /\ ISN["B"] \in SeqNrs
    BY ConnectionAssumption DEF Nodes
  <2>2. ISN["B"] \in Int /\ ISN["B"] - 1 \in Int /\ ISN["B"] - 1 = ISN["B"] + (-1)
    BY <2>1 DEF SeqNrs
  <2>3. ack = No("B", -1)
    BY <1>1, <2>2 DEF No
  <2>4. ISN["B"] = No("B", 0)
    BY <2>1, <2>2, WrapIdentity DEF No, SeqNrs
  <2>5. Wrap(No("B", 0) - No("B", -1) + (-1)) = Wrap(0 - (-1) + (-1))
    BY <2>1, NoDistance
  <2>6. Wrap(0) = 0
    BY WrapIdentity, SeqModAssumption DEF SeqNrs
  <2>7. ack \in SeqNrs /\ No("B", 0) \in Int /\ No("B", -1) \in Int
    BY <2>1, <2>3, NoType DEF SeqNrs
  <2> HIDE DEF ack
  <2>8. p.seq - ack - 1 = No("B", 0) - No("B", -1) + (-1) /\ 0 - (-1) + (-1) = 0
    BY <1>1, <2>3, <2>4, <2>7
  <2> QED
    BY <2>3, <2>5, <2>6, <2>7, <2>8
<1> HIDE DEF window, ack
<1>5. /\ SocketType(s0) /\ SameSend(s, s0) /\ s0.ack_nr = ack /\ s0.st = s.st /\ s0.out = {}
      /\ s0.inbuf = s.inbuf /\ s0.delivered = s.delivered /\ s0.got_fin = s.got_fin
      /\ s0.got_fin_reached = s.got_fin_reached /\ s0.reorder_count = s.reorder_count
      /\ s0.wrote = s.wrote /\ s0.fin_sent_acked = s.fin_sent_acked
      /\ s0.read_shutdown = s.read_shutdown
  BY <1>2, <1>4 DEF SocketType, Fields, SameSend
<1>6. Ahead(s0, p.seq) = 0
  BY <1>4, <1>5 DEF Ahead
<1>7. [s EXCEPT !.ack_nr = Wrap(p.seq - 1)] = s0
  BY DEF ack
<1> HIDE DEF s0, s
<1>8. SendOK(s0)
  BY <1>2, <1>5, SameSendOK
<1>9. SendOK(b) /\ SameSocket(s0, b)
  <2> HIDE DEF acks
  <2> QED
    BY <1>2, <1>8, NotedSame
<1> HIDE DEF acks, b
<1>10. /\ b.st = "SYN_SENT" /\ SocketType(b) /\ acks = AckCount(b, p.ack)
       /\ b.wrote = s.wrote /\ b.fin_sent = s.fin_sent
  <2>1. b.st = s0.st /\ b.seq_nr = s0.seq_nr /\ b.cwp = s0.cwp /\ b.wrote = s0.wrote
        /\ b.fin_sent = s0.fin_sent /\ s0.fin_sent = s.fin_sent
    BY <1>5, <1>9 DEF SameSocket, SameSend, SameStream
  <2>2. AckCount(b, p.ack) = AckCount(s0, p.ack)
    BY <2>1 DEF AckCount
  <2> QED
    BY <1>2, <1>5, <1>9, <2>1, <2>2 DEF SendOK, acks
<1>11. o = Opens(b, p)
  BY <1>1, <1>10 DEF Opens
<1>12. SocketType(o) /\ o.st = con /\ SameSend(b, o) /\ SameStream(b, o) /\ o.out = b.out
  BY <1>10 DEF SocketType, Fields, States, SameSend, SameStream, SameRecv
<1> HIDE DEF o
<1>13. /\ SameSend(s, o) /\ o.out = {} /\ o.ack_nr = ack /\ o.inbuf = s.inbuf
       /\ o.delivered = s.delivered /\ o.got_fin = s.got_fin
       /\ o.got_fin_reached = s.got_fin_reached /\ o.reorder_count = s.reorder_count
       /\ o.wrote = s.wrote /\ o.fin_sent_acked = s.fin_sent_acked
  BY <1>5, <1>9, <1>12 DEF SameSocket, SameSend, SameStream, SameRecv
<1>14. \E f : f.open /\ Ends("A", s, i, o, i, u, e, f)
  BY <1>1, <1>2, <1>4, <1>12, <1>13, SynAckEnds DEF s
<1>15. PICK f : f.open /\ Ends(n, s, i, o, i, u, e, f)
  BY <1>1, <1>14
<1>16. SendOK(o) /\ Registered(o)
  BY <1>9, <1>12, SameSendOK DEF Registered
<1> HIDE DEF u, i, e
<1>17. Steady(n, o, i)
  BY <1>15, <1>16, EndsSteady
<1>18. b.st = "SYN_SENT" => ~b.fin_sent /\ b.wrote + c.write <= MaxWrite[n]
  <2>1. s.wrote = 0 /\ ~s.fin_sent /\ c.write \in Nat
    BY <1>1 DEF Unsynced, ChoiceType
  <2> QED
    BY <1>10, <2>1
<1>19. SendOK(t) /\ WritesOnly(b, t) /\ \E h : Calls(n, o, i, t, h)
  <2>1. /\ SendOK(Acked(b, p, AckCount(b, p.ack), c))
        /\ WritesOnly(b, Acked(b, p, AckCount(b, p.ack), c))
        /\ \E h : Calls(n, Opens(b, p), i, Acked(b, p, AckCount(b, p.ack), c), h)
    BY <1>3, <1>9, <1>11, <1>17, <1>18, AckedCalls
  <2> QED
    BY <1>10, <1>11, <2>1, Zenon
<1> HIDE DEF t
<1>20. PICK h : Calls(n, o, i, t, h)
  BY <1>19
<1>21. SocketType(t)
  BY <1>19 DEF SendOK
<1>22. Ends(n, s, i, t, h, u, e, f)
  BY <1>2, <1>12, <1>15, <1>16, <1>20, <1>21, CallsThen
<1>23. WritesOnly(s, t) /\ ~s.fin_sent
  <2>1. WritesOnly(s, t)
    BY <1>2, <1>5, <1>9, <1>19 DEF SameSocket, SameStream, SameSend, WritesOnly
  <2> QED
    BY <1>1, <2>1 DEF Unsynced
<1>24. /\ p.type = "STATE" /\ Ahead(s0, p.seq) = 0 /\ SendOK(t)
       /\ WritesOnly(s, t) /\ ~s.fin_sent
       /\ \E h1, f1 : Ends(n, s, i, t, h1, u, e, f1)
  BY <1>1, <1>6, <1>19, <1>22, <1>23
<1> QED
  BY <1>7, <1>24, Zenon DEF t, b, acks, window, s, u, e, i

-----------------------------------------------------------------------------
(* deliver_data: the receiver hears more of the stream *)

\* The receiving half of socket t, which knows the first number of stream g of node m,
\* once the packets has have arrived, the last of which may not be dealt with.
Expects(m, t, g, fin, has) ==
  /\ t.delivered = [i \in 1 .. Len(t.delivered) |-> Piece(g, First(m) + i - 1)]
  /\ Len(t.delivered) > 0 => First(m) + Len(t.delivered) <= g.next
  /\ ~t.read_shutdown => First(m) + Len(t.delivered) = g.next
  /\ t.ack_nr = No(m, g.next - 1)
  /\ \A q \in SeqNrs : t.inbuf[q] # NULL =>
       \E k \in g.has : q = No(m, k) /\ t.inbuf[q] = Piece(g, k)
  /\ \A k \in Behind(g) : t.inbuf[No(m, k)] # NULL
  /\ Cardinality(Behind(g)) <= t.reorder_count
  /\ t.got_fin => fin /\ t.eof_pkt = No(m, g.count - 1)
  /\ fin /\ g.count - 1 \in has => t.got_fin
  /\ t.got_fin_reached <=> fin /\ g.next = g.count

\* A socket that gets the stream g of node m.
Listens(m, t, g, fin) ==
  /\ m \in Nodes /\ SocketType(t) /\ t.reorder_count <= REORDER_MAX
  /\ StreamOK(m, g) /\ g.count + REORDER_MAX < SEQ_MOD /\ fin \in BOOLEAN

LEMMA ListensType ==
    ASSUME NEW m, NEW t, NEW g, NEW fin, Listens(m, t, g, fin)
    PROVE  /\ g.count \in Nat /\ g.next \in Nat /\ g.next <= g.count /\ g.next \notin g.has
           /\ g.has \subseteq 0 .. g.count - 1 /\ g.has \in SUBSET Nat
           /\ (\A k \in 0 .. g.next - 1 : k \in g.has)
           /\ REORDER_MAX \in Nat /\ First(m) \in {0, 1} /\ t.reorder_count \in Nat
           /\ t.delivered \in Seq(Seq(Nat)) /\ Len(t.delivered) \in Nat
           /\ t.inbuf \in Inbufs /\ t.ack_nr \in SeqNrs
<1>1. /\ g.count \in Nat /\ g.next \in Nat /\ g.next <= g.count /\ g.next \notin g.has
      /\ g.has \subseteq 0 .. g.count - 1 /\ g.has \in SUBSET Nat
      /\ (\A k \in 0 .. g.next - 1 : k \in g.has)
  BY DEF Listens, StreamOK, Streams
<1>2. REORDER_MAX \in Nat /\ First(m) \in {0, 1}
  BY ReorderMaxAssumption, FirstType DEF Listens
<1>3. t.delivered \in Seq(Seq(Nat)) /\ t.reorder_count \in Nat
      /\ t.inbuf \in Inbufs /\ t.ack_nr \in SeqNrs
  BY DEF Listens, SocketType
<1>4. Len(t.delivered) \in Nat
  BY <1>3, LenProperties
<1> QED
  BY <1>1, <1>2, <1>3, <1>4

\* A slot of inbuf near the window holds the packet of its number.
LEMMA SlotMeans ==
    ASSUME NEW m, NEW t, NEW g, NEW fin, NEW has, Listens(m, t, g, fin),
           Expects(m, t, g, fin, has), NEW j \in Nat, j <= g.count + REORDER_MAX,
           t.inbuf[No(m, j)] # NULL
    PROVE  j \in g.has /\ t.inbuf[No(m, j)] = Piece(g, j)
<1>1. /\ m \in Nodes /\ g.count \in Nat /\ g.has \subseteq 0 .. g.count - 1 /\ REORDER_MAX \in Nat
      /\ g.count + REORDER_MAX < SEQ_MOD /\ SEQ_MOD \in Nat
  BY ListensType, SeqModAssumption DEF Listens
<1>2. No(m, j) \in SeqNrs
  BY <1>1, NoType
<1>3. PICK k \in g.has : No(m, j) = No(m, k) /\ t.inbuf[No(m, j)] = Piece(g, k)
  BY <1>2 DEF Expects
<1>4. k \in Int /\ j - k < SEQ_MOD /\ k - j < SEQ_MOD
  BY <1>1
<1>5. j = k
  BY <1>1, <1>3, <1>4, NoInjective
<1> QED
  BY <1>3, <1>5

\* How far a packet is ahead.
LEMMA AheadMeans ==
    ASSUME NEW m, NEW t, NEW g, NEW fin, Listens(m, t, g, fin), NEW c \in Int,
           t.ack_nr = No(m, c), 0 <= c + 1, c + 1 <= g.count,
           NEW j \in Nat, j < g.count
    PROVE  /\ j > c => Ahead(t, No(m, j)) = j - c - 1
           /\ j <= c => Ahead(t, No(m, j)) >= REORDER_MAX
<1>1. /\ m \in Nodes /\ g.count \in Nat /\ REORDER_MAX \in Nat
      /\ g.count + REORDER_MAX < SEQ_MOD /\ SEQ_MOD \in Nat
  BY ListensType, SeqModAssumption DEF Listens
<1>2. Wrap(No(m, j) - No(m, c) + (-1)) = Wrap(j - c + (-1))
  BY <1>1, NoDistance
<1>3. No(m, j) \in Int /\ No(m, c) \in Int
  BY <1>1, NoType DEF SeqNrs
<1> DEFINE d == j - c - 1
<1>4. d \in Int /\ -SEQ_MOD < d /\ d < SEQ_MOD /\ d = j - c + (-1)
  BY <1>1
<1>5. No(m, j) - No(m, c) - 1 = No(m, j) - No(m, c) + (-1)
  BY <1>3
<1>6. Ahead(t, No(m, j)) = Wrap(d)
  BY <1>2, <1>4, <1>5 DEF Ahead
<1> HIDE DEF d
<1>7. Wrap(d) = IF d >= 0 THEN d ELSE d + SEQ_MOD
  BY <1>4, WrapSmall
<1> QED
  BY <1>1, <1>6, <1>7 DEF d

\* The packets that wait in inbuf.
LEMMA BehindFinite ==
    ASSUME NEW m, NEW t, NEW g, NEW fin, Listens(m, t, g, fin)
    PROVE  /\ IsFiniteSet(Behind(g)) /\ Cardinality(Behind(g)) \in Nat
           /\ \A k \in Behind(g) : k \in Nat /\ k > g.next /\ k < g.count
<1>1. /\ g.count \in Nat /\ g.next \in Nat /\ g.next \notin g.has /\ g.has \subseteq 0 .. g.count - 1
  BY ListensType
<1>2. Behind(g) \in SUBSET (0 .. g.count - 1) /\ IsFiniteSet(0 .. g.count - 1)
  <2> DEFINE last == g.count - 1
  <2>1. last \in Int
    BY <1>1
  <2>2. Behind(g) \subseteq 0 .. last
    BY <1>1 DEF Behind
  <2> HIDE DEF last
  <2>3. IsFiniteSet(0 .. last)
    BY <2>1, FS_Interval
  <2> QED
    BY <2>2, <2>3 DEF last
<1>3. IsFiniteSet(Behind(g))
  BY <1>2, FS_Subset
<1>4. \A k \in Behind(g) : k \in Nat /\ k > g.next /\ k < g.count
  BY <1>1 DEF Behind
<1> QED
  BY <1>3, <1>4, FS_CardinalityType

\* The FIN is noted.
LEMMA NoteFinExpects ==
    ASSUME NEW m, NEW t, NEW g, NEW fin, Listens(m, t, g, fin), Expects(m, t, g, fin, g.has),
           NEW k \in 0 .. g.count - 1, NEW type, type = "FIN" <=> fin /\ k = g.count - 1
    PROVE  LET r == NoteFin(t, type, No(m, k))
           IN  Listens(m, r, g, fin) /\ Expects(m, r, g, fin, g.has \cup {k})
<1> DEFINE seq == No(m, k)
           v == [t EXCEPT !.got_fin = TRUE, !.eof_pkt = seq]
           r == NoteFin(t, type, seq)
<1>1. seq \in SeqNrs /\ SocketType(t) /\ g.count \in Nat
  BY ListensType, NoType DEF Listens
<1> HIDE DEF seq
<1>2. /\ SocketType(v) /\ v.delivered = t.delivered /\ v.read_shutdown = t.read_shutdown
      /\ v.ack_nr = t.ack_nr /\ v.inbuf = t.inbuf /\ v.reorder_count = t.reorder_count
      /\ v.got_fin_reached = t.got_fin_reached /\ v.got_fin /\ v.eof_pkt = seq
  BY <1>1 DEF SocketType, Fields
<1>3. r = IF type = "FIN" /\ ~t.got_fin THEN v ELSE t
  BY DEF NoteFin
<1> HIDE DEF v, r
<1>4. CASE r = v /\ type = "FIN" /\ ~t.got_fin
  <2>1. fin /\ v.eof_pkt = No(m, g.count - 1)
    BY <1>2, <1>4 DEF seq
  <2>2. Expects(m, v, g, fin, g.has \cup {k})
    BY <1>2, <2>1 DEF Expects
  <2>3. Listens(m, v, g, fin)
    BY <1>2 DEF Listens
  <2> QED
    BY <1>4, <2>2, <2>3 DEF r, seq
<1>5. CASE r = t /\ ~(type = "FIN" /\ ~t.got_fin)
  <2>1. fin /\ g.count - 1 \in g.has \cup {k} => t.got_fin
    BY <1>5 DEF Expects
  <2>2. Expects(m, t, g, fin, g.has \cup {k})
    BY <2>1 DEF Expects
  <2> QED
    BY <1>5, <2>2 DEF r, seq
<1> QED
  BY <1>3, <1>4, <1>5

\* What DeliverData must lead to: f for g, with no packet but k heard of.
Heard(m, t, g, fin, k, f) ==
  /\ StreamOK(m, f) /\ f.count = g.count /\ f.cut = g.cut /\ f.open
  /\ g.next <= f.next /\ g.has \subseteq f.has /\ f.has \subseteq g.has \cup {k}
  /\ Expects(m, t, f, fin, f.has)

\* A packet that is there already.
LEMMA KnownHeard ==
    ASSUME NEW m, NEW t, NEW g, NEW fin, Listens(m, t, g, fin), g.open, NEW k \in g.has,
           Expects(m, t, g, fin, g.has \cup {k})
    PROVE  Heard(m, t, g, fin, k, g)
<1>1. g.has \cup {k} = g.has /\ g.next \in Nat
  BY ListensType
<1>2. Expects(m, t, g, fin, g.has)
  BY <1>1
<1> QED
  BY <1>1, <1>2 DEF Heard, Listens

\* A packet ahead of the next one is buffered.
LEMMA StoreHeard ==
    ASSUME NEW m, NEW t, NEW g, NEW fin, Listens(m, t, g, fin), g.open,
           NEW k \in Nat, g.next < k, k < g.count, k \notin g.has,
           Expects(m, t, g, fin, g.has \cup {k}), Piece(g, k) \in Seq(Nat)
    PROVE  \E f : Heard(m, Store(t, No(m, k), Piece(g, k)), g, fin, k, f)
<1> DEFINE seq == No(m, k)
           data == Piece(g, k)
           buf == [t.inbuf EXCEPT ![seq] = data]
           c == t.reorder_count + 1
           r == Store(t, seq, data)
           has == g.has \cup {k}
           f == [count |-> g.count, cut |-> g.cut, open |-> TRUE, next |-> g.next, has |-> has]
<1>1. /\ m \in Nodes /\ SocketType(t) /\ StreamOK(m, g) /\ seq \in SeqNrs /\ fin \in BOOLEAN
      /\ g.count + REORDER_MAX < SEQ_MOD
  <2>1. seq \in SeqNrs
    BY NoType DEF Listens
  <2> HIDE DEF seq
  <2> QED
    BY <2>1 DEF Listens
<1>2. /\ g.count \in Nat /\ g.next \in Nat /\ g.next <= g.count /\ g.next \notin g.has
      /\ g.has \subseteq 0 .. g.count - 1 /\ g.has \in SUBSET Nat
      /\ REORDER_MAX \in Nat /\ t.reorder_count \in Nat /\ t.inbuf \in Inbufs
  BY ListensType
<1> HIDE DEF seq, data
<1>3. r = [t EXCEPT !.inbuf = buf, !.reorder_count = c]
  BY DEF Store
<1>4. /\ buf[seq] = data /\ \A q \in SeqNrs : q # seq => buf[q] = t.inbuf[q]
      /\ data # NULL
  BY <1>1, <1>2, SendAssumption DEF Inbufs, data
<1> HIDE DEF buf, r, c
<1>5. /\ r.delivered = t.delivered /\ r.read_shutdown = t.read_shutdown
      /\ r.ack_nr = t.ack_nr /\ r.inbuf = buf /\ r.reorder_count = c
      /\ r.got_fin = t.got_fin /\ r.eof_pkt = t.eof_pkt
      /\ r.got_fin_reached = t.got_fin_reached
  BY <1>1, <1>3 DEF SocketType, Fields
<1>6. /\ f.count = g.count /\ f.cut = g.cut /\ f.open = TRUE /\ f.next = g.next /\ f.has = has
      /\ f \in Streams
  BY <1>1, <1>2 DEF StreamOK, Streams
<1>7. \A j : Piece(f, j) = Piece(g, j)
  BY <1>6 DEF Piece
<1> HIDE DEF f
<1>8. StreamOK(m, f)
  <2>1. has \subseteq 0 .. g.count - 1 /\ g.next \notin has
    BY <1>2
  <2> HIDE DEF has
  <2>2. g.has \subseteq has
    BY DEF has
  <2> QED
    BY <1>1, <1>6, <2>1, <2>2 DEF StreamOK
<1>9. Behind(f) = Behind(g) \cup {k} /\ k \notin Behind(g)
  BY <1>2, <1>6 DEF Behind
<1>10. Cardinality(Behind(f)) <= c
  <2>1. IsFiniteSet(Behind(g)) /\ Cardinality(Behind(g)) \in Nat
    BY BehindFinite
  <2>2. Cardinality(Behind(f)) = Cardinality(Behind(g)) + 1
    BY <1>9, <2>1, FS_AddElement
  <2>3. Cardinality(Behind(g)) <= t.reorder_count
    BY DEF Expects
  <2> QED
    BY <1>2, <2>1, <2>2, <2>3 DEF c
<1>11. \A q \in SeqNrs : buf[q] # NULL => \E j \in has : q = No(m, j) /\ buf[q] = Piece(f, j)
  <2> SUFFICES ASSUME NEW q \in SeqNrs, buf[q] # NULL
               PROVE  \E j \in has : q = No(m, j) /\ buf[q] = Piece(f, j)
    OBVIOUS
  <2>1. CASE q = seq
    BY <1>4, <1>7, <2>1 DEF seq, data
  <2>2. CASE q # seq
    <3>1. \E j \in g.has : q = No(m, j) /\ t.inbuf[q] = Piece(g, j)
      BY <1>4, <2>2 DEF Expects
    <3> QED
      BY <1>4, <1>7, <2>2, <3>1
  <2> QED
    BY <2>1, <2>2
<1>12. \A j \in Behind(f) : buf[No(m, j)] # NULL
  <2> SUFFICES ASSUME NEW j \in Behind(f) PROVE buf[No(m, j)] # NULL
    OBVIOUS
  <2>1. j \in Nat
    BY <1>2, <1>6 DEF Behind
  <2>2. No(m, j) \in SeqNrs
    BY <1>1, <2>1, NoType
  <2>3. CASE No(m, j) = seq
    BY <1>4, <2>3
  <2>4. CASE No(m, j) # seq
    <3>1. j \in Behind(g)
      BY <1>9, <2>4 DEF seq
    <3>2. t.inbuf[No(m, j)] # NULL
      BY <3>1 DEF Expects
    <3> QED
      BY <1>4, <2>2, <2>4, <3>2
  <2> QED
    BY <2>3, <2>4
<1>13. t.delivered = [i \in 1 .. Len(t.delivered) |-> Piece(f, First(m) + i - 1)]
  BY <1>7 DEF Expects
<1>14. Expects(m, r, f, fin, f.has)
  BY <1>5, <1>6, <1>10, <1>11, <1>12, <1>13 DEF Expects
<1>15. Heard(m, r, g, fin, k, f)
  BY <1>2, <1>6, <1>8, <1>14 DEF Heard
<1> QED
  BY <1>15 DEF r, seq, data

\* The pieces D of stream g from packet a on, the next one, and n more.
Joins(g, a, D, data, n, run) ==
  /\ D = [i \in 1 .. Len(D) |-> Piece(g, a + i - 1)]
  /\ data = Piece(g, a + Len(D)) /\ Len(run) = n
  /\ \A i \in 1 .. n : run[i] = Piece(g, a + Len(D) + i)

\* What was delivered, the packet in order and those that waited behind it.
LEMMA PiecesJoin ==
    ASSUME NEW g, NEW a \in Nat, NEW D \in Seq(Seq(Nat)), NEW data \in Seq(Nat),
           NEW n \in Nat, NEW run \in Seq(Seq(Nat)), Joins(g, a, D, data, n, run)
    PROVE  LET R == Append(D, data) \o run
           IN  Len(R) = Len(D) + 1 + n /\ R = [i \in 1 .. Len(R) |-> Piece(g, a + i - 1)]
<1> DEFINE S == Seq(Nat)
           A == Append(D, data)
           R == A \o run
           L == Len(D)
<1>0. /\ D = [i \in 1 .. Len(D) |-> Piece(g, a + i - 1)]
      /\ data = Piece(g, a + Len(D)) /\ Len(run) = n
      /\ \A i \in 1 .. n : run[i] = Piece(g, a + Len(D) + i)
  BY DEF Joins
<1>1. D \in Seq(S) /\ data \in S /\ run \in Seq(S)
  OBVIOUS
<1> HIDE DEF S
<1>2. A \in Seq(S) /\ Len(A) = L + 1 /\ (\A i \in 1 .. L : A[i] = D[i]) /\ A[L + 1] = data
  BY <1>1, AppendProperties
<1>3. L \in Nat
  BY <1>1, LenProperties
<1> HIDE DEF A
<1>4. /\ R \in Seq(S) /\ Len(R) = Len(A) + Len(run)
      /\ \A i \in 1 .. Len(A) + Len(run) : R[i] = IF i <= Len(A) THEN A[i] ELSE run[i - Len(A)]
  BY <1>1, <1>2, ConcatProperties
<1> HIDE DEF R, L
<1>5. Len(R) = L + 1 + n
  BY <1>0, <1>2, <1>4
<1>6. \A i \in 1 .. L : D[i] = Piece(g, a + i - 1)
  BY <1>0 DEF L
<1>7. ASSUME NEW i \in 1 .. L + 1 + n PROVE R[i] = Piece(g, a + i - 1)
  <2>1. i \in 1 .. Len(A) + Len(run) /\ i \in Nat
    BY <1>0, <1>2, <1>3
  <2>2. CASE i <= L
    <3>1. i \in 1 .. L /\ i <= Len(A)
      BY <1>2, <1>3, <2>1, <2>2
    <3>2. R[i] = A[i]
      BY <1>4, <2>1, <3>1
    <3>3. A[i] = D[i]
      BY <1>2, <3>1
    <3> QED
      BY <1>6, <3>1, <3>2, <3>3
  <2>3. CASE i = L + 1
    <3>1. i <= Len(A) /\ a + i - 1 = a + L
      BY <1>2, <1>3, <2>3
    <3>2. R[i] = A[i]
      BY <1>4, <2>1, <3>1
    <3> QED
      BY <1>0, <1>2, <2>3, <3>1, <3>2 DEF L
  <2>4. CASE i > L + 1
    <3>1. ~(i <= Len(A)) /\ i - Len(A) \in 1 .. n /\ a + L + (i - Len(A)) = a + i - 1
      BY <1>2, <1>3, <2>1, <2>4
    <3>2. R[i] = run[i - Len(A)]
      BY <1>0, <1>4, <2>1, <3>1
    <3>3. run[i - Len(A)] = Piece(g, a + L + (i - Len(A)))
      BY <1>0, <3>1 DEF L
    <3> QED
      BY <3>1, <3>2, <3>3
  <2> QED
    BY <1>3, <2>1, <2>2, <2>3, <2>4
<1>8. R = [i \in 1 .. Len(R) |-> R[i]]
  BY <1>4, LenProperties
<1>9. [i \in 1 .. Len(R) |-> R[i]] = [i \in 1 .. Len(R) |-> Piece(g, a + i - 1)]
  BY <1>5, <1>7
<1> QED
  BY <1>5, <1>8, <1>9 DEF R, A, L

\* The packet in order has come to a socket.
NextCame(m, t, g, fin) ==
  /\ Listens(m, t, g, fin) /\ g.next < g.count
  /\ Expects(m, t, g, fin, g.has \cup {g.next})

\* It is accepted: the socket as the drain loop finds it.
LEMMA AcceptedNumbers ==
    ASSUME NEW m, NEW t, NEW g, NEW fin, NextCame(m, t, g, fin), NEW data \in Seq(Nat)
    PROVE  LET c == AcceptInOrder(t, data)
           IN  /\ SocketType(c) /\ Listens(m, c, g, fin)
               /\ c.inbuf = t.inbuf /\ c.reorder_count = t.reorder_count
               /\ c.got_fin = t.got_fin /\ c.eof_pkt = t.eof_pkt
               /\ ~c.got_fin_reached /\ ~t.got_fin_reached /\ c.read_shutdown = t.read_shutdown
               /\ c.delivered = (IF t.read_shutdown THEN t.delivered ELSE Append(t.delivered, data))
               /\ c.ack_nr = No(m, g.next)
               /\ \A i \in Nat : Wrap(c.ack_nr + i) = No(m, g.next + i)
               /\ \A i \in Nat : Wrap(c.ack_nr + i + 1) = No(m, g.next + i + 1)
<1> DEFINE del == IF t.read_shutdown THEN t.delivered ELSE Append(t.delivered, data)
           ack == Wrap(t.ack_nr + 1)
           c == AcceptInOrder(t, data)
<1>1. /\ m \in Nodes /\ g.next \in Nat /\ SocketType(t) /\ t.ack_nr = No(m, g.next - 1)
      /\ t.delivered \in Seq(Seq(Nat)) /\ g.count \in Nat
  BY ListensType DEF NextCame, Listens, Expects
<1>2. ack = No(m, g.next)
  <2>1. Wrap(No(m, g.next - 1) + 1) = No(m, (g.next - 1) + 1)
    BY <1>1, NoShift
  <2>2. (g.next - 1) + 1 = g.next
    BY <1>1
  <2> QED
    BY <1>1, <2>1, <2>2
<1>3. ack \in SeqNrs
  BY <1>1, <1>2, NoType
<1>4. del \in Seq(Seq(Nat))
  <2> DEFINE S == Seq(Nat)
  <2>1. t.delivered \in Seq(S) /\ data \in S
    BY <1>1
  <2> HIDE DEF S
  <2>2. del \in Seq(S)
    BY <2>1, AppendProperties
  <2> QED
    BY <2>2 DEF S
<1>5. c = [t EXCEPT !.delivered = del, !.ack_nr = ack]
  BY DEF AcceptInOrder
<1>6. ~t.got_fin_reached
  BY <1>1 DEF NextCame, Expects
<1> HIDE DEF del, ack, c
<1>7. /\ SocketType(c) /\ c.inbuf = t.inbuf /\ c.reorder_count = t.reorder_count
      /\ c.got_fin = t.got_fin /\ c.eof_pkt = t.eof_pkt
      /\ c.got_fin_reached = t.got_fin_reached /\ c.read_shutdown = t.read_shutdown
      /\ c.delivered = del /\ c.ack_nr = ack
  BY <1>1, <1>3, <1>4, <1>5 DEF SocketType, Fields
<1>8. Listens(m, c, g, fin)
  BY <1>7 DEF NextCame, Listens
<1>9. \A i \in Nat : Wrap(No(m, g.next) + i) = No(m, g.next + i)
  BY <1>1, NoShift
<1>10. \A i \in Nat : Wrap(No(m, g.next) + i + 1) = No(m, g.next + i + 1)
  <2> TAKE i \in Nat
  <2>1. Wrap(No(m, g.next) + (i + 1)) = No(m, g.next + (i + 1))
    BY <1>1, NoShift
  <2>2. No(m, g.next) \in Int
    <3>1. m \in Nodes /\ g.next \in Int
      BY <1>1
    <3>2. No(m, g.next) \in SeqNrs
      BY <3>1, NoType
    <3> QED
      BY <3>2 DEF SeqNrs
  <2> DEFINE x == No(m, g.next)
             y == g.next
  <2>3. x \in Int /\ y \in Int
    BY <1>1, <2>2
  <2> HIDE DEF x, y
  <2>4. x + (i + 1) = x + i + 1 /\ y + (i + 1) = y + i + 1
    BY <2>3
  <2> QED
    BY <2>1, <2>4 DEF x, y
<1> QED
  BY <1>2, <1>6, <1>7, <1>8, <1>9, <1>10 DEF c, del

\* The loop that drains the buffer takes the packets that follow without a gap.
LEMMA DrainTakes ==
    ASSUME NEW m, NEW t, NEW g, NEW fin, NextCame(m, t, g, fin), NEW data \in Seq(Nat),
           NEW n \in 0 .. t.reorder_count, DrainStops(AcceptInOrder(t, data), n)
    PROVE  LET c == AcceptInOrder(t, data)
           IN  /\ \A i \in 1 .. n : /\ g.next + i \in g.has
                                    /\ c.inbuf[Wrap(c.ack_nr + i)] = Piece(g, g.next + i)
               /\ g.next + n < g.count /\ g.next + n + 1 \notin g.has
               /\ AtEof(c, n) <=> fin /\ g.next + 1 + n = g.count
<1> DEFINE c == AcceptInOrder(t, data)
           next == g.next
<1> USE DEF NextCame
<1>1. /\ m \in Nodes /\ g.count \in Nat /\ next \in Nat /\ next \notin g.has
      /\ next < g.count /\ g.has \subseteq 0 .. g.count - 1 /\ g.has \in SUBSET Nat
      /\ REORDER_MAX \in Nat /\ g.count + REORDER_MAX < SEQ_MOD /\ SEQ_MOD \in Nat
      /\ n \in Nat /\ n <= REORDER_MAX /\ n <= t.reorder_count /\ fin \in BOOLEAN
      /\ t.reorder_count \in Nat
  BY ListensType, SeqModAssumption DEF Listens
<1>2. /\ SocketType(c) /\ c.inbuf = t.inbuf /\ c.reorder_count = t.reorder_count
      /\ c.got_fin = t.got_fin /\ c.eof_pkt = t.eof_pkt /\ ~c.got_fin_reached
      /\ \A i \in Nat : Wrap(c.ack_nr + i) = No(m, next + i)
      /\ \A i \in Nat : Wrap(c.ack_nr + i + 1) = No(m, next + i + 1)
  <2> HIDE DEF NextCame
  <2> QED
    BY AcceptedNumbers
<1>3. DrainStops(c, n)
  OBVIOUS
<1> HIDE DEF c, next
<1>4. ASSUME NEW i \in 1 .. n
      PROVE  next + i \in g.has /\ c.inbuf[Wrap(c.ack_nr + i)] = Piece(g, next + i)
  <2>1. i - 1 \in 0 .. n - 1 /\ i - 1 \in Nat /\ next + (i - 1) + 1 = next + i /\ i \in Nat
        /\ next + i \in Nat /\ next + i <= g.count + REORDER_MAX
    BY <1>1
  <2>2. c.inbuf[Wrap(c.ack_nr + (i - 1) + 1)] # NULL
    BY <1>3, <2>1 DEF DrainStops
  <2>3. Wrap(c.ack_nr + (i - 1) + 1) = No(m, next + i) /\ Wrap(c.ack_nr + i) = No(m, next + i)
    BY <1>2, <2>1
  <2>4. t.inbuf[No(m, next + i)] # NULL
    BY <1>2, <2>2, <2>3
  <2>5. next + i \in g.has /\ t.inbuf[No(m, next + i)] = Piece(g, next + i)
    BY <2>1, <2>4, SlotMeans
  <2> QED
    BY <1>2, <2>3, <2>5
<1>5. next + n < g.count
  <2>1. CASE n = 0
    BY <1>1, <2>1
  <2>2. CASE n # 0
    <3>1. n \in 1 .. n
      BY <1>1, <2>2
    <3>2. next + n \in g.has
      BY <1>4, <3>1
    <3> QED
      BY <1>1, <3>2
  <2> QED
    BY <2>1, <2>2
<1>6. AtEof(c, n) <=> fin /\ next + 1 + n = g.count
  <2>1. c.got_fin => fin /\ c.eof_pkt = No(m, g.count - 1)
    BY <1>2 DEF Expects
  <2>2. AtEof(c, n) <=> c.got_fin /\ c.eof_pkt = No(m, next + n)
    BY <1>1, <1>2 DEF AtEof
  <2>3. ASSUME fin, next + 1 + n = g.count PROVE AtEof(c, n)
    <3>1. g.count - 1 \in g.has \cup {g.next}
      <4>1. CASE n = 0
        <5>1. next \in Nat /\ next + 1 = g.count
          BY <1>1, <2>3, <4>1
        <5>2. g.count - 1 = next
          BY <5>1
        <5> QED
          BY <5>2 DEF next
      <4>2. CASE n # 0
        <5>1. n \in 1 .. n /\ g.count - 1 = next + n
          BY <1>1, <2>3, <4>2
        <5> QED
          BY <1>4, <5>1
      <4> QED
        BY <4>1, <4>2
    <3>2. t.got_fin
      BY <2>3, <3>1 DEF Expects
    <3>3. g.count - 1 = next + n
      BY <1>1, <2>3
    <3> QED
      BY <1>2, <2>1, <2>2, <3>2, <3>3
  <2>4. ASSUME AtEof(c, n) PROVE fin /\ next + 1 + n = g.count
    <3>1. fin /\ No(m, g.count - 1) = No(m, next + n)
      BY <2>1, <2>2, <2>4
    <3>2. g.count - 1 \in Int /\ next + n \in Int
          /\ (g.count - 1) - (next + n) < SEQ_MOD /\ (next + n) - (g.count - 1) < SEQ_MOD
      BY <1>1, <1>5
    <3>3. g.count - 1 = next + n
      <4> DEFINE x == g.count - 1
                 y == next + n
      <4>1. x \in Int /\ y \in Int /\ x - y < SEQ_MOD /\ y - x < SEQ_MOD /\ No(m, x) = No(m, y)
        BY <3>1, <3>2
      <4> HIDE DEF x, y
      <4>2. x = y
        BY <1>1, <4>1, NoInjective
      <4> QED
        BY <4>2 DEF x, y
    <3> QED
      BY <1>1, <3>1, <3>3
  <2> QED
    BY <2>3, <2>4
<1>7. next + n + 1 \notin g.has
  <2>1. CASE AtEof(c, n)
    <3>1. next + n + 1 = g.count
      BY <1>1, <1>6, <2>1
    <3> QED
      BY <1>1, <3>1
  <2>2. CASE c.inbuf[Wrap(c.ack_nr + n + 1)] = NULL
    <3>1. SUFFICES ASSUME next + n + 1 \in g.has PROVE FALSE
      OBVIOUS
    <3>2. next + n + 1 \in Behind(g)
      BY <1>1, <3>1 DEF Behind, next
    <3>3. t.inbuf[No(m, next + n + 1)] # NULL
      BY <3>2 DEF Expects
    <3> QED
      BY <1>1, <1>2, <2>2, <3>3
  <2>3. CASE n = c.reorder_count
    <3>1. SUFFICES ASSUME next + n + 1 \in g.has PROVE FALSE
      OBVIOUS
    <3> DEFINE a == next + 1
               b == next + n + 1
               I == a .. b
    <3>2. a \in Int /\ b \in Int /\ ~(a > b) /\ b - a + 1 = n + 1
      BY <1>1
    <3>3. \A j \in I : j \in g.has /\ j >= g.next
      <4> TAKE j \in I
      <4>1. j \in Int /\ (j = b \/ j - next \in 1 .. n) /\ j >= next
        BY <1>1
      <4>2. CASE j = b
        BY <3>1, <4>1, <4>2 DEF next
      <4>3. CASE j - next \in 1 .. n
        <5>1. next + (j - next) \in g.has
          BY <1>4, <4>3
        <5>2. next + (j - next) = j
          BY <1>1, <4>1
        <5> QED
          BY <4>1, <5>1, <5>2 DEF next
      <4> QED
        BY <4>1, <4>2, <4>3
    <3>4. I \in SUBSET Behind(g)
      BY <3>3 DEF Behind
    <3> HIDE DEF a, b
    <3>5. Cardinality(I) = n + 1
      BY <3>2, FS_Interval
    <3> HIDE DEF I
    <3>6. IsFiniteSet(Behind(g)) /\ Cardinality(Behind(g)) \in Nat
      BY BehindFinite
    <3>7. n + 1 <= Cardinality(Behind(g))
      BY <3>4, <3>5, <3>6, FS_Subset
    <3>8. Cardinality(Behind(g)) <= n
      BY <1>2, <2>3 DEF Expects
    <3> QED
      BY <1>1, <3>6, <3>7, <3>8
  <2> QED
    BY <1>3, <2>1, <2>2, <2>3 DEF DrainStops
<1> QED
  BY <1>4, <1>5, <1>6, <1>7 DEF c, next

\* The fields after the drain loop.
LEMMA DrainedFields ==
    ASSUME NEW c, SocketType(c), NEW n
    PROVE  LET d == Drain(c, n)
           IN  /\ d.read_shutdown = c.read_shutdown /\ d.got_fin = c.got_fin
               /\ d.eof_pkt = c.eof_pkt /\ d.ack_nr = Wrap(c.ack_nr + n)
               /\ d.delivered = (IF c.read_shutdown THEN c.delivered
                                 ELSE c.delivered \o [i \in 1 .. n |-> c.inbuf[Wrap(c.ack_nr + i)]])
               /\ \A q \in SeqNrs : d.inbuf[q] = IF Ahead(c, q) < n THEN NULL ELSE c.inbuf[q]
               /\ d.got_fin_reached <=> c.got_fin_reached \/ AtEof(c, n)
               /\ d.reorder_count = IF AtEof(c, n) THEN 0 ELSE c.reorder_count - n
<1> DEFINE run == [i \in 1 .. n |-> c.inbuf[Wrap(c.ack_nr + i)]]
           read == IF c.read_shutdown THEN c.delivered ELSE c.delivered \o run
           buf == [q \in SeqNrs |-> IF Ahead(c, q) < n THEN NULL ELSE c.inbuf[q]]
           next == Wrap(c.ack_nr + n)
           eof == c.got_fin_reached \/ AtEof(c, n)
           k == IF AtEof(c, n) THEN 0 ELSE c.reorder_count - n
           d == Drain(c, n)
<1>1. d = [c EXCEPT !.delivered = read, !.inbuf = buf, !.ack_nr = next,
                    !.got_fin_reached = eof, !.reorder_count = k]
  BY DEF Drain
<1>2. \A q \in SeqNrs : buf[q] = IF Ahead(c, q) < n THEN NULL ELSE c.inbuf[q]
  OBVIOUS
<1> HIDE DEF read, buf, next, eof, k, d
<1>3. /\ d.read_shutdown = c.read_shutdown /\ d.got_fin = c.got_fin
      /\ d.eof_pkt = c.eof_pkt /\ d.ack_nr = next /\ d.delivered = read
      /\ d.inbuf = buf /\ d.got_fin_reached = eof /\ d.reorder_count = k
  BY <1>1 DEF SocketType, Fields
<1>4. d.got_fin_reached <=> c.got_fin_reached \/ AtEof(c, n)
  BY <1>3 DEF eof
<1>5. /\ d.delivered = (IF c.read_shutdown THEN c.delivered ELSE c.delivered \o run)
      /\ d.ack_nr = Wrap(c.ack_nr + n)
      /\ d.reorder_count = IF AtEof(c, n) THEN 0 ELSE c.reorder_count - n
  BY <1>3 DEF read, next, k
<1>6. \A q \in SeqNrs : d.inbuf[q] = IF Ahead(c, q) < n THEN NULL ELSE c.inbuf[q]
  BY <1>2, <1>3
<1> HIDE DEF run
<1>7. /\ d.read_shutdown = c.read_shutdown /\ d.got_fin = c.got_fin
      /\ d.eof_pkt = c.eof_pkt /\ d.ack_nr = Wrap(c.ack_nr + n)
      /\ d.delivered = (IF c.read_shutdown THEN c.delivered ELSE c.delivered \o run)
      /\ \A q \in SeqNrs : d.inbuf[q] = IF Ahead(c, q) < n THEN NULL ELSE c.inbuf[q]
      /\ d.got_fin_reached <=> c.got_fin_reached \/ AtEof(c, n)
      /\ d.reorder_count = IF AtEof(c, n) THEN 0 ELSE c.reorder_count - n
  BY <1>3, <1>4, <1>5, <1>6
<1> QED
  BY <1>7, Zenon DEF d, run

\* The stream g of node m once n packets have followed the one that came in order.
After(g, n) == [count |-> g.count, cut |-> g.cut, open |-> TRUE, next |-> g.next + 1 + n,
                has |-> g.has \cup {g.next}]

\* The stream after its next packet and the n packets behind it were taken.
LEMMA AfterStream ==
    ASSUME NEW m \in Nodes, NEW g, StreamOK(m, g), NEW n \in Nat,
           \A i \in 1 .. n : g.next + i \in g.has, g.next + n < g.count,
           g.next + n + 1 \notin g.has
    PROVE  LET f == After(g, n)
           IN  /\ f.count = g.count /\ f.cut = g.cut /\ f.open = TRUE
               /\ f.next = g.next + 1 + n /\ f.has = g.has \cup {g.next}
               /\ StreamOK(m, f) /\ \A j : Piece(f, j) = Piece(g, j)
               /\ Behind(f) = Behind(g) \ (g.next + 1 .. g.next + n)
               /\ g.next + 1 .. g.next + n \subseteq Behind(g)
<1> DEFINE next == g.next
           top == next + 1 + n
           has == g.has \cup {next}
           f == [count |-> g.count, cut |-> g.cut, open |-> TRUE, next |-> top, has |-> has]
<1>1. /\ g.count \in Nat /\ next \in Nat /\ next \notin g.has /\ g.has \in SUBSET Nat
      /\ g.has \subseteq 0 .. g.count - 1 /\ 0 .. next - 1 \subseteq g.has /\ next < g.count
      /\ g.cut \in [Nat -> Nat]
  BY DEF StreamOK, Streams
<1> HIDE DEF next
<1>2. \A i \in 1 .. n : next + i \in g.has
  BY DEF next
<1>3. top \in Nat /\ top <= g.count
  BY <1>1 DEF next
<1>4. has \in SUBSET Nat /\ has \subseteq 0 .. g.count - 1
  BY <1>1
<1>5. top \notin has
  <2>1. top # next /\ top = next + n + 1
    BY <1>1
  <2> QED
    BY <2>1 DEF next
<1>6. 0 .. top - 1 \subseteq has
  <2> SUFFICES ASSUME NEW j \in 0 .. top - 1 PROVE j \in has
    OBVIOUS
  <2>1. j \in 0 .. next - 1 \/ j = next \/ (j - next \in 1 .. n /\ next + (j - next) = j)
    BY <1>1
  <2> QED
    BY <1>1, <1>2, <2>1
<1>7. f.count = g.count /\ f.cut = g.cut /\ f.open = TRUE /\ f.next = top /\ f.has = has
  OBVIOUS
<1>8. f \in Streams
  BY <1>1, <1>3, <1>4 DEF Streams
<1> HIDE DEF f, top, has
<1>9. StreamOK(m, f)
  BY <1>3, <1>4, <1>5, <1>6, <1>7, <1>8 DEF StreamOK
<1>10. \A j : Piece(f, j) = Piece(g, j)
  BY <1>7 DEF Piece
<1> DEFINE I == next + 1 .. next + n
<1>11. \A j \in I : j \in g.has /\ j >= next
  <2> TAKE j \in I
  <2>1. j - next \in 1 .. n /\ next + (j - next) = j /\ j >= next
    BY <1>1
  <2> QED
    BY <1>2, <2>1
<1>12. I \subseteq Behind(g)
  BY <1>11 DEF Behind, next
<1>13. Behind(f) = Behind(g) \ I
  <2>1. \A j \in has : j >= top <=> (j \in g.has /\ j >= next /\ j \notin I)
    <3> TAKE j \in has
    <3>1. j \in Nat /\ (j = next \/ j \in g.has)
      BY <1>4 DEF has
    <3>2. j >= top <=> (j >= next /\ j # next /\ j \notin I)
      BY <1>1, <3>1 DEF top
    <3> QED
      BY <1>1, <3>1, <3>2
  <2>2. Behind(f) = {j \in has : j >= top}
    BY <1>7 DEF Behind
  <2>3. Behind(g) = {j \in g.has : j >= next} /\ g.has \subseteq has
    BY DEF Behind, next, has
  <2> HIDE DEF I
  <2> QED
    BY <2>1, <2>2, <2>3
<1>14. f = After(g, n)
  BY DEF f, top, has, After, next
<1> QED
  BY <1>7, <1>9, <1>10, <1>12, <1>13, <1>14, Zenon DEF top, has, next

\* What was queued as one packet.
LEMMA PieceType ==
    ASSUME NEW m, NEW g, StreamOK(m, g), NEW k \in Nat, k < g.count
    PROVE  Piece(g, k) \in Seq(Nat)
<1> DEFINE x == g.cut[k]
           y == g.cut[k + 1]
           z == y - x
<1>1. g.count \in Nat /\ g.cut \in [Nat -> Nat] /\ k + 1 \in Nat
  BY DEF StreamOK, Streams
<1>2. x \in Nat /\ y \in Nat
  BY <1>1
<1>3. k \in 0 .. g.count /\ k + 1 \in 0 .. g.count /\ k <= k + 1
  BY <1>1
<1>4. x <= y
  BY <1>3 DEF StreamOK
<1> HIDE DEF x, y
<1>5. Piece(g, k) = [i \in 1 .. z |-> x + i]
  BY DEF Piece, x, y
<1>6. z \in Nat /\ \A i \in 1 .. z : x + i \in Nat
  BY <1>2, <1>4
<1> HIDE DEF z
<1> QED
  BY <1>5, <1>6

\* A sequence that is written as a function.
LEMMA WrittenSeq ==
    ASSUME NEW S, NEW n \in Nat, NEW f, f = [i \in 1 .. n |-> f[i]],
           \A i \in 1 .. n : f[i] \in S
    PROVE  f \in Seq(S) /\ Len(f) = n
<1>1. f \in [1 .. n -> S]
  OBVIOUS
<1>2. f \in Seq(S)
  BY <1>1, SeqDef
<1>3. DOMAIN f = 1 .. n /\ Len(f) \in Nat /\ DOMAIN f = 1 .. Len(f)
  BY <1>1, <1>2, LenProperties
<1>4. Len(f) = n
  BY <1>3
<1> QED
  BY <1>2, <1>4

\* The packet in order, and those that waited behind it.
LEMMA DrainHeard ==
    ASSUME NEW m, NEW t, NEW g, NEW fin, NextCame(m, t, g, fin), g.open,
           Piece(g, g.next) \in Seq(Nat), NEW n \in 0 .. t.reorder_count,
           DrainStops(AcceptInOrder(t, Piece(g, g.next)), n)
    PROVE  Heard(m, Drain(AcceptInOrder(t, Piece(g, g.next)), n), g, fin, g.next, After(g, n))
<1> DEFINE next == g.next
           data == Piece(g, next)
           c == AcceptInOrder(t, data)
           d == Drain(c, n)
           f == After(g, n)
           D == t.delivered
           run == [i \in 1 .. n |-> c.inbuf[Wrap(c.ack_nr + i)]]
           has == g.has \cup {next}
<1>1. /\ m \in Nodes /\ SocketType(t) /\ StreamOK(m, g) /\ fin \in BOOLEAN
      /\ Listens(m, t, g, fin) /\ Expects(m, t, g, fin, has) /\ next < g.count
      /\ g.count + REORDER_MAX < SEQ_MOD /\ t.reorder_count <= REORDER_MAX
  BY DEF NextCame, Listens
<1>2. /\ g.count \in Nat /\ next \in Nat /\ g.has \subseteq 0 .. g.count - 1
      /\ g.has \in SUBSET Nat /\ REORDER_MAX \in Nat /\ First(m) \in {0, 1}
      /\ t.reorder_count \in Nat /\ D \in Seq(Seq(Nat)) /\ Len(D) \in Nat
      /\ n \in Nat /\ n <= t.reorder_count /\ g.next \notin g.has
  BY <1>1, ListensType
<1>3. data \in Seq(Nat) /\ data = Piece(g, g.next)
  OBVIOUS
<1> HIDE DEF data, has
<1>4. DrainStops(c, n)
  BY DEF data
<1>5. /\ SocketType(c) /\ Listens(m, c, g, fin)
      /\ c.inbuf = t.inbuf /\ c.reorder_count = t.reorder_count
      /\ c.got_fin = t.got_fin /\ c.eof_pkt = t.eof_pkt
      /\ ~c.got_fin_reached /\ ~t.got_fin_reached /\ c.read_shutdown = t.read_shutdown
      /\ c.delivered = (IF t.read_shutdown THEN D ELSE Append(D, data))
      /\ c.ack_nr = No(m, g.next)
      /\ \A i \in Nat : Wrap(c.ack_nr + i) = No(m, g.next + i)
  BY <1>3, AcceptedNumbers
<1>6. /\ \A i \in 1 .. n : /\ g.next + i \in g.has
                           /\ c.inbuf[Wrap(c.ack_nr + i)] = Piece(g, g.next + i)
      /\ g.next + n < g.count /\ g.next + n + 1 \notin g.has
      /\ AtEof(c, n) <=> fin /\ g.next + 1 + n = g.count
  BY <1>3, <1>4, DrainTakes
<1> HIDE DEF c
<1>7. /\ d.read_shutdown = c.read_shutdown /\ d.got_fin = c.got_fin
      /\ d.eof_pkt = c.eof_pkt /\ d.ack_nr = Wrap(c.ack_nr + n)
      /\ d.delivered = (IF c.read_shutdown THEN c.delivered ELSE c.delivered \o run)
      /\ \A q \in SeqNrs : d.inbuf[q] = IF Ahead(c, q) < n THEN NULL ELSE c.inbuf[q]
      /\ d.got_fin_reached <=> c.got_fin_reached \/ AtEof(c, n)
      /\ d.reorder_count = IF AtEof(c, n) THEN 0 ELSE c.reorder_count - n
  BY <1>5, DrainedFields
<1>8. /\ f.count = g.count /\ f.cut = g.cut /\ f.open = TRUE
      /\ f.next = next + 1 + n /\ f.has = has
      /\ StreamOK(m, f) /\ \A j : Piece(f, j) = Piece(g, j)
      /\ Behind(f) = Behind(g) \ (next + 1 .. next + n)
      /\ next + 1 .. next + n \subseteq Behind(g)
  BY <1>1, <1>2, <1>6, AfterStream DEF has
<1> HIDE DEF d, f
<1>9. /\ D = [i \in 1 .. Len(D) |-> Piece(g, First(m) + i - 1)]
      /\ Len(D) > 0 => First(m) + Len(D) <= next
      /\ ~t.read_shutdown => First(m) + Len(D) = next
      /\ \A q \in SeqNrs : t.inbuf[q] # NULL =>
           \E k \in g.has : q = No(m, k) /\ t.inbuf[q] = Piece(g, k)
      /\ \A k \in Behind(g) : t.inbuf[No(m, k)] # NULL
      /\ Cardinality(Behind(g)) <= t.reorder_count
      /\ t.got_fin => fin /\ t.eof_pkt = No(m, g.count - 1)
      /\ fin /\ g.count - 1 \in has => t.got_fin
  BY <1>1, Zenon DEF Expects, next
<1>10. /\ d.delivered = [i \in 1 .. Len(d.delivered) |-> Piece(f, First(m) + i - 1)]
       /\ Len(d.delivered) > 0 => First(m) + Len(d.delivered) <= f.next
       /\ ~d.read_shutdown => First(m) + Len(d.delivered) = f.next
  <2>1. CASE t.read_shutdown
    <3>1. d.delivered = D /\ d.read_shutdown
      BY <1>5, <1>7, <2>1
    <3>2. next <= f.next
      BY <1>2, <1>8
    <3>3. D = [i \in 1 .. Len(D) |-> Piece(f, First(m) + i - 1)]
      BY <1>8, <1>9
    <3>4. Len(D) > 0 => First(m) + Len(D) <= f.next
      BY <1>2, <1>8, <1>9, <3>2
    <3> QED
      BY <3>1, <3>3, <3>4
  <2>2. CASE ~t.read_shutdown
    <3> DEFINE R == Append(D, data) \o run
               a == First(m)
    <3>0. d.delivered = R /\ a + Len(D) = next
      BY <1>5, <1>7, <1>9, <2>2, Zenon DEF R, a
    <3>1. d.delivered = R /\ a \in Nat /\ a + Len(D) = next
      BY <1>2, <3>0
    <3>2. run \in Seq(Seq(Nat)) /\ Len(run) = n
          /\ \A i \in 1 .. n : run[i] = Piece(g, a + Len(D) + i)
      <4>1. \A i \in 1 .. n : next + i \in Nat /\ next + i < g.count
        <5>1. next \in Nat /\ n \in Nat /\ g.count \in Nat
          BY <1>2
        <5>2. next + n < g.count
          BY <1>6
        <5> HIDE DEF next
        <5> QED
          BY <5>1, <5>2
      <4>2. \A i \in 1 .. n : Piece(g, next + i) \in Seq(Nat)
        BY <1>1, <4>1, PieceType
      <4>3. \A i \in 1 .. n : run[i] = Piece(g, next + i)
        BY <1>6
      <4>4. run = [i \in 1 .. n |-> run[i]] /\ \A i \in 1 .. n : run[i] \in Seq(Nat)
        BY <4>2, <4>3
      <4> HIDE DEF run, next
      <4>5. run \in Seq(Seq(Nat)) /\ Len(run) = n
        BY <1>2, <4>4, WrittenSeq
      <4> QED
        BY <3>1, <4>3, <4>5
    <3>3. D = [i \in 1 .. Len(D) |-> Piece(g, a + i - 1)] /\ data = Piece(g, a + Len(D))
      BY <1>9, <3>1 DEF data
    <3> HIDE DEF run, a, D
    <3>4. Len(R) = Len(D) + 1 + n /\ R = [i \in 1 .. Len(R) |-> Piece(g, a + i - 1)]
      <4>1. D \in Seq(Seq(Nat)) /\ data \in Seq(Nat) /\ n \in Nat /\ a \in Nat
        BY <1>2, <1>3, <3>1 DEF D
      <4>2. run \in Seq(Seq(Nat)) /\ Len(run) = n
            /\ \A i \in 1 .. n : run[i] = Piece(g, a + Len(D) + i)
        BY <3>2
      <4>3. Joins(g, a, D, data, n, run)
        BY <3>3, <4>2 DEF Joins
      <4> QED
        BY <4>1, <4>2, <4>3, PiecesJoin
    <3> HIDE DEF R
    <3>5. a + Len(R) = f.next
      BY <1>2, <1>8, <3>1, <3>4
    <3>6. R = [i \in 1 .. Len(R) |-> Piece(f, a + i - 1)]
      BY <1>8, <3>4
    <3>7. f.next \in Nat
      BY <1>2, <1>8
    <3> QED
      BY <3>1, <3>5, <3>6, <3>7 DEF a
  <2> QED
    BY <2>1, <2>2
<1>11. d.ack_nr = No(m, f.next - 1)
  <2>1. f.next - 1 = next + n
    BY <1>2, <1>8
  <2> QED
    BY <1>2, <1>5, <1>7, <2>1
<1>12. \A q \in SeqNrs : d.inbuf[q] # NULL =>
         \E k \in f.has : q = No(m, k) /\ d.inbuf[q] = Piece(f, k)
  <2> SUFFICES ASSUME NEW q \in SeqNrs, d.inbuf[q] # NULL
               PROVE  \E k \in f.has : q = No(m, k) /\ d.inbuf[q] = Piece(f, k)
    OBVIOUS
  <2>1. d.inbuf[q] = t.inbuf[q]
    BY <1>5, <1>7
  <2>2. PICK k \in g.has : q = No(m, k) /\ t.inbuf[q] = Piece(g, k)
    BY <1>9, <2>1
  <2>3. k \in f.has /\ Piece(f, k) = Piece(g, k)
    BY <1>8, <2>2 DEF has
  <2> QED
    BY <2>1, <2>2, <2>3
<1>13. \A k \in Behind(f) : d.inbuf[No(m, k)] # NULL
  <2> SUFFICES ASSUME NEW k \in Behind(f) PROVE d.inbuf[No(m, k)] # NULL
    OBVIOUS
  <2>1. k \in Behind(g) /\ k \notin next + 1 .. next + n
    BY <1>8
  <2>2. k \in Nat /\ k > next /\ k < g.count
    BY <1>1, <2>1, BehindFinite
  <2>3. k - next - 1 >= n
    BY <1>2, <2>1, <2>2
  <2>4. Ahead(c, No(m, k)) = k - next - 1
    <3>1. next \in Int /\ c.ack_nr = No(m, next) /\ 0 <= next + 1 /\ next + 1 <= g.count
      <4>1. g.next \in Nat /\ g.next < g.count /\ g.count \in Nat /\ c.ack_nr = No(m, g.next)
        BY <1>1, <1>2, <1>5
      <4>2. \A x \in Nat, y \in Nat : x < y => x \in Int /\ 0 <= x + 1 /\ x + 1 <= y
        OBVIOUS
      <4> QED
        BY <4>1, <4>2
    <3> HIDE DEF next
    <3> QED
      BY <1>5, <2>2, <3>1, AheadMeans
  <2>5. No(m, k) \in SeqNrs
    BY <1>1, <2>2, NoType
  <2>6. ~(Ahead(c, No(m, k)) < n)
    BY <1>2, <2>2, <2>3, <2>4
  <2>7. t.inbuf[No(m, k)] # NULL
    BY <1>9, <2>1
  <2> QED
    BY <1>5, <1>7, <2>5, <2>6, <2>7
<1>14. Cardinality(Behind(f)) <= d.reorder_count
  <2> DEFINE a == next + 1
             b == next + n
             I == a .. b
  <2>1. IsFiniteSet(Behind(g)) /\ Cardinality(Behind(g)) \in Nat
    BY <1>1, BehindFinite
  <2>2. I \subseteq Behind(g) /\ Behind(f) = Behind(g) \ I /\ Behind(g) \cap I = I
    BY <1>8
  <2>3. a \in Int /\ b \in Int /\ (a > b => n = 0) /\ (~(a > b) => b - a + 1 = n)
    <3>1. next \in Nat /\ n \in Nat
      BY <1>2
    <3> HIDE DEF next
    <3> QED
      BY <3>1
  <2> HIDE DEF a, b
  <2>4. Cardinality(I) = n
    BY <1>2, <2>3, FS_Interval
  <2> HIDE DEF I
  <2>5. Cardinality(Behind(f)) = Cardinality(Behind(g)) - n
    BY <2>1, <2>2, <2>4, FS_Difference
  <2>6. CASE ~AtEof(c, n)
    BY <1>2, <1>5, <1>7, <1>9, <2>1, <2>5, <2>6
  <2>7. CASE AtEof(c, n)
    <3>1. f.next = g.count
      BY <1>6, <1>8, <2>7
    <3>2. Behind(f) = {}
      <4> SUFFICES ASSUME NEW k \in Behind(f) PROVE FALSE
        OBVIOUS
      <4>1. k \in Behind(g) /\ k >= f.next
        BY <1>8 DEF Behind
      <4>2. k \in Nat /\ k < g.count
        BY <1>1, <4>1, BehindFinite
      <4> QED
        BY <1>2, <3>1, <4>1, <4>2
    <3>3. Cardinality(Behind(f)) = 0
      BY <3>2, FS_EmptySet
    <3> QED
      BY <1>7, <2>7, <3>3
  <2> QED
    BY <2>6, <2>7
<1>15. /\ d.got_fin => fin /\ d.eof_pkt = No(m, f.count - 1)
       /\ fin /\ f.count - 1 \in f.has => d.got_fin
       /\ d.got_fin_reached <=> fin /\ f.next = f.count
  <2>1. /\ f.count = g.count /\ f.has = has /\ f.next = g.next + 1 + n
        /\ d.got_fin = t.got_fin /\ d.eof_pkt = t.eof_pkt
    BY <1>5, <1>7, <1>8 DEF next
  <2>2. /\ d.got_fin => fin /\ d.eof_pkt = No(m, f.count - 1)
        /\ fin /\ f.count - 1 \in f.has => d.got_fin
    BY <1>9, <2>1, Zenon
  <2>3. d.got_fin_reached <=> AtEof(c, n)
    BY <1>5, <1>7, Zenon
  <2>4. AtEof(c, n) <=> fin /\ f.next = f.count
    BY <1>6, <2>1, Zenon
  <2> QED
    BY <2>2, <2>3, <2>4, Zenon
<1>16. Expects(m, d, f, fin, f.has)
  BY <1>10, <1>11, <1>12, <1>13, <1>14, <1>15, Zenon DEF Expects
<1>17. f.open /\ g.next <= f.next /\ g.has \subseteq f.has /\ f.has \subseteq g.has \cup {g.next}
  BY <1>2, <1>8 DEF has
<1> QED
  BY <1>8, <1>16, <1>17, Zenon DEF Heard, d, c, f, data, next

\* deliver_data for packet k of the stream.
LEMMA DeliverHeard ==
    ASSUME NEW m, NEW r, NEW g, NEW fin, Listens(m, r, g, fin), g.open,
           Expects(m, r, g, fin, g.has), NEW k \in 0 .. g.count - 1,
           NEW type, type = "FIN" <=> fin /\ k = g.count - 1,
           NEW seq, seq = No(m, k), NEW data, data = Piece(g, k),
           Ahead(r, seq) < REORDER_MAX, NEW n \in DrainCounts(r, type, seq, data)
    PROVE  \E f : Heard(m, DeliverData(r, type, seq, data, n), g, fin, k, f)
<1> DEFINE t == NoteFin(r, type, seq)
           next == g.next
           d == DeliverData(r, type, seq, data, n)
<1>1. Listens(m, t, g, fin) /\ Expects(m, t, g, fin, g.has \cup {k})
  BY NoteFinExpects
<1>2. /\ d = IF Ahead(t, seq) = 0 THEN Drain(AcceptInOrder(t, data), n)
             ELSE IF Rejected(t, seq) THEN t ELSE Store(t, seq, data)
      /\ Ahead(t, seq) = 0 =>
           n \in 0 .. t.reorder_count /\ DrainStops(AcceptInOrder(t, data), n)
  <2>1. d = IF Ahead(t, seq) = 0 THEN Drain(AcceptInOrder(t, data), n)
            ELSE IF Rejected(t, seq) THEN t ELSE Store(t, seq, data)
    BY DEF DeliverData
  <2>2. n \in IF Ahead(t, seq) = 0
              THEN {i \in 0 .. t.reorder_count : DrainStops(AcceptInOrder(t, data), i)}
              ELSE {0}
    BY DEF DrainCounts
  <2> HIDE DEF t, d
  <2> QED
    BY <2>1, <2>2
<1> HIDE DEF t, d
<1>3. /\ m \in Nodes /\ StreamOK(m, g) /\ g.count + REORDER_MAX < SEQ_MOD
      /\ fin \in BOOLEAN /\ SocketType(t)
  BY <1>1 DEF Listens
<1>4. /\ g.count \in Nat /\ next \in Nat /\ next <= g.count /\ next \notin g.has
      /\ g.has \subseteq 0 .. g.count - 1 /\ g.has \in SUBSET Nat
      /\ (\A j \in 0 .. next - 1 : j \in g.has) /\ REORDER_MAX \in Nat
  BY <1>1, ListensType
<1>5. k \in Nat /\ k < g.count /\ g.count \in Nat
  BY <1>4
<1>6. data \in Seq(Nat)
  BY <1>3, <1>5, PieceType
<1> DEFINE c == next - 1
<1>7. c \in Int /\ 0 <= c + 1 /\ c + 1 <= g.count /\ c + 1 = next
  BY <1>4
<1>8. r.ack_nr = No(m, c) /\ t.ack_nr = No(m, c)
  BY <1>1 DEF Expects
<1> HIDE DEF c, next
<1>9. /\ k > c => Ahead(r, seq) = k - c - 1 /\ Ahead(t, seq) = k - c - 1
      /\ k <= c => Ahead(r, seq) >= REORDER_MAX
  <2>1. /\ k > c => Ahead(r, seq) = k - c - 1
        /\ k <= c => Ahead(r, seq) >= REORDER_MAX
    BY <1>5, <1>7, <1>8, AheadMeans
  <2>2. Ahead(t, seq) = Ahead(r, seq)
    BY <1>8 DEF Ahead
  <2> QED
    BY <2>1, <2>2
<1>10. Ahead(r, seq) \in Nat
  <2>1. r.ack_nr \in SeqNrs /\ seq \in SeqNrs
    BY <1>3, <1>5, <1>7, <1>8, NoType
  <2>2. seq - r.ack_nr - 1 \in Int
    BY <2>1 DEF SeqNrs
  <2>3. Ahead(r, seq) \in SeqNrs
    BY <2>2, WrapType DEF Ahead
  <2> QED
    BY <2>3 DEF SeqNrs
<1>11. k > c /\ Ahead(t, seq) = k - next
  <2>1. k > c
    BY <1>4, <1>5, <1>7, <1>9, <1>10
  <2> QED
    BY <1>5, <1>7, <1>9, <2>1
<1>12. CASE k = next
  <2>1. Ahead(t, seq) = 0 /\ g.next < g.count /\ k = g.next
    BY <1>4, <1>5, <1>11, <1>12 DEF next
  <2>2. NextCame(m, t, g, fin)
    BY <1>1, <2>1 DEF NextCame
  <2>3. data = Piece(g, g.next) /\ Piece(g, g.next) \in Seq(Nat)
    BY <1>6, <2>1
  <2>4. Heard(m, Drain(AcceptInOrder(t, Piece(g, g.next)), n), g, fin, g.next, After(g, n))
    BY <1>2, <2>1, <2>2, <2>3, DrainHeard
  <2>5. Heard(m, d, g, fin, k, After(g, n))
    BY <1>2, <2>1, <2>3, <2>4
  <2> QED
    BY <2>5 DEF d
<1>13. CASE k # next
  <2>1. k > next /\ Ahead(t, seq) # 0
    BY <1>4, <1>5, <1>7, <1>11, <1>13
  <2>2. ~PastEof(t, Ahead(t, seq))
    <3> SUFFICES ASSUME t.got_fin PROVE ~(Ahead(t, seq) > Wrap(t.eof_pkt - t.ack_nr - 1))
      BY DEF PastEof
    <3> DEFINE last == g.count - 1
               z == last - c - 1
    <3>1. last \in Int /\ -1 \in Int /\ z \in Int /\ z >= 0 /\ z < SEQ_MOD /\ k - next <= z
          /\ last - c + (-1) = z /\ -SEQ_MOD < z
      <4>1. /\ g.count \in Nat /\ c \in Int /\ next = c + 1 /\ next \in Nat /\ next <= g.count
            /\ k \in Nat /\ k < g.count /\ k > next /\ REORDER_MAX \in Nat /\ SEQ_MOD \in Nat
            /\ g.count + REORDER_MAX < SEQ_MOD
        BY <1>3, <1>4, <1>5, <1>7, <2>1, SeqModAssumption
      <4> QED
        BY <4>1
    <3>2. t.eof_pkt = No(m, last)
      BY <1>1 DEF Expects
    <3> HIDE DEF last, z
    <3>3. Wrap(No(m, last) - No(m, c) + (-1)) = Wrap(last - c + (-1))
      BY <1>3, <1>7, <3>1, NoDistance
    <3>4. No(m, last) \in Int /\ No(m, c) \in Int
      BY <1>3, <1>7, <3>1, NoType DEF SeqNrs
    <3>5. No(m, last) - No(m, c) + (-1) = No(m, last) - No(m, c) - 1
      BY <3>4
    <3>6. Wrap(z) = z
      BY <3>1, WrapSmall
    <3>7. Wrap(t.eof_pkt - t.ack_nr - 1) = z
      BY <1>8, <3>1, <3>2, <3>3, <3>5, <3>6
    <3> QED
      BY <1>4, <1>5, <1>11, <3>1, <3>7
  <2>3. k \in g.has => t.inbuf[seq] # NULL
    <3> HAVE k \in g.has
    <3>1. k >= g.next
      BY <1>4, <1>5, <2>1 DEF next
    <3>2. k \in Behind(g)
      BY <3>1 DEF Behind
    <3> QED
      BY <1>1, <3>2 DEF Expects
  <2>4. CASE Rejected(t, seq)
    <3>1. t.inbuf[No(m, k)] # NULL
      BY <2>2, <2>4 DEF Rejected
    <3>2. k <= g.count + REORDER_MAX
      BY <1>4, <1>5
    <3>3. k \in g.has
      BY <1>1, <1>5, <3>1, <3>2, SlotMeans
    <3>4. Heard(m, t, g, fin, k, g)
      BY <1>1, <3>3, KnownHeard
    <3>5. d = t
      BY <1>2, <2>1, <2>4
    <3> QED
      BY <3>4, <3>5 DEF d
  <2>5. CASE ~Rejected(t, seq)
    <3>1. k \notin g.has
      BY <2>3, <2>5 DEF Rejected
    <3>2. Piece(g, k) \in Seq(Nat) /\ g.next < k
      BY <1>4, <1>5, <1>6, <2>1 DEF next
    <3>3. PICK f : Heard(m, Store(t, No(m, k), Piece(g, k)), g, fin, k, f)
      BY <1>1, <1>5, <3>1, <3>2, StoreHeard
    <3>4. d = Store(t, No(m, k), Piece(g, k))
      BY <1>2, <2>1, <2>5
    <3> QED
      BY <3>3, <3>4 DEF d
  <2> QED
    BY <2>4, <2>5
<1> QED
  BY <1>12, <1>13

-----------------------------------------------------------------------------
(* deliver_data in process_incoming *)

\* deliver_data touches nothing but the reading half.
LEMMA DeliverDataSame ==
    ASSUME NEW s, SocketType(s), NEW type, NEW seq \in SeqNrs, NEW data, NEW n
    PROVE  LET d == DeliverData(s, type, seq, data, n)
           IN  /\ SameSend(s, d) /\ d.wrote = s.wrote /\ d.st = s.st /\ d.out = s.out
               /\ d.fin_sent_acked = s.fin_sent_acked
<1> DEFINE Same(t) == /\ DOMAIN t = Fields
                      /\ SameSend(s, t) /\ t.wrote = s.wrote /\ t.st = s.st /\ t.out = s.out
                      /\ t.fin_sent_acked = s.fin_sent_acked
           fin == [s EXCEPT !.got_fin = TRUE, !.eof_pkt = seq]
           t == NoteFin(s, type, seq)
<1>1. Same(s) /\ Same(fin)
  BY DEF SocketType, Fields, SameSend
<1>2. t = s \/ t = fin
  BY DEF NoteFin
<1> HIDE DEF fin
<1>3. Same(t)
  BY <1>1, <1>2
<1> HIDE DEF t
<1>4. ASSUME NEW r, Same(r), NEW del, NEW ack
      PROVE  Same([r EXCEPT !.delivered = del, !.ack_nr = ack])
  BY <1>4 DEF Fields, SameSend
<1>5. ASSUME NEW r, Same(r), NEW del, NEW buf, NEW ack, NEW eof, NEW k
      PROVE  Same([r EXCEPT !.delivered = del, !.inbuf = buf, !.ack_nr = ack,
                            !.got_fin_reached = eof, !.reorder_count = k])
  BY <1>5 DEF Fields, SameSend
<1>6. ASSUME NEW r, Same(r), NEW buf, NEW k
      PROVE  Same([r EXCEPT !.inbuf = buf, !.reorder_count = k])
  BY <1>6 DEF Fields, SameSend
<1> HIDE DEF Same
<1>7. Same(AcceptInOrder(t, data))
  BY <1>3, <1>4 DEF AcceptInOrder
<1>8. Same(Drain(AcceptInOrder(t, data), n))
  <2> DEFINE c == AcceptInOrder(t, data)
  <2>1. Same(c)
    BY <1>7
  <2> HIDE DEF c
  <2> QED
    BY <1>5, <2>1 DEF Drain, c
<1>9. Same(Store(t, seq, data))
  BY <1>3, <1>6 DEF Store
<1>10. Same(DeliverData(s, type, seq, data, n))
  BY <1>3, <1>8, <1>9 DEF DeliverData, t
<1> QED
  BY <1>10 DEF Same

\* p, a datagram with data or the FIN of stream e, whose node has socket u, comes to
\* socket r of node n inside the reorder window.
Comes(n, r, u, e, p) ==
  /\ u.fin_sent \in BOOLEAN /\ u.wrote \in Nat /\ u.wrote <= MaxWrite[Peer(n)]
  /\ StreamOK(Peer(n), e) /\ Sending(Peer(n), u, e, u.wrote)
  /\ p \in Datagrams /\ p.type \in {"DATA", "FIN"} /\ DataClaim(Peer(n), u, e, p)
  /\ SocketOK(r) /\ Established(r) /\ Ahead(r, p.seq) < REORDER_MAX

\* The receiver hears of it.
LEMMA DeliverDataEnds ==
    ASSUME ShortConnection, NEW n \in Nodes, NEW s, NEW g, NEW r, NEW u, NEW e, NEW p,
           Comes(n, r, u, e, p), NEW h, NEW f, f.open, Ends(n, s, g, r, h, u, e, f),
           NEW k \in DrainCounts(r, p.type, p.seq, p.data)
    PROVE  \E c : c.open /\ Ends(n, s, g, DeliverData(r, p.type, p.seq, p.data, k), h, u, e, c)
<1> DEFINE m == Peer(n)
           d == DeliverData(r, p.type, p.seq, p.data, k)
           fin == u.fin_sent
<1>1. m \in Nodes /\ n \in {"A", "B"}
  BY DEF Nodes, Peer
<1>2. /\ fin \in BOOLEAN /\ u.wrote \in Nat /\ u.wrote <= MaxWrite[m]
      /\ StreamOK(m, e) /\ Sending(m, u, e, u.wrote)
      /\ p.seq \in SeqNrs /\ p.type \in {"DATA", "FIN"} /\ DataClaim(m, u, e, p)
      /\ SocketOK(r) /\ Registered(r) /\ r.st # "SYN_SENT" /\ Ahead(r, p.seq) < REORDER_MAX
  BY DEF Comes, Datagrams, Registered, Established
<1>3. SocketType(r) /\ r.reorder_count <= REORDER_MAX
  BY <1>2, ReorderBounded DEF SocketOK, SendOK
<1>4. /\ StreamOK(n, h) /\ Sending(n, r, h, r.wrote) /\ r.wrote <= MaxWrite[n]
      /\ Extends(n, s, g, r, h) /\ StreamOK(m, f) /\ Advances(m, u, e, f)
      /\ Receiving(m, r, f, fin) /\ \A q \in r.out : AckClaim(m, f, q)
      /\ Opened(n, r, h, f)
  BY DEF Ends
<1>5. /\ f.count = e.count /\ f.cut = e.cut /\ e.next <= f.next /\ e.has \subseteq f.has
      /\ \A j \in f.has : ~Unsent(u.outbuf[No(m, j)])
  BY <1>4 DEF Advances
<1>6. e.count \in Nat /\ e.count + REORDER_MAX < SEQ_MOD
  BY <1>1, <1>2, CountBound
<1>7. PICK j \in 0 .. e.count - 1 : /\ p.seq = No(m, j) /\ IsPacket(m, e, fin, j, p)
                                    /\ ~Unsent(u.outbuf[No(m, j)])
  BY <1>2 DEF DataClaim
<1> HIDE DEF m, d, fin
<1>8. Listens(m, r, f, fin)
  BY <1>1, <1>2, <1>3, <1>4, <1>5, <1>6 DEF Listens
<1>9. Expects(m, r, f, fin, f.has)
  BY <1>2, <1>4 DEF Receiving, Expects
<1>10. p.data = Piece(f, j) /\ (p.type = "FIN" <=> fin /\ j = f.count - 1) /\ j \in 0 .. f.count - 1
  <2>1. Piece(f, j) = Piece(e, j)
    BY <1>5 DEF Piece
  <2> QED
    BY <1>5, <1>7, <2>1 DEF IsPacket
<1>11. PICK c : Heard(m, d, f, fin, j, c)
  BY <1>2, <1>7, <1>8, <1>9, <1>10, DeliverHeard DEF d
<1>12. /\ StreamOK(m, c) /\ c.count = f.count /\ c.cut = f.cut /\ c.open
       /\ f.next <= c.next /\ f.has \subseteq c.has /\ c.has \subseteq f.has \cup {j}
       /\ Expects(m, d, c, fin, c.has)
  BY <1>11, Zenon DEF Heard
<1>13. /\ SameSend(r, d) /\ d.wrote = r.wrote /\ d.st = r.st /\ d.out = r.out
       /\ d.fin_sent_acked = r.fin_sent_acked
  BY <1>2, <1>3, DeliverDataSame DEF d
<1>14. d.seq_nr = r.seq_nr /\ d.cwp = r.cwp /\ d.outbuf = r.outbuf /\ d.fin_sent = r.fin_sent
  BY <1>13 DEF SameSend
<1>15. Sending(n, d, h, d.wrote)
  BY <1>4, <1>13, <1>14 DEF Sending, DataClaim, Registered
<1>16. Extends(n, s, g, d, h)
  BY <1>4, <1>14 DEF Extends
<1>17. \A i \in c.has : ~Unsent(u.outbuf[No(m, i)])
  BY <1>5, <1>7, <1>12
<1>18. Advances(m, u, f, c)
  BY <1>12, <1>17 DEF Advances
<1>19. Advances(m, u, e, c)
  <2>1. e.next \in Nat /\ f.next \in Nat /\ c.next \in Nat
    BY <1>2, <1>4, <1>12 DEF StreamOK, Streams
  <2>2. e.next <= c.next
    BY <1>5, <1>12, <2>1
  <2> QED
    BY <1>5, <1>12, <1>17, <2>2 DEF Advances
<1>20. Receiving(m, d, c, fin)
  BY <1>12, Zenon DEF Receiving, Expects
<1>21. \A q \in d.out : AckClaim(m, c, q)
  BY <1>1, <1>4, <1>12, <1>13, <1>18, ClaimAdvances
<1>22. Opened(n, d, h, c)
  BY <1>1, <1>2, <1>4, <1>12, <1>13 DEF Opened, Established
<1>23. Ends(n, s, g, d, h, u, e, c)
  BY <1>4, <1>12, <1>13, <1>15, <1>16, <1>19, <1>20, <1>21, <1>22 DEF Ends, m, fin
<1> QED
  BY <1>12, <1>23 DEF d

\* deliver_data with what follows it: the application may keep the data, an ACK is
\* sent at the end of the stream, or will be sent.
LEMMA DeliverEnds ==
    ASSUME ShortConnection, NEW n \in Nodes, NEW s, SocketType(s), NEW g, g.count \in Nat,
           NEW r, NEW u, NEW e, NEW p, Comes(n, r, u, e, p),
           NEW h, NEW f, f.open, Ends(n, s, g, r, h, u, e, f), NEW hold \in BOOLEAN
    PROVE  \E c : Ends(n, s, g, Deliver(r, p, hold), h, u, e, c)
<1> DEFINE C == DrainCounts(r, p.type, p.seq, p.data)
           k == CHOOSE i \in C : TRUE
           d == DeliverData(r, p.type, p.seq, p.data, k)
           m == d.unread + Got(r, d)
           v == [d EXCEPT !.unread = m]
           x == IF hold THEN v ELSE d
           y == [x EXCEPT !.rto_armed = TRUE]
           z == IF x.got_fin_reached /\ ~r.got_fin_reached THEN SendAck(y) ELSE x
           a == ScheduleAck(z)
<1>1. SocketType(r) /\ p.seq \in SeqNrs /\ p.data \in Seq(Nat) /\ Registered(r)
      /\ r.st # "SYN_SENT" /\ SocketOK(r) /\ Established(r) /\ Ahead(r, p.seq) < REORDER_MAX
  BY DEF Comes, SocketOK, SendOK, Datagrams, Registered, Established
<1>2. Deliver(r, p, hold) = IF x.ack_nr # r.ack_nr \/ x.reorder_count # r.reorder_count
                            THEN a ELSE z
  BY DEF Deliver, Got
<1>3. k \in C
  BY <1>1, DrainCountExists
<1> HIDE DEF k
<1>4. SocketOK(d) /\ d.st = r.st
  BY <1>1, <1>3, DeliverDataOK
<1>5. PICK c : c.open /\ Ends(n, s, g, d, h, u, e, c)
  <2>1. k \in DrainCounts(r, p.type, p.seq, p.data)
    BY <1>3
  <2>2. \E c : c.open /\ Ends(n, s, g, DeliverData(r, p.type, p.seq, p.data, k), h, u, e, c)
    BY <1>1, <2>1, DeliverDataEnds
  <2> QED
    BY <2>2
<1> HIDE DEF d
<1>6. SocketType(d)
  BY <1>4 DEF SocketOK, SendOK
<1>7. m \in Nat
  BY <1>1, <1>6, GotType
<1> HIDE DEF m
<1>8. SocketOK(x) /\ x.st = r.st /\ Ends(n, s, g, x, h, u, e, c)
  <2>1. /\ SocketType(v) /\ SameSend(d, v) /\ SameRecv(d, v) /\ NoNewSyn(d, v) /\ v.st = d.st
        /\ v.wrote = d.wrote /\ v.fin_sent_acked = d.fin_sent_acked /\ v.out = d.out
        /\ v.delivered = d.delivered /\ v.got_fin = d.got_fin
        /\ v.got_fin_reached = d.got_fin_reached /\ v.eof_pkt = d.eof_pkt
        /\ v.read_shutdown = d.read_shutdown
    BY <1>6, <1>7 DEF SocketType, Fields, SameSend, SameRecv, NoNewSyn
  <2> HIDE DEF v
  <2>2. SocketOK(v)
    BY <1>4, <2>1, AsideOK
  <2>3. Ends(n, s, g, v, h, u, e, c)
    BY <1>5, <2>1, AsideEnds
  <2> QED
    BY <1>4, <1>5, <2>1, <2>2, <2>3
<1> HIDE DEF x
<1>9. SocketOK(z) /\ Ends(n, s, g, z, h, u, e, c)
  <2>1. SocketType(x)
    BY <1>8 DEF SocketOK, SendOK
  <2>2. /\ SocketType(y) /\ SameSend(x, y) /\ SameRecv(x, y) /\ NoNewSyn(x, y) /\ y.st = x.st
        /\ y.wrote = x.wrote /\ y.fin_sent_acked = x.fin_sent_acked /\ y.out = x.out
        /\ y.delivered = x.delivered /\ y.got_fin = x.got_fin
        /\ y.got_fin_reached = x.got_fin_reached /\ y.eof_pkt = x.eof_pkt
        /\ y.read_shutdown = x.read_shutdown
    BY <2>1 DEF SocketType, Fields, SameSend, SameRecv, NoNewSyn
  <2> HIDE DEF y
  <2>3. SocketOK(y)
    BY <1>8, <2>2, AsideOK
  <2>4. Ends(n, s, g, y, h, u, e, c)
    BY <1>5, <1>8, <2>2, AsideEnds
  <2>5. SendOK(SendAck(y)) /\ Keeps(y, SendAck(y))
    BY <2>3, SendAckKeeps DEF SocketOK
  <2>6. SocketOK(SendAck(y))
    BY <2>3, <2>5, KeepsOK
  <2>7. Registered(y) /\ Established(y) /\ SendOK(y) /\ SocketType(y)
    BY <1>1, <1>8, <2>2, <2>3 DEF Registered, Established, SocketOK
  <2>8. Steady(n, y, h)
    BY <2>4, <2>7, EndsSteady
  <2>9. Calls(n, y, h, SendAck(y), h)
    BY <2>7, <2>8, SendAckCalls
  <2>10. SocketType(SendAck(y))
    BY <2>5 DEF SendOK
  <2>11. Ends(n, s, g, SendAck(y), h, u, e, c)
    BY <1>5, <2>4, <2>7, <2>9, <2>10, CallsThen
  <2> QED
    BY <1>8, <2>6, <2>11
<1> HIDE DEF z
<1>10. Ends(n, s, g, a, h, u, e, c)
  <2>1. SocketType(z)
    BY <1>9 DEF SocketOK, SendOK
  <2>2. /\ SameSend(z, a) /\ SameRecv(z, a) /\ a.st = z.st
        /\ a.wrote = z.wrote /\ a.fin_sent_acked = z.fin_sent_acked /\ a.out = z.out
        /\ a.delivered = z.delivered /\ a.got_fin = z.got_fin
        /\ a.got_fin_reached = z.got_fin_reached /\ a.eof_pkt = z.eof_pkt
        /\ a.read_shutdown = z.read_shutdown
    BY <2>1 DEF ScheduleAck, SocketType, Fields, SameSend, SameRecv
  <2> HIDE DEF a
  <2> QED
    BY <1>5, <1>9, <2>2, AsideEnds
<1> QED
  BY <1>2, <1>9, <1>10

-----------------------------------------------------------------------------
(* What a call means to the applications *)

\* What a socket does in one call, as the two applications see it: it accepts data, a
\* direction is shut down, or the application reads.
Accepts(s, t) ==
  /\ ~s.fin_sent /\ s.wrote <= t.wrote
  /\ t.fin_sent = s.fin_sent /\ t.read_shutdown = s.read_shutdown
  /\ t.delivered = s.delivered /\ t.got_fin_reached = s.got_fin_reached

Shuts(s, t) ==
  /\ (s.fin_sent => t.fin_sent) /\ (s.read_shutdown => t.read_shutdown)
  /\ t.wrote = s.wrote /\ t.delivered = s.delivered /\ t.got_fin_reached = s.got_fin_reached

Reads(s, t) ==
  /\ t.wrote = s.wrote /\ t.fin_sent = s.fin_sent /\ ReadsOn(s, t) /\ Registered(s)
  /\ Registered(t)

Acts(s, t) == Accepts(s, t) \/ Shuts(s, t) \/ Reads(s, t)

LEMMA WritesActs ==
    ASSUME NEW s, NEW t, WritesOnly(s, t), ~s.fin_sent \/ s.st # "SYN_SENT"
    PROVE  Acts(s, t)
  BY DEF WritesOnly, Acts, Accepts, Shuts

\* Reading after the acknowledgements have been looked at is reading.
LEMMA WritesReads ==
    ASSUME NEW s, NEW r, WritesOnly(s, r), s.st # "SYN_SENT", Registered(s), NEW t, Reads(r, t)
    PROVE  Reads(s, t)
  BY DEF WritesOnly, Reads, ReadsOn

\* Nothing happens, or an ACK is scheduled.
LEMMA IdleActs ==
    ASSUME NEW s, SocketType(s)
    PROVE  Acts(s, s) /\ Acts(s, ScheduleAck(s))
<1>1. Shuts(s, s)
  BY DEF Shuts
<1>2. Shuts(s, ScheduleAck(s))
  BY DEF Shuts, ScheduleAck, SocketType, Fields
<1> QED
  BY <1>1, <1>2 DEF Acts

\* deliver_data with what follows it is reading.
LEMMA DeliverReads ==
    ASSUME NEW r, SocketOK(r), Established(r), NEW p \in Datagrams, Ahead(r, p.seq) < REORDER_MAX,
           NEW hold \in BOOLEAN
    PROVE  Reads(r, Deliver(r, p, hold))
<1> DEFINE C == DrainCounts(r, p.type, p.seq, p.data)
           k == CHOOSE i \in C : TRUE
           d == DeliverData(r, p.type, p.seq, p.data, k)
           m == d.unread + Got(r, d)
           v == [d EXCEPT !.unread = m]
           x == IF hold THEN v ELSE d
           y == [x EXCEPT !.rto_armed = TRUE]
           z == IF x.got_fin_reached /\ ~r.got_fin_reached THEN SendAck(y) ELSE x
           a == ScheduleAck(z)
           Same(t) == /\ DOMAIN t = Fields
                      /\ t.wrote = d.wrote /\ t.fin_sent = d.fin_sent /\ t.st = d.st
                      /\ t.read_shutdown = d.read_shutdown /\ t.delivered = d.delivered
                      /\ t.got_fin_reached = d.got_fin_reached
<1>1. /\ SocketType(r) /\ p.seq \in SeqNrs /\ p.data \in Seq(Nat) /\ Registered(r)
      /\ r.st # "SYN_SENT"
  BY DEF SocketOK, SendOK, Datagrams, Registered, Established
<1>2. Deliver(r, p, hold) = IF x.ack_nr # r.ack_nr \/ x.reorder_count # r.reorder_count
                            THEN a ELSE z
  BY DEF Deliver, Got
<1>3. k \in C
  BY <1>1, DrainCountExists
<1> HIDE DEF k
<1>4. SocketOK(d) /\ d.st = r.st /\ ReadsOn(r, d)
  BY <1>1, <1>3, DeliverDataOK
<1>5. d.wrote = r.wrote /\ d.fin_sent = r.fin_sent
  BY <1>1, DeliverDataSame DEF SameSend
<1> HIDE DEF d, C
<1>6. Same(d)
  BY <1>4 DEF SocketOK, SendOK, SocketType
<1> HIDE DEF m
<1>7. Same(v)
  BY <1>6 DEF Fields
<1> HIDE DEF v
<1>8. Same(x)
  BY <1>6, <1>7
<1> HIDE DEF x
<1>9. Same(y)
  BY <1>8 DEF Fields
<1> HIDE DEF y
<1>10. Same(SendAck(y))
  BY <1>9 DEF SendAck, SendAckFor, Fields
<1>11. Same(z)
  BY <1>8, <1>10
<1> HIDE DEF z
<1>12. Same(a)
  BY <1>11 DEF ScheduleAck, Fields
<1> HIDE DEF a
<1>13. Same(Deliver(r, p, hold))
  BY <1>2, <1>11, <1>12
<1> QED
  BY <1>1, <1>4, <1>5, <1>13 DEF Reads, ReadsOn, Registered

-----------------------------------------------------------------------------
(* A packet arrives *)

\* A node that does nothing.
LEMMA SelfEnds ==
    ASSUME ConnectionInv, NEW g \in [Nodes -> Streams], StreamBody(g), NEW n \in Nodes,
           sock[n].st # "UNINITIALIZED"
    PROVE  Ends(n, sock[n], g[n], sock[n], g[n], sock[Peer(n)], g[Peer(n)], g[Peer(n)])
<1> DEFINE s == sock[n]
<1>1. /\ SocketType(s) /\ s.out = {} /\ StreamOK(n, g[n]) /\ Sending(n, s, g[n], s.wrote)
      /\ s.wrote <= MaxWrite[n] /\ s.fin_sent \in BOOLEAN /\ g[n].count \in Nat
  <2>1. /\ SocketType(s) /\ s.out = {} /\ StreamOK(n, g[n])
        /\ Sending(n, s, g[n], s.wrote) /\ s.wrote <= MaxWrite[n]
    BY StreamFacts
  <2>2. s.fin_sent \in BOOLEAN
    BY <2>1 DEF SocketType
  <2>3. g[n].count \in Nat
    BY <2>1 DEF StreamOK, Streams
  <2> QED
    BY <2>1, <2>2, <2>3
<1>2. StateMoves(s, s) /\ Hears(s, s) /\ Emits(s, s)
  BY DEF StateMoves, Hears, Emits, SameRecv
<1>3. Extends(n, s, g[n], s, g[n])
  BY <1>1 DEF Extends
<1>4. Calls(n, s, g[n], s, g[n])
  BY <1>1, <1>2, <1>3 DEF Calls
<1> QED
  BY <1>1, <1>4, CallsEnds

\* A datagram out of the window: an ACK will follow, unless it is one.
LEMMA OutsideEnds ==
    ASSUME ConnectionInv, NEW g \in [Nodes -> Streams], StreamBody(g),
           NEW x \in net, x.to \in Nodes, x.p.type \in {"DATA", "FIN"},
           sock[x.to].st # "UNINITIALIZED"
    PROVE  Ends(x.to, sock[x.to], g[x.to], ScheduleAck(sock[x.to]), g[x.to],
                sock[Peer(x.to)], g[Peer(x.to)], g[Peer(x.to)])
<1> DEFINE n == x.to
           s == sock[n]
           a == ScheduleAck(s)
           e == g[Peer(n)]
<1>1. n \in Nodes /\ e.open /\ SocketType(s)
  BY DataMeansOpen, StreamFacts
<1>2. Ends(n, s, g[n], s, g[n], sock[Peer(n)], e, e)
  BY SelfEnds
<1>3. /\ SameSend(s, a) /\ SameRecv(s, a) /\ a.st = s.st
      /\ a.wrote = s.wrote /\ a.fin_sent_acked = s.fin_sent_acked /\ a.out = s.out
      /\ a.delivered = s.delivered /\ a.got_fin = s.got_fin
      /\ a.got_fin_reached = s.got_fin_reached /\ a.eof_pkt = s.eof_pkt
      /\ a.read_shutdown = s.read_shutdown
  <2> HIDE DEF s
  <2> QED
    BY <1>1 DEF ScheduleAck, SocketType, Fields, SameSend, SameRecv
<1> HIDE DEF n, s, a, e
<1>4. Ends(n, s, g[n], a, g[n], sock[Peer(n)], e, e)
  BY <1>1, <1>2, <1>3, AsideEnds
<1> QED
  BY <1>4 DEF a, e, s, n

\* The socket of process_incoming once the acknowledgements have been looked at.
LEMMA AckedIs ==
    ASSUME NEW s, NEW p, NEW acks, NEW c
    PROVE  LET s1 == CongestionControl(s, p, acks, c.window)
               s2 == AdvanceSendWindow(s1, p, acks, c.write)
               s3 == IF p.sack = NULL THEN s2 ELSE SelectiveAck(s2, p.ack, p.sack, c.decay)
           IN  BecomeWritable(s3) = Acked(Noted(s, p, acks, c.window), p, acks, c)
  BY DEF AdvanceSendWindow, Acked, Noted

LEMMA AckedOK ==
    ASSUME NEW s, SocketOK(s), NEW p \in Datagrams, NEW c, ChoiceType(c)
    PROVE  LET t == Acked(Noted(s, p, AckCount(s, p.ack), c.window), p, AckCount(s, p.ack), c)
           IN  SocketOK(t) /\ SameRecv(s, t)
<1> DEFINE acks == AckCount(s, p.ack)
           s1 == CongestionControl(s, p, acks, c.window)
           s2 == AdvanceSendWindow(s1, p, acks, c.write)
           s3 == IF p.sack = NULL THEN s2 ELSE SelectiveAck(s2, p.ack, p.sack, c.decay)
           s4 == BecomeWritable(s3)
<1>1. SocketOK(s4) /\ SameRecv(s, s4)
  BY AcknowledgedOK
<1>2. s4 = Acked(Noted(s, p, acks, c.window), p, acks, c)
  <2> HIDE DEF acks
  <2> QED
    BY AckedIs
<1> HIDE DEF s4
<1> QED
  BY <1>1, <1>2, Zenon DEF acks

\* process_incoming at a socket that knows its peer.
LEMMA IncomingEnds ==
    ASSUME ShortConnection, ConnectionInv, NEW g \in [Nodes -> Streams], StreamBody(g),
           NEW x \in net, NEW n \in Nodes, n = x.to, NEW p \in Datagrams, p = x.p,
           p.type \in {"DATA", "FIN", "STATE"},
           Registered(sock[n]), sock[n].st # "SYN_SENT", NEW c, ChoiceType(c)
    PROVE  /\ Acts(sock[n], ProcessIncoming(sock[n], p, c))
           /\ \E h, f : Ends(n, sock[n], g[n], ProcessIncoming(sock[n], p, c), h,
                             sock[Peer(n)], g[Peer(n)], f)
<1> DEFINE s == sock[n]
           m == Peer(n)
           u == sock[m]
           e == g[m]
           acks == AckCount(s, p.ack)
           t == Acked(Noted(s, p, acks, c.window), p, acks, c)
           d == Ahead(s, p.seq)
<1>1. ProcessIncoming(s, p, c) =
        IF InvalidAck(s, p) THEN s
        ELSE IF OutOfWindow(d)
        THEN IF FromThePast(d) /\ p.type # "STATE" THEN ScheduleAck(s) ELSE s
        ELSE IF p.type = "STATE" \/ ~Established(t) THEN t
        ELSE Deliver(t, p, c.hold)
  <2> HIDE DEF s, d, t
  <2> QED
    BY AckedIs DEF ProcessIncoming, t, acks, d, s
<1>2. s.st # "UNINITIALIZED"
  BY DEF Registered
<1>3. Ends(n, s, g[n], s, g[n], u, e, e)
  BY <1>2, SelfEnds
<1>4. p.type # "STATE" => Ends(n, s, g[n], ScheduleAck(s), g[n], u, e, e)
  BY <1>2, OutsideEnds
<1>5. SendOK(t) /\ WritesOnly(s, t) /\ \E h : Ends(n, s, g[n], t, h, u, e, e)
  BY AckedEnds
<1>6. PICK h : Ends(n, s, g[n], t, h, u, e, e)
  BY <1>5
<1>7. ASSUME ~OutOfWindow(d), p.type # "STATE", Established(t)
      PROVE  /\ Acts(s, Deliver(t, p, c.hold))
             /\ \E f : Ends(n, s, g[n], Deliver(t, p, c.hold), h, u, e, f)
  <2>1. /\ m \in Nodes /\ m # n /\ SocketOK(s) /\ SocketType(s) /\ SocketType(u)
        /\ StreamOK(n, g[n]) /\ StreamOK(m, e) /\ Sending(m, u, e, u.wrote)
        /\ u.wrote <= MaxWrite[m]
    BY StreamFacts
  <2>2. g[n].count \in Nat /\ u.fin_sent \in BOOLEAN /\ u.wrote \in Nat /\ c.hold \in BOOLEAN
    BY <2>1 DEF StreamOK, Streams, SocketType, ChoiceType
  <2>3. DataClaim(m, u, e, p)
    BY <2>1 DEF StreamBody
  <2>4. e.open
    BY <1>2, <1>7, DataMeansOpen
  <2>5. SocketOK(t) /\ SameRecv(s, t)
    <3> HIDE DEF s
    <3> QED
      BY <2>1, AckedOK
  <2> HIDE DEF s, u, e, m, t
  <2>6. Ahead(t, p.seq) = d
    BY <2>5 DEF SameRecv, Ahead
  <2>7. d \in SeqNrs
    <3>1. s.ack_nr \in SeqNrs /\ p.seq \in SeqNrs
      BY <2>1 DEF SocketType, Datagrams
    <3>2. p.seq - s.ack_nr - 1 \in Int
      BY <3>1 DEF SeqNrs
    <3> QED
      BY <3>2, WrapType DEF Ahead
  <2>8. d < REORDER_MAX
    BY <1>7, <2>7, ReorderMaxAssumption DEF OutOfWindow, SeqNrs
  <2>9. Comes(n, t, u, e, p)
    <3> HIDE DEF d
    <3> QED
      BY <1>7, <2>1, <2>2, <2>3, <2>5, <2>6, <2>8 DEF Comes, m
  <2>10. \E f : Ends(n, s, g[n], Deliver(t, p, c.hold), h, u, e, f)
    BY <1>6, <2>1, <2>2, <2>4, <2>9, DeliverEnds
  <2>11. Reads(t, Deliver(t, p, c.hold))
    BY <1>7, <2>2, <2>5, <2>6, <2>8, DeliverReads
  <2>12. Reads(s, Deliver(t, p, c.hold))
    BY <1>5, <2>11, WritesReads DEF s
  <2> QED
    BY <2>10, <2>12 DEF Acts
<1>8. Acts(s, s) /\ Acts(s, ScheduleAck(s)) /\ Acts(s, t)
  <2>1. SocketType(s) /\ s.st # "SYN_SENT"
    BY StreamFacts
  <2> HIDE DEF s, t
  <2> QED
    BY <1>5, <2>1, IdleActs, WritesActs
<1> HIDE DEF s, u, e, t, d
<1> QED
  <2>1. CASE InvalidAck(s, p)
    BY <1>1, <1>3, <1>8, <2>1 DEF s, u, e
  <2>2. CASE ~InvalidAck(s, p) /\ OutOfWindow(d)
    BY <1>1, <1>3, <1>4, <1>8, <2>2 DEF s, u, e
  <2>3. CASE ~InvalidAck(s, p) /\ ~OutOfWindow(d)
    BY <1>1, <1>6, <1>7, <1>8, <2>3 DEF s, u, e
  <2> QED
    BY <2>1, <2>2, <2>3

\* process_incoming at the initiator that waits for its SYN-ACK.
LEMMA SynAckIncomingEnds ==
    ASSUME ShortConnection, ConnectionInv, NEW g \in [Nodes -> Streams], StreamBody(g),
           NEW x \in net, NEW n \in Nodes, n = x.to, NEW p \in Datagrams, p = x.p,
           p.type \in {"DATA", "FIN", "STATE"},
           sock[n].st = "SYN_SENT", NEW c, ChoiceType(c), c.write <= MaxWrite[n]
    PROVE  /\ Acts(sock[n], ProcessIncoming(sock[n], p, c))
           /\ \E h, f : Ends(n, sock[n], g[n], ProcessIncoming(sock[n], p, c), h,
                             sock[Peer(n)], g[Peer(n)], f)
<1> DEFINE s == sock[n]
           u == sock[Peer(n)]
           e == g[Peer(n)]
           b == [s EXCEPT !.ack_nr = Wrap(p.seq - 1)]
           acks == AckCount(b, p.ack)
           t == Acked(Noted(b, p, acks, c.window), p, acks, c)
           d == Ahead(b, p.seq)
<1>1. /\ p.type = "STATE" /\ d = 0 /\ SendOK(t) /\ WritesOnly(s, t) /\ ~s.fin_sent
      /\ \E h, f : Ends(n, s, g[n], t, h, u, e, f)
  BY SynAckedEnds
<1>2. Ends(n, s, g[n], s, g[n], u, e, e)
  BY SelfEnds
<1>3. s.st = "SYN_SENT"
  OBVIOUS
<1>4. ProcessIncoming(s, p, c) =
        IF InvalidAck(s, p) THEN s
        ELSE IF OutOfWindow(d)
        THEN IF FromThePast(d) /\ p.type # "STATE" THEN ScheduleAck(b) ELSE b
        ELSE IF p.type = "STATE" \/ ~Established(t) THEN t
        ELSE Deliver(t, p, c.hold)
  <2> HIDE DEF s, b, d, t
  <2> QED
    BY <1>3, AckedIs DEF ProcessIncoming, t, acks, d, b
<1> HIDE DEF d
<1>5. ~OutOfWindow(d)
  BY <1>1, ReorderMaxAssumption DEF OutOfWindow
<1>6. ProcessIncoming(s, p, c) \in {s, t}
  BY <1>1, <1>4, <1>5
<1>7. Acts(s, s) /\ Acts(s, t)
  <2>1. SocketType(s)
    BY StreamFacts
  <2> HIDE DEF s, t
  <2> QED
    BY <1>1, <2>1, IdleActs, WritesActs
<1> HIDE DEF t, s, u, e
<1>8. /\ Acts(s, ProcessIncoming(s, p, c))
      /\ \E h, f : Ends(n, s, g[n], ProcessIncoming(s, p, c), h, u, e, f)
  BY <1>1, <1>2, <1>6, <1>7
<1> QED
  BY <1>8 DEF s, u, e

\* A packet of a registered socket keeps the invariant, whether it is refused or handled.
LEMMA PacketStreams ==
    ASSUME ShortConnection, ConnectionInv, NEW g \in [Nodes -> Streams], StreamBody(g),
           NEW x \in net, ReceivePacket(x)
    PROVE  StreamInv'
<1> DEFINE n == x.to
           p == x.p
           s == sock[n]
<1>1. n \in Nodes /\ p \in Datagrams
  BY DEF ConnectionInv, Packets
<1>2. p.type \in {"DATA", "FIN", "STATE"} /\ Registered(s)
  BY <1>1 DEF ReceivePacket, Datagrams
<1>3. SocketOK(s) /\ s.max_window \in Nat \ {0}
  BY <1>1 DEF ConnectionInv, SocketOK, SendOK, SocketType
<1>4. PICK R \in {{}, {x}}, c \in Environment(n, p) : Commit(n, ProcessIncoming(s, p, c), R)
  BY DEF ReceivePacket
<1>5. ChoiceType(c)
  BY <1>3, EnvironmentType
<1>6. c.write <= MaxWrite[n]
  <2>1. c.write \in {0} \cup {k \in WriteSizes :
                       s.st = "SYN_SENT" /\ k <= MaxWrite[n] /\ ~s.closed}
    BY DEF Environment
  <2>2. MaxWrite[n] \in Nat
    BY <1>1, ConnectionAssumption
  <2> QED
    BY <2>1, <2>2
<1> DEFINE t == ProcessIncoming(s, p, c)
<1> HIDE DEF n, p
<1>7. \E h, f : Ends(n, s, g[n], t, h, sock[Peer(n)], g[Peer(n)], f)
  <2>1. n = x.to /\ p = x.p
    BY DEF n, p
  <2>2. CASE s.st = "SYN_SENT"
    BY <1>1, <1>2, <1>5, <1>6, <2>1, <2>2, SynAckIncomingEnds
  <2>3. CASE s.st # "SYN_SENT"
    BY <1>1, <1>2, <1>5, <2>1, <2>3, IncomingEnds
  <2> QED
    BY <2>2, <2>3
<1>8. SocketType(t)
  <2>1. SocketOK(t)
    <3> HIDE DEF s
    <3> QED
      BY <1>1, <1>3, <1>5, ProcessIncomingOK
  <2> QED
    BY <2>1 DEF SocketOK, SendOK
<1>9. Commit(n, t, R)
  BY <1>4
<1> HIDE DEF t
<1> QED
  BY <1>1, <1>7, <1>8, <1>9, CommitStreams

-----------------------------------------------------------------------------
(* The streams are kept *)

\* Before the connection both streams are empty.
LEMMA InitStreams == Init => StreamInv
<1> SUFFICES ASSUME Init PROVE StreamInv
  OBVIOUS
<1> DEFINE cut == [k \in Nat |-> 0]
           g0 == [count |-> 0, cut |-> cut, open |-> FALSE, next |-> 0, has |-> {}]
           g == [n \in Nodes |-> g0]
           new == NewSocket
<1>1. \A n \in Nodes : sock[n] = new
  BY DEF Init
<1>2. net = {}
  BY DEF Init
<1>3. /\ new.st = "UNINITIALIZED" /\ new.delivered = <<>> /\ new.wrote = 0
      /\ ~new.fin_sent /\ ~new.fin_sent_acked /\ ~new.got_fin_reached /\ ~new.got_fin
      /\ new.out = {} /\ ~new.ack_pending /\ new.unread = 0 /\ new.reorder_count = 0
      /\ (\A q \in SeqNrs : new.inbuf[q] = NULL /\ new.outbuf[q] = NULL)
      /\ ~Registered(new) /\ ~Established(new)
  <2> DEFINE mw == 255 * PACKET_SIZE
  <2> HIDE DEF mw
  <2>1. new.st = "UNINITIALIZED"
    BY DEF NewSocket, mw
  <2> QED
    BY <2>1 DEF NewSocket, mw, Registered, Established
<1> HIDE DEF new
<1>4. /\ cut \in [Nat -> Nat] /\ \A k \in Nat : cut[k] = 0
      /\ g0.count = 0 /\ g0.cut = cut /\ g0.open = FALSE /\ g0.next = 0 /\ g0.has = {}
  OBVIOUS
<1>5. g0 \in Streams
  BY <1>4 DEF Streams
<1> HIDE DEF cut, g0
<1>6. \A n \in Nodes : g[n] = g0 /\ Peer(n) \in Nodes
  BY DEF Nodes, Peer
<1>7. \A n \in Nodes : StreamOK(n, g0)
  <2> TAKE n \in Nodes
  <2>1. First(n) \in {0, 1}
    BY FirstType
  <2>2. g0.cut[0] = 0 /\ g0.cut[First(n)] = 0
    BY <1>4, <2>1
  <2>3. \A j, k \in 0 .. g0.count : g0.cut[j] <= g0.cut[k]
    BY <1>4
  <2>4. g0.next <= g0.count /\ 0 .. g0.next - 1 = {}
    BY <1>4
  <2> QED
    BY <1>4, <1>5, <2>2, <2>3, <2>4 DEF StreamOK
<1>8. ASSUME NEW n \in Nodes PROVE Sending(n, new, g0, 0)
  <2>1. First(n) \in {0, 1}
    BY FirstType
  <2>2. g0.count <= 0 + First(n) + 0
    BY <1>4, <2>1
  <2>3. \A k \in 0 .. First(n) - 1 : ~Unsent(new.outbuf[No(n, k)])
    <3> TAKE k \in 0 .. First(n) - 1
    <3>1. k \in Int
      BY <2>1
    <3>2. No(n, k) \in SeqNrs
      BY <3>1, NoType
    <3> QED
      BY <1>3, <3>2 DEF Unsent
  <2> QED
    BY <1>3, <1>4, <2>2, <2>3 DEF Sending
<1>9. ASSUME NEW n \in Nodes PROVE Receiving(n, new, g0, FALSE)
  <2>1. Len(new.delivered) = 0
    BY <1>3
  <2>2. new.delivered = [i \in 1 .. 0 |-> Piece(g0, First(n) + i - 1)]
    <3>1. 1 .. 0 = {}
      OBVIOUS
    <3> QED
      BY <1>3, <3>1
  <2> QED
    BY <1>3, <2>1, <2>2 DEF Receiving
<1>10. \A n \in Nodes : 0 <= MaxWrite[n]
  BY ConnectionAssumption
<1>11. Unsynced(new)
  BY <1>3 DEF Unsynced
<1>12. "A" \in Nodes /\ "B" \in Nodes
  BY DEF Nodes
<1>13. Opening(g)
  <2>1. sock["A"] = new /\ sock["B"] = new /\ g["A"] = g0 /\ g["B"] = g0
    BY <1>1, <1>6, <1>12
  <2> HIDE DEF g
  <2>2. \A n \in Nodes : sock[n] = NewSocket /\ g[n].count = 0
    BY <1>1, <1>4, <1>6 DEF new, g
  <2> QED
    BY <1>2, <1>3, <1>4, <1>11, <2>1, <2>2 DEF Opening
<1>14. StreamBody(g)
  <2> HIDE DEF g
  <2>1. ASSUME NEW n \in Nodes
        PROVE  /\ StreamOK(n, g[n])
               /\ Sending(n, sock[n], g[n], sock[n].wrote) /\ sock[n].wrote <= MaxWrite[n]
               /\ Receiving(n, sock[Peer(n)], g[n], sock[n].fin_sent)
    <3>1. sock[n] = new /\ sock[Peer(n)] = new /\ g[n] = g0
      BY <1>1, <1>6 DEF g
    <3>2. new.wrote = 0 /\ new.fin_sent = FALSE
      <4>1. new.fin_sent = FALSE
        BY DEF new, NewSocket
      <4> QED
        BY <1>3, <4>1
    <3>3. Receiving(n, new, g0, new.fin_sent)
      BY <1>9, <3>2
    <3> QED
      BY <1>7, <1>8, <1>10, <3>1, <3>2, <3>3
  <2> QED
    BY <1>2, <1>13, <2>1 DEF StreamBody
<1>15. g \in [Nodes -> Streams]
  BY <1>5
<1> QED
  BY <1>14, <1>15 DEF StreamInv

\* No step breaks a stream.
LEMMA StepStreams ==
    ASSUME ShortConnection, ConnectionInv, StreamInv, [Next]_vars
    PROVE  StreamInv'
<1>1. PICK g \in [Nodes -> Streams] : StreamBody(g)
  BY DEF StreamInv
<1>2. CASE AppConnect
  BY <1>1, <1>2, ConnectStreams
<1>3. ASSUME NEW n \in Nodes, Application(n) \/ IssueDeferredAcks(n) \/ IcmpError(n)
      PROVE  StreamInv'
  BY <1>1, <1>3, ApplicationStreams
<1>4. ASSUME NEW n \in Nodes, NEW t \in ClockEvents(n), NEW expired \in ExpiredRst(n),
             ContextCheckTimeouts(n, t, expired)
      PROVE  StreamInv'
  BY <1>1, <1>4, TimeoutsStreams
<1>5. ASSUME NEW m \in net, Receive(m)
      PROVE  StreamInv'
  BY <1>1, <1>5, ResetStreams, PacketStreams, StrayStreams, SynStreams DEF Receive
<1>6. ASSUME NEW m \in net, Lose(m)
      PROVE  StreamInv'
  BY <1>1, <1>6, LoseStreams
<1>7. CASE UNCHANGED vars
  <2>1. sock' = sock /\ net' = net
    BY <1>7 DEF vars
  <2> QED
    BY <1>1, <2>1, NothingMoves
<1> QED
  BY <1>2, <1>3, <1>4, <1>5, <1>6, <1>7 DEF Next

\* What the sockets and the datagrams say of the two byte streams is true in every
\* state of a connection that is short enough for the sequence space.
THEOREM StreamsAreKept == ShortConnection => (Spec => []StreamInv)
<1>1. Init => StreamInv
  BY InitStreams
<1>2. ShortConnection /\ ConnectionInv /\ StreamInv /\ [Next]_vars => StreamInv'
  BY StepStreams
<1>3. Spec => []ConnectionInv
  BY ConnectionIsConsistent
<1> SUFFICES ASSUME ShortConnection PROVE Spec => []StreamInv
  OBVIOUS
<1>4. ConnectionInv /\ StreamInv /\ [Next]_vars => StreamInv'
  BY <1>2
<1> QED
  BY <1>1, <1>3, <1>4, PTL DEF Spec

-----------------------------------------------------------------------------
(* What has been read *)

\* The pieces of a stream, one after the other, are the stream.
LEMMA FlattenPieces ==
    ASSUME NEW n \in Nodes, NEW g, StreamOK(n, g), NEW D, Len(D) \in Nat,
           D = [i \in 1 .. Len(D) |-> Piece(g, First(n) + i - 1)],
           Len(D) > 0 => First(n) + Len(D) <= g.count
    PROVE  FlattenSeq(D) = Run(0, g.cut[First(n) + Len(D)])
<1> DEFINE L == Len(D)
           a == First(n)
           Round(f, i) == IF i = 1 THEN D[i] ELSE f[i - 1] \o D[i]
           flatten == CHOOSE f : f = [i \in 1 .. L |-> Round(f, i)]
           w == [i \in 1 .. L |-> Run(0, g.cut[a + i])]
<1>1. /\ L \in Nat /\ a \in {0, 1} /\ g.cut \in [Nat -> Nat] /\ g.cut[a] = 0 /\ g.count \in Nat
      /\ \A j, k \in 0 .. g.count : j <= k => g.cut[j] <= g.cut[k]
  BY FirstType DEF StreamOK, Streams
<1>2. (L > 0 => a + L <= g.count) /\ D = [i \in 1 .. L |-> Piece(g, a + i - 1)]
  OBVIOUS
<1>3. FlattenSeq(D) = IF L = 0 THEN D ELSE flatten[L]
  BY DEF FlattenSeq
<1> HIDE DEF L, a, Round, flatten, w
<1>4. \A i \in 1 .. L :
        /\ a + i - 1 \in Nat /\ a + i \in Nat
        /\ g.cut[a + i - 1] \in Nat /\ g.cut[a + i] \in Nat
        /\ g.cut[a + i - 1] <= g.cut[a + i]
        /\ D[i] = Run(g.cut[a + i - 1], g.cut[a + i] - g.cut[a + i - 1])
  <2> TAKE i \in 1 .. L
  <2>0. /\ i \in Nat /\ 1 <= i /\ i <= L /\ a \in Nat /\ L \in Nat /\ a + L <= g.count
        /\ g.count \in Nat
    <3>1. a \in {0, 1} /\ L \in Nat /\ g.count \in Nat
      BY <1>1
    <3>2. i \in Nat /\ 1 <= i /\ i <= L
      BY <3>1
    <3>3. a + L <= g.count
      BY <1>2, <3>1, <3>2
    <3> QED
      BY <3>1, <3>2, <3>3
  <2>1. /\ a + i - 1 \in 0 .. g.count /\ a + i \in 0 .. g.count /\ a + i - 1 <= a + i
        /\ a + i - 1 + 1 = a + i
    BY <2>0
  <2>2. D[i] = Piece(g, a + i - 1)
    BY <1>2
  <2>3. Piece(g, a + i - 1) = Run(g.cut[a + i - 1], g.cut[a + i] - g.cut[a + i - 1])
    BY <2>1 DEF Piece, Run
  <2>4. a + i - 1 \in Nat /\ a + i \in Nat
    BY <2>0
  <2>5. /\ g.cut[a + i - 1] \in Nat /\ g.cut[a + i] \in Nat
        /\ g.cut[a + i - 1] <= g.cut[a + i]
    BY <1>1, <2>1, <2>4
  <2> QED
    BY <2>2, <2>3, <2>4, <2>5
<1>5. \A i \in 1 .. L : i # 1 =>
        Run(0, g.cut[a + i - 1]) \o D[i] = Run(0, g.cut[a + i])
  <2> SUFFICES ASSUME NEW i \in 1 .. L
               PROVE  Run(0, g.cut[a + i - 1]) \o D[i] = Run(0, g.cut[a + i])
    OBVIOUS
  <2> DEFINE x == g.cut[a + i - 1]
             y == g.cut[a + i]
  <2>1. x \in Nat /\ y \in Nat /\ y - x \in Nat /\ D[i] = Run(x, y - x)
    BY <1>4
  <2> HIDE DEF x, y
  <2>2. 0 \in Nat /\ 0 + x = x /\ x + (y - x) = y
    BY <2>1
  <2>3. Run(0, x) \o Run(0 + x, y - x) = Run(0, x + (y - x))
    BY <2>1, <2>2, RunJoin
  <2>4. Run(0, x) \o D[i] = Run(0, y)
    BY <2>1, <2>2, <2>3
  <2> QED
    BY <2>4 DEF x, y
<1>6. L # 0 => D[1] = Run(0, g.cut[a + 1])
  <2> SUFFICES ASSUME L # 0 PROVE D[1] = Run(0, g.cut[a + 1])
    OBVIOUS
  <2>1. 1 \in 1 .. L /\ a + 1 - 1 = a
    BY <1>1
  <2>2. D[1] = Run(g.cut[a], g.cut[a + 1] - g.cut[a]) /\ g.cut[a + 1] \in Nat
    BY <1>4, <2>1
  <2>3. g.cut[a] = 0
    BY <1>1
  <2>4. g.cut[a + 1] - 0 = g.cut[a + 1]
    BY <2>2
  <2> QED
    BY <2>2, <2>3, <2>4
<1>7. w = [i \in 1 .. L |-> Round(w, i)]
  <2>0. \A i \in 1 .. L : w[i] = Run(0, g.cut[a + i])
    BY DEF w
  <2>1. ASSUME NEW i \in 1 .. L PROVE w[i] = Round(w, i)
    <3>1. CASE i = 1
      <4>1. w[i] = D[i]
        BY <1>1, <1>6, <2>0, <3>1
      <4> QED
        BY <3>1, <4>1 DEF Round
    <3>2. CASE i # 1
      <4>1. i - 1 \in 1 .. L /\ a + (i - 1) = a + i - 1
        BY <1>1, <3>2
      <4>2. w[i - 1] = Run(0, g.cut[a + i - 1])
        BY <2>0, <4>1
      <4> QED
        BY <1>5, <2>0, <3>2, <4>2 DEF Round
    <3> QED
      BY <3>1, <3>2
  <2> QED
    BY <2>1 DEF w
<1>8. flatten = [i \in 1 .. L |-> Round(flatten, i)]
  BY <1>7 DEF flatten
<1> DEFINE Z == {0} \cup {i \in 1 .. L : flatten[i] = Run(0, g.cut[a + i])}
<1>9. \A i \in 1 .. L : i - 1 \in Z => i \in Z
  <2> SUFFICES ASSUME NEW i \in 1 .. L, i - 1 \in Z
               PROVE  flatten[i] = Run(0, g.cut[a + i])
    OBVIOUS
  <2>1. flatten[i] = Round(flatten, i)
    BY <1>8
  <2>2. CASE i = 1
    BY <1>6, <2>1, <2>2 DEF Round
  <2>3. CASE i # 1
    <3>1. i - 1 # 0 /\ a + (i - 1) = a + i - 1
      BY <1>1, <2>3
    <3>2. flatten[i - 1] = Run(0, g.cut[a + i - 1])
      BY <3>1
    <3> QED
      BY <1>5, <2>1, <2>3, <3>2 DEF Round
  <2> QED
    BY <2>2, <2>3
<1>10. 0 \in Z
  OBVIOUS
<1> HIDE DEF Z
<1>11. \A i \in 0 .. L : i \in Z
  BY <1>1, <1>9, <1>10, Flush!Rounds
<1>12. CASE L = 0
  <2>1. a + L = a /\ 1 .. L = {} /\ 1 .. 0 = {}
    BY <1>1, <1>12
  <2>2. D = [i \in {} |-> 0] /\ Run(0, 0) = [i \in {} |-> 0]
    BY <1>2, <2>1 DEF Run
  <2> QED
    BY <1>1, <1>3, <1>12, <2>1, <2>2 DEF L, a
<1>13. CASE L # 0
  <2>1. L \in Z /\ L # 0
    BY <1>1, <1>11, <1>13
  <2>2. flatten[L] = Run(0, g.cut[a + L])
    BY <2>1 DEF Z
  <2> QED
    BY <1>3, <1>13, <2>2 DEF L, a
<1> QED
  BY <1>12, <1>13

\* The end of what socket t has read of stream g of node n.
Mark(n, g, t) == g.cut[First(n) + Len(t.delivered)]

\* What socket t has read is the stream of n, up to the mark; s is the socket that
\* writes it.
LEMMA StreamRead ==
    ASSUME NEW n \in Nodes, NEW e, StreamOK(n, e), NEW s, s.wrote \in Nat,
           Sending(n, s, e, s.wrote), NEW t, SocketType(t), Receiving(n, t, e, s.fin_sent)
    PROVE  /\ FlattenSeq(t.delivered) = Run(0, Mark(n, e, t))
           /\ Mark(n, e, t) \in 0 .. s.wrote
<1> DEFINE D == t.delivered
<1>1. Mark(n, e, t) = e.cut[First(n) + Len(D)]
  BY DEF Mark
<1>2. Len(D) \in Nat
  BY LenProperties DEF SocketType
<1>3. /\ D = [i \in 1 .. Len(D) |-> Piece(e, First(n) + i - 1)]
      /\ Len(D) > 0 => First(n) + Len(D) <= e.next
  BY DEF Receiving
<1> DEFINE L == Len(D)
           a == First(n)
<1>4. /\ a \in {0, 1} /\ e.next \in Nat /\ e.count \in Nat /\ e.next <= e.count
      /\ e.cut \in [Nat -> Nat] /\ e.cut[a] = 0 /\ e.cut[e.count] = s.wrote
      /\ \A j, k \in 0 .. e.count : j <= k => e.cut[j] <= e.cut[k]
  BY FirstType DEF StreamOK, Streams, Sending
<1>5. L \in Nat /\ (L > 0 => a + L <= e.next) /\ Mark(n, e, t) = e.cut[a + L]
  BY <1>1, <1>2, <1>3
<1> HIDE DEF L, a, D
<1>6. L > 0 => a + L <= e.count
  BY <1>4, <1>5
<1>7. FlattenSeq(D) = Run(0, Mark(n, e, t))
  BY <1>1, <1>2, <1>3, <1>6, FlattenPieces DEF L, a
<1>8. Mark(n, e, t) \in 0 .. s.wrote
  <2>1. CASE L = 0
    BY <1>4, <1>5, <2>1
  <2>2. CASE L # 0
    <3>1. a + L \in 0 .. e.count /\ e.count \in 0 .. e.count
      BY <1>4, <1>5, <1>6, <2>2
    <3> QED
      BY <1>4, <1>5, <3>1
  <2> QED
    BY <2>1, <2>2
<1> QED
  BY <1>7, <1>8 DEF D

LEMMA ReadIs ==
    ASSUME ConnectionInv, NEW g \in [Nodes -> Streams], StreamBody(g), NEW n \in Nodes
    PROVE  /\ Read(Peer(n)) = Run(0, Mark(n, g[n], sock[Peer(n)]))
           /\ Mark(n, g[n], sock[Peer(n)]) \in 0 .. sock[n].wrote
<1>1. /\ StreamOK(n, g[n]) /\ Sending(n, sock[n], g[n], sock[n].wrote)
      /\ Receiving(n, sock[Peer(n)], g[n], sock[n].fin_sent)
  BY Zenon DEF StreamBody
<1>2. SocketType(sock[Peer(n)]) /\ SocketType(sock[n])
  BY PeerIsNode DEF ConnectionInv, SocketOK, SendOK
<1>3. sock[n].wrote \in Nat
  BY <1>2 DEF SocketType
<1> QED
  BY <1>1, <1>2, <1>3, StreamRead DEF Read

-----------------------------------------------------------------------------
(* fin_sent_acked: the FIN has been read *)

LEMMA FinAcked == StreamInv => FinAckedMeansReceived
<1> SUFFICES ASSUME StreamInv, NEW n \in Nodes, sock[n].fin_sent_acked
             PROVE  sock[Peer(n)].got_fin_reached
  BY DEF FinAckedMeansReceived
<1>1. PICK g \in [Nodes -> Streams] : StreamBody(g)
  BY DEF StreamInv
<1>2. /\ Sending(n, sock[n], g[n], sock[n].wrote)
      /\ Receiving(n, sock[Peer(n)], g[n], sock[n].fin_sent)
  BY <1>1, Zenon DEF StreamBody
<1>3. sock[n].fin_sent /\ g[n].next = g[n].count
  BY <1>2 DEF Sending
<1> QED
  BY <1>2, <1>3 DEF Receiving

\* fin_sent_acked_, which lets close destroy the socket, is only set when the peer
\* has reached the FIN and has everything that was written before it.
THEOREM FinAckedIsReceived ==
  ShortConnection => (Spec => []FinAckedMeansReceived)
<1>1. StreamInv => FinAckedMeansReceived
  BY FinAcked
<1> SUFFICES ASSUME ShortConnection PROVE Spec => []FinAckedMeansReceived
  OBVIOUS
<1>2. Spec => []StreamInv
  BY StreamsAreKept
<1> QED
  BY <1>1, <1>2, PTL

-----------------------------------------------------------------------------
(* No position is forgotten *)

\* The positions of a packet.
LEMMA PieceSet ==
    ASSUME NEW n, NEW g, StreamOK(n, g), NEW k \in 0 .. g.count - 1
    PROVE  ToSet(Piece(g, k)) = g.cut[k] + 1 .. g.cut[k + 1]
<1> DEFINE x == g.cut[k]
           y == g.cut[k + 1]
<1>1. x \in Nat /\ y \in Nat
  BY DEF StreamOK, Streams
<1>2. Piece(g, k) = [i \in 1 .. y - x |-> x + i]
  BY DEF Piece
<1> HIDE DEF x, y
<1>3. ToSet(Piece(g, k)) = {x + i : i \in 1 .. y - x}
  BY <1>2 DEF ToSet
<1>4. \A j \in x + 1 .. y : j - x \in 1 .. y - x /\ j = x + (j - x)
  BY <1>1
<1>5. \A i \in 1 .. y - x : x + i \in x + 1 .. y
  BY <1>1
<1>6. {x + i : i \in 1 .. y - x} = x + 1 .. y
  BY <1>4, <1>5
<1> QED
  BY <1>3, <1>6 DEF x, y

\* The packet a position is in.
LEMMA PieceOf ==
    ASSUME NEW n, NEW g, StreamOK(n, g), NEW i \in 1 .. g.cut[g.count]
    PROVE  \E k \in 0 .. g.count - 1 : i \in g.cut[k] + 1 .. g.cut[k + 1]
<1> DEFINE T == {j \in 0 .. g.count : i <= g.cut[j]}
<1>1. g.count \in Nat /\ g.cut \in [Nat -> Nat] /\ g.cut[0] = 0
  BY DEF StreamOK, Streams
<1>2. g.cut[g.count] \in Nat
  BY <1>1
<1>3. i \in Nat /\ 1 <= i /\ i <= g.cut[g.count]
  BY <1>2
<1>4. g.count \in T /\ T \in SUBSET Nat
  BY <1>1, <1>3
<1> HIDE DEF T
<1>5. PICK j \in T : \A y \in T : j <= y
  BY <1>4, Flush!Smallest
<1>6. j \in 0 .. g.count /\ i <= g.cut[j]
  BY DEF T
<1>7. j # 0
  BY <1>1, <1>3, <1>6
<1> DEFINE k == j - 1
<1>8. k \in 0 .. g.count - 1 /\ k + 1 = j /\ ~(j <= k) /\ k \in 0 .. g.count /\ k \in Nat /\ j \in Nat
  BY <1>1, <1>6, <1>7
<1> HIDE DEF k
<1>9. ~(i <= g.cut[k])
  BY <1>5, <1>8 DEF T
<1>10. g.cut[k] \in Nat /\ g.cut[j] \in Nat
  BY <1>1, <1>8
<1>11. i \in g.cut[k] + 1 .. g.cut[j]
  BY <1>3, <1>6, <1>9, <1>10
<1> QED
  BY <1>8, <1>11

\* What the receiver of stream g of node n has: m positions read, the other packets
\* in inbuf.
ReceiverKeeps(n, g, t, m) ==
  /\ \A q \in SeqNrs : t.inbuf[q] # NULL =>
       \E k \in g.has : q = No(n, k) /\ t.inbuf[q] = Piece(g, k)
  /\ \A k \in Behind(g) : t.inbuf[No(n, k)] # NULL
  /\ \A k \in g.has : k < g.next => g.cut[k + 1] <= m

\* Every end of a connection keeps what it has received and not yet read.
LEMMA ReceiverHas ==
    ASSUME ConnectionInv, NEW g \in [Nodes -> Streams], StreamBody(g), NEW n \in Nodes,
           Registered(sock[Peer(n)]), ~sock[Peer(n)].read_shutdown
    PROVE  ReceiverKeeps(n, g[n], sock[Peer(n)], Mark(n, g[n], sock[Peer(n)]))
<1> DEFINE t == sock[Peer(n)]
           e == g[n]
<1>1. StreamOK(n, e) /\ Receiving(n, t, e, sock[n].fin_sent) /\ Opening(g)
  BY Zenon DEF StreamBody
<1>2. CASE ~e.open
  <2>1. n = "B"
    <3>1. n = "A" => t.st # "UNINITIALIZED" /\ Peer(n) = "B"
      BY DEF Registered, Peer
    <3> QED
      BY <1>1, <1>2, <3>1 DEF Opening, Nodes
  <2>2. Unsynced(t)
    BY <1>1, <1>2, <2>1 DEF Opening, Peer
  <2>3. e.has = {}
    BY <1>1, <1>2 DEF StreamOK
  <2> HIDE DEF t, e
  <2>4. \A q \in SeqNrs : t.inbuf[q] = NULL
    BY <2>2 DEF Unsynced
  <2> QED
    BY <2>3, <2>4 DEF ReceiverKeeps, Behind, t, e
<1>3. CASE e.open
  <2>0. Registered(t) /\ ~t.read_shutdown
    OBVIOUS
  <2> HIDE DEF t, e
  <2>1. /\ \A q \in SeqNrs : t.inbuf[q] # NULL =>
             \E k \in e.has : q = No(n, k) /\ t.inbuf[q] = Piece(e, k)
        /\ \A k \in Behind(e) : t.inbuf[No(n, k)] # NULL
        /\ First(n) + Len(t.delivered) = e.next
    BY <1>1, <1>3, <2>0 DEF Receiving
  <2>2. /\ e.next \in Nat /\ e.count \in Nat /\ e.next <= e.count /\ e.has \subseteq 0 .. e.count - 1
        /\ \A j, k \in 0 .. e.count : j <= k => e.cut[j] <= e.cut[k]
    BY <1>1 DEF StreamOK, Streams
  <2>3. ASSUME NEW k \in e.has, k < e.next PROVE e.cut[k + 1] <= Mark(n, e, t)
    <3>1. k \in Nat
      BY <2>2
    <3>2. k + 1 \in 0 .. e.count /\ e.next \in 0 .. e.count /\ k + 1 <= e.next
      BY <2>2, <2>3, <3>1
    <3>3. Mark(n, e, t) = e.cut[e.next]
      BY <2>1 DEF Mark
    <3> QED
      BY <2>2, <3>2, <3>3
  <2> QED
    BY <2>1, <2>3 DEF ReceiverKeeps, t, e
<1> QED
  BY <1>2, <1>3

\* A packet of the stream is in outbuf, in inbuf of the peer, or was read there.
LEMMA DataKept == ShortConnection /\ ConnectionInv /\ StreamInv => NoDataLost
<1> SUFFICES ASSUME ShortConnection, ConnectionInv, StreamInv, NEW n \in Nodes,
                    Registered(sock[n]), Registered(sock[Peer(n)]), ~sock[Peer(n)].read_shutdown
             PROVE  LET s == sock[n]
                        t == sock[Peer(n)]
                        queued == UNION {ToSet(s.outbuf[q].data) : q \in {r \in SeqNrs : s.outbuf[r] # NULL}}
                    IN  1 .. s.wrote = queued \cup PositionsOf(t.inbuf) \cup ToSet(Read(Peer(n)))
  BY DEF NoDataLost
<1>1. PICK g \in [Nodes -> Streams] : StreamBody(g)
  BY DEF StreamInv
<1> DEFINE s == sock[n]
           t == sock[Peer(n)]
           e == g[n]
           m == Mark(n, e, t)
           queued == UNION {ToSet(s.outbuf[q].data) : q \in {r \in SeqNrs : s.outbuf[r] # NULL}}
           kept == PositionsOf(t.inbuf)
           read == ToSet(Read(Peer(n)))
<1>2. StreamOK(n, e) /\ Sending(n, s, e, s.wrote) /\ s.wrote <= MaxWrite[n]
  BY <1>1, Zenon DEF StreamBody
<1>3. SendOK(s) /\ Registered(s) /\ s.wrote \in Nat
  BY DEF ConnectionInv, SocketOK, SendOK, SocketType
<1>4. ReceiverKeeps(n, e, t, m)
  BY <1>1, ReceiverHas
<1>5. read = 1 .. m /\ m \in 0 .. s.wrote
  <2>1. Read(Peer(n)) = Run(0, m) /\ m \in 0 .. s.wrote
    BY <1>1, ReadIs
  <2> HIDE DEF m, s
  <2>2. m \in Nat
    BY <1>3, <2>1
  <2>3. \A i \in 1 .. m : 0 + i = i
    BY <2>2
  <2>4. ToSet(Run(0, m)) = {0 + i : i \in 1 .. m}
    BY DEF ToSet, Run
  <2>5. {0 + i : i \in 1 .. m} = 1 .. m
    BY <2>3
  <2> QED
    BY <2>1, <2>4, <2>5
<1> HIDE DEF s, t, e, m
<1>6. /\ e.count \in Nat /\ e.count < SEQ_MOD /\ e.cut[e.count] = s.wrote /\ e.cut \in [Nat -> Nat]
      /\ e.has \subseteq 0 .. e.count - 1 /\ e.next \in Nat /\ e.next \notin e.has
      /\ \A j, k \in 0 .. e.count : j <= k => e.cut[j] <= e.cut[k]
  <2>1. e.count \in Nat /\ e.count + 1 < SEQ_MOD
    BY <1>2, <1>3, CountBound
  <2>2. e.count < SEQ_MOD
    BY <2>1, SeqModAssumption
  <2> QED
    BY <1>2, <2>1, <2>2 DEF StreamOK, Streams, Sending
<1>7. \A k \in 0 .. e.count - 1 : /\ ToSet(Piece(e, k)) = e.cut[k] + 1 .. e.cut[k + 1]
                                  /\ ToSet(Piece(e, k)) \subseteq 1 .. s.wrote
  <2> TAKE k \in 0 .. e.count - 1
  <2>1. ToSet(Piece(e, k)) = e.cut[k] + 1 .. e.cut[k + 1]
    BY <1>2, PieceSet
  <2>2. k \in Nat /\ k + 1 \in 0 .. e.count /\ e.count \in 0 .. e.count /\ k + 1 <= e.count
    BY <1>6
  <2>3. e.cut[k] \in Nat /\ e.cut[k + 1] \in Nat /\ e.cut[k + 1] <= s.wrote
    BY <1>6, <2>2
  <2>4. e.cut[k] + 1 .. e.cut[k + 1] \subseteq 1 .. s.wrote
    BY <1>3, <2>3
  <2> QED
    BY <2>1, <2>4
<1>8. \A j, k \in 0 .. e.count : No(n, j) \in SeqNrs /\ (No(n, j) = No(n, k) => j = k)
  BY <1>6, SmallNumbers
<1>9. queued \subseteq 1 .. s.wrote
  <2> SUFFICES ASSUME NEW q \in SeqNrs, s.outbuf[q] # NULL
               PROVE  ToSet(s.outbuf[q].data) \subseteq 1 .. s.wrote
    OBVIOUS
  <2>1. PICK k \in 0 .. e.count - 1 : IsPacket(n, e, s.fin_sent, k, s.outbuf[q])
    BY <1>2, <1>3, SlotOfStream
  <2>2. s.outbuf[q].data = Piece(e, k)
    BY <2>1 DEF IsPacket
  <2> QED
    BY <1>7, <2>2
<1>10. kept \subseteq 1 .. s.wrote
  <2> SUFFICES ASSUME NEW q \in SeqNrs, t.inbuf[q] # NULL
               PROVE  ToSet(t.inbuf[q]) \subseteq 1 .. s.wrote
    BY DEF PositionsOf
  <2>1. PICK k \in e.has : t.inbuf[q] = Piece(e, k)
    BY <1>4 DEF ReceiverKeeps
  <2>2. k \in 0 .. e.count - 1
    BY <1>6
  <2> QED
    BY <1>7, <2>1, <2>2
<1>11. read \subseteq 1 .. s.wrote
  BY <1>3, <1>5
<1>12. ASSUME NEW i \in 1 .. s.wrote PROVE i \in queued \cup kept \cup read
  <2>1. PICK k \in 0 .. e.count - 1 : i \in e.cut[k] + 1 .. e.cut[k + 1]
    BY <1>2, <1>6, PieceOf
  <2>2. i \in ToSet(Piece(e, k)) /\ No(n, k) \in SeqNrs /\ k \in 0 .. e.count /\ k \in Nat
    <3>1. k \in 0 .. e.count /\ k \in Nat
      BY <1>6
    <3> QED
      BY <1>7, <1>8, <2>1, <3>1
  <2>3. CASE s.outbuf[No(n, k)] # NULL
    <3>1. IsPacket(n, e, s.fin_sent, k, s.outbuf[No(n, k)])
      BY <1>2, <1>3, <2>3 DEF Sending
    <3>2. s.outbuf[No(n, k)].data = Piece(e, k)
      BY <3>1 DEF IsPacket
    <3> QED
      BY <2>2, <2>3, <3>2
  <2>4. CASE s.outbuf[No(n, k)] = NULL
    <3>1. k \in e.has
      BY <1>2, <1>3, <2>4 DEF Sending
    <3>2. CASE k < e.next
      <4>1. e.cut[k + 1] <= m
        BY <1>4, <3>1, <3>2 DEF ReceiverKeeps
      <4>2. m \in Nat /\ e.cut[k] \in Nat /\ e.cut[k + 1] \in Nat
        <5>1. k + 1 \in Nat
          BY <2>2
        <5>2. m \in Nat
          BY <1>3, <1>5
        <5>3. e.cut[k] \in Nat /\ e.cut[k + 1] \in Nat
          BY <1>6, <2>2, <5>1
        <5> QED
          BY <5>2, <5>3
      <4>4. i \in Nat /\ 1 <= i /\ i <= e.cut[k + 1]
        BY <1>3, <2>1, <4>2
      <4>3. i \in 1 .. m
        BY <4>1, <4>2, <4>4
      <4> QED
        BY <1>5, <4>3
    <3>3. CASE ~(k < e.next)
      <4>1. k \in Behind(e)
        BY <1>6, <2>2, <3>1, <3>3 DEF Behind
      <4>2. t.inbuf[No(n, k)] # NULL
        BY <1>4, <4>1 DEF ReceiverKeeps
      <4>3. PICK j \in e.has : No(n, k) = No(n, j) /\ t.inbuf[No(n, k)] = Piece(e, j)
        BY <1>4, <2>2, <4>2 DEF ReceiverKeeps
      <4>4. j \in 0 .. e.count
        BY <1>6
      <4>5. j = k
        BY <1>8, <2>2, <4>3, <4>4
      <4> QED
        BY <2>2, <4>2, <4>3, <4>5 DEF PositionsOf
    <3> QED
      BY <3>2, <3>3
  <2> QED
    BY <2>3, <2>4
<1>13. 1 .. s.wrote = queued \cup kept \cup read
  <2> HIDE DEF queued, kept, read
  <2> QED
    BY <1>9, <1>10, <1>11, <1>12
<1> QED
  BY <1>13 DEF s, t

\* ack_packet only forgets what has arrived: every position that was accepted from
\* the application is in outbuf, in inbuf of the peer or was read by it.
THEOREM NoDataIsLost == ShortConnection => (Spec => []NoDataLost)
<1>1. ShortConnection /\ ConnectionInv /\ StreamInv => NoDataLost
  BY DataKept
<1> SUFFICES ASSUME ShortConnection PROVE Spec => []NoDataLost
  OBVIOUS
<1>2. Spec => []ConnectionInv
  BY ConnectionIsConsistent
<1>3. Spec => []StreamInv
  BY StreamsAreKept
<1>4. ConnectionInv /\ StreamInv => NoDataLost
  BY <1>1
<1> QED
  BY <1>2, <1>3, <1>4, PTL

-----------------------------------------------------------------------------
(* The abstract specification: what reading and writing look like *)

\* Everything has been read when the end of the stream was reached.
LEMMA AllRead ==
    ASSUME NEW n \in Nodes, NEW e, StreamOK(n, e), NEW s, Sending(n, s, e, s.wrote),
           NEW t, SocketType(t), Receiving(n, t, e, s.fin_sent),
           t.got_fin_reached
    PROVE  s.fin_sent /\ (Registered(t) /\ ~t.read_shutdown => Mark(n, e, t) = s.wrote)
<1>1. /\ e.cut[e.count] = s.wrote /\ (s.fin_sent => e.count > First(n))
      /\ s.fin_sent /\ e.next = e.count
  BY DEF Sending, Receiving
<1>2. First(n) \in {0, 1} /\ e.count \in Nat /\ e.open \in BOOLEAN /\ (~e.open => e.next = 0)
  BY FirstType DEF StreamOK, Streams
<1>3. e.open
  BY <1>1, <1>2
<1>4. Registered(t) /\ ~t.read_shutdown => First(n) + Len(t.delivered) = e.next
  BY <1>3 DEF Receiving
<1> QED
  BY <1>1, <1>4 DEF Mark

\* What was read before is the beginning of what has been read.
LEMMA EarlierRead ==
    ASSUME NEW n \in Nodes, NEW e, StreamOK(n, e), NEW t, SocketType(t), NEW fin,
           Receiving(n, t, e, fin), NEW r, SocketType(r),
           Continues(r.delivered, t.delivered)
    PROVE  /\ FlattenSeq(r.delivered) = Run(0, Mark(n, e, r))
           /\ Mark(n, e, r) \in Nat /\ Mark(n, e, t) \in Nat /\ Mark(n, e, r) <= Mark(n, e, t)
<1> DEFINE D == t.delivered
           C == r.delivered
           L == Len(D)
           M == Len(C)
           a == First(n)
<1>1. L \in Nat /\ M \in Nat /\ C \in Seq(Seq(Nat))
  BY LenProperties DEF SocketType
<1>2. D = [i \in 1 .. L |-> Piece(e, a + i - 1)] /\ (L > 0 => a + L <= e.next)
  BY DEF Receiving
<1>3. M <= L /\ \A i \in 1 .. M : C[i] = D[i]
  BY DEF Continues
<1>4. /\ a \in {0, 1} /\ e.next \in Nat /\ e.count \in Nat /\ e.next <= e.count
      /\ e.cut \in [Nat -> Nat] /\ \A j, k \in 0 .. e.count : j <= k => e.cut[j] <= e.cut[k]
  BY FirstType DEF StreamOK, Streams
<1>5. Mark(n, e, r) = e.cut[a + M] /\ Mark(n, e, t) = e.cut[a + L]
  BY DEF Mark
<1>6. Len(C) = M
  OBVIOUS
<1> HIDE DEF D, L, M, a
<1>7. C = [i \in 1 .. M |-> Piece(e, a + i - 1)]
  <2>1. C = [i \in 1 .. M |-> C[i]]
    BY <1>1, <1>6, LenProperties
  <2>2. \A i \in 1 .. M : i \in 1 .. L
    BY <1>1, <1>3
  <2>3. \A i \in 1 .. M : C[i] = Piece(e, a + i - 1)
    BY <1>2, <1>3, <2>2
  <2> QED
    BY <2>1, <2>3
<1> HIDE DEF C
<1> DEFINE x == e.next
           y == e.count
<1>8. /\ M > 0 => a + M <= e.count
      /\ a + M \in Nat /\ a + L \in Nat /\ a + M <= a + L /\ (L > 0 => a + L <= e.count)
  <2>1. /\ a \in {0, 1} /\ x \in Nat /\ y \in Nat /\ x <= y /\ L \in Nat /\ M \in Nat
        /\ M <= L /\ (L > 0 => a + L <= x)
    BY <1>1, <1>2, <1>3, <1>4
  <2> HIDE DEF x, y
  <2>2. /\ M > 0 => a + M <= y
        /\ a + M \in Nat /\ a + L \in Nat /\ a + M <= a + L /\ (L > 0 => a + L <= y)
    BY <2>1
  <2> QED
    BY <2>2 DEF y
<1> HIDE DEF x, y
<1>9. FlattenSeq(C) = Run(0, e.cut[a + M])
  BY <1>1, <1>6, <1>7, <1>8, FlattenPieces DEF a
<1>10. e.cut[a + M] \in Nat /\ e.cut[a + L] \in Nat /\ e.cut[a + M] <= e.cut[a + L]
  <2>1. a + M \in Nat /\ a + L \in Nat /\ a + M <= a + L /\ (L > 0 => a + L <= e.count)
    BY <1>8
  <2>2. CASE L > 0
    <3>1. a + M \in 0 .. e.count /\ a + L \in 0 .. e.count
      BY <1>4, <2>1, <2>2
    <3> QED
      BY <1>4, <2>1, <3>1
  <2>3. CASE ~(L > 0)
    <3>1. a + M = a + L
      BY <1>1, <1>3, <1>4, <2>3
    <3> QED
      BY <1>4, <2>1, <3>1
  <2> QED
    BY <2>2, <2>3
<1> QED
  BY <1>5, <1>9, <1>10 DEF C

\* Socket s of node m writes a stream that socket t reads.
Carries(m, s, t) ==
  \E g : StreamOK(m, g) /\ Sending(m, s, g, s.wrote) /\ Receiving(m, t, g, s.fin_sent)

\* Reading: nothing after the end, nor after a shutdown, and the end comes after
\* everything that was written.
LEMMA ReadingIs ==
    ASSUME NEW m \in Nodes, NEW s, s.wrote \in Nat, NEW r, SocketType(r), NEW t, SocketType(t),
           Carries(m, s, r), Carries(m, s, t), Reads(r, t)
    PROVE  \E j \in Nat, k \in Nat :
             /\ j <= k /\ k <= s.wrote
             /\ FlattenSeq(r.delivered) = Run(0, j) /\ FlattenSeq(t.delivered) = Run(0, k)
             /\ k > j => ~r.got_fin_reached /\ ~r.read_shutdown
             /\ (t.got_fin_reached /\ ~r.got_fin_reached) =>
                  s.fin_sent /\ (r.read_shutdown \/ k = s.wrote)
<1>1. PICK g : StreamOK(m, g) /\ Sending(m, s, g, s.wrote) /\ Receiving(m, r, g, s.fin_sent)
  BY DEF Carries
<1>2. PICK h : StreamOK(m, h) /\ Sending(m, s, h, s.wrote) /\ Receiving(m, t, h, s.fin_sent)
  BY DEF Carries
<1> DEFINE i == Mark(m, g, r)
           j == Mark(m, h, r)
           k == Mark(m, h, t)
<1>3. FlattenSeq(r.delivered) = Run(0, i) /\ i \in 0 .. s.wrote
  BY <1>1, StreamRead
<1>4. FlattenSeq(t.delivered) = Run(0, k) /\ k \in 0 .. s.wrote
  BY <1>2, StreamRead
<1>5. FlattenSeq(r.delivered) = Run(0, j) /\ j \in Nat /\ j <= k
  BY <1>2, EarlierRead DEF Reads, ReadsOn
<1>6. r.got_fin_reached /\ ~r.read_shutdown => i = s.wrote
  BY <1>1, AllRead DEF Reads
<1>7. t.got_fin_reached => s.fin_sent /\ (~t.read_shutdown => k = s.wrote)
  BY <1>2, AllRead DEF Reads
<1>8. t.read_shutdown = r.read_shutdown /\ (r.read_shutdown => j = k)
  BY DEF Reads, ReadsOn, Mark
<1> HIDE DEF i, j, k
<1>9. i = j
  <2>1. 0 \in Nat /\ i \in Nat
    BY <1>3
  <2>2. Len(Run(0, i)) = i /\ Len(Run(0, j)) = j
    BY <1>5, <2>1, RunType
  <2> QED
    BY <1>3, <1>5, <2>2
<1>10. k \in Nat /\ k <= s.wrote
  BY <1>4
<1>11. k > j => ~r.got_fin_reached /\ ~r.read_shutdown
  <2>1. r.read_shutdown => ~(k > j)
    BY <1>5, <1>8, <1>10
  <2>2. r.got_fin_reached /\ ~r.read_shutdown => ~(k > j)
    BY <1>5, <1>6, <1>9, <1>10
  <2> QED
    BY <2>1, <2>2
<1> QED
  BY <1>4, <1>5, <1>7, <1>8, <1>10, <1>11

\* A call at one node, as the abstract specification sees it.
LEMMA StreamStep ==
    ASSUME ConnectionInv, StreamInv, ConnectionInv', StreamInv', NEW n \in Nodes,
           NEW t, SocketType(t), sock' = [sock EXCEPT ![n] = [t EXCEPT !.out = {}]],
           Acts(sock[n], t)
    PROVE  [Stream!Next]_(Stream!vars)
<1> DEFINE s == sock[n]
           v == [t EXCEPT !.out = {}]
           W == [i \in Nodes |-> sock[i].wrote]
           E == [i \in Nodes |-> sock[i].fin_sent]
           R == [i \in Nodes |-> Read(i)]
           D == [i \in Nodes |-> sock[i].read_shutdown]
           F == [i \in Nodes |-> sock[i].got_fin_reached]
<1>1. \A i \in Nodes : SocketType(sock[i]) /\ SocketType(sock'[i])
  BY DEF ConnectionInv, SocketOK, SendOK
<1>2. DOMAIN sock = Nodes
  BY DEF ConnectionInv
<1>3. /\ v.wrote = t.wrote /\ v.fin_sent = t.fin_sent /\ v.delivered = t.delivered
      /\ v.read_shutdown = t.read_shutdown /\ v.got_fin_reached = t.got_fin_reached
      /\ v.st = t.st
  BY DEF SocketType, Fields
<1> HIDE DEF v
<1>4. sock'[n] = v /\ \A i \in Nodes \ {n} : sock'[i] = sock[i]
  BY <1>2 DEF v
<1>5. /\ W' = [W EXCEPT ![n] = t.wrote] /\ E' = [E EXCEPT ![n] = t.fin_sent]
      /\ D' = [D EXCEPT ![n] = t.read_shutdown] /\ F' = [F EXCEPT ![n] = t.got_fin_reached]
      /\ R' = [R EXCEPT ![n] = FlattenSeq(t.delivered)]
  <2>1. \A i \in Nodes :
          /\ sock'[i].wrote = IF i = n THEN t.wrote ELSE sock[i].wrote
          /\ sock'[i].fin_sent = IF i = n THEN t.fin_sent ELSE sock[i].fin_sent
          /\ sock'[i].read_shutdown = IF i = n THEN t.read_shutdown ELSE sock[i].read_shutdown
          /\ sock'[i].got_fin_reached =
               IF i = n THEN t.got_fin_reached ELSE sock[i].got_fin_reached
          /\ sock'[i].delivered = IF i = n THEN t.delivered ELSE sock[i].delivered
    BY <1>3, <1>4
  <2>2. W' = [W EXCEPT ![n] = t.wrote]
    BY <2>1
  <2>3. E' = [E EXCEPT ![n] = t.fin_sent]
    BY <2>1
  <2>4. D' = [D EXCEPT ![n] = t.read_shutdown]
    BY <2>1
  <2>5. F' = [F EXCEPT ![n] = t.got_fin_reached]
    BY <2>1
  <2>6. R' = [R EXCEPT ![n] = FlattenSeq(t.delivered)]
    <3>1. /\ R = [i \in Nodes |-> FlattenSeq(sock[i].delivered)]
          /\ R' = [i \in Nodes |-> FlattenSeq(sock'[i].delivered)]
      BY DEF Read
    <3>2. \A i \in Nodes : FlattenSeq(sock'[i].delivered) =
                           IF i = n THEN FlattenSeq(t.delivered) ELSE FlattenSeq(sock[i].delivered)
      BY <2>1
    <3> HIDE DEF R
    <3> QED
      BY <3>1, <3>2
  <2> QED
    BY <2>2, <2>3, <2>4, <2>5, <2>6
<1>6. /\ W[n] = s.wrote /\ E[n] = s.fin_sent /\ D[n] = s.read_shutdown
      /\ F[n] = s.got_fin_reached /\ R[n] = FlattenSeq(s.delivered)
      /\ W[Peer(n)] = sock[Peer(n)].wrote /\ E[Peer(n)] = sock[Peer(n)].fin_sent
  BY PeerIsNode DEF Read
<1>7. /\ W \in [Nodes -> Nat] /\ W' \in [Nodes -> Nat] /\ t.wrote \in Nat /\ s.wrote \in Nat
      /\ E \in [Nodes -> BOOLEAN] /\ D \in [Nodes -> BOOLEAN] /\ F \in [Nodes -> BOOLEAN]
      /\ R = [i \in Nodes |-> R[i]]
  BY <1>1 DEF SocketType
<1>8. /\ Stream!Write(n) <=> /\ ~E[n] /\ W' \in [Nodes -> Nat] /\ W'[n] > W[n]
                             /\ (\A m \in Nodes \ {n} : W'[m] = W[m])
                             /\ E' = E /\ R' = R /\ D' = D /\ F' = F
      /\ Stream!Shutdown(n) <=> /\ E' \in {E, [E EXCEPT ![n] = TRUE]}
                                /\ D' \in {D, [D EXCEPT ![n] = TRUE]}
                                /\ W' = W /\ R' = R /\ F' = F
      /\ Stream!vars' = Stream!vars <=> W' = W /\ E' = E /\ R' = R /\ D' = D /\ F' = F
  BY DEF Stream!Write, Stream!Shutdown, Stream!vars
<1>9. Stream!Read(n) <=>
        \E k \in Len(R[n]) .. W[Peer(n)], e \in {F[n], TRUE} :
          /\ k > Len(R[n]) => ~F[n] /\ ~D[n]
          /\ (e /\ ~F[n]) => E[Peer(n)] /\ (D[n] \/ k = W[Peer(n)])
          /\ R' = [R EXCEPT ![n] = [i \in 1 .. k |-> i]]
          /\ F' = [F EXCEPT ![n] = e]
          /\ W' = W /\ E' = E /\ D' = D
  BY DEF Stream!Read
<1> HIDE DEF W, E, R, D, F
<1>10. /\ t.wrote = W[n] => W' = W
       /\ t.fin_sent = E[n] => E' = E
       /\ t.read_shutdown = D[n] => D' = D
       /\ t.got_fin_reached = F[n] => F' = F
       /\ FlattenSeq(t.delivered) = R[n] => R' = R
  <2>1. t.wrote = W[n] => W' = W
    BY <1>5, <1>7
  <2>2. t.fin_sent = E[n] => E' = E
    BY <1>5, <1>7
  <2>3. t.read_shutdown = D[n] => D' = D
    BY <1>5, <1>7
  <2>4. t.got_fin_reached = F[n] => F' = F
    BY <1>5, <1>7
  <2>5. FlattenSeq(t.delivered) = R[n] => R' = R
    <3> SUFFICES ASSUME FlattenSeq(t.delivered) = R[n] PROVE R' = R
      OBVIOUS
    <3>1. R' = [R EXCEPT ![n] = R[n]]
      BY <1>5
    <3> QED
      BY <1>7, <3>1
  <2> QED
    BY <2>1, <2>2, <2>3, <2>4, <2>5
<1>11. CASE Accepts(s, t)
  <2>1. /\ ~E[n] /\ W[n] <= t.wrote /\ t.fin_sent = E[n] /\ t.read_shutdown = D[n]
        /\ t.got_fin_reached = F[n] /\ FlattenSeq(t.delivered) = R[n]
    BY <1>6, <1>11 DEF Accepts
  <2>2. E' = E /\ R' = R /\ D' = D /\ F' = F
    BY <1>10, <2>1
  <2>3. W'[n] = t.wrote /\ \A m \in Nodes \ {n} : W'[m] = W[m]
    BY <1>5, <1>7
  <2>4. CASE t.wrote = W[n]
    <3>1. W' = W
      BY <1>5, <1>7, <2>4
    <3>2. UNCHANGED Stream!vars
      BY <1>8, <2>2, <3>1
    <3> QED
      BY <3>2
  <2>5. CASE t.wrote # W[n]
    <3>1. W'[n] > W[n]
      BY <1>6, <1>7, <2>1, <2>3, <2>5
    <3>2. Stream!Write(n)
      BY <1>7, <1>8, <2>1, <2>2, <2>3, <3>1
    <3> QED
      BY <3>2 DEF Stream!Next
  <2> QED
    BY <2>4, <2>5
<1>12. CASE Shuts(s, t)
  <2>1. /\ t.wrote = W[n] /\ (E[n] => t.fin_sent) /\ (D[n] => t.read_shutdown)
        /\ t.got_fin_reached = F[n] /\ FlattenSeq(t.delivered) = R[n]
    BY <1>6, <1>12 DEF Shuts
  <2>2. t.fin_sent \in BOOLEAN /\ t.read_shutdown \in BOOLEAN
    BY DEF SocketType
  <2>3. W' = W /\ R' = R /\ F' = F
    BY <1>10, <2>1
  <2>4. E' \in {E, [E EXCEPT ![n] = TRUE]} /\ D' \in {D, [D EXCEPT ![n] = TRUE]}
    <3>1. E[n] \in BOOLEAN /\ D[n] \in BOOLEAN
      BY <1>7
    <3>2. (t.fin_sent = E[n] \/ t.fin_sent = TRUE) /\ (t.read_shutdown = D[n] \/ t.read_shutdown = TRUE)
      BY <2>1, <2>2, <3>1
    <3>3. E' = E \/ E' = [E EXCEPT ![n] = TRUE]
      BY <1>5, <1>7, <3>2
    <3>4. D' = D \/ D' = [D EXCEPT ![n] = TRUE]
      BY <1>5, <1>7, <3>2
    <3> QED
      BY <3>3, <3>4
  <2>5. Stream!Shutdown(n)
    BY <1>8, <2>3, <2>4
  <2> QED
    BY <2>5 DEF Stream!Next
<1>13. CASE Reads(s, t)
  <2> DEFINE m == Peer(n)
             u == sock[m]
  <2>1. m \in Nodes /\ Peer(m) = n /\ m # n
    BY PeerIsNode DEF Nodes, Peer
  <2>2. Carries(m, u, s)
    BY <2>1, Zenon DEF StreamInv, StreamBody, Carries
  <2>3. Carries(m, u, v)
    <3>1. PICK g \in [Nodes -> Streams] :
            /\ StreamOK(m, g[m]) /\ Sending(m, sock'[m], g[m], sock'[m].wrote)
            /\ Receiving(m, sock'[Peer(m)], g[m], sock'[m].fin_sent)
      BY <2>1, Zenon DEF StreamInv, StreamBody
    <3>2. sock'[m] = u /\ sock'[Peer(m)] = v
      BY <1>4, <2>1
    <3> QED
      BY <3>1, <3>2 DEF Carries
  <2>4. SocketType(u) /\ SocketType(s) /\ SocketType(v) /\ u.wrote \in Nat
    <3>1. SocketType(u) /\ SocketType(s) /\ SocketType(v)
      BY <1>1, <1>4, <2>1
    <3> HIDE DEF u
    <3>2. u.wrote \in Nat
      BY <3>1 DEF SocketType
    <3> QED
      BY <3>1, <3>2
  <2>5. Reads(s, v)
    BY <1>3, <1>13 DEF Reads, ReadsOn, Registered
  <2> HIDE DEF m, u, s
  <2>6. PICK j \in Nat, k \in Nat :
          /\ j <= k /\ k <= u.wrote
          /\ FlattenSeq(s.delivered) = Run(0, j) /\ FlattenSeq(v.delivered) = Run(0, k)
          /\ k > j => ~s.got_fin_reached /\ ~s.read_shutdown
          /\ (v.got_fin_reached /\ ~s.got_fin_reached) =>
               u.fin_sent /\ (s.read_shutdown \/ k = u.wrote)
    BY <2>1, <2>2, <2>3, <2>4, <2>5, ReadingIs
  <2>7. /\ R[n] = Run(0, j) /\ Len(R[n]) = j /\ W[m] = u.wrote /\ E[m] = u.fin_sent
        /\ F[n] = s.got_fin_reached /\ D[n] = s.read_shutdown /\ W[n] = t.wrote
        /\ E[n] = t.fin_sent /\ D[n] = t.read_shutdown
    <3>1. 0 \in Nat /\ Len(Run(0, j)) = j
      BY <2>6, RunType
    <3>2. /\ W[m] = u.wrote /\ E[m] = u.fin_sent /\ R[n] = FlattenSeq(s.delivered)
          /\ F[n] = s.got_fin_reached /\ D[n] = s.read_shutdown /\ W[n] = s.wrote
          /\ E[n] = s.fin_sent
      BY <1>6 DEF m, u, s
    <3>3. t.wrote = s.wrote /\ t.fin_sent = s.fin_sent /\ t.read_shutdown = s.read_shutdown
      BY <1>13 DEF Reads, ReadsOn, s
    <3> QED
      BY <2>6, <3>1, <3>2, <3>3
  <2>8. Run(0, k) = [i \in 1 .. k |-> i]
    BY DEF Run
  <2>9. R' = [R EXCEPT ![n] = [i \in 1 .. k |-> i]] /\ F' = [F EXCEPT ![n] = t.got_fin_reached]
    BY <1>3, <1>5, <2>6, <2>8
  <2>10. W' = W /\ E' = E /\ D' = D
    BY <1>10, <2>7
  <2>11. k \in Len(R[n]) .. W[m]
    BY <2>4, <2>6, <2>7
  <2>12. t.got_fin_reached \in {F[n], TRUE}
    <3>1. t.got_fin_reached \in BOOLEAN /\ s.got_fin_reached \in BOOLEAN
      BY <2>4 DEF SocketType
    <3>2. s.got_fin_reached => t.got_fin_reached
      BY <1>13 DEF Reads, ReadsOn, s
    <3> QED
      BY <2>7, <3>1, <3>2
  <2>13. /\ k > Len(R[n]) => ~F[n] /\ ~D[n]
         /\ (t.got_fin_reached /\ ~F[n]) => E[m] /\ (D[n] \/ k = W[m])
    BY <1>3, <2>6, <2>7
  <2>14. Stream!Read(n)
    BY <1>9, <2>9, <2>10, <2>11, <2>12, <2>13 DEF m
  <2> QED
    BY <2>14 DEF Stream!Next
<1> QED
  BY <1>11, <1>12, <1>13 DEF Acts

-----------------------------------------------------------------------------
(* The abstract specification: every step of the connection *)

\* A step in which a call at one node ends.
OneCall ==
  \E n \in Nodes : \E t :
    /\ SocketType(t) /\ sock' = [sock EXCEPT ![n] = [t EXCEPT !.out = {}]]
    /\ Acts(sock[n], t)

\* A call of the connection that acts on the abstract streams is one step of theirs.
LEMMA CommitActs ==
    ASSUME NEW n \in Nodes, NEW t, NEW R, Commit(n, t, R), SocketOK(t), Acts(sock[n], t)
    PROVE  OneCall
  BY DEF Commit, OneCall, SocketOK, SendOK

\* A call that accepts no data from the application.
LEMMA CallsActs ==
    ASSUME NEW n, NEW s, NEW g, NEW t, t.wrote = s.wrote, \E h : Calls(n, s, g, t, h)
    PROVE  Shuts(s, t) /\ Acts(s, t)
  BY DEF Calls, Extends, Hears, Shuts, Acts

\* A socket whose node has not done anything yet.
LEMMA FirstActs ==
    ASSUME NEW t, SocketType(t), t.wrote = 0, ~t.fin_sent, t.delivered = <<>>,
           ~t.got_fin_reached
    PROVE  Acts(NewSocket, t)
<1>1. /\ NewSocket.wrote = 0 /\ NewSocket.fin_sent = FALSE /\ NewSocket.delivered = <<>>
      /\ NewSocket.got_fin_reached = FALSE /\ NewSocket.read_shutdown = FALSE
  BY DEF NewSocket
<1>2. t.got_fin_reached = FALSE
  BY DEF SocketType
<1> QED
  BY <1>1, <1>2 DEF Shuts, Acts

\* A socket that has been destroyed keeps what the applications know of it.
LEMMA DestroyedActs ==
    ASSUME NEW s, NEW t, Shuts(s, t)
    PROVE  Acts(s, [Destroyed(t) EXCEPT !.out = t.out])
<1> DEFINE new == NewSocket
           out == t.out
           x == [new EXCEPT !.st = "GONE", !.closed = t.closed, !.err = t.err,
                            !.delivered = t.delivered, !.wrote = t.wrote,
                            !.fin_sent = t.fin_sent, !.fin_sent_acked = t.fin_sent_acked,
                            !.got_fin_reached = t.got_fin_reached,
                            !.read_shutdown = t.read_shutdown]
           d == [x EXCEPT !.out = out]
<1>1. DOMAIN new = Fields
  BY NewSocketOK DEF SocketType
<1>2. [Destroyed(t) EXCEPT !.out = t.out] = d
  BY DEF Destroyed
<1> HIDE DEF new, out
<1>3. /\ DOMAIN x = Fields /\ x.delivered = t.delivered /\ x.wrote = t.wrote
      /\ x.fin_sent = t.fin_sent /\ x.got_fin_reached = t.got_fin_reached
      /\ x.read_shutdown = t.read_shutdown
  BY <1>1 DEF Fields
<1> HIDE DEF x
<1>4. /\ d.delivered = t.delivered /\ d.wrote = t.wrote /\ d.fin_sent = t.fin_sent
      /\ d.got_fin_reached = t.got_fin_reached /\ d.read_shutdown = t.read_shutdown
  BY <1>3 DEF Fields
<1> HIDE DEF d
<1> QED
  BY <1>2, <1>4 DEF Shuts, Acts

\* What the application does, the deferred ACKs and ICMP errors.
LEMMA ApplicationActs ==
    ASSUME ShortConnection, ConnectionInv, NEW g \in [Nodes -> Streams], StreamBody(g),
           NEW n \in Nodes, Application(n) \/ IssueDeferredAcks(n) \/ IcmpError(n)
    PROVE  OneCall
<1> DEFINE s == sock[n]
<1>1. SocketOK(s)
  BY DEF ConnectionInv
<1>2. Registered(s) => Steady(n, s, g[n])
  BY SteadyNow
<1>3. ASSUME NEW k \in WriteSizes, AppWrite(n, k)
      PROVE  OneCall
  <2> DEFINE u == Write(s, k)
  <2>1. /\ Commit(n, u, {}) /\ Registered(s) /\ s.st = "CONNECTED" /\ ~s.fin_sent
        /\ s.wrote + k <= MaxWrite[n]
    BY <1>3 DEF AppWrite, Owns
  <2>2. k \in Nat /\ k \in Nat \ {0} /\ SendOK(s)
    BY <1>1, ConnectionAssumption DEF SocketOK
  <2>3. SocketOK(u)
    BY <1>1, <2>2, WriteOK
  <2>4. Open(n, s, g[n], s.wrote)
    BY <1>2, <2>1 DEF Steady
  <2>5. \E h : Queues(n, s, g[n], u, h, u.wrote)
    BY <2>1, <2>2, <2>4, WriteQueues
  <2>6. s.wrote <= u.wrote /\ u.fin_sent = s.fin_sent
    BY <2>2, WriteSends DEF Writes
  <2> HIDE DEF u
  <2>7. Acts(s, u)
    BY <2>1, <2>5, <2>6 DEF Queues, SameReading, Accepts, Acts
  <2> QED
    BY <2>1, <2>3, <2>7, CommitActs
<1>4. CASE AppClose(n)
  <2> DEFINE u == Close(s)
  <2>1. Commit(n, u, {}) /\ Registered(s)
    BY <1>4 DEF AppClose, Owns
  <2>2. SocketOK(u)
    BY <1>1, CloseOK
  <2>3. u.wrote = s.wrote /\ \E h : Calls(n, s, g[n], u, h)
    BY <1>2, <2>1, CloseCalls
  <2> HIDE DEF u
  <2>4. Acts(s, u)
    BY <2>3, CallsActs
  <2> QED
    BY <2>1, <2>2, <2>4, CommitActs
<1>5. ASSUME NEW how, AppShutdown(n, how)
      PROVE  OneCall
  <2> DEFINE u == Shutdown(s, how)
  <2>1. Commit(n, u, {}) /\ Registered(s)
    BY <1>5 DEF AppShutdown, Owns
  <2>2. SocketOK(u)
    BY <1>1, ShutdownOK
  <2>3. u.wrote = s.wrote /\ \E h : Calls(n, s, g[n], u, h)
    BY <1>2, <2>1, ShutdownCalls
  <2> HIDE DEF u
  <2>4. Acts(s, u)
    BY <2>3, CallsActs
  <2> QED
    BY <2>1, <2>2, <2>4, CommitActs
<1>6. CASE AppReadDrained(n)
  <2> DEFINE u == ReadDrained(s)
  <2>1. Commit(n, u, {}) /\ Registered(s) /\ s.unread > 0
    BY <1>6 DEF AppReadDrained, Owns
  <2>2. SocketOK(u)
    BY <1>1, ReadDrainedOK
  <2>3. u.wrote = s.wrote /\ Calls(n, s, g[n], u, g[n])
    BY <1>2, <2>1, ReadDrainedCalls
  <2> HIDE DEF u
  <2>4. Acts(s, u)
    BY <2>3, CallsActs
  <2> QED
    BY <2>1, <2>2, <2>4, CommitActs
<1>7. CASE IssueDeferredAcks(n)
  <2> DEFINE u == SendAck(s)
  <2>1. Commit(n, u, {}) /\ Registered(s) /\ s.ack_pending
    BY <1>7 DEF IssueDeferredAcks
  <2>2. SendOK(u) /\ Keeps(s, u)
    BY <1>1, SendAckKeeps DEF SocketOK
  <2>3. Calls(n, s, g[n], u, g[n])
    BY <1>2, <2>1, SendAckCalls
  <2> HIDE DEF u, s
  <2>4. SocketOK(u)
    BY <1>1, <2>2, KeepsOK
  <2>5. Acts(s, u)
    BY <2>2, <2>3, CallsActs DEF Keeps
  <2> QED
    BY <2>1, <2>4, <2>5, CommitActs DEF s
<1>8. CASE IcmpError(n)
  <2> DEFINE u == OnIcmpError(s)
  <2>1. Commit(n, u, {}) /\ Registered(s)
    BY <1>8 DEF IcmpError
  <2>2. SocketOK(u)
    BY <1>1, ErrorOK
  <2>3. u.wrote = s.wrote /\ Calls(n, s, g[n], u, g[n])
    BY <1>2, <2>1, ErrorCalls
  <2> HIDE DEF u
  <2>4. Acts(s, u)
    BY <2>3, CallsActs
  <2> QED
    BY <2>1, <2>2, <2>4, CommitActs
<1> QED
  BY <1>3, <1>4, <1>5, <1>6, <1>7, <1>8 DEF Application

\* check_timeouts of a context.
LEMMA TimeoutsActs ==
    ASSUME ShortConnection, ConnectionInv, NEW g \in [Nodes -> Streams], StreamBody(g),
           NEW n \in Nodes, NEW t, NEW expired, ContextCheckTimeouts(n, t, expired)
    PROVE  OneCall
<1> DEFINE r == sock[n]
           s == CheckTimeouts(r, t)
           d == [Destroyed(s) EXCEPT !.out = s.out]
<1>1. SocketOK(r)
  BY DEF ConnectionInv
<1>2. CASE Registered(r)
  <2>1. Commit(n, IF s.st = "DESTROY" THEN d ELSE s, {})
    BY <1>2 DEF ContextCheckTimeouts
  <2>2. s.wrote = r.wrote /\ Calls(n, r, g[n], s, g[n])
    BY <1>1, <1>2, SteadyNow, CheckTimeoutsCalls
  <2>3. SocketOK(s)
    BY <1>1, CheckTimeoutsOK
  <2> HIDE DEF s
  <2>4. SocketOK(d)
    BY <2>3, DestroyedOK
  <2>5. Shuts(r, s) /\ Acts(r, s)
    BY <2>2, CallsActs
  <2>6. Acts(r, d)
    BY <2>5, DestroyedActs
  <2> HIDE DEF d
  <2> QED
    BY <2>1, <2>3, <2>4, <2>5, <2>6, CommitActs
<1>3. CASE ~Registered(r)
  <2>1. r.st # "DESTROY"
    BY <1>3 DEF Registered
  <2>2. Commit(n, r, {})
    BY <1>3, <2>1 DEF ContextCheckTimeouts
  <2>3. Acts(r, r)
    BY <1>1, IdleActs DEF SocketOK, SendOK
  <2> QED
    BY <1>1, <2>2, <2>3, CommitActs
<1> QED
  BY <1>2, <1>3

\* What comes from the peer.
LEMMA ReceiveActs ==
    ASSUME ShortConnection, ConnectionInv, NEW g \in [Nodes -> Streams], StreamBody(g),
           NEW x \in net, ReceiveReset(x) \/ ReceiveSyn(x) \/ ReceivePacket(x)
    PROVE  OneCall
<1> DEFINE n == x.to
           p == x.p
           s == sock[n]
<1>1. n \in Nodes /\ p \in Datagrams
  BY DEF ConnectionInv, Packets
<1>2. SocketOK(s) /\ SocketType(s) /\ s.max_window \in Nat \ {0}
  BY <1>1 DEF ConnectionInv, SocketOK, SendOK, SocketType
<1>3. Acts(s, s)
  BY <1>2, IdleActs
<1> HIDE DEF n, p
<1>4. CASE ReceiveReset(x)
  <2> DEFINE u == OnReset(s)
  <2>1. PICK R : Commit(n, IF Registered(s) THEN u ELSE s, R)
    BY <1>4 DEF ReceiveReset, n
  <2>2. SocketOK(u)
    BY <1>2, ErrorOK
  <2>3. Registered(s) => u.wrote = s.wrote /\ Calls(n, s, g[n], u, g[n])
    BY <1>1, SteadyNow, ErrorCalls
  <2> HIDE DEF u
  <2>4. Registered(s) => Acts(s, u)
    BY <2>3, CallsActs
  <2> QED
    BY <1>1, <1>2, <1>3, <2>1, <2>2, <2>4, CommitActs
<1>5. CASE ReceiveSyn(x)
  <2> DEFINE isn == ISN[n]
             seq == p.seq
             t == AcceptSyn(isn, seq)
  <2>1. PICK R : Commit(n, IF s.st # "UNINITIALIZED" THEN s ELSE t, R)
    BY <1>5 DEF ReceiveSyn, n, p
  <2>2. isn \in SeqNrs /\ seq \in SeqNrs
    BY <1>1, ConnectionAssumption DEF Datagrams
  <2> HIDE DEF isn, seq
  <2>3. t.wrote = 0 /\ ~t.fin_sent /\ t.delivered = <<>> /\ ~t.got_fin_reached
    BY <2>2, AcceptedSocket
  <2>4. SocketOK(t) /\ SocketType(t)
    BY <2>2, AcceptSynOK DEF SocketOK, SendOK
  <2>5. s.st = "UNINITIALIZED" => s = NewSocket
    BY <1>1 DEF StreamBody, Opening
  <2> HIDE DEF t
  <2>6. s.st = "UNINITIALIZED" => Acts(s, t)
    BY <2>3, <2>4, <2>5, FirstActs
  <2> QED
    BY <1>1, <1>2, <1>3, <2>1, <2>4, <2>6, CommitActs
<1>6. CASE ReceivePacket(x)
  <2>1. p.type \in {"DATA", "FIN", "STATE"} /\ Registered(s)
    BY <1>1, <1>6 DEF ReceivePacket, Datagrams, n, p
  <2>2. PICK R \in {{}, {x}}, c \in Environment(n, p) : Commit(n, ProcessIncoming(s, p, c), R)
    BY <1>6 DEF ReceivePacket, n, p
  <2>3. ChoiceType(c)
    BY <1>2, EnvironmentType
  <2>4. c.write <= MaxWrite[n]
    <3>1. c.write \in {0} \cup {k \in WriteSizes :
                         s.st = "SYN_SENT" /\ k <= MaxWrite[n] /\ ~s.closed}
      BY DEF Environment
    <3>2. MaxWrite[n] \in Nat
      BY <1>1, ConnectionAssumption
    <3> QED
      BY <3>1, <3>2
  <2>5. n = x.to /\ p = x.p
    BY DEF n, p
  <2> DEFINE t == ProcessIncoming(s, p, c)
  <2>6. Acts(s, t)
    <3>1. CASE s.st = "SYN_SENT"
      BY <1>1, <2>1, <2>3, <2>4, <2>5, <3>1, SynAckIncomingEnds
    <3>2. CASE s.st # "SYN_SENT"
      BY <1>1, <2>1, <2>3, <2>5, <3>2, IncomingEnds
    <3> QED
      BY <3>1, <3>2
  <2>7. SocketOK(t)
    <3> HIDE DEF s
    <3> QED
      BY <1>1, <1>2, <2>3, ProcessIncomingOK
  <2>8. Commit(n, t, R)
    BY <2>2
  <2> HIDE DEF t
  <2> QED
    BY <1>1, <2>6, <2>7, <2>8, CommitActs
<1> QED
  BY <1>4, <1>5, <1>6

\* Every step of the connection is a call at one node, or leaves the sockets alone.
LEMMA StepActs ==
    ASSUME ShortConnection, ConnectionInv, StreamInv, [Next]_vars
    PROVE  OneCall \/ sock' = sock
<1>1. PICK g \in [Nodes -> Streams] : StreamBody(g)
  BY DEF StreamInv
<1>2. CASE AppConnect
  <2> DEFINE n == "A"
             isn == ISN[n]
             t == Connect(isn)
  <2>1. n \in Nodes /\ isn \in SeqNrs
    BY ConnectionAssumption DEF Nodes
  <2>2. sock[n].st = "UNINITIALIZED" /\ Commit(n, t, {})
    BY <1>2 DEF AppConnect
  <2>3. sock[n] = NewSocket
    BY <1>1, <2>1, <2>2 DEF StreamBody, Opening
  <2>4. t.wrote = 0 /\ ~t.fin_sent /\ t.delivered = <<>> /\ ~t.got_fin_reached
    BY <2>1, ConnectedSocket
  <2>5. SocketOK(t) /\ SocketType(t)
    BY <2>1, ConnectOK DEF SocketOK, SendOK
  <2> HIDE DEF t, n
  <2> QED
    BY <2>1, <2>2, <2>3, <2>4, <2>5, FirstActs, CommitActs
<1>3. ASSUME NEW n \in Nodes, Application(n) \/ IssueDeferredAcks(n) \/ IcmpError(n)
      PROVE  OneCall
  BY <1>1, <1>3, ApplicationActs
<1>4. ASSUME NEW n \in Nodes, NEW t \in ClockEvents(n), NEW expired \in ExpiredRst(n),
             ContextCheckTimeouts(n, t, expired)
      PROVE  OneCall
  BY <1>1, <1>4, TimeoutsActs
<1>5. ASSUME NEW m \in net, ReceiveReset(m) \/ ReceiveSyn(m) \/ ReceivePacket(m)
      PROVE  OneCall
  BY <1>1, <1>5, ReceiveActs
<1>6. ASSUME NEW m \in net, ReceiveStray(m) \/ Lose(m)
      PROVE  sock' = sock
  BY <1>6 DEF ReceiveStray, Lose
<1>7. CASE UNCHANGED vars
  BY <1>7 DEF vars
<1> QED
  BY <1>2, <1>3, <1>4, <1>5, <1>6, <1>7 DEF Next, Receive

\* The abstract streams start empty.
LEMMA StreamStarts == Init => Stream!Init
<1> SUFFICES ASSUME Init PROVE Stream!Init
  OBVIOUS
<1>1. \A n \in Nodes : sock[n] = NewSocket
  BY DEF Init
<1>2. /\ NewSocket.wrote = 0 /\ NewSocket.fin_sent = FALSE /\ NewSocket.delivered = <<>>
      /\ NewSocket.got_fin_reached = FALSE /\ NewSocket.read_shutdown = FALSE
  BY DEF NewSocket
<1>3. \A n \in Nodes : /\ sock[n].wrote = 0 /\ sock[n].fin_sent = FALSE
                       /\ sock[n].delivered = <<>> /\ sock[n].got_fin_reached = FALSE
                       /\ sock[n].read_shutdown = FALSE
  BY <1>1, <1>2
<1>4. FlattenSeq(<<>>) = <<>>
  BY DEF FlattenSeq
<1>5. \A n \in Nodes : Read(n) = <<>>
  BY <1>3, <1>4 DEF Read
<1> QED
  BY <1>3, <1>5 DEF Stream!Init

\* ImplementsStream: for every size of the sequence space, of the windows and of the
\* packets, and whatever the network loses, duplicates and reorders, on_read, the end
\* of the stream and writev behave as a pair of reliable byte streams, as long as the
\* connection is short enough for the sequence space.
THEOREM ConnectionIsStream == ShortConnection => (Spec => ImplementsStream)
<1>1. Init => Stream!Init
  BY StreamStarts
<1>2. ASSUME ShortConnection, ConnectionInv, StreamInv, ConnectionInv', StreamInv', [Next]_vars
      PROVE  [Stream!Next]_(Stream!vars)
  <2>1. OneCall \/ sock' = sock
    BY <1>2, StepActs
  <2>2. CASE OneCall
    <3>1. PICK n \in Nodes :
            \E t : /\ SocketType(t) /\ sock' = [sock EXCEPT ![n] = [t EXCEPT !.out = {}]]
                  /\ Acts(sock[n], t)
      BY <2>2 DEF OneCall
    <3>2. PICK t :
            /\ SocketType(t) /\ sock' = [sock EXCEPT ![n] = [t EXCEPT !.out = {}]]
            /\ Acts(sock[n], t)
      BY <3>1
    <3> QED
      BY <1>2, <3>2, StreamStep
  <2>3. CASE sock' = sock
    <3>1. Stream!vars' = Stream!vars
      BY <2>3 DEF Stream!vars, Read
    <3> QED
      BY <3>1
  <2> QED
    BY <2>1, <2>2, <2>3
<1>3. Spec => []ConnectionInv
  BY ConnectionIsConsistent
<1>4. ShortConnection => (Spec => []StreamInv)
  BY StreamsAreKept
<1> SUFFICES ASSUME ShortConnection PROVE Spec => ImplementsStream
  OBVIOUS
<1>5. /\ ConnectionInv /\ StreamInv /\ ConnectionInv' /\ StreamInv' /\ [Next]_vars
         => [Stream!Next]_(Stream!vars)
  BY <1>2
<1>6. Spec => []StreamInv
  BY <1>4
<1> QED
  BY <1>1, <1>3, <1>5, <1>6, PTL DEF Spec, ImplementsStream, Stream!Spec
=============================================================================
