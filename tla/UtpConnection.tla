---------------------------- MODULE UtpConnection ----------------------------
(***************************************************************************)
(* One connection between two contexts: A calls utp_connect, B accepts.    *)
(* The datagrams in the network may be lost, duplicated and reordered; the *)
(* contexts run their entry points (process_udp, check_timeouts,           *)
(* issue_deferred_acks, process_icmp_error) and the applications their     *)
(* calls in any order.  A call is one step: the library is single-threaded *)
(* and a call runs to its end.                                             *)
(***************************************************************************)
EXTENDS Socket

CONSTANTS
  ISN,             \* what get_random yields for seq_nr, per node
  RST_INFO_LIMIT,
  WINDOWS,         \* congestion windows apply_ccontrol may choose
  WriteSizes,      \* lengths of one utp_write
  MaxWrite,        \* stream positions each application writes, per node
  MayClose,        \* nodes whose application calls utp_close,
  MayShutdown,     \*   utp_shutdown,
  MayHold,         \*   and reads with a delay
  Timers,          \* the timers that run: pairs of a node and "rto", "zero",
                   \*   "idle", "probe" or "rst"
  Icmp,            \* nodes that ICMP errors reach
  MaxLosses,       \* bounds on the losses and duplications of a behaviour,
  MaxDups,
  MaxNet           \*   and on the datagrams in the network

Nodes == {"A", "B"}
Peer(n) == IF n = "A" THEN "B" ELSE "A"

ASSUME ConnectionAssumption ==
  /\ ISN \in [Nodes -> SeqNrs] /\ MaxWrite \in [Nodes -> Nat]
  /\ WINDOWS \subseteq Nat \ {0} /\ WriteSizes \subseteq Nat \ {0}
  /\ MaxLosses \in Nat /\ MaxDups \in Nat

VARIABLES sock,      \* the sockets
          net,       \* datagrams on their way
          rst_info,  \* per context: sequence numbers answered with a RST
          losses, dups

vars == <<sock, net, rst_info, losses, dups>>

\* There is a socket in the context's registry
Registered(s) == s.st \notin {"UNINITIALIZED", "GONE"}

\* destroy_socket; the histories are kept
Destroyed(s) ==
  [NewSocket EXCEPT !.st = "GONE", !.closed = s.closed, !.err = s.err,
                    !.delivered = s.delivered, !.wrote = s.wrote,
                    !.fin_sent = s.fin_sent, !.fin_sent_acked = s.fin_sent_acked,
                    !.got_fin_reached = s.got_fin_reached,
                    !.read_shutdown = s.read_shutdown]

\* The network without the packets in R takes what is sent to Peer(n); when it
\* is full it drops what it cannot hold
Sends(n, out, R) ==
  LET new == {[to |-> Peer(n), p |-> p] : p \in out}
      old == net \ R
  IN  \E S \in SUBSET new :
        /\ \/ S = new
           \/ Cardinality(old \cup new) > MaxNet /\ Cardinality(old \cup S) = MaxNet
        /\ net' = old \cup S

\* The call at node n ends with socket s and consumed the datagrams in R
Commit(n, s, R) ==
  /\ sock' = [sock EXCEPT ![n] = [s EXCEPT !.out = {}]]
  /\ Sends(n, s.out, R)

Init == /\ sock = [n \in Nodes |-> NewSocket]
        /\ net = {}
        /\ rst_info = [n \in Nodes |-> {}]
        /\ losses = 0
        /\ dups = 0

-----------------------------------------------------------------------------
(* The applications *)

AppConnect == /\ sock["A"].st = "UNINITIALIZED"
              /\ Commit("A", Connect(ISN["A"]), {})
              /\ UNCHANGED <<rst_info, losses, dups>>

\* The application still owns the socket
Owns(n) == Registered(sock[n]) /\ ~sock[n].closed

AppWrite(n, k) ==
  /\ Owns(n) /\ sock[n].st = "CONNECTED" /\ ~sock[n].fin_sent
  /\ sock[n].wrote + k <= MaxWrite[n]
  /\ Commit(n, Write(sock[n], k), {})
  /\ UNCHANGED <<rst_info, losses, dups>>

AppClose(n) ==
  /\ n \in MayClose /\ Owns(n)
  /\ Commit(n, Close(sock[n]), {})
  /\ UNCHANGED <<rst_info, losses, dups>>

AppShutdown(n, how) ==
  /\ n \in MayShutdown /\ Owns(n)
  /\ Commit(n, Shutdown(sock[n], how), {})
  /\ UNCHANGED <<rst_info, losses, dups>>

AppReadDrained(n) ==
  /\ Owns(n) /\ sock[n].unread > 0
  /\ Commit(n, ReadDrained(sock[n]), {})
  /\ UNCHANGED <<rst_info, losses, dups>>

-----------------------------------------------------------------------------
(* process_udp *)

\* The choices of the environment that process_incoming meets at node n: the
\* window the congestion controller picks, whether it may be halved after a
\* SACK, what on_connect writes and whether on_read buffers
Environment(n, p) ==
  [window : WINDOWS \cup {sock[n].max_window},
   decay : IF p.sack = NULL THEN {FALSE} ELSE BOOLEAN,
   write : {0} \cup {k \in WriteSizes :
                      sock[n].st = "SYN_SENT" /\ k <= MaxWrite[n] /\ ~sock[n].closed},
   hold : IF n \in MayHold THEN BOOLEAN ELSE {FALSE}]

\* Whether the datagram stays in the network for another delivery
Consumes(m, R) == \/ R = {m} /\ UNCHANGED dups
                  \/ R = {} /\ dups < MaxDups /\ dups' = dups + 1

ReceiveReset(m) ==
  /\ m.p.type = "RESET"
  /\ \E R \in {{}, {m}} :
       /\ Consumes(m, R)
       /\ Commit(m.to, IF Registered(sock[m.to]) THEN OnReset(sock[m.to])
                       ELSE sock[m.to], R)
  /\ UNCHANGED <<rst_info, losses>>

ReceivePacket(m) ==
  /\ m.p.type \notin {"RESET", "SYN"} /\ Registered(sock[m.to])
  /\ \E R \in {{}, {m}}, c \in Environment(m.to, m.p) :
       /\ Consumes(m, R)
       /\ Commit(m.to, ProcessIncoming(sock[m.to], m.p, c), R)
  /\ UNCHANGED <<rst_info, losses>>

\* send_rst: the receiver looks at nothing but the type
Reset == [type |-> "RESET", seq |-> 0, ack |-> 0, wnd |-> 0, sack |-> NULL, data |-> <<>>]

\* A packet for no socket is answered with a RST, unless it was before
\* or the cache of answers is full
ReceiveStray(m) ==
  /\ m.p.type \notin {"RESET", "SYN"} /\ ~Registered(sock[m.to])
  /\ \E R \in {{}, {m}} :
       /\ Consumes(m, R)
       /\ IF m.p.seq \in rst_info[m.to] \/ Cardinality(rst_info[m.to]) > RST_INFO_LIMIT
          THEN Sends(m.to, {}, R) /\ UNCHANGED rst_info
          ELSE /\ Sends(m.to, {Reset}, R)
               /\ rst_info' = [rst_info EXCEPT ![m.to] = @ \cup {m.p.seq}]
  /\ UNCHANGED <<sock, losses>>

\* A SYN makes a socket unless there is one.  Bound: B accepts once, a SYN that
\* comes after its socket was destroyed is dropped
ReceiveSyn(m) ==
  /\ m.p.type = "SYN"
  /\ \E R \in {{}, {m}} :
       /\ Consumes(m, R)
       /\ Commit(m.to, IF sock[m.to].st # "UNINITIALIZED" THEN sock[m.to]
                       ELSE AcceptSyn(ISN[m.to], m.p.seq), R)
  /\ UNCHANGED <<rst_info, losses>>

-----------------------------------------------------------------------------
(* The periodic calls and the network *)

\* What check_timeouts may find at node n: any subset of its timers has expired.
\* Bound: the keep-alive (KEEPALIVE_INTERVAL, the longest of the intervals) comes
\* when no datagram is on its way
ClockEvents(n) ==
  {[k \in {"rto", "zero", "idle", "probe"} |-> k \in X] :
     X \in {Y \in SUBSET {p[2] : p \in {q \in Timers : q[1] = n}} :
             "idle" \in Y => net = {}}}

\* The entries of rst_info that may have reached RST_INFO_TIMEOUT
ExpiredRst(n) == IF <<n, "rst">> \in Timers THEN SUBSET rst_info[n] ELSE {{}}

\* check_timeouts of the context: old entries of rst_info are dropped, the
\* socket's timers run and a socket left in state DESTROY is destroyed
ContextCheckTimeouts(n, t, expired) ==
  /\ Registered(sock[n]) \/ expired # {}
  /\ LET s == IF Registered(sock[n]) THEN CheckTimeouts(sock[n], t) ELSE sock[n]
     IN  /\ s # sock[n] \/ s.st = "DESTROY" \/ expired # {}
         /\ Commit(n, IF s.st = "DESTROY" THEN [Destroyed(s) EXCEPT !.out = s.out]
                      ELSE s, {})
  /\ rst_info' = [rst_info EXCEPT ![n] = @ \ expired]
  /\ UNCHANGED <<losses, dups>>

IssueDeferredAcks(n) ==
  /\ Registered(sock[n]) /\ sock[n].ack_pending
  /\ Commit(n, SendAck(sock[n]), {})
  /\ UNCHANGED <<rst_info, losses, dups>>

IcmpError(n) ==
  /\ n \in Icmp /\ Registered(sock[n])
  /\ Commit(n, OnIcmpError(sock[n]), {})
  /\ UNCHANGED <<rst_info, losses, dups>>

Lose(m) == /\ losses < MaxLosses
           /\ losses' = losses + 1
           /\ net' = net \ {m}
           /\ UNCHANGED <<sock, rst_info, dups>>

Receive(m) == \/ ReceiveReset(m)
              \/ ReceivePacket(m)
              \/ ReceiveStray(m)
              \/ ReceiveSyn(m)

Application(n) == \/ \E k \in WriteSizes : AppWrite(n, k)
                  \/ AppClose(n)
                  \/ \E how \in {"RD", "WR", "RDWR"} : AppShutdown(n, how)
                  \/ AppReadDrained(n)

Next == \/ AppConnect
        \/ \E n \in Nodes : \/ Application(n)
                            \/ IssueDeferredAcks(n)
                            \/ IcmpError(n)
                            \/ \E t \in ClockEvents(n), expired \in ExpiredRst(n) :
                                 ContextCheckTimeouts(n, t, expired)
        \/ \E m \in net : Receive(m) \/ Lose(m)

Spec == Init /\ [][Next]_vars
-----------------------------------------------------------------------------
(* Safety *)

States == {"UNINITIALIZED", "SYN_SENT", "SYN_RECV", "CONNECTED", "CONNECTED_FULL",
           "RESET", "DESTROY", "GONE"}

\* Type invariant: 16-bit numbers stay 16-bit and no counter goes below zero.
TypeOK ==
  /\ \A n \in Nodes :
       LET s == sock[n]
       IN  /\ s.st \in States
           /\ {s.seq_nr, s.ack_nr, s.eof_pkt, s.flush_scan_start, s.fast_resend_seq_nr}
                \subseteq SeqNrs
           /\ s.cwp \in 0 .. OUT_MAX /\ s.cur_window \in Nat
           /\ s.reorder_count \in 0 .. REORDER_MAX
           /\ s.max_window \in Nat \ {0} /\ s.retransmit_count \in 0 .. RETRANSMIT_LIMIT
           /\ s.out = {} /\ rst_info[n] \subseteq SeqNrs
  /\ losses \in 0 .. MaxLosses /\ dups \in 0 .. MaxDups

\* check_invariant: cur_window counts the payload of the packets in flight,
\* whatever mixture of ACKs, selective ACKs, fast resends and timeouts came; and
\* every number has its type.
InFlightAccounting ==
  /\ TypeOK
  /\ \A n \in Nodes :
       sock[n].cur_window =
         Bytes(sock[n], {q \in Window(sock[n]) : InFlight(sock[n].outbuf[q])})

\* The assertions of process_incoming and check_timeouts on the window: it
\* starts with a packet that is not acknowledged, and no packet is outside it.
WindowHead ==
  \A n \in Nodes :
    LET s == sock[n]
    IN  /\ s.cwp > 0 => s.outbuf[WindowStart(s)] # NULL
        /\ \A q \in SeqNrs \ Window(s) : s.outbuf[q] = NULL

\* The invariant of the flush cursor, stated with flush_packets and with
\* flush_scan_start: no packet of the window that lies before the place where
\* flush_packets starts to look waits for its (re)transmission.
FlushCursor ==
  \A n \in Nodes :
    LET s == sock[n]
        before == Wrap(FlushBegin(s) - WindowStart(s))
    IN  \A i \in 0 .. before - 1 :
          LET p == s.outbuf[Wrap(WindowStart(s) + i)] IN p = NULL \/ InFlight(p)

\* What the application of node n has read
Read(n) == FlattenSeq(sock[n].delivered)

PositionsOf(buf) == UNION {ToSet(buf[q]) : q \in {r \in SeqNrs : buf[r] # NULL}}

\* A packet is only forgotten (ack_packet) when its payload has arrived: every
\* stream position accepted by writev is still in outbuf, or with the peer.
NoDataLost ==
  \A n \in Nodes :
    LET s == sock[n]
        t == sock[Peer(n)]
        queued == UNION {ToSet(s.outbuf[q].data) : q \in {r \in SeqNrs : s.outbuf[r] # NULL}}
    IN  (Registered(s) /\ Registered(t) /\ ~t.read_shutdown) =>
          1 .. s.wrote = queued \cup PositionsOf(t.inbuf) \cup ToSet(Read(Peer(n)))

\* fin_sent_acked_ lets close destroy the socket: it is only set when the peer
\* has read up to the FIN, never because something else emptied the window.
FinAckedMeansReceived ==
  \A n \in Nodes : sock[n].fin_sent_acked => sock[Peer(n)].got_fin_reached

-----------------------------------------------------------------------------
(* The abstract specification *)

Stream == INSTANCE ReliableStream
  WITH Nodes <- Nodes, Peer <- Peer,
       written <- [n \in Nodes |-> sock[n].wrote],
       ended <- [n \in Nodes |-> sock[n].fin_sent],
       read <- [n \in Nodes |-> Read(n)],
       deaf <- [n \in Nodes |-> sock[n].read_shutdown],
       eof <- [n \in Nodes |-> sock[n].got_fin_reached]

\* on_read, UTP_STATE_EOF and writev behave as a pair of reliable byte streams,
\* although the network loses, duplicates and reorders datagrams: every step
\* is a step of ReliableStream or leaves it unchanged.
ImplementsStream == Stream!Spec

-----------------------------------------------------------------------------
(* Liveness *)

\* Running check_timeouts when timer k has expired changes something
TimerDue(n, k) ==
  /\ Registered(sock[n])
  /\ \E t \in ClockEvents(n) :
       /\ t[k]
       /\ LET s == CheckTimeouts(sock[n], t) IN s.st = "DESTROY" \/ s # sock[n]

TimerRuns(n, k) ==
  \E t \in ClockEvents(n) : t[k] /\ ContextCheckTimeouts(n, t, {})

\* The host calls utp_issue_deferred_acks and utp_check_timeouts for ever,
\* armed timers expire (nothing rests on the others), a datagram that is not lost
\* arrives, and an application reads what it buffered.  For the two large actions weak fairness is written
\* with its enabling condition, which TLC cannot derive in reasonable time; a
\* datagram leaves the network by Receive or, MaxLosses times, by Lose
Fairness ==
  /\ []<>(net = {}) \/ []<><<net \ net' # {}>>_vars
  /\ \A q \in {x \in Timers : x[2] \in {"rto", "zero", "idle"}} :
        \/ []<>~TimerDue(q[1], q[2])
        \/ []<><<TimerRuns(q[1], q[2])>>_vars
  /\ \A n \in Nodes : WF_vars(IssueDeferredAcks(n))
  /\ \A n \in MayHold : WF_vars(AppReadDrained(n))

LiveSpec == Spec /\ Fairness

\* utp_close on an established connection: whatever else happens, the socket
\* is destroyed in the end (FIN acknowledged, timeout, RST or ICMP error).
CloseCompletes ==
  \A n \in Nodes : sock[n].close_requested ~> sock[n].st = "GONE"

\* utp_close in utp.h: a closed socket is destroyed by the library, in
\* whatever state it was closed.
ClosedIsDestroyed ==
  \A n \in Nodes : sock[n].closed ~> sock[n].st = "GONE"

\* UTP_STATE_WRITABLE in utp.h: an application that was told the window is full
\* waits for this event, and it comes, or an error does.
WritableAgain ==
  \A n \in Nodes : sock[n].st = "CONNECTED_FULL" ~> sock[n].st # "CONNECTED_FULL"

\* What A wrote is read by B, or A learns of an error (on_error); nothing, such
\* as a small last packet that waits for company, stays behind in outbuf.
WrittenIsRead ==
  \A k \in 1 .. MaxWrite["A"] :
    sock["A"].wrote >= k ~> Len(Read("B")) >= k \/ sock["A"].err # "NONE"
=============================================================================
