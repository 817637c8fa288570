-------------------------------- MODULE Chat --------------------------------
(***************************************************************************)
(* The chat example: a server (server.cpp) and its clients (client.cpp) on *)
(* top of UvNode, with the pool of worker threads between a frame's        *)
(* arrival and its broadcast (common/worker_pool.h).                       *)
(*                                                                         *)
(* A link is one uTP connection of a client; each of its two ends has a    *)
(* Connection in the table of its node.  Everything a node does runs on    *)
(* its loop thread, so a callback is one step; only the workers run beside *)
(* it.  The library is external: it hands over what was written in slices  *)
(* of any length and within the receive window, signals WRITABLE when a    *)
(* full socket has room, EOF after the last byte of a closed peer, an      *)
(* error when the network or the peer is gone, and DESTROYING last.        *)
(***************************************************************************)
EXTENDS UvNode, FiniteSetsExt, SequencesExt

CONSTANTS Clients, ConnIds,       \* conn_ids of each client: its links, in order
          RCVBUF,                 \* the server's receive buffer
          PREFIX,                 \* what "name: " adds to a body
          Joined,                 \* the link whose client has joined before, if any
          Typed,                  \* what each client's user types: sizes of lines
          MayQuit,                \* nodes whose begin_shutdown() is called
          MayFail,                \* ends where the network may break the connection
          MaxEvents               \* how many of these, and of lines that make a
                                  \* frame too long, a behaviour has

Links == UNION {Range(ConnIds[c]) : c \in Clients}
LineSizes == UNION {Range(Typed[c]) : c \in Clients}
Nodes == Clients \cup {"server"}
Ends  == Links \X {"client", "server"}

ClientEnd(l) == << l, "client" >>
ServerEnd(l) == << l, "server" >>
ServerEnds   == {ServerEnd(l) : l \in Links}
Peer(e) == IF e[2] = "client" THEN ServerEnd(e[1]) ELSE ClientEnd(e[1])
NodeOf(e) ==
  IF e[2] = "server" THEN "server"
  ELSE CHOOSE c \in Clients : \E i \in DOMAIN ConnIds[c] : ConnIds[c][i] = e[1]

ASSUME ChatAssumption ==
  /\ \A c \in Clients : ConnIds[c] \in Seq(Links) /\ ConnIds[c] # << >>
  /\ RCVBUF \in Nat \ {0} /\ SNDBUF \in Nat \ {0} /\ PREFIX \in Nat
  /\ \A c \in Clients : Typed[c] \in Seq(Nat)
  /\ MaxEvents \in Nat
  /\ Joined \subseteq Links /\ Cardinality(Joined) <= 1 /\ MayQuit \subseteq Nodes /\ MayFail \subseteq Ends

VARIABLES
  end,                          \* each end, see UvNode
  credit,                       \* units the server's window lets a client have in flight
  next_id, shutdown, handles_closing,
  pool, queue,                  \* jobs being worked on, results not yet drained
  signalling,                   \* workers between q_.push and uv_async_send
  wake, draining,               \* the async is pending, drain() is running
  closed_bridge,
  rr, lines, events,
  late                          \* a connection was accepted after begin_shutdown

nodeVars   == << next_id, shutdown, handles_closing, late >>
bridgeVars == << pool, queue, signalling, wake, draining, closed_bridge >>
userVars   == << rr, lines, events >>
vars == << end, credit, nodeVars, bridgeVars, userVars >>

ConnsOf(n, ends) == {e \in Ends : NodeOf(e) = n /\ ends[e].conn # NULL}

\* The loop thread of a node can take its next callback
LoopFree(n) == ~handles_closing[n] /\ ~(n = "server" /\ draining)

-----------------------------------------------------------------------------
(* Frames *)

JoinFrame(l) == [type |-> "join", who |-> l, no |-> 0, body |-> 0]
LineFrame(l, n, size) == [type |-> "text", who |-> l, no |-> n, body |-> size]
SysFrame(kind, who) == [type |-> kind, who |-> who, no |-> 0, body |-> 0]

\* What a worker makes of a text frame: "name: " in front of it
Job(c, f) ==
  [origin |-> c.id, consumed |-> f.body,
   frame |-> [f EXCEPT !.who = c.name, !.body = @ + PREFIX]]

Init ==
  /\ end = [e \in Ends |->
              IF e[1] \in Joined
              THEN NewEnd([NewConnection(IF e[2] = "server" THEN 1 ELSE 0)
                             EXCEPT !.name = e[1], !.connected = TRUE], "up")
              ELSE IF e[2] = "server" THEN NewEnd(NULL, "none")
              ELSE NewEnd([NewConnection(0) EXCEPT !.name = e[1]], "syn")]
  /\ credit = [l \in Links |-> RCVBUF]
  /\ next_id = 1 + Cardinality(Joined) /\ late = FALSE
  /\ shutdown = [n \in Nodes |-> FALSE] /\ handles_closing = shutdown
  /\ pool = {} /\ queue = << >> /\ signalling = 0
  /\ wake = FALSE /\ draining = FALSE /\ closed_bridge = FALSE
  /\ rr = [c \in Clients |-> 0] /\ lines = [c \in Clients |-> 0] /\ events = 0

-----------------------------------------------------------------------------
(* The server *)

\* broadcast: to every connection that has a name, except one
Broadcast(ends, f, except) ==
  [e \in Ends |->
     LET c == ends[e].conn
     IN  IF e \in ServerEnds /\ c # NULL /\ c.id # except /\ c.name # NULL
         THEN Write(ends[e], f) ELSE ends[e]]

\* The bytes of a text frame count as unread while the pool has them
Charged(c, f) == [c EXCEPT !.unconsumed = @ + f.body]

\* handle_frame; x holds the ends and the pool
HandleFrame(x, e, f) ==
  LET c == x.ends[e].conn
  IN  CASE f.type = "join" ->
             [x EXCEPT !.ends = Broadcast([@ EXCEPT ![e].conn.name = f.who],
                                          SysFrame("joined", f.who), c.id)]
        [] f.type = "text" ->
             [x EXCEPT !.ends[e].conn = Charged(@, f), !.jobs = @ \cup {Job(c, f)}]
        [] OTHER -> x

\* Mutant: a broken parser is only noted
BrokenIgnored(x) == x

\* A connection whose parser is broken is closed
BrokenCloses(x) == IF x.conn.parser.broken THEN Close(x) ELSE x

\* s_on_accept: adopt(); an inbound connection may be written to at once
OnAccept(l) ==
  LET e == ServerEnd(l) IN
  /\ LoopFree("server") /\ end[e].sock = "none"
  /\ end' = [end EXCEPT ![e] =
               NewEnd([NewConnection(next_id) EXCEPT !.connected = TRUE], "syn")]
  /\ next_id' = next_id + 1
  /\ late' = (late \/ shutdown["server"])
  /\ UNCHANGED << credit, shutdown, handles_closing, bridgeVars, userVars >>

\* Mutant: the window ignores what the pool still holds
WindowIgnoresPool(c) == RCVBUF

\* s_read_buffer_size: the window the server announces for a connection
Window(c) == IF c.unconsumed > RCVBUF THEN 0 ELSE RCVBUF - c.unconsumed

\* The next n units can be handed to end e; the library drops what comes after
\* close, and how it is cut is not seen then
Slice(e, n) ==
  LET in == end[Peer(e)].pipe
  IN  /\ in[n] # FIN
      /\ end[e].conn.closing => SubSeq(in, n + 1, Len(in)) \in {<< >>, << FIN >>}

\* The peer has sent n more units to end e
Take(e, n) == [end EXCEPT ![Peer(e)].pipe = SubSeq(@, n + 1, Len(@))]

\* They are dropped
Drop(e, n) == [Take(e, n) EXCEPT ![Peer(e)].due = << >>]

\* What the parser of end e makes of the next n units
Parsed(e, n) == NextAll(Feed(end[e].conn.parser, SubSeq(end[Peer(e)].pipe, 1, n)))

\* s_on_read on the server's end of l, with the next n units: every frame that is
\* complete is handled.  After close the library takes the units and says nothing
OnReadServer(l, n) ==
  LET e == ServerEnd(l) IN
  /\ LoopFree("server") /\ end[e].sock \in {"syn", "up", "full", "fin"}
  /\ Slice(e, n) /\ (n <= credit[l] \/ end[e].conn.closing)
  /\ IF end[e].conn.closing THEN end' = Drop(e, n) /\ UNCHANGED pool
     ELSE \E got \in {Parsed(e, n)} :
          \E fed \in {[Take(e, n) EXCEPT
                        ![e].conn.parser = got.parser,
                        ![Peer(e)].due = Handed(@, got.frames),
                        ![e].sock = IF @ = "syn" THEN "up" ELSE @]} :
          \E x \in {FoldLeft(LAMBDA y, f : HandleFrame(y, e, f),
                             [ends |-> fed, jobs |-> pool], got.frames)} :
            end' = [x.ends EXCEPT ![e] = BrokenCloses(@)] /\ pool' = x.jobs
  /\ credit' = [credit EXCEPT ![l] = Max({@ - n, Window(end'[e].conn)})]
  /\ UNCHANGED << nodeVars, queue, signalling, wake, draining, closed_bridge, userVars >>

\* on_eof of the server: those who stay are told, then the connection is closed
ServerEof(ends, e) ==
  LET c == ends[e].conn
      told == IF c.name = NULL THEN ends ELSE Broadcast(ends, SysFrame("left", c.name), c.id)
  IN  [told EXCEPT ![e] = Close(@)]

-----------------------------------------------------------------------------
(* The clients *)

\* on_connect: the client's first frame names it
OnConnect(l) ==
  LET e == ClientEnd(l)
      up == [end[e] EXCEPT !.sock = "up", !.conn.connected = TRUE]
  IN  /\ LoopFree(NodeOf(e)) /\ end[e].sock = "syn" /\ end[Peer(e)].sock # "none"
      /\ end' = [end EXCEPT ![e] = Flush(Write(up, JoinFrame(l)))]
      /\ UNCHANGED << credit, nodeVars, bridgeVars, userVars >>

\* s_on_read on the client's end: frames are printed; broken() is not looked at
OnReadClient(l, n) ==
  LET e == ClientEnd(l) IN
  /\ LoopFree(NodeOf(e)) /\ end[e].sock \in {"up", "full", "fin"}
  /\ Slice(e, n)
  /\ IF end[e].conn.closing THEN end' = Drop(e, n)
     ELSE \E got \in {Parsed(e, n)} :
            end' = [Take(e, n) EXCEPT ![e].conn.parser = got.parser,
                                      ![Peer(e)].due = Handed(@, got.frames)]
  /\ UNCHANGED << credit, nodeVars, bridgeVars, userVars >>

\* send_line: the next connection in turn that can take the user's next line
SendLine(c) ==
  LET ids == ConnIds[c]
      n   == lines[c] + 1
      at(i) == ((rr[c] + i) % Len(ids)) + 1
      usable(i) == LET x == end[ClientEnd(ids[at(i)])].conn
                   IN  x # NULL /\ x.connected /\ ~x.closing
  IN  /\ LoopFree(c) /\ ~shutdown[c] /\ n <= Len(Typed[c])
      /\ \E i \in 0 .. Len(ids) - 1 :
           /\ usable(i) /\ \A j \in 0 .. i - 1 : ~usable(j)
           /\ end' = [end EXCEPT ![ClientEnd(ids[at(i)])] =
                        Write(@, LineFrame(ids[at(i)], n, Typed[c][n]))]
           /\ rr' = [rr EXCEPT ![c] = at(i) % Len(ids)]
      /\ lines' = [lines EXCEPT ![c] = n]
      /\ events' = IF OverLimit(Typed[c][n]) THEN events + 1 ELSE events
      /\ events' <= MaxEvents
      /\ UNCHANGED << credit, nodeVars, bridgeVars >>

-----------------------------------------------------------------------------
(* Callbacks of either kind of node *)

\* Mutant: WRITABLE is only noted
WritableIgnored(x) == x

\* s_on_state with UTP_STATE_WRITABLE
OnWritable(x) == Flush(x)

Writable(e) ==
  /\ LoopFree(NodeOf(e)) /\ end[e].sock = "full" /\ Len(end[e].pipe) < SNDBUF
  /\ end' = [end EXCEPT ![e] = OnWritable([@ EXCEPT !.sock = "up"])]
  /\ UNCHANGED << credit, nodeVars, bridgeVars, userVars >>

\* s_on_state with UTP_STATE_EOF: the peer's FIN comes after all its data, and
\* is reported to a connection that is being closed too
OnEof(e) ==
  LET taken == [end EXCEPT ![Peer(e)].pipe = << >>]
  IN  /\ LoopFree(NodeOf(e)) /\ end[e].sock \in {"up", "full", "fin"}
      /\ end[Peer(e)].pipe = << FIN >>
      /\ end' = IF e[2] = "server" THEN ServerEof(taken, e)
                ELSE [taken EXCEPT ![e] = Close(@)]
      /\ UNCHANGED << credit, nodeVars, bridgeVars, userVars >>

\* The socket at the other end is gone: its context answers with RST, or nobody
\* answers any more
PeerGone(e) ==
  end[Peer(e)].sock \in {"end", "dead"} \/ handles_closing[NodeOf(Peer(e))]

\* Mutant: an error is reported and nothing is closed
ErrorReported(x) == [x EXCEPT !.sock = "reset"]

\* s_on_error: the node closes the socket, which the library has reset, itself
OnError(x) == Close([x EXCEPT !.sock = "end"])

Fail(e) ==
  /\ LoopFree(NodeOf(e)) /\ end[e].sock \in {"syn", "up", "full", "fin"}
  /\ end' = [end EXCEPT ![e] = OnError(@)]
  /\ UNCHANGED << credit, nodeVars, bridgeVars, rr, lines >>

PeerFails(e) == PeerGone(e) /\ Fail(e) /\ UNCHANGED events
NetworkFails(e) == events < MaxEvents /\ Fail(e) /\ events' = events + 1

\* maybe_close_handles: its condition
MayCloseHandles(n, shut, ends) == shut[n] /\ ConnsOf(n, ends) = {}

MaybeCloseHandles(n) ==
  handles_closing' =
    [handles_closing EXCEPT ![n] = @ \/ MayCloseHandles(n, shutdown', end')]

\* on_destroying, with the client's on_destroy: the last one quits
OnDestroying(e) ==
  LET n == NodeOf(e)
      last == n # "server" /\ ConnsOf(n, end) = {e}
  IN  /\ LoopFree(n)
      /\ end[e].sock = "end" \/ (end[e].sock = "fin" /\ end[e].pipe = << >>)
      /\ end' = [end EXCEPT ![e].sock = "dead", ![e].conn = NULL,
                            ![Peer(e)].due = << >>]
      /\ shutdown' = [shutdown EXCEPT ![n] = @ \/ last]
      /\ MaybeCloseHandles(n)
      /\ UNCHANGED << credit, next_id, late, bridgeVars, userVars >>

\* begin_shutdown; a client calls it from quit()
BeginShutdown(n) ==
  /\ LoopFree(n) /\ ~shutdown[n]
  /\ events < MaxEvents /\ events' = events + 1
  /\ end' = [e \in Ends |-> IF NodeOf(e) = n THEN Close(end[e]) ELSE end[e]]
  /\ shutdown' = [shutdown EXCEPT ![n] = TRUE]
  /\ MaybeCloseHandles(n)
  /\ UNCHANGED << credit, next_id, late, bridgeVars, rr, lines >>

-----------------------------------------------------------------------------
(* The worker pool *)

\* A worker pushes its result; it wakes the loop in a step of its own
WorkerPush(j) ==
  /\ pool' = pool \ {j}
  /\ queue' = Append(queue, j) /\ signalling' = signalling + 1
  /\ UNCHANGED << end, credit, nodeVars, wake, draining, closed_bridge, userVars >>

\* uv_async_send: wake-ups that are not served yet are one
WorkerSignal ==
  /\ signalling > 0 /\ signalling' = signalling - 1 /\ wake' = TRUE
  /\ UNCHANGED << end, credit, nodeVars, pool, queue, draining, closed_bridge, userVars >>

\* The loop serves the wake-up and enters drain()
DrainStart ==
  /\ wake /\ ~draining /\ ~closed_bridge
  /\ wake' = FALSE /\ draining' = TRUE
  /\ UNCHANGED << end, credit, nodeVars, pool, queue, signalling, closed_bridge, userVars >>

\* find(origin), then consumed(); a connection that is gone is ignored
Return(ends, j) ==
  [e \in Ends |->
     LET c == ends[e].conn
     IN  IF e \in ServerEnds /\ c # NULL /\ c.id = j.origin
         THEN [ends[e] EXCEPT !.conn = Consumed(c, j.consumed)] ELSE ends[e]]

\* Mutant: drain() takes one result for each wake-up
DrainsOne == FALSE

\* drain() goes on after a result: wake-ups are not counted
DrainsAll == TRUE

\* deliver: broadcast to those connected now, give the bytes back, and announce
\* the window of an open connection again if it grew
DrainOne ==
  LET j == Head(queue)
      reopened(e) == /\ end'[e].conn # NULL /\ end'[e].conn.id = j.origin
                     /\ ~end'[e].conn.closing
  IN  /\ draining /\ queue # << >>
      /\ queue' = Tail(queue) /\ draining' = DrainsAll
      /\ end' = Return(Broadcast(end, j.frame, j.origin), j)
      /\ credit' = [l \in Links |->
           IF reopened(ServerEnd(l))
           THEN Max({credit[l], Window(end'[ServerEnd(l)].conn)}) ELSE credit[l]]
      /\ UNCHANGED << nodeVars, pool, signalling, wake, closed_bridge, userVars >>

DrainEnd ==
  /\ draining /\ queue = << >> /\ draining' = FALSE
  /\ UNCHANGED << end, credit, nodeVars, pool, queue, signalling, wake,
                  closed_bridge, userVars >>

\* TbbBridge::shutdown, after the server's handles: the workers finish, what they
\* bring back finds no connection
BridgeShutdown ==
  /\ handles_closing["server"] /\ ~draining /\ ~closed_bridge
  /\ pool' = {} /\ queue' = << >> /\ signalling' = 0
  /\ wake' = FALSE /\ closed_bridge' = TRUE
  /\ UNCHANGED << end, credit, nodeVars, draining, userVars >>

-----------------------------------------------------------------------------

\* What the library reports and what the worker threads do
Reported ==
  \/ DrainStart \/ DrainEnd \/ WorkerSignal \/ (\E j \in pool : WorkerPush(j))
  \/ \E l \in Links : OnAccept(l)
  \/ \E e \in Ends : OnDestroying(e) \/ PeerFails(e) \/ OnEof(e) \/ Writable(e)
  \/ \E l \in Links : OnConnect(l)
  \/ \E l \in Links : \E n \in DOMAIN end[ServerEnd(l)].pipe : OnReadClient(l, n)
  \/ DrainOne
  \/ \E l \in Links : \E n \in DOMAIN end[ClientEnd(l)].pipe : OnReadServer(l, n)

Next ==
  \/ Reported
  \/ \E c \in Clients : SendLine(c)
  \/ \E e \in MayFail : NetworkFails(e)
  \/ \E n \in MayQuit : BeginShutdown(n)
  \/ BridgeShutdown

\* The library reports what there is to report, the workers finish their jobs
\* and the loop serves its wake-ups, in some order; users and the network
\* promise nothing
Spec == Init /\ [][Next]_vars /\ WF_vars(Reported)

-----------------------------------------------------------------------------
(* Properties *)

\* Every frame a parser yields is the next one the other side wrote, whole and
\* unchanged, however write() and the network cut the stream.
FramesInOrder == \A e \in Ends : end[e].due # << Corrupt >>

\* The reported backlog of a connection is what the pool and the queue hold of
\* it: results of dead connections never touch another one's account.
BackpressureExact ==
  \A e \in ServerEnds : end[e].conn # NULL =>
    end[e].conn.unconsumed =
      MapThenSumSet(LAMBDA j : j.consumed,
                    {j \in pool \cup Range(queue) : j.origin = end[e].conn.id})

\* The queue is unbounded, but the receive window keeps what one connection has
\* in the pool below its buffer and one line.
BackpressureBound ==
  \A e \in ServerEnds :
    end[e].conn # NULL =>
      end[e].conn.unconsumed < RCVBUF + Max({n \in LineSizes : n <= MAX_BODY})

\* A result in the queue has someone who will look at it.
NoLostWakeup ==
  queue # << >> => wake \/ draining \/ signalling > 0

\* The server's reassembly buffer never holds more than one incomplete frame.
ServerBufferBounded ==
  \A e \in ServerEnds : end[e].conn # NULL => Len(end[e].conn.parser.buf) < HEADER + MAX_BODY

Lost(e) ==
  \/ end[e].conn = NULL \/ end[e].conn.closing
  \/ end[Peer(e)].conn = NULL \/ end[Peer(e)].conn.closing
  \/ end[Peer(e)].conn.parser.broken

\* Everything write() took on a connection that stays open is handed to the other
\* side in the end and no line is left in the pool, full send buffers, a closed
\* window, the order of the workers and merged wake-ups notwithstanding.
AllDelivered ==
  <>[](/\ pool = {} /\ queue = << >>
       /\ \A e \in Ends : Lost(e) \/ end[e].due = << >>)

\* begin_shutdown ends with the handles closed, unless a connection was accepted
\* in the meantime.
ShutdownCompletes ==
  <>[](\A n \in Nodes : shutdown[n] => handles_closing[n] \/ late)
=============================================================================
