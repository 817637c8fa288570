------------------------------ MODULE UtpContext ------------------------------
(***************************************************************************)
(* One UtpContext with several sockets: the registry keyed by peer address *)
(* and receive id, the list of deferred ACKs with its swap-pop removal,    *)
(* the cache of RSTs sent, the cached last socket, the dispatch of         *)
(* datagrams and ICMP errors, and the destruction of sockets.              *)
(*                                                                         *)
(* A socket is an object on the heap, and an object's place is used again  *)
(* after it was freed, so a pointer left behind is visible.  What a socket *)
(* does with a packet is module Socket's subject; here it is the choice of *)
(* its next state and of what happens to its deferred ACK.                 *)
(*                                                                         *)
(* check_timeouts, issue_deferred_acks and the destructors run the         *)
(* application's callbacks between their iterations.  The loops are split  *)
(* there, and the calls on sockets an application may make from a callback *)
(* are the ones it makes from its own loop; datagrams are only handed over *)
(* from that loop.                                                         *)
(*                                                                         *)
(* The code only compares differences of times, so a timestamp is kept as  *)
(* its age, which stops growing at the timeout it is compared with.        *)
(***************************************************************************)
EXTENDS Integers, Sequences, FiniteSets, SequencesExt

CONSTANTS
  NULL,
  Objects,          \* places for socket objects on the heap
  Addrs,            \* addresses of peers
  ID_MOD,           \* size of the connid field of a packet (65536)
  ConnIds,          \* connids of the datagrams that arrive
  Seeds,            \* what get_random yields for a connection seed
  SeqNrs,           \* sequence numbers of the datagrams that arrive
  RST_INFO_LIMIT,
  RST_INFO_TIMEOUT,
  TIMEOUT_CHECK_INTERVAL,
  SOCKET_LIMIT      \* sockets before SYNs are refused (3000)

\* The fields of a socket the context reads.  st is the connection state;
\* OPEN stands for SYN_SENT, SYN_RECV, CONNECTED and CONNECTED_FULL.  closed is
\* a history: the application has given the socket back
SocketRecords ==
  [addr : Addrs \cup {NULL}, recv : Nat, send : Nat,
   st : {"UNINITIALIZED", "OPEN", "RESET", "DESTROY"},
   close_requested : BOOLEAN, closed : BOOLEAN, ida : Int]

ASSUME ContextAssumption ==
  /\ NULL \notin Objects /\ NULL \notin SocketRecords
  /\ ID_MOD \in Nat \ {0}
  /\ ConnIds \subseteq 0 .. ID_MOD - 1
  /\ Seeds \subseteq 0 .. ID_MOD - 1
  /\ RST_INFO_LIMIT \in Nat /\ SOCKET_LIMIT \in Nat
  /\ RST_INFO_TIMEOUT \in Nat \ {0} /\ TIMEOUT_CHECK_INTERVAL \in Nat \ {0}

VARIABLES
  heap,            \* the socket objects; NULL where there is none
  sockets_,        \* the registry: a function from keys to objects
  ack_sockets_,
  rst_info_,
  last_utp_socket_,
  last_check_,     \* the age of the last check
  loop,            \* the loop that is running: its name and the sockets ahead
  dying,           \* the object whose destructor is running
  owed,            \* history: sockets with data not acknowledged yet
  answered         \* history: strays answered or suppressed within
                   \*   RST_INFO_TIMEOUT, with the age of that

vars == <<heap, sockets_, ack_sockets_, rst_info_, last_utp_socket_,
          last_check_, loop, dying, owed, answered>>

rstVars == <<rst_info_, answered>>
ackVars == <<ack_sockets_, owed>>

NoLoop == [name |-> "none", todo |-> {}]

\* A socket as its constructor and initialize leave it
Socket(addr, recv, send, st) ==
  [addr |-> addr, recv |-> recv, send |-> send, st |-> st,
   close_requested |-> FALSE, closed |-> FALSE, ida |-> -1]

Uninitialized == Socket(NULL, 0, 0, "UNINITIALIZED")

Live == {s \in Objects : heap[s] # NULL}

\* UtpSocketKey
Key(addr, id) == [addr |-> addr, recv_id |-> id]

KeyOf(s) == Key(heap[s].addr, heap[s].recv)

\* An id as the 16-bit field of a packet carries it
Header(id) == id % ID_MOD

-----------------------------------------------------------------------------
(* The list of deferred ACKs.  h is the heap and l the list. *)

ScheduleAck(h, l, s) ==
  IF h[s].ida # -1 THEN [h |-> h, l |-> l]
  ELSE [h |-> [h EXCEPT ![s].ida = Len(l)], l |-> Append(l, s)]

\* mutant: the element moved into the gap keeps its index
RemoveAckKeepsIndex(h, l, s) ==
  LET idx == h[s].ida
  IN  IF idx < 0 THEN [h |-> h, l |-> l]
      ELSE [h |-> [h EXCEPT ![s].ida = -1],
            l |-> SubSeq([l EXCEPT ![idx + 1] = l[Len(l)]], 1, Len(l) - 1)]

\* mutant: the last element is dropped instead of moved
RemoveAckDrops(h, l, s) ==
  IF h[s].ida < 0 THEN [h |-> h, l |-> l]
  ELSE [h |-> [h EXCEPT ![l[Len(l)]].ida = -1], l |-> Front(l)]

\* swap-pop: the last element takes the place of s
RemoveAck(h, l, s) ==
  LET idx == h[s].ida
      last == l[Len(l)]
  IN  IF idx < 0 THEN [h |-> h, l |-> l]
      ELSE [h |-> [[h EXCEPT ![last].ida = idx] EXCEPT ![s].ida = -1],
            l |-> SubSeq([l EXCEPT ![idx + 1] = last], 1, Len(l) - 1)]

\* What a call on socket s does about its ACK: it defers one, it sends a packet
\* (each one acknowledges what was received), or neither
AckEffect(h, s, effect) ==
  LET r == CASE effect = "schedule" -> ScheduleAck(h, ack_sockets_, s)
             [] effect = "send" -> RemoveAck(h, ack_sockets_, s)
             [] effect = "none" -> [h |-> h, l |-> ack_sockets_]
  IN  /\ heap' = r.h
      /\ ack_sockets_' = r.l
      /\ owed' = CASE effect = "schedule" -> owed \cup {s}
                   [] effect = "send" -> owed \ {s}
                   [] effect = "none" -> owed

AckEffects == {"schedule", "send", "none"}

-----------------------------------------------------------------------------
(* The registry *)

register_socket(key, s) == [k \in DOMAIN sockets_ \cup {key} |->
                              IF k = key THEN s ELSE sockets_[k]]

Erase(key) == [k \in DOMAIN sockets_ \ {key} |-> sockets_[k]]

\* mutant: a hit in the cache is decided by the address alone
DispatchByAddr(addr, id) ==
  IF last_utp_socket_ # NULL /\ heap[last_utp_socket_].addr = addr
  THEN last_utp_socket_
  ELSE IF Key(addr, id) \in DOMAIN sockets_ THEN sockets_[Key(addr, id)] ELSE NULL

\* The lookup of a packet that is neither SYN nor RST
Dispatch(addr, id) ==
  IF /\ last_utp_socket_ # NULL
     /\ heap[last_utp_socket_].addr = addr
     /\ heap[last_utp_socket_].recv = id
  THEN last_utp_socket_
  ELSE IF Key(addr, id) \in DOMAIN sockets_ THEN sockets_[Key(addr, id)] ELSE NULL

\* mutant: only the ids of accepted connections are tried
FindAccepted(addr, id) ==
  LET Sends(i) == /\ Key(addr, i) \in DOMAIN sockets_
                  /\ heap[sockets_[Key(addr, i)]].send = id
  IN  IF Key(addr, id) \in DOMAIN sockets_ THEN sockets_[Key(addr, id)]
      ELSE IF Sends(id + 1) THEN sockets_[Key(addr, id + 1)]
      ELSE NULL

\* The lookup for RSTs and ICMP errors: the packet may name the id we receive
\* on, or echo the one we send with
find_socket_for_id(addr, id) ==
  LET Sends(i) == /\ Key(addr, i) \in DOMAIN sockets_
                  /\ heap[sockets_[Key(addr, i)]].send = id
  IN  IF Key(addr, id) \in DOMAIN sockets_ THEN sockets_[Key(addr, id)]
      ELSE IF Sends(id + 1) THEN sockets_[Key(addr, id + 1)]
      ELSE IF Sends(id - 1) THEN sockets_[Key(addr, id - 1)]
      ELSE NULL

-----------------------------------------------------------------------------

Init == /\ heap = [s \in Objects |-> NULL]
        /\ sockets_ = <<>>
        /\ ack_sockets_ = <<>>
        /\ rst_info_ = <<>>
        /\ last_utp_socket_ = NULL
        /\ last_check_ = TIMEOUT_CHECK_INTERVAL
        /\ loop = NoLoop
        /\ dying = NULL
        /\ owed = {}
        /\ answered = <<>>

\* The application may call the library: from its loop, or from a callback for
\* a state change or an error.  issue_deferred_acks only runs the callbacks for
\* sendto and statistics; there are no calls while the context is destroyed
Callable == loop.name \in {"none", "sockets"}

\* The application is in its own loop
Idle == loop.name = "none"

\* What the assertions of the API functions ask of the caller
Usable(s) == /\ s \in Live /\ s # dying
             /\ heap[s].st \notin {"UNINITIALIZED", "DESTROY"}
             /\ ~heap[s].closed

-----------------------------------------------------------------------------
(* The application's calls *)

CreateSocket(s) ==
  /\ Callable /\ heap[s] = NULL
  /\ heap' = [heap EXCEPT ![s] = Uninitialized]
  /\ UNCHANGED <<sockets_, last_utp_socket_, loop, dying, ackVars, rstVars, last_check_>>

\* connect: the seed is drawn until no socket receives on it, then the SYN is
\* sent
Connect(s, addr, seed) ==
  /\ Callable /\ s \in Live /\ heap[s].st = "UNINITIALIZED"
  /\ Key(addr, seed) \notin DOMAIN sockets_
  /\ sockets_' = register_socket(Key(addr, seed), s)
  /\ heap' = [heap EXCEPT ![s] = Socket(addr, seed, seed + 1, "OPEN")]
  /\ UNCHANGED <<last_utp_socket_, loop, dying, ackVars, rstVars, last_check_>>

\* write, shutdown and read_drained
AppCall(s, effect) ==
  /\ Callable /\ Usable(s)
  /\ AckEffect(heap, s, effect)
  /\ UNCHANGED <<sockets_, last_utp_socket_, loop, dying, rstVars, last_check_>>

\* close, while connecting (the socket is destroyed next) or once connected
\* (it sends its FIN, unless it has, and waits)
AppClose(s, effect) ==
  /\ Callable /\ Usable(s)
  /\ LET h == [heap EXCEPT ![s].closed = TRUE]
     IN  \/ AckEffect([h EXCEPT ![s].st = "DESTROY"], s, "none")
         \/ heap[s].st = "OPEN"
            /\ AckEffect([h EXCEPT ![s].close_requested = TRUE], s, effect)
  /\ UNCHANGED <<sockets_, last_utp_socket_, loop, dying, rstVars, last_check_>>

-----------------------------------------------------------------------------
(* process_udp *)

\* mutant: a repeated SYN is accepted again
ProcessSynAgain(s, addr, id) ==
  /\ Idle /\ heap[s] = NULL
  /\ Cardinality(DOMAIN sockets_) <= SOCKET_LIMIT + 1
  /\ sockets_' = register_socket(Key(addr, id + 1), s)
  /\ heap' = [heap EXCEPT ![s] = Socket(addr, id + 1, id, "OPEN")]
  /\ UNCHANGED <<last_utp_socket_, loop, dying, ackVars, rstVars, last_check_>>

\* A SYN: ignored when its connection exists, when there are too many sockets
\* and when the firewall callback says so (no step: nothing changes).  Else a
\* socket is created, registered and the SYN-ACK sent
ProcessSyn(s, addr, id) ==
  /\ Idle /\ heap[s] = NULL
  /\ Key(addr, id + 1) \notin DOMAIN sockets_
  /\ Cardinality(DOMAIN sockets_) <= SOCKET_LIMIT
  /\ sockets_' = register_socket(Key(addr, id + 1), s)
  /\ heap' = [heap EXCEPT ![s] = Socket(addr, id + 1, id, "OPEN")]
  /\ UNCHANGED <<last_utp_socket_, loop, dying, ackVars, rstVars, last_check_>>

\* The state of s after an error from the peer or the network
Failed(s) == [heap EXCEPT ![s].st = IF heap[s].close_requested
                                    THEN "DESTROY" ELSE "RESET"]

\* process_udp with a RST (on_reset) and process_icmp_error (on_icmp_error): the
\* same effect here.  process_icmp_fragmentation only touches the MTU search
ProcessReset(addr, id) ==
  LET s == find_socket_for_id(addr, id)
  IN  /\ Idle /\ s # NULL
      /\ heap' = Failed(s)
      /\ UNCHANGED <<sockets_, last_utp_socket_, loop, dying, ackVars, rstVars, last_check_>>

\* process_incoming of a socket found by the lookup; a FIN's acknowledgement
\* after close is what may destroy it
ProcessIncoming(addr, id, effect) ==
  LET s == Dispatch(addr, id)
  IN  /\ Idle /\ s # NULL
      /\ last_utp_socket_' = s
      /\ \/ AckEffect(heap, s, effect)
         \/ heap[s].close_requested
            /\ AckEffect([heap EXCEPT ![s].st = "DESTROY"], s, effect)
      /\ UNCHANGED <<sockets_, loop, dying, rstVars, last_check_>>

\* The key a RST is remembered by
Stray(addr, id, seq) == [addr |-> addr, connid |-> id, ack_nr |-> seq]

Remember(k) == [x \in DOMAIN answered \cup {k} |-> IF x = k THEN 0 ELSE answered[x]]

Cached(k) == {i \in DOMAIN rst_info_ : rst_info_[i].stray = k}

\* A packet of no known connection, answered recently: its entry is refreshed
StrayStored(addr, id, seq) ==
  LET k == Stray(addr, id, seq)
  IN  /\ Idle /\ Dispatch(addr, id) = NULL /\ Cached(k) # {}
      /\ LET i == CHOOSE j \in Cached(k) : \A l \in Cached(k) : j <= l
         IN  rst_info_' = [rst_info_ EXCEPT ![i].age = 0]
      /\ answered' = Remember(k)
      /\ UNCHANGED <<heap, sockets_, last_utp_socket_, loop, dying, ackVars, last_check_>>

\* mutant: the packet is answered without a look at the cache
StrayAnsweredAlways(addr, id, seq) ==
  LET k == Stray(addr, id, seq)
  IN  /\ Idle /\ Dispatch(addr, id) = NULL
      /\ Len(rst_info_) <= RST_INFO_LIMIT
      /\ rst_info_' = Append(rst_info_, [stray |-> k, age |-> 0])
      /\ answered' = Remember(k)
      /\ UNCHANGED <<heap, sockets_, last_utp_socket_, loop, dying, ackVars, last_check_>>

\* Any other is answered with a RST while the cache has room
StrayAnswered(addr, id, seq) ==
  LET k == Stray(addr, id, seq)
  IN  /\ Idle /\ Dispatch(addr, id) = NULL /\ Cached(k) = {}
      /\ Len(rst_info_) <= RST_INFO_LIMIT
      /\ rst_info_' = Append(rst_info_, [stray |-> k, age |-> 0])
      /\ answered' = Remember(k)
      /\ UNCHANGED <<heap, sockets_, last_utp_socket_, loop, dying, ackVars, last_check_>>

-----------------------------------------------------------------------------
(* issue_deferred_acks: the ACK sent leaves the list, so the index stays *)

IssueDeferredAcks ==
  /\ Idle /\ ack_sockets_ # <<>>
  /\ loop' = [name |-> "acks", todo |-> {}]
  /\ UNCHANGED <<heap, sockets_, last_utp_socket_, dying, ackVars, rstVars, last_check_>>

IssueNext ==
  /\ loop.name = "acks" /\ ack_sockets_ # <<>>
  /\ AckEffect(heap, ack_sockets_[1], "send")
  /\ UNCHANGED <<sockets_, last_utp_socket_, loop, dying, rstVars, last_check_>>

-----------------------------------------------------------------------------
(* check_timeouts *)

Expired(r) == r.age >= RST_INFO_TIMEOUT

\* The loop over rst_info_: an expired entry is replaced by the last one, and
\* the index stays.  Every iteration removes an entry or passes one
ExpireOne(a, k) ==
  IF Expired(a.rst[a.i])
  THEN [a EXCEPT !.rst = Front([a.rst EXCEPT ![a.i] = Last(a.rst)])]
  ELSE [a EXCEPT !.i = @ + 1]

Expire(rst) ==
  FoldLeft(ExpireOne, [rst |-> rst, i |-> 1], [k \in 1 .. Len(rst) |-> k]).rst

CheckTimeouts ==
  /\ Idle /\ last_check_ >= TIMEOUT_CHECK_INTERVAL
  /\ last_check_' = 0
  /\ rst_info_' = Expire(rst_info_)
  /\ loop' = [name |-> "sockets", todo |-> Range(sockets_)]
  /\ UNCHANGED <<heap, sockets_, last_utp_socket_, dying, ackVars, answered>>

\* check_timeouts of one socket of the snapshot.  It may give up; in state
\* DESTROY its destruction starts: it leaves the registry and its destructor
\* runs the callback for UTP_STATE_DESTROYING
VisitSocket(s, effect) ==
  /\ loop.name = "sockets" /\ s \in loop.todo /\ dying = NULL
  /\ loop' = [loop EXCEPT !.todo = @ \ {s}]
  /\ \E st \in {heap[s].st} \cup (IF heap[s].st = "OPEN" THEN {"RESET", "DESTROY"} ELSE {}) :
       /\ AckEffect([heap EXCEPT ![s].st = st], s, effect)
       /\ IF st = "DESTROY"
          THEN dying' = s /\ sockets_' = Erase(KeyOf(s))
          ELSE UNCHANGED <<dying, sockets_>>
  /\ UNCHANGED <<last_utp_socket_, rstVars, last_check_>>

\* mutant: the cached socket is not looked at
FinishDestroyKeepsCache ==
  LET r == RemoveAck(heap, ack_sockets_, dying)
  IN  /\ dying # NULL
      /\ heap' = [r.h EXCEPT ![dying] = NULL]
      /\ ack_sockets_' = r.l
      /\ owed' = owed \ {dying}
      /\ dying' = NULL
      /\ UNCHANGED <<sockets_, last_utp_socket_, loop, rstVars, last_check_>>

\* The rest of the destructor, after the callback
FinishDestroy ==
  LET r == RemoveAck(heap, ack_sockets_, dying)
  IN  /\ dying # NULL
      /\ last_utp_socket_' = IF last_utp_socket_ = dying THEN NULL ELSE last_utp_socket_
      /\ heap' = [r.h EXCEPT ![dying] = NULL]
      /\ ack_sockets_' = r.l
      /\ owed' = owed \ {dying}
      /\ dying' = NULL
      /\ UNCHANGED <<sockets_, loop, rstVars, last_check_>>

\* ~UtpContext takes the sockets out of the registry, then destroys them; the
\* cache of RSTs is not read again
DestroyContext ==
  /\ Idle
  /\ loop' = [name |-> "teardown", todo |-> Range(sockets_)]
  /\ sockets_' = <<>>
  /\ rst_info_' = <<>>
  /\ answered' = <<>>
  /\ UNCHANGED <<heap, last_utp_socket_, dying, ackVars, last_check_>>

DestroyNext(s) ==
  /\ loop.name = "teardown" /\ s \in loop.todo /\ dying = NULL
  /\ loop' = [loop EXCEPT !.todo = @ \ {s}]
  /\ dying' = s
  /\ UNCHANGED <<heap, sockets_, last_utp_socket_, ackVars, rstVars, last_check_>>

EndLoop ==
  /\ dying = NULL
  /\ \/ loop.name \in {"sockets", "teardown"} /\ loop.todo = {}
     \/ loop.name = "acks" /\ ack_sockets_ = <<>>
  /\ loop' = IF loop.name = "teardown" THEN [name |-> "gone", todo |-> {}] ELSE NoLoop
  /\ UNCHANGED <<heap, sockets_, last_utp_socket_, dying, ackVars, rstVars, last_check_>>

Older(age, limit) == IF age < limit THEN age + 1 ELSE age

\* Time passes
Tick ==
  /\ Idle
  /\ last_check_' = Older(last_check_, TIMEOUT_CHECK_INTERVAL)
  /\ rst_info_' = [i \in DOMAIN rst_info_ |->
                     [rst_info_[i] EXCEPT !.age = Older(@, RST_INFO_TIMEOUT)]]
  /\ answered' = [k \in {x \in DOMAIN answered : answered[x] + 1 < RST_INFO_TIMEOUT} |->
                     answered[k] + 1]
  /\ UNCHANGED <<heap, sockets_, last_utp_socket_, loop, dying, ackVars>>

Next ==
  \/ \E s \in Objects :
       \/ CreateSocket(s)
       \/ \E a \in Addrs, seed \in Seeds : Connect(s, a, seed)
       \/ \E a \in Addrs, id \in ConnIds : ProcessSyn(s, a, id)
       \/ \E e \in {"schedule", "send"} : AppCall(s, e)
       \/ \E e \in {"send", "none"} : AppClose(s, e) \/ VisitSocket(s, e)
       \/ DestroyNext(s)
  \/ \E a \in Addrs, id \in ConnIds :
       \/ ProcessReset(a, id)
       \/ \E e \in AckEffects : ProcessIncoming(a, id, e)
       \/ \E q \in SeqNrs : StrayStored(a, id, q) \/ StrayAnswered(a, id, q)
  \/ IssueDeferredAcks \/ IssueNext \/ CheckTimeouts \/ FinishDestroy
  \/ DestroyContext \/ EndLoop \/ Tick

Spec == Init /\ [][Next]_vars

\* Places on the heap are interchangeable
ObjectSymmetry == Permutations(Objects)

-----------------------------------------------------------------------------
(* Properties *)

\* The variables have their types
TypeOK ==
  /\ heap \in [Objects -> SocketRecords \cup {NULL}]
  /\ DOMAIN sockets_ \subseteq [addr : Addrs, recv_id : 0 .. ID_MOD]
  /\ ack_sockets_ \in Seq(Objects) /\ Len(ack_sockets_) <= Cardinality(Objects)
  /\ last_utp_socket_ \in Objects \cup {NULL}
  /\ loop.name \in {"none", "acks", "sockets", "teardown", "gone"}
  /\ dying \in Objects \cup {NULL}

Indexed(h, l) ==
  /\ \A i \in 1 .. Len(l) : h[l[i]] # NULL /\ h[l[i]].ida = i - 1
  /\ \A s \in Objects : h[s] # NULL /\ h[s].ida # -1 =>
       h[s].ida + 1 \in 1 .. Len(l) /\ l[h[s].ida + 1] = s

\* The index a socket keeps is its place in ack_sockets_, and the sockets in the
\* list are alive: swap-pop and the destructor keep list and indices together,
\* as the assertions of remove_ack ask
AckIndexed == Indexed(heap, ack_sockets_)

\* Every socket that owes its peer an ACK is in the list, and no other
AckOwed == Range(ack_sockets_) = owed

\* No pointer the context follows outlives its socket: not the cached socket, not
\* the snapshot of check_timeouts that runs callbacks, not the registry
NoDangling ==
  /\ last_utp_socket_ # NULL => last_utp_socket_ \in Live
  /\ loop.todo \subseteq Live
  /\ Range(sockets_) \subseteq Live

\* The registry finds exactly the initialized sockets, each under its own key
\* (the assertions of register_socket and destroy_socket), and the cached socket
\* is one the registry would find
RegistryExact ==
  /\ \A k \in DOMAIN sockets_ : KeyOf(sockets_[k]) = k
  /\ loop.name \notin {"teardown", "gone"} =>
       \A s \in Live : heap[s].st # "UNINITIALIZED" /\ s # dying =>
         KeyOf(s) \in DOMAIN sockets_ /\ sockets_[KeyOf(s)] = s
  /\ last_utp_socket_ # NULL => heap[last_utp_socket_].st # "UNINITIALIZED"

Registered == Range(sockets_)

\* The connid with which the peer of s addresses it: the peer of a connection we
\* opened answers with the id of our SYN; the initiator of one we accepted sends
\* with the id after the one in its SYN
PeerConnId(s) == Header(IF heap[s].send > heap[s].recv THEN heap[s].recv
                        ELSE heap[s].send + 1)

\* (peer address, receive id) identifies a connection: what the peer of a
\* registered socket sends is dispatched to that socket
PeerReachable ==
  \A s \in Registered :
    Idle => Dispatch(heap[s].addr, PeerConnId(s)) = s

\* A RST or ICMP error that echoes the id we send with finds a socket that uses
\* the id, and the right one when no other does
EchoFound ==
  \A s \in Registered :
    LET id == Header(heap[s].send)
        users == {t \in Registered : heap[t].addr = heap[s].addr
                                     /\ id \in {heap[t].recv, heap[t].send}}
    IN  find_socket_for_id(heap[s].addr, id) \in users

\* A packet answered with a RST, or suppressed, is not answered again within
\* RST_INFO_TIMEOUT of that: removals from the cache never lose a young entry
RstOnce ==
  [][Len(rst_info_') > Len(rst_info_) =>
       Last(rst_info_').stray \notin DOMAIN answered]_vars

=============================================================================
