--------------------------- MODULE UtpContextProofs ---------------------------
(***************************************************************************)
(* The list of deferred ACKs, the pointers and the registry of UtpContext, *)
(* for every number of sockets, addresses and ids.                         *)
(***************************************************************************)
EXTENDS UtpContext, TLAPS

Heaps == [Objects -> SocketRecords \cup {NULL}]

\* Heap g differs from h in the ack indices only
SameButIda(h, g) ==
  \A t \in Objects :
    /\ (g[t] = NULL) <=> (h[t] = NULL)
    /\ h[t] # NULL => /\ g[t].addr = h[t].addr /\ g[t].recv = h[t].recv
                      /\ g[t].send = h[t].send /\ g[t].st = h[t].st
                      /\ g[t].close_requested = h[t].close_requested
                      /\ g[t].closed = h[t].closed

-----------------------------------------------------------------------------
(* The list of deferred ACKs *)

\* Giving a socket an index leaves a heap, and its other fields
LEMMA SetIda ==
  ASSUME NEW h \in Heaps, NEW s \in Objects, h[s] # NULL, NEW i \in Int
  PROVE  LET g == [h EXCEPT ![s].ida = i]
         IN  /\ g \in Heaps /\ SameButIda(h, g)
             /\ g[s].ida = i
             /\ \A t \in Objects : t # s => g[t] = h[t]
  <1> DEFINE g == [h EXCEPT ![s].ida = i]
  <1>1. h[s] \in SocketRecords  BY DEF Heaps
  <1>2. [h[s] EXCEPT !.ida = i] \in SocketRecords  BY <1>1 DEF SocketRecords
  <1>3. g \in Heaps /\ g[s] = [h[s] EXCEPT !.ida = i] /\ \A t \in Objects : t # s => g[t] = h[t]
    BY <1>2 DEF Heaps
  <1>4. g[s] # NULL  BY <1>2, <1>3, ContextAssumption
  <1>5. /\ g[s].ida = i /\ g[s].addr = h[s].addr /\ g[s].recv = h[s].recv
        /\ g[s].send = h[s].send /\ g[s].st = h[s].st
        /\ g[s].close_requested = h[s].close_requested /\ g[s].closed = h[s].closed
    BY <1>1, <1>3 DEF SocketRecords
  <1>6. SameButIda(h, g)
    <2> SUFFICES ASSUME NEW t \in Objects
                 PROVE  /\ (g[t] = NULL) <=> (h[t] = NULL)
                        /\ h[t] # NULL => /\ g[t].addr = h[t].addr /\ g[t].recv = h[t].recv
                                          /\ g[t].send = h[t].send /\ g[t].st = h[t].st
                                          /\ g[t].close_requested = h[t].close_requested
                                          /\ g[t].closed = h[t].closed
      BY DEF SameButIda
    <2>1. CASE t = s  BY <1>4, <1>5, <2>1
    <2>2. CASE t # s  BY <1>3, <2>2
    <2> QED BY <2>1, <2>2
  <1> QED BY <1>3, <1>5, <1>6

\* schedule_ack keeps list and indices together and adds the socket
LEMMA ScheduleAckIndexed ==
  ASSUME NEW h \in Heaps, NEW l \in Seq(Objects), NEW s \in Objects,
         h[s] # NULL, Indexed(h, l)
  PROVE  LET r == ScheduleAck(h, l, s)
         IN  /\ r.h \in Heaps /\ r.l \in Seq(Objects)
             /\ Indexed(r.h, r.l) /\ SameButIda(h, r.h)
             /\ Range(r.l) = Range(l) \cup {s}
             /\ \A t \in Objects : t # s => r.h[t] = h[t]
  <1> DEFINE r == ScheduleAck(h, l, s)
             g == [h EXCEPT ![s].ida = Len(l)]
             m == Append(l, s)
  <1>1. CASE h[s].ida # -1
    <2>1. r.h = h /\ r.l = l  BY <1>1 DEF ScheduleAck
    <2>2. s \in Range(l)
      <3>1. h[s].ida + 1 \in 1 .. Len(l) /\ l[h[s].ida + 1] = s  BY <1>1 DEF Indexed
      <3> QED BY <3>1 DEF Range
    <2> HIDE DEF r
    <2> QED BY <2>1, <2>2 DEF SameButIda, r
  <1>2. CASE h[s].ida = -1
    <2>1. r.h = g /\ r.l = m  BY <1>2 DEF ScheduleAck
    <2>2. g \in Heaps /\ SameButIda(h, g) /\ g[s].ida = Len(l)
          /\ \A t \in Objects : t # s => g[t] = h[t]
      <3> DEFINE n == Len(l)
      <3>1. n \in Int  OBVIOUS
      <3> HIDE DEF n
      <3>2. LET e == [h EXCEPT ![s].ida = n]
            IN  /\ e \in Heaps /\ SameButIda(h, e) /\ e[s].ida = n
                /\ \A t \in Objects : t # s => e[t] = h[t]
        BY <3>1, SetIda
      <3> QED BY <3>2 DEF n
    <2>3. m \in Seq(Objects) /\ Len(m) = Len(l) + 1 /\ m[Len(l) + 1] = s
          /\ \A i \in 1 .. Len(l) : m[i] = l[i]
      OBVIOUS
    <2> HIDE DEF g, m, r
    <2>4. \A i \in 1 .. Len(l) : l[i] # s
      BY <1>2 DEF Indexed
    <2>5. Range(m) = Range(l) \cup {s}
      BY <2>3 DEF Range
    <2>6. \A i \in 1 .. Len(m) : g[m[i]] # NULL /\ g[m[i]].ida = i - 1
      BY <2>2, <2>3, <2>4 DEF Indexed, SameButIda
    <2>7. \A t \in Objects : g[t] # NULL /\ g[t].ida # -1 =>
             g[t].ida + 1 \in 1 .. Len(m) /\ m[g[t].ida + 1] = t
      <3> SUFFICES ASSUME NEW t \in Objects, g[t] # NULL, g[t].ida # -1
                   PROVE  g[t].ida + 1 \in 1 .. Len(m) /\ m[g[t].ida + 1] = t
        OBVIOUS
      <3>1. CASE t = s  BY <2>2, <2>3, <3>1
      <3>2. CASE t # s  BY <2>2, <2>3, <3>2 DEF Indexed
      <3> QED BY <3>1, <3>2
    <2> QED BY <2>1, <2>2, <2>3, <2>5, <2>6, <2>7 DEF Indexed, r
  <1> QED BY <1>1, <1>2, h[s] \in SocketRecords DEF Heaps, SocketRecords

\* The relation is one of equivalence
LEMMA SameButIdaTrans ==
  ASSUME NEW h \in Heaps, NEW g \in Heaps, NEW f \in Heaps,
         SameButIda(h, g), SameButIda(g, f)
  PROVE  SameButIda(h, f)
  BY DEF SameButIda

\* remove_ack keeps list and indices together, removes the socket and no other
LEMMA RemoveAckIndexed ==
  ASSUME NEW h \in Heaps, NEW l \in Seq(Objects), NEW s \in Objects,
         h[s] # NULL, Indexed(h, l)
  PROVE  LET r == RemoveAck(h, l, s)
         IN  /\ r.h \in Heaps /\ r.l \in Seq(Objects)
             /\ Indexed(r.h, r.l) /\ SameButIda(h, r.h)
             /\ Range(r.l) = Range(l) \ {s}
             /\ r.h[s].ida = -1
  <1> DEFINE r == RemoveAck(h, l, s)
             idx == h[s].ida
             last == l[Len(l)]
             g == [h EXCEPT ![last].ida = idx]
             f == [g EXCEPT ![s].ida = -1]
             m == SubSeq([l EXCEPT ![idx + 1] = last], 1, Len(l) - 1)
  <1>0. h[s] \in SocketRecords /\ idx \in Int  BY DEF Heaps, SocketRecords
  <1>1. CASE idx < 0
    <2>1. r.h = h /\ r.l = l  BY <1>1 DEF RemoveAck
    <2>2. idx = -1  BY <1>0, <1>1 DEF Indexed
    <2>3. s \notin Range(l)  BY <2>2 DEF Range, Indexed
    <2> HIDE DEF r
    <2> QED BY <2>1, <2>2, <2>3 DEF SameButIda, r
  <1>2. CASE ~(idx < 0)
    <2>1. r.h = f /\ r.l = m  BY <1>2 DEF RemoveAck
    <2>2. idx + 1 \in 1 .. Len(l) /\ l[idx + 1] = s  BY <1>0, <1>2 DEF Indexed
    <2>3. Len(l) \in 1 .. Len(l) /\ Len(l) \in Nat  BY <2>2
    <2>4. last \in Objects /\ h[last] # NULL /\ h[last].ida = Len(l) - 1
      BY <2>3 DEF Indexed
    <2>5. g \in Heaps /\ SameButIda(h, g) /\ g[last].ida = idx
          /\ \A t \in Objects : t # last => g[t] = h[t]
      <3> HIDE DEF idx, last
      <3> QED BY <1>0, <2>4, SetIda
    <2> HIDE DEF g
    <2>6. g[s] # NULL  BY <2>5 DEF SameButIda
    <2>7. f \in Heaps /\ SameButIda(g, f) /\ f[s].ida = -1
          /\ \A t \in Objects : t # s => f[t] = g[t]
      <3> DEFINE n == -1
      <3>1. n \in Int  OBVIOUS
      <3> HIDE DEF n
      <3>2. LET e == [g EXCEPT ![s].ida = n]
            IN  /\ e \in Heaps /\ SameButIda(g, e) /\ e[s].ida = n
                /\ \A t \in Objects : t # s => e[t] = g[t]
        BY <2>5, <2>6, <3>1, SetIda
      <3> QED BY <3>2 DEF n, f
    <2> HIDE DEF f
    <2>8. SameButIda(h, f)  BY <2>5, <2>7, SameButIdaTrans
    <2>9. /\ m \in Seq(Objects) /\ Len(m) = Len(l) - 1
          /\ \A i \in 1 .. Len(l) - 1 : m[i] = IF i = idx + 1 THEN last ELSE l[i]
      <3> DEFINE n == [l EXCEPT ![idx + 1] = last]
      <3>1. n \in Seq(Objects) /\ Len(n) = Len(l)  BY <2>2, <2>4
      <3>2. \A i \in 1 .. Len(l) : n[i] = IF i = idx + 1 THEN last ELSE l[i]  BY <2>2
      <3> HIDE DEF n
      <3>3. m = SubSeq(n, 1, Len(l) - 1)  BY DEF n
      <3> QED BY <2>3, <3>1, <3>2, <3>3
    <2> HIDE DEF m, r, last
    <2>10. \A i, j \in 1 .. Len(l) : l[i] = l[j] => i = j
      BY DEF Indexed
    <2>11. \A i \in 1 .. Len(l) : i # Len(l) => l[i] # last
      BY <2>3, <2>10 DEF last
    <2>12. Range(m) = Range(l) \ {s}
      <3>1. ASSUME NEW i \in 1 .. Len(m) PROVE m[i] \in Range(l) \ {s}
        <4>1. CASE i = idx + 1
          <5>1. m[i] = l[Len(l)]  BY <2>9, <4>1 DEF last
          <5>2. i # Len(l)  BY <2>3, <2>9
          <5>3. l[Len(l)] # l[i]  BY <2>2, <2>3, <2>10, <4>1, <5>2
          <5> QED BY <2>2, <2>3, <4>1, <5>1, <5>3 DEF Range
        <4>2. CASE i # idx + 1
          <5>1. i \in 1 .. Len(l) /\ m[i] = l[i]  BY <2>3, <2>9, <4>2
          <5>2. l[i] # s  BY <2>2, <2>10, <4>2, <5>1
          <5> QED BY <5>1, <5>2 DEF Range
        <4> QED BY <4>1, <4>2
      <3>2. ASSUME NEW i \in 1 .. Len(l), l[i] # s PROVE \E j \in 1 .. Len(m) : m[j] = l[i]
        <4>1. CASE i = Len(l)
          <5>1. idx + 1 # Len(l)  BY <2>2, <3>2, <4>1
          <5>2. idx + 1 \in 1 .. Len(m) /\ m[idx + 1] = l[i]
            BY <1>0, <2>2, <2>3, <2>9, <4>1, <5>1 DEF last
          <5> QED BY <5>2
        <4>2. CASE i # Len(l)
          <5>1. i \in 1 .. Len(m) /\ m[i] = l[i]  BY <2>2, <2>3, <2>9, <3>2, <4>2
          <5> QED BY <5>1
        <4> QED BY <4>1, <4>2
      <3>3. DOMAIN m = 1 .. Len(m) /\ DOMAIN l = 1 .. Len(l)  BY <2>9
      <3>4. Range(m) \subseteq Range(l) \ {s}  BY <3>1, <3>3 DEF Range
      <3>5. Range(l) \ {s} \subseteq Range(m)
        <4> SUFFICES ASSUME NEW x \in Range(l), x # s PROVE x \in Range(m)
          OBVIOUS
        <4>1. PICK i \in 1 .. Len(l) : l[i] = x  BY <3>3 DEF Range
        <4> QED BY <3>2, <3>3, <4>1 DEF Range
      <3> QED BY <3>4, <3>5
    <2>13. \A i \in 1 .. Len(m) : f[m[i]] # NULL /\ f[m[i]].ida = i - 1
      <3> SUFFICES ASSUME NEW i \in 1 .. Len(m)
                   PROVE  f[m[i]] # NULL /\ f[m[i]].ida = i - 1
        OBVIOUS
      <3>0. i \in 1 .. Len(l) - 1 /\ i \in 1 .. Len(l) /\ i # Len(l)  BY <2>3, <2>9
      <3>1. CASE i = idx + 1
        <4>1. m[i] = last /\ last # s  BY <2>2, <2>9, <2>11, <3>0, <3>1
        <4>2. f[last].ida = idx /\ f[last] # NULL
          BY <2>4, <2>5, <2>7, <2>8, <4>1 DEF SameButIda
        <4> QED BY <1>0, <3>1, <4>1, <4>2
      <3>2. CASE i # idx + 1
        <4>1. m[i] = l[i] /\ l[i] # last /\ l[i] # s /\ l[i] \in Objects
          BY <2>2, <2>9, <2>10, <2>11, <3>0, <3>2
        <4>2. f[l[i]] = h[l[i]]  BY <2>5, <2>7, <4>1
        <4> QED BY <3>0, <4>1, <4>2 DEF Indexed
      <3> QED BY <3>1, <3>2
    <2>14. \A t \in Objects : f[t] # NULL /\ f[t].ida # -1 =>
             f[t].ida + 1 \in 1 .. Len(m) /\ m[f[t].ida + 1] = t
      <3> SUFFICES ASSUME NEW t \in Objects, f[t] # NULL, f[t].ida # -1
                   PROVE  f[t].ida + 1 \in 1 .. Len(m) /\ m[f[t].ida + 1] = t
        OBVIOUS
      <3>1. t # s /\ f[t] = g[t]  BY <2>7
      <3>2. CASE t = last
        <4>1. idx + 1 # Len(l)  BY <2>2, <3>1, <3>2 DEF last
        <4>2. f[t].ida = idx  BY <2>5, <3>1, <3>2
        <4> QED BY <1>0, <2>2, <2>3, <2>9, <3>2, <4>1, <4>2
      <3>3. CASE t # last
        <4>1. f[t] = h[t]  BY <2>5, <3>1, <3>3
        <4>2. h[t].ida + 1 \in 1 .. Len(l) /\ l[h[t].ida + 1] = t
          BY <4>1 DEF Indexed
        <4>3. h[t].ida + 1 # Len(l) /\ h[t].ida + 1 # idx + 1
          BY <2>2, <3>1, <3>3, <4>2 DEF last
        <4>4. h[t].ida + 1 \in 1 .. Len(l) - 1  BY <2>3, <4>2, <4>3
        <4> QED BY <2>9, <4>1, <4>2, <4>3, <4>4
      <3> QED BY <3>2, <3>3
    <2> QED BY <2>1, <2>7, <2>8, <2>9, <2>12, <2>13, <2>14 DEF Indexed, r
  <1> QED BY <1>1, <1>2

-----------------------------------------------------------------------------
(* The invariant *)

LoopNames == {"none", "acks", "sockets", "teardown", "gone"}

\* The part of the types the argument needs
Types ==
  /\ heap \in Heaps
  /\ ack_sockets_ \in Seq(Objects)
  /\ sockets_ \in [DOMAIN sockets_ -> Objects]
  /\ last_utp_socket_ \in Objects \cup {NULL}
  /\ dying \in Objects \cup {NULL}
  /\ loop \in [name : LoopNames, todo : SUBSET Objects]

\* s is a socket that initialize has seen
Initialized(h, s) == h[s] # NULL /\ h[s].st # "UNINITIALIZED"

\* Every pointer names an initialized socket; the one being destroyed is no
\* longer in the registry or ahead in a loop
Pointers(h) ==
  /\ \A k \in DOMAIN sockets_ : Initialized(h, sockets_[k]) /\ sockets_[k] # dying
  /\ last_utp_socket_ # NULL => Initialized(h, last_utp_socket_)
  /\ \A s \in loop.todo : Initialized(h, s) /\ s # dying
  /\ dying # NULL => Initialized(h, dying) /\ loop.name \in {"sockets", "teardown"}

\* Each socket in the registry is there under its key, and each initialized one
\* is there until its destruction starts, or that of the context
Registry(h) ==
  /\ \A k \in DOMAIN sockets_ : Key(h[sockets_[k]].addr, h[sockets_[k]].recv) = k
  /\ loop.name \notin {"teardown", "gone"} =>
       \A s \in Objects : Initialized(h, s) /\ s # dying =>
         /\ Key(h[s].addr, h[s].recv) \in DOMAIN sockets_
         /\ sockets_[Key(h[s].addr, h[s].recv)] = s
  /\ loop.name \in {"teardown", "gone"} => DOMAIN sockets_ = {}

\* Ids are a seed and its successor, or the id of a SYN and its successor; a
\* socket that was never connected has no ACK to send
Ids(h) ==
  \A s \in Objects : h[s] # NULL =>
    IF h[s].st = "UNINITIALIZED" THEN h[s].ida = -1
    ELSE \/ h[s].recv \in Seeds /\ h[s].send = h[s].recv + 1
         \/ h[s].send \in ConnIds /\ h[s].recv = h[s].send + 1

ContextInv ==
  /\ Types /\ Indexed(heap, ack_sockets_) /\ Range(ack_sockets_) = owed
  /\ Pointers(heap) /\ Registry(heap) /\ Ids(heap)

\* Heap g has the sockets of h, with their addresses and ids; it may differ in
\* their states, not in whether they were initialized
SameSockets(h, g) ==
  \A t \in Objects :
    /\ (g[t] = NULL) <=> (h[t] = NULL)
    /\ h[t] # NULL =>
         /\ g[t].addr = h[t].addr /\ g[t].recv = h[t].recv /\ g[t].send = h[t].send
         /\ (g[t].st = "UNINITIALIZED") <=> (h[t].st = "UNINITIALIZED")

\* The parts about sockets only read what SameSockets keeps
LEMMA KeepsParts ==
  ASSUME Types, NEW g, SameSockets(heap, g),
         Pointers(heap), Registry(heap), Ids(heap),
         \A t \in Objects : heap[t] # NULL /\ heap[t].st = "UNINITIALIZED" =>
                              g[t].ida = heap[t].ida
  PROVE  Pointers(g) /\ Registry(g) /\ Ids(g)
  <1>1. \A t \in Objects : Initialized(heap, t) <=> Initialized(g, t)
    BY DEF SameSockets, Initialized
  <1>2. Pointers(g)
    BY <1>1 DEF Pointers, Types
  <1>3. \A t \in Objects : Initialized(heap, t) =>
           g[t].addr = heap[t].addr /\ g[t].recv = heap[t].recv /\ g[t].send = heap[t].send
    BY DEF SameSockets, Initialized
  <1>4. Registry(g)
    BY <1>1, <1>3 DEF Registry, Pointers, Types
  <1>5. Ids(g)
    BY DEF Ids, SameSockets
  <1> QED BY <1>2, <1>4, <1>5

\* A call that changes the state of initialized sockets and then the deferred
\* ACK of one of them keeps the list and the sockets
LEMMA AckEffectKeeps ==
  ASSUME ContextInv, NEW s \in Objects, Initialized(heap, s), NEW h \in Heaps,
         SameSockets(heap, h),
         \A t \in Objects : heap[t] # NULL => h[t].ida = heap[t].ida,
         NEW e \in AckEffects, AckEffect(h, s, e)
  PROVE  /\ heap' \in Heaps /\ ack_sockets_' \in Seq(Objects)
         /\ Indexed(heap', ack_sockets_') /\ Range(ack_sockets_') = owed'
         /\ Pointers(heap') /\ Registry(heap') /\ Ids(heap')
         /\ SameSockets(heap, heap')
         /\ \A t \in Objects : h[t] # NULL => heap'[t].st = h[t].st
  <1>1. Indexed(h, ack_sockets_)
    <2>1. \A t \in Objects : (h[t] = NULL) <=> (heap[t] = NULL)  BY DEF SameSockets
    <2> QED BY <2>1 DEF ContextInv, Types, Indexed
  <1>2. h[s] # NULL /\ ack_sockets_ \in Seq(Objects) /\ Range(ack_sockets_) = owed
    BY DEF SameSockets, Initialized, ContextInv, Types
  <1>3. /\ heap' \in Heaps /\ ack_sockets_' \in Seq(Objects)
        /\ Indexed(heap', ack_sockets_') /\ Range(ack_sockets_') = owed'
        /\ SameButIda(h, heap') /\ owed' \subseteq owed \cup {s}
    <2>1. CASE e = "schedule"
      BY <1>1, <1>2, <2>1, ScheduleAckIndexed DEF AckEffect
    <2>2. CASE e = "send"
      BY <1>1, <1>2, <2>2, RemoveAckIndexed DEF AckEffect
    <2>3. CASE e = "none"
      <3>1. heap' = h /\ ack_sockets_' = ack_sockets_ /\ owed' = owed
        BY <2>3 DEF AckEffect
      <3> QED BY <1>1, <1>2, <3>1 DEF SameButIda
    <2> QED BY <2>1, <2>2, <2>3 DEF AckEffects
  <1>4. SameSockets(heap, heap')
    BY <1>3 DEF SameSockets, SameButIda
  <1>5. ASSUME NEW t \in Objects, heap[t] # NULL, heap[t].st = "UNINITIALIZED"
        PROVE  heap'[t].ida = heap[t].ida
    <2>1. heap[t].ida = -1  BY <1>5 DEF ContextInv, Ids
    <2>2. t \notin owed'
      <3>1. t \notin Range(ack_sockets_)
        BY <1>2, <2>1 DEF Range, ContextInv, Indexed
      <3> QED BY <1>2, <1>3, <1>5, <3>1 DEF Initialized
    <2>3. heap'[t] # NULL  BY <1>4, <1>5 DEF SameSockets
    <2>4. CASE heap'[t].ida # -1
      <3>1. heap'[t].ida + 1 \in 1 .. Len(ack_sockets_') /\ ack_sockets_'[heap'[t].ida + 1] = t
        BY <1>3, <2>3, <2>4 DEF Indexed
      <3>2. t \in Range(ack_sockets_')  BY <1>3, <3>1 DEF Range
      <3> QED BY <1>3, <2>2, <3>2
    <2> QED BY <2>1, <2>4
  <1>6. Pointers(heap') /\ Registry(heap') /\ Ids(heap')
    BY <1>4, <1>5, KeepsParts DEF ContextInv
  <1>7. \A t \in Objects : h[t] # NULL => heap'[t].st = h[t].st
    BY <1>3 DEF SameButIda
  <1> QED BY <1>3, <1>4, <1>6, <1>7

\* A socket that gets another state is the same socket
LEMMA SetState ==
  ASSUME NEW h \in Heaps, NEW s \in Objects, Initialized(h, s),
         NEW g \in Heaps, NEW rec \in SocketRecords, g[s] = rec,
         \A t \in Objects : t # s => g[t] = h[t],
         rec.addr = h[s].addr, rec.recv = h[s].recv, rec.send = h[s].send,
         rec.ida = h[s].ida, rec.st # "UNINITIALIZED"
  PROVE  /\ SameSockets(h, g)
         /\ \A t \in Objects : h[t] # NULL => g[t].ida = h[t].ida
  <1>1. rec # NULL  BY ContextAssumption
  <1>2. ASSUME NEW t \in Objects
        PROVE  /\ (g[t] = NULL) <=> (h[t] = NULL)
               /\ h[t] # NULL =>
                    /\ g[t].addr = h[t].addr /\ g[t].recv = h[t].recv /\ g[t].send = h[t].send
                    /\ (g[t].st = "UNINITIALIZED") <=> (h[t].st = "UNINITIALIZED")
                    /\ g[t].ida = h[t].ida
    <2>1. CASE t = s  BY <1>1, <2>1 DEF Initialized
    <2>2. CASE t # s  BY <2>2
    <2> QED BY <2>1, <2>2
  <1> QED BY <1>2 DEF SameSockets

\* Registering a new socket under a free key keeps the invariant
LEMMA RegisterKeeps ==
  ASSUME ContextInv, loop.name \in {"none", "sockets"}, NEW s \in Objects,
         ~Initialized(heap, s),
         NEW addr \in Addrs, NEW recv \in Nat, NEW send \in Nat,
         \/ recv \in Seeds /\ send = recv + 1
         \/ send \in ConnIds /\ recv = send + 1,
         Key(addr, recv) \notin DOMAIN sockets_,
         sockets_' = register_socket(Key(addr, recv), s),
         heap' = [heap EXCEPT ![s] = Socket(addr, recv, send, "OPEN")],
         UNCHANGED <<last_utp_socket_, loop, dying, ackVars>>
  PROVE  ContextInv'
  <1> DEFINE rec == Socket(addr, recv, send, "OPEN")
             key == Key(addr, recv)
  <1>1. /\ rec \in SocketRecords /\ rec # NULL /\ rec.ida = -1 /\ rec.st = "OPEN"
        /\ rec.addr = addr /\ rec.recv = recv /\ rec.send = send
    <2>1. rec \in SocketRecords  BY DEF Socket, SocketRecords
    <2> QED BY <2>1, ContextAssumption DEF Socket
  <1> HIDE DEF rec
  <1>2. /\ heap' \in Heaps /\ heap'[s] = rec
        /\ \A t \in Objects : t # s => heap'[t] = heap[t]
    BY <1>1 DEF ContextInv, Types, Heaps, rec
  <1>3. Initialized(heap', s) /\ \A t \in Objects : t # s =>
           (Initialized(heap', t) <=> Initialized(heap, t))
    BY <1>1, <1>2 DEF Initialized
  <1>4. /\ DOMAIN sockets_' = DOMAIN sockets_ \cup {key} /\ sockets_'[key] = s
        /\ \A k \in DOMAIN sockets_ : sockets_'[k] = sockets_[k] /\ k # key
        /\ sockets_' \in [DOMAIN sockets_' -> Objects]
    BY DEF register_socket, ContextInv, Types
  <1>5. Types'
    BY <1>2, <1>4 DEF ContextInv, Types, ackVars
  <1>6. heap[s] # NULL => heap[s].ida = -1
    BY DEF ContextInv, Ids, Initialized
  <1>7. \A i \in 1 .. Len(ack_sockets_) : ack_sockets_[i] # s
    BY <1>6 DEF ContextInv, Indexed
  <1>8. Indexed(heap', ack_sockets_)
    <2>1. \A i \in 1 .. Len(ack_sockets_) : ack_sockets_[i] \in Objects
      BY DEF ContextInv, Types
    <2> QED BY <1>1, <1>2, <1>7, <2>1 DEF ContextInv, Indexed
  <1>9. s # dying /\ s \notin loop.todo /\ s # last_utp_socket_
        /\ \A k \in DOMAIN sockets_ : sockets_[k] # s
    BY ContextAssumption DEF ContextInv, Pointers, Types
  <1>10. Pointers(heap)'
    BY <1>3, <1>4, <1>9 DEF ContextInv, Pointers, Types
  <1>11. Registry(heap)'
    <2>1. ASSUME NEW k \in DOMAIN sockets_'
          PROVE  Key(heap'[sockets_'[k]].addr, heap'[sockets_'[k]].recv) = k
      <3>1. CASE k = key  BY <1>1, <1>2, <1>4, <3>1
      <3>2. CASE k # key
        <4>1. k \in DOMAIN sockets_ /\ sockets_'[k] = sockets_[k] /\ sockets_[k] # s
              /\ sockets_[k] \in Objects
          BY <1>4, <1>9, <2>1, <3>2 DEF ContextInv, Types
        <4> QED BY <1>2, <4>1 DEF ContextInv, Registry
      <3> QED BY <3>1, <3>2
    <2>2. ASSUME NEW t \in Objects, Initialized(heap', t), t # dying
          PROVE  /\ Key(heap'[t].addr, heap'[t].recv) \in DOMAIN sockets_'
                 /\ sockets_'[Key(heap'[t].addr, heap'[t].recv)] = t
      <3>1. CASE t = s  BY <1>1, <1>2, <1>4, <3>1
      <3>2. CASE t # s
        BY <1>2, <1>3, <1>4, <2>2, <3>2 DEF ContextInv, Registry
      <3> QED BY <3>1, <3>2
    <2> QED BY <2>1, <2>2 DEF Registry
  <1>12. Ids(heap)'
    BY <1>1, <1>2 DEF ContextInv, Ids
  <1> QED BY <1>5, <1>8, <1>10, <1>11, <1>12 DEF ContextInv, ackVars

-----------------------------------------------------------------------------
(* The steps *)

LEMMA InitInv == Init => ContextInv
  BY ContextAssumption DEF Init, ContextInv, Types, Heaps, Indexed, Range, Pointers,
     Registry, Ids, Initialized, NoLoop, LoopNames

\* Steps that leave heap, registry, list, cache and loop alone
LEMMA FrameInv ==
  ASSUME ContextInv,
         UNCHANGED <<heap, sockets_, last_utp_socket_, loop, dying, ackVars>>
  PROVE  ContextInv'
  BY DEF ContextInv, Types, Indexed, Range, Pointers, Registry, Ids, Initialized,
     ackVars

\* Steps that change the state of a socket and a deferred ACK only
LEMMA SocketStepInv ==
  ASSUME ContextInv, NEW s \in Objects, Initialized(heap, s), NEW h \in Heaps,
         SameSockets(heap, h),
         \A t \in Objects : heap[t] # NULL => h[t].ida = heap[t].ida,
         NEW e \in AckEffects, AckEffect(h, s, e),
         UNCHANGED <<sockets_, last_utp_socket_, loop, dying>>
  PROVE  ContextInv'
  <1>1. /\ heap' \in Heaps /\ ack_sockets_' \in Seq(Objects)
        /\ Indexed(heap', ack_sockets_') /\ Range(ack_sockets_') = owed'
        /\ Pointers(heap') /\ Registry(heap') /\ Ids(heap')
    BY AckEffectKeeps
  <1>2. Types'  BY <1>1 DEF ContextInv, Types
  <1>3. Pointers(heap)'  BY <1>1 DEF Pointers
  <1>4. Registry(heap)'  BY <1>1 DEF Registry
  <1> QED BY <1>1, <1>2, <1>3, <1>4 DEF ContextInv, Ids, Indexed, Range

LEMMA CreateSocketInv ==
  ASSUME ContextInv, NEW s \in Objects, CreateSocket(s)
  PROVE  ContextInv'
  <1>1. /\ Uninitialized \in SocketRecords /\ Uninitialized # NULL
        /\ Uninitialized.ida = -1 /\ Uninitialized.st = "UNINITIALIZED"
    <2>1. Uninitialized \in SocketRecords  BY DEF Uninitialized, Socket, SocketRecords
    <2> QED BY <2>1, ContextAssumption DEF Uninitialized, Socket
  <1>2. /\ heap' \in Heaps /\ heap'[s] = Uninitialized /\ heap[s] = NULL
        /\ \A t \in Objects : t # s => heap'[t] = heap[t]
    BY <1>1 DEF CreateSocket, ContextInv, Types, Heaps
  <1>3. \A t \in Objects : /\ Initialized(heap', t) <=> Initialized(heap, t)
                           /\ Initialized(heap, t) => heap'[t] = heap[t]
    BY <1>1, <1>2 DEF Initialized
  <1>4. UNCHANGED <<sockets_, last_utp_socket_, loop, dying, ack_sockets_, owed>>
    BY DEF CreateSocket, ackVars
  <1>5. Types'  BY <1>2, <1>4 DEF ContextInv, Types
  <1>6. Indexed(heap', ack_sockets_)
    <2>1. \A i \in 1 .. Len(ack_sockets_) : ack_sockets_[i] \in Objects
      BY DEF ContextInv, Types
    <2> QED BY <1>1, <1>2, <2>1 DEF ContextInv, Indexed
  <1>7. Pointers(heap)'  BY <1>3, <1>4 DEF ContextInv, Pointers, Types
  <1>8. Registry(heap)'
    BY <1>3, <1>4 DEF ContextInv, Registry, Pointers, Types
  <1>9. Ids(heap)'  BY <1>1, <1>2 DEF ContextInv, Ids
  <1> QED BY <1>4, <1>5, <1>6, <1>7, <1>8, <1>9 DEF ContextInv

LEMMA ConnectInv ==
  ASSUME ContextInv, NEW s \in Objects, NEW a \in Addrs, NEW seed \in Seeds,
         Connect(s, a, seed)
  PROVE  ContextInv'
  <1>1. seed \in 0 .. ID_MOD - 1 /\ seed \in Nat /\ seed + 1 \in Nat
    BY ContextAssumption
  <1>2. ~Initialized(heap, s)  BY DEF Connect, Initialized
  <1> DEFINE send == seed + 1
  <1>3. send \in Nat /\ send = seed + 1  BY <1>1
  <1>4. heap' = [heap EXCEPT ![s] = Socket(a, seed, send, "OPEN")]  BY DEF Connect
  <1> HIDE DEF send
  <1> QED BY <1>1, <1>2, <1>3, <1>4, RegisterKeeps DEF Connect, Callable

LEMMA ProcessSynInv ==
  ASSUME ContextInv, NEW s \in Objects, NEW a \in Addrs, NEW id \in ConnIds,
         ProcessSyn(s, a, id)
  PROVE  ContextInv'
  <1>1. id \in Nat /\ id + 1 \in Nat  BY ContextAssumption
  <1>2. ~Initialized(heap, s)  BY DEF ProcessSyn, Initialized
  <1> DEFINE recv == id + 1
  <1>3. /\ recv \in Nat /\ recv = id + 1
        /\ Key(a, recv) \notin DOMAIN sockets_
        /\ sockets_' = register_socket(Key(a, recv), s)
        /\ heap' = [heap EXCEPT ![s] = Socket(a, recv, id, "OPEN")]
    BY <1>1 DEF ProcessSyn
  <1> HIDE DEF recv
  <1> QED BY <1>1, <1>2, <1>3, RegisterKeeps DEF ProcessSyn, Idle

LEMMA AppCallInv ==
  ASSUME ContextInv, NEW s \in Objects, NEW e \in AckEffects, AppCall(s, e)
  PROVE  ContextInv'
  <1>1. Initialized(heap, s)  BY DEF AppCall, Usable, Live, Initialized
  <1>2. heap \in Heaps /\ SameSockets(heap, heap)
    BY DEF ContextInv, Types, SameSockets
  <1> QED BY <1>1, <1>2, SocketStepInv DEF AppCall

LEMMA AppCloseInv ==
  ASSUME ContextInv, NEW s \in Objects, NEW e \in AckEffects, AppClose(s, e)
  PROVE  ContextInv'
  <1> DEFINE h == [heap EXCEPT ![s].closed = TRUE]
             d == [h EXCEPT ![s].st = "DESTROY"]
             c == [h EXCEPT ![s].close_requested = TRUE]
  <1>1. Initialized(heap, s)  BY DEF AppClose, Usable, Live, Initialized
  <1>2. heap \in Heaps /\ heap[s] \in SocketRecords
    BY <1>1 DEF ContextInv, Types, Heaps, Initialized
  <1>3. /\ heap[s].st \in {"OPEN", "RESET", "DESTROY"}
        /\ heap[s].close_requested \in BOOLEAN
    BY <1>1, <1>2 DEF SocketRecords, Initialized
  <1>4. CASE AckEffect(d, s, "none")
    <2> DEFINE rec == [heap[s] EXCEPT !.closed = TRUE, !.st = "DESTROY"]
    <2>1. /\ rec \in SocketRecords /\ rec.st # "UNINITIALIZED"
          /\ rec.addr = heap[s].addr /\ rec.recv = heap[s].recv
          /\ rec.send = heap[s].send /\ rec.ida = heap[s].ida
      BY <1>2 DEF SocketRecords
    <2>2. d \in Heaps /\ d[s] = rec /\ \A t \in Objects : t # s => d[t] = heap[t]
      BY <1>2, <2>1 DEF Heaps, SocketRecords
    <2> HIDE DEF d, rec
    <2>3. /\ SameSockets(heap, d)
          /\ \A t \in Objects : heap[t] # NULL => d[t].ida = heap[t].ida
      BY <1>1, <1>2, <2>1, <2>2, SetState
    <2> QED BY <1>1, <1>4, <2>2, <2>3, SocketStepInv DEF AppClose, AckEffects
  <1>5. CASE heap[s].st = "OPEN" /\ AckEffect(c, s, e)
    <2> DEFINE rec == [heap[s] EXCEPT !.closed = TRUE, !.close_requested = TRUE]
    <2>1. /\ rec \in SocketRecords /\ rec.st # "UNINITIALIZED"
          /\ rec.addr = heap[s].addr /\ rec.recv = heap[s].recv
          /\ rec.send = heap[s].send /\ rec.ida = heap[s].ida
      BY <1>2, <1>3 DEF SocketRecords
    <2>2. c \in Heaps /\ c[s] = rec /\ \A t \in Objects : t # s => c[t] = heap[t]
      BY <1>2, <2>1 DEF Heaps, SocketRecords
    <2> HIDE DEF c, rec
    <2>3. /\ SameSockets(heap, c)
          /\ \A t \in Objects : heap[t] # NULL => c[t].ida = heap[t].ida
      BY <1>1, <1>2, <2>1, <2>2, SetState
    <2> QED BY <1>1, <1>5, <2>2, <2>3, SocketStepInv DEF AppClose
  <1> QED BY <1>4, <1>5 DEF AppClose

\* Both lookups yield an initialized socket
LEMMA LookupInitialized ==
  ASSUME ContextInv, NEW a, NEW id
  PROVE  /\ Dispatch(a, id) # NULL =>
              Dispatch(a, id) \in Objects /\ Initialized(heap, Dispatch(a, id))
         /\ find_socket_for_id(a, id) # NULL =>
              /\ find_socket_for_id(a, id) \in Objects
              /\ Initialized(heap, find_socket_for_id(a, id))
  <1>1. \A k \in DOMAIN sockets_ : sockets_[k] \in Objects /\ Initialized(heap, sockets_[k])
    BY DEF ContextInv, Types, Pointers
  <1>2. last_utp_socket_ # NULL =>
           last_utp_socket_ \in Objects /\ Initialized(heap, last_utp_socket_)
    BY DEF ContextInv, Types, Pointers
  <1> QED BY <1>1, <1>2 DEF Dispatch, find_socket_for_id

LEMMA ProcessResetInv ==
  ASSUME ContextInv, NEW a \in Addrs, NEW id \in ConnIds, ProcessReset(a, id)
  PROVE  ContextInv'
  <1> DEFINE s == find_socket_for_id(a, id)
             x == IF heap[s].close_requested THEN "DESTROY" ELSE "RESET"
             h == [heap EXCEPT ![s].st = x]
  <1>1. s \in Objects /\ Initialized(heap, s)
    BY LookupInitialized DEF ProcessReset
  <1>2. heap' = h  BY DEF ProcessReset, Failed
  <1> HIDE DEF s
  <1>3. heap \in Heaps /\ heap[s] \in SocketRecords
    BY <1>1 DEF ContextInv, Types, Heaps, Initialized
  <1>4. x \in {"OPEN", "RESET", "DESTROY"}  OBVIOUS
  <1> HIDE DEF x
  <1>6. AckEffect(h, s, "none")
    BY <1>2 DEF AckEffect, ProcessReset, ackVars
  <1> HIDE DEF h
  <1>7. /\ h \in Heaps /\ SameSockets(heap, h)
        /\ \A t \in Objects : heap[t] # NULL => h[t].ida = heap[t].ida
    <2> DEFINE rec == [heap[s] EXCEPT !.st = x]
    <2>1. /\ rec \in SocketRecords /\ rec.st # "UNINITIALIZED"
          /\ rec.addr = heap[s].addr /\ rec.recv = heap[s].recv
          /\ rec.send = heap[s].send /\ rec.ida = heap[s].ida
      BY <1>1, <1>3, <1>4 DEF SocketRecords
    <2>2. h \in Heaps /\ h[s] = rec /\ \A t \in Objects : t # s => h[t] = heap[t]
      BY <1>1, <1>3, <1>4, <2>1 DEF Heaps, h
    <2> HIDE DEF rec
    <2> QED BY <1>1, <1>3, <1>4, <2>1, <2>2, SetState
  <1> QED BY <1>1, <1>6, <1>7, SocketStepInv DEF ProcessReset, AckEffects

LEMMA ProcessIncomingInv ==
  ASSUME ContextInv, NEW a \in Addrs, NEW id \in ConnIds, NEW e \in AckEffects,
         ProcessIncoming(a, id, e)
  PROVE  ContextInv'
  <1> DEFINE s == Dispatch(a, id)
             h == [heap EXCEPT ![s].st = "DESTROY"]
  <1>1. s \in Objects /\ Initialized(heap, s)
    BY LookupInitialized DEF ProcessIncoming
  <1>2. last_utp_socket_' = s /\ UNCHANGED <<sockets_, loop, dying>>
    BY DEF ProcessIncoming
  <1>3. AckEffect(heap, s, e) \/ AckEffect(h, s, e)
    BY DEF ProcessIncoming
  <1> HIDE DEF s
  <1>4. heap \in Heaps /\ SameSockets(heap, heap)
    BY DEF ContextInv, Types, SameSockets
  <1>5. /\ h \in Heaps /\ SameSockets(heap, h)
        /\ \A t \in Objects : heap[t] # NULL => h[t].ida = heap[t].ida
    <2> HIDE DEF h
    <2> DEFINE rec == [heap[s] EXCEPT !.st = "DESTROY"]
    <2>1. /\ rec \in SocketRecords /\ rec.st # "UNINITIALIZED"
          /\ rec.addr = heap[s].addr /\ rec.recv = heap[s].recv
          /\ rec.send = heap[s].send /\ rec.ida = heap[s].ida
      BY <1>1, <1>4 DEF SocketRecords, Heaps, Initialized
    <2>2. h \in Heaps /\ h[s] = rec /\ \A t \in Objects : t # s => h[t] = heap[t]
      BY <1>1, <1>4, <2>1 DEF Heaps, h
    <2> HIDE DEF rec
    <2> QED BY <1>1, <1>4, <2>1, <2>2, SetState
  <1> HIDE DEF h
  <1>6. /\ heap' \in Heaps /\ ack_sockets_' \in Seq(Objects)
        /\ Indexed(heap', ack_sockets_') /\ Range(ack_sockets_') = owed'
        /\ Pointers(heap') /\ Registry(heap') /\ Ids(heap')
        /\ SameSockets(heap, heap')
    BY <1>1, <1>3, <1>4, <1>5, AckEffectKeeps
  <1>7. Initialized(heap', s)
    BY <1>1, <1>6 DEF Initialized, SameSockets
  <1>8. Types'  BY <1>1, <1>2, <1>6 DEF ContextInv, Types
  <1>9. Pointers(heap)'  BY <1>2, <1>6, <1>7 DEF Pointers
  <1>10. Registry(heap)'  BY <1>2, <1>6 DEF Registry
  <1> QED BY <1>6, <1>8, <1>9, <1>10 DEF ContextInv, Ids, Indexed, Range

LEMMA IssueNextInv ==
  ASSUME ContextInv, IssueNext
  PROVE  ContextInv'
  <1> DEFINE s == ack_sockets_[1]
  <1>1. s \in Objects /\ 1 \in 1 .. Len(ack_sockets_)
    BY DEF ContextInv, Types, IssueNext
  <1>2. heap[s] # NULL /\ heap[s].ida = 0
    BY <1>1 DEF ContextInv, Indexed
  <1>3. Initialized(heap, s)
    BY <1>1, <1>2 DEF ContextInv, Ids, Initialized
  <1>4. heap \in Heaps /\ SameSockets(heap, heap)
    BY DEF ContextInv, Types, SameSockets
  <1>5. AckEffect(heap, s, "send") /\ UNCHANGED <<sockets_, last_utp_socket_, loop, dying>>
    BY DEF IssueNext
  <1> HIDE DEF s
  <1> QED BY <1>1, <1>3, <1>4, <1>5, SocketStepInv DEF AckEffects

\* Steps that only move a loop on
LEMMA LoopInv ==
  ASSUME ContextInv,
         UNCHANGED <<heap, sockets_, last_utp_socket_, dying, ackVars>>,
         loop' \in [name : LoopNames, todo : SUBSET Objects],
         \A s \in loop'.todo : Initialized(heap, s) /\ s # dying,
         dying # NULL => loop'.name \in {"sockets", "teardown"},
         loop'.name \in {"teardown", "gone"} <=> loop.name \in {"teardown", "gone"}
  PROVE  ContextInv'
  <1>1. Types'  BY DEF ContextInv, Types, ackVars
  <1>2. Pointers(heap)'  BY DEF ContextInv, Pointers, Initialized
  <1>3. Registry(heap)'  BY DEF ContextInv, Registry, Initialized
  <1> QED BY <1>1, <1>2, <1>3 DEF ContextInv, Indexed, Range, Ids, ackVars

LEMMA IssueDeferredAcksInv ==
  ASSUME ContextInv, IssueDeferredAcks
  PROVE  ContextInv'
  <1>1. dying = NULL  BY DEF ContextInv, Pointers, IssueDeferredAcks, Idle
  <1>2. loop' = [name |-> "acks", todo |-> {}]  BY DEF IssueDeferredAcks
  <1>3. loop' \in [name : LoopNames, todo : SUBSET Objects]
        /\ loop'.todo = {} /\ loop'.name = "acks"
    BY <1>2 DEF LoopNames
  <1> QED BY <1>1, <1>3, LoopInv DEF IssueDeferredAcks, Idle

LEMMA CheckTimeoutsInv ==
  ASSUME ContextInv, CheckTimeouts
  PROVE  ContextInv'
  <1>1. dying = NULL  BY DEF ContextInv, Pointers, CheckTimeouts, Idle
  <1>2. \A s \in Range(sockets_) : s \in Objects /\ Initialized(heap, s) /\ s # dying
    BY DEF ContextInv, Types, Pointers, Range
  <1>3. /\ loop' \in [name : LoopNames, todo : SUBSET Objects]
        /\ loop'.todo = Range(sockets_) /\ loop'.name = "sockets"
    BY <1>2 DEF CheckTimeouts, LoopNames
  <1> QED BY <1>1, <1>2, <1>3, LoopInv DEF CheckTimeouts, Idle

LEMMA EndLoopInv ==
  ASSUME ContextInv, EndLoop
  PROVE  ContextInv'
  <1>1. /\ loop' \in [name : LoopNames, todo : SUBSET Objects]
        /\ loop'.todo = {} /\ loop.name \in {"sockets", "acks", "teardown"}
        /\ loop'.name = IF loop.name = "teardown" THEN "gone" ELSE "none"
    BY DEF EndLoop, LoopNames, NoLoop
  <1> QED BY <1>1, LoopInv DEF EndLoop

LEMMA DestroyContextInv ==
  ASSUME ContextInv, DestroyContext
  PROVE  ContextInv'
  <1>1. dying = NULL  BY DEF ContextInv, Pointers, DestroyContext, Idle
  <1>2. \A s \in Range(sockets_) : s \in Objects /\ Initialized(heap, s)
    BY DEF ContextInv, Types, Pointers, Range
  <1>3. /\ loop' \in [name : LoopNames, todo : SUBSET Objects]
        /\ loop'.todo = Range(sockets_) /\ loop'.name = "teardown"
    BY <1>2 DEF DestroyContext, LoopNames
  <1>4. DOMAIN sockets_' = {} /\ sockets_' \in [DOMAIN sockets_' -> Objects]
    BY DEF DestroyContext
  <1>5. UNCHANGED <<heap, last_utp_socket_, dying, ack_sockets_, owed>>
    BY DEF DestroyContext, ackVars
  <1>6. Types'  BY <1>3, <1>4, <1>5 DEF ContextInv, Types
  <1>7. Pointers(heap)'
    BY <1>1, <1>2, <1>3, <1>4, <1>5, ContextAssumption DEF ContextInv, Pointers, Initialized
  <1>8. Registry(heap)'  BY <1>3, <1>4, <1>5 DEF Registry
  <1> QED BY <1>5, <1>6, <1>7, <1>8 DEF ContextInv, Indexed, Range, Ids

LEMMA DestroyNextInv ==
  ASSUME ContextInv, NEW s \in Objects, DestroyNext(s)
  PROVE  ContextInv'
  <1>1. /\ loop' \in [name : LoopNames, todo : SUBSET Objects]
        /\ loop'.todo = loop.todo \ {s} /\ loop'.name = "teardown"
        /\ loop.name = "teardown" /\ s \in loop.todo
    BY DEF DestroyNext, ContextInv, Types
  <1>2. dying' = s /\ UNCHANGED <<heap, sockets_, last_utp_socket_, ack_sockets_, owed>>
    BY DEF DestroyNext, ackVars
  <1>3. DOMAIN sockets_ = {}  BY <1>1 DEF ContextInv, Registry
  <1>4. Types'  BY <1>1, <1>2 DEF ContextInv, Types
  <1>5. Pointers(heap)'
    BY <1>1, <1>2, <1>3 DEF ContextInv, Pointers, Initialized
  <1>6. Registry(heap)'  BY <1>1, <1>2, <1>3 DEF Registry
  <1> QED BY <1>2, <1>4, <1>5, <1>6 DEF ContextInv, Indexed, Range, Ids

LEMMA VisitSocketInv ==
  ASSUME ContextInv, NEW s \in Objects, NEW e \in AckEffects, VisitSocket(s, e)
  PROVE  ContextInv'
  <1>1. /\ loop.name = "sockets" /\ s \in loop.todo /\ dying = NULL
        /\ loop' \in [name : LoopNames, todo : SUBSET Objects]
        /\ loop'.todo = loop.todo \ {s} /\ loop'.name = "sockets"
        /\ last_utp_socket_' = last_utp_socket_
    BY DEF VisitSocket, ContextInv, Types
  <1>2. Initialized(heap, s) /\ s # NULL
    BY <1>1, ContextAssumption DEF ContextInv, Pointers
  <1>3. heap \in Heaps /\ heap[s] \in SocketRecords
    BY <1>2 DEF ContextInv, Types, Heaps, Initialized
  <1>4. PICK x \in {heap[s].st} \cup (IF heap[s].st = "OPEN" THEN {"RESET", "DESTROY"} ELSE {}) :
          /\ AckEffect([heap EXCEPT ![s].st = x], s, e)
          /\ IF x = "DESTROY" THEN dying' = s /\ sockets_' = Erase(KeyOf(s))
             ELSE UNCHANGED <<dying, sockets_>>
    BY DEF VisitSocket
  <1>5. x \in {"OPEN", "RESET", "DESTROY"}
    BY <1>2, <1>3 DEF Initialized, SocketRecords
  <1> DEFINE h == [heap EXCEPT ![s].st = x]
  <1>6. AckEffect(h, s, e)  BY <1>4
  <1> HIDE DEF h
  <1>7. /\ h \in Heaps /\ SameSockets(heap, h)
        /\ \A t \in Objects : heap[t] # NULL => h[t].ida = heap[t].ida
    <2> DEFINE rec == [heap[s] EXCEPT !.st = x]
    <2>1. /\ rec \in SocketRecords /\ rec.st # "UNINITIALIZED"
          /\ rec.addr = heap[s].addr /\ rec.recv = heap[s].recv
          /\ rec.send = heap[s].send /\ rec.ida = heap[s].ida
      BY <1>2, <1>3, <1>5 DEF SocketRecords
    <2>2. h \in Heaps /\ h[s] = rec /\ \A t \in Objects : t # s => h[t] = heap[t]
      BY <1>2, <1>3, <1>5, <2>1 DEF Heaps, h
    <2> HIDE DEF rec
    <2> QED BY <1>2, <1>3, <1>5, <2>1, <2>2, SetState
  <1>8. /\ heap' \in Heaps /\ ack_sockets_' \in Seq(Objects)
        /\ Indexed(heap', ack_sockets_') /\ Range(ack_sockets_') = owed'
        /\ Pointers(heap') /\ Registry(heap') /\ Ids(heap')
        /\ SameSockets(heap, heap')
    BY <1>2, <1>6, <1>7, AckEffectKeeps
  <1>9. Initialized(heap', s)  BY <1>2, <1>8 DEF Initialized, SameSockets
  <1>10. CASE x # "DESTROY"
    <2>1. UNCHANGED <<dying, sockets_>>  BY <1>4, <1>10
    <2>2. Types'  BY <1>1, <1>8, <2>1 DEF ContextInv, Types
    <2>3. Pointers(heap)'  BY <1>1, <1>8, <2>1 DEF Pointers
    <2>4. Registry(heap)'  BY <1>1, <1>8, <2>1 DEF Registry
    <2> QED BY <1>8, <2>2, <2>3, <2>4 DEF ContextInv, Indexed, Range, Ids
  <1>11. CASE x = "DESTROY"
    <2> DEFINE key == KeyOf(s)
    <2>1. dying' = s /\ sockets_' = Erase(key)  BY <1>4, <1>11
    <2>2. key = Key(heap'[s].addr, heap'[s].recv)
      BY <1>2, <1>8 DEF KeyOf, SameSockets, Initialized
    <2> HIDE DEF key
    <2>3. /\ DOMAIN sockets_' = DOMAIN sockets_ \ {key}
          /\ \A k \in DOMAIN sockets_' : sockets_'[k] = sockets_[k]
          /\ sockets_' \in [DOMAIN sockets_' -> Objects]
      BY <2>1 DEF Erase, ContextInv, Types
    <2>4. \A k \in DOMAIN sockets_' : sockets_'[k] # s
      BY <1>8, <2>2, <2>3 DEF Registry
    <2>5. key \in DOMAIN sockets_ /\ sockets_[key] = s
      BY <1>1, <1>2, <1>8, <1>9, <2>2 DEF Registry
    <2>6. Types'  BY <1>1, <1>8, <2>1, <2>3 DEF ContextInv, Types
    <2>7. Pointers(heap)'
      BY <1>1, <1>8, <1>9, <2>1, <2>3, <2>4 DEF Pointers
    <2>8. Registry(heap)'
      <3>1. \A k \in DOMAIN sockets_' : Key(heap'[sockets_'[k]].addr, heap'[sockets_'[k]].recv) = k
        BY <1>8, <2>3 DEF Registry
      <3>2. ASSUME NEW t \in Objects, Initialized(heap', t), t # s
            PROVE  /\ Key(heap'[t].addr, heap'[t].recv) \in DOMAIN sockets_'
                   /\ sockets_'[Key(heap'[t].addr, heap'[t].recv)] = t
        <4>1. t # dying  BY <1>1, ContextAssumption
        <4>2. /\ Key(heap'[t].addr, heap'[t].recv) \in DOMAIN sockets_
              /\ sockets_[Key(heap'[t].addr, heap'[t].recv)] = t
          BY <1>1, <1>8, <3>2, <4>1 DEF Registry
        <4> QED BY <2>3, <2>5, <3>2, <4>2
      <3> QED BY <1>1, <2>1, <3>1, <3>2 DEF Registry
    <2> QED BY <1>8, <2>6, <2>7, <2>8 DEF ContextInv, Indexed, Range, Ids
  <1> QED BY <1>10, <1>11

LEMMA FinishDestroyInv ==
  ASSUME ContextInv, FinishDestroy
  PROVE  ContextInv'
  <1> DEFINE s == dying
             r == RemoveAck(heap, ack_sockets_, s)
  <1>1. s \in Objects /\ s # NULL /\ Initialized(heap, s) /\ heap[s] # NULL
    BY DEF FinishDestroy, ContextInv, Types, Pointers, Initialized
  <1>2. /\ r.h \in Heaps /\ r.l \in Seq(Objects)
        /\ Indexed(r.h, r.l) /\ SameButIda(heap, r.h)
        /\ Range(r.l) = Range(ack_sockets_) \ {s}
    BY <1>1, RemoveAckIndexed DEF ContextInv, Types
  <1>3. /\ heap' = [r.h EXCEPT ![s] = NULL] /\ ack_sockets_' = r.l
        /\ owed' = owed \ {s} /\ dying' = NULL /\ UNCHANGED <<sockets_, loop>>
        /\ last_utp_socket_' = IF last_utp_socket_ = s THEN NULL ELSE last_utp_socket_
    BY DEF FinishDestroy
  <1> HIDE DEF r
  <1>4. /\ heap' \in Heaps /\ heap'[s] = NULL
        /\ \A t \in Objects : t # s => heap'[t] = r.h[t]
    BY <1>1, <1>2, <1>3 DEF Heaps
  <1>5. \A t \in Objects : /\ Initialized(heap', t) <=> (Initialized(heap, t) /\ t # s)
                           /\ Initialized(heap', t) => heap'[t].addr = heap[t].addr
                                                       /\ heap'[t].recv = heap[t].recv
    BY <1>2, <1>4 DEF Initialized, SameButIda
  <1>6. Types'  BY <1>1, <1>2, <1>3, <1>4 DEF ContextInv, Types
  <1>7. \A i \in 1 .. Len(r.l) : r.l[i] # s /\ r.l[i] \in Objects
    <2>1. ASSUME NEW i \in 1 .. Len(r.l) PROVE r.l[i] \in Range(r.l)
      BY <1>2 DEF Range
    <2> QED BY <1>2, <2>1
  <1>8. Indexed(heap', r.l)
    BY <1>2, <1>4, <1>7 DEF Indexed
  <1>9. Range(ack_sockets_') = owed'  BY <1>2, <1>3 DEF ContextInv
  <1>10. Pointers(heap)'
    <2>1. \A k \in DOMAIN sockets_ : Initialized(heap', sockets_[k]) /\ sockets_[k] # NULL
      BY <1>5, ContextAssumption DEF ContextInv, Pointers, Types
    <2>2. last_utp_socket_' # NULL => Initialized(heap', last_utp_socket_')
      BY <1>3, <1>5 DEF ContextInv, Pointers, Types
    <2>3. \A t \in loop.todo : Initialized(heap', t) /\ t # NULL
      BY <1>5, ContextAssumption DEF ContextInv, Pointers, Types
    <2> QED BY <1>3, <2>1, <2>2, <2>3 DEF Pointers
  <1>11. Registry(heap)'
    <2>1. \A k \in DOMAIN sockets_ : Key(heap'[sockets_[k]].addr, heap'[sockets_[k]].recv) = k
      BY <1>3, <1>5, <1>10 DEF ContextInv, Registry, Pointers, Types
    <2>2. loop.name \notin {"teardown", "gone"} => \A t \in Objects : Initialized(heap', t) =>
            /\ Key(heap'[t].addr, heap'[t].recv) \in DOMAIN sockets_
            /\ sockets_[Key(heap'[t].addr, heap'[t].recv)] = t
      BY <1>5 DEF ContextInv, Registry
    <2>3. loop.name \in {"teardown", "gone"} => DOMAIN sockets_ = {}
      BY DEF ContextInv, Registry
    <2> QED BY <1>3, <2>1, <2>2, <2>3 DEF Registry
  <1>12. Ids(heap)'
    <2> SUFFICES ASSUME NEW t \in Objects, heap'[t] # NULL
                 PROVE  IF heap'[t].st = "UNINITIALIZED" THEN heap'[t].ida = -1
                        ELSE \/ heap'[t].recv \in Seeds /\ heap'[t].send = heap'[t].recv + 1
                             \/ heap'[t].send \in ConnIds /\ heap'[t].recv = heap'[t].send + 1
      BY DEF Ids
    <2>1. t # s /\ heap'[t] = r.h[t] /\ heap[t] # NULL /\ r.h[t].st = heap[t].st
          /\ r.h[t].recv = heap[t].recv /\ r.h[t].send = heap[t].send
      BY <1>2, <1>4 DEF SameButIda
    <2>2. CASE heap[t].st # "UNINITIALIZED"  BY <2>1, <2>2 DEF ContextInv, Ids
    <2>3. CASE heap[t].st = "UNINITIALIZED"
      <3>1. heap[t].ida = -1  BY <2>1, <2>3 DEF ContextInv, Ids
      <3>2. t \notin Range(ack_sockets_)
        <4>1. \A i \in 1 .. Len(ack_sockets_) : heap[ack_sockets_[i]].ida # -1
          BY DEF ContextInv, Indexed, Types
        <4> QED BY <3>1, <4>1 DEF Range, ContextInv, Types
      <3>3. t \notin Range(r.l)  BY <1>2, <3>2
      <3>4. CASE r.h[t].ida # -1
        <4>1. r.h[t].ida + 1 \in 1 .. Len(r.l) /\ r.l[r.h[t].ida + 1] = t
          BY <1>2, <2>1, <3>4 DEF Indexed, SameButIda
        <4> QED BY <1>2, <3>3, <4>1 DEF Range
      <3> QED BY <2>1, <2>3, <3>4
    <2> QED BY <2>2, <2>3
  <1> QED BY <1>3, <1>6, <1>8, <1>9, <1>10, <1>11, <1>12 DEF ContextInv

\* Every step of the context keeps the invariant
LEMMA NextInv == ContextInv /\ [Next]_vars => ContextInv'
  <1> SUFFICES ASSUME ContextInv, [Next]_vars PROVE ContextInv'
    OBVIOUS
  <1>1. ASSUME NEW s \in Objects, CreateSocket(s) PROVE ContextInv'
    BY <1>1, CreateSocketInv
  <1>2. ASSUME NEW s \in Objects, NEW a \in Addrs, NEW seed \in Seeds, Connect(s, a, seed)
        PROVE  ContextInv'
    BY <1>2, ConnectInv
  <1>3. ASSUME NEW s \in Objects, NEW a \in Addrs, NEW id \in ConnIds, ProcessSyn(s, a, id)
        PROVE  ContextInv'
    BY <1>3, ProcessSynInv
  <1>4. ASSUME NEW s \in Objects, NEW e \in {"schedule", "send"}, AppCall(s, e)
        PROVE  ContextInv'
    BY <1>4, AppCallInv DEF AckEffects
  <1>5. ASSUME NEW s \in Objects, NEW e \in {"send", "none"}, AppClose(s, e)
        PROVE  ContextInv'
    BY <1>5, AppCloseInv DEF AckEffects
  <1>6. ASSUME NEW s \in Objects, NEW e \in {"send", "none"}, VisitSocket(s, e)
        PROVE  ContextInv'
    BY <1>6, VisitSocketInv DEF AckEffects
  <1>7. ASSUME NEW s \in Objects, DestroyNext(s) PROVE ContextInv'
    BY <1>7, DestroyNextInv
  <1>8. ASSUME NEW a \in Addrs, NEW id \in ConnIds, ProcessReset(a, id) PROVE ContextInv'
    BY <1>8, ProcessResetInv
  <1>9. ASSUME NEW a \in Addrs, NEW id \in ConnIds, NEW e \in AckEffects,
               ProcessIncoming(a, id, e)
        PROVE  ContextInv'
    BY <1>9, ProcessIncomingInv
  <1>10. ASSUME NEW a \in Addrs, NEW id \in ConnIds, NEW q \in SeqNrs,
                StrayStored(a, id, q) \/ StrayAnswered(a, id, q)
         PROVE  ContextInv'
    BY <1>10, FrameInv DEF StrayStored, StrayAnswered
  <1>11. CASE IssueDeferredAcks  BY <1>11, IssueDeferredAcksInv
  <1>12. CASE IssueNext  BY <1>12, IssueNextInv
  <1>13. CASE CheckTimeouts  BY <1>13, CheckTimeoutsInv
  <1>14. CASE FinishDestroy  BY <1>14, FinishDestroyInv
  <1>15. CASE DestroyContext  BY <1>15, DestroyContextInv
  <1>16. CASE EndLoop  BY <1>16, EndLoopInv
  <1>17. CASE Tick  BY <1>17, FrameInv DEF Tick
  <1>18. CASE UNCHANGED vars  BY <1>18, FrameInv DEF vars, ackVars
  <1> QED BY <1>1, <1>2, <1>3, <1>4, <1>5, <1>6, <1>7, <1>8, <1>9, <1>10, <1>11,
             <1>12, <1>13, <1>14, <1>15, <1>16, <1>17, <1>18 DEF Next

-----------------------------------------------------------------------------
(* The theorems *)

\* The invariant holds of every behaviour of the context
THEOREM ContextInvariant == Spec => []ContextInv
  BY InitInv, NextInv, PTL DEF Spec

\* The list of deferred ACKs and the indices the sockets keep (ack_index) agree,
\* whatever number of sockets is scheduled, acknowledged and destroyed in whatever
\* order: the assertions of remove_ack never fail
THEOREM AckListCorrect == Spec => []AckIndexed
  <1>1. ContextInv => AckIndexed  BY DEF ContextInv, AckIndexed
  <1> QED BY <1>1, ContextInvariant, PTL

\* No deferred ACK is lost or sent twice by the swap-pop removal
THEOREM AcksOwed == Spec => []AckOwed
  <1>1. ContextInv => AckOwed  BY DEF ContextInv, AckOwed
  <1> QED BY <1>1, ContextInvariant, PTL

\* No pointer the context follows outlives its socket
THEOREM PointersLive == Spec => []NoDangling
  <1>1. ContextInv => NoDangling
    <2> SUFFICES ASSUME ContextInv PROVE NoDangling  OBVIOUS
    <2>1. last_utp_socket_ # NULL => last_utp_socket_ \in Live
      BY DEF ContextInv, Types, Pointers, Initialized, Live
    <2>2. loop.todo \subseteq Live
      BY DEF ContextInv, Types, Pointers, Initialized, Live
    <2>3. Range(sockets_) \subseteq Live
      BY DEF ContextInv, Types, Pointers, Initialized, Live, Range
    <2> QED BY <2>1, <2>2, <2>3 DEF NoDangling
  <1> QED BY <1>1, ContextInvariant, PTL

\* The registry finds exactly the initialized sockets, each under its own key
THEOREM RegistryCorrect == Spec => []RegistryExact
  <1>1. ContextInv => RegistryExact
    BY DEF ContextInv, Types, Pointers, Registry, RegistryExact, Initialized, Live, KeyOf
  <1> QED BY <1>1, ContextInvariant, PTL

\* As long as no SYN carries the last connection id, what the peer of a connection
\* sends is dispatched to it (process_udp's lookup).  The condition is needed: the
\* key of such a SYN is ID_MOD, which the connid of no packet equals
THEOREM PeersReachable ==
  ASSUME ID_MOD - 1 \notin ConnIds
  PROVE  Spec => []PeerReachable
  <1>1. ContextInv => PeerReachable
    <2> SUFFICES ASSUME ContextInv, NEW s \in Registered, Idle
                 PROVE  Dispatch(heap[s].addr, PeerConnId(s)) = s
      BY DEF PeerReachable
    <2>1. /\ s \in Objects /\ Initialized(heap, s) /\ s # dying
          /\ KeyOf(s) \in DOMAIN sockets_ /\ sockets_[KeyOf(s)] = s
      BY DEF Registered, Range, ContextInv, Types, Pointers, Registry, KeyOf
    <2>2. PeerConnId(s) = heap[s].recv
      <3>1. CASE heap[s].recv \in Seeds /\ heap[s].send = heap[s].recv + 1
        <4>1. heap[s].recv \in 0 .. ID_MOD - 1 /\ ID_MOD \in Nat \ {0}
          BY <3>1, ContextAssumption
        <4>2. heap[s].recv % ID_MOD = heap[s].recv /\ heap[s].send > heap[s].recv
          BY <3>1, <4>1
        <4> QED BY <4>2 DEF PeerConnId, Header
      <3>2. CASE heap[s].send \in ConnIds /\ heap[s].recv = heap[s].send + 1
        <4>1. heap[s].send \in 0 .. ID_MOD - 2
          <5>1. heap[s].send \in 0 .. ID_MOD - 1 /\ ID_MOD \in Nat
            BY <3>2, ContextAssumption
          <5>2. heap[s].send # ID_MOD - 1  BY <3>2
          <5> QED BY <5>1, <5>2
        <4>2. (heap[s].send + 1) % ID_MOD = heap[s].send + 1
          BY <4>1, ContextAssumption
        <4> QED BY <3>2, <4>1, <4>2 DEF PeerConnId, Header
      <3> QED BY <2>1, <3>1, <3>2 DEF ContextInv, Ids, Initialized
    <2>3. CASE /\ last_utp_socket_ # NULL /\ heap[last_utp_socket_].addr = heap[s].addr
               /\ heap[last_utp_socket_].recv = heap[s].recv
      <3>1. /\ last_utp_socket_ \in Objects /\ Initialized(heap, last_utp_socket_)
            /\ dying = NULL /\ last_utp_socket_ # dying
        BY <2>3 DEF ContextInv, Types, Pointers, Idle
      <3>2. sockets_[Key(heap[last_utp_socket_].addr, heap[last_utp_socket_].recv)]
              = last_utp_socket_
        BY <3>1 DEF ContextInv, Registry, Idle
      <3> QED BY <2>1, <2>2, <2>3, <3>2 DEF Dispatch, KeyOf
    <2>4. CASE ~(/\ last_utp_socket_ # NULL /\ heap[last_utp_socket_].addr = heap[s].addr
                 /\ heap[last_utp_socket_].recv = heap[s].recv)
      BY <2>1, <2>2, <2>4 DEF Dispatch, KeyOf
    <2> QED BY <2>3, <2>4
  <1> QED BY <1>1, ContextInvariant, PTL

\* As long as no seed is the last connection id, a RST or ICMP error that echoes
\* the id we send with finds a socket that uses the id (find_socket_for_id).  The
\* condition is needed: conn_id_send of such a socket is ID_MOD, which no packet
\* carries
THEOREM EchoesFound ==
  ASSUME ID_MOD - 1 \notin Seeds
  PROVE  Spec => []EchoFound
  <1>1. ContextInv => EchoFound
    <2> SUFFICES ASSUME ContextInv, NEW s \in Registered
                 PROVE  LET id == Header(heap[s].send)
                            users == {t \in Registered : heap[t].addr = heap[s].addr
                                        /\ id \in {heap[t].recv, heap[t].send}}
                        IN  find_socket_for_id(heap[s].addr, id) \in users
      BY DEF EchoFound
    <2> DEFINE id == Header(heap[s].send)
               a == heap[s].addr
               f == find_socket_for_id(a, id)
               Sends(i) == /\ Key(a, i) \in DOMAIN sockets_
                           /\ heap[sockets_[Key(a, i)]].send = id
    <2>1. /\ s \in Objects /\ Initialized(heap, s)
          /\ Key(a, heap[s].recv) \in DOMAIN sockets_ /\ sockets_[Key(a, heap[s].recv)] = s
      BY DEF Registered, Range, ContextInv, Types, Pointers, Registry, KeyOf
    <2>2. ASSUME NEW i, Key(a, i) \in DOMAIN sockets_
          PROVE  /\ sockets_[Key(a, i)] \in Registered
                 /\ heap[sockets_[Key(a, i)]].addr = a /\ heap[sockets_[Key(a, i)]].recv = i
      <3>1. Key(heap[sockets_[Key(a, i)]].addr, heap[sockets_[Key(a, i)]].recv) = Key(a, i)
        BY <2>2 DEF ContextInv, Registry
      <3> QED BY <2>2, <3>1 DEF Registered, Range, Key
    <2>3. \/ id + 1 = heap[s].recv /\ Sends(id + 1)
          \/ id - 1 = heap[s].recv /\ Sends(id - 1)
      <3>1. CASE heap[s].recv \in Seeds /\ heap[s].send = heap[s].recv + 1
        <4>1. heap[s].recv \in 0 .. ID_MOD - 2 /\ ID_MOD \in Nat
          <5>1. heap[s].recv \in 0 .. ID_MOD - 1 /\ ID_MOD \in Nat
            BY <3>1, ContextAssumption
          <5>2. heap[s].recv # ID_MOD - 1  BY <3>1
          <5> QED BY <5>1, <5>2
        <4>2. id = heap[s].send  BY <3>1, <4>1 DEF Header
        <4>3. id - 1 = heap[s].recv  BY <3>1, <4>1, <4>2
        <4> QED BY <2>1, <4>2, <4>3
      <3>2. CASE heap[s].send \in ConnIds /\ heap[s].recv = heap[s].send + 1
        <4>1. heap[s].send \in 0 .. ID_MOD - 1 /\ ID_MOD \in Nat
          BY <3>2, ContextAssumption
        <4>2. id = heap[s].send  BY <4>1 DEF Header
        <4>3. id + 1 = heap[s].recv  BY <3>2, <4>2
        <4> QED BY <2>1, <4>2, <4>3
      <3> QED BY <2>1, <3>1, <3>2 DEF ContextInv, Ids, Initialized
    <2> HIDE DEF id, a
    <2>4. f = IF Key(a, id) \in DOMAIN sockets_ THEN sockets_[Key(a, id)]
              ELSE IF Sends(id + 1) THEN sockets_[Key(a, id + 1)]
              ELSE IF Sends(id - 1) THEN sockets_[Key(a, id - 1)]
              ELSE NULL
      BY DEF find_socket_for_id
    <2>5. \/ Key(a, id) \in DOMAIN sockets_ /\ f = sockets_[Key(a, id)]
          \/ Sends(id + 1) /\ f = sockets_[Key(a, id + 1)]
          \/ Sends(id - 1) /\ f = sockets_[Key(a, id - 1)]
      BY <2>3, <2>4
    <2>6. f \in Registered /\ heap[f].addr = a /\ id \in {heap[f].recv, heap[f].send}
      BY <2>2, <2>5
    <2> QED BY <2>6 DEF id, a
  <1> QED BY <1>1, ContextInvariant, PTL

-----------------------------------------------------------------------------
(* The cache of RSTs *)

Strays == [addr : Addrs, connid : ConnIds, ack_nr : SeqNrs]

Entries == [stray : Strays, age : Nat]

Holds(l, e) == \E j \in 1 .. Len(l) : l[j] = e

\* A packet answered recently is in the cache, with an age no larger than the
\* time since: it is not taken for expired before that time is over
RstInv ==
  /\ rst_info_ \in Seq(Entries)
  /\ \A k \in DOMAIN answered :
       /\ answered[k] \in 0 .. RST_INFO_TIMEOUT - 1
       /\ \E j \in 1 .. Len(rst_info_) :
            rst_info_[j].stray = k /\ rst_info_[j].age <= answered[k]

Loop == INSTANCE FoldLaws WITH Op <- ExpireOne

\* The loop over rst, after k iterations: it has lost expired entries only
ExpireState(rst, k, a) ==
  /\ a \in [rst : Seq(Entries), i : Nat]
  /\ a.i \in 1 .. Len(a.rst) + 1
  /\ Len(a.rst) + 1 - a.i = Len(rst) - k
  /\ Len(a.rst) <= Len(rst)
  /\ \A e \in Entries : ~Expired(e) /\ Holds(rst, e) => Holds(a.rst, e)

\* One iteration replaces an expired entry by the last one, or passes a young one
LEMMA ExpireOneOK ==
  ASSUME NEW rst \in Seq(Entries), NEW k \in 1 .. Len(rst), NEW a,
         ExpireState(rst, k - 1, a), NEW x
  PROVE  ExpireState(rst, k, ExpireOne(a, x))
  <1> DEFINE l == a.rst
             i == a.i
             n == Len(l)
  <1>1. /\ a \in [rst : Seq(Entries), i : Nat] /\ l \in Seq(Entries) /\ i \in Nat
        /\ n \in Nat /\ Len(rst) \in Nat /\ k \in Int /\ n <= Len(rst)
        /\ i \in 1 .. n /\ n + 1 - i = Len(rst) - (k - 1)
    <2>1. /\ a \in [rst : Seq(Entries), i : Nat] /\ l \in Seq(Entries) /\ i \in Nat
          /\ n \in Nat /\ Len(rst) \in Nat /\ k \in Int
      BY DEF ExpireState
    <2>2. /\ i \in 1 .. n + 1 /\ n <= Len(rst) /\ n + 1 - i = Len(rst) - (k - 1)
      BY DEF ExpireState
    <2> HIDE DEF n, i, l
    <2> QED BY <2>1, <2>2
  <1>2. \A e \in Entries : ~Expired(e) /\ Holds(rst, e) => Holds(l, e)
    BY DEF ExpireState
  <1>3. CASE Expired(l[i])
    <2> DEFINE t == [l EXCEPT ![i] = Last(l)]
               g == Front(t)
               b == ExpireOne(a, x)
    <2>1. b = [a EXCEPT !.rst = g]  BY <1>3 DEF ExpireOne
    <2>2. Last(l) = l[n] /\ l[n] \in Entries  BY <1>1 DEF Last
    <2>3. t \in Seq(Entries) /\ Len(t) = n /\ \A j \in 1 .. n : t[j] = IF j = i THEN l[n] ELSE l[j]
      BY <1>1, <2>2
    <2> HIDE DEF t
    <2>4. /\ g \in Seq(Entries) /\ Len(g) = n - 1
          /\ \A j \in 1 .. n - 1 : g[j] = IF j = i THEN l[n] ELSE l[j]
      <3> DEFINE z == n - 1
      <3>1. z \in 0 .. n /\ z \in Int /\ Len(t) - 1 = z  BY <1>1, <2>3
      <3>2. g = SubSeq(t, 1, z)  BY <3>1 DEF Front
      <3> HIDE DEF z, g, n
      <3>3. SubSeq(t, 1, z) \in Seq(Entries) /\ Len(SubSeq(t, 1, z)) = z
            /\ \A j \in 1 .. z : SubSeq(t, 1, z)[j] = t[j]
        BY <1>1, <2>3, <3>1
      <3>4. \A j \in 1 .. z : j \in 1 .. n  BY <1>1, <3>1
      <3> QED BY <2>3, <3>2, <3>3, <3>4 DEF z
    <2> HIDE DEF g
    <2>5. b \in [rst : Seq(Entries), i : Nat] /\ b.rst = g /\ b.i = i
      BY <1>1, <2>1, <2>4
    <2> HIDE DEF b
    <2>6. /\ b.i \in 1 .. Len(b.rst) + 1 /\ Len(b.rst) + 1 - b.i = Len(rst) - k
          /\ Len(b.rst) <= Len(rst)
      <3>1. Len(b.rst) = n - 1 /\ b.i = i  BY <2>4, <2>5
      <3>2. n \in Nat /\ i \in 1 .. n /\ n + 1 - i = Len(rst) - (k - 1) /\ n <= Len(rst)
            /\ Len(rst) \in Nat /\ k \in Int
        BY <1>1
      <3> DEFINE u == Len(b.rst)
                 w == Len(rst)
      <3>3. u = n - 1 /\ w \in Nat /\ n + 1 - i = w - (k - 1) /\ n <= w  BY <3>1, <3>2
      <3> HIDE DEF n, i, u, w
      <3>4. i \in 1 .. u + 1 /\ u + 1 - i = w - k /\ u <= w  BY <3>2, <3>3
      <3> QED BY <3>1, <3>4 DEF u, w
    <2>7. ASSUME NEW e \in Entries, ~Expired(e), Holds(l, e) PROVE Holds(g, e)
      <3>1. PICK j \in 1 .. n : l[j] = e  BY <2>7 DEF Holds
      <3>2. j # i  BY <1>3, <2>7, <3>1
      <3>3. CASE j < n
        <4>1. j \in 1 .. n - 1  BY <1>1, <3>1, <3>3
        <4> QED BY <2>4, <3>1, <3>2, <4>1 DEF Holds
      <3>4. CASE j = n
        <4>1. i \in 1 .. n - 1  BY <1>1, <3>1, <3>2, <3>4
        <4> QED BY <2>4, <3>1, <3>4, <4>1 DEF Holds
      <3> QED BY <1>1, <3>1, <3>3, <3>4
    <2>8. \A e \in Entries : ~Expired(e) /\ Holds(rst, e) => Holds(b.rst, e)
      BY <1>2, <2>5, <2>7
    <2> QED BY <2>5, <2>6, <2>8 DEF ExpireState, b
  <1>4. CASE ~Expired(l[i])
    <2> DEFINE b == ExpireOne(a, x)
    <2>1. b = [a EXCEPT !.i = @ + 1]  BY <1>4 DEF ExpireOne
    <2>2. b \in [rst : Seq(Entries), i : Nat] /\ b.rst = l /\ b.i = i + 1
      BY <1>1, <2>1
    <2> HIDE DEF b
    <2>3. /\ b.i \in 1 .. Len(b.rst) + 1 /\ Len(b.rst) + 1 - b.i = Len(rst) - k
          /\ Len(b.rst) <= Len(rst)
      <3> HIDE DEF n, i
      <3> QED BY <1>1, <2>2 DEF n
    <2> QED BY <1>2, <2>2, <2>3 DEF ExpireState, b
  <1> QED BY <1>3, <1>4

\* The loop of check_timeouts keeps every entry that has not expired
LEMMA ExpireKeepsYoung ==
  ASSUME NEW rst \in Seq(Entries)
  PROVE  /\ Expire(rst) \in Seq(Entries) /\ Len(Expire(rst)) <= Len(rst)
         /\ \A e \in Entries : ~Expired(e) /\ Holds(rst, e) => Holds(Expire(rst), e)
  <1> DEFINE start == [rst |-> rst, i |-> 1]
             n == Len(rst)
             seq == [k \in 1 .. n |-> k]
             end == FoldLeft(ExpireOne, start, seq)
  <1>1. n \in Nat /\ DOMAIN seq = 1 .. n  OBVIOUS
  <1>2. ExpireState(rst, 0, start)
    <2>1. start \in [rst : Seq(Entries), i : Nat] /\ start.rst = rst /\ start.i = 1
      OBVIOUS
    <2> HIDE DEF start
    <2> QED BY <1>1, <2>1 DEF ExpireState
  <1> HIDE DEF start, seq
  <1>3. PICK c : Loop!Chain(c, n, start, seq) /\ Loop!FoldLeft(ExpireOne, start, seq) = c[n]
    BY <1>1, Loop!FoldLeftChain
  <1>4. Loop!FoldLeft(ExpireOne, start, seq) = FoldLeft(ExpireOne, start, seq)
    BY DEF FoldLeft, Loop!FoldLeft, MapThenFoldSet, Loop!MapThenFoldSet, Max, Loop!Max
  <1>5. end = c[n]  BY <1>3, <1>4
  <1> HIDE DEF end, n
  <1> DEFINE Z == {k \in 0 .. n : ExpireState(rst, k, c[k])}
  <1>6. 0 \in Z  BY <1>1, <1>2, <1>3 DEF Loop!Chain
  <1>7. \A k \in 1 .. n : k - 1 \in Z => k \in Z
    <2> SUFFICES ASSUME NEW k \in 1 .. n, ExpireState(rst, k - 1, c[k - 1])
                 PROVE  k \in Z
      OBVIOUS
    <2>1. c[k] = ExpireOne(c[k - 1], seq[k])  BY <1>3 DEF Loop!Chain
    <2>2. ExpireState(rst, k, ExpireOne(c[k - 1], seq[k]))
      BY ExpireOneOK DEF n
    <2> QED BY <2>1, <2>2
  <1> HIDE DEF Z
  <1>8. n \in Z
    <2>1. \A k \in 0 .. n : k \in Z  BY <1>1, <1>6, <1>7, Loop!Rounds
    <2> QED BY <1>1, <2>1
  <1>9. ExpireState(rst, n, end)  BY <1>5, <1>8 DEF Z
  <1>10. Expire(rst) = end.rst  BY DEF Expire, end, start, seq, n
  <1>11. end.rst \in Seq(Entries)  BY <1>9 DEF ExpireState
  <1> QED BY <1>9, <1>10, <1>11 DEF ExpireState

\* A step that appends only entries whose stray is not remembered as answered
AppendsFresh == Len(rst_info_') > Len(rst_info_) =>
                  Last(rst_info_').stray \notin DOMAIN answered

LEMMA InitRst == Init => RstInv
  BY DEF Init, RstInv

\* A suppressed packet refreshes the entry that suppressed it
LEMMA StrayStoredRst ==
  ASSUME RstInv, NEW a \in Addrs, NEW id \in ConnIds, NEW q \in SeqNrs,
         StrayStored(a, id, q)
  PROVE  RstInv' /\ AppendsFresh
  <1> DEFINE k == Stray(a, id, q)
             C == Cached(k)
             i == CHOOSE j \in C : \A l \in C : j <= l
             n == Len(rst_info_)
             entry == [rst_info_[i] EXCEPT !.age = 0]
  <1>1. rst_info_ \in Seq(Entries) /\ n \in Nat  BY DEF RstInv
  <1>2. /\ C # {} /\ rst_info_' = [rst_info_ EXCEPT ![i].age = 0]
        /\ answered' = Remember(k)
    BY DEF StrayStored
  <1>3. C \in SUBSET Nat /\ C \subseteq 1 .. n  BY <1>1 DEF Cached
  <1>4. i \in 1 .. n /\ rst_info_[i].stray = k
    <2>1. \E j \in C : \A l \in C : j <= l
      <3> HIDE DEF C
      <3> QED BY <1>2, <1>3, Loop!Smallest
    <2>2. i \in C  BY <2>1
    <2> QED BY <1>3, <2>2 DEF Cached
  <1> HIDE DEF i, C
  <1>5. entry \in Entries /\ entry.stray = k /\ entry.age = 0
    <2>1. rst_info_[i] \in Entries  BY <1>1, <1>4
    <2> QED BY <1>4, <2>1 DEF Entries
  <1>6. rst_info_' = [rst_info_ EXCEPT ![i] = entry]  BY <1>2
  <1> HIDE DEF entry, k
  <1>7. /\ rst_info_' \in Seq(Entries) /\ Len(rst_info_') = n
        /\ \A j \in 1 .. n : rst_info_'[j] = IF j = i THEN entry ELSE rst_info_[j]
    BY <1>1, <1>4, <1>5, <1>6
  <1>8. ASSUME NEW x \in DOMAIN answered'
        PROVE  /\ answered'[x] \in 0 .. RST_INFO_TIMEOUT - 1
               /\ \E j \in 1 .. n : rst_info_'[j].stray = x /\ rst_info_'[j].age <= answered'[x]
    <2>1. CASE x = k
      <3>1. answered'[x] = 0  BY <1>2, <1>8, <2>1 DEF Remember
      <3>2. rst_info_'[i].stray = x /\ rst_info_'[i].age <= answered'[x]
        BY <1>4, <1>5, <1>7, <2>1, <3>1
      <3>3. 0 \in 0 .. RST_INFO_TIMEOUT - 1  BY ContextAssumption
      <3> QED BY <1>4, <3>1, <3>2, <3>3
    <2>2. CASE x # k
      <3>1. x \in DOMAIN answered /\ answered'[x] = answered[x]
        BY <1>2, <1>8, <2>2 DEF Remember
      <3>2. PICK j \in 1 .. n : rst_info_[j].stray = x /\ rst_info_[j].age <= answered[x]
        BY <3>1 DEF RstInv
      <3>3. j # i  BY <1>4, <2>2, <3>2
      <3>4. answered[x] \in 0 .. RST_INFO_TIMEOUT - 1  BY <3>1 DEF RstInv
      <3> QED BY <1>7, <3>1, <3>2, <3>3, <3>4
    <2> QED BY <2>1, <2>2
  <1>9. RstInv'  BY <1>7, <1>8 DEF RstInv
  <1>10. ~(Len(rst_info_') > Len(rst_info_))  BY <1>1, <1>7
  <1> QED BY <1>9, <1>10 DEF AppendsFresh

\* A packet that is answered was not in the cache, so it was not answered recently
LEMMA StrayAnsweredRst ==
  ASSUME RstInv, NEW a \in Addrs, NEW id \in ConnIds, NEW q \in SeqNrs,
         StrayAnswered(a, id, q)
  PROVE  RstInv' /\ AppendsFresh
  <1> DEFINE k == Stray(a, id, q)
             n == Len(rst_info_)
             entry == [stray |-> k, age |-> 0]
  <1>1. rst_info_ \in Seq(Entries) /\ n \in Nat  BY DEF RstInv
  <1>2. /\ Cached(k) = {} /\ rst_info_' = Append(rst_info_, entry)
        /\ answered' = Remember(k)
    BY DEF StrayAnswered
  <1>3. entry \in Entries /\ entry.stray = k /\ entry.age = 0
    BY DEF Entries, Strays, Stray
  <1>4. k \notin DOMAIN answered
    <2> SUFFICES ASSUME k \in DOMAIN answered PROVE FALSE  OBVIOUS
    <2> HIDE DEF k
    <2>1. PICK j \in 1 .. n : rst_info_[j].stray = k  BY DEF RstInv
    <2>2. j \in Cached(k)  BY <1>1, <2>1 DEF Cached
    <2> QED BY <1>2, <2>2 DEF k
  <1> HIDE DEF entry, k
  <1>5. /\ rst_info_' \in Seq(Entries) /\ Len(rst_info_') = n + 1
        /\ \A j \in 1 .. n : rst_info_'[j] = rst_info_[j]
        /\ rst_info_'[n + 1] = entry
    BY <1>1, <1>2, <1>3
  <1>6. ASSUME NEW x \in DOMAIN answered'
        PROVE  /\ answered'[x] \in 0 .. RST_INFO_TIMEOUT - 1
               /\ \E j \in 1 .. n + 1 : rst_info_'[j].stray = x /\ rst_info_'[j].age <= answered'[x]
    <2>1. CASE x = k
      <3>1. answered'[x] = 0  BY <1>2, <1>6, <2>1 DEF Remember
      <3>2. n + 1 \in 1 .. n + 1  BY <1>1
      <3>3. 0 \in 0 .. RST_INFO_TIMEOUT - 1  BY ContextAssumption
      <3> QED BY <1>3, <1>5, <2>1, <3>1, <3>2, <3>3
    <2>2. CASE x # k
      <3>1. x \in DOMAIN answered /\ answered'[x] = answered[x]
        BY <1>2, <1>6, <2>2 DEF Remember
      <3>2. PICK j \in 1 .. n : rst_info_[j].stray = x /\ rst_info_[j].age <= answered[x]
        BY <3>1 DEF RstInv
      <3>3. j \in 1 .. n + 1  BY <1>1
      <3>4. answered[x] \in 0 .. RST_INFO_TIMEOUT - 1  BY <3>1 DEF RstInv
      <3> QED BY <1>5, <3>1, <3>2, <3>3, <3>4
    <2> QED BY <2>1, <2>2
  <1>7. RstInv'  BY <1>5, <1>6 DEF RstInv
  <1>8. Last(rst_info_').stray \notin DOMAIN answered
    <2>1. Last(rst_info_') = entry  BY <1>5 DEF Last
    <2> QED BY <1>3, <1>4, <2>1
  <1> QED BY <1>7, <1>8 DEF AppendsFresh

\* What check_timeouts removes from the cache has expired, and so is no longer
\* remembered as answered
LEMMA CheckTimeoutsRst ==
  ASSUME RstInv, CheckTimeouts
  PROVE  RstInv' /\ AppendsFresh
  <1> DEFINE l == rst_info_
             m == Expire(l)
  <1>1. /\ l \in Seq(Entries) /\ rst_info_' = m /\ answered' = answered
    BY DEF RstInv, CheckTimeouts
  <1>2. /\ m \in Seq(Entries) /\ Len(m) <= Len(l)
        /\ \A e \in Entries : ~Expired(e) /\ Holds(l, e) => Holds(m, e)
    BY <1>1, ExpireKeepsYoung
  <1> HIDE DEF m
  <1>3. ASSUME NEW x \in DOMAIN answered
        PROVE  \E j \in 1 .. Len(m) : m[j].stray = x /\ m[j].age <= answered[x]
    <2>1. PICK i \in 1 .. Len(l) : l[i].stray = x /\ l[i].age <= answered[x]
      BY DEF RstInv
    <2> DEFINE e == l[i]
    <2>2. e \in Entries  BY <1>1
    <2>3. e.age \in Nat  BY <2>2 DEF Entries
    <2>4. answered[x] \in 0 .. RST_INFO_TIMEOUT - 1  BY DEF RstInv
    <2>5. Holds(l, e)  BY DEF Holds
    <2>6. e.stray = x /\ e.age <= answered[x]  BY <2>1
    <2> HIDE DEF e
    <2>7. ~Expired(e)  BY <2>3, <2>4, <2>6, ContextAssumption DEF Expired
    <2>8. Holds(m, e)  BY <1>2, <2>2, <2>5, <2>7
    <2> QED BY <2>6, <2>8 DEF Holds
  <1>4. RstInv'
    BY <1>1, <1>2, <1>3 DEF RstInv
  <1>5. ~(Len(rst_info_') > Len(rst_info_))
    <2>1. Len(m) \in Nat /\ Len(l) \in Nat  BY <1>1, <1>2
    <2> QED BY <1>1, <1>2, <2>1
  <1> QED BY <1>4, <1>5 DEF AppendsFresh

\* Entries and the memory of answers age together
LEMMA TickRst ==
  ASSUME RstInv, Tick
  PROVE  RstInv' /\ AppendsFresh
  <1> DEFINE l == rst_info_
             n == Len(l)
             Aged(e) == [e EXCEPT !.age = Older(@, RST_INFO_TIMEOUT)]
  <1>1. l \in Seq(Entries) /\ n \in Nat /\ DOMAIN l = 1 .. n  BY DEF RstInv
  <1>2. rst_info_' = [j \in 1 .. n |-> Aged(l[j])]  BY <1>1 DEF Tick
  <1>3. ASSUME NEW e \in Entries
        PROVE  Aged(e) \in Entries /\ Aged(e).stray = e.stray /\ Aged(e).age <= e.age + 1
    <2>1. e.age \in Nat /\ Older(e.age, RST_INFO_TIMEOUT) \in Nat
          /\ Older(e.age, RST_INFO_TIMEOUT) <= e.age + 1
      BY ContextAssumption DEF Entries, Older
    <2> DEFINE o == Older(e.age, RST_INFO_TIMEOUT)
    <2>2. Aged(e) = [e EXCEPT !.age = o]  BY DEF Entries
    <2>3. o \in Nat /\ o <= e.age + 1  BY <2>1
    <2> HIDE DEF o, Aged
    <2> QED BY <2>2, <2>3 DEF Entries
  <1>4. \A j \in 1 .. n : l[j] \in Entries  BY <1>1
  <1> HIDE DEF Aged, l, n
  <1>5. /\ rst_info_' \in Seq(Entries) /\ Len(rst_info_') = n
        /\ \A j \in 1 .. n : rst_info_'[j] = Aged(l[j])
    BY <1>1, <1>2, <1>3, <1>4
  <1>6. ASSUME NEW x \in DOMAIN answered'
        PROVE  /\ answered'[x] \in 0 .. RST_INFO_TIMEOUT - 1
               /\ \E j \in 1 .. n : rst_info_'[j].stray = x /\ rst_info_'[j].age <= answered'[x]
    <2>1. x \in DOMAIN answered /\ answered[x] + 1 < RST_INFO_TIMEOUT
          /\ answered'[x] = answered[x] + 1
      BY <1>6 DEF Tick
    <2>2. answered[x] \in 0 .. RST_INFO_TIMEOUT - 1  BY <2>1 DEF RstInv
    <2>3. PICK j \in 1 .. n : l[j].stray = x /\ l[j].age <= answered[x]
      BY <2>1 DEF RstInv, l, n
    <2>4. l[j].age \in Nat  BY <1>4 DEF Entries
    <2>5. Aged(l[j]).stray = l[j].stray /\ Aged(l[j]).age <= l[j].age + 1 /\ Aged(l[j]).age \in Nat
      <3>1. Aged(l[j]) \in Entries  BY <1>3, <1>4
      <3>2. Aged(l[j]).age \in Nat  BY <3>1 DEF Entries
      <3> QED BY <1>3, <1>4, <3>2
    <2>6. answered[x] + 1 \in 0 .. RST_INFO_TIMEOUT - 1  BY <2>1, <2>2, ContextAssumption
    <2>7. Aged(l[j]).age <= answered[x] + 1  BY <2>2, <2>3, <2>4, <2>5
    <2> QED BY <1>5, <2>1, <2>3, <2>5, <2>6, <2>7
  <1>7. RstInv'  BY <1>5, <1>6 DEF RstInv
  <1>8. ~(Len(rst_info_') > Len(rst_info_))  BY <1>1, <1>5 DEF l, n
  <1> QED BY <1>7, <1>8 DEF AppendsFresh

\* Steps that leave the cache and its history alone
LEMMA FrameRst ==
  ASSUME RstInv, UNCHANGED rstVars
  PROVE  RstInv' /\ AppendsFresh
  <1>1. rst_info_' = rst_info_ /\ answered' = answered  BY DEF rstVars
  <1>2. Len(rst_info_) \in Nat  BY DEF RstInv
  <1> QED BY <1>1, <1>2 DEF RstInv, AppendsFresh

LEMMA NextRst ==
  ASSUME RstInv, [Next]_vars
  PROVE  RstInv' /\ AppendsFresh
  <1>1. ASSUME NEW a \in Addrs, NEW id \in ConnIds, NEW q \in SeqNrs, StrayStored(a, id, q)
        PROVE  RstInv' /\ AppendsFresh
    BY <1>1, StrayStoredRst
  <1>2. ASSUME NEW a \in Addrs, NEW id \in ConnIds, NEW q \in SeqNrs, StrayAnswered(a, id, q)
        PROVE  RstInv' /\ AppendsFresh
    BY <1>2, StrayAnsweredRst
  <1>3. CASE CheckTimeouts  BY <1>3, CheckTimeoutsRst
  <1>4. CASE Tick  BY <1>4, TickRst
  <1>5. CASE DestroyContext
    <2>1. rst_info_' = <<>> /\ answered' = <<>>  BY <1>5 DEF DestroyContext
    <2>2. Len(rst_info_) \in Nat  BY DEF RstInv
    <2> QED BY <2>1, <2>2 DEF RstInv, AppendsFresh
  <1>6. CASE UNCHANGED vars  BY <1>6, FrameRst DEF vars, rstVars
  <1>7. CASE UNCHANGED rstVars  BY <1>7, FrameRst
  <1>8. ASSUME NEW s \in Objects,
               \/ CreateSocket(s)
               \/ \E a \in Addrs, seed \in Seeds : Connect(s, a, seed)
               \/ \E a \in Addrs, id \in ConnIds : ProcessSyn(s, a, id)
               \/ \E e \in {"schedule", "send"} : AppCall(s, e)
               \/ \E e \in {"send", "none"} : AppClose(s, e) \/ VisitSocket(s, e)
               \/ DestroyNext(s)
        PROVE  UNCHANGED rstVars
    BY <1>8 DEF CreateSocket, Connect, ProcessSyn, AppCall, AppClose, VisitSocket, DestroyNext
  <1>9. ASSUME NEW a \in Addrs, NEW id \in ConnIds,
               ProcessReset(a, id) \/ \E e \in AckEffects : ProcessIncoming(a, id, e)
        PROVE  UNCHANGED rstVars
    BY <1>9 DEF ProcessReset, ProcessIncoming
  <1>10. ASSUME IssueDeferredAcks \/ IssueNext \/ FinishDestroy \/ EndLoop
         PROVE  UNCHANGED rstVars
    BY <1>10 DEF IssueDeferredAcks, IssueNext, FinishDestroy, EndLoop
  <1>11. CASE Next
    BY <1>1, <1>2, <1>3, <1>4, <1>5, <1>7, <1>8, <1>9, <1>10, <1>11 DEF Next
  <1> QED BY <1>6, <1>11

\* A packet of no known connection that was answered with a RST, or suppressed, is
\* not answered again within RST_INFO_TIMEOUT of that: the swap-pop loop of
\* check_timeouts and the refresh of an entry never lose a young one
THEOREM RstsNotRepeated == Spec => RstOnce
  <1>1. Spec => []RstInv
    BY InitRst, NextRst, PTL DEF Spec
  <1>2. RstInv /\ [Next]_vars => [AppendsFresh]_vars
    BY NextRst
  <1> QED BY <1>1, <1>2, PTL DEF Spec, RstOnce, AppendsFresh
=============================================================================
