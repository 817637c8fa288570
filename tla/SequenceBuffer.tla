---------------------------- MODULE SequenceBuffer ----------------------------
(***************************************************************************)
(* The ring behind inbuf and outbuf: a vector whose size is a power of two *)
(* and whose slot seq & mask_ holds the packet numbered seq.  Nothing in   *)
(* the class keeps two sequence numbers from sharing a slot; that depends  *)
(* on how its two users grow it.  The specification runs the ring as one   *)
(* of them does:                                                           *)
(*   "in"   deliver_data: packets up to REORDER_BUFFER_MAX_SIZE ahead of   *)
(*          ack_nr + 1, taken in order by the drain loop;                  *)
(*   "out"  write_outgoing_packet at the end of the send window,           *)
(*          ack_packet anywhere in it.                                     *)
(***************************************************************************)
EXTENDS SeqNr, FiniteSets, FiniteSetsExt

CONSTANTS INITIAL_SIZE,  \* the size the constructor of UtpSocket asks for
          SPAN,          \* REORDER_BUFFER_MAX_SIZE, OUTGOING_BUFFER_MAX_SIZE
          SACK_MAX,      \* places send_ack looks at (30)
          Packets

\* The sizes that doubling reaches
RingSizes == {n \in 1 .. SEQ_MOD : \E k \in 0 .. SEQ_MOD : n = INITIAL_SIZE * 2 ^ k}

ASSUME RingAssumption ==
  /\ INITIAL_SIZE \in RingSizes /\ SEQ_MOD \in RingSizes
  /\ SPAN \in Nat \ {0} /\ 2 * SPAN <= SEQ_MOD /\ SACK_MAX \in Nat
  /\ NULL \notin Packets

\* Of two sizes that doubling reaches, the smaller divides the larger
ASSUME SizesDivide == \A m, n \in RingSizes : m <= n => n % m = 0

VARIABLES user,   \* which buffer this is
          ring,   \* buf_, a function whose domain is 0 .. mask_
          base,   \* the sequence number of the first place of the window
          count   \* reorder_count, or cur_window_packets

ringVars == <<user, ring, base, count>>

-----------------------------------------------------------------------------
(* The class *)

Size(r) == Cardinality(DOMAIN r)

Empty(n) == [i \in 0 .. n - 1 |-> NULL]

get(r, seq) == r[seq % Size(r)]

put(r, seq, v) == [r EXCEPT ![seq % Size(r)] = v]

take(r, seq) == put(r, seq, NULL)

\* Doubling, at least once, until index is inside
NewSize(r, index) == Min({n \in RingSizes : Size(r) < n /\ index < n})

\* mutant: slots keep their position in the vector
GrowInPlace(r, item, index) ==
  [i \in 0 .. NewSize(r, index) - 1 |-> IF i < Size(r) THEN r[i] ELSE NULL]

\* Packets item - index, ... move to their slots in the larger vector
grow(r, item, index) ==
  LET new == NewSize(r, index)
      start == item - index
      Dist(i) == (i - start) % new   \* of slot i from the start
  IN  [i \in 0 .. new - 1 |->
         IF Dist(i) < Size(r) THEN r[(start + Dist(i)) % Size(r)] ELSE NULL]

\* mutant: the ring is thought large enough when index is just outside
EnsureSizeLate(r, item, index) ==
  IF index > Size(r) + 1 THEN grow(r, item, index) ELSE r

ensure_size(r, item, index) ==
  IF index > Size(r) - 1 THEN grow(r, item, index) ELSE r

-----------------------------------------------------------------------------
(* Its users *)

\* inbuf starts at ack_nr + 1, outbuf at the window start, anywhere
RingInit == /\ user \in {"in", "out"}
            /\ ring = Empty(INITIAL_SIZE)
            /\ base \in SeqNrs
            /\ count = 0

\* mutant: a packet that is in the ring already is counted again
StoreIncomingTwice(d, v) ==
  LET seq == Wrap(base + d)
      r == ensure_size(ring, seq + 1, d + 1)
  IN  /\ user = "in" /\ count < SPAN
      /\ ring' = put(r, seq, v)
      /\ count' = count + 1
      /\ UNCHANGED <<user, base>>

\* deliver_data, for a packet d places ahead: a duplicate is not stored, but
\* the ring has grown
StoreIncoming(d, v) ==
  LET seq == Wrap(base + d)
      r == ensure_size(ring, seq + 1, d + 1)
      dup == get(r, seq) # NULL
  IN  /\ user = "in"
      /\ ring' = IF dup THEN r ELSE put(r, seq, v)
      /\ count' = IF dup THEN count ELSE count + 1
      /\ UNCHANGED <<user, base>>

\* Packets that follow seq without a gap, at most count of them
Run(seq) ==
  Max({n \in 0 .. count : \A i \in 1 .. n : get(ring, Wrap(seq + i)) # NULL})

\* deliver_data for the expected packet: it never enters the ring, the
\* packets behind it are taken
DeliverInOrder ==
  LET n == Run(base)
  IN  /\ user = "in"
      /\ ring' = [i \in DOMAIN ring |->
           IF \E k \in 1 .. n : i = Wrap(base + k) % Size(ring) THEN NULL ELSE ring[i]]
      /\ base' = Wrap(base + n + 1)
      /\ count' = count - n
      /\ UNCHANGED user

\* write_outgoing_packet and connect
AppendOutgoing(v) ==
  LET seq == Wrap(base + count)
  IN  /\ user = "out" /\ count < SPAN
      /\ ring' = put(ensure_size(ring, seq, count), seq, v)
      /\ count' = count + 1
      /\ UNCHANGED <<user, base>>

\* ack_packet for a packet inside the window, named by a selective ACK
AckSelective(d) ==
  /\ user = "out" /\ 0 < d /\ d < count
  /\ get(ring, Wrap(base + d)) # NULL
  /\ ring' = take(ring, Wrap(base + d))
  /\ UNCHANGED <<user, base, count>>

\* ack_packet for the first one; the window start skips what is gone
AckFirst ==
  LET gone == Max({n \in 1 .. count :
                     \A i \in 1 .. n - 1 : get(ring, Wrap(base + i)) = NULL})
  IN  /\ user = "out" /\ count > 0
      /\ ring' = take(ring, base)
      /\ base' = Wrap(base + gone)
      /\ count' = count - gone
      /\ UNCHANGED user

RingNext == \/ \E d \in 1 .. SPAN - 1, v \in Packets : StoreIncoming(d, v)
            \/ DeliverInOrder
            \/ \E v \in Packets : AppendOutgoing(v)
            \/ \E d \in 1 .. SPAN - 1 : AckSelective(d)
            \/ AckFirst

RingSpec == RingInit /\ [][RingNext]_ringVars

-----------------------------------------------------------------------------
(* Properties *)

\* The packets that the users can name: the send window, and what deliver_data,
\* which grows the ring before it looks, has made room for
InWindow(q) ==
  Wrap(q - base) < IF user = "in" THEN Min({SPAN, Size(ring)}) ELSE count

Held == [q \in SeqNrs |-> IF InWindow(q) THEN get(ring, q) ELSE NULL]

Map == INSTANCE SequenceMap WITH Keys <- SeqNrs, slots <- Held

\* The ring behaves as a map whatever the sizes, positions and wraps: growing
\* loses and moves nothing, no packet is overwritten, a taken packet does not
\* come back under another number.
RefinesMap == Map!Spec

\* The slots and the counters agree: reorder_count packets are in inbuf, and
\* the slot of ack_nr + 1 is empty (asserted in send_ack and deliver_data); the
\* vector is never wider than the sequence numbers.
RingCounts ==
  /\ Size(ring) <= SEQ_MOD /\ DOMAIN ring = 0 .. Size(ring) - 1
  /\ base \in SeqNrs /\ count \in 0 .. SPAN
  /\ user = "in" => /\ count = Cardinality({i \in DOMAIN ring : ring[i] # NULL})
                    /\ get(ring, base) = NULL

\* The bitmap that send_ack reads from the ring, where places beyond the size
\* of the ring alias earlier ones, names exactly the packets received.
SackBitmapExact ==
  user = "in" =>
    {i \in 0 .. Min({SACK_MAX, Size(ring)}) - 1 : get(ring, base + i + 1) # NULL}
      = {i \in 0 .. SACK_MAX - 1 : i + 1 < SPAN /\ Held[Wrap(base + i + 1)] # NULL}
=============================================================================
