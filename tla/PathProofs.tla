----------------------------- MODULE PathProofs ------------------------------
(***************************************************************************)
(* Theorems about what a socket learns of the path to its peer.  Ledbat:   *)
(* for every value of the constants, the bounds of the congestion window,  *)
(* of the queuing delays, of the smoothed round trip and of the long-term  *)
(* delay average, the meaning of the baseline, and that delays above the   *)
(* target never enlarge the window.  MtuDiscovery: for every size of the   *)
(* interval, of the window and of the writes the assertions of the search  *)
(* hold, as long as routers do not report the MTU of the next hop.         *)
(***************************************************************************)
EXTENDS Ledbat, MtuDiscovery, SeqNrProofs, FiniteSetTheorems, SequenceTheorems,
        WellFoundedInduction

-----------------------------------------------------------------------------
(* Arithmetic *)

\* A non-empty set of naturals has a smallest element.
LEMMA SmallestElement ==
    ASSUME NEW T \in SUBSET Nat, T # {}
    PROVE  \E x \in T : \A y \in T : x <= y
<1> DEFINE R == OpToRel(<, Nat)
<1>1. \A x, y \in Nat : x < y => <<x, y>> \in R
  BY DEF OpToRel
<1>2. IsWellFoundedOn(R, Nat)
  BY NatLessThanWellFounded
<1> HIDE DEF R
<1>3. PICK x \in T : \A y \in T : ~(<<y, x>> \in R)
  BY <1>2, WFMin
<1>4. \A y \in T : ~(y < x)
  BY <1>1, <1>3
<1> QED
  BY <1>4

\* C's truncating division by a positive number yields an integer.
LEMMA TruncType ==
    ASSUME NEW n \in Int, NEW d \in Nat \ {0}
    PROVE  /\ Trunc(n, d) \in Int
           /\ n >= 0 => Trunc(n, d) >= 0
BY DEF Trunc

LEMMA ProductPositive ==
    ASSUME NEW a \in Nat \ {0}, NEW b \in Nat \ {0}
    PROVE  a * b \in Nat \ {0}
OBVIOUS

-----------------------------------------------------------------------------
(* Delay histories *)

\* One step of the loop that recomputes delay_base
Chain(f, hist, n) ==
    /\ f \in [0 .. n -> Stamps]
    /\ \A i \in 0 .. n : f[i] = IF i = 0 THEN hist[0] ELSE Earlier(hist[i], f[i - 1])

\* The loop has a result for every prefix of the slots.
LEMMA ChainExists ==
    ASSUME NEW hist \in [BaseSlots -> Stamps], NEW n \in BaseSlots
    PROVE  \E f : Chain(f, hist, n)
<1> DEFINE T == {k \in BaseSlots : ~\E f : Chain(f, hist, k)}
<1>0. DELAY_BASE_HISTORY \in Nat \ {0} /\ BaseSlots = 0 .. DELAY_BASE_HISTORY - 1
  BY DelayHistoryAssumption DEF BaseSlots
<1> SUFFICES ASSUME T # {} PROVE FALSE
  OBVIOUS
<1>1. T \in SUBSET Nat
  BY <1>0
<1> HIDE DEF T
<1>2. PICK x \in T : \A y \in T : x <= y
  BY <1>1, SmallestElement
<1>3. x \in BaseSlots /\ ~\E f : Chain(f, hist, x)
  BY DEF T
<1>4. CASE x = 0
  <2> DEFINE f == [i \in 0 .. 0 |-> hist[0]]
  <2>1. hist[0] \in Stamps
    BY <1>0
  <2>2. Chain(f, hist, 0)
    BY <2>1 DEF Chain
  <2> QED
    BY <2>2, <1>3, <1>4
<1>5. CASE x # 0
  <2>1. x \in Nat /\ x - 1 \in BaseSlots /\ x - 1 \in 0 .. x - 1 /\ ~(x <= x - 1)
    BY <1>0, <1>3, <1>5
  <2>2. x - 1 \notin T
    BY <1>2, <2>1
  <2>3. PICK g : Chain(g, hist, x - 1)
    BY <2>1, <2>2 DEF T
  <2> DEFINE f == [i \in 0 .. x |-> IF i = x THEN Earlier(hist[x], g[x - 1]) ELSE g[i]]
  <2>4. hist[x] \in Stamps
    BY <1>3
  <2>5. g \in [0 .. x - 1 -> Stamps]
    BY <2>3 DEF Chain
  <2>6. Earlier(hist[x], g[x - 1]) \in Stamps
    <3>1. g[x - 1] \in Stamps
      BY <2>1, <2>5
    <3> QED
      BY <2>4, <3>1 DEF Earlier
  <2>7. f \in [0 .. x -> Stamps]
    BY <2>1, <2>5, <2>6
  <2>8. \A i \in 0 .. x : f[i] = IF i = 0 THEN hist[0] ELSE Earlier(hist[i], f[i - 1])
    <3> SUFFICES ASSUME NEW i \in 0 .. x
                 PROVE  f[i] = IF i = 0 THEN hist[0] ELSE Earlier(hist[i], f[i - 1])
      OBVIOUS
    <3>1. CASE i = x
      BY <3>1, <2>1, <1>5
    <3>2. CASE i # x
      <4>1. i \in 0 .. x - 1
        BY <3>2, <2>1
      <4>2. f[i] = g[i]
        BY <3>2
      <4>3. i # 0 => f[i - 1] = g[i - 1]
        BY <4>1, <2>1
      <4>4. g[i] = IF i = 0 THEN hist[0] ELSE Earlier(hist[i], g[i - 1])
        BY <2>3, <4>1 DEF Chain
      <4> QED
        BY <4>2, <4>3, <4>4
    <3> QED
      BY <3>1, <3>2
  <2>9. Chain(f, hist, x)
    BY <2>7, <2>8 DEF Chain
  <2> QED
    BY <2>9, <1>3
<1> QED
  BY <1>4, <1>5

\* The loop that recomputes the baseline, slot by slot
LEMMA EarliestOfUnfolds ==
    ASSUME NEW hist \in [BaseSlots -> Stamps]
    PROVE  \E f \in [BaseSlots -> Stamps] :
             /\ f[0] = hist[0]
             /\ \A i \in BaseSlots : i # 0 => f[i] = Earlier(hist[i], f[i - 1])
             /\ EarliestOf(hist) = f[DELAY_BASE_HISTORY - 1]
<1> DEFINE upTo == CHOOSE f : f = [i \in BaseSlots |->
                     IF i = 0 THEN hist[0] ELSE Earlier(hist[i], f[i - 1])]
           last == DELAY_BASE_HISTORY - 1
<1>1. BaseSlots = 0 .. last /\ last \in BaseSlots /\ 0 \in BaseSlots
  BY DelayHistoryAssumption DEF BaseSlots
<1>2. PICK f : Chain(f, hist, last)
  BY <1>1, ChainExists
<1>3. f = [i \in BaseSlots |-> IF i = 0 THEN hist[0] ELSE Earlier(hist[i], f[i - 1])]
  BY <1>1, <1>2 DEF Chain
<1>4. upTo = [i \in BaseSlots |->
                IF i = 0 THEN hist[0] ELSE Earlier(hist[i], upTo[i - 1])]
  BY <1>3
<1>5. EarliestOf(hist) = upTo[last]
  BY DEF EarliestOf
<1> HIDE DEF upTo
<1>6. upTo[0] = hist[0] /\ \A i \in BaseSlots : i # 0 => upTo[i] = Earlier(hist[i], upTo[i - 1])
  BY <1>1, <1>4
<1> DEFINE T == {k \in BaseSlots : upTo[k] \notin Stamps}
<1>7. T = {}
  <2> SUFFICES ASSUME T # {} PROVE FALSE
    OBVIOUS
  <2>1. T \in SUBSET Nat
    BY <1>1, DelayHistoryAssumption
  <2> HIDE DEF T
  <2>2. PICK x \in T : \A y \in T : x <= y
    BY <2>1, SmallestElement
  <2>3. x \in BaseSlots /\ upTo[x] \notin Stamps
    BY DEF T
  <2>4. x # 0
    BY <2>3, <1>1, <1>6
  <2>5. x \in Nat /\ x - 1 \in BaseSlots /\ ~(x <= x - 1)
    BY <1>1, <2>3, <2>4, DelayHistoryAssumption
  <2>6. upTo[x - 1] \in Stamps
    BY <2>2, <2>5 DEF T
  <2> QED
    BY <1>6, <2>3, <2>4, <2>6 DEF Earlier
<1>8. upTo \in [BaseSlots -> Stamps]
  BY <1>4, <1>7
<1> QED
  BY <1>5, <1>6, <1>8

\* The recomputed baseline is a timestamp.
LEMMA EarliestOfType ==
    ASSUME NEW hist \in [BaseSlots -> Stamps]
    PROVE  EarliestOf(hist) \in Stamps
<1>1. DELAY_BASE_HISTORY - 1 \in BaseSlots
  BY DelayHistoryAssumption DEF BaseSlots
<1> QED
  BY <1>1, EarliestOfUnfolds

\* The remainder of a number less than TS_MOD away from zero.
LEMMA SmallRemainder ==
    \A n \in Int : /\ 0 <= n /\ n < TS_MOD => n % TS_MOD = n
                  /\ n < 0 /\ -TS_MOD < n => n % TS_MOD = n + TS_MOD
<1> SUFFICES ASSUME NEW n \in Int
             PROVE  /\ 0 <= n /\ n < TS_MOD => n % TS_MOD = n
                    /\ n < 0 /\ -TS_MOD < n => n % TS_MOD = n + TS_MOD
  OBVIOUS
<1>1. 0 <= n /\ n < TS_MOD => n % TS_MOD = n
  BY DelayHistoryAssumption
<1>2. ASSUME n < 0, -TS_MOD < n PROVE n % TS_MOD = n + TS_MOD
  <2> DEFINE q == n \div TS_MOD
             r == n % TS_MOD
  <2>1. /\ q \in Int /\ r \in Int /\ 0 <= r /\ r < TS_MOD
        /\ n = TS_MOD * q + r
    BY DelayHistoryAssumption
  <2> HIDE DEF q, r
  <2>2. CASE q >= 0
    <3>1. TS_MOD * q >= 0
      BY <2>1, <2>2, DelayHistoryAssumption
    <3> QED
      BY <1>2, <2>1, <3>1, DelayHistoryAssumption
  <2>3. CASE q <= -2
    <3>1. TS_MOD * q <= TS_MOD * (-2)
      BY <2>1, <2>3, DelayHistoryAssumption
    <3> QED
      BY <1>2, <2>1, <3>1, DelayHistoryAssumption
  <2>4. CASE q = -1
    BY <2>1, <2>4, DelayHistoryAssumption DEF r
  <2> QED
    BY <2>1, <2>2, <2>3, <2>4
<1> QED
  BY <1>1, <1>2

LEMMA RemainderType ==
    \A n \in Int : n % TS_MOD \in Stamps
BY DelayHistoryAssumption DEF Stamps

\* A sample is never more than half of the range above the baseline that it
\* was compared with.
LEMMA DistanceAtMostHalf ==
    ASSUME NEW a \in Stamps, NEW b \in Stamps
    PROVE  /\ Earlier(a, b) \in Stamps
           /\ (a - Earlier(a, b)) % TS_MOD \in Stamps
           /\ 2 * ((a - Earlier(a, b)) % TS_MOD) <= TS_MOD
<1>1. /\ TS_MOD \in Nat /\ TS_MOD > 1
      /\ a \in Int /\ b \in Int /\ a < TS_MOD /\ b < TS_MOD /\ 0 <= a /\ 0 <= b
  BY DelayHistoryAssumption DEF Stamps
<1>2. Earlier(a, b) \in Stamps
  BY DEF Earlier
<1>3. CASE WrappingCompareLess(a, b)
  <2>1. Earlier(a, b) = a /\ a - a = 0
    BY <1>1, <1>3 DEF Earlier
  <2>2. 0 % TS_MOD = 0
    BY <1>1
  <2> QED
    BY <1>1, <1>2, <2>1, <2>2 DEF Stamps
<1>4. CASE ~WrappingCompareLess(a, b)
  <2> DEFINE up == (a - b) % TS_MOD
             down == (b - a) % TS_MOD
  <2>1. Earlier(a, b) = b
    BY <1>4 DEF Earlier
  <2>2. up \in Int /\ down \in Int /\ up <= down /\ up \in Stamps
    BY <1>1, <1>4, RemainderType DEF WrappingCompareLess, Stamps
  <2>3. a = b => up = 0
    BY <1>1, SmallRemainder
  <2>4. a > b => up = a - b /\ down = b - a + TS_MOD
    BY <1>1, SmallRemainder
  <2>5. a < b => up = a - b + TS_MOD /\ down = b - a
    BY <1>1, SmallRemainder
  <2> HIDE DEF up, down
  <2>6. 2 * up <= TS_MOD
    BY <1>1, <2>2, <2>3, <2>4, <2>5
  <2> QED
    BY <1>2, <2>1, <2>2, <2>6 DEF up
<1> QED
  BY <1>3, <1>4

\* What a delay history keeps
HistoryInv(h) ==
    /\ h \in DelayHistories
    /\ \A i \in CurSlots : 2 * h.cur_delay_hist[i] <= TS_MOD

LEMMA ClearInv == ASSUME NEW t \in Nat PROVE HistoryInv(Clear(t))
BY DelayHistoryAssumption
   DEF HistoryInv, Clear, DelayHistories, CurSlots, BaseSlots, Stamps

LEMMA ShiftInv ==
    ASSUME NEW h, HistoryInv(h), NEW offset \in Int
    PROVE  HistoryInv(Shift(h, offset))
<1> DEFINE hist == [i \in BaseSlots |-> (h.delay_base_hist[i] + offset) % TS_MOD]
           base == (h.delay_base + offset) % TS_MOD
<1>1. h.delay_base \in Int /\ \A i \in BaseSlots : h.delay_base_hist[i] \in Int
  BY DEF HistoryInv, DelayHistories, Stamps
<1>2. hist \in [BaseSlots -> Stamps] /\ base \in Stamps
  BY <1>1, RemainderType
<1>3. Shift(h, offset) = [h EXCEPT !.delay_base_hist = hist, !.delay_base = base]
  BY DEF Shift
<1> HIDE DEF hist, base
<1> QED
  BY <1>2, <1>3 DEF HistoryInv, DelayHistories

LEMMA InitializedInv ==
    ASSUME NEW h, HistoryInv(h), NEW s \in Stamps
    PROVE  HistoryInv(Initialized(h, s))
<1> DEFINE hist == [i \in BaseSlots |-> s]
<1>1. hist \in [BaseSlots -> Stamps]
  OBVIOUS
<1> HIDE DEF hist
<1>2. CASE h.delay_base_initialized
  BY <1>2 DEF Initialized
<1>3. CASE ~h.delay_base_initialized
  <2>1. Initialized(h, s) = [h EXCEPT !.delay_base_hist = hist, !.delay_base = s,
                                      !.delay_base_initialized = TRUE]
    BY <1>3 DEF Initialized, hist
  <2> QED
    BY <1>1, <2>1 DEF HistoryInv, DelayHistories
<1> QED
  BY <1>2, <1>3

LEMMA RecordedInv ==
    ASSUME NEW h, HistoryInv(h), NEW s \in Stamps
    PROVE  HistoryInv(Recorded(h, s))
<1> DEFINE base == Earlier(s, h.delay_base)
           delay == (s - base) % TS_MOD
           slot == Earlier(s, h.delay_base_hist[h.delay_base_idx])
           hist == [h.delay_base_hist EXCEPT ![h.delay_base_idx] = slot]
           cur == [h.cur_delay_hist EXCEPT ![h.cur_delay_idx] = delay]
           idx == (h.cur_delay_idx + 1) % CUR_DELAY_SIZE
<1>1. /\ h.delay_base \in Stamps /\ h.delay_base_idx \in BaseSlots
      /\ h.delay_base_hist \in [BaseSlots -> Stamps]
      /\ h.cur_delay_hist \in [CurSlots -> Stamps] /\ h.cur_delay_idx \in CurSlots
  BY DEF HistoryInv, DelayHistories
<1>2. base \in Stamps /\ delay \in Stamps /\ 2 * delay <= TS_MOD
  BY <1>1, DistanceAtMostHalf
<1>3. slot \in Stamps
  BY <1>1, DistanceAtMostHalf
<1>4. idx \in CurSlots
  BY <1>1, DelayHistoryAssumption DEF CurSlots
<1>5. Recorded(h, s) = [h EXCEPT !.delay_base_hist = hist, !.delay_base = base,
                                 !.cur_delay_hist = cur, !.cur_delay_idx = idx]
  BY <1>1 DEF Recorded
<1> HIDE DEF base, delay, slot, idx
<1>6. hist \in [BaseSlots -> Stamps] /\ cur \in [CurSlots -> Stamps]
  BY <1>1, <1>2, <1>3
<1>7. \A i \in CurSlots : 2 * cur[i] <= TS_MOD
  BY <1>1, <1>2 DEF HistoryInv
<1> HIDE DEF hist, cur
<1> QED
  BY <1>2, <1>4, <1>5, <1>6, <1>7 DEF HistoryInv, DelayHistories

LEMMA RotatedInv ==
    ASSUME NEW h, HistoryInv(h), NEW s \in Stamps, NEW t \in Nat
    PROVE  HistoryInv(Rotated(h, s, t))
<1> DEFINE idx == (h.delay_base_idx + 1) % DELAY_BASE_HISTORY
           hist == [h.delay_base_hist EXCEPT ![idx] = s]
           base == EarliestOf(hist)
<1>1. h.delay_base_idx \in BaseSlots /\ h.delay_base_hist \in [BaseSlots -> Stamps]
  BY DEF HistoryInv, DelayHistories
<1>2. idx \in BaseSlots
  BY <1>1, DelayHistoryAssumption DEF BaseSlots
<1> HIDE DEF idx
<1>3. hist \in [BaseSlots -> Stamps]
  BY <1>1, <1>2
<1> HIDE DEF hist
<1>4. base \in Stamps
  BY <1>3, EarliestOfType
<1> HIDE DEF base
<1>5. CASE SlotOver(h, t)
  <2>1. Rotated(h, s, t) = [h EXCEPT !.delay_base_time = t, !.delay_base_idx = idx,
                                     !.delay_base_hist = hist, !.delay_base = base]
    BY <1>5 DEF Rotated, idx, hist, base
  <2> QED
    BY <1>2, <1>3, <1>4, <2>1 DEF HistoryInv, DelayHistories
<1>6. CASE ~SlotOver(h, t)
  BY <1>6 DEF Rotated
<1> QED
  BY <1>5, <1>6

LEMMA AddSampleInv ==
    ASSUME NEW h, HistoryInv(h), NEW s \in Stamps, NEW t \in Nat
    PROVE  HistoryInv(AddSample(h, s, t))
<1> DEFINE a == Initialized(h, s)
           b == Recorded(a, s)
<1>1. HistoryInv(a)
  BY InitializedInv
<1> HIDE DEF a
<1>2. HistoryInv(b)
  BY <1>1, RecordedInv
<1> HIDE DEF b
<1>3. HistoryInv(Rotated(b, s, t))
  BY <1>2, RotatedInv
<1> QED
  BY <1>3 DEF AddSample, a, b

\* get_value returns one of the recent delays.
LEMMA GetValueType ==
    ASSUME NEW h, HistoryInv(h)
    PROVE  GetValue(h) \in Stamps
<1> DEFINE T == {h.cur_delay_hist[i] : i \in CurSlots}
<1>1. h.cur_delay_hist \in [CurSlots -> Stamps] /\ 0 \in CurSlots
  BY DelayHistoryAssumption DEF HistoryInv, DelayHistories, CurSlots
<1>2. T \in SUBSET Nat /\ T # {}
  BY <1>1 DEF Stamps
<1>3. \E x \in T : \A y \in T : x <= y
  BY <1>2, SmallestElement
<1>4. \E v \in Stamps : /\ \E i \in CurSlots : h.cur_delay_hist[i] = v
                       /\ \A i \in CurSlots : v <= h.cur_delay_hist[i]
  BY <1>1, <1>3
<1> QED
  BY <1>4 DEF GetValue

-----------------------------------------------------------------------------
(* The congestion window *)

\* The clamp of apply_ccontrol, for whatever window was computed.
LEMMA ClampBounds ==
    ASSUME NEW w \in Int, NEW hi \in SndBufs
    PROVE  /\ Clamp(w, MIN_WINDOW_SIZE, hi) \in Nat
           /\ MIN_WINDOW_SIZE <= Clamp(w, MIN_WINDOW_SIZE, hi)
           /\ Clamp(w, MIN_WINDOW_SIZE, hi) <= hi
BY LedbatAssumption DEF Clamp

WindowInv ==
    /\ max_window \in Nat /\ ssthresh \in Nat /\ slow_start \in BOOLEAN
    /\ WindowBounds

ClockInv ==
    /\ now \in Nat /\ opt_sndbuf \in SndBufs /\ packets \in Nat
    /\ last_maxed_out_window \in Nat /\ last_rwin_decay \in Int

LEMMA LedbatCwndType ==
    ASSUME WindowInv, ClockInv, NEW acked \in Nat, acked >= 1,
           NEW delay \in Int, NEW wraps \in BOOLEAN
    PROVE  LedbatCwnd(acked, delay, wraps) \in Nat
<1> DEFINE num == GainNum(acked, delay)
           den == GainDen(acked)
           whole == max_window * den + num
<1>1. max_window \in Nat \ {0} /\ TARGET \in Nat \ {0} /\ SIZE_MAX \in Nat
      /\ MIN_WINDOW_SIZE \in Nat /\ MAX_CWND_INCREASE \in Nat
  BY LedbatAssumption DEF WindowInv, WindowBounds
<1>2. den \in Nat \ {0}
  <2>1. Larger(max_window, acked) \in Nat \ {0}
    BY <1>1 DEF Larger
  <2> QED
    BY <1>1, <2>1, ProductPositive DEF GainDen
<1>3. num \in Int
  <2>1. Smaller(acked, max_window) \in Int
    BY <1>1 DEF Smaller
  <2> QED
    BY <1>1, <2>1 DEF GainNum
<1> HIDE DEF num, den
<1>4. whole \in Int
  BY <1>1, <1>2, <1>3
<1> HIDE DEF whole
<1>5. Trunc(whole, den) \in Int
  BY <1>2, <1>4, TruncType
<1>6. ToSize(Trunc(whole, den), wraps) \in Nat
  BY <1>1, <1>5 DEF ToSize
<1>7. \/ LedbatCwnd(acked, delay, wraps) = MIN_WINDOW_SIZE
      \/ LedbatCwnd(acked, delay, wraps) = ToSize(Trunc(whole, den), wraps)
  BY DEF LedbatCwnd, num, den, whole
<1> QED
  BY <1>1, <1>6, <1>7

LEMMA SlowStartCwndType ==
    ASSUME WindowInv, NEW acked \in Nat, acked >= 1, NEW size \in PacketSizes
    PROVE  SlowStartCwnd(acked, size) \in Int
<1> DEFINE d == Larger(max_window, acked)
           n == Smaller(acked, max_window) * size
<1>1. max_window \in Nat \ {0} /\ size \in Nat
  BY LedbatAssumption DEF WindowInv, WindowBounds
<1>2. d \in Nat \ {0}
  BY <1>1 DEF Larger
<1>3. Smaller(acked, max_window) \in Nat
  BY <1>1 DEF Smaller
<1>4. n \in Int
  BY <1>1, <1>3
<1> HIDE DEF d, n
<1>5. n \div d \in Int
  BY <1>2, <1>4
<1>6. SlowStartCwnd(acked, size) = max_window + n \div d
  BY DEF SlowStartCwnd, n, d
<1> QED
  BY <1>1, <1>5, <1>6

LEMMA ApplyCControlInv ==
    ASSUME WindowInv, ClockInv, NEW acked \in Nat, acked >= 1, NEW delay \in Int,
           NEW size \in PacketSizes, NEW wraps \in BOOLEAN,
           ApplyCControl(acked, delay, size, wraps)
    PROVE  WindowInv' /\ our_delay' \in Int
<1> DEFINE ledbat == LedbatCwnd(acked, delay, wraps)
           ss == SlowStartCwnd(acked, size)
<1>1. ledbat \in Int /\ ss \in Int /\ max_window \in Int /\ Larger(ss, ledbat) \in Int
  <2>1. ledbat \in Int /\ ss \in Int
    BY LedbatCwndType, SlowStartCwndType
  <2> HIDE DEF ledbat, ss
  <2> QED
    BY <2>1 DEF WindowInv, Larger
<1>2. \E w \in {ledbat, max_window, Larger(ss, ledbat)} : SetWindow(w)
  BY DEF ApplyCControl
<1>3. slow_start' \in BOOLEAN /\ ssthresh' \in Nat /\ our_delay' \in Int
  BY DEF ApplyCControl, WindowInv
<1> HIDE DEF ledbat, ss
<1>4. PICK w \in Int : max_window' = Clamp(w, MIN_WINDOW_SIZE, opt_sndbuf)
  BY <1>1, <1>2 DEF SetWindow
<1>5. opt_sndbuf \in SndBufs
  BY DEF ClockInv
<1>6. max_window' \in Nat /\ MIN_WINDOW_SIZE <= max_window' /\ max_window' <= opt_sndbuf
  BY <1>4, <1>5, ClampBounds
<1> QED
  BY <1>3, <1>5, <1>6 DEF WindowInv, WindowBounds

LEMMA DecayInv ==
    ASSUME WindowInv, MaybeDecayWin
    PROVE  WindowInv'
<1> DEFINE half == max_window \div 2
<1>1. half \in Int /\ half <= max_window /\ MIN_WINDOW_SIZE \in Nat
  BY LedbatAssumption DEF WindowInv
<1>2. max_window' = Larger(half, MIN_WINDOW_SIZE) /\ slow_start' = FALSE
      /\ ssthresh' = max_window'
  BY DEF MaybeDecayWin
<1> HIDE DEF half
<1>3. PICK limit \in SndBufs \cup PacketSizes : max_window <= limit
  BY DEF WindowInv, WindowBounds
<1>4. limit \in Nat /\ MIN_WINDOW_SIZE <= limit
  BY <1>3, LedbatAssumption
<1>5. max_window' \in Nat /\ MIN_WINDOW_SIZE <= max_window' /\ max_window' <= limit
  BY <1>1, <1>2, <1>3, <1>4 DEF Larger, WindowInv
<1> QED
  BY <1>2, <1>3, <1>5 DEF WindowInv, WindowBounds

LEMMA RtoInv ==
    ASSUME WindowInv, NEW size \in PacketSizes, NEW inFlight \in BOOLEAN,
           OnRtoTimeout(size, inFlight)
    PROVE  WindowInv'
<1>1. size \in Nat /\ MIN_WINDOW_SIZE \in Nat /\ MIN_WINDOW_SIZE <= size
  BY LedbatAssumption
<1>2. ssthresh' = ssthresh /\ slow_start' \in BOOLEAN
  BY DEF OnRtoTimeout, WindowInv
<1>3. CASE max_window' = size
  BY <1>1, <1>2, <1>3 DEF WindowInv, WindowBounds
<1>4. CASE max_window > size /\ max_window' = Larger((max_window * 2) \div 3, size)
  <2> DEFINE third == (max_window * 2) \div 3
  <2>1. third \in Int /\ third <= max_window
    BY DEF WindowInv
  <2> HIDE DEF third
  <2>2. max_window' = Larger(third, size)
    BY <1>4 DEF third
  <2>3. PICK limit \in SndBufs \cup PacketSizes : max_window <= limit
    BY DEF WindowInv, WindowBounds
  <2>4. limit \in Nat
    BY <2>3, LedbatAssumption
  <2>5. max_window' \in Nat /\ MIN_WINDOW_SIZE <= max_window' /\ max_window' <= limit
    BY <1>1, <1>4, <2>1, <2>2, <2>3, <2>4 DEF Larger, WindowInv
  <2> QED
    BY <1>2, <2>3, <2>5 DEF WindowInv, WindowBounds
<1> QED
  BY <1>3, <1>4 DEF OnRtoTimeout

-----------------------------------------------------------------------------
(* The long-term average *)

AverageInv == average \in Averages /\ AverageNearBase

\* After the normalisation zero lies between the two averages.
LEMMA AdjustNear ==
    ASSUME NEW prev \in Int, NEW delay \in Int
    PROVE  /\ Adjust(prev, delay) \in Int
           /\ Abs(delay + Adjust(prev, delay)) <= Abs(delay - prev)
BY DEF Adjust, Abs, Smaller, Larger

LEMMA CloseSlotInv ==
    ASSUME NEW a \in Averages, a.samples > 0
    PROVE  /\ CloseSlot(a) \in Averages
           /\ Abs(CloseSlot(a).delay) <= Abs(CloseSlot(a).raw)
<1> DEFINE delay == Trunc(a.sum, a.samples)
           adjust == Adjust(a.delay, delay)
           base == (a.base - adjust) % TS_MOD
           sum == a.drift * (DRIFT_WEIGHT - 1) + delay - a.delay
           drift == Trunc(sum, DRIFT_WEIGHT)
<1>1. /\ a.delay \in Int /\ a.sum \in Int /\ a.samples \in Nat \ {0}
      /\ a.base \in Int /\ a.time \in Nat /\ a.drift \in Int
  BY DEF Averages, Stamps
<1>2. delay \in Int
  BY <1>1, TruncType
<1> HIDE DEF delay
<1>3. adjust \in Int /\ Abs(delay + adjust) <= Abs(delay - a.delay)
  BY <1>1, <1>2, AdjustNear
<1> HIDE DEF adjust
<1>4. base \in Stamps
  BY <1>1, <1>3, RemainderType
<1>5. sum \in Int /\ DRIFT_WEIGHT \in Nat \ {0}
  BY <1>1, <1>2, LedbatAssumption
<1> HIDE DEF sum, base
<1>6. drift \in Int
  BY <1>5, TruncType
<1> HIDE DEF drift
<1>7. a.time + AVERAGE_SLOT \in Nat /\ delay + adjust \in Int /\ delay - a.delay \in Int
  BY <1>1, <1>2, <1>3, LedbatAssumption
<1>8. CloseSlot(a) = [a EXCEPT !.delay = delay + adjust, !.sum = 0, !.samples = 0,
                               !.base = base, !.time = a.time + AVERAGE_SLOT,
                               !.raw = delay - a.delay, !.drift = drift]
  BY DEF CloseSlot, delay, adjust, base, sum, drift
<1> DEFINE d == delay + adjust
           t == a.time + AVERAGE_SLOT
           r == delay - a.delay
           z == 0
           c == [a EXCEPT !.delay = d, !.sum = z, !.samples = z, !.base = base,
                          !.time = t, !.raw = r, !.drift = drift]
<1>9. CloseSlot(a) = c /\ d \in Int /\ t \in Nat /\ r \in Int /\ z \in Int /\ z \in Nat
      /\ Abs(d) <= Abs(r)
  BY <1>3, <1>7, <1>8
<1> HIDE DEF d, t, r, z
<1>10. c \in Averages /\ c.delay = d /\ c.raw = r
  BY <1>4, <1>6, <1>9 DEF Averages
<1> HIDE DEF c
<1> QED
  BY <1>9, <1>10

LEMMA UpdateDelayAverageInv ==
    ASSUME NEW a \in Averages, Abs(a.delay) <= Abs(a.raw), NEW s \in Stamps
    PROVE  /\ UpdateDelayAverage(a, s) \in Averages
           /\ Abs(UpdateDelayAverage(a, s).delay) <= Abs(UpdateDelayAverage(a, s).raw)
<1> DEFINE base == IF a.base = 0 THEN s ELSE a.base
           sum == a.sum + SignedDistance(base, s)
           samples == a.samples + 1
           b == [a EXCEPT !.base = base, !.sum = sum, !.samples = samples]
<1>1. a.sum \in Int /\ a.samples \in Nat /\ base \in Stamps
  BY DEF Averages
<1> HIDE DEF base
<1>2. SignedDistance(base, s) \in Int
  <2>1. (base - s) % TS_MOD \in Int /\ (s - base) % TS_MOD \in Int
    BY <1>1, RemainderType DEF Stamps
  <2> QED
    BY <2>1 DEF SignedDistance
<1>3. sum \in Int /\ samples \in Nat /\ samples > 0
  BY <1>1, <1>2
<1> HIDE DEF sum, samples
<1>4. b \in Averages /\ b.samples > 0 /\ b.delay = a.delay /\ b.raw = a.raw
  BY <1>1, <1>3 DEF Averages
<1>5. UpdateDelayAverage(a, s) = IF now > a.time THEN CloseSlot(b) ELSE b
  BY DEF UpdateDelayAverage, b, sum, base, samples
<1> HIDE DEF b
<1> QED
  BY <1>4, <1>5, CloseSlotInv

-----------------------------------------------------------------------------
(* Round trips *)

\* The variance is bounded by the samples too, from the first one on.
RttInv ==
    /\ rtt \in Nat /\ rtt_var \in Nat /\ rto \in Nat /\ MIN_RTO <= rto
    /\ pending \in Seq(Nat) /\ sampled \in SUBSET Nat
    /\ sampled = {} => rtt = 0
    /\ sampled # {} =>
          \E lo, hi \in sampled :
              /\ lo <= rtt /\ rtt <= hi /\ rtt_var <= hi
              /\ rto <= Larger(MIN_RTO, 5 * hi)

\* The integer moving averages stay between the old value and the sample.
LEMMA SmoothedRtt ==
    ASSUME NEW r \in Nat, NEW e \in Nat, NEW lo \in Nat, NEW hi \in Nat,
           lo <= r, r <= hi, lo <= e, e <= hi
    PROVE  /\ (r - r \div 8) + e \div 8 \in Nat
           /\ lo <= (r - r \div 8) + e \div 8
           /\ (r - r \div 8) + e \div 8 <= hi
OBVIOUS

LEMMA SmoothedVar ==
    ASSUME NEW v \in Nat, NEW d \in Nat, NEW hi \in Nat, v <= hi, d <= hi
    PROVE  /\ v + Trunc(d - v, 4) \in Nat
           /\ v + Trunc(d - v, 4) <= hi
BY DEF Trunc

LEMMA UpdateRttInv ==
    ASSUME RttInv, NEW e \in Nat, UpdateRtt(e)
    PROVE  /\ rtt' \in Nat /\ rtt_var' \in Nat /\ rto' \in Nat /\ MIN_RTO <= rto'
           /\ sampled' \in SUBSET Nat /\ sampled' # {}
           /\ \E lo, hi \in sampled' :
                 /\ lo <= rtt' /\ rtt' <= hi /\ rtt_var' <= hi
                 /\ rto' <= Larger(MIN_RTO, 5 * hi)
<1> DEFINE delta == Abs(rtt - e)
           newRtt == IF rtt = 0 THEN e ELSE (rtt - rtt \div 8) + e \div 8
           newVar == IF rtt = 0 THEN e \div 2 ELSE rtt_var + Trunc(delta - rtt_var, 4)
<1>1. /\ rtt' = newRtt /\ rtt_var' = newVar
      /\ rto' = Larger(newRtt + 4 * newVar, MIN_RTO)
      /\ sampled' = sampled \cup {e}
  BY DEF UpdateRtt
<1>2. sampled' \in SUBSET Nat /\ sampled' # {} /\ MIN_RTO \in Nat /\ rtt \in Nat
      /\ rtt_var \in Nat
  BY <1>1, LedbatAssumption DEF RttInv
<1>3. \E lo, hi \in sampled' :
        /\ newRtt \in Nat /\ newVar \in Nat
        /\ lo <= newRtt /\ newRtt <= hi /\ newVar <= hi
  <2>1. CASE rtt = 0
    <3>1. newRtt = e /\ newVar = e \div 2
      BY <2>1
    <3>2. e \div 2 \in Nat /\ e \div 2 <= e /\ e <= e
      OBVIOUS
    <3>3. e \in sampled'
      BY <1>1
    <3> HIDE DEF newRtt, newVar
    <3> QED
      BY <3>1, <3>2, <3>3
  <2>2. CASE rtt # 0
    <3>1. PICK lo \in sampled, hi \in sampled :
                 lo <= rtt /\ rtt <= hi /\ rtt_var <= hi
      BY <2>2 DEF RttInv
    <3> DEFINE l == IF lo <= e THEN lo ELSE e
               h == IF hi >= e THEN hi ELSE e
    <3>2. lo \in Nat /\ hi \in Nat
      BY <3>1 DEF RttInv
    <3>3. l \in sampled' /\ h \in sampled'
      BY <1>1, <3>1
    <3>4. /\ l \in Nat /\ h \in Nat /\ l <= rtt /\ rtt <= h /\ l <= e /\ e <= h
          /\ rtt_var <= h
      BY <1>2, <3>1, <3>2
    <3> HIDE DEF l, h
    <3>5. delta \in Nat /\ delta <= h
      BY <1>2, <3>4 DEF Abs
    <3> HIDE DEF delta
    <3>6. newRtt = (rtt - rtt \div 8) + e \div 8
          /\ newVar = rtt_var + Trunc(delta - rtt_var, 4)
      BY <2>2
    <3> HIDE DEF newRtt, newVar
    <3>7. newRtt \in Nat /\ l <= newRtt /\ newRtt <= h
      BY <1>2, <3>4, <3>6, SmoothedRtt
    <3>8. newVar \in Nat /\ newVar <= h
      BY <1>2, <3>4, <3>5, <3>6, SmoothedVar
    <3> QED
      BY <3>3, <3>7, <3>8
  <2> QED
    BY <2>1, <2>2
<1> HIDE DEF newRtt, newVar
<1>4. PICK lo \in sampled', hi \in sampled' :
        /\ newRtt \in Nat /\ newVar \in Nat
        /\ lo <= newRtt /\ newRtt <= hi /\ newVar <= hi
  BY <1>3
<1>5. hi \in Nat
  BY <1>2, <1>4
<1>6. rto' \in Nat /\ MIN_RTO <= rto' /\ rto' <= Larger(MIN_RTO, 5 * hi)
  BY <1>1, <1>2, <1>4, <1>5 DEF Larger
<1> QED
  BY <1>1, <1>2, <1>4, <1>6

-----------------------------------------------------------------------------
(* The inductive invariant *)

HistoriesInv == HistoryInv(our_hist) /\ HistoryInv(their_hist)

SeenInv == seen \in [BaseSlots -> SUBSET Stamps]

LedbatInv ==
    /\ ClockInv /\ WindowInv /\ HistoriesInv /\ SeenInv
    /\ AverageInv /\ RttInv /\ our_delay \in Int

LEMMA InitInv == Init => LedbatInv
<1> SUFFICES ASSUME Init PROVE LedbatInv
  OBVIOUS
<1>1. ClockInv
  BY LedbatAssumption DEF Init, ClockInv
<1>2. WindowInv
  BY LedbatAssumption DEF Init, WindowInv, WindowBounds
<1>3. HistoriesInv
  BY LedbatAssumption, ClearInv DEF Init, HistoriesInv
<1>4. SeenInv
  BY DEF Init, SeenInv
<1>5. AverageInv
  BY LedbatAssumption, DelayHistoryAssumption
     DEF Init, AverageInv, AverageNearBase, Averages, Abs, Stamps
<1>6. RttInv
  BY LedbatAssumption DEF Init, RttInv
<1> QED
  BY <1>1, <1>2, <1>3, <1>4, <1>5, <1>6 DEF LedbatInv, Init, None

LEMMA MoveSamplesType ==
    ASSUME NEW s \in [BaseSlots -> SUBSET Stamps], NEW offset \in Int
    PROVE  MoveSamples(s, offset) \in [BaseSlots -> SUBSET Stamps]
<1>1. \A x \in Stamps : (x + offset) % TS_MOD \in Stamps
  BY RemainderType DEF Stamps
<1> QED
  BY <1>1 DEF MoveSamples

LEMMA NoteSampleType ==
    ASSUME NEW s \in [BaseSlots -> SUBSET Stamps], NEW h, HistoryInv(h),
           NEW x \in Stamps
    PROVE  NoteSample(s, h, x) \in [BaseSlots -> SUBSET Stamps]
<1> DEFINE first == IF h.delay_base_initialized THEN s ELSE [i \in BaseSlots |-> {x}]
           added == [first EXCEPT ![h.delay_base_idx] = first[h.delay_base_idx] \cup {x}]
           next == (h.delay_base_idx + 1) % DELAY_BASE_HISTORY
<1>1. h.delay_base_idx \in BaseSlots
  BY DEF HistoryInv, DelayHistories
<1>2. first \in [BaseSlots -> SUBSET Stamps]
  OBVIOUS
<1> HIDE DEF first
<1>3. added \in [BaseSlots -> SUBSET Stamps]
  BY <1>1, <1>2
<1>4. NoteSample(s, h, x) = IF SlotOver(h, now) THEN [added EXCEPT ![next] = {x}] ELSE added
  BY <1>1, <1>2 DEF NoteSample, first, added, next
<1> HIDE DEF added, next
<1> QED
  BY <1>3, <1>4

LEMMA StepTypes ==
    ASSUME NEW h, HistoryInv(h), HistoriesInv, NEW m \in Nat \cup {INFINITE}
    PROVE  TheirStep(h) \in Int /\ RttStep(h, m) \in Int
<1>1. h.delay_base \in Int /\ their_hist.delay_base \in Int
  BY DEF HistoryInv, HistoriesInv, DelayHistories, Stamps
<1>2. (their_hist.delay_base - h.delay_base) % TS_MOD \in Int
  BY <1>1, RemainderType DEF Stamps
<1>3. GetValue(h) \in Int
  BY GetValueType DEF Stamps
<1> QED
  BY <1>2, <1>3 DEF TheirStep, RttStep, INFINITE

\* The delay part of process_acks keeps the histories and the average.
LEMMA HistoriesStep ==
    ASSUME LedbatInv, NEW their \in Stamps, NEW actual \in Stamps,
           NEW m \in Nat \cup {INFINITE}, Histories(their, actual, m)
    PROVE  HistoriesInv' /\ SeenInv' /\ AverageInv'
<1> DEFINE theirs == IF their = 0 THEN their_hist ELSE AddSample(their_hist, their, now)
           step == TheirStep(theirs)
           drifted == Shift(our_hist, step)
           moved == MoveSamples(seen, step)
           ours == IF actual = 0 THEN drifted ELSE AddSample(drifted, actual, now)
           noted == IF actual = 0 THEN moved ELSE NoteSample(moved, drifted, actual)
           back == RttStep(ours, m)
<1>1. HistoryInv(our_hist) /\ HistoryInv(their_hist) /\ HistoriesInv /\ now \in Nat
      /\ seen \in [BaseSlots -> SUBSET Stamps]
  BY DEF LedbatInv, HistoriesInv, ClockInv, SeenInv
<1>2. HistoryInv(theirs)
  BY <1>1, AddSampleInv
<1>3. their_hist' = theirs /\ our_hist' = Shift(ours, back)
      /\ seen' = MoveSamples(noted, back)
  BY DEF Histories
<1> HIDE DEF theirs
<1>4. step \in Int
  BY <1>1, <1>2, StepTypes
<1> HIDE DEF step
<1>5. HistoryInv(drifted)
  BY <1>1, <1>4, ShiftInv
<1>6. moved \in [BaseSlots -> SUBSET Stamps]
  BY <1>1, <1>4, MoveSamplesType
<1> HIDE DEF drifted, moved
<1>7. HistoryInv(ours)
  BY <1>1, <1>5, AddSampleInv
<1>8. noted \in [BaseSlots -> SUBSET Stamps]
  BY <1>5, <1>6, NoteSampleType
<1> HIDE DEF ours, noted
<1>9. back \in Int
  BY <1>1, <1>7, StepTypes
<1> HIDE DEF back
<1>10. HistoriesInv'
  BY <1>2, <1>3, <1>7, <1>9, ShiftInv DEF HistoriesInv
<1>11. SeenInv'
  BY <1>3, <1>8, <1>9, MoveSamplesType DEF SeenInv
<1>12. AverageInv'
  <2>1. average \in Averages /\ Abs(average.delay) <= Abs(average.raw)
    BY DEF LedbatInv, AverageInv, AverageNearBase
  <2>2. average' = IF actual = 0 THEN average ELSE UpdateDelayAverage(average, actual)
    BY DEF Histories
  <2> QED
    BY <2>1, <2>2, UpdateDelayAverageInv DEF AverageInv, AverageNearBase
<1> QED
  BY <1>10, <1>11, <1>12

LEMMA ReceiveStep ==
    ASSUME LedbatInv, NEW p \in Packets, NEW size \in PacketSizes,
           NEW wraps \in BOOLEAN, Receive(p, size, wraps)
    PROVE  LedbatInv'
<1> DEFINE actual == ActualDelay(p.reply)
<1>1. /\ p.their \in Stamps /\ p.reply \in Stamps /\ p.acked \in Nat
      /\ p.min_rtt \in Nat \cup {INFINITE} /\ p.ertts \in Seq(Nat)
      /\ p.acked >= 1 => p.min_rtt \in Nat
  <2>1. p \in PacketShape /\ Coherent(p)
    BY LedbatAssumption
  <2>2. /\ p.their \in Stamps /\ p.reply \in Stamps /\ p.acked \in Nat
        /\ p.min_rtt \in Nat \cup {INFINITE} /\ p.ertts \in Seq(Nat)
    BY <2>1 DEF PacketShape
  <2>3. p.acked >= 1 => p.min_rtt # INFINITE
    BY <2>1, <2>2 DEF Coherent
  <2> QED
    BY <2>2, <2>3
<1>2. actual \in Stamps
  BY <1>1, DelayHistoryAssumption DEF ActualDelay, Stamps
<1>3. Histories(p.their, actual, p.min_rtt)
  BY DEF Receive
<1> HIDE DEF actual
<1>4. HistoriesInv' /\ SeenInv' /\ AverageInv'
  BY <1>1, <1>2, <1>3, HistoriesStep
<1>5. ClockInv'
  BY DEF Receive, LedbatInv, ClockInv, clockVars
<1>6. RttInv'
  BY <1>1 DEF Receive, LedbatInv, RttInv, rttVars
<1>7. WindowInv' /\ our_delay' \in Int
  <2> DEFINE delay == OurDelay(our_hist', p.min_rtt, average'.drift)
  <2>1. CASE our_delay' = None /\ UNCHANGED windowVars
    BY <2>1 DEF LedbatInv, WindowInv, WindowBounds, windowVars, None
  <2>2. CASE p.acked >= 1 /\ ApplyCControl(p.acked, delay, size, wraps)
    <3>1. GetValue(our_hist') \in Int
      BY <1>4, GetValueType DEF HistoriesInv, Stamps
    <3>2. average'.drift \in Int
      BY <1>4 DEF AverageInv, Averages
    <3>3. p.min_rtt \in Int
      BY <1>1, <2>2
    <3>4. delay \in Int
      <4> DEFINE excess == (-average'.drift) - DRIFT_LIMIT
      <4>1. excess \in Int /\ PENALTY_DIV \in Nat \ {0}
        BY <3>2, LedbatAssumption
      <4> HIDE DEF excess
      <4>2. excess \div PENALTY_DIV \in Int
        BY <4>1
      <4>3. Smaller(GetValue(our_hist'), p.min_rtt) \in Int
        BY <3>1, <3>3 DEF Smaller
      <4> QED
        BY <4>2, <4>3 DEF OurDelay, excess
    <3> HIDE DEF delay
    <3> QED
      BY <1>1, <2>2, <3>4, ApplyCControlInv DEF LedbatInv
  <2>3. \/ p.acked >= 1 /\ ApplyCControl(p.acked, delay, size, wraps)
        \/ our_delay' = None /\ UNCHANGED windowVars
    BY DEF Receive
  <2> QED
    BY <2>1, <2>2, <2>3
<1> QED
  BY <1>4, <1>5, <1>6, <1>7 DEF LedbatInv

LEMMA AckPacketStep ==
    ASSUME LedbatInv, AckPacket
    PROVE  LedbatInv'
<1>1. pending \in Seq(Nat) /\ pending # << >> /\ RttInv
  BY DEF AckPacket, Idle, LedbatInv, RttInv
<1>2. Head(pending) \in Nat /\ Tail(pending) \in Seq(Nat)
  BY <1>1
<1>3. UpdateRtt(Head(pending)) /\ pending' = Tail(pending) /\ our_delay' = None
  BY DEF AckPacket
<1>4. RttInv'
  <2> DEFINE e == Head(pending)
  <2>1. e \in Nat /\ UpdateRtt(e)
    BY <1>2, <1>3
  <2> HIDE DEF e
  <2> QED
    BY <1>1, <1>2, <1>3, <2>1, UpdateRttInv DEF RttInv
<1>5. /\ UNCHANGED windowVars /\ UNCHANGED clockVars
      /\ UNCHANGED delayVars /\ UNCHANGED packets
  BY DEF AckPacket
<1>6. ClockInv' /\ WindowInv' /\ HistoriesInv' /\ SeenInv' /\ AverageInv'
  BY <1>5 DEF LedbatInv, ClockInv, WindowInv, WindowBounds, HistoriesInv, SeenInv,
              AverageInv, AverageNearBase, windowVars, clockVars, delayVars
<1> QED
  BY <1>3, <1>4, <1>6 DEF LedbatInv, None

LEMMA WindowEventStep ==
    ASSUME LedbatInv,
           \/ MaybeDecayWin
           \/ \E size \in PacketSizes, inFlight \in BOOLEAN : OnRtoTimeout(size, inFlight)
    PROVE  LedbatInv'
<1>1. WindowInv'
  BY DecayInv, RtoInv DEF LedbatInv
<1>2. ClockInv'
  BY DEF LedbatInv, ClockInv, MaybeDecayWin, OnRtoTimeout, clockVars
<1>3. UNCHANGED delayVars /\ UNCHANGED rttVars /\ UNCHANGED pending /\ our_delay' = None
  BY DEF MaybeDecayWin, OnRtoTimeout
<1>4. HistoriesInv' /\ SeenInv' /\ AverageInv' /\ RttInv'
  BY <1>3 DEF LedbatInv, HistoriesInv, SeenInv, AverageInv, AverageNearBase, RttInv,
              delayVars, rttVars
<1> QED
  BY <1>1, <1>2, <1>3, <1>4 DEF LedbatInv, None

LEMMA ClockEventStep ==
    ASSUME LedbatInv,
           \/ MarkWindowFull
           \/ \E val \in SndBufs : SetSndBuf(val)
           \/ Tick
    PROVE  LedbatInv'
<1>1. ClockInv'
  BY DEF LedbatInv, ClockInv, MarkWindowFull, SetSndBuf, Tick
<1>2. /\ UNCHANGED windowVars /\ UNCHANGED delayVars /\ UNCHANGED rttVars
      /\ UNCHANGED pending /\ our_delay' = None
  BY DEF MarkWindowFull, SetSndBuf, Tick
<1>3. WindowInv' /\ HistoriesInv' /\ SeenInv' /\ AverageInv' /\ RttInv'
  BY <1>2 DEF LedbatInv, WindowInv, WindowBounds, HistoriesInv, SeenInv, AverageInv,
              AverageNearBase, RttInv, windowVars, delayVars, rttVars
<1> QED
  BY <1>1, <1>2, <1>3 DEF LedbatInv, None

LEMMA StepInv == LedbatInv /\ [Next]_vars => LedbatInv'
<1> SUFFICES ASSUME LedbatInv, [Next]_vars PROVE LedbatInv'
  OBVIOUS
<1>1. CASE Next
  BY <1>1, ReceiveStep, AckPacketStep, WindowEventStep, ClockEventStep DEF Next
<1>2. CASE UNCHANGED vars
  BY <1>2 DEF LedbatInv, ClockInv, WindowInv, WindowBounds, HistoriesInv, SeenInv,
              AverageInv, AverageNearBase, RttInv, vars, windowVars, clockVars,
              delayVars, rttVars
<1> QED
  BY <1>1, <1>2

\* LedbatInv holds in every state of every instance: whatever packets,
\* timestamps, losses, timeouts and buffer sizes, in every build.
THEOREM LedbatInvariant == Spec => []LedbatInv
<1>1. Init => LedbatInv
  BY InitInv
<1>2. LedbatInv /\ [Next]_vars => LedbatInv'
  BY StepInv
<1> QED
  BY <1>1, <1>2, PTL DEF Spec

\* Every variable keeps its type.
THEOREM LedbatTypes == Spec => []TypeOK
<1>1. LedbatInv => TypeOK
  BY DEF LedbatInv, ClockInv, WindowInv, HistoriesInv, HistoryInv, SeenInv, AverageInv,
         RttInv, TypeOK
<1> QED
  BY <1>1, LedbatInvariant, PTL

\* The congestion window never leaves its bounds.
THEOREM WindowCorrect == Spec => []WindowBounds
<1>1. LedbatInv => WindowBounds
  BY DEF LedbatInv, WindowInv
<1> QED
  BY <1>1, LedbatInvariant, PTL

\* No queuing delay is negative, however the timestamps wrap.
THEOREM QueuingDelayCorrect == Spec => []QueuingDelayNotNegative
<1>1. LedbatInv => QueuingDelayNotNegative
  BY DEF LedbatInv, HistoriesInv, HistoryInv, QueuingDelayNotNegative
<1> QED
  BY <1>1, LedbatInvariant, PTL

\* The average delay stays as near to its baseline as the last drift.
THEOREM AverageCorrect == Spec => []AverageNearBase
<1>1. LedbatInv => AverageNearBase
  BY DEF LedbatInv, AverageInv
<1> QED
  BY <1>1, LedbatInvariant, PTL

\* The smoothed round trip and the timeout stay within what was measured.
THEOREM RttCorrect == Spec => []RttWithinSamples
<1>1. LedbatInv => RttWithinSamples
  BY DEF LedbatInv, RttInv, RttWithinSamples
<1> QED
  BY <1>1, LedbatInvariant, PTL

-----------------------------------------------------------------------------
(* The baseline and the samples it stands for *)

\* A sample that all samples of S follow by less than half of the range
SmallestOf(b, S) == b \in S /\ \A x \in S : 2 * ((x - b) % TS_MOD) < TS_MOD

\* r is one of the samples, and the smallest where there is a smallest
Stands(r, S) == r \in S /\ \A b \in Stamps : SmallestOf(b, S) => r = b

SamplesOf(s) == UNION {s[i] : i \in BaseSlots}

\* Every slot's entry stands for the samples of the slot, the baseline for all.
Summarises(h, s) ==
    /\ \A i \in BaseSlots : Stands(h.delay_base_hist[i], s[i])
    /\ Stands(h.delay_base, SamplesOf(s))

SamplesInv == our_hist.delay_base_initialized => Summarises(our_hist, seen)

\* The wrapping comparison finds the earlier of two samples that are less
\* than half of the range apart.
LEMMA EarlierIsSmallest ==
    ASSUME NEW x \in Stamps, NEW b \in Stamps, 2 * ((x - b) % TS_MOD) < TS_MOD
    PROVE  Earlier(x, b) = b /\ Earlier(b, x) = b
<1> DEFINE up == (x - b) % TS_MOD
           down == (b - x) % TS_MOD
<1>1. /\ TS_MOD \in Nat /\ TS_MOD > 1
      /\ x \in Int /\ b \in Int /\ x < TS_MOD /\ b < TS_MOD /\ 0 <= x /\ 0 <= b
  BY DelayHistoryAssumption DEF Stamps
<1>2. x = b => up = 0 /\ down = 0
  BY <1>1, SmallRemainder
<1>3. x > b => up = x - b /\ down = b - x + TS_MOD
  BY <1>1, SmallRemainder
<1>4. x < b => up = x - b + TS_MOD /\ down = b - x
  BY <1>1, SmallRemainder
<1>5. 2 * up < TS_MOD
  OBVIOUS
<1>6. /\ WrappingCompareLess(x, b) = (down < up)
      /\ WrappingCompareLess(b, x) = (up < down)
  BY DEF WrappingCompareLess
<1> HIDE DEF up, down
<1>7. x = b \/ (~(down < up) /\ up < down)
  BY <1>1, <1>2, <1>3, <1>4, <1>5
<1> QED
  BY <1>6, <1>7 DEF Earlier

\* A sample added to S is compared with whatever stands for S.
LEMMA EarlierStands ==
    ASSUME NEW S \in SUBSET Stamps, NEW r, Stands(r, S), NEW x \in Stamps
    PROVE  Stands(Earlier(x, r), S \cup {x})
<1>1. r \in Stamps /\ r \in S
  BY DEF Stands
<1>2. Earlier(x, r) \in S \cup {x}
  BY <1>1 DEF Earlier
<1>3. ASSUME NEW b \in Stamps, SmallestOf(b, S \cup {x})
      PROVE  Earlier(x, r) = b
  <2>1. 2 * ((x - b) % TS_MOD) < TS_MOD /\ 2 * ((r - b) % TS_MOD) < TS_MOD
    BY <1>1, <1>3 DEF SmallestOf
  <2>2. CASE b \in S
    <3>1. SmallestOf(b, S)
      BY <1>3, <2>2 DEF SmallestOf
    <3>2. r = b
      BY <3>1 DEF Stands
    <3> QED
      BY <2>1, <3>2, EarlierIsSmallest
  <2>3. CASE b = x
    BY <1>1, <2>1, <2>3, EarlierIsSmallest
  <2> QED
    BY <1>3, <2>2, <2>3 DEF SmallestOf
<1> QED
  BY <1>2, <1>3 DEF Stands

\* The difference of two samples survives a shift of both.
LEMMA DistanceShift ==
    ASSUME NEW x \in Stamps, NEW y \in Stamps, NEW o \in Int
    PROVE  (((x + o) % TS_MOD) - ((y + o) % TS_MOD)) % TS_MOD = (x - y) % TS_MOD
<1> DEFINE u == (x + o) % TS_MOD
           v == (y + o) % TS_MOD
           p == (x + o) \div TS_MOD
           q == (y + o) \div TS_MOD
           k == p - q
<1>1. /\ TS_MOD \in Nat /\ TS_MOD > 1
      /\ x \in Int /\ y \in Int /\ x < TS_MOD /\ y < TS_MOD /\ 0 <= x /\ 0 <= y
  BY DelayHistoryAssumption DEF Stamps
<1>2. /\ u \in Int /\ p \in Int /\ 0 <= u /\ u < TS_MOD
      /\ x + o = TS_MOD * p + u
  BY <1>1
<1>3. /\ v \in Int /\ q \in Int /\ 0 <= v /\ v < TS_MOD
      /\ y + o = TS_MOD * q + v
  BY <1>1
<1> HIDE DEF u, v, p, q
<1>4. k \in Int /\ x - y = TS_MOD * k + (u - v)
  BY <1>1, <1>2, <1>3
<1> HIDE DEF k
<1>5. k \in {-1, 0, 1}
  <2>1. ASSUME k >= 2 PROVE FALSE
    <3>1. TS_MOD * k >= TS_MOD * 2
      BY <1>1, <1>4, <2>1
    <3> QED
      BY <1>1, <1>2, <1>3, <1>4, <3>1
  <2>2. ASSUME k <= -2 PROVE FALSE
    <3>1. TS_MOD * k <= TS_MOD * (-2)
      BY <1>1, <1>4, <2>2
    <3> QED
      BY <1>1, <1>2, <1>3, <1>4, <3>1
  <2> QED
    BY <1>4, <2>1, <2>2
<1> DEFINE c == u - v
           d == x - y
<1>6. /\ c \in Int /\ -TS_MOD < c /\ c < TS_MOD
      /\ d \in Int /\ -TS_MOD < d /\ d < TS_MOD
      /\ d = c \/ d = c + TS_MOD \/ d = c - TS_MOD
  <2>1. k = 0 \/ k = 1 \/ k = -1
    BY <1>5
  <2>2. d = c \/ d = c + TS_MOD \/ d = c - TS_MOD
    BY <1>1, <1>2, <1>3, <1>4, <2>1
  <2> QED
    BY <1>1, <1>2, <1>3, <2>2
<1> HIDE DEF c, d
<1>7. c % TS_MOD = d % TS_MOD
  <2>1. CASE d = c
    BY <2>1
  <2>2. CASE d = c + TS_MOD
    <3>1. c < 0 /\ 0 <= d
      BY <1>1, <1>6, <2>2
    <3>2. c % TS_MOD = c + TS_MOD
      BY <1>1, <1>6, <3>1, SmallRemainder
    <3>3. d % TS_MOD = d
      BY <1>1, <1>6, <3>1, SmallRemainder
    <3> QED
      BY <2>2, <3>2, <3>3
  <2>3. CASE d = c - TS_MOD
    <3>1. d < 0 /\ 0 <= c
      BY <1>1, <1>6, <2>3
    <3>2. c % TS_MOD = c
      BY <1>1, <1>6, <3>1, SmallRemainder
    <3>3. d % TS_MOD = d + TS_MOD
      BY <1>1, <1>6, <3>1, SmallRemainder
    <3> QED
      BY <1>1, <1>6, <2>3, <3>2, <3>3
  <2> QED
    BY <1>6, <2>1, <2>2, <2>3
<1> QED
  BY <1>7 DEF c, d, u, v

\* A shift moves what stands for S with S.
LEMMA ShiftStands ==
    ASSUME NEW S \in SUBSET Stamps, NEW r, Stands(r, S), NEW o \in Int
    PROVE  Stands((r + o) % TS_MOD, {(x + o) % TS_MOD : x \in S})
<1> DEFINE Move(x) == (x + o) % TS_MOD
           T == {Move(x) : x \in S}
<1>1. r \in S /\ \A b \in Stamps : SmallestOf(b, S) => r = b
  BY DEF Stands
<1>2. \A x, y \in Stamps : (Move(x) - Move(y)) % TS_MOD = (x - y) % TS_MOD
  BY DistanceShift
<1> HIDE DEF Move
<1>3. ASSUME NEW b \in Stamps, SmallestOf(b, T)
      PROVE  Move(r) = b
  <2>1. PICK y \in S : b = Move(y)
    BY <1>3 DEF SmallestOf
  <2>2. \A x \in S : 2 * ((Move(x) - Move(y)) % TS_MOD) < TS_MOD
    BY <1>3, <2>1 DEF SmallestOf
  <2>3. \A x \in S : (Move(x) - Move(y)) % TS_MOD = (x - y) % TS_MOD
    BY <1>2, <2>1
  <2>4. SmallestOf(y, S)
    BY <2>1, <2>2, <2>3 DEF SmallestOf
  <2> QED
    BY <1>1, <2>1, <2>4
<1>4. Move(r) \in T
  BY <1>1
<1>5. Stands(Move(r), T)
  BY <1>3, <1>4 DEF Stands
<1> QED
  BY <1>5 DEF Move

\* The recomputed baseline is one of the entries, and the smallest of them
\* where there is a smallest.
LEMMA EarliestOfSmallest ==
    ASSUME NEW hist \in [BaseSlots -> Stamps]
    PROVE  /\ \E i \in BaseSlots : EarliestOf(hist) = hist[i]
           /\ \A j \in BaseSlots :
                (\A i \in BaseSlots : 2 * ((hist[i] - hist[j]) % TS_MOD) < TS_MOD)
                  => EarliestOf(hist) = hist[j]
<1> DEFINE last == DELAY_BASE_HISTORY - 1
           IsBase(j) == \A i \in BaseSlots : 2 * ((hist[i] - hist[j]) % TS_MOD) < TS_MOD
           Good(v, k) == /\ \E i \in BaseSlots : v = hist[i]
                         /\ \A j \in BaseSlots : IsBase(j) /\ j <= k => v = hist[j]
<1>1. BaseSlots = 0 .. last /\ last \in BaseSlots /\ 0 \in BaseSlots /\ last \in Nat
  BY DelayHistoryAssumption DEF BaseSlots
<1> HIDE DEF last
<1>2. PICK f \in [BaseSlots -> Stamps] :
        /\ f[0] = hist[0]
        /\ \A i \in BaseSlots : i # 0 => f[i] = Earlier(hist[i], f[i - 1])
        /\ EarliestOf(hist) = f[last]
  BY EarliestOfUnfolds DEF last
<1>3. ASSUME NEW i \in BaseSlots, NEW j \in BaseSlots, IsBase(j)
      PROVE  Earlier(hist[i], hist[j]) = hist[j] /\ Earlier(hist[j], hist[i]) = hist[j]
  BY <1>3, EarlierIsSmallest
<1> HIDE DEF IsBase
<1> DEFINE T == {k \in BaseSlots : ~Good(f[k], k)}
<1>4. T = {}
  <2> SUFFICES ASSUME T # {} PROVE FALSE
    OBVIOUS
  <2>1. T \in SUBSET Nat
    BY <1>1
  <2> HIDE DEF T
  <2>2. PICK x \in T : \A y \in T : x <= y
    BY <2>1, SmallestElement
  <2>3. x \in BaseSlots /\ ~Good(f[x], x)
    BY DEF T
  <2>4. x # 0
    <3>1. Good(f[0], 0)
      <4>1. \A j \in BaseSlots : j <= 0 => j = 0
        BY <1>1
      <4> QED
        BY <1>1, <1>2, <4>1
    <3> QED
      BY <2>3, <3>1
  <2> DEFINE y == x - 1
  <2>5. x \in Nat /\ y \in BaseSlots /\ ~(x <= y)
        /\ \A j \in BaseSlots : j <= x => j <= y \/ j = x
    BY <1>1, <2>3, <2>4
  <2>6. f[x] = Earlier(hist[x], f[y])
    BY <1>2, <2>3, <2>4
  <2> HIDE DEF y
  <2>7. Good(f[y], y)
    BY <2>2, <2>5 DEF T
  <2> HIDE DEF Good
  <2>8. PICK i \in BaseSlots : f[y] = hist[i]
    BY <2>7 DEF Good
  <2>9. f[x] = hist[x] \/ f[x] = hist[i]
    BY <2>6, <2>8 DEF Earlier
  <2>10. ASSUME NEW j \in BaseSlots, IsBase(j), j <= x
         PROVE  f[x] = hist[j]
    <3>1. CASE j = x
      BY <1>3, <2>6, <2>8, <2>10, <3>1
    <3>2. CASE j <= y
      <4>1. f[y] = hist[j]
        BY <2>7, <2>10, <3>2 DEF Good
      <4> QED
        BY <1>3, <2>3, <2>6, <2>10, <4>1
    <3> QED
      BY <2>5, <2>10, <3>1, <3>2
  <2>11. Good(f[x], x)
    BY <2>3, <2>9, <2>10 DEF Good
  <2> QED
    BY <2>3, <2>11
<1>5. Good(f[last], last)
  BY <1>1, <1>4
<1>6. \A j \in BaseSlots : j <= last
  BY <1>1
<1> QED
  BY <1>2, <1>5, <1>6 DEF IsBase

SampleSets == [BaseSlots -> SUBSET Stamps]

LEMMA ShiftSummarises ==
    ASSUME NEW h, HistoryInv(h), NEW s \in SampleSets, Summarises(h, s), NEW o \in Int
    PROVE  Summarises(Shift(h, o), MoveSamples(s, o))
<1> DEFINE Move(x) == (x + o) % TS_MOD
           g == Shift(h, o)
           t == MoveSamples(s, o)
<1>1. h \in DelayHistories
  BY DEF HistoryInv
<1>2. /\ g.delay_base = Move(h.delay_base)
      /\ \A i \in BaseSlots : g.delay_base_hist[i] = Move(h.delay_base_hist[i])
  BY <1>1 DEF Shift, DelayHistories
<1>3. \A i \in BaseSlots : t[i] = {Move(x) : x \in s[i]}
  BY DEF MoveSamples
<1>4. SamplesOf(t) = {Move(x) : x \in SamplesOf(s)}
  BY <1>3 DEF SamplesOf
<1>5. SamplesOf(s) \in SUBSET Stamps /\ \A i \in BaseSlots : s[i] \in SUBSET Stamps
  BY DEF SampleSets, SamplesOf
<1>6. \A i \in BaseSlots : Stands(Move(h.delay_base_hist[i]), {Move(x) : x \in s[i]})
  BY <1>5, ShiftStands DEF Summarises
<1>7. Stands(Move(h.delay_base), {Move(x) : x \in SamplesOf(s)})
  BY <1>5, ShiftStands DEF Summarises
<1> HIDE DEF g, t, Move
<1>8. \A i \in BaseSlots : Stands(g.delay_base_hist[i], t[i])
  BY <1>2, <1>3, <1>6
<1>9. Stands(g.delay_base, SamplesOf(t))
  BY <1>2, <1>4, <1>7
<1> QED
  BY <1>8, <1>9 DEF Summarises, g, t

\* history: the samples after the first sample ever
FirstSamples(s, h, x) == IF h.delay_base_initialized THEN s ELSE [i \in BaseSlots |-> {x}]

LEMMA InitializedSummarises ==
    ASSUME NEW h, HistoryInv(h), NEW s \in SampleSets, NEW x \in Stamps,
           h.delay_base_initialized => Summarises(h, s)
    PROVE  /\ Summarises(Initialized(h, x), FirstSamples(s, h, x))
           /\ FirstSamples(s, h, x) \in SampleSets
           /\ Initialized(h, x).delay_base_idx = h.delay_base_idx
           /\ Initialized(h, x).delay_base_time = h.delay_base_time
           /\ Initialized(h, x).delay_base_initialized
<1>1. h \in DelayHistories
  BY DEF HistoryInv
<1>2. CASE h.delay_base_initialized
  BY <1>2 DEF Initialized, FirstSamples
<1>3. CASE ~h.delay_base_initialized
  <2> DEFINE g == Initialized(h, x)
             t == FirstSamples(s, h, x)
  <2>1. /\ g.delay_base = x
        /\ \A i \in BaseSlots : g.delay_base_hist[i] = x
        /\ g.delay_base_idx = h.delay_base_idx
        /\ g.delay_base_time = h.delay_base_time
        /\ g.delay_base_initialized
    BY <1>1, <1>3 DEF Initialized, DelayHistories
  <2>2. \A i \in BaseSlots : t[i] = {x}
    BY <1>3 DEF FirstSamples
  <2>3. SamplesOf(t) = {x}
    <3>1. 0 \in BaseSlots
      BY DelayHistoryAssumption DEF BaseSlots
    <3> QED
      BY <2>2, <3>1 DEF SamplesOf
  <2>4. Stands(x, {x})
    BY DEF Stands, SmallestOf
  <2>5. t \in SampleSets
    BY <1>3 DEF FirstSamples, SampleSets
  <2> HIDE DEF g, t
  <2>6. Summarises(g, t)
    BY <2>1, <2>2, <2>3, <2>4 DEF Summarises
  <2> QED
    BY <2>1, <2>5, <2>6 DEF g, t
<1> QED
  BY <1>2, <1>3

AddedSamples(s, k, x) == [s EXCEPT ![k] = @ \cup {x}]

LEMMA RecordedSummarises ==
    ASSUME NEW h, HistoryInv(h), NEW s \in SampleSets, NEW x \in Stamps, Summarises(h, s)
    PROVE  /\ Summarises(Recorded(h, x), AddedSamples(s, h.delay_base_idx, x))
           /\ AddedSamples(s, h.delay_base_idx, x) \in SampleSets
           /\ Recorded(h, x).delay_base_idx = h.delay_base_idx
           /\ Recorded(h, x).delay_base_time = h.delay_base_time
           /\ Recorded(h, x).delay_base_initialized = h.delay_base_initialized
<1> DEFINE k == h.delay_base_idx
           g == Recorded(h, x)
           t == AddedSamples(s, k, x)
<1>1. h \in DelayHistories /\ k \in BaseSlots
      /\ h.delay_base_hist \in [BaseSlots -> Stamps] /\ h.cur_delay_idx \in CurSlots
  BY DEF HistoryInv, DelayHistories
<1>2. /\ g.delay_base = Earlier(x, h.delay_base)
      /\ g.delay_base_hist = [h.delay_base_hist EXCEPT ![k] = Earlier(x, @)]
      /\ g.delay_base_idx = k
      /\ g.delay_base_time = h.delay_base_time
      /\ g.delay_base_initialized = h.delay_base_initialized
  BY <1>1 DEF Recorded, DelayHistories
<1>3. /\ g.delay_base_hist[k] = Earlier(x, h.delay_base_hist[k])
      /\ \A i \in BaseSlots : i # k => g.delay_base_hist[i] = h.delay_base_hist[i]
  BY <1>1, <1>2
<1>4. t \in SampleSets /\ t[k] = s[k] \cup {x} /\ \A i \in BaseSlots : i # k => t[i] = s[i]
  BY <1>1 DEF AddedSamples, SampleSets
<1>5. SamplesOf(t) = SamplesOf(s) \cup {x}
  BY <1>1, <1>4 DEF SamplesOf
<1>6. SamplesOf(s) \in SUBSET Stamps /\ s[k] \in SUBSET Stamps
  BY <1>1 DEF SampleSets, SamplesOf
<1> HIDE DEF g, t, k
<1>7. Stands(h.delay_base, SamplesOf(s)) /\ \A i \in BaseSlots : Stands(h.delay_base_hist[i], s[i])
  BY DEF Summarises
<1>8. Stands(g.delay_base, SamplesOf(t))
  BY <1>2, <1>5, <1>6, <1>7, EarlierStands
<1>9. Stands(g.delay_base_hist[k], t[k])
  BY <1>1, <1>3, <1>4, <1>6, <1>7, EarlierStands
<1>10. \A i \in BaseSlots : Stands(g.delay_base_hist[i], t[i])
  BY <1>3, <1>4, <1>7, <1>9
<1>11. Summarises(g, t)
  BY <1>8, <1>10 DEF Summarises
<1> QED
  BY <1>2, <1>4, <1>11 DEF g, t, k

\* The entries of the slots stand for all samples: the smallest of all is
\* the smallest of its own slot, and so the recomputed baseline.
LEMMA EarliestStands ==
    ASSUME NEW hist \in [BaseSlots -> Stamps], NEW s \in SampleSets,
           \A i \in BaseSlots : Stands(hist[i], s[i])
    PROVE  Stands(EarliestOf(hist), SamplesOf(s))
<1>1. PICK i \in BaseSlots : EarliestOf(hist) = hist[i]
  BY EarliestOfSmallest
<1>2. EarliestOf(hist) \in SamplesOf(s)
  BY <1>1 DEF Stands, SamplesOf
<1>3. ASSUME NEW b \in Stamps, SmallestOf(b, SamplesOf(s))
      PROVE  EarliestOf(hist) = b
  <2>1. PICK j \in BaseSlots : b \in s[j]
    BY <1>3 DEF SmallestOf, SamplesOf
  <2>2. SmallestOf(b, s[j])
    BY <1>3, <2>1 DEF SmallestOf, SamplesOf
  <2>3. hist[j] = b
    BY <2>2 DEF Stands
  <2>4. \A l \in BaseSlots : 2 * ((hist[l] - hist[j]) % TS_MOD) < TS_MOD
    BY <1>3, <2>3 DEF Stands, SmallestOf, SamplesOf
  <2> QED
    BY <2>3, <2>4, EarliestOfSmallest
<1> QED
  BY <1>2, <1>3 DEF Stands

LEMMA RotatedSummarises ==
    ASSUME NEW h, HistoryInv(h), NEW s \in SampleSets, NEW x \in Stamps,
           NEW t \in Nat, Summarises(h, s)
    PROVE  Summarises(Rotated(h, x, t),
                      IF SlotOver(h, t)
                      THEN [s EXCEPT ![(h.delay_base_idx + 1) % DELAY_BASE_HISTORY] = {x}]
                      ELSE s)
<1> DEFINE k == (h.delay_base_idx + 1) % DELAY_BASE_HISTORY
           hist == [h.delay_base_hist EXCEPT ![k] = x]
           r == [s EXCEPT ![k] = {x}]
           g == Rotated(h, x, t)
<1>1. h \in DelayHistories /\ h.delay_base_idx \in BaseSlots
      /\ h.delay_base_hist \in [BaseSlots -> Stamps]
  BY DEF HistoryInv, DelayHistories
<1>2. k \in BaseSlots
  BY <1>1, DelayHistoryAssumption DEF BaseSlots
<1> HIDE DEF k
<1>3. CASE SlotOver(h, t)
  <2>1. g.delay_base_hist = hist /\ g.delay_base = EarliestOf(hist)
    BY <1>1, <1>3 DEF Rotated, DelayHistories, k
  <2>2. hist \in [BaseSlots -> Stamps] /\ r \in SampleSets
    BY <1>1, <1>2 DEF SampleSets
  <2>3. /\ hist[k] = x /\ r[k] = {x}
        /\ \A i \in BaseSlots : i # k => hist[i] = h.delay_base_hist[i] /\ r[i] = s[i]
    BY <1>1, <1>2 DEF SampleSets
  <2> HIDE DEF g, hist, r
  <2>4. Stands(x, {x})
    BY DEF Stands, SmallestOf
  <2>5. \A i \in BaseSlots : Stands(hist[i], r[i])
    BY <2>3, <2>4 DEF Summarises
  <2>6. Stands(EarliestOf(hist), SamplesOf(r))
    BY <2>2, <2>5, EarliestStands
  <2>7. Summarises(g, r)
    BY <2>1, <2>5, <2>6 DEF Summarises
  <2> QED
    BY <1>3, <2>7 DEF g, r, k
<1>4. CASE ~SlotOver(h, t)
  BY <1>4 DEF Rotated
<1> QED
  BY <1>3, <1>4

\* add_sample keeps every entry the smallest sample of its slot, and the
\* baseline the smallest of all.
LEMMA AddSampleSummarises ==
    ASSUME NEW h, HistoryInv(h), NEW s \in SampleSets, NEW x \in Stamps, now \in Nat,
           h.delay_base_initialized => Summarises(h, s)
    PROVE  Summarises(AddSample(h, x, now), NoteSample(s, h, x))
<1> DEFINE a == Initialized(h, x)
           sa == FirstSamples(s, h, x)
           b == Recorded(a, x)
           k == h.delay_base_idx
           sb == AddedSamples(sa, k, x)
           sc == IF SlotOver(b, now) THEN [sb EXCEPT ![(k + 1) % DELAY_BASE_HISTORY] = {x}]
                 ELSE sb
<1>1. /\ HistoryInv(a) /\ Summarises(a, sa) /\ sa \in SampleSets
      /\ a.delay_base_idx = k /\ a.delay_base_time = h.delay_base_time
  BY InitializedInv, InitializedSummarises
<1>2. AddSample(h, x, now) = Rotated(b, x, now)
  BY DEF AddSample
<1>3. NoteSample(s, h, x)
        = IF SlotOver(h, now) THEN [sb EXCEPT ![(k + 1) % DELAY_BASE_HISTORY] = {x}] ELSE sb
  BY DEF NoteSample, FirstSamples, AddedSamples
<1> HIDE DEF a, sa, k
<1>4. /\ HistoryInv(b) /\ Summarises(b, sb) /\ sb \in SampleSets
      /\ b.delay_base_idx = k /\ b.delay_base_time = h.delay_base_time
  BY <1>1, RecordedInv, RecordedSummarises
<1>5. SlotOver(b, now) = SlotOver(h, now)
  BY <1>4 DEF SlotOver
<1> HIDE DEF b, sb
<1>6. Summarises(Rotated(b, x, now), sc)
  BY <1>4, RotatedSummarises
<1>7. NoteSample(s, h, x) = sc
  BY <1>3, <1>5
<1> QED
  BY <1>2, <1>6, <1>7

LEMMA SamplesInit == Init => SamplesInv
BY DEF Init, SamplesInv, Clear

\* A shift does not make a history an initialised one, and a sample does.
LEMMA ShiftKeepsFlag ==
    ASSUME NEW h, HistoryInv(h), NEW o \in Int
    PROVE  Shift(h, o).delay_base_initialized = h.delay_base_initialized
BY DEF Shift, HistoryInv, DelayHistories

LEMMA HistoriesSamples ==
    ASSUME LedbatInv, SamplesInv, NEW their \in Stamps, NEW actual \in Stamps,
           NEW m \in Nat \cup {INFINITE}, Histories(their, actual, m)
    PROVE  SamplesInv'
<1> DEFINE theirs == IF their = 0 THEN their_hist ELSE AddSample(their_hist, their, now)
           step == TheirStep(theirs)
           drifted == Shift(our_hist, step)
           moved == MoveSamples(seen, step)
           ours == IF actual = 0 THEN drifted ELSE AddSample(drifted, actual, now)
           noted == IF actual = 0 THEN moved ELSE NoteSample(moved, drifted, actual)
           back == RttStep(ours, m)
<1>1. HistoryInv(our_hist) /\ HistoryInv(their_hist) /\ HistoriesInv /\ now \in Nat
      /\ seen \in SampleSets
  BY DEF LedbatInv, HistoriesInv, ClockInv, SeenInv, SampleSets
<1>2. HistoryInv(theirs)
  BY <1>1, AddSampleInv
<1>3. our_hist' = Shift(ours, back) /\ seen' = MoveSamples(noted, back)
  BY DEF Histories
<1> HIDE DEF theirs
<1>4. step \in Int
  BY <1>1, <1>2, StepTypes
<1> HIDE DEF step
<1>5. HistoryInv(drifted)
  BY <1>1, <1>4, ShiftInv
<1>6. moved \in SampleSets
  BY <1>1, <1>4, MoveSamplesType DEF SampleSets
<1>7. drifted.delay_base_initialized = our_hist.delay_base_initialized
  BY <1>1, <1>4, ShiftKeepsFlag
<1>8. our_hist.delay_base_initialized => Summarises(drifted, moved)
  BY <1>1, <1>4, ShiftSummarises DEF SamplesInv
<1> HIDE DEF drifted, moved
<1>9. HistoryInv(ours)
  BY <1>1, <1>5, AddSampleInv
<1>10. noted \in SampleSets
  BY <1>5, <1>6, NoteSampleType DEF SampleSets
<1>11. ours.delay_base_initialized => Summarises(ours, noted)
  <2>1. CASE actual = 0
    BY <1>7, <1>8, <2>1
  <2>2. CASE actual # 0
    <3>1. Summarises(AddSample(drifted, actual, now), NoteSample(moved, drifted, actual))
      BY <1>1, <1>5, <1>6, <1>7, <1>8, AddSampleSummarises
    <3> QED
      BY <2>2, <3>1
  <2> QED
    BY <2>1, <2>2
<1> HIDE DEF ours, noted
<1>12. back \in Int
  BY <1>1, <1>9, StepTypes
<1> HIDE DEF back
<1>13. Shift(ours, back).delay_base_initialized = ours.delay_base_initialized
  BY <1>9, <1>12, ShiftKeepsFlag
<1>14. ours.delay_base_initialized => Summarises(Shift(ours, back), MoveSamples(noted, back))
  BY <1>9, <1>10, <1>11, <1>12, ShiftSummarises
<1> QED
  BY <1>3, <1>13, <1>14 DEF SamplesInv

LEMMA SamplesStep == LedbatInv /\ SamplesInv /\ [Next]_vars => SamplesInv'
<1> SUFFICES ASSUME LedbatInv, SamplesInv, [Next]_vars PROVE SamplesInv'
  OBVIOUS
<1>1. CASE UNCHANGED delayVars
  BY <1>1 DEF SamplesInv, delayVars
<1>2. ASSUME NEW p \in Packets, NEW size \in PacketSizes, NEW wraps \in BOOLEAN,
             Receive(p, size, wraps)
      PROVE  SamplesInv'
  <2> DEFINE actual == ActualDelay(p.reply)
  <2>1. /\ p.their \in Stamps /\ p.reply \in Stamps
        /\ p.min_rtt \in Nat \cup {INFINITE}
    BY LedbatAssumption DEF PacketShape
  <2>2. actual \in Stamps
    BY <2>1, DelayHistoryAssumption DEF ActualDelay, Stamps
  <2>3. Histories(p.their, actual, p.min_rtt)
    BY <1>2 DEF Receive
  <2> HIDE DEF actual
  <2> QED
    BY <2>1, <2>2, <2>3, HistoriesSamples
<1>3. \/ UNCHANGED delayVars
      \/ \E p \in Packets, size \in PacketSizes, wraps \in BOOLEAN : Receive(p, size, wraps)
  BY DEF Next, vars, AckPacket, MaybeDecayWin, OnRtoTimeout, MarkWindowFull, SetSndBuf, Tick
<1> QED
  BY <1>1, <1>2, <1>3

\* delay_base is the smallest of the samples in the history wherever they
\* have a smallest, for every length and number of slots, whatever the
\* clocks' offset: the running minimum of add_sample, the recomputation at
\* the start of a slot and the two shifts of process_acks agree.
THEOREM BaseIsSmallest == Spec => []BaseIsWindowMin
<1>1. LedbatInv /\ SamplesInv => BaseIsWindowMin
  <2> SUFFICES ASSUME LedbatInv, SamplesInv, our_hist.delay_base_initialized,
                      NEW b \in SamplesOf(seen),
                      \A x \in SamplesOf(seen) : 2 * ((x - b) % TS_MOD) < TS_MOD
               PROVE  our_hist.delay_base = b
    BY DEF BaseIsWindowMin, SamplesOf
  <2>1. b \in Stamps
    BY DEF LedbatInv, SeenInv, SamplesOf
  <2>2. SmallestOf(b, SamplesOf(seen))
    BY DEF SmallestOf
  <2> QED
    BY <2>1, <2>2 DEF SamplesInv, Summarises, Stands
<1> QED
  BY <1>1, LedbatInvariant, SamplesInit, SamplesStep, PTL DEF Spec

-----------------------------------------------------------------------------
(* Delays above the target *)

\* The decrease of apply_ccontrol: with the whole decrease inside the window
\* the new window is at most the old one.
LEMMA CwndNotAbove ==
    ASSUME WindowInv, ClockInv, NEW acked \in Nat, acked >= 1, NEW delay \in Int,
           NEW wraps \in BOOLEAN, delay >= TARGET,
           MAX_CWND_INCREASE * (delay - TARGET) <= max_window * TARGET
    PROVE  LedbatCwnd(acked, delay, wraps) <= max_window
<1> DEFINE over == delay - TARGET
           least == Smaller(acked, max_window)
           most == Larger(max_window, acked)
           den == GainDen(acked)
           num == GainNum(acked, delay)
           loss == MAX_CWND_INCREASE * over
           room == max_window * TARGET
           whole == max_window * den + num
<1>1. /\ max_window \in Nat \ {0} /\ TARGET \in Nat \ {0} /\ MIN_WINDOW_SIZE \in Nat
      /\ MAX_CWND_INCREASE \in Nat /\ MIN_WINDOW_SIZE <= max_window
  BY LedbatAssumption DEF WindowInv, WindowBounds
<1>2. over \in Nat
  BY <1>1
<1>3. /\ least \in Nat /\ most \in Nat \ {0} /\ least <= most
  BY <1>1 DEF Smaller, Larger
<1>4. loss \in Nat /\ room \in Nat /\ loss <= room
  BY <1>1, <1>2
<1>5. num = -(loss * least)
  <2> DEFINE gain == MAX_CWND_INCREASE * least * (TARGET - delay)
  <2>1. gain = -(loss * least)
    <3>1. TARGET - delay = -over
      BY <1>1
    <3> HIDE DEF over, least
    <3>2. MAX_CWND_INCREASE * least * (-over) = -(MAX_CWND_INCREASE * over * least)
      BY <1>1, <1>2, <1>3
    <3> QED
      BY <3>1, <3>2
  <2>2. loss * least >= 0
    <3> HIDE DEF loss, least
    <3> QED
      BY <1>3, <1>4
  <2>3. ~(gain > 0)
    <3> DEFINE product == loss * least
    <3>1. product \in Int
      <4> HIDE DEF loss, least
      <4> QED
        BY <1>3, <1>4
    <3> HIDE DEF gain, product
    <3>2. gain = -product /\ product >= 0
      BY <2>1, <2>2 DEF product
    <3> QED
      BY <3>1, <3>2
  <2>4. num = gain
    BY <2>3 DEF GainNum
  <2> QED
    BY <2>1, <2>4
<1>6. den = most * TARGET
  BY DEF GainDen
<1> HIDE DEF over, least, most, num, den, loss, room
<1>7. den \in Nat \ {0}
  BY <1>1, <1>3, <1>6, ProductPositive
<1>8. loss * least \in Nat /\ loss * least <= max_window * den
  <2>1. loss * least <= room * least
    BY <1>3, <1>4
  <2>2. room * least <= room * most
    BY <1>3, <1>4
  <2>3. room * most = max_window * den
    BY <1>1, <1>3, <1>6 DEF room
  <2>4. loss * least \in Nat /\ room * least \in Int /\ room * most \in Int
    BY <1>3, <1>4
  <2> DEFINE p == loss * least
             q == room * least
             r == room * most
  <2> HIDE DEF p, q, r
  <2>5. p \in Nat /\ q \in Int /\ r \in Int /\ p <= q /\ q <= r /\ r = max_window * den
    BY <2>1, <2>2, <2>3, <2>4 DEF p, q, r
  <2>6. p <= max_window * den
    BY <1>1, <1>7, <2>5
  <2> QED
    BY <2>5, <2>6 DEF p
<1>9. whole \in Nat /\ whole <= max_window * den
  <2> DEFINE p == loss * least
             m == max_window * den
  <2>1. m \in Nat
    BY <1>1, <1>7
  <2>2. p \in Nat /\ p <= m /\ whole = m - p
    <3>1. p \in Nat /\ p <= m
      BY <1>8
    <3>2. num = -p
      BY <1>5
    <3> HIDE DEF p, m
    <3> QED
      BY <2>1, <3>1, <3>2 DEF m
  <2> HIDE DEF p, m, whole
  <2>3. whole \in Nat /\ whole <= m
    BY <2>1, <2>2
  <2> QED
    BY <2>3 DEF m
<1> HIDE DEF whole
<1>10. Trunc(whole, den) = whole \div den
  BY <1>9 DEF Trunc
<1>11. whole \div den \in Nat /\ whole \div den <= max_window
  <2> DEFINE q == whole \div den
             r == whole % den
  <2>1. /\ q \in Int /\ r \in Int /\ 0 <= r /\ r < den
        /\ whole = den * q + r
    BY <1>7, <1>9
  <2> HIDE DEF q, r
  <2>2. q >= 0
    <3> SUFFICES ASSUME q <= -1 PROVE FALSE
      BY <2>1
    <3>1. den * q <= den * (-1)
      BY <1>7, <2>1
    <3> QED
      BY <1>7, <1>9, <2>1, <3>1
  <2>3. q <= max_window
    <3> SUFFICES ASSUME q >= max_window + 1 PROVE FALSE
      BY <1>1, <2>1
    <3>1. den * q >= den * (max_window + 1)
      BY <1>1, <1>7, <2>1
    <3>2. den * (max_window + 1) = max_window * den + den
      BY <1>1, <1>7
    <3> DEFINE m == max_window * den
               n == den * q
    <3>3. m \in Int /\ n \in Int /\ n >= m + den /\ whole <= m /\ whole = n + r
      BY <1>1, <1>7, <1>9, <2>1, <3>1, <3>2
    <3> HIDE DEF m, n
    <3> QED
      BY <1>7, <2>1, <3>3
  <2> QED
    BY <2>1, <2>2, <2>3 DEF q
<1> DEFINE quotient == whole \div den
<1>12. ToSize(quotient, wraps) = quotient
  BY <1>11 DEF ToSize
<1>13. \/ LedbatCwnd(acked, delay, wraps) = MIN_WINDOW_SIZE
       \/ LedbatCwnd(acked, delay, wraps) = ToSize(Trunc(whole, den), wraps)
  BY DEF LedbatCwnd, num, den, whole
<1> QED
  BY <1>1, <1>10, <1>11, <1>12, <1>13

LEMMA ApplyNotAbove ==
    ASSUME WindowInv, ClockInv, NEW acked \in Nat, acked >= 1, NEW delay \in Int,
           NEW size \in PacketSizes, NEW wraps \in BOOLEAN,
           ApplyCControl(acked, delay, size, wraps), delay >= TARGET,
           MAX_CWND_INCREASE * (delay - TARGET) <= max_window * TARGET
    PROVE  max_window' <= max_window
<1> DEFINE ledbat == LedbatCwnd(acked, delay, wraps)
<1>1. ledbat \in Nat /\ ledbat <= max_window
  BY LedbatCwndType, CwndNotAbove
<1>2. NearTarget(delay)
  <2>1. TARGET \in Nat \ {0}
    BY LedbatAssumption
  <2> QED
    BY <2>1 DEF NearTarget
<1>3. SetWindow(ledbat) \/ SetWindow(max_window)
  BY <1>2 DEF ApplyCControl
<1>4. /\ max_window \in Nat /\ MIN_WINDOW_SIZE \in Nat /\ MIN_WINDOW_SIZE <= max_window
      /\ opt_sndbuf \in Nat
  BY LedbatAssumption DEF WindowInv, WindowBounds, ClockInv
<1> HIDE DEF ledbat
<1>5. PICK w \in Nat : w <= max_window /\ max_window' = Clamp(w, MIN_WINDOW_SIZE, opt_sndbuf)
  BY <1>1, <1>3, <1>4 DEF SetWindow
<1> QED
  BY <1>4, <1>5 DEF Clamp

\* A delay at or above the target never enlarges the congestion window, in
\* slow start or out of it, as long as apply_ccontrol's conversion of the
\* decrease to size_t is defined.
THEOREM WindowNotAbove == Spec => DelayNeverGrowsDefined
<1> DEFINE Held == (/\ our_delay' >= TARGET
                    /\ MAX_CWND_INCREASE * (our_delay' - TARGET) <= max_window * TARGET)
                      => max_window' <= max_window
<1>1. LedbatInv /\ LedbatInv' /\ [Next]_vars => [Held]_vars
  <2> SUFFICES ASSUME LedbatInv, LedbatInv', Next,
                      our_delay' >= TARGET,
                      MAX_CWND_INCREASE * (our_delay' - TARGET) <= max_window * TARGET
               PROVE  max_window' <= max_window
    OBVIOUS
  <2>1. our_delay' # None
    BY LedbatAssumption DEF None
  <2>2. PICK p \in Packets, size \in PacketSizes, wraps \in BOOLEAN : Receive(p, size, wraps)
    BY <2>1 DEF Next, AckPacket, MaybeDecayWin, OnRtoTimeout, MarkWindowFull, SetSndBuf, Tick
  <2> DEFINE delay == OurDelay(our_hist', p.min_rtt, average'.drift)
  <2>3. p.acked >= 1 /\ ApplyCControl(p.acked, delay, size, wraps)
    BY <2>1, <2>2 DEF Receive
  <2> HIDE DEF delay
  <2>4. our_delay' = delay /\ delay \in Int
    BY <2>3 DEF ApplyCControl, LedbatInv
  <2>5. p.acked \in Nat
    BY LedbatAssumption DEF PacketShape
  <2> QED
    BY <2>3, <2>4, <2>5, ApplyNotAbove DEF LedbatInv
<1>2. LedbatInv /\ [Next]_vars => LedbatInv'
  BY StepInv
<1> QED
  BY <1>1, <1>2, LedbatInvariant, PTL DEF Spec, DelayNeverGrowsDefined

-----------------------------------------------------------------------------
(* The search *)

Sizes == MIN_MTU .. UDP_MTU

Searches == [floor : Sizes, ceiling : Sizes, last : Sizes,
             probe_seq : SeqNrs, probe_size : 0 .. UDP_MTU, due : BOOLEAN]

\* The interval contains the packet size in use and the probe on its way.
MtuOK(m) ==
  /\ m \in Searches
  /\ m.floor <= m.last /\ m.last <= m.ceiling
  /\ m.probe_seq # 0 => m.floor < m.probe_size /\ m.probe_size <= m.ceiling

\* From m to u the interval shrinks, unless a new search is due.
Narrows(m, u) ==
  ~m.due => ~u.due /\ u.floor >= m.floor /\ u.ceiling <= m.ceiling

LEMMA NarrowsTransitive ==
    ASSUME NEW m \in Searches, NEW u \in Searches, NEW v \in Searches,
           Narrows(m, u), Narrows(u, v)
    PROVE  Narrows(m, v)
BY MtuAssumption DEF Narrows, Searches, Sizes

\* clear_probe forgets the probe, nothing else.
LEMMA ClearProbeFields ==
    ASSUME NEW m \in Searches
    PROVE  LET u == ClearProbe(m)
           IN  /\ u \in Searches /\ u.probe_seq = 0
               /\ u.floor = m.floor /\ u.ceiling = m.ceiling /\ u.last = m.last
               /\ u.due = m.due
<1>1. 0 \in SeqNrs /\ 0 \in 0 .. UDP_MTU
  BY MtuAssumption, SeqModAssumption DEF SeqNrs
<1> QED
  BY <1>1 DEF ClearProbe, Searches

\* Whatever moved an end of the interval, search_update leaves it in order.
LEMMA SearchUpdateOK ==
    ASSUME NEW m \in Searches, m.floor <= m.ceiling
    PROVE  MtuOK(SearchUpdate(m)) /\ Narrows(m, SearchUpdate(m))
<1> DEFINE mid == (m.floor + m.ceiling) \div 2
           a == [m EXCEPT !.last = m.floor, !.ceiling = m.floor, !.due = FALSE]
           b == [m EXCEPT !.last = mid]
<1>1. /\ m.floor \in Int /\ m.ceiling \in Int
      /\ MIN_MTU \in Int /\ UDP_MTU \in Nat /\ 0 \in SeqNrs
      /\ MIN_MTU <= m.floor /\ m.ceiling <= UDP_MTU
  BY MtuAssumption, SeqModAssumption DEF Searches, Sizes, SeqNrs
<1>2. mid \in Int /\ m.floor <= mid /\ mid <= m.ceiling
  BY <1>1
<1>3. mid \in Sizes /\ m.floor \in Sizes
  BY <1>1, <1>2 DEF Sizes
<1> HIDE DEF mid
<1>4. MtuOK(ClearProbe(a)) /\ Narrows(m, ClearProbe(a))
  <2>1. /\ a \in Searches /\ a.floor = m.floor /\ a.ceiling = m.floor
        /\ a.last = m.floor /\ ~a.due
    BY <1>3 DEF Searches
  <2> HIDE DEF a
  <2> QED
    BY <1>1, <2>1, ClearProbeFields DEF MtuOK, Narrows
<1>5. MtuOK(ClearProbe(b)) /\ Narrows(m, ClearProbe(b))
  <2>1. /\ b \in Searches /\ b.floor = m.floor /\ b.ceiling = m.ceiling
        /\ b.last = mid /\ b.due = m.due
    BY <1>3 DEF Searches
  <2> HIDE DEF b
  <2> QED
    BY <1>1, <1>2, <2>1, ClearProbeFields DEF MtuOK, Narrows
<1>6. SearchUpdate(m) \in {ClearProbe(a), ClearProbe(b)}
  BY DEF SearchUpdate, mid
<1> HIDE DEF a, b
<1> QED
  BY <1>4, <1>5, <1>6

\* The end of the interval that an answer to the probe moves.
LEMMA MovedEnd ==
    ASSUME NEW m, MtuOK(m), NEW u \in Searches, u.floor <= u.ceiling, u.due = m.due,
           m.floor <= u.floor, u.ceiling <= m.ceiling
    PROVE  MtuOK(SearchUpdate(u)) /\ Narrows(m, SearchUpdate(u))
<1> DEFINE v == SearchUpdate(u)
<1>1. MtuOK(v) /\ Narrows(u, v)
  BY SearchUpdateOK
<1> HIDE DEF v
<1>2. Narrows(m, u)
  BY MtuAssumption DEF Narrows, Searches, Sizes, MtuOK
<1>3. Narrows(m, v)
  BY <1>1, <1>2, NarrowsTransitive DEF MtuOK
<1> QED
  BY <1>1, <1>3 DEF v

\* handle_probe_loss, and a timeout or a third duplicate ACK that blames the probe.
LEMMA ProbeTooLongOK ==
    ASSUME NEW m, MtuOK(m), m.probe_seq # 0
    PROVE  MtuOK(ProbeTooLong(m)) /\ Narrows(m, ProbeTooLong(m))
<1> DEFINE size == m.probe_size - 1
           u == [m EXCEPT !.ceiling = size]
<1>1. size \in Sizes /\ m.floor <= size /\ size <= m.ceiling
  BY MtuAssumption DEF MtuOK, Searches, Sizes
<1> HIDE DEF size
<1>2. u \in Searches /\ u.floor = m.floor /\ u.ceiling = size /\ u.due = m.due
  BY <1>1 DEF MtuOK, Searches
<1>3. m.floor <= m.floor
  BY MtuAssumption DEF MtuOK, Searches, Sizes
<1> HIDE DEF u
<1>4. MtuOK(SearchUpdate(u)) /\ Narrows(m, SearchUpdate(u))
  BY <1>1, <1>2, <1>3, MovedEnd
<1> QED
  BY <1>4 DEF ProbeTooLong, u, size

\* handle_probe_ack.
LEMMA ProbeAckOK ==
    ASSUME NEW m, MtuOK(m), NEW seq
    PROVE  MtuOK(HandleProbeAck(m, seq)) /\ Narrows(m, HandleProbeAck(m, seq))
<1> DEFINE u == [m EXCEPT !.floor = m.probe_size]
<1>1. CASE ~IsProbe(m, seq)
  BY <1>1, MtuAssumption DEF HandleProbeAck, Narrows, MtuOK, Searches, Sizes
<1>2. CASE IsProbe(m, seq)
  <2>1. /\ m.probe_size \in Sizes /\ m.floor <= m.probe_size
        /\ m.probe_size <= m.ceiling /\ m.ceiling <= m.ceiling
    BY <1>2, MtuAssumption DEF MtuOK, Searches, Sizes, IsProbe
  <2>2. u \in Searches /\ u.floor = m.probe_size /\ u.ceiling = m.ceiling /\ u.due = m.due
    BY <2>1 DEF MtuOK, Searches
  <2>3. HandleProbeAck(m, seq) = SearchUpdate(u)
    BY <1>2 DEF HandleProbeAck
  <2> HIDE DEF u
  <2>4. MtuOK(SearchUpdate(u)) /\ Narrows(m, SearchUpdate(u))
    BY <2>1, <2>2, MovedEnd
  <2> QED
    BY <2>3, <2>4
<1> QED
  BY <1>1, <1>2

LEMMA ClearProbeOK ==
    ASSUME NEW m, MtuOK(m)
    PROVE  MtuOK(ClearProbe(m)) /\ Narrows(m, ClearProbe(m))
<1>1. m \in Searches /\ m.floor \in Int /\ m.ceiling \in Int
  BY MtuAssumption DEF MtuOK, Searches, Sizes
<1> QED
  BY <1>1, ClearProbeFields DEF MtuOK, Narrows

\* handle_probe_timeout.
LEMMA ProbeTimeoutOK ==
    ASSUME NEW m, MtuOK(m), NEW seq, NEW cwp
    PROVE  /\ MtuOK(HandleProbeTimeout(m, seq, cwp))
           /\ Narrows(m, HandleProbeTimeout(m, seq, cwp))
<1>1. IsProbe(m, seq) => m.probe_seq # 0
  BY DEF IsProbe
<1> QED
  BY <1>1, ProbeTooLongOK, ClearProbeOK DEF HandleProbeTimeout

\* A router reports a dropped probe without the MTU of the next hop.
LEMMA IcmpUnknownOK ==
    ASSUME NEW m, MtuOK(m)
    PROVE  MtuOK(OnIcmpFragmentation(m, 0)) /\ Narrows(m, OnIcmpFragmentation(m, 0))
<1> DEFINE mid == (m.floor + m.ceiling) \div 2
           u == [m EXCEPT !.ceiling = mid]
<1>1. /\ m.floor \in Int /\ m.ceiling \in Int /\ m.floor <= m.ceiling
      /\ MIN_MTU <= m.floor /\ m.ceiling <= UDP_MTU /\ MIN_MTU \in Int /\ UDP_MTU \in Int
  BY MtuAssumption DEF MtuOK, Searches, Sizes
<1>2. mid \in Int /\ m.floor <= mid /\ mid <= m.ceiling /\ m.floor <= m.floor
  BY <1>1
<1>3. mid \in Sizes
  BY <1>1, <1>2 DEF Sizes
<1>4. OnIcmpFragmentation(m, 0) = SearchUpdate(u)
  BY MtuAssumption DEF OnIcmpFragmentation, HandleIcmpUnknown
<1> HIDE DEF mid
<1>5. u \in Searches /\ u.floor = m.floor /\ u.ceiling = mid /\ u.due = m.due
  BY <1>3 DEF MtuOK, Searches
<1> HIDE DEF u
<1>6. MtuOK(SearchUpdate(u)) /\ Narrows(m, SearchUpdate(u))
  BY <1>2, <1>5, MovedEnd
<1> QED
  BY <1>4, <1>6

-----------------------------------------------------------------------------
(* The send window *)

Sends == [seq_nr : SeqNrs, cwp : 0 .. OUT_MAX, outbuf : [SeqNrs -> OutPackets \cup {NULL}],
          fast_resend : SeqNrs, dup : 0 .. DUP_ACKS + 1]

\* Outside the window outbuf is empty, and the window starts with a packet.
SndOK(s) ==
  /\ s \in Sends
  /\ \A q \in SeqNrs \ Window(s) : s.outbuf[q] = NULL
  /\ s.cwp > 0 => s.outbuf[At(s, 0)] # NULL

StateOK(f) ==
  /\ DOMAIN f = {"mtu", "snd", "arrived", "too_big", "through"}
  /\ f = [k \in DOMAIN f |-> f[k]]
  /\ MtuOK(f.mtu) /\ SndOK(f.snd) /\ f.too_big \in BOOLEAN

\* From f to g no packet comes or goes, and the interval of the search narrows.
Keeps(f, g) ==
  /\ g.snd.seq_nr = f.snd.seq_nr /\ g.snd.cwp = f.snd.cwp
  /\ \A q \in SeqNrs : g.snd.outbuf[q] = NULL <=> f.snd.outbuf[q] = NULL
  /\ Narrows(f.mtu, g.mtu)

LEMMA NarrowsReflexive == ASSUME NEW m, MtuOK(m) PROVE Narrows(m, m)
BY MtuAssumption DEF Narrows, MtuOK, Searches, Sizes

LEMMA KeepsReflexive == ASSUME NEW f, StateOK(f) PROVE Keeps(f, f)
BY NarrowsReflexive DEF Keeps, StateOK

LEMMA KeepsTransitive ==
    ASSUME NEW f, NEW g, NEW h, StateOK(f), StateOK(g), StateOK(h), Keeps(f, g), Keeps(g, h)
    PROVE  Keeps(f, h)
<1>1. Narrows(f.mtu, h.mtu)
  BY NarrowsTransitive DEF Keeps, StateOK, MtuOK
<1> QED
  BY <1>1 DEF Keeps

LEMMA AtType ==
    ASSUME NEW s \in Sends
    PROVE  /\ s.seq_nr \in Int /\ s.cwp \in Nat /\ s.cwp < SEQ_MOD
           /\ Wrap(s.seq_nr - 1) \in SeqNrs /\ Wrap(s.seq_nr + 1) \in SeqNrs
           /\ \A i \in Int : At(s, i) \in SeqNrs
<1>1. s.seq_nr \in Int /\ s.cwp \in Nat /\ s.cwp < SEQ_MOD
  BY MtuAssumption, SeqModAssumption DEF Sends, SeqNrs
<1>2. s.seq_nr - 1 \in Int /\ s.seq_nr + 1 \in Int /\ \A i \in Int : s.seq_nr - s.cwp + i \in Int
  BY <1>1
<1> QED
  BY <1>1, <1>2, WrapType DEF At

\* A window of the same place whose slots are filled as before.
LEMMA SameWindowOK ==
    ASSUME NEW s, SndOK(s), NEW t \in Sends, t.seq_nr = s.seq_nr, t.cwp = s.cwp,
           \A q \in SeqNrs : t.outbuf[q] = NULL <=> s.outbuf[q] = NULL
    PROVE  SndOK(t)
<1>1. \A i : At(t, i) = At(s, i)
  BY DEF At
<1>2. Window(t) = Window(s)
  BY <1>1 DEF Window
<1>3. At(s, 0) \in SeqNrs
  BY AtType DEF SndOK
<1> QED
  BY <1>1, <1>2, <1>3 DEF SndOK

\* send_packet: a probe is recorded only if it lies in the interval.
LEMMA SendPacketOK ==
    ASSUME NEW f, StateOK(f), NEW q \in SeqNrs, f.snd.outbuf[q] # NULL
    PROVE  StateOK(SendPacket(f, q)) /\ Keeps(f, SendPacket(f, q))
<1> DEFINE p     == f.snd.outbuf[q]
           len   == HEADER + p.payload
           m     == IF f.mtu.due THEN Reset(f.mtu) ELSE f.mtu
           probe == MayProbe(m, f.snd, p)
           big   == probe /\ len > PATH
           n     == IF probe THEN [m EXCEPT !.probe_seq = Wrap(f.snd.seq_nr - 1),
                                            !.probe_size = len] ELSE m
           r     == [payload |-> p.payload, sent |-> TRUE, need_resend |-> FALSE]
           new   == [f.snd.outbuf EXCEPT ![q] = r]
           s     == [f.snd EXCEPT !.outbuf = new]
           a     == IF q \in f.through /\ ~big THEN f.arrived \cup {q} ELSE f.arrived
           b     == f.too_big \/ big
           t     == [f EXCEPT !.mtu = n, !.snd = s, !.arrived = a, !.too_big = b]
<1>1. f.snd \in Sends /\ f.snd.outbuf \in [SeqNrs -> OutPackets \cup {NULL}]
      /\ MtuOK(f.mtu) /\ SndOK(f.snd)
  BY DEF StateOK, SndOK, Sends
<1>2. p \in OutPackets
  BY <1>1
<1>3. p.payload \in Nat /\ r \in OutPackets /\ r # NULL /\ len \in Nat
  <2>1. p.payload \in Nat /\ r \in OutPackets
    BY <1>2 DEF OutPackets
  <2>2. NULL \notin OutPackets /\ HEADER \in Nat
    BY MtuAssumption
  <2> HIDE DEF p, r
  <2> QED
    BY <2>1, <2>2
<1>4. MtuOK(m) /\ Narrows(f.mtu, m)
  <2>1. CASE ~f.mtu.due
    BY <1>1, <2>1, NarrowsReflexive
  <2>2. CASE f.mtu.due
    <3> DEFINE u == Reset(f.mtu)
    <3>0. MIN_MTU \in Sizes /\ UDP_MTU \in Sizes
      BY MtuAssumption DEF Sizes
    <3>1. /\ u \in Searches /\ u.floor = MIN_MTU /\ u.ceiling = UDP_MTU
          /\ u.last = f.mtu.last /\ u.probe_seq = f.mtu.probe_seq
          /\ u.probe_size = f.mtu.probe_size
      BY <1>1, <3>0 DEF Reset, MtuOK, Searches
    <3> HIDE DEF u
    <3>2. MtuOK(u)
      BY <1>1, <3>1, MtuAssumption DEF MtuOK, Searches, Sizes
    <3> QED
      BY <2>2, <3>2 DEF Narrows, u
  <2> QED
    BY <2>1, <2>2
<1> HIDE DEF m
<1>5. MtuOK(n) /\ Narrows(m, n)
  <2>1. CASE ~probe
    BY <1>4, <2>1, NarrowsReflexive
  <2>2. CASE probe
    <3> DEFINE k == Wrap(f.snd.seq_nr - 1)
               u == [m EXCEPT !.probe_seq = k, !.probe_size = len]
    <3>1. k \in SeqNrs /\ m.floor < len /\ len <= m.ceiling
      BY <1>1, <2>2, AtType DEF MayProbe
    <3>2. len \in 0 .. UDP_MTU
      BY <1>3, <1>4, <3>1, MtuAssumption DEF MtuOK, Searches, Sizes
    <3> HIDE DEF k, len
    <3>3. /\ u \in Searches /\ u.floor = m.floor /\ u.ceiling = m.ceiling
          /\ u.last = m.last /\ u.due = m.due /\ u.probe_size = len
      BY <1>4, <3>1, <3>2 DEF MtuOK, Searches
    <3>4. n = u
      BY <2>2 DEF k, len
    <3> HIDE DEF u
    <3>5. MtuOK(u) /\ Narrows(m, u)
      BY <1>4, <3>1, <3>3, MtuAssumption DEF MtuOK, Narrows, Searches, Sizes
    <3> QED
      BY <3>4, <3>5
  <2> QED
    BY <2>1, <2>2
<1>6. b \in BOOLEAN
  OBVIOUS
<1>7. new \in [SeqNrs -> OutPackets \cup {NULL}]
      /\ \A k \in SeqNrs : new[k] = NULL <=> f.snd.outbuf[k] = NULL
  BY <1>1, <1>3
<1>8. s \in Sends /\ s.outbuf = new /\ s.seq_nr = f.snd.seq_nr /\ s.cwp = f.snd.cwp
  BY <1>1, <1>7 DEF Sends
<1>9. SendPacket(f, q) = t
  BY DEF SendPacket, m
<1> HIDE DEF s, new, n, a, b
<1>10. SndOK(s)
  BY <1>1, <1>7, <1>8, SameWindowOK
<1>11. /\ t.mtu = n /\ t.snd = s /\ t.too_big = b
       /\ DOMAIN t = DOMAIN f /\ t = [k \in DOMAIN t |-> t[k]]
  BY DEF StateOK
<1>12. Narrows(f.mtu, n)
  BY <1>1, <1>4, <1>5, NarrowsTransitive DEF MtuOK
<1> HIDE DEF t
<1>13. StateOK(t)
  BY <1>5, <1>6, <1>10, <1>11 DEF StateOK
<1> QED
  BY <1>7, <1>8, <1>9, <1>11, <1>12, <1>13 DEF Keeps

-----------------------------------------------------------------------------
(* Loops that send *)

Sent1 == INSTANCE FoldLaws WITH Op <- SendOne
Resent == INSTANCE FoldLaws WITH Op <- ResendLost

\* The state of a loop that was entered with state f.
LoopState(f, g) == StateOK(g) /\ Keeps(f, g)

LEMMA SendOneOK ==
    ASSUME NEW f, StateOK(f), NEW g, LoopState(f, g), NEW q,
           q # NULL => q \in SeqNrs /\ f.snd.outbuf[q] # NULL
    PROVE  LoopState(f, SendOne(g, q))
<1>1. CASE q = NULL
  BY <1>1 DEF SendOne
<1>2. CASE q # NULL
  <2> DEFINE h == SendPacket(g, q)
  <2>1. g.snd.outbuf[q] # NULL
    BY <1>2 DEF LoopState, Keeps
  <2>2. StateOK(h) /\ Keeps(g, h)
    BY <1>2, <2>1, SendPacketOK DEF LoopState
  <2> HIDE DEF h
  <2>3. Keeps(f, h)
    BY <2>2, KeepsTransitive DEF LoopState
  <2> QED
    BY <1>2, <2>2, <2>3 DEF SendOne, LoopState, h
<1> QED
  BY <1>1, <1>2

LEMMA SendLoopOK ==
    ASSUME NEW f, StateOK(f), NEW n \in Nat, NEW seq, DOMAIN seq = 1 .. n,
           \A i \in 1 .. n : seq[i] # NULL => seq[i] \in SeqNrs /\ f.snd.outbuf[seq[i]] # NULL
    PROVE  LoopState(f, FoldLeft(SendOne, f, seq))
<1> DEFINE end == FoldLeft(SendOne, f, seq)
<1>1. PICK c : Sent1!Chain(c, n, f, seq) /\ end = c[n]
  <2>1. \E c : Sent1!Chain(c, n, f, seq) /\ Sent1!FoldLeft(SendOne, f, seq) = c[n]
    BY Sent1!FoldLeftChain
  <2>2. Sent1!FoldLeft(SendOne, f, seq) = end
    BY DEF FoldLeft, Sent1!FoldLeft, MapThenFoldSet, Sent1!MapThenFoldSet, Max, Sent1!Max
  <2> HIDE DEF end
  <2> QED
    BY <2>1, <2>2
<1> HIDE DEF end
<1> DEFINE Z == {i \in 0 .. n : LoopState(f, c[i])}
<1>2. 0 \in Z
  BY <1>1, KeepsReflexive DEF Sent1!Chain, LoopState
<1>3. \A i \in 1 .. n : i - 1 \in Z => i \in Z
  <2> SUFFICES ASSUME NEW i \in 1 .. n, LoopState(f, c[i - 1])
               PROVE  i \in Z
    OBVIOUS
  <2>1. c[i] = SendOne(c[i - 1], seq[i])
    BY <1>1 DEF Sent1!Chain
  <2>2. LoopState(f, SendOne(c[i - 1], seq[i]))
    BY SendOneOK
  <2> QED
    BY <2>1, <2>2
<1> HIDE DEF Z
<1>4. n \in Z
  <2>1. \A i \in 0 .. n : i \in Z
    BY <1>2, <1>3, Sent1!Rounds
  <2> QED
    BY <2>1
<1> QED
  BY <1>1, <1>4 DEF Z, end

\* flush_packets sends packets of the window.
LEMMA FlushPacketsOK ==
    ASSUME NEW f, StateOK(f), NEW room
    PROVE  StateOK(FlushPackets(f, room)) /\ Keeps(f, FlushPackets(f, room))
<1> DEFINE s == f.snd
           Waits(q) == s.outbuf[q] # NULL /\ (~s.outbuf[q].sent \/ s.outbuf[q].need_resend)
           Goes(q) == \/ q # Wrap(s.seq_nr - 1) \/ s.cwp = 1
                      \/ s.outbuf[q].payload >= PacketSize(f.mtu)
           Q == {i \in 1 .. s.cwp : Waits(At(s, i - 1)) /\ Goes(At(s, i - 1))}
           go == Foremost(Q, room)
           seq == [i \in 1 .. s.cwp |-> IF i \in go THEN At(s, i - 1) ELSE NULL]
           n == s.cwp
<1>1. n \in Nat /\ \A i \in Int : At(s, i) \in SeqNrs
  BY AtType DEF StateOK, SndOK
<1>2. \A i \in go : i \in 1 .. n /\ s.outbuf[At(s, i - 1)] # NULL
  BY DEF Foremost
<1>3. ASSUME NEW i \in 1 .. n, seq[i] # NULL
      PROVE  seq[i] \in SeqNrs /\ s.outbuf[seq[i]] # NULL
  <2>1. i \in go /\ seq[i] = At(s, i - 1) /\ i - 1 \in Int
    BY <1>3
  <2> HIDE DEF seq, go
  <2> QED
    BY <1>1, <1>2, <2>1
<1>4. DOMAIN seq = 1 .. n
  OBVIOUS
<1>5. FlushPackets(f, room) = FoldLeft(SendOne, f, seq)
  BY DEF FlushPackets
<1> HIDE DEF seq, n
<1>6. LoopState(f, FoldLeft(SendOne, f, seq))
  BY <1>1, <1>3, <1>4, SendLoopOK
<1> QED
  BY <1>5, <1>6 DEF LoopState

LEMMA ResendLostOK ==
    ASSUME NEW f, StateOK(f), NEW g, LoopState(f, g), NEW q, q # NULL => q \in SeqNrs
    PROVE  LoopState(f, ResendLost(g, q))
<1>1. CASE q = NULL \/ g.snd.outbuf[q] = NULL
  BY <1>1 DEF ResendLost
<1>2. CASE ~(q = NULL \/ g.snd.outbuf[q] = NULL)
  <2> DEFINE h == SendPacket(g, q)
             next == Wrap(q + 1)
             s == [h.snd EXCEPT !.fast_resend = next]
             t == [h EXCEPT !.snd = s]
  <2>1. StateOK(h) /\ Keeps(g, h)
    BY <1>2, SendPacketOK DEF LoopState
  <2>2. Keeps(f, h)
    BY <2>1, KeepsTransitive DEF LoopState
  <2>3. next \in SeqNrs
    <3>1. q + 1 \in Int
      BY <1>2, SeqModAssumption DEF SeqNrs
    <3> QED
      BY <3>1, WrapType
  <2>4. ResendLost(g, q) = t
    BY <1>2 DEF ResendLost
  <2> HIDE DEF h, next
  <2>5. /\ s \in Sends /\ s.seq_nr = h.snd.seq_nr /\ s.cwp = h.snd.cwp
        /\ s.outbuf = h.snd.outbuf
    BY <2>1, <2>3 DEF StateOK, SndOK, Sends
  <2> HIDE DEF s
  <2>6. SndOK(s)
    BY <2>1, <2>5, SameWindowOK DEF StateOK
  <2>7. /\ t.mtu = h.mtu /\ t.snd = s /\ t.too_big = h.too_big
        /\ DOMAIN t = DOMAIN h /\ t = [k \in DOMAIN t |-> t[k]]
    BY <2>1 DEF StateOK
  <2> HIDE DEF t
  <2>8. StateOK(t)
    BY <2>1, <2>6, <2>7 DEF StateOK
  <2>9. Keeps(f, t)
    BY <2>2, <2>5, <2>7 DEF Keeps
  <2> QED
    BY <2>4, <2>8, <2>9 DEF LoopState
<1> QED
  BY <1>1, <1>2

LEMMA ResendLoopOK ==
    ASSUME NEW f, StateOK(f), NEW n \in Nat, NEW seq, DOMAIN seq = 1 .. n,
           \A i \in 1 .. n : seq[i] # NULL => seq[i] \in SeqNrs
    PROVE  LoopState(f, FoldLeft(ResendLost, f, seq))
<1> DEFINE end == FoldLeft(ResendLost, f, seq)
<1>1. PICK c : Resent!Chain(c, n, f, seq) /\ end = c[n]
  <2>1. \E c : Resent!Chain(c, n, f, seq) /\ Resent!FoldLeft(ResendLost, f, seq) = c[n]
    BY Resent!FoldLeftChain
  <2>2. Resent!FoldLeft(ResendLost, f, seq) = end
    BY DEF FoldLeft, Resent!FoldLeft, MapThenFoldSet, Resent!MapThenFoldSet, Max, Resent!Max
  <2> HIDE DEF end
  <2> QED
    BY <2>1, <2>2
<1> HIDE DEF end
<1> DEFINE Z == {i \in 0 .. n : LoopState(f, c[i])}
<1>2. 0 \in Z
  BY <1>1, KeepsReflexive DEF Resent!Chain, LoopState
<1>3. \A i \in 1 .. n : i - 1 \in Z => i \in Z
  <2> SUFFICES ASSUME NEW i \in 1 .. n, LoopState(f, c[i - 1])
               PROVE  i \in Z
    OBVIOUS
  <2>1. c[i] = ResendLost(c[i - 1], seq[i])
    BY <1>1 DEF Resent!Chain
  <2>2. LoopState(f, ResendLost(c[i - 1], seq[i]))
    BY ResendLostOK
  <2> QED
    BY <2>1, <2>2
<1> HIDE DEF Z
<1>4. n \in Z
  <2>1. \A i \in 0 .. n : i \in Z
    BY <1>2, <1>3, Resent!Rounds
  <2> QED
    BY <2>1
<1> QED
  BY <1>1, <1>4 DEF Z, end

-----------------------------------------------------------------------------
(* The window changes *)

\* A call that leaves a consistent state and an interval that is no wider.
Follows(f, g) == StateOK(g) /\ Narrows(f.mtu, g.mtu)

LEMMA FollowsTransitive ==
    ASSUME NEW f, NEW g, NEW h, StateOK(f), Follows(f, g), Follows(g, h)
    PROVE  Follows(f, h)
BY NarrowsTransitive DEF Follows, StateOK, MtuOK

LEMMA KeepsFollows ==
    ASSUME NEW f, NEW g, StateOK(g), Keeps(f, g)
    PROVE  Follows(f, g)
BY DEF Follows, Keeps

\* A state whose search and whose window have been replaced.
Replace(f, m, s) == [f EXCEPT !.mtu = m, !.snd = s]

LEMMA ReplaceOK ==
    ASSUME NEW f, StateOK(f), NEW m, MtuOK(m), NEW s, SndOK(s)
    PROVE  LET g == Replace(f, m, s)
           IN  StateOK(g) /\ g.mtu = m /\ g.snd = s
<1> DEFINE g == Replace(f, m, s)
<1>1. /\ g.mtu = m /\ g.snd = s /\ g.too_big = f.too_big
      /\ DOMAIN g = DOMAIN f /\ g = [k \in DOMAIN g |-> g[k]]
  BY DEF StateOK, Replace
<1> HIDE DEF g
<1>2. StateOK(g)
  BY <1>1 DEF StateOK
<1> QED
  BY <1>1, <1>2 DEF g

\* A packet at the end leaves every other one in its place.
LEMMA WindowGrows ==
    ASSUME NEW s, SndOK(s), NEW t, t.seq_nr = Wrap(s.seq_nr + 1), t.cwp = s.cwp + 1
    PROVE  /\ Window(s) \subseteq Window(t) /\ s.seq_nr \in Window(t)
           /\ At(t, 0) = At(s, 0) /\ (s.cwp = 0 => At(s, 0) = s.seq_nr)
<1> DEFINE x == s.seq_nr
           c == s.cwp
<1>1. x \in Int /\ c \in Nat /\ Wrap(x) = x
  BY AtType, WrapIdentity DEF SndOK, Sends
<1> HIDE DEF x, c
<1>2. \A i \in Int : At(t, i) = Wrap(x - c + i)
  <2> TAKE i \in Int
  <2> DEFINE a == x + 1
             b == i - (c + 1)
  <2>1. a \in Int /\ b \in Int /\ a + b = x - c + i /\ Wrap(a) \in Int
    BY <1>1, WrapType DEF SeqNrs
  <2>2. Wrap(Wrap(a) + b) = Wrap(a + b)
    BY <2>1, WrapAdd
  <2>3. Wrap(a) + b = Wrap(a) - (c + 1) + i
    BY <1>1, <2>1
  <2> QED
    BY <2>1, <2>2, <2>3 DEF At, x, c
<1>3. \A i \in Int : At(t, i) = At(s, i)
  BY <1>2 DEF At, x, c
<1>4. Window(s) \subseteq Window(t)
  <2> SUFFICES ASSUME NEW i \in 0 .. c - 1 PROVE At(s, i) \in Window(t)
    BY DEF Window, c
  <2>1. i \in 0 .. (c + 1) - 1 /\ i \in Int
    BY <1>1
  <2>2. At(t, i) \in Window(t)
    BY <2>1 DEF Window, c
  <2> QED
    BY <1>3, <2>1, <2>2
<1>5. x \in Window(t)
  <2>1. c \in 0 .. (c + 1) - 1 /\ c \in Int /\ x - c + c = x
    BY <1>1
  <2>2. At(t, c) \in Window(t)
    BY <2>1 DEF Window, c
  <2>3. At(t, c) = Wrap(x)
    BY <1>2, <2>1
  <2> QED
    BY <1>1, <2>2, <2>3
<1>6. c = 0 => At(s, 0) = x
  <2> SUFFICES ASSUME c = 0 PROVE At(s, 0) = x
    OBVIOUS
  <2>1. x - c + 0 = x
    BY <1>1
  <2> QED
    BY <1>1, <2>1 DEF At, x, c
<1>7. At(t, 0) = At(s, 0)
  BY <1>3
<1> QED
  BY <1>4, <1>5, <1>6, <1>7 DEF x, c

\* write_outgoing_packet.
LEMMA QueueOK ==
    ASSUME NEW s, SndOK(s), s.cwp < OUT_MAX, NEW n \in Nat, NEW size \in Nat
    PROVE  SndOK(Queue(s, n, size))
<1> DEFINE last  == Wrap(s.seq_nr - 1)
           p     == s.outbuf[last]
           open  == s.cwp > 0 /\ p # NULL /\ ~p.sent /\ p.payload < size
           added == IF open THEN Min({n, size - p.payload}) ELSE 0
           fp    == [p EXCEPT !.payload = @ + added]
           fo    == [s.outbuf EXCEPT ![last] = fp]
           fs    == [s EXCEPT !.outbuf = fo]
           filled == IF open THEN fs ELSE s
<1>1. /\ s \in Sends /\ s.outbuf \in [SeqNrs -> OutPackets \cup {NULL}]
      /\ last \in SeqNrs /\ s.cwp \in Nat /\ s.cwp + 1 \in 0 .. OUT_MAX
      /\ Wrap(s.seq_nr + 1) \in SeqNrs /\ s.seq_nr \in SeqNrs
  BY AtType, MtuAssumption DEF SndOK, Sends
<1>2. added \in 0 .. n /\ (open => p \in OutPackets)
  <2>1. CASE ~open
    BY <2>1
  <2>2. CASE open
    <3>1. p \in OutPackets /\ p.payload \in Nat /\ p.payload < size
      BY <1>1, <2>2 DEF OutPackets
    <3> DEFINE k == size - p.payload
    <3>2. k \in Nat /\ n \in Int /\ k \in Int
      BY <3>1
    <3> HIDE DEF k
    <3>3. Min({n, k}) = IF n <= k THEN n ELSE k
      BY <3>2, MinOfTwo
    <3>4. added = Min({n, k})
      BY <2>2 DEF k
    <3> HIDE DEF added
    <3> QED
      BY <3>1, <3>2, <3>3, <3>4
  <2> QED
    BY <2>1, <2>2
<1> HIDE DEF added
<1>3. SndOK(filled) /\ filled.seq_nr = s.seq_nr /\ filled.cwp = s.cwp
  <2>1. CASE ~open
    BY <2>1
  <2>2. CASE open
    <3>1. p \in OutPackets /\ fp \in OutPackets
      BY <1>2, <2>2 DEF OutPackets
    <3>2. fp # NULL /\ p # NULL
      BY <3>1, MtuAssumption
    <3> HIDE DEF fp
    <3>3. /\ fo \in [SeqNrs -> OutPackets \cup {NULL}]
          /\ \A q \in SeqNrs : fo[q] = NULL <=> s.outbuf[q] = NULL
      BY <1>1, <3>1, <3>2
    <3> HIDE DEF fo
    <3>4. fs \in Sends /\ fs.outbuf = fo /\ fs.seq_nr = s.seq_nr /\ fs.cwp = s.cwp
      BY <1>1, <3>3 DEF Sends
    <3> HIDE DEF fs
    <3>5. SndOK(fs)
      BY <3>3, <3>4, SameWindowOK
    <3> QED
      BY <2>2, <3>4, <3>5
  <2> QED
    BY <2>1, <2>2
<1>4. CASE open /\ added = n
  <2>1. Queue(s, n, size) = filled
    BY <1>4, Zenon DEF Queue, added
  <2> QED
    BY <1>3, <2>1
<1>5. CASE ~(open /\ added = n)
  <2> DEFINE r   == [payload |-> n - added, sent |-> FALSE, need_resend |-> FALSE]
             u   == filled
             new == [u.outbuf EXCEPT ![s.seq_nr] = r]
             t   == [u EXCEPT !.outbuf = new, !.seq_nr = Wrap(u.seq_nr + 1), !.cwp = u.cwp + 1]
  <2>1. r \in OutPackets
    BY <1>2 DEF OutPackets
  <2>2. r # NULL
    BY <2>1, MtuAssumption
  <2>3. Queue(s, n, size) = t
    BY <1>5 DEF Queue, added
  <2> HIDE DEF r, filled
  <2>4. u \in Sends /\ u.outbuf \in [SeqNrs -> OutPackets \cup {NULL}]
    BY <1>3 DEF SndOK, Sends
  <2>5. /\ new \in [SeqNrs -> OutPackets \cup {NULL}] /\ new[s.seq_nr] = r
        /\ \A q \in SeqNrs \ {s.seq_nr} : new[q] = u.outbuf[q]
    BY <1>1, <2>1, <2>4
  <2> HIDE DEF new
  <2>6. /\ t \in Sends /\ t.outbuf = new
        /\ t.seq_nr = Wrap(s.seq_nr + 1) /\ t.cwp = s.cwp + 1
    BY <1>1, <1>3, <2>4, <2>5 DEF Sends
  <2> HIDE DEF t, u
  <2>7. /\ Window(u) \subseteq Window(t) /\ u.seq_nr \in Window(t)
        /\ At(t, 0) = At(u, 0) /\ (u.cwp = 0 => At(u, 0) = u.seq_nr)
    BY <1>3, <2>6, WindowGrows DEF u
  <2>8. \A q \in SeqNrs \ Window(t) : t.outbuf[q] = NULL
    BY <1>3, <2>5, <2>6, <2>7 DEF SndOK, u
  <2>9. t.outbuf[At(t, 0)] # NULL
    <3>1. At(u, 0) \in SeqNrs
      BY <2>4, AtType
    <3>2. CASE At(u, 0) = s.seq_nr
      BY <2>2, <2>5, <2>6, <2>7, <3>2
    <3>3. CASE At(u, 0) # s.seq_nr
      <4>1. u.cwp > 0
        BY <1>1, <1>3, <2>7, <3>3 DEF u
      <4>2. u.outbuf[At(u, 0)] # NULL
        BY <1>3, <4>1 DEF SndOK, u
      <4> QED
        BY <2>5, <2>6, <2>7, <3>1, <3>3, <4>2
    <3> QED
      BY <3>2, <3>3
  <2>10. SndOK(t)
    BY <2>6, <2>8, <2>9 DEF SndOK
  <2> QED
    BY <2>3, <2>10
<1> QED
  BY <1>4, <1>5

-----------------------------------------------------------------------------
(* Acknowledgements and timeouts *)

\* The cumulative ACK: the window starts with the first packet still there.
LEMMA AdvanceWindowOK ==
    ASSUME NEW s, SndOK(s), NEW n \in 0 .. s.cwp
    PROVE  SndOK(AdvanceWindow(s, n))
<1> DEFINE x     == s.seq_nr
           c     == s.cwp
           acked == Acked(s, n)
           out   == [q \in SeqNrs |-> IF q \in acked THEN NULL ELSE s.outbuf[q]]
           K     == {0} \cup {j \in 1 .. c - n : out[Wrap(x - j)] # NULL}
           left  == Max(K)
           next  == IF WrappingLess(s.fast_resend, At(s, n)) THEN At(s, n) ELSE s.fast_resend
           t     == [s EXCEPT !.outbuf = out, !.cwp = left, !.fast_resend = next]
<1>0. AdvanceWindow(s, n) = t
  BY DEF AdvanceWindow
<1>1. /\ s \in Sends /\ x \in Int /\ c \in Nat /\ c <= OUT_MAX /\ n \in Nat /\ n <= c
      /\ \A i \in Int : At(s, i) \in SeqNrs
  BY AtType, MtuAssumption DEF SndOK, Sends
<1>2. left \in K /\ \A y \in K : y <= left
  <2>1. K \in SUBSET (0 .. c) /\ K # {}
    BY <1>1
  <2> HIDE DEF K
  <2> QED
    BY <1>1, <2>1, MaxInBounds
<1> HIDE DEF left
<1>3. left \in 0 .. OUT_MAX
  BY <1>1, <1>2, MtuAssumption
<1>4. next \in SeqNrs
  BY <1>1 DEF Sends
<1>5. /\ out \in [SeqNrs -> OutPackets \cup {NULL}]
      /\ \A q \in SeqNrs : out[q] = IF q \in acked THEN NULL ELSE s.outbuf[q]
  BY <1>1 DEF Sends
<1> HIDE DEF out, acked, next
<1>6. t \in Sends /\ t.outbuf = out /\ t.seq_nr = x /\ t.cwp = left
  BY <1>1, <1>3, <1>4, <1>5 DEF Sends
<1> HIDE DEF t
<1>7. ASSUME NEW q \in SeqNrs, out[q] # NULL PROVE q \in Window(t)
  <2>1. q \notin acked /\ s.outbuf[q] # NULL
    BY <1>5, <1>7
  <2>2. PICK i \in 0 .. c - 1 : q = At(s, i)
    BY <2>1 DEF SndOK, Window
  <2>3. ~(i \in 0 .. n - 1)
    BY <2>1, <2>2 DEF acked, Acked
  <2> DEFINE j == c - i
  <2>4. j \in 1 .. c - n /\ x - j = x - c + i
    BY <1>1, <2>2, <2>3
  <2>5. q = Wrap(x - j)
    BY <2>2, <2>4 DEF At
  <2> HIDE DEF j
  <2>6. j \in K
    BY <1>7, <2>4, <2>5
  <2> DEFINE k == left - j
  <2>7. k \in 0 .. left - 1 /\ x - left + k = x - j
    BY <1>1, <1>2, <1>3, <2>4, <2>6
  <2> HIDE DEF k
  <2>8. At(t, k) = Wrap(x - j)
    BY <1>6, <2>7 DEF At
  <2> QED
    BY <1>6, <2>5, <2>7, <2>8 DEF Window
<1>8. left > 0 => out[Wrap(x - left)] # NULL
  BY <1>2
<1>9. t.cwp > 0 => t.outbuf[At(t, 0)] # NULL
  <2>1. x - left + 0 = x - left
    BY <1>1, <1>3
  <2>2. At(t, 0) = Wrap(x - left)
    BY <1>6, <2>1 DEF At
  <2> QED
    BY <1>6, <1>8, <2>2
<1> QED
  BY <1>0, <1>6, <1>7, <1>9 DEF SndOK

\* process_acks and advance_send_window.
LEMMA AckCumulativeOK ==
    ASSUME NEW f, StateOK(f), NEW n \in 0 .. f.snd.cwp
    PROVE  Follows(f, AckCumulative(f, n))
<1> DEFINE s     == f.snd
           t     == AdvanceWindow(s, n)
           probe == \E q \in Acked(s, n) : Sent(s, q) /\ IsProbe(f.mtu, q)
           m     == IF probe THEN HandleProbeAck(f.mtu, f.mtu.probe_seq) ELSE f.mtu
           g     == [f EXCEPT !.mtu = m, !.snd = t]
           last  == Wrap(t.seq_nr - 1)
<1>1. SndOK(s) /\ MtuOK(f.mtu)
  BY DEF StateOK
<1>2. SndOK(t)
  <2>1. n \in 0 .. s.cwp
    OBVIOUS
  <2> HIDE DEF s
  <2> QED
    BY <1>1, <2>1, AdvanceWindowOK
<1>3. MtuOK(m) /\ Narrows(f.mtu, m)
  BY <1>1, ProbeAckOK, NarrowsReflexive
<1>4. AckCumulative(f, n) = IF t.cwp = 1 /\ ~t.outbuf[last].sent
                            THEN SendPacket(g, last) ELSE g
  BY DEF AckCumulative
<1> HIDE DEF m, t
<1>5. StateOK(g) /\ g.mtu = m /\ g.snd = t
  <2>1. g = Replace(f, m, t)
    BY DEF Replace
  <2> HIDE DEF g
  <2> QED
    BY <1>2, <1>3, <2>1, ReplaceOK
<1>6. last \in SeqNrs /\ (t.cwp = 1 => t.outbuf[last] # NULL)
  <2>1. t.seq_nr \in Int /\ last \in SeqNrs
    BY <1>2, AtType DEF SndOK
  <2>2. t.cwp = 1 => At(t, 0) = last
    BY <2>1 DEF At
  <2> QED
    BY <1>2, <2>1, <2>2 DEF SndOK
<1> HIDE DEF last
<1>7. Follows(f, g)
  BY <1>3, <1>5 DEF Follows
<1>8. CASE t.cwp = 1 /\ ~t.outbuf[last].sent
  <2> DEFINE h == SendPacket(g, last)
  <2>1. g.snd.outbuf[last] # NULL
    BY <1>5, <1>6, <1>8
  <2> HIDE DEF g
  <2>2. StateOK(h) /\ Keeps(g, h)
    BY <1>5, <1>6, <2>1, SendPacketOK
  <2>3. AckCumulative(f, n) = h
    BY <1>4, <1>8 DEF g
  <2> HIDE DEF h
  <2>4. Follows(g, h)
    BY <2>2, KeepsFollows
  <2> QED
    BY <1>7, <2>3, <2>4, FollowsTransitive
<1>9. CASE ~(t.cwp = 1 /\ ~t.outbuf[last].sent)
  <2>1. AckCumulative(f, n) = g
    BY <1>4, <1>9
  <2> QED
    BY <1>7, <2>1
<1> QED
  BY <1>8, <1>9

\* The same for the window alone.
WithWindow(f, s) == [f EXCEPT !.snd = s]

LEMMA WithWindowOK ==
    ASSUME NEW f, StateOK(f), NEW s, SndOK(s)
    PROVE  LET g == WithWindow(f, s)
           IN  StateOK(g) /\ g.mtu = f.mtu /\ g.snd = s /\ Follows(f, g)
<1> DEFINE g == WithWindow(f, s)
<1>1. /\ g.mtu = f.mtu /\ g.snd = s /\ g.too_big = f.too_big
      /\ DOMAIN g = DOMAIN f /\ g = [k \in DOMAIN g |-> g[k]]
  BY DEF StateOK, WithWindow
<1> HIDE DEF g
<1>2. StateOK(g)
  BY <1>1 DEF StateOK
<1>3. Narrows(f.mtu, g.mtu)
  BY <1>1, NarrowsReflexive DEF StateOK
<1> QED
  BY <1>1, <1>2, <1>3 DEF g, Follows

LEMMA CountDupType == ASSUME NEW n \in Nat PROVE CountDup(n) \in 0 .. DUP_ACKS + 1
<1> DEFINE d == DUP_ACKS + 1
<1>1. d \in Nat /\ d \in Int /\ n \in Int
  BY MtuAssumption
<1> HIDE DEF d
<1>2. Min({n, d}) = IF n <= d THEN n ELSE d
  BY <1>1, MinOfTwo
<1>3. CountDup(n) = Min({n, d})
  BY DEF CountDup, d
<1>4. CountDup(n) \in 0 .. d
  BY <1>1, <1>2, <1>3
<1> QED
  BY <1>4 DEF d

\* The counter of duplicate ACKs is no part of the window.
LEMMA DupOK ==
    ASSUME NEW s, SndOK(s), NEW d \in 0 .. DUP_ACKS + 1
    PROVE  SndOK([s EXCEPT !.dup = d])
<1> DEFINE t == [s EXCEPT !.dup = d]
<1>1. t \in Sends /\ t.seq_nr = s.seq_nr /\ t.cwp = s.cwp /\ t.outbuf = s.outbuf
  BY DEF SndOK, Sends
<1> HIDE DEF t
<1>2. SndOK(t)
  BY <1>1, SameWindowOK
<1> QED
  BY <1>2 DEF t

\* The packets behind the first one are other packets than the first.
LEMMA HeadIsFirst ==
    ASSUME NEW s \in Sends, NEW i \in 1 .. s.cwp - 1
    PROVE  At(s, i) # At(s, 0)
<1> DEFINE a == s.seq_nr - s.cwp + i
           b == s.seq_nr - s.cwp + 0
<1>1. a \in Int /\ b \in Int /\ a - b < SEQ_MOD /\ b - a < SEQ_MOD /\ a # b
  BY AtType, SeqModAssumption
<1>2. At(s, i) = Wrap(a) /\ At(s, 0) = Wrap(b)
  BY DEF At
<1> HIDE DEF a, b
<1> QED
  BY <1>1, <1>2, WrapInjective

\* selective_ack: the packet the peer waits for stays.
LEMMA SelectiveAckOK ==
    ASSUME NEW f, StateOK(f), NEW next \in SeqNrs, NEW sack
    PROVE  Follows(f, SelectiveAck(f, next, sack))
<1> DEFINE s       == f.snd
           counted == {i \in 1 .. s.cwp - 1 : At(s, i) \in sack}
           Above(i) == Cardinality({j \in counted : j > i})
           Near(q) == Wrap(q - s.fast_resend) <= OUT_MAX
           out     == [q \in SeqNrs |->
                         IF \E i \in counted : q = At(s, i) /\ Sent(s, q) THEN NULL
                         ELSE s.outbuf[q]]
           lost    == {i \in (1 .. s.cwp - 1) \ counted :
                         Sent(s, At(s, i)) /\ Near(At(s, i)) /\ Above(i) >= DUP_ACKS}
           first   == IF Near(next) /\ Cardinality(counted) >= DUP_ACKS /\ out[next] # NULL
                      THEN {0} ELSE {}
           go      == Foremost(first \cup lost, 4)
           seq     == [i \in 1 .. s.cwp |-> IF i - 1 \notin go THEN NULL
                                            ELSE IF i = 1 THEN next ELSE At(s, i - 1)]
           n       == s.cwp
           t       == [s EXCEPT !.outbuf = out]
           g       == WithWindow(f, t)
           h       == FoldLeft(ResendLost, g, seq)
           d       == CountDup(Cardinality(counted))
<1>1. SndOK(s) /\ s \in Sends
  BY DEF StateOK, SndOK
<1>2. n \in Nat /\ \A i \in Int : At(s, i) \in SeqNrs
  BY <1>1, AtType
<1>3. d \in 0 .. DUP_ACKS + 1
  <2>1. IsFiniteSet(1 .. n - 1) /\ counted \in SUBSET (1 .. n - 1)
    <3> DEFINE k == n - 1
    <3>1. 1 \in Int /\ k \in Int
      BY <1>2
    <3> HIDE DEF k
    <3>2. IsFiniteSet(1 .. k)
      BY <3>1, FS_Interval
    <3> QED
      BY <3>2 DEF k
  <2>2. Cardinality(counted) \in Nat
    BY <2>1, FS_Subset, FS_CardinalityType
  <2> HIDE DEF counted
  <2> QED
    BY <2>2, CountDupType
<1>4. CASE s.cwp = 0
  <2>1. SelectiveAck(f, next, sack) = f
    BY <1>4 DEF SelectiveAck
  <2> QED
    BY <2>1, NarrowsReflexive DEF Follows, StateOK
<1>5. CASE s.cwp # 0
  <2>1. SelectiveAck(f, next, sack) = [h EXCEPT !.snd.dup = d]
    BY <1>5 DEF SelectiveAck, WithWindow
  <2>2. \A i \in 1 .. n : seq[i] # NULL => seq[i] \in SeqNrs
    <3> SUFFICES ASSUME NEW i \in 1 .. n, seq[i] # NULL PROVE seq[i] \in SeqNrs
      OBVIOUS
    <3>1. seq[i] = next \/ seq[i] = At(s, i - 1)
      OBVIOUS
    <3>2. i - 1 \in Int
      OBVIOUS
    <3> HIDE DEF seq
    <3> QED
      BY <1>2, <3>1, <3>2
  <2>3. DOMAIN seq = 1 .. n
    OBVIOUS
  <2> HIDE DEF d, seq
  <2>4. /\ out \in [SeqNrs -> OutPackets \cup {NULL}]
        /\ \A q \in SeqNrs : s.outbuf[q] = NULL => out[q] = NULL
    BY <1>1 DEF Sends
  <2>5. out[At(s, 0)] = s.outbuf[At(s, 0)]
    <3>1. At(s, 0) \in SeqNrs
      BY <1>2
    <3>2. \A i \in counted : At(s, 0) # At(s, i)
      BY <1>1, HeadIsFirst
    <3> HIDE DEF counted
    <3> QED
      BY <3>1, <3>2
  <2> HIDE DEF out
  <2>6. t \in Sends /\ t.outbuf = out /\ t.seq_nr = s.seq_nr /\ t.cwp = s.cwp
    BY <1>1, <2>4 DEF Sends
  <2> HIDE DEF t
  <2>7. Window(t) = Window(s) /\ At(t, 0) = At(s, 0)
    BY <2>6 DEF Window, At
  <2>8. SndOK(t)
    BY <1>1, <2>4, <2>5, <2>6, <2>7 DEF SndOK
  <2>9. StateOK(g) /\ Follows(f, g)
    BY <2>8, WithWindowOK
  <2> HIDE DEF g, n
  <2>10. LoopState(g, h)
    BY <1>2, <2>2, <2>3, <2>9, ResendLoopOK
  <2> HIDE DEF h
  <2>11. StateOK(h) /\ Follows(g, h)
    BY <2>10, KeepsFollows DEF LoopState
  <2> DEFINE v == [h.snd EXCEPT !.dup = d]
             w == WithWindow(h, v)
  <2>12. SndOK(v)
    <3> DEFINE a == h.snd
    <3>1. SndOK(a)
      BY <2>11 DEF StateOK
    <3> HIDE DEF a
    <3>2. SndOK([a EXCEPT !.dup = d])
      BY <1>3, <3>1, DupOK DEF d
    <3> QED
      BY <3>2 DEF a
  <2>13. SelectiveAck(f, next, sack) = w
    BY <2>1 DEF WithWindow
  <2> HIDE DEF v
  <2>14. Follows(h, w)
    BY <2>11, <2>12, WithWindowOK
  <2> HIDE DEF w
  <2>15. Follows(g, w)
    BY <2>9, <2>11, <2>14, FollowsTransitive
  <2>16. Follows(f, w)
    BY <2>9, <2>15, FollowsTransitive
  <2> QED
    BY <2>13, <2>16
<1> QED
  BY <1>4, <1>5

LEMMA DuplicateAckOK ==
    ASSUME NEW f, StateOK(f)
    PROVE  /\ Follows(f, DuplicateAck(f))
           /\ DuplicateAck(f).snd.cwp = f.snd.cwp
<1> DEFINE s   == f.snd
           dup == CountDup(s.dup + 1)
           m   == IF dup # DUP_ACKS \/ f.mtu.probe_seq = 0 THEN f.mtu
                  ELSE IF At(s, 0) = f.mtu.probe_seq THEN ProbeTooLong(f.mtu)
                  ELSE ClearProbe(f.mtu)
           t   == [s EXCEPT !.dup = dup]
           g   == Replace(f, m, t)
<1>1. SndOK(s) /\ MtuOK(f.mtu) /\ s \in Sends
  BY DEF StateOK, SndOK
<1>2. dup \in 0 .. DUP_ACKS + 1
  <2> DEFINE k == s.dup + 1
  <2>1. k \in Nat
    BY <1>1, MtuAssumption DEF Sends
  <2> HIDE DEF k
  <2>2. CountDup(k) \in 0 .. DUP_ACKS + 1
    BY <2>1, CountDupType
  <2> QED
    BY <2>2 DEF k
<1>3. MtuOK(m) /\ Narrows(f.mtu, m)
  <2>1. CASE dup # DUP_ACKS \/ f.mtu.probe_seq = 0
    BY <1>1, <2>1, NarrowsReflexive
  <2>2. CASE ~(dup # DUP_ACKS \/ f.mtu.probe_seq = 0)
    <3>1. m = ProbeTooLong(f.mtu) \/ m = ClearProbe(f.mtu)
      BY <2>2
    <3>2. f.mtu.probe_seq # 0
      BY <2>2
    <3> HIDE DEF m
    <3> QED
      BY <1>1, <3>1, <3>2, ProbeTooLongOK, ClearProbeOK
  <2> QED
    BY <2>1, <2>2
<1>4. DuplicateAck(f) = g
  BY DEF DuplicateAck, Replace
<1> HIDE DEF m, dup
<1>5. SndOK(t) /\ t.cwp = s.cwp
  <2>1. t.cwp = s.cwp
    BY <1>1 DEF Sends
  <2> HIDE DEF s
  <2>2. SndOK([s EXCEPT !.dup = dup])
    BY <1>1, <1>2, DupOK
  <2> QED
    BY <2>1, <2>2
<1> HIDE DEF t
<1>6. StateOK(g) /\ g.mtu = m /\ g.snd = t
  BY <1>1, <1>3, <1>5, ReplaceOK
<1> HIDE DEF g
<1> QED
  BY <1>3, <1>4, <1>5, <1>6 DEF Follows

\* process_incoming.
LEMMA ProcessAckOK ==
    ASSUME NEW f, StateOK(f), NEW state
    PROVE  Follows(f, ProcessAck(f, state))
<1> DEFINE s    == f.snd
           K    == {k \in 0 .. s.cwp : \A i \in 0 .. k - 1 : At(s, i) \in f.arrived}
           n    == Max(K)
           sack == f.arrived \ {At(s, i) : i \in 0 .. n - 1}
           t    == [s EXCEPT !.dup = 0]
           e    == WithWindow(f, t)
           d    == IF s.cwp = 0 THEN f ELSE IF n = 0 /\ state THEN DuplicateAck(f) ELSE e
           a    == AckCumulative(d, n)
           b    == SelectiveAck(a, At(s, n), sack)
<1>1. SndOK(s) /\ s \in Sends /\ s.cwp \in Nat /\ \A i \in Int : At(s, i) \in SeqNrs
  BY AtType DEF StateOK, SndOK
<1>2. n \in 0 .. s.cwp
  <2>1. K \in SUBSET (0 .. s.cwp)
    OBVIOUS
  <2>2. 0 \in K
    BY <1>1
  <2> HIDE DEF K
  <2>3. n \in K
    BY <1>1, <2>1, <2>2, MaxInBounds
  <2> QED
    BY <2>1, <2>3
<1>3. ProcessAck(f, state) = IF state /\ sack # {} THEN b ELSE a
  BY DEF ProcessAck, WithWindow
<1>4. At(s, n) \in SeqNrs
  BY <1>1, <1>2
<1> HIDE DEF n, sack
<1>5. Follows(f, e) /\ e.snd.cwp = s.cwp
  <2>1. t.cwp = s.cwp
    BY <1>1 DEF Sends
  <2>2. SndOK(t)
    <3>1. 0 \in 0 .. DUP_ACKS + 1
      BY MtuAssumption
    <3> DEFINE z == 0
    <3>2. z \in 0 .. DUP_ACKS + 1
      BY <3>1
    <3> HIDE DEF s, z
    <3>3. SndOK([s EXCEPT !.dup = z])
      BY <1>1, <3>2, DupOK
    <3> QED
      BY <3>3 DEF z
  <2> HIDE DEF t
  <2>3. e.snd = t /\ Follows(f, e)
    BY <2>2, WithWindowOK
  <2> QED
    BY <2>1, <2>3
<1> HIDE DEF e
<1>6. Follows(f, d) /\ d.snd.cwp = s.cwp
  <2>1. CASE s.cwp = 0
    BY <2>1, NarrowsReflexive DEF Follows, StateOK
  <2>2. CASE s.cwp # 0 /\ n = 0 /\ state
    BY <2>2, DuplicateAckOK
  <2>3. CASE s.cwp # 0 /\ ~(n = 0 /\ state)
    BY <1>5, <2>3
  <2> QED
    BY <2>1, <2>2, <2>3
<1> HIDE DEF d
<1>7. Follows(d, a)
  <2>1. StateOK(d) /\ n \in 0 .. d.snd.cwp
    BY <1>2, <1>6 DEF Follows
  <2> QED
    BY <2>1, AckCumulativeOK
<1>8. Follows(f, a)
  BY <1>6, <1>7, FollowsTransitive
<1> HIDE DEF a
<1>9. Follows(a, b)
  <2> DEFINE next == At(s, n)
  <2>1. next \in SeqNrs /\ StateOK(a)
    BY <1>4, <1>8 DEF Follows
  <2> HIDE DEF next
  <2>2. Follows(a, SelectiveAck(a, next, sack))
    BY <2>1, SelectiveAckOK
  <2> QED
    BY <2>2 DEF next
<1> HIDE DEF b
<1>10. Follows(f, b)
  BY <1>8, <1>9, FollowsTransitive
<1> QED
  BY <1>3, <1>8, <1>10

\* The RTO branch of check_timeouts.
LEMMA RetransmitTimeoutOK ==
    ASSUME NEW f, StateOK(f)
    PROVE  Follows(f, RetransmitTimeout(f))
<1> DEFINE s      == f.snd
           last   == Wrap(s.seq_nr - 1)
           ignore == s.cwp = 1 /\ IsProbe(f.mtu, last)
           marked == [q \in SeqNrs |-> IF Sent(s, q)
                                       THEN [s.outbuf[q] EXCEPT !.need_resend = TRUE]
                                       ELSE s.outbuf[q]]
           dup    == IF ignore THEN s.dup ELSE 0
           m      == HandleProbeTimeout(f.mtu, last, s.cwp)
           t      == [s EXCEPT !.outbuf = marked, !.dup = dup]
           g      == Replace(f, m, t)
<1>1. SndOK(s) /\ MtuOK(f.mtu) /\ s \in Sends /\ At(s, 0) \in SeqNrs /\ s.cwp \in Nat
  BY AtType DEF StateOK, SndOK
<1>2. MtuOK(m) /\ Narrows(f.mtu, m)
  BY <1>1, ProbeTimeoutOK
<1>3. dup \in 0 .. DUP_ACKS + 1
  BY <1>1, MtuAssumption DEF Sends
<1>4. ASSUME NEW q \in SeqNrs
      PROVE  /\ marked[q] \in OutPackets \cup {NULL}
             /\ marked[q] = NULL <=> s.outbuf[q] = NULL
  <2>1. s.outbuf[q] \in OutPackets \cup {NULL}
    BY <1>1 DEF Sends
  <2>2. CASE ~Sent(s, q)
    BY <2>1, <2>2
  <2>3. CASE Sent(s, q)
    <3> DEFINE p == s.outbuf[q]
               r == [p EXCEPT !.need_resend = TRUE]
    <3>1. p \in OutPackets
      BY <2>1, <2>3 DEF Sent
    <3>2. r \in OutPackets
      BY <3>1 DEF OutPackets
    <3>3. marked[q] = r
      BY <2>3
    <3> HIDE DEF r, p, marked
    <3> QED
      BY <3>1, <3>2, <3>3, MtuAssumption DEF p
  <2> QED
    BY <2>2, <2>3
<1>5. marked \in [SeqNrs -> OutPackets \cup {NULL}]
  BY <1>4
<1>6. RetransmitTimeout(f) = IF s.cwp = 0 THEN g ELSE SendPacket(g, At(s, 0))
  BY DEF RetransmitTimeout, Replace
<1> HIDE DEF marked, dup, m
<1>7. t \in Sends /\ t.outbuf = marked /\ t.seq_nr = s.seq_nr /\ t.cwp = s.cwp
  BY <1>1, <1>3, <1>5 DEF Sends
<1> HIDE DEF t
<1>8. SndOK(t)
  BY <1>1, <1>4, <1>7, SameWindowOK
<1>9. StateOK(g) /\ g.mtu = m /\ g.snd = t
  BY <1>2, <1>8, ReplaceOK
<1> HIDE DEF g
<1>10. Follows(f, g)
  BY <1>2, <1>9 DEF Follows
<1>11. CASE s.cwp = 0
  BY <1>6, <1>10, <1>11
<1>12. CASE s.cwp # 0
  <2> DEFINE q == At(s, 0)
             h == SendPacket(g, q)
  <2>1. g.snd.outbuf[q] # NULL
    BY <1>1, <1>4, <1>7, <1>9, <1>12 DEF SndOK
  <2>2. RetransmitTimeout(f) = h
    BY <1>6, <1>12
  <2> HIDE DEF q
  <2>3. q \in SeqNrs
    BY <1>1 DEF q
  <2>4. StateOK(h) /\ Keeps(g, h)
    BY <1>9, <2>1, <2>3, SendPacketOK
  <2> HIDE DEF h
  <2>5. Follows(g, h)
    BY <2>4, KeepsFollows
  <2> QED
    BY <1>10, <2>2, <2>5, FollowsTransitive
<1> QED
  BY <1>11, <1>12

-----------------------------------------------------------------------------
(* The inductive invariant *)

\* The interval is in order and holds the probe; the window is as the search
\* relies on.
MtuInv ==
  /\ MtuOK(mtu) /\ SndOK(snd)
  /\ arrived \subseteq Window(snd) /\ too_big \in BOOLEAN

LEMMA StateIsOK == ASSUME MtuInv, NEW through PROVE StateOK(State(through))
BY DEF MtuInv, StateOK, State

\* What IntervalNarrows says of a step.
NoWider == ~mtu.due => mtu'.floor >= mtu.floor /\ mtu'.ceiling <= mtu.ceiling

\* What a call leaves behind.
LEMMA CommitOK ==
    ASSUME MtuInv, NEW f, StateOK(f), Narrows(mtu, f.mtu), Commit(f)
    PROVE  MtuInv' /\ NoWider
BY DEF MtuInv, StateOK, Commit, Window, At, MtuOK, SndOK, Narrows, NoWider

\* A step that does not touch the window.
LEMMA SearchStepOK ==
    ASSUME MtuInv, MtuOK(mtu'), UNCHANGED <<snd, arrived, too_big>>
    PROVE  MtuInv'
BY DEF MtuInv, MtuOK, SndOK, Window, At

LEMMA InitMtu == MtuInit => MtuInv
<1> SUFFICES ASSUME MtuInit PROVE MtuInv
  OBVIOUS
<1>1. MtuOK(mtu)
  BY MtuAssumption, SeqModAssumption DEF MtuInit, MtuOK, Searches, Sizes, SeqNrs
<1>2. PICK seq \in SeqNrs :
        snd = [seq_nr |-> seq, cwp |-> 0, outbuf |-> [q \in SeqNrs |-> NULL],
               fast_resend |-> seq, dup |-> 0]
  BY DEF MtuInit
<1>3. 0 \in 0 .. OUT_MAX /\ 0 \in 0 .. DUP_ACKS + 1
  BY MtuAssumption
<1>4. snd \in Sends
  BY <1>2, <1>3 DEF Sends
<1>5. SndOK(snd)
  BY <1>2, <1>4 DEF SndOK
<1> QED
  BY <1>1, <1>5 DEF MtuInv, MtuInit

\* Every step keeps the invariant and narrows the interval.
LEMMA StepMtu ==
    ASSUME NextHopMtu = FALSE, MtuInv, [MtuNext]_mtuVars
    PROVE  MtuInv' /\ NoWider
<1>1. ASSUME NEW through, Write(through)
      PROVE  MtuInv' /\ NoWider
  <2> DEFINE f == State(through)
  <2>1. PICK k \in WriteSizes, room \in 0 .. OUT_MAX - 1 :
          LET n == Min({k, PacketSize(mtu)})
          IN  Commit(FlushPackets([f EXCEPT !.snd = Queue(f.snd, n, PacketSize(mtu))], room))
    BY <1>1 DEF Write
  <2> DEFINE size == PacketSize(mtu)
             n == Min({k, size})
             s == Queue(snd, n, size)
             g == WithWindow(f, s)
             h == FlushPackets(g, room)
  <2>2. size \in Nat
    BY MtuAssumption DEF PacketSize, MtuInv, MtuOK, Searches, Sizes
  <2>3. n \in Nat
    <3>1. k \in Nat /\ k \in Int
      BY MtuAssumption
    <3> HIDE DEF size
    <3>2. size \in Int
      BY <2>2
    <3>3. Min({k, size}) = IF k <= size THEN k ELSE size
      BY <3>1, <3>2, MinOfTwo
    <3> QED
      BY <2>2, <3>1, <3>3
  <2>4. snd.cwp < OUT_MAX /\ SndOK(snd)
    BY <1>1, MtuAssumption DEF Write, MtuInv, SndOK, Sends
  <2>5. StateOK(f) /\ f.snd = snd /\ f.mtu = mtu
    BY StateIsOK DEF State
  <2>6. Commit(h)
    BY <2>1, <2>5 DEF WithWindow
  <2> HIDE DEF size, n, f
  <2>7. SndOK(s)
    BY <2>2, <2>3, <2>4, QueueOK
  <2> HIDE DEF s
  <2>8. StateOK(g) /\ Follows(f, g)
    BY <2>5, <2>7, WithWindowOK
  <2> HIDE DEF g
  <2>9. StateOK(h) /\ Keeps(g, h)
    BY <2>8, FlushPacketsOK
  <2> HIDE DEF h
  <2>10. Follows(f, h)
    BY <2>5, <2>8, <2>9, KeepsFollows, FollowsTransitive
  <2> QED
    BY <2>5, <2>6, <2>10, CommitOK DEF Follows
<1>2. ASSUME NEW through, AckArrives(through)
      PROVE  MtuInv' /\ NoWider
  <2> DEFINE f == State(through)
  <2>1. PICK state \in BOOLEAN : Commit(ProcessAck(f, state))
    BY <1>2 DEF AckArrives
  <2> DEFINE h == ProcessAck(f, state)
  <2>2. StateOK(f) /\ f.mtu = mtu
    BY StateIsOK DEF State
  <2> HIDE DEF f
  <2>3. Follows(f, h)
    BY <2>2, ProcessAckOK
  <2>4. Commit(h)
    BY <2>1
  <2> HIDE DEF h
  <2> QED
    BY <2>2, <2>3, <2>4, CommitOK DEF Follows
<1>3. ASSUME NEW through, CheckTimeouts(through)
      PROVE  MtuInv' /\ NoWider
  <2> DEFINE f == State(through)
  <2>1. PICK room \in 0 .. OUT_MAX - 1, expired \in BOOLEAN :
          LET g == FlushPackets(f, room)
          IN  Commit(IF expired THEN RetransmitTimeout(g) ELSE g)
    BY <1>3 DEF CheckTimeouts
  <2> DEFINE g == FlushPackets(f, room)
             t == RetransmitTimeout(g)
             h == IF expired THEN t ELSE g
  <2>2. StateOK(f) /\ f.mtu = mtu
    BY StateIsOK DEF State
  <2>3. Commit(h)
    BY <2>1
  <2> HIDE DEF f
  <2>4. StateOK(g) /\ Keeps(f, g)
    BY <2>2, FlushPacketsOK
  <2> HIDE DEF g
  <2>5. Follows(f, g) /\ Follows(g, t)
    BY <2>4, KeepsFollows, RetransmitTimeoutOK
  <2> HIDE DEF t
  <2>6. Follows(f, t)
    BY <2>2, <2>5, FollowsTransitive
  <2>7. Follows(f, h)
    BY <2>5, <2>6
  <2> HIDE DEF h
  <2> QED
    BY <2>2, <2>3, <2>7, CommitOK DEF Follows
<1>4. CASE IcmpFragmentation
  <2>1. mtu' = OnIcmpFragmentation(mtu, 0) /\ UNCHANGED <<snd, arrived, too_big>>
    BY <1>4 DEF IcmpFragmentation
  <2>2. MtuOK(mtu') /\ Narrows(mtu, mtu')
    BY <2>1, IcmpUnknownOK DEF MtuInv
  <2> QED
    BY <2>1, <2>2, SearchStepOK DEF Narrows, NoWider
<1>5. CASE DiscoverTimePasses
  <2>1. mtu' = [mtu EXCEPT !.due = TRUE] /\ UNCHANGED <<snd, arrived, too_big>>
    BY <1>5 DEF DiscoverTimePasses
  <2>2. /\ mtu' \in Searches /\ mtu'.floor = mtu.floor /\ mtu'.ceiling = mtu.ceiling
        /\ mtu'.last = mtu.last /\ mtu'.probe_seq = mtu.probe_seq
        /\ mtu'.probe_size = mtu.probe_size
    BY <2>1 DEF MtuInv, MtuOK, Searches
  <2>3. MtuOK(mtu')
    BY <2>2 DEF MtuInv, MtuOK
  <2>4. NoWider
    BY <2>2, MtuAssumption DEF NoWider, MtuInv, MtuOK, Searches, Sizes
  <2> QED
    BY <2>1, <2>3, <2>4, SearchStepOK
<1>6. CASE UNCHANGED mtuVars
  <2>1. MtuOK(mtu) /\ mtu' = mtu
    BY <1>6 DEF mtuVars, MtuInv
  <2>2. MtuOK(mtu') /\ NoWider
    BY <2>1, MtuAssumption DEF NoWider, MtuOK, Searches, Sizes
  <2> QED
    BY <1>6, <2>2, SearchStepOK DEF mtuVars
<1> QED
  BY <1>1, <1>2, <1>3, <1>4, <1>5, <1>6 DEF MtuNext

\* The inductive invariant holds in every reachable state as long as no router
\* reports the MTU of the next hop.
THEOREM MtuIsConsistent ==
    ASSUME NextHopMtu = FALSE
    PROVE  MtuSpec => []MtuInv
<1>1. MtuInv /\ [MtuNext]_mtuVars => MtuInv'
  BY StepMtu
<1> QED
  BY <1>1, InitMtu, PTL DEF MtuSpec

\* The assertion of reset and search_update: floor <= ceiling, with the packet
\* size in use between them, and every size within what get_udp_mtu allows.
THEOREM SearchStaysInOrder ==
    ASSUME NextHopMtu = FALSE
    PROVE  MtuSpec => []SearchInterval
<1>1. MtuInv => SearchInterval
  <2> SUFFICES ASSUME MtuInv PROVE SearchInterval
    OBVIOUS
  <2>1. MtuTypeOK
    BY DEF MtuInv, MtuOK, SndOK, Searches, Sizes, Sends, MtuTypeOK
  <2> QED
    BY <2>1 DEF SearchInterval, MtuInv, MtuOK
<1> QED
  BY <1>1, MtuIsConsistent, PTL

\* The assertions of send_packet: the probe on its way lies above the floor and
\* not above the ceiling.
THEOREM ProbeIsUseful ==
    ASSUME NextHopMtu = FALSE
    PROVE  MtuSpec => []ProbeInRange
<1>1. MtuInv => ProbeInRange
  BY DEF MtuInv, MtuOK, ProbeInRange
<1> QED
  BY <1>1, MtuIsConsistent, PTL

\* Neither an ACK, nor a timeout, nor an ICMP message widens the interval.
THEOREM SearchConverges ==
    ASSUME NextHopMtu = FALSE
    PROVE  MtuSpec => IntervalNarrows
<1>1. MtuInv /\ [MtuNext]_mtuVars
        => [~mtu.due => mtu'.floor >= mtu.floor /\ mtu'.ceiling <= mtu.ceiling]_mtuVars
  BY StepMtu DEF NoWider
<1> QED
  BY <1>1, MtuIsConsistent, PTL DEF MtuSpec, IntervalNarrows
=============================================================================
