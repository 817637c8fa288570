------------------------------- MODULE Ledbat -------------------------------
(***************************************************************************)
(* LedbatController and the part of UtpSocket::process_acks that feeds it: *)
(* the two delay histories, the congestion window with its slow start, the *)
(* round-trip estimate and the clock-drift estimate of one socket.         *)
(*                                                                         *)
(* An incoming packet is the action Receive (the delay samples and         *)
(* apply_ccontrol) followed by one AckPacket for each packet it newly      *)
(* acknowledges that was sent once (ack_packet -> update_rtt); nothing     *)
(* else happens in between.  What arrives is free: the peer's timestamps   *)
(* are whatever the network delivers.  doubles are exact fractions here;   *)
(* the conversion of a negative double to size_t is undefined in C++ and   *)
(* is a choice between wrapping (x86-64) and saturating at 0 (AArch64).    *)
(*                                                                         *)
(* Times count ticks of the context's clock; every duration is a constant. *)
(* rtt_hist feeds only the log and is left out.                            *)
(***************************************************************************)
EXTENDS DelayHistory, Sequences

CONSTANTS
    MIN_WINDOW_SIZE,        \* 10
    MAX_CWND_INCREASE,      \* MAX_CWND_INCREASE_BYTES_PER_RTT, 3000
    TARGET,                 \* conn_.target_delay, 100 ms
    SIZE_MAX,               \* what a wrapped size_t amounts to: more than any window
    SHIFT_LIMIT,            \* 10000 us: a larger step of their base is no drift
    DRIFT_LIMIT,            \* 200000 us per slot: drift beyond it is penalised
    DRIFT_WEIGHT,           \* 8: weight of the rolling average of the drift
    PENALTY_DIV,            \* 7
    AVERAGE_SLOT,           \* 5 s
    MAXED_OUT_AGE,          \* 1 s
    MAX_WINDOW_DECAY,       \* 100 ms
    MIN_RTO,                \* 1 s
    INITIAL_RTO,            \* 3 s
    INITIAL_RTT_VAR,        \* 800 ms
    MS,                     \* microseconds in a millisecond
    StartTime,              \* the clock when the socket is initialised
    Packets,                \* packets that may arrive, see PacketShape
    PacketSizes,            \* get_packet_size(), which follows the path MTU
    SndBufs,                \* values of opt_sndbuf
    MaxTime, MaxPackets     \* bounds of the instance

\* min_rtt of a packet that acknowledges nothing new: INT64_MAX
INFINITE == -1

\* What process_acks and ack_packet read of a packet: the delay it had
\* (their), the delay it reports (reply), the bytes it acknowledges, the
\* smallest round trip of the packets it acknowledges in microseconds, and
\* the round trips in milliseconds of those that were sent once.
PacketShape ==
    [their : Stamps, reply : Stamps, acked : Nat,
     min_rtt : Nat \cup {INFINITE}, ertts : Seq(Nat)]

\* The round trips of p are those of the packets it acknowledges (a clock
\* that did not advance counts as 50 ms in min_rtt and 0 in ertts).
Coherent(p) ==
    /\ p.min_rtt = INFINITE => p.acked = 0 /\ p.ertts = << >>
    /\ \A i \in DOMAIN p.ertts : p.ertts[i] = 0 \/ (p.ertts[i] + 1) * MS > p.min_rtt

ASSUME LedbatAssumption ==
    /\ TS_MOD > 3
    /\ MIN_WINDOW_SIZE \in Nat \ {0} /\ MAX_CWND_INCREASE \in Nat
    /\ TARGET \in Nat \ {0} /\ SIZE_MAX \in Nat
    /\ SHIFT_LIMIT \in Nat /\ DRIFT_LIMIT \in Nat
    /\ DRIFT_WEIGHT \in Nat \ {0} /\ PENALTY_DIV \in Nat \ {0}
    /\ AVERAGE_SLOT \in Nat /\ MAXED_OUT_AGE \in Nat
    /\ MAX_WINDOW_DECAY \in Nat /\ MS \in Nat \ {0}
    /\ MIN_RTO \in Nat /\ INITIAL_RTO \in Nat /\ INITIAL_RTT_VAR \in Nat
    /\ MIN_RTO <= INITIAL_RTO
    /\ StartTime \in Nat /\ MaxTime \in Nat /\ MaxPackets \in Nat
    /\ \A p \in Packets : p \in PacketShape /\ Coherent(p)
    /\ PacketSizes \subseteq Nat /\ PacketSizes # {}
    /\ SndBufs \subseteq Nat /\ SndBufs # {}
    /\ \A n \in PacketSizes \cup SndBufs : n >= MIN_WINDOW_SIZE

VARIABLES now,
          max_window, slow_start, ssthresh, opt_sndbuf,
          last_maxed_out_window, last_rwin_decay,
          our_hist, their_hist,
          average,        \* the 5-second averages and the drift: a record
          rtt, rtt_var, rto,
          pending,        \* round trips that ack_packet has yet to see
          packets,        \* packets received, for the bound MaxPackets
          our_delay,      \* what on_delay_sample reported in this step
          seen, sampled   \* history: the delay samples per slot, the round trips

windowVars == <<max_window, slow_start, ssthresh>>
clockVars == <<now, opt_sndbuf, last_maxed_out_window, last_rwin_decay>>
delayVars == <<our_hist, their_hist, average, seen>>
rttVars == <<rtt, rtt_var, rto, sampled>>
vars == <<windowVars, clockVars, delayVars, rttVars, pending, packets, our_delay>>

\* our_delay when on_delay_sample was not called in this step
None == -1

Smaller(a, b) == IF a <= b THEN a ELSE b
Larger(a, b) == IF a >= b THEN a ELSE b
Clamp(x, lo, hi) == IF x < lo THEN lo ELSE IF x > hi THEN hi ELSE x
Abs(n) == IF n < 0 THEN -n ELSE n

\* C's integer division, and the conversion of the fraction n/d to an integer
Trunc(n, d) == IF n >= 0 THEN n \div d ELSE -((-n) \div d)

-----------------------------------------------------------------------------
(* The congestion window *)

\* (size_t) of a double whose integer part is n
ToSize(n, wraps) == IF n >= 0 THEN n ELSE IF wraps THEN SIZE_MAX ELSE 0

\* max_window_ + (size_t)scaled_gain, in size_t arithmetic
SizeSum(window, gain, wraps) ==
    IF wraps THEN ToSize(window + gain, TRUE) ELSE window + ToSize(gain, FALSE)

\* min(our_hist.get_value(), min_rtt) and the penalty for a slow clock
OurDelay(hist, min_rtt, drift) ==
    LET delay == Smaller(GetValue(hist), min_rtt)
    IN  IF drift < -DRIFT_LIMIT
        THEN delay + ((-drift) - DRIFT_LIMIT) \div PENALTY_DIV
        ELSE delay

RateLimited == now - last_maxed_out_window > MAXED_OUT_AGE

\* scaled_gain is GainNum / GainDen
GainNum(acked, delay) ==
    LET gain == MAX_CWND_INCREASE * Smaller(acked, max_window) * (TARGET - delay)
    IN  IF gain > 0 /\ RateLimited THEN 0 ELSE gain
GainDen(acked) == Larger(max_window, acked) * TARGET

LedbatCwnd(acked, delay, wraps) ==
    LET num == GainNum(acked, delay)
        den == GainDen(acked)
    IN  IF SizeSum(max_window, Trunc(num, den), wraps) < MIN_WINDOW_SIZE
        THEN MIN_WINDOW_SIZE
        ELSE ToSize(Trunc(max_window * den + num, den), wraps)

SlowStartCwnd(acked, packet_size) ==
    max_window + (Smaller(acked, max_window) * packet_size) \div Larger(max_window, acked)

\* Mutant: only an enormous delay ends the slow start.
NearTargetUnscaled(delay) == delay > 9 * TARGET

\* our_delay > (int)(target * 0.9)
NearTarget(delay) == delay > (9 * TARGET) \div 10

\* Mutant: no clamp.
SetWindowUnclamped(w) == max_window' = w

\* the branch of apply_ccontrol on slow_start_, and the final clamp
SetWindow(w) == max_window' = Clamp(w, MIN_WINDOW_SIZE, opt_sndbuf)

ApplyCControl(acked, delay, packet_size, wraps) ==
    LET ledbat == LedbatCwnd(acked, delay, wraps)
        ss == SlowStartCwnd(acked, packet_size)
    IN  /\ our_delay' = delay
        /\ \/ /\ ~slow_start
              /\ SetWindow(ledbat)
              /\ UNCHANGED <<slow_start, ssthresh>>
           \/ /\ slow_start /\ ss > ssthresh
              /\ SetWindow(max_window)
              /\ slow_start' = FALSE
              /\ UNCHANGED ssthresh
           \/ /\ slow_start /\ ss <= ssthresh
              /\ NearTarget(delay)
              /\ SetWindow(max_window)
              /\ slow_start' = FALSE
              /\ ssthresh' = max_window
           \/ /\ slow_start /\ ss <= ssthresh
              /\ ~NearTarget(delay)
              /\ SetWindow(Larger(ss, ledbat))
              /\ UNCHANGED <<slow_start, ssthresh>>

-----------------------------------------------------------------------------
(* Delay averages and clock drift *)

Averages == [delay : Int, sum : Int, samples : Nat, base : Stamps,
             time : Nat, drift : Int, raw : Int]

\* the signed distance from the baseline to the sample
SignedDistance(base, sample) ==
    IF (base - sample) % TS_MOD > (sample - base) % TS_MOD
    THEN (sample - base) % TS_MOD
    ELSE -((base - sample) % TS_MOD)

\* Mutant: averages below the baseline are left there.
AdjustDownOnly(prev, delay) ==
    IF Smaller(prev, delay) > 0 THEN -Smaller(prev, delay) ELSE 0

\* Both averages are moved so that zero lies between them.
Adjust(prev, delay) ==
    IF Smaller(prev, delay) > 0 THEN -Smaller(prev, delay)
    ELSE IF Larger(prev, delay) < 0 THEN -Larger(prev, delay)
    ELSE 0

\* the end of a five-second slot
CloseSlot(a) ==
    LET delay == Trunc(a.sum, a.samples)
        adjust == Adjust(a.delay, delay)
    IN  [a EXCEPT !.delay = delay + adjust,
                  !.sum = 0,
                  !.samples = 0,
                  !.base = (@ - adjust) % TS_MOD,
                  !.time = @ + AVERAGE_SLOT,
                  !.raw = delay - a.delay,
                  !.drift = Trunc(@ * (DRIFT_WEIGHT - 1) + delay - a.delay, DRIFT_WEIGHT)]

\* A baseline of 0 stands for no baseline yet.
UpdateDelayAverage(a, sample) ==
    LET base == IF a.base = 0 THEN sample ELSE a.base
        b == [a EXCEPT !.base = base,
                       !.sum = @ + SignedDistance(base, sample),
                       !.samples = @ + 1]
    IN  IF now > a.time THEN CloseSlot(b) ELSE b

-----------------------------------------------------------------------------
(* Round trips *)

\* Mutant: the new sample's share is rounded up.
UpdateRttRoundedUp(ertt) ==
    LET delta == Abs(rtt - ertt)
        newRtt == IF rtt = 0 THEN ertt ELSE (rtt - rtt \div 8) + (ertt + 7) \div 8
        newVar == IF rtt = 0 THEN ertt \div 2
                             ELSE rtt_var + Trunc(delta - rtt_var, 4)
    IN  /\ rtt' = newRtt
        /\ rtt_var' = newVar
        /\ rto' = Larger(newRtt + 4 * newVar, MIN_RTO)
        /\ sampled' = sampled \cup {ertt}

UpdateRtt(ertt) ==
    LET delta == Abs(rtt - ertt)
        newRtt == IF rtt = 0 THEN ertt ELSE (rtt - rtt \div 8) + ertt \div 8
        newVar == IF rtt = 0 THEN ertt \div 2
                             ELSE rtt_var + Trunc(delta - rtt_var, 4)
    IN  /\ rtt' = newRtt
        /\ rtt_var' = newVar
        /\ rto' = Larger(newRtt + 4 * newVar, MIN_RTO)
        /\ sampled' = sampled \cup {ertt}

-----------------------------------------------------------------------------
(* The specification *)

\* UtpSocket's constructor and initialize()
Init ==
    /\ now = StartTime
    /\ opt_sndbuf \in SndBufs
    /\ max_window \in PacketSizes
    /\ slow_start = TRUE
    /\ ssthresh = opt_sndbuf
    /\ last_maxed_out_window = 0
    /\ last_rwin_decay = StartTime - MAX_WINDOW_DECAY
    /\ our_hist = Clear(StartTime)
    /\ their_hist = Clear(StartTime)
    /\ average = [delay |-> 0, sum |-> 0, samples |-> 0, base |-> 0,
                  time |-> StartTime + AVERAGE_SLOT, drift |-> 0, raw |-> 0]
    /\ rtt = 0 /\ rtt_var = INITIAL_RTT_VAR /\ rto = INITIAL_RTO
    /\ pending = << >> /\ packets = 0
    /\ our_delay = None
    /\ seen = [i \in BaseSlots |-> {}]
    /\ sampled = {}

Idle == pending = << >>

\* reply_micro of INT_MAX says that the peer has no measurement.
ActualDelay(reply) == IF reply = TS_MOD \div 2 - 1 THEN 0 ELSE reply

\* how far the peer's clock is seen to have moved against ours
TheirStep(after) ==
    LET step == (their_hist.delay_base - after.delay_base) % TS_MOD
    IN  IF /\ their_hist.delay_base # 0
           /\ WrappingCompareLess(after.delay_base, their_hist.delay_base)
           /\ step <= SHIFT_LIMIT
        THEN step ELSE 0

\* a queuing delay larger than a whole round trip is an error of the baseline
RttStep(hist, min_rtt) ==
    IF min_rtt # INFINITE /\ GetValue(hist) > min_rtt
    THEN GetValue(hist) - min_rtt ELSE 0

MoveSamples(s, offset) ==
    [i \in BaseSlots |-> {(x + offset) % TS_MOD : x \in s[i]}]

\* history: the samples each slot of hist stands for
NoteSample(s, hist, sample) ==
    LET first == IF hist.delay_base_initialized THEN s ELSE [i \in BaseSlots |-> {sample}]
        added == [first EXCEPT ![hist.delay_base_idx] = @ \cup {sample}]
    IN  IF SlotOver(hist, now)
        THEN [added EXCEPT ![(hist.delay_base_idx + 1) % DELAY_BASE_HISTORY] = {sample}]
        ELSE added

\* The delay part of process_acks: their sample, the drift it shows, our sample.
Histories(their, actual, min_rtt) ==
    LET theirs == IF their = 0 THEN their_hist ELSE AddSample(their_hist, their, now)
        drifted == Shift(our_hist, TheirStep(theirs))
        moved == MoveSamples(seen, TheirStep(theirs))
        ours == IF actual = 0 THEN drifted ELSE AddSample(drifted, actual, now)
        noted == IF actual = 0 THEN moved ELSE NoteSample(moved, drifted, actual)
    IN  /\ their_hist' = theirs
        /\ our_hist' = Shift(ours, RttStep(ours, min_rtt))
        /\ seen' = MoveSamples(noted, RttStep(ours, min_rtt))
        /\ average' = IF actual = 0 THEN average ELSE UpdateDelayAverage(average, actual)

\* An incoming packet, up to the calls of ack_packet.
Receive(p, packet_size, wraps) ==
    /\ Idle
    /\ packets < MaxPackets /\ packets' = packets + 1
    /\ Histories(p.their, ActualDelay(p.reply), p.min_rtt)
    /\ IF ActualDelay(p.reply) # 0 /\ p.acked >= 1
       THEN ApplyCControl(p.acked, OurDelay(our_hist', p.min_rtt, average'.drift),
                          packet_size, wraps)
       ELSE our_delay' = None /\ UNCHANGED windowVars
    /\ pending' = p.ertts
    /\ UNCHANGED <<clockVars, rttVars>>

\* ack_packet for a packet that was sent once
AckPacket ==
    /\ ~Idle
    /\ UpdateRtt(Head(pending))
    /\ pending' = Tail(pending)
    /\ our_delay' = None
    /\ UNCHANGED <<windowVars, clockVars, delayVars, packets>>

\* maybe_decay_win, after selective_ack decided to resend
MaybeDecayWin ==
    /\ Idle
    /\ now - last_rwin_decay >= MAX_WINDOW_DECAY
    /\ max_window' = Larger(max_window \div 2, MIN_WINDOW_SIZE)
    /\ last_rwin_decay' = now
    /\ slow_start' = FALSE
    /\ ssthresh' = max_window'
    /\ our_delay' = None
    /\ UNCHANGED <<now, opt_sndbuf, last_maxed_out_window, delayVars, rttVars, pending, packets>>

\* on_rto_timeout, with and without packets in flight
OnRtoTimeout(packet_size, inFlight) ==
    /\ Idle
    /\ IF ~inFlight /\ max_window > packet_size
       THEN /\ max_window' = Larger((max_window * 2) \div 3, packet_size)
            /\ UNCHANGED slow_start
       ELSE /\ max_window' = packet_size
            /\ slow_start' = TRUE
    /\ our_delay' = None
    /\ UNCHANGED <<ssthresh, clockVars, delayVars, rttVars, pending, packets>>

\* is_full found no room in the window
MarkWindowFull ==
    /\ Idle
    /\ last_maxed_out_window' = now
    /\ our_delay' = None
    /\ UNCHANGED <<now, opt_sndbuf, last_rwin_decay, windowVars, delayVars, rttVars, pending, packets>>

\* setsockopt(UTP_SNDBUF)
SetSndBuf(val) ==
    /\ Idle
    /\ opt_sndbuf' = val
    /\ our_delay' = None
    /\ UNCHANGED <<now, last_maxed_out_window, last_rwin_decay, windowVars, delayVars,
                   rttVars, pending, packets>>

Tick ==
    /\ Idle /\ now < MaxTime
    /\ now' = now + 1
    /\ our_delay' = None
    /\ UNCHANGED <<opt_sndbuf, last_maxed_out_window, last_rwin_decay, windowVars, delayVars,
                   rttVars, pending, packets>>

Next ==
    \/ \E p \in Packets, packet_size \in PacketSizes, wraps \in BOOLEAN :
          Receive(p, packet_size, wraps)
    \/ AckPacket
    \/ MaybeDecayWin
    \/ \E packet_size \in PacketSizes, inFlight \in BOOLEAN : OnRtoTimeout(packet_size, inFlight)
    \/ MarkWindowFull
    \/ \E val \in SndBufs : SetSndBuf(val)
    \/ Tick

Spec == Init /\ [][Next]_vars

-----------------------------------------------------------------------------
(* Properties *)

TypeOK ==
    /\ now \in Nat /\ opt_sndbuf \in SndBufs
    /\ max_window \in Nat /\ slow_start \in BOOLEAN /\ ssthresh \in Nat
    /\ last_maxed_out_window \in Nat /\ last_rwin_decay \in Int
    /\ our_hist \in DelayHistories /\ their_hist \in DelayHistories
    /\ average \in Averages
    /\ rtt \in Nat /\ rtt_var \in Nat /\ rto \in Nat
    /\ pending \in Seq(Nat) /\ packets \in Nat /\ our_delay \in Int
    /\ seen \in [BaseSlots -> SUBSET Stamps] /\ sampled \subseteq Nat

\* Whatever the delays, losses and timeouts, the congestion window stays
\* between MIN_WINDOW_SIZE and the largest of the send buffers and packets
\* (the clamp of apply_ccontrol, the floors of maybe_decay_win and
\* on_rto_timeout): the sender can always send again, and no arithmetic
\* lets it run away.
WindowBounds ==
    /\ MIN_WINDOW_SIZE <= max_window
    /\ \E limit \in SndBufs \cup PacketSizes : max_window <= limit

\* The queuing delays kept in cur_delay_hist are never negative: taken as a
\* signed difference each is at most half of the timestamp range, however
\* the samples wrap and the baseline is shifted (the assert of
\* apply_ccontrol that our_delay >= 0 rests on this).
QueuingDelayNotNegative ==
    \A h \in {our_hist, their_hist}, i \in CurSlots : 2 * h.cur_delay_hist[i] <= TS_MOD

\* delay_base is the smallest of all samples of the slots still in the
\* history, moved by the shifts since: add_sample's running minimum and the
\* recomputation at the start of a slot agree.  (Samples further apart than
\* half of the timestamp range have no smallest.)
BaseIsWindowMin ==
    our_hist.delay_base_initialized =>
        LET samples == UNION {seen[i] : i \in BaseSlots}
        IN  \A b \in samples :
              (\A x \in samples : 2 * ((x - b) % TS_MOD) < TS_MOD)
                  => our_hist.delay_base = b

\* The long-term average stays as close to its baseline as the last two
\* slots differ (the normalisation of update_delay_average), so the sums
\* never leave the range in which their difference is the drift.
AverageNearBase == Abs(average.delay) <= Abs(average.raw)

\* The smoothed round trip lies between the smallest and the largest round
\* trip measured, and the retransmission timeout between its floor and five
\* times the largest: no sequence of samples drives update_rtt's integer
\* EWMA out of what was measured.
RttWithinSamples ==
    /\ MIN_RTO <= rto
    /\ sampled # {} =>
          \E lo, hi \in sampled :
              /\ lo <= rtt /\ rtt <= hi
              /\ rto <= Larger(MIN_RTO, 5 * hi)

\* A packet that reports at least the target delay never lets the window
\* grow ("as for large negative numbers, this direction is already capped
\* at the min packet size further down", ledbat.cpp).
DelayNeverGrows ==
    [][our_delay' >= TARGET => max_window' <= max_window]_vars

\* The same where the whole decrease still fits into the window, that is,
\* where the conversions of apply_ccontrol are defined.
DelayNeverGrowsDefined ==
    [][(/\ our_delay' >= TARGET
        /\ MAX_CWND_INCREASE * (our_delay' - TARGET) <= max_window * TARGET)
          => max_window' <= max_window]_vars

=============================================================================
