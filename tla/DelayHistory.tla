---------------------------- MODULE DelayHistory ----------------------------
(***************************************************************************)
(* utp::DelayHistory: the one-way delay samples of one direction.  Samples *)
(* are differences of two unsynchronised 32-bit microsecond clocks, so     *)
(* only their differences mean anything and every comparison wraps.  The   *)
(* history keeps the smallest sample of each of the last                   *)
(* DELAY_BASE_HISTORY slots, their minimum delay_base (the propagation     *)
(* delay plus the clocks' offset) and the last CUR_DELAY_SIZE samples      *)
(* relative to it (the queuing delay).                                     *)
(***************************************************************************)
EXTENDS Integers

CONSTANTS TS_MOD,              \* TIMESTAMP_MASK + 1
          CUR_DELAY_SIZE,      \* kCurDelaySize
          DELAY_BASE_HISTORY,  \* kDelayBaseHistory
          BASE_SLOT            \* length of a slot: 60 s

ASSUME DelayHistoryAssumption ==
    /\ TS_MOD \in Nat /\ TS_MOD > 1
    /\ CUR_DELAY_SIZE \in Nat \ {0}
    /\ DELAY_BASE_HISTORY \in Nat \ {0}
    /\ BASE_SLOT \in Nat

Stamps == 0 .. TS_MOD - 1
CurSlots == 0 .. CUR_DELAY_SIZE - 1
BaseSlots == 0 .. DELAY_BASE_HISTORY - 1

DelayHistories ==
    [delay_base : Stamps,
     cur_delay_hist : [CurSlots -> Stamps],
     cur_delay_idx : CurSlots,
     delay_base_hist : [BaseSlots -> Stamps],
     delay_base_idx : BaseSlots,
     delay_base_time : Nat,
     delay_base_initialized : BOOLEAN]

\* wrapping_compare_less(lhs, rhs, kTimestampMask)
WrappingCompareLess(lhs, rhs) == (rhs - lhs) % TS_MOD < (lhs - rhs) % TS_MOD

Earlier(a, b) == IF WrappingCompareLess(a, b) THEN a ELSE b

Clear(now) ==
    [delay_base |-> 0,
     cur_delay_hist |-> [i \in CurSlots |-> 0],
     cur_delay_idx |-> 0,
     delay_base_hist |-> [i \in BaseSlots |-> 0],
     delay_base_idx |-> 0,
     delay_base_time |-> now,
     delay_base_initialized |-> FALSE]

Shift(h, offset) ==
    [h EXCEPT !.delay_base_hist = [i \in BaseSlots |-> (@[i] + offset) % TS_MOD],
              !.delay_base = (@ + offset) % TS_MOD]

\* The first sample ever stands for every slot.
Initialized(h, sample) ==
    IF h.delay_base_initialized THEN h
    ELSE [h EXCEPT !.delay_base_hist = [i \in BaseSlots |-> sample],
                   !.delay_base = sample,
                   !.delay_base_initialized = TRUE]

\* Mutant: the delay is taken against the baseline before the update.
RecordedAgainstOldBase(h, sample) ==
    [h EXCEPT
       !.delay_base_hist[h.delay_base_idx] = Earlier(sample, @),
       !.delay_base = Earlier(sample, @),
       !.cur_delay_hist[h.cur_delay_idx] = (sample - h.delay_base) % TS_MOD,
       !.cur_delay_idx = (@ + 1) % CUR_DELAY_SIZE]

\* The sample enters the current slot, the baseline and the recent delays.
Recorded(h, sample) ==
    LET base == Earlier(sample, h.delay_base)
    IN  [h EXCEPT
           !.delay_base_hist[h.delay_base_idx] = Earlier(sample, @),
           !.delay_base = base,
           !.cur_delay_hist[h.cur_delay_idx] = (sample - base) % TS_MOD,
           !.cur_delay_idx = (@ + 1) % CUR_DELAY_SIZE]

\* The loop that recomputes delay_base, from slot 0 upwards.
EarliestOf(hist) ==
    LET upTo[i \in BaseSlots] ==
            IF i = 0 THEN hist[0] ELSE Earlier(hist[i], upTo[i - 1])
    IN  upTo[DELAY_BASE_HISTORY - 1]

\* Does this sample open a new slot?
SlotOver(h, now) == now - h.delay_base_time > BASE_SLOT

\* Mutant: the baseline outlives the slot its sample was in.
RotatedKeepsBase(h, sample, now) ==
    LET idx == (h.delay_base_idx + 1) % DELAY_BASE_HISTORY
    IN  IF SlotOver(h, now)
        THEN [h EXCEPT !.delay_base_time = now,
                       !.delay_base_idx = idx,
                       !.delay_base_hist[idx] = sample]
        ELSE h

\* Once per slot the oldest slot is reused and the baseline recomputed.
Rotated(h, sample, now) ==
    LET idx == (h.delay_base_idx + 1) % DELAY_BASE_HISTORY
        hist == [h.delay_base_hist EXCEPT ![idx] = sample]
    IN  IF SlotOver(h, now)
        THEN [h EXCEPT !.delay_base_time = now,
                       !.delay_base_idx = idx,
                       !.delay_base_hist = hist,
                       !.delay_base = EarliestOf(hist)]
        ELSE h

AddSample(h, sample, now) ==
    Rotated(Recorded(Initialized(h, sample), sample), sample, now)

\* get_value: the smallest of the recent delays, slots not yet used included
GetValue(h) ==
    CHOOSE v \in Stamps :
        /\ \E i \in CurSlots : h.cur_delay_hist[i] = v
        /\ \A i \in CurSlots : v <= h.cur_delay_hist[i]
=============================================================================
