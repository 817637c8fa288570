-------------------------------- MODULE SeqNr --------------------------------
(***************************************************************************)
(* Sequence-number arithmetic of the protocol.  seq_nr, ack_nr and eof_pkt *)
(* are uint16 in the code and every difference is reduced with             *)
(* SEQ_NR_MASK / ACK_NR_MASK; SEQ_MOD stands for SEQ_NR_MASK + 1.          *)
(***************************************************************************)
EXTENDS Integers

CONSTANTS SEQ_MOD,
          NULL      \* the empty slot of a buffer indexed by sequence numbers

ASSUME SeqModAssumption == SEQ_MOD \in Nat /\ SEQ_MOD > 1

SeqNrs == 0 .. SEQ_MOD - 1

\* x & SEQ_NR_MASK, and the implicit truncation of a uint16 assignment
Wrap(n) == n % SEQ_MOD

\* wrapping_compare_less(lhs, rhs, mask): rhs is reached sooner going up
WrappingLess(lhs, rhs) == Wrap(rhs - lhs) < Wrap(lhs - rhs)
=============================================================================
