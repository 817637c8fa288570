----------------------------- MODULE SequenceMap -----------------------------
(***************************************************************************)
(* What the users of SequenceBuffer rely on: a map from sequence numbers   *)
(* to packets.  A packet is put into an empty place, and only the packets  *)
(* that are asked for are taken out.                                       *)
(***************************************************************************)
CONSTANTS Keys, Packets, NULL

VARIABLE slots

Init == slots = [q \in Keys |-> NULL]

Put == \E q \in Keys, v \in Packets :
         slots[q] = NULL /\ slots' = [slots EXCEPT ![q] = v]

Take == /\ slots' \in [Keys -> Packets \cup {NULL}]
        /\ \A q \in Keys : slots'[q] \in {slots[q], NULL}

Spec == Init /\ [][Put \/ Take]_slots
=============================================================================
