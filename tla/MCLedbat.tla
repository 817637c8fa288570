------------------------------ MODULE MCLedbat ------------------------------
(***************************************************************************)
(* Incoming packets for Ledbat: timestamps on both sides of the wrap at    *)
(* 16, a peer clock that steps back by 2, queuing delays below and far     *)
(* above the target, packets with and without a measurement (7 is INT_MAX  *)
(* scaled), and short and long round trips.                                *)
(***************************************************************************)
EXTENDS Ledbat

Packet(their, reply, acked, min_rtt, ertts) ==
    [their |-> their, reply |-> reply, acked |-> acked,
     min_rtt |-> min_rtt, ertts |-> ertts]

MCPackets ==
    {Packet(3, 14, 3, 9, << >>),
     Packet(1, 4, 3, 9, <<9>>),
     Packet(0, 4, 9, 2, << >>),
     Packet(0, 1, 1, 9, << >>),
     Packet(0, 14, 3, 6, <<3, 0>>),
     Packet(0, 7, 3, 6, << >>),
     Packet(1, 1, 0, INFINITE, << >>)}
=============================================================================
