--------------------------- MODULE MCReceiveWindow ---------------------------
(* A sequence space of 8 and a reorder buffer of 3: the packets of a run go *)
(* around the space more than once, and the first wrap comes early.         *)
EXTENDS ReceiveWindow
=============================================================================
