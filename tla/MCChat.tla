------------------------------- MODULE MCChat -------------------------------
(* A small chat: which client holds which connections. *)
EXTENDS Chat

CONSTANTS c1, c2, l1, l2

MCConnIds == (c1 :> << l1 >>) @@ (c2 :> << l2 >>)

MCTyped == (c1 :> << 1 >>) @@ (c2 :> << 1, 1, 3 >>)
MCMayFail == { << l2, "server" >> }
=============================================================================
