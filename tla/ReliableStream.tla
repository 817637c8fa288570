---------------------------- MODULE ReliableStream ----------------------------
(***************************************************************************)
(* What a connection promises to the two applications: a byte stream in    *)
(* each direction.  What one side has read is a prefix of what the other   *)
(* side has written, it only grows, nothing is written after the end of    *)
(* the stream, and the end is announced once, after everything before it.  *)
(* Position k of a stream is the number k.                                 *)
(***************************************************************************)
EXTENDS Naturals, Sequences

CONSTANTS Nodes, Peer(_)

VARIABLES written,  \* how much each side has written
          ended,    \* it writes no more
          read,     \* what each side has read
          deaf,     \* it wants to read no more
          eof       \* it was told that the stream has ended

vars == <<written, ended, read, deaf, eof>>

Init == /\ written = [n \in Nodes |-> 0]
        /\ ended = [n \in Nodes |-> FALSE]
        /\ read = [n \in Nodes |-> << >>]
        /\ deaf = [n \in Nodes |-> FALSE]
        /\ eof = [n \in Nodes |-> FALSE]

Write(n) == /\ ~ended[n]
            /\ written' \in [Nodes -> Nat]
            /\ written'[n] > written[n]
            /\ \A m \in Nodes \ {n} : written'[m] = written[m]
            /\ UNCHANGED <<ended, read, deaf, eof>>

\* One direction or both are shut down
Shutdown(n) == /\ ended' \in {ended, [ended EXCEPT ![n] = TRUE]}
               /\ deaf' \in {deaf, [deaf EXCEPT ![n] = TRUE]}
               /\ UNCHANGED <<written, read, eof>>

\* More of the stream, perhaps none, and perhaps its end
Read(n) ==
  \E k \in Len(read[n]) .. written[Peer(n)], e \in {eof[n], TRUE} :
    /\ k > Len(read[n]) => ~eof[n] /\ ~deaf[n]
    /\ (e /\ ~eof[n]) => ended[Peer(n)] /\ (deaf[n] \/ k = written[Peer(n)])
    /\ read' = [read EXCEPT ![n] = [i \in 1 .. k |-> i]]
    /\ eof' = [eof EXCEPT ![n] = e]
    /\ UNCHANGED <<written, ended, deaf>>

Next == \E n \in Nodes : Write(n) \/ Shutdown(n) \/ Read(n)

Spec == Init /\ [][Next]_vars
=============================================================================
