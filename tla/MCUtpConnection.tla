--------------------------- MODULE MCUtpConnection ---------------------------
(* Values of the structured constants for the runs of UtpConnection.        *)
EXTENDS UtpConnection

CONSTANTS IsnA, IsnB, MaxA, MaxB

MCISN == [n \in Nodes |-> IF n = "A" THEN IsnA ELSE IsnB]
MCMaxWrite == [n \in Nodes |-> IF n = "A" THEN MaxA ELSE MaxB]

CloseTimers == {<<"A", "rto">>, <<"A", "probe">>, <<"A", "rst">>}
RtoBoth == Nodes \X {"rto"}
TransferTimers == {<<"A", "rto">>, <<"B", "idle">>}
ZeroTimers == {<<"A", "rto">>, <<"A", "zero">>}
=============================================================================
