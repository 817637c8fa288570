------------------------------- MODULE UvNode -------------------------------
(***************************************************************************)
(* UtpUvNode of the chat example (common/utp_uv.cpp): the operations an    *)
(* application calls on a connection, as functions of one end of it:       *)
(*                                                                         *)
(*   conn   its Connection, NULL when it is not in conns_                  *)
(*   sock   the state of its uTP socket                                    *)
(*   pipe   the units it has written that its peer has not been given      *)
(*   due    the frames write() took that its peer has not been handed (a   *)
(*          history)                                                       *)
(*                                                                         *)
(* The uTP library below is external here: a socket is "syn" until it is   *)
(* connected, "up", "full" when a write was cut short, "fin" once closed,  *)
(* "end" when it only waits to be deleted and "dead" after DESTROYING.     *)
(***************************************************************************)
EXTENDS FrameParser, SequencesExt

CONSTANTS NULL, SNDBUF      \* SNDBUF: units a socket takes before it is full

\* Connection, as adopt() makes it
NewConnection(id) ==
  [id |-> id, connected |-> FALSE, closing |-> FALSE, unconsumed |-> 0,
   outq |-> << >>, out_off |-> 0, name |-> NULL, parser |-> NewParser]

NewEnd(conn, sock) ==
  [conn |-> conn, sock |-> sock, pipe |-> << >>, due |-> << >>]

\* utp_write of so many units: how many it takes
Accepted(x, want) ==
  LET room == SNDBUF - Len(x.pipe)
  IN  IF x.sock # "up" THEN 0 ELSE IF room < want THEN room ELSE want

\* n more units of the front frame are written; it is popped when complete
Popped(c, n) ==
  IF c.out_off + n = Size(Head(c.outq)) THEN [c EXCEPT !.outq = Tail(@), !.out_off = 0]
  ELSE [c EXCEPT !.out_off = @ + n]

\* Mutant: a frame that was cut short starts again
UnsentFromStart(f, off, n) == SubSeq(Encode(f), 1, n)

\* The next n units of a frame that out_off units are written of
Unsent(f, off, n) == SubSeq(Encode(f), off + 1, off + n)

\* One round of flush's loop
FlushFront(x) ==
  LET front == Head(x.conn.outq)
      off   == x.conn.out_off
      want  == Size(front) - off
      n     == Accepted(x, want)
  IN  [x EXCEPT !.conn = IF n > 0 THEN Popped(@, n) ELSE @,
                !.pipe = @ \o Unsent(front, off, n),
                !.sock = IF @ = "up" /\ n < want THEN "full" ELSE @]

\* flush
RECURSIVE Flush(_)
Flush(x) ==
  IF ~x.conn.connected \/ x.conn.outq = << >> \/ x.sock # "up" THEN x
  ELSE CHOOSE done \in {Flush(y) : y \in {FlushFront(x)}} : TRUE

\* write
Write(x, f) ==
  IF x.conn = NULL \/ x.conn.closing THEN x
  ELSE Flush([x EXCEPT !.conn.outq = Append(@, f), !.due = Append(@, f)])

\* The peer was handed these frames: they must be the next ones
Handed(due, frames) ==
  IF IsPrefix(frames, due) THEN SubSeq(due, Len(frames) + 1, Len(due)) ELSE << Corrupt >>

\* The end of a stream
FIN == [frame |-> NULL, at |-> 0]

\* close; a socket that is not connected yet goes without a FIN.  The frames still
\* queued and a frame half parsed are never looked at again: they are forgotten
\* here
Close(x) ==
  LET open == x.sock \in {"up", "full"}
  IN  IF x.conn = NULL \/ x.conn.closing THEN x
      ELSE [x EXCEPT !.conn = [@ EXCEPT !.closing = TRUE, !.outq = << >>, !.out_off = 0,
                                        !.parser = NewParser],
                     !.sock = IF open THEN "fin" ELSE "end",
                     !.pipe = IF open THEN Append(@, FIN) ELSE @]

\* Mutant: the bytes are given back only while the connection is open
ConsumedWhileOpen(c, bytes) ==
  IF c.closing THEN c ELSE [c EXCEPT !.unconsumed = @ - bytes]

\* consumed, for the connection it finds
Consumed(c, bytes) == [c EXCEPT !.unconsumed = @ - bytes]
==============================================================================
