----------------------------- MODULE FrameParser -----------------------------
(***************************************************************************)
(* The framing of the chat example (common/protocol.h).  A frame is a      *)
(* record with its type, what it says and the size of its body; on the     *)
(* stream it is HEADER units followed by one unit per unit of body.  The   *)
(* stream may be cut anywhere, so a unit names its frame and its place.    *)
(***************************************************************************)
EXTENDS Naturals, Sequences

CONSTANTS HEADER,      \* units of the length field and the type
          MAX_BODY     \* the largest body kMaxFrame allows

ASSUME FrameAssumption == HEADER \in Nat \ {0} /\ MAX_BODY \in Nat

Size(f) == HEADER + f.body

\* encode
Encode(f) == [k \in 1 .. Size(f) |-> [frame |-> f, at |-> k]]

\* A parser that has seen nothing
NewParser == [buf |-> << >>, broken |-> FALSE]

Corrupt == [type |-> "corrupt", who |-> "", no |-> 0, body |-> 0]

\* The length field is out of range.  Units that do not start a frame read as
\* a length field are out of range too.
OverLimit(n) == n > MAX_BODY

\* next: the parser after it, with the frame it returns, if any, in a sequence
Next1(p) ==
  LET head == p.buf[1]
      n    == IF head.at = 1 THEN head.frame.body ELSE MAX_BODY + 1
      size == HEADER + n
      none == [parser |-> p, frames |-> << >>]
  IN  IF p.broken \/ Len(p.buf) < HEADER THEN none
      ELSE IF OverLimit(n)
           THEN [parser |-> [buf |-> << >>, broken |-> TRUE], frames |-> << >>]
      ELSE IF Len(p.buf) < size THEN none
      ELSE [parser |-> [p EXCEPT !.buf = SubSeq(@, size + 1, Len(@))],
            frames |-> << IF SubSeq(p.buf, 1, size) = Encode(head.frame)
                          THEN head.frame ELSE Corrupt >>]

\* The loop while (auto f = parser.next()): every whole frame that is there
RECURSIVE NextAll(_)
NextAll(p) ==
  LET one == Next1(p)
  IN  IF one.frames = << >> THEN one
      ELSE LET more == NextAll(one.parser)
           IN  [more EXCEPT !.frames = one.frames \o @]

\* feed
Feed(p, units) == [p EXCEPT !.buf = @ \o units]
==============================================================================
