------------------------------- MODULE Stream -------------------------------
(***************************************************************************)
(* What the Rio functions of lab10/csapp.c promise their caller, as the    *)
(* proxy uses them: a read is answered with the next bytes that have       *)
(* arrived, as many as asked for, or a whole line, or what there is before *)
(* the end; a write passes on all it is given.  When the connection fails, *)
(* a read is answered with nothing, and what it had is lost; of a write    *)
(* the beginning is passed on.                                             *)
(***************************************************************************)
EXTENDS Naturals, Sequences

CONSTANTS
  Chars,     \* the characters on the connection
  Newline,   \* the one that ends a line
  Requests   \* what a caller may ask: records of an op, a size and a text

VARIABLES
  arrived,  \* all that the other end has sent so far
  ended,    \* whether it has ended
  passed,   \* all that was written so far
  pos,      \* how much of what arrived was given to the caller, or lost
  request,  \* what the caller waits for
  answer    \* what it was given last

vars == <<arrived, ended, passed, pos, request, answer>>

Nothing == [op |-> "none", size |-> 0, text |-> <<>>]
Answer(text) == [ret |-> Len(text), text |-> text]

Init ==
  /\ arrived = <<>> /\ ended = FALSE /\ passed = <<>> /\ pos = 0
  /\ request = Nothing
  /\ answer = Answer(<<>>)

Arrive(x) ==
  /\ ~ended
  /\ arrived' = Append(arrived, x)
  /\ UNCHANGED <<ended, passed, pos, request, answer>>

End ==
  /\ ended' = TRUE
  /\ UNCHANGED <<arrived, passed, pos, request, answer>>

Ask(r) ==
  /\ request = Nothing
  /\ request' = r
  /\ answer' = Answer(<<>>)
  /\ UNCHANGED <<arrived, ended, passed, pos>>

\* The next m bytes are as many as were asked for, or the last before the end.
AllBytes(m) ==
  /\ request.op = "bytes"
  /\ \/ m = request.size
     \/ m < request.size /\ ended /\ pos + m = Len(arrived)

\* The next m bytes are a line, or as much of one as there is or has room; a
\* NUL has to follow them.
Line(m) ==
  /\ request.op = "line"
  /\ m < request.size
  /\ \A i \in 1 .. m - 1 : arrived[pos + i] # Newline
  /\ \/ m > 0 /\ arrived[pos + m] = Newline
     \/ m = request.size - 1
     \/ ended /\ pos + m = Len(arrived)

Give ==
  \E m \in 0 .. Len(arrived) :
    /\ pos + m <= Len(arrived)
    /\ AllBytes(m) \/ Line(m)
    /\ answer' = Answer(SubSeq(arrived, pos + 1, pos + m))
    /\ pos' = pos + m
    /\ request' = Nothing
    /\ UNCHANGED <<arrived, ended, passed>>

\* The caller is not told a failure from the end.
FailToRead ==
  /\ request.op \in {"bytes", "line"}
  /\ pos' \in pos .. Len(arrived)
  /\ answer' = Answer(<<>>)
  /\ request' = Nothing
  /\ UNCHANGED <<arrived, ended, passed>>

Pass ==
  /\ request.op = "write"
  /\ passed' = passed \o request.text
  /\ request' = Nothing
  /\ UNCHANGED <<arrived, ended, pos, answer>>

FailToPass ==
  /\ request.op = "write"
  /\ \E k \in 0 .. Len(request.text) :
       passed' = passed \o SubSeq(request.text, 1, k)
  /\ request' = Nothing
  /\ UNCHANGED <<arrived, ended, pos, answer>>

Next ==
  \/ \E x \in Chars : Arrive(x)
  \/ End
  \/ \E r \in Requests : Ask(r)
  \/ Give \/ FailToRead
  \/ Pass \/ FailToPass

Spec == Init /\ [][Next]_vars
=============================================================================
