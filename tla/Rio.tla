--------------------------------- MODULE Rio ---------------------------------
(***************************************************************************)
(* The Rio functions of lab10/csapp.c on one descriptor, and the wrappers  *)
(* of lab10/proxy.c, which turn a failure into a count of 0.  A step is    *)
(* one read or write of the kernel, or the copying from the buffer: what   *)
(* arrives, the end of the other side, signals and failures may come       *)
(* between any two.  A call that a signal interrupts and that keeps no     *)
(* trace of it (in rio_readn and rio_writen) is no step.                   *)
(*                                                                         *)
(* A caller uses a descriptor through its rio_t or without one, not both:  *)
(* rio_readn does not look into the buffer.                                *)
(***************************************************************************)
EXTENDS Integers, Sequences

CONSTANTS
  Chars, Newline,
  RIO_BUFSIZE,
  Sizes,        \* the counts and line lengths that callers ask for
  Texts,        \* what they write
  MaxArrived,   \* bound of the model: characters that arrive
  MaxWritten    \* bound of the model: characters to be written

ASSUME RioAssumption ==
  /\ RIO_BUFSIZE \in Nat \ {0}
  /\ Sizes \subseteq Nat
  /\ Texts \subseteq Seq(Chars)

VARIABLES
  arrived,      \* history: all that the other end has sent so far
  fetched,      \* how much of it the kernel has given out
  ended,        \* the other end has ended
  written,      \* history: what the kernel was given
  direct,       \* the caller uses no rio_t
  rio_buf, rio_bufptr, rio_cnt,
  call,         \* the function in progress, its arguments and locals
  reply         \* what the last wrapper returned, and what is in its buffer

stream == <<arrived, fetched, ended>>
rp == <<rio_buf, rio_bufptr, rio_cnt>>
rio_vars == <<stream, written, direct, rp, call, reply>>

NoCall == [op |-> "none", size |-> 0, usrbuf |-> <<>>, nleft |-> 0, n |-> 1]
NoReply == [ret |-> 0, text |-> <<>>]

\* rio_readinitb; the buffer is not initialised.
RioInit ==
  /\ arrived = <<>> /\ fetched = 0 /\ ended = FALSE /\ written = <<>>
  /\ direct \in BOOLEAN
  /\ rio_buf \in [1 .. RIO_BUFSIZE -> Chars] /\ rio_bufptr = 1 /\ rio_cnt = 0
  /\ call = NoCall /\ reply = NoReply

-----------------------------------------------------------------------------
Buffered == {"readnb", "readlineb"}

AskToRead(op, size) ==
  /\ call = NoCall
  /\ op = "readn" <=> direct
  /\ op = "readlineb" => size > 0
  /\ call' = [NoCall EXCEPT !.op = op, !.size = size, !.nleft = size]
  /\ reply' = NoReply
  /\ UNCHANGED <<stream, written, direct, rp>>

AskToWrite(text) ==
  /\ call = NoCall
  /\ Len(written) + Len(text) <= MaxWritten
  /\ call' = [NoCall EXCEPT !.op = "writen", !.size = Len(text), !.usrbuf = text,
                            !.nleft = Len(text)]
  /\ reply' = NoReply
  /\ UNCHANGED <<stream, written, direct, rp>>

\* The condition of the function's loop.
More == IF call.op = "readlineb" THEN call.n < call.size ELSE call.nleft > 0

\* Rio_readn_w, Rio_readnb_w, Rio_readlineb_w: what the caller gets.
Return(rc, text) ==
  /\ call' = NoCall
  /\ reply' = IF rc < 0 THEN NoReply ELSE [ret |-> rc, text |-> text]

\* Mutant: the count of a line that ends early includes one too many.
CountLine(c) == IF c.op = "readlineb" THEN c.n ELSE c.size - c.nleft

\* The count a read returns when its loop is done, or at the end of the file.
Count(c) == IF c.op = "readlineb" THEN c.n - 1 ELSE c.size - c.nleft

-----------------------------------------------------------------------------
(***************************************************************************)
(* read.                                                                   *)
(***************************************************************************)
\* The function is about to call read.
Asking == /\ More
          /\ call.op = "readn" \/ (call.op \in Buffered /\ rio_cnt <= 0)

Ready(k) == fetched + k <= Len(arrived)

rio_readn(k) ==
  /\ call.op = "readn" /\ k <= call.nleft /\ Ready(k)
  /\ fetched' = fetched + k
  /\ call' = [call EXCEPT !.usrbuf = @ \o SubSeq(arrived, fetched + 1, fetched + k),
                          !.nleft = @ - k]
  /\ UNCHANGED <<arrived, ended, written, direct, rp, reply>>

Refill(k) ==
  /\ call.op \in Buffered /\ Asking /\ Ready(k)
  /\ fetched' = fetched + k
  /\ rio_buf' = [i \in 1 .. RIO_BUFSIZE |-> IF i <= k THEN arrived[fetched + i] ELSE rio_buf[i]]
  /\ rio_cnt' = k /\ rio_bufptr' = 1
  /\ UNCHANGED <<arrived, ended, written, direct, call, reply>>

\* Mutant: the end is taken for an interruption.
ReadEndRepeats ==
  /\ Asking /\ ended /\ fetched = Len(arrived)
  /\ rio_cnt' = IF call.op = "readn" THEN rio_cnt ELSE 0
  /\ UNCHANGED <<stream, written, direct, rio_buf, rio_bufptr, call, reply>>

ReadEnd ==
  /\ Asking /\ ended /\ fetched = Len(arrived)
  /\ rio_cnt' = IF call.op = "readn" THEN rio_cnt ELSE 0
  /\ Return(Count(call), call.usrbuf)
  /\ UNCHANGED <<stream, written, direct, rio_buf, rio_bufptr>>

\* EINTR, in rio_read: rio_cnt is -1 when read is called again.
ReadInterrupted ==
  /\ Asking /\ call.op \in Buffered
  /\ rio_cnt' = -1
  /\ UNCHANGED <<stream, written, direct, rio_buf, rio_bufptr, call, reply>>

\* A connection that is reset loses what was not read.
ReadFails ==
  /\ Asking
  /\ fetched' \in {fetched, Len(arrived)}
  /\ rio_cnt' = IF call.op = "readn" THEN rio_cnt ELSE -1
  /\ Return(-1, call.usrbuf)
  /\ UNCHANGED <<arrived, ended, written, direct, rio_buf, rio_bufptr>>

-----------------------------------------------------------------------------
(***************************************************************************)
(* Copying from the buffer.                                                *)
(***************************************************************************)
CopyBytes ==
  /\ call.op = "readnb" /\ More /\ rio_cnt > 0
  /\ LET cnt == IF rio_cnt < call.nleft THEN rio_cnt ELSE call.nleft
     IN /\ call' = [call EXCEPT
                     !.usrbuf = @ \o SubSeq(rio_buf, rio_bufptr, rio_bufptr + cnt - 1),
                     !.nleft = @ - cnt]
        /\ rio_bufptr' = rio_bufptr + cnt
        /\ rio_cnt' = rio_cnt - cnt
  /\ UNCHANGED <<stream, written, direct, rio_buf, reply>>

CopyChar ==
  /\ call.op = "readlineb" /\ More /\ rio_cnt > 0
  /\ LET c == rio_buf[rio_bufptr]
         next == [call EXCEPT !.usrbuf = Append(@, c), !.n = @ + 1]
     IN IF c = Newline THEN Return(Count(next), next.usrbuf)
        ELSE call' = next /\ UNCHANGED reply
  /\ rio_bufptr' = rio_bufptr + 1
  /\ rio_cnt' = rio_cnt - 1
  /\ UNCHANGED <<stream, written, direct, rio_buf>>

ReadDone ==
  /\ call.op \in Buffered \union {"readn"} /\ ~More
  /\ Return(Count(call), call.usrbuf)
  /\ UNCHANGED <<stream, written, direct, rp>>

-----------------------------------------------------------------------------
(***************************************************************************)
(* rio_writen and Rio_writen_w, which returns nothing.                     *)
(***************************************************************************)
Done == call.size - call.nleft

WriteSome(k) ==
  /\ call.op = "writen" /\ k <= call.nleft
  /\ written' = written \o SubSeq(call.usrbuf, Done + 1, Done + k)
  /\ call' = [call EXCEPT !.nleft = @ - k]
  /\ UNCHANGED <<stream, direct, rp, reply>>

WriteFails ==
  /\ call.op = "writen" /\ More
  /\ call' = NoCall
  /\ UNCHANGED <<stream, written, direct, rp, reply>>

WriteDone ==
  /\ call.op = "writen" /\ ~More
  /\ call' = NoCall
  /\ UNCHANGED <<stream, written, direct, rp, reply>>

-----------------------------------------------------------------------------
(***************************************************************************)
(* The other end.                                                          *)
(***************************************************************************)
Sends(x) ==
  /\ ~ended /\ Len(arrived) < MaxArrived
  /\ arrived' = Append(arrived, x)
  /\ UNCHANGED <<fetched, ended, written, direct, rp, call, reply>>

Hangs ==
  /\ ~ended /\ ended' = TRUE
  /\ UNCHANGED <<arrived, fetched, written, direct, rp, call, reply>>

-----------------------------------------------------------------------------
Asks ==
  \/ \E op \in Buffered \union {"readn"}, size \in Sizes : AskToRead(op, size)
  \/ \E text \in Texts : AskToWrite(text)

Proceeds ==
  \/ \E k \in 1 .. call.nleft : rio_readn(k) \/ WriteSome(k)
  \/ \E k \in 1 .. RIO_BUFSIZE : Refill(k)
  \/ ReadEnd \/ CopyBytes \/ CopyChar \/ ReadDone \/ WriteDone

RioNext ==
  \/ Asks
  \/ Proceeds
  \/ ReadInterrupted \/ ReadFails \/ WriteFails
  \/ (\E x \in Chars : Sends(x)) \/ Hangs

RioSpec == RioInit /\ [][RioNext]_rio_vars

\* The function runs, and the other end does not wait for ever.
RioFairSpec == RioSpec /\ WF_rio_vars(Proceeds) /\ WF_rio_vars(Hangs)

-----------------------------------------------------------------------------
(***************************************************************************)
(* Properties.                                                             *)
(***************************************************************************)
\* Types; the unread part of the buffer is in the buffer; a read leaves room in
\* the caller's, for the NUL of a line too.
RioTypeOK ==
  /\ arrived \in Seq(Chars) /\ fetched \in 0 .. Len(arrived) /\ ended \in BOOLEAN
  /\ written \in Seq(Chars) /\ direct \in BOOLEAN
  /\ rio_buf \in [1 .. RIO_BUFSIZE -> Chars]
  /\ rio_bufptr \in 1 .. RIO_BUFSIZE + 1
  /\ rio_cnt \in -1 .. RIO_BUFSIZE + 1 - rio_bufptr
  /\ call \in [op : Buffered \union {"none", "readn", "writen"}, size : Nat,
               usrbuf : Seq(Chars), nleft : Nat, n : Nat]
  /\ call.op \in {"readn", "readnb"} => Len(call.usrbuf) + call.nleft = call.size
  /\ call.op = "readlineb" => Len(call.usrbuf) + 1 <= call.size

\* What a caller of the wrappers sees is a stream: reads give what arrived, in
\* order, nothing twice, as much as was asked for unless the other end has
\* ended, and nothing is lost but by a call that fails; writes pass on all.
\* Short reads and writes, interrupted ones and the buffer between show nowhere.
kindOf ==
  CASE call.op \in {"readn", "readnb"} -> "bytes"
    [] call.op = "readlineb" -> "line"
    [] call.op = "writen" -> "write"
    [] OTHER -> "none"

InHand == IF call.op = "writen" THEN 0 ELSE Len(call.usrbuf)
Waiting == IF rio_cnt > 0 THEN rio_cnt ELSE 0

Position == fetched - Waiting - InHand
Passed == SubSeq(written, 1, Len(written) - IF call.op = "writen" THEN Done ELSE 0)

Asked == [op |-> kindOf, size |-> call.size,
          text |-> IF call.op = "writen" THEN call.usrbuf ELSE <<>>]

Questions == [op : {"bytes"}, size : Sizes, text : {<<>>}]
             \union [op : {"line"}, size : Sizes \ {0}, text : {<<>>}]
             \union {[op |-> "write", size |-> Len(t), text |-> t] : t \in Texts}

Str == INSTANCE Stream WITH Requests <- Questions, request <- Asked, answer <- reply,
                            pos <- Position, passed <- Passed

IsStream == Str!Spec

\* Every call ends, whatever is interrupted, if the other end does not wait.
CallEnds == call # NoCall ~> call = NoCall
=============================================================================
