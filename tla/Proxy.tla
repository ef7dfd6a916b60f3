-------------------------------- MODULE Proxy --------------------------------
(***************************************************************************)
(* The HTTP proxy of lab10/proxy.c: main accepts connections and starts a  *)
(* detached thread doit for each; doit forwards one request to a server    *)
(* and its response back, and writes a line to a log file that the threads *)
(* share.  Clients and servers are at the other ends of the connections    *)
(* and may close them at any time.                                         *)
(*                                                                         *)
(* A message is a sequence of items: a first line, header lines (only      *)
(* Content-length matters), a blank line and the bytes of the body.  The   *)
(* size of every item is 1.  Reading an item and forwarding it is one      *)
(* step: nothing another thread or the receiving peer does in between      *)
(* could not as well come before it.  A read that fails returns 0 like one *)
(* at the end (Rio_readlineb_w, Rio_readnb_w), a write that fails is       *)
(* ignored (Rio_writen_w).                                                 *)
(***************************************************************************)
EXTENDS Integers, Sequences, SequencesExt, FiniteSetsExt

CONSTANTS
  Clients,   \* the connections to come, and the threads that serve them
  Cells,     \* the memory of client_item objects
  Nobody,    \* content of a fresh cell
  Requested, \* bound of the model: the sizes of the bodies that clients send
  Answered   \* bound of the model: the sizes of the bodies of responses

ASSUME CellsAssumption == IsFiniteSet(Clients) /\ Clients # {} /\ Nobody \notin Clients
ASSUME LengthAssumption == Requested \subseteq Nat /\ Answered \subseteq Nat

NoLength == -1               \* a message without Content-length
BodyLenInit == 2147483647    \* 0x7fffffff

Fds == 1 .. 2 * Cardinality(Clients)  \* descriptors: as many as can be open
BadFd == -2                           \* what open_clientfd returns for an unknown host
NoFd == 0
Freed == -1                           \* content of a cell that is not allocated
Ends == {"client", "server"} \X Clients
Free == <<"none", Nobody>>

VARIABLES
  main,    \* main's program counter, its cip and the thread it will start
  cell,    \* the descriptors in the client_items, by address
  fdt,     \* the connection each descriptor stands for
  peer,    \* the state of each peer: "none", "open" or "closed"
  said,    \* history: all that the peer has sent or will send
  inbox,   \* what the proxy has not read yet of it
  outbox,  \* what the peer got
  thread,  \* the locals of each thread
  mutex,   \* mutex_file
  log,     \* the log file, an entry in two parts
  status   \* "up" or "exit"

net == <<peer, said, inbox, outbox>>
vars == <<main, cell, fdt, net, thread, mutex, log, status>>

Item(k, n, c) == [kind |-> k, n |-> n, of |-> c]

Message(first, len, body, c) ==
  <<Item(first, 0, c)>>
    \o (IF len = NoLength THEN <<>> ELSE <<Item("length", len, c)>>)
    \o <<Item("blank", 0, c)>>
    \o [i \in 1 .. body |-> Item("byte", i, c)]

Requests(c) ==
  {Message("bad", NoLength, 0, c), Message("first", NoLength, 0, c)}
    \union {Message("first", k, k, c) : k \in Requested}

Responses(c) ==
  {Message("first", NoLength, k, c) : k \in Answered}
    \union {Message("first", k, k, c) : k \in Answered}

Declared(m) ==  \* the length m states, NoLength if none
  LET S == {i \in DOMAIN m : m[i].kind = "length"}
  IN IF S = {} THEN NoLength ELSE m[Min(S)].n

WholeRequest(m) ==
  \E i \in DOMAIN m :
    m[i].kind = "blank" /\ Len(m) - i = Max({0, Declared(m)})

Idle == [pc |-> "none", arg |-> Nobody, connfd |-> NoFd, clientfd |-> NoFd,
         bodylen |-> BodyLenInit, lenset |-> FALSE, reqbody |-> 0,
         recvbody |-> 0, recv |-> 0]

Init ==
  /\ main = [pc |-> "malloc", cip |-> Nobody, last |-> Nobody]
  /\ cell = [a \in Cells |-> Freed]
  /\ fdt = [f \in Fds |-> Free]
  /\ peer = [e \in Ends |-> "none"]
  /\ said = [e \in Ends |-> <<>>]
  /\ inbox = [e \in Ends |-> <<>>]
  /\ outbox = [e \in Ends |-> <<>>]
  /\ thread = [c \in Clients |-> Idle]
  /\ mutex = 1 /\ log = <<>>
  /\ status = "up"

-----------------------------------------------------------------------------
(***************************************************************************)
(* Descriptors.  close and the calls that open give numbers back and out   *)
(* at once, the lowest first.                                              *)
(***************************************************************************)
NewFd == Min({f \in Fds : fdt[f] = Free})
IsOpen(f) == f \in Fds /\ fdt[f] # Free

Readable(f) == IsOpen(f) /\ inbox[fdt[f]] # <<>>
AtEnd(f) == IsOpen(f) => inbox[fdt[f]] = <<>> /\ peer[fdt[f]] = "closed"
Next1(f) == Head(inbox[fdt[f]])

\* Read one item from f and write it to g (a write that fails is ignored).
Relay(f, g) ==
  /\ inbox' = [inbox EXCEPT ![fdt[f]] = Tail(@)]
  /\ outbox' = IF IsOpen(g) /\ peer[fdt[g]] = "open"
               THEN [outbox EXCEPT ![fdt[g]] = Append(@, Next1(f))] ELSE outbox
  /\ UNCHANGED <<peer, said>>

\* Close gives up the connection and what could still be read of it.  When
\* close fails, Close ends the program.
Close(f) ==
  \/ /\ IsOpen(f)
     /\ fdt' = [fdt EXCEPT ![f] = Free]
     /\ peer' = [peer EXCEPT ![fdt[f]] = "closed"]
     /\ inbox' = [inbox EXCEPT ![fdt[f]] = <<>>]
     /\ UNCHANGED status
  \/ /\ ~IsOpen(f)
     /\ status' = "exit"
     /\ UNCHANGED <<fdt, peer, inbox>>

-----------------------------------------------------------------------------
(***************************************************************************)
(* main.                                                                   *)
(***************************************************************************)
AtMain(at) == status = "up" /\ main.pc = at

\* Mutant: one client_item for all connections.
MallocShared(a) ==
  /\ AtMain("malloc")
  /\ \A b \in Cells : cell[b] # Freed => a = b
  /\ cell' = [cell EXCEPT ![a] = IF @ = Freed THEN NoFd ELSE @]
  /\ main' = [main EXCEPT !.pc = "accept", !.cip = a]
  /\ UNCHANGED <<fdt, net, thread, mutex, log, status>>

Malloc(a) ==
  /\ AtMain("malloc")
  /\ cell[a] = Freed
  /\ cell' = [cell EXCEPT ![a] = NoFd]
  /\ main' = [main EXCEPT !.pc = "accept", !.cip = a]
  /\ UNCHANGED <<fdt, net, thread, mutex, log, status>>

Accept(c) ==
  /\ AtMain("accept")
  /\ LET e == <<"client", c>>
     IN /\ peer[e] = "none"
        /\ peer' = [peer EXCEPT ![e] = "open"]
        /\ \E r \in Requests(c) :
             said' = [said EXCEPT ![e] = r] /\ inbox' = [inbox EXCEPT ![e] = r]
        /\ fdt' = [fdt EXCEPT ![NewFd] = e]
  /\ cell' = [cell EXCEPT ![main.cip] = NewFd]
  /\ main' = [main EXCEPT !.pc = "create", !.last = c]
  /\ UNCHANGED <<outbox, thread, mutex, log, status>>

Create ==
  /\ AtMain("create")
  /\ thread' = [thread EXCEPT ![main.last].pc = "start",
                              ![main.last].arg = main.cip]
  /\ main' = [main EXCEPT !.pc = "malloc", !.cip = Nobody]
  /\ UNCHANGED <<cell, fdt, net, mutex, log, status>>

-----------------------------------------------------------------------------
(***************************************************************************)
(* doit, up to the response.                                               *)
(***************************************************************************)
At(c, at) == status = "up" /\ thread[c].pc = at
Goto(c, at) == thread' = [thread EXCEPT ![c].pc = at]

Start(c) ==
  /\ At(c, "start")
  /\ LET a == thread[c].arg
     IN /\ thread' = [thread EXCEPT ![c].pc = "reqline", ![c].arg = Nobody,
                                    ![c].connfd = cell[a]]
        /\ cell' = [cell EXCEPT ![a] = Freed]
  /\ UNCHANGED <<main, fdt, net, mutex, log, status>>

ReadRequestLine(c) ==
  /\ At(c, "reqline")
  /\ LET f == thread[c].connfd
     IN \/ /\ Readable(f)
           /\ Goto(c, IF Next1(f).kind = "bad" THEN "close" ELSE "connect")
           /\ inbox' = [inbox EXCEPT ![fdt[f]] = Tail(@)]
        \/ AtEnd(f) /\ Goto(c, "close") /\ UNCHANGED inbox
  /\ UNCHANGED <<main, cell, fdt, peer, said, outbox, mutex, log, status>>

\* open_clientfd, and the rewritten request line.
Connect(c) ==
  /\ At(c, "connect")
  /\ LET e == <<"server", c>>
     IN /\ fdt' = [fdt EXCEPT ![NewFd] = e]
        /\ peer' = [peer EXCEPT ![e] = "open"]
        /\ outbox' = [outbox EXCEPT ![e] = <<Item("first", 0, c)>>]
  /\ thread' = [thread EXCEPT ![c].pc = "headers", ![c].clientfd = NewFd]
  /\ UNCHANGED <<main, cell, said, inbox, mutex, log, status>>

ConnectFails(c) ==
  /\ At(c, "connect")
  /\ Goto(c, "close")
  /\ UNCHANGED <<main, cell, fdt, net, mutex, log, status>>

\* An unknown host: -2, which doit takes for a descriptor.
ResolveFails(c) ==
  /\ At(c, "connect")
  /\ thread' = [thread EXCEPT ![c].pc = "headers", ![c].clientfd = BadFd]
  /\ UNCHANGED <<main, cell, fdt, net, mutex, log, status>>

\* Mutant: the end of the connection is not noticed, and the loop goes on.
ReadRequestHeaderSpins(c) ==
  /\ At(c, "headers")
  /\ LET t == thread[c]
         f == t.connfd
     IN \/ /\ Readable(f)
           /\ Relay(f, t.clientfd)
           /\ Goto(c, IF Next1(f).kind = "blank" THEN "response" ELSE "headers")
        \/ AtEnd(f) /\ UNCHANGED <<net, thread>>
  /\ UNCHANGED <<main, cell, fdt, mutex, log, status>>

ReadRequestHeader(c) ==
  /\ At(c, "headers")
  /\ LET t == thread[c]
         f == t.connfd
         x == Next1(f)
     IN \/ /\ Readable(f)
           /\ Relay(f, t.clientfd)
           /\ thread' = [thread EXCEPT ![c] =
                CASE x.kind = "blank" ->
                       [t EXCEPT !.pc = IF t.lenset THEN "reqbody" ELSE "response",
                                 !.lenset = FALSE]
                  [] x.kind = "length" /\ ~t.lenset ->
                       [t EXCEPT !.bodylen = x.n, !.lenset = TRUE]
                  [] OTHER -> t]
        \/ AtEnd(f) /\ Goto(c, "bail") /\ UNCHANGED net
  /\ UNCHANGED <<main, cell, fdt, mutex, log, status>>

\* At least one byte is read, even when Content-length says 0.
ReadRequestBody(c) ==
  /\ At(c, "reqbody")
  /\ LET t == thread[c]
         f == t.connfd
     IN \/ /\ Readable(f)
           /\ Relay(f, t.clientfd)
           /\ thread' = [thread EXCEPT ![c].reqbody = @ + 1,
                           ![c].pc = IF t.reqbody + 1 >= t.bodylen
                                     THEN "response" ELSE @]
        \/ AtEnd(f) /\ Goto(c, "bail") /\ UNCHANGED net
  /\ UNCHANGED <<main, cell, fdt, mutex, log, status>>

-----------------------------------------------------------------------------
(***************************************************************************)
(* doit, the response.                                                     *)
(***************************************************************************)
\* body_len keeps the length of the request until the response states one.
ReadResponseLine(c) ==
  /\ At(c, "response")
  /\ LET t == thread[c]
         f == t.clientfd
         x == Next1(f)
     IN \/ /\ Readable(f)
           /\ Relay(f, t.connfd)
           /\ thread' = [thread EXCEPT ![c] =
                CASE x.kind = "blank" ->
                       [t EXCEPT !.pc = "respbody", !.recv = @ + 1]
                  [] x.kind = "length" /\ ~t.lenset ->
                       [t EXCEPT !.bodylen = x.n, !.lenset = TRUE, !.recv = @ + 1]
                  [] OTHER -> [t EXCEPT !.recv = @ + 1]]
        \/ AtEnd(f) /\ Goto(c, "bail") /\ UNCHANGED net
  /\ UNCHANGED <<main, cell, fdt, mutex, log, status>>

\* Mutant: the last byte is left unread.
EndOfResponseEarly(t) == t.recvbody + 2 >= t.bodylen

\* Mutant: the loop waits for a byte after the last.
EndOfResponseLate(t) == t.recvbody >= t.bodylen

\* Tested after a byte has been received: the loop reads at least one.
EndOfResponse(t) == t.recvbody + 1 >= t.bodylen

ReadResponseBody(c) ==
  /\ At(c, "respbody")
  /\ LET t == thread[c]
         f == t.clientfd
     IN \/ /\ Readable(f)
           /\ Relay(f, t.connfd)
           /\ thread' = [thread EXCEPT ![c].recvbody = @ + 1, ![c].recv = @ + 1,
                           ![c].pc = IF EndOfResponse(t) THEN "closeserver" ELSE @]
        \/ AtEnd(f) /\ Goto(c, "bail") /\ UNCHANGED net
  /\ UNCHANGED <<main, cell, fdt, mutex, log, status>>

CloseServer(c) ==
  /\ At(c, "closeserver")
  /\ Close(thread[c].clientfd)
  /\ thread' = [thread EXCEPT ![c].pc = "lock", ![c].clientfd = NoFd]
  /\ UNCHANGED <<main, cell, said, outbox, mutex, log>>

\* Mutant: the connection with the server is left open.
BailLeaks(c) ==
  /\ At(c, "bail")
  /\ thread' = [thread EXCEPT ![c].pc = "close", ![c].clientfd = NoFd]
  /\ UNCHANGED <<main, cell, fdt, net, mutex, log, status>>

\* The early returns: the server's end here, the client's in CloseClient.
Bail(c) ==
  /\ At(c, "bail")
  /\ Close(thread[c].clientfd)
  /\ thread' = [thread EXCEPT ![c].pc = "close", ![c].clientfd = NoFd]
  /\ UNCHANGED <<main, cell, said, outbox, mutex, log>>

-----------------------------------------------------------------------------
(***************************************************************************)
(* doit, the log.                                                          *)
(***************************************************************************)
\* Mutant: the mutex is not taken.
LockNothing(c) ==
  /\ At(c, "lock")
  /\ Goto(c, "write1")
  /\ UNCHANGED <<main, cell, fdt, net, mutex, log, status>>

Lock(c) ==
  /\ At(c, "lock")
  /\ mutex > 0
  /\ mutex' = mutex - 1
  /\ Goto(c, "write1")
  /\ UNCHANGED <<main, cell, fdt, net, log, status>>

\* An entry may reach the file in two pieces: a line of MAXLINE bytes is
\* longer than the buffer of stdio.
WriteLog(c) ==
  /\ \/ At(c, "write1") /\ Goto(c, "write2")
     \/ At(c, "write2") /\ Goto(c, "unlock")
  /\ log' = Append(log, [of |-> c, size |-> thread[c].recv,
                         part |-> IF thread[c].pc = "write1" THEN 1 ELSE 2])
  /\ UNCHANGED <<main, cell, fdt, net, mutex, status>>

Unlock(c) ==
  /\ At(c, "unlock")
  /\ mutex' = mutex + 1
  /\ Goto(c, "close")
  /\ UNCHANGED <<main, cell, fdt, net, log, status>>

\* The thread ends; what the model remembers of its connections goes too.
CloseClient(c) ==
  /\ At(c, "close")
  /\ Close(thread[c].connfd)
  /\ thread' = [thread EXCEPT ![c] = [Idle EXCEPT !.pc = "done"]]
  /\ said' = [e \in Ends |-> IF e[2] = c THEN <<>> ELSE said[e]]
  /\ outbox' = [e \in Ends |-> IF e[2] = c THEN <<>> ELSE outbox[e]]
  /\ UNCHANGED <<main, cell, mutex, log>>

-----------------------------------------------------------------------------
(***************************************************************************)
(* The peers.  A server answers when it has the whole request and ends its *)
(* answer by closing when it states no length.                             *)
(***************************************************************************)
Respond(c) ==
  LET s == <<"server", c>>
  IN /\ status = "up" /\ peer[s] = "open"
     /\ said[s] = <<>>
     /\ WholeRequest(outbox[s])
     /\ \E r \in Responses(c) :
          /\ said' = [said EXCEPT ![s] = r]
          /\ inbox' = [inbox EXCEPT ![s] = r]
          /\ peer' = [peer EXCEPT ![s] = IF Declared(r) = NoLength
                                         THEN "closed" ELSE @]
     /\ UNCHANGED <<main, cell, fdt, outbox, thread, mutex, log, status>>

\* What a peer that closes has sent can still be read.
PeerEnds(e) ==
  /\ status = "up" /\ peer[e] = "open"
  /\ peer' = [peer EXCEPT ![e] = "closed"]
  /\ UNCHANGED <<main, cell, fdt, said, inbox, outbox, thread, mutex, log, status>>

\* A reset drops it.
PeerCuts(e) ==
  /\ status = "up" /\ peer[e] = "open"
  /\ inbox[e] # <<>>
  /\ peer' = [peer EXCEPT ![e] = "closed"]
  /\ inbox' = [inbox EXCEPT ![e] = <<>>]
  /\ UNCHANGED <<main, cell, fdt, said, outbox, thread, mutex, log, status>>

-----------------------------------------------------------------------------
Main == (\E a \in Cells : Malloc(a)) \/ (\E c \in Clients : Accept(c)) \/ Create

Doit(c) ==
  \/ Start(c) \/ ReadRequestLine(c)
  \/ Connect(c) \/ ConnectFails(c) \/ ResolveFails(c)
  \/ ReadRequestHeader(c) \/ ReadRequestBody(c)
  \/ ReadResponseLine(c) \/ ReadResponseBody(c)
  \/ CloseServer(c) \/ Bail(c)
  \/ Lock(c) \/ WriteLog(c) \/ Unlock(c)
  \/ CloseClient(c)

Peers == \/ \E c \in Clients : Respond(c)
         \/ \E e \in Ends : PeerEnds(e) \/ PeerCuts(e)

\* exit, or every connection served and main waiting for another.
Rest ==
  /\ status = "exit" \/ \A c \in Clients : thread[c].pc = "done"
  /\ UNCHANGED vars

Next == Main \/ (\E c \in Clients : Doit(c)) \/ Peers \/ Rest

Spec == Init /\ [][Next]_vars

\* main and the threads run; peers do not keep connections for ever.
Fairness ==
  /\ WF_vars(Main)
  /\ \A c \in Clients : WF_vars(Doit(c))
  /\ \A e \in Ends : WF_vars(PeerEnds(e))

FairSpec == Spec /\ Fairness

-----------------------------------------------------------------------------
(***************************************************************************)
(* Properties.                                                             *)
(***************************************************************************)
Messages(c) == Requests(c) \union Responses(c)

\* Types.
TypeOK ==
  /\ main \in [pc : {"malloc", "accept", "create"},
               cip : Cells \union {Nobody}, last : Clients \union {Nobody}]
  /\ cell \in [Cells -> Fds \union {NoFd, Freed}]
  /\ fdt \in [Fds -> Ends \union {Free}]
  /\ peer \in [Ends -> {"none", "open", "closed"}]
  /\ \A e \in Ends : /\ said[e] \in Messages(e[2]) \union {<<>>}
                     /\ IsSuffix(inbox[e], said[e])
  /\ \A c \in Clients : thread[c].connfd \in Fds \union {NoFd}
                        /\ thread[c].clientfd \in Fds \union {NoFd, BadFd}
  /\ mutex \in {0, 1}
  /\ status \in {"up", "exit"}

\* The descriptors that c's connection still has to close, with what they
\* have to stand for: in the client_item first, in doit's locals then.
Held(c) ==
  LET t == thread[c]
  IN {h \in {<<t.connfd, "client">>, <<t.clientfd, "server">>} : h[1] \in Fds}
       \union (IF t.pc = "start" THEN {<<cell[t.arg], "client">>} ELSE {})
       \union (IF main.pc = "create" /\ main.last = c
               THEN {<<cell[main.cip], "client">>} ELSE {})

\* Every open descriptor is held for the connection it stands for and for no
\* other, from accept to Close and over the hand over to the thread: no
\* thread works on the connection of another, none is leaked and none is
\* closed twice.
Descriptors ==
  \A f \in Fds :
    {c \in Clients : \E side \in {"client", "server"} : <<f, side>> \in Held(c)}
      = IF IsOpen(f) THEN {fdt[f][2]} ELSE {}

\* What a client gets is the beginning of its own server's response, and what
\* a server gets the beginning of its own client's request, whatever fails.
Forwarded ==
  \A c \in Clients :
    /\ IsPrefix(outbox[<<"client", c>>], said[<<"server", c>>])
    /\ IsPrefix(outbox[<<"server", c>>], said[<<"client", c>>])

\* The two pieces of an entry of the log follow each other, and a thread
\* writes at most one entry.
LogWhole ==
  /\ \A i \in DOMAIN log :
       log[i].part = 2 => i > 1 /\ log[i - 1] = [log[i] EXCEPT !.part = 1]
  /\ \A i, j \in DOMAIN log :
       log[i].of = log[j].of /\ log[i].part = log[j].part => i = j

\* A logged response was received whole if it stated a length, and the size
\* in the log is what its client got, if it still listened.
LoggedTrue ==
  \A i \in DOMAIN log :
    LET answer == said[<<"server", log[i].of>>]
        client == <<"client", log[i].of>>
    IN thread[log[i].of].pc # "done"
         => /\ Declared(answer) # NoLength => log[i].size = Len(answer)
            /\ peer[client] = "open" => log[i].size = Len(outbox[client])

Received(c) == LET answer == said[<<"server", c>>]
               IN answer # <<>> /\ thread[c].recv = Len(answer)
HasEntry(c) == \E i \in DOMAIN log : log[i].of = c /\ log[i].part = 2

\* A response with a stated length and a body that was received whole is in
\* the log when its thread ends: no early return is taken after the last byte.
\* (One without a stated length is not: the read that finds its end is taken
\* for one that failed.)
CompleteLogged ==
  \A c \in Clients :
    thread[c].pc = "close" /\ Declared(said[<<"server", c>>]) > 0 /\ Received(c)
      => HasEntry(c)

\* Every connection is served to its end and closed.
ThreadEnds ==
  \A c \in Clients : peer[<<"client", c>>] = "open"
                       ~> thread[c].pc = "done" \/ status = "exit"
=============================================================================
