----------------------------- MODULE ProxyProofs -----------------------------
(* The proxy, for any number of connections and any bodies: no descriptor  *)
(* is mixed up, leaked or closed twice, what is forwarded is the beginning *)
(* of what was said, and the log keeps its entries whole and true and has  *)
(* one for each response of a stated length that was received.  Under it,  *)
(* the Rio functions make a stream of a descriptor.                        *)
EXTENDS Proxy, Rio, FiniteSetTheorems, SequenceTheorems, WellFoundedInduction, TLAPS

Kinds == {"bad", "first", "length", "blank", "byte"}
Items == [kind : Kinds, n : Int, of : Clients]
-----------------------------------------------------------------------------
(* Messages. *)
LEMMA MessageType ==
    ASSUME NEW first \in Kinds, NEW len \in Int, NEW body \in Nat, NEW c \in Clients
    PROVE  Message(first, len, body, c) \in Seq(Items)
<1>1. \A k \in Kinds, n \in Int : Item(k, n, c) \in Items
  BY DEF Item, Items
<1>2. <<Item(first, 0, c)>> \in Seq(Items) /\ <<Item("blank", 0, c)>> \in Seq(Items)
      /\ (IF len = NoLength THEN <<>> ELSE <<Item("length", len, c)>>) \in Seq(Items)
  BY <1>1 DEF Kinds
<1>3. [i \in 1 .. body |-> Item("byte", i, c)] \in Seq(Items)
  BY <1>1 DEF Kinds
<1> QED  BY <1>2, <1>3 DEF Message

\* The messages of a client and of its server are sequences of items.
LEMMA MessagesType ==
    ASSUME NEW c \in Clients
    PROVE  Requests(c) \subseteq Seq(Items) /\ Responses(c) \subseteq Seq(Items)
<1>1. NoLength \in Int /\ 0 \in Nat /\ "first" \in Kinds /\ "bad" \in Kinds
  BY DEF NoLength, Kinds
<1>2. Requested \subseteq Nat /\ Answered \subseteq Nat /\ Nat \subseteq Int
  BY LengthAssumption
<1>3. Requests(c) \subseteq Seq(Items)
  BY <1>1, <1>2, MessageType, ZenonT(30) DEF Requests
<1>4. Responses(c) \subseteq Seq(Items)
  BY <1>1, <1>2, MessageType, ZenonT(30) DEF Responses
<1> QED  BY <1>3, <1>4

\* The reverse of a sequence, item by item.
LEMMA ReverseAt ==
    ASSUME NEW s \in Seq(Items)
    PROVE  /\ Reverse(s) \in Seq(Items)
           /\ Len(Reverse(s)) = Len(s)
           /\ \A i \in 1 .. Len(s) : Reverse(s)[i] = s[(Len(s) - i) + 1]
<1>1. \A i \in 1 .. Len(s) : (Len(s) - i) + 1 \in 1 .. Len(s)
  OBVIOUS
<1>2. \A i \in 1 .. Len(s) : s[(Len(s) - i) + 1] \in Items
  BY <1>1
<1> QED  BY <1>2 DEF Reverse

\* A suffix, item by item.
LEMMA SuffixAt ==
    ASSUME NEW s \in Seq(Items), NEW t \in Seq(Items)
    PROVE  IsSuffix(s, t) <=> /\ Len(s) <= Len(t)
                              /\ \A j \in 1 .. Len(s) :
                                   s[j] = t[(Len(t) - Len(s)) + j]
<1> DEFINE rs == Reverse(s)
           rt == Reverse(t)
           n == Len(s)
<1>1. /\ rs \in Seq(Items) /\ Len(rs) = n
      /\ rt \in Seq(Items) /\ Len(rt) = Len(t)
      /\ n \in Nat /\ Len(t) \in Nat
  BY ReverseAt
<1>2. n <= Len(t) =>
        (SubSeq(rs, 1, n) = SubSeq(rt, 1, n) <=> \A i \in 1 .. n : rs[i] = rt[i])
  <2> HIDE DEF rs, rt, n
  <2> SUFFICES ASSUME n <= Len(t)
               PROVE  SubSeq(rs, 1, n) = SubSeq(rt, 1, n)
                        <=> \A i \in 1 .. n : rs[i] = rt[i]
    OBVIOUS
  <2>1. /\ SubSeq(rs, 1, n) = [i \in 1 .. n |-> rs[i]]
        /\ SubSeq(rt, 1, n) = [i \in 1 .. n |-> rt[i]]
    BY <1>1
  <2> QED  BY <2>1
<1>3. n <= Len(t) =>
        ((\A i \in 1 .. n : rs[i] = rt[i])
           <=> \A j \in 1 .. n : s[j] = t[(Len(t) - n) + j])
  <2> SUFFICES ASSUME n <= Len(t)
               PROVE  (\A i \in 1 .. n : rs[i] = rt[i])
                        <=> \A j \in 1 .. n : s[j] = t[(Len(t) - n) + j]
    OBVIOUS
  <2>1. \A i \in 1 .. n : rs[i] = s[(n - i) + 1] /\ rt[i] = t[(Len(t) - i) + 1]
    BY ReverseAt
  <2> HIDE DEF rs, rt, n
  <2>2. ASSUME \A i \in 1 .. n : rs[i] = rt[i], NEW j \in 1 .. n
        PROVE  s[j] = t[(Len(t) - n) + j]
    <3>1. (n - j) + 1 \in 1 .. n
      BY <1>1
    <3>2. s[(n - ((n - j) + 1)) + 1] = t[(Len(t) - ((n - j) + 1)) + 1]
      BY <2>1, <2>2, <3>1
    <3>3. (n - ((n - j) + 1)) + 1 = j /\ (Len(t) - ((n - j) + 1)) + 1 = (Len(t) - n) + j
      BY <1>1
    <3> QED  BY <3>2, <3>3
  <2>3. ASSUME \A j \in 1 .. n : s[j] = t[(Len(t) - n) + j], NEW i \in 1 .. n
        PROVE  rs[i] = rt[i]
    <3>1. (n - i) + 1 \in 1 .. n
      BY <1>1
    <3>2. s[(n - i) + 1] = t[(Len(t) - n) + ((n - i) + 1)]
      BY <2>3, <3>1
    <3>3. (Len(t) - n) + ((n - i) + 1) = (Len(t) - i) + 1
      BY <1>1
    <3> QED  BY <2>1, <3>2, <3>3
  <2> QED  BY <2>2, <2>3
<1> QED  BY <1>1, <1>2, <1>3 DEF IsSuffix, IsPrefix

\* A sequence is its own suffix,
LEMMA SuffixSelf == ASSUME NEW s \in Seq(Items) PROVE IsSuffix(s, s)
BY SuffixAt

\* the empty one is a suffix of each,
LEMMA SuffixEmpty == ASSUME NEW s \in Seq(Items) PROVE IsSuffix(<<>>, s)
<1>1. ASSUME NEW e \in Seq(Items), Len(e) = 0 PROVE IsSuffix(e, s)
  <2>1. 1 .. Len(e) = {} /\ Len(e) <= Len(s)
    BY <1>1
  <2> QED  BY <2>1, SuffixAt
<1>2. <<>> \in Seq(Items) /\ Len(<<>>) = 0
  OBVIOUS
<1> QED  BY <1>1, <1>2, Zenon

\* and so is the tail of a suffix.
LEMMA SuffixTail ==
    ASSUME NEW s \in Seq(Items), NEW t \in Seq(Items), s # <<>>, IsSuffix(s, t)
    PROVE  Tail(s) \in Seq(Items) /\ IsSuffix(Tail(s), t)
<1>1. /\ Len(s) \in Nat \ {0} /\ Len(t) \in Nat
      /\ Tail(s) \in Seq(Items) /\ Len(Tail(s)) = Len(s) - 1
      /\ \A j \in 1 .. Len(s) - 1 : Tail(s)[j] = s[j + 1]
  OBVIOUS
<1>2. /\ Len(s) <= Len(t)
      /\ \A j \in 1 .. Len(s) : s[j] = t[(Len(t) - Len(s)) + j]
  BY SuffixAt
<1>3. ASSUME NEW j \in 1 .. Len(s) - 1
      PROVE  Tail(s)[j] = t[(Len(t) - Len(Tail(s))) + j]
  <2>1. j + 1 \in 1 .. Len(s)
    BY <1>1
  <2>2. s[j + 1] = t[(Len(t) - Len(s)) + (j + 1)]
    BY <1>2, <2>1
  <2>3. (Len(t) - Len(s)) + (j + 1) = (Len(t) - Len(Tail(s))) + j
    BY <1>1
  <2> QED  BY <1>1, <2>2, <2>3
<1>4. Len(Tail(s)) <= Len(t)
  BY <1>1, <1>2
<1>5. IsSuffix(Tail(s), t) <=> /\ Len(Tail(s)) <= Len(t)
                               /\ \A j \in 1 .. Len(Tail(s)) :
                                    Tail(s)[j] = t[(Len(t) - Len(Tail(s))) + j]
  <2>1. Tail(s) \in Seq(Items)
    BY <1>1
  <2> QED  BY <2>1, SuffixAt, Zenon
<1>6. 1 .. Len(Tail(s)) = 1 .. Len(s) - 1
  BY <1>1
<1> QED  BY <1>1, <1>3, <1>4, <1>5, <1>6, Zenon

-----------------------------------------------------------------------------
(* The invariant.  Types; what each program point says of the locals; every *)
(* end of a connection has the descriptor its thread has for it; what can  *)
(* be read or written belongs to an open descriptor; the mutex, the log.   *)
Pcs == {"none", "start", "reqline", "connect", "headers", "reqbody", "response",
        "respbody", "closeserver", "bail", "lock", "write1", "write2", "unlock",
        "close", "done"}
Serving == {"headers", "reqbody", "response", "respbody", "closeserver", "bail"}
Working == Pcs \ {"none", "start", "done"}
Critical == {"write1", "write2", "unlock"}
Early == {"none", "start", "reqline", "connect"} \union Serving

Threads == [pc : Pcs, arg : Cells \union {Nobody}, connfd : Fds \union {NoFd},
            clientfd : Fds \union {NoFd, BadFd}, bodylen : Int,
            lenset : BOOLEAN, reqbody : Int, recvbody : Int, recv : Int]
Entries == [of : Clients, size : Int, part : {1, 2}]

Local ==
  /\ main \in [pc : {"malloc", "accept", "create"},
               cip : Cells \union {Nobody}, last : Clients \union {Nobody}]
  /\ cell \in [Cells -> Fds \union {NoFd, Freed}]
  /\ fdt \in [Fds -> Ends \union {Free}]
  /\ thread \in [Clients -> Threads]
  /\ status \in {"up", "exit"}

Net ==
  /\ peer \in [Ends -> {"none", "open", "closed"}]
  /\ said \in [Ends -> Seq(Items)]
  /\ inbox \in [Ends -> Seq(Items)]
  /\ outbox \in [Ends -> Seq(Items)]
  /\ \A e \in Ends : /\ said[e] \in Messages(e[2]) \union {<<>>}
                     /\ IsSuffix(inbox[e], said[e])

\* c's thread is to be started with a client_item that main has filled.
Handed(c) == main.pc = "create" /\ main.last = c

Phases ==
  /\ main.pc = "accept" => main.cip \in Cells /\ cell[main.cip] = NoFd
  /\ main.pc = "create" => /\ main.cip \in Cells /\ cell[main.cip] \in Fds
                           /\ main.last \in Clients
                           /\ thread[main.last].pc = "none"
  /\ \A c \in Clients :
       LET t == thread[c]
       IN /\ t.pc = "start" => t.arg \in Cells /\ cell[t.arg] \in Fds
          /\ t.pc \in Working <=> t.connfd \in Fds
          /\ t.pc \in Serving => t.clientfd \in Fds \union {BadFd}
          /\ t.pc \notin Serving => t.clientfd = NoFd
          /\ t.pc # "none" \/ Handed(c) => peer[<<"client", c>>] # "none"

\* The descriptor that is held for end e of a connection.
FdOf(e) ==
  LET c == e[2]
      t == thread[c]
  IN IF e[1] = "server" THEN t.clientfd
     ELSE IF Handed(c) THEN cell[main.cip]
     ELSE IF t.pc = "start" THEN cell[t.arg] ELSE t.connfd

Agree == \A e \in Ends, f \in Fds : fdt[f] = e <=> FdOf(e) = f

Reached == \A e \in Ends : inbox[e] # <<>> \/ peer[e] = "open"
                             => \E f \in Fds : fdt[f] = e

Locked ==
  /\ mutex \in {0, 1}
  /\ \A c \in Clients : thread[c].pc \in Critical => mutex = 0
  /\ \A c, d \in Clients :
       thread[c].pc \in Critical /\ thread[d].pc \in Critical => c = d

Logged ==
  /\ log \in Seq(Entries)
  /\ \A i \in DOMAIN log :
       LET pc == thread[log[i].of].pc
       IN /\ pc \notin Early \union {"lock", "write1"}
          /\ log[i].part = 2 => pc # "write2"
  /\ \A c \in Clients :
       thread[c].pc = "write2"
         => log # <<>> /\ log[Len(log)] = [of |-> c, size |-> thread[c].recv, part |-> 1]
  /\ LogWhole

IInv == Local /\ Net /\ Phases /\ Agree /\ Reached /\ Locked /\ Logged
-----------------------------------------------------------------------------
(* Descriptors. *)
LEMMA FdsAre ==
    /\ IsFiniteSet(Fds) /\ IsFiniteSet(Ends)
    /\ Cardinality(Fds) = Cardinality(Ends)
    /\ Fds \in SUBSET Nat
    /\ NoFd \notin Fds /\ BadFd \notin Fds /\ Freed \notin Fds
    /\ Free \notin Ends
<1> DEFINE n == Cardinality(Clients)
<1>1. n \in Nat
  BY CellsAssumption, FS_CardinalityType
<1>2. IsFiniteSet(Fds) /\ Cardinality(Fds) = 2 * n
  <2> HIDE DEF n
  <2>1. 2 * n \in Int /\ 1 \in Int /\ ~(1 > 2 * n /\ 2 * n # 0)
    BY <1>1
  <2>2. IsFiniteSet(1 .. 2 * n)
        /\ Cardinality(1 .. 2 * n) = IF 1 > 2 * n THEN 0 ELSE 2 * n - 1 + 1
    BY <2>1, FS_Interval
  <2>3. IsFiniteSet(1 .. 2 * n) /\ Cardinality(1 .. 2 * n) = 2 * n
    BY <1>1, <2>1, <2>2
  <2> QED  BY <2>3 DEF Fds, n
<1>3. IsFiniteSet({"client", "server"}) /\ Cardinality({"client", "server"}) = 2
  <2>1. IsFiniteSet({"client"}) /\ Cardinality({"client"}) = 1
    BY FS_Singleton
  <2>2. {"client", "server"} = {"client"} \union {"server"} /\ "server" \notin {"client"}
    OBVIOUS
  <2> QED  BY <2>1, <2>2, FS_AddElement
<1>4. IsFiniteSet(Ends) /\ Cardinality(Ends) = 2 * n
  BY <1>3, FS_Product, CellsAssumption DEF Ends
<1>5. Fds \in SUBSET Nat /\ NoFd \notin Fds /\ BadFd \notin Fds /\ Freed \notin Fds
  BY <1>1 DEF Fds, NoFd, BadFd, Freed
<1>6. Free \notin Ends
  BY DEF Free, Ends
<1> QED  BY <1>2, <1>4, <1>5, <1>6

\* A non-empty set of naturals has a least element.
LEMMA LeastNat ==
    ASSUME NEW S \in SUBSET Nat, S # {}
    PROVE  \E x \in S : \A y \in S : x <= y
<1> DEFINE R == {ss \in Nat \X Nat : ss[1] < ss[2]}
<1>1. IsWellFoundedOn(R, Nat)
  BY NatLessThanWellFounded, Zenon DEF OpToRel
<1> HIDE DEF R
<1>2. PICK x \in S : \A y \in S : ~(<<y, x>> \in R)
  <2>1. S \subseteq Nat
    OBVIOUS
  <2> QED  BY <1>1, <2>1, WFMin, Zenon
<1>3. ASSUME NEW y \in S PROVE x <= y
  <2>1. y < x => <<y, x>> \in R
    BY DEF R
  <2> QED  BY <1>2, <2>1
<1> QED  BY <1>3

\* While an end of a connection has no descriptor, one is free.
LEMMA NewFdIsFree ==
    ASSUME fdt \in [Fds -> Ends \union {Free}], Agree,
           NEW e \in Ends, FdOf(e) \notin Fds
    PROVE  NewFd \in Fds /\ fdt[NewFd] = Free
<1>1. {f \in Fds : fdt[f] = Free} # {}
  <2> SUFFICES ASSUME \A f \in Fds : fdt[f] # Free PROVE FALSE
    OBVIOUS
  <2>1. fdt \in [Fds -> Ends \ {e}]
    BY DEF Agree
  <2>2. IsFiniteSet(Ends \ {e}) /\ Cardinality(Ends \ {e}) < Cardinality(Fds)
    <3>1. Cardinality(Ends) \in Nat /\ Cardinality(Ends \ {e}) = Cardinality(Ends) - 1
      BY FdsAre, FS_RemoveElement, FS_CardinalityType
    <3> QED  BY <3>1, FdsAre, FS_RemoveElement
  <2>3. PICK f, g \in Fds : f # g /\ fdt[f] = fdt[g]
    BY <2>1, <2>2, FS_PigeonHole, FdsAre, ZenonT(30)
  <2>4. fdt[f] \in Ends
    BY <2>1
  <2> QED  BY <2>3, <2>4 DEF Agree
<1>2. {f \in Fds : fdt[f] = Free} \in SUBSET Nat
  BY FdsAre
<1>3. NewFd \in {f \in Fds : fdt[f] = Free}
  <2>1. \A S \in SUBSET Nat : S # {} => Min(S) \in S
    <3> SUFFICES ASSUME NEW S \in SUBSET Nat, S # {} PROVE Min(S) \in S
      OBVIOUS
    <3>1. \E x \in S : \A y \in S : x <= y
      BY LeastNat
    <3> QED  BY <3>1, Zenon DEF Min
  <2> QED  BY <1>1, <1>2, <2>1, Zenon DEF NewFd
<1> QED  BY <1>3

-----------------------------------------------------------------------------
(* What a read, a forwarding and a close do to the connections. *)
LEMMA EmptyType == <<>> \in Seq(Items)
OBVIOUS

\* What is taken from an inbox is an item, and the rest is still what was said last.
LEMMA Took ==
    ASSUME Net, NEW e \in Ends, inbox[e] # <<>>
    PROVE  /\ Head(inbox[e]) \in Items
           /\ Tail(inbox[e]) \in Seq(Items)
           /\ IsSuffix(Tail(inbox[e]), said[e])
<1>1. inbox[e] \in Seq(Items) /\ said[e] \in Seq(Items) /\ IsSuffix(inbox[e], said[e])
  BY DEF Net
<1>2. Head(inbox[e]) \in Items
  BY <1>1
<1> QED  BY <1>1, <1>2, SuffixTail, Zenon

\* The inboxes keep their type when one of them gives an item.
LEMMA InboxTook ==
    ASSUME Net, NEW e \in Ends, inbox[e] # <<>>,
           inbox' = [inbox EXCEPT ![e] = Tail(@)], said' = said
    PROVE  /\ inbox' \in [Ends -> Seq(Items)]
           /\ \A d \in Ends : IsSuffix(inbox'[d], said'[d])
<1>1. Tail(inbox[e]) \in Seq(Items) /\ IsSuffix(Tail(inbox[e]), said[e])
  BY Took, Zenon
<1>2. inbox \in [Ends -> Seq(Items)] /\ \A d \in Ends : IsSuffix(inbox[d], said[d])
  BY DEF Net
<1>3. \A d \in Ends : inbox'[d] = IF d = e THEN Tail(inbox[e]) ELSE inbox[d]
  BY <1>2
<1> QED  BY <1>1, <1>2, <1>3

\* An inbox that is dropped.
LEMMA InboxDropped ==
    ASSUME Net, NEW e \in Ends, inbox' = [inbox EXCEPT ![e] = <<>>], said' = said
    PROVE  /\ inbox' \in [Ends -> Seq(Items)]
           /\ \A d \in Ends : IsSuffix(inbox'[d], said'[d])
<1>1. inbox \in [Ends -> Seq(Items)] /\ \A d \in Ends : IsSuffix(inbox[d], said[d])
  BY DEF Net
<1>2. \A d \in Ends : inbox'[d] = IF d = e THEN <<>> ELSE inbox[d]
  BY <1>1
<1>3. IsSuffix(<<>>, said[e])
  <2>1. said[e] \in Seq(Items)
    BY DEF Net
  <2> QED  BY <2>1, SuffixEmpty, Zenon
<1>4. inbox' \in [Ends -> Seq(Items)]
  BY <1>1, EmptyType
<1> QED  BY <1>1, <1>2, <1>3, <1>4

\* Relaying an item keeps the network's types, and fills no inbox.
LEMMA Relayed ==
    ASSUME Local, Net, NEW f, NEW g, Readable(f), Relay(f, g)
    PROVE  /\ Net'
           /\ Next1(f) \in Items
           /\ peer' = peer /\ said' = said
           /\ \A e \in Ends : inbox'[e] # <<>> => inbox[e] # <<>>
<1>1. f \in Fds /\ fdt[f] \in Ends /\ inbox[fdt[f]] # <<>>
  BY DEF Readable, IsOpen, Local
<1>2. inbox' = [inbox EXCEPT ![fdt[f]] = Tail(@)] /\ peer' = peer /\ said' = said
  BY DEF Relay
<1>3. Next1(f) \in Items
  BY <1>1, Took DEF Next1
<1>4. /\ inbox' \in [Ends -> Seq(Items)]
      /\ \A d \in Ends : IsSuffix(inbox'[d], said'[d])
  BY <1>1, <1>2, InboxTook
<1>5. outbox' \in [Ends -> Seq(Items)]
  <2>1. CASE IsOpen(g) /\ peer[fdt[g]] = "open"
    <3>1. fdt[g] \in Ends
      BY <2>1 DEF IsOpen, Local
    <3>2. Append(outbox[fdt[g]], Next1(f)) \in Seq(Items)
      BY <1>3, <3>1 DEF Net
    <3>3. outbox' = [outbox EXCEPT ![fdt[g]] = Append(@, Next1(f))]
      BY <2>1 DEF Relay
    <3> QED  BY <3>1, <3>2, <3>3 DEF Net
  <2>2. CASE ~(IsOpen(g) /\ peer[fdt[g]] = "open")
    <3>1. outbox' = outbox
      BY <2>2 DEF Relay
    <3> QED  BY <3>1 DEF Net
  <2> QED  BY <2>1, <2>2
<1>6. \A e \in Ends : inbox'[e] # <<>> => inbox[e] # <<>>
  <2>1. \A e \in Ends : e # fdt[f] => inbox'[e] = inbox[e]
    BY <1>2 DEF Net
  <2> QED  BY <1>1, <2>1
<1>7. Net'
  BY <1>2, <1>4, <1>5 DEF Net
<1> QED  BY <1>2, <1>3, <1>6, <1>7

\* What closing a descriptor does to the table and to the connections.
LEMMA Closed ==
    ASSUME Local, Net, NEW f, Close(f)
    PROVE  /\ fdt' \in [Fds -> Ends \union {Free}] /\ status' \in {"up", "exit"}
           /\ peer' \in [Ends -> {"none", "open", "closed"}]
           /\ inbox' \in [Ends -> Seq(Items)]
           /\ \A g \in Fds : fdt'[g] = IF g = f THEN Free ELSE fdt[g]
           /\ \A e \in Ends :
                IF IsOpen(f) /\ e = fdt[f]
                THEN peer'[e] = "closed" /\ inbox'[e] = <<>>
                ELSE peer'[e] = peer[e] /\ inbox'[e] = inbox[e]
<1>1. CASE IsOpen(f)
  <2>1. f \in Fds /\ fdt[f] \in Ends
    BY <1>1 DEF IsOpen, Local
  <2>2. /\ fdt' = [fdt EXCEPT ![f] = Free]
        /\ peer' = [peer EXCEPT ![fdt[f]] = "closed"]
        /\ inbox' = [inbox EXCEPT ![fdt[f]] = <<>>]
        /\ status' = status
    BY <1>1 DEF Close
  <2>3. inbox' \in [Ends -> Seq(Items)]
    BY <2>1, <2>2, EmptyType DEF Net
  <2>4. /\ peer' \in [Ends -> {"none", "open", "closed"}]
        /\ \A e \in Ends : peer'[e] = IF e = fdt[f] THEN "closed" ELSE peer[e]
        /\ \A e \in Ends : inbox'[e] = IF e = fdt[f] THEN <<>> ELSE inbox[e]
    BY <2>1, <2>2 DEF Net
  <2>5. /\ fdt' \in [Fds -> Ends \union {Free}] /\ status' \in {"up", "exit"}
        /\ \A g \in Fds : fdt'[g] = IF g = f THEN Free ELSE fdt[g]
    BY <2>1, <2>2 DEF Local
  <2> QED  BY <1>1, <2>3, <2>4, <2>5
<1>2. CASE ~IsOpen(f)
  <2>1. fdt' = fdt /\ peer' = peer /\ inbox' = inbox /\ status' = "exit"
    BY <1>2 DEF Close
  <2>2. f \in Fds => fdt[f] = Free
    BY <1>2 DEF IsOpen
  <2> QED  BY <1>2, <2>1, <2>2 DEF Local, Net
<1> QED  BY <1>1, <1>2

\* After a close, each end that is open or has something to read still has a
\* descriptor.
LEMMA ClosedReached ==
    ASSUME Local, Net, Reached, NEW f, Close(f)
    PROVE  Reached'
<1> SUFFICES ASSUME NEW e \in Ends, inbox'[e] # <<>> \/ peer'[e] = "open"
             PROVE  \E g \in Fds : fdt'[g] = e
  BY DEF Reached
<1>1. ~(IsOpen(f) /\ e = fdt[f]) /\ peer'[e] = peer[e] /\ inbox'[e] = inbox[e]
  BY Closed
<1>2. PICK g \in Fds : fdt[g] = e
  BY <1>1 DEF Reached
<1>3. g # f
  BY <1>1, <1>2, FdsAre DEF IsOpen
<1> QED  BY <1>2, <1>3, Closed
-----------------------------------------------------------------------------
(* The steps of a thread that change nobody's descriptors. *)
Moves(c) ==
  /\ UNCHANGED <<main, cell, fdt, status>>
  /\ thread' \in [Clients -> Threads]
  /\ \A d \in Clients : d # c => thread'[d] = thread[d]
  /\ thread[c].pc \in Working /\ thread'[c].pc \in Working
  /\ thread[c].pc \in Serving <=> thread'[c].pc \in Serving
  /\ thread'[c].connfd = thread[c].connfd
  /\ thread'[c].clientfd = thread[c].clientfd

\* Nothing is opened, and no inbox is filled.
Quiet == peer' = peer /\ \A e \in Ends : inbox'[e] # <<>> => inbox[e] # <<>>

Reading(c) ==
  \/ ReadRequestLine(c) \/ ConnectFails(c)
  \/ ReadRequestHeader(c) \/ ReadRequestBody(c)
  \/ ReadResponseLine(c) \/ ReadResponseBody(c)

Logging(c) == Lock(c) \/ WriteLog(c) \/ Unlock(c)

\* A thread that goes to another place keeps everything else it has.
LEMMA GotoType ==
    ASSUME Local, NEW c \in Clients, NEW at \in Pcs, Goto(c, at)
    PROVE  /\ thread' \in [Clients -> Threads]
           /\ \A d \in Clients : d # c => thread'[d] = thread[d]
           /\ thread'[c] = [thread[c] EXCEPT !.pc = at]
           /\ thread'[c].pc = at
           /\ thread'[c].connfd = thread[c].connfd
           /\ thread'[c].clientfd = thread[c].clientfd
           /\ thread'[c].recv = thread[c].recv
<1>1. thread \in [Clients -> Threads] /\ thread[c] \in Threads
  BY DEF Local
<1>2. [thread[c] EXCEPT !.pc = at] \in Threads
  BY <1>1 DEF Threads
<1>3. thread' = [thread EXCEPT ![c] = [thread[c] EXCEPT !.pc = at]]
  BY <1>1 DEF Goto
<1>4. /\ [thread[c] EXCEPT !.pc = at].pc = at
      /\ [thread[c] EXCEPT !.pc = at].connfd = thread[c].connfd
      /\ [thread[c] EXCEPT !.pc = at].clientfd = thread[c].clientfd
      /\ [thread[c] EXCEPT !.pc = at].recv = thread[c].recv
  BY <1>1 DEF Threads
<1> QED  BY <1>1, <1>2, <1>3, <1>4

\* A thread replaced by another one keeps the type of all.
LEMMA ThreadType ==
    ASSUME Local, NEW c \in Clients, NEW t \in Threads, thread' = [thread EXCEPT ![c] = t]
    PROVE  /\ thread' \in [Clients -> Threads]
           /\ \A d \in Clients : d # c => thread'[d] = thread[d]
           /\ thread'[c] = t
BY DEF Local

\* The updates a thread in service makes keep it in service, with its descriptors.
LEMMA UpdateType ==
    ASSUME NEW t \in Threads, t.pc \in Serving, NEW u,
           NEW p \in Serving, NEW m \in Int, NEW n \in Int,
           \/ u = [t EXCEPT !.reqbody = n, !.pc = p]
           \/ u = [t EXCEPT !.recvbody = m, !.recv = n, !.pc = p]
           \/ u = [t EXCEPT !.pc = p, !.recv = n]
           \/ u = [t EXCEPT !.bodylen = m, !.lenset = TRUE, !.recv = n]
           \/ u = [t EXCEPT !.recv = n]
    PROVE  /\ u \in Threads /\ u.connfd = t.connfd /\ u.clientfd = t.clientfd
           /\ u.pc \in Serving
<1>1. Serving \subseteq Pcs
  BY DEF Serving, Pcs
<1> QED  BY <1>1 DEF Threads

\* A step that leaves the network alone keeps its types, and is quiet.
LEMMA Unread ==
    ASSUME net' = net, Net
    PROVE  Net' /\ Quiet
BY DEF net, Net, Quiet

\* A thread that reads from the network keeps the types, and its descriptors.
LEMMA ReadingMoves ==
    ASSUME Local, Net, NEW c \in Clients, Reading(c)
    PROVE  /\ Moves(c) /\ Net' /\ Quiet
           /\ log' = log /\ mutex' = mutex
           /\ thread[c].pc \in Early /\ thread'[c].pc \in Early \union {"close"}
<1> DEFINE t == thread[c]
<1>1. t \in Threads
  BY DEF Local
<1>2. CASE ReadRequestLine(c)
  <2> DEFINE f == t.connfd
  <2>1. PICK at \in {"close", "connect"} : Goto(c, at)
    BY <1>2 DEF ReadRequestLine
  <2>2. at \in Pcs
    BY DEF Pcs
  <2>3. Net' /\ Quiet
    <3>1. /\ UNCHANGED <<peer, said, outbox>>
          /\ \/ Readable(f) /\ inbox' = [inbox EXCEPT ![fdt[f]] = Tail(@)]
             \/ inbox' = inbox
      BY <1>2 DEF ReadRequestLine
    <3>2. CASE inbox' = inbox
      BY <3>1, <3>2 DEF Net, Quiet
    <3>3. CASE Readable(f) /\ inbox' = [inbox EXCEPT ![fdt[f]] = Tail(@)]
      <4>1. fdt[f] \in Ends /\ inbox[fdt[f]] # <<>>
        BY <3>3 DEF Readable, IsOpen, Local
      <4>2. /\ inbox' \in [Ends -> Seq(Items)]
            /\ \A d \in Ends : IsSuffix(inbox'[d], said'[d])
        BY <3>1, <3>3, <4>1, InboxTook
      <4>3. \A e \in Ends : e # fdt[f] => inbox'[e] = inbox[e]
        BY <3>3 DEF Net
      <4> QED  BY <3>1, <4>1, <4>2, <4>3 DEF Net, Quiet
    <3> QED  BY <3>1, <3>2, <3>3
  <2>4. thread[c].pc = "reqline" /\ UNCHANGED <<main, cell, fdt, status, log, mutex>>
    BY <1>2 DEF ReadRequestLine, At
  <2>5. Moves(c) /\ thread'[c].pc = at
    BY <2>1, <2>2, <2>4, GotoType DEF Moves, Working, Serving, Pcs
  <2> QED  BY <2>3, <2>4, <2>5 DEF Early
<1>3. CASE ConnectFails(c)
  <2>1. /\ Goto(c, "close") /\ thread[c].pc = "connect"
        /\ UNCHANGED <<main, cell, fdt, net, status, log, mutex>>
    BY <1>3 DEF ConnectFails, At
  <2>2. Moves(c) /\ thread'[c].pc = "close"
    BY <2>1, GotoType DEF Moves, Working, Serving, Pcs
  <2> QED  BY <2>1, <2>2, Unread DEF Early
<1>4. ASSUME NEW at \in {"headers", "reqbody", "response", "respbody"}, At(c, at),
             UNCHANGED <<main, cell, fdt, mutex, log, status>>,
             Goto(c, "bail"), UNCHANGED net
      PROVE  /\ Moves(c) /\ Net' /\ Quiet
             /\ log' = log /\ mutex' = mutex
             /\ thread[c].pc \in Early /\ thread'[c].pc \in Early \union {"close"}
  <2>1. thread[c].pc = at
    BY <1>4 DEF At
  <2>2. Moves(c) /\ thread'[c].pc = "bail"
    BY <1>4, <2>1, GotoType DEF Moves, Working, Serving, Pcs
  <2> QED  BY <1>4, <2>1, <2>2, Unread DEF Early, Serving
<1>5. ASSUME NEW at \in {"headers", "reqbody", "response", "respbody"}, At(c, at),
             UNCHANGED <<main, cell, fdt, mutex, log, status>>,
             NEW f, NEW g, Readable(f), Relay(f, g),
             NEW u \in Threads, thread' = [thread EXCEPT ![c] = u],
             u.pc \in Serving, u.connfd = t.connfd, u.clientfd = t.clientfd
      PROVE  /\ Moves(c) /\ Net' /\ Quiet
             /\ log' = log /\ mutex' = mutex
             /\ thread[c].pc \in Early /\ thread'[c].pc \in Early \union {"close"}
  <2>1. thread[c].pc = at
    BY <1>5 DEF At
  <2>2. /\ thread' \in [Clients -> Threads] /\ thread'[c] = u
        /\ \A d \in Clients : d # c => thread'[d] = thread[d]
    BY <1>5, ThreadType
  <2>3. Moves(c)
    BY <1>5, <2>1, <2>2 DEF Moves, Working, Serving, Pcs
  <2>4. Net' /\ Quiet
    BY <1>5, Relayed DEF Quiet
  <2> QED  BY <1>5, <2>1, <2>2, <2>3, <2>4 DEF Early, Serving
<1>6. CASE ReadRequestHeader(c)
  <2> DEFINE f == t.connfd
             x == Next1(f)
             u == CASE x.kind = "blank" ->
                       [t EXCEPT !.pc = IF t.lenset THEN "reqbody" ELSE "response",
                                 !.lenset = FALSE]
                    [] x.kind = "length" /\ ~t.lenset ->
                       [t EXCEPT !.bodylen = x.n, !.lenset = TRUE]
                    [] OTHER -> t
  <2>1. At(c, "headers") /\ UNCHANGED <<main, cell, fdt, mutex, log, status>>
    BY <1>6 DEF ReadRequestHeader
  <2>2. CASE Goto(c, "bail") /\ UNCHANGED net
    BY <1>4, <2>1, <2>2
  <2>3. CASE Readable(f) /\ Relay(f, t.clientfd) /\ thread' = [thread EXCEPT ![c] = u]
    <3>1. x \in Items
      BY <2>3, Relayed
    <3>2. /\ u \in Threads /\ u.connfd = t.connfd /\ u.clientfd = t.clientfd
          /\ u.pc \in Serving
      <4> HIDE DEF f
      <4> QED  BY <1>1, <2>1, <3>1 DEF Threads, Items, At, Serving, Pcs
    <3> HIDE DEF u, f, t
    <3> QED  BY <1>5, <2>1, <2>3, <3>2
  <2> QED  BY <1>6, <2>2, <2>3 DEF ReadRequestHeader
<1>7. CASE ReadRequestBody(c)
  <2> DEFINE f == t.connfd
             u == [t EXCEPT !.reqbody = @ + 1,
                            !.pc = IF t.reqbody + 1 >= t.bodylen
                                   THEN "response" ELSE @]
  <2>1. At(c, "reqbody") /\ UNCHANGED <<main, cell, fdt, mutex, log, status>>
    BY <1>7 DEF ReadRequestBody
  <2>2. CASE Goto(c, "bail") /\ UNCHANGED net
    BY <1>4, <2>1, <2>2
  <2>3. CASE Readable(f) /\ Relay(f, t.clientfd) /\ thread' = [thread EXCEPT ![c] = u]
    <3> DEFINE p == IF t.reqbody + 1 >= t.bodylen THEN "response" ELSE t.pc
    <3>1. t.pc \in Serving /\ p \in Serving /\ t.reqbody + 1 \in Int /\ 0 \in Int
      BY <1>1, <2>1 DEF Threads, At, Serving
    <3>2. u = [t EXCEPT !.reqbody = t.reqbody + 1, !.pc = p]
      OBVIOUS
    <3> HIDE DEF u, f, p
    <3>3. /\ u \in Threads /\ u.connfd = t.connfd /\ u.clientfd = t.clientfd
          /\ u.pc \in Serving
      BY <1>1, <3>1, <3>2, UpdateType
    <3> HIDE DEF t
    <3> QED  BY <1>5, <2>1, <2>3, <3>3
  <2>4. thread \in [Clients -> Threads]
    BY DEF Local
  <2> QED  BY <1>7, <2>2, <2>3, <2>4 DEF ReadRequestBody
<1>8. CASE ReadResponseLine(c)
  <2> DEFINE f == t.clientfd
             x == Next1(f)
             u == CASE x.kind = "blank" ->
                       [t EXCEPT !.pc = "respbody", !.recv = @ + 1]
                    [] x.kind = "length" /\ ~t.lenset ->
                       [t EXCEPT !.bodylen = x.n, !.lenset = TRUE, !.recv = @ + 1]
                    [] OTHER -> [t EXCEPT !.recv = @ + 1]
  <2>1. At(c, "response") /\ UNCHANGED <<main, cell, fdt, mutex, log, status>>
    BY <1>8 DEF ReadResponseLine
  <2>2. CASE Goto(c, "bail") /\ UNCHANGED net
    BY <1>4, <2>1, <2>2
  <2>3. CASE Readable(f) /\ Relay(f, t.connfd) /\ thread' = [thread EXCEPT ![c] = u]
    <3>1. x \in Items
      BY <2>3, Relayed
    <3>2. /\ u \in Threads /\ u.connfd = t.connfd /\ u.clientfd = t.clientfd
          /\ u.pc \in Serving
      <4>1. /\ t.pc \in Serving /\ "respbody" \in Serving
            /\ t.recv + 1 \in Int /\ x.n \in Int
        BY <1>1, <2>1, <3>1 DEF Threads, Items, At, Serving
      <4>2. \/ u = [t EXCEPT !.pc = "respbody", !.recv = t.recv + 1]
            \/ u = [t EXCEPT !.bodylen = x.n, !.lenset = TRUE, !.recv = t.recv + 1]
            \/ u = [t EXCEPT !.recv = t.recv + 1]
        BY SMTT(30)
      <4> HIDE DEF u, x, f, t
      <4>3. CASE u = [t EXCEPT !.pc = "respbody", !.recv = t.recv + 1]
        BY <1>1, <4>1, <4>3, UpdateType, ZenonT(30)
      <4>4. CASE u = [t EXCEPT !.bodylen = x.n, !.lenset = TRUE, !.recv = t.recv + 1]
        BY <1>1, <4>1, <4>4, UpdateType, ZenonT(30)
      <4>5. CASE u = [t EXCEPT !.recv = t.recv + 1]
        BY <1>1, <4>1, <4>5, UpdateType
      <4> QED  BY <4>2, <4>3, <4>4, <4>5
    <3> HIDE DEF u, f, t
    <3> QED  BY <1>5, <2>1, <2>3, <3>2
  <2> QED  BY <1>8, <2>2, <2>3 DEF ReadResponseLine
<1>9. CASE ReadResponseBody(c)
  <2> DEFINE f == t.clientfd
             u == [t EXCEPT !.recvbody = @ + 1, !.recv = @ + 1,
                            !.pc = IF EndOfResponse(t) THEN "closeserver" ELSE @]
  <2>1. At(c, "respbody") /\ UNCHANGED <<main, cell, fdt, mutex, log, status>>
    BY <1>9 DEF ReadResponseBody
  <2>2. CASE Goto(c, "bail") /\ UNCHANGED net
    BY <1>4, <2>1, <2>2
  <2>3. CASE Readable(f) /\ Relay(f, t.connfd) /\ thread' = [thread EXCEPT ![c] = u]
    <3> DEFINE p == IF EndOfResponse(t) THEN "closeserver" ELSE t.pc
    <3>1. t.pc \in Serving /\ p \in Serving /\ t.recvbody + 1 \in Int /\ t.recv + 1 \in Int
      BY <1>1, <2>1 DEF Threads, At, Serving
    <3>2. u = [t EXCEPT !.recvbody = t.recvbody + 1, !.recv = t.recv + 1, !.pc = p]
      OBVIOUS
    <3> HIDE DEF u, f, p
    <3>3. /\ u \in Threads /\ u.connfd = t.connfd /\ u.clientfd = t.clientfd
          /\ u.pc \in Serving
      BY <1>1, <3>1, <3>2, UpdateType
    <3> HIDE DEF t
    <3> QED  BY <1>5, <2>1, <2>3, <3>3
  <2>4. thread \in [Clients -> Threads]
    BY DEF Local
  <2> QED  BY <1>9, <2>2, <2>3, <2>4 DEF ReadResponseBody
<1> QED  BY <1>2, <1>3, <1>6, <1>7, <1>8, <1>9 DEF Reading

\* A thread that logs does so too.
LEMMA LoggingMoves ==
    ASSUME Local, Net, NEW c \in Clients, Logging(c)
    PROVE  /\ Moves(c) /\ Net' /\ Quiet
           /\ thread'[c].recv = thread[c].recv
<1>1. PICK at \in {"lock", "write1", "write2", "unlock"},
           to \in {"write1", "write2", "unlock", "close"} :
        /\ At(c, at) /\ Goto(c, to)
        /\ UNCHANGED <<main, cell, fdt, net, status>>
  BY DEF Logging, Lock, WriteLog, Unlock
<1>2. thread[c].pc = at /\ to \in Pcs
  BY <1>1 DEF At, Pcs
<1>3. Moves(c) /\ thread'[c].recv = thread[c].recv
  BY <1>1, <1>2, GotoType DEF Moves, Working, Serving, Pcs
<1> QED  BY <1>1, <1>3, Unread

-----------------------------------------------------------------------------
(* Who holds which descriptor. *)
Ground == Local /\ Net /\ Phases /\ Agree /\ Reached

\* Each client has the two ends of its exchange.
LEMMA EndsAre == \A c \in Clients : <<"client", c>> \in Ends /\ <<"server", c>> \in Ends
BY DEF Ends

\* The descriptor by which the proxy reaches each end.
LEMMA FdOfAt ==
    ASSUME NEW c \in Clients
    PROVE  /\ FdOf(<<"server", c>>) = thread[c].clientfd
           /\ FdOf(<<"client", c>>) = IF Handed(c) THEN cell[main.cip]
                                      ELSE IF thread[c].pc = "start"
                                      THEN cell[thread[c].arg] ELSE thread[c].connfd
BY DEF FdOf

\* Every end is one of the two of some client.
LEMMA EndIs ==
    ASSUME NEW e \in Ends
    PROVE  \E c \in Clients : e[2] = c /\ (e = <<"server", c>> \/ e = <<"client", c>>)
BY DEF Ends

\* The table and its holders agree as long as neither changes.
LEMMA SameHolders ==
    ASSUME Agree, fdt' = fdt,
           \A e \in Ends, f \in Fds : FdOf(e)' = f <=> FdOf(e) = f
    PROVE  Agree'
BY DEF Agree

\* They agree when an end is given a free descriptor,
LEMMA Opened ==
    ASSUME Agree, NEW e \in Ends, NEW g \in Fds, fdt[g] = Free, FdOf(e) \notin Fds,
           \A f \in Fds : fdt'[f] = IF f = g THEN e ELSE fdt[f],
           FdOf(e)' = g,
           \A d \in Ends : d # e => FdOf(d)' = FdOf(d)
    PROVE  Agree'
<1> SUFFICES ASSUME NEW d \in Ends, NEW f \in Fds PROVE fdt'[f] = d <=> FdOf(d)' = f
  BY DEF Agree
<1>1. Free # d /\ Free # e
  BY FdsAre
<1>2. fdt[f] = d <=> FdOf(d) = f
  BY DEF Agree
<1>3. fdt[g] = d <=> FdOf(d) = g
  BY DEF Agree
<1>4. fdt[f] = e <=> FdOf(e) = f
  BY DEF Agree
<1> QED  BY <1>1, <1>2, <1>3, <1>4

\* and when a descriptor is freed and forgotten by its holder.
LEMMA GivenUp ==
    ASSUME Agree, NEW e \in Ends,
           \A f \in Fds : fdt'[f] = IF f = FdOf(e) THEN Free ELSE fdt[f],
           FdOf(e)' \notin Fds,
           \A d \in Ends : d # e => FdOf(d)' = FdOf(d)
    PROVE  Agree'
<1> SUFFICES ASSUME NEW d \in Ends, NEW f \in Fds PROVE fdt'[f] = d <=> FdOf(d)' = f
  BY DEF Agree
<1>1. Free # d /\ Free # e
  BY FdsAre
<1>2. fdt[f] = d <=> FdOf(d) = f
  BY DEF Agree
<1>3. fdt[f] = e <=> FdOf(e) = f
  BY DEF Agree
<1> QED  BY <1>1, <1>2, <1>3

\* A step that opens nothing and fills no inbox keeps that.
LEMMA QuietReached ==
    ASSUME Reached, fdt' = fdt, Quiet
    PROVE  Reached'
BY DEF Reached, Quiet

\* A thread that only moves keeps the ground invariant.
LEMMA MovesGround ==
    ASSUME Ground, NEW c \in Clients, Moves(c), Net', Quiet
    PROVE  Ground'
<1> USE DEF Ground
<1>1. Local'
  BY DEF Moves, Local
<1>2. ~Handed(c) /\ ~Handed(c)' /\ \A d \in Clients : Handed(d)' = Handed(d)
  BY DEF Moves, Phases, Handed, Working
<1>3. \A e \in Ends : FdOf(e)' = FdOf(e)
  <2> SUFFICES ASSUME NEW d \in Clients
               PROVE  /\ FdOf(<<"server", d>>)' = FdOf(<<"server", d>>)
                      /\ FdOf(<<"client", d>>)' = FdOf(<<"client", d>>)
    BY EndIs, Zenon
  <2>1. main' = main /\ cell' = cell
    BY DEF Moves
  <2>2. CASE d = c
    BY <1>2, <2>1, <2>2 DEF FdOf, Moves, Working
  <2>3. CASE d # c
    BY <1>2, <2>1, <2>3 DEF FdOf, Moves
  <2> QED  BY <2>2, <2>3
<1>4. Agree' /\ Reached'
  BY <1>3, SameHolders, QuietReached DEF Moves
<1>5. Phases'
  <2>1. /\ main' = main /\ cell' = cell /\ peer' = peer
        /\ \A d \in Clients : d # c => thread'[d] = thread[d]
    BY DEF Moves, Quiet
  <2>2. ~(main.pc = "create" /\ main.last = c)
    BY <1>2 DEF Handed
  <2>3. /\ main.pc = "accept" => main.cip \in Cells /\ cell[main.cip] = NoFd
        /\ main.pc = "create" => /\ main.cip \in Cells /\ cell[main.cip] \in Fds
                                 /\ main.last \in Clients
                                 /\ thread'[main.last].pc = "none"
    BY <2>1, <2>2 DEF Phases
  <2>4. /\ thread'[c].pc \in Working /\ thread[c].pc \in Working
        /\ thread[c].pc \in Serving <=> thread'[c].pc \in Serving
        /\ thread'[c].connfd = thread[c].connfd
        /\ thread'[c].clientfd = thread[c].clientfd
    BY DEF Moves
  <2>5. "start" \notin Working /\ "none" \notin Working
    BY DEF Working
  <2> QED  BY <1>2, <2>1, <2>3, <2>4, <2>5 DEF Phases
<1> QED  BY <1>1, <1>4, <1>5

\* So does the allocation of a cell for the next descriptor,
LEMMA MallocGround ==
    ASSUME Ground, NEW a \in Cells, Malloc(a)
    PROVE  Ground'
<1> USE DEF Ground
<1>1. /\ main.pc = "malloc" /\ cell[a] = Freed
      /\ cell' = [cell EXCEPT ![a] = NoFd]
      /\ main' = [main EXCEPT !.pc = "accept", !.cip = a]
      /\ UNCHANGED <<fdt, net, thread, status>>
  BY DEF Malloc, AtMain
<1>2. Local'
  BY <1>1 DEF Local
<1>3. Net' /\ Quiet
  BY <1>1, Unread
<1>4. /\ main'.pc = "accept" /\ main'.cip = a /\ cell'[a] = NoFd
      /\ \A b \in Cells : b # a => cell'[b] = cell[b]
      /\ \A c \in Clients : ~Handed(c) /\ ~Handed(c)'
  BY <1>1 DEF Local, Handed
<1>5. \A c \in Clients : thread[c].pc = "start" => thread[c].arg # a
  BY <1>1, FdsAre DEF Phases
<1>6. Phases'
  BY <1>1, <1>4, <1>5 DEF Phases, net
<1>7. \A e \in Ends : FdOf(e)' = FdOf(e)
  <2> SUFFICES ASSUME NEW d \in Clients
               PROVE  /\ FdOf(<<"server", d>>)' = FdOf(<<"server", d>>)
                      /\ FdOf(<<"client", d>>)' = FdOf(<<"client", d>>)
    BY EndIs, Zenon
  <2> QED  BY <1>1, <1>4, <1>5 DEF FdOf, Phases
<1>8. Agree' /\ Reached'
  BY <1>1, <1>3, <1>7, SameHolders, QuietReached
<1> QED  BY <1>2, <1>3, <1>6, <1>8

\* the acceptance of a client,
LEMMA AcceptGround ==
    ASSUME Ground, NEW c \in Clients, Accept(c)
    PROVE  Ground'
<1> USE DEF Ground
<1> DEFINE e == <<"client", c>>
<1>0. e \in Ends
  BY EndsAre
<1>1. /\ main.pc = "accept" /\ peer[e] = "none"
      /\ peer' = [peer EXCEPT ![e] = "open"]
      /\ fdt' = [fdt EXCEPT ![NewFd] = e]
      /\ cell' = [cell EXCEPT ![main.cip] = NewFd]
      /\ main' = [main EXCEPT !.pc = "create", !.last = c]
      /\ UNCHANGED <<outbox, thread, status>>
  BY DEF Accept, AtMain
<1>2. /\ thread[c].pc = "none" /\ thread[c].connfd \notin Fds
      /\ \A d \in Clients : ~Handed(d)
      /\ main.cip \in Cells /\ cell[main.cip] = NoFd
  BY <1>1 DEF Phases, Handed, Working
<1>3. FdOf(e) \notin Fds
  BY <1>2, FdOfAt
<1>4. NewFd \in Fds /\ fdt[NewFd] = Free
  BY <1>0, <1>3, NewFdIsFree DEF Local
<1> HIDE DEF e
<1>5. Local'
  BY <1>0, <1>1, <1>2, <1>4 DEF Local
<1>6. Net'
  <2>1. PICK r \in Requests(c) : /\ said' = [said EXCEPT ![e] = r]
                                 /\ inbox' = [inbox EXCEPT ![e] = r]
    BY DEF Accept, e
  <2>2. r \in Seq(Items) /\ r \in Messages(e[2])
    BY MessagesType DEF Messages, e
  <2>3. IsSuffix(r, r)
    BY <2>2, SuffixSelf
  <2>4. /\ said' \in [Ends -> Seq(Items)] /\ inbox' \in [Ends -> Seq(Items)]
        /\ \A d \in Ends : /\ said'[d] = IF d = e THEN r ELSE said[d]
                           /\ inbox'[d] = IF d = e THEN r ELSE inbox[d]
    BY <1>0, <2>1, <2>2 DEF Net
  <2>5. \A d \in Ends : /\ said'[d] \in Messages(d[2]) \union {<<>>}
                        /\ IsSuffix(inbox'[d], said'[d])
    BY <2>2, <2>3, <2>4 DEF Net
  <2> QED  BY <1>0, <1>1, <2>4, <2>5 DEF Net
<1>7. /\ main'.pc = "create" /\ main'.cip = main.cip /\ main'.last = c
      /\ cell'[main.cip] = NewFd
      /\ \A b \in Cells : b # main.cip => cell'[b] = cell[b]
      /\ \A d \in Clients : Handed(d)' <=> d = c
      /\ \A d \in Clients : thread[d].pc = "start" => thread[d].arg # main.cip
  BY <1>1, <1>2, FdsAre DEF Local, Phases, Handed
<1>8. Phases'
  <2>1. \A d \in Clients : thread[d].pc # "none" \/ d = c
                             => peer'[<<"client", d>>] # "none"
    <3>1. \A d \in Ends : peer'[d] = IF d = e THEN "open" ELSE peer[d]
      BY <1>0, <1>1 DEF Net
    <3> QED  BY <3>1, EndsAre DEF Phases, e
  <2> QED  BY <1>1, <1>2, <1>4, <1>7, <2>1 DEF Phases
<1>9. Agree'
  <2>1. FdOf(e)' = NewFd
    BY <1>1, <1>7 DEF FdOf, e
  <2>2. \A d \in Ends : d # e => FdOf(d)' = FdOf(d)
    <3> SUFFICES ASSUME NEW d \in Clients
                 PROVE  /\ FdOf(<<"server", d>>)' = FdOf(<<"server", d>>)
                        /\ d # c => FdOf(<<"client", d>>)' = FdOf(<<"client", d>>)
      BY EndIs, Zenon DEF e
    <3> QED  BY <1>1, <1>2, <1>7 DEF FdOf, Phases
  <2>3. \A f \in Fds : fdt'[f] = IF f = NewFd THEN e ELSE fdt[f]
    BY <1>1 DEF Local
  <2> HIDE DEF Ground
  <2> QED  BY <1>0, <1>3, <1>4, <2>1, <2>2, <2>3, Opened DEF Ground
<1>10. Reached'
  <2>1. \A f \in Fds : fdt'[f] = IF f = NewFd THEN e ELSE fdt[f]
    BY <1>1 DEF Local
  <2>2. \A d \in Ends : d # e => inbox'[d] = inbox[d] /\ peer'[d] = peer[d]
    <3>1. PICK r \in Requests(c) : inbox' = [inbox EXCEPT ![e] = r]
      BY DEF Accept, e
    <3> QED  BY <1>1, <3>1 DEF Net
  <2> QED  BY <1>4, <2>1, <2>2, FdsAre DEF Reached
<1> QED  BY <1>5, <1>6, <1>8, <1>9, <1>10

\* the creation of its thread,
LEMMA CreateGround ==
    ASSUME Ground, Create
    PROVE  Ground'
<1> USE DEF Ground
<1> DEFINE c == main.last
           u == [thread[c] EXCEPT !.pc = "start", !.arg = main.cip]
<1>1. /\ main.pc = "create"
      /\ main' = [main EXCEPT !.pc = "malloc", !.cip = Nobody]
      /\ UNCHANGED <<cell, fdt, net, status>>
  BY DEF Create, AtMain
<1>2. /\ c \in Clients /\ thread[c].pc = "none" /\ thread[c] \in Threads
      /\ main.cip \in Cells /\ cell[main.cip] \in Fds
  BY <1>1 DEF Phases, Local
<1>3. thread' = [thread EXCEPT ![c] = u]
  <2>1. thread' = [thread EXCEPT ![c].pc = "start", ![c].arg = main.cip]
    BY DEF Create
  <2> QED  BY <1>2, <2>1 DEF Local
<1>4. /\ u \in Threads /\ u.pc = "start" /\ u.arg = main.cip
      /\ u.connfd = thread[c].connfd /\ u.clientfd = thread[c].clientfd
  BY <1>2 DEF Threads, Pcs
<1> HIDE DEF u
<1>5. /\ thread' \in [Clients -> Threads] /\ thread'[c] = u
      /\ \A d \in Clients : d # c => thread'[d] = thread[d]
  BY <1>2, <1>3, <1>4, ThreadType
<1>6. Local'
  BY <1>1, <1>5 DEF Local
<1>7. Net' /\ Quiet
  BY <1>1, Unread
<1>8. /\ main'.pc = "malloc"
      /\ \A d \in Clients : ~Handed(d)' /\ (Handed(d) <=> d = c)
  BY <1>1 DEF Local, Handed
<1>9. Phases'
  <2>1. ~(thread'[c].pc \in Working) /\ ~(thread[c].pc \in Working)
        /\ ~(thread'[c].pc \in Serving) /\ ~(thread[c].pc \in Serving)
    BY <1>2, <1>4, <1>5 DEF Working, Serving
  <2> QED  BY <1>1, <1>2, <1>4, <1>5, <1>8, <2>1 DEF Phases, net
<1>10. \A e \in Ends : FdOf(e)' = FdOf(e)
  <2> SUFFICES ASSUME NEW d \in Clients
               PROVE  /\ FdOf(<<"server", d>>)' = FdOf(<<"server", d>>)
                      /\ FdOf(<<"client", d>>)' = FdOf(<<"client", d>>)
    BY EndIs, Zenon
  <2> QED  BY <1>1, <1>2, <1>4, <1>5, <1>8 DEF FdOf
<1>11. Agree' /\ Reached'
  BY <1>1, <1>7, <1>10, SameHolders, QuietReached
<1> QED  BY <1>6, <1>7, <1>9, <1>11

\* the thread's first step, which reads the cell and frees it,
LEMMA StartGround ==
    ASSUME Ground, NEW c \in Clients, Start(c)
    PROVE  Ground'
<1> USE DEF Ground
<1> DEFINE a == thread[c].arg
           u == [thread[c] EXCEPT !.pc = "reqline", !.arg = Nobody, !.connfd = cell[a]]
<1>1. /\ thread[c].pc = "start"
      /\ cell' = [cell EXCEPT ![a] = Freed]
      /\ UNCHANGED <<main, fdt, net, status>>
  BY DEF Start, At
<1>2. /\ thread[c] \in Threads /\ a \in Cells /\ cell[a] \in Fds
      /\ thread[c].clientfd = NoFd
  BY <1>1 DEF Phases, Local, Serving
<1>3. thread' = [thread EXCEPT ![c] = u]
  <2>1. thread' = [thread EXCEPT ![c].pc = "reqline", ![c].arg = Nobody, ![c].connfd = cell[a]]
    BY DEF Start
  <2> QED  BY <1>2, <2>1 DEF Local
<1>4. /\ u \in Threads /\ u.pc = "reqline"
      /\ u.connfd = cell[a] /\ u.clientfd = thread[c].clientfd
  BY <1>2 DEF Threads, Pcs
<1> HIDE DEF u
<1>5. /\ thread' \in [Clients -> Threads] /\ thread'[c] = u
      /\ \A d \in Clients : d # c => thread'[d] = thread[d]
  BY <1>3, <1>4, ThreadType
<1>6. Local'
  BY <1>1, <1>5 DEF Local
<1>7. Net' /\ Quiet
  BY <1>1, Unread
<1>8. /\ ~Handed(c)
      /\ \A d \in Clients : Handed(d)' = Handed(d)
      /\ \A b \in Cells : b # a => cell'[b] = cell[b]
  BY <1>1 DEF Local, Handed, Phases
\* Nobody else's descriptor is in the cell that is freed.
<1>9. ASSUME NEW d \in Clients, d # c
      PROVE  /\ thread[d].pc = "start" => thread[d].arg # a
             /\ Handed(d) => main.cip # a
  <2>1. FdOf(<<"client", c>>) = cell[a]
    BY <1>1, <1>8, FdOfAt
  <2>2. fdt[cell[a]] = <<"client", c>> /\ fdt[cell[a]] # <<"client", d>>
    <3>1. \A e \in Ends, f \in Fds : fdt[f] = e <=> FdOf(e) = f
      BY DEF Agree
    <3>2. <<"client", c>> \in Ends /\ <<"client", c>> # <<"client", d>>
      BY <1>9, EndsAre
    <3> QED  BY <1>2, <2>1, <3>1, <3>2
  <2>3. FdOf(<<"client", d>>) # cell[a]
    BY <1>2, <2>2, EndsAre, ZenonT(30) DEF Agree
  <2>4. thread[d].pc = "start" => ~Handed(d)
    BY DEF Handed, Phases
  <2> QED  BY <2>3, <2>4, FdOfAt
<1>10. main.pc = "create" => main.cip # a
  BY <1>8, <1>9 DEF Handed, Phases
<1>11. main.pc = "accept" => main.cip # a
  BY <1>2, FdsAre DEF Phases
<1>12. Phases'
  <2>1. /\ main'.pc = "accept" => main'.cip \in Cells /\ cell'[main'.cip] = NoFd
        /\ main'.pc = "create" => /\ main'.cip \in Cells /\ cell'[main'.cip] \in Fds
                                  /\ main'.last \in Clients
                                  /\ thread'[main'.last].pc = "none"
    BY <1>1, <1>5, <1>8, <1>10, <1>11 DEF Phases, Handed
  <2>2. "reqline" \in Working /\ "reqline" \notin Serving
    BY DEF Working, Serving, Pcs
  <2>3. \A d \in Clients : d # c => thread'[d] = thread[d]
    BY <1>5
  <2>4. \A d \in Clients : d # c /\ thread[d].pc = "start"
                             => thread[d].arg \in Cells /\ cell'[thread[d].arg] \in Fds
    BY <1>8, <1>9 DEF Phases
  <2>5. peer[<<"client", c>>] # "none" /\ peer' = peer
    BY <1>1 DEF Phases, net
  <2> QED  BY <1>2, <1>4, <1>5, <1>8, <2>1, <2>2, <2>3, <2>4, <2>5 DEF Phases
<1>13. \A e \in Ends : FdOf(e)' = FdOf(e)
  <2> SUFFICES ASSUME NEW d \in Clients
               PROVE  /\ FdOf(<<"server", d>>)' = FdOf(<<"server", d>>)
                      /\ FdOf(<<"client", d>>)' = FdOf(<<"client", d>>)
    BY EndIs, Zenon
  <2>1. CASE d = c
    BY <1>1, <1>2, <1>4, <1>5, <1>8, <2>1 DEF FdOf
  <2>2. CASE d # c
    <3>1. thread'[d] = thread[d] /\ main' = main
      BY <1>1, <1>5, <2>2
    <3>2. Handed(d) => cell'[main.cip] = cell[main.cip]
      BY <1>8, <1>9, <2>2 DEF Handed, Phases
    <3>3. thread[d].pc = "start" => cell'[thread[d].arg] = cell[thread[d].arg]
      BY <1>8, <1>9, <2>2 DEF Phases
    <3> QED  BY <1>8, <3>1, <3>2, <3>3 DEF FdOf
  <2> QED  BY <2>1, <2>2
<1>14. Agree' /\ Reached'
  BY <1>1, <1>7, <1>13, SameHolders, QuietReached
<1> QED  BY <1>6, <1>7, <1>12, <1>14

\* A thread in its line of work, and what changes when it opens or closes.
LEMMA Keeps ==
    ASSUME Ground, NEW c \in Clients, thread[c].pc \in Working, UNCHANGED <<main, cell>>,
           \A d \in Clients : d # c => thread'[d] = thread[d],
           thread'[c].pc \in Working \union {"done"},
           thread'[c].pc \in Working <=> thread'[c].connfd \in Fds,
           thread'[c].pc \in Serving => thread'[c].clientfd \in Fds \union {BadFd},
           thread'[c].pc \notin Serving => thread'[c].clientfd = NoFd,
           \A e \in Ends : peer'[e] = "none" => peer[e] = "none"
    PROVE  /\ Phases'
           /\ \A d \in Clients : d # c => /\ FdOf(<<"server", d>>)' = FdOf(<<"server", d>>)
                                          /\ FdOf(<<"client", d>>)' = FdOf(<<"client", d>>)
           /\ FdOf(<<"server", c>>) = thread[c].clientfd
           /\ FdOf(<<"server", c>>)' = thread'[c].clientfd
           /\ FdOf(<<"client", c>>) = thread[c].connfd
           /\ FdOf(<<"client", c>>)' = thread'[c].connfd
<1>1. "start" \notin Working /\ "none" \notin Working
  BY DEF Working
<1>2. ~Handed(c) /\ ~Handed(c)' /\ \A d \in Clients : Handed(d)' = Handed(d)
  BY <1>1 DEF Ground, Phases, Handed
<1>3. main' = main /\ cell' = cell
  OBVIOUS
<1>4. /\ main.pc = "accept" => main.cip \in Cells /\ cell[main.cip] = NoFd
      /\ main.pc = "create" => /\ main.cip \in Cells /\ cell[main.cip] \in Fds
                               /\ main.last \in Clients
                               /\ thread'[main.last].pc = "none"
  BY <1>2 DEF Ground, Phases, Handed
<1>5. \A d \in Clients : peer[<<"client", d>>] # "none" => peer'[<<"client", d>>] # "none"
  BY EndsAre
<1>6. peer[<<"client", c>>] # "none"
  BY <1>1 DEF Ground, Phases
<1>7. Phases'
  BY <1>1, <1>2, <1>3, <1>4, <1>5, <1>6 DEF Ground, Phases
<1>8. \A d \in Clients : d # c => /\ FdOf(<<"server", d>>)' = FdOf(<<"server", d>>)
                                  /\ FdOf(<<"client", d>>)' = FdOf(<<"client", d>>)
  BY <1>2, <1>3 DEF FdOf
<1>9. /\ FdOf(<<"server", c>>) = thread[c].clientfd
      /\ FdOf(<<"server", c>>)' = thread'[c].clientfd
      /\ FdOf(<<"client", c>>) = thread[c].connfd
      /\ FdOf(<<"client", c>>)' = thread'[c].connfd
  BY <1>1, <1>2 DEF FdOf
<1> QED  BY <1>7, <1>8, <1>9

\* the connection to the server,
LEMMA ConnectGround ==
    ASSUME Ground, NEW c \in Clients, Connect(c)
    PROVE  Ground'
<1> USE DEF Ground
<1> DEFINE e == <<"server", c>>
           u == [thread[c] EXCEPT !.pc = "headers", !.clientfd = NewFd]
<1>0. e \in Ends
  BY EndsAre
<1>1. /\ thread[c].pc = "connect"
      /\ fdt' = [fdt EXCEPT ![NewFd] = e]
      /\ peer' = [peer EXCEPT ![e] = "open"]
      /\ outbox' = [outbox EXCEPT ![e] = <<Item("first", 0, c)>>]
      /\ UNCHANGED <<main, cell, said, inbox, status>>
  BY DEF Connect, At
<1>2. thread[c] \in Threads /\ thread[c].clientfd = NoFd /\ thread[c].pc \in Working
  BY <1>1 DEF Phases, Local, Serving, Working, Pcs
<1>3. FdOf(e) \notin Fds
  BY <1>2, FdOfAt, FdsAre
<1>4. NewFd \in Fds /\ fdt[NewFd] = Free
  BY <1>0, <1>3, NewFdIsFree DEF Local
<1>5. thread' = [thread EXCEPT ![c] = u]
  <2>1. thread' = [thread EXCEPT ![c].pc = "headers", ![c].clientfd = NewFd]
    BY DEF Connect
  <2> QED  BY <1>2, <2>1 DEF Local
<1> HIDE DEF e
<1>6. u \in Threads /\ u.pc = "headers" /\ u.connfd = thread[c].connfd /\ u.clientfd = NewFd
  BY <1>2, <1>4 DEF Threads, Pcs
<1> HIDE DEF u
<1>7. /\ thread' \in [Clients -> Threads] /\ thread'[c] = u
      /\ \A d \in Clients : d # c => thread'[d] = thread[d]
  BY <1>5, <1>6, ThreadType
<1>8. Local'
  BY <1>0, <1>1, <1>4, <1>7 DEF Local
<1>9. Net'
  <2>1. <<Item("first", 0, c)>> \in Seq(Items)
    BY DEF Item, Items, Kinds
  <2>2. outbox' \in [Ends -> Seq(Items)] /\ peer' \in [Ends -> {"none", "open", "closed"}]
    BY <1>0, <1>1, <2>1 DEF Net
  <2> QED  BY <1>1, <2>2 DEF Net
<1>10. \A d \in Ends : peer'[d] = "none" => peer[d] = "none"
  BY <1>1 DEF Net
<1>11. /\ u.pc \in Working /\ u.pc \in Serving /\ u.connfd \in Fds
  BY <1>2, <1>6 DEF Phases, Working, Serving, Pcs
<1>12. /\ Phases'
       /\ \A d \in Clients : d # c => /\ FdOf(<<"server", d>>)' = FdOf(<<"server", d>>)
                                      /\ FdOf(<<"client", d>>)' = FdOf(<<"client", d>>)
       /\ FdOf(<<"server", c>>)' = NewFd
       /\ FdOf(<<"client", c>>) = thread[c].connfd
       /\ FdOf(<<"client", c>>)' = thread[c].connfd
  <2> HIDE DEF Ground
  <2>1. UNCHANGED <<main, cell>>
    BY <1>1
  <2> QED  BY <1>2, <1>4, <1>6, <1>7, <1>10, <1>11, <2>1, Keeps
<1>13. Agree'
  <2>1. FdOf(e)' = NewFd
    BY <1>12 DEF e
  <2>2. \A d \in Ends : d # e => FdOf(d)' = FdOf(d)
    BY <1>12, EndIs DEF e
  <2>3. \A f \in Fds : fdt'[f] = IF f = NewFd THEN e ELSE fdt[f]
    BY <1>1 DEF Local
  <2> HIDE DEF Ground
  <2> QED  BY <1>0, <1>3, <1>4, <2>1, <2>2, <2>3, Opened DEF Ground
<1>14. Reached'
  <2>1. \A f \in Fds : fdt'[f] = IF f = NewFd THEN e ELSE fdt[f]
    BY <1>1 DEF Local
  <2>2. \A d \in Ends : d # e => inbox'[d] = inbox[d] /\ peer'[d] = peer[d]
    BY <1>1 DEF Net
  <2> QED  BY <1>4, <2>1, <2>2, FdsAre DEF Reached
<1> QED  BY <1>8, <1>9, <1>12, <1>13, <1>14

\* and a name that cannot be resolved.
LEMMA ResolveFailsGround ==
    ASSUME Ground, NEW c \in Clients, ResolveFails(c)
    PROVE  Ground'
<1> USE DEF Ground
<1> DEFINE u == [thread[c] EXCEPT !.pc = "headers", !.clientfd = BadFd]
<1>1. thread[c].pc = "connect" /\ UNCHANGED <<main, cell, fdt, net, status>>
  BY DEF ResolveFails, At
<1>2. thread[c] \in Threads /\ thread[c].clientfd = NoFd /\ thread[c].pc \in Working
  BY <1>1 DEF Phases, Local, Serving, Working, Pcs
<1>3. thread' = [thread EXCEPT ![c] = u]
  <2>1. thread' = [thread EXCEPT ![c].pc = "headers", ![c].clientfd = BadFd]
    BY DEF ResolveFails
  <2> QED  BY <1>2, <2>1 DEF Local
<1>4. u \in Threads /\ u.pc = "headers" /\ u.connfd = thread[c].connfd /\ u.clientfd = BadFd
  BY <1>2 DEF Threads, Pcs
<1> HIDE DEF u
<1>5. /\ thread' \in [Clients -> Threads] /\ thread'[c] = u
      /\ \A d \in Clients : d # c => thread'[d] = thread[d]
  BY <1>3, <1>4, ThreadType
<1>6. Local' /\ Net' /\ Quiet
  BY <1>1, <1>5, Unread DEF Local
<1>7. /\ u.pc \in Working /\ u.pc \in Serving /\ u.connfd \in Fds
  BY <1>2, <1>4 DEF Phases, Working, Serving, Pcs
<1>8. /\ Phases'
      /\ \A d \in Clients : d # c => /\ FdOf(<<"server", d>>)' = FdOf(<<"server", d>>)
                                     /\ FdOf(<<"client", d>>)' = FdOf(<<"client", d>>)
      /\ FdOf(<<"server", c>>) = NoFd
      /\ FdOf(<<"server", c>>)' = BadFd
      /\ FdOf(<<"client", c>>) = thread[c].connfd
      /\ FdOf(<<"client", c>>)' = thread[c].connfd
  <2> HIDE DEF Ground
  <2>1. UNCHANGED <<main, cell>> /\ peer' = peer
    BY <1>1 DEF net
  <2> QED  BY <1>2, <1>4, <1>5, <1>7, <2>1, Keeps
<1>9. \A e \in Ends, f \in Fds : FdOf(e)' = f <=> FdOf(e) = f
  BY <1>8, EndIs, FdsAre
<1>10. Agree' /\ Reached'
  BY <1>1, <1>6, <1>9, SameHolders, QuietReached
<1> QED  BY <1>6, <1>8, <1>10

\* What a thread is before it is created.
LEMMA IdleType ==
    /\ Idle \in Threads
    /\ Idle.pc = "none" /\ Idle.connfd = NoFd /\ Idle.clientfd = NoFd
<1>1. BodyLenInit \in Int
  BY SMT DEF BodyLenInit
<1> QED  BY <1>1 DEF Idle, Threads, Pcs, NoFd

\* Closing the server's descriptor keeps the ground invariant,
LEMMA CloseServerGround ==
    ASSUME Ground, NEW c \in Clients, CloseServer(c) \/ Bail(c)
    PROVE  Ground' /\ thread[c].pc \in Early /\ thread'[c].pc \in {"lock", "close"}
<1> USE DEF Ground
<1> DEFINE e == <<"server", c>>
<1>0. e \in Ends
  BY EndsAre
<1>1. PICK to \in {"lock", "close"} :
        thread' = [thread EXCEPT ![c].pc = to, ![c].clientfd = NoFd]
  BY DEF CloseServer, Bail
<1> DEFINE u == [thread[c] EXCEPT !.pc = to, !.clientfd = NoFd]
<1>2. /\ thread[c].pc \in Serving
      /\ Close(thread[c].clientfd)
      /\ UNCHANGED <<main, cell, said, outbox>>
  BY DEF CloseServer, Bail, At, Serving
<1>3. thread[c] \in Threads /\ thread[c].pc \in Working
  BY <1>2 DEF Local, Serving, Working, Pcs
<1>4. thread' = [thread EXCEPT ![c] = u]
  BY <1>1, <1>3 DEF Local
<1>5. u \in Threads /\ u.pc = to /\ u.connfd = thread[c].connfd /\ u.clientfd = NoFd
  <2>1. to \in Pcs
    BY DEF Pcs
  <2> HIDE DEF Ground
  <2> QED  BY <1>3, <2>1 DEF Threads
<1> HIDE DEF u
<1>6. /\ thread' \in [Clients -> Threads] /\ thread'[c] = u
      /\ \A d \in Clients : d # c => thread'[d] = thread[d]
  BY <1>4, <1>5, ThreadType
<1>7. /\ u.pc \in Working /\ u.pc \notin Serving /\ u.connfd \in Fds
  BY <1>3, <1>5 DEF Phases, Working, Serving, Pcs
<1>8. Local'
  <2>1. main' = main /\ cell' = cell
    BY <1>2
  <2> QED  BY <1>2, <1>6, <2>1, Closed DEF Local
<1>9. Net'
  <2>1. /\ peer' \in [Ends -> {"none", "open", "closed"}]
        /\ inbox' \in [Ends -> Seq(Items)]
        /\ \A d \in Ends : inbox'[d] = inbox[d] \/ inbox'[d] = <<>>
    BY <1>2, Closed
  <2>2. \A d \in Ends : IsSuffix(inbox'[d], said'[d])
    BY <1>2, <2>1, SuffixEmpty DEF Net
  <2> QED  BY <1>2, <2>1, <2>2 DEF Net
<1>10. Reached'
  BY <1>2, ClosedReached
<1>11. \A d \in Ends : peer'[d] = "none" => peer[d] = "none"
  BY <1>2, Closed
<1>12. /\ Phases'
       /\ \A d \in Clients : d # c => /\ FdOf(<<"server", d>>)' = FdOf(<<"server", d>>)
                                      /\ FdOf(<<"client", d>>)' = FdOf(<<"client", d>>)
       /\ FdOf(<<"server", c>>) = thread[c].clientfd
       /\ FdOf(<<"server", c>>)' = NoFd
       /\ FdOf(<<"client", c>>) = thread[c].connfd
       /\ FdOf(<<"client", c>>)' = thread[c].connfd
  <2> HIDE DEF Ground
  <2>1. UNCHANGED <<main, cell>>
    BY <1>2
  <2> QED  BY <1>3, <1>5, <1>6, <1>7, <1>11, <2>1, Keeps
<1>13. Agree'
  <2>1. \A f \in Fds : fdt'[f] = IF f = FdOf(e) THEN Free ELSE fdt[f]
    BY <1>2, <1>12, Closed
  <2>2. \A d \in Ends : d # e => FdOf(d)' = FdOf(d)
    BY <1>12, EndIs
  <2>3. FdOf(e)' \notin Fds
    BY <1>12, FdsAre
  <2> HIDE DEF e, Ground
  <2> QED  BY <1>0, <2>1, <2>2, <2>3, GivenUp DEF Ground
<1>14. thread[c].pc \in Early /\ thread'[c].pc \in {"lock", "close"}
  BY <1>2, <1>5, <1>6 DEF Early
<1> QED  BY <1>8, <1>9, <1>10, <1>12, <1>13, <1>14

\* and so does closing the client's, the thread's last step.
LEMMA CloseClientGround ==
    ASSUME Ground, NEW c \in Clients, CloseClient(c)
    PROVE  Ground' /\ thread[c].pc = "close" /\ thread'[c].pc = "done"
<1> USE DEF Ground
<1> DEFINE e == <<"client", c>>
           u == [Idle EXCEPT !.pc = "done"]
<1>0. e \in Ends
  BY EndsAre
<1>1. /\ thread[c].pc = "close" /\ Close(thread[c].connfd)
      /\ thread' = [thread EXCEPT ![c] = u]
      /\ said' = [d \in Ends |-> IF d[2] = c THEN <<>> ELSE said[d]]
      /\ outbox' = [d \in Ends |-> IF d[2] = c THEN <<>> ELSE outbox[d]]
      /\ UNCHANGED <<main, cell>>
  BY DEF CloseClient, At
<1>2. /\ thread[c].pc \in Working /\ thread[c].pc \notin Serving
      /\ thread[c].connfd \in Fds /\ thread[c].clientfd = NoFd
  BY <1>1 DEF Phases, Working, Serving, Pcs
<1>3. u \in Threads /\ u.pc = "done" /\ u.connfd = NoFd /\ u.clientfd = NoFd
  <2>1. "done" \in Pcs
    BY DEF Pcs
  <2> QED  BY <2>1, IdleType DEF Threads
<1> HIDE DEF u
<1>4. /\ thread' \in [Clients -> Threads] /\ thread'[c] = u
      /\ \A d \in Clients : d # c => thread'[d] = thread[d]
  BY <1>1, <1>3, ThreadType
<1>5. /\ u.pc \notin Working /\ u.pc \notin Serving /\ u.connfd \notin Fds
  BY <1>3, FdsAre DEF Working, Serving
<1>6. Local'
  <2>1. main' = main /\ cell' = cell
    BY <1>1
  <2> QED  BY <1>1, <1>4, <2>1, Closed DEF Local
<1>7. \A d \in Ends : peer'[d] = "none" => peer[d] = "none"
  BY <1>1, Closed
<1>8. /\ Phases'
      /\ \A d \in Clients : d # c => /\ FdOf(<<"server", d>>)' = FdOf(<<"server", d>>)
                                     /\ FdOf(<<"client", d>>)' = FdOf(<<"client", d>>)
      /\ FdOf(<<"server", c>>) = NoFd
      /\ FdOf(<<"server", c>>)' = NoFd
      /\ FdOf(<<"client", c>>) = thread[c].connfd
      /\ FdOf(<<"client", c>>)' = NoFd
  <2> HIDE DEF Ground
  <2>1. UNCHANGED <<main, cell>>
    BY <1>1
  <2> QED  BY <1>2, <1>3, <1>4, <1>5, <1>7, <2>1, Keeps
<1>9. fdt[thread[c].connfd] = e
  BY <1>0, <1>2, <1>8 DEF Agree
<1>10. Net'
  <2>1. IsOpen(thread[c].connfd)
    BY <1>2, <1>9, <1>0, FdsAre DEF IsOpen
  <2>2. /\ peer' \in [Ends -> {"none", "open", "closed"}]
        /\ inbox' \in [Ends -> Seq(Items)]
        /\ inbox'[e] = <<>>
        /\ \A d \in Ends : d # e => inbox'[d] = inbox[d]
    BY <1>0, <1>1, <1>9, <2>1, Closed
  <2>3. inbox'[<<"server", c>>] = <<>>
    <3>1. <<"server", c>> \in Ends /\ <<"server", c>> # e
      BY EndsAre
    <3>2. \A f \in Fds : fdt[f] # <<"server", c>>
      BY <1>8, <3>1, FdsAre DEF Agree
    <3> QED  BY <2>2, <3>1, <3>2 DEF Reached
  <2>4. \A d \in Ends : IF d[2] = c THEN inbox'[d] = <<>> /\ said'[d] = <<>>
                        ELSE inbox'[d] = inbox[d] /\ said'[d] = said[d]
    <3> SUFFICES ASSUME NEW d \in Ends
                 PROVE  IF d[2] = c THEN inbox'[d] = <<>> /\ said'[d] = <<>>
                        ELSE inbox'[d] = inbox[d] /\ said'[d] = said[d]
      OBVIOUS
    <3>1. said'[d] = IF d[2] = c THEN <<>> ELSE said[d]
      BY <1>1
    <3>2. CASE d[2] = c
      <4>1. d = e \/ d = <<"server", c>>
        BY <3>2, EndIs
      <4> QED  BY <2>2, <2>3, <3>1, <3>2, <4>1
    <3>3. CASE d[2] # c
      BY <2>2, <3>1, <3>3
    <3> QED  BY <3>2, <3>3
  <2>5. said' \in [Ends -> Seq(Items)] /\ outbox' \in [Ends -> Seq(Items)]
    BY <1>1, EmptyType DEF Net
  <2>6. \A d \in Ends : /\ said'[d] \in Messages(d[2]) \union {<<>>}
                        /\ IsSuffix(inbox'[d], said'[d])
    <3>1. IsSuffix(<<>>, <<>>)
      BY SuffixEmpty, EmptyType, Zenon
    <3> QED  BY <2>4, <3>1 DEF Net
  <2> QED  BY <2>2, <2>5, <2>6 DEF Net
<1>11. Reached'
  BY <1>1, ClosedReached
<1>12. Agree'
  <2>1. \A f \in Fds : fdt'[f] = IF f = FdOf(e) THEN Free ELSE fdt[f]
    BY <1>1, <1>8, Closed
  <2>2. \A d \in Ends : d # e => FdOf(d)' = FdOf(d)
    BY <1>8, EndIs
  <2>3. FdOf(e)' \notin Fds
    BY <1>8, FdsAre
  <2> HIDE DEF e, Ground
  <2> QED  BY <1>0, <2>1, <2>2, <2>3, GivenUp DEF Ground
<1> QED  BY <1>1, <1>3, <1>4, <1>6, <1>8, <1>10, <1>11, <1>12

\* The peers.
LEMMA PeersGround ==
    ASSUME Ground, Peers
    PROVE  Ground' /\ thread' = thread /\ log' = log /\ mutex' = mutex
<1> USE DEF Ground
<1>1. UNCHANGED <<main, cell, fdt, outbox, thread, mutex, log, status>>
  BY DEF Peers, Respond, PeerEnds, PeerCuts
<1>2. Local'
  BY <1>1 DEF Local
<1>3. Agree'
  <2>1. \A e \in Ends : FdOf(e)' = FdOf(e)
    BY <1>1 DEF FdOf, Handed
  <2> QED  BY <1>1, <2>1, SameHolders
<1>4. ASSUME NEW e \in Ends, peer[e] = "open", \A d \in Ends : d # e => peer'[d] = peer[d],
             peer'[e] \in {"open", "closed"}
      PROVE  Phases'
  <2>1. \A d \in Ends : peer'[d] = "none" => peer[d] = "none"
    BY <1>4
  <2>2. main' = main /\ cell' = cell /\ thread' = thread
    BY <1>1
  <2>3. \A c \in Clients : peer[<<"client", c>>] # "none" => peer'[<<"client", c>>] # "none"
    BY <2>1, EndsAre
  <2> QED  BY <2>2, <2>3 DEF Phases, Handed
<1>5. ASSUME NEW e \in Ends, peer[e] = "open",
             \A d \in Ends : d # e => peer'[d] = peer[d] /\ inbox'[d] = inbox[d]
      PROVE  Reached'
  BY <1>1, <1>5 DEF Reached
<1>6. ASSUME NEW c \in Clients, Respond(c)
      PROVE  Phases' /\ Reached' /\ Net'
  <2> DEFINE s == <<"server", c>>
  <2>0. s \in Ends
    BY EndsAre
  <2>1. PICK r \in Responses(c) :
          /\ said' = [said EXCEPT ![s] = r]
          /\ inbox' = [inbox EXCEPT ![s] = r]
          /\ peer' = [peer EXCEPT ![s] = IF Declared(r) = NoLength THEN "closed" ELSE @]
    BY <1>6 DEF Respond
  <2>2. peer[s] = "open"
    BY <1>6 DEF Respond
  <2>3. r \in Seq(Items) /\ r \in Messages(s[2])
    BY MessagesType DEF Messages
  <2> HIDE DEF s
  <2>4. /\ said' \in [Ends -> Seq(Items)] /\ inbox' \in [Ends -> Seq(Items)]
        /\ peer' \in [Ends -> {"none", "open", "closed"}]
        /\ peer'[s] \in {"open", "closed"}
        /\ said'[s] = r /\ inbox'[s] = r
        /\ \A d \in Ends : d # s => /\ said'[d] = said[d] /\ inbox'[d] = inbox[d]
                                    /\ peer'[d] = peer[d]
    BY <2>0, <2>1, <2>2, <2>3 DEF Net
  <2>5. IsSuffix(r, r)
    BY <2>3, SuffixSelf
  <2>6. Net'
    BY <1>1, <2>3, <2>4, <2>5 DEF Net
  <2> QED  BY <1>4, <1>5, <2>0, <2>2, <2>4, <2>6
<1>7. ASSUME NEW e \in Ends, PeerEnds(e)
      PROVE  Phases' /\ Reached' /\ Net'
  <2>1. /\ peer[e] = "open" /\ peer' = [peer EXCEPT ![e] = "closed"]
        /\ UNCHANGED <<said, inbox, outbox>>
    BY <1>7 DEF PeerEnds
  <2>2. /\ peer' \in [Ends -> {"none", "open", "closed"}]
        /\ peer'[e] = "closed"
        /\ \A d \in Ends : d # e => peer'[d] = peer[d]
    BY <2>1 DEF Net
  <2>3. Net'
    BY <2>1, <2>2 DEF Net
  <2> QED  BY <1>4, <1>5, <2>1, <2>2, <2>3
<1>8. ASSUME NEW e \in Ends, PeerCuts(e)
      PROVE  Phases' /\ Reached' /\ Net'
  <2>1. /\ peer[e] = "open" /\ peer' = [peer EXCEPT ![e] = "closed"]
        /\ inbox' = [inbox EXCEPT ![e] = <<>>]
        /\ UNCHANGED <<said, outbox>>
    BY <1>8 DEF PeerCuts
  <2>2. /\ peer' \in [Ends -> {"none", "open", "closed"}]
        /\ peer'[e] = "closed"
        /\ \A d \in Ends : d # e => peer'[d] = peer[d] /\ inbox'[d] = inbox[d]
    BY <2>1 DEF Net
  <2>3. Net'
    <3>1. /\ inbox' \in [Ends -> Seq(Items)]
          /\ \A d \in Ends : IsSuffix(inbox'[d], said'[d])
      BY <2>1, InboxDropped
    <3> QED  BY <2>1, <2>2, <3>1 DEF Net
  <2> QED  BY <1>4, <1>5, <2>1, <2>2, <2>3
<1>9. Phases' /\ Reached' /\ Net'
  BY <1>6, <1>7, <1>8 DEF Peers
<1> QED  BY <1>1, <1>2, <1>3, <1>9

-----------------------------------------------------------------------------
(* The mutex and the log. *)
\* A step of c that does not write.
Silent(c) ==
  /\ log' = log
  /\ \A d \in Clients : d # c => thread'[d] = thread[d]
  /\ \/ thread[c].pc \in Early \union {"lock"}
     \/ thread'[c].pc \in {"close", "done"}
  /\ thread'[c].pc # "write2"

\* A step that writes no entry keeps what is known of the log.
LEMMA SilentLogged ==
    ASSUME Logged, NEW c \in Clients, Silent(c)
    PROVE  Logged'
<1>1. /\ log' = log /\ DOMAIN log' = DOMAIN log
      /\ \A d \in Clients : d # c => thread'[d] = thread[d]
  BY DEF Silent
<1>2. \A i \in DOMAIN log : log[i] \in Entries /\ log[i].of \in Clients
  <2>1. log \in Seq(Entries)
    BY DEF Logged
  <2>2. \A i \in DOMAIN log : log[i] \in Entries
    BY <2>1
  <2> QED  BY <2>2 DEF Entries
<1>3. \A i \in DOMAIN log :
        LET pc == thread'[log[i].of].pc
        IN /\ pc \notin Early \union {"lock", "write1"}
           /\ log[i].part = 2 => pc # "write2"
  <2> SUFFICES ASSUME NEW i \in DOMAIN log
               PROVE  LET pc == thread'[log[i].of].pc
                      IN /\ pc \notin Early \union {"lock", "write1"}
                         /\ log[i].part = 2 => pc # "write2"
    OBVIOUS
  <2>1. CASE log[i].of # c
    BY <1>1, <1>2, <2>1 DEF Logged
  <2>2. CASE log[i].of = c
    <3>1. thread[c].pc \notin Early \union {"lock"}
      BY <2>2 DEF Logged
    <3>2. thread'[c].pc \in {"close", "done"}
      BY <3>1 DEF Silent
    <3>3. "close" \notin Early \union {"lock", "write1"}
          /\ "done" \notin Early \union {"lock", "write1"}
      BY DEF Early, Serving
    <3> QED  BY <2>2, <3>2, <3>3
  <2> QED  BY <2>1, <2>2
<1>4. \A d \in Clients :
        thread'[d].pc = "write2"
          => log # <<>> /\ log[Len(log)] = [of |-> d, size |-> thread'[d].recv, part |-> 1]
  BY <1>1 DEF Logged, Silent
<1>5. LogWhole'
  <2>1. LogWhole
    BY DEF Logged
  <2> QED  BY <1>1, <2>1 DEF LogWhole
<1> QED  BY <1>1, <1>3, <1>4, <1>5 DEF Logged

\* A thread outside the critical section leaves the mutex to its holder.
LEMMA OutsideLocked ==
    ASSUME Locked, NEW c \in Clients, mutex' = mutex,
           \A d \in Clients : d # c => thread'[d] = thread[d],
           thread'[c].pc \notin Critical
    PROVE  Locked'
BY DEF Locked

\* Locking, writing and unlocking keep one holder at most.
LEMMA LoggingLocked ==
    ASSUME Locked, NEW c \in Clients, Moves(c), Logging(c), Local
    PROVE  Locked'
<1>1. \A d \in Clients : d # c => thread'[d] = thread[d]
  BY DEF Moves
<1>2. CASE Lock(c)
  <2>1. mutex = 1 /\ mutex' = 0 /\ thread'[c].pc = "write1"
    <3>1. mutex > 0 /\ mutex' = mutex - 1 /\ Goto(c, "write1") /\ "write1" \in Pcs
      BY <1>2 DEF Lock, Pcs
    <3>2. thread'[c].pc = "write1"
      BY <3>1, GotoType
    <3> QED  BY <3>1, <3>2 DEF Locked
  <2>2. \A d \in Clients : thread[d].pc \notin Critical
    BY <2>1 DEF Locked
  <2> QED  BY <1>1, <2>1, <2>2 DEF Locked
<1>3. CASE WriteLog(c)
  <2>1. mutex' = mutex /\ thread[c].pc \in Critical
    BY <1>3 DEF WriteLog, At, Critical
  <2> QED  BY <1>1, <2>1 DEF Locked
<1>4. CASE Unlock(c)
  <2>1. mutex' = mutex + 1 /\ thread[c].pc = "unlock" /\ Goto(c, "close")
    BY <1>4 DEF Unlock, At
  <2>2. "close" \in Pcs /\ "close" \notin Critical /\ "unlock" \in Critical
    BY DEF Pcs, Critical
  <2>3. thread'[c].pc \notin Critical
    BY <2>1, <2>2, GotoType
  <2>4. mutex = 0 /\ mutex' = 1 /\ \A d \in Clients : d # c => thread[d].pc \notin Critical
    BY <2>1, <2>2 DEF Locked
  <2> QED  BY <1>1, <2>3, <2>4 DEF Locked
<1> QED  BY <1>2, <1>3, <1>4 DEF Logging

\* The two pieces of an entry.
LEMMA WriteLogged ==
    ASSUME Logged, Locked, Local, NEW c \in Clients, WriteLog(c), Moves(c),
           thread'[c].recv = thread[c].recv
    PROVE  Logged'
<1> DEFINE first == thread[c].pc = "write1"
           x == [of |-> c, size |-> thread[c].recv, part |-> IF first THEN 1 ELSE 2]
           n == Len(log)
<1>1. /\ log' = Append(log, x)
      /\ \/ thread[c].pc = "write1" /\ Goto(c, "write2")
         \/ thread[c].pc = "write2" /\ Goto(c, "unlock")
  BY DEF WriteLog, At
<1>2. /\ thread[c].pc \in {"write1", "write2"}
      /\ thread'[c].pc = IF first THEN "write2" ELSE "unlock"
  <2>1. "write2" \in Pcs /\ "unlock" \in Pcs
    BY DEF Pcs
  <2> QED  BY <1>1, <2>1, GotoType
<1>3. x \in Entries /\ thread[c].recv \in Int
  BY DEF Entries, Local, Threads
<1>4. log \in Seq(Entries) /\ n \in Nat /\ DOMAIN log = 1 .. n
      /\ \A i \in 1 .. n : log[i] \in Entries
  BY DEF Logged
<1>5. /\ log' \in Seq(Entries) /\ Len(log') = n + 1 /\ DOMAIN log' = 1 .. n + 1
      /\ log'[n + 1] = x
      /\ \A i \in 1 .. n : log'[i] = log[i]
  <2> HIDE DEF x
  <2> QED  BY <1>1, <1>3, <1>4
<1>6. /\ x.of = c /\ x.size = thread[c].recv /\ x.part = IF first THEN 1 ELSE 2
      /\ [x EXCEPT !.part = 1] = [of |-> c, size |-> thread[c].recv, part |-> 1]
  OBVIOUS
<1> HIDE DEF x
<1>15. /\ log'[n + 1].of = c /\ log'[n + 1].part = IF first THEN 1 ELSE 2
       /\ log'[n + 1] = [of |-> c, size |-> thread[c].recv,
                         part |-> IF first THEN 1 ELSE 2]
       /\ [log'[n + 1] EXCEPT !.part = 1]
            = [of |-> c, size |-> thread[c].recv, part |-> 1]
  BY <1>5, <1>6, Zenon DEF x
<1>7. \A i \in 1 .. n : log[i].of \in Clients /\ log[i].part \in {1, 2}
  BY <1>4 DEF Entries
\* c has written nothing but the first piece, and that last.
<1>8. ASSUME NEW i \in 1 .. n, log[i].of = c
      PROVE  ~first /\ log[i].part = 1
  BY <1>2, <1>4, <1>7, <1>8 DEF Logged
<1>9. ~first => n > 0 /\ log[n] = [of |-> c, size |-> thread[c].recv, part |-> 1]
  BY <1>2, <1>4 DEF Logged
<1> HIDE DEF x, n
<1>10. \A i \in 1 .. n + 1 :
         LET pc == thread'[log'[i].of].pc
         IN /\ pc \notin Early \union {"lock", "write1"}
            /\ log'[i].part = 2 => pc # "write2"
  <2> SUFFICES ASSUME NEW i \in 1 .. n + 1
               PROVE  LET pc == thread'[log'[i].of].pc
                      IN /\ pc \notin Early \union {"lock", "write1"}
                         /\ log'[i].part = 2 => pc # "write2"
    OBVIOUS
  <2>1. "write2" \notin Early /\ "unlock" \notin Early
    BY DEF Early, Serving
  <2>2. CASE i = n + 1
    BY <1>2, <1>15, <2>1, <2>2
  <2>3. CASE i \in 1 .. n /\ log[i].of = c
    BY <1>2, <1>5, <1>8, <2>1, <2>3
  <2>4. CASE i \in 1 .. n /\ log[i].of # c
    <3>1. thread'[log[i].of] = thread[log[i].of]
      BY <1>7, <2>4 DEF Moves
    <3> QED  BY <1>4, <1>5, <2>4, <3>1 DEF Logged
  <2> QED  BY <1>4, <2>2, <2>3, <2>4
<1>11. \A d \in Clients :
         thread'[d].pc = "write2"
           => log' # <<>> /\ log'[n + 1] = [of |-> d, size |-> thread'[d].recv, part |-> 1]
  <2> SUFFICES ASSUME NEW d \in Clients, thread'[d].pc = "write2"
               PROVE  log' # <<>> /\ log'[n + 1] = [of |-> d, size |-> thread'[d].recv, part |-> 1]
    OBVIOUS
  <2>1. d = c
    <3>1. d # c => thread[d].pc = "write2"
      BY DEF Moves
    <3> QED  BY <1>2, <3>1 DEF Locked, Critical
  <2>2. first
    BY <1>2, <2>1
  <2> QED  BY <1>4, <1>5, <1>6, <2>1, <2>2 DEF x
<1>12. \A i \in 1 .. n + 1 :
         log'[i].part = 2 => i > 1 /\ log'[i - 1] = [log'[i] EXCEPT !.part = 1]
  <2> SUFFICES ASSUME NEW i \in 1 .. n + 1, log'[i].part = 2
               PROVE  i > 1 /\ log'[i - 1] = [log'[i] EXCEPT !.part = 1]
    OBVIOUS
  <2>1. CASE i = n + 1
    <3>1. ~first
      BY <1>15, <2>1
    <3>2. n \in 1 .. n /\ log'[n] = log[n]
      BY <1>4, <1>5, <1>9, <3>1
    <3>3. i > 1 /\ i - 1 = n
      BY <1>4, <1>9, <2>1, <3>1
    <3> QED  BY <1>9, <1>15, <2>1, <3>1, <3>2, <3>3
  <2>2. CASE i \in 1 .. n
    <3>1. i > 1 /\ log[i - 1] = [log[i] EXCEPT !.part = 1]
      BY <1>4, <1>5, <2>2 DEF Logged, LogWhole
    <3>2. i - 1 \in 1 .. n
      BY <1>4, <2>2, <3>1
    <3> QED  BY <1>5, <2>2, <3>1, <3>2
  <2> QED  BY <1>4, <2>1, <2>2
<1>13. \A i, j \in 1 .. n + 1 :
         log'[i].of = log'[j].of /\ log'[i].part = log'[j].part => i = j
  <2>1. \A i, j \in 1 .. n : log[i].of = log[j].of /\ log[i].part = log[j].part => i = j
    BY <1>4 DEF Logged, LogWhole
  <2>2. \A i \in 1 .. n : log[i].of = x.of => log[i].part # x.part
    BY <1>6, <1>8
  <2>3. \A i \in 1 .. n + 1 : i = n + 1 \/ i \in 1 .. n
    BY <1>4
  <2> QED  BY <1>5, <2>1, <2>2, <2>3
<1>14. LogWhole'
  BY <1>5, <1>12, <1>13 DEF LogWhole
<1> QED  BY <1>5, <1>10, <1>11, <1>14 DEF Logged

\* So does writing an entry's two parts, under the mutex.
LEMMA LoggingLogged ==
    ASSUME Logged, Locked, Local, NEW c \in Clients, Logging(c), Moves(c),
           thread'[c].recv = thread[c].recv
    PROVE  Logged'
<1>1. CASE WriteLog(c)
  BY <1>1, WriteLogged
<1>2. CASE Lock(c)
  <2>1. /\ thread[c].pc = "lock" /\ log' = log /\ Goto(c, "write1") /\ "write1" \in Pcs
    BY <1>2 DEF Lock, At, Pcs
  <2>2. thread'[c].pc = "write1"
    BY <2>1, GotoType
  <2>3. Silent(c)
    BY <2>1, <2>2 DEF Silent, Moves
  <2> QED  BY <2>3, SilentLogged
<1>3. CASE Unlock(c)
  <2>1. log' = log /\ Goto(c, "close") /\ "close" \in Pcs
    BY <1>3 DEF Unlock, Pcs
  <2>2. thread'[c].pc = "close"
    BY <2>1, GotoType
  <2>3. Silent(c)
    BY <2>1, <2>2 DEF Silent, Moves
  <2> QED  BY <2>3, SilentLogged
<1> QED  BY <1>1, <1>2, <1>3 DEF Logging

-----------------------------------------------------------------------------
(* The invariant is one. *)
LEMMA InitInv == Init => IInv
<1> SUFFICES ASSUME Init PROVE IInv
  OBVIOUS
<1> USE DEF Init
<1>2. /\ \A c \in Clients : thread[c] = Idle
      /\ Idle.pc = "none" /\ Idle.connfd = NoFd /\ Idle.clientfd = NoFd
      /\ main.pc = "malloc" /\ log = <<>> /\ mutex = 1
  BY IdleType
<1>3. Local
  BY IdleType, FdsAre DEF Local
<1>4. Net
  <2>1. IsSuffix(<<>>, <<>>)
    BY SuffixEmpty, EmptyType, Zenon
  <2> QED  BY <2>1, EmptyType DEF Net
<1>5. Phases
  BY <1>2, FdsAre DEF Phases, Working, Serving, Handed
<1>6. Agree
  <2>1. \A e \in Ends : FdOf(e) \notin Fds
    <3> SUFFICES ASSUME NEW d \in Clients
                 PROVE  FdOf(<<"server", d>>) \notin Fds /\ FdOf(<<"client", d>>) \notin Fds
      BY EndIs, Zenon
    <3>1. FdOf(<<"server", d>>) = NoFd /\ FdOf(<<"client", d>>) = NoFd
      BY <1>2, FdOfAt DEF Handed
    <3> QED  BY <3>1, FdsAre
  <2> QED  BY <2>1, FdsAre DEF Agree
<1>7. Reached
  BY DEF Reached
<1>8. Locked
  BY <1>2 DEF Locked, Critical
<1>9. Logged
  <2>1. log \in Seq(Entries) /\ DOMAIN log = {}
    BY <1>2
  <2> QED  BY <1>2, <2>1 DEF Logged, LogWhole
<1> QED  BY <1>3, <1>4, <1>5, <1>6, <1>7, <1>8, <1>9 DEF IInv

\* Steps that leave the mutex and the log alone.
LEMMA Elsewhere ==
    ASSUME Locked, Logged, NEW c \in Clients, log' = log, mutex' = mutex,
           \A d \in Clients : d # c => thread'[d] = thread[d],
           thread[c].pc \in Early \/ thread'[c].pc \in {"close", "done"},
           thread'[c].pc \notin Critical
    PROVE  Locked' /\ Logged'
<1>1. Silent(c)
  BY DEF Silent, Critical
<1> QED  BY <1>1, SilentLogged, OutsideLocked

\* Every step keeps the inductive invariant,
LEMMA StepInv == IInv /\ [Next]_vars => IInv'
<1> SUFFICES ASSUME IInv, [Next]_vars PROVE IInv'
  OBVIOUS
<1>0. Ground /\ Locked /\ Logged /\ Local /\ Net
  BY DEF IInv, Ground
<1> SUFFICES Ground' /\ Locked' /\ Logged'
  BY DEF IInv, Ground
<1>1. thread \in [Clients -> Threads]
  BY <1>0 DEF Local
<1>2. CASE UNCHANGED vars
  BY <1>0, <1>2 DEF vars, net, Ground, Local, Net, Phases, Agree, Reached, Locked, Logged,
                    LogWhole, FdOf, Handed
<1>3. ASSUME NEW a \in Cells, Malloc(a)
      PROVE  Ground' /\ Locked' /\ Logged'
  <2>1. UNCHANGED <<thread, mutex, log>>
    BY <1>3 DEF Malloc
  <2> QED  BY <1>0, <1>3, <2>1, MallocGround DEF Locked, Logged, LogWhole
<1>4. ASSUME NEW c \in Clients, Accept(c)
      PROVE  Ground' /\ Locked' /\ Logged'
  <2>1. UNCHANGED <<thread, mutex, log>>
    BY <1>4 DEF Accept
  <2> QED  BY <1>0, <1>4, <2>1, AcceptGround DEF Locked, Logged, LogWhole
<1>5. CASE Create
  <2> DEFINE c == main.last
  <2>1. c \in Clients /\ thread[c].pc = "none"
    BY <1>0, <1>5 DEF Ground, Phases, Create, AtMain
  <2>2. /\ thread' = [thread EXCEPT ![c].pc = "start", ![c].arg = main.cip]
        /\ log' = log /\ mutex' = mutex
    BY <1>5 DEF Create
  <2> HIDE DEF c
  <2>3. /\ thread'[c].pc = "start"
        /\ \A d \in Clients : d # c => thread'[d] = thread[d]
    BY <1>1, <2>1, <2>2 DEF Threads
  <2>4. Locked' /\ Logged'
    BY <1>0, <2>1, <2>2, <2>3, Elsewhere DEF Early, Critical
  <2> QED  BY <1>0, <1>5, <2>4, CreateGround
<1>6. ASSUME NEW c \in Clients, Start(c)
      PROVE  Ground' /\ Locked' /\ Logged'
  <2>1. /\ thread' = [thread EXCEPT ![c].pc = "reqline", ![c].arg = Nobody,
                                    ![c].connfd = cell[thread[c].arg]]
        /\ thread[c].pc = "start" /\ log' = log /\ mutex' = mutex
    BY <1>6 DEF Start, At
  <2>2. /\ thread'[c].pc = "reqline"
        /\ \A d \in Clients : d # c => thread'[d] = thread[d]
    BY <1>1, <2>1 DEF Threads
  <2>3. Locked' /\ Logged'
    BY <1>0, <2>1, <2>2, Elsewhere DEF Early, Critical
  <2> QED  BY <1>0, <1>6, <2>3, StartGround
<1>7. ASSUME NEW c \in Clients, Reading(c)
      PROVE  Ground' /\ Locked' /\ Logged'
  <2>1. /\ Moves(c) /\ Net' /\ Quiet /\ log' = log /\ mutex' = mutex
        /\ thread[c].pc \in Early /\ thread'[c].pc \in Early \union {"close"}
    BY <1>0, <1>7, ReadingMoves
  <2>2. Ground'
    BY <1>0, <2>1, MovesGround
  <2>3. thread'[c].pc \notin Critical
    BY <2>1 DEF Early, Serving, Critical
  <2>4. Locked' /\ Logged'
    BY <1>0, <2>1, <2>3, Elsewhere DEF Moves
  <2> QED  BY <2>2, <2>4
<1>8. ASSUME NEW c \in Clients, Connect(c) \/ ResolveFails(c)
      PROVE  Ground' /\ Locked' /\ Logged'
  <2>1. PICK f : /\ thread' = [thread EXCEPT ![c].pc = "headers", ![c].clientfd = f]
                 /\ thread[c].pc = "connect" /\ log' = log /\ mutex' = mutex
    BY <1>8 DEF Connect, ResolveFails, At
  <2>2. /\ thread'[c].pc = "headers"
        /\ \A d \in Clients : d # c => thread'[d] = thread[d]
    BY <1>1, <2>1 DEF Threads
  <2>3. Locked' /\ Logged'
    BY <1>0, <2>1, <2>2, Elsewhere DEF Early, Critical
  <2> QED  BY <1>0, <1>8, <2>3, ConnectGround, ResolveFailsGround
<1>9. ASSUME NEW c \in Clients, CloseServer(c) \/ Bail(c)
      PROVE  Ground' /\ Locked' /\ Logged'
  <2>1. Ground' /\ thread[c].pc \in Early /\ thread'[c].pc \in {"lock", "close"}
    BY <1>0, <1>9, CloseServerGround
  <2>2. /\ log' = log /\ mutex' = mutex
        /\ \A d \in Clients : d # c => thread'[d] = thread[d]
    BY <1>1, <1>9 DEF CloseServer, Bail
  <2>3. Locked' /\ Logged'
    BY <1>0, <2>1, <2>2, Elsewhere DEF Critical
  <2> QED  BY <2>1, <2>3
<1>10. ASSUME NEW c \in Clients, Logging(c)
       PROVE  Ground' /\ Locked' /\ Logged'
  <2>1. Moves(c) /\ Net' /\ Quiet /\ thread'[c].recv = thread[c].recv
    BY <1>0, <1>10, LoggingMoves
  <2>2. Ground'
    BY <1>0, <2>1, MovesGround
  <2>3. Locked' /\ Logged'
    BY <1>0, <1>10, <2>1, LoggingLocked, LoggingLogged
  <2> QED  BY <2>2, <2>3
<1>11. ASSUME NEW c \in Clients, CloseClient(c)
       PROVE  Ground' /\ Locked' /\ Logged'
  <2>1. Ground' /\ thread[c].pc = "close" /\ thread'[c].pc = "done"
    BY <1>0, <1>11, CloseClientGround
  <2>2. /\ log' = log /\ mutex' = mutex
        /\ \A d \in Clients : d # c => thread'[d] = thread[d]
    BY <1>1, <1>11 DEF CloseClient
  <2>3. Locked' /\ Logged'
    BY <1>0, <2>1, <2>2, Elsewhere DEF Critical
  <2> QED  BY <2>1, <2>3
<1>12. CASE Peers
  <2>1. Ground' /\ thread' = thread /\ log' = log /\ mutex' = mutex
    BY <1>0, <1>12, PeersGround
  <2> QED  BY <1>0, <2>1 DEF Locked, Logged, LogWhole
<1>13. CASE Next
  BY <1>2, <1>3, <1>4, <1>5, <1>6, <1>7, <1>8, <1>9, <1>10, <1>11, <1>12, <1>13
     DEF Next, Main, Doit, Rest, Reading, Logging
<1> QED  BY <1>2, <1>13

\* so it always holds.
LEMMA Inductive == Spec => []IInv
<1> QED  BY InitInv, StepInv, PTL DEF Spec

\* Types, and the mutex of the log is 0 or 1.
THEOREM TypeCorrect == Spec => []TypeOK
<1>1. IInv => TypeOK
  BY FdsAre DEF IInv, Local, Net, Locked, TypeOK, Threads
<1> QED  BY <1>1, Inductive, PTL

\* Every open descriptor is held by the thread (or the client_item on its way
\* to the thread) of the connection it stands for and by nobody else, for any
\* number of connections: none is leaked, mixed up or closed twice.
THEOREM DescriptorsKept == Spec => []Descriptors
<1>1. ASSUME IInv PROVE Descriptors
  <2>1. ASSUME NEW c \in Clients, NEW f \in Fds
        PROVE  /\ <<f, "client">> \in Held(c) <=> FdOf(<<"client", c>>) = f
               /\ <<f, "server">> \in Held(c) <=> FdOf(<<"server", c>>) = f
    <3>1. /\ Handed(c) => thread[c].pc = "none"
          /\ thread[c].pc \in {"none", "start"} => thread[c].connfd \notin Fds
      BY <1>1 DEF IInv, Phases, Handed, Working
    <3>2. /\ FdOf(<<"server", c>>) = thread[c].clientfd
          /\ FdOf(<<"client", c>>) = IF Handed(c) THEN cell[main.cip]
                                     ELSE IF thread[c].pc = "start"
                                     THEN cell[thread[c].arg] ELSE thread[c].connfd
      BY FdOfAt
    <3>3. <<f, "server">> \in Held(c) <=> thread[c].clientfd = f
      BY DEF Held
    <3>4. <<f, "client">> \in Held(c)
            <=> \/ thread[c].connfd = f
                \/ thread[c].pc = "start" /\ cell[thread[c].arg] = f
                \/ Handed(c) /\ cell[main.cip] = f
      BY DEF Held, Handed
    <3> QED  BY <3>1, <3>2, <3>3, <3>4
  <2>2. ASSUME NEW f \in Fds
        PROVE  {c \in Clients : \E side \in {"client", "server"} : <<f, side>> \in Held(c)}
                 = IF IsOpen(f) THEN {fdt[f][2]} ELSE {}
    <3>1. \A c \in Clients :
            (\E side \in {"client", "server"} : <<f, side>> \in Held(c))
              <=> fdt[f] = <<"client", c>> \/ fdt[f] = <<"server", c>>
      BY <1>1, <2>1, EndsAre DEF IInv, Agree
    <3>2. fdt[f] \in Ends \union {Free}
      BY <1>1 DEF IInv, Local
    <3>3. CASE fdt[f] = Free
      BY <3>1, <3>3, EndsAre, FdsAre DEF IsOpen
    <3>4. CASE fdt[f] \in Ends
      <4>1. IsOpen(f)
        BY <3>4, FdsAre DEF IsOpen
      <4>2. PICK d \in Clients : /\ fdt[f][2] = d
                                 /\ fdt[f] = <<"server", d>> \/ fdt[f] = <<"client", d>>
        BY <3>4, EndIs
      <4>3. \A c \in Clients :
              (fdt[f] = <<"client", c>> \/ fdt[f] = <<"server", c>>) <=> c = d
        BY <4>2
      <4> QED  BY <3>1, <4>1, <4>2, <4>3
    <3> QED  BY <3>2, <3>3, <3>4
  <2> QED  BY <2>2 DEF Descriptors
<1> QED  BY <1>1, Inductive, PTL

\* The two pieces of every line of the log are together, and a connection has
\* one line at most, for any number of threads.
THEOREM LogIsWhole == Spec => []LogWhole
<1>1. IInv => LogWhole
  BY DEF IInv, Logged
<1> QED  BY <1>1, Inductive, PTL

-----------------------------------------------------------------------------
(* What is read is said, item by item, and what is forwarded is read. *)
LEMMA PrefixAt ==
    ASSUME NEW s \in Seq(Items), NEW t \in Seq(Items)
    PROVE  IsPrefix(s, t) <=> Len(s) <= Len(t) /\ \A j \in 1 .. Len(s) : s[j] = t[j]
<1>1. Len(s) <= Len(t) =>
        (SubSeq(s, 1, Len(s)) = SubSeq(t, 1, Len(s)) <=> \A j \in 1 .. Len(s) : s[j] = t[j])
  <2> SUFFICES ASSUME Len(s) <= Len(t)
               PROVE  SubSeq(s, 1, Len(s)) = SubSeq(t, 1, Len(s))
                        <=> \A j \in 1 .. Len(s) : s[j] = t[j]
    OBVIOUS
  <2>1. /\ SubSeq(s, 1, Len(s)) = [j \in 1 .. Len(s) |-> s[j]]
        /\ SubSeq(t, 1, Len(s)) = [j \in 1 .. Len(s) |-> t[j]]
    OBVIOUS
  <2> QED  BY <2>1
<1> QED  BY <1>1 DEF IsPrefix

\* The empty sequence is a prefix, and has no other.
LEMMA PrefixEmpty ==
    ASSUME NEW t \in Seq(Items)
    PROVE  /\ IsPrefix(<<>>, t)
           /\ \A s \in Seq(Items) : IsPrefix(s, <<>>) => s = <<>>
<1>1. <<>> \in Seq(Items) /\ Len(<<>>) = 0
  OBVIOUS
<1>2. IsPrefix(<<>>, t) <=> Len(<<>>) <= Len(t) /\ \A j \in 1 .. Len(<<>>) : <<>>[j] = t[j]
  BY <1>1, PrefixAt, Zenon
<1>3. Len(<<>>) <= Len(t) /\ 1 .. Len(<<>>) = {}
  BY <1>1
<1>4. \A s \in Seq(Items) : IsPrefix(s, <<>>) => Len(s) <= Len(<<>>)
  BY <1>1, PrefixAt, Zenon
<1>5. \A s \in Seq(Items) : Len(s) <= 0 => s = <<>>
  OBVIOUS
<1> QED  BY <1>1, <1>2, <1>3, <1>4, <1>5, Zenon

\* A proper prefix with the next item is a prefix.
LEMMA PrefixGrows ==
    ASSUME NEW s \in Seq(Items), NEW t \in Seq(Items),
           IsPrefix(s, t), Len(s) < Len(t)
    PROVE  IsPrefix(Append(s, t[Len(s) + 1]), t)
<1> DEFINE a == Append(s, t[Len(s) + 1])
<1>1. Len(s) + 1 \in 1 .. Len(t)
  OBVIOUS
<1>2. /\ a \in Seq(Items) /\ Len(a) = Len(s) + 1 /\ a[Len(s) + 1] = t[Len(s) + 1]
      /\ \A j \in 1 .. Len(s) : a[j] = s[j]
  BY <1>1
<1>3. \A j \in 1 .. Len(s) : s[j] = t[j]
  BY PrefixAt
<1> HIDE DEF a
<1>4. Len(a) <= Len(t) /\ \A j \in 1 .. Len(a) : a[j] = t[j]
  <2>1. \A j \in 1 .. Len(s) + 1 : j \in 1 .. Len(s) \/ j = Len(s) + 1
    OBVIOUS
  <2> QED  BY <1>2, <1>3, <2>1
<1>5. IsPrefix(a, t)
  BY <1>2, <1>4, PrefixAt
<1> QED  BY <1>5 DEF a

\* The next item of an inbox.
LEMMA HeadIs ==
    ASSUME NEW s \in Seq(Items), NEW t \in Seq(Items), s # <<>>, IsSuffix(s, t)
    PROVE  /\ Len(s) \in 1 .. Len(t) /\ Len(Tail(s)) = Len(s) - 1
           /\ Head(s) = t[(Len(t) - Len(s)) + 1]
           /\ t # <<>>
<1>1. Len(s) \in Nat \ {0} /\ Head(s) = s[1] /\ Len(Tail(s)) = Len(s) - 1
  OBVIOUS
<1>2. Len(s) <= Len(t) /\ \A j \in 1 .. Len(s) : s[j] = t[(Len(t) - Len(s)) + j]
  BY SuffixAt
<1>3. s[1] = t[(Len(t) - Len(s)) + 1]
  BY <1>1, <1>2
<1> QED  BY <1>1, <1>2, <1>3

\* A concatenation, item by item.
LEMMA ConcatAt ==
    ASSUME NEW a \in Seq(Items), NEW b \in Seq(Items)
    PROVE  /\ a \o b \in Seq(Items) /\ Len(a \o b) = Len(a) + Len(b)
           /\ \A i \in 1 .. Len(a) : (a \o b)[i] = a[i]
           /\ \A i \in 1 .. Len(b) : (a \o b)[Len(a) + i] = b[i]
OBVIOUS

\* An appended sequence, item by item.
LEMMA AppendAt ==
    ASSUME NEW a \in Seq(Items), NEW x \in Items, NEW s, s = a \o <<x>>
    PROVE  /\ s \in Seq(Items) /\ Len(s) = Len(a) + 1 /\ s[Len(a) + 1] = x
           /\ \A j \in 1 .. Len(a) : s[j] = a[j]
<1>1. <<x>> \in Seq(Items) /\ Len(<<x>>) = 1 /\ <<x>>[1] = x /\ 1 \in 1 .. 1
  OBVIOUS
<1>2. s[Len(a) + 1] = <<x>>[1] /\ Len(s) = Len(a) + Len(<<x>>)
  BY <1>1, ConcatAt
<1> QED  BY <1>1, <1>2, ConcatAt

\* A sequence of two items,
LEMMA TwoAt ==
    ASSUME NEW x \in Items, NEW y \in Items, NEW s, s = <<x>> \o <<y>>
    PROVE  s \in Seq(Items) /\ Len(s) = 2 /\ s[1] = x /\ s[2] = y
<1>1. <<x>> \in Seq(Items) /\ Len(<<x>>) = 1 /\ <<x>>[1] = x
  OBVIOUS
<1>2. /\ s \in Seq(Items) /\ Len(s) = Len(<<x>>) + 1 /\ s[Len(<<x>>) + 1] = y
      /\ \A j \in 1 .. Len(<<x>>) : s[j] = <<x>>[j]
  BY <1>1, AppendAt
<1>3. 1 \in 1 .. 1 /\ 1 + 1 = 2
  OBVIOUS
<1> QED  BY <1>1, <1>2, <1>3, Zenon

\* and one of three.
LEMMA ThreeAt ==
    ASSUME NEW x \in Items, NEW y \in Items, NEW z \in Items,
           NEW s, s = <<x>> \o <<y>> \o <<z>>
    PROVE  s \in Seq(Items) /\ Len(s) = 3 /\ s[1] = x /\ s[2] = y /\ s[3] = z
<1> DEFINE a == <<x>> \o <<y>>
<1>1. a \in Seq(Items) /\ Len(a) = 2 /\ a[1] = x /\ a[2] = y
  <2>1. \A t : t = <<x>> \o <<y>>
              => t \in Seq(Items) /\ Len(t) = 2 /\ t[1] = x /\ t[2] = y
    BY TwoAt, ZenonT(30)
  <2> QED  BY <2>1, Zenon
<1> HIDE DEF a
<1>2. s = a \o <<z>>
  BY DEF a
<1>3. /\ s \in Seq(Items) /\ Len(s) = Len(a) + 1 /\ s[Len(a) + 1] = z
      /\ \A j \in 1 .. Len(a) : s[j] = a[j]
  BY <1>1, <1>2, AppendAt
<1>4. 1 \in 1 .. 2 /\ 2 \in 1 .. 2 /\ 2 + 1 = 3
  OBVIOUS
<1> QED  BY <1>1, <1>3, <1>4, Zenon

\* A message starts with its first line.  One that states a length has the
\* length second, the blank line third and as many bytes as it states.
Shaped(m, c) ==
  /\ m \in Seq(Items) /\ Len(m) >= 2
  /\ m[1] \in {Item("bad", 0, c), Item("first", 0, c)}
  /\ Declared(m) # NoLength => /\ m[2].kind = "length" /\ m[2].n = Declared(m)
                               /\ m[3].kind = "blank"
                               /\ Declared(m) \in Nat /\ Len(m) = 3 + Declared(m)

\* A message without a length has the shape of a message,
LEMMA PlainShaped ==
    ASSUME NEW c \in Clients, NEW first \in {"bad", "first"}, NEW k \in Nat
    PROVE  Shaped(Message(first, NoLength, k, c), c)
<1> DEFINE m == Message(first, NoLength, k, c)
           x == Item(first, 0, c)
           b == Item("blank", 0, c)
           y == [i \in 1 .. k |-> Item("byte", i, c)]
           h == <<x>> \o <<>> \o <<b>>
<1>1. x \in Items /\ b \in Items /\ \A i \in 1 .. k : Item("byte", i, c) \in Items
  BY DEF Item, Items, Kinds
<1>2. y \in Seq(Items) /\ Len(y) = k /\ \A i \in 1 .. k : y[i].kind = "byte"
  BY <1>1 DEF Item
<1>3. m = h \o y
  BY DEF Message, NoLength
<1> HIDE DEF m, y, h
<1>4. h \in Seq(Items) /\ Len(h) = 2 /\ h[1] = x /\ h[2] = b
  <2>1. <<x>> \o <<>> = <<x>>
    OBVIOUS
  <2>2. h = <<x>> \o <<b>>
    BY <2>1, Zenon DEF h
  <2> QED  BY <1>1, <2>2, TwoAt
<1>5. /\ m \in Seq(Items) /\ Len(m) = 2 + k
      /\ \A i \in 1 .. 2 : m[i] = h[i]
      /\ \A i \in 1 .. k : m[2 + i] = y[i]
  <2>1. /\ m \in Seq(Items) /\ Len(m) = Len(h) + Len(y)
        /\ \A i \in 1 .. Len(h) : m[i] = h[i]
        /\ \A i \in 1 .. Len(y) : m[Len(h) + i] = y[i]
    BY <1>2, <1>4, <1>3, ConcatAt, Zenon
  <2> QED  BY <1>2, <1>4, <2>1
<1>6. m[1] = x /\ m[2] = b
  BY <1>4, <1>5
<1>7. x.kind = first /\ b.kind = "blank"
  BY DEF Item
<1>8. \A i \in DOMAIN m : m[i].kind # "length"
  <2> SUFFICES ASSUME NEW i \in 1 .. 2 + k PROVE m[i].kind # "length"
    BY <1>5
  <2>1. CASE i <= 2
    BY <1>6, <1>7, <2>1
  <2>2. CASE i > 2
    <3>1. i - 2 \in 1 .. k /\ 2 + (i - 2) = i
      BY <2>2
    <3> QED  BY <1>2, <1>5, <3>1
  <2> QED  BY <2>1, <2>2
<1>9. Declared(m) = NoLength
  BY <1>8, Zenon DEF Declared
<1>10. Shaped(m, c)
  BY <1>5, <1>6, <1>9 DEF Shaped
<1> QED  BY <1>10 DEF m

\* so has one with a length,
LEMMA SizedShaped ==
    ASSUME NEW c \in Clients, NEW first \in {"bad", "first"}, NEW k \in Nat
    PROVE  Shaped(Message(first, k, k, c), c)
<1> DEFINE m == Message(first, k, k, c)
           x == Item(first, 0, c)
           l == Item("length", k, c)
           b == Item("blank", 0, c)
           y == [i \in 1 .. k |-> Item("byte", i, c)]
           h == <<x>> \o <<l>> \o <<b>>
<1>1. /\ x \in Items /\ l \in Items /\ b \in Items
      /\ \A i \in 1 .. k : Item("byte", i, c) \in Items
  BY DEF Item, Items, Kinds
<1>2. y \in Seq(Items) /\ Len(y) = k /\ \A i \in 1 .. k : y[i].kind = "byte"
  BY <1>1 DEF Item
<1>3. m = h \o y
  BY DEF Message, NoLength
<1> HIDE DEF m, y, h
<1>4. h \in Seq(Items) /\ Len(h) = 3 /\ h[1] = x /\ h[2] = l /\ h[3] = b
  BY <1>1, ThreeAt DEF h
<1>5. /\ m \in Seq(Items) /\ Len(m) = 3 + k
      /\ \A i \in 1 .. 3 : m[i] = h[i]
      /\ \A i \in 1 .. k : m[3 + i] = y[i]
  <2>1. /\ m \in Seq(Items) /\ Len(m) = Len(h) + Len(y)
        /\ \A i \in 1 .. Len(h) : m[i] = h[i]
        /\ \A i \in 1 .. Len(y) : m[Len(h) + i] = y[i]
    BY <1>2, <1>4, <1>3, ConcatAt, Zenon
  <2> QED  BY <1>2, <1>4, <2>1
<1>6. m[1] = x /\ m[2] = l /\ m[3] = b
  BY <1>4, <1>5
<1>7. x.kind = first /\ l.kind = "length" /\ l.n = k /\ b.kind = "blank"
  BY DEF Item
<1>8. \A i \in 1 .. 3 + k : m[i].kind = "length" <=> i = 2
  <2> SUFFICES ASSUME NEW i \in 1 .. 3 + k PROVE m[i].kind = "length" <=> i = 2
    OBVIOUS
  <2>1. CASE i <= 3
    BY <1>6, <1>7, <2>1
  <2>2. CASE i > 3
    <3>1. i - 3 \in 1 .. k /\ 3 + (i - 3) = i
      BY <2>2
    <3>2. m[i].kind = "byte"
      BY <1>2, <1>5, <3>1
    <3> QED  BY <2>2, <3>2
  <2> QED  BY <2>1, <2>2
<1>9. {i \in DOMAIN m : m[i].kind = "length"} = {2}
  BY <1>5, <1>8
<1>10. Min({2}) = 2
  BY DEF Min
<1>11. Declared(m) = k
  <2>1. {2} # {}
    OBVIOUS
  <2>2. Declared(m) = m[Min({2})].n
    BY <1>9, <2>1, Zenon DEF Declared
  <2> QED  BY <1>6, <1>7, <1>10, <2>2
<1>12. Shaped(m, c)
  BY <1>5, <1>6, <1>7, <1>11 DEF Shaped
<1> QED  BY <1>12 DEF m

\* and those are all.
LEMMA AllShaped ==
    ASSUME NEW c \in Clients, NEW m \in Messages(c)
    PROVE  Shaped(m, c)
<1>1. /\ Requested \subseteq Nat /\ Answered \subseteq Nat /\ 0 \in Nat
      /\ "bad" \in {"bad", "first"} /\ "first" \in {"bad", "first"}
  BY LengthAssumption
<1>2. CASE m \in Requests(c)
  BY <1>1, <1>2, PlainShaped, SizedShaped, Zenon DEF Requests
<1>3. CASE m \in Responses(c)
  BY <1>1, <1>3, PlainShaped, SizedShaped, Zenon DEF Responses
<1> QED  BY <1>2, <1>3 DEF Messages

-----------------------------------------------------------------------------
(* The two streams of a connection.  While a thread reads from one end it  *)
(* knows how much of the message it has read, and the other end, if it     *)
(* still listens, has got as much.                                         *)
Fore == {"none", "start", "reqline", "connect"}
Before == Fore \union {"headers", "reqbody"}
Getting == Before \union {"response", "respbody"}
Got == {"closeserver", "lock", "write1", "write2", "unlock"}

RequestOf(c) ==
  LET C == <<"client", c>>
      S == <<"server", c>>
      pc == thread[c].pc
  IN /\ pc \in Fore => peer[S] = "none" /\ outbox[S] = <<>>
     /\ pc \in {"none", "start", "reqline"} /\ inbox[C] # <<>>
          => Len(inbox[C]) = Len(said[C])
     /\ pc = "connect" => /\ said[C] # <<>> /\ said[C][1] = Item("first", 0, c)
                          /\ inbox[C] # <<>> => Len(inbox[C]) + 1 = Len(said[C])
     /\ inbox[C] # <<>> /\ peer[S] = "open"
          => Len(outbox[S]) + Len(inbox[C]) = Len(said[C])
     /\ IsPrefix(outbox[S], said[C])

\* What the thread has counted is what it has read, and, once the length of
\* the response is known, that it is read whole when it has been counted.
ResponseOf(c) ==
  LET C == <<"client", c>>
      S == <<"server", c>>
      t == thread[c]
      d == Declared(said[S])
  IN /\ t.recv \in Nat
     /\ t.pc \in Before => /\ t.recv = 0 /\ t.recvbody = 0 /\ outbox[C] = <<>>
                           /\ t.pc # "headers" => ~t.lenset
     /\ t.pc = "response" => /\ t.recvbody = 0
                             /\ t.recv <= 1 => ~t.lenset
                             /\ d # NoLength => /\ t.recv <= 2
                                                /\ t.recv = 2 => t.lenset /\ t.bodylen = d
     /\ t.pc = "respbody" => /\ t.recv > 0
                             /\ d # NoLength => t.bodylen = d /\ t.recv = t.recvbody + 3
     /\ t.pc \in Getting /\ inbox[S] # <<>> => t.recv + Len(inbox[S]) = Len(said[S])
     /\ t.pc \in Getting \union Got
          => /\ t.recv > 0 => said[S] # <<>>
             /\ peer[C] = "open" => Len(outbox[C]) = t.recv
     /\ t.pc \in Got => t.recv > 0 /\ (d # NoLength => t.recv = Len(said[S]))
     /\ IsPrefix(outbox[C], said[S])

Flow == \A c \in Clients : RequestOf(c) /\ ResponseOf(c)

\* Nothing is sent or read in one direction; an end may close.
Shut(e) == peer'[e] = peer[e] \/ peer'[e] = "closed"
Still(e, o) == /\ said'[e] = said[e] /\ inbox'[e] \in {inbox[e], <<>>}
               /\ outbox'[o] = outbox[o] /\ Shut(o)
RequestStill(c) == Still(<<"client", c>>, <<"server", c>>)
ResponseStill(c) == Still(<<"server", c>>, <<"client", c>>)

\* What is known of a request depends on the thread only by its place.
LEMMA RequestKept ==
    ASSUME NEW c \in Clients, RequestOf(c), RequestStill(c),
           \/ thread'[c].pc \notin Fore
           \/ /\ peer[<<"server", c>>] = "none" => peer'[<<"server", c>>] = "none"
              /\ \/ thread'[c].pc = thread[c].pc
                 \/ /\ thread[c].pc \in {"none", "start"}
                    /\ thread'[c].pc \in {"start", "reqline"}
    PROVE  RequestOf(c)'
BY DEF RequestOf, RequestStill, Still, Shut, Fore

\* What is known of a response depends on the thread by its place and its counts.
LEMMA ResponseKept ==
    ASSUME NEW c \in Clients, ResponseOf(c), ResponseStill(c),
           thread'[c].recv = thread[c].recv, thread'[c].recvbody = thread[c].recvbody,
           \/ thread'[c] = thread[c]
           \/ /\ thread'[c].lenset = thread[c].lenset
              /\ thread[c].pc \in Fore /\ thread'[c].pc \in Before
           \/ thread'[c].pc \in {"bail", "close"}
           \/ thread[c].pc \in Got /\ thread'[c].pc \in Got
    PROVE  ResponseOf(c)'
<1> DEFINE C == <<"client", c>>
           S == <<"server", c>>
           t == thread[c]
           u == thread'[c]
<1>1. /\ said'[S] = said[S] /\ outbox'[C] = outbox[C]
      /\ inbox'[S] # <<>> => inbox'[S] = inbox[S]
      /\ peer'[C] = "open" => peer[C] = "open"
  BY DEF ResponseStill, Still, Shut
<1>2. CASE thread'[c] = thread[c]
  BY <1>1, <1>2 DEF ResponseOf
<1>3. CASE /\ thread'[c].lenset = thread[c].lenset
           /\ thread[c].pc \in Fore /\ thread'[c].pc \in Before
  <2>1. t.pc # "headers" /\ t.pc \in Before /\ t.pc \in Getting
    BY <1>3 DEF Fore, Before, Getting
  <2>2. u.pc \in Getting /\ u.pc \notin Got \union {"response", "respbody"}
    BY <1>3 DEF Fore, Before, Getting, Got
  <2> QED  BY <1>1, <1>3, <2>1, <2>2 DEF ResponseOf
<1>4. CASE thread'[c].pc \in {"bail", "close"}
  BY <1>1, <1>4 DEF ResponseOf, Fore, Before, Getting, Got
<1>5. CASE thread[c].pc \in Got /\ thread'[c].pc \in Got
  BY <1>1, <1>5 DEF ResponseOf, Fore, Before, Getting, Got
<1> QED  BY <1>2, <1>3, <1>4, <1>5

\* A step of one connection.
OnlyOf(c) ==
  /\ \A d \in Clients : d # c => thread'[d] = thread[d]
  /\ \A e \in Ends : e[2] # c => /\ said'[e] = said[e] /\ inbox'[e] = inbox[e]
                                 /\ outbox'[e] = outbox[e] /\ peer'[e] = peer[e]

\* A step of one exchange keeps the flow of all if it keeps that one's.
LEMMA FlowOf ==
    ASSUME Flow, NEW c \in Clients, OnlyOf(c), RequestOf(c)', ResponseOf(c)'
    PROVE  Flow'
<1> SUFFICES ASSUME NEW d \in Clients, d # c PROVE RequestOf(d)' /\ ResponseOf(d)'
  BY DEF Flow
<1>1. <<"client", d>>[2] = d /\ <<"server", d>>[2] = d
  OBVIOUS
<1>2. /\ RequestStill(d) /\ ResponseStill(d) /\ thread'[d] = thread[d]
      /\ peer'[<<"server", d>>] = peer[<<"server", d>>]
  BY <1>1, EndsAre DEF OnlyOf, RequestStill, ResponseStill, Still, Shut
<1> QED  BY <1>2, RequestKept, ResponseKept DEF Flow

\* An item is read from end e and forwarded to end o, if o still listens.
Passes(e, o) ==
  /\ inbox[e] # <<>> /\ inbox' = [inbox EXCEPT ![e] = Tail(@)]
  /\ outbox' = IF peer[o] = "open" THEN [outbox EXCEPT ![o] = Append(@, Head(inbox[e]))]
               ELSE outbox
  /\ said' = said /\ peer' = peer

\* The descriptors of a serving thread are its own connections.
LEMMA OwnFds ==
    ASSUME Ground, NEW c \in Clients
    PROVE  /\ thread[c].pc \in Working
                => /\ IsOpen(thread[c].connfd)
                   /\ fdt[thread[c].connfd] = <<"client", c>>
           /\ IF IsOpen(thread[c].clientfd)
              THEN fdt[thread[c].clientfd] = <<"server", c>>
              ELSE peer[<<"server", c>>] # "open" /\ inbox[<<"server", c>>] = <<>>
<1> DEFINE C == <<"client", c>>
           S == <<"server", c>>
           t == thread[c]
<1>1. C \in Ends /\ S \in Ends
  BY EndsAre
<1>2. t.pc \in Working => ~Handed(c) /\ t.pc # "start" /\ t.connfd \in Fds
  BY DEF Ground, Phases, Handed, Working
<1>3. t.pc \in Working => FdOf(C) = t.connfd
  BY <1>2, FdOfAt, Zenon
<1>4. FdOf(S) = t.clientfd
  BY FdOfAt
<1>5. /\ t.pc \in Working => fdt[t.connfd] = C
      /\ \A f \in Fds : fdt[f] = S <=> t.clientfd = f
  BY <1>1, <1>2, <1>3, <1>4 DEF Ground, Agree
<1>6. inbox[S] # <<>> \/ peer[S] = "open" => \E f \in Fds : fdt[f] = S
  BY <1>1 DEF Ground, Reached
<1> QED  BY <1>1, <1>2, <1>5, <1>6, FdsAre DEF IsOpen

\* Relaying between a thread's descriptors passes an item between its two ends.
LEMMA PassedOn ==
    ASSUME Ground, NEW c \in Clients, thread[c].pc \in Serving
    PROVE  LET C == <<"client", c>>
               S == <<"server", c>>
               f == thread[c].connfd
               g == thread[c].clientfd
           IN /\ Readable(f) /\ Relay(f, g) => Passes(C, S) /\ Next1(f) = Head(inbox[C])
              /\ Readable(g) /\ Relay(g, f) => Passes(S, C) /\ Next1(g) = Head(inbox[S])
<1> DEFINE C == <<"client", c>>
           S == <<"server", c>>
           f == thread[c].connfd
           g == thread[c].clientfd
<1>1. thread[c].pc \in Working
  BY DEF Serving, Working, Pcs
<1>2. /\ IsOpen(f) /\ fdt[f] = C
      /\ IF IsOpen(g) THEN fdt[g] = S ELSE peer[S] # "open"
  BY <1>1, OwnFds
<1> HIDE DEF f, g
<1>3. Readable(f) /\ Relay(f, g) => Passes(C, S) /\ Next1(f) = Head(inbox[C])
  BY <1>2 DEF Readable, Relay, Passes, Next1
<1>4. Readable(g) /\ Relay(g, f) => Passes(S, C) /\ Next1(g) = Head(inbox[S])
  BY <1>2 DEF Readable, Relay, Passes, Next1
<1> QED  BY <1>3, <1>4 DEF f, g

\* What passing an item does to the two ends and to the others.
LEMMA PassesEnds ==
    ASSUME Net, NEW e \in Ends, NEW o \in Ends, e # o, Passes(e, o)
    PROVE  /\ inbox'[e] = Tail(inbox[e]) /\ inbox'[o] = inbox[o]
           /\ outbox'[e] = outbox[e]
           /\ outbox'[o] = IF peer[o] = "open" THEN Append(outbox[o], Head(inbox[e]))
                           ELSE outbox[o]
           /\ said' = said /\ peer' = peer
           /\ \A d \in Ends : d # e /\ d # o => inbox'[d] = inbox[d] /\ outbox'[d] = outbox[d]
           /\ said[e] \in Seq(Items) /\ said[e] # <<>>
           /\ Len(inbox[e]) \in 1 .. Len(said[e]) /\ Len(inbox'[e]) = Len(inbox[e]) - 1
           /\ Head(inbox[e]) = said[e][(Len(said[e]) - Len(inbox[e])) + 1]
<1>1. /\ inbox[e] \in Seq(Items) /\ said[e] \in Seq(Items)
      /\ IsSuffix(inbox[e], said[e]) /\ inbox[e] # <<>>
  BY DEF Net, Passes
<1>2. /\ Len(inbox[e]) \in 1 .. Len(said[e]) /\ Len(Tail(inbox[e])) = Len(inbox[e]) - 1
      /\ Head(inbox[e]) = said[e][(Len(said[e]) - Len(inbox[e])) + 1]
      /\ said[e] # <<>>
  BY <1>1, HeadIs
<1>3. inbox \in [Ends -> Seq(Items)] /\ outbox \in [Ends -> Seq(Items)]
  BY DEF Net
<1>4. /\ inbox'[e] = Tail(inbox[e])
      /\ \A d \in Ends : d # e => inbox'[d] = inbox[d]
  BY <1>3 DEF Passes
<1>5. /\ outbox'[o] = IF peer[o] = "open" THEN Append(outbox[o], Head(inbox[e]))
                      ELSE outbox[o]
      /\ \A d \in Ends : d # o => outbox'[d] = outbox[d]
  BY <1>3 DEF Passes
<1> QED  BY <1>1, <1>2, <1>4, <1>5 DEF Passes

\* What is left of n after r, when k are to come.
LEMMA Remains ==
    \A r, n \in Nat : \A k \in 1 .. n :
      r + k = n => /\ r < n /\ r + 1 \in 1 .. n
                   /\ (n - k) + 1 = r + 1 /\ (r + 1) + (k - 1) = n
OBVIOUS

\* A forwarded item is the next one of the message.
LEMMA PrefixPasses ==
    ASSUME Net, NEW e \in Ends, NEW o \in Ends, e # o, Passes(e, o),
           IsPrefix(outbox[o], said[e]),
           peer[o] = "open" => Len(outbox[o]) + Len(inbox[e]) = Len(said[e])
    PROVE  /\ IsPrefix(outbox'[o], said'[e])
           /\ peer[o] = "open" => Len(outbox'[o]) = Len(outbox[o]) + 1
<1>1. /\ outbox'[o] = IF peer[o] = "open" THEN Append(outbox[o], Head(inbox[e]))
                      ELSE outbox[o]
      /\ said' = said
      /\ said[e] \in Seq(Items) /\ Len(inbox[e]) \in 1 .. Len(said[e])
      /\ Head(inbox[e]) = said[e][(Len(said[e]) - Len(inbox[e])) + 1]
  BY PassesEnds
<1>2. outbox[o] \in Seq(Items)
  BY DEF Net
<1>3. CASE peer[o] = "open"
  <2>1. /\ Len(outbox[o]) < Len(said[e])
        /\ (Len(said[e]) - Len(inbox[e])) + 1 = Len(outbox[o]) + 1
    <3>2. Len(outbox[o]) \in Nat /\ Len(said[e]) \in Nat
      BY <1>1, <1>2
    <3> QED  BY <1>1, <1>3, <3>2, Remains, Zenon
  <2>2. outbox'[o] = Append(outbox[o], said[e][Len(outbox[o]) + 1])
    BY <1>1, <1>3, <2>1
  <2>3. IsPrefix(outbox'[o], said[e])
    BY <1>1, <1>2, <2>1, <2>2, PrefixGrows
  <2>4. \A x : Len(Append(outbox[o], x)) = Len(outbox[o]) + 1
    BY <1>2
  <2> QED  BY <1>1, <2>2, <2>3, <2>4
<1> QED  BY <1>1, <1>3

\* A thread that reads leaves the other threads alone,
LEMMA ReadOf ==
    ASSUME Ground, NEW c \in Clients, Reading(c)
    PROVE  \A d \in Clients : d # c => thread'[d] = thread[d]
BY ReadingMoves DEF Ground, Moves

\* and what it passes on concerns its own exchange only.
LEMMA PassesOf ==
    ASSUME Net, NEW c \in Clients, NEW e \in Ends, NEW o \in Ends, e[2] = c, o[2] = c,
           Passes(e, o), \A d \in Clients : d # c => thread'[d] = thread[d]
    PROVE  OnlyOf(c)
BY DEF OnlyOf, Passes, Net

\* The steps of a thread that read nothing.
LEMMA TurnFlow ==
    ASSUME Ground, Flow, NEW c \in Clients, NEW at \in {"bail", "close"},
           Goto(c, at), UNCHANGED net
    PROVE  Flow' /\ OnlyOf(c)
<1>1. /\ at \in Pcs /\ at \notin Fore /\ net' = net
      /\ \A d \in Clients : d # c => thread'[d] = thread[d]
      /\ thread'[c] = [thread[c] EXCEPT !.pc = at] /\ thread[c] \in Threads
  <2>1. Local /\ at \in Pcs /\ at \notin Fore
    BY DEF Ground, Pcs, Fore
  <2>2. thread[c] \in Threads
    BY <2>1 DEF Local
  <2> QED  BY <2>1, <2>2, GotoType
<1>2. thread'[c].pc = at /\ thread'[c].recv = thread[c].recv
      /\ thread'[c].recvbody = thread[c].recvbody
  BY <1>1 DEF Threads
<1>3. OnlyOf(c) /\ RequestStill(c) /\ ResponseStill(c)
  BY <1>1 DEF OnlyOf, net, RequestStill, ResponseStill, Still, Shut
<1> QED  BY <1>1, <1>2, <1>3, RequestKept, ResponseKept, FlowOf DEF Flow

\* Reading the request line forwards nothing yet.
LEMMA RequestLineFlow ==
    ASSUME Ground, Flow, NEW c \in Clients, ReadRequestLine(c)
    PROVE  Flow' /\ OnlyOf(c)
<1> DEFINE C == <<"client", c>>
           S == <<"server", c>>
           t == thread[c]
           f == t.connfd
<1>1. /\ t.pc = "reqline" /\ t \in Threads /\ C \in Ends /\ S \in Ends /\ C # S
      /\ UNCHANGED <<peer, said, outbox>>
      /\ \A d \in Clients : d # c => thread'[d] = thread[d]
  BY EndsAre, ReadOf DEF ReadRequestLine, At, Ground, Local, Reading
<1>2. CASE Goto(c, "close") /\ UNCHANGED inbox
  BY <1>1, <1>2, TurnFlow DEF net
<1>3. CASE /\ Readable(f) /\ inbox' = [inbox EXCEPT ![fdt[f]] = Tail(@)]
           /\ Goto(c, IF Next1(f).kind = "bad" THEN "close" ELSE "connect")
  <2> DEFINE at == IF Next1(f).kind = "bad" THEN "close" ELSE "connect"
  <2>1. fdt[f] = C
    BY <1>1, OwnFds DEF Working, Pcs
  <2>2. /\ peer[S] = "none" /\ outbox[S] = <<>> /\ inbox[C] # <<>>
        /\ Len(inbox[C]) = Len(said[C])
        /\ Next1(f) = Head(inbox[C])
    BY <1>1, <1>3, <2>1 DEF Flow, RequestOf, Fore, Readable, Next1
  <2>3. Passes(C, S)
    BY <1>1, <1>3, <2>1, <2>2 DEF Passes
  <2>4. /\ Len(inbox'[C]) = Len(inbox[C]) - 1 /\ inbox'[S] = inbox[S]
        /\ said[C] \in Seq(Items) /\ said[C] # <<>>
        /\ Len(inbox[C]) \in 1 .. Len(said[C])
        /\ Head(inbox[C]) = said[C][(Len(said[C]) - Len(inbox[C])) + 1]
    BY <1>1, <2>3, PassesEnds DEF Ground
  <2>5. Next1(f) = said[C][1]
    BY <2>2, <2>4
  <2>6. said[C][1] \in {Item("bad", 0, c), Item("first", 0, c)}
    <3>1. said[C] \in Messages(c)
      BY <1>1, <2>4 DEF Ground, Net
    <3> QED  BY <3>1, AllShaped DEF Shaped
  <2>7. Item("bad", 0, c).kind = "bad" /\ Item("first", 0, c).kind = "first"
    BY DEF Item
  <2>8. /\ thread'[c].pc = at /\ thread'[c].recv = t.recv
        /\ thread'[c].recvbody = t.recvbody /\ thread'[c].lenset = t.lenset
    <3>1. at \in Pcs
      BY DEF Pcs
    <3> HIDE DEF at
    <3>2. thread'[c] = [t EXCEPT !.pc = at]
      BY <1>3, <3>1, GotoType DEF Ground, at
    <3> QED  BY <1>1, <3>1, <3>2 DEF Threads
  <2>9. at = "connect" => said[C][1] = Item("first", 0, c)
    BY <2>5, <2>6, <2>7
  <2>10. IsPrefix(outbox[S], said[C])
    BY <1>1 DEF Flow, RequestOf
  <2>11. RequestOf(c)'
    <3>1. Len(inbox'[C]) + 1 = Len(said[C])
      BY <2>2, <2>4
    <3>2. at \in {"close", "connect"}
      OBVIOUS
    <3> HIDE DEF at
    <3> QED  BY <1>1, <2>2, <2>4, <2>8, <2>9, <2>10, <3>1, <3>2 DEF RequestOf, Fore
  <2>12. ResponseStill(c)
    BY <1>1, <2>4 DEF ResponseStill, Still, Shut
  <2>13. ResponseOf(c)'
    <3>1. t.pc \in Fore /\ (at \in Before \/ at \in {"bail", "close"})
      BY <1>1 DEF Fore, Before
    <3> HIDE DEF at
    <3> QED  BY <2>8, <2>12, <3>1, ResponseKept DEF Flow
  <2>14. OnlyOf(c)
    BY <1>1, <2>3, PassesOf DEF Ground
  <2> QED  BY <2>11, <2>13, <2>14, FlowOf
<1> QED  BY <1>2, <1>3 DEF ReadRequestLine

\* Connecting forwards the request line.
LEMMA ConnectFlow ==
    ASSUME Ground, Flow, NEW c \in Clients, Connect(c)
    PROVE  Flow' /\ OnlyOf(c)
<1> DEFINE C == <<"client", c>>
           S == <<"server", c>>
           x == Item("first", 0, c)
<1>1. /\ thread[c].pc = "connect" /\ thread[c] \in Threads /\ C \in Ends /\ S \in Ends
      /\ peer' = [peer EXCEPT ![S] = "open"] /\ outbox' = [outbox EXCEPT ![S] = <<x>>]
      /\ thread' = [thread EXCEPT ![c].pc = "headers", ![c].clientfd = NewFd]
      /\ UNCHANGED <<said, inbox>>
  BY EndsAre DEF Connect, At, Ground, Local
<1>2. /\ thread'[c].pc = "headers" /\ thread'[c].recv = thread[c].recv
      /\ thread'[c].recvbody = thread[c].recvbody /\ thread'[c].lenset = thread[c].lenset
      /\ \A d \in Clients : d # c => thread'[d] = thread[d]
  BY <1>1 DEF Ground, Local, Threads
<1>3. /\ peer'[S] = "open" /\ outbox'[S] = <<x>>
      /\ \A e \in Ends : e # S => peer'[e] = peer[e] /\ outbox'[e] = outbox[e]
  BY <1>1 DEF Ground, Net
<1>4. /\ said[C] # <<>> /\ said[C][1] = x
      /\ inbox[C] # <<>> => Len(inbox[C]) + 1 = Len(said[C])
  BY <1>1 DEF Flow, RequestOf
<1>5. IsPrefix(<<x>>, said[C]) /\ Len(<<x>>) = 1
  <2>1. /\ <<x>> \in Seq(Items) /\ Len(<<x>>) = 1 /\ <<x>>[1] = x
    BY DEF Item, Items, Kinds
  <2>2. said[C] \in Seq(Items) /\ Len(said[C]) >= 1
    BY <1>1, <1>4 DEF Ground, Net
  <2>3. Len(<<x>>) <= Len(said[C]) /\ \A j \in 1 .. Len(<<x>>) : <<x>>[j] = said[C][j]
    <3>1. \A j \in 1 .. Len(<<x>>) : j = 1
      BY <2>1
    <3> QED  BY <1>4, <2>1, <2>2, <3>1
  <2> QED  BY <2>1, <2>2, <2>3, PrefixAt
<1>6. inbox[C] # <<>> => Len(<<x>>) + Len(inbox[C]) = Len(said[C])
  <2>1. Len(inbox[C]) \in Nat
    BY <1>1 DEF Ground, Net
  <2> QED  BY <1>4, <1>5, <2>1
<1>7. RequestOf(c)'
  BY <1>1, <1>2, <1>3, <1>5, <1>6 DEF RequestOf, Fore
<1>8. ResponseStill(c) /\ thread[c].pc \in Fore /\ thread'[c].pc \in Before
  BY <1>1, <1>2, <1>3 DEF ResponseStill, Still, Shut, Fore, Before
<1>9. ResponseOf(c)'
  BY <1>2, <1>8, ResponseKept DEF Flow
<1>10. OnlyOf(c)
  <2>1. \A e \in Ends : e[2] # c => e # S
    OBVIOUS
  <2> QED  BY <1>1, <1>2, <1>3, <2>1, Zenon DEF OnlyOf
<1> QED  BY <1>7, <1>9, <1>10, FlowOf

\* An item of the request passed on extends what the server was sent.
LEMMA RequestPassed ==
    ASSUME Ground, Flow, NEW c \in Clients, thread[c].pc \in {"headers", "reqbody"},
           Passes(<<"client", c>>, <<"server", c>>),
           \A d \in Clients : d # c => thread'[d] = thread[d],
           thread'[c].pc \in {"headers", "reqbody", "response"},
           thread'[c].pc # "headers" => ~thread'[c].lenset,
           thread'[c].recv = thread[c].recv, thread'[c].recvbody = thread[c].recvbody
    PROVE  Flow' /\ OnlyOf(c)
<1> DEFINE C == <<"client", c>>
           S == <<"server", c>>
<1>1. C \in Ends /\ S \in Ends /\ C # S /\ C[2] = c /\ S[2] = c
  BY EndsAre
<1>2. /\ inbox'[S] = inbox[S] /\ outbox'[C] = outbox[C]
      /\ said' = said /\ peer' = peer
      /\ Len(inbox[C]) \in 1 .. Len(said[C]) /\ Len(inbox'[C]) = Len(inbox[C]) - 1
      /\ said[C] \in Seq(Items) /\ inbox[C] # <<>>
  BY <1>1, PassesEnds DEF Ground, Passes
<1>3. /\ peer[S] = "open" => Len(outbox[S]) + Len(inbox[C]) = Len(said[C])
      /\ IsPrefix(outbox[S], said[C])
  BY <1>2 DEF Flow, RequestOf
<1>4. /\ IsPrefix(outbox'[S], said'[C])
      /\ peer[S] = "open" => Len(outbox'[S]) = Len(outbox[S]) + 1
  BY <1>1, <1>3, PrefixPasses DEF Ground
<1>5. peer[S] = "open" => Len(outbox'[S]) + Len(inbox'[C]) = Len(said[C])
  <2>1. Len(outbox[S]) \in Nat /\ Len(said[C]) \in Nat
    BY <1>1 DEF Ground, Net
  <2> HIDE DEF C, S
  <2> QED  BY <1>2, <1>3, <1>4, <2>1, Remains, ZenonT(30)
<1>6. RequestOf(c)'
  BY <1>2, <1>4, <1>5 DEF RequestOf, Fore
<1>7. ResponseOf(c)'
  <2>1. /\ thread[c].pc \in Before /\ thread[c].pc \in Getting
        /\ thread'[c].pc \in Getting /\ thread'[c].pc \notin Got \union {"respbody"}
    BY DEF Before, Getting, Got
  <2>2. /\ thread[c].recv = 0 /\ thread[c].recvbody = 0 /\ outbox[C] = <<>>
        /\ inbox[S] # <<>> => thread[c].recv + Len(inbox[S]) = Len(said[S])
        /\ peer[C] = "open" => Len(outbox[C]) = thread[c].recv
        /\ IsPrefix(outbox[C], said[S])
    BY <2>1 DEF Flow, ResponseOf
  <2> QED  BY <1>2, <2>1, <2>2 DEF ResponseOf
<1>8. OnlyOf(c)
  BY <1>1, PassesOf DEF Ground
<1> QED  BY <1>6, <1>7, <1>8, FlowOf

\* The item of the response that comes next.
LEMMA NextOf ==
    ASSUME Ground, Flow, NEW c \in Clients, thread[c].pc \in {"response", "respbody"},
           Passes(<<"server", c>>, <<"client", c>>)
    PROVE  LET C == <<"client", c>>
               S == <<"server", c>>
               r == thread[c].recv
               m == said[S]
           IN /\ r \in Nat /\ r < Len(m) /\ r + 1 \in 1 .. Len(m)
              /\ Head(inbox[S]) = m[r + 1]
              /\ Shaped(m, c) /\ m # <<>>
              /\ (r + 1) + Len(inbox'[S]) = Len(m)
              /\ peer'[C] = "open" => Len(outbox'[C]) = r + 1
              /\ IsPrefix(outbox'[C], said'[S])
<1> DEFINE C == <<"client", c>>
           S == <<"server", c>>
           r == thread[c].recv
           m == said[S]
<1>1. C \in Ends /\ S \in Ends /\ C # S /\ S[2] = c
  BY EndsAre
<1>2. /\ said' = said /\ peer' = peer
      /\ Len(inbox[S]) \in 1 .. Len(m) /\ Len(inbox'[S]) = Len(inbox[S]) - 1
      /\ Head(inbox[S]) = m[(Len(m) - Len(inbox[S])) + 1]
      /\ m \in Seq(Items) /\ m # <<>> /\ inbox[S] # <<>>
  BY <1>1, PassesEnds DEF Ground, Passes
<1>3. /\ r \in Nat /\ r + Len(inbox[S]) = Len(m)
      /\ peer[C] = "open" => Len(outbox[C]) = r
      /\ IsPrefix(outbox[C], m)
  BY <1>2 DEF Flow, ResponseOf, Getting
<1>4. m \in Messages(c)
  BY <1>1, <1>2 DEF Ground, Net
<1>5. Shaped(m, c)
  BY <1>4, AllShaped
<1>6. /\ IsPrefix(outbox'[C], said'[S])
      /\ peer[C] = "open" => Len(outbox'[C]) = Len(outbox[C]) + 1
  <2>1. peer[C] = "open" => Len(outbox[C]) + Len(inbox[S]) = Len(said[S])
    BY <1>3
  <2> QED  BY <1>1, <1>3, <2>1, PrefixPasses DEF Ground
<1> HIDE DEF C, S, r, m
<1>7. /\ r < Len(m) /\ r + 1 \in 1 .. Len(m) /\ (Len(m) - Len(inbox[S])) + 1 = r + 1
      /\ (r + 1) + Len(inbox'[S]) = Len(m)
  <2>1. Len(m) \in Nat
    BY <1>2
  <2>2. /\ r < Len(m) /\ r + 1 \in 1 .. Len(m) /\ (Len(m) - Len(inbox[S])) + 1 = r + 1
        /\ (r + 1) + (Len(inbox[S]) - 1) = Len(m)
    BY <1>2, <1>3, <2>1, Remains
  <2> QED  BY <1>2, <2>2, Zenon
<1>8. /\ Head(inbox[S]) = m[r + 1]
      /\ peer'[C] = "open" => Len(outbox'[C]) = r + 1
  BY <1>2, <1>3, <1>6, <1>7
<1> QED  BY <1>2, <1>3, <1>5, <1>6, <1>7, <1>8 DEF C, S, r, m

\* An item of the response passed on extends what the client was sent, and is
\* counted.
LEMMA ResponsePassed ==
    ASSUME Ground, Flow, NEW c \in Clients, thread[c].pc \in {"response", "respbody"},
           Passes(<<"server", c>>, <<"client", c>>),
           \A d \in Clients : d # c => thread'[d] = thread[d],
           thread'[c].recv = thread[c].recv + 1,
           thread'[c].pc \in {"response", "respbody", "closeserver"},
           LET u == thread'[c]
               d == Declared(said[<<"server", c>>])
           IN /\ u.pc = "response" => u.recvbody = 0 /\ (u.recv <= 1 => ~u.lenset)
              /\ d # NoLength
                   => /\ u.pc = "response"
                           => u.recv <= 2 /\ (u.recv = 2 => u.lenset /\ u.bodylen = d)
                      /\ u.pc = "respbody" => u.bodylen = d /\ u.recv = u.recvbody + 3
                      /\ u.pc = "closeserver" => u.recv = Len(said[<<"server", c>>])
    PROVE  Flow' /\ OnlyOf(c)
<1> DEFINE C == <<"client", c>>
           S == <<"server", c>>
<1>1. C \in Ends /\ S \in Ends /\ C # S /\ C[2] = c /\ S[2] = c
  BY EndsAre
<1>2. /\ said' = said /\ peer' = peer
      /\ inbox'[C] = inbox[C] /\ outbox'[S] = outbox[S]
  BY <1>1, PassesEnds DEF Ground
<1>3. /\ thread[c].recv \in Nat /\ said[S] # <<>>
      /\ (thread[c].recv + 1) + Len(inbox'[S]) = Len(said[S])
      /\ peer'[C] = "open" => Len(outbox'[C]) = thread[c].recv + 1
      /\ IsPrefix(outbox'[C], said'[S])
  BY NextOf
<1>4. RequestStill(c) /\ thread'[c].pc \notin Fore
  BY <1>2 DEF RequestStill, Still, Shut, Fore
<1>5. RequestOf(c)'
  BY <1>4, RequestKept DEF Flow
<1>6. thread'[c].recv \in Nat /\ thread'[c].recv > 0 /\ thread'[c].pc \notin Before
  BY <1>3 DEF Before, Fore
<1>7. thread'[c].pc \in Got => thread'[c].pc = "closeserver"
  BY DEF Got
<1>8. ResponseOf(c)'
  BY <1>2, <1>3, <1>6, <1>7 DEF ResponseOf
<1>9. OnlyOf(c)
  BY <1>1, PassesOf DEF Ground
<1> QED  BY <1>5, <1>8, <1>9, FlowOf

\* The request's headers and its body are passed on,
LEMMA RequestBodyFlow ==
    ASSUME Ground, Flow, NEW c \in Clients, ReadRequestHeader(c) \/ ReadRequestBody(c)
    PROVE  Flow' /\ OnlyOf(c)
<1> DEFINE C == <<"client", c>>
           S == <<"server", c>>
           t == thread[c]
           f == t.connfd
           g == t.clientfd
           x == Next1(f)
<1>1. /\ t.pc \in {"headers", "reqbody"} /\ t.pc \in Serving /\ t \in Threads
      /\ \A d \in Clients : d # c => thread'[d] = thread[d]
      /\ t.pc = "reqbody" => ~t.lenset
      /\ thread \in [Clients -> Threads]
  BY ReadOf DEF ReadRequestHeader, ReadRequestBody, At, Reading, Ground, Local, Serving,
                Flow, ResponseOf, Before
<1>2. CASE Goto(c, "bail") /\ UNCHANGED net
  BY <1>2, TurnFlow
<1>3. CASE /\ Readable(f) /\ Relay(f, g) /\ t.pc = "headers"
           /\ thread' = [thread EXCEPT ![c] =
                CASE x.kind = "blank" ->
                       [t EXCEPT !.pc = IF t.lenset THEN "reqbody" ELSE "response",
                                 !.lenset = FALSE]
                  [] x.kind = "length" /\ ~t.lenset ->
                       [t EXCEPT !.bodylen = x.n, !.lenset = TRUE]
                  [] OTHER -> t]
  <2> DEFINE u == CASE x.kind = "blank" ->
                       [t EXCEPT !.pc = IF t.lenset THEN "reqbody" ELSE "response",
                                 !.lenset = FALSE]
                    [] x.kind = "length" /\ ~t.lenset ->
                       [t EXCEPT !.bodylen = x.n, !.lenset = TRUE]
                    [] OTHER -> t
  <2>1. thread'[c] = u
    BY <1>1, <1>3
  <2>2. /\ u.pc \in {"headers", "reqbody", "response"} /\ (u.pc # "headers" => ~u.lenset)
        /\ u.recv = t.recv /\ u.recvbody = t.recvbody
    <3> HIDE DEF x
    <3> QED  BY <1>1, <1>3 DEF Threads
  <2>3. Passes(C, S)
    BY <1>1, <1>3, PassedOn
  <2> QED  BY <1>1, <2>1, <2>2, <2>3, RequestPassed
<1>4. CASE /\ Readable(f) /\ Relay(f, g) /\ t.pc = "reqbody"
           /\ thread' = [thread EXCEPT ![c].reqbody = @ + 1,
                           ![c].pc = IF t.reqbody + 1 >= t.bodylen
                                     THEN "response" ELSE @]
  <2> DEFINE p == IF t.reqbody + 1 >= t.bodylen THEN "response" ELSE t.pc
             u == [t EXCEPT !.reqbody = @ + 1, !.pc = p]
  <2>1. thread'[c] = u
    BY <1>1, <1>4
  <2>2. p \in {"reqbody", "response"}
    BY <1>4
  <2> HIDE DEF p
  <2>3. /\ u.pc = p /\ u.lenset = t.lenset /\ u.recv = t.recv /\ u.recvbody = t.recvbody
    BY <1>1 DEF Threads
  <2>4. Passes(C, S)
    BY <1>1, <1>4, PassedOn
  <2> HIDE DEF u
  <2> QED  BY <1>1, <1>4, <2>1, <2>2, <2>3, <2>4, RequestPassed
<1> QED  BY <1>2, <1>3, <1>4, SMTT(30) DEF ReadRequestHeader, ReadRequestBody, At

\* and so are the response's headers
LEMMA ResponseLineFlow ==
    ASSUME Ground, Flow, NEW c \in Clients, ReadResponseLine(c)
    PROVE  Flow' /\ OnlyOf(c)
<1> DEFINE C == <<"client", c>>
           S == <<"server", c>>
           t == thread[c]
           f == t.clientfd
           g == t.connfd
           x == Next1(f)
           m == said[S]
           d == Declared(m)
           u == CASE x.kind = "blank" ->
                       [t EXCEPT !.pc = "respbody", !.recv = @ + 1]
                  [] x.kind = "length" /\ ~t.lenset ->
                       [t EXCEPT !.bodylen = x.n, !.lenset = TRUE, !.recv = @ + 1]
                  [] OTHER -> [t EXCEPT !.recv = @ + 1]
<1>1. /\ t.pc = "response" /\ t.pc \in Serving /\ t \in Threads
      /\ \A e \in Clients : e # c => thread'[e] = thread[e]
      /\ thread \in [Clients -> Threads]
  BY ReadOf DEF ReadResponseLine, At, Reading, Ground, Local, Serving
<1>2. CASE Goto(c, "bail") /\ UNCHANGED net
  BY <1>2, TurnFlow
<1>3. CASE Readable(f) /\ Relay(f, g) /\ thread' = [thread EXCEPT ![c] = u]
  <2>1. thread'[c] = u
    BY <1>1, <1>3
  <2>2. Passes(S, C) /\ x = Head(inbox[S])
    BY <1>1, <1>3, PassedOn
  <2>3. /\ t.recv \in Nat /\ x = m[t.recv + 1] /\ Shaped(m, c)
    BY <1>1, <2>2, NextOf
  <2>4. /\ t.recvbody = 0 /\ (t.recv <= 1 => ~t.lenset)
        /\ d # NoLength => t.recv <= 2 /\ (t.recv = 2 => t.lenset /\ t.bodylen = d)
    BY <1>1 DEF Flow, ResponseOf
  <2> HIDE DEF x, d, m
  <2>5. /\ u.recv = t.recv + 1 /\ u.recvbody = t.recvbody
        /\ u.pc = IF x.kind = "blank" THEN "respbody" ELSE "response"
        /\ IF x.kind = "length" /\ ~t.lenset THEN u.lenset = TRUE /\ u.bodylen = x.n
           ELSE u.lenset = t.lenset /\ u.bodylen = t.bodylen
    BY <1>1 DEF Threads
  <2> HIDE DEF u, t
  <2>6. t.recv = 0 => x.kind \notin {"blank", "length"}
    BY <2>3 DEF Shaped, Item
  <2>7. u.pc = "response" => u.recvbody = 0 /\ (u.recv <= 1 => ~u.lenset)
    <3>1. u.recv <= 1 => t.recv = 0
      BY <2>3, <2>5
    <3>2. t.recv = 0 => ~t.lenset /\ x.kind # "length"
      BY <2>4, <2>6
    <3>3. t.recv = 0 => u.lenset = t.lenset
      BY <2>5, <3>2
    <3> QED  BY <2>4, <2>5, <3>1, <3>2, <3>3, Zenon
  <2>8. ASSUME d # NoLength
        PROVE  /\ u.pc = "response"
                    => u.recv <= 2 /\ (u.recv = 2 => u.lenset /\ u.bodylen = d)
               /\ u.pc = "respbody" => u.bodylen = d /\ u.recv = u.recvbody + 3
    <3>1. /\ m[2].kind = "length" /\ m[2].n = d /\ m[3].kind = "blank"
      BY <2>3, <2>8 DEF Shaped, d
    <3>2. t.recv \in {0, 1, 2}
      BY <2>3, <2>4, <2>8
    <3>3. CASE t.recv = 0
      <4>1. u.pc = "response" /\ u.recv = 1
        BY <2>5, <2>6, <3>3
      <4> QED  BY <4>1
    <3>4. CASE t.recv = 1
      <4>1. x.kind = "length" /\ x.n = d /\ ~t.lenset
        BY <2>3, <2>4, <3>1, <3>4
      <4>2. u.pc = "response" /\ u.recv = 2 /\ u.lenset = TRUE /\ u.bodylen = d
        BY <2>5, <3>4, <4>1
      <4> QED  BY <4>2
    <3>5. CASE t.recv = 2
      <4>1. x.kind = "blank" /\ t.bodylen = d
        BY <2>3, <2>4, <2>8, <3>1, <3>5
      <4>2. u.pc = "respbody" /\ u.recv = 3 /\ u.bodylen = d /\ u.recvbody = 0
        BY <2>4, <2>5, <3>5, <4>1
      <4> QED  BY <4>2
    <3> QED  BY <3>2, <3>3, <3>4, <3>5
  <2>9. u.pc \in {"response", "respbody"}
    BY <2>5
  <2> QED  BY <1>1, <2>1, <2>2, <2>5, <2>7, <2>8, <2>9, ResponsePassed DEF d, m, t
<1> QED  BY <1>2, <1>3, SMTT(30) DEF ReadResponseLine

\* and its body.
LEMMA ResponseBodyFlow ==
    ASSUME Ground, Flow, NEW c \in Clients, ReadResponseBody(c)
    PROVE  Flow' /\ OnlyOf(c)
<1> DEFINE C == <<"client", c>>
           S == <<"server", c>>
           t == thread[c]
           f == t.clientfd
           g == t.connfd
           m == said[S]
           d == Declared(m)
           p == IF EndOfResponse(t) THEN "closeserver" ELSE t.pc
           u == [t EXCEPT !.recvbody = @ + 1, !.recv = @ + 1, !.pc = p]
<1>1. /\ t.pc = "respbody" /\ t.pc \in Serving /\ t \in Threads
      /\ \A e \in Clients : e # c => thread'[e] = thread[e]
      /\ thread \in [Clients -> Threads]
  BY ReadOf DEF ReadResponseBody, At, Reading, Ground, Local, Serving
<1>2. CASE Goto(c, "bail") /\ UNCHANGED net
  BY <1>2, TurnFlow
<1>3. CASE /\ Readable(f) /\ Relay(f, g)
           /\ thread' = [thread EXCEPT ![c].recvbody = @ + 1, ![c].recv = @ + 1,
                           ![c].pc = IF EndOfResponse(t) THEN "closeserver" ELSE @]
  <2>1. thread'[c] = u
    BY <1>1, <1>3
  <2>2. Passes(S, C)
    BY <1>1, <1>3, PassedOn
  <2>3. /\ t.recv \in Nat /\ t.recv + 1 \in 1 .. Len(m) /\ Shaped(m, c)
    BY <1>1, <2>2, NextOf
  <2>4. d # NoLength => t.bodylen = d /\ t.recv = t.recvbody + 3
    BY <1>1 DEF Flow, ResponseOf
  <2>5. p \in {"respbody", "closeserver"}
        /\ (p = "closeserver" => t.recvbody + 1 >= t.bodylen)
    BY <1>1 DEF EndOfResponse
  <2> HIDE DEF d, m, p
  <2>6. /\ u.recv = t.recv + 1 /\ u.recvbody = t.recvbody + 1 /\ u.pc = p
        /\ u.bodylen = t.bodylen /\ t.recvbody \in Int
    BY <1>1 DEF Threads
  <2> HIDE DEF u, t
  <2>7. ASSUME d # NoLength
        PROVE  /\ u.pc = "respbody" => u.bodylen = d /\ u.recv = u.recvbody + 3
               /\ u.pc = "closeserver" => u.recv = Len(m)
    <3>1. d \in Nat /\ Len(m) = 3 + d
      BY <2>3, <2>7 DEF Shaped, d
    <3>2. u.pc = "respbody" => u.bodylen = d /\ u.recv = u.recvbody + 3
      BY <2>4, <2>6, <2>7
    <3>3. u.pc = "closeserver" => u.recv = Len(m)
      <4>1. u.pc = "closeserver" => t.recvbody + 1 >= d
        BY <2>4, <2>5, <2>6, <2>7
      <4>2. t.recv + 1 \in 1 .. 3 + d /\ t.recv = t.recvbody + 3
        BY <2>3, <2>4, <2>7, <3>1
      <4> HIDE DEF m
      <4> QED  BY <2>6, <3>1, <4>1, <4>2
    <3> QED  BY <3>2, <3>3
  <2> QED  BY <1>1, <2>1, <2>2, <2>5, <2>6, <2>7, ResponsePassed DEF d, m, t
<1> QED  BY <1>2, <1>3 DEF ReadResponseBody

\* A close drops what could still be read.
LEMMA CloseOnly ==
    ASSUME Ground, NEW c \in Clients, NEW f, Close(f), UNCHANGED <<said, outbox>>,
           IsOpen(f) => fdt[f][2] = c,
           \A d \in Clients : d # c => thread'[d] = thread[d]
    PROVE  OnlyOf(c) /\ RequestStill(c) /\ ResponseStill(c)
<1>1. \A e \in Ends :
        IF IsOpen(f) /\ e = fdt[f]
        THEN peer'[e] = "closed" /\ inbox'[e] = <<>>
        ELSE peer'[e] = peer[e] /\ inbox'[e] = inbox[e]
  BY Closed DEF Ground
<1> QED  BY <1>1, EndsAre DEF OnlyOf, RequestStill, ResponseStill, Still, Shut

\* Closing the server's descriptor keeps every flow,
LEMMA CloseServerFlow ==
    ASSUME Ground, Flow, NEW c \in Clients, CloseServer(c) \/ Bail(c)
    PROVE  Flow' /\ OnlyOf(c)
<1> DEFINE t == thread[c]
<1>1. PICK at \in {"lock", "close"} :
        /\ thread' = [thread EXCEPT ![c].pc = at, ![c].clientfd = NoFd]
        /\ at = "lock" => t.pc = "closeserver"
        /\ Close(t.clientfd) /\ UNCHANGED <<said, outbox>>
  BY DEF CloseServer, Bail, At
<1>2. t \in Threads /\ thread \in [Clients -> Threads]
  BY DEF Ground, Local
<1>3. /\ thread'[c].pc = at /\ thread'[c].recv = t.recv /\ thread'[c].recvbody = t.recvbody
      /\ \A d \in Clients : d # c => thread'[d] = thread[d]
  BY <1>1, <1>2 DEF Threads
<1>4. OnlyOf(c) /\ RequestStill(c) /\ ResponseStill(c)
  <2>1. IsOpen(t.clientfd) => fdt[t.clientfd][2] = c
    <3>1. IsOpen(t.clientfd) => fdt[t.clientfd] = <<"server", c>>
      BY OwnFds, Zenon
    <3>2. <<"server", c>>[2] = c
      OBVIOUS
    <3> QED  BY <3>1, <3>2, Zenon
  <2> HIDE DEF t
  <2> QED  BY <1>1, <1>3, <2>1, CloseOnly
<1>5. at \notin Fore /\ (at \in {"bail", "close"} \/ (t.pc \in Got /\ at \in Got))
  BY <1>1 DEF Fore, Got
<1> QED  BY <1>3, <1>4, <1>5, RequestKept, ResponseKept, FlowOf DEF Flow

\* so does logging,
LEMMA LoggingFlow ==
    ASSUME Ground, Flow, NEW c \in Clients, Logging(c)
    PROVE  Flow' /\ OnlyOf(c)
<1> DEFINE t == thread[c]
<1>1. PICK at \in {"write1", "write2", "unlock", "close"} : Goto(c, at)
  BY DEF Logging, Lock, WriteLog, Unlock
<1>2. t.pc \in Got /\ UNCHANGED net
  BY DEF Logging, Lock, WriteLog, Unlock, At, Got
<1>3. at \in Pcs /\ t \in Threads /\ Local
  BY DEF Ground, Local, Pcs
<1>4. thread'[c] = [t EXCEPT !.pc = at] /\ \A d \in Clients : d # c => thread'[d] = thread[d]
  BY <1>1, <1>3, GotoType
<1>5. /\ thread'[c].pc = at /\ thread'[c].recv = t.recv /\ thread'[c].recvbody = t.recvbody
  BY <1>3, <1>4 DEF Threads
<1>6. OnlyOf(c) /\ RequestStill(c) /\ ResponseStill(c)
  BY <1>2, <1>4 DEF OnlyOf, net, RequestStill, ResponseStill, Still, Shut
<1>7. at \notin Fore /\ (at \in {"bail", "close"} \/ at \in Got)
  BY DEF Fore, Got
<1> QED  BY <1>2, <1>5, <1>6, <1>7, RequestKept, ResponseKept, FlowOf DEF Flow

\* closing the client's descriptor,
LEMMA CloseClientFlow ==
    ASSUME Ground, Flow, NEW c \in Clients, CloseClient(c)
    PROVE  Flow' /\ OnlyOf(c)
<1> DEFINE C == <<"client", c>>
           S == <<"server", c>>
           f == thread[c].connfd
<1>1. /\ thread[c].pc = "close" /\ Close(f)
      /\ thread' = [thread EXCEPT ![c] = [Idle EXCEPT !.pc = "done"]]
      /\ said' = [e \in Ends |-> IF e[2] = c THEN <<>> ELSE said[e]]
      /\ outbox' = [e \in Ends |-> IF e[2] = c THEN <<>> ELSE outbox[e]]
      /\ C \in Ends /\ S \in Ends /\ C[2] = c /\ S[2] = c
  BY EndsAre DEF CloseClient, At
<1>2. /\ thread'[c].pc = "done" /\ thread'[c].recv = 0
      /\ \A d \in Clients : d # c => thread'[d] = thread[d]
  BY <1>1 DEF Ground, Local, Idle
<1>3. IsOpen(f) /\ fdt[f] = C
  BY <1>1, OwnFds DEF Working, Pcs
<1>4. /\ inbox'[C] = <<>> /\ peer'[C] = "closed"
      /\ \A e \in Ends : e # C => peer'[e] = peer[e] /\ inbox'[e] = inbox[e]
  BY <1>1, <1>3, Closed, ZenonT(30) DEF Ground
<1>5. /\ said'[C] = <<>> /\ said'[S] = <<>> /\ outbox'[C] = <<>> /\ outbox'[S] = <<>>
      /\ \A e \in Ends : e[2] # c => said'[e] = said[e] /\ outbox'[e] = outbox[e]
  BY <1>1
<1>6. IsPrefix(<<>>, <<>>)
  BY PrefixEmpty, EmptyType
<1>7. RequestOf(c)'
  BY <1>2, <1>4, <1>5, <1>6 DEF RequestOf, Fore
<1>8. ResponseOf(c)'
  BY <1>2, <1>4, <1>5, <1>6 DEF ResponseOf, Before, Getting, Got, Fore
<1>9. OnlyOf(c)
  <2>1. \A e \in Ends : e[2] # c => e # C
    OBVIOUS
  <2> QED  BY <1>2, <1>4, <1>5, <2>1, Zenon DEF OnlyOf
<1> QED  BY <1>7, <1>8, <1>9, FlowOf

\* accepting a client, whose request is on its way from then on,
LEMMA AcceptFlow ==
    ASSUME Ground, Flow, NEW c \in Clients, Accept(c)
    PROVE  Flow' /\ OnlyOf(c)
<1> DEFINE C == <<"client", c>>
           S == <<"server", c>>
<1>1. /\ peer[C] = "none" /\ peer' = [peer EXCEPT ![C] = "open"]
      /\ UNCHANGED <<outbox, thread>>
      /\ C \in Ends /\ S \in Ends /\ C # S /\ C[2] = c
  BY EndsAre DEF Accept
<1>2. PICK r \in Requests(c) : said' = [said EXCEPT ![C] = r] /\ inbox' = [inbox EXCEPT ![C] = r]
  BY DEF Accept
<1>3. /\ peer'[C] = "open" /\ said'[C] = r /\ inbox'[C] = r
      /\ \A e \in Ends : e # C => /\ peer'[e] = peer[e] /\ said'[e] = said[e]
                                  /\ inbox'[e] = inbox[e]
  BY <1>1, <1>2 DEF Ground, Net
<1>4. thread[c].pc = "none"
  BY <1>1 DEF Ground, Phases
<1>5. r \in Seq(Items)
  BY MessagesType
<1>6. RequestOf(c)'
  <2>1. peer[S] = "none" /\ outbox[S] = <<>>
    BY <1>4 DEF Flow, RequestOf, Fore
  <2>2. IsPrefix(<<>>, r)
    BY <1>5, PrefixEmpty
  <2> QED  BY <1>1, <1>3, <1>4, <2>1, <2>2 DEF RequestOf
<1>7. ResponseOf(c)'
  <2>1. thread[c].pc \in Before /\ thread[c].pc \in Getting
    BY <1>4 DEF Before, Getting, Fore
  <2>2. /\ outbox[C] = <<>> /\ thread[c].recv = 0
        /\ ResponseOf(c)
    BY <2>1 DEF Flow, ResponseOf
  <2>3. Len(outbox[C]) = 0
    BY <2>2
  <2> QED  BY <1>1, <1>3, <2>1, <2>2, <2>3 DEF ResponseOf
<1>8. OnlyOf(c)
  <2>1. \A e \in Ends : e[2] # c => e # C
    OBVIOUS
  <2> QED  BY <1>1, <1>3, <2>1, Zenon DEF OnlyOf
<1> QED  BY <1>6, <1>7, <1>8, FlowOf

\* The steps that start a thread or open no connection with the server.
LEMMA StartFlow ==
    ASSUME Ground, Flow, NEW c \in Clients,
           \/ Create /\ main.last = c
           \/ Start(c) \/ ConnectFails(c) \/ ResolveFails(c)
    PROVE  Flow' /\ OnlyOf(c)
<1> DEFINE t == thread[c]
<1>1. t \in Threads /\ thread \in [Clients -> Threads]
  BY DEF Ground, Local
<1>2. UNCHANGED net
  BY DEF Create, Start, ConnectFails, ResolveFails
<1>3. /\ \A d \in Clients : d # c => thread'[d] = thread[d]
      /\ thread'[c].recv = t.recv /\ thread'[c].recvbody = t.recvbody
      /\ thread'[c].lenset = t.lenset
      /\ t.pc \in Fore
      /\ \/ t.pc \in {"none", "start"} /\ thread'[c].pc \in {"start", "reqline"}
         \/ thread'[c].pc \in {"close", "headers"}
  <2>1. CASE Create /\ main.last = c
    <3>1. t.pc = "none"
      BY <2>1 DEF Create, AtMain, Ground, Phases
    <3> QED  BY <1>1, <2>1, <3>1 DEF Create, Threads, Fore
  <2>2. CASE Start(c)
    BY <1>1, <2>2 DEF Start, At, Threads, Fore
  <2>3. CASE ConnectFails(c)
    BY <1>1, <2>3 DEF ConnectFails, Goto, At, Threads, Fore
  <2>4. CASE ResolveFails(c)
    BY <1>1, <2>4 DEF ResolveFails, At, Threads, Fore
  <2> QED  BY <2>1, <2>2, <2>3, <2>4
<1>4. OnlyOf(c) /\ RequestStill(c) /\ ResponseStill(c)
  BY <1>2, <1>3 DEF OnlyOf, net, RequestStill, ResponseStill, Still, Shut
<1>5. thread'[c].pc \in Before \/ thread'[c].pc \in {"bail", "close"}
  BY <1>3 DEF Fore, Before
<1>6. RequestOf(c)'
  BY <1>2, <1>3, <1>4, RequestKept DEF Flow, net, Fore
<1>7. ResponseOf(c)'
  BY <1>3, <1>4, <1>5, ResponseKept DEF Flow
<1> QED  BY <1>4, <1>6, <1>7, FlowOf

\* and the server's response, which is on its way from then on.
LEMMA RespondFlow ==
    ASSUME Ground, Flow, NEW c \in Clients, Respond(c)
    PROVE  Flow' /\ OnlyOf(c)
<1> DEFINE C == <<"client", c>>
           S == <<"server", c>>
           t == thread[c]
<1>1. /\ peer[S] = "open" /\ said[S] = <<>> /\ UNCHANGED <<outbox, thread>>
      /\ C \in Ends /\ S \in Ends /\ C # S /\ S[2] = c
  BY EndsAre DEF Respond
<1>2. PICK r \in Responses(c) :
        /\ said' = [said EXCEPT ![S] = r] /\ inbox' = [inbox EXCEPT ![S] = r]
        /\ peer' = [peer EXCEPT ![S] = IF Declared(r) = NoLength THEN "closed" ELSE @]
  BY DEF Respond
<1>3. /\ said'[S] = r /\ inbox'[S] = r /\ Shut(S)
      /\ \A e \in Ends : e # S => /\ peer'[e] = peer[e] /\ said'[e] = said[e]
                                  /\ inbox'[e] = inbox[e]
  BY <1>1, <1>2 DEF Ground, Net, Shut
<1>4. r \in Seq(Items)
  BY MessagesType
<1>5. RequestStill(c)
  BY <1>1, <1>3 DEF RequestStill, Still
<1>6. RequestOf(c)'
  BY <1>1, <1>5, RequestKept DEF Flow
<1>7. /\ t.pc \in Getting \union Got => t.recv = 0
      /\ outbox[C] = <<>> /\ t.recv \in Nat
  <2>1. outbox[C] \in Seq(Items) /\ IsPrefix(outbox[C], <<>>)
    BY <1>1 DEF Ground, Net, Flow, ResponseOf
  <2>2. outbox[C] = <<>>
    BY <2>1, PrefixEmpty
  <2>3. t.recv \in Nat /\ (t.pc \in Getting \union Got => ~(t.recv > 0))
    BY <1>1 DEF Flow, ResponseOf
  <2> QED  BY <2>2, <2>3
<1>8. t.pc \notin Got /\ t.pc # "respbody"
  <2>1. (t.pc \in Got => t.recv > 0) /\ (t.pc = "respbody" => t.recv > 0)
    BY DEF Flow, ResponseOf
  <2>2. "respbody" \in Getting
    BY DEF Getting
  <2> QED  BY <1>7, <2>1, <2>2
<1>9. IsPrefix(<<>>, r) /\ 0 + Len(r) = Len(r)
  BY <1>4, PrefixEmpty
<1>10. ResponseOf(c)'
  <2>1. t.pc = "response" => t.recv = 0
    BY <1>7 DEF Getting
  <2>2. /\ t.pc \in Before => /\ t.recv = 0 /\ t.recvbody = 0
                              /\ t.pc # "headers" => ~t.lenset
        /\ t.pc = "response" => t.recvbody = 0 /\ (t.recv <= 1 => ~t.lenset)
        /\ t.pc \in Getting => (peer[C] = "open" => Len(outbox[C]) = t.recv)
    BY DEF Flow, ResponseOf
  <2>3. thread' = thread /\ outbox' = outbox /\ peer'[C] = peer[C]
    BY <1>1, <1>3
  <2> HIDE DEF C, S
  <2>4. t.pc = "response" => t.recv <= 2 /\ t.recv # 2 /\ ~t.lenset
    BY <2>1, <2>2
  <2> QED  BY <1>3, <1>7, <1>8, <1>9, <2>1, <2>2, <2>3, <2>4 DEF ResponseOf, C, S
<1>11. OnlyOf(c)
  <2>1. \A e \in Ends : e[2] # c => e # S
    OBVIOUS
  <2> QED  BY <1>1, <1>3, <2>1, Zenon DEF OnlyOf
<1> QED  BY <1>6, <1>10, <1>11, FlowOf

\* A peer that ends or is cut off leaves every flow as it is known.
LEMMA EndsFlow ==
    ASSUME Ground, Flow, NEW e \in Ends, PeerEnds(e) \/ PeerCuts(e)
    PROVE  Flow'
<1>1. /\ UNCHANGED <<said, outbox, thread>>
      /\ peer[e] = "open"
      /\ \A d \in Ends : /\ peer'[d] = IF d = e THEN "closed" ELSE peer[d]
                         /\ inbox'[d] \in {inbox[d], <<>>}
  BY DEF PeerEnds, PeerCuts, Ground, Net
<1> SUFFICES ASSUME NEW c \in Clients PROVE RequestOf(c)' /\ ResponseOf(c)'
  BY DEF Flow
<1>2. RequestStill(c) /\ ResponseStill(c)
  BY <1>1, EndsAre DEF RequestStill, ResponseStill, Still, Shut
<1>3. peer[<<"server", c>>] = "none" => peer'[<<"server", c>>] = "none"
  BY <1>1, EndsAre
<1> QED  BY <1>1, <1>2, <1>3, RequestKept, ResponseKept DEF Flow

\* Every step keeps the flow,
LEMMA StepFlow == Ground /\ Flow /\ [Next]_vars => Flow'
<1> SUFFICES ASSUME Ground, Flow, [Next]_vars PROVE Flow'
  OBVIOUS
<1>1. CASE UNCHANGED <<net, thread>>
  BY <1>1, ZenonT(30) DEF Flow, RequestOf, ResponseOf, net
<1>2. ASSUME NEW a \in Cells, Malloc(a) PROVE Flow'
  BY <1>1, <1>2 DEF Malloc
<1>3. CASE Create
  <2>1. main.last \in Clients
    BY <1>3 DEF Create, AtMain, Ground, Phases
  <2> QED  BY <1>3, <2>1, StartFlow
<1>4. ASSUME NEW c \in Clients, Doit(c) PROVE Flow'
  BY <1>4, StartFlow, RequestLineFlow, ConnectFlow, RequestBodyFlow, ResponseLineFlow,
     ResponseBodyFlow, CloseServerFlow, LoggingFlow, CloseClientFlow DEF Doit, Logging
<1>5. UNCHANGED vars => Flow'
  BY <1>1 DEF vars
<1> QED  BY <1>2, <1>3, <1>4, <1>5, AcceptFlow, RespondFlow, EndsFlow
         DEF Next, Main, Peers, Rest

\* which holds at the start,
LEMMA InitFlow == Init => Flow
<1> SUFFICES ASSUME Init, NEW c \in Clients PROVE RequestOf(c) /\ ResponseOf(c)
  BY DEF Flow
<1>1. <<"client", c>> \in Ends /\ <<"server", c>> \in Ends
  BY EndsAre
<1>2. /\ \A e \in Ends : peer[e] = "none" /\ said[e] = <<>> /\ inbox[e] = <<>> /\ outbox[e] = <<>>
      /\ thread[c] = Idle
  BY DEF Init
<1>3. /\ Idle.pc = "none" /\ Idle.recv = 0 /\ Idle.recvbody = 0 /\ Idle.lenset = FALSE
  BY DEF Idle
<1>4. IsPrefix(<<>>, <<>>) /\ Len(<<>>) = 0
  BY PrefixEmpty, EmptyType
<1>5. RequestOf(c)
  BY <1>1, <1>2, <1>3, <1>4 DEF RequestOf, Fore
<1>6. ResponseOf(c)
  BY <1>1, <1>2, <1>3, <1>4 DEF ResponseOf, Fore, Before, Getting, Got
<1> QED  BY <1>5, <1>6

\* so it always holds.
LEMMA Flows == Spec => []Flow
<1>1. IInv => Ground
  BY DEF IInv, Ground
<1> QED  BY <1>1, InitFlow, StepFlow, Inductive, PTL DEF Spec

\* What a client gets is the beginning of the response of its own server, and
\* what a server gets the beginning of its own client's request, whatever
\* fails and closes, for any number of connections and any bodies.
THEOREM NothingIsMixedUp == Spec => []Forwarded
<1>1. Flow => Forwarded
  BY DEF Flow, RequestOf, ResponseOf, Forwarded
<1> QED  BY <1>1, Flows, PTL

-----------------------------------------------------------------------------
(* What is logged.  Once a thread has an entry, nothing is read from its   *)
(* server any more and nothing is sent to its client.                      *)
Settled(c) ==
  \/ thread[c].pc \in Early \union {"lock", "write1"}
  \/ thread'[c].pc = "done"
  \/ /\ thread[c].pc # "done"
     /\ said'[<<"server", c>>] = said[<<"server", c>>]
     /\ outbox'[<<"client", c>>] = outbox[<<"client", c>>]
     /\ peer'[<<"client", c>>] = "open" => peer[<<"client", c>>] = "open"

\* The log stays true while it is unchanged and the counts it tells are settled.
LEMMA TrueKept ==
    ASSUME Logged, LoggedTrue, log' = log, \A c \in Clients : Settled(c)
    PROVE  LoggedTrue'
<1> SUFFICES ASSUME NEW i \in DOMAIN log, thread'[log[i].of].pc # "done"
             PROVE  LET answer == said'[<<"server", log[i].of>>]
                        client == <<"client", log[i].of>>
                    IN /\ Declared(answer) # NoLength => log[i].size = Len(answer)
                       /\ peer'[client] = "open" => log[i].size = Len(outbox'[client])
  BY DEF LoggedTrue, Declared
<1> DEFINE c == log[i].of
<1>1. c \in Clients /\ thread[c].pc \notin Early \union {"lock", "write1"}
  <2>1. log[i] \in Entries /\ thread[c].pc \notin Early \union {"lock", "write1"}
    BY DEF Logged
  <2> QED  BY <2>1 DEF Entries
<1>2. /\ thread[c].pc # "done"
      /\ said'[<<"server", c>>] = said[<<"server", c>>]
      /\ outbox'[<<"client", c>>] = outbox[<<"client", c>>]
      /\ peer'[<<"client", c>>] = "open" => peer[<<"client", c>>] = "open"
  BY <1>1 DEF Settled
<1>3. /\ Declared(said[<<"server", c>>]) # NoLength => log[i].size = Len(said[<<"server", c>>])
      /\ peer[<<"client", c>>] = "open" => log[i].size = Len(outbox[<<"client", c>>])
  BY <1>2 DEF LoggedTrue
<1> QED  BY <1>2, <1>3

\* The counts of the other exchanges are settled by a step of one.
LEMMA OnlySettles ==
    ASSUME NEW c \in Clients, OnlyOf(c), Settled(c)
    PROVE  \A d \in Clients : Settled(d)
<1> SUFFICES ASSUME NEW d \in Clients, d # c PROVE Settled(d)
  OBVIOUS
<1>1. <<"client", d>>[2] = d /\ <<"server", d>>[2] = d
  OBVIOUS
<1> QED  BY <1>1, EndsAre DEF OnlyOf, Settled

\* The entry written is true.
LEMMA WriteTrue ==
    ASSUME IInv, Flow, LoggedTrue, NEW c \in Clients, WriteLog(c)
    PROVE  LoggedTrue'
<1> DEFINE t == thread[c]
           p == IF t.pc = "write1" THEN 1 ELSE 2
           x == [of |-> c, size |-> t.recv, part |-> p]
<1>1. /\ t.pc \in {"write1", "write2"} /\ UNCHANGED net /\ log' = Append(log, x)
      /\ \E at \in {"write2", "unlock"} : Goto(c, at)
  BY DEF WriteLog, At
<1>2. /\ thread'[c].pc # "done" /\ t.pc # "done"
      /\ \A d \in Clients : d # c => thread'[d] = thread[d]
  <2>1. PICK at \in {"write2", "unlock"} : Goto(c, at)
    BY <1>1
  <2>2. at \in Pcs /\ Local
    BY DEF Pcs, IInv
  <2>3. thread'[c].pc = at /\ \A d \in Clients : d # c => thread'[d] = thread[d]
    BY <2>1, <2>2, GotoType
  <2> QED  BY <1>1, <2>3
<1>3. /\ log \in Seq(Entries) /\ x \in Entries
      /\ \A i \in DOMAIN log : log[i].of \in Clients
  <2>1. log \in Seq(Entries) /\ \A i \in DOMAIN log : log[i] \in Entries
    BY DEF IInv, Logged
  <2>2. t \in Threads
    BY DEF IInv, Local
  <2>3. t.recv \in Int /\ p \in {1, 2}
    BY <2>2 DEF Threads
  <2> QED  BY <2>1, <2>3 DEF Entries
<1> HIDE DEF x
<1>4. /\ DOMAIN log' = DOMAIN log \union {Len(log) + 1}
      /\ \A i \in DOMAIN log : log'[i] = log[i]
      /\ log'[Len(log) + 1] = x
  BY <1>1, <1>3
<1>5. ASSUME NEW b \in Clients, NEW n, 
             Declared(said[<<"server", b>>]) # NoLength => n = Len(said[<<"server", b>>]),
             peer[<<"client", b>>] = "open" => n = Len(outbox[<<"client", b>>])
      PROVE  /\ Declared(said'[<<"server", b>>]) # NoLength => n = Len(said'[<<"server", b>>])
             /\ peer'[<<"client", b>>] = "open" => n = Len(outbox'[<<"client", b>>])
  BY <1>1, <1>5 DEF net
<1>6. /\ x.of = c /\ x.size = t.recv
      /\ Declared(said[<<"server", c>>]) # NoLength => t.recv = Len(said[<<"server", c>>])
      /\ peer[<<"client", c>>] = "open" => t.recv = Len(outbox[<<"client", c>>])
  <2>1. t.pc \in Got
    BY <1>1 DEF Got
  <2> QED  BY <2>1 DEF Flow, ResponseOf, x
<1>7. ASSUME NEW i \in DOMAIN log', thread'[log'[i].of].pc # "done"
      PROVE  LET b == log'[i].of
             IN /\ Declared(said'[<<"server", b>>]) # NoLength
                     => log'[i].size = Len(said'[<<"server", b>>])
                /\ peer'[<<"client", b>>] = "open"
                     => log'[i].size = Len(outbox'[<<"client", b>>])
  <2>1. CASE i \in DOMAIN log
    <3>1. log'[i] = log[i] /\ log[i].of \in Clients /\ thread[log[i].of].pc # "done"
      BY <1>2, <1>3, <1>4, <1>7, <2>1
    <3> QED  BY <1>5, <2>1, <3>1 DEF LoggedTrue
  <2>2. CASE i = Len(log) + 1
    BY <1>4, <1>5, <1>6, <2>2
  <2> QED  BY <1>4, <2>1, <2>2
<1> QED  BY <1>7 DEF LoggedTrue, Declared

\* Every step keeps the log true.
LEMMA StepTrue == IInv /\ Flow /\ LoggedTrue /\ [Next]_vars => LoggedTrue'
<1> SUFFICES ASSUME IInv, Flow, LoggedTrue, [Next]_vars PROVE LoggedTrue'
  OBVIOUS
<1>1. Ground /\ Logged
  BY DEF IInv, Ground
<1>2. CASE UNCHANGED <<net, thread, log>>
  BY <1>2 DEF LoggedTrue, net, Declared
<1>3. UNCHANGED vars => LoggedTrue'
  BY <1>2 DEF vars
<1>4. ASSUME NEW a \in Cells, Malloc(a) PROVE LoggedTrue'
  BY <1>2, <1>4 DEF Malloc
<1>5. ASSUME NEW c \in Clients, OnlyOf(c), thread[c].pc \in Early, log' = log
      PROVE  LoggedTrue'
  BY <1>1, <1>5, OnlySettles, TrueKept DEF Settled
<1>6. ASSUME NEW c \in Clients, Accept(c) PROVE LoggedTrue'
  <2>1. thread[c].pc = "none"
    BY <1>1, <1>6 DEF Accept, Ground, Phases
  <2> QED  BY <1>1, <1>5, <1>6, <2>1, AcceptFlow DEF Accept, Early
<1>7. CASE Create
  <2>1. main.last \in Clients /\ thread[main.last].pc = "none"
    BY <1>1, <1>7 DEF Create, AtMain, Ground, Phases
  <2> QED  BY <1>1, <1>5, <1>7, <2>1, StartFlow DEF Create, Early
<1>8. ASSUME NEW c \in Clients, Start(c) \/ Connect(c) \/ ResolveFails(c)
      PROVE  LoggedTrue'
  <2>1. thread[c].pc \in Early /\ log' = log
    BY <1>8 DEF Start, Connect, ResolveFails, At, Early
  <2> QED  BY <1>1, <1>5, <1>8, <2>1, StartFlow, ConnectFlow
<1>9. ASSUME NEW c \in Clients, Reading(c) PROVE LoggedTrue'
  <2>1. thread[c].pc \in Early /\ log' = log
    BY <1>1, <1>9, ReadingMoves DEF Ground
  <2> QED  BY <1>1, <1>5, <1>9, <2>1, StartFlow, RequestLineFlow, RequestBodyFlow,
              ResponseLineFlow, ResponseBodyFlow DEF Reading
<1>10. ASSUME NEW c \in Clients, CloseServer(c) \/ Bail(c) PROVE LoggedTrue'
  <2>1. thread[c].pc \in Early /\ log' = log
    BY <1>10 DEF CloseServer, Bail, At, Early, Serving
  <2> QED  BY <1>1, <1>5, <1>10, <2>1, CloseServerFlow
<1>11. ASSUME NEW c \in Clients, Lock(c) \/ Unlock(c) PROVE LoggedTrue'
  <2>1. OnlyOf(c)
    BY <1>1, <1>11, LoggingFlow DEF Logging
  <2>2. Settled(c) /\ log' = log
    BY <1>11 DEF Lock, Unlock, At, Settled, net
  <2> QED  BY <1>1, <2>1, <2>2, OnlySettles, TrueKept
<1>12. ASSUME NEW c \in Clients, CloseClient(c) PROVE LoggedTrue'
  <2>1. OnlyOf(c) /\ thread'[c].pc = "done" /\ log' = log
    BY <1>1, <1>12, CloseClientFlow, CloseClientGround DEF CloseClient
  <2> QED  BY <1>1, <2>1, OnlySettles, TrueKept DEF Settled
<1>13. ASSUME NEW c \in Clients, Respond(c) PROVE LoggedTrue'
  <2>1. peer[<<"server", c>>] = "open" /\ log' = log
    BY <1>13 DEF Respond
  <2>2. IsOpen(thread[c].clientfd)
    BY <1>1, <2>1, OwnFds
  <2>3. thread[c].pc \in Serving
    BY <1>1, <2>2, FdsAre DEF IsOpen, Ground, Phases
  <2> QED  BY <1>1, <1>5, <1>13, <2>1, <2>3, RespondFlow DEF Early
<1>14. ASSUME NEW e \in Ends, PeerEnds(e) \/ PeerCuts(e) PROVE LoggedTrue'
  <2>1. /\ UNCHANGED <<said, outbox, thread, log>>
        /\ \A d \in Ends : peer'[d] = "open" => peer[d] = "open"
    BY <1>1, <1>14 DEF PeerEnds, PeerCuts, Ground, Net
  <2>2. \A c \in Clients : Settled(c)
    BY <2>1, EndsAre DEF Settled
  <2> QED  BY <1>1, <2>1, <2>2, TrueKept
<1> QED  BY <1>3, <1>4, <1>6, <1>7, <1>8, <1>9, <1>10, <1>11, <1>12, <1>13, <1>14, WriteTrue
         DEF Next, Main, Doit, Peers, Rest, Reading

\* A logged response was received whole if it stated a length, and the size in
\* the log is what the client got if it still listens, for any number of
\* connections and any bodies.
THEOREM LogIsTrue == Spec => []LoggedTrue
<1>1. Init => LoggedTrue
  BY DEF Init, LoggedTrue
<1> QED  BY <1>1, StepTrue, Inductive, Flows, PTL DEF Spec

-----------------------------------------------------------------------------
(* Who is logged.  A thread that gives up has not read all of a response   *)
(* with a body and a stated length: the loop that reads the body stops at  *)
(* its last byte.                                                          *)
Short(c) == LET answer == said[<<"server", c>>]
            IN Declared(answer) > 0 => thread[c].recv < Len(answer)

Told(c) ==
  LET t == thread[c]
  IN /\ t.pc = "respbody" => t.recvbody = 0 \/ t.recvbody < t.bodylen
     /\ t.pc = "bail" => Short(c) /\ (t.recv > 0 => said[<<"server", c>>] # <<>>)
     /\ t.pc = "unlock" => HasEntry(c)
     /\ t.pc = "close" => Short(c) \/ HasEntry(c)

AllTold == \A c \in Clients : Told(c)

\* A response with a body of a stated length has more than its bytes.
LEMMA SizedAnswer ==
    ASSUME Ground, NEW c \in Clients, Declared(said[<<"server", c>>]) > 0
    PROVE  Len(said[<<"server", c>>]) = 3 + Declared(said[<<"server", c>>])
<1> DEFINE S == <<"server", c>>
<1>1. S \in Ends /\ S[2] = c
  BY EndsAre
<1>2. said[S] \in Messages(c) \union {<<>>}
  BY <1>1 DEF Ground, Net
<1>3. Declared(<<>>) = NoLength
  <2>1. \A i \in DOMAIN <<>> : <<>>[i].kind # "length"
    OBVIOUS
  <2> QED  BY <2>1, Zenon DEF Declared
<1>4. Declared(said[S]) # NoLength
  BY DEF NoLength
<1>5. Shaped(said[S], c)
  BY <1>2, <1>3, <1>4, AllShaped
<1> QED  BY <1>4, <1>5 DEF Shaped

\* Entries are never lost.
LEMMA EntryStays ==
    ASSUME Logged, NEW c \in Clients, HasEntry(c),
           \/ log' = log
           \/ \E x : log' = Append(log, x)
    PROVE  HasEntry(c)'
<1>1. PICK i \in DOMAIN log : log[i].of = c /\ log[i].part = 2
  BY DEF HasEntry
<1>2. log \in Seq(Entries)
  BY DEF Logged
<1>3. i \in DOMAIN log' /\ log'[i] = log[i]
  BY <1>2
<1> QED  BY <1>1, <1>3 DEF HasEntry

\* What is told of a connection stays true while its thread, its response and
\* its entries stay.
LEMMA ToldKept ==
    ASSUME Logged, NEW c \in Clients, Told(c), thread'[c] = thread[c],
           \/ said'[<<"server", c>>] = said[<<"server", c>>]
           \/ thread[c].pc \notin {"bail", "close"},
           \/ log' = log
           \/ \E x : log' = Append(log, x)
    PROVE  Told(c)'
<1>1. HasEntry(c) => HasEntry(c)'
  BY EntryStays
<1>2. CASE said'[<<"server", c>>] = said[<<"server", c>>]
  BY <1>1, <1>2 DEF Told, Short, Declared
<1>3. CASE thread[c].pc \notin {"bail", "close"}
  BY <1>1, <1>3 DEF Told
<1> QED  BY <1>2, <1>3

\* A step of one connection tells nothing new of the others.
LEMMA OnlyTold ==
    ASSUME Logged, AllTold, NEW c \in Clients, OnlyOf(c), Told(c)',
           \/ log' = log
           \/ \E x : log' = Append(log, x)
    PROVE  AllTold'
<1> SUFFICES ASSUME NEW d \in Clients, d # c PROVE Told(d)'
  BY DEF AllTold
<1>1. <<"server", d>> \in Ends /\ <<"server", d>>[2] = d
  BY EndsAre
<1> QED  BY <1>1, ToldKept DEF OnlyOf, AllTold

\* A thread that has not read all of a response can give up; one that is at no
\* place that tells anything has nothing to show.
LEMMA ToldAt ==
    ASSUME NEW c \in Clients,
           \/ thread'[c].pc \notin {"respbody", "bail", "unlock", "close"}
           \/ thread'[c].pc = "close" /\ Short(c)'
           \/ /\ thread'[c].pc = "bail" /\ Short(c)'
              /\ thread'[c].recv > 0 => said'[<<"server", c>>] # <<>>
           \/ /\ thread'[c].pc = "respbody"
              /\ thread'[c].recvbody = 0 \/ thread'[c].recvbody < thread'[c].bodylen
           \/ thread'[c].pc \in {"unlock", "close"} /\ HasEntry(c)'
    PROVE  Told(c)'
BY DEF Told

\* Reading a response: what is left when a read fails is not nothing.
LEMMA StillShort ==
    ASSUME Ground, Flow, NEW c \in Clients, Told(c),
           thread[c].pc \in Before \union {"response", "respbody"}
    PROVE  Short(c) /\ (thread[c].recv > 0 => said[<<"server", c>>] # <<>>)
<1> DEFINE S == <<"server", c>>
           t == thread[c]
           d == Declared(said[S])
<1>1. t.recv \in Nat /\ (t.recv > 0 => said[S] # <<>>)
  BY DEF Flow, ResponseOf, Getting, Before
<1>2. ASSUME d > 0 PROVE t.recv < Len(said[S])
  <2>1. Len(said[S]) = 3 + d /\ d # NoLength /\ d \in Nat
    <3>1. Len(said[S]) = 3 + d
      BY <1>2, SizedAnswer
    <3>2. S \in Ends /\ S[2] = c /\ said[S] \in Seq(Items) /\ said[S] \in Messages(c) \union {<<>>}
      BY EndsAre DEF Ground, Net
    <3>3. Len(<<>>) = 0 /\ Declared(<<>>) = NoLength
      <4>1. \A i \in DOMAIN <<>> : <<>>[i].kind # "length"
        OBVIOUS
      <4> QED  BY <4>1, Zenon DEF Declared
    <3>4. d # NoLength
      BY <1>2 DEF NoLength
    <3> QED  BY <3>1, <3>2, <3>3, <3>4, AllShaped DEF Shaped
  <2>2. CASE t.pc \in Before
    <3>1. t.recv = 0
      BY <2>2 DEF Flow, ResponseOf
    <3> QED  BY <2>1, <3>1
  <2>3. CASE t.pc = "response"
    <3>1. t.recv <= 2
      BY <2>1, <2>3 DEF Flow, ResponseOf
    <3> HIDE DEF t, d
    <3> QED  BY <1>1, <2>1, <3>1
  <2>4. CASE t.pc = "respbody"
    <3>1. t.bodylen = d /\ t.recv = t.recvbody + 3
      BY <2>1, <2>4 DEF Flow, ResponseOf
    <3>2. t.recvbody = 0 \/ t.recvbody < t.bodylen
      BY <2>4 DEF Told
    <3>3. t.recvbody \in Int
      BY DEF Ground, Local, Threads
    <3> HIDE DEF t, d
    <3> QED  BY <1>2, <2>1, <3>1, <3>2, <3>3
  <2> QED  BY <2>2, <2>3, <2>4
<1> QED  BY <1>1, <1>2 DEF Short

\* A thread that reads goes on, or gives up with something left.
LEMMA ReadingTold ==
    ASSUME IInv, Flow, AllTold, NEW c \in Clients, Reading(c)
    PROVE  AllTold'
<1> DEFINE t == thread[c]
           S == <<"server", c>>
<1>1. /\ Ground /\ Logged /\ log' = log /\ t \in Threads /\ Told(c)
      /\ thread \in [Clients -> Threads]
      /\ said' = said
  BY ReadingMoves DEF IInv, Ground, Local, AllTold, Reading, ReadRequestLine, ConnectFails,
     ReadRequestHeader, ReadRequestBody, ReadResponseLine, ReadResponseBody, Relay, net
<1>2. OnlyOf(c)
  BY <1>1, StartFlow, RequestLineFlow, RequestBodyFlow, ResponseLineFlow, ResponseBodyFlow
     DEF Reading
<1>3. t.pc \in Before \union {"response", "respbody"}
  BY DEF Reading, ReadRequestLine, ConnectFails, ReadRequestHeader, ReadRequestBody,
     ReadResponseLine, ReadResponseBody, At, Before, Fore
<1>4. Short(c) /\ (t.recv > 0 => said[S] # <<>>)
  BY <1>1, <1>3, StillShort
<1>5. thread'[c].recv = t.recv => Short(c)' /\ (thread'[c].recv > 0 => said'[S] # <<>>)
  BY <1>1, <1>4 DEF Short, Declared
<1>6. CASE ReadRequestLine(c) \/ ConnectFails(c)
  <2>1. PICK at \in {"close", "connect"} : Goto(c, at)
    BY <1>6 DEF ReadRequestLine, ConnectFails
  <2>2. at \in Pcs /\ Local
    BY <1>1 DEF Pcs, Ground
  <2>3. thread'[c].pc = at /\ thread'[c].recv = t.recv
    BY <2>1, <2>2, GotoType
  <2>4. Told(c)'
    BY <1>5, <2>3, ToldAt
  <2> QED  BY <1>1, <1>2, <2>4, OnlyTold
<1>7. CASE Goto(c, "bail")
  <2>1. "bail" \in Pcs /\ Local
    BY <1>1 DEF Pcs, Ground
  <2>2. thread'[c].pc = "bail" /\ thread'[c].recv = t.recv
    BY <1>7, <2>1, GotoType
  <2>3. Told(c)'
    BY <1>5, <2>2, ToldAt
  <2> QED  BY <1>1, <1>2, <2>3, OnlyTold
<1>8. CASE (ReadRequestHeader(c) \/ ReadRequestBody(c)) /\ ~Goto(c, "bail")
  <2>1. PICK u \in {[t EXCEPT !.pc = "reqbody", !.lenset = FALSE],
                    [t EXCEPT !.pc = "response", !.lenset = FALSE],
                    [t EXCEPT !.bodylen = Next1(t.connfd).n, !.lenset = TRUE],
                    t,
                    [t EXCEPT !.reqbody = @ + 1, !.pc = "response"],
                    [t EXCEPT !.reqbody = @ + 1, !.pc = t.pc]} : thread'[c] = u
    <3> DEFINE x == Next1(t.connfd)
    <3> HIDE DEF x
    <3> QED  BY <1>1, <1>8 DEF ReadRequestHeader, ReadRequestBody, x
  <2>2. t.pc \in {"headers", "reqbody"}
    BY <1>8 DEF ReadRequestHeader, ReadRequestBody, At
  <2>3. thread'[c].pc \in {"headers", "reqbody", "response"}
    <3> DEFINE n == Next1(t.connfd).n
    <3> HIDE DEF n
    <3> QED  BY <1>1, <2>1, <2>2 DEF Threads, n
  <2>4. Told(c)'
    BY <2>3, ToldAt
  <2> QED  BY <1>1, <1>2, <2>4, OnlyTold
<1>9. CASE ReadResponseLine(c) /\ ~Goto(c, "bail")
  <2>1. PICK u \in {[t EXCEPT !.pc = "respbody", !.recv = @ + 1],
                    [t EXCEPT !.bodylen = Next1(t.clientfd).n, !.lenset = TRUE, !.recv = @ + 1],
                    [t EXCEPT !.recv = @ + 1]} : thread'[c] = u
    <3> DEFINE x == Next1(t.clientfd)
    <3> HIDE DEF x
    <3> QED  BY <1>1, <1>9 DEF ReadResponseLine, x
  <2>2. t.pc = "response"
    BY <1>9 DEF ReadResponseLine, At
  <2>3. thread'[c].pc \in {"respbody", "response"} /\ thread'[c].recvbody = t.recvbody
    <3> DEFINE n == Next1(t.clientfd).n
    <3> HIDE DEF n
    <3> QED  BY <1>1, <2>1, <2>2 DEF Threads, n
  <2>4. t.recvbody = 0
    BY <1>9 DEF Flow, ResponseOf, ReadResponseLine, At
  <2>5. Told(c)'
    BY <2>3, <2>4, ToldAt
  <2> QED  BY <1>1, <1>2, <2>5, OnlyTold
<1>10. CASE ReadResponseBody(c) /\ ~Goto(c, "bail")
  <2>1. /\ thread'[c].pc = IF EndOfResponse(t) THEN "closeserver" ELSE "respbody"
        /\ thread'[c].recvbody = t.recvbody + 1 /\ thread'[c].bodylen = t.bodylen
    BY <1>1, <1>10 DEF ReadResponseBody, At, Threads
  <2>2. t.recvbody \in Int /\ t.bodylen \in Int
    BY <1>1 DEF Threads
  <2>3. ~EndOfResponse(t) => t.recvbody + 1 < t.bodylen
    BY <2>2 DEF EndOfResponse
  <2>4. Told(c)'
    BY <2>1, <2>3, ToldAt
  <2> QED  BY <1>1, <1>2, <2>4, OnlyTold
<1> QED  BY <1>6, <1>7, <1>8, <1>9, <1>10 DEF Reading

\* A thread that closes its server's end goes to log, or ends with something left.
LEMMA CloseServerTold ==
    ASSUME IInv, Flow, AllTold, NEW c \in Clients, CloseServer(c) \/ Bail(c)
    PROVE  AllTold'
<1> DEFINE t == thread[c]
<1>1. /\ Ground /\ Logged /\ log' = log /\ said' = said /\ Told(c)
      /\ t \in Threads /\ thread \in [Clients -> Threads]
  BY DEF IInv, Ground, Local, CloseServer, Bail, AllTold
<1>2. OnlyOf(c)
  BY <1>1, CloseServerFlow
<1>3. CASE CloseServer(c)
  <2>1. thread'[c].pc = "lock"
    BY <1>1, <1>3 DEF CloseServer, Threads
  <2> QED  BY <1>1, <1>2, <2>1, ToldAt, OnlyTold
<1>4. CASE Bail(c)
  <2>1. thread'[c].pc = "close" /\ thread'[c].recv = t.recv /\ t.pc = "bail"
    BY <1>1, <1>4 DEF Bail, At, Threads
  <2>2. Short(c)'
    BY <1>1, <2>1 DEF Told, Short, Declared
  <2> QED  BY <1>1, <1>2, <2>1, <2>2, ToldAt, OnlyTold
<1> QED  BY <1>3, <1>4

\* A thread that logs has its entry when it gives the mutex back.
LEMMA LoggingTold ==
    ASSUME IInv, Flow, AllTold, NEW c \in Clients, Logging(c)
    PROVE  AllTold'
<1> DEFINE t == thread[c]
<1>1. Ground /\ Logged /\ Local /\ Told(c) /\ log \in Seq(Entries) /\ t \in Threads
  BY DEF IInv, Ground, Local, Logged, AllTold
<1>2. OnlyOf(c)
  BY <1>1, LoggingFlow
<1>3. {"write1", "write2", "unlock", "close"} \subseteq Pcs
  BY DEF Pcs
<1>4. CASE Lock(c)
  <2>1. thread'[c].pc = "write1" /\ log' = log
    BY <1>1, <1>3, <1>4, GotoType DEF Lock
  <2> QED  BY <1>1, <1>2, <2>1, ToldAt, OnlyTold
<1>5. CASE WriteLog(c)
  <2> DEFINE x == [of |-> c, size |-> t.recv, part |-> IF t.pc = "write1" THEN 1 ELSE 2]
  <2>1. log' = Append(log, x)
    BY <1>5 DEF WriteLog
  <2>2. \/ thread'[c].pc = "write2"
        \/ thread'[c].pc = "unlock" /\ t.pc = "write2"
    BY <1>1, <1>3, <1>5, GotoType DEF WriteLog, At
  <2>3. t.pc = "write2" => x.of = c /\ x.part = 2
    OBVIOUS
  <2>4. x \in Entries
    <3>1. t.recv \in Int
      BY <1>1 DEF Threads
    <3> QED  BY <3>1 DEF Entries
  <2> HIDE DEF x
  <2>5. Len(log) + 1 \in DOMAIN log' /\ log'[Len(log) + 1] = x
    BY <1>1, <2>1, <2>4
  <2>6. t.pc = "write2" => HasEntry(c)'
    BY <2>3, <2>5 DEF HasEntry
  <2>7. Told(c)'
    BY <2>2, <2>6, ToldAt
  <2> QED  BY <1>1, <1>2, <2>1, <2>7, OnlyTold
<1>6. CASE Unlock(c)
  <2>1. thread'[c].pc = "close" /\ log' = log /\ t.pc = "unlock"
    BY <1>1, <1>3, <1>6, GotoType DEF Unlock, At
  <2>2. HasEntry(c)'
    BY <1>1, <2>1 DEF Told, HasEntry
  <2> QED  BY <1>1, <1>2, <2>1, <2>2, ToldAt, OnlyTold
<1> QED  BY <1>4, <1>5, <1>6 DEF Logging

\* A response that a thread which gives up did not wait for is all left.
LEMMA RespondTold ==
    ASSUME IInv, Flow, AllTold, NEW c \in Clients, Respond(c)
    PROVE  AllTold'
<1> DEFINE t == thread[c]
           S == <<"server", c>>
<1>1. /\ Ground /\ Logged /\ Ground' /\ log' = log /\ thread' = thread /\ Told(c)
      /\ peer[S] = "open" /\ said[S] = <<>> /\ t \in Threads
  <2>1. Ground'
    BY PeersGround DEF IInv, Ground, Peers
  <2> QED  BY <2>1 DEF IInv, Ground, Local, Respond, AllTold
<1>2. OnlyOf(c)
  BY <1>1, RespondFlow
<1>3. t.pc \in Serving
  <2>1. IsOpen(t.clientfd)
    BY <1>1, OwnFds
  <2> QED  BY <1>1, <2>1, FdsAre DEF IsOpen, Ground, Phases
<1>4. CASE t.pc = "bail"
  <2>1. t.recv = 0
    <3>1. ~(t.recv > 0) /\ t.recv \in Nat
      BY <1>1, <1>4 DEF Told, Flow, ResponseOf
    <3> QED  BY <3>1
  <2>2. PICK r \in Responses(c) : said' = [said EXCEPT ![S] = r]
    BY DEF Respond
  <2>3. said'[S] = r /\ Shaped(r, c)
    BY <1>1, <2>2, EndsAre, AllShaped DEF Ground, Net, Messages
  <2>4. r \in Seq(Items) /\ Len(r) >= 2 /\ r # <<>>
    BY <2>3 DEF Shaped
  <2>5. Short(c)'
    BY <1>1, <2>1, <2>3, <2>4 DEF Short, Declared
  <2>6. Told(c)'
    BY <1>1, <1>4, <2>1, <2>5, ToldAt
  <2> QED  BY <1>1, <1>2, <2>6, OnlyTold
<1>5. CASE t.pc # "bail"
  <2>1. t.pc \notin {"bail", "close"}
    BY <1>3, <1>5 DEF Serving
  <2>2. Told(c)'
    BY <1>1, <2>1, ToldKept
  <2> QED  BY <1>1, <1>2, <2>2, OnlyTold
<1> QED  BY <1>4, <1>5

\* Every step keeps what is told.
LEMMA StepTold == IInv /\ Flow /\ AllTold /\ [Next]_vars => AllTold'
<1> SUFFICES ASSUME IInv, Flow, AllTold, [Next]_vars PROVE AllTold'
  OBVIOUS
<1>1. Ground /\ Logged
  BY DEF IInv, Ground
<1>2. CASE UNCHANGED <<said, thread, log>>
  BY <1>1, <1>2, ToldKept DEF AllTold
<1>3. UNCHANGED vars => AllTold'
  BY <1>2 DEF vars, net
<1>4. ASSUME NEW a \in Cells, Malloc(a) PROVE AllTold'
  BY <1>2, <1>4 DEF Malloc, net
<1>5. ASSUME NEW c \in Clients, Accept(c) PROVE AllTold'
  <2>1. thread[c].pc = "none" /\ thread' = thread /\ log' = log
    BY <1>1, <1>5 DEF Accept, Ground, Phases
  <2>2. Told(c)'
    BY <2>1, ToldAt
  <2> QED  BY <1>1, <1>5, <2>1, <2>2, AcceptFlow, OnlyTold
<1>6. CASE Create
  <2>1. main.last \in Clients
    BY <1>1, <1>6 DEF Create, AtMain, Ground, Phases
  <2>2. thread'[main.last].pc = "start" /\ log' = log
    BY <1>1, <1>6, <2>1 DEF Create, Ground, Local, Threads
  <2> QED  BY <1>1, <1>6, <2>1, <2>2, StartFlow, ToldAt, OnlyTold
<1>7. ASSUME NEW c \in Clients, Start(c) \/ Connect(c) \/ ResolveFails(c)
      PROVE  AllTold'
  <2>1. thread'[c].pc \in {"reqline", "headers"} /\ log' = log
    BY <1>1, <1>7 DEF Start, Connect, ResolveFails, Ground, Local, Threads
  <2> QED  BY <1>1, <1>7, <2>1, StartFlow, ConnectFlow, ToldAt, OnlyTold
<1>8. ASSUME NEW c \in Clients, CloseClient(c) PROVE AllTold'
  <2>1. thread'[c].pc = "done" /\ log' = log
    BY <1>1, <1>8 DEF CloseClient, Ground, Local, Idle
  <2> QED  BY <1>1, <1>8, <2>1, CloseClientFlow, ToldAt, OnlyTold
<1>9. ASSUME NEW e \in Ends, PeerEnds(e) \/ PeerCuts(e) PROVE AllTold'
  BY <1>2, <1>9 DEF PeerEnds, PeerCuts
<1> QED  BY <1>3, <1>4, <1>5, <1>6, <1>7, <1>8, <1>9, ReadingTold, CloseServerTold, LoggingTold,
            RespondTold
         DEF Next, Main, Doit, Peers, Rest, Reading, Logging

\* A response of a stated length, with a body, that was received whole is in
\* the log when its thread ends, for any number of connections and any bodies.
THEOREM CompleteIsLogged == Spec => []CompleteLogged
<1>1. Init => AllTold
  BY DEF Init, AllTold, Told, Idle
<1>2. Flow /\ AllTold => CompleteLogged
  <2> SUFFICES ASSUME Flow, AllTold, NEW c \in Clients, thread[c].pc = "close",
                      Declared(said[<<"server", c>>]) > 0, Received(c)
               PROVE  HasEntry(c)
    BY DEF CompleteLogged
  <2>1. thread[c].recv \in Nat
    BY DEF Flow, ResponseOf
  <2>2. ~Short(c)
    BY <2>1 DEF Short, Received
  <2> QED  BY <2>2 DEF AllTold, Told
<1> QED  BY <1>1, <1>2, StepTold, Inductive, Flows, PTL DEF Spec
-----------------------------------------------------------------------------
(***************************************************************************)
(* Rio.  The inductive invariant says where each character between the     *)
(* kernel and the caller is: the caller's buffer holds what follows its    *)
(* position in the stream, the buffer of the rio_t what follows that, and  *)
(* the kernel the rest.                                                    *)
(***************************************************************************)
Reads == Buffered \union {"readn"}

\* Who uses a descriptor, and how.
Who ==
  /\ call.op = "none" => call = NoCall
  /\ call.op \in Buffered => ~direct
  /\ call.op = "readn" => direct
  /\ direct => rio_cnt = 0

\* What is left in the buffer of the rio_t is the last that was fetched.
BufferHolds ==
  \A i \in 1 .. Waiting : rio_buf[rio_bufptr + i - 1] = arrived[fetched - Waiting + i]

BufferNext == Waiting + InHand <= fetched /\ BufferHolds

\* What is in the caller's buffer is what came before that.
HandHolds ==
  \A i \in 1 .. Len(call.usrbuf) :
    call.usrbuf[i] = arrived[fetched - Waiting - InHand + i]

HandBefore == call.op \in Reads => call.size \in Sizes /\ HandHolds

\* A line goes on until its end is seen.
LineSoFar ==
  call.op = "readlineb" =>
    /\ call.n = Len(call.usrbuf) + 1
    /\ call.size > 0
    /\ \A i \in 1 .. Len(call.usrbuf) : call.usrbuf[i] # Newline

\* The last that was written is the beginning of the text.
WrittenSoFar ==
  call.op = "writen" =>
    /\ call.usrbuf \in Texts /\ call.size = Len(call.usrbuf) /\ call.nleft <= call.size
    /\ Done <= Len(written)
    /\ \A i \in 1 .. Done : written[Len(written) - Done + i] = call.usrbuf[i]

RioInv == RioTypeOK /\ Who /\ BufferNext /\ HandBefore /\ LineSoFar /\ WrittenSoFar

-----------------------------------------------------------------------------
\* What SubSeq cuts out.
LEMMA Slice ==
  ASSUME NEW S, NEW s, NEW m \in Nat, NEW k \in Nat, \A i \in m + 1 .. m + k : s[i] \in S
  PROVE  /\ SubSeq(s, m + 1, m + k) \in Seq(S)
         /\ Len(SubSeq(s, m + 1, m + k)) = k
         /\ \A i \in 1 .. k : SubSeq(s, m + 1, m + k)[i] = s[m + i]
<1>1. /\ SubSeq(s, m + 1, m + k) \in Seq(S)
      /\ Len(SubSeq(s, m + 1, m + k)) = IF m + 1 <= m + k THEN m + k - (m + 1) + 1 ELSE 0
      /\ \A i \in 1 .. m + k - (m + 1) + 1 : SubSeq(s, m + 1, m + k)[i] = s[m + 1 + i - 1]
  BY SubSeqProperties
<1> QED
  BY <1>1

CallType == [op : Buffered \union {"none", "readn", "writen"}, size : Nat,
             usrbuf : Seq(Chars), nleft : Nat, n : Nat]

LEMMA CallFields ==
  ASSUME call \in CallType
  PROVE  /\ call.op \in {"none", "readn", "readnb", "readlineb", "writen"}
         /\ call.size \in Nat /\ call.nleft \in Nat /\ call.n \in Nat
         /\ call.usrbuf \in Seq(Chars) /\ Len(call.usrbuf) \in Nat
         /\ InHand \in Nat
         /\ InHand = IF call.op = "writen" THEN 0 ELSE Len(call.usrbuf)
<1>1. call.usrbuf \in Seq(Chars) /\ call.op \in {"none", "readn", "readnb", "readlineb", "writen"}
      /\ call.size \in Nat /\ call.nleft \in Nat /\ call.n \in Nat
  BY DEF CallType, Buffered
<1>2. Len(call.usrbuf) \in Nat
  BY <1>1, LenProperties
<1> QED
  BY <1>1, <1>2 DEF InHand

LEMMA Empty == <<>> \in Seq(Chars) /\ Len(<<>>) = 0
  BY EmptySeq

LEMMA NoCallType ==
  /\ NoCall \in CallType /\ NoCall.op = "none" /\ NoCall.usrbuf = <<>>
  /\ NoCall.size = 0 /\ NoCall.nleft = 0 /\ NoCall.n = 1
BY Empty DEF NoCall, CallType

\* Lengths are numbers.
Measures == /\ Len(arrived) \in Nat /\ fetched \in Nat /\ Len(written) \in Nat
            /\ rio_cnt \in Int /\ rio_bufptr \in Nat \ {0} /\ RIO_BUFSIZE \in Nat \ {0}
            /\ Waiting \in Nat /\ (rio_cnt > 0 => Waiting = rio_cnt) /\ (rio_cnt <= 0 => Waiting = 0)

LEMMA Measured == RioTypeOK => Measures /\ call \in CallType
<1> SUFFICES ASSUME RioTypeOK PROVE Measures /\ call \in CallType
  OBVIOUS
<1>1. arrived \in Seq(Chars) /\ written \in Seq(Chars)
  BY DEF RioTypeOK
<1>2. Len(arrived) \in Nat /\ Len(written) \in Nat
  BY <1>1, LenProperties
<1> QED
  BY <1>2, RioAssumption DEF RioTypeOK, Measures, Waiting, CallType

LEMMA RioInitOK == RioInit => RioInv
<1> SUFFICES ASSUME RioInit PROVE RioInv
  OBVIOUS
<1>1. RioTypeOK
  <2>1. call \in CallType /\ call.op = "none"
    BY NoCallType DEF RioInit
  <2>2. /\ arrived \in Seq(Chars) /\ fetched \in 0 .. Len(arrived) /\ written \in Seq(Chars)
        /\ rio_bufptr \in 1 .. RIO_BUFSIZE + 1 /\ rio_cnt \in -1 .. RIO_BUFSIZE + 1 - rio_bufptr
    BY RioAssumption, Empty DEF RioInit
  <2> QED
    BY <2>1, <2>2 DEF RioInit, RioTypeOK, CallType
<1> QED
  BY <1>1, NoCallType, Empty DEF RioInit, RioInv, Who, BufferNext, BufferHolds, HandBefore, LineSoFar, WrittenSoFar,
              Buffered, Reads, Waiting, InHand

\* A call begins with nothing in hand.
LEMMA AskOK ==
  ASSUME RioInv,
         \/ \E op \in Reads, size \in Sizes : AskToRead(op, size)
         \/ \E text \in Texts : AskToWrite(text)
  PROVE  RioInv'
<1>0. RioTypeOK /\ Measures /\ call \in CallType
  BY Measured DEF RioInv
<1>1. ASSUME NEW op \in Reads, NEW size \in Sizes, AskToRead(op, size)
      PROVE  RioInv'
  <2>1. /\ call'.op = op /\ call'.size = size /\ call'.usrbuf = <<>> /\ call'.nleft = size
        /\ call'.n = 1 /\ call' \in CallType
        /\ op \in {"readn", "readnb", "readlineb"} /\ size \in Nat
    BY <1>1, RioAssumption, NoCallType DEF AskToRead, NoCall, Reads, Buffered, CallType
  <2>2. /\ UNCHANGED <<arrived, fetched, ended, written, direct, rio_buf, rio_bufptr, rio_cnt>>
        /\ op = "readn" <=> direct
        /\ op = "readlineb" => size > 0
        /\ call.op = "none" /\ call.usrbuf = <<>>
    BY <1>1, NoCallType DEF AskToRead, stream, rp
  <2>3. RioTypeOK'
    BY <1>0, <2>1, <2>2, Empty DEF RioTypeOK, CallType
  <2>4. Waiting' = Waiting /\ InHand' = 0 /\ InHand = 0
    BY <2>1, <2>2, Empty DEF Waiting, InHand
  <2>5. Who' /\ HandBefore' /\ LineSoFar' /\ WrittenSoFar'
    BY <2>1, <2>2, Empty DEF RioInv, Who, HandBefore, HandHolds, LineSoFar, WrittenSoFar, Buffered, Reads
  <2>6. BufferNext'
    BY <2>2, <2>4 DEF RioInv, BufferNext, BufferHolds
  <2> QED
    BY <2>3, <2>5, <2>6 DEF RioInv
<1>2. ASSUME NEW text \in Texts, AskToWrite(text)
      PROVE  RioInv'
  <2>0. text \in Seq(Chars) /\ Len(text) \in Nat
    BY RioAssumption, LenProperties
  <2>1. /\ call'.op = "writen" /\ call'.size = Len(text) /\ call'.usrbuf = text
        /\ call'.nleft = Len(text) /\ call' \in CallType
    BY <1>2, <2>0, NoCallType DEF AskToWrite, NoCall, CallType
  <2>2. /\ UNCHANGED <<arrived, fetched, ended, written, direct, rio_buf, rio_bufptr, rio_cnt>>
        /\ call.op = "none" /\ call.usrbuf = <<>>
    BY <1>2, NoCallType DEF AskToWrite, stream, rp
  <2>3. RioTypeOK'
    BY <1>0, <2>1, <2>2 DEF RioTypeOK, CallType
  <2>4. Waiting' = Waiting /\ InHand' = 0 /\ InHand = 0 /\ Done' = 0
    BY <2>0, <2>1, <2>2, Empty DEF Waiting, InHand, Done
  <2>5. Who' /\ HandBefore' /\ LineSoFar'
    BY <2>1, <2>2 DEF RioInv, Who, HandBefore, LineSoFar, Buffered, Reads
  <2>6. BufferNext'
    BY <2>2, <2>4 DEF RioInv, BufferNext, BufferHolds
  <2>7. WrittenSoFar'
    BY <1>0, <2>0, <2>1, <2>2, <2>4 DEF WrittenSoFar, Measures
  <2> QED
    BY <2>3, <2>5, <2>6, <2>7 DEF RioInv
<1> QED
  BY <1>1, <1>2

\* A call that returns, whatever happened to the buffer, as long as it is typed
\* and what is left in it is what comes next.
LEMMA ReturnOK ==
  ASSUME RioInv, call' = NoCall, UNCHANGED <<arrived, ended, direct, rio_buf>>,
         written' \in Seq(Chars),
         rio_bufptr' \in 1 .. RIO_BUFSIZE + 1,
         rio_cnt' \in -1 .. RIO_BUFSIZE + 1 - rio_bufptr',
         fetched' \in 0 .. Len(arrived),
         direct => rio_cnt' = 0, Waiting' <= fetched', BufferHolds'
  PROVE  RioInv'
<1>0. RioTypeOK /\ Measures /\ call \in CallType
  BY Measured DEF RioInv
<1>1. call' \in CallType /\ call'.op = "none" /\ call'.usrbuf = <<>>
  BY NoCallType
<1>2. RioTypeOK'
  BY <1>0, <1>1 DEF RioTypeOK, CallType
<1>3. InHand' = 0
  BY <1>1, Empty DEF InHand
<1>4. BufferNext'
  <2>1. rio_cnt' \in Int /\ fetched' \in Nat
    BY <1>0 DEF Measures
  <2>2. Waiting' \in Int
    BY <2>1 DEF Waiting
  <2>3. \A w \in Int : w + 0 = w
    OBVIOUS
  <2>4. Waiting' + InHand' <= fetched'
    BY <2>2, <2>3, <1>3, Zenon
  <2> QED
    BY <2>4 DEF BufferNext
<1>5. Who' /\ HandBefore' /\ LineSoFar' /\ WrittenSoFar'
  BY <1>1 DEF Who, HandBefore, LineSoFar, WrittenSoFar, Buffered, Reads
<1> QED
  BY <1>2, <1>4, <1>5 DEF RioInv

\* The buffer is read in order.
LEMMA BufferShifts ==
  ASSUME RioInv, NEW c \in 1 .. rio_cnt,
         rio_bufptr' = rio_bufptr + c, rio_cnt' = rio_cnt - c,
         UNCHANGED <<fetched, arrived, rio_buf>>
  PROVE  /\ BufferHolds'
         /\ c \in Nat \ {0} /\ rio_cnt > 0 /\ Waiting = rio_cnt /\ Waiting' = rio_cnt - c
         /\ Waiting' \in Nat
         /\ rio_bufptr' \in 1 .. RIO_BUFSIZE + 1
         /\ rio_cnt' \in -1 .. RIO_BUFSIZE + 1 - rio_bufptr'
<1>0. RioTypeOK /\ Measures
  BY Measured DEF RioInv
<1>1. c \in Nat \ {0} /\ rio_cnt > 0 /\ Waiting = rio_cnt /\ Waiting' = rio_cnt - c /\ Waiting' \in Nat
  BY <1>0 DEF Measures, Waiting
<1>2. rio_bufptr' \in 1 .. RIO_BUFSIZE + 1 /\ rio_cnt' \in -1 .. RIO_BUFSIZE + 1 - rio_bufptr'
  BY <1>0, <1>1 DEF RioTypeOK, Measures
<1>3. BufferHolds'
  <2> SUFFICES ASSUME NEW i \in 1 .. Waiting'
               PROVE  rio_buf[rio_bufptr' + i - 1] = arrived[fetched - Waiting' + i]
    BY DEF BufferHolds
  <2>1. /\ c + i \in 1 .. Waiting
        /\ rio_bufptr' + i - 1 = rio_bufptr + (c + i) - 1
        /\ fetched - Waiting' + i = fetched - Waiting + (c + i)
    BY <1>0, <1>1 DEF Measures
  <2>2. \A j \in 1 .. Waiting : rio_buf[rio_bufptr + j - 1] = arrived[fetched - Waiting + j]
    BY DEF RioInv, BufferNext, BufferHolds
  <2> QED
    BY <2>1, <2>2
<1> QED
  BY <1>1, <1>2, <1>3

\* What is added to the caller's buffer comes next in the stream.
LEMMA HandGrows ==
  ASSUME RioInv, call.op \in Reads, NEW new \in Seq(Chars),
         call' \in CallType, call'.op \in Reads,
         call'.usrbuf = call.usrbuf \o new, call'.size = call.size,
         arrived' = arrived, fetched' \in Nat, Waiting' \in Nat,
         fetched' - Waiting' = fetched - Waiting + Len(new),
         \A i \in 1 .. Len(new) : new[i] = arrived[fetched - Waiting + i]
  PROVE  /\ HandBefore' /\ Waiting' + InHand' <= fetched'
         /\ Len(call'.usrbuf) = Len(call.usrbuf) + Len(new) /\ Len(new) \in Nat
<1> DEFINE u == call.usrbuf
<1>0. RioTypeOK /\ Measures /\ call \in CallType
  BY Measured DEF RioInv
<1>1. u \in Seq(Chars) /\ Len(u) \in Nat /\ Len(new) \in Nat /\ InHand = Len(u)
  BY <1>0, CallFields, LenProperties DEF Reads, Buffered
<1>2. /\ Len(u \o new) = Len(u) + Len(new)
      /\ \A i \in 1 .. Len(u) + Len(new) :
           (u \o new)[i] = IF i <= Len(u) THEN u[i] ELSE new[i - Len(u)]
  BY <1>1, ConcatProperties
<1>3. InHand' = Len(u) + Len(new)
  BY <1>2 DEF InHand, Reads, Buffered
<1>4. /\ Len(u) + Waiting <= fetched /\ call.size \in Sizes
      /\ \A i \in 1 .. Len(u) : u[i] = arrived[fetched - Waiting - Len(u) + i]
  <2>1. InHand + Waiting <= fetched
    BY <1>0, <1>1 DEF RioInv, BufferNext, Measures
  <2>2. call.size \in Sizes /\ HandHolds
    BY DEF RioInv, HandBefore
  <2>3. \A i \in 1 .. Len(u) : u[i] = arrived[fetched - Waiting - Len(u) + i]
    BY <2>2, <1>1 DEF HandHolds
  <2> QED
    BY <2>1, <2>2, <2>3, <1>1
<1>5. fetched' - Waiting' - InHand' = fetched - Waiting - Len(u)
  <2>1. \A a, b, c, d, e \in Int : a - b = c + e => a - b - (d + e) = c - d
    OBVIOUS
  <2>2. fetched - Waiting \in Int
    BY <1>0 DEF Measures
  <2> QED
    BY <2>1, <2>2, <1>1, <1>3
<1>6. Waiting' + InHand' <= fetched'
  <2>1. \A a, b, c, d \in Int : c - a - b = d /\ d >= 0 => a + b <= c
    OBVIOUS
  <2>2. /\ fetched - Waiting - Len(u) \in Int /\ fetched - Waiting - Len(u) >= 0
        /\ InHand' \in Int /\ Waiting' \in Int /\ fetched' \in Int
    BY <1>0, <1>1, <1>3, <1>4 DEF Measures
  <2> QED
    BY <2>1, <2>2, <1>5, Zenon
<1>7. HandHolds'
  <2> SUFFICES ASSUME NEW i \in 1 .. Len(call'.usrbuf)
               PROVE  call'.usrbuf[i] = arrived'[fetched' - Waiting' - InHand' + i]
    BY DEF HandHolds
  <2>1. /\ i \in 1 .. Len(u) + Len(new) /\ call'.usrbuf[i] = (u \o new)[i]
        /\ arrived'[fetched' - Waiting' - InHand' + i] = arrived[fetched - Waiting - Len(u) + i]
    BY <1>2, <1>5
  <2>2. CASE i <= Len(u)
    BY <2>1, <2>2, <1>1, <1>2, <1>4
  <2>3. CASE ~(i <= Len(u))
    <3>1. /\ i - Len(u) \in 1 .. Len(new)
          /\ fetched - Waiting + (i - Len(u)) = fetched - Waiting - Len(u) + i
      BY <2>1, <2>3, <1>0, <1>1 DEF Measures
    <3>2. new[i - Len(u)] = arrived[fetched - Waiting + (i - Len(u))]
      BY <3>1
    <3> QED
      BY <2>1, <2>3, <3>1, <3>2, <1>2
  <2> QED
    BY <2>2, <2>3
<1> QED
  BY <1>1, <1>2, <1>4, <1>6, <1>7 DEF HandBefore

LEMMA ReadnOK ==
  ASSUME RioInv, NEW k \in 1 .. call.nleft, rio_readn(k)
  PROVE  RioInv'
<1> DEFINE u == call.usrbuf
           new == SubSeq(arrived, fetched + 1, fetched + k)
<1>0. RioTypeOK /\ Measures /\ call \in CallType
  BY Measured DEF RioInv
<1>1. call.op = "readn" /\ rio_cnt = 0 /\ Waiting = 0 /\ direct
  <2>1. call.op = "readn"
    BY DEF rio_readn
  <2>2. direct /\ rio_cnt = 0
    BY <2>1 DEF RioInv, Who
  <2> QED
    BY <2>1, <2>2 DEF Waiting
<1>2. /\ k \in Nat \ {0} /\ fetched + k <= Len(arrived)
      /\ Len(u) + call.nleft = call.size
      /\ call.nleft \in Nat /\ call.size \in Nat
      /\ call.nleft - k \in Nat /\ Len(u) \in Nat /\ u \in Seq(Chars)
  BY <1>0, <1>1, CallFields DEF rio_readn, Ready, RioTypeOK
<1>3. new \in Seq(Chars) /\ Len(new) = k /\ \A i \in 1 .. k : new[i] = arrived[fetched + i]
  <2>1. \A i \in fetched + 1 .. fetched + k : arrived[i] \in Chars
    BY <1>0, <1>2, LenProperties DEF Measures, RioTypeOK
  <2>2. fetched \in Nat /\ k \in Nat
    BY <1>0, <1>2 DEF Measures
  <2> QED
    BY <2>1, <2>2, Slice
<1>4. /\ call' = [call EXCEPT !.usrbuf = u \o new, !.nleft = call.nleft - k]
      /\ fetched' = fetched + k
      /\ UNCHANGED <<arrived, ended, written, direct, rio_buf, rio_bufptr, rio_cnt>>
  BY DEF rio_readn, rp
<1> HIDE DEF new
<1>5. u \o new \in Seq(Chars)
  BY <1>2, <1>3, ConcatProperties
<1>6. /\ call' \in CallType /\ call'.op = "readn" /\ call'.usrbuf = u \o new
      /\ call'.nleft = call.nleft - k /\ call'.size = call.size
  BY <1>0, <1>1, <1>2, <1>4, <1>5 DEF CallType
<1>7. Waiting' = 0
  BY <1>1, <1>4 DEF Waiting
<1>8. /\ HandBefore' /\ Waiting' + InHand' <= fetched'
      /\ Len(call'.usrbuf) = Len(u) + k
  <2>1. /\ arrived' = arrived /\ fetched' \in Nat /\ Waiting' \in Nat
        /\ fetched' - Waiting' = fetched - Waiting + k
    BY <1>0, <1>1, <1>2, <1>4, <1>7 DEF Measures
  <2>2. \A i \in 1 .. k : new[i] = arrived[fetched - Waiting + i]
    BY <1>0, <1>1, <1>3 DEF Measures
  <2>3. call.op \in Reads /\ call'.op \in Reads
    BY <1>1, <1>6 DEF Reads
  <2> QED
    BY <2>1, <2>2, <2>3, <1>3, <1>6, HandGrows
<1>9. RioTypeOK'
  <2>1. (Len(u) + k) + (call.nleft - k) = call.size
    BY <1>2
  <2>2. Len(call'.usrbuf) + call'.nleft = call'.size
    BY <2>1, <1>6, <1>8
  <2>3. fetched' \in 0 .. Len(arrived)
    BY <1>0, <1>2, <1>4 DEF Measures
  <2> QED
    BY <1>0, <1>4, <1>6, <2>2, <2>3 DEF RioTypeOK, CallType
<1>10. BufferNext'
  BY <1>7, <1>8 DEF BufferNext, BufferHolds
<1>11. Who' /\ LineSoFar' /\ WrittenSoFar'
  BY <1>1, <1>4, <1>6 DEF Who, LineSoFar, WrittenSoFar, Buffered
<1> QED
  BY <1>8, <1>9, <1>10, <1>11 DEF RioInv

LEMMA RefillOK ==
  ASSUME RioInv, NEW k \in 1 .. RIO_BUFSIZE, Refill(k)
  PROVE  RioInv'
<1>0. RioTypeOK /\ Measures /\ call \in CallType
  BY Measured DEF RioInv
<1>1. /\ call.op \in Buffered /\ Waiting = 0 /\ ~direct
      /\ k \in Nat \ {0} /\ fetched + k <= Len(arrived)
  BY <1>0 DEF Refill, Asking, Ready, Buffered, Measures, RioInv, Who
<1>2. /\ fetched' = fetched + k
      /\ rio_buf' = [i \in 1 .. RIO_BUFSIZE |-> IF i <= k THEN arrived[fetched + i] ELSE rio_buf[i]]
      /\ rio_cnt' = k /\ rio_bufptr' = 1
      /\ UNCHANGED <<arrived, ended, written, direct, call>>
  BY DEF Refill
<1>3. \A i \in 1 .. k : rio_buf'[i] = arrived[fetched + i]
  BY <1>0, <1>1, <1>2 DEF Measures
<1>4. rio_buf' \in [1 .. RIO_BUFSIZE -> Chars]
  <2>1. ASSUME NEW i \in 1 .. RIO_BUFSIZE, i <= k PROVE arrived[fetched + i] \in Chars
    <3>1. fetched + i \in 1 .. Len(arrived)
      BY <1>0, <1>1, <2>1 DEF Measures
    <3> QED
      BY <1>0, <3>1, LenProperties DEF RioTypeOK
  <2>2. \A i \in 1 .. RIO_BUFSIZE : rio_buf[i] \in Chars
    BY <1>0 DEF RioTypeOK
  <2> QED
    BY <1>2, <2>1, <2>2
<1>5. RioTypeOK'
  <2>1. /\ fetched' \in 0 .. Len(arrived) /\ rio_bufptr' \in 1 .. RIO_BUFSIZE + 1
        /\ rio_cnt' \in -1 .. RIO_BUFSIZE + 1 - rio_bufptr'
    BY <1>0, <1>1, <1>2 DEF Measures
  <2> QED
    BY <1>0, <1>2, <1>4, <2>1 DEF RioTypeOK
<1>6. /\ Waiting' = k /\ InHand' = InHand /\ InHand \in Nat
      /\ fetched' - Waiting' = fetched /\ fetched - Waiting = fetched
      /\ InHand <= fetched
  <2>1. Waiting' = k /\ InHand' = InHand
    BY <1>1, <1>2 DEF Waiting, InHand
  <2>2. InHand \in Nat
    BY <1>0, CallFields
  <2> QED
    BY <2>1, <2>2, <1>0, <1>1, <1>2 DEF RioInv, BufferNext, Measures
<1>7. BufferNext'
  <2>1. Waiting' + InHand' <= fetched'
    BY <1>0, <1>1, <1>2, <1>6 DEF Measures
  <2>2. ASSUME NEW i \in 1 .. Waiting'
        PROVE  rio_buf'[rio_bufptr' + i - 1] = arrived'[fetched' - Waiting' + i]
    <3>1. i \in 1 .. k /\ rio_bufptr' + i - 1 = i
      BY <1>1, <1>2, <1>6
    <3> QED
      BY <3>1, <1>2, <1>3, <1>6
  <2> QED
    BY <2>1, <2>2 DEF BufferNext, BufferHolds
<1>8. HandBefore'
  <2>1. call.size \in Sizes /\ HandHolds
    BY <1>1 DEF RioInv, HandBefore, Reads
  <2>2. HandHolds'
    BY <2>1, <1>2, <1>6 DEF HandHolds
  <2> QED
    BY <2>1, <2>2, <1>2 DEF HandBefore
<1>9. Who' /\ LineSoFar' /\ WrittenSoFar'
  BY <1>1, <1>2 DEF RioInv, Who, LineSoFar, WrittenSoFar, Buffered
<1> QED
  BY <1>5, <1>7, <1>8, <1>9 DEF RioInv

LEMMA ReadInterruptedOK ==
  ASSUME RioInv, ReadInterrupted
  PROVE  RioInv'
<1>0. RioTypeOK /\ Measures /\ call \in CallType
  BY Measured DEF RioInv
<1>1. call.op \in Buffered /\ Waiting = 0 /\ ~direct
  BY <1>0 DEF ReadInterrupted, Asking, Buffered, Measures, RioInv, Who
<1>2. rio_cnt' = -1 /\ UNCHANGED <<arrived, fetched, ended, written, direct, rio_buf, rio_bufptr, call>>
  BY DEF ReadInterrupted, stream
<1>3. Waiting' = 0 /\ InHand' = InHand
  BY <1>2 DEF Waiting, InHand
<1>4. RioTypeOK'
  <2>1. rio_cnt' \in -1 .. RIO_BUFSIZE + 1 - rio_bufptr'
    BY <1>0, <1>2, RioAssumption DEF RioTypeOK
  <2> QED
    BY <1>0, <1>2, <2>1 DEF RioTypeOK
<1>5. BufferNext'
  BY <1>1, <1>2, <1>3 DEF RioInv, BufferNext, BufferHolds
<1>6. HandBefore'
  BY <1>1, <1>2, <1>3 DEF RioInv, HandBefore, HandHolds
<1>7. Who' /\ LineSoFar' /\ WrittenSoFar'
  BY <1>1, <1>2 DEF RioInv, Who, LineSoFar, WrittenSoFar, Buffered
<1> QED
  BY <1>4, <1>5, <1>6, <1>7 DEF RioInv

\* A call returns with nothing left in the buffer.
LEMMA ReturnEmptyOK ==
  ASSUME RioInv, ReadEnd \/ ReadFails
  PROVE  RioInv'
<1>0. RioTypeOK /\ Measures /\ call \in CallType
  BY Measured DEF RioInv
<1>1. /\ call' = NoCall /\ UNCHANGED <<arrived, ended, written, direct, rio_buf, rio_bufptr>>
      /\ fetched' \in {fetched, Len(arrived)}
      /\ rio_cnt' = (IF call.op = "readn" THEN rio_cnt ELSE 0)
         \/ rio_cnt' = (IF call.op = "readn" THEN rio_cnt ELSE -1)
      /\ call.op \in Reads
  BY DEF ReadEnd, ReadFails, Return, Asking, stream, Reads
<1>2. (call.op = "readn" => rio_cnt = 0) /\ (direct => call.op = "readn")
  BY <1>1 DEF RioInv, Who, Reads
<1>3. rio_cnt' \in {0, -1} /\ (direct => rio_cnt' = 0)
  BY <1>1, <1>2
<1>4. Waiting' = 0
  BY <1>3 DEF Waiting
<1>5. /\ fetched' \in 0 .. Len(arrived) /\ Waiting' <= fetched' /\ BufferHolds'
      /\ rio_bufptr' \in 1 .. RIO_BUFSIZE + 1
      /\ rio_cnt' \in -1 .. RIO_BUFSIZE + 1 - rio_bufptr'
  BY <1>0, <1>1, <1>3, <1>4 DEF RioTypeOK, Measures, BufferHolds
<1>6. written' \in Seq(Chars)
  BY <1>0, <1>1 DEF RioTypeOK
<1> QED
  BY <1>1, <1>3, <1>5, <1>6, ReturnOK

\* A call returns and leaves the buffer alone.
LEMMA ReturnSameOK ==
  ASSUME RioInv, ReadDone \/ WriteFails \/ WriteDone
  PROVE  RioInv'
<1>0. RioTypeOK /\ Measures /\ call \in CallType
  BY Measured DEF RioInv
<1>1. /\ call' = NoCall
      /\ UNCHANGED <<arrived, fetched, ended, written, direct, rio_buf, rio_bufptr, rio_cnt>>
  BY DEF ReadDone, WriteFails, WriteDone, Return, stream, rp
<1>2. Waiting' = Waiting
  BY <1>1 DEF Waiting
<1>3. BufferHolds'
  BY <1>1, <1>2 DEF RioInv, BufferNext, BufferHolds
<1>4. Waiting' <= fetched'
  <2>1. InHand \in Nat /\ Waiting + InHand <= fetched
    BY <1>0, CallFields DEF RioInv, BufferNext
  <2>2. Waiting <= fetched
    BY <2>1, <1>0 DEF Measures
  <2> QED
    BY <2>2, <1>1, <1>2
<1>5. direct => rio_cnt' = 0
  BY <1>1 DEF RioInv, Who
<1>6. /\ written' \in Seq(Chars) /\ rio_bufptr' \in 1 .. RIO_BUFSIZE + 1
      /\ rio_cnt' \in -1 .. RIO_BUFSIZE + 1 - rio_bufptr' /\ fetched' \in 0 .. Len(arrived)
  BY <1>0, <1>1 DEF RioTypeOK
<1> QED
  BY <1>1, <1>3, <1>4, <1>5, <1>6, ReturnOK

LEMMA CopyBytesOK ==
  ASSUME RioInv, CopyBytes
  PROVE  RioInv'
<1> DEFINE u == call.usrbuf
           cnt == IF rio_cnt < call.nleft THEN rio_cnt ELSE call.nleft
           new == SubSeq(rio_buf, rio_bufptr - 1 + 1, rio_bufptr - 1 + cnt)
<1>0. RioTypeOK /\ Measures /\ call \in CallType
  BY Measured DEF RioInv
<1>1. /\ call.op = "readnb" /\ rio_cnt > 0 /\ ~direct
      /\ call.nleft \in Nat \ {0} /\ call.size \in Nat /\ u \in Seq(Chars) /\ Len(u) \in Nat
      /\ Len(u) + call.nleft = call.size
  BY <1>0, CallFields DEF CopyBytes, More, RioTypeOK, RioInv, Who, Buffered
<1>2. cnt \in 1 .. rio_cnt /\ cnt \in Nat \ {0} /\ cnt <= call.nleft /\ rio_bufptr - 1 \in Nat
      /\ call.nleft - cnt \in Nat
  BY <1>0, <1>1 DEF Measures
<1>3. /\ call' = [call EXCEPT !.usrbuf = u \o SubSeq(rio_buf, rio_bufptr, rio_bufptr + cnt - 1),
                              !.nleft = call.nleft - cnt]
      /\ rio_bufptr' = rio_bufptr + cnt /\ rio_cnt' = rio_cnt - cnt
      /\ UNCHANGED <<arrived, fetched, ended, written, direct, rio_buf>>
  BY DEF CopyBytes, stream
<1> HIDE DEF cnt
<1>4. new \in Seq(Chars) /\ Len(new) = cnt /\ \A i \in 1 .. cnt : new[i] = rio_buf[rio_bufptr - 1 + i]
  <2>1. \A i \in rio_bufptr - 1 + 1 .. rio_bufptr - 1 + cnt : rio_buf[i] \in Chars
    BY <1>0, <1>1, <1>2 DEF RioTypeOK, Measures
  <2> QED
    BY <2>1, <1>2, Slice
<1>5. new = SubSeq(rio_buf, rio_bufptr, rio_bufptr + cnt - 1)
  <2>1. rio_bufptr - 1 + 1 = rio_bufptr /\ rio_bufptr - 1 + cnt = rio_bufptr + cnt - 1
    BY <1>0, <1>2 DEF Measures
  <2> QED
    BY <2>1
<1> HIDE DEF new
<1>6. u \o new \in Seq(Chars)
  BY <1>1, <1>4, ConcatProperties
<1>7. /\ call' \in CallType /\ call'.op = "readnb" /\ call'.usrbuf = u \o new
      /\ call'.nleft = call.nleft - cnt /\ call'.size = call.size
  BY <1>0, <1>1, <1>2, <1>3, <1>5, <1>6 DEF CallType
<1>8. /\ BufferHolds' /\ Waiting = rio_cnt /\ Waiting' = rio_cnt - cnt /\ Waiting' \in Nat
      /\ rio_bufptr' \in 1 .. RIO_BUFSIZE + 1 /\ rio_cnt' \in -1 .. RIO_BUFSIZE + 1 - rio_bufptr'
  BY <1>2, <1>3, BufferShifts
<1>9. HandBefore' /\ Waiting' + InHand' <= fetched' /\ Len(call'.usrbuf) = Len(u) + cnt
  <2>1. fetched' \in Nat /\ fetched' - Waiting' = fetched - Waiting + cnt
    BY <1>0, <1>2, <1>3, <1>8 DEF Measures
  <2>2. ASSUME NEW i \in 1 .. cnt PROVE new[i] = arrived[fetched - Waiting + i]
    <3>1. i \in 1 .. Waiting /\ rio_bufptr - 1 + i = rio_bufptr + i - 1
      BY <1>0, <1>2, <1>8 DEF Measures
    <3>2. rio_buf[rio_bufptr + i - 1] = arrived[fetched - Waiting + i]
      BY <3>1 DEF RioInv, BufferNext, BufferHolds
    <3> QED
      BY <3>1, <3>2, <1>4
  <2>3. call.op \in Reads /\ call'.op \in Reads
    BY <1>1, <1>7 DEF Reads, Buffered
  <2> QED
    BY <2>1, <2>2, <2>3, <1>3, <1>4, <1>7, <1>8, HandGrows
<1>10. RioTypeOK'
  <2>1. (Len(u) + cnt) + (call.nleft - cnt) = call.size
    BY <1>1, <1>2
  <2>2. Len(call'.usrbuf) + call'.nleft = call'.size
    BY <2>1, <1>7, <1>9
  <2> QED
    BY <1>0, <1>3, <1>7, <1>8, <2>2 DEF RioTypeOK, CallType
<1>11. BufferNext'
  BY <1>8, <1>9 DEF BufferNext
<1>12. Who' /\ LineSoFar' /\ WrittenSoFar'
  BY <1>1, <1>3, <1>7 DEF Who, LineSoFar, WrittenSoFar, Buffered
<1> QED
  BY <1>9, <1>10, <1>11, <1>12 DEF RioInv

LEMMA CopyCharOK ==
  ASSUME RioInv, CopyChar
  PROVE  RioInv'
<1> DEFINE u == call.usrbuf
           c == rio_buf[rio_bufptr]
<1>0. RioTypeOK /\ Measures /\ call \in CallType
  BY Measured DEF RioInv
<1>1. /\ call.op = "readlineb" /\ rio_cnt > 0 /\ ~direct /\ call.n < call.size
      /\ call.size \in Nat /\ call.n \in Nat /\ u \in Seq(Chars) /\ Len(u) \in Nat
      /\ call.n = Len(u) + 1 /\ \A i \in 1 .. Len(u) : u[i] # Newline
  BY <1>0, CallFields DEF CopyChar, More, RioInv, Who, LineSoFar, Buffered
<1>2. /\ rio_bufptr' = rio_bufptr + 1 /\ rio_cnt' = rio_cnt - 1
      /\ UNCHANGED <<arrived, fetched, ended, written, direct, rio_buf>>
      /\ IF c = Newline THEN call' = NoCall
         ELSE call' = [call EXCEPT !.usrbuf = Append(u, c), !.n = call.n + 1]
  BY DEF CopyChar, Return, stream
<1>3. /\ BufferHolds' /\ Waiting = rio_cnt /\ Waiting' = rio_cnt - 1 /\ Waiting' \in Nat
      /\ rio_bufptr' \in 1 .. RIO_BUFSIZE + 1 /\ rio_cnt' \in -1 .. RIO_BUFSIZE + 1 - rio_bufptr'
  <2>1. 1 \in 1 .. rio_cnt
    BY <1>0, <1>1 DEF Measures
  <2> QED
    BY <2>1, <1>2, BufferShifts
<1>4. c \in Chars /\ c = arrived[fetched - Waiting + 1]
  <2>1. rio_bufptr \in 1 .. RIO_BUFSIZE /\ 1 \in 1 .. Waiting /\ rio_bufptr + 1 - 1 = rio_bufptr
    BY <1>0, <1>1, <1>3 DEF Measures, RioTypeOK
  <2>2. rio_buf[rio_bufptr + 1 - 1] = arrived[fetched - Waiting + 1]
    BY <2>1 DEF RioInv, BufferNext, BufferHolds
  <2> QED
    BY <2>1, <2>2, <1>0 DEF RioTypeOK
<1> HIDE DEF c
<1>5. CASE c = Newline
  <2>1. Waiting' <= fetched'
    <3>1. InHand \in Nat /\ Waiting + InHand <= fetched
      BY <1>0, CallFields DEF RioInv, BufferNext
    <3> QED
      BY <3>1, <1>0, <1>1, <1>2, <1>3 DEF Measures
  <2>2. written' \in Seq(Chars) /\ fetched' \in 0 .. Len(arrived) /\ call' = NoCall
    BY <1>0, <1>2, <1>5 DEF RioTypeOK
  <2> QED
    BY <2>1, <2>2, <1>1, <1>2, <1>3, ReturnOK
<1>6. CASE c # Newline
  <2>1. <<c>> \in Seq(Chars) /\ Len(<<c>>) = 1 /\ <<c>>[1] = c
    BY <1>4
  <2>2. Append(u, c) = u \o <<c>> /\ Append(u, c) \in Seq(Chars)
    BY <1>1, <1>4, AppendIsConcat, AppendProperties
  <2>3. /\ call' \in CallType /\ call'.op = "readlineb" /\ call'.usrbuf = u \o <<c>>
        /\ call'.n = call.n + 1 /\ call'.size = call.size
    <3>1. call' = [call EXCEPT !.usrbuf = u \o <<c>>, !.n = call.n + 1]
      BY <1>2, <1>6, <2>2
    <3>2. u \o <<c>> \in Seq(Chars) /\ call.n + 1 \in Nat
      BY <1>1, <2>2
    <3> QED
      BY <3>1, <3>2, <1>0, <1>1 DEF CallType
  <2>4. HandBefore' /\ Waiting' + InHand' <= fetched' /\ Len(call'.usrbuf) = Len(u) + 1
    <3>1. fetched' \in Nat /\ fetched' - Waiting' = fetched - Waiting + 1
      BY <1>0, <1>2, <1>3 DEF Measures
    <3>2. \A i \in 1 .. Len(<<c>>) : <<c>>[i] = arrived[fetched - Waiting + i]
      BY <1>4, <2>1
    <3>3. call.op \in Reads /\ call'.op \in Reads
      BY <1>1, <2>3 DEF Reads, Buffered
    <3> QED
      BY <3>1, <3>2, <3>3, <2>1, <2>3, <1>2, <1>3, HandGrows
  <2>5. LineSoFar'
    <3>1. ASSUME NEW i \in 1 .. Len(u) + 1 PROVE (u \o <<c>>)[i] # Newline
      <4>1. (u \o <<c>>)[i] = IF i <= Len(u) THEN u[i] ELSE <<c>>[i - Len(u)]
        BY <1>1, <2>1, ConcatProperties
      <4>2. i <= Len(u) \/ i - Len(u) = 1
        BY <1>1
      <4> QED
        BY <4>1, <4>2, <1>1, <1>6, <2>1
    <3>2. call'.n = Len(call'.usrbuf) + 1 /\ call'.size > 0
      BY <1>1, <2>3, <2>4
    <3> QED
      BY <3>1, <3>2, <2>3, <2>4 DEF LineSoFar
  <2>6. RioTypeOK'
    <3>1. Len(call'.usrbuf) + 1 <= call'.size
      BY <1>1, <2>3, <2>4
    <3> QED
      BY <1>0, <1>2, <1>3, <2>3, <3>1 DEF RioTypeOK, CallType
  <2>7. BufferNext'
    BY <1>3, <2>4 DEF BufferNext
  <2>8. Who' /\ WrittenSoFar'
    BY <1>1, <1>2, <2>3 DEF Who, WrittenSoFar, Buffered
  <2> QED
    BY <2>4, <2>5, <2>6, <2>7, <2>8 DEF RioInv
<1> QED
  BY <1>5, <1>6

LEMMA WriteSomeOK ==
  ASSUME RioInv, NEW k \in 1 .. call.nleft, WriteSome(k)
  PROVE  RioInv'
<1> DEFINE u == call.usrbuf
           new == SubSeq(u, Done + 1, Done + k)
<1>0. RioTypeOK /\ Measures /\ call \in CallType
  BY Measured DEF RioInv
<1>1. /\ call.op = "writen" /\ u \in Texts /\ u \in Seq(Chars) /\ call.size = Len(u)
      /\ call.size \in Nat /\ call.nleft \in Nat /\ call.nleft <= call.size
      /\ Done \in Nat /\ Done <= Len(written)
      /\ \A i \in 1 .. Done : written[Len(written) - Done + i] = u[i]
  <2>1. call.op = "writen"
    BY DEF WriteSome
  <2>2. /\ u \in Texts /\ call.size = Len(u) /\ call.nleft <= call.size /\ Done <= Len(written)
        /\ \A i \in 1 .. Done : written[Len(written) - Done + i] = u[i]
    BY <2>1 DEF RioInv, WrittenSoFar
  <2>3. u \in Seq(Chars) /\ call.size \in Nat /\ call.nleft \in Nat
    BY <1>0, CallFields
  <2>4. Done \in Nat
    BY <2>2, <2>3 DEF Done
  <2> QED
    BY <2>1, <2>2, <2>3, <2>4
<1>2. k \in Nat \ {0} /\ Done + k <= Len(u) /\ call.nleft - k \in Nat
  BY <1>1 DEF Done
<1>3. /\ written' = written \o new
      /\ call' = [call EXCEPT !.nleft = call.nleft - k]
      /\ UNCHANGED <<arrived, fetched, ended, direct, rio_buf, rio_bufptr, rio_cnt>>
  BY DEF WriteSome, stream, rp
<1>4. new \in Seq(Chars) /\ Len(new) = k /\ \A i \in 1 .. k : new[i] = u[Done + i]
  <2>1. \A i \in Done + 1 .. Done + k : u[i] \in Chars
    BY <1>1, <1>2, LenProperties
  <2> QED
    BY <2>1, <1>1, <1>2, Slice
<1> HIDE DEF new
<1>5. /\ call' \in CallType /\ call'.op = "writen" /\ call'.usrbuf = u /\ call'.size = call.size
      /\ call'.nleft = call.nleft - k
  BY <1>0, <1>1, <1>2, <1>3 DEF CallType
<1>6. /\ written' \in Seq(Chars) /\ Len(written') = Len(written) + k
      /\ \A i \in 1 .. Len(written) + k :
           written'[i] = IF i <= Len(written) THEN written[i] ELSE new[i - Len(written)]
  <2>1. written \in Seq(Chars)
    BY <1>0 DEF RioTypeOK
  <2> QED
    BY <2>1, <1>3, <1>4, ConcatProperties
<1>7. Done' = Done + k
  BY <1>1, <1>2, <1>5 DEF Done
<1>8. RioTypeOK'
  BY <1>0, <1>3, <1>5, <1>6 DEF RioTypeOK, CallType
<1>9. Waiting' = Waiting /\ InHand' = 0 /\ InHand = 0
  BY <1>1, <1>3, <1>5 DEF Waiting, InHand
<1>10. BufferNext'
  BY <1>3, <1>9 DEF RioInv, BufferNext, BufferHolds
<1>11. Who' /\ HandBefore' /\ LineSoFar'
  BY <1>1, <1>3, <1>5 DEF RioInv, Who, HandBefore, LineSoFar, Reads, Buffered
<1>12. WrittenSoFar'
  <2>1. ASSUME NEW i \in 1 .. Done + k PROVE written'[Len(written) - Done + i] = u[i]
    <3>0. Len(written) \in Nat
      BY <1>0 DEF Measures
    <3>1. CASE i <= Done
      <4>1. i \in 1 .. Done /\ Len(written) - Done + i \in 1 .. Len(written) + k
            /\ Len(written) - Done + i <= Len(written)
        BY <3>0, <3>1, <1>1, <1>2
      <4> QED
        BY <4>1, <1>1, <1>6
    <3>2. CASE ~(i <= Done)
      <4> DEFINE j == Len(written) - Done + i
      <4>1. j \in 1 .. Len(written) + k /\ ~(j <= Len(written)) /\ j - Len(written) = i - Done
            /\ i - Done \in 1 .. k /\ Done + (i - Done) = i
        BY <3>0, <3>2, <1>1, <1>2
      <4> HIDE DEF j
      <4>2. written'[j] = new[i - Done]
        BY <4>1, <1>6
      <4>3. written'[j] = u[i]
        BY <4>1, <4>2, <1>4
      <4> QED
        BY <4>3 DEF j
    <3> QED
      BY <3>1, <3>2
  <2>2. Len(written') - Done' = Len(written) - Done /\ Done' <= Len(written')
    BY <1>0, <1>1, <1>2, <1>6, <1>7 DEF Measures
  <2>3. call'.nleft <= call'.size
    BY <1>1, <1>2, <1>5
  <2>4. ASSUME NEW i \in 1 .. Done' PROVE written'[Len(written') - Done' + i] = call'.usrbuf[i]
    BY <2>1, <2>2, <1>5, <1>7
  <2> QED
    BY <2>2, <2>3, <2>4, <1>1, <1>5 DEF WrittenSoFar
<1> QED
  BY <1>8, <1>10, <1>11, <1>12 DEF RioInv

\* What has arrived is not changed by what arrives.
LEMMA ArriveOK ==
  ASSUME RioInv, (\E x \in Chars : Sends(x)) \/ Hangs \/ UNCHANGED rio_vars
  PROVE  RioInv'
<1>0. RioTypeOK /\ Measures /\ call \in CallType
  BY Measured DEF RioInv
<1>1. UNCHANGED <<fetched, written, direct, rio_buf, rio_bufptr, rio_cnt, call>> /\ ended' \in BOOLEAN
  BY <1>0 DEF Sends, Hangs, rio_vars, stream, rp, RioTypeOK
<1>2. /\ arrived' \in Seq(Chars) /\ Len(arrived') \in Nat /\ Len(arrived) <= Len(arrived')
      /\ \A i \in 1 .. Len(arrived) : arrived'[i] = arrived[i]
  <2>0. arrived \in Seq(Chars) /\ Len(arrived) \in Nat
    BY <1>0 DEF RioTypeOK, Measures
  <2>1. ASSUME NEW x \in Chars, Sends(x)
        PROVE  /\ arrived' \in Seq(Chars) /\ Len(arrived') = Len(arrived) + 1
               /\ \A i \in 1 .. Len(arrived) : arrived'[i] = arrived[i]
    BY <2>0, <2>1, AppendProperties DEF Sends
  <2>2. ASSUME Hangs \/ UNCHANGED rio_vars PROVE arrived' = arrived
    BY <2>2 DEF Hangs, rio_vars, stream
  <2> QED
    BY <2>0, <2>1, <2>2
<1>3. Waiting' = Waiting /\ InHand' = InHand /\ InHand \in Nat /\ Waiting + InHand <= fetched
  BY <1>0, <1>1, CallFields DEF Waiting, InHand, RioInv, BufferNext
<1>4. RioTypeOK'
  <2>1. fetched' \in 0 .. Len(arrived')
    BY <1>0, <1>1, <1>2 DEF RioTypeOK
  <2> QED
    BY <1>0, <1>1, <1>2, <2>1 DEF RioTypeOK
<1>5. BufferNext'
  <2>1. ASSUME NEW i \in 1 .. Waiting PROVE arrived'[fetched - Waiting + i] = arrived[fetched - Waiting + i]
    <3>1. fetched - Waiting + i \in 1 .. Len(arrived)
      BY <1>0, <1>3 DEF RioTypeOK, Measures
    <3> QED
      BY <3>1, <1>2
  <2> QED
    BY <2>1, <1>1, <1>3 DEF RioInv, BufferNext, BufferHolds
<1>6. HandBefore'
  <2>1. CASE call.op \in Reads
    <3>1. InHand = Len(call.usrbuf) /\ HandHolds /\ call.size \in Sizes
      BY <2>1, <1>0, CallFields DEF Reads, Buffered, RioInv, HandBefore
    <3>2. ASSUME NEW i \in 1 .. Len(call.usrbuf)
          PROVE  call.usrbuf[i] = arrived'[fetched - Waiting - InHand + i]
      <4>1. fetched - Waiting - InHand + i \in 1 .. Len(arrived)
        BY <3>1, <1>0, <1>3 DEF RioTypeOK, Measures
      <4> QED
        BY <4>1, <3>1, <1>2 DEF HandHolds
    <3> QED
      BY <3>1, <3>2, <1>1, <1>3 DEF HandBefore, HandHolds
  <2> QED
    BY <2>1, <1>1 DEF HandBefore
<1>7. Who' /\ LineSoFar' /\ WrittenSoFar'
  BY <1>1 DEF RioInv, Who, LineSoFar, WrittenSoFar, Done
<1> QED
  BY <1>4, <1>5, <1>6, <1>7 DEF RioInv

LEMMA RioStep == RioInv /\ [RioNext]_rio_vars => RioInv'
  BY AskOK, ReadnOK, RefillOK, ReadInterruptedOK, ReturnEmptyOK, ReturnSameOK, CopyBytesOK,
     CopyCharOK, WriteSomeOK, ArriveOK DEF RioNext, Asks, Proceeds, Reads

LEMMA RioInvariant == RioSpec => []RioInv
  BY RioInitOK, RioStep, PTL DEF RioSpec

\* The variables of the Rio functions have their types, what rio_cnt counts is
\* in the buffer, and a read never writes past the end of its caller's buffer,
\* whatever sizes, texts and lengths of the buffer.
THEOREM RioTypeCorrect == RioSpec => []RioTypeOK
<1>1. RioInv => RioTypeOK
  BY DEF RioInv
<1> QED
  BY <1>1, RioInvariant, PTL

-----------------------------------------------------------------------------
\* Between two calls nothing is asked for and nothing is in hand.
LEMMA NothingAsked ==
  ASSUME call = NoCall
  PROVE  /\ Asked = Str!Nothing /\ InHand = 0
         /\ Passed = SubSeq(written, 1, Len(written) - 0)
  BY NoCallType, Empty DEF Asked, kindOf, Str!Nothing, InHand, Passed

LEMMA NothingAskedNext ==
  ASSUME call' = NoCall
  PROVE  /\ Asked' = Str!Nothing /\ InHand' = 0
         /\ Passed' = SubSeq(written', 1, Len(written') - 0)
  BY NoCallType, Empty DEF Asked, kindOf, Str!Nothing, InHand, Passed

LEMMA NoAnswer == NoReply = Str!Answer(<<>>)
  BY Empty DEF NoReply, Str!Answer

\* What has been copied to the caller is what follows its position.
LEMMA InStream ==
  ASSUME RioInv
  PROVE  /\ Position \in Nat /\ Position + InHand + Waiting = fetched
         /\ InHand \in Nat /\ Waiting \in Nat /\ fetched \in Nat /\ Len(arrived) \in Nat
         /\ fetched <= Len(arrived)
         /\ call.op \in Reads =>
              /\ InHand = Len(call.usrbuf) /\ call.usrbuf \in Seq(Chars)
              /\ \A i \in 1 .. Len(call.usrbuf) : call.usrbuf[i] = arrived[Position + i]
<1>0. RioTypeOK /\ Measures /\ call \in CallType
  BY Measured DEF RioInv
<1>1. InHand \in Nat /\ Waiting + InHand <= fetched
  BY <1>0, CallFields DEF RioInv, BufferNext
<1>2. Position \in Nat /\ Position + InHand + Waiting = fetched
  BY <1>0, <1>1 DEF Position, Measures
<1>3. ASSUME call.op \in Reads
      PROVE  /\ InHand = Len(call.usrbuf) /\ call.usrbuf \in Seq(Chars)
             /\ \A i \in 1 .. Len(call.usrbuf) : call.usrbuf[i] = arrived[Position + i]
  <2>1. InHand = Len(call.usrbuf) /\ call.usrbuf \in Seq(Chars)
    BY <1>0, <1>3, CallFields DEF Reads, Buffered
  <2>2. HandHolds
    BY <1>3 DEF RioInv, HandBefore
  <2> QED
    BY <2>1, <2>2 DEF HandHolds, Position
<1>4. fetched <= Len(arrived)
  BY <1>0 DEF RioTypeOK, Measures
<1> QED
  BY <1>0, <1>1, <1>2, <1>3, <1>4 DEF Measures

\* A read that returns gives the next characters of the stream.
LEMMA Gives ==
  ASSUME RioInv, NEW t \in Seq(Chars), call' = NoCall,
         reply' = [ret |-> Len(t), text |-> t], UNCHANGED <<arrived, ended, written>>,
         call.op \in Reads,
         Position' = Position + Len(t), Position + Len(t) <= Len(arrived),
         \A i \in 1 .. Len(t) : t[i] = arrived[Position + i],
         Str!AllBytes(Len(t)) \/ Str!Line(Len(t))
  PROVE  Str!Give
<1> DEFINE s == SubSeq(arrived, Position + 1, Position + Len(t))
<1>0. Position \in Nat /\ Len(t) \in Nat /\ Len(arrived) \in Nat /\ arrived \in Seq(Chars)
  BY InStream, LenProperties DEF RioInv, RioTypeOK
<1>1. s \in Seq(Chars) /\ Len(s) = Len(t) /\ \A i \in 1 .. Len(t) : s[i] = arrived[Position + i]
  <2>1. \A i \in Position + 1 .. Position + Len(t) : arrived[i] \in Chars
    BY <1>0, LenProperties
  <2> QED
    BY <2>1, <1>0, Slice
<1>2. s = t
  <2>1. \A i \in 1 .. Len(s) : s[i] = t[i]
    BY <1>1
  <2> QED
    BY <2>1, <1>1, SeqEqual
<1>3. reply' = Str!Answer(s)
  BY <1>2 DEF Str!Answer
<1>4. Asked' = Str!Nothing
  BY NothingAskedNext
<1>5. Passed' = Passed
  BY NothingAskedNext DEF Passed, Reads, Buffered
<1>6. Len(t) \in 0 .. Len(arrived)
  BY <1>0
<1> QED
  BY <1>3, <1>4, <1>5, <1>6 DEF Str!Give

\* A step within a call, of which the caller sees nothing.
LEMMA Unseen ==
  ASSUME UNCHANGED <<arrived, ended, reply>>,
         call'.op = call.op, call'.size = call.size,
         call.op = "writen" => call'.usrbuf = call.usrbuf,
         Passed' = Passed, Position' = Position
  PROVE  UNCHANGED Str!vars
<1>1. Asked' = Asked
  BY DEF Asked, kindOf
<1> QED
  BY <1>1 DEF Str!vars

LEMMA PassedSame ==
  ASSUME call.op # "writen", call'.op # "writen", written' = written
  PROVE  Passed' = Passed
  BY DEF Passed

LEMMA AskingToRead ==
  ASSUME RioInv, NEW op \in Reads, NEW size \in Sizes, AskToRead(op, size)
  PROVE  \E r \in Questions : Str!Ask(r)
<1>1. /\ call = NoCall /\ call'.op = op /\ call'.size = size /\ call'.usrbuf = <<>>
      /\ reply' = NoReply
      /\ op = "readlineb" => size > 0
      /\ UNCHANGED <<arrived, fetched, ended, written, rio_cnt>>
      /\ op \in {"readn", "readnb", "readlineb"}
  BY NoCallType DEF AskToRead, NoCall, stream, rp, Reads, Buffered
<1>2. Asked' \in Questions
  <2>1. CASE op = "readlineb"
    <3>1. Asked' = [op |-> "line", size |-> size, text |-> <<>>]
      BY <1>1, <2>1 DEF Asked, kindOf
    <3>2. size \in Sizes \ {0}
      BY <1>1, <2>1, RioAssumption
    <3> QED
      BY <3>1, <3>2 DEF Questions
  <2>2. CASE op # "readlineb"
    <3>1. Asked' = [op |-> "bytes", size |-> size, text |-> <<>>]
      BY <1>1, <2>2 DEF Asked, kindOf
    <3> QED
      BY <3>1 DEF Questions
  <2> QED
    BY <2>1, <2>2
<1>3. Passed' = Passed
  BY <1>1, NoCallType, PassedSame
<1>4. Position' = Position
  <2>1. InHand' = 0 /\ InHand = 0
    BY <1>1, NothingAsked, Empty DEF InHand
  <2> QED
    BY <2>1, <1>1 DEF Position, Waiting
<1>5. Asked = Str!Nothing /\ reply' = Str!Answer(<<>>)
  BY <1>1, NothingAsked, NoAnswer
<1>6. Str!Ask(Asked')
  BY <1>1, <1>3, <1>4, <1>5 DEF Str!Ask
<1> QED
  BY <1>2, <1>6

LEMMA AskingToWrite ==
  ASSUME RioInv, NEW text \in Texts, AskToWrite(text)
  PROVE  \E r \in Questions : Str!Ask(r)
<1>0. text \in Seq(Chars) /\ Len(text) \in Nat
  BY RioAssumption, LenProperties
<1>1. /\ call = NoCall /\ call'.op = "writen" /\ call'.size = Len(text) /\ call'.usrbuf = text
      /\ call'.nleft = Len(text) /\ reply' = NoReply
      /\ UNCHANGED <<arrived, fetched, ended, written, rio_cnt>>
  BY NoCallType DEF AskToWrite, NoCall, stream, rp
<1>2. Asked' \in Questions
  <2>1. Asked' = [op |-> "write", size |-> Len(text), text |-> text]
    BY <1>1 DEF Asked, kindOf
  <2> QED
    BY <2>1 DEF Questions
<1>3. Passed' = Passed
  <2>1. Done' = 0
    BY <1>0, <1>1 DEF Done
  <2>2. Passed' = SubSeq(written, 1, Len(written) - 0)
    BY <2>1, <1>1 DEF Passed
  <2> QED
    BY <2>2, <1>1, NothingAsked
<1>4. Position' = Position
  <2>1. InHand' = 0 /\ InHand = 0
    BY <1>1, NothingAsked DEF InHand
  <2> QED
    BY <2>1, <1>1 DEF Position, Waiting
<1>5. Asked = Str!Nothing /\ reply' = Str!Answer(<<>>)
  BY <1>1, NothingAsked, NoAnswer
<1>6. Str!Ask(Asked')
  BY <1>1, <1>3, <1>4, <1>5 DEF Str!Ask
<1> QED
  BY <1>2, <1>6

LEMMA ReadnUnseen ==
  ASSUME RioInv, NEW k \in 1 .. call.nleft, rio_readn(k)
  PROVE  UNCHANGED Str!vars
<1> DEFINE new == SubSeq(arrived, fetched + 1, fetched + k)
<1>0. RioTypeOK /\ Measures /\ call \in CallType
  BY Measured DEF RioInv
<1>1. /\ call.op = "readn" /\ call'.op = "readn" /\ call'.size = call.size
      /\ call'.usrbuf = call.usrbuf \o new
      /\ fetched' = fetched + k /\ UNCHANGED <<arrived, ended, written, rio_cnt, reply>>
      /\ fetched + k <= Len(arrived) /\ k \in Nat
      /\ call.usrbuf \in Seq(Chars) /\ Len(call.usrbuf) \in Nat /\ InHand = Len(call.usrbuf)
  <2>1. call.op = "readn" /\ k \in Nat /\ fetched + k <= Len(arrived)
    BY <1>0, CallFields DEF rio_readn, Ready
  <2>2. /\ call' = [call EXCEPT !.usrbuf = call.usrbuf \o new, !.nleft = call.nleft - k]
        /\ fetched' = fetched + k /\ UNCHANGED <<arrived, ended, written, rio_cnt, reply>>
    BY DEF rio_readn, rp
  <2>3. call'.op = call.op /\ call'.size = call.size /\ call'.usrbuf = call.usrbuf \o new
    BY <2>2, <1>0 DEF CallType
  <2>4. call.usrbuf \in Seq(Chars) /\ Len(call.usrbuf) \in Nat /\ InHand = Len(call.usrbuf)
    BY <2>1, <1>0, CallFields
  <2> QED
    BY <2>1, <2>2, <2>3, <2>4
<1>2. new \in Seq(Chars) /\ Len(new) = k
  <2>1. \A i \in fetched + 1 .. fetched + k : arrived[i] \in Chars
    BY <1>0, <1>1, LenProperties DEF Measures, RioTypeOK
  <2>2. fetched \in Nat /\ k \in Nat
    BY <1>0, <1>1 DEF Measures
  <2> QED
    BY <2>1, <2>2, Slice
<1> HIDE DEF new
<1>3. InHand' = InHand + k
  <2>1. InHand' = Len(call'.usrbuf)
    BY <1>1 DEF InHand
  <2>2. Len(call.usrbuf \o new) = Len(call.usrbuf) + k
    BY <1>1, <1>2, ConcatProperties
  <2> QED
    BY <2>1, <2>2, <1>1
<1>4. Position' = Position
  BY <1>0, <1>1, <1>3 DEF Position, Waiting, Measures
<1>5. Passed' = Passed
  BY <1>1, PassedSame
<1> QED
  BY <1>1, <1>4, <1>5, Unseen

LEMMA RefillUnseen ==
  ASSUME RioInv, (\E k \in 1 .. RIO_BUFSIZE : Refill(k)) \/ ReadInterrupted
  PROVE  UNCHANGED Str!vars
<1>0. RioTypeOK /\ Measures /\ call \in CallType
  BY Measured DEF RioInv
<1>1. /\ call.op \in Buffered /\ Waiting = 0 /\ call' = call
      /\ UNCHANGED <<arrived, ended, written, reply>>
      /\ \/ \E k \in 1 .. RIO_BUFSIZE : fetched' = fetched + k /\ rio_cnt' = k
         \/ fetched' = fetched /\ rio_cnt' = -1
  BY <1>0 DEF Refill, ReadInterrupted, Asking, Buffered, Measures, stream
<1>2. InHand' = InHand /\ InHand \in Nat
  BY <1>0, <1>1, CallFields DEF InHand
<1>3. Position' = Position
  <2>1. CASE \E k \in 1 .. RIO_BUFSIZE : fetched' = fetched + k /\ rio_cnt' = k
    <3>1. PICK k \in 1 .. RIO_BUFSIZE : fetched' = fetched + k /\ rio_cnt' = k
      BY <2>1
    <3>2. Waiting' = k
      BY <3>1, <1>0 DEF Waiting, Measures
    <3> QED
      BY <3>1, <3>2, <1>0, <1>1, <1>2 DEF Position, Measures
  <2>2. CASE fetched' = fetched /\ rio_cnt' = -1
    BY <2>2, <1>1, <1>2 DEF Position, Waiting
  <2> QED
    BY <2>1, <2>2, <1>1
<1>4. Passed' = Passed
  BY <1>1, PassedSame DEF Buffered
<1> QED
  BY <1>1, <1>3, <1>4, Unseen

LEMMA CopyBytesUnseen ==
  ASSUME RioInv, CopyBytes
  PROVE  UNCHANGED Str!vars
<1> DEFINE u == call.usrbuf
           cnt == IF rio_cnt < call.nleft THEN rio_cnt ELSE call.nleft
           new == SubSeq(rio_buf, rio_bufptr - 1 + 1, rio_bufptr - 1 + cnt)
<1>0. RioTypeOK /\ Measures /\ call \in CallType
  BY Measured DEF RioInv
<1>1. /\ call.op = "readnb" /\ rio_cnt > 0 /\ call.nleft \in Nat \ {0}
      /\ u \in Seq(Chars) /\ Len(u) \in Nat /\ InHand = Len(u)
  BY <1>0, CallFields DEF CopyBytes, More
<1>2. cnt \in 1 .. rio_cnt /\ cnt \in Nat \ {0} /\ rio_bufptr - 1 \in Nat
  BY <1>0, <1>1 DEF Measures
<1>3. /\ call'.op = "readnb" /\ call'.size = call.size
      /\ call'.usrbuf = u \o SubSeq(rio_buf, rio_bufptr, rio_bufptr + cnt - 1)
      /\ rio_bufptr' = rio_bufptr + cnt /\ rio_cnt' = rio_cnt - cnt
      /\ UNCHANGED <<arrived, fetched, ended, written, rio_buf, reply>>
  BY <1>0, <1>1 DEF CopyBytes, stream, CallType
<1> HIDE DEF cnt
<1>4. new \in Seq(Chars) /\ Len(new) = cnt
  <2>1. \A i \in rio_bufptr - 1 + 1 .. rio_bufptr - 1 + cnt : rio_buf[i] \in Chars
    BY <1>0, <1>1, <1>2 DEF RioTypeOK, Measures
  <2> QED
    BY <2>1, <1>2, Slice
<1>5. call'.usrbuf = u \o new
  <2>1. rio_bufptr - 1 + 1 = rio_bufptr /\ rio_bufptr - 1 + cnt = rio_bufptr + cnt - 1
    BY <1>0, <1>2 DEF Measures
  <2> QED
    BY <2>1, <1>3
<1> HIDE DEF new
<1>6. InHand' = InHand + cnt
  <2>1. InHand' = Len(call'.usrbuf)
    BY <1>3 DEF InHand
  <2>2. Len(u \o new) = Len(u) + cnt
    BY <1>1, <1>4, ConcatProperties
  <2> QED
    BY <2>1, <2>2, <1>1, <1>5
<1>7. Waiting = rio_cnt /\ Waiting' = rio_cnt - cnt
  BY <1>2, <1>3, BufferShifts
<1>8. Position' = Position
  <2>1. fetched \in Nat /\ rio_cnt \in Int /\ InHand \in Nat /\ cnt \in Nat
    BY <1>0, <1>1, <1>2 DEF Measures
  <2>2. Position' = fetched - (rio_cnt - cnt) - (InHand + cnt)
    BY <1>3, <1>6, <1>7 DEF Position
  <2>3. Position = fetched - rio_cnt - InHand
    BY <1>7 DEF Position
  <2> HIDE DEF InHand, Position
  <2> QED
    BY <2>1, <2>2, <2>3
<1>9. Passed' = Passed
  BY <1>1, <1>3, PassedSame
<1> QED
  BY <1>1, <1>3, <1>8, <1>9, Unseen

LEMMA CopyCharStep ==
  ASSUME RioInv, CopyChar
  PROVE  Str!Give \/ UNCHANGED Str!vars
<1> DEFINE u == call.usrbuf
           c == rio_buf[rio_bufptr]
           t == u \o <<c>>
<1>0. RioTypeOK /\ Measures /\ call \in CallType
  BY Measured DEF RioInv
<1>1. /\ call.op = "readlineb" /\ rio_cnt > 0 /\ call.n < call.size
      /\ call.size \in Nat /\ call.n \in Nat /\ u \in Seq(Chars) /\ Len(u) \in Nat
      /\ InHand = Len(u)
      /\ call.n = Len(u) + 1 /\ \A i \in 1 .. Len(u) : u[i] # Newline
  BY <1>0, CallFields DEF CopyChar, More, RioInv, LineSoFar
<1>2. Waiting = rio_cnt /\ Waiting' = rio_cnt - 1
  <2>1. 1 \in 1 .. rio_cnt /\ rio_bufptr' = rio_bufptr + 1 /\ rio_cnt' = rio_cnt - 1
        /\ UNCHANGED <<fetched, arrived, rio_buf>>
    BY <1>0, <1>1 DEF Measures, CopyChar, stream
  <2> QED
    BY <2>1, BufferShifts
<1>3. c \in Chars /\ c = arrived[fetched - Waiting + 1]
  <2>1. rio_bufptr \in 1 .. RIO_BUFSIZE /\ 1 \in 1 .. Waiting /\ rio_bufptr + 1 - 1 = rio_bufptr
    BY <1>0, <1>1, <1>2 DEF Measures, RioTypeOK
  <2>2. rio_buf[rio_bufptr + 1 - 1] = arrived[fetched - Waiting + 1]
    BY <2>1 DEF RioInv, BufferNext, BufferHolds
  <2> QED
    BY <2>1, <2>2, <1>0 DEF RioTypeOK
<1>4. /\ UNCHANGED <<arrived, fetched, ended, written>>
      /\ \/ /\ c = Newline /\ call' = NoCall
            /\ reply' = IF call.n < 0 THEN NoReply ELSE [ret |-> call.n, text |-> Append(u, c)]
         \/ /\ reply' = reply /\ call'.op = "readlineb" /\ call'.size = call.size
            /\ call'.usrbuf = Append(u, c)
  <2>1. Count([call EXCEPT !.usrbuf = Append(u, c), !.n = call.n + 1]) = call.n
    BY <1>0, <1>1 DEF Count, CallType
  <2> QED
    BY <2>1, <1>0, <1>1 DEF CopyChar, Return, stream, CallType
<1> HIDE DEF c
<1>5. /\ Append(u, c) = t /\ t \in Seq(Chars) /\ Len(t) = Len(u) + 1
      /\ \A i \in 1 .. Len(u) + 1 : t[i] = IF i <= Len(u) THEN u[i] ELSE c
  <2>1. <<c>> \in Seq(Chars) /\ Len(<<c>>) = 1 /\ <<c>>[1] = c
    BY <1>3
  <2>2. Append(u, c) = t
    BY <1>1, <1>3, AppendIsConcat
  <2>3. /\ t \in Seq(Chars) /\ Len(t) = Len(u) + 1
        /\ \A i \in 1 .. Len(u) + 1 : t[i] = IF i <= Len(u) THEN u[i] ELSE <<c>>[i - Len(u)]
    BY <2>1, <1>1, ConcatProperties
  <2>4. \A i \in 1 .. Len(u) + 1 : ~(i <= Len(u)) => i - Len(u) = 1
    BY <1>1
  <2> QED
    BY <2>1, <2>2, <2>3, <2>4
<1> HIDE DEF t
<1>6. /\ Position \in Nat /\ Position + Len(u) + Waiting = fetched /\ fetched \in Nat
      /\ Len(arrived) \in Nat /\ fetched <= Len(arrived) /\ Waiting \in Nat /\ call.op \in Reads
      /\ \A i \in 1 .. Len(u) : u[i] = arrived[Position + i]
  BY <1>1, InStream DEF Reads, Buffered
<1>7. ASSUME c = Newline, call' = NoCall,
             reply' = IF call.n < 0 THEN NoReply ELSE [ret |-> call.n, text |-> Append(u, c)]
      PROVE  Str!Give
  <2>1. reply' = [ret |-> Len(t), text |-> t]
    BY <1>1, <1>5, <1>7
  <2>2. Position' = Position + Len(t)
    <3>1. InHand' = 0
      BY <1>7, NothingAskedNext
    <3>2. fetched - (rio_cnt - 1) - 0 = Position + (Len(u) + 1)
      <4>1. \A p, l, w, f \in Int : p + l + w = f => f - (w - 1) - 0 = p + (l + 1)
        OBVIOUS
      <4>2. Position + Len(u) + rio_cnt = fetched
        BY <1>2, <1>6
      <4>3. Position \in Int /\ Len(u) \in Int /\ rio_cnt \in Int /\ fetched \in Int
        BY <1>0, <1>1, <1>6 DEF Measures
      <4> QED
        BY <4>1, <4>2, <4>3
    <3>3. Position' = fetched - (rio_cnt - 1) - 0
      BY <3>1, <1>2, <1>4 DEF Position
    <3> QED
      BY <3>2, <3>3, <1>5
  <2>3. \A i \in 1 .. Len(t) : t[i] = arrived[Position + i]
    <3>1. fetched - Waiting + 1 = Position + (Len(u) + 1)
      BY <1>1, <1>6
    <3>2. \A i \in 1 .. Len(u) + 1 : ~(i <= Len(u)) => i = Len(u) + 1
      BY <1>1
    <3>3. \A i \in 1 .. Len(u) + 1 : i <= Len(u) => i \in 1 .. Len(u)
      BY <1>1
    <3> QED
      BY <3>1, <3>2, <3>3, <1>3, <1>5, <1>6
  <2>4. Position + Len(t) <= Len(arrived)
    BY <1>0, <1>1, <1>2, <1>5, <1>6 DEF Measures
  <2>5. Str!Line(Len(t))
    <3>1. Asked.op = "line" /\ Asked.size = call.size
      BY <1>1 DEF Asked, kindOf
    <3>2. Len(t) < call.size /\ Len(t) > 0
      BY <1>1, <1>5
    <3>3. arrived[Position + Len(t)] = Newline
      <4>1. Len(t) \in 1 .. Len(t) /\ t[Len(t)] = c
        BY <1>1, <1>5
      <4> QED
        BY <4>1, <2>3, <1>7
    <3>4. ASSUME NEW i \in 1 .. Len(t) - 1 PROVE arrived[Position + i] # Newline
      <4>1. i \in 1 .. Len(u)
        BY <1>1, <1>5
      <4> QED
        BY <4>1, <1>1, <1>6
    <3> QED
      BY <3>1, <3>2, <3>3, <3>4 DEF Str!Line
  <2> QED
    BY <2>1, <2>2, <2>3, <2>4, <2>5, <1>4, <1>5, <1>6, <1>7, Gives
<1>8. ASSUME reply' = reply, call'.op = "readlineb", call'.size = call.size,
             call'.usrbuf = Append(u, c)
      PROVE  UNCHANGED Str!vars
  <2>1. InHand' = InHand + 1
    BY <1>1, <1>5, <1>8 DEF InHand
  <2>2. Position' = Position
    BY <2>1, <1>0, <1>1, <1>2, <1>4 DEF Position, Measures
  <2>3. Passed' = Passed
    BY <1>1, <1>4, <1>8, PassedSame
  <2> QED
    BY <2>2, <2>3, <1>1, <1>4, <1>8, Unseen
<1> QED
  BY <1>4, <1>7, <1>8

\* A read that has all it was asked for, or is at the end, gives what it has.
LEMMA ReadReturns ==
  ASSUME RioInv, ReadDone \/ ReadEnd
  PROVE  Str!Give
<1> DEFINE u == call.usrbuf
<1>0. RioTypeOK /\ Measures /\ call \in CallType
  BY Measured DEF RioInv
<1>1. /\ call.op \in Reads /\ call' = NoCall /\ UNCHANGED <<arrived, ended, written, fetched>>
      /\ reply' = IF Count(call) < 0 THEN NoReply ELSE [ret |-> Count(call), text |-> u]
      /\ \/ ~More /\ rio_cnt' = rio_cnt
         \/ /\ More /\ ended /\ fetched = Len(arrived) /\ Waiting = 0
            /\ rio_cnt' = IF call.op = "readn" THEN rio_cnt ELSE 0
  <2>1. ASSUME ReadEnd PROVE Waiting = 0
    <3>1. call.op = "readn" \/ rio_cnt <= 0
      BY <2>1 DEF ReadEnd, Asking
    <3>2. call.op = "readn" => rio_cnt = 0
      BY DEF RioInv, Who
    <3> QED
      BY <3>1, <3>2, <1>0 DEF Measures
  <2> QED
    BY <2>1 DEF ReadDone, ReadEnd, Asking, Return, stream, rp, Reads
<1>2. /\ Position \in Nat /\ Position + Len(u) + Waiting = fetched /\ fetched \in Nat
      /\ Len(arrived) \in Nat /\ fetched <= Len(arrived) /\ Waiting \in Nat
      /\ u \in Seq(Chars) /\ InHand = Len(u) /\ Len(u) \in Nat
      /\ \A i \in 1 .. Len(u) : u[i] = arrived[Position + i]
  BY <1>0, <1>1, InStream, CallFields
<1>3. /\ call.size \in Nat /\ call.nleft \in Nat /\ call.n \in Nat
      /\ call.op # "readlineb" => Len(u) + call.nleft = call.size
      /\ call.op = "readlineb" => /\ call.n = Len(u) + 1 /\ call.n <= call.size
                                  /\ \A i \in 1 .. Len(u) : u[i] # Newline
      /\ call.op \in {"readn", "readnb", "readlineb"}
  BY <1>0, <1>1, CallFields DEF RioTypeOK, RioInv, LineSoFar, Reads, Buffered
<1>4. Count(call) = Len(u) /\ reply' = [ret |-> Len(u), text |-> u]
  <2>1. Count(call) = Len(u)
    BY <1>2, <1>3 DEF Count
  <2> QED
    BY <2>1, <1>1, <1>2
<1>5. Position' = Position + Len(u)
  <2>1. InHand' = 0
    BY <1>1, NothingAskedNext
  <2>2. Waiting' = Waiting
    <3>1. call.op = "readn" => rio_cnt = 0
      BY DEF RioInv, Who
    <3>2. CASE rio_cnt' = rio_cnt
      BY <3>2 DEF Waiting
    <3>3. CASE rio_cnt' = 0 /\ Waiting = 0
      BY <3>3 DEF Waiting
    <3> QED
      BY <3>1, <3>2, <3>3, <1>1
  <2> QED
    BY <2>1, <2>2, <1>1, <1>2 DEF Position
<1>6. Position + Len(u) <= Len(arrived)
  BY <1>2
<1>7. Str!AllBytes(Len(u)) \/ Str!Line(Len(u))
  <2>0. /\ Asked.size = call.size
        /\ Asked.op = IF call.op = "readlineb" THEN "line" ELSE "bytes"
    BY <1>3 DEF Asked, kindOf
  <2>1. CASE call.op # "readlineb"
    <3>1. \/ Len(u) = call.size
          \/ Len(u) < call.size /\ ended /\ Position + Len(u) = Len(arrived)
      BY <2>1, <1>1, <1>2, <1>3 DEF More
    <3> QED
      BY <2>0, <2>1, <3>1 DEF Str!AllBytes
  <2>2. CASE call.op = "readlineb"
    <3>1. /\ Len(u) < call.size
          /\ Len(u) = call.size - 1 \/ (ended /\ Position + Len(u) = Len(arrived))
      BY <2>2, <1>1, <1>2, <1>3 DEF More
    <3>2. ASSUME NEW i \in 1 .. Len(u) - 1 PROVE arrived[Position + i] # Newline
      <4>1. i \in 1 .. Len(u)
        BY <1>2
      <4> QED
        BY <4>1, <2>2, <1>2, <1>3
    <3> QED
      BY <2>0, <2>2, <3>1, <3>2 DEF Str!Line
  <2> QED
    BY <2>1, <2>2
<1> QED
  BY <1>1, <1>2, <1>4, <1>5, <1>6, <1>7, Gives

LEMMA ReadFailsStep ==
  ASSUME RioInv, ReadFails
  PROVE  Str!FailToRead
<1>0. RioTypeOK /\ Measures /\ call \in CallType
  BY Measured DEF RioInv
<1>1. /\ call' = NoCall /\ UNCHANGED <<arrived, ended, written>>
      /\ fetched' \in {fetched, Len(arrived)}
      /\ reply' = NoReply
      /\ rio_cnt' = (IF call.op = "readn" THEN rio_cnt ELSE -1)
      /\ call.op \in {"readn", "readnb", "readlineb"}
  BY DEF ReadFails, Return, Asking, Buffered
<1>2. rio_cnt' \in {0, -1}
  BY <1>1 DEF RioInv, Who
<1>3. Position' = fetched'
  <2>1. Waiting' = 0 /\ InHand' = 0
    BY <1>1, <1>2, NothingAskedNext DEF Waiting
  <2>2. fetched' \in Nat
    BY <1>0, <1>1 DEF Measures
  <2>3. \A f \in Nat : f - 0 - 0 = f
    OBVIOUS
  <2>4. Position' = fetched' - 0 - 0
    BY <2>1 DEF Position
  <2> QED
    BY <2>2, <2>3, <2>4, Zenon
<1>4. Position' \in Position .. Len(arrived)
  BY <1>1, <1>3, InStream
<1>5. Asked.op \in {"bytes", "line"}
  BY <1>1 DEF Asked, kindOf
<1>6. Passed' = Passed
  BY <1>1, PassedSame, NoCallType
<1> QED
  BY <1>1, <1>4, <1>5, <1>6, NothingAskedNext, NoAnswer DEF Str!FailToRead

-----------------------------------------------------------------------------
\* What was written before the call, and what of the call's text.
LEMMA Writing ==
  ASSUME RioInv, call.op = "writen"
  PROVE  /\ call.usrbuf \in Seq(Chars) /\ Len(call.usrbuf) = call.size /\ call.size \in Nat
         /\ call.nleft \in Nat /\ Done \in 0 .. call.size /\ call.size - Done = call.nleft
         /\ written \in Seq(Chars) /\ Len(written) \in Nat /\ Len(written) - Done \in Nat
         /\ Passed \in Seq(Chars) /\ Len(Passed) = Len(written) - Done
         /\ written = Passed \o SubSeq(call.usrbuf, 1, Done)
<1> DEFINE u == call.usrbuf
           before == Len(written) - Done
           p == SubSeq(written, 0 + 1, 0 + before)
           d == SubSeq(u, 0 + 1, 0 + Done)
<1>0. RioTypeOK /\ Measures /\ call \in CallType
  BY Measured DEF RioInv
<1>1. /\ u \in Seq(Chars) /\ Len(u) = call.size /\ call.size \in Nat /\ call.nleft \in Nat
      /\ call.nleft <= call.size /\ Done <= Len(written)
      /\ \A i \in 1 .. Done : written[before + i] = u[i]
  BY <1>0, CallFields DEF RioInv, WrittenSoFar
<1>2. Done \in 0 .. call.size /\ call.size - Done = call.nleft /\ Done \in Nat
  BY <1>1 DEF Done
<1>3. written \in Seq(Chars) /\ Len(written) \in Nat
  BY <1>0 DEF RioTypeOK, Measures
<1>4. before \in Nat /\ before + Done = Len(written) /\ before <= Len(written)
  BY <1>1, <1>2, <1>3
<1>5. p \in Seq(Chars) /\ Len(p) = before /\ \A i \in 1 .. before : p[i] = written[i]
  <2>1. \A i \in 0 + 1 .. 0 + before : written[i] \in Chars
    BY <1>3, <1>4, LenProperties
  <2>2. /\ p \in Seq(Chars) /\ Len(p) = before
        /\ \A i \in 1 .. before : p[i] = written[0 + i]
    BY <2>1, <1>4, Slice
  <2> QED
    BY <2>2, <1>4
<1>6. d \in Seq(Chars) /\ Len(d) = Done /\ \A i \in 1 .. Done : d[i] = u[i]
  <2>1. \A i \in 0 + 1 .. 0 + Done : u[i] \in Chars
    BY <1>1, <1>2, LenProperties
  <2>2. /\ d \in Seq(Chars) /\ Len(d) = Done
        /\ \A i \in 1 .. Done : d[i] = u[0 + i]
    BY <2>1, <1>2, Slice
  <2> QED
    BY <2>2, <1>2
<1>7. Passed = p /\ SubSeq(call.usrbuf, 1, Done) = d
  <2>1. 0 + 1 = 1 /\ 0 + before = before /\ 0 + Done = Done
    BY <1>2, <1>4
  <2> QED
    BY <2>1 DEF Passed
<1> HIDE DEF p, d, before
<1>8. written = p \o d
  <2>1. /\ p \o d \in Seq(Chars) /\ Len(p \o d) = before + Done
        /\ \A i \in 1 .. before + Done : (p \o d)[i] = IF i <= before THEN p[i] ELSE d[i - before]
    BY <1>5, <1>6, ConcatProperties
  <2>2. ASSUME NEW i \in 1 .. Len(written) PROVE written[i] = (p \o d)[i]
    <3>1. CASE i <= before
      <4>1. i \in 1 .. before /\ i \in 1 .. before + Done
        BY <3>1, <1>3, <1>4
      <4> QED
        BY <3>1, <4>1, <2>1, <1>5
    <3>2. CASE ~(i <= before)
      <4>1. i - before \in 1 .. Done /\ i \in 1 .. before + Done /\ before + (i - before) = i
        BY <3>2, <1>2, <1>3, <1>4
      <4>2. written[before + (i - before)] = u[i - before] /\ d[i - before] = u[i - before]
        BY <4>1, <1>1, <1>6
      <4> QED
        BY <3>2, <4>1, <4>2, <2>1
    <3> QED
      BY <3>1, <3>2
  <2> QED
    BY <2>1, <2>2, <1>3, <1>4, SeqEqual
<1> QED
  BY <1>1, <1>2, <1>3, <1>4, <1>5, <1>7, <1>8 DEF before

LEMMA WriteSomeUnseen ==
  ASSUME RioInv, NEW k \in 1 .. call.nleft, WriteSome(k)
  PROVE  UNCHANGED Str!vars
<1> DEFINE u == call.usrbuf
           new == SubSeq(u, Done + 1, Done + k)
           before == Len(written) - Done
<1>0. RioTypeOK /\ Measures /\ call \in CallType
  BY Measured DEF RioInv
<1>1. call.op = "writen" /\ written' = written \o new
      /\ UNCHANGED <<arrived, fetched, ended, rio_cnt, reply>>
  BY DEF WriteSome, stream, rp
<1>2. call'.op = "writen" /\ call'.usrbuf = u /\ call'.size = call.size /\ call'.nleft = call.nleft - k
  BY <1>0, <1>1 DEF WriteSome, CallType
<1>3. /\ u \in Seq(Chars) /\ Len(u) = call.size /\ call.size \in Nat /\ call.nleft \in Nat
      /\ Done \in Nat /\ Done + k <= Len(u) /\ k \in Nat
      /\ written \in Seq(Chars) /\ Len(written) \in Nat /\ before \in Nat /\ before <= Len(written)
      /\ call.size - Done = call.nleft
  BY <1>1, Writing
<1>4. new \in Seq(Chars) /\ Len(new) = k
  <2>1. \A i \in Done + 1 .. Done + k : u[i] \in Chars
    BY <1>3, LenProperties
  <2> QED
    BY <2>1, <1>3, Slice
<1> HIDE DEF new
<1>5. /\ Len(written') = Len(written) + k
      /\ \A i \in 1 .. Len(written) : written'[i] = written[i]
  <2>1. /\ Len(written \o new) = Len(written) + k
        /\ \A i \in 1 .. Len(written) + k : (written \o new)[i] =
             IF i <= Len(written) THEN written[i] ELSE new[i - Len(written)]
    BY <1>3, <1>4, ConcatProperties
  <2>2. \A i \in 1 .. Len(written) : i \in 1 .. Len(written) + k /\ i <= Len(written)
    BY <1>3
  <2> QED
    BY <2>1, <2>2, <1>1
<1>6. Done' = Done + k
  BY <1>2, <1>3 DEF Done
<1>7. Passed' = Passed
  <2>1. Passed = SubSeq(written, 1, before)
    BY <1>1 DEF Passed
  <2>2. Len(written') - Done' = before
    BY <1>3, <1>5, <1>6
  <2>3. Passed' = SubSeq(written', 1, before)
    BY <1>2, <2>2 DEF Passed
  <2>4. \A i \in 0 + 1 .. 0 + before : written[i] \in Chars /\ written'[i] = written[i]
    BY <1>3, <1>5, LenProperties
  <2>5. \A i \in 0 + 1 .. 0 + before : written'[i] \in Chars
    BY <2>4
  <2>6. /\ SubSeq(written, 0 + 1, 0 + before) \in Seq(Chars)
        /\ Len(SubSeq(written, 0 + 1, 0 + before)) = before
        /\ \A i \in 1 .. before : SubSeq(written, 0 + 1, 0 + before)[i] = written[0 + i]
    BY <2>4, <1>3, Slice
  <2>7. /\ SubSeq(written', 0 + 1, 0 + before) \in Seq(Chars)
        /\ Len(SubSeq(written', 0 + 1, 0 + before)) = before
        /\ \A i \in 1 .. before : SubSeq(written', 0 + 1, 0 + before)[i] = written'[0 + i]
    BY <2>5, <1>3, Slice
  <2>8. 0 + 1 = 1 /\ 0 + before = before /\ \A i \in 1 .. before : 0 + i \in 0 + 1 .. 0 + before
    BY <1>3
  <2> HIDE DEF before
  <2>9. SubSeq(written', 0 + 1, 0 + before) = SubSeq(written, 0 + 1, 0 + before)
    BY <2>4, <2>6, <2>7, <2>8, SeqEqual
  <2> QED
    BY <2>1, <2>3, <2>8, <2>9
<1>8. Position' = Position
  <2>1. Waiting' = Waiting /\ InHand' = InHand
    BY <1>1, <1>2 DEF Waiting, InHand
  <2> QED
    BY <2>1, <1>1 DEF Position
<1> QED
  BY <1>1, <1>2, <1>7, <1>8, Unseen

LEMMA WriteReturns ==
  ASSUME RioInv, WriteDone \/ WriteFails
  PROVE  Str!Pass \/ Str!FailToPass
<1> DEFINE u == call.usrbuf
<1>1. /\ call.op = "writen" /\ call' = NoCall
      /\ UNCHANGED <<arrived, fetched, ended, written, rio_cnt, reply>>
      /\ WriteDone => ~(call.nleft > 0)
  BY DEF WriteDone, WriteFails, More, stream, rp
<1>2. /\ u \in Seq(Chars) /\ Len(u) = call.size /\ call.size \in Nat /\ call.nleft \in Nat
      /\ Done \in 0 .. call.size /\ call.size - Done = call.nleft
      /\ written \in Seq(Chars)
      /\ written = Passed \o SubSeq(u, 1, Done)
  BY <1>1, Writing
<1>3. Passed' = written
  <2>1. Passed' = SubSeq(written, 1, Len(written) - 0)
    BY <1>1, NothingAskedNext
  <2>2. Len(written) - 0 = Len(written)
    BY <1>2, LenProperties
  <2> QED
    BY <2>1, <2>2, <1>2, SubSeqFull
<1>4. Asked.op = "write" /\ Asked.text = u /\ Asked' = Str!Nothing
  BY <1>1, NothingAskedNext DEF Asked, kindOf
<1>5. Position' = Position
  <2>1. Waiting' = Waiting /\ InHand' = InHand
    BY <1>1, NothingAskedNext DEF Waiting, InHand
  <2> QED
    BY <2>1, <1>1 DEF Position
<1>6. CASE WriteDone
  <2>1. Done = Len(u)
    BY <1>1, <1>2, <1>6
  <2>2. SubSeq(u, 1, Done) = u
    BY <2>1, <1>2, SubSeqFull
  <2> QED
    BY <2>2, <1>1, <1>2, <1>3, <1>4, <1>5 DEF Str!Pass
<1>7. CASE WriteFails
  BY <1>1, <1>2, <1>3, <1>4, <1>5 DEF Str!FailToPass
<1> QED
  BY <1>6, <1>7

LEMMA OtherEnd ==
  ASSUME RioInv, (\E x \in Chars : Sends(x)) \/ Hangs \/ UNCHANGED rio_vars
  PROVE  (\E x \in Chars : Str!Arrive(x)) \/ Str!End \/ UNCHANGED Str!vars
<1>1. UNCHANGED <<fetched, written, rio_cnt, call, reply>>
  BY DEF Sends, Hangs, rio_vars, stream, rp
<1>2. Asked' = Asked
  BY <1>1 DEF Asked, kindOf
<1>3. Position' = Position
  BY <1>1 DEF Position, Waiting, InHand
<1>4. Passed' = Passed
  BY <1>1 DEF Passed, Done
<1>5. ASSUME NEW x \in Chars, Sends(x) PROVE Str!Arrive(x)
  BY <1>1, <1>2, <1>3, <1>4, <1>5 DEF Sends, Str!Arrive
<1>6. ASSUME Hangs PROVE Str!End
  BY <1>1, <1>2, <1>3, <1>4, <1>6 DEF Hangs, Str!End
<1>7. ASSUME UNCHANGED rio_vars PROVE UNCHANGED Str!vars
  BY <1>1, <1>2, <1>3, <1>4, <1>7 DEF rio_vars, stream, Str!vars
<1> QED
  BY <1>5, <1>6, <1>7

LEMMA StreamStep ==
  ASSUME RioInv, [RioNext]_rio_vars
  PROVE  [Str!Next]_(Str!vars)
<1>1. ASSUME Asks PROVE Str!Next
  BY <1>1, AskingToRead, AskingToWrite DEF Asks, Reads, Str!Next
<1>2. ASSUME Proceeds PROVE [Str!Next]_(Str!vars)
  <2>1. ASSUME NEW k \in 1 .. call.nleft, rio_readn(k) \/ WriteSome(k)
        PROVE  UNCHANGED Str!vars
    BY <2>1, ReadnUnseen, WriteSomeUnseen
  <2>2. ASSUME (\E k \in 1 .. RIO_BUFSIZE : Refill(k)) \/ CopyBytes
        PROVE  UNCHANGED Str!vars
    BY <2>2, RefillUnseen, CopyBytesUnseen
  <2>3. ASSUME ReadEnd \/ CopyChar \/ ReadDone \/ WriteDone
        PROVE  [Str!Next]_(Str!vars)
    BY <2>3, ReadReturns, CopyCharStep, WriteReturns DEF Str!Next
  <2> QED
    BY <1>2, <2>1, <2>2, <2>3 DEF Proceeds
<1>3. ASSUME ReadInterrupted \/ ReadFails \/ WriteFails PROVE [Str!Next]_(Str!vars)
  BY <1>3, RefillUnseen, ReadFailsStep, WriteReturns DEF Str!Next
<1>4. ASSUME (\E x \in Chars : Sends(x)) \/ Hangs \/ UNCHANGED rio_vars
      PROVE  [Str!Next]_(Str!vars)
  BY <1>4, OtherEnd DEF Str!Next
<1> QED
  BY <1>1, <1>2, <1>3, <1>4 DEF RioNext

\* Behind the Rio functions and the proxy's wrappers a descriptor is a stream, for
\* any characters, any sizes that are asked for and any length of the buffer:
\* short counts, signals and the buffer show nowhere, nothing is given twice
\* or out of order, and nothing is lost but by a call that fails.
THEOREM RioIsStream == RioSpec => IsStream
<1>1. RioInit => Str!Init
  <2> SUFFICES ASSUME RioInit PROVE Str!Init
    OBVIOUS
  <2>1. call = NoCall /\ written = <<>> /\ arrived = <<>> /\ ended = FALSE /\ fetched = 0
        /\ rio_cnt = 0 /\ reply = NoReply
    BY DEF RioInit
  <2>2. Position = 0
    BY <2>1, NothingAsked DEF Position, Waiting
  <2>3. Passed = <<>>
    <3>1. Passed = SubSeq(<<>>, 1, 0)
      BY <2>1, NothingAsked, Empty
    <3> QED
      BY <3>1, SubSeqEmpty
  <2> QED
    BY <2>1, <2>2, <2>3, NothingAsked, NoAnswer DEF Str!Init
<1>2. RioInv /\ [RioNext]_rio_vars => [Str!Next]_(Str!vars)
  BY StreamStep
<1> QED
  BY <1>1, <1>2, RioInvariant, PTL DEF RioSpec, IsStream, Str!Spec
=============================================================================
