---------------------------- MODULE MemoryProofs ----------------------------
(* The labs on memory: the cache simulator implements LRU for every        *)
(* geometry and every trace whose tags fit an int; the words of blocks     *)
(* that an allocator promises stay apart; and mm.c, in its normal mode,    *)
(* keeps its heap well formed and that promise, for every size of heap     *)
(* and every driver.                                                       *)
EXTENDS Allocator, Transpose, FunctionTheorems, FiniteSetTheorems,
        SequenceTheorems, WellFoundedInduction, TLAPS

Line == [valid : BOOLEAN, tag : Nat, used_time : Nat]
Set(E) == [1 .. E -> Line]

\* No block is in two lines.
Distinct(q) == \A l, m \in DOMAIN q :
                  q[l].valid /\ q[m].valid /\ q[l].tag = q[m].tag => l = m
-----------------------------------------------------------------------------
(* The least of some numbers. *)
LEMMA LeastNat ==
    ASSUME NEW S \in SUBSET Nat, S # {}
    PROVE  \E x \in S : \A y \in S : x <= y
<1> DEFINE Less == {ss \in Nat \X Nat : ss[1] < ss[2]}
<1>1. IsWellFoundedOn(Less, Nat)
  BY NatLessThanWellFounded, Zenon DEF OpToRel
<1> HIDE DEF Less
<1>2. PICK x \in S : \A y \in S : ~(<<y, x>> \in Less)
  <2>1. S \subseteq Nat
    OBVIOUS
  <2> QED  BY <1>1, <2>1, WFMin, Zenon
<1>3. ASSUME NEW y \in S PROVE x <= y
  <2>1. y < x => <<y, x>> \in Less
    BY DEF Less
  <2> QED  BY <1>2, <2>1
<1> QED  BY <1>3

\* The minimum of a non-empty set of naturals is a member of it.
LEMMA MinIsIn == ASSUME NEW S \in SUBSET Nat, S # {} PROVE Min(S) \in S
<1>1. \E x \in S : \A y \in S : x <= y
  BY LeastNat
<1> QED  BY <1>1, Zenon DEF Min
-----------------------------------------------------------------------------
(* One set of the cache: what it holds, and what an access makes of it. *)
LEMMA InALine ==
    ASSUME NEW E \in Nat, NEW q \in Set(E), Distinct(q), NEW l \in 1 .. E, q[l].valid
    PROVE  /\ q[l].tag \in Tags(q)
           /\ find_line(q, q[l].tag) = {l}
           /\ UsedAt(q)[q[l].tag] = q[l].used_time
<1>1. DOMAIN q = 1 .. E
  BY DEF Set
<1>2. q[l].tag \in Tags(q)
  BY <1>1 DEF Tags
<1>3. find_line(q, q[l].tag) = {l}
  BY <1>1 DEF find_line, Distinct
<1> QED  BY <1>2, <1>3 DEF UsedAt

\* A tag that is held is in some valid line.
LEMMA HeldBlock ==
    ASSUME NEW E \in Nat, NEW q \in Set(E), NEW k \in Tags(q)
    PROVE  \E l \in 1 .. E : q[l].valid /\ q[l].tag = k
BY DEF Tags, Set

\* The search misses exactly the tags that are not held.
LEMMA NotHeld ==
    ASSUME NEW E \in Nat, NEW q \in Set(E), NEW k
    PROVE  find_line(q, k) = {} <=> k \notin Tags(q)
BY DEF Tags, Set, find_line

\* Line l now holds block k: what was in it is gone.
LEMMA Entered ==
    ASSUME NEW E \in Nat, NEW q \in Set(E), Distinct(q), NEW l \in 1 .. E,
           NEW k \in Nat, NEW now \in Nat,
           k \notin Tags(q) \/ (q[l].valid /\ q[l].tag = k),
           NEW q2 \in Set(E), q2[l] = [valid |-> TRUE, tag |-> k, used_time |-> now],
           \A m \in 1 .. E : m # l => q2[m] = q[m],
           NEW Gone, Gone = IF q[l].valid /\ q[l].tag # k THEN {q[l].tag} ELSE {}
    PROVE  /\ Distinct(q2)
           /\ UsedAt(q2) = Cached!Placed(UsedAt(q), k, Gone, now)
<1>1. DOMAIN q = 1 .. E
  BY DEF Set
<1>2. /\ q2[l].valid /\ q2[l].tag = k /\ q2[l].used_time = now
      /\ \A m \in 1 .. E : m # l => q2[m] = q[m]
  BY DEF Set, Line
<1>3. \A m \in 1 .. E : m # l /\ q[m].valid => q[m].tag # k
  BY <1>1 DEF Tags, Distinct
<1>4. Distinct(q2)
  BY <1>1, <1>2, <1>3 DEF Distinct, Set
<1>5. Tags(q2) = (Tags(q) \ Gone) \cup {k}
  <2>1. ASSUME NEW t \in Tags(q2) PROVE t \in (Tags(q) \ Gone) \cup {k}
    <3>1. PICK m \in 1 .. E : q2[m].valid /\ q2[m].tag = t
      BY <1>1, <2>1, HeldBlock
    <3>2. CASE m = l
      BY <1>2, <3>1, <3>2
    <3>3. CASE m # l
      <4>1. q[m].valid /\ q[m].tag = t
        BY <1>2, <3>1, <3>3
      <4>2. t \in Tags(q) /\ (q[l].valid => q[l].tag # t)
        BY <1>1, <3>3, <4>1 DEF Tags, Distinct
      <4> QED  BY <4>2
    <3> QED  BY <3>2, <3>3
  <2>2. k \in Tags(q2)
    BY <1>1, <1>2 DEF Tags, Set
  <2>3. ASSUME NEW t \in Tags(q) \ Gone PROVE t \in Tags(q2)
    <3>1. PICK m \in 1 .. E : q[m].valid /\ q[m].tag = t
      BY HeldBlock
    <3>2. CASE m = l
      BY <2>2, <2>3, <3>1, <3>2
    <3>3. CASE m # l
      BY <1>1, <1>2, <3>1, <3>3 DEF Tags, Set
    <3> QED  BY <3>2, <3>3
  <2> QED  BY <2>1, <2>2, <2>3
<1>6. UsedAt(q2)[k] = now
  BY <1>1, <1>2, <1>4, InALine
<1>7. ASSUME NEW t \in Tags(q) \ Gone, t # k PROVE UsedAt(q2)[t] = UsedAt(q)[t]
  <2>1. PICK m \in 1 .. E : q[m].valid /\ q[m].tag = t
    BY HeldBlock
  <2>2. m # l /\ q2[m] = q[m]
    BY <1>2, <1>7, <2>1
  <2> QED  BY <1>1, <1>4, <2>1, <2>2, InALine
<1>8. DOMAIN UsedAt(q) = Tags(q) /\ UsedAt(q2) = [t \in Tags(q2) |-> UsedAt(q2)[t]]
  BY DEF UsedAt
<1> HIDE DEF UsedAt, Tags
<1> QED  BY <1>1, <1>4, <1>5, <1>6, <1>7, <1>8 DEF Cached!Placed

\* A set is full when it holds as many blocks as it has lines.
LEMMA Fullness ==
    ASSUME NEW E \in Nat, NEW q \in Set(E), Distinct(q)
    PROVE  FreeLines(q) = {} <=> Cardinality(Tags(q)) = E
<1> DEFINE V == {l \in 1 .. E : q[l].valid}
           f == [l \in V |-> q[l].tag]
<1>1. IsFiniteSet(1 .. E) /\ Cardinality(1 .. E) = E
  BY FS_Interval
<1>2. IsFiniteSet(V) /\ (Cardinality(V) = E <=> V = 1 .. E)
  <2>1. V \in SUBSET (1 .. E)
    OBVIOUS
  <2> QED  BY <1>1, <2>1, FS_Subset
<1>3. f \in Bijection(V, Tags(q))
  <2>1. f \in [V -> Tags(q)]
    BY DEF Tags, Set
  <2>2. \A a, b \in V : f[a] = f[b] => a = b
    BY DEF Distinct, Set
  <2>3. \A t \in Tags(q) : \E a \in V : f[a] = t
    BY HeldBlock
  <2> HIDE DEF f, V
  <2> QED  BY <2>1, <2>2, <2>3, Fun_IsBij DEF IsInjective
<1>4. Cardinality(Tags(q)) = Cardinality(V)
  <2>1. ExistsBijection(V, Tags(q))
    BY <1>3 DEF ExistsBijection
  <2> QED  BY <1>2, <2>1, FS_Bijection
<1>5. FreeLines(q) = {} <=> V = 1 .. E
  BY DEF FreeLines, Set
<1> QED  BY <1>2, <1>4, <1>5

\* The line an access to block k uses.
Chosen(q, k) == IF find_line(q, k) # {} THEN Min(find_line(q, k)) ELSE find_store(q)

\* The line an access uses: the hit, else a free one, else the oldest.
LEMMA ChosenLine ==
    ASSUME NEW E \in Nat \ {0}, NEW q \in Set(E), NEW k
    PROVE  LET l == Chosen(q, k)
           IN  /\ l \in 1 .. E
               /\ find_line(q, k) # {} => q[l].valid /\ q[l].tag = k
               /\ find_line(q, k) = {} /\ FreeLines(q) # {} => ~q[l].valid
               /\ find_line(q, k) = {} /\ FreeLines(q) = {} =>
                     q[l].valid /\ \A m \in 1 .. E : q[l].used_time <= q[m].used_time
<1>1. DOMAIN q = 1 .. E
  BY DEF Set
<1>2. CASE find_line(q, k) # {}
  <2>1. find_line(q, k) \in SUBSET Nat
    BY <1>1 DEF find_line
  <2>2. Chosen(q, k) \in find_line(q, k)
    BY <1>2, <2>1, MinIsIn DEF Chosen
  <2> QED  BY <1>1, <1>2, <2>2 DEF find_line
<1>3. CASE find_line(q, k) = {} /\ FreeLines(q) # {}
  <2>1. FreeLines(q) \in SUBSET Nat
    BY <1>1 DEF FreeLines
  <2>2. Chosen(q, k) \in FreeLines(q)
    BY <1>3, <2>1, MinIsIn DEF Chosen, find_store
  <2> QED  BY <1>1, <1>3, <2>2 DEF FreeLines
<1>4. CASE find_line(q, k) = {} /\ FreeLines(q) = {}
  <2> DEFINE T == {q[l].used_time : l \in 1 .. E}
             S == {l \in DOMAIN q : \A m \in DOMAIN q : ~Before(q, m, l)}
  <2>1. \A m \in 1 .. E : q[m].used_time \in Nat /\ q[m].valid
    BY <1>1, <1>4 DEF Set, Line, FreeLines
  <2>2. PICK x \in T : \A y \in T : x <= y
    <3>1. T \in SUBSET Nat /\ T # {}
      BY <2>1
    <3> HIDE DEF T
    <3> QED  BY <3>1, LeastNat
  <2>3. PICK l \in 1 .. E : x = q[l].used_time
    BY <2>2
  <2>4. \A m \in 1 .. E : q[l].used_time <= q[m].used_time
    BY <2>2, <2>3
  <2>5. l \in S
    BY <1>1, <2>1, <2>4 DEF Before
  <2>6. S \in SUBSET Nat
    BY <1>1
  <2>7. Chosen(q, k) \in S
    <3>1. Chosen(q, k) = Min(S)
      BY <1>4 DEF Chosen, find_store
    <3> HIDE DEF S
    <3> QED  BY <2>5, <2>6, <3>1, MinIsIn
  <2> QED  BY <1>1, <1>4, <2>1, <2>7 DEF Before
<1> QED  BY <1>2, <1>3, <1>4

\* What an access does to its set is a hit or a miss of the promise.
LEMMA SetAccess ==
    ASSUME NEW E \in Nat \ {0}, NEW q \in Set(E), Distinct(q),
           NEW k \in Nat, NEW now \in Nat, NEW q2 \in Set(E),
           q2[Chosen(q, k)] = [valid |-> TRUE, tag |-> k, used_time |-> now],
           \A m \in 1 .. E : m # Chosen(q, k) => q2[m] = q[m]
    PROVE  /\ Distinct(q2)
           /\ find_line(q, k) # {} <=> k \in DOMAIN UsedAt(q)
           /\ FreeLines(q) = {} <=> Cardinality(DOMAIN UsedAt(q)) = E
           /\ find_line(q, k) # {} =>
                 UsedAt(q2) = Cached!Placed(UsedAt(q), k, {}, now)
           /\ find_line(q, k) = {} /\ FreeLines(q) # {} =>
                 UsedAt(q2) = Cached!Placed(UsedAt(q), k, {}, now)
           /\ find_line(q, k) = {} /\ FreeLines(q) = {} =>
                 \E v \in Cached!Oldest(UsedAt(q)) :
                    UsedAt(q2) = Cached!Placed(UsedAt(q), k, {v}, now)
<1> DEFINE l == Chosen(q, k)
<1>1. /\ l \in 1 .. E
      /\ find_line(q, k) # {} => q[l].valid /\ q[l].tag = k
      /\ find_line(q, k) = {} /\ FreeLines(q) # {} => ~q[l].valid
      /\ find_line(q, k) = {} /\ FreeLines(q) = {} =>
            q[l].valid /\ \A m \in 1 .. E : q[l].used_time <= q[m].used_time
  BY ChosenLine
<1> HIDE DEF l
<1>2. /\ q2[l] = [valid |-> TRUE, tag |-> k, used_time |-> now]
      /\ \A m \in 1 .. E : m # l => q2[m] = q[m]
  BY DEF l
<1>3. DOMAIN UsedAt(q) = Tags(q)
  BY DEF UsedAt
<1>4. find_line(q, k) = {} <=> k \notin Tags(q)
  BY NotHeld
<1>5. FreeLines(q) = {} <=> Cardinality(Tags(q)) = E
  BY Fullness
<1> DEFINE Gone == IF q[l].valid /\ q[l].tag # k THEN {q[l].tag} ELSE {}
<1>6. Distinct(q2) /\ UsedAt(q2) = Cached!Placed(UsedAt(q), k, Gone, now)
  <2>1. k \notin Tags(q) \/ (q[l].valid /\ q[l].tag = k)
    BY <1>1, <1>4
  <2> HIDE DEF Gone
  <2>2. Gone = IF q[l].valid /\ q[l].tag # k THEN {q[l].tag} ELSE {}
    BY DEF Gone
  <2> QED  BY <1>1, <1>2, <2>1, <2>2, Entered
<1>7. CASE find_line(q, k) # {} \/ FreeLines(q) # {}
  <2>1. Gone = {}
    BY <1>1, <1>7
  <2> HIDE DEF Gone
  <2> QED  BY <1>2, <1>3, <1>4, <1>5, <1>6, <1>7, <2>1
<1>8. CASE find_line(q, k) = {} /\ FreeLines(q) = {}
  <2>1. q[l].tag \in Tags(q) /\ UsedAt(q)[q[l].tag] = q[l].used_time
    BY <1>1, <1>8, InALine
  <2>2. Gone = {q[l].tag}
    BY <1>1, <1>4, <1>8, <2>1
  <2>3. ASSUME NEW t \in Tags(q) PROVE UsedAt(q)[q[l].tag] <= UsedAt(q)[t]
    <3>1. PICK m \in 1 .. E : q[m].valid /\ q[m].tag = t
      BY HeldBlock
    <3>2. UsedAt(q)[t] = q[m].used_time
      BY <3>1, InALine
    <3> QED  BY <1>1, <1>8, <2>1, <3>2
  <2>4. q[l].tag \in Cached!Oldest(UsedAt(q))
    BY <1>3, <2>1, <2>3 DEF Cached!Oldest
  <2> HIDE DEF Gone
  <2> QED  BY <1>2, <1>3, <1>4, <1>5, <1>6, <1>8, <2>2, <2>4
<1> QED  BY <1>7, <1>8

-----------------------------------------------------------------------------
(* The machine, on a trace. *)
Counts == [hit : Nat, miss : Nat, eviction : Nat]
IInv == fn = "any" =>
          /\ g \in Geometries
          /\ clock \in Nat /\ counts \in Counts
          /\ lines \in [0 .. g.S - 1 -> Set(g.E)]
          /\ \A i \in 0 .. g.S - 1 : Distinct(lines[i])

\* What the machine holds, set by set.
HeldNow == [i \in 0 .. g.S - 1 |-> UsedAt(lines[i])]

\* A set of empty lines is a cache set that holds nothing.
LEMMA EmptySet ==
    ASSUME NEW E \in Nat, NEW q, q = [l \in 1 .. E |-> Empty]
    PROVE  q \in Set(E) /\ Distinct(q) /\ UsedAt(q) = [k \in {} |-> 0]
<1>1. q \in Set(E) /\ Distinct(q)
  BY DEF Set, Line, Empty, Distinct
<1>2. Tags(q) = {}
  BY DEF Tags, Empty
<1> QED  BY <1>1, <1>2 DEF UsedAt

\* The cache and the transpose start in the invariant.
LEMMA InitIInv == TransposeInit => IInv
<1> SUFFICES ASSUME TransposeInit, fn = "any"
             PROVE  /\ g \in Geometries
                    /\ clock \in Nat /\ counts \in Counts
                    /\ lines \in [0 .. g.S - 1 -> Set(g.E)]
                    /\ \A i \in 0 .. g.S - 1 : Distinct(lines[i])
  BY DEF IInv
<1>1. \E geometry \in Geometries : Cache_init(geometry)
  BY DEF TransposeInit, Dim
<1>2. g \in Geometries /\ clock \in Nat /\ counts \in Counts
  BY <1>1 DEF Cache_init, Counts
<1>3. lines = [i \in 0 .. g.S - 1 |-> [l \in 1 .. g.E |-> Empty]] /\ g.E \in Nat
  BY <1>1, <1>2, AddressesAssumption DEF Cache_init
<1> QED  BY <1>2, <1>3, EmptySet

\* The transpose starts as the LRU cache does: empty.
LEMMA InitRefines == TransposeInit => Cached!Init
<1> SUFFICES ASSUME TransposeInit PROVE Cached!Init
  OBVIOUS
<1>1. CASE fn = "any"
  <2>1. \E geometry \in Geometries : Cache_init(geometry)
    BY <1>1 DEF TransposeInit, Dim
  <2>2. /\ lines = [i \in 0 .. g.S - 1 |-> [l \in 1 .. g.E |-> Empty]] /\ g.E \in Nat
        /\ counts = [hit |-> 0, miss |-> 0, eviction |-> 0]
    BY <2>1, AddressesAssumption DEF Cache_init
  <2>3. \A i \in 0 .. g.S - 1 : UsedAt(lines[i]) = [k \in {} |-> 0]
    BY <2>2, EmptySet
  <2> QED  BY <1>1, <2>2, <2>3 DEF Cached!Init
<1>2. CASE fn # "any"
  BY <1>2 DEF Cached!Init
<1> QED  BY <1>1, <1>2

\* Where an access goes.
LEMMA Located ==
    ASSUME g \in Geometries, NEW addr \in Addresses
    PROVE  /\ GET_TAG(addr) = Cached!Block(addr) /\ Cached!Block(addr) \in Nat
           /\ GET_SET(addr) = Cached!Index(addr) /\ Cached!Index(addr) \in 0 .. g.S - 1
<1>1. g.B \in Nat \ {0} /\ g.S \in Nat \ {0} /\ addr \in Nat
  BY AddressesAssumption
<1>2. g.B * g.S \in Nat \ {0}
  BY <1>1
<1>3. addr \div (g.B * g.S) \in Nat /\ addr \div (g.B * g.S) < INT
  BY <1>1, <1>2, AddressesAssumption
<1>4. addr \div g.B \in Nat /\ (addr \div g.B) % g.S \in 0 .. g.S - 1
  BY <1>1
<1>5. (addr \div (g.B * g.S)) % INT = addr \div (g.B * g.S)
  BY <1>3, IntAssumption
<1> QED  BY <1>3, <1>4, <1>5 DEF GET_TAG, GET_SET, Cached!Block, Cached!Index

\* The instance counts a set as this module does.
LEMMA SameCardinality == \A S : Cached!Cardinality(S) = Cardinality(S)
BY DEF Cached!Cardinality, Cardinality

\* An access by the trace is one of the promise.
LEMMA AccessRefines ==
    ASSUME IInv, deal_with_file
    PROVE  IInv' /\ Cached!Access
<1>1. /\ fn = "any" /\ fn' = fn /\ g' = g
      /\ g \in Geometries /\ clock \in Nat /\ counts \in Counts
      /\ lines \in [0 .. g.S - 1 -> Set(g.E)]
      /\ \A i \in 0 .. g.S - 1 : Distinct(lines[i])
      /\ clock' \in Nat /\ clock' >= clock
  BY DEF deal_with_file, IInv
<1>2. PICK op \in {"L", "S", "M"}, addr \in Addresses :
         LET c == access([lines |-> lines, counts |-> counts], op, addr, clock')
         IN  lines' = c.lines /\ counts' = c.counts
  BY DEF deal_with_file
<1> DEFINE k == Cached!Block(addr)
           i == Cached!Index(addr)
           q == lines[i]
           l == Chosen(q, k)
           found == find_line(q, k)
           x == IF op = "M" THEN 1 ELSE 0
<1>3. GET_TAG(addr) = k /\ k \in Nat /\ GET_SET(addr) = i /\ i \in 0 .. g.S - 1
  BY <1>1, Located
<1>4. g.E \in Nat \ {0} /\ q \in Set(g.E) /\ Distinct(q)
  BY <1>1, <1>3, AddressesAssumption
<1> HIDE DEF k, i
<1>5. /\ lines' = [lines EXCEPT ![i][l] = [valid |-> TRUE, tag |-> k, used_time |-> clock']]
      /\ counts' = [hit |-> counts.hit + (IF found # {} THEN 1 ELSE 0) + x,
                    miss |-> counts.miss + (IF found = {} THEN 1 ELSE 0),
                    eviction |-> counts.eviction
                        + (IF found = {} /\ FreeLines(q) = {} THEN 1 ELSE 0)]
  BY <1>2, <1>3 DEF access, Chosen
<1>6. l \in 1 .. g.E
  BY <1>4, ChosenLine
<1> HIDE DEF l, q
<1>7. /\ lines' \in [0 .. g.S - 1 -> Set(g.E)]
      /\ lines'[i] \in Set(g.E)
      /\ lines'[i][l] = [valid |-> TRUE, tag |-> k, used_time |-> clock']
      /\ \A m \in 1 .. g.E : m # l => lines'[i][m] = q[m]
      /\ \A j \in 0 .. g.S - 1 : j # i => lines'[j] = lines[j]
  <2> DEFINE entry == [valid |-> TRUE, tag |-> k, used_time |-> clock']
             q2 == [q EXCEPT ![l] = entry]
  <2>1. entry \in Line
    BY <1>1, <1>3 DEF Line
  <2>2. lines' = [lines EXCEPT ![i] = q2]
    BY <1>5 DEF q
  <2> HIDE DEF entry
  <2>3. q2 \in Set(g.E) /\ q2[l] = entry /\ \A m \in 1 .. g.E : m # l => q2[m] = q[m]
    BY <1>4, <1>6, <2>1 DEF Set
  <2> HIDE DEF q2
  <2> QED  BY <1>1, <1>3, <2>2, <2>3 DEF entry
<1> DEFINE q2 == lines'[i]
<1>8. /\ Distinct(q2)
      /\ found # {} <=> k \in DOMAIN UsedAt(q)
      /\ FreeLines(q) = {} <=> Cardinality(DOMAIN UsedAt(q)) = g.E
      /\ found # {} =>
            UsedAt(q2) = Cached!Placed(UsedAt(q), k, {}, clock')
      /\ found = {} /\ FreeLines(q) # {} =>
            UsedAt(q2) = Cached!Placed(UsedAt(q), k, {}, clock')
      /\ found = {} /\ FreeLines(q) = {} =>
            \E v \in Cached!Oldest(UsedAt(q)) :
               UsedAt(q2) = Cached!Placed(UsedAt(q), k, {v}, clock')
  <2>1. /\ q2 \in Set(g.E) /\ q2[Chosen(q, k)] = [valid |-> TRUE, tag |-> k, used_time |-> clock']
        /\ \A m \in 1 .. g.E : m # Chosen(q, k) => q2[m] = q[m]
    BY <1>7 DEF l
  <2> HIDE DEF q2
  <2> HIDE DEF found
  <2>2. /\ g.E \in Nat \ {0} /\ q \in Set(g.E) /\ Distinct(q) /\ k \in Nat
        /\ clock' \in Nat /\ q2 \in Set(g.E)
    BY <1>1, <1>3, <1>4, <2>1
  <2> QED  BY <2>1, <2>2, SetAccess, ZenonT(30) DEF found
<1>9. IInv'
  <2>1. counts' \in Counts
    BY <1>1, <1>5 DEF Counts
  <2>2. \A j \in 0 .. g.S - 1 : Distinct(lines'[j])
    BY <1>1, <1>7, <1>8
  <2> QED  BY <1>1, <1>7, <2>1, <2>2 DEF IInv
<1>10. /\ HeldNow[i] = UsedAt(q)
       /\ \A f : UsedAt(q2) = f => HeldNow' = [HeldNow EXCEPT ![i] = f]
  <2>1. HeldNow[i] = UsedAt(q)
    BY <1>3 DEF HeldNow, q
  <2>2. HeldNow' = [j \in 0 .. g.S - 1 |-> IF j = i THEN UsedAt(q2) ELSE HeldNow[j]]
    BY <1>1, <1>7 DEF HeldNow
  <2> QED  BY <2>1, <2>2 DEF HeldNow
<1>11. Cached!Extra(op) = x
  BY DEF Cached!Extra
<1> HIDE DEF q2, found, x
<1>12. CASE found # {}
  <2>1. HeldNow' = [HeldNow EXCEPT ![i] = Cached!Placed(@, k, {}, clock')]
    BY <1>8, <1>10, <1>12
  <2>2. counts' = [counts EXCEPT !.hit = @ + 1 + Cached!Extra(op)]
    BY <1>1, <1>5, <1>11, <1>12 DEF Counts, x
  <2>3. Cached!Hit(op, k, i)
    BY <1>1, <1>8, <1>10, <1>12, <2>1, <2>2 DEF Cached!Hit, HeldNow
  <2> QED  BY <1>1, <1>9, <2>3 DEF Cached!Access, k, i
<1>13. CASE found = {}
  <2> DEFINE full == Cardinality(DOMAIN HeldNow[i]) = g.E
  <2>1. full <=> FreeLines(q) = {}
    BY <1>8, <1>10
  <2>2. counts' = [hit |-> counts.hit + Cached!Extra(op), miss |-> counts.miss + 1,
                   eviction |-> counts.eviction + IF full THEN 1 ELSE 0]
    BY <1>1, <1>5, <1>11, <1>13, <2>1 DEF Counts, x
  <2>3. \E Gone \in IF full THEN {{m} : m \in Cached!Oldest(HeldNow[i])} ELSE {{}} :
           HeldNow' = [HeldNow EXCEPT ![i] = Cached!Placed(@, k, Gone, clock')]
    BY <1>8, <1>10, <1>13, <2>1
  <2>4. Cached!Miss(op, k, i)
    <3> HIDE DEF full
    <3>1. full <=> Cached!Cardinality(DOMAIN HeldNow[i]) = g.E
      BY SameCardinality DEF full
    <3>2. k \notin DOMAIN HeldNow[i]
      BY <1>8, <1>10, <1>13
    <3>3. /\ [j \in 0 .. g.S - 1 |-> IF fn = "any" THEN UsedAt(lines[j]) ELSE [m \in {} |-> 0]]
             = HeldNow
          /\ [j \in 0 .. g.S - 1 |-> IF fn = "any" THEN UsedAt(lines[j]) ELSE [m \in {} |-> 0]]'
             = HeldNow'
          /\ (IF fn = "any" THEN counts ELSE [hit |-> 0, miss |-> 0, eviction |-> 0]) = counts
          /\ (IF fn = "any" THEN counts ELSE [hit |-> 0, miss |-> 0, eviction |-> 0])' = counts'
      BY <1>1 DEF HeldNow
    <3> QED  BY <2>2, <2>3, <3>1, <3>2, <3>3, Zenon DEF Cached!Miss
  <2> QED  BY <1>1, <1>9, <2>4 DEF Cached!Access, k, i
<1> QED  BY <1>12, <1>13

\* Every step is an access of the promise, or none.
LEMMA StepRefines ==
    ASSUME IInv, [TransposeNext]_tvars
    PROVE  IInv' /\ [Cached!Access]_<<clock, g,
        [i \in 0 .. g.S - 1 |-> IF fn = "any" THEN UsedAt(lines[i]) ELSE [k \in {} |-> 0]],
        IF fn = "any" THEN counts ELSE [hit |-> 0, miss |-> 0, eviction |-> 0]>>
<1>1. CASE deal_with_file
  BY <1>1, AccessRefines
<1>2. CASE transpose_submit
  BY <1>2 DEF transpose_submit, IInv
<1>3. CASE UNCHANGED tvars
  BY <1>3 DEF tvars, cvars, IInv
<1> QED  BY <1>1, <1>2, <1>3 DEF TransposeNext

\* The simulator implements LRU: an access hits exactly when its block is
\* held, and what goes was not used later than anything else in its set
\* (find_line, find_store and deal_with_file of csim.c).
THEOREM SimulatorIsLru == TransposeSpec => ImplementsLru
BY InitIInv, InitRefines, StepRefines, PTL DEF TransposeSpec, ImplementsLru, Cached!Spec
-----------------------------------------------------------------------------
(* The contract of an allocator: for any number of blocks and any sizes    *)
(* the words of the blocks that the caller holds stay apart.               *)
CONSTANT Payloads
VARIABLE live
Promised == INSTANCE Heap WITH Addresses <- Payloads

Block == {Promised!None} \cup UNION {Promised!Given(i) : i \in Ids}

BlocksInv == live \in [Ids -> Block] /\ Promised!Disjoint

\* What is told of no payload has no words.
LEMMA NoneIsEmpty == Promised!Words(Promised!None) = {}
<1>1. DOMAIN Promised!None.data = {}
  BY DEF Promised!None
<1> QED  BY <1>1 DEF Promised!Words

\* The contract starts with no block, so with disjoint ones.
LEMMA InitBlocks == Promised!Init => BlocksInv
BY NoneIsEmpty DEF Promised!Init, BlocksInv, Block, Promised!Disjoint

\* Whatever block i becomes, the others are as before.
LEMMA Reassigned ==
    ASSUME BlocksInv, NEW i \in Ids, NEW b \in Block,
           live' = [live EXCEPT ![i] = b],
           \A j \in Ids \ {i} : Promised!Words(b) \cap Promised!Words(live[j]) = {}
    PROVE  BlocksInv'
<1>1. live' \in [Ids -> Block]
  BY DEF BlocksInv
<1>2. live'[i] = b /\ \A j \in Ids \ {i} : live'[j] = live[j]
  BY DEF BlocksInv
<1>3. ASSUME NEW j \in Ids, NEW k \in Ids, j # k
      PROVE  Promised!Words(live[j])' \cap Promised!Words(live[k])' = {}
  <2>1. /\ Promised!Words(live[i])' = Promised!Words(b)
        /\ \A o \in Ids \ {i} : Promised!Words(live[o])' = Promised!Words(live[o])
    BY <1>2 DEF Promised!Words
  <2> QED  BY <2>1, <1>3 DEF BlocksInv, Promised!Disjoint
<1> QED  BY <1>1, <1>3 DEF BlocksInv, Promised!Disjoint

\* Each step of the contract keeps live blocks disjoint.
LEMMA StepBlocks == BlocksInv /\ [Promised!Next]_live => BlocksInv'
<1> SUFFICES ASSUME BlocksInv, [Promised!Next]_live PROVE BlocksInv'
  OBVIOUS
<1>1. ASSUME NEW i \in Ids, Promised!Free(i) PROVE BlocksInv'
  BY <1>1, Reassigned, NoneIsEmpty DEF Promised!Free, Block
<1>2. ASSUME NEW i \in Ids, Promised!Give(i) PROVE BlocksInv'
  <2>1. live'[i] \in Block
    BY <1>2 DEF Promised!Give, Block
  <2> QED  BY <1>2, <2>1, Reassigned DEF Promised!Give
<1>3. CASE UNCHANGED live
  BY <1>3 DEF BlocksInv, Promised!Disjoint, Promised!Words
<1> QED  BY <1>1, <1>2, <1>3 DEF Promised!Next, Promised!Malloc, Promised!Realloc

\* No two blocks that the caller holds share a word: what add_range of
\* mdriver.c (351-399) checks after every malloc and realloc.
THEOREM BlocksApart == Promised!Spec => []Promised!Disjoint
<1>1. BlocksInv => Promised!Disjoint
  BY DEF BlocksInv
<1> QED  BY <1>1, InitBlocks, StepBlocks, PTL DEF Promised!Spec
-----------------------------------------------------------------------------
(* Tags, the states of mm.c, and how a heap lies in them.                  *)
State == [mem : [0 .. 2 * MAX_HEAP - 1 -> Words], brk : 0 .. MAX_HEAP, just : Int,
          fmalloc : BOOLEAN, TR : 0 .. 3, Q_no : Int]

TagOf == {PACK(z, al) : z \in 1 .. MAX_HEAP, al \in 0 .. 1}

\* L gives each block the tag in its header.  Every block ends where the next
\* one starts, or at the end of the heap.
Layout(L, brk) ==
    /\ DOMAIN L \subseteq 1 .. brk - 1 /\ L \in [DOMAIN L -> TagOf]
    /\ 1 \in DOMAIN L /\ L[1] = PACK(1, 1)
    /\ \A b \in DOMAIN L :
          /\ b + L[b].size \in DOMAIN L \cup {brk}
          /\ \A c \in DOMAIN L : c <= b \/ b + L[b].size <= c

\* Headers and footers are in memory, and the epilogue is.
Tagged(m, L, brk) ==
    /\ \A b \in DOMAIN L : m[2 * b - 1] = L[b] /\ m[2 * (b + L[b].size) - 2] = L[b]
    /\ m[2 * brk - 1] = PACK(0, 1)

Tiles(s, L) == s \in State /\ Layout(L, s.brk) /\ Tagged(s.mem, L, s.brk)

\* A packed tag gives back its size and its bit.
LEMMA Packed ==
    ASSUME NEW z, NEW al
    PROVE  PACK(z, al).kind = "tag" /\ PACK(z, al).size = z /\ PACK(z, al).alloc = al
BY DEF PACK

\* A packed tag is a word of the heap.
LEMMA PackedIsWord ==
    ASSUME NEW z \in 0 .. MAX_HEAP, NEW al \in 0 .. 1
    PROVE  PACK(z, al) \in Words
BY DEF Words

\* A tag of a layout is the packing of its own fields.
LEMMA OfTags ==
    ASSUME NEW x \in TagOf
    PROVE  /\ x.kind = "tag" /\ x.size \in 1 .. MAX_HEAP /\ x.alloc \in {0, 1}
           /\ x = PACK(x.size, x.alloc) /\ x \in Words
BY AllocatorAssumption, Packed, PackedIsWord DEF TagOf

\* So is any word of the heap that is a tag.
LEMMA KindTag ==
    ASSUME NEW x \in Words, x.kind = "tag"
    PROVE  /\ x.size \in 0 .. MAX_HEAP /\ x.alloc \in {0, 1}
           /\ x = PACK(x.size, x.alloc)
<1>1. Junk.kind = "junk"
  BY DEF Junk
<1>2. \A i \in Ids : Data(i).kind = "data"
  BY DEF Data
<1>3. x \in {PACK(size, alloc) : size \in 0 .. MAX_HEAP, alloc \in 0 .. 1}
  BY <1>1, <1>2 DEF Words
<1> QED  BY <1>3, Packed

\* An unwritten word is a word.
LEMMA JunkIsWord == Junk \in Words
BY DEF Words

\* t is s with the tags of a block of z double words at bp.
IsMarked(s, t, bp, z, al) ==
    /\ t \in State /\ t.brk = s.brk /\ t.just = s.just
    /\ t.fmalloc = s.fmalloc /\ t.TR = s.TR /\ t.Q_no = s.Q_no
    /\ t.mem[2 * bp - 1] = PACK(z, al) /\ t.mem[2 * (bp + z) - 2] = PACK(z, al)
    /\ \A w \in 0 .. 2 * MAX_HEAP - 1 :
          w < 2 * bp - 1 \/ 2 * (bp + z) - 2 < w => t.mem[w] = s.mem[w]
    /\ al = 1 => \A w \in 2 * bp .. 2 * (bp + z) - 3 : t.mem[w] = s.mem[w]

\* Writing a block's header and footer marks the block and nothing else.
LEMMA TagIs ==
    ASSUME NEW s \in State, NEW bp \in Nat, bp # 0, NEW z \in 1 .. MAX_HEAP, NEW al \in 0 .. 1,
           bp + z <= MAX_HEAP
    PROVE  IsMarked(s, Tag(s, bp, z, al), bp, z, al)
<1> DEFINE last == HDRP(bp) + 2 * z - 1
           mem == [w \in DOMAIN s.mem |->
                     IF w \in {HDRP(bp), last} THEN PACK(z, al)
                     ELSE IF al = 0 /\ HDRP(bp) < w /\ w < last THEN Junk
                     ELSE s.mem[w]]
<1>1. MAX_HEAP \in Nat /\ PACK(z, al) \in Words /\ Junk \in Words
  BY AllocatorAssumption, PackedIsWord, JunkIsWord
<1>2. DOMAIN s.mem = 0 .. 2 * MAX_HEAP - 1 /\ s.mem \in [0 .. 2 * MAX_HEAP - 1 -> Words]
  BY DEF State
<1>3. mem \in [0 .. 2 * MAX_HEAP - 1 -> Words]
  BY <1>1, <1>2
<1>4. Tag(s, bp, z, al) = [s EXCEPT !.mem = mem]
  BY DEF Tag
<1> HIDE DEF mem
<1>5. LET t == [s EXCEPT !.mem = mem]
      IN  /\ t \in State /\ t.brk = s.brk /\ t.just = s.just /\ t.mem = mem
          /\ t.fmalloc = s.fmalloc /\ t.TR = s.TR /\ t.Q_no = s.Q_no
  BY <1>3 DEF State
<1>6. HDRP(bp) = 2 * bp - 1 /\ last = 2 * (bp + z) - 2
  BY <1>1 DEF HDRP
<1>7. /\ 2 * bp - 1 \in 0 .. 2 * MAX_HEAP - 1 /\ 2 * (bp + z) - 2 \in 0 .. 2 * MAX_HEAP - 1
      /\ \A w \in 2 * bp .. 2 * (bp + z) - 3 : w \in 0 .. 2 * MAX_HEAP - 1
  BY <1>1
<1> HIDE DEF last
<1>8. /\ mem[2 * bp - 1] = PACK(z, al) /\ mem[2 * (bp + z) - 2] = PACK(z, al)
      /\ \A w \in 0 .. 2 * MAX_HEAP - 1 :
            w < 2 * bp - 1 \/ 2 * (bp + z) - 2 < w => mem[w] = s.mem[w]
      /\ al = 1 => \A w \in 2 * bp .. 2 * (bp + z) - 3 : mem[w] = s.mem[w]
  BY <1>1, <1>2, <1>6, <1>7 DEF mem
<1> QED  BY <1>4, <1>5, <1>8 DEF IsMarked
-----------------------------------------------------------------------------
(* Layouts: neighbours, and what becomes of them.                          *)
\* What is known of the blocks of a layout.
LEMMA Placed ==
    ASSUME NEW brk \in 0 .. MAX_HEAP, NEW L, Layout(L, brk), NEW b \in DOMAIN L
    PROVE  /\ b \in Nat /\ 1 <= b /\ b < brk /\ L[b] \in TagOf
           /\ L[b].size \in Nat /\ 1 <= L[b].size /\ b + L[b].size <= brk
           /\ L[b].alloc \in {0, 1} /\ L[b] = PACK(L[b].size, L[b].alloc)
           /\ b + L[b].size \in DOMAIN L \cup {brk}
           /\ \A c \in DOMAIN L : c <= b \/ b + L[b].size <= c
<1>1. L[b] \in TagOf /\ b \in 1 .. brk - 1
  BY DEF Layout
<1>2. b + L[b].size \in DOMAIN L \cup {brk} /\ DOMAIN L \subseteq 1 .. brk - 1
  BY DEF Layout
<1> QED  BY <1>1, <1>2, OfTags, AllocatorAssumption DEF Layout

\* A block has one before it.
LEMMA Neighbour ==
    ASSUME NEW brk \in 0 .. MAX_HEAP, NEW L, Layout(L, brk),
           NEW b \in DOMAIN L \cup {brk}, b # 1
    PROVE  \E p \in DOMAIN L : p + L[p].size = b
<1>1. MAX_HEAP \in Nat /\ DOMAIN L \subseteq 1 .. brk - 1 /\ 1 \in DOMAIN L /\ b \in Nat /\ b > 1
  BY AllocatorAssumption DEF Layout
<1> DEFINE S == {b - p : p \in {x \in DOMAIN L : x < b}}
<1>2. S \in SUBSET Nat /\ b - 1 \in S
  BY <1>1
<1>3. PICK d \in S : \A y \in S : d <= y
  BY <1>2, LeastNat
<1>4. PICK p \in DOMAIN L : p < b /\ d = b - p
  BY <1>3
<1>5. \A c \in DOMAIN L : c < b => c <= p
  <2> SUFFICES ASSUME NEW c \in DOMAIN L, c < b PROVE c <= p
    OBVIOUS
  <2>1. b - c \in S
    OBVIOUS
  <2> QED  BY <1>1, <1>3, <1>4, <2>1
<1> HIDE DEF S
<1>6. p + L[p].size \in DOMAIN L \cup {brk} /\ p + L[p].size > p /\ p + L[p].size <= brk
      /\ p \in Nat /\ L[p].size \in Nat /\ \A c \in DOMAIN L : c <= p \/ p + L[p].size <= c
  BY Placed
<1>7. ~(b < p + L[p].size)
  BY <1>1, <1>4, <1>6
<1>8. ~(p + L[p].size < b)
  BY <1>1, <1>5, <1>6
<1> QED  BY <1>1, <1>6, <1>7, <1>8

\* The layout with a block of k double words at bp, and a free block in the
\* rest of the tot double words that lay there.
Cut(L, bp, tot, k, al) ==
    [b \in {c \in DOMAIN L : c <= bp \/ bp + tot <= c} \cup {c \in {bp + k} : k < tot} |->
        IF b = bp THEN PACK(k, al) ELSE IF b = bp + k /\ k < tot THEN PACK(tot - k, 0) ELSE L[b]]

\* Where the blocks start after a piece of the heap is cut in two.
LEMMA CutIs ==
    ASSUME NEW brk \in 0 .. MAX_HEAP, NEW L, Layout(L, brk), NEW bp \in DOMAIN L,
           NEW tot \in Nat, bp + tot \in DOMAIN L \cup {brk},
           NEW k \in 1 .. tot, NEW al \in 0 .. 1
    PROVE  LET K == Cut(L, bp, tot, k, al)
           IN  /\ bp \in DOMAIN K /\ K[bp] = PACK(k, al) /\ K[bp].size = k /\ K[bp].alloc = al
               /\ k < tot => /\ bp + k \in DOMAIN K /\ K[bp + k] = PACK(tot - k, 0)
                             /\ K[bp + k].size = tot - k /\ K[bp + k].alloc = 0
               /\ \A b \in DOMAIN K : b = bp \/ (k < tot /\ b = bp + k)
                                      \/ (b \in DOMAIN L /\ (b < bp \/ bp + tot <= b) /\ K[b] = L[b])
               /\ \A b \in DOMAIN L : b < bp \/ bp + tot <= b => b \in DOMAIN K /\ K[b] = L[b]
<1>1. DOMAIN L \subseteq Nat /\ bp \in Nat /\ k \in Nat /\ k >= 1 /\ k <= tot
  BY AllocatorAssumption DEF Layout
<1>2. \A b \in {c \in DOMAIN L : c <= bp \/ bp + tot <= c} \cup {c \in {bp + k} : k < tot} :
         Cut(L, bp, tot, k, al)[b] =
           IF b = bp THEN PACK(k, al)
           ELSE IF b = bp + k /\ k < tot THEN PACK(tot - k, 0) ELSE L[b]
  BY DEF Cut
<1>3. DOMAIN Cut(L, bp, tot, k, al) =
        {c \in DOMAIN L : c <= bp \/ bp + tot <= c} \cup {c \in {bp + k} : k < tot}
  BY DEF Cut
<1> DEFINE K == Cut(L, bp, tot, k, al)
<1> HIDE DEF K
<1>4. bp \in DOMAIN K /\ K[bp] = PACK(k, al)
  BY <1>1, <1>2, <1>3 DEF K
<1>5. k < tot => bp + k \in DOMAIN K /\ K[bp + k] = PACK(tot - k, 0)
  BY <1>1, <1>2, <1>3 DEF K
<1>6. \A b \in DOMAIN K : b = bp \/ (k < tot /\ b = bp + k)
                          \/ (b \in DOMAIN L /\ (b < bp \/ bp + tot <= b) /\ K[b] = L[b])
  BY <1>1, <1>2, <1>3 DEF K
<1>7. \A b \in DOMAIN L : b < bp \/ bp + tot <= b => b \in DOMAIN K /\ K[b] = L[b]
  <2> SUFFICES ASSUME NEW b \in DOMAIN L, b < bp \/ bp + tot <= b
               PROVE  b \in DOMAIN K /\ K[b] = L[b]
    OBVIOUS
  <2>1. b \in Nat /\ b # bp /\ ~(b = bp + k /\ k < tot)
    BY <1>1
  <2> QED  BY <1>1, <1>2, <1>3, <2>1 DEF K
<1> QED  BY <1>4, <1>5, <1>6, <1>7, Packed DEF K

\* A cut layout still tiles the heap.
LEMMA CutLayout ==
    ASSUME NEW brk \in 0 .. MAX_HEAP, NEW L, Layout(L, brk), NEW bp \in DOMAIN L, bp # 1,
           NEW tot \in Nat, bp + tot \in DOMAIN L \cup {brk},
           NEW k \in 1 .. tot, NEW al \in 0 .. 1
    PROVE  Layout(Cut(L, bp, tot, k, al), brk)
<1> DEFINE K == Cut(L, bp, tot, k, al)
<1> HIDE DEF K
<1>1. /\ MAX_HEAP \in Nat /\ brk \in Nat /\ brk <= MAX_HEAP
      /\ DOMAIN L \subseteq 1 .. brk - 1 /\ 1 \in DOMAIN L /\ L[1] = PACK(1, 1)
      /\ bp \in Nat /\ k \in Nat /\ k >= 1 /\ k <= tot /\ bp + tot <= brk
  BY AllocatorAssumption DEF Layout
<1>2. /\ bp \in DOMAIN K /\ K[bp] = PACK(k, al) /\ K[bp].size = k /\ K[bp].alloc = al
      /\ k < tot => /\ bp + k \in DOMAIN K /\ K[bp + k] = PACK(tot - k, 0)
                    /\ K[bp + k].size = tot - k /\ K[bp + k].alloc = 0
      /\ \A b \in DOMAIN K : b = bp \/ (k < tot /\ b = bp + k)
                             \/ (b \in DOMAIN L /\ (b < bp \/ bp + tot <= b) /\ K[b] = L[b])
      /\ \A b \in DOMAIN L : b < bp \/ bp + tot <= b => b \in DOMAIN K /\ K[b] = L[b]
  BY CutIs DEF K
<1>3. K \in [DOMAIN K -> TagOf]
  <2>1. K = [b \in DOMAIN K |-> K[b]]
    BY DEF K, Cut
  <2>2. ASSUME NEW b \in DOMAIN K PROVE K[b] \in TagOf
    <3>1. PACK(k, al) \in TagOf /\ (k < tot => PACK(tot - k, 0) \in TagOf)
      BY <1>1 DEF TagOf
    <3> QED  BY <1>2, <3>1, Placed
  <2> QED  BY <2>1, <2>2
<1>4. DOMAIN K \subseteq 1 .. brk - 1
  BY <1>1, <1>2
<1>5. 1 \in DOMAIN K /\ K[1] = PACK(1, 1)
  BY <1>1, <1>2
<1>6. \A c \in DOMAIN L : c <= bp \/ bp + tot <= c \/ (bp < c /\ c < bp + tot)
  BY <1>1
<1>7. ASSUME NEW b \in DOMAIN K
      PROVE  /\ b + K[b].size \in DOMAIN K \cup {brk}
             /\ \A c \in DOMAIN K : c <= b \/ b + K[b].size <= c
  <2>1. CASE b = bp
    <3>1. CASE k < tot
      BY <1>1, <1>2, <2>1, <3>1
    <3>2. CASE k = tot
      BY <1>1, <1>2, <2>1, <3>2
    <3> QED  BY <1>1, <3>1, <3>2
  <2>2. CASE k < tot /\ b = bp + k
    <3>1. b + K[b].size = bp + tot
      BY <1>1, <1>2, <2>2
    <3>2. ASSUME NEW c \in DOMAIN K PROVE c <= b \/ bp + tot <= c
      BY <1>1, <1>2, <1>4, <2>2
    <3> QED  BY <1>1, <1>2, <3>1, <3>2
  <2>3. CASE b \in DOMAIN L /\ (b < bp \/ bp + tot <= b) /\ K[b] = L[b]
    <3>1. /\ b \in Nat /\ L[b].size \in Nat /\ 1 <= L[b].size
          /\ b + L[b].size \in DOMAIN L \cup {brk}
          /\ \A c \in DOMAIN L : c <= b \/ b + L[b].size <= c
      BY <2>3, Placed
    <3>2. CASE b < bp
      <4>1. b + L[b].size <= bp
        BY <1>1, <3>1, <3>2
      <4>2. b + L[b].size \in DOMAIN L
        BY <1>1, <3>1, <4>1
      <4>3. b + L[b].size \in DOMAIN K
        BY <1>1, <1>2, <3>1, <4>1, <4>2
      <4>4. ASSUME NEW c \in DOMAIN K PROVE c <= b \/ b + L[b].size <= c
        BY <1>1, <1>2, <1>4, <3>1, <4>1
      <4> QED  BY <2>3, <4>3, <4>4
    <3>3. CASE bp + tot <= b
      <4>1. b + L[b].size \in DOMAIN K \cup {brk}
        BY <1>1, <1>2, <3>1, <3>3
      <4>2. ASSUME NEW c \in DOMAIN K PROVE c <= b \/ b + L[b].size <= c
        BY <1>1, <1>2, <1>4, <3>1, <3>3
      <4> QED  BY <2>3, <4>1, <4>2
    <3> QED  BY <2>3, <3>2, <3>3
  <2> QED  BY <1>2, <2>1, <2>2, <2>3
<1>8. Layout(K, brk)
  BY <1>3, <1>4, <1>5, <1>7 DEF Layout
<1> QED  BY <1>8 DEF K

\* The memory has the new tags, and is as before outside these blocks.
LEMMA CutTagged ==
    ASSUME NEW brk \in 0 .. MAX_HEAP, NEW L, Layout(L, brk), NEW bp \in DOMAIN L, bp # 1,
           NEW tot \in Nat, bp + tot \in DOMAIN L \cup {brk},
           NEW k \in 1 .. tot, NEW al \in 0 .. 1,
           NEW m, NEW t, Tagged(m, L, brk),
           \A w \in 0 .. 2 * MAX_HEAP - 1 :
              w < 2 * bp - 1 \/ 2 * (bp + tot) - 2 < w => t[w] = m[w],
           t[2 * bp - 1] = PACK(k, al), t[2 * (bp + k) - 2] = PACK(k, al),
           k < tot => /\ t[2 * (bp + k) - 1] = PACK(tot - k, 0)
                      /\ t[2 * (bp + tot) - 2] = PACK(tot - k, 0)
    PROVE  Tagged(t, Cut(L, bp, tot, k, al), brk)
<1> DEFINE K == Cut(L, bp, tot, k, al)
<1> HIDE DEF K
<1>1. /\ MAX_HEAP \in Nat /\ brk \in Nat /\ brk <= MAX_HEAP
      /\ bp \in Nat /\ bp >= 1 /\ k \in Nat /\ k >= 1 /\ k <= tot /\ bp + tot <= brk
  BY AllocatorAssumption DEF Layout
<1>2. /\ bp \in DOMAIN K /\ K[bp] = PACK(k, al) /\ K[bp].size = k
      /\ k < tot => bp + k \in DOMAIN K /\ K[bp + k] = PACK(tot - k, 0) /\ K[bp + k].size = tot - k
      /\ \A b \in DOMAIN K : b = bp \/ (k < tot /\ b = bp + k)
                             \/ (b \in DOMAIN L /\ (b < bp \/ bp + tot <= b) /\ K[b] = L[b])
  BY CutIs DEF K
<1>3. ASSUME NEW b \in DOMAIN K
      PROVE  t[2 * b - 1] = K[b] /\ t[2 * (b + K[b].size) - 2] = K[b]
  <2>1. CASE b = bp
    BY <1>2, <2>1
  <2>2. CASE k < tot /\ b = bp + k
    <3>1. b + K[b].size = bp + tot
      BY <1>1, <1>2, <2>2
    <3> QED  BY <1>2, <2>2, <3>1
  <2>3. CASE b \in DOMAIN L /\ (b < bp \/ bp + tot <= b) /\ K[b] = L[b]
    <3>1. /\ b \in Nat /\ b >= 1 /\ L[b].size \in Nat /\ 1 <= L[b].size /\ b + L[b].size <= brk
          /\ \A c \in DOMAIN L : c <= b \/ b + L[b].size <= c
      BY <2>3, Placed
    <3>2. m[2 * b - 1] = L[b] /\ m[2 * (b + L[b].size) - 2] = L[b]
      BY <2>3 DEF Tagged
    <3>3. b < bp => b + L[b].size <= bp
      BY <1>1, <3>1
    <3>4. /\ 2 * b - 1 \in 0 .. 2 * MAX_HEAP - 1 /\ 2 * (b + L[b].size) - 2 \in 0 .. 2 * MAX_HEAP - 1
          /\ 2 * b - 1 < 2 * bp - 1 \/ 2 * (bp + tot) - 2 < 2 * b - 1
          /\ 2 * (b + L[b].size) - 2 < 2 * bp - 1 \/ 2 * (bp + tot) - 2 < 2 * (b + L[b].size) - 2
      BY <1>1, <2>3, <3>1, <3>3
    <3> QED  BY <2>3, <3>2, <3>4
  <2> QED  BY <1>2, <2>1, <2>2, <2>3
<1>4. t[2 * brk - 1] = PACK(0, 1)
  <2>1. m[2 * brk - 1] = PACK(0, 1)
    BY DEF Tagged
  <2>2. 2 * brk - 1 \in 0 .. 2 * MAX_HEAP - 1 /\ 2 * (bp + tot) - 2 < 2 * brk - 1
    BY <1>1
  <2> QED  BY <2>1, <2>2
<1> QED  BY <1>3, <1>4 DEF Tagged, K
-----------------------------------------------------------------------------
(* What the macros read, and what two tags in a row make of a heap.        *)
LEMMA Headers ==
    ASSUME NEW s, NEW L, Tiles(s, L), NEW b \in DOMAIN L
    PROVE  /\ HDRP(b) = 2 * b - 1 /\ IsTag(s.mem, HDRP(b))
           /\ GET_SIZE(s.mem, HDRP(b)) = L[b].size /\ GET_ALLOC(s.mem, HDRP(b)) = L[b].alloc
           /\ FTRP(s.mem, b) = 2 * (b + L[b].size) - 2
           /\ GET_SIZE(s.mem, FTRP(s.mem, b)) = L[b].size
           /\ GET_ALLOC(s.mem, FTRP(s.mem, b)) = L[b].alloc
           /\ NEXT_BLKP(s.mem, b) = b + L[b].size
<1>1. s.mem[2 * b - 1] = L[b] /\ s.mem[2 * (b + L[b].size) - 2] = L[b]
  BY DEF Tiles, Tagged
<1>2. HDRP(b) = 2 * b - 1
  BY DEF HDRP
<1>3. GET_SIZE(s.mem, HDRP(b)) = L[b].size /\ GET_ALLOC(s.mem, HDRP(b)) = L[b].alloc
  BY <1>1, <1>2 DEF GET_SIZE, GET_ALLOC
<1>4. FTRP(s.mem, b) = 2 * (b + L[b].size) - 2 /\ NEXT_BLKP(s.mem, b) = b + L[b].size
  BY <1>3 DEF FTRP, NEXT_BLKP
<1>5. IsTag(s.mem, HDRP(b))
  <2>1. s.brk \in 0 .. MAX_HEAP /\ DOMAIN s.mem = 0 .. 2 * MAX_HEAP - 1
    BY DEF Tiles, State
  <2>2. b \in Nat /\ 1 <= b /\ b < s.brk /\ L[b] \in TagOf
    BY <2>1, Placed DEF Tiles
  <2>3. HDRP(b) \in DOMAIN s.mem
    BY <1>2, <2>1, <2>2, AllocatorAssumption
  <2> QED  BY <1>1, <1>2, <2>2, <2>3, OfTags DEF IsTag
<1> QED  BY <1>1, <1>2, <1>3, <1>4, <1>5 DEF GET_SIZE, GET_ALLOC

\* The epilogue is the allocated tag of size 0 below the break.
LEMMA Epilogue ==
    ASSUME NEW s, NEW L, Tiles(s, L)
    PROVE  /\ HDRP(s.brk) = 2 * s.brk - 1 /\ IsTag(s.mem, HDRP(s.brk))
           /\ GET_SIZE(s.mem, HDRP(s.brk)) = 0 /\ GET_ALLOC(s.mem, HDRP(s.brk)) = 1
<1>1. s.mem[2 * s.brk - 1] = PACK(0, 1) /\ HDRP(s.brk) = 2 * s.brk - 1
  BY DEF Tiles, Tagged, HDRP
<1>2. s.brk \in 0 .. MAX_HEAP /\ DOMAIN s.mem = 0 .. 2 * MAX_HEAP - 1 /\ s.brk > 1
  BY AllocatorAssumption DEF Tiles, State, Layout
<1>3. 2 * s.brk - 1 \in DOMAIN s.mem
  BY <1>2, AllocatorAssumption
<1> QED  BY <1>1, <1>3, Packed DEF GET_SIZE, GET_ALLOC, IsTag

\* PREV_BLKP, through the footer, finds the block that ends here.
LEMMA Previous ==
    ASSUME NEW s, NEW L, Tiles(s, L), NEW b \in DOMAIN L \cup {s.brk},
           NEW p \in DOMAIN L, p + L[p].size = b
    PROVE  PREV_BLKP(s.mem, b) = p
<1>1. s.mem[2 * b - 2] = L[p] /\ p \in Nat /\ L[p].size \in Nat /\ b = p + L[p].size
  BY Placed DEF Tiles, Tagged, State
<1>2. HDRP(b) - 1 = 2 * b - 2
  BY <1>1 DEF HDRP
<1> QED  BY <1>1, <1>2 DEF PREV_BLKP, GET_SIZE

\* The allocated blocks of L that are not in X are still there, with what is
\* in them; and K has no other ones than Y.
Kept(s, L, t, K, X) ==
    \A b \in DOMAIN L : L[b].alloc = 1 /\ b \notin X =>
        /\ b \in DOMAIN K /\ K[b] = L[b]
        /\ \A w \in 2 * b .. 2 * (b + L[b].size) - 3 : t.mem[w] = s.mem[w]
Only(L, K, Y) ==
    \A b \in DOMAIN K : K[b].alloc = 1 /\ b \notin Y => b \in DOMAIN L /\ L[b].alloc = 1

\* What is not in memory.
Same(s, t) == t.fmalloc = s.fmalloc /\ t.TR = s.TR /\ t.Q_no = s.Q_no

\* tot double words at bp become a block of k and a free one; c is the heap
\* with something copied within them.
Parted(c, bp, tot, k, al) ==
    IF tot - k > 0 THEN Tag(Tag(c, bp, k, al), bp + k, tot - k, 0) ELSE Tag(c, bp, k, al)

\* The words around these tot double words are the same.
Outside(s, c, bp, tot) ==
    \A w \in 0 .. 2 * MAX_HEAP - 1 :
       w < 2 * bp - 1 \/ 2 * (bp + tot) - 2 < w => c.mem[w] = s.mem[w]

\* The heap t has layout K: the tot double words at bp, in c, were parted.
IsParted(s, L, c, t, K, bp, tot, k, al) ==
    /\ Tiles(t, K) /\ t.brk = s.brk /\ t.just = c.just /\ Same(c, t)
    /\ Kept(s, L, t, K, bp .. bp + tot - 1)
    /\ Only(L, K, IF al = 1 THEN {bp} ELSE {})
    /\ al = 1 => \A w \in 2 * bp .. 2 * (bp + k) - 3 : t.mem[w] = c.mem[w]

\* Writing the tags of a piece's parts gives the heap of the cut layout.
LEMMA Parts ==
    ASSUME NEW s, NEW L, Tiles(s, L), NEW bp \in DOMAIN L, bp # 1,
           NEW tot \in Nat, bp + tot \in DOMAIN L \cup {s.brk},
           NEW k \in 1 .. tot, NEW al \in 0 .. 1,
           NEW c \in State, c.brk = s.brk, Outside(s, c, bp, tot)
    PROVE  IsParted(s, L, c, Parted(c, bp, tot, k, al), Cut(L, bp, tot, k, al),
                    bp, tot, k, al)
<1> DEFINE t == Parted(c, bp, tot, k, al)
           K == Cut(L, bp, tot, k, al)
           u == Tag(c, bp, k, al)
<1>1. /\ MAX_HEAP \in Nat /\ s.brk \in Nat /\ s.brk <= MAX_HEAP /\ Layout(L, s.brk)
      /\ Tagged(s.mem, L, s.brk) /\ s.brk \in 0 .. MAX_HEAP
      /\ bp \in Nat /\ bp > 1 /\ k \in Nat /\ k >= 1 /\ k <= tot /\ bp + tot <= s.brk
  <2>1. /\ MAX_HEAP \in Nat /\ Layout(L, s.brk) /\ Tagged(s.mem, L, s.brk)
        /\ s.brk \in 0 .. MAX_HEAP
    BY AllocatorAssumption DEF Tiles, State
  <2>2. DOMAIN L \subseteq 1 .. s.brk - 1
    BY <2>1 DEF Layout
  <2> QED  BY <2>1, <2>2
<1>2. k \in 1 .. MAX_HEAP /\ bp + k <= MAX_HEAP /\ bp \in Nat \ {0}
  BY <1>1
<1>3. /\ u \in State /\ u.brk = c.brk /\ u.just = c.just /\ Same(c, u)
      /\ u.mem[2 * bp - 1] = PACK(k, al) /\ u.mem[2 * (bp + k) - 2] = PACK(k, al)
      /\ \A w \in 0 .. 2 * MAX_HEAP - 1 :
            w < 2 * bp - 1 \/ 2 * (bp + k) - 2 < w => u.mem[w] = c.mem[w]
      /\ al = 1 => \A w \in 2 * bp .. 2 * (bp + k) - 3 : u.mem[w] = c.mem[w]
  <2>1. /\ u \in State /\ u.brk = c.brk /\ u.just = c.just
        /\ u.fmalloc = c.fmalloc /\ u.TR = c.TR /\ u.Q_no = c.Q_no
        /\ u.mem[2 * bp - 1] = PACK(k, al) /\ u.mem[2 * (bp + k) - 2] = PACK(k, al)
        /\ \A w \in 0 .. 2 * MAX_HEAP - 1 :
              w < 2 * bp - 1 \/ 2 * (bp + k) - 2 < w => u.mem[w] = c.mem[w]
        /\ al = 1 => \A w \in 2 * bp .. 2 * (bp + k) - 3 : u.mem[w] = c.mem[w]
    <3>1. IsMarked(c, u, bp, k, al)
      BY <1>2, TagIs
    <3> QED  BY <3>1 DEF IsMarked
  <2> QED  BY <2>1 DEF Same
<1> HIDE DEF u
<1>4. /\ t \in State /\ t.brk = c.brk /\ t.just = c.just /\ Same(c, t)
      /\ t.mem[2 * bp - 1] = PACK(k, al) /\ t.mem[2 * (bp + k) - 2] = PACK(k, al)
      /\ \A w \in 0 .. 2 * MAX_HEAP - 1 :
            w < 2 * bp - 1 \/ 2 * (bp + tot) - 2 < w => t.mem[w] = c.mem[w]
      /\ al = 1 => \A w \in 2 * bp .. 2 * (bp + k) - 3 : t.mem[w] = c.mem[w]
      /\ k < tot => /\ t.mem[2 * (bp + k) - 1] = PACK(tot - k, 0)
                    /\ t.mem[2 * (bp + tot) - 2] = PACK(tot - k, 0)
  <2>1. CASE tot - k > 0
    <3>1. t = Tag(u, bp + k, tot - k, 0)
      BY <2>1 DEF Parted, u
    <3>2. /\ tot - k \in 1 .. MAX_HEAP /\ (bp + k) + (tot - k) = bp + tot
          /\ bp + k \in Nat \ {0} /\ 0 \in 0 .. 1 /\ bp + tot <= MAX_HEAP
      BY <1>1, <2>1
    <3> HIDE DEF t
    <3>3. /\ t \in State /\ t.brk = u.brk /\ t.just = u.just /\ Same(u, t)
          /\ t.mem[2 * (bp + k) - 1] = PACK(tot - k, 0)
          /\ t.mem[2 * (bp + tot) - 2] = PACK(tot - k, 0)
          /\ \A w \in 0 .. 2 * MAX_HEAP - 1 :
                w < 2 * (bp + k) - 1 \/ 2 * (bp + tot) - 2 < w => t.mem[w] = u.mem[w]
      <4> DEFINE q == bp + k
                 z == tot - k
      <4>1. u \in State /\ q \in Nat \ {0} /\ z \in 1 .. MAX_HEAP /\ q + z = bp + tot
            /\ q + z <= MAX_HEAP /\ 0 \in 0 .. 1 /\ t = Tag(u, q, z, 0)
        BY <1>3, <3>1, <3>2
      <4> HIDE DEF q, z
      <4>2. /\ t \in State /\ t.brk = u.brk /\ t.just = u.just
            /\ t.fmalloc = u.fmalloc /\ t.TR = u.TR /\ t.Q_no = u.Q_no
            /\ t.mem[2 * q - 1] = PACK(z, 0) /\ t.mem[2 * (q + z) - 2] = PACK(z, 0)
            /\ \A w \in 0 .. 2 * MAX_HEAP - 1 :
                  w < 2 * q - 1 \/ 2 * (q + z) - 2 < w => t.mem[w] = u.mem[w]
        <5>1. IsMarked(u, t, q, z, 0)
          BY <4>1, TagIs
        <5> QED  BY <5>1 DEF IsMarked
      <4> QED  BY <4>1, <4>2 DEF q, z, Same
    <3>4. /\ 2 * bp - 1 \in 0 .. 2 * MAX_HEAP - 1 /\ 2 * (bp + k) - 2 \in 0 .. 2 * MAX_HEAP - 1
          /\ 2 * bp - 1 < 2 * (bp + k) - 1
          /\ \A w \in 2 * bp .. 2 * (bp + k) - 3 : w \in 0 .. 2 * MAX_HEAP - 1
                                                   /\ w < 2 * (bp + k) - 1
      BY <1>1, <1>2
    <3>5. t.mem[2 * bp - 1] = PACK(k, al) /\ t.mem[2 * (bp + k) - 2] = PACK(k, al)
      BY <1>3, <3>3, <3>4, <1>1
    <3>6. al = 1 => \A w \in 2 * bp .. 2 * (bp + k) - 3 : t.mem[w] = c.mem[w]
      BY <1>3, <3>3, <3>4
    <3>7. ASSUME NEW w \in 0 .. 2 * MAX_HEAP - 1, w < 2 * bp - 1 \/ 2 * (bp + tot) - 2 < w
          PROVE  t.mem[w] = c.mem[w]
      BY <1>1, <1>3, <3>3, <3>7, <2>1
    <3> QED  BY <1>3, <3>3, <3>5, <3>6, <3>7 DEF Same
  <2>2. CASE ~(tot - k > 0)
    <3>1. t = u /\ k = tot
      BY <1>1, <2>2 DEF Parted, u
    <3> QED  BY <1>3, <3>1
  <2> QED  BY <2>1, <2>2
<1> HIDE DEF t
<1>5. \A w \in 0 .. 2 * MAX_HEAP - 1 :
         w < 2 * bp - 1 \/ 2 * (bp + tot) - 2 < w => t.mem[w] = s.mem[w]
  BY <1>4 DEF Outside
<1>6. Layout(K, s.brk)
  BY <1>1, CutLayout
<1>7. Tagged(t.mem, K, s.brk)
  BY <1>1, <1>4, <1>5, CutTagged
<1>8. /\ \A b \in DOMAIN K : b = bp \/ (k < tot /\ b = bp + k)
                             \/ (b \in DOMAIN L /\ (b < bp \/ bp + tot <= b) /\ K[b] = L[b])
      /\ \A b \in DOMAIN L : b < bp \/ bp + tot <= b => b \in DOMAIN K /\ K[b] = L[b]
      /\ K[bp].alloc = al /\ (k < tot => K[bp + k].alloc = 0)
  BY <1>1, CutIs
<1> HIDE DEF K
<1>9. Kept(s, L, t, K, bp .. bp + tot - 1)
  <2> SUFFICES ASSUME NEW b \in DOMAIN L, b \notin bp .. bp + tot - 1
               PROVE  /\ b \in DOMAIN K /\ K[b] = L[b]
                      /\ \A w \in 2 * b .. 2 * (b + L[b].size) - 3 : t.mem[w] = s.mem[w]
    BY DEF Kept
  <2>1. /\ b \in Nat /\ 1 <= b /\ L[b].size \in Nat /\ b + L[b].size <= s.brk
        /\ \A x \in DOMAIN L : x <= b \/ b + L[b].size <= x
    BY <1>1, Placed
  <2>2. b < bp \/ bp + tot <= b
    BY <1>1, <2>1
  <2>3. b < bp => b + L[b].size <= bp
    BY <1>1, <2>1
  <2>4. ASSUME NEW w \in 2 * b .. 2 * (b + L[b].size) - 3
        PROVE  w \in 0 .. 2 * MAX_HEAP - 1 /\ (w < 2 * bp - 1 \/ 2 * (bp + tot) - 2 < w)
    BY <1>1, <2>1, <2>2, <2>3
  <2> QED  BY <1>5, <1>8, <2>2, <2>4
<1>10. Only(L, K, IF al = 1 THEN {bp} ELSE {})
  BY <1>8 DEF Only
<1>11. IsParted(s, L, c, t, K, bp, tot, k, al)
  BY <1>4, <1>6, <1>7, <1>9, <1>10 DEF Tiles, IsParted
<1> QED  BY <1>11 DEF t, K

\* Nothing was copied.
LEMMA Marks ==
    ASSUME NEW s, NEW L, Tiles(s, L), NEW bp \in DOMAIN L, bp # 1,
           NEW tot \in Nat, bp + tot \in DOMAIN L \cup {s.brk},
           NEW k \in 1 .. tot, NEW al \in 0 .. 1
    PROVE  IsParted(s, L, s, Parted(s, bp, tot, k, al), Cut(L, bp, tot, k, al),
                    bp, tot, k, al)
<1>1. s \in State
  BY DEF Tiles
<1>2. Outside(s, s, bp, tot)
  BY DEF Outside
<1> QED  BY <1>1, <1>2, Parts
-----------------------------------------------------------------------------
(* Freeing and merging.                                                    *)
\* No two neighbours are free, but for those that bp is one of.
MergedBut(L, X) ==
    \A b \in DOMAIN L : b + L[b].size \in DOMAIN L /\ b \notin X /\ b + L[b].size \notin X =>
        L[b].alloc = 1 \/ L[b + L[b].size].alloc = 1

InHeap(s) == s.just \in 1 .. s.brk - 1
Good(s, L) == Tiles(s, L) /\ MergedBut(L, {}) /\ InHeap(s)

\* What the recent position is good for does not get worse.
Steady(s, L, t, K) == s.just \in DOMAIN L => t.just \in DOMAIN K

\* Moving the recent position leaves the tiling alone.
LEMMA JustSet ==
    ASSUME NEW s, NEW L, Tiles(s, L), NEW j \in Int
    PROVE  LET t == [s EXCEPT !.just = j]
           IN  Tiles(t, L) /\ t.brk = s.brk /\ t.just = j /\ t.mem = s.mem /\ Same(s, t)
<1>1. LET t == [s EXCEPT !.just = j]
      IN  t \in State /\ t.brk = s.brk /\ t.just = j /\ t.mem = s.mem
          /\ t.fmalloc = s.fmalloc /\ t.TR = s.TR /\ t.Q_no = s.Q_no
  BY DEF Tiles, State
<1> QED  BY <1>1 DEF Tiles, Same

\* Only one block ends where another starts.
LEMMA OneBefore ==
    ASSUME NEW s, NEW L, Tiles(s, L), NEW p \in DOMAIN L, NEW q \in DOMAIN L,
           p + L[p].size = q + L[q].size
    PROVE  p = q
<1>1. /\ p \in Nat /\ q \in Nat /\ L[p].size \in Nat \ {0} /\ L[q].size \in Nat \ {0}
      /\ q <= p \/ p + L[p].size <= q
      /\ p <= q \/ q + L[q].size <= p
  BY Placed DEF Tiles, State
<1> QED  BY <1>1

\* coalesce, at a free block whose only free neighbours touch it: the four cases
\* leave one free block there, no two free blocks adjacent, and every payload as it was.
LEMMA Coalesced ==
    ASSUME NEW s, NEW L, Tiles(s, L), InHeap(s), NEW bp \in DOMAIN L, L[bp].alloc = 0,
           MergedBut(L, {bp})
    PROVE  LET r == coalesce(s, bp)
           IN  \E K : /\ Good(r.h, K) /\ r.h.brk = s.brk /\ Same(s, r.h)
                      /\ Kept(s, L, r.h, K, {}) /\ Only(L, K, {})
                      /\ Steady(s, L, r.h, K)
                      /\ r.bp \in DOMAIN K /\ K[r.bp].alloc = 0 /\ r.bp <= bp
                      /\ bp + L[bp].size <= r.bp + K[r.bp].size
                      /\ \A p \in DOMAIN L :
                            p + L[p].size = bp /\ L[p].alloc = 0 => r.bp <= p
<1>1. /\ s \in State /\ Layout(L, s.brk) /\ Tagged(s.mem, L, s.brk)
      /\ s.brk \in 0 .. MAX_HEAP /\ MAX_HEAP \in Nat /\ s.brk \in Nat
  BY AllocatorAssumption DEF Tiles, State
<1>2. bp # 1 /\ L[1].alloc = 1 /\ 1 \in DOMAIN L
  BY <1>1, Packed DEF Layout
<1>3. PICK p \in DOMAIN L : p + L[p].size = bp
  BY <1>1, <1>2, Neighbour
<1> DEFINE nx == bp + L[bp].size
           na == IF nx = s.brk THEN 1 ELSE L[nx].alloc
           pa == L[p].alloc
<1>4. /\ bp \in Nat /\ L[bp].size \in Nat /\ 1 <= L[bp].size /\ nx <= s.brk
      /\ nx \in DOMAIN L \cup {s.brk} /\ p \in Nat /\ 1 <= p /\ L[p].size \in Nat /\ 1 <= L[p].size
      /\ pa \in {0, 1} /\ s.brk \notin DOMAIN L
      /\ \A c \in DOMAIN L : c <= bp \/ nx <= c
      /\ \A c \in DOMAIN L : c <= p \/ bp <= c
  BY <1>1, <1>3, Placed
<1>5. nx # s.brk => /\ nx \in DOMAIN L /\ nx \in Nat /\ L[nx].size \in Nat /\ 1 <= L[nx].size
                    /\ nx + L[nx].size <= s.brk /\ nx + L[nx].size \in DOMAIN L \cup {s.brk}
                    /\ L[nx].alloc \in {0, 1}
                    /\ \A c \in DOMAIN L : c <= nx \/ nx + L[nx].size <= c
  <2>1. nx # s.brk => nx \in DOMAIN L
    BY <1>4
  <2> HIDE DEF nx
  <2> QED  BY <1>1, <2>1, Placed
<1> DEFINE first == IF pa = 1 THEN bp ELSE p
           tot == L[bp].size + (IF pa = 1 THEN 0 ELSE L[p].size)
                  + (IF na = 1 THEN 0 ELSE L[nx].size)
           t == Tag(s, first, tot, 0)
           r == coalesce(s, bp)
<1>6. r = IF pa = 1 /\ na = 1 THEN Ret(s, bp) ELSE Ret(Settle(t, first, tot), first)
  <2>1. /\ PREV_BLKP(s.mem, bp) = p /\ GET_ALLOC(s.mem, FTRP(s.mem, p)) = pa
        /\ GET_SIZE(s.mem, HDRP(p)) = L[p].size
    BY <1>3, Previous, Headers
  <2>2. NEXT_BLKP(s.mem, bp) = nx /\ GET_SIZE(s.mem, HDRP(bp)) = L[bp].size
    BY Headers
  <2>3. GET_ALLOC(s.mem, HDRP(nx)) = na
    <3>1. CASE nx = s.brk
      BY <3>1, Epilogue
    <3>2. CASE nx # s.brk
      <4>1. nx \in DOMAIN L /\ na = L[nx].alloc
        BY <1>5, <3>2
      <4> HIDE DEF nx, na
      <4> QED  BY <4>1, Headers
    <3> QED  BY <3>1, <3>2
  <2>4. na # 1 => GET_SIZE(s.mem, HDRP(nx)) = L[nx].size
    <3>1. na # 1 => nx \in DOMAIN L
      BY <1>5
    <3> HIDE DEF nx, na
    <3> QED  BY <3>1, Headers
  <2> HIDE DEF nx, na, pa
  <2> QED  BY <2>1, <2>2, <2>3, <2>4 DEF coalesce, first, tot, t, r
<1> HIDE DEF r
<1>7. CASE pa = 1 /\ na = 1
  <2>1. r.h = s /\ r.bp = bp
    BY <1>6, <1>7 DEF Ret
  <2>2. MergedBut(L, {})
    <3> SUFFICES ASSUME NEW b \in DOMAIN L, b + L[b].size \in DOMAIN L
                 PROVE  L[b].alloc = 1 \/ L[b + L[b].size].alloc = 1
      BY DEF MergedBut
    <3>1. CASE b = bp
      BY <1>4, <1>7, <3>1
    <3>2. CASE b + L[b].size = bp
      <4>1. b = p
        BY <1>3, <3>2, OneBefore
      <4> QED  BY <1>7, <4>1
    <3>3. CASE b # bp /\ b + L[b].size # bp
      BY <3>3 DEF MergedBut
    <3> QED  BY <3>1, <3>2, <3>3
  <2>3. Good(s, L) /\ Same(s, s) /\ Kept(s, L, s, L, {}) /\ Only(L, L, {}) /\ Steady(s, L, s, L)
    BY <2>2 DEF Good, Same, Kept, Only, Steady
  <2>4. \A q \in DOMAIN L : q + L[q].size = bp => L[q].alloc = 1
    BY <1>3, <1>7, OneBefore
  <2> QED  BY <1>4, <2>1, <2>3, <2>4 DEF r
<1>8. CASE ~(pa = 1 /\ na = 1)
  <2> DEFINE K == Cut(L, first, tot, tot, 0)
             u == Settle(t, first, tot)
  <2>1. r.h = u /\ r.bp = first
    BY <1>6, <1>8 DEF Ret
  <2>2. /\ first \in DOMAIN L /\ first # 1 /\ first \in Nat /\ tot \in Nat /\ tot \in 1 .. tot
        /\ first <= bp /\ bp < first + tot /\ nx <= first + tot /\ first + tot \in DOMAIN L \cup {s.brk}
        /\ first + tot <= s.brk
    <3>1. pa # 1 => p # 1
      BY <1>2
    <3> QED  BY <1>2, <1>3, <1>4, <1>5, <3>1
  <2>3. \A b \in DOMAIN L : first <= b /\ b < first + tot => L[b].alloc = 0
    <3> SUFFICES ASSUME NEW b \in DOMAIN L, first <= b, b < first + tot PROVE L[b].alloc = 0
      OBVIOUS
    <3>1. b \in Nat
      BY <1>1, Placed
    <3>2. b = bp \/ (b = p /\ pa # 1) \/ (b = nx /\ nx # s.brk /\ na # 1)
      BY <1>3, <1>4, <1>5, <3>1
    <3> QED  BY <1>4, <1>5, <3>2
  <2>4. (first = bp /\ pa = 1) \/ (first = p /\ pa = 0)
    BY <1>4
  <2>5. first + tot \in DOMAIN L => L[first + tot].alloc = 1
    <3>1. CASE na = 1
      BY <1>3, <1>4, <1>5, <3>1
    <3>2. CASE na # 1
      <4>1. nx # s.brk /\ first + tot = nx + L[nx].size /\ L[nx].alloc = 0
        BY <1>3, <1>4, <1>5, <3>2
      <4>2. nx # bp /\ first + tot # bp
        BY <1>4, <2>2
      <4> HIDE DEF nx, na, first, tot
      <4> QED  BY <1>5, <4>1, <4>2 DEF MergedBut
    <3> QED  BY <3>1, <3>2
  <2> HIDE DEF first, tot, nx, na, pa
  <2>6. t = Parted(s, first, tot, tot, 0)
    BY <2>2 DEF t, Parted
  <2>7. 0 \in 0 .. 1
    OBVIOUS
  <2> HIDE DEF t, K
  <2>8. /\ Tiles(t, K) /\ t.brk = s.brk /\ t.just = s.just /\ Same(s, t)
        /\ Kept(s, L, t, K, first .. first + tot - 1)
        /\ Only(L, K, {})
    <3>1. IsParted(s, L, s, t, K, first, tot, tot, 0)
      BY <2>2, <2>6, <2>7, Marks DEF K
    <3> QED  BY <3>1 DEF IsParted
  <2>9. /\ first \in DOMAIN K /\ K[first].size = tot /\ K[first].alloc = 0
        /\ \A b \in DOMAIN K : b = first
              \/ (b \in DOMAIN L /\ (b < first \/ first + tot <= b) /\ K[b] = L[b])
        /\ \A b \in DOMAIN L : b < first \/ first + tot <= b => b \in DOMAIN K /\ K[b] = L[b]
    BY <1>1, <2>2, <2>7, CutIs DEF K
  <2>10. Kept(s, L, t, K, {}) /\ Only(L, K, {})
    BY <1>1, <2>2, <2>3, <2>8 DEF Kept
  <2>11. MergedBut(K, {})
    <3> SUFFICES ASSUME NEW b \in DOMAIN K, b + K[b].size \in DOMAIN K
                 PROVE  K[b].alloc = 1 \/ K[b + K[b].size].alloc = 1
      BY DEF MergedBut
    <3>1. CASE b = first
      <4>1. b + K[b].size = first + tot /\ first + tot # first
        BY <2>2, <2>9, <3>1
      <4>2. first + tot \in DOMAIN L /\ K[first + tot] = L[first + tot]
        BY <2>9, <4>1
      <4> QED  BY <2>5, <4>1, <4>2
    <3>2. CASE b \in DOMAIN L /\ (b < first \/ first + tot <= b) /\ K[b] = L[b]
      <4>1. b # bp /\ b \in Nat
        BY <1>1, <1>4, <2>2, <3>2, Placed
      <4>2. CASE b + K[b].size = first
        <5>1. CASE first = bp /\ pa = 1
          <6>1. b = p
            BY <1>3, <3>2, <4>2, <5>1, OneBefore
          <6> QED  BY <3>2, <5>1, <6>1 DEF pa
        <5>2. CASE first = p /\ pa = 0
          <6>1. p # bp /\ L[p].alloc = 0
            BY <1>3, <1>4, <5>2 DEF pa
          <6> QED  BY <3>2, <4>1, <4>2, <5>2, <6>1 DEF MergedBut
        <5> QED  BY <2>4, <5>1, <5>2
      <4>3. CASE b + K[b].size # first
        <5>1. /\ b + L[b].size \in DOMAIN L /\ K[b + L[b].size] = L[b + L[b].size]
              /\ b + L[b].size < first \/ first + tot <= b + L[b].size
          BY <2>9, <3>2, <4>3
        <5>2. b + L[b].size # bp
          BY <1>4, <2>2, <5>1
        <5> QED  BY <3>2, <4>1, <5>1, <5>2 DEF MergedBut
      <4> QED  BY <4>2, <4>3
    <3> QED  BY <2>9, <3>1, <3>2
  <2>12. \E j \in Int : /\ u = [t EXCEPT !.just = j] /\ j \in 1 .. s.brk - 1
                        /\ s.just \in DOMAIN L => j \in DOMAIN K
    <3> DEFINE j == IF first < t.just /\ t.just < first + tot THEN first ELSE t.just
    <3>1. u = [t EXCEPT !.just = j]
      BY DEF Settle
    <3>2. s.just \in 1 .. s.brk - 1 /\ first \in 1 .. s.brk - 1
      BY <1>1, <2>2 DEF InHeap, Layout
    <3>3. s.just \in DOMAIN L => j \in DOMAIN K
      BY <1>1, <2>2, <2>8, <2>9, <3>2
    <3> QED  BY <2>8, <3>1, <3>2, <3>3
  <2>13. /\ Good(u, K) /\ u.brk = s.brk /\ Same(s, u) /\ u.mem = t.mem /\ Steady(s, L, u, K)
    <3>1. PICK j \in Int : /\ u = [t EXCEPT !.just = j] /\ j \in 1 .. s.brk - 1
                           /\ s.just \in DOMAIN L => j \in DOMAIN K
      BY <2>12
    <3> HIDE DEF u
    <3>2. Tiles(u, K) /\ u.brk = t.brk /\ u.just = j /\ u.mem = t.mem /\ Same(t, u)
      BY <2>8, <3>1, JustSet
    <3> QED  BY <2>8, <2>11, <3>1, <3>2 DEF Good, InHeap, Same, Steady
  <2>14. Kept(s, L, u, K, {})
    BY <2>10, <2>13 DEF Kept
  <2> HIDE DEF u
  <2>15. /\ r.bp \in DOMAIN K /\ K[r.bp].alloc = 0 /\ r.bp <= bp
         /\ bp + L[bp].size <= r.bp + K[r.bp].size
    BY <2>1, <2>2, <2>9 DEF nx
  <2>16. \A q \in DOMAIN L : q + L[q].size = bp /\ L[q].alloc = 0 => r.bp <= q
    <3> SUFFICES ASSUME NEW q \in DOMAIN L, q + L[q].size = bp, L[q].alloc = 0
                 PROVE  r.bp <= q
      OBVIOUS
    <3>1. q = p
      BY <1>3, OneBefore
    <3> QED  BY <1>4, <2>1, <2>4, <3>1 DEF pa
  <2> QED  BY <2>1, <2>10, <2>13, <2>14, <2>15, <2>16 DEF r
<1> QED  BY <1>7, <1>8
-----------------------------------------------------------------------------
(* free, place and extend_heap.                                            *)
LEMMA Composed ==
    ASSUME NEW s, NEW L, NEW t, NEW K, NEW u, NEW J, NEW X, NEW Y,
           Kept(s, L, t, K, X), Kept(t, K, u, J, Y)
    PROVE  Kept(s, L, u, J, X \cup Y)
BY DEF Kept

\* What is written into a block leaves the tags.
LEMMA WrittenInto ==
    ASSUME NEW s, NEW L, Tiles(s, L), NEW b \in DOMAIN L,
           NEW c \in State, c.brk = s.brk,
           \A w \in 0 .. 2 * MAX_HEAP - 1 :
              w < 2 * b \/ 2 * (b + L[b].size) - 3 < w => c.mem[w] = s.mem[w]
    PROVE  Tiles(c, L) /\ Kept(s, L, c, L, {b})
<1>1. /\ Layout(L, s.brk) /\ Tagged(s.mem, L, s.brk) /\ MAX_HEAP \in Nat
      /\ s.brk \in 0 .. MAX_HEAP /\ s.brk \in Nat /\ s.brk <= MAX_HEAP
  BY AllocatorAssumption DEF Tiles, State
<1>2. /\ b \in Nat /\ 1 <= b /\ L[b].size \in Nat /\ 1 <= L[b].size /\ b + L[b].size <= s.brk
      /\ \A x \in DOMAIN L : x <= b \/ b + L[b].size <= x
  BY <1>1, Placed
<1>3. ASSUME NEW x \in DOMAIN L
      PROVE  /\ c.mem[2 * x - 1] = L[x] /\ c.mem[2 * (x + L[x].size) - 2] = L[x]
             /\ x # b => \A w \in 2 * x .. 2 * (x + L[x].size) - 3 : c.mem[w] = s.mem[w]
  <2>1. /\ x \in Nat /\ 1 <= x /\ L[x].size \in Nat /\ 1 <= L[x].size /\ x + L[x].size <= s.brk
        /\ \A y \in DOMAIN L : y <= x \/ x + L[x].size <= y
    BY <1>1, Placed
  <2>2. s.mem[2 * x - 1] = L[x] /\ s.mem[2 * (x + L[x].size) - 2] = L[x]
    BY <1>1 DEF Tagged
  <2>3. x = b \/ x + L[x].size <= b \/ b + L[b].size <= x
    BY <1>2, <2>1
  <2>4. /\ 2 * x - 1 \in 0 .. 2 * MAX_HEAP - 1 /\ 2 * (x + L[x].size) - 2 \in 0 .. 2 * MAX_HEAP - 1
        /\ 2 * x - 1 < 2 * b \/ 2 * (b + L[b].size) - 3 < 2 * x - 1
        /\ 2 * (x + L[x].size) - 2 < 2 * b \/ 2 * (b + L[b].size) - 3 < 2 * (x + L[x].size) - 2
    BY <1>1, <1>2, <2>1, <2>3
  <2>5. ASSUME x # b, NEW w \in 2 * x .. 2 * (x + L[x].size) - 3
        PROVE  w \in 0 .. 2 * MAX_HEAP - 1 /\ (w < 2 * b \/ 2 * (b + L[b].size) - 3 < w)
    BY <1>1, <1>2, <2>1, <2>3, <2>5
  <2> QED  BY <2>2, <2>4, <2>5
<1>4. c.mem[2 * s.brk - 1] = PACK(0, 1)
  <2>1. /\ s.mem[2 * s.brk - 1] = PACK(0, 1)
    BY <1>1 DEF Tagged
  <2>2. 2 * s.brk - 1 \in 0 .. 2 * MAX_HEAP - 1 /\ 2 * (b + L[b].size) - 3 < 2 * s.brk - 1
    BY <1>1, <1>2
  <2> QED  BY <2>1, <2>2
<1>5. Tagged(c.mem, L, c.brk)
  BY <1>3, <1>4 DEF Tagged
<1>6. Kept(s, L, c, L, {b})
  BY <1>3 DEF Kept
<1> QED  BY <1>1, <1>5, <1>6 DEF Tiles

\* mm_free gives up the block it is asked for and keeps every other.
LEMMA Frees ==
    ASSUME NEW s, NEW L, Good(s, L), NEW bp \in DOMAIN L, bp # 1
    PROVE  LET t == mm_free(s, bp)
           IN  \E K : /\ Good(t, K) /\ t.brk = s.brk /\ Same(s, t) /\ Steady(s, L, t, K)
                      /\ Kept(s, L, t, K, {bp}) /\ Only(L, K, {})
                      /\ bp \in DOMAIN K => K[bp].alloc = 0
<1>1. Tiles(s, L) /\ MergedBut(L, {}) /\ InHeap(s) /\ Layout(L, s.brk) /\ s.brk \in 0 .. MAX_HEAP
  BY DEF Good, Tiles, State
<1> DEFINE z == L[bp].size
           u == Tag(s, bp, z, 0)
           J == Cut(L, bp, z, z, 0)
<1>2. /\ bp \in Nat /\ bp # NULL /\ z \in Nat /\ z \in 1 .. z /\ 0 \in 0 .. 1
      /\ bp + z \in DOMAIN L \cup {s.brk}
  BY <1>1, Placed DEF NULL
<1>3. u = Parted(s, bp, z, z, 0) /\ mm_free(s, bp) = coalesce(u, bp).h
  <2>1. GET_SIZE(s.mem, HDRP(bp)) = z
    BY <1>1, Headers
  <2> QED  BY <1>2, <2>1 DEF Parted, mm_free
<1> HIDE DEF z, u, J
<1>4. IsParted(s, L, s, u, J, bp, z, z, 0)
  BY <1>1, <1>2, <1>3, Marks DEF J
<1>5. /\ bp \in DOMAIN J /\ J[bp].size = z /\ J[bp].alloc = 0
      /\ \A b \in DOMAIN J : b = bp
            \/ (b \in DOMAIN L /\ (b < bp \/ bp + z <= b) /\ J[b] = L[b])
      /\ \A b \in DOMAIN L : b < bp \/ bp + z <= b => b \in DOMAIN J /\ J[b] = L[b]
  BY <1>1, <1>2, CutIs DEF J
<1>6. \A b \in DOMAIN L : b \in Nat /\ (b = bp \/ b < bp \/ bp + z <= b)
  <2> SUFFICES ASSUME NEW b \in DOMAIN L PROVE b \in Nat /\ (b = bp \/ b < bp \/ bp + z <= b)
    OBVIOUS
  <2>1. b \in Nat /\ (b <= bp \/ bp + z <= b)
    BY <1>1, Placed DEF z
  <2> QED  BY <1>2, <2>1
<1>7. Tiles(u, J) /\ InHeap(u) /\ MergedBut(J, {bp})
  <2>1. InHeap(u)
    BY <1>1, <1>4 DEF IsParted, InHeap
  <2>2. MergedBut(J, {bp})
    BY <1>1, <1>5, <1>6 DEF MergedBut
  <2> QED  BY <1>4, <2>1, <2>2 DEF IsParted
<1> DEFINE r == coalesce(u, bp)
<1> HIDE DEF r
<1>8. PICK K : /\ Good(r.h, K) /\ r.h.brk = u.brk /\ Same(u, r.h)
               /\ Kept(u, J, r.h, K, {}) /\ Only(J, K, {}) /\ Steady(u, J, r.h, K)
  BY <1>5, <1>7, Coalesced DEF r
<1>9. Kept(s, L, r.h, K, {bp})
  <2>1. Kept(s, L, u, J, {bp})
    BY <1>2, <1>4, <1>5, <1>6 DEF IsParted, Kept
  <2> QED  BY <1>8, <2>1 DEF Kept
<1>10. Only(L, K, {}) /\ (bp \in DOMAIN K => K[bp].alloc = 0)
  <2>1. Only(L, J, {})
    BY <1>4 DEF IsParted
  <2>2. K \in [DOMAIN K -> TagOf]
    BY <1>8 DEF Good, Tiles, Layout
  <2>3. bp \in DOMAIN K => K[bp].alloc \in {0, 1}
    BY <2>2, OfTags
  <2> QED  BY <1>5, <1>8, <2>1, <2>3 DEF Only
<1>11. Steady(s, L, r.h, K)
  BY <1>4, <1>5, <1>6, <1>8 DEF IsParted, Steady
<1>12. Same(s, r.h) /\ r.h.brk = s.brk
  BY <1>4, <1>8 DEF IsParted, Same
<1> QED  BY <1>3, <1>8, <1>9, <1>10, <1>11, <1>12 DEF r

\* An allocated block of asize lies at bp, and the others are as they were.
IsPlaced(s, L, r, K, bp, asize) ==
    /\ r.bp = bp /\ Good(r.h, K) /\ r.h.brk = s.brk /\ Same(s, r.h)
    /\ Steady(s, L, r.h, K) /\ Kept(s, L, r.h, K, {}) /\ Only(L, K, {bp})
    /\ bp # 1 /\ bp \in DOMAIN K /\ K[bp].alloc = 1 /\ K[bp].size = asize

\* place splits the block, or hands it out whole, as the case requires.
LEMMA Places ==
    ASSUME NEW s, NEW L, Good(s, L), NEW bp \in DOMAIN L, L[bp].alloc = 0,
           NEW asize \in Nat, asize # 0, asize <= L[bp].size
    PROVE  \E K : IsPlaced(s, L, place(s, bp, asize), K, bp, asize)
<1>1. /\ Tiles(s, L) /\ MergedBut(L, {}) /\ InHeap(s) /\ Layout(L, s.brk)
      /\ s.brk \in 0 .. MAX_HEAP /\ L[1].alloc = 1
  BY Packed DEF Good, Tiles, State, Layout
<1> DEFINE z == L[bp].size
           t == Parted(s, bp, z, asize, 1)
           K == Cut(L, bp, z, asize, 1)
<1>2. /\ bp \in Nat /\ bp # 1 /\ z \in Nat /\ asize \in 1 .. z /\ 1 \in 0 .. 1
      /\ bp + z \in DOMAIN L \cup {s.brk}
      /\ \A b \in DOMAIN L : b <= bp \/ bp + z <= b
  BY <1>1, Placed
<1>3. place(s, bp, asize) = Ret(t, bp)
  <2>1. IsTag(s.mem, HDRP(bp)) /\ GET_SIZE(s.mem, HDRP(bp)) = z
    BY <1>1, Headers
  <2>2. z > asize <=> z - asize > 0
    BY <1>2
  <2>3. ~(z > asize) => z = asize
    BY <1>2
  <2> HIDE DEF z
  <2> QED  BY <2>1, <2>2, <2>3 DEF place, Parted
<1> HIDE DEF z, t, K
<1>4. IsParted(s, L, s, t, K, bp, z, asize, 1)
  BY <1>1, <1>2, Marks DEF t, K
<1>5. /\ bp \in DOMAIN K /\ K[bp].size = asize /\ K[bp].alloc = 1
      /\ asize < z => /\ bp + asize \in DOMAIN K /\ K[bp + asize].size = z - asize
                      /\ K[bp + asize].alloc = 0
      /\ \A b \in DOMAIN K : b = bp \/ (asize < z /\ b = bp + asize)
            \/ (b \in DOMAIN L /\ (b < bp \/ bp + z <= b) /\ K[b] = L[b])
      /\ \A b \in DOMAIN L : b < bp \/ bp + z <= b => b \in DOMAIN K /\ K[b] = L[b]
  BY <1>1, <1>2, CutIs DEF K
<1>6. \A b \in DOMAIN L : b \in Nat /\ (b = bp \/ b < bp \/ bp + z <= b)
  <2> SUFFICES ASSUME NEW b \in DOMAIN L PROVE b \in Nat /\ (b = bp \/ b < bp \/ bp + z <= b)
    OBVIOUS
  <2>1. b \in Nat
    BY <1>1, Placed
  <2> QED  BY <1>2, <2>1
<1>7. Kept(s, L, t, K, {}) /\ Only(L, K, {bp})
  BY <1>2, <1>4, <1>5, <1>6 DEF IsParted, Kept
<1>8. Steady(s, L, t, K) /\ InHeap(t)
  BY <1>1, <1>4, <1>5, <1>6 DEF IsParted, Steady, InHeap
<1>9. bp + z \in DOMAIN L => L[bp + z].alloc = 1
  <2>1. bp + z \in DOMAIN L => L[bp].alloc = 1 \/ L[bp + z].alloc = 1
    BY <1>1 DEF MergedBut, z
  <2> QED  BY <2>1
<1>10. MergedBut(K, {})
  <2> SUFFICES ASSUME NEW b \in DOMAIN K, b + K[b].size \in DOMAIN K
               PROVE  K[b].alloc = 1 \/ K[b + K[b].size].alloc = 1
    BY DEF MergedBut
  <2>1. CASE b = bp
    BY <1>5, <2>1
  <2>2. CASE asize < z /\ b = bp + asize
    <3>1. b + K[b].size = bp + z
      BY <1>2, <1>5, <2>2
    <3>2. bp + z \in DOMAIN L /\ K[bp + z] = L[bp + z]
      BY <1>2, <1>5, <2>2, <3>1
    <3> QED  BY <1>9, <3>1, <3>2
  <2>3. CASE b \in DOMAIN L /\ (b < bp \/ bp + z <= b) /\ K[b] = L[b]
    <3>1. /\ b \in Nat /\ L[b].size \in Nat /\ 1 <= L[b].size
          /\ \A x \in DOMAIN L : x <= b \/ b + L[b].size <= x
      BY <1>1, <2>3, Placed
    <3>2. CASE b + L[b].size = bp
      BY <1>5, <2>3, <3>2
    <3>3. CASE b + L[b].size # bp
      <4>1. b + L[b].size \in DOMAIN L /\ K[b + L[b].size] = L[b + L[b].size]
        BY <1>2, <1>5, <2>3, <3>1, <3>3
      <4> QED  BY <1>1, <2>3, <4>1 DEF MergedBut
    <3> QED  BY <3>2, <3>3
  <2> QED  BY <1>5, <2>1, <2>2, <2>3
<1>11. Good(t, K) /\ t.brk = s.brk /\ Same(s, t)
  BY <1>4, <1>8, <1>10 DEF Good, IsParted
<1> DEFINE r == place(s, bp, asize)
<1>12. r.h = t /\ r.bp = bp
  BY <1>3 DEF Ret
<1> HIDE DEF r
<1>13. IsPlaced(s, L, r, K, bp, asize)
  BY <1>2, <1>5, <1>7, <1>8, <1>11, <1>12 DEF IsPlaced
<1> QED  BY <1>13 DEF r
-----------------------------------------------------------------------------
(* The heap grows.                                                         *)
\* The layout with a free block of z double words behind the last one.
Longer(L, brk, z) == [b \in DOMAIN L \cup {brk} |-> IF b = brk THEN PACK(z, 0) ELSE L[b]]

IsLonger(L, K, brk, z) ==
    /\ DOMAIN K = DOMAIN L \cup {brk} /\ K[brk] = PACK(z, 0)
    /\ K[brk].size = z /\ K[brk].alloc = 0
    /\ \A b \in DOMAIN L : K[b] = L[b]

\* Where the blocks are once a free one is put at the break.
LEMMA LongerIs ==
    ASSUME NEW L, NEW brk \in Nat, NEW z \in Nat, brk \notin DOMAIN L
    PROVE  IsLonger(L, Longer(L, brk, z), brk, z)
BY Packed DEF Longer, IsLonger

\* A longer layout tiles the longer heap.
LEMMA LongerLayout ==
    ASSUME NEW brk \in 0 .. MAX_HEAP, NEW L, Layout(L, brk), NEW z \in Nat, z # 0,
           brk + z <= MAX_HEAP
    PROVE  Layout(Longer(L, brk, z), brk + z)
<1> DEFINE K == Longer(L, brk, z)
<1>1. /\ MAX_HEAP \in Nat /\ brk \in Nat /\ brk <= MAX_HEAP /\ DOMAIN L \subseteq 1 .. brk - 1
      /\ 1 \in DOMAIN L /\ L[1] = PACK(1, 1) /\ brk \notin DOMAIN L /\ brk > 1
  BY AllocatorAssumption DEF Layout
<1>2. /\ DOMAIN K = DOMAIN L \cup {brk} /\ K[brk] = PACK(z, 0) /\ K[brk].size = z
      /\ \A b \in DOMAIN L : K[b] = L[b]
  <2>1. IsLonger(L, K, brk, z)
    BY <1>1, LongerIs
  <2> QED  BY <2>1 DEF IsLonger
<1>3. K \in [DOMAIN K -> TagOf]
  <2>1. K = [b \in DOMAIN K |-> K[b]]
    BY DEF Longer
  <2> HIDE DEF K
  <2>2. PACK(z, 0) \in TagOf
    BY <1>1 DEF TagOf
  <2>3. \A b \in DOMAIN L : L[b] \in TagOf
    BY DEF Layout
  <2> QED  BY <1>2, <2>1, <2>2, <2>3
<1> HIDE DEF K
<1>4. ASSUME NEW b \in DOMAIN K
      PROVE  /\ b + K[b].size \in DOMAIN K \cup {brk + z}
             /\ \A c \in DOMAIN K : c <= b \/ b + K[b].size <= c
  <2>1. CASE b = brk
    BY <1>1, <1>2, <2>1
  <2>2. CASE b # brk
    <3>1. /\ b \in DOMAIN L /\ b \in Nat /\ L[b].size \in Nat /\ b + L[b].size <= brk
          /\ b + L[b].size \in DOMAIN L \cup {brk}
          /\ \A c \in DOMAIN L : c <= b \/ b + L[b].size <= c
      BY <1>1, <1>2, <2>2, Placed
    <3> QED  BY <1>1, <1>2, <3>1
  <2> QED  BY <2>1, <2>2
<1>5. DOMAIN K \subseteq 1 .. (brk + z) - 1 /\ 1 \in DOMAIN K /\ K[1] = PACK(1, 1)
  BY <1>1, <1>2
<1>6. Layout(K, brk + z)
  BY <1>3, <1>4, <1>5 DEF Layout
<1> QED  BY <1>6 DEF K

\* mem_sbrk, the new block and the new epilogue.
LEMMA NewTails ==
    ASSUME NEW s, NEW L, Good(s, L), NEW z \in Nat, z # 0, s.brk + z <= MAX_HEAP
    PROVE  LET t == NewTail([s EXCEPT !.brk = @ + z], s.brk, z)
               K == Longer(L, s.brk, z)
           IN  /\ Tiles(t, K) /\ t.brk = s.brk + z /\ t.just = s.just /\ Same(s, t)
               /\ InHeap(t) /\ MergedBut(K, {s.brk})
               /\ Kept(s, L, t, K, {}) /\ Only(L, K, {}) /\ Steady(s, L, t, K)
<1> DEFINE c == [s EXCEPT !.brk = @ + z]
           u == Tag(c, s.brk, z, 0)
           t == NewTail(c, s.brk, z)
           K == Longer(L, s.brk, z)
<1>1. /\ s \in State /\ Layout(L, s.brk) /\ Tagged(s.mem, L, s.brk) /\ MergedBut(L, {})
      /\ s.just \in 1 .. s.brk - 1
      /\ s.brk \in 0 .. MAX_HEAP /\ MAX_HEAP \in Nat /\ s.brk \in Nat
  BY AllocatorAssumption DEF Good, Tiles, State, InHeap
<1>2. s.brk \notin DOMAIN L /\ s.brk > 1
  BY <1>1 DEF Layout
<1>3. /\ c \in State /\ c.brk = s.brk + z /\ c.just = s.just /\ c.mem = s.mem /\ Same(s, c)
  <2>1. s.brk + z \in 0 .. MAX_HEAP
    BY <1>1
  <2> QED  BY <1>1, <2>1 DEF State, Same
<1>4. s.brk \in Nat \ {0} /\ z \in 1 .. MAX_HEAP /\ 0 \in 0 .. 1
  BY <1>1, <1>2
<1> HIDE DEF c
<1>5. /\ u \in State /\ u.brk = c.brk /\ u.just = c.just
      /\ u.fmalloc = c.fmalloc /\ u.TR = c.TR /\ u.Q_no = c.Q_no
      /\ u.mem[2 * s.brk - 1] = PACK(z, 0) /\ u.mem[2 * (s.brk + z) - 2] = PACK(z, 0)
      /\ \A w \in 0 .. 2 * MAX_HEAP - 1 :
            w < 2 * s.brk - 1 \/ 2 * (s.brk + z) - 2 < w => u.mem[w] = c.mem[w]
  <2> DEFINE d == s.brk
  <2>1. d \in Nat \ {0} /\ d + z <= MAX_HEAP /\ u = Tag(c, d, z, 0)
    BY <1>4 DEF u
  <2> HIDE DEF d, u
  <2>2. /\ u \in State /\ u.brk = c.brk /\ u.just = c.just
        /\ u.fmalloc = c.fmalloc /\ u.TR = c.TR /\ u.Q_no = c.Q_no
        /\ u.mem[2 * d - 1] = PACK(z, 0) /\ u.mem[2 * (d + z) - 2] = PACK(z, 0)
        /\ \A w \in 0 .. 2 * MAX_HEAP - 1 :
              w < 2 * d - 1 \/ 2 * (d + z) - 2 < w => u.mem[w] = c.mem[w]
    <3>1. IsMarked(c, u, d, z, 0)
      BY <1>3, <1>4, <2>1, TagIs
    <3> QED  BY <3>1 DEF IsMarked
  <2> QED  BY <2>2 DEF d
<1> HIDE DEF u
<1>6. /\ t \in State /\ t.brk = s.brk + z /\ t.just = s.just /\ Same(s, t)
      /\ t.mem[2 * (s.brk + z) - 1] = PACK(0, 1)
      /\ \A w \in 0 .. 2 * MAX_HEAP - 1 : w # 2 * (s.brk + z) - 1 => t.mem[w] = u.mem[w]
  <2>1. HDRP(s.brk + z) = 2 * (s.brk + z) - 1
    BY DEF HDRP
  <2>2. t = [u EXCEPT !.mem[2 * (s.brk + z) - 1] = PACK(0, 1)]
    BY <2>1 DEF NewTail, u
  <2> DEFINE e == 2 * (s.brk + z) - 1
  <2>3. e \in 0 .. 2 * MAX_HEAP - 1 /\ PACK(0, 1) \in Words
    BY <1>1, <1>4, PackedIsWord
  <2> HIDE DEF e, t
  <2>4. t = [u EXCEPT !.mem[e] = PACK(0, 1)]
    BY <2>2 DEF e
  <2>5. /\ t \in State /\ t.brk = u.brk /\ t.just = u.just
        /\ t.fmalloc = u.fmalloc /\ t.TR = u.TR /\ t.Q_no = u.Q_no
        /\ t.mem = [u.mem EXCEPT ![e] = PACK(0, 1)]
    BY <1>5, <2>3, <2>4 DEF State
  <2>6. t.mem[e] = PACK(0, 1) /\ \A w \in 0 .. 2 * MAX_HEAP - 1 : w # e => t.mem[w] = u.mem[w]
    BY <1>5, <2>3, <2>5 DEF State
  <2> QED  BY <1>3, <1>5, <2>5, <2>6 DEF e, Same
<1> HIDE DEF t
<1>7. \A w \in 0 .. 2 * s.brk - 2 : t.mem[w] = s.mem[w]
  <2> SUFFICES ASSUME NEW w \in 0 .. 2 * s.brk - 2 PROVE t.mem[w] = s.mem[w]
    OBVIOUS
  <2>1. w \in 0 .. 2 * MAX_HEAP - 1 /\ w < 2 * s.brk - 1 /\ w # 2 * (s.brk + z) - 1
    BY <1>1, <1>4
  <2> QED  BY <1>3, <1>5, <1>6, <2>1
<1>8. t.mem[2 * s.brk - 1] = PACK(z, 0) /\ t.mem[2 * (s.brk + z) - 2] = PACK(z, 0)
  <2>1. /\ 2 * s.brk - 1 \in 0 .. 2 * MAX_HEAP - 1 /\ 2 * s.brk - 1 # 2 * (s.brk + z) - 1
        /\ 2 * (s.brk + z) - 2 \in 0 .. 2 * MAX_HEAP - 1
    BY <1>1, <1>2, <1>4
  <2> QED  BY <1>1, <1>4, <1>5, <1>6, <2>1
<1>9. /\ DOMAIN K = DOMAIN L \cup {s.brk} /\ K[s.brk] = PACK(z, 0) /\ K[s.brk].size = z
      /\ K[s.brk].alloc = 0 /\ \A b \in DOMAIN L : K[b] = L[b]
  <2> DEFINE d == s.brk
  <2>1. d \in Nat /\ d \notin DOMAIN L /\ K = Longer(L, d, z)
    BY <1>1, <1>2
  <2> HIDE DEF d, K
  <2>2. /\ DOMAIN K = DOMAIN L \cup {d} /\ K[d] = PACK(z, 0) /\ K[d].size = z
        /\ K[d].alloc = 0 /\ \A b \in DOMAIN L : K[b] = L[b]
    <3>1. IsLonger(L, K, d, z)
      BY <2>1, LongerIs
    <3> QED  BY <3>1 DEF IsLonger
  <2> QED  BY <2>2 DEF d
<1>10. Layout(K, s.brk + z)
  BY <1>1, LongerLayout
<1> HIDE DEF K
<1>11. \A b \in DOMAIN L : /\ b \in Nat /\ 1 <= b /\ L[b].size \in Nat /\ 1 <= L[b].size
                           /\ b + L[b].size <= s.brk
  BY <1>1, Placed
<1>12. Tagged(t.mem, K, s.brk + z)
  <2>1. ASSUME NEW b \in DOMAIN K
        PROVE  t.mem[2 * b - 1] = K[b] /\ t.mem[2 * (b + K[b].size) - 2] = K[b]
    <3>1. CASE b = s.brk
      BY <1>8, <1>9, <3>1
    <3>2. CASE b # s.brk
      <4>1. /\ b \in DOMAIN L /\ K[b] = L[b]
            /\ s.mem[2 * b - 1] = L[b] /\ s.mem[2 * (b + L[b].size) - 2] = L[b]
        BY <1>1, <1>9, <3>2 DEF Tagged
      <4>2. 2 * b - 1 \in 0 .. 2 * s.brk - 2 /\ 2 * (b + L[b].size) - 2 \in 0 .. 2 * s.brk - 2
        BY <1>1, <1>11, <4>1
      <4> QED  BY <1>7, <4>1, <4>2
    <3> QED  BY <3>1, <3>2
  <2> QED  BY <1>6, <2>1 DEF Tagged
<1>13. InHeap(t)
  BY <1>1, <1>4, <1>6 DEF InHeap
<1>14. MergedBut(K, {s.brk})
  BY <1>1, <1>9, <1>11 DEF MergedBut
<1>15. Kept(s, L, t, K, {})
  <2> SUFFICES ASSUME NEW b \in DOMAIN L
               PROVE  /\ b \in DOMAIN K /\ K[b] = L[b]
                      /\ \A w \in 2 * b .. 2 * (b + L[b].size) - 3 : t.mem[w] = s.mem[w]
    BY DEF Kept
  <2>1. \A w \in 2 * b .. 2 * (b + L[b].size) - 3 : w \in 0 .. 2 * s.brk - 2
    BY <1>1, <1>11
  <2> QED  BY <1>7, <1>9, <2>1
<1>16. Only(L, K, {}) /\ Steady(s, L, t, K)
  BY <1>6, <1>9 DEF Only, Steady
<1>17. /\ Tiles(t, K) /\ t.brk = s.brk + z /\ t.just = s.just /\ Same(s, t)
       /\ InHeap(t) /\ MergedBut(K, {s.brk})
       /\ Kept(s, L, t, K, {}) /\ Only(L, K, {}) /\ Steady(s, L, t, K)
  BY <1>6, <1>10, <1>12, <1>13, <1>14, <1>15, <1>16 DEF Tiles
<1> QED  BY <1>17 DEF t, c, K

\* extend_heap fails and changes nothing, or ends the heap in a free block at
\* least as large as was asked, merged with the one before it.
LEMMA Extends ==
    ASSUME NEW s, NEW L, Good(s, L), NEW z \in Nat, z # 0
    PROVE  LET r == extend_heap(s, z)
           IN  \/ r.bp = NULL /\ r.h = s
               \/ \E K : /\ Good(r.h, K) /\ r.h.brk = s.brk + z /\ Same(s, r.h)
                         /\ Steady(s, L, r.h, K) /\ Kept(s, L, r.h, K, {}) /\ Only(L, K, {})
                         /\ r.bp \in DOMAIN K /\ K[r.bp].alloc = 0 /\ z <= K[r.bp].size
                         /\ \A p \in DOMAIN L :
                               p + L[p].size = s.brk /\ L[p].alloc = 0
                                   => L[p].size + z <= K[r.bp].size
<1> DEFINE c == [s EXCEPT !.brk = @ + z]
           t == NewTail(c, s.brk, z)
           J == Longer(L, s.brk, z)
           r == extend_heap(s, z)
<1>1. /\ Layout(L, s.brk) /\ s.brk \in 0 .. MAX_HEAP /\ MAX_HEAP \in Nat /\ s.brk \in Nat
  BY AllocatorAssumption DEF Good, Tiles, State
<1>2. s.brk \notin DOMAIN L /\ s.brk > 1
  BY <1>1 DEF Layout
<1>3. CASE s.brk + z > MAX_HEAP
  BY <1>3 DEF extend_heap, mem_sbrk, Ret
<1>4. CASE ~(s.brk + z > MAX_HEAP)
  <2>1. r = coalesce(t, s.brk)
    BY <1>1, <1>2, <1>4 DEF extend_heap, mem_sbrk, Ret, NULL
  <2> HIDE DEF r
  <2>2. /\ Tiles(t, J) /\ t.brk = s.brk + z /\ Same(s, t)
        /\ InHeap(t) /\ MergedBut(J, {s.brk})
        /\ Kept(s, L, t, J, {}) /\ Only(L, J, {}) /\ Steady(s, L, t, J)
    BY <1>1, <1>4, NewTails
  <2>3. /\ DOMAIN J = DOMAIN L \cup {s.brk} /\ J[s.brk].size = z
        /\ J[s.brk].alloc = 0 /\ \A b \in DOMAIN L : J[b] = L[b]
    <3> DEFINE d == s.brk
    <3>1. d \in Nat /\ d \notin DOMAIN L /\ J = Longer(L, d, z)
      BY <1>1, <1>2
    <3> HIDE DEF d, J
    <3>2. /\ DOMAIN J = DOMAIN L \cup {d} /\ J[d].size = z
          /\ J[d].alloc = 0 /\ \A b \in DOMAIN L : J[b] = L[b]
      <4>1. IsLonger(L, J, d, z)
        BY <3>1, LongerIs
      <4> QED  BY <4>1 DEF IsLonger
    <3> QED  BY <3>2 DEF d
  <2> HIDE DEF t, J
  <2>4. PICK K : /\ Good(r.h, K) /\ r.h.brk = t.brk /\ Same(t, r.h)
                 /\ Kept(t, J, r.h, K, {}) /\ Only(J, K, {})
                 /\ Steady(t, J, r.h, K)
                 /\ r.bp \in DOMAIN K /\ K[r.bp].alloc = 0 /\ r.bp <= s.brk
                 /\ s.brk + J[s.brk].size <= r.bp + K[r.bp].size
                 /\ \A p \in DOMAIN J :
                       p + J[p].size = s.brk /\ J[p].alloc = 0 => r.bp <= p
    <3>1. s.brk \in DOMAIN J
      BY <2>3
    <3> DEFINE d == s.brk
    <3> HIDE DEF d
    <3>2. d \in DOMAIN J /\ J[d].alloc = 0 /\ MergedBut(J, {d}) /\ r = coalesce(t, d)
      BY <2>1, <2>2, <2>3, <3>1 DEF d
    <3>3. \E K : /\ Good(r.h, K) /\ r.h.brk = t.brk /\ Same(t, r.h)
                 /\ Kept(t, J, r.h, K, {}) /\ Only(J, K, {})
                 /\ Steady(t, J, r.h, K)
                 /\ r.bp \in DOMAIN K /\ K[r.bp].alloc = 0 /\ r.bp <= d
                 /\ d + J[d].size <= r.bp + K[r.bp].size
                 /\ \A p \in DOMAIN J :
                       p + J[p].size = d /\ J[p].alloc = 0 => r.bp <= p
      BY <2>2, <3>2, Coalesced
    <3> QED  BY <3>3 DEF d
  <2>5. Kept(s, L, r.h, K, {}) /\ Only(L, K, {}) /\ Same(s, r.h) /\ Steady(s, L, r.h, K)
    BY <2>2, <2>4 DEF Kept, Only, Same, Steady
  <2>6. r.bp \in Nat /\ K[r.bp].size \in Nat
    BY <2>4, Placed DEF Good, Tiles, State
  <2>7. z <= K[r.bp].size
    BY <1>1, <2>3, <2>4, <2>6
  <2>8. ASSUME NEW p \in DOMAIN L, p + L[p].size = s.brk, L[p].alloc = 0
        PROVE  L[p].size + z <= K[r.bp].size
    <3>1. p \in Nat /\ L[p].size \in Nat /\ r.bp <= p
      BY <1>1, <2>3, <2>4, <2>8, Placed
    <3> QED  BY <1>1, <2>3, <2>4, <2>6, <2>8, <3>1
  <2> QED  BY <2>2, <2>4, <2>5, <2>7, <2>8 DEF r
<1> QED  BY <1>3, <1>4
-----------------------------------------------------------------------------
(* The walk over the blocks.                                               *)
LEMMA Induction ==
    ASSUME NEW S, 0 \in S, \A k \in Nat : k \in S => k + 1 \in S
    PROVE  Nat \subseteq S
<1> SUFFICES ASSUME Nat \ S # {} PROVE FALSE
  OBVIOUS
<1>1. Nat \ S \in SUBSET Nat
  OBVIOUS
<1>2. PICK x \in Nat \ S : \A y \in Nat \ S : x <= y
  BY <1>1, LeastNat
<1>3. x # 0 /\ x \in Nat
  OBVIOUS
<1>4. x - 1 \in Nat /\ ~(x <= x - 1) /\ (x - 1) + 1 = x
  BY <1>3
<1>5. x - 1 \in S
  BY <1>2, <1>4
<1> QED  BY <1>4, <1>5

\* What the walk does at bp, when f says what it does further on.
Onward(m, f, bp) ==
    IF ~ IsTag(m, HDRP(bp)) THEN <<WILD>>
    ELSE IF GET_SIZE(m, HDRP(bp)) = 0 THEN << >>
    ELSE <<bp>> \o f[NEXT_BLKP(m, bp)]

Memory == [0 .. 2 * MAX_HEAP - 1 -> Words]

\* A tag leads on, and there are tags in memory only.
LEMMA LeadsOn ==
    ASSUME NEW m \in Memory, NEW bp \in Int, IsTag(m, HDRP(bp))
    PROVE  /\ 1 <= bp /\ bp <= MAX_HEAP
           /\ GET_SIZE(m, HDRP(bp)) \in Nat /\ NEXT_BLKP(m, bp) \in Int
           /\ GET_SIZE(m, HDRP(bp)) # 0 => bp < NEXT_BLKP(m, bp)
<1>1. 2 * bp - 1 \in 0 .. 2 * MAX_HEAP - 1 /\ m[2 * bp - 1].kind = "tag" /\ HDRP(bp) = 2 * bp - 1
  BY DEF IsTag, HDRP, Memory
<1>2. m[2 * bp - 1] \in Words
  BY <1>1 DEF Memory
<1>3. m[2 * bp - 1].size \in 0 .. MAX_HEAP
  BY <1>1, <1>2, KindTag
<1> QED  BY <1>1, <1>3, AllocatorAssumption DEF GET_SIZE, NEXT_BLKP

\* The recursion is well founded, because tags lead towards the end.
LEMMA WalkExists ==
    ASSUME NEW m \in Memory
    PROVE  \E f : f = [bp \in Int |-> Onward(m, f, bp)]
<1> DEFINE Top == MAX_HEAP + 1
           Right(k, f) == /\ f = [bp \in Int |-> f[bp]]
                          /\ \A bp \in Int : Top - k <= bp => f[bp] = Onward(m, f, bp)
           S == {k \in Nat : \E f : Right(k, f)}
<1>1. Top \in Nat
  BY AllocatorAssumption
<1>2. \A bp \in Int : bp < 1 \/ Top <= bp => ~ IsTag(m, HDRP(bp))
  BY LeadsOn, AllocatorAssumption
<1> HIDE DEF Top
<1>3. 0 \in S
  <2> DEFINE f == [bp \in Int |-> <<WILD>>]
  <2>1. \A bp \in Int : Top - 0 <= bp => Onward(m, f, bp) = <<WILD>>
    BY <1>1, <1>2 DEF Onward
  <2>2. Right(0, f)
    BY <2>1
  <2> QED  BY <2>2
<1>4. ASSUME NEW k \in Nat, k \in S PROVE k + 1 \in S
  <2>1. PICK f : Right(k, f)
    BY <1>4
  <2> DEFINE low == Top - (k + 1)
             v == Onward(m, f, low)
             e == [bp \in Int |-> IF bp = low THEN v ELSE f[bp]]
  <2>2. low \in Int /\ Top - k = low + 1
    BY <1>1
  <2> HIDE DEF low
  <2>3. \A bp \in Int : bp # low => e[bp] = f[bp]
    OBVIOUS
  <2>4. e[low] = v
    BY <2>2
  <2>5. e = [bp \in Int |-> e[bp]]
    OBVIOUS
  <2> HIDE DEF e
  <2>6. ASSUME NEW bp \in Int, low <= bp PROVE Onward(m, e, bp) = Onward(m, f, bp)
    <3>1. CASE IsTag(m, HDRP(bp)) /\ GET_SIZE(m, HDRP(bp)) # 0
      <4>1. NEXT_BLKP(m, bp) \in Int /\ NEXT_BLKP(m, bp) # low
        BY <2>2, <2>6, <3>1, LeadsOn
      <4>2. e[NEXT_BLKP(m, bp)] = f[NEXT_BLKP(m, bp)]
        BY <2>3, <4>1
      <4> QED  BY <4>2 DEF Onward
    <3>2. CASE ~(IsTag(m, HDRP(bp)) /\ GET_SIZE(m, HDRP(bp)) # 0)
      BY <3>2 DEF Onward
    <3> QED  BY <3>1, <3>2
  <2>7. ASSUME NEW bp \in Int, low <= bp PROVE e[bp] = Onward(m, e, bp)
    <3>1. CASE bp = low
      BY <2>4, <2>6, <3>1, <2>2
    <3>2. CASE bp # low
      <4>1. Top - k <= bp
        BY <2>2, <2>7, <3>2
      <4> QED  BY <2>1, <2>3, <2>6, <2>7, <3>2, <4>1
    <3> QED  BY <3>1, <3>2
  <2>8. Right(k + 1, e)
    BY <2>5, <2>7 DEF low
  <2> QED  BY <2>8
<1>5. \A k \in Nat : k \in S => k + 1 \in S
  BY <1>4
<1> HIDE DEF S
<1>6. Top \in S
  BY <1>1, <1>3, <1>5, Induction
<1> USE DEF S
<1>7. PICK f : Right(Top, f)
  BY <1>6
<1> DEFINE e == [bp \in Int |-> IF bp < 1 THEN <<WILD>> ELSE f[bp]]
<1>8. \A bp \in Int : e[bp] = IF bp < 1 THEN <<WILD>> ELSE f[bp]
  OBVIOUS
<1>9. e = [bp \in Int |-> e[bp]]
  OBVIOUS
<1> HIDE DEF e
<1>10. ASSUME NEW bp \in Int PROVE e[bp] = Onward(m, e, bp)
  <2>1. CASE bp < 1
    BY <1>2, <1>8, <2>1 DEF Onward
  <2>2. CASE ~(bp < 1)
    <3>1. Top - Top <= bp
      BY <1>1, <2>2
    <3>2. e[bp] = Onward(m, f, bp)
      BY <1>7, <1>8, <2>2, <3>1
    <3>3. CASE IsTag(m, HDRP(bp)) /\ GET_SIZE(m, HDRP(bp)) # 0
      <4>1. NEXT_BLKP(m, bp) \in Int /\ ~(NEXT_BLKP(m, bp) < 1)
        BY <2>2, <3>3, LeadsOn
      <4>2. e[NEXT_BLKP(m, bp)] = f[NEXT_BLKP(m, bp)]
        BY <1>8, <4>1
      <4> QED  BY <3>2, <4>2 DEF Onward
    <3>4. CASE ~(IsTag(m, HDRP(bp)) /\ GET_SIZE(m, HDRP(bp)) # 0)
      BY <3>2, <3>4 DEF Onward
    <3> QED  BY <3>3, <3>4
  <2> QED  BY <2>1, <2>2
<1>11. e = [bp \in Int |-> Onward(m, e, bp)]
  BY <1>9, <1>10
<1> QED  BY <1>11

\* One step along the headers, as a walk takes it.
LEMMA WalkStep ==
    ASSUME NEW m \in Memory, NEW bp \in Int
    PROVE  Walk(m, bp) = IF ~ IsTag(m, HDRP(bp)) THEN <<WILD>>
                         ELSE IF GET_SIZE(m, HDRP(bp)) = 0 THEN << >>
                         ELSE <<bp>> \o Walk(m, NEXT_BLKP(m, bp))
<1> DEFINE f == CHOOSE f : f = [b \in Int |-> Onward(m, f, b)]
<1>1. f = [b \in Int |-> Onward(m, f, b)]
  BY WalkExists
<1>2. \A b : Walk(m, b) = f[b]
  BY DEF Walk, Onward
<1> HIDE DEF f
<1>3. f[bp] = Onward(m, f, bp)
  BY <1>1
<1> QED  BY <1>2, <1>3 DEF Onward
-----------------------------------------------------------------------------
\* W holds the blocks of L from b to the end of the heap, in order.
IsChain(L, brk, b, W) ==
    /\ W \in Seq(Nat)
    /\ b # brk => Len(W) # 0 /\ W[1] = b
    /\ \A k \in 1 .. Len(W) :
          /\ W[k] \in DOMAIN L /\ b <= W[k]
          /\ k = Len(W) => W[k] + L[W[k]].size = brk
          /\ k < Len(W) => W[k + 1] = W[k] + L[W[k]].size
    /\ \A c \in DOMAIN L : b <= c => \E k \in 1 .. Len(W) : W[k] = c

\* W is V with b in front.
IsCons(b, V, W) ==
    /\ W \in Seq(Nat) /\ Len(W) = Len(V) + 1 /\ W[1] = b
    /\ \A k \in 1 .. Len(V) : W[k + 1] = V[k]

\* What prepending to a walk does to its entries.
LEMMA ConsIs ==
    ASSUME NEW b \in Nat, NEW V \in Seq(Nat)
    PROVE  IsCons(b, V, <<b>> \o V)
<1> DEFINE W == <<b>> \o V
<1>1. W \in Seq(Nat) /\ Len(W) = Len(V) + 1
  OBVIOUS
<1>2. W[1] = b
  OBVIOUS
<1>3. \A k \in 1 .. Len(V) : W[k + 1] = V[k]
  OBVIOUS
<1> QED  BY <1>1, <1>2, <1>3 DEF IsCons

\* The walk from a block visits the layout's blocks, in order, to the break.
LEMMA Chain ==
    ASSUME NEW s, NEW L, Tiles(s, L), NEW b \in DOMAIN L \cup {s.brk}
    PROVE  IsChain(L, s.brk, b, Walk(s.mem, b))
<1>1. /\ Layout(L, s.brk) /\ s.mem \in Memory /\ s.brk \in 0 .. MAX_HEAP /\ s.brk \in Nat
  BY AllocatorAssumption DEF Tiles, State, Memory
<1> DEFINE S == {k \in Nat : \A x \in DOMAIN L \cup {s.brk} :
                    s.brk - x <= k => IsChain(L, s.brk, x, Walk(s.mem, x))}
<1>2. \A x \in DOMAIN L : /\ x \in Nat /\ x < s.brk /\ L[x].size \in Nat /\ 1 <= L[x].size
                          /\ x + L[x].size <= s.brk /\ x + L[x].size \in DOMAIN L \cup {s.brk}
                          /\ \A c \in DOMAIN L : c <= x \/ x + L[x].size <= c
  BY <1>1, Placed
<1>9. \A x \in DOMAIN L : x \in Nat /\ x < s.brk
  BY <1>2
<1>3. IsChain(L, s.brk, s.brk, Walk(s.mem, s.brk))
  <2>1. Walk(s.mem, s.brk) = << >>
    <3> DEFINE d == s.brk
    <3>1. IsTag(s.mem, HDRP(d)) /\ GET_SIZE(s.mem, HDRP(d)) = 0 /\ d \in Int
      BY <1>1, Epilogue
    <3> HIDE DEF d
    <3>2. Walk(s.mem, d) = << >>
      BY <1>1, <3>1, WalkStep
    <3> QED  BY <3>2 DEF d
  <2>2. << >> \in Seq(Nat) /\ Len(<< >>) = 0
    OBVIOUS
  <2>3. \A c \in DOMAIN L : ~(s.brk <= c)
    BY <1>1, <1>2
  <2> QED  BY <1>1, <2>1, <2>2, <2>3 DEF IsChain
<1>4. 0 \in S
  <2> SUFFICES ASSUME NEW x \in DOMAIN L \cup {s.brk}, s.brk - x <= 0
               PROVE  IsChain(L, s.brk, x, Walk(s.mem, x))
    OBVIOUS
  <2>1. x = s.brk
    BY <1>1, <1>9
  <2> QED  BY <1>3, <2>1
<1>5. ASSUME NEW k \in Nat, k \in S PROVE k + 1 \in S
  <2> SUFFICES ASSUME NEW x \in DOMAIN L, s.brk - x <= k + 1
               PROVE  IsChain(L, s.brk, x, Walk(s.mem, x))
    BY <1>3
  <2> DEFINE nx == x + L[x].size
             V == Walk(s.mem, nx)
             W == Walk(s.mem, x)
  <2>1. nx \in DOMAIN L \cup {s.brk} /\ s.brk - nx <= k /\ nx \in Nat /\ x \in Nat
    BY <1>1, <1>2
  <2>2. IsChain(L, s.brk, nx, V)
    BY <1>5, <2>1
  <2>3. W = <<x>> \o V
    <3>1. /\ IsTag(s.mem, HDRP(x)) /\ GET_SIZE(s.mem, HDRP(x)) # 0 /\ NEXT_BLKP(s.mem, x) = nx
      BY <1>2, Headers
    <3>2. x \in Int
      BY <2>1
    <3> QED  BY <1>1, <3>1, <3>2, WalkStep
  <2>4. V \in Seq(Nat)
    BY <2>2 DEF IsChain
  <2> HIDE DEF V, W
  <2>5. IsCons(x, V, W)
    BY <2>1, <2>3, <2>4, ConsIs
  <2>6. /\ W \in Seq(Nat) /\ Len(W) = Len(V) + 1 /\ W[1] = x /\ Len(V) \in Nat
        /\ \A j \in 1 .. Len(V) : W[j + 1] = V[j]
    BY <2>4, <2>5 DEF IsCons
  <2>7. /\ nx # s.brk => Len(V) # 0 /\ V[1] = nx
        /\ \A j \in 1 .. Len(V) :
              /\ V[j] \in DOMAIN L /\ nx <= V[j]
              /\ j = Len(V) => V[j] + L[V[j]].size = s.brk
              /\ j < Len(V) => V[j + 1] = V[j] + L[V[j]].size
        /\ \A c \in DOMAIN L : nx <= c => \E j \in 1 .. Len(V) : V[j] = c
    BY <2>2 DEF IsChain
  <2>8. x <= nx /\ nx = x + L[x].size
    BY <1>2
  <2> HIDE DEF nx
  <2>9. ASSUME NEW j \in 1 .. Len(W)
        PROVE  /\ W[j] \in DOMAIN L /\ x <= W[j]
               /\ j = Len(W) => W[j] + L[W[j]].size = s.brk
               /\ j < Len(W) => W[j + 1] = W[j] + L[W[j]].size
    <3>1. CASE j = 1
      <4>1. Len(V) = 0 => nx = s.brk
        BY <2>7
      <4>2. ASSUME Len(V) # 0 PROVE W[1 + 1] = nx
        <5>1. 1 \in 1 .. Len(V)
          BY <2>6, <4>2
        <5>2. W[1 + 1] = V[1] /\ V[1] \in DOMAIN L /\ nx <= V[1]
          BY <2>6, <2>7, <5>1
        <5>3. nx # s.brk
          BY <1>1, <1>9, <2>1, <5>2
        <5> QED  BY <2>7, <5>2, <5>3
      <4> QED  BY <2>1, <2>6, <2>8, <3>1, <4>1, <4>2
    <3>2. CASE j # 1
      <4> DEFINE i == j - 1
      <4>1. i \in 1 .. Len(V) /\ j = i + 1 /\ (i = Len(V) <=> j = Len(W)) /\ (i < Len(V) <=> j < Len(W))
        BY <2>6, <3>2
      <4> HIDE DEF i
      <4>2. /\ V[i] \in DOMAIN L /\ nx <= V[i] /\ W[j] = V[i]
            /\ i = Len(V) => V[i] + L[V[i]].size = s.brk
            /\ i < Len(V) => V[i + 1] = V[i] + L[V[i]].size
        BY <2>6, <2>7, <4>1
      <4>3. ASSUME i < Len(V) PROVE W[j + 1] = V[i + 1]
        <5>1. i + 1 \in 1 .. Len(V) /\ j + 1 = (i + 1) + 1
          BY <2>6, <4>1, <4>3
        <5> QED  BY <2>6, <5>1
      <4>4. x <= V[i]
        BY <1>9, <2>1, <2>8, <4>2
      <4> QED  BY <4>1, <4>2, <4>3, <4>4
    <3> QED  BY <3>1, <3>2
  <2>10. ASSUME NEW c \in DOMAIN L, x <= c PROVE \E j \in 1 .. Len(W) : W[j] = c
    <3>1. c = x \/ nx <= c
      <4>1. c \in Nat /\ (c <= x \/ nx <= c)
        BY <1>2, <2>8
      <4> QED  BY <2>1, <2>10, <4>1
    <3>2. CASE c = x
      BY <2>6, <3>2
    <3>3. CASE nx <= c
      <4>1. PICK j \in 1 .. Len(V) : V[j] = c
        BY <2>7, <3>3
      <4>2. j + 1 \in 1 .. Len(W) /\ W[j + 1] = c
        BY <2>6, <4>1
      <4> QED  BY <4>2
    <3> QED  BY <3>1, <3>2, <3>3
  <2>11. Len(W) # 0
    BY <2>6
  <2>12. IsChain(L, s.brk, x, W)
    BY <2>6, <2>9, <2>10, <2>11 DEF IsChain
  <2> QED  BY <2>12 DEF W
<1>6. \A k \in Nat : k \in S => k + 1 \in S
  BY <1>5
<1> HIDE DEF S
<1>7. Nat \subseteq S
  BY <1>4, <1>6, Induction
<1> USE DEF S
<1>8. s.brk - b \in Nat
  BY <1>1, <1>2
<1> QED  BY <1>7, <1>8

\* A search: the least index, as SelectInSeq has it.
Fit(L, b, asize) == L[b].alloc = 0 /\ asize <= L[b].size

\* The search along a walk stops at a fit, or there is none on it.
LEMMA FoundIs ==
    ASSUME NEW s, NEW L, Tiles(s, L), NEW W, NEW b \in Nat, IsChain(L, s.brk, b, W),
           NEW asize
    PROVE  LET at == Found(s.mem, W, asize)
           IN  \/ at = 0 /\ \A k \in 1 .. Len(W) : ~ Fit(L, W[k], asize)
               \/ at \in 1 .. Len(W) /\ at # 0 /\ Fit(L, W[at], asize)
<1> DEFINE I == {k \in 1 .. Len(W) : W[k] = WILD \/ Fits(s.mem, W[k], asize)}
           at == Found(s.mem, W, asize)
<1>1. at = IF I # {} THEN Min(I) ELSE 0
  BY DEF Found, SelectInSeq
<1>2. \A k \in 1 .. Len(W) : k \in I <=> Fit(L, W[k], asize)
  <2> SUFFICES ASSUME NEW k \in 1 .. Len(W) PROVE k \in I <=> Fit(L, W[k], asize)
    OBVIOUS
  <2>1. W[k] \in DOMAIN L /\ W[k] \in Nat
    BY DEF IsChain
  <2>2. W[k] # WILD
    BY <2>1 DEF WILD
  <2> DEFINE x == W[k]
  <2>3. GET_SIZE(s.mem, HDRP(x)) = L[x].size /\ GET_ALLOC(s.mem, HDRP(x)) = L[x].alloc
    <3>1. x \in DOMAIN L
      BY <2>1
    <3> HIDE DEF x
    <3> QED  BY <3>1, Headers
  <2> QED  BY <2>2, <2>3 DEF Fits, Fit
<1>3. Len(W) \in Nat /\ I \in SUBSET Nat /\ I \subseteq 1 .. Len(W)
  BY DEF IsChain
<1> HIDE DEF I, at
<1>4. CASE I = {}
  BY <1>1, <1>2, <1>4 DEF at
<1>5. CASE I # {}
  <2>1. \E x \in I : \A y \in I : x <= y
    BY <1>3, <1>5, LeastNat
  <2>2. at \in I
    BY <1>1, <1>5, <2>1 DEF Min
  <2>3. at \in 1 .. Len(W) /\ at # 0 /\ Fit(L, W[at], asize)
    BY <1>2, <1>3, <2>2
  <2> QED  BY <2>3 DEF at
<1> QED  BY <1>4, <1>5
-----------------------------------------------------------------------------
(* Searching for a block.                                                  *)
\* The recent position is a block, and the last block ends the heap.
LEMMA AtJust ==
    ASSUME NEW s, NEW L, Tiles(s, L)
    PROVE  /\ \A x : Contains(Walk(s.mem, heap_listp), x) <=> x \in DOMAIN L
           /\ s.just \in DOMAIN L =>
                 end(s) \in DOMAIN L /\ end(s) + L[end(s)].size = s.brk
<1>1. /\ 1 \in DOMAIN L /\ s.brk \notin DOMAIN L
      /\ \A x \in DOMAIN L : 1 <= x /\ x \in Nat
  BY Placed DEF Tiles, State, Layout
<1>2. IsChain(L, s.brk, 1, Walk(s.mem, heap_listp))
  BY <1>1, Chain DEF heap_listp
<1>3. \A x : Contains(Walk(s.mem, heap_listp), x) <=> x \in DOMAIN L
  BY <1>1, <1>2 DEF Contains, IsChain
<1>4. ASSUME s.just \in DOMAIN L
      PROVE  end(s) \in DOMAIN L /\ end(s) + L[end(s)].size = s.brk
  <2> DEFINE W == Walk(s.mem, s.just)
  <2>1. IsChain(L, s.brk, s.just, W)
    BY <1>4, Chain
  <2>2. s.just # s.brk
    BY <1>1, <1>4
  <2>3. end(s) = W[Len(W)]
    BY DEF end, Last
  <2> HIDE DEF W
  <2>4. Len(W) \in 1 .. Len(W)
    BY <2>1, <2>2 DEF IsChain
  <2> QED  BY <2>1, <2>3, <2>4 DEF IsChain
<1> QED  BY <1>3, <1>4

\* next_fit strays when the recent position is no block; otherwise it finds a fit,
\* or there is none in the heap.
LEMMA NextFit ==
    ASSUME NEW s, NEW L, Tiles(s, L), NEW asize
    PROVE  LET r == next_fit(s, asize)
           IN  \/ s.just \notin DOMAIN L /\ r.bp = WILD /\ r.h = s
               \/ s.just \in DOMAIN L /\ r.bp = NULL /\ r.h = s
                  /\ \A b \in DOMAIN L : ~ Fit(L, b, asize)
               \/ /\ s.just \in DOMAIN L /\ r.bp \in DOMAIN L /\ Fit(L, r.bp, asize)
                  /\ r.h = [s EXCEPT !.just = r.bp]
<1> DEFINE whole == Walk(s.mem, heap_listp)
           tail == IF Contains(whole, s.just) THEN Walk(s.mem, s.just) ELSE <<WILD>>
           at == Found(s.mem, tail, asize)
           at2 == Found(s.mem, whole, asize)
           Hit(bp) == Ret(IF bp = WILD THEN s ELSE [s EXCEPT !.just = bp], bp)
           r == next_fit(s, asize)
<1>1. r = IF at # 0 THEN Hit(tail[at]) ELSE IF at2 # 0 THEN Hit(whole[at2]) ELSE Ret(s, NULL)
  BY DEF next_fit
<1>2. Contains(whole, s.just) <=> s.just \in DOMAIN L
  BY AtJust
<1>3. 1 \in DOMAIN L /\ s.brk \notin DOMAIN L /\ \A x \in DOMAIN L : 1 <= x /\ x \in Nat
  BY Placed DEF Tiles, State, Layout
<1> HIDE DEF r
<1>4. CASE s.just \notin DOMAIN L
  <2>1. tail = <<WILD>>
    BY <1>2, <1>4
  <2> HIDE DEF tail
  <2>2. at = 1
    <3> DEFINE I == {k \in 1 .. Len(tail) : tail[k] = WILD \/ Fits(s.mem, tail[k], asize)}
    <3>1. at = IF I # {} THEN Min(I) ELSE 0
      BY DEF Found, SelectInSeq
    <3>2. I = {1}
      BY <2>1
    <3> HIDE DEF I, at
    <3>3. Min(I) \in I
      BY <3>2 DEF Min
    <3> QED  BY <3>1, <3>2, <3>3
  <2>3. tail[at] = WILD
    BY <2>1, <2>2
  <2> HIDE DEF at, whole, at2
  <2> QED  BY <1>1, <1>4, <2>2, <2>3 DEF Ret, r
<1>5. CASE s.just \in DOMAIN L
  <2>1. tail = Walk(s.mem, s.just)
    BY <1>2, <1>5
  <2>2. IsChain(L, s.brk, s.just, tail) /\ s.just \in Nat
    BY <1>3, <1>5, <2>1, Chain
  <2>3. IsChain(L, s.brk, 1, whole)
    BY <1>3, Chain DEF heap_listp
  <2> HIDE DEF whole, tail
  <2>4. \/ at = 0
        \/ at \in 1 .. Len(tail) /\ at # 0 /\ Fit(L, tail[at], asize)
    BY <2>2, FoundIs
  <2>5. \/ at2 = 0 /\ \A k \in 1 .. Len(whole) : ~ Fit(L, whole[k], asize)
        \/ at2 \in 1 .. Len(whole) /\ at2 # 0 /\ Fit(L, whole[at2], asize)
    BY <2>3, FoundIs
  <2>6. \A b \in DOMAIN L : \E k \in 1 .. Len(whole) : whole[k] = b
    BY <1>3, <2>3 DEF IsChain
  <2> HIDE DEF at, at2
  <2>7. \A x \in DOMAIN L : x # WILD
    BY <1>3 DEF WILD
  <2>8. CASE at # 0
    <3>1. tail[at] \in DOMAIN L /\ Fit(L, tail[at], asize)
      BY <2>2, <2>4, <2>8 DEF IsChain
    <3>2. r = Ret([s EXCEPT !.just = tail[at]], tail[at])
      BY <1>1, <2>7, <2>8, <3>1
    <3> HIDE DEF Hit
    <3> QED  BY <1>5, <3>1, <3>2 DEF Ret, r
  <2>9. CASE at = 0 /\ at2 # 0
    <3>1. whole[at2] \in DOMAIN L /\ Fit(L, whole[at2], asize)
      BY <2>3, <2>5, <2>9 DEF IsChain
    <3>2. r = Ret([s EXCEPT !.just = whole[at2]], whole[at2])
      BY <1>1, <2>7, <2>9, <3>1
    <3> HIDE DEF Hit
    <3> QED  BY <1>5, <3>1, <3>2 DEF Ret, r
  <2>10. CASE at = 0 /\ at2 = 0
    <3>1. r.h = s /\ r.bp = NULL
      BY <1>1, <2>10 DEF Ret
    <3>2. \A b \in DOMAIN L : ~ Fit(L, b, asize)
      BY <2>5, <2>6, <2>10
    <3> QED  BY <1>5, <3>1, <3>2 DEF r
  <2> QED  BY <2>8, <2>9, <2>10
<1> QED  BY <1>4, <1>5

\* The request got an allocated block of asize that was none before.
Gets(s, L, r, K, asize) ==
    /\ Good(r.h, K) /\ Same(s, r.h) /\ Kept(s, L, r.h, K, {}) /\ Only(L, K, {r.bp})
    /\ r.bp \in DOMAIN K /\ r.bp # 1 /\ K[r.bp].alloc = 1 /\ K[r.bp].size = asize
    /\ r.bp \in DOMAIN L => L[r.bp].alloc = 0
    /\ s.just \in DOMAIN L /\ r.h.just \in DOMAIN K

\* The request read what is no tag.
Strays(s, L, r) == s.just \notin DOMAIN L /\ r.bp = WILD /\ r.h = s

\* The request found no block, and there is none.
Fails(s, L, r, asize) ==
    /\ s.just \in DOMAIN L /\ r.bp = NULL /\ r.h = s
    /\ \A b \in DOMAIN L : ~ Fit(L, b, asize)

\* A request in the normal mode strays, fails, or gets a block.
LEMMA Normal ==
    ASSUME NEW s, NEW L, Good(s, L), NEW asize \in Nat, asize # 0
    PROVE  LET r == norm_malloc(s, asize)
           IN  Strays(s, L, r) \/ Fails(s, L, r, asize) \/ \E K : Gets(s, L, r, K, asize)
<1> DEFINE fit == next_fit(s, asize)
           e == end(s)
           ext == IF GET_ALLOC(s.mem, HDRP(e)) = 0 THEN asize - GET_SIZE(s.mem, HDRP(e))
                  ELSE IF asize > CHUNKSIZE THEN asize ELSE CHUNKSIZE
           more == extend_heap(s, ext)
           r == norm_malloc(s, asize)
<1>1. r = IF fit.bp # NULL THEN place(fit.h, fit.bp, asize)
          ELSE IF more.bp = NULL THEN more ELSE place(more.h, more.bp, asize)
  BY DEF norm_malloc
<1>2. Tiles(s, L) /\ MergedBut(L, {}) /\ InHeap(s) /\ \A x \in DOMAIN L : x \in Nat /\ 1 <= x
  BY Placed DEF Good, Tiles, State
<1>3. \/ s.just \notin DOMAIN L /\ fit.bp = WILD /\ fit.h = s
      \/ s.just \in DOMAIN L /\ fit.bp = NULL /\ fit.h = s
         /\ \A b \in DOMAIN L : ~ Fit(L, b, asize)
      \/ /\ s.just \in DOMAIN L /\ fit.bp \in DOMAIN L /\ Fit(L, fit.bp, asize)
         /\ fit.h = [s EXCEPT !.just = fit.bp]
  BY <1>2, NextFit
<1> HIDE DEF fit, r
<1>4. CASE s.just \notin DOMAIN L /\ fit.bp = WILD /\ fit.h = s
  <2>1. r = place(s, WILD, asize)
    BY <1>1, <1>4 DEF WILD, NULL
  <2>2. ~ IsTag(s.mem, HDRP(WILD))
    BY <1>2, AllocatorAssumption DEF IsTag, HDRP, WILD, Tiles, State
  <2>3. r.h = s /\ r.bp = WILD
    BY <2>1, <2>2 DEF place, Ret
  <2> QED  BY <1>4, <2>3 DEF Strays, r
<1>5. CASE /\ s.just \in DOMAIN L /\ fit.bp \in DOMAIN L /\ Fit(L, fit.bp, asize)
           /\ fit.h = [s EXCEPT !.just = fit.bp]
  <2> DEFINE t == fit.h
             bp == fit.bp
  <2>1. r = place(t, bp, asize)
    BY <1>1, <1>2, <1>5 DEF NULL
  <2>2. Tiles(t, L) /\ t.brk = s.brk /\ t.just = bp /\ t.mem = s.mem /\ Same(s, t)
    <3>1. bp \in Int
      BY <1>2, <1>5
    <3> QED  BY <1>2, <1>5, <3>1, JustSet
  <2> HIDE DEF t, bp
  <2>3. bp \in DOMAIN L /\ L[bp].alloc = 0 /\ asize <= L[bp].size /\ s.just \in DOMAIN L
    BY <1>5 DEF Fit, bp
  <2>4. Good(t, L)
    <3>1. t.just \in 1 .. t.brk - 1
      BY <2>2, <2>3 DEF Tiles, Layout
    <3> QED  BY <1>2, <2>2, <3>1 DEF Good, InHeap
  <2>5. \E K : IsPlaced(t, L, r, K, bp, asize)
    BY <2>1, <2>3, <2>4, Places
  <2>6. PICK K : /\ r.bp = bp /\ Good(r.h, K) /\ r.h.brk = t.brk /\ Same(t, r.h)
               /\ Steady(t, L, r.h, K) /\ Kept(t, L, r.h, K, {}) /\ Only(L, K, {bp})
               /\ bp # 1 /\ bp \in DOMAIN K /\ K[bp].alloc = 1 /\ K[bp].size = asize
    BY <2>5 DEF IsPlaced
  <2>7. Kept(s, L, r.h, K, {}) /\ Same(s, r.h) /\ r.h.just \in DOMAIN K
    BY <2>2, <2>3, <2>6 DEF Kept, Same, Steady
  <2>8. Gets(s, L, r, K, asize)
    BY <2>3, <2>6, <2>7 DEF Gets
  <2> QED  BY <2>8 DEF r
<1>6. CASE s.just \in DOMAIN L /\ fit.bp = NULL /\ fit.h = s
           /\ \A b \in DOMAIN L : ~ Fit(L, b, asize)
  <2>1. e \in DOMAIN L /\ e + L[e].size = s.brk
    BY <1>2, <1>6, AtJust
  <2> HIDE DEF e
  <2>2. /\ GET_ALLOC(s.mem, HDRP(e)) = L[e].alloc /\ GET_SIZE(s.mem, HDRP(e)) = L[e].size
        /\ L[e].size \in Nat /\ L[e].alloc \in {0, 1}
    <3>1. GET_ALLOC(s.mem, HDRP(e)) = L[e].alloc /\ GET_SIZE(s.mem, HDRP(e)) = L[e].size
      BY <1>2, <2>1, Headers
    <3>2. L[e].size \in Nat /\ L[e].alloc \in {0, 1}
      BY <1>2, <2>1, Placed DEF Tiles, State
    <3> QED  BY <3>1, <3>2
  <2>3. /\ ext \in Nat /\ ext # 0
        /\ L[e].alloc = 0 => L[e].size + ext = asize
        /\ L[e].alloc = 1 => asize <= ext
    <3>1. L[e].alloc = 0 => ~(asize <= L[e].size)
      BY <1>6, <2>1 DEF Fit
    <3>2. ext = IF L[e].alloc = 0 THEN asize - L[e].size
                ELSE IF asize > CHUNKSIZE THEN asize ELSE CHUNKSIZE
      BY <2>2
    <3>3. CHUNKSIZE \in Nat /\ CHUNKSIZE # 0
      BY AllocatorAssumption
    <3> HIDE DEF ext
    <3> QED  BY <2>2, <3>1, <3>2, <3>3
  <2> HIDE DEF ext
  <2>4. \/ more.bp = NULL /\ more.h = s
        \/ \E J : /\ Good(more.h, J) /\ more.h.brk = s.brk + ext /\ Same(s, more.h)
                  /\ Steady(s, L, more.h, J) /\ Kept(s, L, more.h, J, {}) /\ Only(L, J, {})
                  /\ more.bp \in DOMAIN J /\ J[more.bp].alloc = 0 /\ ext <= J[more.bp].size
                  /\ \A p \in DOMAIN L :
                        p + L[p].size = s.brk /\ L[p].alloc = 0
                            => L[p].size + ext <= J[more.bp].size
    BY <2>3, Extends
  <2> HIDE DEF more
  <2>5. CASE more.bp = NULL /\ more.h = s
    <3>1. r = more
      BY <1>1, <1>6, <2>5
    <3>2. Fails(s, L, r, asize)
      BY <1>6, <2>5, <3>1 DEF Fails
    <3> QED  BY <3>2 DEF r
  <2>6. CASE \E J : /\ Good(more.h, J) /\ more.h.brk = s.brk + ext /\ Same(s, more.h)
                  /\ Steady(s, L, more.h, J) /\ Kept(s, L, more.h, J, {}) /\ Only(L, J, {})
                  /\ more.bp \in DOMAIN J /\ J[more.bp].alloc = 0 /\ ext <= J[more.bp].size
                  /\ \A p \in DOMAIN L :
                        p + L[p].size = s.brk /\ L[p].alloc = 0
                            => L[p].size + ext <= J[more.bp].size
    <3> DEFINE t == more.h
               bp == more.bp
    <3> HIDE DEF t, bp
    <3>1. PICK J : /\ Good(t, J) /\ t.brk = s.brk + ext /\ Same(s, t)
                  /\ Steady(s, L, t, J) /\ Kept(s, L, t, J, {}) /\ Only(L, J, {})
                  /\ bp \in DOMAIN J /\ J[bp].alloc = 0 /\ ext <= J[bp].size
                  /\ \A p \in DOMAIN L :
                        p + L[p].size = s.brk /\ L[p].alloc = 0
                            => L[p].size + ext <= J[bp].size
      BY <2>6 DEF t, bp
    <3>2. bp \in Nat /\ 1 <= bp /\ J[bp].size \in Nat
      BY <3>1, Placed DEF Good, Tiles, State
    <3>3. asize <= J[bp].size
      <4>1. CASE L[e].alloc = 0
        BY <2>1, <2>3, <3>1, <4>1
      <4>2. CASE L[e].alloc = 1
        BY <2>3, <3>1, <3>2, <4>2
      <4> QED  BY <2>2, <4>1, <4>2
    <3>4. r = place(t, bp, asize)
      <4>1. more.bp # NULL
        BY <3>2 DEF NULL, bp
      <4> QED  BY <1>1, <1>6, <4>1 DEF t, bp
    <3>5. \E K : IsPlaced(t, J, r, K, bp, asize)
      <4>1. Good(t, J) /\ bp \in DOMAIN J /\ J[bp].alloc = 0
        BY <3>1
      <4> QED  BY <3>3, <3>4, <4>1, Places
    <3>6. PICK K : /\ r.bp = bp /\ Good(r.h, K) /\ r.h.brk = t.brk /\ Same(t, r.h)
                 /\ Steady(t, J, r.h, K) /\ Kept(t, J, r.h, K, {}) /\ Only(J, K, {bp})
                 /\ bp # 1 /\ bp \in DOMAIN K /\ K[bp].alloc = 1 /\ K[bp].size = asize
      BY <3>5 DEF IsPlaced
    <3>7. Kept(s, L, r.h, K, {})
      BY <3>1, <3>6 DEF Kept
    <3>8. Same(s, r.h) /\ r.h.just \in DOMAIN K /\ Only(L, K, {bp})
      BY <1>6, <3>1, <3>6 DEF Same, Steady, Only
    <3>9. bp \in DOMAIN L => L[bp].alloc = 0
      <4>1. bp \in DOMAIN L => L[bp].alloc \in {0, 1}
        BY <1>2, Placed DEF Tiles, State
      <4> QED  BY <3>1, <4>1 DEF Kept
    <3>10. Gets(s, L, r, K, asize)
      BY <1>6, <3>6, <3>7, <3>8, <3>9 DEF Gets
    <3> QED  BY <3>10 DEF r
  <2> QED  BY <2>4, <2>5, <2>6
<1> QED  BY <1>3, <1>4, <1>5, <1>6
-----------------------------------------------------------------------------
(* malloc.  The modes of mm.c leave a trace: TR is not 0.                  *)
LEMMA Rounds ==
    ASSUME NEW size \in Nat, size # 0
    PROVE  /\ Rounded(size) \in Nat /\ Rounded(size) # 0
           /\ size <= 2 * (Rounded(size) - 1)
           /\ \A z \in Nat : z < Rounded(size) => 2 * z - 2 < size
BY DEF Rounded, WSIZE, DSIZE

Moded(s, t) == "TR" \in DOMAIN s /\ s.TR = t

\* Writing tags leaves a selected mode as it is.
LEMMA TagModed ==
    ASSUME NEW s, NEW t, Moded(s, t), NEW bp, NEW z, NEW al
    PROVE  Moded(Tag(s, bp, z, al), t)
BY DEF Tag, Moded

\* So does coalesce,
LEMMA CoalesceModed ==
    ASSUME NEW s, NEW t, Moded(s, t), NEW bp
    PROVE  Moded(coalesce(s, bp).h, t)
<1> DEFINE m == s.mem
           prev == PREV_BLKP(m, bp)
           next == NEXT_BLKP(m, bp)
           prev_alloc == GET_ALLOC(m, FTRP(m, prev))
           next_alloc == GET_ALLOC(m, HDRP(next))
           first == IF prev_alloc = 1 THEN bp ELSE prev
           size == GET_SIZE(m, HDRP(bp))
                   + (IF prev_alloc = 1 THEN 0 ELSE GET_SIZE(m, HDRP(prev)))
                   + (IF next_alloc = 1 THEN 0 ELSE GET_SIZE(m, HDRP(next)))
<1>1. coalesce(s, bp) = IF prev_alloc = 1 /\ next_alloc = 1 THEN Ret(s, bp)
                        ELSE Ret(Settle(Tag(s, first, size, 0), first, size), first)
  BY DEF coalesce
<1> HIDE DEF first, size, prev_alloc, next_alloc
<1> DEFINE u == Tag(s, first, size, 0)
<1>2. Moded(u, t)
  BY TagModed
<1> HIDE DEF u
<1>3. Moded(Settle(u, first, size), t)
  <2> DEFINE j == IF first < u.just /\ u.just < first + size THEN first ELSE u.just
  <2>1. Settle(u, first, size) = [u EXCEPT !.just = j]
    BY DEF Settle
  <2> HIDE DEF j
  <2> QED  BY <1>2, <2>1 DEF Moded
<1>4. coalesce(s, bp).h = s \/ coalesce(s, bp).h = Settle(u, first, size)
  BY <1>1 DEF Ret, u
<1> QED  BY <1>3, <1>4

\* so does extend_heap,
LEMMA ExtendModed ==
    ASSUME NEW s, NEW t, Moded(s, t), NEW z
    PROVE  Moded(extend_heap(s, z).h, t)
<1> DEFINE got == mem_sbrk(s, z)
           c == got.h
           u == Tag(c, got.bp, z, 0)
           v == NewTail(c, got.bp, z)
<1>1. Moded(c, t)
  BY DEF mem_sbrk, Ret, Moded
<1>2. extend_heap(s, z).h = c \/ extend_heap(s, z).h = coalesce(v, got.bp).h
  BY DEF extend_heap
<1> HIDE DEF c
<1>3. Moded(u, t)
  BY <1>1, TagModed
<1>4. v = [u EXCEPT !.mem[HDRP(got.bp + z)] = PACK(0, 1)]
  BY DEF NewTail
<1> HIDE DEF u, v, got
<1>5. Moded(v, t)
  BY <1>3, <1>4 DEF Moded
<1> QED  BY <1>1, <1>2, <1>5, CoalesceModed

\* A first request that selects a mode sets it, and returns a block.
LEMMA FirstModed ==
    ASSUME NEW s \in State, NEW t \in 1 .. 3, NEW size
    PROVE  /\ Moded(first_malloc(s, t, size).h, t)
           /\ first_malloc(s, t, size).bp \in Nat /\ first_malloc(s, t, size).bp # NULL
<1> DEFINE c == IF t = 1 THEN R ELSE Q[t]
           s1 == [s EXCEPT !.TR = t, !.Q_no = IF t = 1 THEN @ ELSE @ + 1]
           s2 == extend_heap(s1, c.EXTH).h
           bp == heap_listp + c.OSINIT
           oldbp == NEXT_BLKP(s2.mem, heap_listp)
           asize == Rounded(size)
           r == first_malloc(s, t, size)
<1>1. r = add(s2, bp, oldbp, asize)
  BY DEF first_malloc
<1>2. Moded(s1, t)
  BY DEF Moded, State
<1>3. bp \in Nat /\ bp # NULL
  <2>1. c.OSINIT \in Nat
    BY AllocatorAssumption
  <2> HIDE DEF c
  <2> QED  BY <2>1 DEF heap_listp, NULL
<1> HIDE DEF s1, c
<1>4. Moded(s2, t)
  BY <1>2, ExtendModed
<1> HIDE DEF s2, bp, oldbp, asize, r
<1> DEFINE size1 == bp - oldbp
           size2 == GET_SIZE(s2.mem, HDRP(oldbp)) - size1 - asize
           left == IF size1 > 0 THEN Tag(s2, oldbp, size1, 0) ELSE s2
           mid == Tag(left, bp, asize, 1)
<1>5. r.bp = bp /\ r.h = IF size2 > 0 THEN Tag(mid, bp + asize, size2, 0) ELSE mid
  BY <1>1 DEF add, Ret
<1> HIDE DEF size1, size2
<1>6. Moded(left, t)
  BY <1>4, TagModed
<1> HIDE DEF left
<1>7. Moded(mid, t)
  BY <1>6, TagModed
<1> HIDE DEF mid
<1>8. Moded(r.h, t)
  BY <1>5, <1>7, TagModed
<1> QED  BY <1>3, <1>5, <1>8 DEF r

\* Only the first request of a trace differs from the others.
Begun(s) == [s EXCEPT !.fmalloc = FALSE]

\* Clearing the flag of the first request changes nothing else.
LEMMA BegunIs ==
    ASSUME NEW s, NEW L, Good(s, L)
    PROVE  LET t == Begun(s)
           IN  Good(t, L) /\ t.mem = s.mem /\ t.brk = s.brk /\ t.just = s.just
               /\ t.TR = s.TR /\ t.Q_no = s.Q_no
<1>1. LET t == Begun(s)
      IN  t \in State /\ t.mem = s.mem /\ t.brk = s.brk /\ t.just = s.just
          /\ t.TR = s.TR /\ t.Q_no = s.Q_no
  BY DEF Begun, State, Good, Tiles
<1> QED  BY <1>1 DEF Good, Tiles, InHeap

\* The sizes of a first request that select a mode.
Firsts == {R.FIRST, Q[2].FIRST, Q[3].FIRST}

\* The request has selected a mode.
Select(r, size) ==
    /\ size \in Firsts
    /\ Moded(r.h, r.h.TR) /\ r.h.TR # 0 /\ r.bp \in Nat /\ r.bp # NULL

\* In the normal mode a request gets a block, finds none, strays, or has
\* selected a mode.
LEMMA Requests ==
    ASSUME NEW s, NEW L, Good(s, L), s.TR = 0, NEW size \in Nat, size # 0
    PROVE  LET r == mm_malloc(s, size)
               t == Begun(s)
           IN  \/ Select(r, size)
               \/ Strays(t, L, r) \/ Fails(t, L, r, Rounded(size))
               \/ \E K : Gets(t, L, r, K, Rounded(size))
<1> DEFINE t == Begun(s)
           r == mm_malloc(s, size)
<1>1. Good(t, L) /\ t.TR = 0 /\ t \in State
  BY BegunIs DEF Good, Tiles
<1>2. \/ size \in Firsts /\ \E x \in 1 .. 3 : r = first_malloc(t, x, size)
      \/ r = norm_malloc(t, Rounded(size))
  BY <1>1 DEF mm_malloc, Begun, Firsts
<1> HIDE DEF t, r
<1>3. CASE r = norm_malloc(t, Rounded(size))
  <2> DEFINE asize == Rounded(size)
  <2>1. asize \in Nat /\ asize # 0
    BY Rounds
  <2> HIDE DEF asize
  <2>2. Strays(t, L, r) \/ Fails(t, L, r, asize) \/ \E K : Gets(t, L, r, K, asize)
    <3>1. r = norm_malloc(t, asize)
      BY <1>3 DEF asize
    <3> QED  BY <1>1, <2>1, <3>1, Normal
  <2> QED  BY <2>2 DEF asize, t, r
<1>4. CASE size \in Firsts /\ \E x \in 1 .. 3 : r = first_malloc(t, x, size)
  <2>1. PICK x \in 1 .. 3 : r = first_malloc(t, x, size)
    BY <1>4
  <2>2. Moded(r.h, x) /\ r.bp \in Nat /\ r.bp # NULL
    BY <1>1, <2>1, FirstModed
  <2> QED  BY <1>4, <2>2 DEF Moded, Select, t, r
<1> QED  BY <1>2, <1>3, <1>4
-----------------------------------------------------------------------------
(* realloc.                                                                *)
\* c is s with z double words copied.
IsCopied(s, c, dst, src, z) ==
    /\ c \in State /\ c.brk = s.brk /\ c.just = s.just /\ Same(s, c)
    /\ \A w \in 2 * dst .. 2 * (dst + z) - 1 : c.mem[w] = s.mem[w + 2 * (src - dst)]
    /\ \A w \in 0 .. 2 * MAX_HEAP - 1 :
          w < 2 * dst \/ 2 * (dst + z) - 1 < w => c.mem[w] = s.mem[w]

\* The copy writes what it was told to, double words from src to dst, and no others.
LEMMA CopyIs ==
    ASSUME NEW s \in State, NEW dst \in Nat, NEW src \in Nat, NEW z \in Nat,
           dst + z <= MAX_HEAP, src + z <= MAX_HEAP
    PROVE  IsCopied(s, Copy(s, dst, src, z), dst, src, z)
<1> DEFINE far == 2 * (src - dst)
           mem == [w \in DOMAIN s.mem |->
                     IF w \in 2 * dst .. 2 * (dst + z) - 1 THEN s.mem[w + far] ELSE s.mem[w]]
           c == Copy(s, dst, src, z)
<1>1. MAX_HEAP \in Nat
  BY AllocatorAssumption
<1>2. DOMAIN s.mem = 0 .. 2 * MAX_HEAP - 1 /\ s.mem \in [0 .. 2 * MAX_HEAP - 1 -> Words]
  BY DEF State
<1>3. far \in Int /\ \A w \in 2 * dst .. 2 * (dst + z) - 1 :
         w \in 0 .. 2 * MAX_HEAP - 1 /\ w + far \in 0 .. 2 * MAX_HEAP - 1
  BY <1>1
<1>4. c = [s EXCEPT !.mem = mem]
  BY DEF Copy
<1> HIDE DEF far, c
<1>5. mem \in [0 .. 2 * MAX_HEAP - 1 -> Words]
  BY <1>2, <1>3
<1>6. /\ \A w \in 2 * dst .. 2 * (dst + z) - 1 : mem[w] = s.mem[w + far]
      /\ \A w \in 0 .. 2 * MAX_HEAP - 1 :
            w < 2 * dst \/ 2 * (dst + z) - 1 < w => mem[w] = s.mem[w]
  BY <1>2, <1>3
<1> HIDE DEF mem
<1>7. /\ c \in State /\ c.brk = s.brk /\ c.just = s.just /\ c.mem = mem
      /\ c.fmalloc = s.fmalloc /\ c.TR = s.TR /\ c.Q_no = s.Q_no
  BY <1>4, <1>5 DEF State
<1> QED  BY <1>6, <1>7 DEF IsCopied, Same, far, c

\* The block at ptr is now the one at r.bp, has asize double words, and keeps
\* what fits in it.
Moved(s, L, r, K, ptr, asize) ==
    /\ Good(r.h, K) /\ r.h.TR = s.TR /\ Kept(s, L, r.h, K, {ptr}) /\ Only(L, K, {r.bp})
    /\ r.bp \in DOMAIN K /\ r.bp # 1 /\ K[r.bp].alloc = 1 /\ K[r.bp].size = asize
    /\ r.bp \in DOMAIN L => r.bp = ptr \/ L[r.bp].alloc = 0
    /\ ptr \in DOMAIN K => ptr = r.bp \/ K[ptr].alloc = 0
    /\ \A k \in Nat : k < 2 * L[ptr].size - 2 /\ k < 2 * asize - 2 =>
          r.h.mem[2 * r.bp + k] = s.mem[2 * ptr + k]
    /\ s.just \in DOMAIN L =>
          r.h.just \in DOMAIN K \/ (L[ptr].size < asize /\ r.bp <= ptr)

\* The tot double words at first hold the block at ptr and free ones.
LEMMA Regrown ==
    ASSUME NEW s, NEW L, Good(s, L), NEW ptr \in DOMAIN L, ptr # 1,
           NEW first \in DOMAIN L, first # 1, first <= ptr,
           NEW tot \in Nat, first + tot \in DOMAIN L \cup {s.brk}, ptr < first + tot,
           \A b \in DOMAIN L : first <= b /\ b < first + tot => b = ptr \/ L[b].alloc = 0,
           first + tot \in DOMAIN L => L[first + tot].alloc = 1,
           NEW asize \in Nat, asize <= tot, L[ptr].size < asize,
           NEW c \in State, c.brk = s.brk, c.just = s.just, Same(s, c),
           Outside(s, c, first, tot),
           \A w \in 2 * first .. 2 * (first + L[ptr].size) - 1 :
              c.mem[w] = s.mem[w + 2 * (ptr - first)]
    PROVE  Moved(s, L, Spread(c, first, asize, tot - asize), Cut(L, first, tot, asize, 1),
                 ptr, asize)
<1> DEFINE t == Parted(c, first, tot, asize, 1)
           K == Cut(L, first, tot, asize, 1)
           r == Spread(c, first, asize, tot - asize)
<1>1. /\ Tiles(s, L) /\ MergedBut(L, {}) /\ InHeap(s) /\ Layout(L, s.brk)
      /\ s.brk \in 0 .. MAX_HEAP
  BY DEF Good, Tiles, State
<1>2. /\ ptr \in Nat /\ first \in Nat /\ L[ptr].size \in Nat /\ 1 <= L[ptr].size
      /\ asize \in 1 .. tot /\ 1 \in 0 .. 1
  <2>1. ptr \in Nat /\ first \in Nat /\ L[ptr].size \in Nat /\ 1 <= L[ptr].size
    BY <1>1, Placed
  <2> QED  BY <2>1
<1>3. r.h = t /\ r.bp = first
  BY DEF Spread, Parted, Ret
<1> HIDE DEF t, K, r
<1>4. IsParted(s, L, c, t, K, first, tot, asize, 1)
  BY <1>1, <1>2, Parts DEF t, K
<1>5. /\ first \in DOMAIN K /\ K[first].size = asize /\ K[first].alloc = 1
      /\ asize < tot => /\ first + asize \in DOMAIN K /\ K[first + asize].size = tot - asize
                        /\ K[first + asize].alloc = 0
      /\ \A b \in DOMAIN K : b = first \/ (asize < tot /\ b = first + asize)
            \/ (b \in DOMAIN L /\ (b < first \/ first + tot <= b) /\ K[b] = L[b])
      /\ \A b \in DOMAIN L : b < first \/ first + tot <= b => b \in DOMAIN K /\ K[b] = L[b]
  BY <1>1, <1>2, CutIs DEF K
<1>6. \A b \in DOMAIN L : b \in Nat /\ L[b].alloc \in {0, 1}
  BY <1>1, Placed
<1>7. Kept(s, L, t, K, {ptr})
  <2>1. Kept(s, L, t, K, first .. first + tot - 1)
    BY <1>4 DEF IsParted
  <2>2. \A b \in DOMAIN L : L[b].alloc = 1 /\ b \notin {ptr} => b \notin first .. first + tot - 1
    BY <1>2, <1>6
  <2> QED  BY <2>1, <2>2 DEF Kept
<1>8. MergedBut(K, {})
  <2> SUFFICES ASSUME NEW b \in DOMAIN K, b + K[b].size \in DOMAIN K
               PROVE  K[b].alloc = 1 \/ K[b + K[b].size].alloc = 1
    BY DEF MergedBut
  <2>1. CASE b = first
    BY <1>5, <2>1
  <2>2. CASE asize < tot /\ b = first + asize
    <3>1. b + K[b].size = first + tot
      BY <1>2, <1>5, <2>2
    <3>2. first + tot \in DOMAIN L /\ K[first + tot] = L[first + tot]
      BY <1>2, <1>5, <2>2, <3>1
    <3> QED  BY <3>1, <3>2
  <2>3. CASE b \in DOMAIN L /\ (b < first \/ first + tot <= b) /\ K[b] = L[b]
    <3>1. /\ b \in Nat /\ L[b].size \in Nat /\ 1 <= L[b].size
          /\ \A x \in DOMAIN L : x <= b \/ b + L[b].size <= x
      BY <1>1, <2>3, Placed
    <3>2. CASE b + L[b].size = first
      BY <1>5, <2>3, <3>2
    <3>3. CASE b + L[b].size # first
      <4>1. b < first => b + L[b].size <= first
        BY <1>2, <3>1
      <4>2. /\ b + L[b].size # first + asize \/ ~(asize < tot)
            /\ b + L[b].size \in DOMAIN L /\ K[b + L[b].size] = L[b + L[b].size]
        BY <1>2, <1>5, <2>3, <3>1, <3>3, <4>1
      <4> QED  BY <1>1, <2>3, <4>2 DEF MergedBut
    <3> QED  BY <3>2, <3>3
  <2> QED  BY <1>5, <2>1, <2>2, <2>3
<1>9. Good(t, K) /\ t.TR = s.TR /\ Only(L, K, {first})
  <2>1. t.just \in 1 .. t.brk - 1
    BY <1>1, <1>4 DEF IsParted, InHeap
  <2> QED  BY <1>4, <1>8, <2>1 DEF Good, IsParted, InHeap, Same
<1>10. ptr \in DOMAIN K => ptr = first \/ K[ptr].alloc = 0
  BY <1>2, <1>5
<1>11. ASSUME NEW k \in Nat, k < 2 * L[ptr].size - 2, k < 2 * asize - 2
       PROVE  t.mem[2 * first + k] = s.mem[2 * ptr + k]
  <2> DEFINE w == 2 * first + k
  <2>1. /\ w \in 2 * first .. 2 * (first + asize) - 3
        /\ w \in 2 * first .. 2 * (first + L[ptr].size) - 1
        /\ w + 2 * (ptr - first) = 2 * ptr + k
    BY <1>2, <1>11
  <2> HIDE DEF w
  <2>2. t.mem[w] = c.mem[w]
    BY <1>4, <2>1 DEF IsParted
  <2>3. c.mem[w] = s.mem[w + 2 * (ptr - first)]
    BY <2>1
  <2> QED  BY <2>1, <2>2, <2>3 DEF w
<1>12. Moved(s, L, r, K, ptr, asize)
  <2>1. first \in DOMAIN L => first = ptr \/ L[first].alloc = 0
    BY <1>2
  <2> QED  BY <1>3, <1>5, <1>7, <1>9, <1>10, <1>11, <2>1 DEF Moved
<1> QED  BY <1>12 DEF r, K

\* A smaller block: the rest of it is freed.
LEMMA Shrunk ==
    ASSUME NEW s, NEW L, Good(s, L), NEW ptr \in DOMAIN L, ptr # 1, L[ptr].alloc = 1,
           NEW asize \in Nat, asize # 0, asize < L[ptr].size
    PROVE  LET cut == Tag(Tag(s, ptr, asize, 1), ptr + asize, L[ptr].size - asize, 0)
               r == Ret(coalesce(cut, ptr + asize).h, ptr)
           IN  \E K : Moved(s, L, r, K, ptr, asize)
<1> DEFINE z == L[ptr].size
           t == Parted(s, ptr, z, asize, 1)
           J == Cut(L, ptr, z, asize, 1)
           rest == ptr + asize
           u == coalesce(t, rest).h
<1>1. /\ Tiles(s, L) /\ MergedBut(L, {}) /\ InHeap(s) /\ Layout(L, s.brk)
      /\ s.brk \in 0 .. MAX_HEAP
  BY DEF Good, Tiles, State
<1>2. /\ ptr \in Nat /\ z \in Nat /\ asize \in 1 .. z /\ 1 \in 0 .. 1 /\ asize < z
      /\ ptr + z \in DOMAIN L \cup {s.brk} /\ L[ptr].alloc = 1
      /\ \A b \in DOMAIN L : b \in Nat /\ (b <= ptr \/ ptr + z <= b)
  <2>1. ptr \in Nat /\ z \in Nat /\ ptr + z \in DOMAIN L \cup {s.brk}
      /\ \A b \in DOMAIN L : (b <= ptr \/ ptr + z <= b)
    BY <1>1, Placed
  <2>2. \A b \in DOMAIN L : b \in Nat
    BY <1>1, Placed
  <2> QED  BY <2>1, <2>2
<1>3. t = Tag(Tag(s, ptr, asize, 1), rest, z - asize, 0)
  <2>1. z - asize > 0
    BY <1>2
  <2> QED  BY <2>1 DEF Parted
<1> HIDE DEF z, t, J
<1>4. IsParted(s, L, s, t, J, ptr, z, asize, 1)
  BY <1>1, <1>2, Marks DEF t, J
<1>5. /\ ptr \in DOMAIN J /\ J[ptr].size = asize /\ J[ptr].alloc = 1 /\ J[ptr] = PACK(asize, 1)
      /\ rest \in DOMAIN J /\ J[rest].size = z - asize /\ J[rest].alloc = 0
      /\ \A b \in DOMAIN J : b = ptr \/ b = rest
            \/ (b \in DOMAIN L /\ (b < ptr \/ ptr + z <= b) /\ J[b] = L[b])
      /\ \A b \in DOMAIN L : b < ptr \/ ptr + z <= b => b \in DOMAIN J /\ J[b] = L[b]
  BY <1>1, <1>2, CutIs DEF J
<1>6. Kept(s, L, t, J, {ptr}) /\ Only(L, J, {ptr})
  <2>1. Kept(s, L, t, J, ptr .. ptr + z - 1) /\ Only(L, J, {ptr})
    BY <1>4 DEF IsParted
  <2>2. \A b \in DOMAIN L : b \notin {ptr} => b \notin ptr .. ptr + z - 1
    BY <1>2
  <2> QED  BY <2>1, <2>2 DEF Kept
<1>7. Tiles(t, J) /\ InHeap(t) /\ MergedBut(J, {rest}) /\ Steady(s, L, t, J) /\ t.TR = s.TR
  <2>1. t.just \in 1 .. t.brk - 1
    BY <1>1, <1>4 DEF IsParted, InHeap
  <2>2. MergedBut(J, {rest})
    <3> SUFFICES ASSUME NEW b \in DOMAIN J, b + J[b].size \in DOMAIN J,
                        b # rest, b + J[b].size # rest
                 PROVE  J[b].alloc = 1 \/ J[b + J[b].size].alloc = 1
      BY DEF MergedBut
    <3>1. CASE b = ptr
      BY <1>5, <3>1
    <3>2. CASE b \in DOMAIN L /\ (b < ptr \/ ptr + z <= b) /\ J[b] = L[b]
      <4>1. CASE b + L[b].size = ptr
        BY <1>5, <3>2, <4>1
      <4>2. CASE b + L[b].size # ptr
        <5>1. b + L[b].size \in DOMAIN L /\ J[b + L[b].size] = L[b + L[b].size]
          BY <1>5, <3>2, <4>2
        <5> QED  BY <1>1, <3>2, <5>1 DEF MergedBut
      <4> QED  BY <4>1, <4>2
    <3> QED  BY <1>5, <3>1, <3>2
  <2>3. Steady(s, L, t, J)
    BY <1>2, <1>4, <1>5 DEF IsParted, Steady
  <2> QED  BY <1>4, <2>1, <2>2, <2>3 DEF IsParted, InHeap, Same
<1> HIDE DEF rest
<1>8. PICK K : /\ Good(u, K) /\ u.brk = t.brk /\ Same(t, u) /\ Kept(t, J, u, K, {})
               /\ Only(J, K, {}) /\ Steady(t, J, u, K)
  <2>1. rest \in DOMAIN J /\ J[rest].alloc = 0
    BY <1>5
  <2> QED  BY <1>7, <2>1, Coalesced
<1> HIDE DEF u
<1> DEFINE r == Ret(u, ptr)
<1>9. r.h = u /\ r.bp = ptr
  BY DEF Ret
<1> HIDE DEF r
<1>10. /\ ptr \in DOMAIN K /\ K[ptr] = J[ptr]
       /\ \A w \in 2 * ptr .. 2 * (ptr + asize) - 3 : u.mem[w] = s.mem[w]
  <2>1. /\ ptr \in DOMAIN K /\ K[ptr] = J[ptr]
        /\ \A w \in 2 * ptr .. 2 * (ptr + J[ptr].size) - 3 : u.mem[w] = t.mem[w]
    BY <1>5, <1>8 DEF Kept
  <2>2. \A w \in 2 * ptr .. 2 * (ptr + asize) - 3 : t.mem[w] = s.mem[w]
    BY <1>4 DEF IsParted
  <2> QED  BY <1>5, <2>1, <2>2
<1>11. ASSUME NEW k \in Nat, k < 2 * asize - 2 PROVE u.mem[2 * ptr + k] = s.mem[2 * ptr + k]
  <2>1. 2 * ptr + k \in 2 * ptr .. 2 * (ptr + asize) - 3
    BY <1>2, <1>11
  <2> QED  BY <1>10, <2>1
<1>12. Kept(s, L, u, K, {ptr}) /\ Only(L, K, {ptr})
  BY <1>6, <1>8 DEF Kept, Only
<1>13. s.just \in DOMAIN L => u.just \in DOMAIN K
  BY <1>7, <1>8 DEF Steady
<1>14. u.TR = s.TR
  BY <1>7, <1>8 DEF Same
<1>15. Moved(s, L, r, K, ptr, asize)
  BY <1>2, <1>5, <1>8, <1>9, <1>10, <1>11, <1>12, <1>13, <1>14 DEF Moved
<1>16. Ret(coalesce(Tag(Tag(s, ptr, asize, 1), ptr + asize, L[ptr].size - asize, 0),
                    ptr + asize).h, ptr) = r
  BY <1>3 DEF r, u, rest, z
<1> QED  BY <1>15, <1>16
-----------------------------------------------------------------------------
\* mm_free leaves a selected mode as it is,
LEMMA FreeModed ==
    ASSUME NEW s, NEW t, Moded(s, t), NEW bp
    PROVE  Moded(mm_free(s, bp), t)
<1> DEFINE u == Tag(s, bp, GET_SIZE(s.mem, HDRP(bp)), 0)
<1>1. Moded(u, t)
  BY TagModed
<1>2. mm_free(s, bp) = s \/ mm_free(s, bp) = coalesce(u, bp).h
  BY DEF mm_free
<1> HIDE DEF u
<1> QED  BY <1>1, <1>2, CoalesceModed

\* so does the copy.
LEMMA CopyModed ==
    ASSUME NEW s, NEW t, Moded(s, t), NEW dst, NEW src, NEW z
    PROVE  Moded(Copy(s, dst, src, z), t)
BY DEF Copy, Moded

\* What a realloc comes to.
Regets(s, L, r, ptr, size) ==
    \/ Select(r, size)
    \/ Strays(Begun(s), L, r)
    \/ Fails(Begun(s), L, r, Rounded(size))
    \/ \E K : Moved(s, L, r, K, ptr, Rounded(size))

\* A new block is filled before the old one is freed.
LEMMA Replaced ==
    ASSUME NEW s, NEW L, Good(s, L), s.TR = 0, NEW ptr \in DOMAIN L, ptr # 1,
           L[ptr].alloc = 1, NEW asize \in Nat, L[ptr].size < asize,
           NEW new, NEW J, Gets(Begun(s), L, new, J, asize)
    PROVE  LET r == Ret(mm_free(Copy(new.h, new.bp, ptr, L[ptr].size), ptr), new.bp)
           IN  \E K : Moved(s, L, r, K, ptr, asize)
<1> DEFINE z == L[ptr].size
           t == new.h
           bp == new.bp
           c == Copy(t, bp, ptr, z)
           u == mm_free(c, ptr)
           r == Ret(u, bp)
<1>1. /\ Tiles(s, L) /\ Layout(L, s.brk) /\ s.brk \in 0 .. MAX_HEAP /\ ptr \in Nat
      /\ z \in Nat /\ 1 <= z /\ z < asize
  <2>1. Tiles(s, L) /\ Layout(L, s.brk) /\ s.brk \in 0 .. MAX_HEAP
    BY DEF Good, Tiles, State
  <2> QED  BY <2>1, Placed
<1>2. /\ Good(Begun(s), L) /\ Begun(s).mem = s.mem /\ Begun(s).just = s.just
      /\ Begun(s).TR = s.TR
  BY BegunIs
<1>3. /\ Good(t, J) /\ t.TR = s.TR /\ Kept(s, L, t, J, {}) /\ Only(L, J, {bp})
      /\ bp \in DOMAIN J /\ bp # 1 /\ J[bp].alloc = 1 /\ J[bp].size = asize
      /\ bp \in DOMAIN L => L[bp].alloc = 0
      /\ s.just \in DOMAIN L /\ t.just \in DOMAIN J
  BY <1>2 DEF Gets, Same, Kept
<1>4. bp # ptr /\ ptr \in DOMAIN J /\ J[ptr] = L[ptr]
      /\ \A w \in 2 * ptr .. 2 * (ptr + z) - 3 : t.mem[w] = s.mem[w]
  BY <1>3 DEF Kept
<1>5. r.h = u /\ r.bp = bp
  BY DEF Ret
<1> HIDE DEF z, t, bp, c, u, r
<1>6. /\ Tiles(t, J) /\ MergedBut(J, {}) /\ InHeap(t) /\ t \in State /\ t.brk \in Nat
      /\ t.brk <= MAX_HEAP /\ bp \in Nat /\ bp + asize <= t.brk /\ ptr + z <= t.brk
  <2>1. /\ Tiles(t, J) /\ MergedBut(J, {}) /\ InHeap(t) /\ t \in State /\ Layout(J, t.brk)
        /\ t.brk \in 0 .. MAX_HEAP /\ MAX_HEAP \in Nat
    BY <1>3, AllocatorAssumption DEF Good, Tiles, State
  <2>2. bp \in Nat /\ bp + asize <= t.brk
    BY <1>3, <2>1, Placed
  <2>3. ptr + z <= t.brk
    BY <1>4, <2>1, Placed DEF z
  <2> QED  BY <2>1, <2>2, <2>3
<1>7. IsCopied(t, c, bp, ptr, z)
  <2>1. bp + z <= MAX_HEAP /\ ptr + z <= MAX_HEAP
    BY <1>1, <1>6, AllocatorAssumption
  <2> QED  BY <1>1, <1>6, <2>1, CopyIs DEF c
<1>8. Tiles(c, J) /\ Kept(t, J, c, J, {bp})
  <2>1. \A w \in 0 .. 2 * MAX_HEAP - 1 :
           w < 2 * bp \/ 2 * (bp + J[bp].size) - 3 < w => c.mem[w] = t.mem[w]
    BY <1>1, <1>3, <1>6, <1>7 DEF IsCopied
  <2>2. c \in State /\ c.brk = t.brk
    BY <1>7 DEF IsCopied
  <2> QED  BY <1>3, <1>6, <2>1, <2>2, WrittenInto
<1>9. Good(c, J)
  BY <1>6, <1>7, <1>8 DEF Good, IsCopied, InHeap
<1>10. PICK K : /\ Good(u, K) /\ u.brk = c.brk /\ Same(c, u) /\ Steady(c, J, u, K)
                /\ Kept(c, J, u, K, {ptr}) /\ Only(J, K, {})
                /\ ptr \in DOMAIN K => K[ptr].alloc = 0
  BY <1>4, <1>9, Frees DEF u
<1>11. Kept(s, L, u, K, {ptr})
  <2> SUFFICES ASSUME NEW b \in DOMAIN L, L[b].alloc = 1, b # ptr
               PROVE  /\ b \in DOMAIN K /\ K[b] = L[b]
                      /\ \A w \in 2 * b .. 2 * (b + L[b].size) - 3 : u.mem[w] = s.mem[w]
    BY DEF Kept
  <2>1. /\ b \in DOMAIN J /\ J[b] = L[b]
        /\ \A w \in 2 * b .. 2 * (b + L[b].size) - 3 : t.mem[w] = s.mem[w]
    BY <1>3 DEF Kept
  <2>2. b # bp
    BY <1>3
  <2>3. \A w \in 2 * b .. 2 * (b + L[b].size) - 3 : c.mem[w] = t.mem[w]
    BY <1>8, <2>1, <2>2 DEF Kept
  <2>4. /\ b \in DOMAIN K /\ K[b] = L[b]
        /\ \A w \in 2 * b .. 2 * (b + L[b].size) - 3 : u.mem[w] = c.mem[w]
    BY <1>10, <2>1 DEF Kept
  <2> QED  BY <2>1, <2>3, <2>4
<1>12. /\ bp \in DOMAIN K /\ K[bp] = J[bp]
       /\ \A w \in 2 * bp .. 2 * (bp + asize) - 3 : u.mem[w] = c.mem[w]
  BY <1>3, <1>4, <1>10 DEF Kept
<1>13. ASSUME NEW k \in Nat, k < 2 * z - 2, k < 2 * asize - 2
       PROVE  u.mem[2 * bp + k] = s.mem[2 * ptr + k]
  <2> DEFINE w == 2 * bp + k
             v == 2 * ptr + k
  <2>1. /\ w \in 2 * bp .. 2 * (bp + asize) - 3 /\ w \in 2 * bp .. 2 * (bp + z) - 1
        /\ w + 2 * (ptr - bp) = v /\ v \in 2 * ptr .. 2 * (ptr + z) - 3
    BY <1>1, <1>6, <1>13
  <2> HIDE DEF w, v
  <2>2. u.mem[w] = c.mem[w]
    BY <1>12, <2>1
  <2>3. c.mem[w] = t.mem[v]
    BY <1>7, <2>1 DEF IsCopied
  <2>4. t.mem[v] = s.mem[v]
    BY <1>4, <2>1
  <2> QED  BY <2>2, <2>3, <2>4 DEF w, v
<1>14. Only(L, K, {bp}) /\ u.TR = s.TR /\ u.just \in DOMAIN K
  BY <1>3, <1>7, <1>10 DEF Only, IsCopied, Same, Steady
<1>15. Moved(s, L, r, K, ptr, asize)
  BY <1>3, <1>5, <1>10, <1>11, <1>12, <1>13, <1>14 DEF Moved, z
<1> QED  BY <1>15 DEF r, u, c, t, bp, z

\* Growing a block in the normal mode: a new block, the copy, and the old one freed.
LEMMA NormalRealloc ==
    ASSUME NEW s, NEW L, Good(s, L), s.TR = 0, NEW ptr \in DOMAIN L, ptr # 1,
           L[ptr].alloc = 1, NEW size \in Nat, size # 0, L[ptr].size < Rounded(size)
    PROVE  Regets(s, L, norm_realloc(s, ptr, size, L[ptr].size), ptr, size)
<1> DEFINE new == mm_malloc(s, size)
           z == L[ptr].size
           asize == Rounded(size)
           full == Ret(mm_free(Copy(new.h, new.bp, ptr, z), ptr), new.bp)
           r == norm_realloc(s, ptr, size, z)
<1>1. r = IF new.bp \in {NULL, WILD} THEN new ELSE full
  BY DEF norm_realloc
<1>2. \/ Select(new, size)
      \/ Strays(Begun(s), L, new) \/ Fails(Begun(s), L, new, asize)
      \/ \E K : Gets(Begun(s), L, new, K, asize)
  BY Requests
<1> HIDE DEF r, new
<1>3. CASE Strays(Begun(s), L, new) \/ Fails(Begun(s), L, new, asize)
  <2>1. r = new
    BY <1>1, <1>3 DEF Strays, Fails
  <2> QED  BY <1>3, <2>1 DEF Regets, r
<1>4. CASE Select(new, size)
  <2> DEFINE t == new.h.TR
             c == Copy(new.h, new.bp, ptr, z)
  <2>1. r = full
    BY <1>1, <1>4 DEF Select, NULL, WILD
  <2>2. full.h = mm_free(c, ptr) /\ full.bp = new.bp
    BY DEF Ret
  <2>3. Moded(new.h, t)
    BY <1>4 DEF Select
  <2> HIDE DEF t, full
  <2>4. Moded(c, t)
    BY <2>3, CopyModed
  <2> HIDE DEF c
  <2>5. Moded(mm_free(c, ptr), t)
    BY <2>4, FreeModed
  <2>6. Select(r, size)
    BY <1>4, <2>1, <2>2, <2>5 DEF Select, Moded, t
  <2> QED  BY <2>6 DEF Regets, r
<1>5. CASE \E K : Gets(Begun(s), L, new, K, asize)
  <2>1. PICK J : Gets(Begun(s), L, new, J, asize)
    BY <1>5
  <2>2. asize \in Nat /\ z < asize
    BY Rounds
  <2> HIDE DEF asize
  <2>3. \E K : Moved(s, L, full, K, ptr, asize)
    BY <2>1, <2>2, Replaced
  <2>4. new.bp \in Nat /\ new.bp # NULL /\ new.bp # WILD
    <3>1. new.bp \in DOMAIN J /\ Good(new.h, J)
      BY <2>1 DEF Gets
    <3>2. new.bp \in Nat /\ 1 <= new.bp
      BY <3>1, Placed DEF Good, Tiles, State
    <3> QED  BY <3>2 DEF NULL, WILD
  <2>5. r = full
    BY <1>1, <2>4
  <2> QED  BY <2>3, <2>5 DEF Regets, asize, r
<1> QED  BY <1>2, <1>3, <1>4, <1>5
-----------------------------------------------------------------------------
\* mm_realloc of a live block in the normal mode.
LEMMA Reallocs ==
    ASSUME NEW s, NEW L, Good(s, L), s.TR = 0, NEW ptr \in DOMAIN L, ptr # 1,
           L[ptr].alloc = 1, NEW size \in Nat, size # 0
    PROVE  Regets(s, L, mm_realloc(s, ptr, size), ptr, size)
<1>1. /\ Tiles(s, L) /\ MergedBut(L, {}) /\ Layout(L, s.brk) /\ s.brk \in 0 .. MAX_HEAP
      /\ s \in State /\ s.brk \in Nat /\ s.brk <= MAX_HEAP /\ s.brk \notin DOMAIN L
  <2>1. /\ Tiles(s, L) /\ MergedBut(L, {}) /\ Layout(L, s.brk) /\ s.brk \in 0 .. MAX_HEAP
        /\ s \in State /\ s.brk \in Nat /\ s.brk <= MAX_HEAP
    BY AllocatorAssumption DEF Good, Tiles, State
  <2>2. s.brk \notin DOMAIN L
    BY <2>1 DEF Layout
  <2> QED  BY <2>1, <2>2
<1>2. PICK p \in DOMAIN L : p + L[p].size = ptr
  BY <1>1, Neighbour
<1> DEFINE z == L[ptr].size
           asize == Rounded(size)
           nx == ptr + z
           ps == L[p].size
           ns == IF nx = s.brk THEN 0 ELSE L[nx].size
           pf == L[p].alloc = 0
           nf == nx # s.brk /\ L[nx].alloc = 0
           add_size == asize - z
           copied == Copy(s, p, ptr, z)
           r == mm_realloc(s, ptr, size)
<1>3. /\ ptr \in Nat /\ ptr # NULL /\ z \in Nat /\ 1 <= z /\ nx \in DOMAIN L \cup {s.brk}
      /\ nx <= s.brk /\ p \in Nat /\ ps \in Nat /\ 1 <= ps /\ p + ps = ptr /\ 1 <= p
      /\ asize \in Nat /\ asize # 0
      /\ \A b \in DOMAIN L : b <= ptr \/ nx <= b
      /\ \A b \in DOMAIN L : b <= p \/ ptr <= b
  BY <1>1, <1>2, Placed, Rounds DEF NULL
<1>4. \A b \in DOMAIN L : b \in Nat /\ L[b].alloc \in {0, 1}
  BY <1>1, Placed
<1>5. /\ ns \in Nat
      /\ nf => /\ nx \in DOMAIN L /\ nx + ns \in DOMAIN L \cup {s.brk} /\ 1 <= ns
               /\ nx + ns <= s.brk /\ \A b \in DOMAIN L : b <= nx \/ nx + ns <= b
  <2>1. nx # s.brk => nx \in DOMAIN L
    BY <1>3
  <2> HIDE DEF nx
  <2>2. nx # s.brk => /\ L[nx].size \in Nat /\ nx + L[nx].size \in DOMAIN L \cup {s.brk}
                      /\ 1 <= L[nx].size /\ nx + L[nx].size <= s.brk
                      /\ \A b \in DOMAIN L : b <= nx \/ nx + L[nx].size <= b
    BY <1>1, <2>1, Placed
  <2> QED  BY <2>1, <2>2
<1>6. /\ PREV_BLKP(s.mem, ptr) = p /\ NEXT_BLKP(s.mem, ptr) = nx
      /\ GET_SIZE(s.mem, HDRP(ptr)) = z /\ GET_SIZE(s.mem, HDRP(p)) = ps
      /\ (GET_ALLOC(s.mem, HDRP(p)) = 0) = pf
      /\ GET_SIZE(s.mem, HDRP(nx)) = ns /\ (GET_ALLOC(s.mem, HDRP(nx)) = 0) = nf
  <2>1. PREV_BLKP(s.mem, ptr) = p
    BY <1>1, <1>2, Previous
  <2>2. /\ NEXT_BLKP(s.mem, ptr) = nx /\ GET_SIZE(s.mem, HDRP(ptr)) = z
        /\ GET_SIZE(s.mem, HDRP(p)) = ps /\ GET_ALLOC(s.mem, HDRP(p)) = L[p].alloc
    BY <1>1, Headers
  <2>3. GET_SIZE(s.mem, HDRP(nx)) = ns /\ (GET_ALLOC(s.mem, HDRP(nx)) = 0) = nf
    <3>1. CASE nx = s.brk
      <4>1. GET_SIZE(s.mem, HDRP(s.brk)) = 0 /\ GET_ALLOC(s.mem, HDRP(s.brk)) = 1
        BY <1>1, Epilogue
      <4> QED  BY <3>1, <4>1
    <3>2. CASE nx # s.brk
      <4>1. nx \in DOMAIN L
        BY <1>3, <3>2
      <4> HIDE DEF nx
      <4>2. GET_SIZE(s.mem, HDRP(nx)) = L[nx].size /\ GET_ALLOC(s.mem, HDRP(nx)) = L[nx].alloc
        BY <1>1, <4>1, Headers
      <4> QED  BY <3>2, <4>2
    <3> QED  BY <3>1, <3>2
  <2> QED  BY <2>1, <2>2, <2>3
<1>7. r = IF asize = z THEN Ret(s, ptr)
          ELSE IF asize < z
          THEN Ret(coalesce(Tag(Tag(s, ptr, asize, 1), ptr + asize, -add_size, 0),
                            ptr + asize).h, ptr)
          ELSE IF pf /\ nf /\ ps + ns >= add_size
          THEN Spread(copied, p, asize, ps + ns - add_size)
          ELSE IF pf /\ ps >= add_size THEN Spread(copied, p, asize, ps - add_size)
          ELSE IF nf /\ ns >= add_size THEN Spread(s, ptr, asize, ns - add_size)
          ELSE norm_realloc(s, ptr, size, z)
  <2>1. s.TR # 1 /\ size # 0 /\ ptr # NULL
    BY <1>3
  <2> HIDE DEF nx, z, ps, ns, pf, nf, asize
  <2> QED  BY <1>6, <2>1 DEF mm_realloc, asize
<1> HIDE DEF r
<1>8. nf => L[nx].alloc = 0
  OBVIOUS
<1>9. nf /\ nx + ns \in DOMAIN L => L[nx + ns].alloc = 1
  <2>1. nf => ns = L[nx].size /\ L[nx].alloc = 0 /\ nx \in DOMAIN L
    BY <1>5
  <2> HIDE DEF nx, ns, nf
  <2> QED  BY <1>1, <2>1 DEF MergedBut
<1>10. ~nf /\ nx \in DOMAIN L => L[nx].alloc = 1
  BY <1>1, <1>4
<1> HIDE DEF z, asize, nx, ps, ns, pf, nf, copied
<1>11. CASE asize = z
  <2>1. r.h = s /\ r.bp = ptr
    BY <1>7, <1>11 DEF Ret
  <2>2. Moved(s, L, r, L, ptr, asize)
    BY <1>11, <2>1 DEF Moved, Kept, Only, z
  <2> QED  BY <2>2 DEF Regets, asize, r
<1>12. CASE asize < z
  <2>1. -add_size = z - asize
    BY <1>3
  <2>2. r = Ret(coalesce(Tag(Tag(s, ptr, asize, 1), ptr + asize, z - asize, 0),
                            ptr + asize).h, ptr)
    BY <1>3, <1>7, <1>12, <2>1
  <2>3. \E K : Moved(s, L, r, K, ptr, asize)
    BY <1>3, <1>12, <2>2, Shrunk DEF z
  <2> QED  BY <2>3 DEF Regets, asize, r
<1>13. p # 1 \/ ~pf
  BY <1>1, Packed DEF pf, Layout
<1>14. ASSUME z < asize
       PROVE  /\ copied \in State /\ copied.brk = s.brk /\ copied.just = s.just /\ Same(s, copied)
              /\ \A w \in 2 * p .. 2 * (p + z) - 1 : copied.mem[w] = s.mem[w + 2 * (ptr - p)]
              /\ \A w \in 0 .. 2 * MAX_HEAP - 1 :
                    w < 2 * p \/ 2 * (p + z) - 1 < w => copied.mem[w] = s.mem[w]
  <2>1. p + z <= MAX_HEAP /\ ptr + z <= MAX_HEAP
    BY <1>1, <1>3, AllocatorAssumption DEF nx
  <2>2. IsCopied(s, copied, p, ptr, z)
    BY <1>1, <1>3, <2>1, CopyIs DEF copied
  <2> QED  BY <2>2 DEF IsCopied
<1>15. CASE z < asize /\ pf /\ nf /\ ps + ns >= add_size
  <2> DEFINE tot == ps + z + ns
  <2>1. /\ tot \in Nat /\ asize <= tot /\ ps + ns - add_size = tot - asize
        /\ p + tot = nx + ns /\ p <= ptr /\ ptr < p + tot /\ p # 1
    BY <1>3, <1>5, <1>13, <1>15 DEF nx
  <2>2. r = Spread(copied, p, asize, tot - asize)
    BY <1>3, <1>7, <1>15, <2>1
  <2>3. \A b \in DOMAIN L : p <= b /\ b < p + tot => b = ptr \/ L[b].alloc = 0
    <3> SUFFICES ASSUME NEW b \in DOMAIN L, p <= b, b < p + tot PROVE b = ptr \/ L[b].alloc = 0
      OBVIOUS
    <3>1. b \in Nat /\ (b <= p \/ ptr <= b) /\ (b <= ptr \/ nx <= b) /\ (b <= nx \/ nx + ns <= b)
      BY <1>3, <1>4, <1>5, <1>15
    <3>2. p \in Nat /\ ptr \in Nat /\ nx \in Nat /\ ns \in Nat
      BY <1>1, <1>3, <1>4, <1>5, <1>15
    <3>3. b < nx + ns
      BY <2>1
    <3>4. b = p \/ b = ptr \/ b = nx
      BY <3>1, <3>2, <3>3
    <3> QED  BY <1>8, <1>15, <3>4 DEF pf
  <2>4. Outside(s, copied, p, tot)
    BY <1>3, <1>5, <1>14, <1>15 DEF Outside
  <2>5. p + tot \in DOMAIN L \cup {s.brk} /\ (p + tot \in DOMAIN L => L[p + tot].alloc = 1)
    BY <1>5, <1>9, <1>15, <2>1
  <2>6. \A w \in 2 * p .. 2 * (p + L[ptr].size) - 1 : copied.mem[w] = s.mem[w + 2 * (ptr - p)]
    BY <1>14, <1>15 DEF z
  <2>7. L[ptr].size < asize
    BY <1>15 DEF z
  <2> HIDE DEF tot
  <2>8. Moved(s, L, r, Cut(L, p, tot, asize, 1), ptr, asize)
    BY <1>3, <1>14, <1>15, <2>1, <2>2, <2>3, <2>4, <2>5, <2>6, <2>7, Regrown
  <2> QED  BY <2>8 DEF Regets, asize, r
<1>16. CASE z < asize /\ ~(pf /\ nf /\ ps + ns >= add_size) /\ pf /\ ps >= add_size
  <2> DEFINE tot == ps + z
  <2>1. /\ tot \in Nat /\ asize <= tot /\ ps - add_size = tot - asize
        /\ p + tot = nx /\ p <= ptr /\ ptr < p + tot /\ p # 1
    BY <1>3, <1>13, <1>16 DEF nx
  <2>2. r = Spread(copied, p, asize, tot - asize)
    BY <1>3, <1>7, <1>16, <2>1
  <2>3. \A b \in DOMAIN L : p <= b /\ b < p + tot => b = ptr \/ L[b].alloc = 0
    <3> SUFFICES ASSUME NEW b \in DOMAIN L, p <= b, b < p + tot PROVE b = ptr \/ L[b].alloc = 0
      OBVIOUS
    <3>1. b \in Nat /\ (b <= p \/ ptr <= b) /\ (b <= ptr \/ nx <= b)
      BY <1>3, <1>4
    <3>2. b = p \/ b = ptr
      BY <1>1, <1>3, <2>1, <3>1
    <3> QED  BY <1>16, <3>2 DEF pf
  <2>4. Outside(s, copied, p, tot)
    BY <1>3, <1>14, <1>16 DEF Outside
  <2>5. p + tot \in DOMAIN L \cup {s.brk} /\ (p + tot \in DOMAIN L => L[p + tot].alloc = 1)
    <3>1. ~nf
      BY <1>3, <1>5, <1>16
    <3> QED  BY <1>3, <1>10, <2>1, <3>1
  <2>6. \A w \in 2 * p .. 2 * (p + L[ptr].size) - 1 : copied.mem[w] = s.mem[w + 2 * (ptr - p)]
    BY <1>14, <1>16 DEF z
  <2>7. L[ptr].size < asize
    BY <1>16 DEF z
  <2> HIDE DEF tot
  <2>8. Moved(s, L, r, Cut(L, p, tot, asize, 1), ptr, asize)
    BY <1>3, <1>14, <1>16, <2>1, <2>2, <2>3, <2>4, <2>5, <2>6, <2>7, Regrown
  <2> QED  BY <2>8 DEF Regets, asize, r
<1>17. CASE /\ z < asize /\ ~(pf /\ nf /\ ps + ns >= add_size) /\ ~(pf /\ ps >= add_size)
            /\ nf /\ ns >= add_size
  <2> DEFINE tot == z + ns
  <2>1. /\ tot \in Nat /\ asize <= tot /\ ns - add_size = tot - asize
        /\ ptr + tot = nx + ns /\ ptr <= ptr /\ ptr < ptr + tot
    BY <1>3, <1>5, <1>17 DEF nx
  <2>2. r = Spread(s, ptr, asize, tot - asize)
    BY <1>3, <1>7, <1>17, <2>1
  <2>3. \A b \in DOMAIN L : ptr <= b /\ b < ptr + tot => b = ptr \/ L[b].alloc = 0
    <3> SUFFICES ASSUME NEW b \in DOMAIN L, ptr <= b, b < ptr + tot
                 PROVE  b = ptr \/ L[b].alloc = 0
      OBVIOUS
    <3>1. b \in Nat /\ (b <= ptr \/ nx <= b) /\ (b <= nx \/ nx + ns <= b)
      BY <1>3, <1>4, <1>5, <1>17
    <3>2. p \in Nat /\ ptr \in Nat /\ nx \in Nat /\ ns \in Nat
      BY <1>1, <1>3, <1>4, <1>5, <1>17
    <3>3. b < nx + ns
      BY <2>1
    <3>4. b = ptr \/ b = nx
      BY <3>1, <3>2, <3>3
    <3> QED  BY <1>8, <1>17, <3>4
  <2>4. Outside(s, s, ptr, tot) /\ Same(s, s)
    BY DEF Outside, Same
  <2>5. ptr + tot \in DOMAIN L \cup {s.brk} /\ (ptr + tot \in DOMAIN L => L[ptr + tot].alloc = 1)
    BY <1>5, <1>9, <1>17, <2>1
  <2>6. \A w \in 2 * ptr .. 2 * (ptr + L[ptr].size) - 1 : s.mem[w] = s.mem[w + 2 * (ptr - ptr)]
    <3>1. \A w \in 2 * ptr .. 2 * (ptr + L[ptr].size) - 1 : w + 2 * (ptr - ptr) = w
      BY <1>3
    <3> QED  BY <3>1
  <2>7. L[ptr].size < asize
    BY <1>17 DEF z
  <2> HIDE DEF tot
  <2>8. Moved(s, L, r, Cut(L, ptr, tot, asize, 1), ptr, asize)
    BY <1>1, <1>3, <1>17, <2>1, <2>2, <2>3, <2>4, <2>5, <2>6, <2>7, Regrown
  <2> QED  BY <2>8 DEF Regets, asize, r
<1>18. CASE /\ z < asize /\ ~(pf /\ nf /\ ps + ns >= add_size) /\ ~(pf /\ ps >= add_size)
            /\ ~(nf /\ ns >= add_size)
  <2>1. r = norm_realloc(s, ptr, size, z)
    BY <1>3, <1>7, <1>18
  <2>2. Regets(s, L, norm_realloc(s, ptr, size, L[ptr].size), ptr, size)
    BY <1>18, NormalRealloc DEF asize, z
  <2> QED  BY <2>1, <2>2 DEF z, r
<1>19. asize = z \/ asize < z \/ z < asize
  BY <1>3
<1> QED  BY <1>11, <1>12, <1>15, <1>16, <1>17, <1>18, <1>19
-----------------------------------------------------------------------------
(* The driver and its table.                                               *)
\* The driver holds just the allocated blocks, each under one name, and its
\* blocks are large enough.
Owns(tab, L) ==
    /\ tab \in [Ids -> [ptr : 0 .. MAX_HEAP, size : Sizes]]
    /\ \A i \in Ids : tab[i] # NoBlock =>
          /\ tab[i].ptr \in DOMAIN L /\ tab[i].ptr # 1 /\ L[tab[i].ptr].alloc = 1
          /\ tab[i].size # 0 /\ tab[i].size <= 2 * (L[tab[i].ptr].size - 1)
    /\ \A b \in DOMAIN L : L[b].alloc = 1 /\ b # 1 => \E i \in Ids : tab[i].ptr = b
    /\ \A i, j \in Ids : i # j /\ tab[i].ptr = tab[j].ptr => tab[i].ptr = NULL

\* What the driver wrote into them is there.
Filled(m, tab) ==
    \A i \in Ids : \A k \in 0 .. tab[i].size - 1 : m[2 * tab[i].ptr + k] = Data(i)

\* No row of the table is half filled.
LEMMA Rows ==
    ASSUME NEW tab, NEW L, NEW brk \in 0 .. MAX_HEAP, Layout(L, brk), Owns(tab, L),
           NEW i \in Ids
    PROVE  /\ tab[i].ptr \in Nat /\ tab[i].size \in Nat /\ tab[i].size \in Sizes
           /\ tab[i] = [ptr |-> tab[i].ptr, size |-> tab[i].size]
           /\ tab[i] = NoBlock <=> tab[i].ptr = NULL
           /\ tab[i] = NoBlock <=> tab[i].size = 0
           /\ tab[i].ptr # 1
<1>1. /\ tab[i] \in [ptr : 0 .. MAX_HEAP, size : Sizes] /\ Sizes \subseteq Nat
      /\ MAX_HEAP \in Nat
  BY AllocatorAssumption DEF Owns
<1>2. /\ tab[i].ptr \in Nat /\ tab[i].size \in Nat /\ tab[i].size \in Sizes
      /\ tab[i] = [ptr |-> tab[i].ptr, size |-> tab[i].size]
  <2> DEFINE row == tab[i]
  <2> HIDE DEF row
  <2>1. row \in [ptr : 0 .. MAX_HEAP, size : Sizes]
    BY <1>1 DEF row
  <2>2. row.ptr \in 0 .. MAX_HEAP /\ row.size \in Sizes /\ row = [ptr |-> row.ptr, size |-> row.size]
    BY <2>1
  <2>3. row.ptr \in Nat /\ row.size \in Nat
    BY <1>1, <2>2
  <2> QED  BY <2>2, <2>3 DEF row
<1>3. tab[i] = NoBlock => tab[i].ptr = 0 /\ tab[i].size = 0
  BY DEF NoBlock, NULL
<1>4. tab[i] # NoBlock =>
          /\ tab[i].ptr \in DOMAIN L /\ tab[i].ptr # 1 /\ tab[i].size # 0
  BY DEF Owns
<1>5. \A b \in DOMAIN L : b # 0
  BY Placed
<1> QED  BY <1>2, <1>3, <1>4, <1>5 DEF NULL

\* A held block and what is in it.
LEMMA HeldIs ==
    ASSUME NEW tab, NEW L, NEW brk \in 0 .. MAX_HEAP, Layout(L, brk), Owns(tab, L),
           NEW i \in Ids, tab[i].ptr # NULL
    PROVE  LET b == tab[i].ptr
           IN  /\ b \in DOMAIN L /\ b # 1 /\ L[b].alloc = 1
               /\ L[b].size \in Nat /\ 1 <= L[b].size /\ tab[i].size # 0
               /\ tab[i].size <= 2 * L[b].size - 2
               /\ \A k \in 0 .. tab[i].size - 1 :
                     2 * b + k \in 2 * b .. 2 * (b + L[b].size) - 3
<1> DEFINE b == tab[i].ptr
<1>1. tab[i] # NoBlock /\ b \in Nat /\ tab[i].size \in Nat
  BY Rows
<1>2. /\ b \in DOMAIN L /\ b # 1 /\ L[b].alloc = 1 /\ tab[i].size # 0
      /\ tab[i].size <= 2 * (L[b].size - 1)
  BY <1>1 DEF Owns
<1> HIDE DEF b
<1>3. L[b].size \in Nat /\ 1 <= L[b].size
  BY <1>2, Placed
<1>4. \A k \in 0 .. tab[i].size - 1 : 2 * b + k \in 2 * b .. 2 * (b + L[b].size) - 3
  BY <1>1, <1>2, <1>3
<1> QED  BY <1>1, <1>2, <1>3, <1>4 DEF b

\* What the other names hold stays.
LEMMA OthersKept ==
    ASSUME NEW s, NEW L, Good(s, L), NEW tab, Owns(tab, L), Filled(s.mem, tab),
           NEW t, NEW K, NEW X, Kept(s, L, t, K, X),
           NEW j \in Ids, tab[j].ptr # NULL, tab[j].ptr \notin X
    PROVE  /\ tab[j].ptr \in DOMAIN K /\ K[tab[j].ptr] = L[tab[j].ptr]
           /\ \A k \in 0 .. tab[j].size - 1 : t.mem[2 * tab[j].ptr + k] = Data(j)
<1> DEFINE b == tab[j].ptr
<1>1. Layout(L, s.brk) /\ s.brk \in 0 .. MAX_HEAP
  BY DEF Good, Tiles, State
<1>2. /\ b \in DOMAIN L /\ L[b].alloc = 1
      /\ \A k \in 0 .. tab[j].size - 1 : 2 * b + k \in 2 * b .. 2 * (b + L[b].size) - 3
  BY <1>1, HeldIs
<1>3. \A k \in 0 .. tab[j].size - 1 : s.mem[2 * b + k] = Data(j)
  BY DEF Filled
<1> HIDE DEF b
<1>4. /\ b \in DOMAIN K /\ K[b] = L[b]
      /\ \A w \in 2 * b .. 2 * (b + L[b].size) - 3 : t.mem[w] = s.mem[w]
  BY <1>2 DEF Kept, b
<1> QED  BY <1>2, <1>3, <1>4 DEF b

\* The driver's table and the heap still agree after a free.
LEMMA FreedStep ==
    ASSUME NEW s, NEW L, Good(s, L), NEW tab, Owns(tab, L), Filled(s.mem, tab),
           NEW i \in Ids, tab[i].ptr # NULL
    PROVE  LET t == mm_free(s, tab[i].ptr)
               tbl == [tab EXCEPT ![i] = NoBlock]
           IN  \E K : Good(t, K) /\ Owns(tbl, K) /\ Filled(t.mem, tbl) /\ t.TR = s.TR
                      /\ Steady(s, L, t, K)
<1> DEFINE bp == tab[i].ptr
           t == mm_free(s, bp)
           tbl == [tab EXCEPT ![i] = NoBlock]
<1>1. Layout(L, s.brk) /\ s.brk \in 0 .. MAX_HEAP
  BY DEF Good, Tiles, State
<1>2. bp \in DOMAIN L /\ bp # 1
  BY <1>1, HeldIs
<1> HIDE DEF bp
<1>3. PICK K : /\ Good(t, K) /\ t.brk = s.brk /\ Same(s, t) /\ Steady(s, L, t, K)
               /\ Kept(s, L, t, K, {bp}) /\ Only(L, K, {})
               /\ bp \in DOMAIN K => K[bp].alloc = 0
  BY <1>2, Frees
<1> HIDE DEF t
<1>4. /\ tbl \in [Ids -> [ptr : 0 .. MAX_HEAP, size : Sizes]]
      /\ tbl[i] = NoBlock /\ \A j \in Ids : j # i => tbl[j] = tab[j]
  <2>1. tab \in [Ids -> [ptr : 0 .. MAX_HEAP, size : Sizes]]
    BY DEF Owns
  <2>2. NoBlock \in [ptr : 0 .. MAX_HEAP, size : Sizes]
    BY AllocatorAssumption DEF NoBlock, NULL
  <2> QED  BY <2>1, <2>2
<1> HIDE DEF tbl
<1>5. \A x, y \in Ids : x # y /\ tab[x].ptr = tab[y].ptr => tab[x].ptr = NULL
  BY DEF Owns
<1>6. ASSUME NEW j \in Ids, tbl[j] # NoBlock
      PROVE  /\ j # i /\ tbl[j].ptr \in DOMAIN K /\ tbl[j].ptr # 1 /\ K[tbl[j].ptr].alloc = 1
             /\ tbl[j].size # 0 /\ tbl[j].size <= 2 * (K[tbl[j].ptr].size - 1)
             /\ \A k \in 0 .. tbl[j].size - 1 : t.mem[2 * tbl[j].ptr + k] = Data(j)
  <2>1. j # i /\ tbl[j] = tab[j] /\ tab[j].ptr # NULL
    BY <1>1, <1>4, <1>6, Rows
  <2>2. tab[j].ptr \notin {bp}
    BY <1>5, <2>1 DEF bp
  <2>3. /\ tab[j].ptr \in DOMAIN K /\ K[tab[j].ptr] = L[tab[j].ptr]
        /\ \A k \in 0 .. tab[j].size - 1 : t.mem[2 * tab[j].ptr + k] = Data(j)
    BY <1>3, <2>1, <2>2, OthersKept
  <2>4. /\ tab[j].ptr # 1 /\ L[tab[j].ptr].alloc = 1
        /\ tab[j].size # 0 /\ tab[j].size <= 2 * (L[tab[j].ptr].size - 1)
    BY <1>6, <2>1 DEF Owns
  <2> QED  BY <2>1, <2>3, <2>4
<1>7. ASSUME NEW b \in DOMAIN K, K[b].alloc = 1, b # 1
      PROVE  \E j \in Ids : tbl[j].ptr = b
  <2>1. b \in DOMAIN L /\ L[b].alloc = 1 /\ b # bp
    BY <1>3, <1>7 DEF Only
  <2>2. PICK j \in Ids : tab[j].ptr = b
    BY <1>7, <2>1 DEF Owns
  <2> QED  BY <1>4, <2>1, <2>2 DEF bp
<1>8. \A x, y \in Ids : x # y /\ tbl[x].ptr = tbl[y].ptr => tbl[x].ptr = NULL
  <2>1. tbl[i].ptr = NULL
    BY <1>4 DEF NoBlock
  <2> QED  BY <1>4, <1>5, <2>1
<1>9. Owns(tbl, K)
  BY <1>4, <1>6, <1>7, <1>8 DEF Owns
<1>10. Filled(t.mem, tbl)
  <2>1. \A j \in Ids : tbl[j] = NoBlock => 0 .. tbl[j].size - 1 = {}
    BY DEF NoBlock
  <2> QED  BY <1>6, <2>1 DEF Filled
<1>11. t.TR = s.TR
  BY <1>3 DEF Same
<1> QED  BY <1>3, <1>9, <1>10, <1>11 DEF t, tbl, bp
-----------------------------------------------------------------------------
\* The name i has got the block r.bp of L's successor K for size words: what
\* fits of its old block is in it, and that is no longer allocated.
Puts(s, L, tab, i, r, K, size) ==
    /\ Good(r.h, K) /\ r.h.TR = s.TR /\ Kept(s, L, r.h, K, {tab[i].ptr}) /\ Only(L, K, {r.bp})
    /\ r.bp \in DOMAIN K /\ r.bp # 1 /\ K[r.bp].alloc = 1 /\ size <= 2 * K[r.bp].size - 2
    /\ r.bp \in DOMAIN L => r.bp = tab[i].ptr \/ L[r.bp].alloc = 0
    /\ tab[i].ptr \in DOMAIN K => tab[i].ptr = r.bp \/ K[tab[i].ptr].alloc = 0
    /\ \A k \in Nat : k < tab[i].size /\ k < size => r.h.mem[2 * r.bp + k] = Data(i)

\* What the driver writes.
IsFilled(s, u, bp, kept, size, i) ==
    /\ u \in State /\ u.brk = s.brk /\ u.just = s.just /\ Same(s, u)
    /\ \A w \in 0 .. 2 * MAX_HEAP - 1 :
          u.mem[w] = IF w \in 2 * bp + kept .. 2 * bp + size - 1 THEN Data(i) ELSE s.mem[w]

\* The driver's writes stay in the payload it was given.
LEMMA FillIs ==
    ASSUME NEW s \in State, NEW bp \in Nat, NEW kept \in Nat, NEW size \in Nat, NEW i \in Ids
    PROVE  IsFilled(s, Fill(s, bp, kept, size, i), bp, kept, size, i)
<1> DEFINE mem == [w \in DOMAIN s.mem |->
                     IF w \in 2 * bp + kept .. 2 * bp + size - 1 THEN Data(i) ELSE s.mem[w]]
           u == Fill(s, bp, kept, size, i)
<1>1. DOMAIN s.mem = 0 .. 2 * MAX_HEAP - 1 /\ s.mem \in [0 .. 2 * MAX_HEAP - 1 -> Words]
  BY DEF State
<1>2. Data(i) \in Words
  BY DEF Words
<1>3. u = [s EXCEPT !.mem = mem]
  BY DEF Fill
<1> HIDE DEF u
<1>4. mem \in [0 .. 2 * MAX_HEAP - 1 -> Words]
  BY <1>1, <1>2
<1>5. \A w \in 0 .. 2 * MAX_HEAP - 1 :
         mem[w] = IF w \in 2 * bp + kept .. 2 * bp + size - 1 THEN Data(i) ELSE s.mem[w]
  BY <1>1
<1> HIDE DEF mem
<1>6. /\ u \in State /\ u.brk = s.brk /\ u.just = s.just /\ u.mem = mem
      /\ u.fmalloc = s.fmalloc /\ u.TR = s.TR /\ u.Q_no = s.Q_no
  BY <1>3, <1>4 DEF State
<1> QED  BY <1>5, <1>6 DEF IsFilled, Same, u

\* They agree after a request is answered with a block and filled.
LEMMA GivenStep ==
    ASSUME NEW s, NEW L, Good(s, L), NEW tab, Owns(tab, L), Filled(s.mem, tab),
           NEW i \in Ids, NEW size \in Sizes, size # 0,
           NEW r, NEW K, Puts(s, L, tab, i, r, K, size)
    PROVE  LET u == Fill(r.h, r.bp, tab[i].size, size, i)
               tbl == [tab EXCEPT ![i] = [ptr |-> r.bp, size |-> size]]
           IN  /\ Good(u, K) /\ Owns(tbl, K) /\ Filled(u.mem, tbl)
               /\ u.TR = s.TR /\ u.just = r.h.just
<1> DEFINE bp == r.bp
           t == r.h
           old == tab[i].ptr
           u == Fill(t, bp, tab[i].size, size, i)
           row == [ptr |-> bp, size |-> size]
           tbl == [tab EXCEPT ![i] = row]
<1>1. /\ Layout(L, s.brk) /\ s.brk \in 0 .. MAX_HEAP /\ MAX_HEAP \in Nat
      /\ size \in Nat /\ NULL \in Nat
  BY AllocatorAssumption DEF Good, Tiles, State, NULL
<1>2. /\ Good(t, K) /\ t.TR = s.TR /\ Kept(s, L, t, K, {old}) /\ Only(L, K, {bp})
      /\ bp \in DOMAIN K /\ bp # 1 /\ K[bp].alloc = 1 /\ size <= 2 * K[bp].size - 2
      /\ bp \in DOMAIN L => bp = old \/ L[bp].alloc = 0
      /\ old \in DOMAIN K => old = bp \/ K[old].alloc = 0
      /\ \A k \in Nat : k < tab[i].size /\ k < size => t.mem[2 * bp + k] = Data(i)
  BY DEF Puts
<1>3. /\ tab[i].size \in Nat /\ old \in Nat
      /\ \A j \in Ids : tab[j] = NoBlock <=> tab[j].ptr = NULL
      /\ \A j \in Ids : tab[j] = NoBlock => tab[j].size = 0
  <2>1. tab[i].size \in Nat /\ old \in Nat
    BY <1>1, Rows
  <2>2. \A j \in Ids : tab[j] = NoBlock <=> tab[j].ptr = NULL
    BY <1>1, Rows
  <2>3. \A j \in Ids : tab[j] = NoBlock => tab[j].size = 0
    BY DEF NoBlock
  <2> QED  BY <2>1, <2>2, <2>3
<1>4. /\ Tiles(t, K) /\ t \in State /\ bp \in Nat /\ bp # NULL /\ bp \in 0 .. MAX_HEAP
      /\ K[bp].size \in Nat /\ 1 <= K[bp].size /\ bp + K[bp].size <= MAX_HEAP
  <2>1. Tiles(t, K) /\ t \in State /\ Layout(K, t.brk) /\ t.brk \in 0 .. MAX_HEAP
    BY <1>2 DEF Good, Tiles, State
  <2>2. bp \in Nat /\ 1 <= bp /\ bp < t.brk /\ K[bp].size \in Nat /\ 1 <= K[bp].size
        /\ bp + K[bp].size <= t.brk
    BY <1>2, <2>1, Placed
  <2> QED  BY <1>1, <2>1, <2>2 DEF NULL
<1> HIDE DEF bp, t, u, row, tbl
<1>5. IsFilled(t, u, bp, tab[i].size, size, i)
  BY <1>1, <1>3, <1>4, FillIs DEF u
<1>6. Tiles(u, K) /\ Kept(t, K, u, K, {bp}) /\ u.just = t.just /\ u.brk = t.brk /\ u.TR = t.TR
  <2>1. /\ u \in State /\ u.brk = t.brk /\ u.just = t.just /\ u.TR = t.TR
    BY <1>5 DEF IsFilled, Same
  <2>2. ASSUME NEW w \in 0 .. 2 * MAX_HEAP - 1, w < 2 * bp \/ 2 * (bp + K[bp].size) - 3 < w
        PROVE  u.mem[w] = t.mem[w]
    <3>1. w \notin 2 * bp + tab[i].size .. 2 * bp + size - 1
      BY <1>1, <1>2, <1>3, <1>4, <2>2
    <3> QED  BY <1>5, <3>1 DEF IsFilled
  <2> QED  BY <1>2, <1>4, <2>1, <2>2, WrittenInto
<1>7. Good(u, K)
  BY <1>2, <1>6 DEF Good, InHeap
<1>8. ASSUME NEW k \in 0 .. size - 1 PROVE u.mem[2 * bp + k] = Data(i)
  <2> DEFINE w == 2 * bp + k
  <2>1. w \in 0 .. 2 * MAX_HEAP - 1 /\ k \in Nat /\ k < size
    BY <1>1, <1>2, <1>4
  <2>2. CASE k < tab[i].size
    <3>1. t.mem[w] = Data(i)
      BY <1>2, <2>1, <2>2
    <3> HIDE DEF w
    <3> QED  BY <1>5, <2>1, <3>1 DEF IsFilled, w
  <2>3. CASE ~(k < tab[i].size)
    <3>1. w \in 2 * bp + tab[i].size .. 2 * bp + size - 1
      BY <1>1, <1>3, <1>4, <2>1, <2>3
    <3> HIDE DEF w
    <3> QED  BY <1>5, <2>1, <3>1 DEF IsFilled, w
  <2> QED  BY <2>2, <2>3
<1>9. /\ tbl \in [Ids -> [ptr : 0 .. MAX_HEAP, size : Sizes]]
      /\ tbl[i].ptr = bp /\ tbl[i].size = size /\ \A j \in Ids : j # i => tbl[j] = tab[j]
  <2>1. tab \in [Ids -> [ptr : 0 .. MAX_HEAP, size : Sizes]]
    BY DEF Owns
  <2>2. row \in [ptr : 0 .. MAX_HEAP, size : Sizes] /\ row.ptr = bp /\ row.size = size
    BY <1>4 DEF row
  <2> QED  BY <2>1, <2>2 DEF tbl
<1>10. \A x, y \in Ids : x # y /\ tab[x].ptr = tab[y].ptr => tab[x].ptr = NULL
  BY DEF Owns
<1>11. ASSUME NEW j \in Ids, j # i, tab[j] # NoBlock
       PROVE  /\ tab[j].ptr \in DOMAIN K /\ tab[j].ptr # 1 /\ K[tab[j].ptr].alloc = 1
              /\ tab[j].size # 0 /\ tab[j].size <= 2 * (K[tab[j].ptr].size - 1)
              /\ tab[j].ptr # bp
              /\ \A k \in 0 .. tab[j].size - 1 : u.mem[2 * tab[j].ptr + k] = Data(j)
  <2> DEFINE b == tab[j].ptr
  <2>1. b # NULL /\ b \notin {old}
    BY <1>3, <1>10, <1>11
  <2>2. /\ b # 1 /\ L[b].alloc = 1 /\ b \in DOMAIN L
        /\ tab[j].size # 0 /\ tab[j].size <= 2 * (L[b].size - 1)
    BY <1>11 DEF Owns
  <2>3. /\ b \in DOMAIN K /\ K[b] = L[b]
        /\ \A k \in 0 .. tab[j].size - 1 : t.mem[2 * b + k] = Data(j)
    BY <1>2, <2>1, OthersKept
  <2>4. b # bp
    BY <1>2, <2>1, <2>2
  <2>5. \A k \in 0 .. tab[j].size - 1 : 2 * b + k \in 2 * b .. 2 * (b + K[b].size) - 3
    BY <1>1, <2>1, <2>3, HeldIs
  <2>6. \A w \in 2 * b .. 2 * (b + K[b].size) - 3 : u.mem[w] = t.mem[w]
    BY <1>6, <2>2, <2>3, <2>4 DEF Kept
  <2> HIDE DEF b
  <2>7. \A k \in 0 .. tab[j].size - 1 : u.mem[2 * b + k] = Data(j)
    BY <2>3, <2>5, <2>6
  <2> QED  BY <2>2, <2>3, <2>4, <2>7 DEF b
<1>12. ASSUME NEW b \in DOMAIN K, K[b].alloc = 1, b # 1
       PROVE  \E j \in Ids : tbl[j].ptr = b
  <2>1. CASE b = bp
    BY <1>9, <2>1
  <2>2. CASE b # bp
    <3>1. b \in DOMAIN L /\ L[b].alloc = 1
      BY <1>2, <1>12, <2>2 DEF Only
    <3>2. PICK j \in Ids : tab[j].ptr = b
      BY <1>12, <3>1 DEF Owns
    <3>3. j # i
      BY <1>2, <1>12, <2>2, <3>2
    <3> QED  BY <1>9, <3>2, <3>3
  <2> QED  BY <2>1, <2>2
<1>13. ASSUME NEW x \in Ids, NEW y \in Ids, x # y, tbl[x].ptr = tbl[y].ptr
       PROVE  tbl[x].ptr = NULL
  <2>1. CASE x = i
    <3>1. y # i /\ tbl[y] = tab[y] /\ tbl[x].ptr = bp
      BY <1>9, <1>13, <2>1
    <3>2. CASE tab[y] = NoBlock
      BY <1>3, <1>4, <1>13, <3>1, <3>2
    <3>3. CASE tab[y] # NoBlock
      BY <1>11, <1>13, <3>1, <3>3
    <3> QED  BY <3>2, <3>3
  <2>2. CASE y = i
    <3>1. x # i /\ tbl[x] = tab[x] /\ tbl[y].ptr = bp
      BY <1>9, <1>13, <2>2
    <3>2. CASE tab[x] = NoBlock
      BY <1>3, <3>1, <3>2
    <3>3. CASE tab[x] # NoBlock
      BY <1>11, <1>13, <3>1, <3>3
    <3> QED  BY <3>2, <3>3
  <2>3. CASE x # i /\ y # i
    BY <1>9, <1>10, <1>13, <2>3
  <2> QED  BY <2>1, <2>2, <2>3
<1>14. Owns(tbl, K)
  <2>1. ASSUME NEW j \in Ids, tbl[j] # NoBlock
        PROVE  /\ tbl[j].ptr \in DOMAIN K /\ tbl[j].ptr # 1 /\ K[tbl[j].ptr].alloc = 1
               /\ tbl[j].size # 0 /\ tbl[j].size <= 2 * (K[tbl[j].ptr].size - 1)
    <3>1. CASE j = i
      BY <1>1, <1>2, <1>4, <1>9, <3>1
    <3>2. CASE j # i
      <4>1. tbl[j] = tab[j]
        BY <1>9, <3>2
      <4> QED  BY <1>11, <2>1, <3>2, <4>1
    <3> QED  BY <3>1, <3>2
  <2> QED  BY <1>9, <1>12, <1>13, <2>1 DEF Owns
<1>15. Filled(u.mem, tbl)
  <2> SUFFICES ASSUME NEW j \in Ids, NEW k \in 0 .. tbl[j].size - 1
               PROVE  u.mem[2 * tbl[j].ptr + k] = Data(j)
    BY DEF Filled
  <2>1. CASE j = i
    BY <1>8, <1>9, <2>1
  <2>2. CASE j # i
    <3>1. tbl[j] = tab[j]
      BY <1>9, <2>2
    <3>2. tab[j] # NoBlock
      BY <1>3, <3>1
    <3> QED  BY <1>11, <2>2, <3>1, <3>2
  <2> QED  BY <2>1, <2>2
<1> QED  BY <1>2, <1>6, <1>7, <1>14, <1>15 DEF u, t, bp, tbl, row
-----------------------------------------------------------------------------
(* The steps of the driver.                                                *)
\* The normal mode of mm.c.
NormalMode == h.TR = 0

\* The heap is laid out as L, and the driver holds its allocated blocks.
Sound(s, L, tab) == Good(s, L) /\ Owns(tab, L) /\ Filled(s.mem, tab)

\* What is known when mm.c has gone astray: the driver's table has its type.
Unknown(s, tab) == s = Fresh /\ tab \in [Ids -> [ptr : 0 .. MAX_HEAP, size : Sizes]]

\* The inductive invariant.
HeapInv == \/ lost = FALSE /\ \E L : Sound(h, L, blocks)
           \/ lost = TRUE /\ Unknown(h, blocks)

\* A request goes astray, from a recent position that is no block.
Strands(L) == lost' = TRUE /\ h.just \notin DOMAIN L /\ Unknown(h', blocks')

\* What any other step for the name i leaves.
Outcome(L, K, i) ==
    /\ lost' = FALSE /\ Sound(h', K, blocks') /\ h'.TR = h.TR
    /\ h.just \in DOMAIN L =>
          \/ h'.just \in DOMAIN K
          \/ Held(i) /\ blocks'[i].size > blocks[i].size /\ blocks'[i].ptr <= blocks[i].ptr
    /\ \/ blocks' = blocks
       \/ blocks' = [blocks EXCEPT ![i] = NoBlock]
       \/ \E p \in 1 .. MAX_HEAP, z \in Sizes \ {0} :
             blocks' = [blocks EXCEPT ![i] = [ptr |-> p, size |-> z]]

\* Filling a payload leaves a selected mode as it is.
LEMMA FillModed ==
    ASSUME NEW s, NEW t, Moded(s, t), NEW bp, NEW kept, NEW size, NEW i
    PROVE  Moded(Fill(s, bp, kept, size, i), t)
BY DEF Fill, Moded

\* A mode that is selected stays in TR.
LEMMA Selected ==
    ASSUME NEW i \in Ids, NEW size, NEW r, Select(r, size), lost = FALSE,
           Answer(i, r, size)
    PROVE  h'.TR # 0
<1> DEFINE t == r.h.TR
           u == Fill(r.h, r.bp, blocks[i].size, size, i)
<1>1. r.bp # NULL /\ r.bp # WILD /\ Moded(r.h, t) /\ t # 0
  BY DEF Select, NULL, WILD
<1>2. h' = u
  BY <1>1 DEF Answer, Answered
<1> HIDE DEF t, u
<1>3. Moded(u, t)
  BY <1>1, FillModed DEF u
<1> QED  BY <1>1, <1>2, <1>3 DEF Moded

\* What is not known is typed.
LEMMA AstrayTyped ==
    ASSUME NEW i \in Ids, NEW size \in Sizes, Astray(i, size),
           blocks \in [Ids -> [ptr : 0 .. MAX_HEAP, size : Sizes]]
    PROVE  lost' = TRUE /\ Unknown(h', blocks')
<1>1. NoBlock \in [ptr : 0 .. MAX_HEAP, size : Sizes] /\ 1 .. MAX_HEAP \subseteq 0 .. MAX_HEAP
  BY AllocatorAssumption DEF NoBlock, NULL
<1>2. CASE blocks' = blocks
  BY <1>2 DEF Astray, Unknown
<1>3. CASE blocks' = [blocks EXCEPT ![i] = NoBlock]
  BY <1>1, <1>3 DEF Astray, Unknown
<1>4. CASE \E ptr \in 1 .. MAX_HEAP :
              blocks' = [blocks EXCEPT ![i] = [ptr |-> ptr, size |-> size]]
  <2>1. PICK ptr \in 1 .. MAX_HEAP :
              blocks' = [blocks EXCEPT ![i] = [ptr |-> ptr, size |-> size]]
    BY <1>4
  <2> DEFINE row == [ptr |-> ptr, size |-> size]
  <2>2. row \in [ptr : 0 .. MAX_HEAP, size : Sizes]
    BY <1>1
  <2> HIDE DEF row
  <2>3. blocks' = [blocks EXCEPT ![i] = row]
    BY <2>1 DEF row
  <2> QED  BY <2>2, <2>3 DEF Astray, Unknown
<1> QED  BY <1>2, <1>3, <1>4 DEF Astray

\* A request that fails leaves the heap and the table in agreement; one that
\* strays does so from a recent position that is no block.
LEMMA Idles ==
    ASSUME NEW L, Sound(h, L, blocks), lost = FALSE, NEW i \in Ids,
           NEW size \in Sizes, size # 0,
           NEW r, NEW asize, Answer(i, r, size),
           Strays(Begun(h), L, r) \/ Fails(Begun(h), L, r, asize)
    PROVE  Strands(L) \/ Outcome(L, L, i)
<1>1. Good(h, L) /\ Owns(blocks, L) /\ Filled(h.mem, blocks)
  BY DEF Sound
<1>2. /\ Good(Begun(h), L) /\ Begun(h).mem = h.mem /\ Begun(h).just = h.just
      /\ Begun(h).TR = h.TR
  BY <1>1, BegunIs
<1>3. CASE Strays(Begun(h), L, r)
  <2>1. r.bp = WILD /\ h.just \notin DOMAIN L
    BY <1>2, <1>3 DEF Strays
  <2>2. Astray(i, size)
    BY <2>1 DEF Answer
  <2>3. lost' = TRUE /\ Unknown(h', blocks')
    BY <1>1, <2>2, AstrayTyped DEF Owns
  <2> QED  BY <2>1, <2>3 DEF Strands
<1>4. CASE Fails(Begun(h), L, r, asize)
  <2>1. r.h = Begun(h) /\ r.bp = NULL /\ r.bp # WILD
    BY <1>4 DEF Fails, NULL, WILD
  <2>2. h' = Begun(h) /\ blocks' = blocks /\ lost' = FALSE
    BY <2>1 DEF Answer, Answered
  <2>3. Sound(h', L, blocks')
    BY <1>1, <1>2, <2>2 DEF Sound
  <2> QED  BY <1>2, <2>2, <2>3 DEF Outcome
<1> QED  BY <1>3, <1>4

\* A request that is answered leaves them in agreement too.
LEMMA Gives ==
    ASSUME NEW L, Sound(h, L, blocks), lost = FALSE, NEW i \in Ids, NEW size \in Sizes, size # 0,
           NEW r, NEW K, Answer(i, r, size), Puts(h, L, blocks, i, r, K, size),
           h.just \in DOMAIN L =>
              \/ r.h.just \in DOMAIN K
              \/ Held(i) /\ size > blocks[i].size /\ r.bp <= blocks[i].ptr
    PROVE  Outcome(L, K, i)
<1> DEFINE u == Fill(r.h, r.bp, blocks[i].size, size, i)
           row == [ptr |-> r.bp, size |-> size]
           tbl == [blocks EXCEPT ![i] = row]
<1>1. Good(h, L) /\ Owns(blocks, L) /\ Filled(h.mem, blocks)
  BY DEF Sound
<1>2. r.bp \in Nat /\ 1 <= r.bp /\ r.bp <= MAX_HEAP /\ r.bp # NULL /\ r.bp # WILD
  <2>1. r.bp \in DOMAIN K /\ Layout(K, r.h.brk) /\ r.h.brk \in 0 .. MAX_HEAP
    BY DEF Puts, Good, Tiles, State
  <2>2. r.bp \in Nat /\ 1 <= r.bp /\ r.bp < r.h.brk
    BY <2>1, Placed
  <2> QED  BY <2>1, <2>2, AllocatorAssumption DEF NULL, WILD
<1>3. h' = u /\ blocks' = tbl /\ lost' = FALSE
  BY <1>2 DEF Answer, Answered
<1>4. Good(u, K) /\ Owns(tbl, K) /\ Filled(u.mem, tbl)
      /\ u.just = r.h.just /\ u.TR = h.TR
  BY <1>1, GivenStep
<1>5. tbl[i].size = size /\ tbl[i].ptr = r.bp
  BY <1>1 DEF Owns
<1>6. \E p \in 1 .. MAX_HEAP, z \in Sizes \ {0} :
         tbl = [blocks EXCEPT ![i] = [ptr |-> p, size |-> z]]
  BY <1>2
<1> HIDE DEF u, tbl
<1>7. Sound(h', K, blocks')
  BY <1>3, <1>4 DEF Sound
<1> QED  BY <1>3, <1>4, <1>5, <1>6, <1>7 DEF Outcome

\* So does a free.
LEMMA Releases ==
    ASSUME NEW L, Sound(h, L, blocks), lost = FALSE, NEW i \in Ids,
           h' = mm_free(h, blocks[i].ptr), blocks' = [blocks EXCEPT ![i] = NoBlock],
           lost' = FALSE
    PROVE  \E K : Outcome(L, K, i)
<1>1. Good(h, L) /\ Owns(blocks, L) /\ Filled(h.mem, blocks)
      /\ Layout(L, h.brk) /\ h.brk \in 0 .. MAX_HEAP
  BY DEF Sound, Good, Tiles, State
<1>2. CASE blocks[i].ptr = NULL
  <2>1. h' = h
    BY <1>2 DEF mm_free
  <2>2. blocks' = blocks
    <3>1. blocks[i] = NoBlock
      BY <1>1, <1>2, Rows
    <3>2. blocks = [j \in Ids |-> blocks[j]]
      BY <1>1 DEF Owns
    <3> QED  BY <3>1, <3>2
  <2>3. Sound(h', L, blocks')
    BY <1>1, <2>1, <2>2 DEF Sound
  <2> QED  BY <2>1, <2>2, <2>3 DEF Outcome
<1>3. CASE blocks[i].ptr # NULL
  <2>1. PICK K : /\ Good(h', K) /\ Owns(blocks', K) /\ Filled(h'.mem, blocks')
                 /\ Steady(h, L, h', K) /\ h'.TR = h.TR
    BY <1>1, <1>3, FreedStep, ZenonT(30)
  <2>2. Sound(h', K, blocks')
    BY <2>1 DEF Sound
  <2> QED  BY <2>1, <2>2 DEF Outcome, Steady
<1> QED  BY <1>2, <1>3

\* A request for a name that has no block.
LEMMA MallocStep ==
    ASSUME NEW L, Sound(h, L, blocks), lost = FALSE, NormalMode, NEW i \in Ids,
           NEW size \in Sizes, NormalMode' \/ size \notin Firsts, blocks[i].ptr = NULL, Answer(i, mm_malloc(h, size), size)
    PROVE  Strands(L) \/ \E K : Outcome(L, K, i)
<1> DEFINE r == mm_malloc(h, size)
           asize == Rounded(size)
<1>1. Good(h, L) /\ Owns(blocks, L) /\ Filled(h.mem, blocks) /\ size \in Nat
      /\ Layout(L, h.brk) /\ h.brk \in 0 .. MAX_HEAP
  BY AllocatorAssumption DEF Sound, Good, Tiles, State
<1>2. blocks[i] = NoBlock /\ blocks[i].size = 0
  BY <1>1, Rows
<1>3. /\ Good(Begun(h), L) /\ Begun(h).mem = h.mem /\ Begun(h).just = h.just
      /\ Begun(h).TR = h.TR
  BY <1>1, BegunIs
<1>4. CASE size = 0
  <2>1. r = Ret(h, NULL)
    BY <1>4 DEF mm_malloc
  <2> HIDE DEF r
  <2>2. r.h = h /\ r.bp = NULL
    BY <2>1 DEF Ret
  <2>3. h' = h /\ blocks' = [blocks EXCEPT ![i] = NoBlock] /\ lost' = FALSE
    <3>1. Answer(i, r, size)
      BY DEF r
    <3>2. r.bp # WILD
      BY <2>2 DEF NULL, WILD
    <3> QED  BY <1>4, <2>2, <3>1, <3>2 DEF Answer, Answered
  <2>4. blocks' = blocks
    <3>1. blocks = [j \in Ids |-> blocks[j]]
      BY <1>1 DEF Owns
    <3> QED  BY <1>2, <2>3, <3>1
  <2>5. Sound(h', L, blocks')
    BY <1>1, <2>3, <2>4 DEF Sound
  <2> QED  BY <2>3, <2>4, <2>5 DEF Outcome
<1>5. CASE size # 0
  <2>1. \/ Select(r, size) \/ Strays(Begun(h), L, r) \/ Fails(Begun(h), L, r, asize)
        \/ \E K : Gets(Begun(h), L, r, K, asize)
    BY <1>1, <1>5, Requests DEF NormalMode
  <2>2. asize \in Nat /\ size <= 2 * (asize - 1)
    BY <1>1, <1>5, Rounds
  <2> HIDE DEF r, asize
  <2>3. Answer(i, r, size)
    BY DEF r
  <2>4. CASE Select(r, size)
    BY <2>3, <2>4, Selected DEF NormalMode, Select
  <2>5. CASE Strays(Begun(h), L, r) \/ Fails(Begun(h), L, r, asize)
    BY <1>5, <2>3, <2>5, Idles
  <2>6. CASE \E K : Gets(Begun(h), L, r, K, asize)
    <3>1. PICK K : Gets(Begun(h), L, r, K, asize)
      BY <2>6
    <3>2. /\ Good(r.h, K) /\ r.h.TR = h.TR /\ Kept(h, L, r.h, K, {}) /\ Only(L, K, {r.bp})
          /\ r.bp \in DOMAIN K /\ r.bp # 1 /\ K[r.bp].alloc = 1 /\ K[r.bp].size = asize
          /\ r.bp \in DOMAIN L => L[r.bp].alloc = 0
          /\ r.h.just \in DOMAIN K
      BY <1>3, <3>1 DEF Gets, Same, Kept
    <3>3. NULL \notin DOMAIN K
      <4>1. Layout(K, r.h.brk)
        BY <3>2 DEF Good, Tiles
      <4> QED  BY <4>1 DEF Layout, NULL
    <3>4. Puts(h, L, blocks, i, r, K, size)
      <4>1. Kept(h, L, r.h, K, {blocks[i].ptr})
        BY <3>2 DEF Kept
      <4>2. size <= 2 * K[r.bp].size - 2
        BY <1>1, <2>2, <3>2
      <4>3. \A k \in Nat : ~(k < blocks[i].size)
        BY <1>2
      <4> QED  BY <3>2, <3>3, <4>1, <4>2, <4>3 DEF Puts
    <3>5. Outcome(L, K, i)
      BY <1>5, <2>3, <3>2, <3>4, Gives
    <3> QED  BY <3>5
  <2> QED  BY <2>1, <2>4, <2>5, <2>6
<1> QED  BY <1>4, <1>5

\* A realloc of a block.
LEMMA ReallocStep ==
    ASSUME NEW L, Sound(h, L, blocks), lost = FALSE, NormalMode, NEW i \in Ids,
           NEW size \in Sizes, size # 0, NormalMode' \/ size \notin Firsts, blocks[i].ptr # NULL,
           Answer(i, mm_realloc(h, blocks[i].ptr, size), size)
    PROVE  Strands(L) \/ \E K : Outcome(L, K, i)
<1> DEFINE ptr == blocks[i].ptr
           r == mm_realloc(h, ptr, size)
           asize == Rounded(size)
<1>1. Good(h, L) /\ Owns(blocks, L) /\ Filled(h.mem, blocks) /\ size \in Nat
      /\ Layout(L, h.brk) /\ h.brk \in 0 .. MAX_HEAP
  BY AllocatorAssumption DEF Sound, Good, Tiles, State
<1>2. /\ ptr \in DOMAIN L /\ ptr # 1 /\ L[ptr].alloc = 1 /\ L[ptr].size \in Nat
      /\ blocks[i].size <= 2 * L[ptr].size - 2
  BY <1>1, HeldIs
<1>3. blocks[i].size \in Nat /\ Held(i)
  BY <1>1, Rows DEF Held
<1> HIDE DEF ptr
<1>4. Regets(h, L, r, ptr, size)
  BY <1>1, <1>2, Reallocs DEF NormalMode
<1>5. asize \in Nat /\ size <= 2 * (asize - 1)
      /\ (L[ptr].size < asize => 2 * L[ptr].size - 2 < size)
  BY <1>1, <1>2, Rounds
<1> HIDE DEF r, asize
<1>6. Answer(i, r, size)
  BY DEF r, ptr
<1>7. CASE Select(r, size)
  BY <1>6, <1>7, Selected DEF NormalMode, Select
<1>8. CASE Strays(Begun(h), L, r) \/ Fails(Begun(h), L, r, asize)
  BY <1>6, <1>8, Idles
<1>9. CASE \E K : Moved(h, L, r, K, ptr, asize)
  <2>1. PICK K : Moved(h, L, r, K, ptr, asize)
    BY <1>9
  <2>2. /\ Good(r.h, K) /\ r.h.TR = h.TR /\ Kept(h, L, r.h, K, {ptr}) /\ Only(L, K, {r.bp})
        /\ r.bp \in DOMAIN K /\ r.bp # 1 /\ K[r.bp].alloc = 1 /\ K[r.bp].size = asize
        /\ r.bp \in DOMAIN L => r.bp = ptr \/ L[r.bp].alloc = 0
        /\ ptr \in DOMAIN K => ptr = r.bp \/ K[ptr].alloc = 0
        /\ \A k \in Nat : k < 2 * L[ptr].size - 2 /\ k < 2 * asize - 2 =>
              r.h.mem[2 * r.bp + k] = h.mem[2 * ptr + k]
        /\ h.just \in DOMAIN L =>
              r.h.just \in DOMAIN K \/ (L[ptr].size < asize /\ r.bp <= ptr)
    BY <2>1 DEF Moved
  <2>3. \A k \in Nat : k < blocks[i].size => h.mem[2 * ptr + k] = Data(i)
    BY <1>1, <1>3 DEF Filled, ptr
  <2>4. ASSUME NEW k \in Nat, k < blocks[i].size, k < size
        PROVE  r.h.mem[2 * r.bp + k] = Data(i)
    <3>1. k < 2 * L[ptr].size - 2 /\ k < 2 * asize - 2
      BY <1>1, <1>2, <1>3, <1>5, <2>4
    <3> QED  BY <2>2, <2>3, <2>4, <3>1
  <2>5. size <= 2 * K[r.bp].size - 2
    BY <1>1, <1>5, <2>2
  <2>6. Puts(h, L, blocks, i, r, K, size)
    BY <2>2, <2>4, <2>5 DEF Puts, ptr
  <2>7. h.just \in DOMAIN L =>
              \/ r.h.just \in DOMAIN K
              \/ Held(i) /\ size > blocks[i].size /\ r.bp <= blocks[i].ptr
    BY <1>1, <1>2, <1>3, <1>5, <2>2 DEF ptr
  <2>8. Outcome(L, K, i)
    BY <1>6, <2>6, <2>7, Gives
  <2> QED  BY <2>8
<1> QED  BY <1>4, <1>7, <1>8, <1>9 DEF Regets, asize
-----------------------------------------------------------------------------
(* The invariant and what follows from it.                                 *)
\* A heap of which nothing is known.
LEMMA FreshIs ==
    /\ Fresh \in State /\ Fresh.just = 0 /\ Fresh.TR = 0
    /\ \A w : ~ IsTag(Fresh.mem, w)
<1> DEFINE junk == [w \in 0 .. 2 * MAX_HEAP - 1 |-> Junk]
<1>1. junk \in [0 .. 2 * MAX_HEAP - 1 -> Words]
  BY JunkIsWord
<1>2. \A w : ~ IsTag(junk, w)
  BY DEF IsTag, Junk
<1>3. Fresh = [mem |-> junk, brk |-> 0, just |-> NULL, fmalloc |-> TRUE,
               TR |-> 0, Q_no |-> -1]
  BY DEF Fresh
<1> HIDE DEF junk
<1> QED  BY <1>1, <1>2, <1>3, AllocatorAssumption DEF State, NULL

\* The heap mm_init makes before its first extension.
LEMMA Begins ==
    LET start == [Fresh EXCEPT !.brk = 2, !.just = heap_listp,
                               !.fmalloc = TRUE, !.TR = 0, !.Q_no = -1]
        tagged == [Tag(start, heap_listp, 1, 1) EXCEPT
                      !.mem[0] = PACK(0, 0), !.mem[3] = PACK(0, 1)]
    IN  Good(tagged, [b \in {1} |-> PACK(1, 1)]) /\ tagged.TR = 0
<1> DEFINE start == [Fresh EXCEPT !.brk = 2, !.just = heap_listp,
                                  !.fmalloc = TRUE, !.TR = 0, !.Q_no = -1]
           u == Tag(start, heap_listp, 1, 1)
           t == [u EXCEPT !.mem[0] = PACK(0, 0), !.mem[3] = PACK(0, 1)]
           L == [b \in {1} |-> PACK(1, 1)]
<1>1. MAX_HEAP \in Nat /\ MAX_HEAP >= 2
  BY AllocatorAssumption
<1>2. start \in State /\ start.brk = 2 /\ start.just = 1 /\ start.TR = 0
  <2>2. Fresh \in State
    BY FreshIs
  <2> DEFINE a == [Fresh EXCEPT !.brk = 2]
             c == [a EXCEPT !.just = heap_listp]
             d == [c EXCEPT !.fmalloc = TRUE]
             e == [d EXCEPT !.TR = 0]
             f == [e EXCEPT !.Q_no = -1]
  <2>3. a \in State /\ a.brk = 2
    BY <1>1, <2>2, SMTT(30) DEF State
  <2> HIDE DEF a
  <2>4. c \in State /\ c.brk = 2 /\ c.just = 1
    BY <2>3 DEF State, heap_listp
  <2> HIDE DEF c
  <2>5. d \in State /\ d.brk = 2 /\ d.just = 1
    BY <2>4 DEF State
  <2> HIDE DEF d
  <2>6. e \in State /\ e.brk = 2 /\ e.just = 1 /\ e.TR = 0
    BY <2>5 DEF State
  <2> HIDE DEF e
  <2>7. f \in State /\ f.brk = 2 /\ f.just = 1 /\ f.TR = 0
    BY <2>6 DEF State
  <2>8. start = f
    BY DEF a, c, d, e
  <2> HIDE DEF start, f
  <2> QED  BY <2>7, <2>8
<1> HIDE DEF start
<1>3. IsMarked(start, u, 1, 1, 1)
  BY <1>1, <1>2, TagIs DEF heap_listp
<1> HIDE DEF u
<1>4. /\ u \in State /\ u.brk = 2 /\ u.just = 1 /\ u.TR = 0
      /\ u.mem[1] = PACK(1, 1) /\ u.mem[2] = PACK(1, 1)
  BY <1>2, <1>3 DEF IsMarked
<1>5. /\ t \in State /\ t.brk = 2 /\ t.just = 1 /\ t.TR = 0
      /\ t.mem[1] = PACK(1, 1) /\ t.mem[2] = PACK(1, 1) /\ t.mem[3] = PACK(0, 1)
  <2>1. PACK(0, 0) \in Words /\ PACK(0, 1) \in Words
    BY <1>1, PackedIsWord
  <2>2. u.mem \in [0 .. 2 * MAX_HEAP - 1 -> Words]
        /\ {0, 1, 2, 3} \subseteq 0 .. 2 * MAX_HEAP - 1
    BY <1>1, <1>4 DEF State
  <2> DEFINE old == u.mem
             part == [old EXCEPT ![0] = PACK(0, 0)]
             mem == [part EXCEPT ![3] = PACK(0, 1)]
  <2>5. old \in [0 .. 2 * MAX_HEAP - 1 -> Words]
    BY <2>2
  <2>4. t = [u EXCEPT !.mem = mem]
    BY <1>4 DEF State
  <2> HIDE DEF old
  <2>6. part \in [0 .. 2 * MAX_HEAP - 1 -> Words] /\ part[1] = old[1] /\ part[2] = old[2]
    BY <2>1, <2>2, <2>5
  <2> HIDE DEF part
  <2>3. mem \in [0 .. 2 * MAX_HEAP - 1 -> Words]
        /\ mem[1] = u.mem[1] /\ mem[2] = u.mem[2] /\ mem[3] = PACK(0, 1)
    BY <2>1, <2>2, <2>6 DEF old
  <2> HIDE DEF mem, t
  <2> QED  BY <1>4, <2>3, <2>4 DEF State
<1> HIDE DEF t
<1>6. DOMAIN L = {1} /\ L[1] = PACK(1, 1) /\ L[1].size = 1 /\ L[1].alloc = 1
  BY Packed
<1>7. L \in [DOMAIN L -> TagOf]
  BY <1>1 DEF TagOf
<1> HIDE DEF L
<1>8. Layout(L, 2)
  BY <1>6, <1>7 DEF Layout
<1>9. Tagged(t.mem, L, 2)
  BY <1>5, <1>6 DEF Tagged
<1>10. MergedBut(L, {}) /\ InHeap(t)
  BY <1>5, <1>6 DEF MergedBut, InHeap
<1> QED  BY <1>5, <1>8, <1>9, <1>10 DEF Good, Tiles, t, u, start, L

\* mm_init leaves a sound heap.
LEMMA InitInv == Init => HeapInv
<1> SUFFICES ASSUME Init PROVE lost = FALSE /\ \E L : Sound(h, L, blocks)
  BY DEF HeapInv
<1> DEFINE t == [Tag([Fresh EXCEPT !.brk = 2, !.just = heap_listp,
                               !.fmalloc = TRUE, !.TR = 0, !.Q_no = -1],
                     heap_listp, 1, 1) EXCEPT
                      !.mem[0] = PACK(0, 0), !.mem[3] = PACK(0, 1)]
           J == [b \in {1} |-> PACK(1, 1)]
           r == extend_heap(t, CHUNKSIZE)
<1>1. Good(t, J)
  BY Begins
<1>2. h = r.h /\ blocks = [i \in Ids |-> NoBlock] /\ lost = FALSE
  BY DEF Init, mm_init
<1> HIDE DEF t
<1>3. CHUNKSIZE \in Nat /\ CHUNKSIZE # 0
  BY AllocatorAssumption
<1>4. \A b \in DOMAIN J : b = 1
  OBVIOUS
<1> HIDE DEF J
<1>5. \/ r.bp = NULL /\ r.h = t
      \/ \E K : /\ Good(r.h, K) /\ r.h.brk = t.brk + CHUNKSIZE /\ Same(t, r.h)
                /\ Steady(t, J, r.h, K) /\ Kept(t, J, r.h, K, {}) /\ Only(J, K, {})
                /\ r.bp \in DOMAIN K /\ K[r.bp].alloc = 0 /\ CHUNKSIZE <= K[r.bp].size
                /\ \A p \in DOMAIN J :
                      p + J[p].size = t.brk /\ J[p].alloc = 0
                          => J[p].size + CHUNKSIZE <= K[r.bp].size
  BY <1>1, <1>3, Extends
<1> HIDE DEF r
<1>6. \E K : Good(h, K) /\ Only(J, K, {})
  <2>1. Only(J, J, {})
    BY DEF Only
  <2> QED  BY <1>1, <1>2, <1>5, <2>1
<1>7. PICK K : Good(h, K) /\ Only(J, K, {})
  BY <1>6
<1>8. \A i \in Ids : blocks[i] = NoBlock /\ blocks[i].ptr = NULL /\ blocks[i].size = 0
  BY <1>2 DEF NoBlock
<1>9. blocks \in [Ids -> [ptr : 0 .. MAX_HEAP, size : Sizes]]
  <2>1. NoBlock \in [ptr : 0 .. MAX_HEAP, size : Sizes]
    BY AllocatorAssumption DEF NoBlock, NULL
  <2> QED  BY <1>2, <2>1
<1>10. Owns(blocks, K)
  BY <1>4, <1>7, <1>8, <1>9 DEF Owns, Only
<1>11. Filled(h.mem, blocks)
  BY <1>8 DEF Filled
<1> QED  BY <1>2, <1>7, <1>10, <1>11 DEF Sound

\* Every step from a sound heap goes astray or is for a name.
LEMMA Steps ==
    ASSUME NEW L, Sound(h, L, blocks), lost = FALSE, NormalMode,
           NormalMode' \/ Firsts \cap Sizes = {}, Next
    PROVE  Strands(L) \/ \E i \in Ids : \E K : Outcome(L, K, i)
<1>1. PICK i \in Ids : \/ \E size \in Sizes : Malloc(i, size) \/ Realloc(i, size)
                       \/ Free(i)
  BY DEF Next
<1> SUFFICES Strands(L) \/ \E K : Outcome(L, K, i)
  OBVIOUS
<1>4. CASE Free(i)
  <2> DEFINE r == Ret(mm_free(h, blocks[i].ptr), NULL)
  <2>1. Answer(i, r, 0)
    BY <1>4 DEF Free
  <2>2. r.h = mm_free(h, blocks[i].ptr) /\ r.bp = NULL /\ r.bp # WILD
    BY DEF Ret, NULL, WILD
  <2> HIDE DEF r
  <2>3. /\ h' = mm_free(h, blocks[i].ptr) /\ blocks' = [blocks EXCEPT ![i] = NoBlock]
        /\ lost' = FALSE
    BY <2>1, <2>2 DEF Answer, Answered
  <2> QED  BY <2>3, Releases
<1>5. ASSUME NEW size \in Sizes, Malloc(i, size)
      PROVE  Strands(L) \/ \E K : Outcome(L, K, i)
  <2>1. blocks[i].ptr = NULL
    BY <1>5 DEF Malloc, Held, NoBlock
  <2>2. Answer(i, mm_malloc(h, size), size) /\ (NormalMode' \/ size \notin Firsts)
    BY <1>5 DEF Malloc
  <2> QED  BY <2>1, <2>2, MallocStep
<1>6. ASSUME NEW size \in Sizes, Realloc(i, size)
      PROVE  Strands(L) \/ \E K : Outcome(L, K, i)
  <2>1. /\ Answer(i, mm_realloc(h, blocks[i].ptr, size), size)
        /\ NormalMode' \/ size \notin Firsts
    BY <1>6 DEF Realloc
  <2>2. CASE blocks[i].ptr = NULL
    <3>1. mm_realloc(h, blocks[i].ptr, size) = mm_malloc(h, size)
      BY <2>2 DEF mm_realloc
    <3> QED  BY <2>1, <2>2, <3>1, MallocStep
  <2>3. CASE blocks[i].ptr # NULL /\ size = 0
    <3> DEFINE r == mm_realloc(h, blocks[i].ptr, size)
    <3>1. r = Ret(mm_free(h, blocks[i].ptr), NULL)
      BY <2>3 DEF mm_realloc
    <3>2. r.h = mm_free(h, blocks[i].ptr) /\ r.bp = NULL
      BY <3>1 DEF Ret
    <3> HIDE DEF r
    <3>3. Answer(i, r, size)
      BY <2>1 DEF r
    <3>4. r.bp # WILD
      BY <3>2 DEF NULL, WILD
    <3>5. /\ h' = mm_free(h, blocks[i].ptr) /\ blocks' = [blocks EXCEPT ![i] = NoBlock]
          /\ lost' = FALSE
      BY <2>3, <3>2, <3>3, <3>4 DEF Answer, Answered
    <3> QED  BY <3>5, Releases
  <2>4. CASE blocks[i].ptr # NULL /\ size # 0
    BY <2>1, <2>4, ReallocStep
  <2> QED  BY <2>2, <2>3, <2>4
<1> QED  BY <1>1, <1>4, <1>5, <1>6

\* Astray, nothing more is lost.
LEMMA StaysAstray ==
    ASSUME lost = TRUE, Unknown(h, blocks), Next
    PROVE  lost' = TRUE /\ Unknown(h', blocks')
<1>1. \E i \in Ids, size \in Sizes : Astray(i, size)
  BY AllocatorAssumption DEF Next, Malloc, Realloc, Free, Answer
<1> QED  BY <1>1, AstrayTyped DEF Unknown

\* Every step in the normal mode keeps the invariant.
LEMMA NextInv == HeapInv /\ NormalMode /\ NormalMode' /\ [Next]_vars => HeapInv'
<1> SUFFICES ASSUME HeapInv, NormalMode, NormalMode', [Next]_vars PROVE HeapInv'
  OBVIOUS
<1>1. CASE Next /\ lost = FALSE
  <2>1. PICK L : Sound(h, L, blocks)
    BY <1>1 DEF HeapInv
  <2>2. Strands(L) \/ \E i \in Ids : \E K : Outcome(L, K, i)
    BY <1>1, <2>1, Steps
  <2> QED  BY <2>2 DEF HeapInv, Strands, Outcome
<1>2. CASE Next /\ lost = TRUE
  <2>1. lost' = TRUE /\ Unknown(h', blocks')
    BY <1>2, StaysAstray DEF HeapInv
  <2> QED  BY <2>1 DEF HeapInv
<1>3. CASE UNCHANGED vars
  BY <1>3 DEF HeapInv, vars
<1> QED  BY <1>1, <1>2, <1>3 DEF HeapInv

\* In a trace that selects none of the modes, the heap stays laid out in
\* blocks and the driver holds its allocated ones, until a request goes astray.
THEOREM Invariance == Spec /\ []NormalMode => []HeapInv
<1>1. Init => HeapInv
  BY InitInv
<1>2. HeapInv /\ NormalMode /\ NormalMode' /\ [Next]_vars => HeapInv'
  BY NextInv
<1> QED  BY <1>1, <1>2, PTL DEF Spec

\* The walk over a sound heap meets the blocks of its layout, in order.
LEMMA Walked ==
    ASSUME NEW L, Good(h, L)
    PROVE  /\ Tiles(h, L) /\ MergedBut(L, {}) /\ Layout(L, h.brk) /\ h.brk \in 0 .. MAX_HEAP
           /\ 1 \in DOMAIN L /\ L[1] = PACK(1, 1)
           /\ IsChain(L, h.brk, 1, Blocks) /\ Len(Blocks) \in Nat /\ Len(Blocks) # 0
           /\ DOMAIN Blocks = 1 .. Len(Blocks) /\ Blocks[1] = 1
           /\ \A x : Contains(Blocks, x) <=> x \in DOMAIN L
           /\ \A b \in DOMAIN L : /\ BlockSize(b) = L[b].size
                                  /\ Allocated(b) <=> L[b].alloc = 1
                                  /\ h.mem[FTRP(h.mem, b)] = h.mem[HDRP(b)]
<1>1. /\ Tiles(h, L) /\ MergedBut(L, {}) /\ Layout(L, h.brk) /\ h.brk \in 0 .. MAX_HEAP
      /\ 1 \in DOMAIN L /\ L[1] = PACK(1, 1)
  BY DEF Good, Tiles, State, Layout
<1>2. 1 # h.brk
  BY <1>1, AllocatorAssumption DEF Layout
<1>3. IsChain(L, h.brk, 1, Blocks)
  BY <1>1, Chain DEF Blocks, heap_listp
<1>4. /\ Len(Blocks) \in Nat /\ Len(Blocks) # 0 /\ DOMAIN Blocks = 1 .. Len(Blocks)
      /\ Blocks[1] = 1
  BY <1>2, <1>3 DEF IsChain
<1>5. \A x : Contains(Blocks, x) <=> x \in DOMAIN L
  BY <1>1, AtJust DEF Blocks
<1>6. ASSUME NEW b \in DOMAIN L
      PROVE  /\ BlockSize(b) = L[b].size /\ (Allocated(b) <=> L[b].alloc = 1)
             /\ h.mem[FTRP(h.mem, b)] = h.mem[HDRP(b)]
  <2>1. /\ HDRP(b) = 2 * b - 1 /\ GET_SIZE(h.mem, HDRP(b)) = L[b].size
        /\ GET_ALLOC(h.mem, HDRP(b)) = L[b].alloc
        /\ FTRP(h.mem, b) = 2 * (b + L[b].size) - 2
    BY <1>1, Headers
  <2>2. h.mem[2 * b - 1] = L[b] /\ h.mem[2 * (b + L[b].size) - 2] = L[b]
    BY <1>1 DEF Tiles, Tagged
  <2> QED  BY <2>1, <2>2 DEF BlockSize, Allocated
<1> QED  BY <1>1, <1>3, <1>4, <1>5, <1>6

\* The invariant gives the types,
LEMMA SoundTyped == HeapInv => TypeOK
<1>1. ASSUME NEW L, Sound(h, L, blocks), lost = FALSE PROVE TypeOK
  <2>1. h \in State /\ InHeap(h)
        /\ blocks \in [Ids -> [ptr : 0 .. MAX_HEAP, size : Sizes]]
    BY <1>1 DEF Sound, Good, Tiles, Owns
  <2> QED  BY <1>1, <2>1 DEF TypeOK, State, InHeap, heap_listp
<1>2. ASSUME lost = TRUE, Unknown(h, blocks) PROVE TypeOK
  BY <1>2, FreshIs DEF TypeOK, Unknown, State
<1> QED  BY <1>1, <1>2 DEF HeapInv

\* the well-formed list of blocks,
LEMMA SoundWellFormed == HeapInv => WellFormed
<1> SUFFICES ASSUME NEW L, Sound(h, L, blocks), lost = FALSE PROVE WellFormed
  BY DEF HeapInv, WellFormed
<1> DEFINE W == Blocks
<1>1. /\ Tiles(h, L) /\ MergedBut(L, {}) /\ Layout(L, h.brk) /\ h.brk \in 0 .. MAX_HEAP
      /\ 1 \in DOMAIN L /\ L[1] = PACK(1, 1)
      /\ IsChain(L, h.brk, 1, W) /\ Len(W) \in Nat /\ Len(W) # 0
      /\ DOMAIN W = 1 .. Len(W) /\ W[1] = 1
      /\ \A x : Contains(W, x) <=> x \in DOMAIN L
      /\ \A b \in DOMAIN L : /\ BlockSize(b) = L[b].size
                             /\ Allocated(b) <=> L[b].alloc = 1
                             /\ h.mem[FTRP(h.mem, b)] = h.mem[HDRP(b)]
  BY Walked DEF Sound
<1> HIDE DEF W
<1>2. /\ W \in Seq(Nat)
      /\ \A k \in 1 .. Len(W) :
            /\ W[k] \in DOMAIN L
            /\ k = Len(W) => W[k] + L[W[k]].size = h.brk
            /\ k < Len(W) => W[k + 1] = W[k] + L[W[k]].size
  BY <1>1 DEF IsChain
<1>3. W # << >> /\ Head(W) = heap_listp
  <2>1. W \in Seq(Nat) /\ Len(W) # 0 /\ W[1] = 1
    BY <1>1, <1>2
  <2>2. W # << >>
    <3> SUFFICES ASSUME W = << >> PROVE FALSE
      OBVIOUS
    <3>1. Len(<< >>) # 0
      BY <2>1
    <3> QED  BY <3>1
  <2>3. Head(W) = W[1]
    BY <2>1, <2>2
  <2> QED  BY <2>1, <2>2, <2>3, SMTT(30) DEF heap_listp
<1>4. BlockSize(heap_listp) = 1 /\ Allocated(heap_listp)
  BY <1>1, Packed DEF heap_listp
<1>5. ~ Contains(W, WILD)
  BY <1>1 DEF WILD, Layout
<1>6. Last(W) + BlockSize(Last(W)) = h.brk
  <2>1. Len(W) \in 1 .. Len(W)
    BY <1>1
  <2>2. Last(W) \in DOMAIN L /\ Last(W) + L[Last(W)].size = h.brk
    BY <1>2, <2>1 DEF Last
  <2> QED  BY <1>1, <2>2
<1>7. ASSUME NEW k \in DOMAIN W
      PROVE  /\ h.mem[FTRP(h.mem, W[k])] = h.mem[HDRP(W[k])]
             /\ k > 1 => Allocated(W[k]) \/ Allocated(W[k - 1])
  <2>1. W[k] \in DOMAIN L
    BY <1>1, <1>2
  <2>2. ASSUME k > 1 PROVE Allocated(W[k]) \/ Allocated(W[k - 1])
    <3> DEFINE p == k - 1
    <3>1. p \in 1 .. Len(W) /\ p < Len(W) /\ p + 1 = k
      BY <1>1, <2>2
    <3> HIDE DEF p
    <3>2. W[p] \in DOMAIN L /\ W[k] = W[p] + L[W[p]].size
      BY <1>2, <3>1
    <3>3. L[W[p]].alloc = 1 \/ L[W[k]].alloc = 1
      BY <1>1, <2>1, <3>2 DEF MergedBut
    <3>4. Allocated(W[k]) \/ Allocated(W[p])
      BY <1>1, <2>1, <3>2, <3>3
    <3> QED  BY <3>4 DEF p
  <2> QED  BY <1>1, <2>1, <2>2, SMTT(30)
<1> QED  BY <1>3, <1>4, <1>5, <1>6, <1>7 DEF WellFormed, W

\* every allocated block held by the driver, and the other way round,
LEMMA SoundAccounted == HeapInv => Accounted
<1> SUFFICES ASSUME NEW L, Sound(h, L, blocks), lost = FALSE PROVE Accounted
  BY DEF HeapInv, Accounted
<1> DEFINE W == Blocks
<1>1. /\ IsChain(L, h.brk, 1, W) /\ Len(W) \in Nat /\ Layout(L, h.brk)
      /\ h.brk \in 0 .. MAX_HEAP
      /\ \A x : Contains(W, x) <=> x \in DOMAIN L
      /\ \A b \in DOMAIN L : /\ BlockSize(b) = L[b].size
                             /\ Allocated(b) <=> L[b].alloc = 1
  BY Walked DEF Sound
<1>2. Owns(blocks, L)
  BY DEF Sound
<1> HIDE DEF W
<1>3. ASSUME NEW k \in 2 .. Len(W), Allocated(W[k])
      PROVE  \E i \in Ids : blocks[i].ptr = W[k]
  <2> DEFINE p == k - 1
  <2>1. p \in 1 .. Len(W) /\ p < Len(W) /\ p + 1 = k /\ k \in 1 .. Len(W)
    BY <1>1
  <2> HIDE DEF p
  <2>2. W[p] \in DOMAIN L /\ W[k] \in DOMAIN L /\ W[k] = W[p] + L[W[p]].size
    BY <1>1, <2>1 DEF IsChain
  <2>3. W[k] # 1
    <3>1. W[p] \in Nat /\ 1 <= W[p] /\ L[W[p]].size \in Nat /\ 1 <= L[W[p]].size
      BY <1>1, <2>2, Placed
    <3> QED  BY <2>2, <3>1
  <2>4. L[W[k]].alloc = 1
    BY <1>1, <1>3, <2>2
  <2> QED  BY <1>2, <2>2, <2>3, <2>4 DEF Owns
<1>4. ASSUME NEW i \in Ids, Held(i)
      PROVE  /\ Contains(W, blocks[i].ptr) /\ Allocated(blocks[i].ptr)
             /\ blocks[i].size <= 2 * (BlockSize(blocks[i].ptr) - 1)
  <2>1. /\ blocks[i].ptr \in DOMAIN L /\ L[blocks[i].ptr].alloc = 1
        /\ blocks[i].size <= 2 * (L[blocks[i].ptr].size - 1)
    BY <1>2, <1>4 DEF Owns, Held
  <2> QED  BY <1>1, <2>1
<1> QED  BY <1>3, <1>4 DEF Accounted, W

\* no recent position at a block once a request has gone astray,
LEMMA AstrayNowhere == Unknown(h, blocks) => ~ JustValid
<1> SUFFICES ASSUME h = Fresh PROVE ~ Contains(Blocks, h.just)
  BY DEF Unknown, JustValid
<1>1. h.just = 0 /\ h.mem \in Memory /\ ~ IsTag(h.mem, HDRP(heap_listp))
  BY FreshIs DEF State, Memory
<1>2. Blocks = <<WILD>>
  <2> DEFINE b == heap_listp
  <2>1. b \in Int /\ ~ IsTag(h.mem, HDRP(b))
    BY <1>1 DEF heap_listp
  <2> HIDE DEF b
  <2>2. Walk(h.mem, b) = <<WILD>>
    BY <1>1, <2>1, WalkStep
  <2> QED  BY <2>2 DEF b, Blocks
<1> QED  BY <1>1, <1>2 DEF Contains, WILD

\* and no refusal while a free block is large enough.
LEMMA SoundFails == HeapInv /\ NormalMode => FailsOnlyWhenFull
<1> SUFFICES ASSUME NEW L, Sound(h, L, blocks), NormalMode,
                    NEW size \in Sizes \ {0}, mm_malloc(h, size).bp = NULL,
                    NEW k \in DOMAIN Blocks
             PROVE  Allocated(Blocks[k]) \/ BlockSize(Blocks[k]) < Rounded(size)
  BY AstrayNowhere DEF HeapInv, FailsOnlyWhenFull
<1> DEFINE r == mm_malloc(h, size)
           asize == Rounded(size)
<1>1. Good(h, L) /\ size \in Nat /\ size # 0
  BY AllocatorAssumption DEF Sound
<1>2. \/ Select(r, size) \/ Strays(Begun(h), L, r) \/ Fails(Begun(h), L, r, asize)
      \/ \E K : Gets(Begun(h), L, r, K, asize)
  BY <1>1, Requests DEF NormalMode
<1>3. asize \in Nat
  BY <1>1, Rounds
<1> HIDE DEF r, asize
<1>4. r.bp = NULL
  BY DEF r
<1>5. ~ Select(r, size) /\ ~ Strays(Begun(h), L, r)
  BY <1>4 DEF Select, Strays, NULL, WILD
<1>6. ASSUME NEW K, Gets(Begun(h), L, r, K, asize) PROVE FALSE
  <2>1. NULL \in DOMAIN K /\ Layout(K, r.h.brk)
    BY <1>4, <1>6 DEF Gets, Good, Tiles
  <2> QED  BY <2>1 DEF Layout, NULL
<1>7. \A b \in DOMAIN L : ~ Fit(L, b, asize)
  BY <1>2, <1>5, <1>6 DEF Fails
<1>8. /\ Blocks[k] \in DOMAIN L /\ BlockSize(Blocks[k]) = L[Blocks[k]].size
      /\ Allocated(Blocks[k]) <=> L[Blocks[k]].alloc = 1
  <2>1. /\ IsChain(L, h.brk, 1, Blocks) /\ DOMAIN Blocks = 1 .. Len(Blocks)
        /\ \A b \in DOMAIN L : /\ BlockSize(b) = L[b].size
                               /\ Allocated(b) <=> L[b].alloc = 1
    BY <1>1, Walked
  <2>2. Blocks[k] \in DOMAIN L
    BY <2>1 DEF IsChain
  <2> QED  BY <2>1, <2>2
<1>9. L[Blocks[k]].size \in Nat /\ L[Blocks[k]].alloc \in {0, 1}
  BY <1>1, <1>8, Placed DEF Good, Tiles, State
<1> QED  BY <1>3, <1>7, <1>8, <1>9 DEF Fit, asize
-----------------------------------------------------------------------------
(* The theorems.                                                           *)
LEMMA InitNormal == Init => NormalMode
<1> DEFINE t == [Tag([Fresh EXCEPT !.brk = 2, !.just = heap_listp,
                               !.fmalloc = TRUE, !.TR = 0, !.Q_no = -1],
                     heap_listp, 1, 1) EXCEPT
                      !.mem[0] = PACK(0, 0), !.mem[3] = PACK(0, 1)]
<1>1. Init => h = extend_heap(t, CHUNKSIZE).h
  BY DEF Init, mm_init
<1>2. Good(t, [b \in {1} |-> PACK(1, 1)]) /\ t.TR = 0
  BY Begins
<1> HIDE DEF t
<1>3. Moded(t, 0)
  BY <1>2 DEF Good, Tiles, State, Moded
<1>4. Moded(extend_heap(t, CHUNKSIZE).h, 0)
  BY <1>3, ExtendModed
<1> QED  BY <1>1, <1>4 DEF NormalMode, Moded

\* Where no request has a size that selects a mode, the mode stays normal.
LEMMA StaysNormal ==
    ASSUME Firsts \cap Sizes = {}
    PROVE  HeapInv /\ NormalMode /\ [Next]_vars => HeapInv' /\ NormalMode'
<1> SUFFICES ASSUME HeapInv, NormalMode, [Next]_vars PROVE HeapInv' /\ NormalMode'
  OBVIOUS
<1>1. CASE Next /\ lost = FALSE
  <2>1. PICK L : Sound(h, L, blocks)
    BY <1>1 DEF HeapInv
  <2>2. Strands(L) \/ \E i \in Ids : \E K : Outcome(L, K, i)
    BY <1>1, <2>1, Steps
  <2>3. CASE Strands(L)
    BY <2>3 DEF HeapInv, NormalMode, Strands, Unknown, Fresh
  <2>4. CASE \E i \in Ids : \E K : Outcome(L, K, i)
    BY <2>4 DEF HeapInv, NormalMode, Outcome
  <2> QED  BY <2>2, <2>3, <2>4
<1>2. CASE Next /\ lost = TRUE
  <2>1. lost' = TRUE /\ Unknown(h', blocks')
    BY <1>2, StaysAstray DEF HeapInv
  <2> QED  BY <2>1 DEF HeapInv, NormalMode, Unknown, Fresh
<1>3. CASE UNCHANGED vars
  BY <1>3 DEF HeapInv, NormalMode, vars
<1> QED  BY <1>1, <1>2, <1>3 DEF HeapInv

\* The modes of mm_malloc are a matter of the first sizes alone: a driver that
\* never asks for one of these three sizes stays in the normal mode, so that
\* the theorems below hold for whatever it does.
THEOREM Unselected ==
    ASSUME Firsts \cap Sizes = {}
    PROVE  Spec => []NormalMode
<1>1. Init => HeapInv /\ NormalMode
  BY InitInv, InitNormal
<1>2. HeapInv /\ NormalMode /\ [Next]_vars => HeapInv' /\ NormalMode'
  BY StaysNormal
<1> QED  BY <1>1, <1>2, PTL DEF Spec

\* In the normal mode the static variables, the memory and the driver's table
\* keep their types: the recent position stays inside the heap.
THEOREM HeapTyped == Spec /\ []NormalMode => []TypeOK
BY Invariance, SoundTyped, PTL

\* In the normal mode, and until a request goes astray, the heap stays what
\* mm_check asks for: the headers lead to the epilogue, footers agree with them,
\* no two neighbours are free.
THEOREM HeapWellFormed == Spec /\ []NormalMode => []WellFormed
BY Invariance, SoundWellFormed, PTL

\* In the normal mode, and until a request goes astray, no block is forgotten:
\* those marked allocated are those the driver holds, and they are as large as
\* it asked.
THEOREM HeapAccounted == Spec /\ []NormalMode => []Accounted
BY Invariance, SoundAccounted, PTL

\* Where just is a block the layout of the heap is known, and just is in it.
LEMMA JustIn ==
    ASSUME NEW L, Sound(h, L, blocks)
    PROVE  JustValid <=> h.just \in DOMAIN L
<1>1. Tiles(h, L)
  BY DEF Sound, Good
<1>2. Contains(Walk(h.mem, heap_listp), h.just) <=> h.just \in DOMAIN L
  BY <1>1, AtJust
<1> QED  BY <1>2 DEF JustValid, Blocks

\* A request made with just at a block does not go astray.
LEMMA StepDetermined ==
    HeapInv /\ NormalMode /\ NormalMode' /\ [Next]_vars => [JustValid => ~ lost']_vars
<1> SUFFICES ASSUME HeapInv, NormalMode, NormalMode', Next, JustValid PROVE ~ lost'
  OBVIOUS
<1>1. lost = FALSE
  BY AstrayNowhere DEF HeapInv
<1>2. PICK L : Sound(h, L, blocks)
  BY <1>1 DEF HeapInv
<1>3. Strands(L) \/ \E i \in Ids : \E K : Outcome(L, K, i)
  BY <1>1, <1>2, Steps
<1>4. ~ Strands(L)
  BY <1>2, JustIn DEF Strands
<1> QED  BY <1>3, <1>4 DEF Outcome

\* In the normal mode a request goes astray only from a recent position that a
\* realloc has stranded: mm.c starts no request at a block and then takes a word
\* that is no tag for one.
THEOREM HeapDetermined == Spec /\ []NormalMode => Determined
BY Invariance, StepDetermined, PTL DEF Spec, Determined

\* In the normal mode, and with a recent position that is a block, a request
\* would fail only if no free block were large enough.
THEOREM HeapFails == Spec /\ []NormalMode => []FailsOnlyWhenFull
BY Invariance, SoundFails, PTL

\* Only a block that grows, and is not moved upwards, takes the recent position
\* off the blocks.
LEMMA GrowthStep ==
    HeapInv /\ NormalMode /\ NormalMode' /\ [Next]_vars =>
        [JustValid /\ ~ JustValid' =>
            \E i \in Ids :
               /\ Held(i) /\ blocks'[i].size > blocks[i].size
               /\ blocks'[i].ptr <= blocks[i].ptr]_vars
<1> SUFFICES ASSUME HeapInv, NormalMode, NormalMode', Next, JustValid, ~ JustValid'
             PROVE  \E i \in Ids :
                       /\ Held(i) /\ blocks'[i].size > blocks[i].size
                       /\ blocks'[i].ptr <= blocks[i].ptr
  OBVIOUS
<1>1. lost = FALSE
  BY AstrayNowhere DEF HeapInv
<1>2. PICK L : Sound(h, L, blocks)
  BY <1>1 DEF HeapInv
<1>3. h.just \in DOMAIN L
  BY <1>2, JustIn
<1>4. PICK i \in Ids : \E K : Outcome(L, K, i)
  BY <1>1, <1>2, <1>3, Steps DEF Strands
<1>5. PICK K : Outcome(L, K, i)
  BY <1>4
<1>6. h'.just \notin DOMAIN K
  <2>1. Tiles(h', K)
    BY <1>5 DEF Outcome, Sound, Good
  <2>2. Contains(Walk(h'.mem, heap_listp), h'.just) <=> h'.just \in DOMAIN K
    BY <2>1, AtJust
  <2> QED  BY <2>2 DEF JustValid, Blocks
<1>7. Held(i) /\ blocks'[i].size > blocks[i].size /\ blocks'[i].ptr <= blocks[i].ptr
  BY <1>3, <1>5, <1>6 DEF Outcome
<1> QED  BY <1>7

\* In the normal mode only a realloc that grows its block into a neighbour
\* takes the header away that the recent position points to.
THEOREM GrowthStrands == Spec /\ []NormalMode => OnlyGrowthStrands
BY Invariance, GrowthStep, PTL DEF Spec, OnlyGrowthStrands
-----------------------------------------------------------------------------
(* The promise of malloc, realloc and free.                                *)
\* What the driver finds in its blocks.
SeenIn(m, tab) ==
    [i \in Ids |->
        [lo |-> tab[i].ptr,
         data |-> [k \in 0 .. tab[i].size - 1 |->
                      LET w == 2 * tab[i].ptr + k
                      IN  IF w \in DOMAIN m /\ m[w].kind = "data"
                          THEN m[w].id ELSE NULL]]]

\* What it wrote there.
Told(row, i) == [lo |-> row.ptr, data |-> Contract!Pattern(i, row.size)]

\* What the payloads show is what the driver's table says of them.
LEMMA SeenIsTold ==
    ASSUME NEW s, NEW L, NEW tab, Sound(s, L, tab)
    PROVE  SeenIn(s.mem, tab) = [i \in Ids |-> Told(tab[i], i)]
<1> SUFFICES ASSUME NEW i \in Ids, NEW k \in 0 .. tab[i].size - 1
             PROVE  (LET w == 2 * tab[i].ptr + k
                     IN  IF w \in DOMAIN s.mem /\ s.mem[w].kind = "data"
                         THEN s.mem[w].id ELSE NULL) = i
  BY DEF SeenIn, Told, Contract!Pattern
<1>1. s.mem[2 * tab[i].ptr + k] = Data(i)
  BY DEF Sound, Filled
<1>2. 2 * tab[i].ptr + k \in DOMAIN s.mem
  <2>1. /\ Layout(L, s.brk) /\ s.brk \in 0 .. MAX_HEAP /\ Owns(tab, L)
        /\ DOMAIN s.mem = 0 .. 2 * MAX_HEAP - 1
    BY DEF Sound, Good, Tiles, State
  <2>2. tab[i].ptr \in Nat /\ tab[i].size \in Nat /\ (tab[i].ptr = NULL => tab[i].size = 0)
    BY <2>1, Rows
  <2>3. tab[i].ptr # NULL
    BY <2>2
  <2> DEFINE b == tab[i].ptr
  <2>4. b \in DOMAIN L /\ L[b].size \in Nat /\ tab[i].size <= 2 * L[b].size - 2
    BY <2>1, <2>3, HeldIs
  <2>5. b + L[b].size <= s.brk /\ s.brk <= MAX_HEAP /\ s.brk \in Nat /\ MAX_HEAP \in Nat
    BY <2>1, <2>4, Placed, AllocatorAssumption
  <2>6. b \in Nat /\ k \in Nat /\ k < tab[i].size /\ tab[i].size \in Nat
    BY <2>2
  <2> DEFINE z == L[b].size
  <2>7. z \in Nat /\ tab[i].size <= 2 * z - 2 /\ b + z <= s.brk
    BY <2>4, <2>5
  <2> HIDE DEF b, z
  <2>8. 2 * b + k \in 0 .. 2 * MAX_HEAP - 1
    BY <2>5, <2>6, <2>7
  <2> QED  BY <2>1, <2>8 DEF b
<1> QED  BY <1>1, <1>2 DEF Data

\* An empty entry of the table is no payload.
LEMMA ToldNothing ==
    ASSUME NEW i
    PROVE  Told(NoBlock, i) = Contract!None
<1>1. NoBlock.ptr = 0 /\ NoBlock.size = 0
  BY DEF NoBlock, NULL
<1>2. [k \in 0 .. 0 - 1 |-> i] = [k \in 0 .. -1 |-> 0]
  <2>1. 0 - 1 = -1 /\ 0 .. -1 = {}
    OBVIOUS
  <2> QED  BY <2>1
<1> QED  BY <1>1, <1>2 DEF Told, Contract!None, Contract!Pattern

\* The heap starts as the contract does.
LEMMA InitKept == Init => Contract!Init
<1> SUFFICES ASSUME Init PROVE Live = [i \in Ids |-> Contract!None]
  BY DEF Contract!Init
<1>1. blocks = [i \in Ids |-> NoBlock]
  BY DEF Init
<1>2. PICK L : Sound(h, L, blocks)
  BY InitInv DEF HeapInv, Init
<1>3. Live = [i \in Ids |-> Told(blocks[i], i)]
  BY <1>2, SeenIsTold DEF Live, SeenIn
<1> QED  BY <1>1, <1>3, ToldNothing

\* The words of two blocks of the driver are not the same.
LEMMA WordsApart ==
    ASSUME NEW s, NEW L, Good(s, L), NEW tab, Owns(tab, L),
           NEW i \in Ids, NEW j \in Ids, i # j
    PROVE  Contract!Words(Told(tab[i], i)) \cap Contract!Words(Told(tab[j], j)) = {}
<1>1. Layout(L, s.brk) /\ s.brk \in 0 .. MAX_HEAP
  BY DEF Good, Tiles, State
<1>2. \A x \in Ids : Contract!Words(Told(tab[x], x))
                       = {2 * tab[x].ptr + k : k \in 0 .. tab[x].size - 1}
  BY DEF Contract!Words, Told, Contract!Pattern
<1>3. \A x \in Ids : /\ tab[x].ptr \in Nat /\ tab[x].size \in Nat
                     /\ tab[x].ptr = NULL => tab[x].size = 0
  BY <1>1, Rows
<1>4. CASE tab[i].ptr = NULL \/ tab[j].ptr = NULL
  <2>1. ASSUME NEW x \in Ids, tab[x].ptr = NULL
        PROVE  Contract!Words(Told(tab[x], x)) = {}
    <3>1. 0 .. tab[x].size - 1 = {}
      BY <1>3, <2>1
    <3> QED  BY <1>2, <3>1
  <2> QED  BY <1>4, <2>1
<1>5. CASE tab[i].ptr # NULL /\ tab[j].ptr # NULL
  <2> DEFINE b == tab[i].ptr
             c == tab[j].ptr
  <2>1. /\ b \in DOMAIN L /\ L[b].size \in Nat /\ tab[i].size <= 2 * L[b].size - 2
        /\ c \in DOMAIN L /\ L[c].size \in Nat /\ tab[j].size <= 2 * L[c].size - 2
    BY <1>1, <1>5, HeldIs
  <2>2. b # c
    BY <1>5 DEF Owns
  <2>3. b \in Nat /\ c \in Nat /\ tab[i].size \in Nat /\ tab[j].size \in Nat
    BY <1>3
  <2> HIDE DEF b, c
  <2>4. (c <= b \/ b + L[b].size <= c) /\ (b <= c \/ c + L[c].size <= b)
    BY <1>1, <2>1, Placed
  <2>5. ASSUME NEW k \in 0 .. tab[i].size - 1, NEW m \in 0 .. tab[j].size - 1
        PROVE  2 * b + k # 2 * c + m
    BY <2>1, <2>2, <2>3, <2>4
  <2> QED  BY <1>2, <2>5 DEF b, c
<1> QED  BY <1>4, <1>5

\* A step of the allocator is a step of the promise, or none.
LEMMA StepKept ==
    ASSUME NEW L, Sound(h, L, blocks), NEW i \in Ids, NEW K, Outcome(L, K, i)
    PROVE  Contract!Next \/ Live' = Live
<1>1. Owns(blocks, L)
  BY DEF Sound
<1>2. Good(h', K) /\ Owns(blocks', K) /\ Sound(h', K, blocks')
  BY DEF Outcome, Sound
<1>3. Live = [j \in Ids |-> Told(blocks[j], j)]
  <2>1. Live = SeenIn(h.mem, blocks)
    BY DEF Live, SeenIn
  <2> QED  BY <2>1, SeenIsTold
<1>4. Live' = [j \in Ids |-> Told(blocks'[j], j)]
  <2>1. Live' = SeenIn(h'.mem, blocks')
    BY DEF Live, SeenIn
  <2> QED  BY <1>2, <2>1, SeenIsTold
<1>5. DOMAIN blocks = Ids
  BY <1>1 DEF Owns
<1>6. CASE blocks' = blocks
  BY <1>3, <1>4, <1>6
<1>7. CASE blocks' = [blocks EXCEPT ![i] = NoBlock]
  <2>1. Live' = [Live EXCEPT ![i] = Contract!None]
    BY <1>3, <1>4, <1>5, <1>7, ToldNothing, SMTT(30)
  <2>2. Contract!Free(i)
    BY <2>1 DEF Contract!Free, Live
  <2> QED  BY <2>2 DEF Contract!Next
<1>8. CASE \E p \in 1 .. MAX_HEAP, z \in Sizes \ {0} :
              blocks' = [blocks EXCEPT ![i] = [ptr |-> p, size |-> z]]
  <2>1. PICK p \in 1 .. MAX_HEAP, z \in Sizes \ {0} :
              blocks' = [blocks EXCEPT ![i] = [ptr |-> p, size |-> z]]
    BY <1>8
  <2>2. /\ blocks'[i].ptr = p /\ blocks'[i].size = z
        /\ \A j \in Ids \ {i} : blocks'[j] = blocks[j]
    BY <1>5, <2>1
  <2>3. Live'[i] = [lo |-> p, data |-> Contract!Pattern(i, z)]
    BY <1>4, <2>2 DEF Told
  <2>4. Live'[i] \in Contract!Given(i)
    BY <2>3 DEF Contract!Given
  <2>5. Live' = [Live EXCEPT ![i] = Live'[i]]
    BY <1>3, <1>4, <2>2
  <2>6. ASSUME NEW j \in Ids \ {i}
        PROVE  Contract!Words(Live'[i]) \cap Contract!Words(Live[j]) = {}
    <3>1. Contract!Words(Told(blocks'[i], i)) \cap Contract!Words(Told(blocks'[j], j)) = {}
      BY <1>2, WordsApart
    <3>2. Live'[i] = Told(blocks'[i], i) /\ Live[j] = Told(blocks'[j], j)
      BY <1>3, <1>4, <2>2, SMTT(30)
    <3> QED  BY <3>1, <3>2
  <2>7. Contract!Give(i)
    BY <2>4, <2>5, <2>6 DEF Contract!Give, Live
  <2> QED  BY <2>7 DEF Contract!Next, Contract!Malloc, Contract!Realloc
<1> QED  BY <1>6, <1>7, <1>8 DEF Outcome

\* Every step in the normal mode is a step of the contract or a stutter, or it
\* goes astray.
LEMMA StepImplements ==
    HeapInv /\ NormalMode /\ NormalMode' /\ [Next]_vars => [lost' \/ Contract!Next]_Live
<1> SUFFICES ASSUME HeapInv, NormalMode, NormalMode', [Next]_vars
             PROVE  lost' \/ Contract!Next \/ Live' = Live
  OBVIOUS
<1>1. CASE Next /\ lost = FALSE
  <2>1. PICK L : Sound(h, L, blocks)
    BY <1>1 DEF HeapInv
  <2>2. CASE Strands(L)
    BY <2>2 DEF Strands
  <2>3. CASE \E i \in Ids : \E K : Outcome(L, K, i)
    BY <2>1, <2>3, StepKept
  <2> QED  BY <1>1, <2>1, <2>2, <2>3, Steps
<1>2. CASE Next /\ lost = TRUE
  BY <1>2, StaysAstray DEF HeapInv
<1>3. CASE UNCHANGED vars
  BY <1>3 DEF vars, Live
<1> QED  BY <1>1, <1>2, <1>3 DEF HeapInv

\* In the normal mode mm.c keeps the promise of malloc, realloc and free, for
\* every size of heap and whatever the driver asks for, until a request goes
\* astray (which HeapDetermined and GrowthStrands allow only after a realloc that
\* merged its neighbours): each block has words of its own and keeps what was
\* written into it.
THEOREM HeapImplements == Spec /\ []NormalMode => Implements
BY InitKept, StepImplements, Invariance, PTL DEF Spec, Implements
=============================================================================
