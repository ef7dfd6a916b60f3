------------------------------- MODULE Cache -------------------------------
(* The cache simulator of src/lab8, csim.c: sets of lines with a tag and   *)
(* the time of their last use, fed with the accesses of a trace.           *)
EXTENDS Integers, Sequences, FiniteSetsExt

CONSTANT INT        \* tags are kept in an int: one of 0 .. INT - 1

ASSUME IntAssumption == INT \in Nat \ {0}

VARIABLES g,        \* the command line: S sets of E lines, blocks of B bytes
          lines,    \* for each set its lines, 1 .. E
          counts,   \* hit, miss, eviction
          clock     \* processor time, as clock() tells it

cvars == <<g, lines, counts, clock>>

Geometry(S, E, B) == [S |-> S, E |-> E, B |-> B]
Empty == [valid |-> FALSE, tag |-> 0, used_time |-> 0]

Cache_init(geometry) ==
    /\ g = geometry
    /\ lines = [i \in 0 .. g.S - 1 |-> [l \in 1 .. g.E |-> Empty]]
    /\ counts = [hit |-> 0, miss |-> 0, eviction |-> 0]
    /\ clock = 0
-----------------------------------------------------------------------------
GET_TAG(x) == (x \div (g.B * g.S)) % INT
GET_SET(x) == (x \div g.B) % g.S

\* The lines of set q that hold tag: none or one.
find_line(q, tag) == {l \in DOMAIN q : q[l].valid /\ q[l].tag = tag}

\* Mutant of Before: the line used last goes.
BeforeLast(q, l, m) == q[l].used_time > q[m].used_time
\* Line l goes before line m.
Before(q, l, m) == q[l].used_time < q[m].used_time

\* The first line that is free, or else the first of those used least recently.
FreeLines(q) == {l \in DOMAIN q : ~q[l].valid}
find_store(q) ==
    IF FreeLines(q) # {} THEN Min(FreeLines(q))
    ELSE Min({l \in DOMAIN q : \A m \in DOMAIN q : ~Before(q, m, l)})

\* An access by a trace: the state c of lines and counters after it.  used_time
\* is an int that takes clock() (csim.c:19 and 146): no run is so long here that
\* it wraps.
access(c, op, addr, now) ==
    LET q == c.lines[GET_SET(addr)]
        tag == GET_TAG(addr)
        found == find_line(q, tag)
        l == IF found # {} THEN Min(found) ELSE find_store(q)
        evicted == found = {} /\ FreeLines(q) = {}
    IN  [lines |-> [c.lines EXCEPT ![GET_SET(addr)][l] =
                       [valid |-> TRUE, tag |-> tag, used_time |-> now]],
         counts |-> [hit |-> c.counts.hit + (IF found # {} THEN 1 ELSE 0)
                                          + (IF op = "M" THEN 1 ELSE 0),
                     miss |-> c.counts.miss + (IF found = {} THEN 1 ELSE 0),
                     eviction |-> c.counts.eviction + (IF evicted THEN 1 ELSE 0)]]
=============================================================================
