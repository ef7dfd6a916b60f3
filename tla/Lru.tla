-------------------------------- MODULE Lru --------------------------------
(* What a cache simulator promises: each set holds up to E blocks, an      *)
(* access to a block it holds is a hit, any other a miss that brings the   *)
(* block in, and when there is no room left a block goes that was not used *)
(* later than any other, as far as the clock can tell.                     *)
EXTENDS Integers, FiniteSets, Functions

CONSTANTS Addresses, Ops

VARIABLES time,   \* of the processor
          g,      \* the geometry: S sets of E lines, of blocks of B bytes
          held,   \* in each set, the blocks it holds and when each was last used
          counts  \* hit, miss, eviction

Index(addr) == (addr \div g.B) % g.S
Block(addr) == addr \div (g.B * g.S)

Init == /\ held = [i \in 0 .. g.S - 1 |-> [k \in {} |-> 0]]
        /\ counts = [hit |-> 0, miss |-> 0, eviction |-> 0]

\* Block k is now in set q, in the place of one of Gone if there is any.
Placed(q, k, Gone, now) ==
    [m \in (DOMAIN q \ Gone) \cup {k} |-> IF m = k THEN now ELSE q[m]]

Oldest(q) == {k \in DOMAIN q : \A m \in DOMAIN q : q[k] <= q[m]}

\* A modification is a load and a store, and the store is always a hit.
Extra(op) == IF op = "M" THEN 1 ELSE 0

Hit(op, k, i) ==
    /\ k \in DOMAIN held[i]
    /\ held' = [held EXCEPT ![i] = Placed(@, k, {}, time')]
    /\ counts' = [counts EXCEPT !.hit = @ + 1 + Extra(op)]

Miss(op, k, i) ==
    /\ k \notin DOMAIN held[i]
    /\ LET full == Cardinality(DOMAIN held[i]) = g.E
       IN  /\ \E Gone \in IF full THEN {{m} : m \in Oldest(held[i])} ELSE {{}} :
                held' = [held EXCEPT ![i] = Placed(@, k, Gone, time')]
           /\ counts' = [hit |-> counts.hit + Extra(op), miss |-> counts.miss + 1,
                         eviction |-> counts.eviction + IF full THEN 1 ELSE 0]

Access == \E op \in Ops, addr \in Addresses :
            LET k == Block(addr)
                i == Index(addr)
            IN  /\ time' >= time
                /\ Hit(op, k, i) \/ Miss(op, k, i)
                /\ UNCHANGED g

Spec == Init /\ [][Access]_<<time, g, held, counts>>
=============================================================================
