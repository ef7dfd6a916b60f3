-------------------------------- MODULE Heap --------------------------------
(***************************************************************************)
(* What malloc, realloc and free promise their caller, whatever the        *)
(* allocator: each block has an address of its own, a request may fail,    *)
(* and then nothing changes, and realloc keeps what was written.           *)
(* Addresses are double words of 8 bytes (ALIGNMENT), sizes are words of 4 *)
(* bytes.  The caller is the driver of mdriver.c, which fills each block.  *)
(***************************************************************************)
EXTENDS Integers

CONSTANTS Ids,       \* the caller's names for blocks
          Sizes,     \* sizes it asks for
          Addresses  \* where a payload may start

VARIABLE live        \* live[i]: the block the caller holds under the name i

None == [lo |-> 0, data |-> [k \in 0 .. -1 |-> 0]]

\* What the driver writes in the block i: the name of the block.
Pattern(i, size) == [k \in 0 .. size - 1 |-> i]

Words(b) == {2 * b.lo + k : k \in DOMAIN b.data}

Init == live = [i \in Ids |-> None]

Given(i) == {[lo |-> lo, data |-> Pattern(i, size)] :
                lo \in Addresses, size \in Sizes \ {0}}

\* The block i is given words that nobody else holds.
Give(i) ==
    /\ live'[i] \in Given(i)
    /\ live' = [live EXCEPT ![i] = live'[i]]
    /\ \A j \in Ids \ {i} : Words(live'[i]) \cap Words(live[j]) = {}

Malloc(i) == live[i] = None /\ Give(i)

\* The block may move; what fits of the old data is still there.
Realloc(i) == live[i] # None /\ Give(i)

Free(i) == live' = [live EXCEPT ![i] = None]

Next == \E i \in Ids : Free(i) \/ Malloc(i) \/ Realloc(i)

Spec == Init /\ [][Next]_live

\* No two blocks of the caller share a word (add_range of mdriver.c).
Disjoint == \A i, j \in Ids : i # j => Words(live[i]) \cap Words(live[j]) = {}
=============================================================================
