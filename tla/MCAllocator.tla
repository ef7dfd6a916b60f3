----------------------------- MODULE MCAllocator -----------------------------
(* The allocator on a heap of a few double words: a driver that asks for   *)
(* anything in any order, and the traces modes 1 to 3 are made for.       *)
EXTENDS Allocator

Op(op, id, size) == [op |-> op, id |-> id, size |-> size]

\* Modes 1 to 3 with small numbers, related as in mm.c: a mode's block sizes
\* fill the extended heap exactly.
MCR == [FIRST |-> 8, QA1 |-> 2, QR1 |-> 10, OSINIT |-> 5, EXTH |-> 6]
MCQ == [t \in 2 .. 3 |->
    IF t = 2
    THEN [FIRST |-> 1, QEVEN |-> 1, QODD |-> 4, QFINAL |-> 5, MAXQ |-> 4,
          OSINIT |-> 3, OSNEXT |-> 5, EXTH |-> 8]
    ELSE [FIRST |-> 3, QEVEN |-> 3, QODD |-> 5, QFINAL |-> 7, MAXQ |-> 2,
          OSINIT |-> 1, OSNEXT |-> 4, EXTH |-> 4]]

\* Anything in any order.
AnyRequests == <<Op("any", {1, 2, 3}, {0, 2, 5})>>

\* realloc2.rep: one block grows while small ones come and go.
Realloc2 == <<Op("malloc", 1, 8), Op("malloc", 2, 2), Op("realloc", 1, 9),
              Op("malloc", 3, 2), Op("free", 2, 0), Op("realloc", 1, 10),
              Op("malloc", 2, 2), Op("free", 3, 0), Op("realloc", 1, 11),
              Op("free", 2, 0), Op("malloc", 3, 4), Op("free", 1, 0)>>

\* binary2.rep and binary.rep: pairs of a small and a larger block, then the
\* larger ones make room for still larger ones.
Binary2 == <<Op("malloc", 1, 1), Op("malloc", 2, 4), Op("malloc", 3, 1),
             Op("malloc", 4, 4), Op("free", 2, 0), Op("free", 4, 0),
             Op("malloc", 2, 5), Op("malloc", 4, 5), Op("free", 1, 0),
             Op("free", 3, 0), Op("malloc", 1, 4)>>
Binary == <<Op("malloc", 1, 3), Op("malloc", 2, 5), Op("free", 2, 0),
            Op("malloc", 2, 7), Op("free", 1, 0), Op("malloc", 1, 4)>>

MCTraces == {AnyRequests, Realloc2, Binary2, Binary}
=============================================================================
