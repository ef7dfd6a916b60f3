----------------------------- MODULE Transpose -----------------------------
(* The transpose functions of src/lab8, trans.c, and the cache they are    *)
(* graded on: test-trans.c runs one, takes its accesses to the two arrays  *)
(* and gives them to the cache simulator.  A step is one turn of the inner *)
(* loop.  Arrays are flat and lie one behind the other, as in tracegen.c.  *)
(* Besides, the simulator takes any trace of a few accesses.               *)
EXTENDS Cache, SequencesExt

CONSTANTS Addresses,    \* of the accesses of any trace
          TraceLength,  \* and how many it has
          Geometries    \* and the caches it is tried on

\* The tags of any trace are ints: addresses that differ in the upper bits
\* only would be taken for one another.
ASSUME AddressesAssumption ==
    /\ Addresses \subseteq Nat
    /\ \A geometry \in Geometries :
          /\ geometry \in [S : Nat \ {0}, E : Nat \ {0}, B : Nat \ {0}]
          /\ \A x \in Addresses : x \div (geometry.B * geometry.S) < INT

VARIABLES fn,       \* what runs: "32x32", "64x64", "61x67", or "any" trace
          n,        \* turns done
          A, B      \* the arrays, flat

tvars == <<cvars, fn, n, A, B>>

SIZE == 65536                         \* elements of the static arrays
Dim == [f \in {"32x32", "64x64", "61x67"} |->
            CASE f = "32x32" -> [M |-> 32, N |-> 32]
              [] f = "64x64" -> [M |-> 64, N |-> 64]
              [] f = "61x67" -> [M |-> 61, N |-> 67]]
M == Dim[fn].M
N == Dim[fn].N
Turns == [f \in DOMAIN Dim |-> CASE f = "32x32" -> 128
                                 [] f = "64x64" -> 512
                                 [] f = "61x67" -> 536]

(* One access of the function: a load into a temporary or a store of one. *)
Load(array, at, tmp) == [op |-> "L", array |-> array, at |-> at, tmp |-> tmp]
Store(at, tmp) == [op |-> "S", array |-> "B", at |-> at, tmp |-> tmp]
LdA(r, c, tmp) == Load("A", r * M + c, tmp)
LdB(r, c, tmp) == Load("B", r * N + c, tmp)
StB(r, c, tmp) == Store(r * N + c, tmp)

\* Mutant of Row: no temporaries, each element is stored as it is loaded.
RowAtOnce(k, j, i) ==
    FlattenSeq([x \in 1 .. 8 |-> <<LdA(i, j + x - 1, 0), StB(j + x - 1, i, 0)>>])
\* tmp1 .. tmp8 take a row of an 8 by 8 block and become a column.
Row(k, j, i) == [x \in 1 .. 8 |-> LdA(i, j + x - 1, x)]
                \o [x \in 1 .. 8 |-> StB(j + x - 1, i, x)]

\* 64x64: the upper half of a block, whose right part waits in the wrong place.
Upper(j, k) ==
    FlattenSeq([x \in 1 .. 4 |-> <<LdA(k, j + x - 1, 0), StB(j + x - 1, k, 0)>>])
    \o FlattenSeq([x \in 1 .. 4 |-> <<LdA(k, j + x + 3, 0), StB(j + x - 1, k + 4, 0)>>])

\* Mutant of Lower: what waits is overwritten before it is saved.
LowerLate(i, k) ==
    FlattenSeq([x \in 1 .. 4 |-> <<LdA(i + x + 3, k, 0), StB(k, i + x + 3, 0)>>])
    \o [x \in 1 .. 4 |-> LdB(k, i + x + 3, x)]
    \o [x \in 1 .. 4 |-> LdA(i + x + 3, k + 4, x + 4)]
    \o [x \in 1 .. 8 |-> StB(k + 4, i + x - 1, x)]
\* 64x64: it moves to its row, and the lower half takes its place.
Lower(i, k) ==
    [x \in 1 .. 4 |-> LdB(k, i + x + 3, x)]
    \o FlattenSeq([x \in 1 .. 4 |-> <<LdA(i + x + 3, k, 0), StB(k, i + x + 3, 0)>>])
    \o [x \in 1 .. 4 |-> LdA(i + x + 3, k + 4, x + 4)]
    \o [x \in 1 .. 8 |-> StB(k + 4, i + x - 1, x)]

\* 61x67: eight elements of a row, past its end in the last block of columns.
Part(j, i) ==
    FlattenSeq([x \in 1 .. 8 |-> <<LdA(i, j + x - 1, 0), StB(j + x - 1, i, 0)>>])

\* The loop variables of turn t, and its body.
Body(t) ==
    CASE fn = "32x32" ->
            LET k == 8 * (t \div 32)
            IN  Row(k, 8 * ((t \div 8) % 4), k + (t % 8))
      [] fn = "64x64" ->
            LET j == 8 * (t \div 64)
                i == 8 * ((t \div 8) % 8)
            IN  IF t % 8 < 4 THEN Upper(j, i + (t % 8)) ELSE Lower(i, j + (t % 8) - 4)
      [] fn = "61x67" -> Part(8 * (t \div 67), t % 67)

\* The access u done: to the arrays, and to the cache they are graded on.
Done(st, u) ==
    LET addr == 4 * (IF u.array = "A" THEN u.at ELSE SIZE + u.at)
        c == access([lines |-> st.lines, counts |-> st.counts], u.op, addr, clock)
    IN  [lines |-> c.lines, counts |-> c.counts,
         tmp |-> IF u.op = "S" THEN st.tmp
                 ELSE [st.tmp EXCEPT ![u.tmp] = IF u.array = "A" THEN A[u.at] ELSE st.B[u.at]],
         B |-> IF u.op = "L" THEN st.B ELSE [st.B EXCEPT ![u.at] = st.tmp[u.tmp]]]

transpose_submit ==
    /\ fn # "any" /\ n < Turns[fn]
    /\ LET start == [lines |-> lines, counts |-> counts, B |-> B,
                     tmp |-> [x \in 0 .. 8 |-> 0]]
           end == FoldLeft(Done, start, Body(n))
       IN  /\ lines' = end.lines /\ counts' = end.counts /\ B' = end.B
    /\ n' = n + 1
    /\ UNCHANGED <<g, clock, fn, A>>

\* deal_with_file: the next line of any trace.  The clock moves or stays.
deal_with_file ==
    /\ fn = "any" /\ n < TraceLength
    /\ clock' \in {clock, clock + 1}
    /\ \E op \in {"L", "S", "M"}, addr \in Addresses :
         LET c == access([lines |-> lines, counts |-> counts], op, addr, clock')
         IN  lines' = c.lines /\ counts' = c.counts
    /\ n' = n + 1
    /\ UNCHANGED <<g, fn, A, B>>

\* initMatrix: elements that differ, in as much of A and B as is reached.
Cells(f) == 0 .. (Dim[f].M + 7) * (Dim[f].N + 7)
TransposeInit ==
    \/ /\ fn = "any" /\ \E geometry \in Geometries : Cache_init(geometry)
       /\ n = 0 /\ A = << >> /\ B = << >>
    \/ /\ fn \in DOMAIN Dim /\ Cache_init(Geometry(32, 1, 32))
       /\ n = 0 /\ A = [x \in Cells(fn) |-> x + 1] /\ B = [x \in Cells(fn) |-> 0]

TransposeNext == transpose_submit \/ deal_with_file
TransposeSpec == TransposeInit /\ [][TransposeNext]_tvars
-----------------------------------------------------------------------------
(* The simulator implements LRU as far as the clock can tell: an access    *)
(* hits exactly when its block is held, a miss fills a free line or        *)
(* replaces a block no other was used before, and every access is counted. *)
Tags(q) == {q[l].tag : l \in {x \in DOMAIN q : q[x].valid}}
UsedAt(q) == [k \in Tags(q) |-> q[CHOOSE l \in find_line(q, k) : TRUE].used_time]

\* A transpose is many accesses a step: the promise is about any other trace.
Cached == INSTANCE Lru WITH
    held <- [i \in 0 .. g.S - 1 |-> IF fn = "any" THEN UsedAt(lines[i]) ELSE [k \in {} |-> 0]],
    counts <- IF fn = "any" THEN counts ELSE [hit |-> 0, miss |-> 0, eviction |-> 0],
    time <- clock, Ops <- {"L", "S", "M"}
ImplementsLru == Cached!Spec

\* The last turn that stores the element of A at row i and column j.
LastTurn(i, j) ==
    CASE fn = "32x32" -> 32 * (i \div 8) + 8 * (j \div 8) + (i % 8)
      [] fn = "64x64" -> 64 * (j \div 8) + 8 * (i \div 8) + 7
      [] fn = "61x67" -> 67 * (j \div 8) + i

(* A function leaves the transpose of A in B, and what it has put in its   *)
(* place stays: the elements that wait in the wrong place on 64x64 all     *)
(* move on, and the steps past the end of the rows on 61x67 damage nothing *)
(* (tracegen.c's validate compares at the end).                            *)
Transposed ==
    fn # "any" =>
        \A i \in 0 .. N - 1, j \in 0 .. M - 1 :
            n > LastTurn(i, j) => B[j * N + i] = A[i * M + j]

(* On the cache it is graded on a function misses no more than full marks  *)
(* allow (driver.py:94-96).                                                *)
FewMisses ==
    fn # "any" => counts.miss <= CASE fn = "32x32" -> 300
                                   [] fn = "64x64" -> 1300
                                   [] fn = "61x67" -> 2000
=============================================================================
