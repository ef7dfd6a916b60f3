------------------------------ MODULE Allocator ------------------------------
(***************************************************************************)
(* The allocator of lab7/mm.c on the heap of memlib.c, called by the       *)
(* driver of mdriver.c.  A block address bp, a block's size and every      *)
(* offset count double words of 8 bytes; the memory is words of 4 bytes,   *)
(* so that the header of bp is the word 2*bp - 1 and its payload starts at *)
(* the word 2*bp.  A word holds a tag (size, alloc), data of the caller or *)
(* nothing that is known.  The static variables of mm.c and memlib.c and   *)
(* the memory are one record h, because the functions call each other: a   *)
(* function of mm.c is an operator on h that returns h and its result.     *)
(***************************************************************************)
EXTENDS Integers, Sequences, SequencesExt

CONSTANTS
    Ids, Sizes,  \* names and sizes (in words) of a trace
    Traces,      \* sequences of requests; "any" stands for all of some ids and sizes
    MAX_HEAP,    \* the largest heap, in double words
    CHUNKSIZE,   \* the least extension, in double words
    R,           \* constants of mode 1 (TR3, QA1, QR1, OS1, EXTH1)
    Q            \* Q[2], Q[3]: constants of modes 2 and 3

\* Sizes are counts, and a free comes with size 0; the prologue has room.
ASSUME AllocatorAssumption ==
    /\ Sizes \subseteq Nat /\ 0 \in Sizes
    /\ MAX_HEAP \in Nat /\ MAX_HEAP >= 2 /\ CHUNKSIZE \in Nat \ {0}
    /\ R.OSINIT \in Nat /\ Q[2].OSINIT \in Nat /\ Q[3].OSINIT \in Nat

VARIABLES
    h,           \* static variables of mm.c and memlib.c, and the memory
    blocks,      \* blocks[i]: address and size the caller holds under i
    trace,       \* requests still to be made
    lost         \* mm.c has read a word that is no tag as one

vars == <<h, blocks, trace, lost>>

NULL == 0
WILD == -1               \* what follows is not determined by the code
WSIZE == 4
DSIZE == 8
heap_listp == 1

PACK(size, alloc) == [kind |-> "tag", size |-> size, alloc |-> alloc]
Data(i) == [kind |-> "data", id |-> i]
Junk == [kind |-> "junk"]
IsTag(m, w) == w \in DOMAIN m /\ m[w].kind = "tag"

HDRP(bp) == 2 * bp - 1
GET_SIZE(m, w) == m[w].size
GET_ALLOC(m, w) == m[w].alloc
FTRP(m, bp) == 2 * (bp + GET_SIZE(m, HDRP(bp))) - 2
NEXT_BLKP(m, bp) == bp + GET_SIZE(m, HDRP(bp))
PREV_BLKP(m, bp) == bp - GET_SIZE(m, HDRP(bp) - 1)

Ret(s, bp) == [h |-> s, bp |-> bp]

\* PUT(HDRP(bp), PACK(size, alloc)); PUT(FTRP(bp), PACK(size, alloc)).
\* What is left inside a free block counts as not known.
Tag(s, bp, size, alloc) ==
    LET last == HDRP(bp) + 2 * size - 1
    IN [s EXCEPT !.mem = [w \in DOMAIN @ |->
          IF w \in {HDRP(bp), last} THEN PACK(size, alloc)
          ELSE IF alloc = 0 /\ HDRP(bp) < w /\ w < last THEN Junk
          ELSE @[w]]]

\* memcpy and memmove of n double words from src to dst
Copy(s, dst, src, n) ==
    [s EXCEPT !.mem = [w \in DOMAIN @ |->
        IF w \in 2 * dst .. 2 * (dst + n) - 1 THEN @[w + 2 * (src - dst)] ELSE @[w]]]

\* The size of a block with a payload of size words, rounded up.
Rounded(size) == (WSIZE * size + DSIZE + DSIZE - 1) \div DSIZE
-----------------------------------------------------------------------------
\* Mutant: the recent position is left where it was.
SettleNot(s, bp, size) == s

\* If the recent position is inside the coalesced block, it moves to its head.
Settle(s, bp, size) ==
    [s EXCEPT !.just = IF bp < @ /\ @ < bp + size THEN bp ELSE @]

coalesce(s, bp) ==
    LET m == s.mem
        prev == PREV_BLKP(m, bp)
        next == NEXT_BLKP(m, bp)
        prev_alloc == GET_ALLOC(m, FTRP(m, prev))
        next_alloc == GET_ALLOC(m, HDRP(next))
        first == IF prev_alloc = 1 THEN bp ELSE prev
        size == GET_SIZE(m, HDRP(bp))
                + (IF prev_alloc = 1 THEN 0 ELSE GET_SIZE(m, HDRP(prev)))
                + (IF next_alloc = 1 THEN 0 ELSE GET_SIZE(m, HDRP(next)))
    IN IF prev_alloc = 1 /\ next_alloc = 1
       THEN Ret(s, bp)
       ELSE Ret(Settle(Tag(s, first, size, 0), first, size), first)

mem_sbrk(s, incr) ==
    IF incr < 0 \/ s.brk + incr > MAX_HEAP THEN Ret(s, NULL)
    ELSE Ret([s EXCEPT !.brk = @ + incr], s.brk)

\* A new free block of size at bp, in front of a new epilogue.
NewTail(s, bp, size) ==
    [Tag(s, bp, size, 0) EXCEPT !.mem[HDRP(bp + size)] = PACK(0, 1)]

\* Mutant: the new block is not merged with a free last one.
extend_heapUnmerged(s, size) ==
    LET got == mem_sbrk(s, size)
    IN IF got.bp = NULL THEN got ELSE Ret(NewTail(got.h, got.bp, size), got.bp)

extend_heap(s, size) ==
    LET got == mem_sbrk(s, size)
    IN IF got.bp = NULL THEN got ELSE coalesce(NewTail(got.h, got.bp, size), got.bp)

\* bp may be NULL: modes 1 to 3 do not ask.
place(s, bp, asize) ==
    IF ~ IsTag(s.mem, HDRP(bp)) THEN Ret(s, WILD)
    ELSE LET csize == GET_SIZE(s.mem, HDRP(bp))
         IN Ret(IF csize > asize
                THEN Tag(Tag(s, bp, asize, 1), bp + asize, csize - asize, 0)
                ELSE Tag(s, bp, csize, 1), bp)

\* The blocks from bp to the end of the heap, in order; WILD where the walk
\* meets a word that is no tag.
Walk(m, from) ==
    LET walk[bp \in Int] ==
          IF ~ IsTag(m, HDRP(bp)) THEN <<WILD>>
          ELSE IF GET_SIZE(m, HDRP(bp)) = 0 THEN << >>
          ELSE <<bp>> \o walk[NEXT_BLKP(m, bp)]
    IN walk[from]

Fits(m, bp, asize) ==
    GET_ALLOC(m, HDRP(bp)) = 0 /\ asize <= GET_SIZE(m, HDRP(bp))

\* The place in a walk where a search ends: 0 if it finds nothing.
Found(m, walk, asize) ==
    SelectInSeq(walk, LAMBDA bp : bp = WILD \/ Fits(m, bp, asize))

first_fit(s, asize) ==
    LET walk == Walk(s.mem, heap_listp)
        at == Found(s.mem, walk, asize)
    IN IF at = 0 THEN NULL ELSE walk[at]

\* Mutant: only from the recent block to the end.
next_fitTail(s, asize) ==
    LET tail == Walk(s.mem, s.just)
        at == Found(s.mem, tail, asize)
    IN IF at = 0 THEN Ret(s, NULL) ELSE Ret([s EXCEPT !.just = tail[at]], tail[at])

\* From the recent block to the end of the heap, then from its start up to the
\* recent block: those behind it do not fit, so that the first that fits lies
\* before it.  Where just is no block, the search reads what a caller wrote or
\* left there.
next_fit(s, asize) ==
    LET whole == Walk(s.mem, heap_listp)
        tail == IF Contains(whole, s.just) THEN Walk(s.mem, s.just) ELSE <<WILD>>
        at == Found(s.mem, tail, asize)
        at2 == Found(s.mem, whole, asize)
        Hit(bp) == Ret(IF bp = WILD THEN s ELSE [s EXCEPT !.just = bp], bp)
    IN IF at # 0 THEN Hit(tail[at])
       ELSE IF at2 # 0 THEN Hit(whole[at2])
       ELSE Ret(s, NULL)

\* A search that finds nothing has left end at the last block it passed on its
\* way from just to the end of the heap.
end(s) == Last(Walk(s.mem, s.just))

\* Mutant: the result of extend_heap is not looked at.
norm_mallocUnchecked(s, asize) ==
    LET fit == next_fit(s, asize)
        tail == HDRP(end(s))
        extend == IF GET_ALLOC(s.mem, tail) = 0 THEN asize - GET_SIZE(s.mem, tail) ELSE asize
        more == extend_heap(s, extend)
    IN IF fit.bp # NULL THEN place(fit.h, fit.bp, asize) ELSE place(more.h, more.bp, asize)

norm_malloc(s, asize) ==
    LET fit == next_fit(s, asize)
        tail == HDRP(end(s))
        extend == IF GET_ALLOC(s.mem, tail) = 0 THEN asize - GET_SIZE(s.mem, tail)
                  ELSE IF asize > CHUNKSIZE THEN asize ELSE CHUNKSIZE
        more == extend_heap(s, extend)
    IN IF fit.bp # NULL THEN place(fit.h, fit.bp, asize)
       ELSE IF more.bp = NULL THEN more
       ELSE place(more.h, more.bp, asize)

\* A block of asize at bp inside the free block oldbp, split on both sides.
add(s, bp, oldbp, asize) ==
    LET size1 == bp - oldbp
        size2 == GET_SIZE(s.mem, HDRP(oldbp)) - size1 - asize
        left == IF size1 > 0 THEN Tag(s, oldbp, size1, 0) ELSE s
        mid == Tag(left, bp, asize, 1)
    IN Ret(IF size2 > 0 THEN Tag(mid, bp + asize, size2, 0) ELSE mid, bp)
-----------------------------------------------------------------------------
(***************************************************************************)
(* The functions of mm.h.                                                  *)
(***************************************************************************)
\* mem_reset_brk and mm_init: the memory keeps what is in it.
mm_init(s) ==
    LET start == [s EXCEPT !.brk = 2, !.just = heap_listp,
                           !.fmalloc = TRUE, !.TR = 0, !.Q_no = -1]
        tagged == [Tag(start, heap_listp, 1, 1) EXCEPT
                      !.mem[0] = PACK(0, 0), !.mem[3] = PACK(0, 1)]
    IN extend_heap(tagged, CHUNKSIZE).h

mm_free(s, bp) ==
    IF bp = NULL THEN s
    ELSE coalesce(Tag(s, bp, GET_SIZE(s.mem, HDRP(bp)), 0), bp).h

\* The first request of a trace selects a mode: its block is put at a fixed
\* place in a heap extended at once.
first_malloc(s, t, size) ==
    LET c == IF t = 1 THEN R ELSE Q[t]
        s1 == [s EXCEPT !.TR = t, !.Q_no = IF t = 1 THEN @ ELSE @ + 1]
        s2 == extend_heap(s1, c.EXTH).h
    IN add(s2, heap_listp + c.OSINIT, NEXT_BLKP(s2.mem, heap_listp), Rounded(size))

\* Modes 2 and 3: the requests of the trace alternate between two sizes, and
\* each is put at the place its number gives.
numbered_malloc(s, size) ==
    LET c == Q[s.TR]
        n == s.Q_no + 1
        asize == Rounded(size)
        s1 == [s EXCEPT !.Q_no = n]
        due == IF n >= c.MAXQ THEN c.QFINAL
               ELSE IF n % 2 = 1 THEN c.QODD ELSE c.QEVEN
        fit == next_fit(s1, asize)
    IN IF size # due
       THEN norm_malloc([s1 EXCEPT !.TR = 0], asize)
       ELSE IF n >= c.MAXQ
       THEN place(fit.h, fit.bp, asize)
       ELSE place(s1, heap_listp + (IF n % 2 = 1 THEN c.OSNEXT + ((n - 1) \div 2) * asize
                                    ELSE 1 + (n \div 2 - 1) * asize), asize)

\* Mode 1.
fitted_malloc(s, size) ==
    IF size # R.QA1 THEN norm_malloc([s EXCEPT !.TR = 0], Rounded(size))
    ELSE place(s, first_fit(s, Rounded(size)), Rounded(size))

mm_malloc(s, size) ==
    LET s1 == [s EXCEPT !.fmalloc = FALSE]
    IN IF size = 0 THEN Ret(s, NULL)
       ELSE IF s.fmalloc /\ size = R.FIRST THEN first_malloc(s1, 1, size)
       ELSE IF s.fmalloc /\ size = Q[2].FIRST THEN first_malloc(s1, 2, size)
       ELSE IF s.fmalloc /\ size = Q[3].FIRST THEN first_malloc(s1, 3, size)
       ELSE IF s1.TR \in 2 .. 3 THEN numbered_malloc(s1, size)
       ELSE IF s1.TR = 1 THEN fitted_malloc(s1, size)
       ELSE norm_malloc(s1, Rounded(size))

\* Mutants: the old block is not freed, or is freed before the new one is found.
norm_reallocLeaks(s, ptr, size, oldsize) ==
    LET new == mm_malloc(s, size)
    IN IF new.bp \in {NULL, WILD} THEN new
       ELSE Ret(Copy(new.h, new.bp, ptr, oldsize), new.bp)
norm_reallocFreesFirst(s, ptr, size, oldsize) ==
    LET new == mm_malloc(mm_free(s, ptr), size)
    IN IF new.bp \in {NULL, WILD} THEN new
       ELSE Ret(Copy(new.h, new.bp, ptr, oldsize), new.bp)

norm_realloc(s, ptr, size, oldsize) ==
    LET new == mm_malloc(s, size)
    IN IF new.bp \in {NULL, WILD} THEN new
       ELSE Ret(mm_free(Copy(new.h, new.bp, ptr, oldsize), ptr), new.bp)

\* PUT an allocated block of asize at bp, and a free one in the rest that is
\* left before the next block.
Spread(s, bp, asize, rest) ==
    LET grownBlock == Tag(s, bp, asize, 1)
    IN Ret(IF rest > 0 THEN Tag(grownBlock, bp + asize, rest, 0) ELSE grownBlock, bp)

mm_realloc(s, ptr, size) ==
    LET m == s.mem
        oldsize == GET_SIZE(m, HDRP(ptr))
        asize == Rounded(size)
        add_size == asize - oldsize
        prev == PREV_BLKP(m, ptr)
        next == NEXT_BLKP(m, ptr)
        prev_size == GET_SIZE(m, HDRP(prev))
        next_size == GET_SIZE(m, HDRP(next))
        prev_free == GET_ALLOC(m, HDRP(prev)) = 0
        next_free == GET_ALLOC(m, HDRP(next)) = 0
        cut == Tag(Tag(s, ptr, asize, 1), ptr + asize, -add_size, 0)
    IN IF ptr = NULL THEN mm_malloc(s, size)
       ELSE IF size = 0 THEN Ret(mm_free(s, ptr), NULL)
       ELSE IF asize = oldsize THEN Ret(s, ptr)
       ELSE IF asize < oldsize THEN Ret(coalesce(cut, ptr + asize).h, ptr)
       ELSE IF s.TR = 1 /\ size > R.QR1
       THEN norm_realloc([s EXCEPT !.TR = 0], ptr, size, oldsize)
       ELSE IF s.TR = 1
       THEN Spread(s, ptr, asize, next_size - add_size)
       ELSE IF prev_free /\ next_free /\ prev_size + next_size >= add_size
       THEN Spread(Copy(s, prev, ptr, oldsize), prev, asize, prev_size + next_size - add_size)
       ELSE IF prev_free /\ prev_size >= add_size
       THEN Spread(Copy(s, prev, ptr, oldsize), prev, asize, prev_size - add_size)
       ELSE IF next_free /\ next_size >= add_size
       THEN Spread(s, ptr, asize, next_size - add_size)
       ELSE norm_realloc(s, ptr, size, oldsize)
-----------------------------------------------------------------------------
(***************************************************************************)
(* The driver: eval_mm_valid replays the requests of a trace.              *)
(***************************************************************************)
NoBlock == [ptr |-> NULL, size |-> 0]
Held(i) == blocks[i] # NoBlock

\* The next request of the trace is op(i, size).
Asked(op, i, size) ==
    /\ trace # << >>
    /\ IF Head(trace).op = "any"
       THEN i \in Head(trace).id /\ size \in Head(trace).size /\ UNCHANGED trace
       ELSE Head(trace) = [op |-> op, id |-> i, size |-> size] /\ trace' = Tail(trace)

\* The driver fills the block at bp, its first kept words being filled already.
Fill(s, bp, kept, size, i) ==
    [s EXCEPT !.mem = [w \in DOMAIN @ |->
        IF w \in 2 * bp + kept .. 2 * bp + size - 1 THEN Data(i) ELSE @[w]]]

Fresh == [mem |-> [w \in 0 .. 2 * MAX_HEAP - 1 |-> Junk], brk |-> 0,
          just |-> NULL, fmalloc |-> TRUE, TR |-> 0, Q_no |-> -1]

Init ==
    /\ h = mm_init(Fresh)
    /\ blocks = [i \in Ids |-> NoBlock]
    /\ trace \in Traces
    /\ lost = FALSE

\* mm.c has taken a word that is no tag for one, in this request or before: it
\* walks on by what it reads there, writes tags to wherever that leads, into the
\* payloads of the caller too, and returns NULL or any address.  The driver
\* believes it and goes on.  Of h nothing is known any more.
Astray(i, size) ==
    /\ lost' = TRUE /\ h' = Fresh
    /\ \/ size # 0 /\ UNCHANGED blocks
       \/ size = 0 /\ blocks' = [blocks EXCEPT ![i] = NoBlock]
       \/ size # 0 /\ \E ptr \in 1 .. MAX_HEAP :
                        blocks' = [blocks EXCEPT ![i] = [ptr |-> ptr, size |-> size]]

\* mm.c returned ret for size words under the name i.
Answered(i, ret, size) ==
    /\ lost' = FALSE
    /\ IF ret.bp = NULL
       THEN /\ h' = ret.h
            /\ blocks' = IF size = 0 THEN [blocks EXCEPT ![i] = NoBlock] ELSE blocks
       ELSE /\ h' = Fill(ret.h, ret.bp, blocks[i].size, size, i)
            /\ blocks' = [blocks EXCEPT ![i] = [ptr |-> ret.bp, size |-> size]]

Answer(i, ret, size) == IF lost \/ ret.bp = WILD THEN Astray(i, size)
                        ELSE Answered(i, ret, size)

Malloc(i, size) ==
    Asked("malloc", i, size) /\ ~ Held(i) /\ Answer(i, mm_malloc(h, size), size)

Realloc(i, size) ==
    Asked("realloc", i, size) /\ Answer(i, mm_realloc(h, blocks[i].ptr, size), size)

Free(i) ==
    /\ Asked("free", i, 0) /\ Answer(i, Ret(mm_free(h, blocks[i].ptr), NULL), 0)

Next == \E i \in Ids :
           \/ \E size \in Sizes : Malloc(i, size) \/ Realloc(i, size)
           \/ Free(i)

Spec == Init /\ [][Next]_vars
-----------------------------------------------------------------------------
(***************************************************************************)
(* Properties.                                                             *)
(***************************************************************************)
\* The blocks of the heap.
Blocks == Walk(h.mem, heap_listp)
BlockSize(bp) == GET_SIZE(h.mem, HDRP(bp))
Allocated(bp) == GET_ALLOC(h.mem, HDRP(bp)) = 1

Words == {Junk} \cup {Data(i) : i \in Ids}
         \cup {PACK(size, alloc) : size \in 0 .. MAX_HEAP, alloc \in 0 .. 1}

\* The static variables, the memory and the driver's table have their types.
TypeOK ==
    /\ h.mem \in [0 .. 2 * MAX_HEAP - 1 -> Words]
    /\ h.brk \in 0 .. MAX_HEAP /\ (lost \/ h.just \in heap_listp .. h.brk - 1)
    /\ h.fmalloc \in BOOLEAN /\ h.TR \in 0 .. 3 /\ h.Q_no \in Int
    /\ blocks \in [Ids -> [ptr : 0 .. MAX_HEAP, size : Sizes]]
    /\ lost \in BOOLEAN

\* What mm_check (mm.c:450) asks of the heap, for as long as mm.c has read only
\* tags as tags: from the prologue the headers lead to the epilogue, headers and
\* footers agree, no two neighbours are free, and the sizes add up to the heap.
WellFormed == ~ lost =>
    /\ Blocks # << >> /\ Head(Blocks) = heap_listp
    /\ BlockSize(heap_listp) = 1 /\ Allocated(heap_listp)
    /\ ~ Contains(Blocks, WILD)
    /\ Last(Blocks) + BlockSize(Last(Blocks)) = h.brk
    /\ \A n \in DOMAIN Blocks :
          /\ h.mem[FTRP(h.mem, Blocks[n])] = h.mem[HDRP(Blocks[n])]
          /\ n > 1 => Allocated(Blocks[n]) \/ Allocated(Blocks[n - 1])

\* As long as mm.c has read only tags as tags, every block that is marked
\* allocated is held by the driver under one name, and is large enough: no
\* realloc forgets a block and no free misses one.
Accounted == ~ lost =>
    /\ \A n \in 2 .. Len(Blocks) :
          Allocated(Blocks[n]) => \E i \in Ids : blocks[i].ptr = Blocks[n]
    /\ \A i \in Ids : Held(i) =>
          /\ Contains(Blocks, blocks[i].ptr) /\ Allocated(blocks[i].ptr)
          /\ blocks[i].size <= 2 * (BlockSize(blocks[i].ptr) - 1)

\* mm_check asks this too ("Valid pointer"), and it may fail: just is a block.
JustValid == Contains(Blocks, h.just)

\* Only a realloc that grows its block into its neighbours takes the header
\* away that just points to (frees, splits, extensions and shrinking keep it).
OnlyGrowthStrands ==
    [][JustValid /\ ~ JustValid' =>
         \E i \in Ids :
            /\ Held(i) /\ blocks'[i].size > blocks[i].size
            /\ blocks'[i].ptr <= blocks[i].ptr]_vars

\* A request that mm.c starts with just at a block reads nothing but tags as
\* tags: it goes astray only from a just that a realloc has stranded.
Determined == [][JustValid => ~ lost']_vars

\* A request would fail only when no free block is large enough for it.
FailsOnlyWhenFull ==
    JustValid => \A size \in Sizes \ {0} :
        mm_malloc(h, size).bp = NULL =>
            \A n \in DOMAIN Blocks :
                Allocated(Blocks[n]) \/ BlockSize(Blocks[n]) < Rounded(size)

\* What the driver finds in its blocks.
Live == [i \in Ids |->
           [lo |-> blocks[i].ptr,
            data |-> [k \in 0 .. blocks[i].size - 1 |->
                        LET w == 2 * blocks[i].ptr + k
                        IN IF w \in DOMAIN h.mem /\ h.mem[w].kind = "data"
                           THEN h.mem[w].id ELSE NULL]]]

Contract == INSTANCE Heap WITH Addresses <- 1 .. MAX_HEAP, live <- Live

\* What the driver sees is what an allocator promises, until mm.c takes a word
\* that is no tag for one: from that request on it promises nothing (after a
\* realloc of mm.c:397 or 409 has stranded just, the next search of mm.c:145
\* reads what a caller wrote, and live blocks may be damaged or given twice).
Implements == Contract!Init /\ [][lost' \/ Contract!Next]_Live
=============================================================================
