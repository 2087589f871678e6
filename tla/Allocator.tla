------------------------------ MODULE Allocator ------------------------------
(***************************************************************************)
(* The memory allocator of C-Allocator/src/balloc.c, word by word: a block *)
(* is framed by a header and a footer that hold its size and, in the low   *)
(* bit, whether it is allocated; a free block also holds the next and prev *)
(* pointers of the free list of its size class, inside the payload the     *)
(* client used before.  All of this, and the client's data, live in one    *)
(* memory, so a pointer written to the wrong place destroys something.     *)
(*                                                                         *)
(* The allocator is sequential: each public function is one action.  The   *)
(* internal functions map a heap (memory, list heads, chunks, statistics)  *)
(* to a heap.  Addresses and sizes are bytes; memory is read and written   *)
(* in words of 8 bytes.                                                    *)
(***************************************************************************)
EXTENDS Integers, Sequences, SequencesExt, FiniteSetsExt, TLC

CONSTANTS SIZE_MAX,  \* the largest size_t (2^64 - 1 in the program)
          CHUNK,     \* the default request to the OS (1 MiB)
          PAGE,      \* the granularity of larger requests (4096)
          NCLASS,    \* number of free lists (16)
          Sizes,     \* the sizes the client asks for
          Counts,    \* the element counts it passes to bcalloc
          ElemSize,  \* and the element size
          MaxChunks, \* bound: mmap fails when this many chunks are mapped
          MaxLive    \* bound: allocations the client holds at a time

WSIZE == 8
DSIZE == 16
MIN_BLOCK == 32
NULL == 0

Bits == 0 .. 10
Bit(n, i) == (n \div 2^i) % 2

\* The client's requests are small enough that adding the tags does not wrap
\* around SIZE_MAX (see the README for the requests that do).
ASSUME AllocatorAssumption ==
    /\ SIZE_MAX \in Nat /\ SIZE_MAX < 2^11
    /\ \E k \in Bits : CHUNK = 2^k
    /\ \E k \in Bits : PAGE = 2^k /\ PAGE % DSIZE = 0
    /\ NCLASS \in Nat \ {0}
    /\ Sizes \subseteq 1 .. SIZE_MAX - 2 * DSIZE
    /\ Counts \subseteq 0 .. SIZE_MAX /\ ElemSize \in 1 .. SIZE_MAX
    /\ MaxChunks \in Nat /\ MaxLive \in Nat

VARIABLES heap,  \* mem, g_class, g_chunks and g_stats
          live   \* the client's pointers: requested size and what it wrote there

vars == <<heap, live>>

NoStats == [bytes_in_use |-> 0, bytes_free |-> 0, heap_bytes |-> 0,
            blocks_in_use |-> 0, blocks_free |-> 0, chunks |-> 0]

EmptyHeap == [mem |-> <<>>, g_class |-> [c \in 0 .. NCLASS - 1 |-> NULL],
              g_chunks |-> <<>>, g_stats |-> NoStats]

----------------------------------------------------------------------------
\* size_t arithmetic.  ALIGN_UP(n, a) clears the bits of a - 1 in n + a - 1: if a
\* is a power of two that rounds up to a multiple of a.  grow also calls it with
\* an alignment that is not one (MASK_UP).
Wrap(n) == n % (SIZE_MAX + 1)
ALIGN_UP(n, a) == Wrap(n + a - 1) - (Wrap(n + a - 1) % a)
MASK_UP(n, a) ==
    MapThenSumSet(LAMBDA i : 2^i, {i \in Bits : Bit(Wrap(n + a - 1), i) = 1 /\ Bit(a - 1, i) = 0})

\* Boundary tags.  bp points at the payload.
PACK(size, alloc) == size + alloc
BLK_SIZE(h, p) == h.mem[p] - (h.mem[p] % 8)
BLK_ALLOC(h, p) == h.mem[p] % 2 = 1
HDRP(bp) == bp - WSIZE
FTRP(h, bp) == bp + BLK_SIZE(h, HDRP(bp)) - DSIZE
NEXT_BLKP(h, bp) == bp + BLK_SIZE(h, HDRP(bp))
PREV_BLKP(h, bp) == bp - BLK_SIZE(h, bp - DSIZE)

PUT(h, p, v) == [h EXCEPT !.mem[p] = v]

\* Header and footer; FTRP reads the size that was just put into the header.
PutFooter(h, bp, tag) == PUT(h, FTRP(h, bp), tag)
PutTags(h, bp, tag) == PutFooter(PUT(h, HDRP(bp), tag), bp, tag)

----------------------------------------------------------------------------
\* Free lists: the node at n has its next pointer at n and prev one word later.
next(h, n) == h.mem[n]
prev(h, n) == h.mem[n + WSIZE]

size_class(size) ==
    Min({NCLASS - 1} \cup {c \in 0 .. NCLASS - 1 : size \div MIN_BLOCK < 2^c})

LinkFirst(h, n, c) == [PUT(PUT(h, n + WSIZE, NULL), n, h.g_class[c]) EXCEPT !.g_class[c] = n]

\* Mutant: the old head keeps a null prev pointer.
list_insert_oneway(h, n, size) == LinkFirst(h, n, size_class(size))

list_insert(h, n, size) ==
    LET head == h.g_class[size_class(size)]
    IN LinkFirst(IF head = NULL THEN h ELSE PUT(h, head + WSIZE, n), n, size_class(size))

list_remove(h, n, size) ==
    LET h1 == IF prev(h, n) # NULL THEN PUT(h, prev(h, n), next(h, n))
              ELSE [h EXCEPT !.g_class[size_class(size)] = next(h, n)]
    IN IF next(h, n) = NULL THEN h1 ELSE PUT(h1, next(h, n) + WSIZE, prev(h, n))

\* The nodes of a free list, in order.
List(h, c) ==
    LET from[n \in Nat] == IF n = NULL THEN <<>> ELSE <<n>> \o from[next(h, n)]
    IN from[h.g_class[c]]

\* A block of this size enters or leaves the free statistics.
CountFree(h, size, sign) ==
    [h EXCEPT !.g_stats.blocks_free = @ + sign,
              !.g_stats.bytes_free = @ + sign * (size - DSIZE)]

CountUsed(h, size, sign) ==
    [h EXCEPT !.g_stats.blocks_in_use = @ + sign,
              !.g_stats.bytes_in_use = @ + sign * (size - DSIZE)]

Listed(h, bp, size) == CountFree(list_insert(h, bp, size), size, 1)

----------------------------------------------------------------------------
\* Mutant: the neighbour leaves its list but not the statistics.
absorb_uncounted(h, nb) == list_remove(h, nb, BLK_SIZE(h, HDRP(nb)))

absorb(h, nb) ==
    LET size == BLK_SIZE(h, HDRP(nb)) IN CountFree(list_remove(h, nb, size), size, -1)

\* The block from bp to the footer at ftr is one free block.  Absorbing a neighbour
\* changes list pointers and no tag, so the footers are where they were before.
Joined(h, bp, ftr, size) ==
    [heap |-> PUT(PUT(h, ftr, PACK(size, 0)), HDRP(bp), PACK(size, 0)), bp |-> bp]

JoinNext(h, bp, nb, size) == Joined(absorb(h, nb), bp, FTRP(h, nb), size)
JoinPrev(h, bp, pb, size) == Joined(absorb(h, pb), pb, FTRP(h, bp), size)
JoinBoth(h, pb, nb, size) == Joined(absorb(absorb(h, pb), nb), pb, FTRP(h, nb), size)

\* Mutant: the block on the left is taken to be allocated.
coalesce_forward(h, bp) ==
    LET nb == NEXT_BLKP(h, bp)
    IN IF BLK_ALLOC(h, HDRP(nb)) THEN [heap |-> h, bp |-> bp]
       ELSE JoinNext(h, bp, nb, BLK_SIZE(h, HDRP(bp)) + BLK_SIZE(h, HDRP(nb)))

coalesce(h, bp) ==
    LET pb         == PREV_BLKP(h, bp)
        nb         == NEXT_BLKP(h, bp)
        prev_alloc == BLK_ALLOC(h, FTRP(h, pb))
        next_alloc == BLK_ALLOC(h, HDRP(nb))
        size       == BLK_SIZE(h, HDRP(bp))
        psize      == BLK_SIZE(h, HDRP(pb))
        nsize      == BLK_SIZE(h, HDRP(nb))
    IN CASE prev_alloc /\ next_alloc   -> [heap |-> h, bp |-> bp]
         [] prev_alloc /\ ~next_alloc  -> JoinNext(h, bp, nb, size + nsize)
         [] ~prev_alloc /\ next_alloc  -> JoinPrev(h, bp, pb, size + psize)
         [] ~prev_alloc /\ ~next_alloc -> JoinBoth(h, pb, nb, size + psize + nsize)

\* External: mmap returns zeroed pages next to the last region, so that only the
\* frame of a chunk separates its blocks from those of its neighbour; it may fail.
MmapFails(h) == Len(h.g_chunks) = MaxChunks
Mmap(h) == IF h.g_chunks = <<>> THEN PAGE ELSE Head(h.g_chunks).at + Head(h.g_chunks).size

FirstPayload(region) == ALIGN_UP(region + 2 * WSIZE + 2 * WSIZE, DSIZE)

\* The size that grow asks for: room for the chunk header and the frame.
Total(need) == MASK_UP(Wrap(need + 2 * WSIZE + 3 * WSIZE + DSIZE),
                       IF CHUNK > need THEN CHUNK ELSE ALIGN_UP(need, PAGE))

Mapped(h, region, total) ==
    [h EXCEPT !.mem = [a \in {region + WSIZE * i : i \in 0 .. total \div WSIZE - 1} |-> 0] @@ @,
              !.g_chunks = <<[at |-> region, size |-> total]>> \o @,
              !.g_stats.chunks = @ + 1,
              !.g_stats.heap_bytes = @ + total]

\* Prologue, epilogue, and one free block between them.
Framed(h, bp, epilogue) ==
    PutTags(PUT(PUT(h, bp - DSIZE, PACK(WSIZE, 1)), epilogue, PACK(0, 1)),
            bp, PACK(epilogue - HDRP(bp), 0))

GrowBy(h, region, total) ==
    LET bp       == FirstPayload(region)
        epilogue == region + total - WSIZE
    IN [heap |-> Listed(Framed(Mapped(h, region, total), bp, epilogue), bp, epilogue - HDRP(bp)),
        bp   |-> bp]

grow(h, need) == GrowBy(h, Mmap(h), Total(need))

\* First fit in the class of asize, else in the larger classes; NULL if none.
find_fit(h, asize) ==
    LET fits(c) == SelectSeq(List(h, c), LAMBDA n : BLK_SIZE(h, HDRP(n)) >= asize)
        classes == {c \in size_class(asize) .. NCLASS - 1 : fits(c) # <<>>}
    IN IF classes = {} THEN NULL ELSE Head(fits(Min(classes)))

FreeRest(h, rem, rsize) == Listed(PutTags(h, rem, PACK(rsize, 0)), rem, rsize)
SplitOff(h, bp, rsize) == FreeRest(h, NEXT_BLKP(h, bp), rsize)

Use(h, bp, size) == CountUsed(PutTags(h, bp, PACK(size, 1)), size, 1)

PlaceIn(h, bp, csize, asize) ==
    IF csize - asize >= MIN_BLOCK THEN SplitOff(Use(h, bp, asize), bp, csize - asize)
    ELSE Use(h, bp, csize)

place(h, bp, asize) ==
    LET csize == BLK_SIZE(h, HDRP(bp))
    IN PlaceIn(CountFree(list_remove(h, bp, csize), csize, -1), bp, csize, asize)

----------------------------------------------------------------------------
\* The public functions, as the heap and the pointer they return.
AdjustedSize(size) == Max({ALIGN_UP(Wrap(size + DSIZE), DSIZE), MIN_BLOCK})

Placed(at, asize) == [heap |-> place(at.heap, at.bp, asize), bp |-> at.bp]

BallocFit(h, asize, fit) ==
    CASE fit # NULL                   -> Placed([heap |-> h, bp |-> fit], asize)
      [] fit = NULL /\ ~MmapFails(h)  -> Placed(grow(h, asize), asize)
      [] fit = NULL /\ MmapFails(h)   -> [heap |-> h, bp |-> NULL]

balloc(h, size) ==
    IF size = 0 THEN [heap |-> h, bp |-> NULL]
    ELSE BallocFit(h, AdjustedSize(size), find_fit(h, AdjustedSize(size)))

Relisted(at) == Listed(at.heap, at.bp, BLK_SIZE(at.heap, HDRP(at.bp)))

bfree(h, ptr) ==
    LET size == BLK_SIZE(h, HDRP(ptr))
    IN Relisted(coalesce(PutTags(CountUsed(h, size, -1), ptr, PACK(size, 0)), ptr))

\* The words of the first n bytes of a payload.
Words(ptr, n) == {ptr + WSIZE * i : i \in 0 .. (n + WSIZE - 1) \div WSIZE - 1}

memset(h, ptr, n, v) == [h EXCEPT !.mem = [a \in Words(ptr, n) |-> v] @@ @]
memcpy(h, to, from, n) == [h EXCEPT !.mem = [a \in Words(to, n) |-> @[a - to + from]] @@ @]

Zeroed(r, n) == IF r.bp = NULL THEN r ELSE [r EXCEPT !.heap = memset(@, r.bp, n, 0)]

bcalloc(h, nmemb, size) ==
    IF nmemb # 0 /\ size > SIZE_MAX \div nmemb THEN [heap |-> h, bp |-> NULL]
    ELSE Zeroed(balloc(h, nmemb * size), nmemb * size)

\* Mutant: the old block is freed before its bytes are copied.
MoveFreesFirst(r, ptr, n) ==
    IF r.bp = NULL THEN r
    ELSE [heap |-> memcpy(bfree(r.heap, ptr), r.bp, ptr, n), bp |-> r.bp]

\* The rest of brealloc once balloc has returned r.
Move(r, ptr, n) ==
    IF r.bp = NULL THEN r
    ELSE [heap |-> bfree(memcpy(r.heap, r.bp, ptr, n), ptr), bp |-> r.bp]

brealloc(h, ptr, size) ==
    LET old_payload == BLK_SIZE(h, HDRP(ptr)) - DSIZE
    IN CASE size = 0                         -> [heap |-> bfree(h, ptr), bp |-> NULL]
         [] size # 0 /\ size <= old_payload  -> [heap |-> h, bp |-> ptr]
         [] size > old_payload               -> Move(balloc(h, size), ptr, old_payload)

----------------------------------------------------------------------------
\* The payloads of a chunk, from its first block to the epilogue.
Blocks(h, ch) ==
    LET from[bp \in Nat] == IF BLK_SIZE(h, HDRP(bp)) = 0 THEN <<>>
                            ELSE <<bp>> \o from[NEXT_BLKP(h, bp)]
    IN from[FirstPayload(ch.at)]

AllBlocks(h) == UNION {ToSet(Blocks(h, h.g_chunks[i])) : i \in DOMAIN h.g_chunks}
FreeBlocks(h) == {bp \in AllBlocks(h) : ~BLK_ALLOC(h, HDRP(bp))}

\* The allocator never reads the bytes of a free block behind its two pointers,
\* nor those of an allocated one that the client did not ask for: what a former
\* owner left there is replaced by Junk, which equals no mark, pointer or tag.
\* A read of such a word would find Junk and go wrong.
Junk == -(MaxLive + 1)

Known(h, held) ==
    UNION ( {{HDRP(bp), FTRP(h, bp)} : bp \in AllBlocks(h)}
            \cup {{bp, bp + WSIZE} : bp \in FreeBlocks(h)}
            \cup {Words(p, held[p].size) : p \in DOMAIN held}
            \cup {{FirstPayload(ch.at) - DSIZE, ch.at + ch.size - WSIZE} : ch \in ToSet(h.g_chunks)} )

Forget(h, held) ==
    LET known == Known(h, held)
    IN [h EXCEPT !.mem = [a \in DOMAIN @ |-> IF a \in known THEN @[a] ELSE Junk]]

\* The client fills what it was given with a mark of its own, a number no other
\* live allocation carries.  Zero marks memory from bcalloc it has not written.
FreshMark == Max({-i : i \in 1 .. MaxLive} \ {live[p].mark : p \in DOMAIN live})

Hold(ptr, size, mark) == (ptr :> [size |-> size, mark |-> mark]) @@ live

Init == heap = EmptyHeap /\ live = <<>>

Balloc(size) ==
    /\ Cardinality(DOMAIN live) < MaxLive
    /\ \E r \in {balloc(heap, size)} :
          /\ r.bp # NULL
          /\ live' = Hold(r.bp, size, FreshMark)
          /\ heap' = Forget(memset(r.heap, r.bp, size, FreshMark), live')

Bcalloc(nmemb, size) ==
    /\ Cardinality(DOMAIN live) < MaxLive
    /\ \E r \in {bcalloc(heap, nmemb, size)} :
          /\ live' = IF r.bp = NULL THEN live ELSE Hold(r.bp, nmemb * size, 0)
          /\ heap' = Forget(r.heap, live')

Bfree(ptr) ==
    /\ live' = Restrict(live, DOMAIN live \ {ptr})
    /\ heap' = Forget(bfree(heap, ptr), live')

\* The client extends its mark over the bytes it gained; if brealloc fails it
\* still holds the old block.
Brealloc(ptr, size) ==
  \E r \in {brealloc(heap, ptr, size)} :
    LET mark == live[ptr].mark
        kept == Words(r.bp, Min({size, live[ptr].size}))
        gain == [a \in Words(r.bp, size) \ kept |-> mark]
    IN /\ live' = IF r.bp # NULL
                  THEN Restrict(Hold(r.bp, size, mark), (DOMAIN live \ {ptr}) \cup {r.bp})
                  ELSE IF size = 0 THEN Restrict(live, DOMAIN live \ {ptr}) ELSE live
       /\ heap' = Forget(IF r.bp = NULL THEN r.heap ELSE [r.heap EXCEPT !.mem = gain @@ @], live')

BallocReset ==
    /\ heap.g_chunks # <<>>
    /\ heap' = EmptyHeap
    /\ live' = <<>>

Next ==
    \/ \E size \in Sizes : Balloc(size)
    \/ \E nmemb \in Counts : Bcalloc(nmemb, ElemSize)
    \/ \E ptr \in DOMAIN live : Bfree(ptr)
    \/ \E ptr \in DOMAIN live, size \in Sizes \cup {0} : Brealloc(ptr, size)
    \/ BallocReset

Spec == Init /\ [][Next]_vars

----------------------------------------------------------------------------
on_free_list(h, bp) == \E c \in 0 .. NCLASS - 1 : Contains(List(h, c), bp)

\* TRUE where the function returns 0.
balloc_check(h) ==
    /\ \A i \in DOMAIN h.g_chunks :
         LET blocks == Blocks(h, h.g_chunks[i])
         IN \A k \in DOMAIN blocks :
              LET bp == blocks[k]
              IN /\ bp % DSIZE = 0
                 /\ h.mem[HDRP(bp)] = h.mem[FTRP(h, bp)]
                 /\ BLK_SIZE(h, HDRP(bp)) >= MIN_BLOCK
                 /\ ~BLK_ALLOC(h, HDRP(bp)) =>
                      /\ on_free_list(h, bp)
                      /\ k > 1 => BLK_ALLOC(h, HDRP(blocks[k - 1]))
    /\ \A c \in 0 .. NCLASS - 1 :
         \A k \in DOMAIN List(h, c) : ~BLK_ALLOC(h, HDRP(List(h, c)[k]))

\* The audit balloc_check returns 0 after every sequence of calls: tags agree,
\* every free block is listed, and no two free blocks are adjacent, that is,
\* coalesce never misses a neighbour on either side.
HeapConsistent == balloc_check(heap)

\* What a client wrote stays in its allocation until it frees it, whatever else is
\* allocated, freed, moved or merged around it; brealloc keeps it, and memory from
\* bcalloc reads as zero.  Two overlapping allocations, a tag or list pointer
\* written into a payload, or a short copy would each destroy a mark.
DataIntact ==
    \A p \in DOMAIN live : \A a \in Words(p, live[p].size) : heap.mem[a] = live[p].mark

\* The free lists hold exactly the free blocks, each once, in the class of its
\* present size, and prev is the inverse of next: balloc_check (l. 290) verifies
\* neither the class nor prev, but list_remove relies on both.
ListsExact ==
    LET lists == [c \in 0 .. NCLASS - 1 |-> List(heap, c)]
    IN \A c \in 0 .. NCLASS - 1 :
         /\ ToSet(lists[c]) = {bp \in FreeBlocks(heap) : size_class(BLK_SIZE(heap, HDRP(bp))) = c}
         /\ \A k \in DOMAIN lists[c] :
              prev(heap, lists[c][k]) = IF k = 1 THEN NULL ELSE lists[c][k - 1]

\* The statistics, which every function updates by increments, are those of the
\* heap itself, and the allocated blocks are exactly the client's pointers, each
\* with room for what was asked: no block leaks.
StatsExact ==
    LET payload(blocks) == MapThenSumSet(LAMBDA bp : BLK_SIZE(heap, HDRP(bp)) - DSIZE, blocks)
        used == AllBlocks(heap) \ FreeBlocks(heap)
    IN /\ used = DOMAIN live
       /\ \A p \in used : BLK_SIZE(heap, HDRP(p)) - DSIZE >= live[p].size
       /\ heap.g_stats = [bytes_in_use  |-> payload(used),
                          bytes_free    |-> payload(FreeBlocks(heap)),
                          heap_bytes    |-> FoldSeq(LAMBDA ch, n : ch.size + n, 0, heap.g_chunks),
                          blocks_in_use |-> Cardinality(used),
                          blocks_free   |-> Cardinality(FreeBlocks(heap)),
                          chunks        |-> Len(heap.g_chunks)]
=============================================================================
