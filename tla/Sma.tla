--------------------------------- MODULE Sma ---------------------------------
(* The shared memory allocator: segments of memory tiled by blocks, each with *)
(* a header that holds its size, the size of a free block before it and its   *)
(* links in the segment's list of free blocks.                                *)
(*                                                                            *)
(* The SMA lock is exclusive around every access to a segment, so each locked *)
(* section is one step; malloc releases the lock between two segments.  Only  *)
(* headers are kept: the payload of a block belongs to whoever allocated it.  *)
EXTENDS Integers, Sequences, FiniteSets, FiniteSetsExt, Functions

CONSTANTS
  Proc,          \* workers
  NSegs,         \* sma->num
  SegSize,       \* sma->size, in bytes
  HdrSize,       \* sizeof(sma_header_t)
  BlockSize,     \* sizeof(block_t)
  Word,          \* sizeof(immutable_cache_word_t)
  Sizes,         \* the sizes callers ask for
  LockMayFail,   \* SMA_LOCK may return an error
  ZTS            \* workers are threads and share immutable_cache_sma.last

\* pad up x (x > 0) to the word boundary
AlignWord(x) == Word * (1 + ((x - 1) \div Word))

Hdr   == AlignWord(BlockSize)      \* block_size
MINBLOCKSIZE == AlignWord(1) + Hdr
BEST_FIT_LIMIT == 3
First == AlignWord(HdrSize)        \* offset of the first sentinel
Empty == First + Hdr               \* offset of the first real block
Last  == SegSize - 2 * Hdr         \* offset of the last sentinel, aligned or not

ASSUME SmaAssumption ==
  /\ NSegs \in Nat \ {0} /\ Word \in Nat \ {0}
  /\ HdrSize \in Nat \ {0} /\ BlockSize \in Nat \ {0}
  /\ SegSize \in Nat
  /\ Last >= Empty + MINBLOCKSIZE
  /\ Sizes \subseteq Nat \ {0}
  /\ {LockMayFail, ZTS} \subseteq BOOLEAN

VARIABLES
  blk,     \* blk[g]: headers of segment g's blocks, by offset
  avail,   \* avail[g]: header->avail
  live,    \* blocks callers hold: segment, offset of the block, size asked for
  lost,    \* blocks that their callers could not free
  last,    \* last[p]: sma->last as p sees it
  pc,
  want,    \* want[p]: size p is allocating
  start,   \* start[p]: segment p tried first
  seg      \* seg[p]: loop index of malloc

vars == <<blk, avail, live, lost, last, pc, want, start, seg>>

Segs == 0 .. NSegs - 1

NewSegment ==
  [o \in {First, Empty, Last} |->
    CASE o = First -> [size |-> 0, prev |-> 0, fnext |-> Empty, fprev |-> 0]
      [] o = Empty -> [size |-> Last - Empty, prev |-> 0, fnext |-> Last, fprev |-> First]
      [] o = Last  -> [size |-> 0, prev |-> Last - Empty, fnext |-> 0, fprev |-> Empty]]

Init ==
  /\ blk = [g \in Segs |-> NewSegment]
  /\ avail = [g \in Segs |-> SegSize - First - 2 * Hdr]
  /\ live = {} /\ lost = {}
  /\ last = [p \in Proc |-> 0]
  /\ pc = [p \in Proc |-> "idle"]
  /\ want = [p \in Proc |-> 0]
  /\ start = [p \in Proc |-> 0]
  /\ seg = [p \in Proc |-> 0]

-----------------------------------------------------------------------------
(* Allocation in one segment, whose headers are b.                           *)

\* Where following fnext from the head of the list leads, hop by hop; 0 once the
\* last sentinel has been passed.
Hops(b) ==
  LET hop[n \in Nat] ==
        IF n = 0 THEN b[First].fnext
        ELSE IF hop[n - 1] \in {0, Last} THEN 0 ELSE b[hop[n - 1]].fnext
  IN hop

\* The free blocks in the order of the list.
FreeList(b) ==
  LET reached == {n \in 0 .. Cardinality(DOMAIN b) : Hops(b)[n] \notin {0, Last}}
  IN [n \in 1 .. Cardinality(reached) |-> Hops(b)[n - 1]]

\* Variant: first fit, and a block of exactly the size is passed over.
find_block_larger(b, realsize) ==
  LET fl   == FreeList(b)
      fits == {i \in DOMAIN fl : b[fl[i]].size > realsize}
  IN IF fits = {} THEN 0 ELSE fl[CHOOSE i \in fits : \A j \in fits : i <= j]

\* First fit, improved by the smallest fit among the next few free blocks.
find_block(b, realsize) ==
  LET fl   == FreeList(b)
      fits == {i \in DOMAIN fl : b[fl[i]].size >= realsize}
      near == {i \in fits : i <= Min(fits) + BEST_FIT_LIMIT}
      best == CHOOSE i \in near : \A j \in near :
                \/ b[fl[i]].size < b[fl[j]].size
                \/ b[fl[i]].size = b[fl[j]].size /\ i <= j
  IN IF fits = {} THEN 0 ELSE fl[best]

Unlink(b, o) ==
  [b EXCEPT ![b[o].fprev].fnext = b[o].fnext, ![b[o].fnext].fprev = b[o].fprev]

\* An allocated block has fnext = 0.  Its fprev, which nothing reads until it
\* is set again, is forgotten.
TakeWhole(b, o) ==
  [Unlink(b, o) EXCEPT ![o + b[o].size].prev = 0, ![o].fnext = 0, ![o].fprev = 0]

\* The rest of the block takes its place in the list.
SplitBlock(b, o, realsize) ==
  LET nxt  == o + realsize
      rest == b[o].size - realsize
      all  == [x \in DOMAIN b \cup {nxt} |->
                IF x = nxt
                THEN [size |-> rest, prev |-> 0, fnext |-> b[o].fnext, fprev |-> b[o].fprev]
                ELSE b[x]]
  IN [all EXCEPT ![nxt + rest].prev = rest,
                 ![b[o].fnext].fprev = nxt,
                 ![b[o].fprev].fnext = nxt,
                 ![o].size = realsize,
                 ![o].fnext = 0, ![o].fprev = 0]

\* A rest smaller than two minimal blocks (MINBLOCKSIZE + fragment) stays.
TooSmallToSplit(size, realsize) == size < realsize + MINBLOCKSIZE + MINBLOCKSIZE

\* Variant: the header is forgotten.
RealSizeBare(n) == AlignWord(n)
RealSize(n) == AlignWord(n + Hdr)

\* The block sma_allocate would use, 0 if there is none.
Candidate(g, n) ==
  IF avail[g] < RealSize(n) THEN 0 ELSE find_block(blk[g], RealSize(n))

Carve(b, o, realsize) ==
  IF TooSmallToSplit(b[o].size, realsize)
  THEN TakeWhole(b, o)
  ELSE SplitBlock(b, o, realsize)

Used(b, o, n) == b[o].size

\* sma_allocate that succeeds with block o.
SmaAllocate(g, o, n) ==
  LET b == Carve(blk[g], o, RealSize(n)) IN
  /\ blk' = [blk EXCEPT ![g] = b]
  /\ avail' = [avail EXCEPT ![g] = @ - Used(b, o, n)]
  /\ live' = live \cup {[seg |-> g, off |-> o, n |-> n]}
  /\ UNCHANGED lost

-----------------------------------------------------------------------------
(* Deallocation.                                                             *)

\* Variant: free neighbours before the block are not merged.
MergePrevNever(b, o) == <<b, o>>

\* Merge with the free block before, if any: the headers and the merged block.
MergePrev(b, o) ==
  LET prv == o - b[o].prev IN
  IF b[o].prev = 0 THEN <<b, o>>
  ELSE <<Restrict([Unlink(b, prv) EXCEPT ![prv].size = @ + b[o].size],
                  DOMAIN b \ {o}), prv>>

\* Variant: the block after is merged but stays in the list.
MergeNextListed(b, o) ==
  LET nxt == o + b[o].size IN
  IF b[nxt].fnext = 0 THEN b
  ELSE Restrict([b EXCEPT ![o].size = @ + b[nxt].size], DOMAIN b \ {nxt})

\* Merge with the free block after.
MergeNext(b, o) ==
  LET nxt == o + b[o].size IN
  IF b[nxt].fnext = 0 THEN b
  ELSE Restrict([Unlink(b, nxt) EXCEPT ![o].size = @ + b[nxt].size],
                DOMAIN b \ {nxt})

\* The block goes to the head of the list; the block after learns its size.
InsertFirst(b, o) ==
  [b EXCEPT ![o + b[o].size].prev = b[o].size,
            ![o].fnext = b[First].fnext, ![o].fprev = First,
            ![b[First].fnext].fprev = o, ![First].fnext = o]

SmaDeallocate(g, o) ==
  LET m == MergePrev(blk[g], o) IN
  /\ blk' = [blk EXCEPT ![g] = InsertFirst(MergeNext(m[1], m[2]), m[2])]
  /\ avail' = [avail EXCEPT ![g] = @ + blk[g][o].size]

-----------------------------------------------------------------------------
(* The calls.                                                                *)

\* immutable_cache_sma is a variable of the process.
SetLast(p, g) == last' = [q \in Proc |-> IF q = p \/ ZTS THEN g ELSE last[q]]

Malloc(p) ==
  /\ pc[p] = "idle"
  /\ \E n \in Sizes : want' = [want EXCEPT ![p] = n]
  /\ start' = [start EXCEPT ![p] = last[p]]
  /\ pc' = [pc EXCEPT ![p] = "first"]
  /\ UNCHANGED <<blk, avail, live, lost, last, seg>>

Finish(p) ==
  /\ pc' = [pc EXCEPT ![p] = "idle"]
  /\ want' = [want EXCEPT ![p] = 0]
  /\ start' = [start EXCEPT ![p] = 0]
  /\ seg' = [seg EXCEPT ![p] = 0]

\* The segment of the last success comes first.
TryFirst(p) ==
  LET o == Candidate(start[p], want[p]) IN
  /\ pc[p] = "first"
  /\ o # 0
  /\ SmaAllocate(start[p], o, want[p])
  /\ Finish(p)
  /\ UNCHANGED last

FirstRefuses(p) ==
  /\ pc[p] = "first"
  /\ Candidate(start[p], want[p]) = 0
  /\ pc' = [pc EXCEPT ![p] = "others"]
  /\ UNCHANGED <<blk, avail, live, lost, last, want, start, seg>>

TryOther(p) ==
  LET o == Candidate(seg[p], want[p]) IN
  /\ pc[p] = "others"
  /\ seg[p] < NSegs /\ seg[p] # start[p]
  /\ o # 0
  /\ SmaAllocate(seg[p], o, want[p])
  /\ SetLast(p, seg[p])
  /\ Finish(p)

OtherRefuses(p) ==
  /\ pc[p] = "others"
  /\ seg[p] < NSegs
  /\ seg[p] = start[p] \/ Candidate(seg[p], want[p]) = 0
  /\ seg' = [seg EXCEPT ![p] = @ + 1]
  /\ UNCHANGED <<blk, avail, live, lost, last, pc, want, start>>

\* Every segment has refused, or a lock call has failed: NULL.
MallocNull(p) ==
  /\ \/ pc[p] = "others" /\ seg[p] = NSegs
     \/ pc[p] \in {"first", "others"} /\ LockMayFail
  /\ Finish(p)
  /\ UNCHANGED <<blk, avail, live, lost, last>>

\* Any block may be freed, in any order.
Free(p) ==
  /\ pc[p] = "idle"
  /\ \E e \in live : SmaDeallocate(e.seg, e.off) /\ live' = live \ {e}
  /\ UNCHANGED <<lost, last, pc, want, start, seg>>

\* The block stays allocated and nobody holds it.
FreeLockFails(p) ==
  /\ pc[p] = "idle"
  /\ LockMayFail
  /\ \E e \in live : live' = live \ {e} /\ lost' = lost \cup {e}
  /\ UNCHANGED <<blk, avail, last, pc, want, start, seg>>

Next ==
  \E p \in Proc :
    \/ Malloc(p) \/ TryFirst(p) \/ FirstRefuses(p) \/ TryOther(p) \/ OtherRefuses(p)
    \/ MallocNull(p) \/ Free(p) \/ FreeLockFails(p)

Spec == Init /\ [][Next]_vars

-----------------------------------------------------------------------------
(* What the PHP function immutable_cache_sma_info reports.                   *)

\* block_lists: size and offset of the free blocks of a segment.
SmaInfoList(g) == [i \in DOMAIN FreeList(blk[g]) |->
  [size |-> blk[g][FreeList(blk[g])[i]].size, offset |-> FreeList(blk[g])[i]]]

\* The sizes in a list of blocks, added up.
ListTotal(fl) ==
  LET sum[n \in 0 .. Len(fl)] == IF n = 0 THEN 0 ELSE sum[n - 1] + fl[n].size
  IN sum[Len(fl)]

\* avail_mem
GetAvailMem == MapThenSumSet(LAMBDA g : avail[g], Segs)

-----------------------------------------------------------------------------
(* Properties.                                                               *)

Blocks(g) == DOMAIN blk[g] \ {First, Last}
IsFree(g, o) == blk[g][o].fnext # 0
End(g, o) == o + blk[g][o].size

\* Headers lie at word boundaries inside their segment, all but the last
\* sentinel, whose place is counted from the end of the segment.
TypeOK ==
  /\ \A g \in Segs :
       /\ {First, Last} \subseteq DOMAIN blk[g]
       /\ \A o \in DOMAIN blk[g] :
            /\ o \in First .. Last /\ (o # Last => o % Word = First % Word)
            /\ blk[g][o].size \in 0 .. SegSize /\ blk[g][o].prev \in 0 .. SegSize
            /\ blk[g][o].fnext \in DOMAIN blk[g] \cup {0} /\ blk[g][o].fprev \in 0 .. Last
       /\ avail[g] \in 0 .. SegSize
  /\ \A e \in live \cup lost : e.seg \in Segs /\ e.off \in Blocks(e.seg) /\ e.n \in Sizes
  /\ \A p \in Proc :
       /\ pc[p] \in {"idle", "first", "others"}
       /\ want[p] \in Sizes \cup {0}
       /\ {last[p], start[p]} \subseteq Segs
       /\ seg[p] \in 0 .. NSegs

\* Blocks cover a segment without gap or overlap, and none is smaller than
\* MINBLOCKSIZE, however often it is split and merged (sma_allocate,
\* sma_deallocate).
Tiled ==
  \A g \in Segs :
    /\ Empty \in Blocks(g)
    /\ \A o \in Blocks(g) :
         /\ blk[g][o].size >= MINBLOCKSIZE
         /\ End(g, o) \in Blocks(g) \cup {Last}
         /\ \A x \in DOMAIN blk[g] : ~(o < x /\ x < End(g, o))

\* Freed neighbours are always merged: the boundary tag of a block tells
\* exactly whether the block before it is free, and no two neighbours are.
Coalesced ==
  \A g \in Segs : \A o \in Blocks(g) :
    /\ blk[g][End(g, o)].prev = IF IsFree(g, o) THEN blk[g][o].size ELSE 0
    /\ IsFree(g, o) => ~IsFree(g, End(g, o))

\* The list holds every free block once and its back links are its inverse
\* (find_block and immutable_cache_sma_info walk it, deallocate unlinks).
ListSound ==
  \A g \in Segs :
    LET fl == FreeList(blk[g]) IN
    /\ {fl[i] : i \in DOMAIN fl} = {o \in Blocks(g) : IsFree(g, o)}
    /\ Len(fl) = Cardinality({o \in Blocks(g) : IsFree(g, o)})
    /\ \A o \in DOMAIN blk[g] : IsFree(g, o) => blk[g][blk[g][o].fnext].fprev = o

\* Callers hold disjoint pieces of memory, each as large as they asked for and
\* none over a header or over a block whose free has failed: what the cache
\* relies on when it writes entries outside any lock (immutable_cache_sma_malloc_ex).
LiveDisjoint ==
  \A e \in live \cup lost :
    /\ ~IsFree(e.seg, e.off)
    /\ End(e.seg, e.off) >= e.off + Hdr + e.n
    /\ \A x \in DOMAIN blk[e.seg] : x + Hdr <= e.off \/ x = e.off \/ x >= e.off + Hdr + e.n
    /\ \A f \in live \cup lost : e # f => <<e.seg, e.off>> # <<f.seg, f.off>>

\* avail and the free blocks sma_info lists agree, up to the one block header
\* that avail counts from the start.
AvailMatchesList == \A g \in Segs : avail[g] = Hdr + ListTotal(SmaInfoList(g))

\* What sma_allocate and sma_deallocate keep true of a segment between two
\* calls, and assume when they follow its offsets and links.
SegmentSound == TypeOK /\ Tiled /\ Coalesced /\ ListSound /\ AvailMatchesList

\* Memory is never lost to fragmentation or to a failed malloc: a segment in
\* which nothing is allocated is one free block again (free_entry).
Reclaimed == \A g \in Segs :
  (\A e \in live \cup lost : e.seg # g) => blk[g] = NewSegment

\* A malloc passes over a segment only if no free block in it is large enough
\* at that moment (find_block looks at all of them).
RefusedOnlyWhenFull ==
  [][\A p \in Proc :
       \/ pc[p] = "first" /\ pc'[p] = "others"
       \/ pc[p] = "others" /\ seg'[p] > seg[p] /\ seg[p] # start[p]
       => LET g == IF pc[p] = "first" THEN start[p] ELSE seg[p] IN
          \A o \in Blocks(g) : IsFree(g, o) => blk[g][o].size < RealSize(want[p])]_vars

\* avail_mem is the memory that is available: the sum of the free blocks
\* (immutable_cache_sma_get_avail_mem).
AvailIsFree == GetAvailMem = MapThenSumSet(LAMBDA g : ListTotal(SmaInfoList(g)), Segs)
=============================================================================
