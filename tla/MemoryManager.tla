---------------------------- MODULE MemoryManager ----------------------------
(***************************************************************************)
(* The kernel heap of src/memory_manager.c: one static pool that a singly  *)
(* linked list of block headers cuts into blocks.  Addresses are byte      *)
(* offsets into memory_pool.  The kernel is single threaded and takes no   *)
(* interrupts inside the allocator, so malloc, calloc, realloc and the     *)
(* marking half of free are one step each.  The loop of merge_free_blocks, *)
(* which free runs before it returns, is a cursor `walk' that takes one    *)
(* list node per step; no other operation is enabled until it is done.     *)
(***************************************************************************)
EXTENDS Integers

CONSTANTS
  PoolSize,   \* MEMORY_POOL_SIZE, in bytes
  WordSize,   \* 2^w for a size_t of w bits
  Requests    \* the byte counts callers ask for

ALIGNMENT == 4     \* memory_manager.h
HDR == 12          \* sizeof(mem_block_t): size, next, free
NULL == -1

ASSUME PoolAssumption ==
  /\ PoolSize \in Nat /\ PoolSize % ALIGNMENT = 0 /\ PoolSize >= HDR
  /\ WordSize \in Nat /\ WordSize % ALIGNMENT = 0
  /\ PoolSize + HDR + ALIGNMENT <= WordSize
  /\ Requests \subseteq 0..(WordSize - 1)

VARIABLES
  blk,    \* the headers on the list: address -> [size, free, next]
  live,   \* pointers the callers hold -> bytes they asked for
  walk    \* `current' of merge_free_blocks, NULL when no merge is running

vars == <<blk, live, walk>>

Address == 0..PoolSize
Header == [size : 0..PoolSize, free : {0, 1}, next : Address \cup {NULL}]
------------------------------------------------------------------------------
(* Operators named Bad... are slips this code could have; each one breaks a  *)
(* property below and none is part of the specification.                   *)

BadAlign(n) == n - (n % ALIGNMENT)   \* rounds down

(* ALIGN(size), in size_t arithmetic: it wraps to 0 in the last words.     *)
Align(n) == LET s == (n + ALIGNMENT - 1) % WordSize IN s - (s % ALIGNMENT)

(* Requests that ALIGN rounds up instead of wrapping.                      *)
Exact(n) == n <= WordSize - ALIGNMENT

(* find_free_block walks from free_list along next; Tiling shows that the  *)
(* list is in address order, so the first hit is the lowest fitting block. *)
Fits(n) == {a \in DOMAIN blk : blk[a].free = 1 /\ blk[a].size >= n}
FirstFit(a, n) == a \in Fits(n) /\ \A b \in Fits(n) : a <= b

BadSplitBlock(a, n) ==   \* forgets that the new header takes space
  IF blk[a].size >= n + HDR + ALIGNMENT
    THEN [x \in DOMAIN blk \cup {a + HDR + n} |->
            IF x = a + HDR + n
              THEN [size |-> blk[a].size - n, free |-> 1, next |-> blk[a].next]
            ELSE IF x = a
              THEN [size |-> n, free |-> blk[a].free, next |-> a + HDR + n]
            ELSE blk[x]]
    ELSE blk

(* split_block: the headers after carving the tail of block a, if the rest *)
(* can hold a header and one aligned word.                                 *)
SplitBlock(a, n) ==
  IF blk[a].size >= n + HDR + ALIGNMENT
    THEN LET c == a + HDR + n IN
         [x \in DOMAIN blk \cup {c} |->
            IF x = c THEN [size |-> blk[a].size - n - HDR,
                           free |-> 1, next |-> blk[a].next]
            ELSE IF x = a THEN [size |-> n, free |-> blk[a].free, next |-> c]
            ELSE blk[x]]
    ELSE blk

(* block->free = v                                                         *)
Mark(f, a, v) == [f EXCEPT ![a].free = v]

(* The headers after malloc has taken block a for n aligned bytes.         *)
TakeBlock(a, n) == Mark(SplitBlock(a, n), a, 0)

(* The caller's view: pointer q now stands for req bytes, p is given up.   *)
Own(l, q, req) ==
  [x \in DOMAIN l \cup {q} |-> IF x = q THEN req ELSE l[x]]
Disown(l, p) == [x \in DOMAIN l \ {p} |-> l[x]]
------------------------------------------------------------------------------
(* init_memory_manager *)
Init ==
  /\ blk = [a \in {0} |-> [size |-> PoolSize - HDR, free |-> 1, next |-> NULL]]
  /\ live = [p \in {} |-> 0]
  /\ walk = NULL

Idle == walk = NULL

(* malloc(n) for a caller that wants req bytes                             *)
Allocate(n, req) ==
  \/ /\ n = 0 \/ Fits(Align(n)) = {}
     /\ UNCHANGED vars
  \/ /\ n # 0
     /\ \E a \in DOMAIN blk :
          /\ FirstFit(a, Align(n))
          /\ blk' = TakeBlock(a, Align(n))
          /\ live' = Own(live, a + HDR, req)
     /\ UNCHANGED walk

Malloc(n) == Idle /\ Allocate(n, n)

(* calloc: the product is taken in a size_t.  Products that ALIGN would    *)
(* wrap are left out: memset would then run over the whole address space.  *)
Calloc(nmemb, size) ==
  /\ Idle
  /\ Exact((nmemb * size) % WordSize)
  /\ Allocate((nmemb * size) % WordSize, nmemb * size)

BadFree(p) ==   \* returns without merge_free_blocks
  Idle /\ blk' = Mark(blk, p - HDR, 1) /\ live' = Disown(live, p) /\ UNCHANGED walk

(* free(p): mark the block, then merge_free_blocks from free_list.  NULL   *)
(* and pointers outside the pool return at once.                           *)
Free(p) ==
  /\ Idle
  /\ blk' = Mark(blk, p - HDR, 1)
  /\ live' = Disown(live, p)
  /\ walk' = 0

FreeIgnored(p) ==
  /\ Idle
  /\ p = NULL \/ p < 0 \/ p >= PoolSize
  /\ UNCHANGED vars

(* The headers after the block at a has absorbed its successor.            *)
Absorb(a) ==
  LET nxt == blk[a].next IN
  [x \in DOMAIN blk \ {nxt} |->
     IF x = a THEN [size |-> blk[a].size + HDR + blk[nxt].size,
                    free |-> 1, next |-> blk[nxt].next]
              ELSE blk[x]]

BothFree(a) == blk[a].free = 1 /\ blk[blk[a].next].free = 1

MergeStop == blk[walk].next = NULL /\ walk' = NULL /\ UNCHANGED blk

BadMergeAbsorb ==   \* steps on to the header it has just absorbed
  /\ blk[walk].next # NULL /\ BothFree(walk)
  /\ blk' = Absorb(walk) /\ walk' = blk[walk].next

BadMergeOnce ==     \* never absorbs a second block into the same one
  /\ blk[walk].next # NULL /\ BothFree(walk)
  /\ blk' = Absorb(walk) /\ walk' = blk[blk[walk].next].next

MergeAbsorb ==
  /\ blk[walk].next # NULL /\ BothFree(walk)
  /\ blk' = Absorb(walk) /\ UNCHANGED walk

BadMergeAdvance ==  \* skips used blocks only when the next one is free
  /\ blk[walk].next # NULL /\ ~BothFree(walk) /\ blk[blk[walk].next].free = 1
  /\ walk' = blk[walk].next /\ UNCHANGED blk

MergeAdvance ==
  /\ blk[walk].next # NULL /\ ~BothFree(walk)
  /\ walk' = blk[walk].next /\ UNCHANGED blk

(* One iteration of the loop of merge_free_blocks.                         *)
MergeStep ==
  /\ ~Idle
  /\ MergeStop \/ MergeAbsorb \/ MergeAdvance
  /\ UNCHANGED live

(* realloc(p, n) that keeps the block, giving its tail back when it can    *)
(* (without merging it with a free right neighbour).                       *)
ReallocInPlace(p, n) ==
  /\ Idle
  /\ n # 0 /\ blk[p - HDR].size >= n
  /\ blk' = SplitBlock(p - HDR, Align(n))
  /\ live' = Own(live, p, n)
  /\ UNCHANGED walk

BadReallocMove(p, n) ==   \* forgets to free the old block
  /\ Idle /\ n # 0 /\ blk[p - HDR].size < n /\ Exact(n)
  /\ \E a \in DOMAIN blk : /\ FirstFit(a, Align(n))
                           /\ blk' = TakeBlock(a, Align(n))
                           /\ live' = Own(Disown(live, p), a + HDR, n)
  /\ UNCHANGED walk

(* realloc(p, n) that must move: malloc, memcpy, free of the old block.    *)
(* When malloc fails the old block stays as it is.                         *)
ReallocMove(p, n) ==
  /\ Idle
  /\ n # 0 /\ blk[p - HDR].size < n /\ Exact(n)
  /\ \/ /\ Fits(Align(n)) = {}
        /\ UNCHANGED vars
     \/ /\ \E a \in DOMAIN blk :
             /\ FirstFit(a, Align(n))
             /\ blk' = Mark(TakeBlock(a, Align(n)), p - HDR, 1)
             /\ live' = Own(Disown(live, p), a + HDR, n)
        /\ walk' = 0

Realloc(p, n) ==
  \/ n = 0 /\ Free(p)
  \/ ReallocInPlace(p, n)
  \/ ReallocMove(p, n)

Next ==
  \/ \E n \in Requests : Malloc(n)
  \/ \E m, n \in Requests : Calloc(m, n)
  \/ \E p \in DOMAIN live : Free(p)
  \/ \E p \in {NULL, PoolSize} : FreeIgnored(p)
  \/ \E p \in DOMAIN live, n \in Requests : Realloc(p, n)
  \/ MergeStep

(* The loop runs to its end before free returns: the CPU does not stop.    *)
Spec == Init /\ [][Next]_vars /\ WF_vars(MergeStep)
------------------------------------------------------------------------------
IsHeaderMap(f) == DOMAIN f \subseteq Address /\ f \in [DOMAIN f -> Header]

(* Headers and pointers stay inside the pool; the merge cursor is on the   *)
(* list.                                                                   *)
TypeOK ==
  /\ IsHeaderMap(blk)
  /\ DOMAIN live \subseteq Address
  /\ live \in [DOMAIN live -> Nat]
  /\ walk \in DOMAIN blk \cup {NULL}

(* Where block a of the headers f ends.                                    *)
End(f, a) == a + HDR + f[a].size

(* Headers tile the pool: each block ends where its successor on the list  *)
(* begins, the last one at the end of the pool, and no two blocks overlap. *)
Tiles(f) ==
  /\ 0 \in DOMAIN f
  /\ \A a \in DOMAIN f : IF f[a].next = NULL
                          THEN End(f, a) = PoolSize
                          ELSE f[a].next \in DOMAIN f /\ End(f, a) = f[a].next
  /\ \A a, b \in DOMAIN f : a < b => End(f, a) <= b

Tiling == Tiles(blk)

(* Headers and sizes stay aligned, so that every pointer is.               *)
AlignedHeaders(f) ==
  \A a \in DOMAIN f : a % ALIGNMENT = 0 /\ f[a].size % ALIGNMENT = 0

Aligned == AlignedHeaders(blk)

(* The blocks in use are exactly the ones some caller holds: nothing is    *)
(* leaked and nothing that a caller holds can be handed out again.         *)
Ownership ==
  /\ \A p \in DOMAIN live : p - HDR \in DOMAIN blk /\ blk[p - HDR].free = 0
  /\ \A a \in DOMAIN blk : blk[a].free = 0 => a + HDR \in DOMAIN live

(* A caller holds fewer bytes than it asked for only when the request, or  *)
(* the product calloc computed, left size_t's range under ALIGN.           *)
ShortOnlyOnWrap ==
  \A p \in DOMAIN live : Exact(live[p]) => live[p] <= blk[p - HDR].size

(* No live pointer, no merge running: the pool is the one block it was     *)
(* after init_memory_manager, whatever calls came before.                  *)
EmptyHeapIsWhole ==
  DOMAIN live = {} /\ Idle =>
    blk = [a \in {0} |-> [size |-> PoolSize - HDR, free |-> 1, next |-> NULL]]

(* Blocks that merge_free_blocks has passed are not free next to free.     *)
MergedBehind ==
  \A a \in DOMAIN blk :
    ~Idle /\ a < walk /\ blk[a].free = 1 =>
      blk[a].next # NULL /\ blk[blk[a].next].free = 0

(* When free returns no two neighbouring blocks are both free.             *)
MergeCoalesces ==
  [][walk # NULL /\ walk' = NULL =>
       \A a \in DOMAIN blk' : blk'[a].free = 1 /\ blk'[a].next # NULL =>
                                blk'[blk'[a].next].free = 0]_vars

(* merge_free_blocks always ends.                                          *)
MergeTerminates == ~Idle ~> Idle
------------------------------------------------------------------------------
(* What the heap promises its callers, with the memory each one may use.   *)
Heap == INSTANCE HeapContract WITH
          alloc <- [p \in DOMAIN live |-> blk[p - HDR].size]
HeapContractHolds == Heap!Spec
==============================================================================
