------------------------- MODULE MemoryManagerProofs -------------------------
(***************************************************************************)
(* The heap is well formed after every sequence of calls, for every pool   *)
(* size and every set of requests.                                         *)
(***************************************************************************)
EXTENDS MemoryManager, TLAPS

USE DEF HDR, ALIGNMENT, NULL

WellFormed(f) == IsHeaderMap(f) /\ Tiles(f) /\ AlignedHeaders(f)

(* ALIGN of a request that does not wrap rounds up to a multiple of 4, and *)
(* a wrapped one is a multiple of 4 too.                                   *)
LEMMA AlignFacts ==
  ASSUME NEW n \in 0..(WordSize - 1)
  PROVE  /\ Align(n) \in Nat
         /\ Align(n) % ALIGNMENT = 0
         /\ Exact(n) => n <= Align(n) /\ Align(n) <= n + 3
<1> DEFINE s == (n + 3) % WordSize
<1>1. WordSize \in Nat /\ WordSize >= 16
  BY PoolAssumption
<1>2. s \in Nat
  BY <1>1
<1>3. n + 3 < WordSize => s = n + 3
  BY <1>1
<1>4. Align(n) = s - (s % 4)
  BY DEF Align
<1>5. Exact(n) => n + 3 < WordSize
  BY <1>1 DEF Exact
<1> HIDE DEF s
<1>6. QED
  BY <1>2, <1>3, <1>4, <1>5

(* Marking a block free or used disturbs no size and no link.              *)
LEMMA MarkKeepsShape ==
  ASSUME NEW f, WellFormed(f), NEW a \in DOMAIN f, NEW v \in {0, 1},
         NEW g, g = Mark(f, a, v)
  PROVE  /\ WellFormed(g)
         /\ DOMAIN g = DOMAIN f
         /\ g[a].size = f[a].size /\ g[a].free = v
         /\ \A x \in DOMAIN f \ {a} : g[x] = f[x]
<1>1. f \in [DOMAIN f -> Header] /\ DOMAIN f \subseteq Address
  BY DEF WellFormed, IsHeaderMap
<1>2. DOMAIN g = DOMAIN f
  BY DEF Mark
<1>3. \A x \in DOMAIN f : /\ g[x] \in Header
                          /\ g[x].size = f[x].size
                          /\ g[x].next = f[x].next
                          /\ g[x].free = IF x = a THEN v ELSE f[x].free
  BY <1>1 DEF Header, Mark
<1>4. g \in [DOMAIN f -> Header] /\ \A x \in DOMAIN f \ {a} : g[x] = f[x]
  BY <1>1, <1>3 DEF Mark
<1>5. WellFormed(g)
  BY <1>1, <1>2, <1>3, <1>4 DEF WellFormed, IsHeaderMap, Tiles, End, AlignedHeaders
<1>6. QED
  BY <1>2, <1>3, <1>4, <1>5

(* split_block on a well formed heap, for an aligned size the block can    *)
(* hold, leaves a well formed heap in which the block still holds it.      *)
LEMMA SplitKeepsShape ==
  ASSUME WellFormed(blk), NEW a \in DOMAIN blk, NEW n \in Nat,
         n % ALIGNMENT = 0, n <= blk[a].size
  PROVE  /\ WellFormed(SplitBlock(a, n))
         /\ DOMAIN blk \subseteq DOMAIN SplitBlock(a, n)
         /\ SplitBlock(a, n)[a].free = blk[a].free
         /\ SplitBlock(a, n)[a].size >= n
         /\ SplitBlock(a, n)[a].size <= blk[a].size
         /\ \A x \in DOMAIN blk \ {a} : SplitBlock(a, n)[x] = blk[x]
         /\ \A x \in DOMAIN SplitBlock(a, n) \ DOMAIN blk : SplitBlock(a, n)[x].free = 1
<1> DEFINE g == SplitBlock(a, n)
           c == a + HDR + n
           new == [size |-> blk[a].size - n - HDR, free |-> 1, next |-> blk[a].next]
           old == [size |-> n, free |-> blk[a].free, next |-> c]
<1>1. /\ blk \in [DOMAIN blk -> Header] /\ DOMAIN blk \subseteq Address
      /\ PoolSize \in Nat
  BY PoolAssumption DEF WellFormed, IsHeaderMap
<1>2. /\ a \in Nat /\ a <= PoolSize /\ blk[a] \in Header
      /\ blk[a].size \in Nat /\ blk[a].free \in {0, 1}
      /\ a % 4 = 0 /\ blk[a].size % 4 = 0
      /\ a + 12 + blk[a].size <= PoolSize
      /\ blk[a].next \in Address \cup {NULL}
      /\ IF blk[a].next = NULL THEN a + 12 + blk[a].size = PoolSize
         ELSE blk[a].next \in DOMAIN blk /\ a + 12 + blk[a].size = blk[a].next
  BY <1>1 DEF WellFormed, Tiles, End, AlignedHeaders, Header, Address
<1>3. CASE blk[a].size < n + HDR + ALIGNMENT
  <2>1. g = blk
    BY <1>2, <1>3 DEF SplitBlock
  <2> HIDE DEF g
  <2>2. QED
    BY <1>2, <2>1 DEF g
<1>4. CASE blk[a].size >= n + HDR + ALIGNMENT
  <2>1. g = [x \in DOMAIN blk \cup {c} |->
               IF x = c THEN new ELSE IF x = a THEN old ELSE blk[x]]
    BY <1>4 DEF SplitBlock
  <2>2. c \in Nat /\ c \in Address /\ c # a /\ c % 4 = 0
    BY <1>1, <1>2, <1>4 DEF Address
  <2>3. \A b \in DOMAIN blk : /\ b \in Nat /\ blk[b].size \in Nat
                              /\ a < b => a + 12 + blk[a].size <= b
                              /\ b < a => b + 12 + blk[b].size <= a
    BY <1>1, <1>2 DEF WellFormed, Tiles, End, Header, Address
  <2>4. c \notin DOMAIN blk
    BY <1>2, <1>4, <2>3
  <2>5. new \in Header /\ old \in Header
    BY <1>1, <1>2, <1>4, <2>2 DEF Header, Address
  <2>6. /\ DOMAIN g = DOMAIN blk \cup {c}
        /\ g[c] = new /\ g[a] = old
        /\ \A x \in DOMAIN blk \ {a} : g[x] = blk[x]
    BY <2>1, <2>2, <2>4
  <2>7. /\ g[c].size = blk[a].size - n - 12 /\ g[c].free = 1 /\ g[c].next = blk[a].next
        /\ g[a].size = n /\ g[a].free = blk[a].free /\ g[a].next = c
    BY <2>6
  <2> HIDE DEF g, new, old
  <2>8. IsHeaderMap(g)
    <3>1. \A x \in DOMAIN g : g[x] \in Header
      BY <1>1, <2>5, <2>6
    <3>2. g = [x \in DOMAIN g |-> g[x]]
      BY <2>1
    <3>3. QED
      BY <1>1, <2>2, <2>6, <3>1, <3>2 DEF IsHeaderMap
  <2>9. AlignedHeaders(g)
    BY <1>2, <2>2, <2>6, <2>7 DEF AlignedHeaders, WellFormed
  <2>10. Tiles(g)
    <3>1. 0 \in DOMAIN g
      BY <2>6 DEF WellFormed, Tiles
    <3>2. ASSUME NEW x \in DOMAIN g
          PROVE  IF g[x].next = NULL THEN End(g, x) = PoolSize
                 ELSE g[x].next \in DOMAIN g /\ End(g, x) = g[x].next
      <4>1. CASE x = c
        BY <1>2, <2>2, <2>6, <2>7, <4>1 DEF End
      <4>2. CASE x = a
        BY <1>2, <2>2, <2>6, <2>7, <4>2 DEF End
      <4>3. CASE x # a /\ x # c
        BY <2>6, <4>3 DEF WellFormed, Tiles, End
      <4>4. QED
        BY <4>1, <4>2, <4>3
    <3>3. ASSUME NEW x \in DOMAIN g, NEW y \in DOMAIN g, x < y
          PROVE  End(g, x) <= y
      <4>1. CASE x = c
        BY <1>2, <1>4, <2>2, <2>3, <2>6, <2>7, <3>3, <4>1 DEF End
      <4>2. CASE x = a
        BY <1>2, <1>4, <2>2, <2>3, <2>6, <2>7, <3>3, <4>2 DEF End
      <4>3. CASE x # a /\ x # c /\ y = c
        <5>1. x \in DOMAIN blk /\ x < a
          BY <1>2, <1>4, <2>2, <2>3, <2>6, <3>3, <4>3
        <5>2. QED
          BY <1>2, <2>2, <2>3, <2>6, <4>3, <5>1 DEF End
      <4>4. CASE x # a /\ x # c /\ y # c
        BY <2>6, <3>3, <4>4 DEF WellFormed, Tiles, End
      <4>5. QED
        BY <4>1, <4>2, <4>3, <4>4
    <3>4. QED
      BY <3>1, <3>2, <3>3 DEF Tiles
  <2>11. /\ DOMAIN blk \subseteq DOMAIN g
         /\ g[a].size >= n /\ g[a].size <= blk[a].size
         /\ \A x \in DOMAIN g \ DOMAIN blk : g[x].free = 1
    BY <1>2, <1>4, <2>6, <2>7
  <2>12. QED
    BY <2>6, <2>7, <2>8, <2>9, <2>10, <2>11 DEF WellFormed, g
<1>5. QED
  BY <1>2, <1>3, <1>4

(* malloc's choice of a block: what taking it does to the headers.         *)
LEMMA TakeFacts ==
  ASSUME WellFormed(blk), NEW a \in DOMAIN blk, NEW n \in 0..(WordSize - 1),
         FirstFit(a, Align(n))
  PROVE  /\ blk[a].free = 1 /\ a + HDR \in Address
         /\ WellFormed(TakeBlock(a, Align(n)))
         /\ DOMAIN blk \subseteq DOMAIN TakeBlock(a, Align(n))
         /\ TakeBlock(a, Align(n))[a].free = 0
         /\ TakeBlock(a, Align(n))[a].size >= Align(n)
         /\ \A x \in DOMAIN blk \ {a} : TakeBlock(a, Align(n))[x] = blk[x]
         /\ \A x \in DOMAIN TakeBlock(a, Align(n)) \ DOMAIN blk :
              TakeBlock(a, Align(n))[x].free = 1
<1> DEFINE m == Align(n)
           g == SplitBlock(a, m)
           h == TakeBlock(a, m)
<1>1. m \in Nat /\ m % ALIGNMENT = 0
  BY AlignFacts
<1>2. blk[a].free = 1 /\ m <= blk[a].size /\ blk[a].size \in Nat
  BY <1>1 DEF FirstFit, Fits, WellFormed, IsHeaderMap, Header
<1> HIDE DEF m
<1>3. /\ WellFormed(g) /\ DOMAIN blk \subseteq DOMAIN g /\ g[a].size >= m
      /\ \A x \in DOMAIN blk \ {a} : g[x] = blk[x]
      /\ \A x \in DOMAIN g \ DOMAIN blk : g[x].free = 1
  BY <1>1, <1>2, SplitKeepsShape
<1>4. h = Mark(g, a, 0)
  BY DEF TakeBlock
<1> HIDE DEF g, h
<1>5. /\ WellFormed(h) /\ DOMAIN h = DOMAIN g
      /\ h[a].size = g[a].size /\ h[a].free = 0
      /\ \A x \in DOMAIN g \ {a} : h[x] = g[x]
  <2>1. a \in DOMAIN g 
    BY <1>3
  <2>2. WellFormed(g)
    BY <1>3
  <2>3. QED
    BY <2>1, <2>2, <1>4, MarkKeepsShape
<1>7. a + HDR \in Address
  BY <1>2, PoolAssumption DEF WellFormed, Tiles, End, Address, IsHeaderMap, Header
<1>8. QED
  BY <1>2, <1>3, <1>5, <1>7 DEF m, h

(* The invariant of the heap: MergedBehind is what makes EmptyHeapIsWhole  *)
(* inductive, the rest is needed together.                                 *)
HeapInv ==
  /\ TypeOK /\ Tiling /\ Aligned
  /\ Ownership /\ ShortOnlyOnWrap
  /\ MergedBehind /\ EmptyHeapIsWhole

LEMMA HeapInvShape == HeapInv => WellFormed(blk)
  BY DEF HeapInv, TypeOK, Tiling, Aligned, WellFormed

LEMMA InitHeapInv == Init => HeapInv
<1> SUFFICES ASSUME Init PROVE HeapInv
  OBVIOUS
<1> DEFINE r == [size |-> PoolSize - HDR, free |-> 1, next |-> NULL]
<1>1. /\ blk = [a \in {0} |-> r] /\ live = [p \in {} |-> 0] /\ walk = NULL
      /\ PoolSize \in Nat /\ PoolSize >= 12 /\ PoolSize % 4 = 0
  BY PoolAssumption DEF Init
<1>2. r \in Header /\ r.size = PoolSize - 12 /\ r.free = 1 /\ r.next = NULL
  BY <1>1 DEF Header, Address
<1>3. DOMAIN blk = {0} /\ blk[0] = r /\ DOMAIN live = {}
  BY <1>1
<1>4. TypeOK
  BY <1>1, <1>2, <1>3 DEF TypeOK, IsHeaderMap, Address
<1>5. EmptyHeapIsWhole
  BY <1>1 DEF EmptyHeapIsWhole
<1> HIDE DEF r
<1>6. Tiling
  BY <1>1, <1>2, <1>3 DEF Tiling, Tiles, End
<1>7. Aligned
  BY <1>1, <1>2, <1>3 DEF Aligned, AlignedHeaders
<1>8. Ownership /\ ShortOnlyOnWrap /\ MergedBehind
  BY <1>1, <1>2, <1>3 DEF Ownership, ShortOnlyOnWrap, MergedBehind, Idle
<1>9. QED
  BY <1>4, <1>5, <1>6, <1>7, <1>8 DEF HeapInv

(* malloc and calloc; req is what the caller wants, n what malloc is given.*)
LEMMA AllocateKeepsInv ==
  ASSUME HeapInv, Idle, NEW n \in 0..(WordSize - 1), NEW req \in Nat,
         Exact(req) => req = n, Allocate(n, req)
  PROVE  HeapInv'
<1>1. CASE UNCHANGED vars
  BY <1>1 DEF vars, HeapInv, TypeOK, Tiling, Aligned, Ownership, ShortOnlyOnWrap,
              MergedBehind, EmptyHeapIsWhole, Idle
<1>2. CASE /\ \E a \in DOMAIN blk : /\ FirstFit(a, Align(n))
                                   /\ blk' = TakeBlock(a, Align(n))
                                   /\ live' = Own(live, a + HDR, req)
           /\ UNCHANGED walk
  <2>1. PICK a \in DOMAIN blk : /\ FirstFit(a, Align(n))
                                /\ blk' = TakeBlock(a, Align(n))
                                /\ live' = Own(live, a + HDR, req)
    BY <1>2
  <2>2. /\ blk[a].free = 1 /\ a + HDR \in Address
        /\ WellFormed(blk') /\ DOMAIN blk \subseteq DOMAIN blk'
        /\ blk'[a].free = 0 /\ blk'[a].size >= Align(n)
        /\ \A x \in DOMAIN blk \ {a} : blk'[x] = blk[x]
        /\ \A x \in DOMAIN blk' \ DOMAIN blk : blk'[x].free = 1
    <3> DEFINE h == TakeBlock(a, Align(n))
    <3>1. /\ blk[a].free = 1 /\ a + HDR \in Address
          /\ WellFormed(h) /\ DOMAIN blk \subseteq DOMAIN h
          /\ h[a].free = 0 /\ h[a].size >= Align(n)
          /\ \A x \in DOMAIN blk \ {a} : h[x] = blk[x]
          /\ \A x \in DOMAIN h \ DOMAIN blk : h[x].free = 1
      BY <2>1, TakeFacts, HeapInvShape
    <3>2. blk' = h
      BY <2>1
    <3> HIDE DEF h
    <3>3. QED
      BY <3>1, <3>2
  <2>3. /\ DOMAIN live \subseteq Address /\ live \in [DOMAIN live -> Nat]
        /\ walk' = NULL /\ a \in Nat /\ \A p \in DOMAIN live : p \in Nat
        /\ \A x \in DOMAIN blk : x \in Nat
    BY <1>2, PoolAssumption DEF HeapInv, TypeOK, Idle, Address, IsHeaderMap
  <2>4. /\ DOMAIN live' = DOMAIN live \cup {a + HDR}
        /\ live'[a + HDR] = req
        /\ \A p \in DOMAIN live \ {a + HDR} : live'[p] = live[p]
        /\ live' \in [DOMAIN live' -> Nat]
    BY <2>1, <2>3 DEF Own
  <2>5. \A p \in DOMAIN live : p - HDR \in DOMAIN blk /\ blk[p - HDR].free = 0 /\ p - HDR # a
    BY <2>2 DEF HeapInv, Ownership
  <2>6. TypeOK'
    BY <2>2, <2>3, <2>4 DEF TypeOK, WellFormed
  <2>7. Tiling' /\ Aligned'
    BY <2>2 DEF Tiling, Aligned, WellFormed
  <2>8. Ownership'
    <3>1. ASSUME NEW p \in DOMAIN live' PROVE p - HDR \in DOMAIN blk' /\ blk'[p - HDR].free = 0
      <4>1. CASE p = a + HDR
        BY <2>2, <2>3, <4>1
      <4>2. CASE p \in DOMAIN live
        BY <2>2, <2>5, <4>2
      <4>3. QED
        BY <2>4, <4>1, <4>2
    <3>2. ASSUME NEW x \in DOMAIN blk', blk'[x].free = 0 PROVE x + HDR \in DOMAIN live'
      BY <2>2, <2>4, <3>2 DEF HeapInv, Ownership
    <3>3. QED
      BY <3>1, <3>2 DEF Ownership
  <2>9. ShortOnlyOnWrap'
    <3>1. ASSUME NEW p \in DOMAIN live', Exact(live'[p])
          PROVE  live'[p] <= blk'[p - HDR].size
      <4>1. CASE p = a + HDR
        <5>1. live'[p] = n /\ n <= Align(n) /\ Align(n) \in Nat
          BY <2>4, <3>1, <4>1, AlignFacts
        <5>2. p - HDR = a /\ blk'[a].size \in Nat
          BY <2>2, <2>3, <4>1 DEF WellFormed, IsHeaderMap, Header
        <5>3. QED
          BY <2>2, <5>1, <5>2
      <4>2. CASE p \in DOMAIN live /\ p # a + HDR
        BY <2>2, <2>4, <2>5, <3>1, <4>2 DEF HeapInv, ShortOnlyOnWrap
      <4>3. QED
        BY <2>4, <4>1, <4>2
    <3>2. QED
      BY <3>1 DEF ShortOnlyOnWrap, Exact
  <2>10. MergedBehind'
    BY <2>3 DEF MergedBehind, Idle
  <2>11. EmptyHeapIsWhole'
    BY <2>4 DEF EmptyHeapIsWhole
  <2>12. QED
    BY <2>6, <2>7, <2>8, <2>9, <2>10, <2>11 DEF HeapInv
<1>3. QED
  BY <1>1, <1>2 DEF Allocate

(* What the typed, well formed heap says of one block.                     *)
LEMMA BlockFacts ==
  ASSUME WellFormed(blk), NEW a \in DOMAIN blk
  PROVE  /\ a \in Nat /\ blk[a] \in Header /\ a + HDR \in Address
         /\ blk[a].size \in Nat /\ blk[a].free \in {0, 1}
         /\ blk[a].next \in Address \cup {NULL}
         /\ a + HDR + blk[a].size <= PoolSize
         /\ blk[a].next = NULL => a + HDR + blk[a].size = PoolSize
         /\ blk[a].next # NULL => /\ blk[a].next \in DOMAIN blk
                                 /\ a + HDR + blk[a].size = blk[a].next
         /\ \A b \in DOMAIN blk : a < b => a + HDR + blk[a].size <= b
  BY PoolAssumption DEF WellFormed, IsHeaderMap, Header, Address, Tiles, End

LEMMA FreeKeepsInv ==
  ASSUME HeapInv, NEW p \in DOMAIN live, Free(p)
  PROVE  HeapInv'
<1>1. WellFormed(blk)
  BY HeapInvShape
<1>2. /\ DOMAIN live \subseteq Address /\ live \in [DOMAIN live -> Nat]
      /\ walk = NULL /\ walk' = 0 /\ 0 \in DOMAIN blk
      /\ \A q \in DOMAIN live : q \in Nat
      /\ \A x \in DOMAIN blk : x \in Nat
  BY PoolAssumption DEF HeapInv, TypeOK, IsHeaderMap, Tiling, Tiles, Free, Idle, Address
<1>3. p - HDR \in DOMAIN blk
  BY DEF HeapInv, Ownership
<1>4. /\ WellFormed(blk') /\ DOMAIN blk' = DOMAIN blk
      /\ blk'[p - HDR].size = blk[p - HDR].size /\ blk'[p - HDR].free = 1
      /\ \A x \in DOMAIN blk \ {p - HDR} : blk'[x] = blk[x]
  <2> DEFINE g == Mark(blk, p - HDR, 1)
  <2>1. blk' = g
    BY DEF Free
  <2>2. g = Mark(blk, p - HDR, 1)
    OBVIOUS
  <2> HIDE DEF g
  <2>3. /\ WellFormed(g) /\ DOMAIN g = DOMAIN blk
        /\ g[p - HDR].size = blk[p - HDR].size /\ g[p - HDR].free = 1
        /\ \A x \in DOMAIN blk \ {p - HDR} : g[x] = blk[x]
    BY <1>1, <1>3, <2>2, MarkKeepsShape
  <2>4. QED
    BY <2>1, <2>3
<1>5. /\ DOMAIN live' = DOMAIN live \ {p}
      /\ \A q \in DOMAIN live' : live'[q] = live[q]
      /\ live' \in [DOMAIN live' -> Nat]
  BY <1>2 DEF Free, Disown
<1>6. TypeOK'
  BY <1>2, <1>4, <1>5 DEF TypeOK, WellFormed
<1>7. Tiling' /\ Aligned'
  BY <1>4 DEF Tiling, Aligned, WellFormed
<1>8. \A q \in DOMAIN live' : q - HDR # p - HDR
  BY <1>2, <1>5
<1>9. Ownership'
  BY <1>2, <1>4, <1>5, <1>8 DEF HeapInv, Ownership
<1>10. ShortOnlyOnWrap'
  BY <1>4, <1>5, <1>8 DEF HeapInv, ShortOnlyOnWrap, Ownership, Exact
<1>11. MergedBehind'
  BY <1>2, <1>4 DEF MergedBehind
<1>12. EmptyHeapIsWhole'
  BY <1>2 DEF EmptyHeapIsWhole, Idle
<1>13. QED
  BY <1>6, <1>7, <1>9, <1>10, <1>11, <1>12 DEF HeapInv

LEMMA ReallocInPlaceKeepsInv ==
  ASSUME HeapInv, NEW p \in DOMAIN live, NEW n \in 0..(WordSize - 1),
         ReallocInPlace(p, n)
  PROVE  HeapInv'
<1> DEFINE a == p - HDR
<1>1. WellFormed(blk)
  BY HeapInvShape
<1>2. /\ DOMAIN live \subseteq Address /\ live \in [DOMAIN live -> Nat]
      /\ walk = NULL /\ walk' = NULL
      /\ \A q \in DOMAIN live : q \in Nat
      /\ a \in DOMAIN blk /\ blk[a].free = 0
      /\ blk[a].size >= n /\ blk' = SplitBlock(a, Align(n))
  BY PoolAssumption
     DEF HeapInv, TypeOK, Ownership, ReallocInPlace, Idle, Address
<1>3. a + HDR = p
  BY <1>2
<1> HIDE DEF a
<1>4. blk[a].size \in Nat /\ blk[a].size <= PoolSize /\ blk[a].size % 4 = 0
  BY <1>1, <1>2 DEF WellFormed, IsHeaderMap, Header, AlignedHeaders
<1>5. /\ Align(n) \in Nat /\ Align(n) % ALIGNMENT = 0 /\ n <= Align(n)
      /\ Align(n) <= blk[a].size
  BY <1>2, <1>4, AlignFacts, PoolAssumption DEF Exact
<1>6. /\ WellFormed(blk') /\ DOMAIN blk \subseteq DOMAIN blk'
      /\ blk'[a].free = 0 /\ blk'[a].size >= Align(n)
      /\ \A x \in DOMAIN blk \ {a} : blk'[x] = blk[x]
      /\ \A x \in DOMAIN blk' \ DOMAIN blk : blk'[x].free = 1
  <2> DEFINE g == SplitBlock(a, Align(n))
  <2>1. /\ WellFormed(g) /\ DOMAIN blk \subseteq DOMAIN g
        /\ g[a].free = blk[a].free /\ g[a].size >= Align(n)
        /\ \A x \in DOMAIN blk \ {a} : g[x] = blk[x]
        /\ \A x \in DOMAIN g \ DOMAIN blk : g[x].free = 1
    BY <1>1, <1>2, <1>5, SplitKeepsShape
  <2>2. blk' = g
    BY <1>2
  <2> HIDE DEF g
  <2>3. QED
    BY <1>2, <2>1, <2>2
<1>7. /\ DOMAIN live' = DOMAIN live /\ live'[p] = n
      /\ \A q \in DOMAIN live \ {p} : live'[q] = live[q]
      /\ live' \in [DOMAIN live' -> Nat]
  BY <1>2 DEF ReallocInPlace, Own
<1>8. TypeOK'
  BY <1>2, <1>6, <1>7 DEF TypeOK, WellFormed
<1>9. Tiling' /\ Aligned'
  BY <1>6 DEF Tiling, Aligned, WellFormed
<1>10. \A q \in DOMAIN live \ {p} : q - HDR \in DOMAIN blk \ {a}
  BY <1>2, <1>3 DEF HeapInv, Ownership, a
<1>11. Ownership'
  <2>1. ASSUME NEW q \in DOMAIN live'
        PROVE  q - HDR \in DOMAIN blk' /\ blk'[q - HDR].free = 0
    BY <1>2, <1>6, <1>7, <1>10 DEF HeapInv, Ownership, a
  <2>2. ASSUME NEW x \in DOMAIN blk', blk'[x].free = 0 PROVE x + HDR \in DOMAIN live'
    BY <1>2, <1>3, <1>6, <1>7, <2>2 DEF HeapInv, Ownership
  <2>3. QED
    BY <2>1, <2>2 DEF Ownership
<1>12. ShortOnlyOnWrap'
  <2>1. ASSUME NEW q \in DOMAIN live', Exact(live'[q])
        PROVE  live'[q] <= blk'[q - HDR].size
    <3>1. CASE q = p
      <4>1. q - HDR = a /\ blk'[a].size \in Nat
        BY <1>2, <1>6, <3>1 DEF a, WellFormed, IsHeaderMap, Header
      <4>2. QED
        BY <1>5, <1>6, <1>7, <3>1, <4>1
    <3>2. CASE q # p
      BY <1>6, <1>7, <1>10, <2>1, <3>2 DEF HeapInv, ShortOnlyOnWrap
    <3>3. QED
      BY <3>1, <3>2
  <2>2. QED
    BY <2>1 DEF ShortOnlyOnWrap, Exact
<1>13. MergedBehind' /\ EmptyHeapIsWhole'
  BY <1>2, <1>7 DEF MergedBehind, EmptyHeapIsWhole, Idle
<1>14. QED
  BY <1>8, <1>9, <1>11, <1>12, <1>13 DEF HeapInv

LEMMA ReallocMoveKeepsInv ==
  ASSUME HeapInv, NEW p \in DOMAIN live, NEW n \in 0..(WordSize - 1),
         ReallocMove(p, n)
  PROVE  HeapInv'
<1> DEFINE b == p - HDR
<1>1. CASE UNCHANGED vars
  BY <1>1 DEF vars, HeapInv, TypeOK, Tiling, Aligned, Ownership, ShortOnlyOnWrap,
              MergedBehind, EmptyHeapIsWhole, Idle
<1>2. CASE /\ \E a \in DOMAIN blk :
                /\ FirstFit(a, Align(n))
                /\ blk' = Mark(TakeBlock(a, Align(n)), b, 1)
                /\ live' = Own(Disown(live, p), a + HDR, n)
           /\ walk' = 0
  <2>1. PICK a \in DOMAIN blk :
                /\ FirstFit(a, Align(n))
                /\ blk' = Mark(TakeBlock(a, Align(n)), b, 1)
                /\ live' = Own(Disown(live, p), a + HDR, n)
    BY <1>2
  <2>2. /\ DOMAIN live \subseteq Address /\ live \in [DOMAIN live -> Nat]
        /\ \A q \in DOMAIN live : q \in Nat
        /\ \A x \in DOMAIN blk : x \in Nat
        /\ b \in DOMAIN blk /\ blk[b].free = 0 /\ b + HDR = p
    BY PoolAssumption DEF HeapInv, TypeOK, IsHeaderMap, Ownership, Address
  <2> HIDE DEF b
  <2>3. /\ a + HDR \in Address /\ a # b /\ blk[a].free = 1
        /\ WellFormed(blk') /\ DOMAIN blk \subseteq DOMAIN blk'
        /\ blk'[a].free = 0 /\ blk'[a].size >= Align(n)
        /\ blk'[b].free = 1
        /\ \A x \in DOMAIN blk \ {a, b} : blk'[x] = blk[x]
        /\ \A x \in DOMAIN blk' \ DOMAIN blk : blk'[x].free = 1
    <3> DEFINE h == TakeBlock(a, Align(n))
               g == Mark(h, b, 1)
    <3>1. /\ blk[a].free = 1 /\ a + HDR \in Address
          /\ WellFormed(h) /\ DOMAIN blk \subseteq DOMAIN h
          /\ h[a].free = 0 /\ h[a].size >= Align(n)
          /\ \A x \in DOMAIN blk \ {a} : h[x] = blk[x]
          /\ \A x \in DOMAIN h \ DOMAIN blk : h[x].free = 1
      BY <2>1, TakeFacts, HeapInvShape
    <3>2. blk' = g /\ g = Mark(h, b, 1)
      BY <2>1
    <3> HIDE DEF h, g
    <3>3. /\ WellFormed(g) /\ DOMAIN g = DOMAIN h /\ g[b].free = 1
          /\ \A x \in DOMAIN h \ {b} : g[x] = h[x]
      <4>1. WellFormed(h) /\ b \in DOMAIN h /\ 1 \in {0, 1} /\ g = Mark(h, b, 1)
        BY <2>2, <3>1, <3>2
      <4>2. QED
        BY ONLY <4>1, MarkKeepsShape
    <3>4. a # b
      BY <2>2, <3>1
    <3>5. QED
      BY <2>2, <3>1, <3>2, <3>3, <3>4
  <2>4. /\ DOMAIN live' = (DOMAIN live \ {p}) \cup {a + HDR}
        /\ live'[a + HDR] = n
        /\ \A q \in DOMAIN live' \ {a + HDR} : live'[q] = live[q]
        /\ live' \in [DOMAIN live' -> Nat]
    BY <2>1, <2>2 DEF Own, Disown
  <2>5. \A q \in DOMAIN live \ {p} : q - HDR \in DOMAIN blk \ {a, b} /\ blk[q - HDR].free = 0
    BY <2>2, <2>3 DEF HeapInv, Ownership
  <2>6. 0 \in DOMAIN blk' /\ walk' = 0
    BY <1>2, <2>3 DEF WellFormed, Tiles
  <2>7. TypeOK'
    BY <2>2, <2>3, <2>4, <2>6 DEF TypeOK, WellFormed
  <2>8. Tiling' /\ Aligned'
    BY <2>3 DEF Tiling, Aligned, WellFormed
  <2>9. Ownership'
    <3>1. ASSUME NEW q \in DOMAIN live'
          PROVE  q - HDR \in DOMAIN blk' /\ blk'[q - HDR].free = 0
      <4>1. CASE q = a + HDR
        <5>1. q - HDR = a
          BY <2>2, <4>1
        <5>2. QED
          BY <2>3, <5>1
      <4>2. CASE q \in DOMAIN live \ {p}
        BY <2>3, <2>5, <4>2
      <4>3. QED
        BY <2>4, <4>1, <4>2
    <3>2. ASSUME NEW x \in DOMAIN blk', blk'[x].free = 0 PROVE x + HDR \in DOMAIN live'
      <4>1. x \in DOMAIN blk /\ x # b
        BY <2>3, <3>2
      <4>2. CASE x = a
        BY <2>4, <4>2
      <4>3. CASE x # a
        <5>1. x + HDR \in DOMAIN live
          BY <2>3, <3>2, <4>1, <4>3 DEF HeapInv, Ownership
        <5>2. x + HDR # p
          BY <2>2, <4>1
        <5>3. QED
          BY <2>4, <5>1, <5>2
      <4>4. QED
        BY <4>2, <4>3
    <3>3. QED
      BY <3>1, <3>2 DEF Ownership
  <2>10. ShortOnlyOnWrap'
    <3>1. ASSUME NEW q \in DOMAIN live', Exact(live'[q])
          PROVE  live'[q] <= blk'[q - HDR].size
      <4>1. CASE q = a + HDR
        <5>1. q - HDR = a /\ blk'[a].size \in Nat
          BY <2>2, <2>3, <4>1 DEF WellFormed, IsHeaderMap, Header
        <5>2. live'[q] = n /\ n <= Align(n) /\ Align(n) \in Nat
          BY <2>4, <3>1, <4>1, AlignFacts
        <5>3. QED
          BY <2>3, <5>1, <5>2
      <4>2. CASE q \in DOMAIN live \ {p} /\ q # a + HDR
        BY <2>3, <2>4, <2>5, <3>1, <4>2 DEF HeapInv, ShortOnlyOnWrap
      <4>3. QED
        BY <2>4, <4>1, <4>2
    <3>2. QED
      BY <3>1 DEF ShortOnlyOnWrap, Exact
  <2>11. MergedBehind'
    BY <2>3, <2>6 DEF MergedBehind, WellFormed, IsHeaderMap, Address
  <2>12. EmptyHeapIsWhole'
    BY <2>6 DEF EmptyHeapIsWhole, Idle
  <2>13. QED
    BY <2>7, <2>8, <2>9, <2>10, <2>11, <2>12 DEF HeapInv
<1>3. QED
  BY <1>1, <1>2 DEF ReallocMove

(* The loop of merge_free_blocks: stop, absorb the next block, or advance. *)
LEMMA MergeStepKeepsInv ==
  ASSUME HeapInv, MergeStep
  PROVE  HeapInv'
<1> DEFINE nxt == blk[walk].next
<1>1. WellFormed(blk) /\ walk \in DOMAIN blk /\ walk # NULL /\ UNCHANGED live
  BY HeapInvShape DEF HeapInv, TypeOK, MergeStep, Idle
<1>2. /\ walk \in Nat /\ blk[walk].size \in Nat
      /\ walk + HDR + blk[walk].size <= PoolSize
      /\ nxt = NULL => walk + HDR + blk[walk].size = PoolSize
      /\ nxt # NULL => nxt \in DOMAIN blk /\ walk + HDR + blk[walk].size = nxt
      /\ \A b \in DOMAIN blk : walk < b => walk + HDR + blk[walk].size <= b
  BY <1>1, BlockFacts
<1>3. \A a \in DOMAIN blk : /\ a \in Nat /\ blk[a].size \in Nat /\ a + HDR <= PoolSize
                            /\ a < walk => a + HDR + blk[a].size <= walk
  BY <1>1, BlockFacts DEF Address
<1>4. PoolSize \in Nat
  BY PoolAssumption
<1> HIDE DEF nxt
<1>5. CASE nxt = NULL /\ walk' = NULL /\ UNCHANGED blk
  <2>1. TypeOK' /\ Tiling' /\ Aligned' /\ Ownership' /\ ShortOnlyOnWrap'
    BY <1>1, <1>5
       DEF HeapInv, TypeOK, Tiling, Aligned, Ownership, ShortOnlyOnWrap
  <2>2. MergedBehind'
    BY <1>5 DEF MergedBehind, Idle
  <2>3. ASSUME DOMAIN live = {}
        PROVE  blk = [a \in {0} |-> [size |-> PoolSize - HDR, free |-> 1, next |-> NULL]]
    <3>1. ASSUME NEW a \in DOMAIN blk PROVE blk[a].free = 1
      <4>1. blk[a].free # 0
        BY <2>3 DEF HeapInv, Ownership
      <4>2. QED
        BY <1>1, <4>1, BlockFacts
    <3>2. 0 \in DOMAIN blk
      BY <1>1 DEF WellFormed, Tiles
    <3>3. walk = 0
      <4>1. ASSUME 0 < walk PROVE FALSE
        <5>1. blk[0].next # NULL /\ blk[blk[0].next].free = 0
          BY <1>1, <3>1, <3>2, <4>1 DEF HeapInv, MergedBehind, Idle
        <5>2. blk[0].next \in DOMAIN blk
          BY <1>1, <3>2, <5>1, BlockFacts
        <5>3. QED
          BY <3>1, <5>1, <5>2
      <4>2. QED
        BY <1>2, <4>1
    <3>4. blk[0].size = PoolSize - HDR /\ blk[0].next = NULL /\ blk[0].free = 1
      BY <1>2, <1>4, <1>5, <3>1, <3>2, <3>3 DEF nxt
    <3>5. DOMAIN blk = {0}
      BY <1>2, <1>3, <1>4, <1>5, <3>2, <3>3
    <3>6. blk \in [DOMAIN blk -> Header] /\ blk[0] \in Header
      BY <1>1, <3>2 DEF WellFormed, IsHeaderMap
    <3>7. blk[0] = [size |-> PoolSize - HDR, free |-> 1, next |-> NULL]
      BY <3>4, <3>6 DEF Header
    <3>8. QED
      BY <3>5, <3>6, <3>7
  <2>4. EmptyHeapIsWhole'
    BY <1>1, <1>5, <2>3 DEF EmptyHeapIsWhole
  <2>5. QED
    BY <2>1, <2>2, <2>4 DEF HeapInv
<1>6. CASE /\ nxt # NULL /\ ~(blk[walk].free = 1 /\ blk[nxt].free = 1)
           /\ walk' = nxt /\ UNCHANGED blk
  <2>1. TypeOK' /\ Tiling' /\ Aligned' /\ Ownership' /\ ShortOnlyOnWrap'
    BY <1>1, <1>2, <1>6
       DEF HeapInv, TypeOK, Tiling, Aligned, Ownership, ShortOnlyOnWrap
  <2>2. nxt \in Nat /\ nxt # -1
    BY <1>2, <1>3, <1>6
  <2>3. ASSUME NEW a \in DOMAIN blk, a < nxt, blk[a].free = 1
        PROVE  blk[a].next # NULL /\ blk[blk[a].next].free = 0
    <3>1. CASE a = walk
      <4>1. nxt \in DOMAIN blk /\ blk[nxt].free \in {0, 1}
        BY <1>1, <1>2, <1>6, BlockFacts
      <4>2. QED
        BY <1>6, <2>3, <3>1, <4>1 DEF nxt
    <3>2. CASE a < walk
      BY <1>1, <2>3, <3>2 DEF HeapInv, MergedBehind, Idle
    <3>3. CASE walk < a
      BY <1>2, <1>3, <1>6, <2>2, <2>3, <3>3
    <3>4. QED
      BY <1>2, <1>3, <3>1, <3>2, <3>3
  <2>4. MergedBehind'
    BY <1>6, <2>3 DEF MergedBehind
  <2>5. EmptyHeapIsWhole'
    BY <1>6, <2>2 DEF EmptyHeapIsWhole, Idle
  <2>6. QED
    BY <2>1, <2>4, <2>5 DEF HeapInv
<1>7. CASE /\ nxt # NULL /\ blk[walk].free = 1 /\ blk[nxt].free = 1
           /\ blk' = Absorb(walk) /\ UNCHANGED walk
  <2> DEFINE r == [size |-> blk[walk].size + HDR + blk[nxt].size,
                   free |-> 1, next |-> blk[nxt].next]
  <2>1. /\ nxt \in DOMAIN blk /\ nxt \in Nat /\ walk < nxt /\ blk[nxt].size \in Nat
        /\ walk + HDR + blk[walk].size = nxt
        /\ nxt + HDR + blk[nxt].size <= PoolSize
        /\ blk[nxt].next \in Address \cup {NULL}
        /\ blk[nxt].next = NULL => nxt + HDR + blk[nxt].size = PoolSize
        /\ blk[nxt].next # NULL => /\ blk[nxt].next \in DOMAIN blk
                                  /\ nxt + HDR + blk[nxt].size = blk[nxt].next
        /\ \A b \in DOMAIN blk : nxt < b => nxt + HDR + blk[nxt].size <= b
    BY <1>1, <1>2, <1>7, BlockFacts
  <2>2. /\ DOMAIN blk' = DOMAIN blk \ {nxt} /\ blk'[walk] = r
        /\ \A x \in DOMAIN blk' \ {walk} : blk'[x] = blk[x]
    BY <1>1, <1>7, <2>1 DEF Absorb, nxt
  <2>3. /\ r.size = blk[walk].size + 12 + blk[nxt].size
        /\ r.free = 1 /\ r.next = blk[nxt].next /\ r \in Header
    BY <1>2, <1>4, <2>1 DEF Header
  <2> HIDE DEF r
  <2>4. IsHeaderMap(blk')
    <3>1. \A x \in DOMAIN blk' : blk'[x] \in Header
      BY <1>1, <2>2, <2>3 DEF WellFormed, IsHeaderMap
    <3>2. blk' = [x \in DOMAIN blk' |-> blk'[x]]
      BY <1>7 DEF Absorb
    <3>3. QED
      BY <1>1, <2>2, <3>1, <3>2 DEF WellFormed, IsHeaderMap
  <2>5. AlignedHeaders(blk')
    <3>1. /\ blk[walk].size % 4 = 0 /\ blk[nxt].size % 4 = 0 /\ walk % 4 = 0
      BY <1>1, <2>1 DEF WellFormed, AlignedHeaders
    <3>2. r.size % 4 = 0
      BY <1>2, <2>1, <2>3, <3>1
    <3>3. QED
      BY <1>1, <2>2, <3>1, <3>2 DEF WellFormed, AlignedHeaders
  <2>6. Tiles(blk')
    <3>1. 0 \in DOMAIN blk'
      BY <1>1, <1>2, <2>1, <2>2 DEF WellFormed, Tiles
    <3>2. ASSUME NEW x \in DOMAIN blk'
          PROVE  IF blk'[x].next = NULL THEN End(blk', x) = PoolSize
                 ELSE blk'[x].next \in DOMAIN blk' /\ End(blk', x) = blk'[x].next
      <4>1. CASE x = walk
        BY <1>1, <1>2, <2>1, <2>2, <2>3, <4>1 DEF End
      <4>2. CASE x # walk
        <5>1. x \in DOMAIN blk /\ blk'[x] = blk[x]
          BY <2>2, <4>2
        <5>2. /\ blk[x].next = NULL => End(blk, x) = PoolSize
              /\ blk[x].next # NULL => /\ blk[x].next \in DOMAIN blk
                                      /\ End(blk, x) = blk[x].next
          BY <1>1, <5>1 DEF WellFormed, Tiles
        <5>3. blk[x].next # nxt
          <6>1. ASSUME blk[x].next = nxt PROVE FALSE
            <7>1. x + 12 + blk[x].size = nxt
              BY <1>7, <5>2, <6>1 DEF End
            <7>2. CASE x < walk
              BY <1>2, <1>3, <2>1, <5>1, <7>1, <7>2
            <7>3. CASE walk < x
              BY <1>2, <1>3, <2>1, <5>1, <7>1, <7>3
            <7>4. QED
              BY <1>2, <1>3, <4>2, <5>1, <7>2, <7>3
          <6>2. QED
            BY <6>1
        <5>4. QED
          BY <2>2, <5>1, <5>2, <5>3 DEF End
      <4>3. QED
        BY <4>1, <4>2
    <3>3. ASSUME NEW x \in DOMAIN blk', NEW y \in DOMAIN blk', x < y
          PROVE  End(blk', x) <= y
      <4>1. x \in DOMAIN blk /\ y \in DOMAIN blk /\ x # nxt /\ y # nxt
        BY <2>2
      <4>2. CASE x = walk
        BY <1>2, <1>3, <2>1, <2>2, <2>3, <3>3, <4>1, <4>2 DEF End
      <4>3. CASE x # walk
        BY <1>1, <2>2, <3>3, <4>1, <4>3 DEF WellFormed, Tiles, End
      <4>4. QED
        BY <4>2, <4>3
    <3>4. QED
      BY <3>1, <3>2, <3>3 DEF Tiles
  <2>7. TypeOK' /\ Tiling' /\ Aligned'
    BY <1>1, <1>2, <1>7, <2>1, <2>2, <2>4, <2>5, <2>6
       DEF HeapInv, TypeOK, Tiling, Aligned
  <2>8. \A p \in DOMAIN live : /\ p - HDR \in DOMAIN blk' \ {walk}
                               /\ blk'[p - HDR] = blk[p - HDR]
    BY <1>7, <2>2 DEF HeapInv, Ownership
  <2>9. Ownership' /\ ShortOnlyOnWrap'
    BY <1>1, <2>2, <2>3, <2>8 DEF HeapInv, Ownership, ShortOnlyOnWrap, Exact
  <2>10. MergedBehind'
    <3>1. ASSUME NEW a \in DOMAIN blk', a < walk, blk'[a].free = 1
          PROVE  blk'[a].next # NULL /\ blk'[blk'[a].next].free = 0
      <4>1. a \in DOMAIN blk /\ a # walk /\ blk'[a] = blk[a]
        BY <1>2, <2>2, <3>1
      <4>2. blk[a].next # NULL /\ blk[blk[a].next].free = 0
        BY <1>1, <3>1, <4>1 DEF HeapInv, MergedBehind, Idle
      <4>3. blk[a].next \in DOMAIN blk
        BY <1>1, <4>1, <4>2, BlockFacts
      <4>4. QED
        BY <1>7, <2>2, <4>1, <4>2, <4>3
    <3>2. QED
      BY <1>7, <3>1 DEF MergedBehind
  <2>11. EmptyHeapIsWhole'
    BY <1>1, <1>7 DEF EmptyHeapIsWhole, Idle
  <2>12. QED
    BY <2>7, <2>9, <2>10, <2>11 DEF HeapInv
<1>8. QED
  BY <1>5, <1>6, <1>7 DEF MergeStep, MergeStop, MergeAbsorb, MergeAdvance, BothFree, nxt

LEMMA NextKeepsHeapInv == HeapInv /\ [Next]_vars => HeapInv'
<1> SUFFICES ASSUME HeapInv, [Next]_vars PROVE HeapInv'
  OBVIOUS
<1>1. Requests \subseteq 0..(WordSize - 1) /\ WordSize \in Nat /\ WordSize > 0
  BY PoolAssumption
<1>2. ASSUME NEW n \in Requests, Malloc(n) PROVE HeapInv'
  BY <1>1, <1>2, AllocateKeepsInv DEF Malloc
<1>3. ASSUME NEW m \in Requests, NEW n \in Requests, Calloc(m, n) PROVE HeapInv'
  <2> DEFINE k == m * n
  <2>1. k \in Nat /\ k % WordSize \in 0..(WordSize - 1)
    BY <1>1
  <2>2. Exact(k) => k % WordSize = k
    BY <1>1, <2>1 DEF Exact
  <2>3. Idle /\ Allocate(k % WordSize, k)
    BY <1>3 DEF Calloc
  <2> HIDE DEF k
  <2>4. QED
    BY <2>1, <2>2, <2>3, AllocateKeepsInv
<1>4. ASSUME NEW p \in DOMAIN live, Free(p) PROVE HeapInv'
  BY <1>4, FreeKeepsInv
<1>5. ASSUME NEW p \in DOMAIN live, NEW n \in Requests, Realloc(p, n) PROVE HeapInv'
  BY <1>1, <1>5, FreeKeepsInv, ReallocInPlaceKeepsInv, ReallocMoveKeepsInv DEF Realloc
<1>6. CASE MergeStep
  BY <1>6, MergeStepKeepsInv
<1>7. CASE UNCHANGED vars
  BY <1>7 DEF vars, HeapInv, TypeOK, Tiling, Aligned, Ownership, ShortOnlyOnWrap,
              MergedBehind, EmptyHeapIsWhole, Idle
<1>8. QED
  BY <1>2, <1>3, <1>4, <1>5, <1>6, <1>7 DEF Next, FreeIgnored

(* The heap invariant holds after every sequence of malloc, calloc,        *)
(* realloc and free, for every pool, word size and set of requests.        *)
THEOREM HeapSafe == Spec => []HeapInv
<1>1. QED
  BY InitHeapInv, NextKeepsHeapInv, PTL DEF Spec

(* Type correctness of the block list.                                     *)
THEOREM HeapTyped == Spec => []TypeOK
<1>1. HeapInv => TypeOK
  BY DEF HeapInv
<1>2. QED
  BY <1>1, HeapSafe, PTL

(* The list tiles the pool: no overlap, no gap, in every reachable state.  *)
THEOREM HeapTiled == Spec => []Tiling
<1>1. HeapInv => Tiling
  BY DEF HeapInv
<1>2. QED
  BY <1>1, HeapSafe, PTL

(* The used blocks are the ones callers hold: no leak, no double hand-out. *)
THEOREM HeapOwned == Spec => []Ownership
<1>1. HeapInv => Ownership
  BY DEF HeapInv
<1>2. QED
  BY <1>1, HeapSafe, PTL

(* malloc, calloc and realloc never hand out less than an in-range request.*)
THEOREM HeapGrantsEnough == Spec => []ShortOnlyOnWrap
<1>1. HeapInv => ShortOnlyOnWrap
  BY DEF HeapInv
<1>2. QED
  BY <1>1, HeapSafe, PTL

(* Freeing everything always restores the pool init_memory_manager made.   *)
THEOREM HeapRestored == Spec => []EmptyHeapIsWhole
<1>1. HeapInv => EmptyHeapIsWhole
  BY DEF HeapInv
<1>2. QED
  BY <1>1, HeapSafe, PTL

(* When free returns, merge_free_blocks has left no two free neighbours.   *)
THEOREM FreeCoalesces == Spec => MergeCoalesces
<1> DEFINE Done == walk # NULL /\ walk' = NULL =>
                     \A a \in DOMAIN blk' : blk'[a].free = 1 /\ blk'[a].next # NULL =>
                                              blk'[blk'[a].next].free = 0
<1>1. HeapInv /\ [Next]_vars => [Done]_vars
  <2> SUFFICES ASSUME HeapInv, [Next]_vars, walk # NULL, walk' = NULL,
                      NEW a \in DOMAIN blk', blk'[a].free = 1, blk'[a].next # NULL
               PROVE  blk'[blk'[a].next].free = 0
    BY DEF vars
  <2>1. MergeStep
    BY DEF Next, Malloc, Calloc, Free, FreeIgnored, Realloc, ReallocInPlace,
           ReallocMove, Idle, vars
  <2>2. WellFormed(blk) /\ walk \in DOMAIN blk /\ walk \in Nat
    BY HeapInvShape, BlockFacts DEF HeapInv, TypeOK
  <2>3. blk' = blk /\ blk[walk].next = NULL
    BY <2>1, <2>2, BlockFacts DEF MergeStep, MergeStop, MergeAbsorb, MergeAdvance
  <2>4. a < walk
    <3>1. a \in Nat /\ a # walk /\ PoolSize \in Nat /\ a + HDR <= PoolSize
      BY <2>2, <2>3, BlockFacts, PoolAssumption DEF Address
    <3>2. ~(walk < a)
      BY <2>2, <2>3, <3>1, BlockFacts
    <3>3. QED
      BY <2>2, <3>1, <3>2
  <2>5. QED
    BY <2>2, <2>3, <2>4 DEF HeapInv, MergedBehind, Idle
<1>2. QED
  BY <1>1, HeapSafe, PTL DEF Spec, MergeCoalesces
-------------------------------------------------------------------------------
(* The heap implements HeapContract: each step of the block list is a step *)
(* of the contract, or leaves what the callers hold as it is.              *)

(* Two pointers into a well formed list own bytes of the pool, and share   *)
(* none.                                                                   *)
LEMMA PointersApart ==
  ASSUME NEW f, WellFormed(f), NEW p \in Nat, NEW q \in Nat,
         p - HDR \in DOMAIN f, q - HDR \in DOMAIN f
  PROVE  /\ f[p - HDR].size \in Nat /\ f[q - HDR].size \in Nat
         /\ q + f[q - HDR].size <= PoolSize
         /\ p # q => p + f[p - HDR].size <= q \/ q + f[q - HDR].size <= p
<1> DEFINE x == p - HDR
           y == q - HDR
<1>1. /\ PoolSize \in Nat /\ f[x] \in Header /\ f[y] \in Header
      /\ x \in Nat /\ y \in Nat
      /\ \A a, b \in DOMAIN f : a < b => a + 12 + f[a].size <= b
      /\ y + 12 + f[y].size = PoolSize \/ y + 12 + f[y].size = f[y].next
      /\ f[y].next = NULL => y + 12 + f[y].size = PoolSize
  BY PoolAssumption DEF WellFormed, IsHeaderMap, Address, Tiles, End
<1>2. /\ f[x].size \in Nat /\ f[y].size \in Nat
      /\ y + 12 + f[y].size <= PoolSize
  BY <1>1 DEF Header, Address
<1>3. p = x + 12 /\ q = y + 12
  OBVIOUS
<1>4. /\ x < y => x + 12 + f[x].size <= y
      /\ y < x => y + 12 + f[y].size <= x
  BY <1>1
<1> HIDE DEF x, y
<1>5. QED
  BY <1>1, <1>2, <1>3, <1>4 DEF x, y

(* What the invariant says of the pointers, in the form the steps use.     *)
LEMMA PointerFacts ==
  ASSUME HeapInv
  PROVE  /\ WellFormed(blk)
         /\ \A p \in DOMAIN live : p \in Nat /\ p - HDR \in DOMAIN blk
         /\ \A p, q \in DOMAIN live :
              /\ blk[p - HDR].size \in Nat /\ p + blk[p - HDR].size <= PoolSize
              /\ p # q => p + blk[p - HDR].size <= q \/ q + blk[q - HDR].size <= p
<1>1. WellFormed(blk)
  BY HeapInvShape
<1>2. \A p \in DOMAIN live : p \in Nat /\ p - HDR \in DOMAIN blk
  BY PoolAssumption DEF HeapInv, TypeOK, Address, Ownership
<1>3. QED
  BY <1>1, <1>2, PointersApart

(* malloc and calloc, when they find a block, are Acquire.                 *)
LEMMA AcquireStep ==
  ASSUME HeapInv, Idle, NEW n \in 0..(WordSize - 1), NEW req,
         NEW a \in DOMAIN blk, FirstFit(a, Align(n)),
         blk' = TakeBlock(a, Align(n)), live' = Own(live, a + HDR, req)
  PROVE  Heap!Next
<1> DEFINE q == a + HDR
           h == TakeBlock(a, Align(n))
<1>1. /\ WellFormed(blk)
      /\ \A p \in DOMAIN live : p \in Nat /\ p - HDR \in DOMAIN blk
  BY PointerFacts
<1>2. /\ blk[a].free = 1 /\ WellFormed(h) /\ DOMAIN blk \subseteq DOMAIN h
      /\ \A x \in DOMAIN blk \ {a} : h[x] = blk[x]
  BY <1>1, TakeFacts
<1>3. a \in Nat /\ q \in Nat /\ q - HDR = a /\ blk' = h
  BY <1>1, BlockFacts
<1> HIDE DEF h
<1>4. \A p \in DOMAIN live : p # q /\ p - HDR # a
  BY <1>2, <1>3 DEF HeapInv, Ownership
<1>5. \A p \in DOMAIN live : h[p - HDR].size = blk[p - HDR].size
  BY <1>1, <1>2, <1>4
<1>6. /\ h[q - HDR].size \in Nat /\ q + h[q - HDR].size <= PoolSize
      /\ \A p \in DOMAIN live : p + blk[p - HDR].size <= q \/ q + h[q - HDR].size <= p
  <2>1. q - HDR \in DOMAIN h
    BY <1>2, <1>3
  <2>2. /\ h[q - HDR].size \in Nat /\ q + h[q - HDR].size <= PoolSize
    BY <1>2, <1>3, <2>1, PointersApart
  <2>3. ASSUME NEW p \in DOMAIN live
        PROVE  p + blk[p - HDR].size <= q \/ q + h[q - HDR].size <= p
    <3>1. p \in Nat /\ p - HDR \in DOMAIN h /\ p # q /\ h[p - HDR].size = blk[p - HDR].size
      BY <1>1, <1>2, <1>4, <1>5
    <3>2. p + h[p - HDR].size <= q \/ q + h[q - HDR].size <= p
      BY <1>2, <1>3, <2>1, <3>1, PointersApart
    <3>3. QED
      BY <3>1, <3>2
  <2>4. QED
    BY <2>2, <2>3
<1>7. DOMAIN live' = DOMAIN live \cup {q}
  BY DEF Own
<1> HIDE DEF q
<1>8. Heap!Acquire(q, h[q - HDR].size)
  BY <1>3, <1>4, <1>5, <1>6, <1>7 DEF Heap!Acquire, Heap!Place, Heap!Apart
<1>9. QED
  BY <1>3, <1>7, <1>8 DEF Heap!Next

(* free, and realloc to nothing, are Release.                              *)
LEMMA ReleaseStep ==
  ASSUME HeapInv, NEW p \in DOMAIN live, Free(p)
  PROVE  Heap!Next
<1> DEFINE g == Mark(blk, p - HDR, 1)
<1>1. /\ WellFormed(blk)
      /\ \A q \in DOMAIN live : q \in Nat /\ q - HDR \in DOMAIN blk
  BY PointerFacts
<1>2. blk' = g /\ DOMAIN live' = DOMAIN live \ {p}
  BY DEF Free, Disown
<1>3. g = Mark(blk, p - HDR, 1)
  OBVIOUS
<1> HIDE DEF g
<1>4. \A x \in DOMAIN blk \ {p - HDR} : g[x] = blk[x]
  BY <1>1, <1>3, MarkKeepsShape
<1>5. \A q \in DOMAIN live' : g[q - HDR] = blk[q - HDR]
  BY <1>1, <1>2, <1>4
<1>6. Heap!Release(p)
  BY <1>2, <1>5 DEF Heap!Release
<1>7. QED
  BY <1>6 DEF Heap!Next

(* realloc that keeps the block is Shrink.                                 *)
LEMMA ShrinkStep ==
  ASSUME HeapInv, NEW p \in DOMAIN live, NEW n \in 0..(WordSize - 1),
         ReallocInPlace(p, n)
  PROVE  Heap!Next
<1> DEFINE a == p - HDR
           g == SplitBlock(a, Align(n))
<1>1. /\ WellFormed(blk)
      /\ \A q \in DOMAIN live : q \in Nat /\ q - HDR \in DOMAIN blk
      /\ \A q, r \in DOMAIN live :
           /\ blk[q - HDR].size \in Nat /\ q + blk[q - HDR].size <= PoolSize
           /\ q # r => q + blk[q - HDR].size <= r \/ r + blk[r - HDR].size <= q
  BY PointerFacts
<1>2. blk' = g /\ DOMAIN live' = DOMAIN live
  BY DEF ReallocInPlace, Own
<1>3. /\ blk[a].size >= n /\ a \in DOMAIN blk /\ blk[a].size \in Nat /\ blk[a].size <= PoolSize
      /\ blk[a].size % 4 = 0
  BY <1>1 DEF ReallocInPlace, WellFormed, IsHeaderMap, Header, AlignedHeaders
<1> HIDE DEF a
<1>4. Align(n) \in Nat /\ Align(n) % ALIGNMENT = 0 /\ Align(n) <= blk[a].size
  <2>1. Exact(n)
    BY <1>3, PoolAssumption DEF Exact
  <2>2. Align(n) \in Nat /\ Align(n) % 4 = 0 /\ Align(n) <= n + 3
    BY <2>1, AlignFacts
  <2>3. QED
    BY ONLY <1>3, <2>2, n \in 0..(WordSize - 1) DEF ALIGNMENT
<1>5. /\ WellFormed(g) /\ a \in DOMAIN g
      /\ g[a].size <= blk[a].size
      /\ \A x \in DOMAIN blk \ {a} : g[x] = blk[x]
  BY <1>1, <1>3, <1>4, SplitKeepsShape
<1> HIDE DEF g
<1>6. g[a].size \in Nat
  BY <1>5 DEF WellFormed, IsHeaderMap, Header
<1>7. \A q \in DOMAIN live \ {p} : g[q - HDR] = blk[q - HDR]
  BY <1>1, <1>5 DEF a
<1>8. Heap!Shrink(p, g[a].size)
  <2>1. /\ p \in Nat /\ p + g[a].size <= PoolSize
        /\ \A q \in DOMAIN live \ {p} :
             q # p /\ (q + blk[q - HDR].size <= p \/ p + g[a].size <= q)
    BY <1>1, <1>3, <1>5, <1>6, PoolAssumption DEF a
  <2>2. (DOMAIN live \ {p}) \cup {p} = DOMAIN live /\ g[p - HDR] = g[a]
    BY DEF a
  <2>3. [q \in DOMAIN live' |-> blk'[q - HDR].size]
          = [x \in (DOMAIN live \ {p}) \cup {p} |->
               IF x = p THEN g[a].size
               ELSE [q \in DOMAIN live |-> blk[q - HDR].size][x]]
    BY <1>2, <1>7, <2>2
  <2>4. Heap!Apart(p, g[a].size, DOMAIN live \ {p})
    BY <1>6, <2>1 DEF Heap!Apart
  <2>5. QED
    BY <1>5, <2>3, <2>4 DEF Heap!Shrink, Heap!Place, a
<1>9. QED
  BY <1>2, <1>8 DEF Heap!Next, a

(* realloc that moves the bytes is Move: the block it copies to shares no  *)
(* byte with the one it copies from.                                       *)
LEMMA MoveStep ==
  ASSUME HeapInv, NEW p \in DOMAIN live, NEW n \in 0..(WordSize - 1),
         NEW a \in DOMAIN blk, FirstFit(a, Align(n)),
         blk' = Mark(TakeBlock(a, Align(n)), p - HDR, 1),
         live' = Own(Disown(live, p), a + HDR, n)
  PROVE  Heap!Next
<1> DEFINE q == a + HDR
           b == p - HDR
           h == TakeBlock(a, Align(n))
           g == Mark(h, b, 1)
<1>1. /\ WellFormed(blk)
      /\ \A r \in DOMAIN live : r \in Nat /\ r - HDR \in DOMAIN blk
      /\ b \in DOMAIN blk
  BY PointerFacts
<1>2. /\ blk[a].free = 1 /\ WellFormed(h) /\ DOMAIN blk \subseteq DOMAIN h
      /\ \A x \in DOMAIN blk \ {a} : h[x] = blk[x]
  BY <1>1, TakeFacts
<1>3. a \in Nat /\ q \in Nat /\ q - HDR = a
  BY <1>1, BlockFacts
<1>4. \A r \in DOMAIN live : r # q /\ r - HDR # a
  BY <1>2, <1>3 DEF HeapInv, Ownership
<1>5. blk' = g /\ g = Mark(h, b, 1)
  OBVIOUS
<1>6. DOMAIN live' = (DOMAIN live \ {p}) \cup {q}
  BY DEF Own, Disown
<1> HIDE DEF h, g
<1>7. /\ WellFormed(g) /\ DOMAIN g = DOMAIN h /\ g[b].size = h[b].size
      /\ \A x \in DOMAIN h \ {b} : g[x] = h[x]
  <2>1. WellFormed(h) /\ b \in DOMAIN h /\ 1 \in {0, 1} /\ g = Mark(h, b, 1)
    BY <1>1, <1>2, <1>5
  <2> HIDE DEF b
  <2>2. QED
    BY ONLY <2>1, MarkKeepsShape
<1>8. \A r \in DOMAIN live : /\ g[r - HDR].size = blk[r - HDR].size
                              /\ r - HDR \in DOMAIN g
  BY <1>1, <1>2, <1>4, <1>7
<1>9. q - HDR \in DOMAIN g
  BY <1>2, <1>3, <1>7
<1> DEFINE m == g[q - HDR].size
<1>10. m \in Nat /\ q + m <= PoolSize
  BY <1>3, <1>7, <1>9, PointersApart
<1>11. ASSUME NEW r \in DOMAIN live
       PROVE  r # q /\ (r + blk[r - HDR].size <= q \/ q + m <= r)
  <2>1. r \in Nat /\ r # q /\ r - HDR \in DOMAIN g /\ g[r - HDR].size = blk[r - HDR].size
    BY <1>1, <1>4, <1>8
  <2>2. r + g[r - HDR].size <= q \/ q + m <= r
    BY <1>3, <1>7, <1>9, <2>1, PointersApart
  <2>3. QED
    BY <2>1, <2>2
<1> HIDE DEF q, b
<1>12. [x \in DOMAIN live' |-> blk'[x - HDR].size]
         = [x \in (DOMAIN live \ {p}) \cup {q} |->
              IF x = q THEN m ELSE [y \in DOMAIN live |-> blk[y - HDR].size][x]]
  BY <1>5, <1>6, <1>8
<1>13. \A S \in SUBSET DOMAIN live : Heap!Apart(q, m, S)
  BY <1>3, <1>10, <1>11 DEF Heap!Apart
<1>14. Heap!Move(p, q, m)
  BY <1>12, <1>13 DEF Heap!Move, Heap!Place
<1>15. QED
  BY <1>5, <1>6, <1>14 DEF Heap!Next

(* merge_free_blocks does not touch what the callers hold.                 *)
LEMMA MergeKeepsHoldings ==
  ASSUME HeapInv, MergeStep
  PROVE  UNCHANGED [p \in DOMAIN live |-> blk[p - HDR].size]
<1> DEFINE nxt == blk[walk].next
<1>1. WellFormed(blk) /\ walk \in DOMAIN blk /\ UNCHANGED live
  BY HeapInvShape DEF HeapInv, TypeOK, MergeStep, Idle
<1>2. \A p \in DOMAIN live : p - HDR \in DOMAIN blk /\ blk[p - HDR].free = 0
  BY DEF HeapInv, Ownership
<1>3. CASE UNCHANGED blk
  BY <1>1, <1>3
<1>4. CASE blk[walk].free = 1 /\ blk[nxt].free = 1 /\ blk' = Absorb(walk)
  <2>1. \A x \in DOMAIN blk \ {walk, nxt} : blk'[x] = blk[x]
    BY <1>4 DEF Absorb
  <2>2. \A p \in DOMAIN live : blk'[p - HDR] = blk[p - HDR]
    BY <1>2, <1>4, <2>1
  <2>3. QED
    BY <1>1, <2>2
<1>5. QED
  BY <1>3, <1>4 DEF MergeStep, MergeStop, MergeAbsorb, MergeAdvance, BothFree

(* Every step of the block list is a step of the contract or a stutter.    *)
LEMMA NextImplementsContract ==
  ASSUME HeapInv, [Next]_vars
  PROVE  [Heap!Next]_([p \in DOMAIN live |-> blk[p - HDR].size])
<1> DEFINE held == [p \in DOMAIN live |-> blk[p - HDR].size]
<1>1. Requests \subseteq 0..(WordSize - 1) /\ WordSize \in Nat /\ WordSize > 0
  BY PoolAssumption
<1>2. ASSUME UNCHANGED vars PROVE UNCHANGED held
  BY <1>2 DEF vars
<1>3. ASSUME Idle, NEW n \in 0..(WordSize - 1), NEW req, Allocate(n, req)
      PROVE  Heap!Next \/ UNCHANGED held
  BY <1>2, <1>3, AcquireStep DEF Allocate
<1>4. ASSUME NEW n \in Requests, Malloc(n) PROVE Heap!Next \/ UNCHANGED held
  BY <1>1, <1>3, <1>4 DEF Malloc
<1>5. ASSUME NEW m \in Requests, NEW n \in Requests, Calloc(m, n)
      PROVE  Heap!Next \/ UNCHANGED held
  <2> DEFINE k == m * n
  <2>1. k \in Nat /\ k % WordSize \in 0..(WordSize - 1)
    BY <1>1
  <2>2. Idle /\ Allocate(k % WordSize, k)
    BY <1>5 DEF Calloc
  <2> HIDE DEF k
  <2>3. QED
    BY <1>3, <2>1, <2>2
<1>6. ASSUME NEW p \in DOMAIN live, NEW n \in Requests, Realloc(p, n)
      PROVE  Heap!Next \/ UNCHANGED held
  <2>1. CASE Free(p)
    BY <2>1, ReleaseStep
  <2>2. CASE ReallocInPlace(p, n)
    BY <1>1, <2>2, ShrinkStep
  <2>3. CASE ReallocMove(p, n)
    BY <1>1, <1>2, <2>3, MoveStep DEF ReallocMove
  <2>4. QED
    BY <1>6, <2>1, <2>2, <2>3 DEF Realloc
<1>7. ASSUME NEW p \in DOMAIN live, Free(p) PROVE Heap!Next
  BY <1>7, ReleaseStep
<1>8. CASE MergeStep
  BY <1>8, MergeKeepsHoldings
<1>9. QED
  BY <1>2, <1>4, <1>5, <1>6, <1>7, <1>8 DEF Next, FreeIgnored

(* The heap implements its contract, for every pool, word size and set of  *)
(* requests: malloc, calloc and realloc hand out bytes of the pool that    *)
(* no other pointer owns, and realloc copies to bytes apart from the old.  *)
THEOREM HeapImplementsContract == Spec => HeapContractHolds
<1>1. Init => Heap!Init
  BY DEF Init, Heap!Init
<1>2. HeapInv /\ [Next]_vars
        => [Heap!Next]_([p \in DOMAIN live |-> blk[p - HDR].size])
  BY NextImplementsContract
<1>3. QED
  BY <1>1, <1>2, HeapSafe, PTL DEF Spec, HeapContractHolds, Heap!Spec
===============================================================================
