--------------------------- MODULE FatStorageProofs ---------------------------
(***************************************************************************)
(* The files of platform/x86/hal_storage.c, for every size of the disk and *)
(* of its directory, every set of names and every sequence of failures.    *)
(***************************************************************************)
EXTENDS FatStorage, WellFoundedInduction, TLAPS

LEMMA Numbers ==
  /\ RootSectors \in Nat /\ RootSectors >= 1 /\ PerSector \in Nat /\ PerSector >= 1
  /\ DataSectors \in Nat /\ KernelLen \in Nat /\ KernelLen >= 1
  /\ MaxLen \in Nat /\ MaxLen >= 1 /\ KernelLen <= DataSectors /\ MaxLen <= DataSectors
  /\ CloneCap \in Nat /\ CloneCap >= 1 /\ DataSectors + 1 < 4088
BY FatAssumption DEF FAT_END

(* Two sequences with the same length and the same elements are equal.     *)
LEMMA SameSequence ==
  ASSUME NEW S, NEW a \in Seq(S), NEW b \in Seq(S), Len(a) = Len(b),
         \A i \in 1..Len(a) : a[i] = b[i]
  PROVE  a = b
<1>1. DOMAIN a = 1..Len(a) /\ DOMAIN b = 1..Len(b)
  OBVIOUS
<1>2. a = [i \in 1..Len(a) |-> a[i]] /\ b = [i \in 1..Len(a) |-> b[i]]
  BY <1>1
<1>3. QED
  BY <1>2

(* A remainder is the only one that a quotient leaves.                     *)
LEMMA ModUnique ==
  ASSUME NEW n \in Int, NEW m \in Nat, m > 0, NEW q \in Int, NEW r \in 0..m - 1, n = q * m + r
  PROVE  n % m = r
<1> DEFINE p == n \div m
           s == n % m
<1>1. p \in Int /\ s \in 0..m - 1 /\ n = m * p + s
  OBVIOUS
<1> HIDE DEF p, s
<1>2. (q - p) * m = s - r
  BY <1>1
<1>3. s - r < m /\ s - r > -m
  BY <1>1
<1>4. ASSUME NEW d \in Int, d * m < m, d * m > -m PROVE d = 0
  <2>1. CASE d >= 1
    <3>1. d * m >= m
      BY <2>1
    <3>2. QED
      BY <3>1, <1>4
  <2>2. CASE d <= -1
    <3>1. d * m <= -m
      BY <2>2
    <3>2. QED
      BY <3>1, <1>4
  <2>3. QED
    BY <2>1, <2>2
<1>5. q - p = 0
  BY <1>1, <1>2, <1>3, <1>4
<1>6. s = r
  BY <1>1, <1>5
<1>7. QED
  BY <1>6 DEF s

(* The least of a set of naturals, and with it what Min chooses.           *)
Before == {p \in Nat \X Nat : p[1] < p[2]}

LEMMA NatOrder == IsWellFoundedOn(Before, Nat)
BY NatLessThanWellFounded DEF OpToRel, Before

LEMMA MinIsLeast ==
  ASSUME NEW T \in SUBSET Nat, T # {}
  PROVE  Min(T) \in T /\ \A y \in T : Min(T) <= y
<1>1. PICK x \in T : \A y \in T : ~(<<y, x>> \in Before)
  BY NatOrder, WFMin
<1>2. ASSUME NEW y \in T PROVE x <= y
  <2>1. <<y, x>> \in Nat \X Nat /\ x \in Nat /\ y \in Nat
    OBVIOUS
  <2>2. ~(y < x)
    BY <1>1, <2>1 DEF Before
  <2>3. QED
    BY <2>1, <2>2
<1>3. QED
  BY <1>2 DEF Min
-------------------------------------------------------------------------------
(* The clusters of KERNEL.BIN, then the end: what plat_fs_read visits.     *)
KernelChain == [i \in 0..MaxLen |-> IF i < KernelLen THEN i + 2 ELSE FAT_END]

ChainStep(f, i) == IF i = 0 THEN 2
                   ELSE IF f[i - 1] >= FAT_END THEN FAT_END
                   ELSE FatNextCluster(f[i - 1])

LEMMA ChainIsKernelChain == Chain(2) = KernelChain
<1>1. KernelChain = [i \in 0..MaxLen |-> ChainStep(KernelChain, i)]
  <2>1. ASSUME NEW i \in 0..MaxLen PROVE KernelChain[i] = ChainStep(KernelChain, i)
    BY Numbers DEF KernelChain, ChainStep, FatNextCluster, FAT_END
  <2>2. QED
    BY <2>1 DEF KernelChain
<1>2. Chain(2) = CHOOSE f : f = [i \in 0..MaxLen |-> ChainStep(f, i)]
  BY DEF Chain, ChainStep
<1>3. Chain(2) = [i \in 0..MaxLen |-> ChainStep(Chain(2), i)]
  BY <1>1, <1>2
<1> DEFINE f == Chain(2)
           T == {i \in 0..MaxLen : f[i] # KernelChain[i]}
<1>4. T = {}
  <2>1. SUFFICES ASSUME T # {} PROVE FALSE
    OBVIOUS
  <2>2. T \in SUBSET Nat
    BY Numbers
  <2>3. PICK i \in T : \A j \in T : i <= j
    BY <2>1, <2>2, MinIsLeast
  <2>4. i \in 0..MaxLen /\ f[i] = ChainStep(f, i) /\ KernelChain[i] = ChainStep(KernelChain, i)
    BY <1>1, <1>3
  <2>5. i # 0
    BY <2>3, <2>4 DEF ChainStep
  <2>6. i - 1 \in 0..MaxLen /\ i - 1 \notin T
    BY <2>2, <2>3, <2>4, <2>5, Numbers
  <2>7. f[i - 1] = KernelChain[i - 1]
    BY <2>6
  <2>8. QED
    BY <2>3, <2>4, <2>7 DEF ChainStep
<1>5. QED
  BY <1>3, <1>4 DEF KernelChain

AllBlocks == Blocks \cup {"kernel", "blank"}

(* Directories the code can hold: only KERNEL.BIN may be longer than the   *)
(* longest buffer.                                                         *)
Dirs == {r \in [RootSlots -> Entries] :
           \A i \in RootSlots : r[i].key # "KERNEL" => r[i].size <= MaxLen}

LEMMA SlotsAreNats == RootSlots \in SUBSET Nat
BY Numbers DEF RootSlots

LEMMA DirTyped ==
  ASSUME NEW r \in Dirs, NEW i \in RootSlots
  PROVE  /\ r[i] \in Entries /\ r[i].cluster = 2 /\ r[i].size \in Nat
         /\ r[i].key # "KERNEL" => r[i].size <= MaxLen
BY Numbers DEF Dirs, Entries

LEMMA KeysOfFiles ==
  ASSUME NEW n \in Names
  PROVE  /\ FatNormalize(n) \in {m[1] : m \in Names} \cup {Free, "KERNEL"}
         /\ FatNormalize(n) # Free /\ FatNormalize(n) # "KERNEL"
BY FatAssumption DEF FatNormalize

(* What plat_fs_read makes of the first entry x of a name, the chain of    *)
(* KERNEL.BIN in its place: got sectors of those it wants.                 *)
Want(r, x, cap) == IF r[x].size <= cap THEN r[x].size ELSE cap

ReadsAs(r, d, n, cap, x, got) ==
  /\ Want(r, x, cap) \in Nat /\ Want(r, x, cap) <= MaxLen
  /\ got <= Want(r, x, cap)
  /\ got = Want(r, x, cap) \/ got >= KernelLen
  /\ \A i \in Nat : i < got => i < KernelLen
  /\ FileContent(r, d, n, cap) = [i \in 1..got |-> d[KernelChain[i - 1]]]

LEMMA ReadOf ==
  ASSUME NEW r \in Dirs, NEW d, NEW n \in Names, NEW cap \in Nat,
         NEW x \in RootSlots, r[x].key = FatNormalize(n),
         \A i \in RootSlots : r[i].key = FatNormalize(n) => x <= i
  PROVE  \E got \in Nat : ReadsAs(r, d, n, cap, x, got)
<1> DEFINE hits == FatFindEntry(r, FatNormalize(n))
           want == Min({r[x].size, cap})
           ends == {i \in 0..want : i = want \/ KernelChain[i] >= FAT_END}
           got == Min(ends)
<1>1. hits # {} /\ Min(hits) = x
  <2>1. hits \in SUBSET Nat /\ x \in hits /\ \A i \in hits : x <= i
    BY SlotsAreNats DEF FatFindEntry
  <2>2. Min(hits) \in hits /\ Min(hits) <= x
    BY <2>1, MinIsLeast
  <2>3. Min(hits) \in Nat /\ x \in Nat /\ x <= Min(hits)
    BY <2>1, <2>2
  <2>4. QED
    BY <2>1, <2>2, <2>3
<1>2. r[x].size \in Nat /\ r[x].size <= MaxLen /\ r[x].cluster = 2
  BY DirTyped, KeysOfFiles
<1>3. want \in Nat /\ want <= MaxLen /\ want = IF r[x].size <= cap THEN r[x].size ELSE cap
  <2>1. {r[x].size, cap} \in SUBSET Nat /\ {r[x].size, cap} # {}
    BY <1>2
  <2>2. want \in {r[x].size, cap} /\ want <= r[x].size /\ want <= cap
    BY <2>1, MinIsLeast
  <2>3. QED
    BY <1>2, <2>2, Numbers
<1> HIDE DEF want
<1>4. ends \in SUBSET Nat /\ want \in ends
  BY <1>3
<1>5. got \in ends /\ \A i \in ends : got <= i
  <2> HIDE DEF ends
  <2>1. QED
    BY <1>4, MinIsLeast
<1>6. got \in Nat /\ got <= want /\ (got = want \/ KernelChain[got] >= FAT_END)
  BY <1>3, <1>4, <1>5
<1> HIDE DEF got
<1>7. got = want \/ got >= KernelLen
  BY <1>3, <1>6, Numbers DEF KernelChain, FAT_END
<1>8. ASSUME NEW i \in Nat, i < got PROVE i < KernelLen
  <2>1. i \notin ends /\ i \in 0..want /\ i \in 0..MaxLen /\ got \in Nat
    BY <1>3, <1>5, <1>6, <1>8, Numbers
  <2>2. ~(KernelChain[i] >= FAT_END)
    BY <2>1
  <2>3. QED
    BY <2>1, <2>2, Numbers DEF KernelChain, FAT_END
<1>9. FileContent(r, d, n, cap) = [i \in 1..got |-> d[KernelChain[i - 1]]]
  BY <1>1, <1>2, ChainIsKernelChain DEF FileContent, want, got
<1>10. ReadsAs(r, d, n, cap, x, got)
  BY <1>3, <1>6, <1>7, <1>8, <1>9 DEF ReadsAs, Want
<1>11. QED
  BY <1>6, <1>10

(* A read yields blocks, and no more of them than the longest file has.    *)
LEMMA ReadTyped ==
  ASSUME NEW r \in Dirs, NEW d \in [Clusters -> AllBlocks], NEW n \in Names, NEW cap \in Nat,
         FileContent(r, d, n, cap) # NotRead
  PROVE  FileContent(r, d, n, cap) \in Seq(AllBlocks) /\ Len(FileContent(r, d, n, cap)) <= MaxLen
<1> DEFINE hits == FatFindEntry(r, FatNormalize(n))
<1>1. hits \in SUBSET Nat /\ hits # {}
  BY SlotsAreNats DEF FatFindEntry, FileContent
<1>2. PICK x \in hits : \A i \in hits : x <= i
  BY <1>1, MinIsLeast
<1>3. /\ x \in RootSlots /\ r[x].key = FatNormalize(n)
      /\ \A i \in RootSlots : r[i].key = FatNormalize(n) => x <= i
  BY <1>2 DEF FatFindEntry
<1>4. PICK got \in Nat : ReadsAs(r, d, n, cap, x, got)
  BY <1>3, ReadOf
<1>5. /\ got <= MaxLen /\ \A i \in Nat : i < got => i < KernelLen
      /\ FileContent(r, d, n, cap) = [i \in 1..got |-> d[KernelChain[i - 1]]]
  BY <1>4, Numbers DEF ReadsAs
<1>6. ASSUME NEW i \in 1..got PROVE d[KernelChain[i - 1]] \in AllBlocks
  <2>1. i - 1 \in Nat /\ i - 1 < got /\ i - 1 \in 0..MaxLen
    BY <1>4, <1>5, Numbers
  <2>2. i - 1 < KernelLen
    BY <1>5, <2>1
  <2>3. KernelChain[i - 1] = i + 1
    BY <2>1, <2>2, Numbers DEF KernelChain
  <2>4. i + 1 \in Clusters
    BY <2>1, <2>2, Numbers DEF Clusters
  <2>5. QED
    BY <2>3, <2>4
<1>7. QED
  BY <1>4, <1>5, <1>6

(* A read of a name in the directory is not taken for a file not found.    *)
LEMMA ReadsSomething ==
  ASSUME NEW r \in Dirs, NEW d \in [Clusters -> AllBlocks], NEW n \in Names, NEW cap \in Nat,
         NEW y \in RootSlots, r[y].key = FatNormalize(n)
  PROVE  FileContent(r, d, n, cap) # NotRead
<1> DEFINE hits == FatFindEntry(r, FatNormalize(n))
<1>1. hits \in SUBSET Nat /\ hits # {}
  BY SlotsAreNats DEF FatFindEntry
<1>2. PICK x \in hits : \A i \in hits : x <= i
  BY <1>1, MinIsLeast
<1>3. /\ x \in RootSlots /\ r[x].key = FatNormalize(n)
      /\ \A i \in RootSlots : r[i].key = FatNormalize(n) => x <= i
  BY <1>2 DEF FatFindEntry
<1>4. PICK got \in Nat : ReadsAs(r, d, n, cap, x, got)
  BY <1>3, ReadOf
<1>5. /\ FileContent(r, d, n, cap) = [i \in 1..got |-> d[KernelChain[i - 1]]]
      /\ \A i \in Nat : i < got => i < KernelLen
  BY <1>4 DEF ReadsAs
<1>6. SUFFICES ASSUME [i \in 1..got |-> d[KernelChain[i - 1]]] = <<"not read">> PROVE FALSE
  BY <1>5 DEF NotRead
<1> DEFINE F == [i \in 1..got |-> d[KernelChain[i - 1]]]
           G == <<"not read">>
<1>7. 1 \in 1..got
  <2>1. DOMAIN F = 1..got
    OBVIOUS
  <2>2. DOMAIN G = 1..1
    OBVIOUS
  <2>3. F = G
    BY <1>6
  <2> HIDE DEF F, G
  <2>4. QED
    BY <2>1, <2>2, <2>3
<1>8. KernelChain[0] = 2
  BY Numbers DEF KernelChain
<1>9. 2 \in Clusters
  BY Numbers DEF Clusters
<1>10. d[2] = "not read"
  <2>1. F[1] = d[2]
    BY <1>7, <1>8
  <2>2. G[1] = "not read"
    OBVIOUS
  <2>3. F = G
    BY <1>6
  <2> HIDE DEF F, G
  <2>4. QED
    BY <2>1, <2>2, <2>3
<1>11. d[2] \in AllBlocks
  BY <1>9
<1>12. QED
  BY <1>10, <1>11, BlocksAssumption DEF AllBlocks

(* A file no longer than KERNEL.BIN reads back once its entry is the first *)
(* of its name and its sectors lie from cluster 2 on.                      *)
LEMMA StoredReadsBack ==
  ASSUME NEW r \in Dirs, NEW d, NEW n \in Names, NEW content \in Seq(AllBlocks),
         Len(content) <= KernelLen, Len(content) <= MaxLen,
         NEW x \in RootSlots, r[x].key = FatNormalize(n), r[x].size = Len(content),
         \A i \in RootSlots : r[i].key = FatNormalize(n) => x <= i,
         \A j \in 1..Len(content) : d[j + 1] = content[j]
  PROVE  FileContent(r, d, n, MaxLen) = content
<1>1. MaxLen \in Nat /\ KernelLen \in Nat /\ Len(content) \in Nat
  BY Numbers
<1>2. PICK got \in Nat : ReadsAs(r, d, n, MaxLen, x, got)
  BY <1>1, ReadOf
<1>3. /\ got = Len(content)
      /\ FileContent(r, d, n, MaxLen) = [i \in 1..got |-> d[KernelChain[i - 1]]]
  BY <1>1, <1>2 DEF ReadsAs, Want
<1>4. ASSUME NEW i \in 1..got PROVE d[KernelChain[i - 1]] = content[i]
  <2>1. i - 1 \in 0..MaxLen /\ i - 1 < KernelLen /\ i \in 1..Len(content)
    BY <1>1, <1>3
  <2>2. KernelChain[i - 1] = i + 1
    BY <1>1, <2>1 DEF KernelChain
  <2>3. QED
    BY <2>1, <2>2
<1>5. content = [i \in 1..got |-> content[i]]
  BY <1>3
<1>6. QED
  BY <1>3, <1>4, <1>5
-------------------------------------------------------------------------------
(* Every entry lies in one of the directory's sectors.                     *)
LEMMA SectorOf ==
  ASSUME NEW i \in RootSlots
  PROVE  i \div PerSector \in 0..(RootSectors - 1)
<1> DEFINE q == i \div PerSector
<1>1. i \in Nat /\ i < RootSectors * PerSector /\ RootSectors * PerSector \in Nat
  BY Numbers DEF RootSlots
<1>2. q \in Int /\ i = PerSector * q + (i % PerSector) /\ i % PerSector \in 0..(PerSector - 1)
  BY <1>1, Numbers
<1> HIDE DEF q
<1>3. q >= 0
  <2>1. SUFFICES ASSUME q <= -1 PROVE FALSE
    BY <1>2
  <2>2. PerSector * q <= -PerSector
    BY <1>2, <2>1, Numbers
  <2>3. QED
    BY <1>1, <1>2, <2>2, Numbers
<1>4. q < RootSectors
  <2>1. SUFFICES ASSUME q >= RootSectors PROVE FALSE
    BY <1>2, Numbers
  <2>2. PerSector * q >= RootSectors * PerSector
    BY <1>2, <2>1, Numbers
  <2>3. QED
    BY <1>1, <1>2, <2>2, Numbers
<1>5. QED
  BY <1>2, <1>3, <1>4, Numbers DEF q

LEMMA CopyTyped ==
  ASSUME NEW to \in Dirs, NEW from \in Dirs, NEW n \in Nat
  PROVE  CopySectors(to, from, n) \in Dirs
BY DEF CopySectors, Dirs

LEMMA CopyAll ==
  ASSUME NEW to \in Dirs, NEW from \in Dirs
  PROVE  CopySectors(to, from, RootSectors) = from
<1>1. \A i \in RootSlots : i \div PerSector < RootSectors
  BY SectorOf, Numbers
<1>2. QED
  BY <1>1 DEF CopySectors, Dirs
-------------------------------------------------------------------------------
(* What was written last is on the disk, and nothing that failed since     *)
(* stands between it and the cache.                                        *)
LatestKept ==
  /\ latest # {} => failed # "pending"
  /\ \A f \in latest : Len(f.content) <= KernelLen =>
       FileContent(dir, data, f.name, MaxLen) = f.content
  /\ \A f \in latest : f.name \in Names /\ FatFindEntry(dir, FatNormalize(f.name)) # {}

FatInv ==
  /\ TypeOK /\ dir \in Dirs /\ root \in Dirs
  /\ CacheOnDisk /\ NamesUnique /\ LatestKept

LEMMA LoadedTyped == ASSUME FatInv PROVE Loaded \in Dirs
BY DEF FatInv, Loaded

LEMMA LoadedIsDir == ASSUME FatInv, failed # "pending" PROVE Loaded = dir
BY DEF FatInv, Loaded, CacheOnDisk

LEMMA EmptyDir == NoEntry \in Entries /\ [i \in RootSlots |-> NoEntry] \in Dirs
<1>1. NoEntry \in Entries /\ NoEntry.size = 0
  BY Numbers DEF NoEntry, Entry, Entries
<1>2. QED
  BY <1>1, Numbers DEF Dirs

LEMMA FatStarts == Init => FatInv
<1> SUFFICES ASSUME Init PROVE FatInv
  OBVIOUS
<1>1. Kernel \in Entries /\ Kernel.key = "KERNEL" /\ NoEntry.size = 0 /\ NoEntry.key = Free
  BY Numbers DEF Kernel, NoEntry, Entry, Entries
<1>2. dir \in Dirs /\ root \in Dirs
  BY <1>1, EmptyDir, Numbers DEF Init, Dirs
<1>3. data \in [Clusters -> AllBlocks]
  BY DEF Init, AllBlocks
<1>4. NamesUnique
  BY <1>1 DEF Init, NamesUnique
<1>5. QED
  BY <1>2, <1>3, <1>4 DEF Init, FatInv, TypeOK, Dirs, AllBlocks, CacheOnDisk, LatestKept

(* Steps that write nothing to the disk.                                   *)
LEMMA QuietKeepsFat ==
  ASSUME FatInv, UNCHANGED <<data, dir, latest>>, root' \in Dirs, fs_ready' \in BOOLEAN,
         failed' \in {failed, Settled}, CacheOnDisk'
  PROVE  FatInv'
<1>1. /\ failed' \in {"never", "pending", "past"}
      /\ failed' = "never" => failed = "never"
      /\ failed # "pending" => failed' # "pending"
  BY DEF FatInv, TypeOK, Settled
<1>2. TypeOK'
  BY <1>1 DEF FatInv, TypeOK, Dirs
<1>3. NamesUnique'
  BY <1>1 DEF FatInv, NamesUnique
<1>4. LatestKept'
  BY <1>1 DEF FatInv, LatestKept
<1>5. QED
  BY <1>2, <1>3, <1>4 DEF FatInv

LEMMA LoadFailedKeepsFat == ASSUME FatInv, LoadFailed PROVE FatInv'
<1>1. root' \in Dirs
  <2>1. PICK n \in 0..(RootSectors - 1) : root' = CopySectors(root, dir, n)
    BY DEF LoadFailed
  <2>2. n \in Nat /\ root \in Dirs /\ dir \in Dirs
    BY Numbers DEF FatInv
  <2>3. QED
    BY <2>1, <2>2, CopyTyped
<1>2. QED
  BY <1>1, QuietKeepsFat DEF LoadFailed, FatInv, TypeOK, CacheOnDisk

LEMMA LookKeepsFat == ASSUME FatInv, Look PROVE FatInv'
<1>1. root' \in Dirs /\ failed' \in {failed, Settled}
  BY LoadedTyped DEF Look
<1>2. CacheOnDisk'
  BY DEF FatInv, Look, Loaded, CacheOnDisk
<1>3. QED
  BY <1>1, <1>2, QuietKeepsFat DEF Look

LEMMA InitKeepsFat == ASSUME FatInv, PlatFsInit PROVE FatInv'
<1>1. PICK n \in 0..RootSectors :
        /\ root' = CopySectors(root, dir, n) /\ fs_ready' = (n = RootSectors)
        /\ failed' = IF n = RootSectors THEN Settled ELSE failed
  BY DEF PlatFsInit
<1>2. n \in Nat /\ root \in Dirs /\ dir \in Dirs /\ UNCHANGED <<data, dir, latest>>
  BY Numbers DEF FatInv, PlatFsInit
<1>3. root' \in Dirs
  BY <1>1, <1>2, CopyTyped
<1>4. CacheOnDisk'
  BY <1>1, <1>2, CopyAll DEF CacheOnDisk
<1>5. QED
  BY <1>1, <1>2, <1>3, <1>4, QuietKeepsFat

LEMMA PowerCycleKeepsFat == ASSUME FatInv, PowerCycle PROVE FatInv'
BY EmptyDir, QuietKeepsFat DEF PowerCycle, CacheOnDisk

(* The end of an operation that writes: the directory on disk is the new   *)
(* one unless the operation fails.                                         *)
LEMMA FinishFacts ==
  ASSUME FatInv, NEW new \in Dirs, NEW reached \in BOOLEAN, Finish(new, reached)
  PROVE  /\ root' = new /\ fs_ready' = TRUE /\ dir' \in Dirs
         /\ failed' \in {"never", "pending", "past"}
         /\ failed' # "pending" => reached /\ dir' = new
         /\ failed' = "never" => failed = "never"
<1>1. PICK n \in 0..(IF reached THEN RootSectors ELSE 0) :
        /\ dir' = CopySectors(dir, new, n)
        /\ failed' = IF n = RootSectors THEN Settled ELSE "pending"
  BY DEF Finish, FatFlushRoot
<1>2. n \in Nat /\ dir \in Dirs /\ (~reached => n # RootSectors)
  BY Numbers DEF FatInv
<1>3. dir' \in Dirs
  BY <1>1, <1>2, CopyTyped
<1>4. n = RootSectors => dir' = new
  BY <1>1, <1>2, CopyAll
<1>5. Settled \in {"never", "past"} /\ (Settled = "never" => failed = "never")
  BY DEF Settled, FatInv, TypeOK
<1>6. QED
  BY <1>1, <1>2, <1>3, <1>4, <1>5 DEF Finish

LEMMA WriteKeepsFat ==
  ASSUME FatInv, NEW new \in Dirs, NEW reached \in BOOLEAN, Finish(new, reached),
         data' \in [Clusters -> AllBlocks],
         failed' = "never" =>
           \A i, j \in RootSlots : i # j /\ new[i].key = new[j].key => new[i].key = Free,
         LatestKept'
  PROVE  FatInv'
<1>1. /\ root' = new /\ fs_ready' = TRUE /\ dir' \in Dirs
      /\ failed' \in {"never", "pending", "past"}
      /\ failed' # "pending" => reached /\ dir' = new
  BY FinishFacts
<1>2. TypeOK'
  BY <1>1 DEF TypeOK, Dirs, AllBlocks
<1>3. CacheOnDisk'
  BY <1>1 DEF CacheOnDisk
<1>4. NamesUnique'
  BY <1>1 DEF NamesUnique
<1>5. QED
  BY <1>1, <1>2, <1>3, <1>4 DEF FatInv

(* plat_fs_write past the tables.                                          *)
LEMMA StoreKeepsFat ==
  ASSUME FatInv, NEW n \in Names, NEW content \in Seq(AllBlocks), Len(content) <= MaxLen,
         Store(n, content)
  PROVE  FatInv'
<1> DEFINE key == FatNormalize(n)
           hits == FatFindEntry(Loaded, key)
           candidates == IF hits # {} THEN hits ELSE FatFindFreeEntry(Loaded)
           x == Min(candidates)
           entry == Entry(key, Len(content))
           new == [Loaded EXCEPT ![x] = entry]
<1>1. CASE Look
  BY <1>1, LookKeepsFat
<1>2. CASE /\ candidates # {}
           /\ \E k \in 0..Len(content) :
                /\ data' = Written(content, k)
                /\ Finish(new, k = Len(content))
           /\ latest' = IF failed' = "pending" THEN {} ELSE {[name |-> n, content |-> content]}
  <2>1. Len(content) \in Nat /\ Loaded \in Dirs /\ Loaded \in [RootSlots -> Entries]
    BY LoadedTyped DEF Dirs
  <2>2. /\ x \in RootSlots /\ x \in Nat /\ x \in candidates
        /\ \A i \in candidates : x <= i
    <3>1. candidates \in SUBSET RootSlots
      BY DEF FatFindEntry, FatFindFreeEntry
    <3> HIDE DEF candidates
    <3>2. candidates \in SUBSET Nat
      BY <3>1, SlotsAreNats
    <3>3. x \in candidates /\ \A i \in candidates : x <= i
      BY <1>2, <3>2, MinIsLeast
    <3>4. QED
      BY <3>1, <3>2, <3>3
  <2> HIDE DEF x
  <2>3. entry.key = key /\ entry.size = Len(content) /\ entry \in Entries
    BY <2>1, Numbers, KeysOfFiles DEF Entry, Entries
  <2> HIDE DEF entry
  <2>4. new \in Dirs /\ new[x] = entry /\ \A i \in RootSlots \ {x} : new[i] = Loaded[i]
    BY <2>1, <2>2, <2>3 DEF Dirs
  <2>5. \A i \in RootSlots : new[i].key = key => x <= i
    BY <2>1, <2>2, <2>4 DEF FatFindEntry
  <2>6. PICK k \in 0..Len(content) : data' = Written(content, k) /\ Finish(new, k = Len(content))
    BY <1>2
  <2>7. data' \in [Clusters -> AllBlocks]
    <3>1. data \in [Clusters -> AllBlocks]
      BY DEF FatInv, TypeOK, AllBlocks
    <3>2. ASSUME NEW c \in Clusters, c - 1 <= k PROVE content[c - 1] \in AllBlocks
      BY <2>1, <3>2, Numbers DEF Clusters
    <3>3. QED
      BY <2>6, <3>1, <3>2 DEF Written
  <2> HIDE DEF new
  <2>8. /\ failed' # "pending" => k = Len(content) /\ dir' = new
        /\ failed' = "never" => failed = "never"
    BY <2>4, <2>6, FinishFacts
  <2>9. ASSUME failed' = "never", NEW i \in RootSlots, NEW j \in RootSlots,
               i # j, new[i].key = new[j].key
        PROVE  new[i].key = Free
    <3>1. /\ Loaded = dir
          /\ \A a, b \in RootSlots : a # b /\ dir[a].key = dir[b].key => dir[a].key = Free
      BY <2>8, <2>9, LoadedIsDir DEF FatInv, NamesUnique
    <3>2. ASSUME NEW b \in RootSlots, b # x, dir[b].key = key PROVE FALSE
      <4>1. b \in hits /\ x \in hits
        BY <2>2, <3>1, <3>2 DEF FatFindEntry
      <4>2. dir[x].key = key
        BY <3>1, <4>1 DEF FatFindEntry
      <4>3. QED
        BY <2>2, <3>1, <3>2, <4>2, KeysOfFiles
    <3>3. CASE i = x
      BY <2>3, <2>4, <2>9, <3>1, <3>2, <3>3
    <3>4. CASE j = x
      BY <2>3, <2>4, <2>9, <3>1, <3>2, <3>4
    <3>5. CASE i # x /\ j # x
      BY <2>4, <2>9, <3>1, <3>5
    <3>6. QED
      BY <3>3, <3>4, <3>5
  <2>10. LatestKept'
    <3>1. CASE failed' = "pending"
      BY <1>2, <3>1 DEF LatestKept
    <3>2. CASE failed' # "pending"
      <4>1. k = Len(content) /\ dir' = new /\ latest' = {[name |-> n, content |-> content]}
        BY <1>2, <2>8, <3>2
      <4>2. ASSUME Len(content) <= KernelLen
            PROVE  FileContent(new, data', n, MaxLen) = content
        <5>1. \A j \in 1..Len(content) : data'[j + 1] = content[j]
          <6>1. ASSUME NEW j \in 1..Len(content) PROVE data'[j + 1] = content[j]
            <7>1. j + 1 \in Clusters /\ (j + 1) - 1 = j /\ j <= k
              BY <2>1, <4>1, Numbers DEF Clusters
            <7>2. QED
              BY <2>6, <7>1 DEF Written
          <6>2. QED
            BY <6>1
        <5>2. new[x].key = FatNormalize(n) /\ new[x].size = Len(content)
          BY <2>3, <2>4
        <5>3. QED
          BY <2>2, <2>4, <2>5, <4>2, <5>1, <5>2, StoredReadsBack
      <4>3. FatFindEntry(new, FatNormalize(n)) # {}
        BY <2>2, <2>3, <2>4 DEF FatFindEntry
      <4>4. QED
        BY <3>2, <4>1, <4>2, <4>3 DEF LatestKept
    <3>3. QED
      BY <3>1, <3>2
  <2>11. QED
    BY <2>4, <2>6, <2>7, <2>9, <2>10, WriteKeepsFat
<1>3. QED
  BY <1>1, <1>2 DEF Store

(* plat_fs_delete *)
LEMMA DeleteKeepsFat ==
  ASSUME FatInv, NEW n \in Names, PlatFsDelete(n)
  PROVE  FatInv'
<1> DEFINE hits == FatFindEntry(Loaded, FatNormalize(n))
           x == Min(hits)
           new == [Loaded EXCEPT ![x].key = Free]
<1>1. CASE LoadFailed
  BY <1>1, LoadFailedKeepsFat
<1>2. CASE Look
  BY <1>2, LookKeepsFat
<1>3. CASE hits # {} /\ Finish(new, TRUE) /\ latest' = {} /\ UNCHANGED data
  <2>1. Loaded \in Dirs /\ Loaded \in [RootSlots -> Entries]
    BY LoadedTyped DEF Dirs
  <2>2. x \in RootSlots /\ Loaded[x].key = FatNormalize(n)
    <3>1. hits \in SUBSET Nat
      BY SlotsAreNats DEF FatFindEntry
    <3>2. x \in hits
      BY <1>3, <3>1, MinIsLeast
    <3>3. QED
      BY <3>2 DEF FatFindEntry
  <2> HIDE DEF x
  <2>3. Loaded[x].size <= MaxLen /\ Loaded[x].size \in Nat /\ Loaded[x] \in Entries
    BY <2>1, <2>2, DirTyped, KeysOfFiles
  <2>4. /\ new \in [RootSlots -> Entries]
        /\ new[x].key = Free /\ new[x].size = Loaded[x].size
        /\ \A i \in RootSlots \ {x} : new[i] = Loaded[i]
    BY <2>1, <2>2, <2>3 DEF Entries
  <2> HIDE DEF new
  <2>5. new \in Dirs
    BY <2>1, <2>3, <2>4 DEF Dirs
  <2>6. ASSUME failed' = "never", NEW i \in RootSlots, NEW j \in RootSlots,
               i # j, new[i].key = new[j].key
        PROVE  new[i].key = Free
    <3>1. failed = "never"
      BY <1>3, <2>5, <2>6, FinishFacts
    <3>2. /\ Loaded = dir
          /\ \A a, b \in RootSlots : a # b /\ dir[a].key = dir[b].key => dir[a].key = Free
      BY <3>1, LoadedIsDir DEF FatInv, NamesUnique
    <3>3. QED
      BY <2>4, <2>6, <3>2
  <2>7. data' \in [Clusters -> AllBlocks] /\ LatestKept'
    BY <1>3 DEF FatInv, TypeOK, AllBlocks, LatestKept
  <2>8. QED
    BY <1>3, <2>5, <2>6, <2>7, WriteKeepsFat
<1>4. QED
  BY <1>1, <1>2, <1>3 DEF PlatFsDelete

(* storage_copy, mc_export, mc_clone and save_manager_clone.               *)
LEMMA CopyKeepsFat ==
  ASSUME FatInv, NEW dst \in Names, NEW src \in Names, NEW cap \in Nat, Copy(dst, src, cap)
  PROVE  FatInv'
<1> DEFINE content == FileContent(Loaded, data, src, cap)
<1>1. CASE LoadFailed
  BY <1>1, LoadFailedKeepsFat
<1>2. CASE Look
  BY <1>2, LookKeepsFat
<1>3. CASE content # NotRead /\ Store(dst, content)
  <2>1. content \in Seq(AllBlocks) /\ Len(content) <= MaxLen
    <3>1. data \in [Clusters -> AllBlocks] /\ Loaded \in Dirs
      BY LoadedTyped DEF FatInv, TypeOK, AllBlocks
    <3>2. QED
      BY <1>3, <3>1, ReadTyped
  <2> HIDE DEF content
  <2>2. QED
    BY <1>3, <2>1, StoreKeepsFat
<1>4. QED
  BY <1>1, <1>2, <1>3 DEF Copy

LEMMA NextKeepsFat == FatInv /\ [Next]_vars => FatInv'
<1> SUFFICES ASSUME FatInv, [Next]_vars PROVE FatInv'
  OBVIOUS
<1>1. CASE PlatFsInit
  BY <1>1, InitKeepsFat
<1>2. CASE PlatFsRead
  BY <1>2, LoadFailedKeepsFat, LookKeepsFat DEF PlatFsRead
<1>3. CASE PowerCycle
  BY <1>3, PowerCycleKeepsFat
<1>4. CASE McClone
  <2>1. Slot0 \in Names /\ Slot1 \in Names /\ CloneCap \in Nat
    BY FatAssumption, Numbers
  <2>2. QED
    BY <1>4, <2>1, CopyKeepsFat DEF McClone
<1>5. ASSUME NEW n \in Names, PlatFsDelete(n) PROVE FatInv'
  BY <1>5, DeleteKeepsFat
<1>6. ASSUME NEW n \in Names, NEW content \in Files, PlatFsWrite(n, content) PROVE FatInv'
  <2>1. content \in Seq(AllBlocks) /\ Len(content) <= MaxLen
    <3>1. PICK k \in 1..MaxLen : content \in [1..k -> Blocks]
      BY DEF Files
    <3>2. k \in Nat /\ k <= MaxLen
      BY Numbers
    <3>3. QED
      BY <3>1, <3>2 DEF AllBlocks
  <2>2. QED
    BY <1>6, <2>1, LoadFailedKeepsFat, StoreKeepsFat DEF PlatFsWrite
<1>7. ASSUME NEW n \in Names, NEW src \in Names, Copy(n, src, MaxLen) PROVE FatInv'
  BY <1>7, Numbers, CopyKeepsFat
<1>8. CASE UNCHANGED vars
  BY <1>8 DEF vars, FatInv, TypeOK, CacheOnDisk, NamesUnique, LatestKept
<1>9. QED
  BY <1>1, <1>2, <1>3, <1>4, <1>5, <1>6, <1>7, <1>8 DEF Next

(* The inductive invariant of the FAT12 files.                             *)
THEOREM FatSafe == Spec => []FatInv
BY FatStarts, NextKeepsFat, PTL DEF Spec

(* Entries keep names that fat_normalize makes, and sizes of real files.   *)
THEOREM FatTyped == Spec => []TypeOK
<1>1. FatInv => TypeOK
  BY DEF FatInv
<1>2. QED
  BY <1>1, FatSafe, PTL

(* plat_fs_write followed by anything but another write or delete, power   *)
(* failures included, reads back, up to the length of KERNEL.BIN.          *)
THEOREM WritesReadBack == Spec => []LatestReadsBack
<1>1. FatInv => LatestReadsBack
  BY LoadedIsDir DEF FatInv, LatestKept, LatestReadsBack
<1>2. QED
  BY <1>1, FatSafe, PTL

(* root_cache differs from the disk only after a transfer has failed.      *)
THEOREM CacheMatchesDisk == Spec => []CacheOnDisk
<1>1. FatInv => CacheOnDisk
  BY DEF FatInv
<1>2. QED
  BY <1>1, FatSafe, PTL

(* fat_find_entry has one entry to find while no transfer has failed.      *)
THEOREM OneEntryPerName == Spec => []NamesUnique
<1>1. FatInv => NamesUnique
  BY DEF FatInv
<1>2. QED
  BY <1>1, FatSafe, PTL
===============================================================================
