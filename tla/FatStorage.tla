------------------------------ MODULE FatStorage ------------------------------
(***************************************************************************)
(* The FAT12 files of platform/x86/hal_storage.c and the copies that       *)
(* storage.c, memory_card.c and save_manager.c make with them.  A file is  *)
(* a sequence of sectors.  Any sector transfer may fail, and the machine   *)
(* may be switched off at any time: an operation is one step whose outcome *)
(* says how many of its sectors reached the disk.                          *)
(***************************************************************************)
EXTENDS Integers, Sequences, FiniteSetsExt

CONSTANTS
  Names,          \* file names <<first three characters, rest>>
  Blocks,         \* contents of a sector
  RootSectors, PerSector,    \* size of the root directory
  DataSectors,    \* sectors of the data area, clusters 2 and up
  KernelLen,      \* clusters of KERNEL.BIN, which the image starts with
  MaxLen,         \* sectors of the longest file: SAVE_BACKUP_SIZE
  CloneCap,       \* sectors of mc_clone's buffer
  Slot0, Slot1    \* SLOT0.SAV and SLOT1.SAV

FAT_END == 4088
Free == "free"

(* The last cluster is below FAT_END, and no name normalises to the mark   *)
(* of a free entry or to KERNEL.BIN's name: what fat_normalize makes       *)
(* starts with blanks.                                                     *)
ASSUME FatAssumption ==
  /\ {RootSectors, PerSector, DataSectors, KernelLen, MaxLen, CloneCap} \subseteq Nat \ {0}
  /\ KernelLen <= DataSectors /\ MaxLen <= DataSectors
  /\ DataSectors + 1 < FAT_END
  /\ {Slot0, Slot1} \subseteq Names
  /\ \A n \in Names : n[1] \notin {Free, "KERNEL"}

(* No sector holds the mark of a file that was not read.                   *)
ASSUME BlocksAssumption == "not read" \notin Blocks

VARIABLES
  data,           \* on disk: cluster -> contents
  dir,            \* on disk: the root directory
  root,           \* root_cache
  fs_ready,
  latest,         \* ghost: the file written last, until something else is tried
  failed          \* ghost: "never", "pending" until a load or flush, "past"

vars == <<data, dir, root, fs_ready, latest, failed>>

RootSlots == 0..(RootSectors * PerSector - 1)
Clusters == 2..(DataSectors + 1)
NotRead == <<"not read">>
Entry(key, size) == [key |-> key, cluster |-> 2, size |-> size]
NoEntry == Entry(Free, 0)
Kernel == Entry("KERNEL", KernelLen)
-------------------------------------------------------------------------------
(* Operators named Bad... are slips this code could have; each one breaks a  *)
(* property below and none is part of the specification.                   *)

BadNormalize(n) == n[2]   \* skips the first three characters

(* fat_normalize: the loop for the base name never runs, and the extension *)
(* is filled with the first three characters of the name.                  *)
FatNormalize(n) == n[1]

(* fat_next_cluster on the FAT of the image, which no code writes.  Every  *)
(* file is said to start at cluster 2, so that only the chain of KERNEL.BIN *)
(* is ever followed.                                                       *)
FatNextCluster(c) == IF c <= KernelLen THEN c + 1 ELSE FAT_END

FatFindFreeEntry(r) == {i \in RootSlots : r[i].key = Free}

BadFindEntry(r, key) ==   \* stops at the first free entry
  {i \in RootSlots : r[i].key = key /\ \A j \in FatFindFreeEntry(r) : i < j}

(* The entries fat_find_entry may return the first of.                     *)
FatFindEntry(r, key) == {i \in RootSlots : r[i].key = key}

(* The directory once the first n of its sectors have been copied over it. *)
CopySectors(to, from, n) ==
  [i \in RootSlots |-> IF i \div PerSector < n THEN from[i] ELSE to[i]]

Init ==
  /\ data = [c \in Clusters |-> IF c < KernelLen + 2 THEN "kernel" ELSE "blank"]
  /\ dir = [i \in RootSlots |-> IF i = 0 THEN Kernel ELSE NoEntry]
  /\ root = [i \in RootSlots |-> NoEntry]
  /\ fs_ready = FALSE
  /\ latest = {}
  /\ failed = "never"

Settled == IF failed = "pending" THEN "past" ELSE failed

BadPlatFsInit ==   \* takes the tables for loaded when a transfer failed
  /\ \E n \in 0..RootSectors : root' = CopySectors(root, dir, n)
  /\ fs_ready' = TRUE /\ failed' = Settled
  /\ UNCHANGED <<data, dir, latest>>

(* plat_fs_init, also reached through plat_fs_repair, mc_mount, mc_repair. *)
PlatFsInit ==
  /\ \E n \in 0..RootSectors :
       /\ root' = CopySectors(root, dir, n)
       /\ fs_ready' = (n = RootSectors)
       /\ failed' = IF n = RootSectors THEN Settled ELSE failed
  /\ UNCHANGED <<data, dir, latest>>

(* Every file operation starts with `if (!fs_ready && plat_fs_init())'.    *)
Loaded == IF fs_ready THEN root ELSE dir

LoadFailed ==
  /\ ~fs_ready
  /\ \E n \in 0..(RootSectors - 1) : root' = CopySectors(root, dir, n)
  /\ UNCHANGED <<data, dir, fs_ready, latest, failed>>

(* An operation that only loads the tables and looks.                      *)
Look ==
  /\ root' = Loaded /\ fs_ready' = TRUE
  /\ failed' = IF fs_ready THEN failed ELSE Settled
  /\ UNCHANGED <<data, dir, latest>>
-------------------------------------------------------------------------------
(* The clusters plat_fs_read visits, from c on.                            *)
Chain(c) ==
  LET f[i \in 0..MaxLen] == IF i = 0 THEN c
                            ELSE IF f[i - 1] >= FAT_END THEN FAT_END
                            ELSE FatNextCluster(f[i - 1])
  IN f

(* What plat_fs_read copies into a buffer of cap sectors, from directory r *)
(* and data d, when no transfer fails; NotRead if there is no such file.   *)
FileContent(r, d, n, cap) ==
  LET hits == FatFindEntry(r, FatNormalize(n)) IN
  IF hits = {} THEN NotRead
  ELSE LET e == r[Min(hits)]
           chain == Chain(e.cluster)
           want == Min({e.size, cap})
           got == Min({i \in 0..want : i = want \/ chain[i] >= FAT_END})
       IN [i \in 1..got |-> d[chain[i - 1]]]

(* fat_flush_root, n sectors of which reach the disk.                      *)
FatFlushRoot(new, n) == dir' = CopySectors(dir, new, n)

(* The end of an operation that leaves `new' in root_cache: the flush, if  *)
(* it is reached, and what the operation returns.                          *)
Finish(new, reached) ==
  /\ root' = new /\ fs_ready' = TRUE
  /\ \E n \in 0..(IF reached THEN RootSectors ELSE 0) :
       /\ FatFlushRoot(new, n)
       /\ failed' = IF n = RootSectors THEN Settled ELSE "pending"

BadWritten(content, k) ==   \* the second sector is written over the first
  [c \in Clusters |-> IF c = 2 /\ k > 0 THEN content[k] ELSE data[c]]

(* The data after the first k sectors of content: always from cluster 2.   *)
Written(content, k) ==
  [c \in Clusters |-> IF c - 1 <= k THEN content[c - 1] ELSE data[c]]

(* plat_fs_write past the tables: the entry is made in root_cache first,   *)
(* then k of the sectors are written, then, if all are, the directory.     *)
Store(n, content) ==
  LET key == FatNormalize(n)
      hits == FatFindEntry(Loaded, key)
      candidates == IF hits # {} THEN hits ELSE FatFindFreeEntry(Loaded) IN
  \/ candidates = {} /\ Look
  \/ /\ candidates # {}
     /\ \E k \in 0..Len(content) :
          /\ data' = Written(content, k)
          /\ Finish([Loaded EXCEPT ![Min(candidates)] = Entry(key, Len(content))],
                    k = Len(content))
     /\ latest' = IF failed' = "pending" THEN {} ELSE {[name |-> n, content |-> content]}

PlatFsWrite(n, content) == LoadFailed \/ Store(n, content)

(* plat_fs_delete *)
PlatFsDelete(n) ==
  \/ LoadFailed
  \/ FatFindEntry(Loaded, FatNormalize(n)) = {} /\ Look
  \/ /\ FatFindEntry(Loaded, FatNormalize(n)) # {}
     /\ Finish([Loaded EXCEPT ![Min(FatFindEntry(Loaded, FatNormalize(n)))].key = Free], TRUE)
     /\ latest' = {}
     /\ UNCHANGED data

(* plat_fs_read, plat_fs_list, mc_list, save_manager_restore: they may     *)
(* load the tables and change nothing else here.                           *)
PlatFsRead == LoadFailed \/ Look

(* Read src into a buffer of cap sectors, write it to dst: storage_copy,   *)
(* mc_export, mc_clone, save_manager_clone.                                *)
Copy(dst, src, cap) ==
  LET content == FileContent(Loaded, data, src, cap) IN
  \/ LoadFailed
  \/ Look                                \* no such file, or a read fails
  \/ content # NotRead /\ Store(dst, content)

McClone == Copy(Slot1, Slot0, CloneCap)

(* mc_clone when it returns 0 and the shell says ok.                       *)
McCloneDone ==
  LET content == FileContent(Loaded, data, Slot0, CloneCap) IN
  content # NotRead /\ Store(Slot1, content) /\ failed' # "pending"

(* The power fails: what is in RAM is gone.                                *)
PowerCycle ==
  /\ root' = [i \in RootSlots |-> NoEntry] /\ fs_ready' = FALSE
  /\ failed' = Settled
  /\ UNCHANGED <<data, dir, latest>>

Files == UNION {[1..k -> Blocks] : k \in 1..MaxLen}

Next ==
  \/ PlatFsInit \/ PlatFsRead \/ PowerCycle \/ McClone
  \/ \E n \in Names : \/ PlatFsDelete(n)
                      \/ \E content \in Files : PlatFsWrite(n, content)
                      \/ \E src \in Names : Copy(n, src, MaxLen)

Spec == Init /\ [][Next]_vars
-------------------------------------------------------------------------------
Entries == [key : {n[1] : n \in Names} \cup {Free, "KERNEL"}, cluster : {2},
            size : 0..(MaxLen + KernelLen)]

(* Entries keep names that fat_normalize makes, and sizes of real files.   *)
TypeOK ==
  /\ data \in [Clusters -> Blocks \cup {"kernel", "blank"}]
  /\ dir \in [RootSlots -> Entries] /\ root \in [RootSlots -> Entries]
  /\ fs_ready \in BOOLEAN
  /\ failed \in {"never", "pending", "past"}

(* The file written last reads back whole, from the cache and after any    *)
(* number of reloads and power failures, whatever failed before it was     *)
(* written, if it is no longer than the kernel whose chain it borrows.     *)
LatestReadsBack ==
  \A f \in latest : Len(f.content) <= KernelLen =>
    FileContent(Loaded, data, f.name, MaxLen) = f.content

(* root_cache runs ahead of the disk only after an operation has failed.   *)
CacheOnDisk == fs_ready /\ failed # "pending" => root = dir

(* While no transfer has failed no two entries have the same name, so that *)
(* a deleted file is gone.                                                 *)
NamesUnique ==
  failed = "never" =>
    \A i, j \in RootSlots : i # j /\ dir[i].key = dir[j].key => dir[i].key = Free

(* A clone reads as the save it was made from, which is still what it was. *)
CloneCopies ==
  [][McCloneDone /\ failed' = "never" =>
       \A n \in {Slot0, Slot1} :
         FileContent(root', data', n, MaxLen) = FileContent(Loaded, data, Slot0, MaxLen)]_vars
===============================================================================
