---------------------------- MODULE ConsoleProofs -----------------------------
(***************************************************************************)
(* Components of the console, for every value of their constants.  Each    *)
(* invariant is about one component's variable: it holds in AsmInit, and a *)
(* step of AsmNext is a step of that component, a reset or a stutter.      *)
(***************************************************************************)
EXTENDS AsmOS, FatStorageProofs, FiniteSetTheorems, SequenceTheorems

LEMMA SaveSteps == [AsmNext]_asmVars => SavesNext \/ UNCHANGED saveVars
BY DEF AsmNext, PlayGame, DrawScreen, UseWire, UseTables, UseDisk, Reset, asmVars, saveVars,
       SavesNext

(* Where the last backup is named: one entry of the directory carries its  *)
(* name on the disk and in the tables an operation would work on.          *)
NamedAt(x, n) == dir[x].key = FatNormalize(n) /\ Loaded[x].key = FatNormalize(n)

(* Two directories have the same entries of one name.                      *)
Alike(r, s, key) == \A i \in RootSlots : r[i].key = key \/ s[i].key = key => r[i] = s[i]

BackupIs(r, d, n) == Len(BackupImage) <= KernelLen => FileContent(r, d, n, MaxLen) = BackupImage

(* A backup nothing was written over: on the disk, and not different in    *)
(* the tables.                                                             *)
SavedFile(n) == Alike(dir, Loaded, FatNormalize(n)) /\ BackupIs(dir, data, n)

SaveStates == [name : Names \cup {NoName}, kept : SUBSET Names, intact : BOOLEAN]

SavesKept ==
  /\ saves \in SaveStates
  /\ \A n \in saves.kept : \E x \in RootSlots : NamedAt(x, n)
  /\ saves.intact => \A n \in saves.kept : SavedFile(n)

SavesInv == FatInv /\ SavesKept

LEMMA SavesAreFatSteps ==
  ASSUME SavesInv, SavesNext \/ UNCHANGED saveVars
  PROVE  [Next]_vars
<1>1. {BackupImage, SnapshotImage} \subseteq Files /\ Slot0 \in Names /\ Slot1 \in Names
  BY SavesAssumption, FatAssumption
<1>2. QED
  BY <1>1 DEF SavesInv, SavesNext, saveVars, vars, Next, pause_snapshot_restore, SavesPowerCycle,
     save_manager_rollback, save_manager_restore, save_manager_clone, save_manager_backup,
     pause_snapshot_save, DeleteFile

(* A file reads the same from directories that have the same entries of it. *)
LEMMA SameFile ==
  ASSUME NEW r, NEW s, NEW d, NEW n, Alike(r, s, FatNormalize(n))
  PROVE  FileContent(r, d, n, MaxLen) = FileContent(s, d, n, MaxLen)
<1> DEFINE key == FatNormalize(n)
           hits == FatFindEntry(r, key)
<1>1. FatFindEntry(s, key) = hits
  BY DEF FatFindEntry, Alike
<1>2. CASE hits = {}
  BY <1>1, <1>2 DEF FileContent
<1>3. CASE hits # {}
  <2>1. hits \in SUBSET Nat
    BY SlotsAreNats DEF FatFindEntry
  <2>2. Min(hits) \in hits
    <3> HIDE DEF hits
    <3>1. QED
      BY <1>3, <2>1, MinIsLeast
  <2>3. r[Min(hits)] = s[Min(hits)]
    BY <2>2 DEF FatFindEntry, Alike
  <2> HIDE DEF hits
  <2>4. QED
    BY <1>1, <1>3, <2>3 DEF FileContent, hits
<1>4. QED
  BY <1>2, <1>3

(* Steps that write nothing to the disk and leave in the tables what was   *)
(* there or what is on the disk.                                           *)
LEMMA QuietKeepsFile ==
  ASSUME FatInv, NEW n \in Names, SavedFile(n), LoadFailed \/ Look \/ PlatFsInit \/ PowerCycle
  PROVE  SavedFile(n)'
<1>1. dir' = dir /\ data' = data
  BY DEF LoadFailed, Look, PlatFsInit, PowerCycle
<1>2. Loaded' = Loaded \/ Loaded' = dir
  <2>1. CASE LoadFailed \/ Look \/ PowerCycle
    BY <2>1 DEF LoadFailed, Look, PowerCycle, Loaded
  <2>2. CASE PlatFsInit
    <3>1. PICK k \in 0..RootSectors :
            root' = CopySectors(root, dir, k) /\ fs_ready' = (k = RootSectors) /\ dir' = dir
      BY <2>2 DEF PlatFsInit
    <3>2. k = RootSectors => root' = dir
      BY <3>1, CopyAll DEF FatInv
    <3>3. QED
      BY <3>1, <3>2 DEF Loaded
  <2>3. QED
    BY <2>1, <2>2
<1>3. Alike(dir, Loaded', FatNormalize(n))
  BY <1>2 DEF SavedFile, Alike
<1>4. QED
  BY <1>1, <1>3 DEF SavedFile, Alike, BackupIs, FatNormalize

(* What a change of the directory does to an entry that carries a name.    *)
LEMMA FinishKeepsName ==
  ASSUME FatInv, NEW new \in Dirs, NEW reached \in BOOLEAN, Finish(new, reached),
         NEW n \in Names, NEW x \in RootSlots, NamedAt(x, n), new[x].key = FatNormalize(n)
  PROVE  NamedAt(x, n)'
<1>1. root' = new /\ fs_ready' = TRUE
  BY FinishFacts
<1>2. PICK k \in 0..(IF reached THEN RootSectors ELSE 0) : dir' = CopySectors(dir, new, k)
  BY DEF Finish, FatFlushRoot
<1>3. dir'[x].key = FatNormalize(n)
  BY <1>2 DEF CopySectors, NamedAt
<1>4. QED
  BY <1>1, <1>3 DEF NamedAt, Loaded, FatNormalize

LEMMA QuietKeepsName ==
  ASSUME FatInv, NEW n \in Names, NEW x \in RootSlots, NamedAt(x, n),
         LoadFailed \/ Look \/ PlatFsInit \/ PowerCycle
  PROVE  NamedAt(x, n)'
<1>1. CASE LoadFailed
  BY <1>1 DEF LoadFailed, NamedAt, Loaded, FatNormalize
<1>2. CASE Look
  BY <1>2 DEF Look, NamedAt, Loaded, FatNormalize
<1>3. CASE PlatFsInit
  <2>1. PICK k \in 0..RootSectors :
          root' = CopySectors(root, dir, k) /\ fs_ready' = (k = RootSectors) /\ dir' = dir
    BY <1>3 DEF PlatFsInit
  <2>2. k = RootSectors => root' = dir
    BY <2>1, CopyAll DEF FatInv
  <2>3. QED
    BY <2>1, <2>2 DEF NamedAt, Loaded, FatNormalize
<1>4. CASE PowerCycle
  BY <1>4 DEF PowerCycle, NamedAt, Loaded, FatNormalize
<1>5. QED
  BY <1>1, <1>2, <1>3, <1>4

LEMMA StoreKeepsName ==
  ASSUME FatInv, NEW m \in Names, NEW content \in Seq(AllBlocks), Len(content) <= MaxLen,
         Store(m, content), NEW n \in Names, NEW x \in RootSlots, NamedAt(x, n)
  PROVE  NamedAt(x, n)'
<1> DEFINE key == FatNormalize(m)
           hits == FatFindEntry(Loaded, key)
           candidates == IF hits # {} THEN hits ELSE FatFindFreeEntry(Loaded)
           y == Min(candidates)
           new == [Loaded EXCEPT ![y] = Entry(key, Len(content))]
<1>1. CASE Look
  BY <1>1, QuietKeepsName
<1>2. CASE /\ candidates # {}
           /\ \E k \in 0..Len(content) : Finish(new, k = Len(content))
  <2>1. Loaded \in Dirs /\ Loaded \in [RootSlots -> Entries] /\ Len(content) \in Nat
    BY LoadedTyped DEF Dirs
  <2>2. y \in RootSlots /\ (Loaded[y].key = key \/ Loaded[y].key = Free)
    <3>1. candidates \in SUBSET RootSlots
      BY DEF FatFindEntry, FatFindFreeEntry
    <3>2. y \in candidates
      <4> HIDE DEF candidates
      <4>1. candidates \in SUBSET Nat
        BY <3>1, SlotsAreNats
      <4>2. QED
        BY <1>2, <4>1, MinIsLeast
    <3>3. QED
      BY <3>1, <3>2 DEF FatFindEntry, FatFindFreeEntry
  <2> HIDE DEF y
  <2>3. Entry(key, Len(content)).key = key /\ Entry(key, Len(content)).size <= MaxLen
    BY DEF Entry
  <2>4. Entry(key, Len(content)) \in Entries
    BY <2>1, Numbers, KeysOfFiles DEF Entry, Entries
  <2>5. new \in Dirs
    BY <2>1, <2>2, <2>3, <2>4 DEF Dirs
  <2>6. new[x].key = FatNormalize(n)
    <3>1. CASE x = y
      <4>1. Loaded[y].key = FatNormalize(n) /\ FatNormalize(n) # Free
        BY <3>1, KeysOfFiles DEF NamedAt
      <4>2. QED
        BY <2>1, <2>2, <2>3, <3>1, <4>1
    <3>2. CASE x # y
      BY <2>1, <3>2 DEF NamedAt
    <3>3. QED
      BY <3>1, <3>2
  <2> HIDE DEF new
  <2>7. PICK k \in 0..Len(content) : Finish(new, k = Len(content))
    BY <1>2
  <2>8. QED
    BY <2>5, <2>6, <2>7, FinishKeepsName
<1>3. QED
  BY <1>1, <1>2 DEF Store

LEMMA DeleteKeepsName ==
  ASSUME FatInv, NEW m \in Names, PlatFsDelete(m),
         NEW n \in Names, FatNormalize(n) # FatNormalize(m), NEW x \in RootSlots, NamedAt(x, n)
  PROVE  NamedAt(x, n)'
<1> DEFINE hits == FatFindEntry(Loaded, FatNormalize(m))
           y == Min(hits)
           new == [Loaded EXCEPT ![y].key = Free]
<1>1. CASE LoadFailed \/ Look
  BY <1>1, QuietKeepsName
<1>2. CASE hits # {} /\ Finish(new, TRUE)
  <2>1. Loaded \in Dirs /\ Loaded \in [RootSlots -> Entries]
    BY LoadedTyped DEF Dirs
  <2>2. y \in RootSlots /\ Loaded[y].key = FatNormalize(m)
    <3>1. hits \in SUBSET Nat
      BY SlotsAreNats DEF FatFindEntry
    <3>2. y \in hits
      BY <1>2, <3>1, MinIsLeast
    <3>3. QED
      BY <3>2 DEF FatFindEntry
  <2> HIDE DEF y
  <2>3. Loaded[y].size <= MaxLen /\ Loaded[y].size \in Nat /\ Loaded[y] \in Entries
    BY <2>1, <2>2, DirTyped, KeysOfFiles
  <2>4. /\ new \in [RootSlots -> Entries] /\ new[y].size = Loaded[y].size
        /\ \A i \in RootSlots \ {y} : new[i] = Loaded[i]
    BY <2>1, <2>2, <2>3 DEF Entries
  <2> HIDE DEF new
  <2>5. new \in Dirs
    BY <2>1, <2>3, <2>4 DEF Dirs
  <2>6. x # y /\ new[x].key = FatNormalize(n)
    BY <2>2, <2>4 DEF NamedAt
  <2>7. QED
    BY <1>2, <2>5, <2>6, FinishKeepsName
<1>3. QED
  BY <1>1, <1>2 DEF PlatFsDelete

(* A delete frees an entry of another name, in the tables and, as far as   *)
(* the flush gets, on the disk.                                            *)
LEMMA DeleteKeepsFile ==
  ASSUME FatInv, NEW m \in Names, PlatFsDelete(m),
         NEW n \in Names, FatNormalize(n) # FatNormalize(m), SavedFile(n)
  PROVE  SavedFile(n)'
<1> DEFINE key == FatNormalize(n)
           hits == FatFindEntry(Loaded, FatNormalize(m))
           y == Min(hits)
           new == [Loaded EXCEPT ![y].key = Free]
<1>1. CASE LoadFailed \/ Look
  BY <1>1, QuietKeepsFile
<1>2. CASE hits # {} /\ Finish(new, TRUE) /\ UNCHANGED data
  <2>1. Loaded \in [RootSlots -> Entries] /\ key # Free
    BY LoadedTyped, KeysOfFiles DEF Dirs
  <2>2. y \in RootSlots /\ Loaded[y].key # key
    <3>1. hits \in SUBSET Nat
      BY SlotsAreNats DEF FatFindEntry
    <3>2. y \in hits
      BY <1>2, <3>1, MinIsLeast
    <3>3. QED
      BY <3>2 DEF FatFindEntry
  <2> HIDE DEF y
  <2>3. new[y].key = Free /\ \A i \in RootSlots \ {y} : new[i] = Loaded[i]
    BY <2>1, <2>2 DEF Entries
  <2> HIDE DEF new
  <2>4. PICK k \in 0..RootSectors : dir' = CopySectors(dir, new, k)
    BY <1>2 DEF Finish, FatFlushRoot
  <2>5. Loaded' = new
    BY <1>2 DEF Finish, Loaded
  <2>6. \A i \in RootSlots : dir[i].key = key \/ Loaded[i].key = key => dir[i] = Loaded[i]
    BY DEF SavedFile, Alike
  <2>7. \A i \in RootSlots : dir'[i] = new[i] \/ dir'[i] = dir[i]
    BY <2>4 DEF CopySectors
  <2> HIDE DEF key
  <2>8. ASSUME NEW i \in RootSlots
        PROVE  /\ dir'[i].key = key \/ new[i].key = key => dir'[i] = new[i]
               /\ dir'[i].key = key \/ dir[i].key = key => dir'[i] = dir[i]
    <3>1. CASE i = y
      BY <2>1, <2>2, <2>3, <2>6, <2>7, <3>1
    <3>2. CASE i # y
      BY <2>3, <2>6, <2>7, <3>2
    <3>3. QED
      BY <3>1, <3>2
  <2>9. Alike(dir', Loaded', key) /\ Alike(dir', dir, key)
    BY <2>5, <2>8 DEF Alike
  <2>10. FileContent(dir', data, n, MaxLen) = FileContent(dir, data, n, MaxLen)
    BY <2>9, SameFile DEF key
  <2>11. BackupIs(dir', data', n)
    BY <1>2, <2>10 DEF SavedFile, BackupIs
  <2>12. QED
    BY <2>9, <2>11 DEF SavedFile, Alike, BackupIs, FatNormalize, key
<1>3. QED
  BY <1>1, <1>2 DEF PlatFsDelete

LEMMA ImagesTyped ==
  ASSUME NEW content \in Files
  PROVE  content \in Seq(AllBlocks) /\ Len(content) <= MaxLen
<1>1. PICK k \in 1..MaxLen : content \in [1..k -> Blocks]
  BY DEF Files
<1>2. k \in Nat /\ k <= MaxLen
  BY Numbers
<1>3. QED
  BY <1>1, <1>2 DEF AllBlocks

(* The backup is still where it was when every name still is, and intact   *)
(* when every file is.                                                     *)
LEMMA NamesKeepSaves ==
  ASSUME SavesKept, saves' \in SaveStates, saves'.kept \subseteq saves.kept,
         saves'.intact => saves.intact,
         \A n \in Names : \A x \in RootSlots :
           n \in saves'.kept /\ NamedAt(x, n) => NamedAt(x, n)',
         \A n \in Names : saves'.intact /\ n \in saves'.kept /\ SavedFile(n) => SavedFile(n)'
  PROVE  SavesKept'
<1>1. saves'.kept \subseteq Names
  BY DEF SaveStates
<1>2. ASSUME NEW n \in saves'.kept PROVE \E x \in RootSlots : NamedAt(x, n)'
  <2>1. PICK x \in RootSlots : NamedAt(x, n)
    BY <1>2 DEF SavesKept
  <2>2. QED
    BY <1>1, <1>2, <2>1
<1>3. ASSUME saves'.intact, NEW n \in saves'.kept PROVE SavedFile(n)'
  BY <1>1, <1>3 DEF SavesKept
<1>4. QED
  BY <1>2, <1>3 DEF SavesKept

LEMMA SavesFields ==
  ASSUME SavesKept
  PROVE  /\ saves.kept \subseteq Names /\ saves.intact \in BOOLEAN
         /\ \A n \in Names \cup {NoName} :
              LET s == [saves EXCEPT !.name = n]
              IN  s \in SaveStates /\ s.kept = saves.kept /\ s.intact = saves.intact
         /\ \A b \in BOOLEAN :
              LET s == [saves EXCEPT !.intact = b]
              IN  s \in SaveStates /\ s.kept = saves.kept /\ s.intact = b
         /\ \A b \in BOOLEAN : \A n \in Names \cup {NoName} :
              LET s == [saves EXCEPT !.name = n, !.intact = b]
              IN  s \in SaveStates /\ s.kept = saves.kept /\ s.intact = b
         /\ \A b \in BOOLEAN : \A k \in SUBSET Names :
              LET s == [saves EXCEPT !.kept = k, !.intact = b]
              IN  s \in SaveStates /\ s.kept = k /\ s.intact = b
BY DEF SavesKept, SaveStates

(* save_manager_restore, and with the remembered name the rollback.        *)
LEMMA RestoreKeepsSaves ==
  ASSUME SavesInv, NEW n \in Names, save_manager_restore(n)
  PROVE  SavesKept'
<1>1. LoadFailed \/ Look
  BY DEF save_manager_restore, PlatFsRead
<1>2. SavesKept /\ FatInv
  BY DEF SavesInv
<1>3. saves' \in SaveStates /\ saves'.kept = saves.kept /\ saves'.intact = saves.intact
  <2>1. CASE UNCHANGED saves
    BY <1>2, <2>1 DEF SavesKept
  <2>2. CASE saves' = [saves EXCEPT !.name = n]
    BY <1>2, <2>2, SavesFields
  <2>3. QED
    BY <2>1, <2>2 DEF save_manager_restore
<1>4. QED
  BY <1>1, <1>2, <1>3, QuietKeepsName, QuietKeepsFile, NamesKeepSaves

LEMMA WriteKeepsName ==
  ASSUME FatInv, NEW m \in Names, NEW content \in Files, PlatFsWrite(m, content),
         NEW n \in Names, NEW x \in RootSlots, NamedAt(x, n)
  PROVE  NamedAt(x, n)'
BY ImagesTyped, QuietKeepsName, StoreKeepsName DEF PlatFsWrite

LEMMA CopyKeepsName ==
  ASSUME FatInv, NEW dst \in Names, NEW src \in Names, NEW cap \in Nat, Copy(dst, src, cap),
         NEW n \in Names, NEW x \in RootSlots, NamedAt(x, n)
  PROVE  NamedAt(x, n)'
<1> DEFINE content == FileContent(Loaded, data, src, cap)
<1>1. CASE LoadFailed \/ Look
  BY <1>1, QuietKeepsName
<1>2. CASE content # NotRead /\ Store(dst, content)
  <2>1. content \in Seq(AllBlocks) /\ Len(content) <= MaxLen
    <3>1. data \in [Clusters -> AllBlocks] /\ Loaded \in Dirs
      BY LoadedTyped DEF FatInv, TypeOK, AllBlocks
    <3>2. QED
      BY <1>2, <3>1, ReadTyped
  <2> HIDE DEF content
  <2>2. QED
    BY <1>2, <2>1, StoreKeepsName
<1>3. QED
  BY <1>1, <1>2 DEF Copy

(* save_manager_backup: reported written only when it is on the disk; one  *)
(* that fails leaves the earlier one where it was.                         *)
LEMMA BackupKeepsSaves ==
  ASSUME SavesInv, FatInv', NEW n \in Names, save_manager_backup(n)
  PROVE  SavesKept'
<1>0. SavesKept /\ FatInv /\ BackupImage \in Files /\ PlatFsWrite(n, BackupImage)
  BY SavesAssumption DEF SavesInv, save_manager_backup
<1>1. CASE BackupResult(n, BackupImage) /\ saves' = [name |-> n, kept |-> {n}, intact |-> TRUE]
  <2>1. saves' \in SaveStates /\ saves'.kept = {n}
    BY <1>1 DEF SaveStates
  <2>2. latest' = {[name |-> n, content |-> BackupImage]}
    BY <1>1 DEF BackupResult
  <2>3. /\ [name |-> n, content |-> BackupImage].name = n
        /\ [name |-> n, content |-> BackupImage].content = BackupImage
    OBVIOUS
  <2>4. failed' # "pending" /\ FatFindEntry(dir', FatNormalize(n)) # {} /\ BackupIs(dir', data', n)
    BY <2>2, <2>3 DEF FatInv, LatestKept, BackupIs
  <2>5. Loaded' = dir'
    BY <2>4 DEF FatInv, Loaded, CacheOnDisk
  <2>6. \E x \in RootSlots : NamedAt(x, n)'
    BY <2>4, <2>5 DEF FatFindEntry, NamedAt, FatNormalize
  <2>7. SavedFile(n)'
    BY <2>4, <2>5 DEF SavedFile, Alike, BackupIs, FatNormalize
  <2>8. QED
    BY <2>1, <2>6, <2>7 DEF SavesKept
<1>2. CASE saves' = [saves EXCEPT !.name = n, !.intact = @ /\ NothingStored]
  <2>1. PICK b \in BOOLEAN : b = (saves.intact /\ NothingStored)
    OBVIOUS
  <2>2. saves' = [saves EXCEPT !.name = n, !.intact = b]
    BY <1>2, <2>1
  <2>3. saves' \in SaveStates /\ saves'.kept = saves.kept /\ saves'.intact = b
    BY <1>0, <2>2, SavesFields
  <2>4. \A m \in Names : \A x \in RootSlots : NamedAt(x, m) => NamedAt(x, m)'
    BY <1>0, WriteKeepsName
  <2>5. b => LoadFailed \/ Look
    BY <2>1 DEF NothingStored
  <2>6. \A m \in Names : saves'.intact /\ SavedFile(m) => SavedFile(m)'
    BY <1>0, <2>3, <2>5, QuietKeepsFile
  <2>7. QED
    BY <1>0, <2>1, <2>3, <2>4, <2>6, NamesKeepSaves
<1>3. QED
  BY <1>1, <1>2 DEF save_manager_backup

(* A snapshot or a clone.                                                  *)
LEMMA OverwriteKeepsSaves ==
  ASSUME SavesInv, WrittenOver,
         \A n \in Names : \A x \in RootSlots : NamedAt(x, n) => NamedAt(x, n)'
  PROVE  SavesKept'
<1>0. SavesKept /\ FatInv
  BY DEF SavesInv
<1>1. PICK b \in BOOLEAN : b = (saves.intact /\ NothingStored)
  OBVIOUS
<1>2. saves' = [saves EXCEPT !.intact = b]
  BY <1>1 DEF WrittenOver
<1>3. saves' \in SaveStates /\ saves'.kept = saves.kept /\ saves'.intact = b
  BY <1>0, <1>2, SavesFields
<1>4. b => LoadFailed \/ Look
  BY <1>1 DEF NothingStored
<1>5. \A m \in Names : saves'.intact /\ SavedFile(m) => SavedFile(m)'
  BY <1>0, <1>3, <1>4, QuietKeepsFile
<1>6. QED
  BY <1>0, <1>1, <1>3, <1>5, NamesKeepSaves

LEMMA NextKeepsSaves == SavesInv /\ [AsmNext]_asmVars => SavesInv'
<1> SUFFICES ASSUME SavesInv, [AsmNext]_asmVars PROVE SavesInv'
  OBVIOUS
<1>1. SavesNext \/ UNCHANGED saveVars
  BY SaveSteps
<1>2. FatInv'
  BY <1>1, SavesAreFatSteps, NextKeepsFat DEF SavesInv
<1>3. SavesKept /\ FatInv
  BY DEF SavesInv
<1>4. /\ saves \in SaveStates /\ saves.name \in Names \cup {NoName}
      /\ {BackupImage, SnapshotImage} \subseteq Files /\ Slot0 \in Names /\ Slot1 \in Names
      /\ MaxLen \in Nat
  BY <1>3, SavesAssumption, FatAssumption, Numbers DEF SavesKept, SaveStates
<1> SUFFICES SavesKept'
  BY <1>2 DEF SavesInv
<1>5. ASSUME saves' \in SaveStates, saves'.kept = saves.kept, saves'.intact = saves.intact,
             LoadFailed \/ Look \/ PlatFsInit \/ PowerCycle
      PROVE  SavesKept'
  BY <1>3, <1>5, QuietKeepsName, QuietKeepsFile, NamesKeepSaves
<1>6. CASE UNCHANGED saveVars
  <2>1. /\ \A n \in Names : \A x \in RootSlots : NamedAt(x, n) => NamedAt(x, n)'
        /\ \A n \in Names : SavedFile(n) => SavedFile(n)'
    BY <1>6 DEF saveVars, NamedAt, Loaded, FatNormalize, SavedFile, Alike, BackupIs
  <2>2. UNCHANGED saves
    BY <1>6 DEF saveVars
  <2>3. QED
    BY <1>3, <1>4, <2>1, <2>2, NamesKeepSaves
<1>7. CASE PlatFsInit /\ UNCHANGED saves
  BY <1>4, <1>5, <1>7
<1>8. CASE pause_snapshot_restore
  BY <1>4, <1>5, <1>8 DEF pause_snapshot_restore, PlatFsRead
<1>9. CASE SavesPowerCycle
  <2>1. PowerCycle /\ saves' = [saves EXCEPT !.name = NoName]
    BY <1>9 DEF SavesPowerCycle
  <2>2. saves' \in SaveStates /\ saves'.kept = saves.kept /\ saves'.intact = saves.intact
    BY <1>3, <2>1, SavesFields
  <2>3. QED
    BY <1>5, <2>1, <2>2
<1>10. CASE save_manager_rollback
  <2>1. PICK n \in Names : n = saves.name /\ save_manager_restore(n)
    BY <1>4, <1>10 DEF save_manager_rollback
  <2>2. QED
    BY <2>1, RestoreKeepsSaves
<1>11. CASE save_manager_clone(Slot1, Slot0)
  <2>1. Copy(Slot1, Slot0, MaxLen) /\ WrittenOver
    BY <1>11 DEF save_manager_clone
  <2>2. \A n \in Names : \A x \in RootSlots : NamedAt(x, n) => NamedAt(x, n)'
    BY <1>3, <1>4, <2>1, CopyKeepsName
  <2>3. QED
    BY <2>1, <2>2, OverwriteKeepsSaves
<1>12. ASSUME NEW n \in Names, save_manager_backup(n) PROVE SavesKept'
  BY <1>2, <1>12, BackupKeepsSaves
<1>13. ASSUME NEW n \in Names, save_manager_restore(n) PROVE SavesKept'
  BY <1>13, RestoreKeepsSaves
<1>14. ASSUME NEW n \in Names, pause_snapshot_save(n) PROVE SavesKept'
  <2>1. PlatFsWrite(n, SnapshotImage) /\ WrittenOver
    BY <1>14 DEF pause_snapshot_save
  <2>2. \A m \in Names : \A x \in RootSlots : NamedAt(x, m) => NamedAt(x, m)'
    BY <1>3, <1>4, <2>1, WriteKeepsName
  <2>3. QED
    BY <2>1, <2>2, OverwriteKeepsSaves
<1>15. ASSUME NEW n \in Names, DeleteFile(n) PROVE SavesKept'
  <2> DEFINE kept == {m \in saves.kept : FatNormalize(m) # FatNormalize(n)}
  <2>1. PICK b \in BOOLEAN : b = (saves.intact /\ kept # {})
    OBVIOUS
  <2>2. PlatFsDelete(n) /\ saves' = [saves EXCEPT !.kept = kept, !.intact = b]
    BY <1>15, <2>1 DEF DeleteFile
  <2>3. kept \in SUBSET Names /\ kept \subseteq saves.kept
    BY <1>3, SavesFields
  <2>4. \A m \in kept : FatNormalize(m) # FatNormalize(n)
    OBVIOUS
  <2> HIDE DEF kept
  <2>5. saves' \in SaveStates /\ saves'.kept = kept /\ saves'.intact = b
    BY <1>3, <2>2, <2>3, SavesFields
  <2>6. \A m \in Names : \A x \in RootSlots : m \in saves'.kept /\ NamedAt(x, m) => NamedAt(x, m)'
    BY <1>3, <2>2, <2>4, <2>5, DeleteKeepsName
  <2>7. \A m \in Names : saves'.intact /\ m \in saves'.kept /\ SavedFile(m) => SavedFile(m)'
    BY <1>3, <2>2, <2>4, <2>5, DeleteKeepsFile
  <2>8. QED
    BY <1>3, <2>1, <2>3, <2>5, <2>6, <2>7, NamesKeepSaves
<1>16. QED
  BY <1>1, <1>6, <1>7, <1>8, <1>9, <1>10, <1>11, <1>12, <1>13, <1>14, <1>15 DEF SavesNext

(* A backup that save_manager_backup reported written is found by its name *)
(* until it is deleted, and reads back byte for byte until something else  *)
(* is written, whatever transfers fail, whatever other files are deleted   *)
(* and however often the power fails or the console is reset in between.   *)
THEOREM BackupsAreKept == AsmSpec => []BackupRestorable
<1>1. AsmInit => SavesInv
  <2> SUFFICES ASSUME AsmInit PROVE SavesInv
    OBVIOUS
  <2>1. FatInv
    BY FatStarts DEF AsmInit, SavesInit
  <2>2. SavesKept
    BY DEF AsmInit, SavesInit, NoBackup, SavesKept, SaveStates
  <2>3. QED
    BY <2>1, <2>2 DEF SavesInv
<1>2. SavesInv => BackupRestorable
  <2> SUFFICES ASSUME SavesInv, NEW n \in saves.kept
               PROVE  /\ FileContent(Loaded, data, n, MaxLen) # NotRead
                      /\ saves.intact /\ Len(BackupImage) <= KernelLen =>
                           FileContent(Loaded, data, n, MaxLen) = BackupImage
    BY DEF BackupRestorable
  <2>1. SavesKept /\ FatInv /\ n \in Names
    BY SavesFields DEF SavesInv
  <2>2. PICK y \in RootSlots : Loaded[y].key = FatNormalize(n)
    BY <2>1 DEF SavesKept, NamedAt
  <2>3. Loaded \in Dirs /\ data \in [Clusters -> AllBlocks] /\ MaxLen \in Nat
    BY LoadedTyped, Numbers DEF SavesInv, FatInv, TypeOK, AllBlocks
  <2>4. FileContent(Loaded, data, n, MaxLen) # NotRead
    BY <2>1, <2>2, <2>3, ReadsSomething
  <2>5. ASSUME saves.intact, Len(BackupImage) <= KernelLen
        PROVE  FileContent(Loaded, data, n, MaxLen) = BackupImage
    <3>1. SavedFile(n)
      BY <2>1, <2>5 DEF SavesKept
    <3>2. FileContent(dir, data, n, MaxLen) = FileContent(Loaded, data, n, MaxLen)
      BY <3>1, SameFile DEF SavedFile
    <3>3. QED
      BY <2>5, <3>1, <3>2 DEF SavedFile, BackupIs
  <2>6. QED
    BY <2>4, <2>5
<1>3. QED
  BY <1>1, <1>2, NextKeepsSaves, PTL DEF AsmSpec
-------------------------------------------------------------------------------
(* The pipeline of streaming.c.                                            *)
LEMMA PipeSteps == [AsmNext]_asmVars => PipeNext \/ pipe' = PipeClosed \/ UNCHANGED pipe
BY DEF AsmNext, PlayGame, DrawScreen, UseWire, UseTables, UseDisk, Reset, asmVars, wire

QueueSlots == 0..(STREAMING_QUEUE_DEPTH - 1)
Requests == [left : Nat, at : Nat, done : BOOLEAN, want : Nat, asked : SUBSET Nat,
             moved : SUBSET (Nat \X Nat)]

(* What moved of a request is the start of the file, chunk after chunk.    *)
StartsOfFile(r) == \A m \in r.moved : m[1] \in r.asked /\ m[2] = m[1] % STREAMING_CHUNK_SIZE

(* A request's account: what was handed to a transfer reaches to the       *)
(* pointer, which is at the start of a chunk, or to the end when it is     *)
(* done; then the last piece is all that is left.                          *)
Accounted(r) ==
  /\ r \in Requests /\ r.at + r.left = r.want /\ r.at % STREAMING_CHUNK_SIZE = 0
  /\ r.done => r.left <= STREAMING_CHUNK_SIZE /\ r.asked = 0..r.want - 1
  /\ ~r.done => r.asked = 0..r.at - 1
  /\ StartsOfFile(r)

PipeInv ==
  /\ pipe \in [open : BOOLEAN, tail : Nat, hung : BOOLEAN, queue : [QueueSlots -> Requests]]
  /\ \A i \in QueueSlots : Accounted(pipe.queue[i])

LEMMA PipeNumbers ==
  /\ STREAMING_QUEUE_DEPTH \in Nat /\ STREAMING_QUEUE_DEPTH >= 1
  /\ STREAMING_CHUNK_SIZE \in Nat /\ STREAMING_CHUNK_SIZE >= 1 /\ Lengths \subseteq Nat
BY StreamingAssumption

LEMMA NewRequest ==
  /\ Accounted(Idle) /\ Idle \in Requests
  /\ \A n \in Nat : Accounted(Request(n)) /\ Request(n) \in Requests
<1>1. 0 % STREAMING_CHUNK_SIZE = 0 /\ 0..(0 - 1) = {}
  BY PipeNumbers
<1>2. /\ Idle \in Requests /\ Idle.at = 0 /\ Idle.left = 0 /\ Idle.want = 0 /\ Idle.done
      /\ Idle.asked = {} /\ Idle.moved = {}
  BY DEF Idle, Requests
<1>3. ASSUME NEW n \in Nat
      PROVE  /\ Request(n) \in Requests /\ Request(n).at = 0 /\ Request(n).want = n
             /\ Request(n).left = n /\ ~Request(n).done
             /\ Request(n).asked = {} /\ Request(n).moved = {}
  BY DEF Request, Requests
<1>4. Accounted(Idle)
  <2> DEFINE r == Idle
  <2> HIDE DEF r
  <2>1. r \in Requests /\ r.at = 0 /\ r.left = 0 /\ r.want = 0 /\ r.done /\ r.asked = {} /\ r.moved = {}
    BY <1>2 DEF r
  <2>2. StartsOfFile(r)
    BY <2>1 DEF StartsOfFile
  <2>3. Accounted(r)
    BY <1>1, <2>1, <2>2, PipeNumbers DEF Accounted
  <2>4. QED
    BY <2>3 DEF r
<1>5. ASSUME NEW n \in Nat PROVE Accounted(Request(n))
  <2> DEFINE r == Request(n)
  <2> HIDE DEF r
  <2>1. r \in Requests /\ r.at = 0 /\ r.left = n /\ r.want = n /\ ~r.done /\ r.asked = {} /\ r.moved = {}
    BY <1>3 DEF r
  <2>2. StartsOfFile(r)
    BY <2>1 DEF StartsOfFile
  <2>3. Accounted(r)
    BY <1>1, <2>1, <2>2 DEF Accounted
  <2>4. QED
    BY <2>3 DEF r
<1>6. QED
  BY <1>2, <1>3, <1>4, <1>5

(* Byte b of a piece whose pointer is at the start of a chunk.             *)
LEMMA PieceBytes ==
  ASSUME NEW a \in Nat, a % STREAMING_CHUNK_SIZE = 0
  PROVE  /\ \A b \in 0..STREAMING_CHUNK_SIZE - 1 : (a + b) % STREAMING_CHUNK_SIZE = b
         /\ (a + STREAMING_CHUNK_SIZE) % STREAMING_CHUNK_SIZE = 0
<1> DEFINE c == STREAMING_CHUNK_SIZE
           q == a \div c
<1>1. c \in Nat /\ c > 0
  BY PipeNumbers
<1> HIDE DEF c
<1>2. q \in Int /\ a = q * c
  BY <1>1 DEF c
<1> HIDE DEF q
<1>3. ASSUME NEW b \in 0..c - 1 PROVE (a + b) % c = b
  <2>1. a + b \in Int /\ a + b = q * c + b
    BY <1>1, <1>2
  <2>2. QED
    BY <1>1, <1>2, <2>1, ModUnique
<1>4. (a + c) % c = 0
  <2> DEFINE z == 0
             p == q + 1
  <2>1. a + c \in Int /\ p \in Int /\ a + c = p * c + z /\ z \in 0..c - 1
    BY <1>1, <1>2
  <2> HIDE DEF z, p
  <2>2. (a + c) % c = z
    BY <1>1, <2>1, ModUnique
  <2>3. QED
    BY <2>2 DEF z
<1>5. QED
  BY <1>3, <1>4 DEF c

LEMMA TransferKept ==
  ASSUME NEW r, Accounted(r), NEW n \in 0..STREAMING_CHUNK_SIZE, NEW k \in Outcomes
  PROVE  /\ Transfer(r, n, k) \in Requests /\ StartsOfFile(Transfer(r, n, k))
         /\ Transfer(r, n, k).asked = r.asked \cup r.at..r.at + n - 1
         /\ Transfer(r, n, k).at = r.at /\ Transfer(r, n, k).left = r.left
         /\ Transfer(r, n, k).want = r.want /\ Transfer(r, n, k).done = r.done
<1> DEFINE t == Transfer(r, n, k)
           e == IF k < n THEN k ELSE n
           handed == {r.at + b : b \in 0..n - 1}
           came == {<<r.at + b, b>> : b \in 0..e - 1}
<1>1. r \in Requests /\ r.at \in Nat /\ n \in Nat /\ k \in Nat /\ e \in Nat /\ e <= n
  BY PipeNumbers DEF Accounted, Requests, Outcomes
<1>2. handed = r.at..r.at + n - 1
  <2>1. ASSUME NEW x \in r.at..r.at + n - 1 PROVE x \in handed
    <3>1. x - r.at \in 0..n - 1 /\ x = r.at + (x - r.at)
      BY <1>1, <2>1
    <3>2. QED
      BY <3>1
  <2>2. ASSUME NEW b \in 0..n - 1 PROVE r.at + b \in r.at..r.at + n - 1
    BY <1>1
  <2>3. QED
    BY <2>1, <2>2
<1>3. came \subseteq Nat \X Nat
  <2>1. ASSUME NEW b \in 0..e - 1 PROVE r.at + b \in Nat /\ b \in Nat
    BY <1>1
  <2>2. QED
    BY <2>1
<1>4. handed \subseteq Nat
  BY <1>1
<1>5. ASSUME NEW m \in came
      PROVE  m[1] \in handed /\ m[2] = m[1] % STREAMING_CHUNK_SIZE
  <2>1. PICK b \in 0..e - 1 : m = <<r.at + b, b>>
    BY <1>5
  <2>2. b \in 0..n - 1 /\ b \in 0..STREAMING_CHUNK_SIZE - 1
    BY <1>1, PipeNumbers
  <2>3. QED
    BY <1>1, <2>1, <2>2, PieceBytes DEF Accounted
<1> HIDE DEF handed, came
<1>6. t = [r EXCEPT !.asked = r.asked \cup handed, !.moved = r.moved \cup came]
  BY <1>1 DEF Transfer, handed, came
<1>7. /\ t \in Requests /\ t.asked = r.asked \cup handed /\ t.moved = r.moved \cup came
      /\ t.at = r.at /\ t.left = r.left /\ t.want = r.want /\ t.done = r.done
  BY <1>1, <1>3, <1>4, <1>6 DEF Requests
<1>8. StartsOfFile(t)
  BY <1>5, <1>7 DEF Accounted, StartsOfFile
<1>9. QED
  BY <1>2, <1>7, <1>8

(* Also of a request that is done, whose last piece is moved again.        *)
LEMMA AdvanceAccounted ==
  ASSUME NEW r, Accounted(r), NEW k \in Outcomes
  PROVE  Accounted(advance_chunk(r, k)) /\ advance_chunk(r, k) \in Requests
<1> DEFINE a == advance_chunk(r, k)
           t == Transfer(r, Piece(r), k)
           c == STREAMING_CHUNK_SIZE
<1>1. /\ r \in Requests /\ r.left \in Nat /\ r.at \in Nat /\ r.want \in Nat
      /\ r.at + r.left = r.want /\ r.done \in BOOLEAN /\ c \in Nat /\ c >= 1
  BY PipeNumbers DEF Accounted, Requests
<1>2. Piece(r) \in 0..c /\ Piece(r) = (IF r.left <= c THEN r.left ELSE c)
  BY <1>1 DEF Piece
<1>3. /\ t \in Requests /\ StartsOfFile(t) /\ t.asked = r.asked \cup r.at..r.at + Piece(r) - 1
      /\ t.at = r.at /\ t.left = r.left /\ t.want = r.want /\ t.done = r.done
  BY <1>2, TransferKept
<1> HIDE DEF t
<1>4. CASE r.left <= c
  <2>1. a = [t EXCEPT !.done = TRUE]
    BY <1>4 DEF advance_chunk, t
  <2>2. /\ a \in Requests /\ a.done /\ a.left = t.left /\ a.at = t.at /\ a.want = t.want
        /\ a.asked = t.asked /\ a.moved = t.moved
    BY <1>3, <2>1 DEF Requests
  <2>3. StartsOfFile(a)
    BY <1>3, <2>2 DEF StartsOfFile
  <2>4. r.asked \cup r.at..r.at + r.left - 1 = 0..r.want - 1
    <3>1. CASE r.done
      BY <1>1, <3>1 DEF Accounted
    <3>2. CASE ~r.done
      BY <1>1, <3>2 DEF Accounted
    <3>3. QED
      BY <1>1, <3>1, <3>2
  <2> HIDE DEF a
  <2>5. QED
    BY <1>2, <1>3, <1>4, <2>2, <2>3, <2>4 DEF Accounted, a
<1>5. CASE ~(r.left <= c)
  <2>1. ~r.done /\ r.asked = 0..r.at - 1
    BY <1>5 DEF Accounted
  <2>2. a = [t EXCEPT !.left = t.left - c, !.at = t.at + c]
    BY <1>3, <1>5 DEF advance_chunk, t, Requests
  <2>3. r.left - c \in Nat /\ r.at + c \in Nat /\ (r.at + c) + (r.left - c) = r.want
    BY <1>1, <1>5
  <2>4. /\ a \in Requests /\ ~a.done /\ a.left = r.left - c /\ a.at = r.at + c /\ a.want = r.want
        /\ a.asked = t.asked /\ a.moved = t.moved
    BY <1>3, <2>1, <2>2, <2>3 DEF Requests
  <2>5. StartsOfFile(a)
    BY <1>3, <2>4 DEF StartsOfFile
  <2>6. r.asked \cup r.at..r.at + c - 1 = 0..(r.at + c) - 1
    BY <1>1, <2>1
  <2>7. (r.at + c) % c = 0
    BY <1>1, PieceBytes DEF Accounted
  <2> HIDE DEF a
  <2>8. QED
    BY <1>2, <1>3, <1>5, <2>3, <2>4, <2>5, <2>6, <2>7 DEF Accounted, a
<1>6. QED
  BY <1>4, <1>5

LEMMA ClosedPipe ==
  /\ PipeClosed \in [open : BOOLEAN, tail : Nat, hung : BOOLEAN, queue : [QueueSlots -> Requests]]
  /\ \A i \in QueueSlots : Accounted(PipeClosed.queue[i])
BY NewRequest DEF PipeClosed, QueueSlots

LEMMA NextKeepsPipe == PipeInv /\ [AsmNext]_asmVars => PipeInv'
<1> SUFFICES ASSUME PipeInv, [AsmNext]_asmVars PROVE PipeInv'
  OBVIOUS
<1>1. PipeNext \/ pipe' = PipeClosed \/ UNCHANGED pipe
  BY PipeSteps
<1>2. CASE pipe' = PipeClosed
  BY <1>2, ClosedPipe DEF PipeInv
<1>3. CASE UNCHANGED pipe
  BY <1>3 DEF PipeInv
<1>4. CASE stream_open
  <2>1. pipe'.queue = PipeClosed.queue
    BY <1>4 DEF stream_open, PipeClosed
  <2>2. pipe' \in [open : BOOLEAN, tail : Nat, hung : BOOLEAN, queue : [QueueSlots -> Requests]]
    BY <1>4, ClosedPipe DEF stream_open, PipeClosed
  <2>3. QED
    BY <2>1, <2>2, ClosedPipe DEF PipeInv
<1>5. ASSUME NEW q \in [QueueSlots -> Requests], NEW t \in Nat, NEW h \in BOOLEAN,
             pipe' = [pipe EXCEPT !.queue = q, !.tail = t, !.hung = h],
             \A i \in QueueSlots : Accounted(q[i])
      PROVE  PipeInv'
  <2>1. pipe'.queue = q /\ pipe' \in [open : BOOLEAN, tail : Nat, hung : BOOLEAN,
                                       queue : [QueueSlots -> Requests]]
    BY <1>5 DEF PipeInv
  <2>2. QED
    BY <1>5, <2>1 DEF PipeInv
<1>6. /\ pipe.queue \in [QueueSlots -> Requests] /\ pipe.tail \in Nat /\ pipe.hung \in BOOLEAN
      /\ \A i \in QueueSlots : Accounted(pipe.queue[i])
      /\ pipe \in [open : BOOLEAN, tail : Nat, hung : BOOLEAN, queue : [QueueSlots -> Requests]]
  BY DEF PipeInv
<1>7. ASSUME NEW i \in QueueSlots, NEW r \in Requests, Accounted(r)
      PROVE  /\ [pipe.queue EXCEPT ![i] = r] \in [QueueSlots -> Requests]
             /\ \A j \in QueueSlots : Accounted([pipe.queue EXCEPT ![i] = r][j])
  BY <1>6, <1>7
<1>8. ASSUME NEW n \in Lengths, stream_async(n) PROVE PipeInv'
  <2>1. pipe.tail \in QueueSlots /\ pipe.tail + 1 \in Nat
    BY <1>6, <1>8, PipeNumbers DEF stream_async, QueueSlots
  <2>2. Accounted(Request(n)) /\ Request(n) \in Requests
    BY NewRequest, PipeNumbers
  <2>3. pipe' = [pipe EXCEPT !.queue = [pipe.queue EXCEPT ![pipe.tail] = Request(n)],
                             !.tail = pipe.tail + 1, !.hung = pipe.hung]
    BY <1>6, <1>8 DEF stream_async
  <2> DEFINE q == [pipe.queue EXCEPT ![pipe.tail] = Request(n)]
  <2>6. q \in [QueueSlots -> Requests] /\ \A j \in QueueSlots : Accounted(q[j])
    BY <1>7, <2>1, <2>2
  <2> HIDE DEF q
  <2>7. QED
    BY <1>5, <1>6, <2>1, <2>3, <2>6 DEF q
<1>9. ASSUME NEW n \in Lengths, stream_sync(n) PROVE PipeInv'
  <2>1. 0 \in QueueSlots /\ n \in Nat
    BY PipeNumbers DEF QueueSlots
  <2>2. Accounted(Request(n)) /\ Request(n) \in Requests
    BY <2>1, NewRequest
  <2>3. pipe' = [pipe EXCEPT !.queue = [pipe.queue EXCEPT ![0] = Request(n)],
                             !.tail = pipe.tail, !.hung = (n > 0)]
    BY <1>6, <1>9 DEF stream_sync
  <2>4. (n > 0) \in BOOLEAN
    OBVIOUS
  <2> DEFINE q == [pipe.queue EXCEPT ![0] = Request(n)]
  <2>6. q \in [QueueSlots -> Requests] /\ \A j \in QueueSlots : Accounted(q[j])
    BY <1>7, <2>1, <2>2
  <2> HIDE DEF q
  <2>7. QED
    BY <1>5, <1>6, <2>1, <2>3, <2>6, <2>4 DEF q
<1>10. CASE SyncPass
  <2>1. 0 \in QueueSlots
    BY PipeNumbers DEF QueueSlots
  <2>4. PICK k \in Outcomes : pipe' = [pipe EXCEPT !.queue[0] = advance_chunk(@, k)]
    BY <1>10 DEF SyncPass
  <2> DEFINE r == advance_chunk(pipe.queue[0], k)
  <2>2. Accounted(r) /\ r \in Requests
    BY <1>6, <2>1, AdvanceAccounted
  <2>3. pipe' = [pipe EXCEPT !.queue = [pipe.queue EXCEPT ![0] = r],
                             !.tail = pipe.tail, !.hung = pipe.hung]
    BY <1>6, <2>4
  <2> HIDE DEF r
  <2> DEFINE q == [pipe.queue EXCEPT ![0] = r]
  <2>6. q \in [QueueSlots -> Requests] /\ \A j \in QueueSlots : Accounted(q[j])
    BY <1>7, <2>1, <2>2
  <2> HIDE DEF q
  <2>7. QED
    BY <1>5, <1>6, <2>1, <2>3, <2>6 DEF q
<1>11. CASE stream_poll
  <2>5. PICK k \in [QueueSlots -> Outcomes] :
          pipe' = [pipe EXCEPT !.queue =
                     [i \in DOMAIN @ |-> IF i < pipe.tail /\ ~@[i].done
                                         THEN advance_chunk(@[i], k[i]) ELSE @[i]]]
    BY <1>6, <1>11 DEF stream_poll
  <2> DEFINE q == [i \in QueueSlots |-> IF i < pipe.tail /\ ~pipe.queue[i].done
                                        THEN advance_chunk(pipe.queue[i], k[i]) ELSE pipe.queue[i]]
  <2>1. ASSUME NEW i \in QueueSlots PROVE Accounted(q[i]) /\ q[i] \in Requests
    <3>1. k[i] \in Outcomes /\ Accounted(pipe.queue[i]) /\ pipe.queue[i] \in Requests
      BY <1>6
    <3>2. QED
      BY <3>1, AdvanceAccounted
  <2>2. pipe' = [pipe EXCEPT !.queue = q, !.tail = pipe.tail, !.hung = pipe.hung]
    BY <1>6, <2>5
  <2>3. q \in [QueueSlots -> Requests]
    BY <2>1
  <2> HIDE DEF q
  <2>4. QED
    BY <1>5, <1>6, <2>1, <2>2, <2>3
<1>12. QED
  BY <1>1, <1>2, <1>3, <1>4, <1>8, <1>9, <1>10, <1>11 DEF PipeNext, stream_close

(* The capture of streaming.c, its sizes as functions of the quality.      *)
LEMMA FrameSteps == [AsmNext]_asmVars => FramesNext \/ frames' = FramesOff \/ UNCHANGED frames
BY DEF AsmNext, PlayGame, DrawScreen, UseWire, UseTables, UseDisk, Reset, asmVars, wire

WidthOf(low) == IF low THEN FRAME_W \div 2 ELSE FRAME_W
HeightOf(low) == IF low THEN FRAME_H \div 2 ELSE FRAME_H
TotalOf(low) == WidthOf(low) * HeightOf(low)
ChunksOf(total) == (total + FRAME_CHUNK_PAYLOAD - 1) \div FRAME_CHUNK_PAYLOAD
CopiedOf(total, offset) ==
  IF offset + FRAME_CHUNK_PAYLOAD > total THEN total - offset ELSE FRAME_CHUNK_PAYLOAD

(* How far a frame of total bytes is.                                      *)
SentTo(total, chunk, offset) ==
  /\ chunk <= ChunksOf(total)
  /\ offset = IF chunk < ChunksOf(total) THEN chunk * FRAME_CHUNK_PAYLOAD ELSE total

LEMMA FrameNumbers ==
  /\ FRAME_W \in Nat /\ FRAME_H \in Nat
  /\ FRAME_CHUNK_PAYLOAD \in Nat /\ FRAME_CHUNK_PAYLOAD >= 1
BY StreamingAssumption

LEMMA Half ==
  ASSUME NEW n \in Nat
  PROVE  n \div 2 \in Nat /\ 2 * (n \div 2) <= n
OBVIOUS

LEMMA SizesTyped ==
  ASSUME NEW low \in BOOLEAN
  PROVE  WidthOf(low) \in Nat /\ HeightOf(low) \in Nat /\ TotalOf(low) \in Nat
<1>1. WidthOf(low) \in Nat /\ HeightOf(low) \in Nat
  BY FrameNumbers, Half DEF WidthOf, HeightOf
<1>2. \A a, b \in Nat : a * b \in Nat
  OBVIOUS
<1>3. QED
  BY <1>1, <1>2 DEF TotalOf

(* The chunks are as many as it takes, and none begins past the end.       *)
LEMMA ChunksCover ==
  ASSUME NEW total \in Nat
  PROVE  /\ ChunksOf(total) \in Nat
         /\ \A c \in Nat : c < ChunksOf(total) <=> c * FRAME_CHUNK_PAYLOAD < total
<1> DEFINE P == FRAME_CHUNK_PAYLOAD
           n == ChunksOf(total)
           rest == (total + P - 1) % P
<1>1. P \in Nat /\ P >= 1 /\ total + P - 1 \in Nat
  BY FrameNumbers
<1>2. n \in Int /\ total + P - 1 = P * n + rest /\ rest \in 0..(P - 1)
  BY <1>1 DEF ChunksOf
<1> HIDE DEF P, n, rest
<1>3. n >= 0
  <2>1. SUFFICES ASSUME n <= -1 PROVE FALSE
    BY <1>2
  <2>2. P * n <= -P
    BY <1>1, <1>2, <2>1
  <2>3. QED
    BY <1>1, <1>2, <2>2
<1>4. ASSUME NEW c \in Nat PROVE c < n <=> c * P < total
  <2>1. CASE c < n
    <3>1. c * P <= P * n - P
      <4>1. c <= n - 1
        BY <1>2, <2>1
      <4>2. P * c <= P * (n - 1)
        BY <1>1, <1>2, <4>1
      <4>3. P * (n - 1) = P * n - P /\ P * c = c * P
        BY <1>1, <1>2
      <4>4. QED
        BY <4>2, <4>3
    <3>2. c * P \in Int /\ P * n \in Int
      BY <1>1, <1>2
    <3>3. QED
      BY <1>1, <1>2, <2>1, <3>1, <3>2
  <2>2. CASE c >= n
    <3>1. c * P >= P * n
      BY <1>1, <1>2, <2>2
    <3>2. c * P \in Int /\ P * n \in Int
      BY <1>1, <1>2
    <3>3. QED
      BY <1>1, <1>2, <2>2, <3>1, <3>2
  <2>3. QED
    BY <1>2, <2>1, <2>2
<1>5. QED
  BY <1>2, <1>3, <1>4 DEF n, P

LEMMA ChunkSent ==
  ASSUME NEW total \in Nat, NEW chunk \in Nat, NEW offset \in Nat,
         SentTo(total, chunk, offset), chunk < ChunksOf(total)
  PROVE  /\ CopiedOf(total, offset) \in 1..FRAME_CHUNK_PAYLOAD
         /\ offset + CopiedOf(total, offset) \in 0..total
         /\ SentTo(total, chunk + 1, offset + CopiedOf(total, offset))
<1> DEFINE P == FRAME_CHUNK_PAYLOAD
           n == ChunksOf(total)
<1>1. P \in Nat /\ P >= 1 /\ n \in Nat
  BY FrameNumbers, ChunksCover
<1>2. offset = chunk * P /\ offset < total
  BY ChunksCover DEF SentTo
<1>3. (chunk + 1) * P = offset + P
  BY <1>1, <1>2
<1>4. chunk + 1 < n <=> offset + P < total
  <2>1. chunk + 1 \in Nat
    OBVIOUS
  <2>2. chunk + 1 < n <=> (chunk + 1) * P < total
    BY <2>1, ChunksCover
  <2>3. QED
    BY <1>3, <2>2
<1> HIDE DEF P, n
<1>5. CASE offset + P > total
  <2>1. CopiedOf(total, offset) = total - offset
    BY <1>5 DEF CopiedOf, P
  <2>2. total - offset \in 1..P /\ offset + (total - offset) = total /\ ~(chunk + 1 < n)
    BY <1>1, <1>2, <1>4, <1>5
  <2>3. QED
    BY <1>1, <2>1, <2>2 DEF SentTo, n, P
<1>6. CASE ~(offset + P > total)
  <2>1. CopiedOf(total, offset) = P
    BY <1>6 DEF CopiedOf, P
  <2>2. P \in 1..P /\ offset + P \in 0..total /\ (~(chunk + 1 < n) => offset + P = total)
    BY <1>1, <1>2, <1>4, <1>6
  <2>3. chunk + 1 <= n
    BY <1>1 DEF n
  <2>4. QED
    BY <1>3, <2>1, <2>2, <2>3 DEF SentTo, n, P
<1>7. QED
  BY <1>5, <1>6

(* Every byte of a frame is a byte of the framebuffer.                     *)
LEMMA SourceInside ==
  ASSUME NEW low \in BOOLEAN, NEW b \in Nat, b < TotalOf(low)
  PROVE  (IF low THEN (b \div WidthOf(low)) * 2 * FRAME_W + (b % WidthOf(low)) * 2 ELSE b)
           \in 0..(FRAME_W * FRAME_H - 1)
<1>1. CASE ~low
  BY <1>1, FrameNumbers DEF TotalOf, WidthOf, HeightOf
<1>2. CASE low
  <2> DEFINE w == FRAME_W \div 2
             h == FRAME_H \div 2
             row == b \div w
             col == b % w
  <2>1. /\ w \in Nat /\ h \in Nat /\ 2 * w <= FRAME_W /\ 2 * h <= FRAME_H
        /\ FRAME_W \in Nat /\ FRAME_H \in Nat
    BY FrameNumbers, Half
  <2>2. b < w * h /\ WidthOf(low) = w
    BY <1>2 DEF TotalOf, WidthOf, HeightOf
  <2> HIDE DEF w, h
  <2>3. w >= 1
    <3>1. SUFFICES ASSUME w = 0 PROVE FALSE
      BY <2>1
    <3>2. w * h = 0
      BY <2>1, <3>1
    <3>3. QED
      BY <2>2, <3>2
  <2>4. row \in Int /\ b = w * row + col /\ col \in 0..(w - 1)
    BY <2>1, <2>3
  <2> HIDE DEF row, col
  <2>5. row >= 0
    <3>1. SUFFICES ASSUME row <= -1 PROVE FALSE
      BY <2>4
    <3>2. w * row <= -w
      BY <2>1, <2>4, <3>1
    <3>3. QED
      BY <2>1, <2>4, <3>2
  <2>6. row <= h - 1
    <3>1. SUFFICES ASSUME row >= h PROVE FALSE
      BY <2>1, <2>4
    <3>2. w * row >= w * h
      BY <2>1, <2>4, <3>1
    <3>3. w * row \in Int /\ w * h \in Int
      BY <2>1, <2>4
    <3>4. QED
      BY <2>1, <2>2, <2>4, <3>2, <3>3
  <2>7. row * 2 * FRAME_W <= FRAME_W * FRAME_H - 2 * FRAME_W
    <3>1. row * 2 <= FRAME_H - 2 /\ row * 2 \in Int
      BY <2>1, <2>4, <2>6
    <3>2. (row * 2) * FRAME_W <= (FRAME_H - 2) * FRAME_W
      BY <2>1, <3>1
    <3>3. (FRAME_H - 2) * FRAME_W = FRAME_W * FRAME_H - 2 * FRAME_W
      BY <2>1
    <3>4. QED
      BY <3>2, <3>3
  <2>8. row * 2 * FRAME_W \in Nat /\ FRAME_W * FRAME_H \in Nat
    <3>1. row * 2 \in Nat
      BY <2>4, <2>5
    <3>2. \A x, y \in Nat : x * y \in Nat
      OBVIOUS
    <3>3. QED
      BY <2>1, <3>1, <3>2
  <2>9. col * 2 \in Nat /\ col * 2 < FRAME_W
    BY <2>1, <2>4
  <2>10. row * 2 * FRAME_W + col * 2 \in 0..(FRAME_W * FRAME_H - 1)
    <3> DEFINE u == row * 2 * FRAME_W
               v == FRAME_W * FRAME_H
    <3>1. u \in Nat /\ v \in Nat /\ u <= v - 2 * FRAME_W
      BY <2>7, <2>8
    <3> HIDE DEF u, v
    <3>2. u + col * 2 \in 0..(v - 1)
      BY <2>1, <2>9, <3>1
    <3>3. QED
      BY <3>2 DEF u, v
  <2>11. QED
    BY <1>2, <2>2, <2>10 DEF row, col
<1>3. QED
  BY <1>1, <1>2

FrameRecords == [init : BOOLEAN, running : BOOLEAN, low : BOOLEAN, passthrough : BOOLEAN, id : Nat,
                 sending : BOOLEAN, chunk : Nat, offset : Nat, complete : SUBSET Nat]

FramesInv ==
  /\ frames \in FrameRecords
  /\ frames.complete = 0..(frames.id - 1)
  /\ frames.sending => SentTo(TotalOf(frames.low), frames.chunk, frames.offset)

LEMMA FrameSizes ==
  /\ TotalBytes = TotalOf(frames.low) /\ FrameChunks = ChunksOf(TotalOf(frames.low))
  /\ FrameCopied = CopiedOf(TotalOf(frames.low), frames.offset)
BY DEF TotalBytes, FrameChunks, FrameCopied, FrameRest, effective_width, effective_height,
       TotalOf, ChunksOf, CopiedOf, WidthOf, HeightOf

(* The first chunk of a frame, if it has one.                              *)
LEMMA FrameBegins ==
  ASSUME NEW total \in Nat
  PROVE  SentTo(total, 0, 0)
<1>1. ChunksOf(total) \in Nat /\ (0 < ChunksOf(total) <=> 0 * FRAME_CHUNK_PAYLOAD < total)
  BY ChunksCover
<1>2. 0 * FRAME_CHUNK_PAYLOAD = 0
  BY FrameNumbers
<1>3. QED
  BY <1>1, <1>2 DEF SentTo

LEMMA NextKeepsFrames == FramesInv /\ [AsmNext]_asmVars => FramesInv'
<1> SUFFICES ASSUME FramesInv, [AsmNext]_asmVars PROVE FramesInv'
  OBVIOUS
<1>1. FramesNext \/ frames' = FramesOff \/ UNCHANGED frames
  BY FrameSteps
<1>2. /\ frames \in FrameRecords /\ frames.low \in BOOLEAN /\ frames.id \in Nat
      /\ frames.chunk \in Nat /\ frames.offset \in Nat /\ TotalOf(frames.low) \in Nat
      /\ frames.complete = 0..(frames.id - 1)
  BY SizesTyped DEF FramesInv, FrameRecords
<1>3. ASSUME frames' \in FrameRecords, ~frames'.sending, frames'.complete = 0..(frames'.id - 1)
      PROVE  FramesInv'
  BY <1>3 DEF FramesInv
<1>4. CASE frames' = FramesOff \/ streaming_init
  <2>0. /\ FramesOff \in FrameRecords /\ ~FramesOff.sending /\ FramesOff.id = 0
        /\ FramesOff.complete = {}
    BY DEF FramesOff, FrameRecords
  <2>1. frames' \in FrameRecords /\ ~frames'.sending /\ frames'.id = 0 /\ frames'.complete = {}
    <3>1. CASE frames' = FramesOff
      BY <2>0, <3>1
    <3>2. CASE streaming_init
      BY <2>0, <3>2 DEF streaming_init, FrameRecords
    <3>3. QED
      BY <1>4, <3>1, <3>2
  <2>2. 0..(0 - 1) = {}
    OBVIOUS
  <2>3. QED
    BY <1>3, <2>1, <2>2
<1>5. CASE UNCHANGED frames
  BY <1>5 DEF FramesInv
<1>6. CASE streaming_start
  <2>1. frames' \in FrameRecords /\ ~frames'.sending /\ frames'.id = 0 /\ frames'.complete = {}
    BY <1>2, <1>6 DEF streaming_start, FrameRecords
  <2>2. 0..(0 - 1) = {}
    OBVIOUS
  <2>3. QED
    BY <1>3, <2>1, <2>2
<1>7. ASSUME streaming_stop \/ \E b \in BOOLEAN : streaming_set_quality(b) \/ streaming_set_passthrough(b)
      PROVE  FramesInv'
  <2>1. /\ frames' \in FrameRecords /\ ~frames'.sending /\ frames'.id = frames.id
        /\ frames'.complete = frames.complete
    BY <1>2, <1>7 DEF streaming_stop, streaming_set_quality, streaming_set_passthrough, FrameRecords
  <2>2. QED
    BY <1>2, <1>3, <2>1
<1>8. CASE streaming_capture_and_send
  <2>1. /\ frames' \in FrameRecords /\ frames'.id = frames.id /\ frames'.complete = frames.complete
        /\ frames'.low = frames.low /\ frames'.chunk = 0 /\ frames'.offset = 0
    BY <1>2, <1>8 DEF streaming_capture_and_send, FrameRecords
  <2>2. QED
    BY <1>2, <2>1, FrameBegins DEF FramesInv
<1>9. ASSUME NEW sent \in BOOLEAN, FrameChunk(sent) PROVE FramesInv'
  <2> DEFINE total == TotalOf(frames.low)
             copied == CopiedOf(total, frames.offset)
  <2>1. /\ total \in Nat /\ SentTo(total, frames.chunk, frames.offset)
        /\ frames.chunk < ChunksOf(total) /\ frames.sending
    BY <1>2, <1>9, FrameSizes DEF FrameChunk, FramesInv
  <2>2. CASE sent
    <3>1. /\ copied \in 1..FRAME_CHUNK_PAYLOAD /\ frames.offset + copied \in 0..total
          /\ SentTo(total, frames.chunk + 1, frames.offset + copied)
      BY <1>2, <2>1, ChunkSent
    <3>2. frames.offset + copied \in Nat /\ frames.chunk + 1 \in Nat
      BY <1>2, <3>1
    <3>3. frames' = [frames EXCEPT !.chunk = frames.chunk + 1, !.offset = frames.offset + copied]
      BY <1>9, <2>2, FrameSizes DEF FrameChunk
    <3> HIDE DEF copied, total
    <3>4. /\ frames' \in FrameRecords /\ frames'.id = frames.id /\ frames'.complete = frames.complete
          /\ frames'.low = frames.low /\ frames'.chunk = frames.chunk + 1
          /\ frames'.offset = frames.offset + copied
      BY <1>2, <3>2, <3>3 DEF FrameRecords
    <3>5. QED
      BY <1>2, <3>1, <3>4 DEF FramesInv, total
  <2>3. CASE ~sent
    <3>1. /\ frames' \in FrameRecords /\ ~frames'.sending /\ frames'.id = frames.id
          /\ frames'.complete = frames.complete
      BY <1>2, <1>9, <2>3 DEF FrameChunk, FrameRecords
    <3>2. QED
      BY <1>2, <1>3, <3>1
  <2>4. QED
    BY <2>2, <2>3
<1>10. CASE FrameEnd
  <2>1. frames.offset = TotalBytes
    <3>1. /\ SentTo(TotalOf(frames.low), frames.chunk, frames.offset)
          /\ frames.chunk >= ChunksOf(TotalOf(frames.low)) /\ ChunksOf(TotalOf(frames.low)) \in Nat
      BY <1>2, <1>10, FrameSizes, ChunksCover DEF FrameEnd, FramesInv
    <3>2. QED
      BY <1>2, <3>1, FrameSizes DEF SentTo
  <2>2. frames' = [frames EXCEPT !.sending = FALSE, !.chunk = 0, !.offset = 0, !.id = frames.id + 1,
                                 !.complete = frames.complete \cup {frames.id}]
    BY <1>10, <2>1 DEF FrameEnd
  <2>3. /\ frames' \in FrameRecords /\ ~frames'.sending /\ frames'.id = frames.id + 1
        /\ frames'.complete = frames.complete \cup {frames.id}
    <3> DEFINE n == frames.id + 1
               c == frames.complete \cup {frames.id}
    <3>1. n \in Nat
      BY <1>2
    <3>2. c \in SUBSET Nat
      BY <1>2 DEF FrameRecords
    <3> HIDE DEF n, c
    <3>3. frames' = [frames EXCEPT !.sending = FALSE, !.chunk = 0, !.offset = 0, !.id = n,
                                   !.complete = c]
      BY <2>2 DEF n, c
    <3>4. frames' \in FrameRecords /\ ~frames'.sending /\ frames'.id = n /\ frames'.complete = c
      BY <1>2, <3>1, <3>2, <3>3 DEF FrameRecords
    <3>5. QED
      BY <3>4 DEF n, c
  <2>4. 0..((frames.id + 1) - 1) = (0..(frames.id - 1)) \cup {frames.id}
    BY <1>2
  <2>5. QED
    BY <1>2, <1>3, <2>3, <2>4
<1>11. QED
  BY <1>1, <1>4, <1>5, <1>6, <1>7, <1>8, <1>9, <1>10 DEF FramesNext

LEMMA FramesAreWhole == ASSUME FramesInv PROVE FramesWhole
<1>1. /\ frames.low \in BOOLEAN /\ frames.id \in Nat /\ frames.chunk \in Nat
      /\ frames.offset \in Nat /\ TotalOf(frames.low) \in Nat
  BY SizesTyped DEF FramesInv, FrameRecords
<1>2. ASSUME frames.sending
      PROVE  frames.offset = (IF frames.chunk < FrameChunks THEN frames.chunk * FRAME_CHUNK_PAYLOAD
                              ELSE TotalBytes)
  BY <1>2, FrameSizes DEF FramesInv, SentTo
<1>3. ASSUME frames.sending, frames.chunk < FrameChunks
      PROVE  /\ FrameCopied \in 1..FRAME_CHUNK_PAYLOAD
             /\ FrameSource(frames.offset, frames.offset + FrameCopied - 1)
                  \subseteq 0..FRAME_W * FRAME_H - 1
  <2>1. /\ FrameCopied \in 1..FRAME_CHUNK_PAYLOAD
        /\ frames.offset + FrameCopied \in 0..TotalOf(frames.low)
    BY <1>1, <1>3, FrameSizes, ChunkSent DEF FramesInv
  <2>2. ASSUME NEW b \in frames.offset..(frames.offset + FrameCopied - 1)
        PROVE  (IF frames.low THEN (b \div effective_width) * 2 * FRAME_W + (b % effective_width) * 2
                ELSE b) \in 0..(FRAME_W * FRAME_H - 1)
    <3>1. b \in Nat /\ b < TotalOf(frames.low)
      BY <1>1, <2>1, FrameNumbers
    <3>2. effective_width = WidthOf(frames.low)
      BY DEF effective_width, WidthOf
    <3>3. QED
      BY <1>1, <3>1, <3>2, SourceInside
  <2>3. QED
    BY <2>1, <2>2 DEF FrameSource
<1>4. QED
  BY <1>2, <1>3 DEF FramesWhole, FramesInv

(* stream_poll and the synchronous calls, also the one that never returns, *)
(* keep to the caller's buffers, call a request done only after every byte *)
(* of it was handed to a transfer, and what moved is the start of the file *)
(* chunk after chunk; streaming_capture_and_send sends frames without gap. *)
(* For every frame size, chunk size, request and result of a transfer.     *)
THEOREM StreamsWhole == AsmSpec => []StreamSound
<1>1. AsmInit => PipeInv
  BY ClosedPipe DEF AsmInit, PipeInit, PipeInv
<1>2. AsmInit => FramesInv
  <2> SUFFICES ASSUME AsmInit PROVE FramesInv
    OBVIOUS
  <2>1. frames \in FrameRecords /\ ~frames.sending /\ frames.id = 0 /\ frames.complete = {}
    BY DEF AsmInit, FramesInit, FramesOff, FrameRecords
  <2>2. 0..(0 - 1) = {}
    OBVIOUS
  <2>3. QED
    BY <2>1, <2>2 DEF FramesInv
<1>3. PipeInv => BuffersCovered
  <2> SUFFICES ASSUME PipeInv, NEW i \in QueueSlots
               PROVE  LET r == pipe.queue[i]
                      IN  /\ r.asked \subseteq 0..r.want - 1
                          /\ r.done => r.asked = 0..r.want - 1
                          /\ StartsOfFile(r)
    BY DEF PipeInv, BuffersCovered, StartsOfFile
  <2> DEFINE r == pipe.queue[i]
  <2>1. Accounted(r) /\ r.at \in Nat /\ r.left \in Nat /\ r.want \in Nat /\ r.done \in BOOLEAN
    BY DEF PipeInv, Requests
  <2> HIDE DEF r
  <2>2. 0..r.at - 1 \subseteq 0..r.want - 1
    BY <2>1 DEF Accounted
  <2>3. QED
    BY <2>1, <2>2 DEF Accounted, r
<1>4. PipeInv /\ FramesInv => StreamSound
  BY <1>3, FramesAreWhole DEF StreamSound
<1>5. QED
  BY <1>1, <1>2, <1>4, NextKeepsPipe, NextKeepsFrames, PTL DEF AsmSpec
-------------------------------------------------------------------------------
(* The receive ring of udp.c as a bounded queue.                           *)
LEMMA RingNumbers ==
  /\ RX_SLOTS \in Nat /\ RX_SLOTS >= 2
  /\ \A i \in RxSlots : RingNext(i) = (IF i = RX_SLOTS - 1 THEN 0 ELSE i + 1) /\ RingNext(i) \in RxSlots
<1>1. RX_SLOTS \in Nat /\ RX_SLOTS >= 2
  BY RingAssumption
<1>2. ASSUME NEW i \in RxSlots
      PROVE  RingNext(i) = (IF i = RX_SLOTS - 1 THEN 0 ELSE i + 1) /\ RingNext(i) \in RxSlots
  <2>1. CASE i = RX_SLOTS - 1
    BY <1>1, <2>1 DEF RxSlots, RingNext
  <2>2. CASE i # RX_SLOTS - 1
    BY <1>1, <2>2 DEF RxSlots, RingNext
  <2>3. QED
    BY <2>1, <2>2
<1>3. QED
  BY <1>1, <1>2

(* The arithmetic of head and tail on a ring of N slots: u follows t.      *)
LEMMA Follows ==
  ASSUME NEW N \in Nat, N >= 2, NEW h \in Nat, h < N, NEW t \in Nat, t < N,
         NEW u \in Nat, t = N - 1 => u = 0, t # N - 1 => u = t + 1
  PROVE  /\ u < N
         /\ u = h /\ t >= h => t - h = N - 1
         /\ u = h /\ ~(t >= h) => t + N - h = N - 1
         /\ t >= h /\ t - h = N - 1 => u = h
         /\ ~(t >= h) /\ t + N - h = N - 1 => u = h
         /\ u # h /\ t >= h /\ u >= h => u - h = t - h + 1
         /\ u # h /\ t >= h /\ ~(u >= h) => u + N - h = t - h + 1
         /\ u # h /\ ~(t >= h) => ~(u >= h)
<1>1. CASE t = N - 1
  BY <1>1
<1>2. CASE t # N - 1
  BY <1>2
<1>3. QED
  BY <1>1, <1>2

LEMMA RingTyped ==
  ASSUME NEW r \in Ring
  PROVE  /\ r.head \in Nat /\ r.head < RX_SLOTS /\ r.tail \in Nat /\ r.tail < RX_SLOTS
         /\ RingNext(r.head) \in Nat /\ RingNext(r.tail) \in Nat
         /\ r.head = RX_SLOTS - 1 => RingNext(r.head) = 0
         /\ r.head # RX_SLOTS - 1 => RingNext(r.head) = r.head + 1
         /\ r.tail = RX_SLOTS - 1 => RingNext(r.tail) = 0
         /\ r.tail # RX_SLOTS - 1 => RingNext(r.tail) = r.tail + 1
<1>1. r.head \in RxSlots /\ r.tail \in RxSlots
  BY DEF Ring
<1>2. RingNext(r.head) \in RxSlots /\ RingNext(r.tail) \in RxSlots
  BY <1>1, RingNumbers
<1>3. ASSUME NEW i \in RxSlots PROVE i \in Nat /\ i < RX_SLOTS
  BY RingNumbers DEF RxSlots
<1>4. /\ RingNext(r.head) = (IF r.head = RX_SLOTS - 1 THEN 0 ELSE r.head + 1)
      /\ RingNext(r.tail) = (IF r.tail = RX_SLOTS - 1 THEN 0 ELSE r.tail + 1)
  BY <1>1, RingNumbers
<1>5. QED
  BY <1>1, <1>2, <1>3, <1>4

LEMMA RingCounts ==
  ASSUME NEW r \in Ring
  PROVE  /\ RingLen(r) \in Nat /\ RingLen(r) < RX_SLOTS
         /\ RingEmpty(r) <=> RingLen(r) = 0
         /\ RingNext(r.tail) = r.head <=> RingLen(r) = RX_SLOTS - 1
<1> DEFINE h == r.head
           t == r.tail
           u == RingNext(r.tail)
           N == RX_SLOTS
<1>1. /\ h \in Nat /\ h < N /\ t \in Nat /\ t < N /\ u \in Nat
      /\ t = N - 1 => u = 0
      /\ t # N - 1 => u = t + 1
  BY RingTyped
<1>2. N \in Nat /\ N >= 2
  BY RingNumbers
<1>3. RingLen(r) = (IF t >= h THEN t - h ELSE t + N - h) /\ RingEmpty(r) = (h = t)
  BY DEF RingLen, RingEmpty
<1> HIDE DEF h, t, u, N
<1>4. CASE t >= h
  <2>1. RingLen(r) = t - h
    BY <1>3, <1>4
  <2>2. RingLen(r) \in Nat /\ RingLen(r) < N /\ (h = t <=> RingLen(r) = 0)
    BY <1>1, <1>2, <1>4, <2>1
  <2>3. u = h <=> RingLen(r) = N - 1
    BY <1>1, <1>2, <1>4, <2>1, Follows
  <2>4. QED
    BY <1>3, <2>2, <2>3 DEF h, t, u, N
<1>5. CASE ~(t >= h)
  <2>1. RingLen(r) = t + N - h
    BY <1>3, <1>5
  <2>2. RingLen(r) \in Nat /\ RingLen(r) < N /\ (h = t <=> RingLen(r) = 0)
    BY <1>1, <1>2, <1>5, <2>1
  <2>3. u = h <=> RingLen(r) = N - 1
    BY <1>1, <1>2, <1>5, <2>1, Follows
  <2>4. QED
    BY <1>3, <2>2, <2>3 DEF h, t, u, N
<1>6. QED
  BY <1>4, <1>5

(* The slot of the i-th waiting datagram, when h is the head of the ring.  *)
SlotOf(h, i) == IF h + i - 1 < RX_SLOTS THEN h + i - 1 ELSE h + i - 1 - RX_SLOTS

LEMMA SlotsOf ==
  ASSUME NEW r \in Ring
  PROVE  /\ \A i \in 1..RingLen(r) : SlotOf(r.head, i) \in RxSlots /\ SlotOf(r.head, i) # r.tail
         /\ SlotOf(r.head, RingLen(r) + 1) = r.tail
<1> DEFINE h == r.head
           t == r.tail
           N == RX_SLOTS
           n == RingLen(r)
<1>1. h \in Nat /\ h < N /\ t \in Nat /\ t < N /\ N \in Nat /\ N >= 2 /\ n \in Nat /\ n < N
  BY RingTyped, RingNumbers, RingCounts
<1>2. n = (IF t >= h THEN t - h ELSE t + N - h)
  BY DEF RingLen
<1>3. RxSlots = 0..(N - 1) /\ \A i : SlotOf(h, i) = IF h + i - 1 < N THEN h + i - 1 ELSE h + i - 1 - N
  BY DEF RxSlots, SlotOf
<1> HIDE DEF h, t, N, n
<1>4. t >= h => n = t - h
  BY <1>2
<1>5. ~(t >= h) => n = t + N - h
  BY <1>2
<1>6. ASSUME NEW i \in 1..n PROVE SlotOf(h, i) \in RxSlots /\ SlotOf(h, i) # t
  <2>1. i \in Nat /\ 1 <= i /\ i <= n
    BY <1>1
  <2>2. CASE h + i - 1 < N
    <3>1. SlotOf(h, i) = h + i - 1
      BY <1>3, <2>2
    <3>2. h + i - 1 \in 0..(N - 1) /\ h + i - 1 # t
      BY <1>1, <1>4, <1>5, <2>1, <2>2
    <3>3. QED
      BY <1>3, <3>1, <3>2
  <2>3. CASE ~(h + i - 1 < N)
    <3>1. SlotOf(h, i) = h + i - 1 - N
      BY <1>3, <2>3
    <3>2. h + i - 1 - N \in 0..(N - 1) /\ h + i - 1 - N # t
      BY <1>1, <1>4, <1>5, <2>1, <2>3
    <3>3. QED
      BY <1>3, <3>1, <3>2
  <2>4. QED
    BY <2>2, <2>3
<1>7. SlotOf(h, n + 1) = t
  <2>1. SlotOf(h, n + 1) = IF h + (n + 1) - 1 < N THEN h + (n + 1) - 1 ELSE h + (n + 1) - 1 - N
    BY <1>3
  <2>2. CASE t >= h
    <3>1. h + (n + 1) - 1 = t
      BY <1>1, <1>4, <2>2
    <3>2. QED
      BY <1>1, <2>1, <3>1
  <2>3. CASE ~(t >= h)
    <3>1. ~(h + (n + 1) - 1 < N) /\ h + (n + 1) - 1 - N = t
      BY <1>1, <1>5, <2>3
    <3>2. QED
      BY <2>1, <3>1
  <2>4. QED
    BY <2>2, <2>3
<1>8. QED
  BY <1>6, <1>7 DEF h, t, n

LEMMA RingAtSlot ==
  ASSUME NEW r, NEW i
  PROVE  RingAt(r, i) = r.slot[SlotOf(r.head, i)]
<1>1. CASE r.head + i - 1 < RX_SLOTS
  BY <1>1 DEF RingAt, SlotOf
<1>2. CASE ~(r.head + i - 1 < RX_SLOTS)
  BY <1>2 DEF RingAt, SlotOf
<1>3. QED
  BY <1>1, <1>2

LEMMA QueueTyped ==
  ASSUME NEW r \in Ring
  PROVE  /\ RingQueue(r) \in Seq(Datagram \cup {NoDatagram})
         /\ Len(RingQueue(r)) = RingLen(r)
         /\ \A i \in 1..RingLen(r) : RingQueue(r)[i] = r.slot[SlotOf(r.head, i)]
<1>1. r.slot \in [RxSlots -> Datagram \cup {NoDatagram}]
  BY DEF Ring
<1>2. RingLen(r) \in Nat
  BY RingCounts
<1>3. ASSUME NEW i \in 1..RingLen(r)
      PROVE  RingAt(r, i) = r.slot[SlotOf(r.head, i)] /\ RingAt(r, i) \in Datagram \cup {NoDatagram}
  BY <1>1, SlotsOf, RingAtSlot
<1>4. RingQueue(r) = [i \in 1..RingLen(r) |-> RingAt(r, i)]
  BY DEF RingQueue
<1>5. QED
  BY <1>2, <1>3, <1>4

(* ring_push appends, or drops what comes when the ring is full.           *)
LEMMA PushIsArrival ==
  ASSUME NEW r \in Ring, NEW d \in Datagram
  PROVE  /\ ring_push(r, d) \in Ring
         /\ RingQueue(ring_push(r, d)) = RxQueue!Arrived(RingQueue(r), d)
<1> DEFINE q == ring_push(r, d)
           n == RingLen(r)
           D == Datagram \cup {NoDatagram}
<1>1. /\ r.head \in RxSlots /\ r.tail \in RxSlots /\ r.slot \in [RxSlots -> D]
  BY DEF Ring
<1>2. /\ n \in Nat /\ n < RX_SLOTS /\ (RingNext(r.tail) = r.head <=> n = RX_SLOTS - 1)
      /\ RingQueue(r) \in Seq(D) /\ Len(RingQueue(r)) = n
  BY RingCounts, QueueTyped
<1>3. CASE RingNext(r.tail) = r.head
  <2>1. q = r /\ ~(Len(RingQueue(r)) < RX_SLOTS - 1)
    BY <1>2, <1>3, RingNumbers DEF ring_push
  <2>2. QED
    BY <2>1 DEF RxQueue!Arrived
<1>4. CASE RingNext(r.tail) # r.head
  <2>1. /\ q = [slot |-> [r.slot EXCEPT ![r.tail] = d], head |-> r.head, tail |-> RingNext(r.tail)]
        /\ RingNext(r.tail) \in RxSlots
    BY <1>1, <1>4, RingNumbers DEF ring_push
  <2>2. /\ q \in Ring /\ q.head = r.head /\ q.tail = RingNext(r.tail)
        /\ q.slot = [r.slot EXCEPT ![r.tail] = d]
    BY <1>1, <2>1 DEF Ring
  <2>3. RingLen(q) = n + 1
    <3> DEFINE h == r.head
               t == r.tail
               u == RingNext(r.tail)
               N == RX_SLOTS
    <3>1. /\ N \in Nat /\ N >= 2 /\ h \in Nat /\ h < N /\ t \in Nat /\ t < N /\ u \in Nat
          /\ t = N - 1 => u = 0
          /\ t # N - 1 => u = t + 1
      BY RingTyped, RingNumbers
    <3>2. /\ n = (IF t >= h THEN t - h ELSE t + N - h)
          /\ RingLen(q) = (IF u >= h THEN u - h ELSE u + N - h)
          /\ u # h
      BY <1>4, <2>2 DEF RingLen
    <3> HIDE DEF h, t, u, N, n, q
    <3>3. CASE t >= h
      BY <3>1, <3>2, <3>3, Follows
    <3>4. CASE ~(t >= h)
      <4>1. ~(u >= h) /\ u = t + 1
        BY <3>1, <3>2, <3>4
      <4>2. n = t + N - h /\ RingLen(q) = u + N - h
        BY <3>2, <3>4, <4>1
      <4>3. QED
        BY <3>1, <4>1, <4>2
    <3>5. QED
      BY <3>3, <3>4
  <2>4. RingQueue(q) \in Seq(D) /\ Len(RingQueue(q)) = n + 1
        /\ \A i \in 1..(n + 1) : RingQueue(q)[i] = q.slot[SlotOf(q.head, i)]
    BY <2>2, <2>3, QueueTyped
  <2>5. /\ \A i \in 1..n : /\ RingQueue(r)[i] = r.slot[SlotOf(r.head, i)]
                           /\ SlotOf(r.head, i) \in RxSlots /\ SlotOf(r.head, i) # r.tail
        /\ SlotOf(r.head, n + 1) = r.tail
    BY QueueTyped, SlotsOf
  <2> HIDE DEF q, n, D
  <2>6. /\ Append(RingQueue(r), d) \in Seq(D) /\ Len(Append(RingQueue(r), d)) = n + 1
        /\ \A i \in 1..n : Append(RingQueue(r), d)[i] = RingQueue(r)[i]
        /\ Append(RingQueue(r), d)[n + 1] = d
    <3>1. d \in D
      BY DEF D
    <3>2. QED
      BY <1>2, <3>1
  <2>7. ASSUME NEW i \in 1..(n + 1) PROVE RingQueue(q)[i] = Append(RingQueue(r), d)[i]
    <3>1. RingQueue(q)[i] = q.slot[SlotOf(r.head, i)]
      BY <2>2, <2>4
    <3>2. CASE i = n + 1
      <4>1. q.slot[r.tail] = d
        BY <1>1, <2>2
      <4>2. QED
        BY <2>5, <2>6, <3>1, <3>2, <4>1
    <3>3. CASE i # n + 1
      <4>1. i \in 1..n
        BY <1>2, <3>3
      <4>2. q.slot[SlotOf(r.head, i)] = r.slot[SlotOf(r.head, i)]
        BY <1>1, <2>2, <2>5, <4>1
      <4>3. QED
        BY <2>5, <2>6, <3>1, <4>1, <4>2
    <3>4. QED
      BY <3>2, <3>3
  <2>8. RingQueue(q) = Append(RingQueue(r), d)
    BY <2>4, <2>6, <2>7, SameSequence
  <2>9. Len(RingQueue(r)) < RX_SLOTS - 1
    BY <1>2, <1>4, RingNumbers
  <2>10. QED
    BY <2>2, <2>8, <2>9 DEF RxQueue!Arrived, q
<1>5. QED
  BY <1>3, <1>4

(* net_udp_recv takes the oldest.                                          *)
LEMMA PopIsRead ==
  ASSUME NEW r \in Ring, ~RingEmpty(r)
  PROVE  /\ RingPop(r) \in Ring /\ RingQueue(r) # <<>>
         /\ RingQueue(RingPop(r)) = Tail(RingQueue(r))
<1> DEFINE q == RingPop(r)
           n == RingLen(r)
           D == Datagram \cup {NoDatagram}
           h == r.head
           t == r.tail
           u == RingNext(r.head)
           N == RX_SLOTS
<1>1. /\ r.head \in RxSlots /\ r.tail \in RxSlots /\ r.slot \in [RxSlots -> D]
  BY DEF Ring
<1>2. /\ n \in Nat /\ n < RX_SLOTS /\ n # 0
      /\ RingQueue(r) \in Seq(D) /\ Len(RingQueue(r)) = n
  BY RingCounts, QueueTyped
<1>3. q \in Ring /\ q.head = RingNext(r.head) /\ q.tail = r.tail /\ q.slot = r.slot
  BY <1>1, RingNumbers DEF RingPop, Ring
<1>4. /\ N \in Nat /\ N >= 2 /\ h \in Nat /\ h < N /\ t \in Nat /\ t < N /\ u \in Nat
      /\ h = N - 1 => u = 0
      /\ h # N - 1 => u = h + 1
  BY RingTyped, RingNumbers
<1>5. /\ n = (IF t >= h THEN t - h ELSE t + N - h)
      /\ RingLen(q) = (IF t >= u THEN t - u ELSE t + N - u)
      /\ t # h
  BY <1>3 DEF RingLen, RingEmpty
<1>6. RingQueue(q) \in Seq(D) /\ Len(RingQueue(q)) = RingLen(q)
      /\ \A i \in 1..RingLen(q) : RingQueue(q)[i] = q.slot[SlotOf(q.head, i)]
  BY <1>3, QueueTyped
<1>7. \A i \in 1..n : RingQueue(r)[i] = r.slot[SlotOf(r.head, i)]
  BY QueueTyped
<1>8. \A i : /\ SlotOf(h, i) = IF h + i - 1 < N THEN h + i - 1 ELSE h + i - 1 - N
             /\ SlotOf(u, i) = IF u + i - 1 < N THEN u + i - 1 ELSE u + i - 1 - N
  BY DEF SlotOf
<1> HIDE DEF q, n, D, h, t, u, N
<1>9. RingLen(q) = n - 1
  <2>1. CASE h = N - 1
    <3>1. u = 0 /\ ~(t >= h) /\ t >= u
      BY <1>4, <1>5, <2>1
    <3>2. n = t + N - h /\ RingLen(q) = t - u
      BY <1>5, <3>1
    <3>3. QED
      BY <1>4, <2>1, <3>1, <3>2
  <2>2. CASE h # N - 1 /\ t >= h
    <3>1. u = h + 1 /\ t >= u
      BY <1>4, <1>5, <2>2
    <3>2. n = t - h /\ RingLen(q) = t - u
      BY <1>5, <2>2, <3>1
    <3>3. QED
      BY <1>4, <3>1, <3>2
  <2>3. CASE h # N - 1 /\ ~(t >= h)
    <3>1. u = h + 1 /\ ~(t >= u)
      BY <1>4, <1>5, <2>3
    <3>2. n = t + N - h /\ RingLen(q) = t + N - u
      BY <1>5, <2>3, <3>1
    <3>3. QED
      BY <1>4, <3>1, <3>2
  <2>4. QED
    BY <2>1, <2>2, <2>3
<1>10. ASSUME NEW i \in 1..(n - 1) PROVE SlotOf(u, i) = SlotOf(h, i + 1)
  <2>1. i \in Nat /\ 1 <= i /\ i + 1 <= n /\ n < N
    BY <1>2 DEF N
  <2>2. /\ SlotOf(h, i + 1) = IF h + (i + 1) - 1 < N THEN h + (i + 1) - 1 ELSE h + (i + 1) - 1 - N
        /\ SlotOf(u, i) = IF u + i - 1 < N THEN u + i - 1 ELSE u + i - 1 - N
    BY <1>8
  <2>3. CASE h = N - 1
    <3>1. u = 0 /\ u + i - 1 < N /\ ~(h + (i + 1) - 1 < N) /\ h + (i + 1) - 1 - N = u + i - 1
      BY <1>2, <1>4, <2>1, <2>3
    <3>2. QED
      BY <2>2, <3>1
  <2>4. CASE h # N - 1
    <3>1. u = h + 1
      BY <1>4, <2>4
    <3>2. u + i - 1 = h + (i + 1) - 1 /\ u + i - 1 - N = h + (i + 1) - 1 - N
      BY <1>4, <2>1, <3>1
    <3>3. QED
      BY <1>4, <2>1, <2>2, <3>2
  <2>5. QED
    BY <2>3, <2>4
<1>11. /\ RingQueue(r) # <<>> /\ Tail(RingQueue(r)) \in Seq(D) /\ Len(Tail(RingQueue(r))) = n - 1
       /\ \A i \in 1..(n - 1) : Tail(RingQueue(r))[i] = RingQueue(r)[i + 1]
  BY <1>2
<1>12. ASSUME NEW i \in 1..(n - 1) PROVE RingQueue(q)[i] = Tail(RingQueue(r))[i]
  <2>1. i + 1 \in 1..n
    BY <1>2
  <2>2. RingQueue(q)[i] = r.slot[SlotOf(u, i)]
    BY <1>3, <1>6, <1>9 DEF u
  <2>3. RingQueue(r)[i + 1] = r.slot[SlotOf(h, i + 1)]
    BY <1>7, <2>1 DEF h
  <2>4. QED
    BY <1>10, <1>11, <2>2, <2>3
<1>13. RingQueue(q) = Tail(RingQueue(r))
  BY <1>6, <1>9, <1>11, <1>12, SameSequence
<1>14. QED
  BY <1>3, <1>11, <1>13 DEF q

LEMMA NetSteps == [AsmNext]_asmVars => NetNext \/ Reset \/ UNCHANGED <<rx, net>>
BY DEF AsmNext, PlayGame, DrawScreen, UseWire, UseTables, UseDisk, asmVars, wire

(* What a command may do to the ring: nothing, a send to this machine, or  *)
(* a receive, with or without a frame on the wire.                         *)
RingMove ==
  \/ UNCHANGED rx
  \/ \E d \in Datagram : rx' = ring_push(rx, d)
  \/ ~RingEmpty(rx) /\ rx' = RingPop(rx)
  \/ \E d \in Datagram : ~RingEmpty(ring_push(rx, d)) /\ rx' = RingPop(ring_push(rx, d))

LEMMA SendMoves ==
  ASSUME NEW d \in Datagram, NEW local, rx' = net_udp_send(d, local)
  PROVE  RingMove
BY DEF net_udp_send, RingMove

LEMMA RecvMoves ==
  ASSUME NEW w \in Wire, rx' = net_udp_recv(w).ring
  PROVE  RingMove
<1>1. w = NoDatagram \/ w \in Datagram
  BY DEF Wire
<1> DEFINE r == RingHeard(w)
<1>2. rx' = rx \/ rx' = r \/ (~RingEmpty(r) /\ rx' = RingPop(r))
  BY DEF net_udp_recv
<1>3. r = rx \/ (w \in Datagram /\ r = ring_push(rx, w))
  BY <1>1 DEF RingHeard
<1> HIDE DEF r
<1>4. QED
  BY <1>2, <1>3 DEF RingMove

LEMMA MovesAreQueueSteps ==
  ASSUME rx \in Ring, RingMove
  PROVE  rx' \in Ring /\ (RxQueue!Next \/ UNCHANGED RingQueue(rx))
<1>1. CASE UNCHANGED rx
  BY <1>1
<1>2. ASSUME NEW d \in Datagram, rx' = ring_push(rx, d)
      PROVE  rx' \in Ring /\ RxQueue!Next
  <2>1. rx' \in Ring /\ RingQueue(rx') = RxQueue!Arrived(RingQueue(rx), d)
    BY <1>2, PushIsArrival
  <2>2. QED
    BY <2>1 DEF RxQueue!Next, RxQueue!Arrive
<1>3. CASE ~RingEmpty(rx) /\ rx' = RingPop(rx)
  <2>1. rx' \in Ring /\ RingQueue(rx) # <<>> /\ RingQueue(rx') = Tail(RingQueue(rx))
    BY <1>3, PopIsRead
  <2>2. QED
    BY <2>1 DEF RxQueue!Next, RxQueue!Read
<1>4. ASSUME NEW d \in Datagram, ~RingEmpty(ring_push(rx, d)), rx' = RingPop(ring_push(rx, d))
      PROVE  rx' \in Ring /\ RxQueue!Next
  <2>1. /\ ring_push(rx, d) \in Ring
        /\ RingQueue(ring_push(rx, d)) = RxQueue!Arrived(RingQueue(rx), d)
    BY PushIsArrival
  <2>2. rx' \in Ring /\ RingQueue(rx') = Tail(RingQueue(ring_push(rx, d)))
    BY <1>4, <2>1, PopIsRead
  <2>3. QED
    BY <2>1, <2>2 DEF RxQueue!Next, RxQueue!ArriveAndRead
<1>5. QED
  BY <1>1, <1>2, <1>3, <1>4 DEF RingMove

(* The stream of the pool belongs to the client that runs, which is at a   *)
(* step of its script.                                                     *)
NetCommands == {"none", "icmp", "ping", "ftp", "telnet", "irc"}
Jobs == [cmd : NetCommands, at : Int, local : BOOLEAN]
NetRecords == [up : BOOLEAN, streams : Int, job : Jobs, polling : BOOLEAN, pad : BOOLEAN]

InScript(job) ==
  /\ job \in Jobs
  /\ job.cmd \in DOMAIN Script => job.at \in 1..Len(Script[job.cmd])

StreamHeld(n) == n.streams = IF n.job.cmd \in DOMAIN Script THEN 1 ELSE 0

NetInv == rx \in Ring /\ net \in NetRecords /\ InScript(net.job) /\ StreamHeld(net)

LEMMA Scripts ==
  /\ DOMAIN Script = {"ftp", "telnet", "irc"}
  /\ \A c \in DOMAIN Script : /\ Len(Script[c]) \in Nat /\ Len(Script[c]) >= 1
                              /\ \A i \in 1..Len(Script[c]) : Script[c][i] = "<" \/ Script[c][i] \in Datagram
<1>1. DOMAIN Script = {"ftp", "telnet", "irc"}
  BY DEF Script
<1>2. /\ Script["ftp"] = <<"<", "text", "<", "P", "<">>
      /\ Script["telnet"] = <<"text", "<">> /\ Script["irc"] = <<"text", "text", "text">>
  BY DEF Script
<1>3. "text" \in Datagram /\ "P" \in Datagram
  BY DatagramsAssumption
<1>4. ASSUME NEW n \in Nat, n >= 1, NEW s, Len(s) = n, \A i \in 1..n : s[i] = "<" \/ s[i] \in Datagram
      PROVE  Len(s) \in Nat /\ Len(s) >= 1 /\ \A i \in 1..Len(s) : s[i] = "<" \/ s[i] \in Datagram
  BY <1>4
<1>5. /\ Len(Script["ftp"]) = 5
      /\ \A i \in 1..5 : Script["ftp"][i] = "<" \/ Script["ftp"][i] \in Datagram
  <2>1. ASSUME NEW i \in 1..5 PROVE i = 1 \/ i = 2 \/ i = 3 \/ i = 4 \/ i = 5
    OBVIOUS
  <2>2. QED
    BY <1>2, <1>3, <2>1
<1>6. /\ Len(Script["telnet"]) = 2
      /\ \A i \in 1..2 : Script["telnet"][i] = "<" \/ Script["telnet"][i] \in Datagram
  <2>1. ASSUME NEW i \in 1..2 PROVE i = 1 \/ i = 2
    OBVIOUS
  <2>2. QED
    BY <1>2, <1>3, <2>1
<1>7. /\ Len(Script["irc"]) = 3
      /\ \A i \in 1..3 : Script["irc"][i] = "<" \/ Script["irc"][i] \in Datagram
  <2>1. ASSUME NEW i \in 1..3 PROVE i = 1 \/ i = 2 \/ i = 3
    OBVIOUS
  <2>2. QED
    BY <1>2, <1>3, <2>1
<1>8. 5 \in Nat /\ 5 >= 1 /\ 2 \in Nat /\ 2 >= 1 /\ 3 \in Nat /\ 3 >= 1
  OBVIOUS
<1>9. ASSUME NEW c \in DOMAIN Script
      PROVE  /\ Len(Script[c]) \in Nat /\ Len(Script[c]) >= 1
             /\ \A i \in 1..Len(Script[c]) : Script[c][i] = "<" \/ Script[c][i] \in Datagram
  <2>1. CASE c = "ftp"
    BY <1>4, <1>5, <1>8, <2>1
  <2>2. CASE c = "telnet"
    BY <1>4, <1>6, <1>8, <2>2
  <2>3. CASE c = "irc"
    BY <1>4, <1>7, <1>8, <2>3
  <2>4. QED
    BY <1>1, <2>1, <2>2, <2>3
<1>10. QED
  BY <1>1, <1>9

LEMMA NoJobHeld == NoJob \in Jobs /\ InScript(NoJob) /\ ~(NoJob.cmd \in DOMAIN Script)
<1>1. NoJob \in Jobs /\ NoJob.cmd = "none"
  <2>1. 0 \in Int
    OBVIOUS
  <2>2. QED
    BY <2>1 DEF NoJob, Jobs, NetCommands
<1>2. QED
  BY <1>1, Scripts DEF InScript

(* The steps of a component's record that keep NetInv's part about it.     *)
LEMMA NetKeeps ==
  ASSUME NetInv, NetNext
  PROVE  RingMove \/ net_init
<1>1. NetNext <=> \/ net_init \/ net_shutdown
                  \/ \E local \in BOOLEAN : plat_net_ping(local)
                  \/ \E local \in BOOLEAN, cmd \in DOMAIN Script : net_connect(cmd, local)
                  \/ \E reply \in BOOLEAN : net_icmp_ping(reply)
                  \/ \E w \in Wire : net_ping(w)
                  \/ \E w \in Wire : ClientStep(w)
                  \/ network_controller_start \/ network_controller_stop
                  \/ \E w \in Wire : network_controller_poll(w)
  BY DEF NetNext, NetJob
<1>2. CASE \/ net_shutdown \/ \E local \in BOOLEAN : plat_net_ping(local)
           \/ \E local \in BOOLEAN, cmd \in DOMAIN Script : net_connect(cmd, local)
           \/ network_controller_start \/ network_controller_stop
  <2>1. UNCHANGED rx
    BY <1>2 DEF net_shutdown, plat_net_ping, net_connect, network_controller_start,
       network_controller_stop
  <2>2. QED
    BY <2>1 DEF RingMove
<1>3. ASSUME NEW reply \in BOOLEAN, net_icmp_ping(reply) PROVE RingMove
  <2>1. UNCHANGED rx \/ rx' = net_udp_send("P", net.job.local)
    BY <1>3 DEF net_icmp_ping
  <2>2. "P" \in Datagram
    BY DatagramsAssumption
  <2>3. UNCHANGED rx => RingMove
    BY DEF RingMove
  <2>4. QED
    BY <2>1, <2>2, <2>3, SendMoves
<1>4. ASSUME NEW w \in Wire, net_ping(w) \/ network_controller_poll(w) PROVE RingMove
  <2>1. rx' = net_udp_recv(w).ring
    BY <1>4 DEF net_ping, network_controller_poll
  <2>2. QED
    BY <2>1, RecvMoves
<1>5. ASSUME NEW w \in Wire, ClientStep(w) PROVE RingMove
  <2> DEFINE now == Script[net.job.cmd][net.job.at]
  <2>1. now = "<" \/ now \in Datagram
    BY <1>5, Scripts DEF ClientStep, NetInv, InScript
  <2>2. rx' = net_udp_recv(w).ring \/ (now \in Datagram /\ rx' = net_udp_send(now, net.job.local))
    BY <1>5, <2>1 DEF ClientStep
  <2> HIDE DEF now
  <2>3. QED
    BY <2>2, RecvMoves, SendMoves
<1>6. QED
  BY <1>1, <1>2, <1>3, <1>4, <1>5

LEMMA NextKeepsNet == NetInv /\ [AsmNext]_asmVars => NetInv'
<1> SUFFICES ASSUME NetInv, [AsmNext]_asmVars PROVE NetInv'
  OBVIOUS
<1>1. NetNext \/ Reset \/ UNCHANGED <<rx, net>>
  BY NetSteps
<1>2. CASE UNCHANGED <<rx, net>>
  BY <1>2 DEF NetInv
<1>3. CASE Reset
  <2>1. rx' = RingNew /\ net' = NetStart
    BY <1>3 DEF Reset
  <2>2. RingNew \in Ring
    BY RingNumbers DEF RingNew, Ring, RxSlots
  <2>3. NetStart \in NetRecords /\ NetStart.job = NoJob /\ NetStart.streams = 0
    BY NoJobHeld DEF NetStart, NetRecords
  <2>4. QED
    BY <2>1, <2>2, <2>3, NoJobHeld DEF NetInv, StreamHeld
<1>4. CASE NetNext
  <2>1. rx' \in Ring
    <3>1. net_init => rx' \in Ring
      BY RingNumbers DEF net_init, RingClear, NetInv, Ring, RxSlots
    <3>2. RingMove => rx' \in Ring
      BY MovesAreQueueSteps DEF NetInv
    <3>3. QED
      BY <1>4, <3>1, <3>2, NetKeeps
  <2>2. /\ net \in NetRecords /\ InScript(net.job) /\ StreamHeld(net)
        /\ net.job \in Jobs /\ net.streams \in Int
    BY DEF NetInv, NetRecords
  <2>3. SUFFICES net' \in NetRecords /\ InScript(net'.job) /\ StreamHeld(net')
    BY <2>1 DEF NetInv
  <2>4. ASSUME net' \in NetRecords, net'.job = net.job, net'.streams = net.streams
        PROVE  net' \in NetRecords /\ InScript(net'.job) /\ StreamHeld(net')
    BY <2>2, <2>4 DEF StreamHeld
  <2>5. ASSUME net' \in NetRecords, net'.job \in Jobs, net'.job.cmd \notin DOMAIN Script, net'.streams = 0
        PROVE  net' \in NetRecords /\ InScript(net'.job) /\ StreamHeld(net')
    BY <2>5 DEF StreamHeld, InScript
  <2>6. CASE net_init \/ net_shutdown \/ network_controller_start \/ network_controller_stop
             \/ \E w \in Wire : network_controller_poll(w)
    <3>1. net' \in NetRecords /\ net'.job = net.job /\ net'.streams = net.streams
      BY <2>2, <2>6 DEF net_init, net_shutdown, network_controller_start, network_controller_stop,
         network_controller_poll, NetRecords
    <3>2. QED
      BY <2>4, <3>1
  <2>7. ASSUME NEW local \in BOOLEAN, plat_net_ping(local)
        PROVE  net' \in NetRecords /\ InScript(net'.job) /\ StreamHeld(net')
    <3> DEFINE j == [cmd |-> "icmp", at |-> 0, local |-> local]
    <3>1. j \in Jobs /\ j.cmd = "icmp"
      <4>1. 0 \in Int
        OBVIOUS
      <4>2. QED
        BY <4>1 DEF Jobs, NetCommands
    <3>2. net.streams = 0
      BY <2>2, <2>7, NoJobHeld DEF plat_net_ping, StreamHeld
    <3>3. net' = [net EXCEPT !.job = j]
      BY <2>7 DEF plat_net_ping
    <3> HIDE DEF j
    <3>4. net' \in NetRecords /\ net'.job = j /\ net'.streams = 0
      BY <2>2, <3>1, <3>2, <3>3 DEF NetRecords
    <3>5. j.cmd \notin DOMAIN Script
      BY <3>1, Scripts
    <3>6. QED
      BY <2>5, <3>1, <3>4, <3>5
  <2>8. ASSUME NEW local \in BOOLEAN, NEW cmd \in DOMAIN Script, net_connect(cmd, local)
        PROVE  net' \in NetRecords /\ InScript(net'.job) /\ StreamHeld(net')
    <3> DEFINE j == [cmd |-> cmd, at |-> 1, local |-> local]
    <3>1. cmd \in NetCommands
      BY Scripts DEF NetCommands
    <3>2. j \in Jobs /\ j.cmd = cmd /\ j.at = 1
      BY <3>1 DEF Jobs
    <3>3. net.streams = 0
      BY <2>2, <2>8, NoJobHeld DEF net_connect, StreamHeld
    <3>4. net' = [net EXCEPT !.streams = net.streams + 1, !.job = j]
      BY <2>2, <2>8 DEF net_connect, NetRecords
    <3> HIDE DEF j
    <3> DEFINE k == net.streams + 1
    <3>k. k \in Int /\ k = 1
      BY <3>3
    <3> HIDE DEF k
    <3>n. net' = [net EXCEPT !.streams = k, !.job = j]
      BY <3>4 DEF k
    <3>5. net' \in NetRecords /\ net'.job = j /\ net'.streams = 1
      BY <2>2, <3>2, <3>k, <3>n DEF NetRecords
    <3>6. 1 \in 1..Len(Script[cmd])
      BY Scripts
    <3>7. QED
      BY <3>2, <3>5, <3>6 DEF InScript, StreamHeld
  <2>9. ASSUME NEW j \in Jobs, j.cmd \notin DOMAIN Script, net.job.cmd \notin DOMAIN Script,
               net' = [net EXCEPT !.job = j]
        PROVE  net' \in NetRecords /\ InScript(net'.job) /\ StreamHeld(net')
    <3>1. net' \in NetRecords /\ net'.job = j /\ net'.streams = net.streams
      BY <2>2, <2>9 DEF NetRecords
    <3>2. net.streams = 0
      BY <2>2, <2>9 DEF StreamHeld
    <3>3. QED
      BY <2>5, <2>9, <3>1, <3>2
  <2>10. ASSUME NEW reply \in BOOLEAN, net_icmp_ping(reply)
         PROVE  net' \in NetRecords /\ InScript(net'.job) /\ StreamHeld(net')
    <3>1. net.job.cmd \notin DOMAIN Script
      BY <2>10, Scripts DEF net_icmp_ping
    <3>2. CASE net' = [net EXCEPT !.job = NoJob]
      BY <2>9, <3>1, <3>2, NoJobHeld
    <3>3. CASE net' = [net EXCEPT !.job = [@ EXCEPT !.cmd = "ping", !.at = PING_TRIES]]
      <4> DEFINE j == [net.job EXCEPT !.cmd = "ping", !.at = PING_TRIES]
      <4>1. PING_TRIES \in Int
        BY DatagramsAssumption
      <4>2. j \in Jobs /\ j.cmd = "ping"
        BY <2>2, <4>1 DEF Jobs, NetCommands
      <4>3. net' = [net EXCEPT !.job = j]
        BY <2>2, <3>3 DEF NetRecords
      <4> HIDE DEF j
      <4>4. QED
        BY <2>9, <3>1, <4>2, <4>3, Scripts
    <3>4. QED
      BY <2>10, <3>2, <3>3 DEF net_icmp_ping
  <2>11. ASSUME NEW w \in Wire, net_ping(w)
         PROVE  net' \in NetRecords /\ InScript(net'.job) /\ StreamHeld(net')
    <3>1. net.job.cmd = "ping" /\ net.job.cmd \notin DOMAIN Script
      BY <2>11, Scripts DEF net_ping
    <3>2. CASE net' = [net EXCEPT !.job = NoJob]
      BY <2>9, <3>1, <3>2, NoJobHeld
    <3>3. CASE net' = [net EXCEPT !.job = [net.job EXCEPT !.at = net.job.at - 1]]
      <4> DEFINE j == [net.job EXCEPT !.at = net.job.at - 1]
      <4>1. j \in Jobs /\ j.cmd = "ping"
        BY <2>2, <3>1 DEF Jobs
      <4>2. net' = [net EXCEPT !.job = j]
        BY <3>3
      <4> HIDE DEF j
      <4>3. QED
        BY <2>9, <3>1, <4>1, <4>2, Scripts
    <3> DEFINE ends == net_udp_recv(w).got = "P" \/ net.job.at = 1
               next == [net.job EXCEPT !.at = net.job.at - 1]
    <3>4. net' = [net EXCEPT !.job = IF ends THEN NoJob ELSE next]
      BY <2>11 DEF net_ping
    <3> HIDE DEF ends, next
    <3>5. CASE ends
      <4>1. net' = [net EXCEPT !.job = NoJob]
        BY <3>4, <3>5
      <4>2. QED
        BY <3>2, <4>1
    <3>6. CASE ~ends
      <4>1. net' = [net EXCEPT !.job = next]
        BY <3>4, <3>6
      <4>2. QED
        BY <3>3, <4>1 DEF next
    <3>7. QED
      BY <3>5, <3>6
  <2>12. ASSUME NEW w \in Wire, ClientStep(w)
         PROVE  net' \in NetRecords /\ InScript(net'.job) /\ StreamHeld(net')
    <3>1. /\ net.job.cmd \in DOMAIN Script /\ net.streams = 1
          /\ net.job.at \in 1..Len(Script[net.job.cmd]) /\ Len(Script[net.job.cmd]) \in Nat
      BY <2>2, <2>12, Scripts DEF ClientStep, StreamHeld, InScript
    <3>2. CASE net.job.at = Len(Script[net.job.cmd])
      <4>1. net' = [net EXCEPT !.job = NoJob, !.streams = net.streams - 1]
        BY <2>2, <2>12, <3>2 DEF ClientStep, NetRecords
      <4> DEFINE k == net.streams - 1
      <4>k. k \in Int /\ k = 0
        BY <3>1
      <4> HIDE DEF k
      <4>n. net' = [net EXCEPT !.job = NoJob, !.streams = k]
        BY <4>1 DEF k
      <4>2. net' \in NetRecords /\ net'.job = NoJob /\ net'.streams = 0
        BY <2>2, <4>k, <4>n, NoJobHeld DEF NetRecords
      <4>3. QED
        BY <2>5, <4>2, NoJobHeld
    <3>3. CASE net.job.at # Len(Script[net.job.cmd])
      <4> DEFINE j == [net.job EXCEPT !.at = net.job.at + 1]
      <4>1. j \in Jobs /\ j.cmd = net.job.cmd /\ j.at = net.job.at + 1
        BY <2>2 DEF Jobs
      <4>2. net' = [net EXCEPT !.job = j]
        BY <2>2, <2>12, <3>3 DEF ClientStep, NetRecords, Jobs
      <4> HIDE DEF j
      <4>3. net' \in NetRecords /\ net'.job = j /\ net'.streams = 1
        BY <2>2, <3>1, <4>1, <4>2 DEF NetRecords
      <4>4. net.job.at + 1 \in 1..Len(Script[net.job.cmd])
        BY <3>1, <3>3
      <4>5. QED
        BY <3>1, <4>1, <4>3, <4>4 DEF InScript, StreamHeld
    <3>4. QED
      BY <3>2, <3>3
  <2>13. QED
    BY <1>4, <2>6, <2>7, <2>8, <2>10, <2>11, <2>12 DEF NetNext, NetJob
<1>5. QED
  BY <1>1, <1>2, <1>3, <1>4

(* The ring of udp.c implements the bounded queue between restarts of the  *)
(* network, whatever its size, and a client gives its stream back: no      *)
(* datagram overtakes another or is read twice, a full ring drops only the *)
(* newcomer, and the prompt always finds the pool of streams free.         *)
THEOREM NetIsSound == AsmSpec => NetSound
<1>1. AsmInit => NetInv /\ RxQueue!Init
  <2> SUFFICES ASSUME AsmInit PROVE NetInv /\ RxQueue!Init
    OBVIOUS
  <2>1. rx = RingNew /\ net = NetStart
    BY DEF AsmInit, NetInit
  <2>2. RingNew \in Ring
    BY RingNumbers DEF RingNew, Ring, RxSlots
  <2>3. NetStart \in NetRecords /\ NetStart.job = NoJob /\ NetStart.streams = 0
    BY NoJobHeld DEF NetStart, NetRecords
  <2>4. NetInv
    BY <2>1, <2>2, <2>3, NoJobHeld DEF NetInv, StreamHeld
  <2>5. RingLen(RingNew) = 0
    BY DEF RingLen, RingNew
  <2>6. RingQueue(RingNew) \in Seq(Datagram \cup {NoDatagram}) /\ Len(RingQueue(RingNew)) = 0
    BY <2>2, <2>5, QueueTyped
  <2>7. RingQueue(rx) = <<>>
    BY <2>1, <2>6
  <2>8. QED
    BY <2>4, <2>7 DEF RxQueue!Init
<1>2. NetInv /\ [AsmNext]_asmVars => [RxQueue!Next \/ net_init \/ Reset]_(RingQueue(rx))
  <2> SUFFICES ASSUME NetInv, [AsmNext]_asmVars
               PROVE  RxQueue!Next \/ net_init \/ Reset \/ UNCHANGED RingQueue(rx)
    OBVIOUS
  <2>1. NetNext \/ Reset \/ UNCHANGED <<rx, net>>
    BY NetSteps
  <2>2. RingMove => RxQueue!Next \/ UNCHANGED RingQueue(rx)
    BY MovesAreQueueSteps DEF NetInv
  <2>3. UNCHANGED <<rx, net>> => RingMove
    BY DEF RingMove
  <2>4. QED
    BY <2>1, <2>2, <2>3, NetKeeps
<1>3. NetInv => StreamsReturned
  BY NoJobHeld DEF NetInv, StreamHeld, StreamsReturned
<1>4. QED
  BY <1>1, <1>2, <1>3, NextKeepsNet, PTL DEF AsmSpec, NetSound, RingIsQueue
-------------------------------------------------------------------------------
(* draw_line of graphics.c.  After p steps along the longer side and q     *)
(* along the other, err = long/2 - p * short + q * long, and it stays in   *)
(* 0..long - 1: that is what keeps the pixels on the line.                 *)
LEMMA Signs ==
  ASSUME NEW n \in Int
  PROVE  (Sign(n) = 1 \/ Sign(n) = -1) /\ Abs(n) \in Nat /\ n = Sign(n) * Abs(n)
<1>1. CASE n < 0
  BY <1>1 DEF Sign, Abs
<1>2. CASE ~(n < 0)
  BY <1>2 DEF Sign, Abs
<1>3. QED
  BY <1>1, <1>2

LEMMA HalfOf ==
  ASSUME NEW n \in Nat
  PROVE  n \div 2 \in Nat /\ 2 * (n \div 2) <= n /\ n <= 2 * (n \div 2) + 1 /\ (n > 0 => n \div 2 < n)
OBVIOUS

LEMMA ErrStep ==
  ASSUME NEW long \in Nat, NEW short \in Nat, NEW p \in Nat, NEW q \in Nat, NEW e \in Int,
         short <= long, e = long \div 2 - p * short + q * long, 0 <= e, e < long
  PROVE  /\ e - short < 0 => /\ e - short + long = long \div 2 - (p + 1) * short + (q + 1) * long
                             /\ 0 <= e - short + long /\ e - short + long < long
         /\ ~(e - short < 0) => /\ e - short + 0 = long \div 2 - (p + 1) * short + q * long
                                /\ 0 <= e - short + 0 /\ e - short + 0 < long
<1>1. long \div 2 \in Int
  BY HalfOf
<1>2. /\ (p + 1) * short = p * short + short /\ (q + 1) * long = q * long + long
      /\ p * short \in Int /\ q * long \in Int
  OBVIOUS
<1>3. QED
  BY <1>1, <1>2

(* At the end of the longer side the other has reached its end, too.       *)
LEMMA ErrEnd ==
  ASSUME NEW long \in Nat, NEW short \in Nat, NEW q \in Nat, NEW e \in Int,
         e = long \div 2 - long * short + q * long, 0 <= e, e < long
  PROVE  q = short
<1>1. long \div 2 \in Nat /\ 2 * (long \div 2) <= long /\ long > 0 /\ long \div 2 < long
  BY HalfOf
<1> DEFINE d == q - short
<1>2. d \in Int /\ d * long \in Int /\ d * long = q * long - long * short
  OBVIOUS
<1> HIDE DEF d
<1>3. e = long \div 2 + d * long
  <2>1. q * long \in Int /\ long * short \in Int
    OBVIOUS
  <2>2. QED
    BY <1>1, <1>2, <2>1
<1>4. CASE d >= 1
  <2>1. d * long >= long
    <3>1. (d - 1) * long >= 0 /\ (d - 1) * long = d * long - long
      BY <1>2, <1>4
    <3>2. QED
      BY <1>2, <3>1
  <2>2. QED
    BY <1>1, <1>2, <1>3, <2>1
<1>5. CASE d <= -1
  <2>1. d * long <= -long
    <3>1. (d + 1) * long <= 0 /\ (d + 1) * long = d * long + long
      BY <1>2, <1>5
    <3>2. QED
      BY <1>2, <3>1
  <2>2. QED
    BY <1>1, <1>2, <1>3, <2>1
<1>6. d = 0 => q = short
  BY DEF d
<1>7. QED
  BY <1>2, <1>4, <1>5, <1>6

LEMMA ErrNear ==
  ASSUME NEW long \in Nat, NEW short \in Nat, NEW p \in Nat, NEW q \in Nat, NEW e \in Int,
         e = long \div 2 - p * short + q * long, 0 <= e, e < long
  PROVE  2 * Abs(p * short - q * long) <= long /\ 2 * Abs(q * long - p * short) <= long
<1> DEFINE a == p * short
           b == q * long
           h == long \div 2
<1>1. a \in Int /\ b \in Int
  OBVIOUS
<1>2. h \in Nat /\ 2 * h <= long /\ long <= 2 * h + 1
  BY HalfOf
<1>3. e = h - a + b
  OBVIOUS
<1> HIDE DEF a, b, h
<1>4. 2 * (a - b) <= long /\ 2 * (b - a) <= long
  BY <1>1, <1>2, <1>3
<1>5. 2 * Abs(a - b) <= long /\ 2 * Abs(b - a) <= long
  BY <1>1, <1>4 DEF Abs
<1>6. QED
  BY <1>5 DEF a, b

(* How far a pixel is off the line, times the length of the longer side.   *)
Cross(s, t, p, q, a, b) == (s * p) * (t * b) - (t * q) * (s * a)
Gap(p, q, a, b) == p * b - q * a

LEMMA CrossOf ==
  ASSUME NEW s \in Int, s = 1 \/ s = -1, NEW t \in Int, t = 1 \/ t = -1,
         NEW p \in Nat, NEW q \in Nat, NEW a \in Nat, NEW b \in Nat
  PROVE  Abs(Cross(s, t, p, q, a, b)) = Abs(Gap(p, q, a, b))
<1> DEFINE u == p * b
           v == q * a
<1>1. u \in Int /\ v \in Int
  OBVIOUS
<1>2. \/ (s * p) * (t * b) - (t * q) * (s * a) = u - v
      \/ (s * p) * (t * b) - (t * q) * (s * a) = v - u
  <2>1. CASE s = 1 /\ t = 1
    BY <2>1
  <2>2. CASE s = 1 /\ t = -1
    BY <2>2
  <2>3. CASE s = -1 /\ t = 1
    BY <2>3
  <2>4. CASE s = -1 /\ t = -1
    BY <2>4
  <2>5. QED
    BY <2>1, <2>2, <2>3, <2>4
<1>3. Abs(u - v) = Abs(v - u)
  <2> HIDE DEF u, v
  <2>1. QED
    BY <1>1 DEF Abs
<1>4. QED
  BY <1>2, <1>3 DEF u, v, Cross, Gap

(* The state of the loop after p steps along the longer side.              *)
LineRecords == [on : BOOLEAN, x : Int, y : Int, x1 : Int, y1 : Int, x2 : Int, y2 : Int,
                ax : Nat, ay : Nat, err : Int]

LongOf(l) == IF l.ax > l.ay THEN l.ax ELSE l.ay
ShortOf(l) == IF l.ax > l.ay THEN l.ay ELSE l.ax

Stepped(l, p, q) ==
  /\ l.x = l.x1 + Sign(l.x2 - l.x1) * (IF l.ax > l.ay THEN p ELSE q)
  /\ l.y = l.y1 + Sign(l.y2 - l.y1) * (IF l.ax > l.ay THEN q ELSE p)
  /\ l.err = LongOf(l) \div 2 - p * ShortOf(l) + q * LongOf(l)
  /\ 0 <= l.err /\ (LongOf(l) = 0 \/ l.err < LongOf(l))
  /\ LongOf(l) = 0 => q = 0
  /\ p <= LongOf(l)

OnLine(l) ==
  /\ l \in LineRecords
  /\ l.ax = Abs(l.x2 - l.x1) /\ l.ay = Abs(l.y2 - l.y1)
  /\ \E p, q \in Nat : Stepped(l, p, q)

LineInv == line = NoLine \/ OnLine(line)

LEMMA LineSteps == [AsmNext]_asmVars => LineNext \/ line' = NoLine \/ UNCHANGED line
BY DEF AsmNext, PlayGame, DrawScreen, UseWire, UseTables, UseDisk, Reset, asmVars, screen

LEMMA LongShort ==
  ASSUME NEW l, l.ax \in Nat, l.ay \in Nat
  PROVE  /\ LongOf(l) \in Nat /\ ShortOf(l) \in Nat /\ ShortOf(l) <= LongOf(l)
         /\ l.ax > l.ay => LongOf(l) = l.ax /\ ShortOf(l) = l.ay
         /\ ~(l.ax > l.ay) => LongOf(l) = l.ay /\ ShortOf(l) = l.ax
BY DEF LongOf, ShortOf

LEMMA LineBegins ==
  ASSUME NEW x1 \in Int, NEW y1 \in Int, NEW x2 \in Int, NEW y2 \in Int, draw_line(x1, y1, x2, y2)
  PROVE  OnLine(line')
<1> DEFINE ax == Abs(x2 - x1)
           ay == Abs(y2 - y1)
           e == LineErr(IF ax > ay THEN ax ELSE ay)
           l == [on |-> TRUE, x |-> x1, y |-> y1, x1 |-> x1, y1 |-> y1, x2 |-> x2, y2 |-> y2,
                 ax |-> ax, ay |-> ay, err |-> e]
<1>1. line' = l
  BY DEF draw_line
<1>2. ax \in Nat /\ ay \in Nat
  BY Signs
<1>3. l.ax = ax /\ l.ay = ay /\ l.x = x1 /\ l.y = y1 /\ l.x1 = x1 /\ l.y1 = y1 /\ l.x2 = x2
      /\ l.y2 = y2 /\ l.err = e
  OBVIOUS
<1>4. e = LongOf(l) \div 2
  BY <1>3 DEF LineErr, LongOf
<1>5. LongOf(l) \in Nat /\ ShortOf(l) \in Nat
  BY <1>2, <1>3, LongShort
<1>6. e \in Nat /\ (LongOf(l) = 0 \/ e < LongOf(l))
  BY <1>4, <1>5, HalfOf
<1>7. l \in LineRecords
  <2> HIDE DEF ax, ay, e
  <2>1. QED
    BY <1>2, <1>6 DEF LineRecords
<1> HIDE DEF l, e
<1>8. Stepped(l, 0, 0)
  <2>1. Sign(x2 - x1) \in Int /\ Sign(y2 - y1) \in Int
    BY Signs
  <2>2. /\ x1 = x1 + Sign(x2 - x1) * (IF l.ax > l.ay THEN 0 ELSE 0)
        /\ y1 = y1 + Sign(y2 - y1) * (IF l.ax > l.ay THEN 0 ELSE 0)
    BY <2>1
  <2>3. e = LongOf(l) \div 2 - 0 * ShortOf(l) + 0 * LongOf(l)
    BY <1>4, <1>5, <1>6
  <2>4. QED
    BY <1>3, <1>5, <1>6, <2>2, <2>3 DEF Stepped
<1>9. QED
  BY <1>1, <1>3, <1>7, <1>8 DEF OnLine

(* The end of the loop's side is the end of the count of its steps.        *)
LEMMA SideEnds ==
  ASSUME NEW a \in Int, NEW b \in Int, NEW p \in Nat
  PROVE  a + Sign(b - a) * p = b <=> p = Abs(b - a)
<1> DEFINE s == Sign(b - a)
           n == Abs(b - a)
<1>1. (s = 1 \/ s = -1) /\ n \in Nat /\ b - a = s * n
  BY Signs
<1> HIDE DEF s, n
<1>2. a + s * p = b <=> p = n
  BY <1>1
<1>3. QED
  BY <1>2 DEF s, n

LEMMA EndOfLine ==
  ASSUME line \in LineRecords, line.ax = Abs(line.x2 - line.x1), line.ay = Abs(line.y2 - line.y1),
         NEW p \in Nat, NEW q \in Nat, Stepped(line, p, q)
  PROVE  LineAtEnd <=> p = LongOf(line)
<1>1. /\ line.x \in Int /\ line.y \in Int /\ line.x1 \in Int /\ line.y1 \in Int
      /\ line.x2 \in Int /\ line.y2 \in Int /\ line.ax \in Nat /\ line.ay \in Nat
  BY DEF LineRecords
<1>2. CASE line.ax > line.ay
  <2>1. line.x = line.x1 + Sign(line.x2 - line.x1) * p /\ LongOf(line) = line.ax
    BY <1>1, <1>2, LongShort DEF Stepped
  <2>2. LineAtEnd <=> line.x = line.x2
    BY <1>2 DEF LineAtEnd
  <2>3. line.x1 + Sign(line.x2 - line.x1) * p = line.x2 <=> p = Abs(line.x2 - line.x1)
    BY <1>1, SideEnds
  <2>4. QED
    BY <2>1, <2>2, <2>3
<1>3. CASE ~(line.ax > line.ay)
  <2>1. line.y = line.y1 + Sign(line.y2 - line.y1) * p /\ LongOf(line) = line.ay
    BY <1>1, <1>3, LongShort DEF Stepped
  <2>2. LineAtEnd <=> line.y = line.y2
    BY <1>3 DEF LineAtEnd
  <2>3. line.y1 + Sign(line.y2 - line.y1) * p = line.y2 <=> p = Abs(line.y2 - line.y1)
    BY <1>1, SideEnds
  <2>4. QED
    BY <2>1, <2>2, <2>3
<1>4. QED
  BY <1>2, <1>3
(* One pass of the loop, seen along its longer side.                       *)
LEMMA PixelKeepsLine ==
  ASSUME OnLine(line), LinePixel
  PROVE  OnLine(line')
<1> DEFINE sx == Sign(line.x2 - line.x1)
           sy == Sign(line.y2 - line.y1)
           flat == line.ax > line.ay
           long == LongOf(line)
           short == ShortOf(line)
           both == line.err - short < 0
           e == line.err - short + (IF both THEN long ELSE 0)
           x == IF flat \/ both THEN line.x + sx ELSE line.x
           y == IF ~flat \/ both THEN line.y + sy ELSE line.y
<1>1. /\ line.x \in Int /\ line.y \in Int /\ line.x1 \in Int /\ line.y1 \in Int /\ line.x2 \in Int
      /\ line.y2 \in Int /\ line.ax \in Nat /\ line.ay \in Nat /\ line.err \in Int
      /\ line.ax = Abs(line.x2 - line.x1) /\ line.ay = Abs(line.y2 - line.y1)
      /\ line \in LineRecords
  BY DEF OnLine, LineRecords
<1>2. PICK p \in Nat, q \in Nat : Stepped(line, p, q)
  BY DEF OnLine
<1>3. line' = [line EXCEPT !.err = e, !.x = x, !.y = y]
  BY DEF LinePixel, LongOf, ShortOf
<1>4. long \in Nat /\ short \in Nat /\ short <= long
  BY <1>1, LongShort
<1>5. p # long
  BY <1>1, <1>2, EndOfLine DEF LinePixel
<1>6. (sx = 1 \/ sx = -1) /\ (sy = 1 \/ sy = -1)
  BY <1>1, Signs
<1>7. /\ line.x = line.x1 + sx * (IF flat THEN p ELSE q)
      /\ line.y = line.y1 + sy * (IF flat THEN q ELSE p)
      /\ line.err = long \div 2 - p * short + q * long
      /\ 0 <= line.err /\ (long = 0 \/ line.err < long) /\ p <= long
  BY <1>2 DEF Stepped
<1> HIDE DEF long, short, sx, sy, flat
<1>8. p + 1 <= long /\ long # 0 /\ line.err < long
  BY <1>4, <1>5, <1>7
<1> DEFINE q2 == IF both THEN q + 1 ELSE q
<1>9. /\ q2 \in Nat /\ e \in Int /\ 0 <= e /\ e < long
      /\ e = long \div 2 - (p + 1) * short + q2 * long
  <2>1. CASE both
    BY <1>1, <1>4, <1>7, <1>8, <2>1, ErrStep
  <2>2. CASE ~both
    BY <1>1, <1>4, <1>7, <1>8, <2>2, ErrStep
  <2>3. QED
    BY <2>1, <2>2
<1>10. x \in Int /\ x = line.x1 + sx * (IF flat THEN p + 1 ELSE q2)
  <2>1. /\ line.x1 + sx * p + sx = line.x1 + sx * (p + 1)
        /\ line.x1 + sx * q + sx = line.x1 + sx * (q + 1)
    BY <1>1, <1>6
  <2>2. CASE flat
    BY <1>1, <1>6, <1>7, <2>1, <2>2
  <2>3. CASE ~flat
    BY <1>1, <1>6, <1>7, <2>1, <2>3
  <2>4. QED
    BY <2>2, <2>3
<1>11. y \in Int /\ y = line.y1 + sy * (IF flat THEN q2 ELSE p + 1)
  <2>1. /\ line.y1 + sy * p + sy = line.y1 + sy * (p + 1)
        /\ line.y1 + sy * q + sy = line.y1 + sy * (q + 1)
    BY <1>1, <1>6
  <2>2. CASE flat
    BY <1>1, <1>6, <1>7, <2>1, <2>2
  <2>3. CASE ~flat
    BY <1>1, <1>6, <1>7, <2>1, <2>3
  <2>4. QED
    BY <2>2, <2>3
<1> HIDE DEF e, x, y, q2, both
<1>12. /\ line' \in LineRecords /\ line'.err = e /\ line'.x = x /\ line'.y = y
       /\ line'.x1 = line.x1 /\ line'.y1 = line.y1 /\ line'.x2 = line.x2 /\ line'.y2 = line.y2
       /\ line'.ax = line.ax /\ line'.ay = line.ay
  BY <1>1, <1>3, <1>9, <1>10, <1>11 DEF LineRecords
<1>13. LongOf(line') = long /\ ShortOf(line') = short /\ (line'.ax > line'.ay <=> flat)
  BY <1>12 DEF LongOf, ShortOf, long, short, flat
<1>14. sx = Sign(line'.x2 - line'.x1) /\ sy = Sign(line'.y2 - line'.y1)
  BY <1>12 DEF sx, sy
<1>15. Stepped(line', p + 1, q2)
  <2>1. /\ line'.x = line'.x1 + Sign(line'.x2 - line'.x1) * (IF line'.ax > line'.ay THEN p + 1 ELSE q2)
        /\ line'.y = line'.y1 + Sign(line'.y2 - line'.y1) * (IF line'.ax > line'.ay THEN q2 ELSE p + 1)
    BY <1>10, <1>11, <1>12, <1>13, <1>14
  <2>2. line'.err = LongOf(line') \div 2 - (p + 1) * ShortOf(line') + q2 * LongOf(line')
    BY <1>9, <1>12, <1>13
  <2>3. QED
    BY <1>8, <1>9, <1>12, <1>13, <2>1, <2>2 DEF Stepped
<1>16. p + 1 \in Nat
  OBVIOUS
<1>17. QED
  BY <1>1, <1>9, <1>12, <1>15, <1>16 DEF OnLine

LEMMA NextKeepsLine == LineInv /\ [AsmNext]_asmVars => LineInv'
<1> SUFFICES ASSUME LineInv, [AsmNext]_asmVars PROVE line' = NoLine \/ OnLine(line')
  BY DEF LineInv, NoLine, OnLine, LineRecords, Stepped, LongOf, ShortOf, Sign, Abs
<1>1. LineNext \/ line' = NoLine \/ UNCHANGED line
  BY LineSteps
<1>2. ASSUME NEW x1 \in 0..LineSide, NEW y1 \in 0..LineSide, NEW x2 \in 0..LineSide,
             NEW y2 \in 0..LineSide, draw_line(x1, y1, x2, y2)
      PROVE  OnLine(line')
  <2>1. x1 \in Int /\ y1 \in Int /\ x2 \in Int /\ y2 \in Int
    OBVIOUS
  <2>2. QED
    BY <1>2, <2>1, LineBegins
<1>3. CASE LinePixel
  <2>1. OnLine(line)
    BY <1>3 DEF LinePixel, LineInv, NoLine
  <2>2. QED
    BY <1>3, <2>1, PixelKeepsLine
<1>4. CASE LineDone
  BY <1>4 DEF LineDone
<1>5. CASE UNCHANGED line
  BY <1>5 DEF LineInv
<1>6. QED
  BY <1>1, <1>2, <1>3, <1>4, <1>5 DEF LineNext

LEMMA OnLineTracks == ASSUME LineInv PROVE LineTracks
<1> SUFFICES ASSUME line.on
             PROVE  /\ LineAtEnd => line.x = line.x2 /\ line.y = line.y2
                    /\ 2 * Abs((line.x - line.x1) * (line.y2 - line.y1)
                               - (line.y - line.y1) * (line.x2 - line.x1)) <= LongOf(line)
  BY DEF LineTracks, LongOf
<1> DEFINE sx == Sign(line.x2 - line.x1)
           sy == Sign(line.y2 - line.y1)
           long == LongOf(line)
           short == ShortOf(line)
<1>0. OnLine(line)
  BY DEF LineInv, NoLine
<1>1. /\ line.x \in Int /\ line.y \in Int /\ line.x1 \in Int /\ line.y1 \in Int /\ line.x2 \in Int
      /\ line.y2 \in Int /\ line.ax \in Nat /\ line.ay \in Nat /\ line.err \in Int
      /\ line.ax = Abs(line.x2 - line.x1) /\ line.ay = Abs(line.y2 - line.y1)
      /\ line \in LineRecords
  BY <1>0 DEF OnLine, LineRecords
<1>2. PICK p \in Nat, q \in Nat : Stepped(line, p, q)
  BY <1>0 DEF OnLine
<1>3. /\ long \in Nat /\ short \in Nat /\ short <= long
      /\ line.ax > line.ay => long = line.ax /\ short = line.ay
      /\ ~(line.ax > line.ay) => long = line.ay /\ short = line.ax
  BY <1>1, LongShort
<1>4. /\ (sx = 1 \/ sx = -1) /\ (sy = 1 \/ sy = -1)
      /\ line.x2 - line.x1 = sx * line.ax /\ line.y2 - line.y1 = sy * line.ay
  BY <1>1, Signs
<1>5. /\ line.x = line.x1 + sx * (IF line.ax > line.ay THEN p ELSE q)
      /\ line.y = line.y1 + sy * (IF line.ax > line.ay THEN q ELSE p)
      /\ line.err = long \div 2 - p * short + q * long
      /\ 0 <= line.err /\ (long = 0 \/ line.err < long) /\ p <= long
      /\ long = 0 => q = 0
  BY <1>2 DEF Stepped
<1>6. LineAtEnd <=> p = long
  BY <1>1, <1>2, EndOfLine
<1> HIDE DEF sx, sy, long, short
<1>7. sx \in Int /\ sy \in Int
  BY <1>4
<1>8. p = long => q = short
  <2>1. CASE long = 0
    BY <1>3, <1>5, <2>1
  <2>2. CASE long # 0
    BY <1>1, <1>3, <1>5, <2>2, ErrEnd
  <2>3. QED
    BY <2>1, <2>2
<1>9. 2 * Abs(p * short - q * long) <= long /\ 2 * Abs(q * long - p * short) <= long
  <2>1. CASE long = 0
    <3>1. p * short - q * long = 0 /\ q * long - p * short = 0
      BY <1>3, <1>5, <2>1
    <3>2. QED
      BY <2>1, <3>1 DEF Abs
  <2>2. CASE long # 0
    BY <1>1, <1>3, <1>5, <2>2, ErrNear
  <2>3. QED
    BY <2>1, <2>2
<1>10. CASE line.ax > line.ay
  <2>1. line.x - line.x1 = sx * p /\ line.y - line.y1 = sy * q
    BY <1>1, <1>5, <1>7, <1>10
  <2>2. line.x2 - line.x1 = sx * long /\ line.y2 - line.y1 = sy * short
    BY <1>3, <1>4, <1>10
  <2>3. Abs(Cross(sx, sy, p, q, long, short)) = Abs(Gap(p, q, long, short))
    <3>1. /\ sx \in Int /\ (sx = 1 \/ sx = -1) /\ sy \in Int /\ (sy = 1 \/ sy = -1)
          /\ p \in Nat /\ q \in Nat /\ long \in Nat /\ short \in Nat
      BY <1>3, <1>4, <1>7
    <3>2. QED
      BY <3>1, CrossOf
  <2>4. p = long => line.x = line.x2 /\ line.y = line.y2
    <3>1. sx * p \in Int /\ sy * q \in Int
      BY <1>7
    <3>2. QED
      BY <1>1, <1>8, <2>1, <2>2, <3>1
  <2>5. QED
    BY <1>6, <1>9, <2>1, <2>2, <2>3, <2>4 DEF long, Cross, Gap
<1>11. CASE ~(line.ax > line.ay)
  <2>1. line.x - line.x1 = sx * q /\ line.y - line.y1 = sy * p
    BY <1>1, <1>5, <1>7, <1>11
  <2>2. line.x2 - line.x1 = sx * short /\ line.y2 - line.y1 = sy * long
    BY <1>3, <1>4, <1>11
  <2>3. Abs(Cross(sx, sy, q, p, short, long)) = Abs(Gap(q, p, short, long))
    <3>1. /\ sx \in Int /\ (sx = 1 \/ sx = -1) /\ sy \in Int /\ (sy = 1 \/ sy = -1)
          /\ p \in Nat /\ q \in Nat /\ long \in Nat /\ short \in Nat
      BY <1>3, <1>4, <1>7
    <3>2. QED
      BY <3>1, CrossOf
  <2>4. p = long => line.x = line.x2 /\ line.y = line.y2
    <3>1. sx * q \in Int /\ sy * p \in Int
      BY <1>7
    <3>2. QED
      BY <1>1, <1>8, <2>1, <2>2, <3>1
  <2>5. QED
    BY <1>6, <1>9, <2>1, <2>2, <2>3, <2>4 DEF long, Cross, Gap
<1>12. QED
  BY <1>10, <1>11
(* One axis of a box of the demo: it is on the screen, with its direction  *)
(* already turned where it touches an edge, or has just stepped over 0 and *)
(* is turned back.                                                         *)
AxisRecords == [at : Nat, size : Nat, v : Int]

Bounces(o, side) ==
  /\ o.size >= 12 /\ o.size <= 20
  /\ o.v = 1 \/ o.v = 2 \/ o.v = -1 \/ o.v = -2
  /\ \/ /\ o.at <= side - o.size + 1
        /\ o.at = 0 => o.v > 0
        /\ o.at >= side - o.size => o.v < 0
        /\ o.at = side - o.size + 1 => o.v = -2
     \/ o.at = WORD - 1 /\ o.v = 2

Wraps(n, r, w) ==
  /\ 0 <= n /\ n < w => r = n
  /\ w <= n /\ n < 2 * w => r = n - w
  /\ -w <= n /\ n < 0 => r = n + w

LEMMA WordOf ==
  ASSUME NEW n \in Int, NEW w \in Nat, w > 0
  PROVE  Wraps(n, n % w, w)
BY DEF Wraps

LEMMA AxisMoves ==
  ASSUME NEW o \in AxisRecords, NEW side \in Nat, side > 120, WORD \in Nat, WORD > 2 * side,
         Bounces(o, side)
  PROVE  MoveObject(o, side) \in AxisRecords /\ Bounces(MoveObject(o, side), side)
<1> DEFINE at == (o.at + o.v) % WORD
           v == IF at <= 0 \/ at >= side - o.size THEN -o.v ELSE o.v
           m == MoveObject(o, side)
<1>1. o.at \in Nat /\ o.size \in Nat /\ o.v \in Int
  BY DEF AxisRecords
<1>2. m = [o EXCEPT !.at = at, !.v = v]
  BY <1>1 DEF MoveObject, AxisRecords
<1>3. /\ o.size >= 12 /\ o.size <= 20
      /\ o.v = 1 \/ o.v = 2 \/ o.v = -1 \/ o.v = -2
      /\ \/ /\ o.at <= side - o.size + 1
            /\ o.at = 0 => o.v > 0
            /\ o.at >= side - o.size => o.v < 0
            /\ o.at = side - o.size + 1 => o.v = -2
         \/ o.at = WORD - 1 /\ o.v = 2
  BY DEF Bounces
<1>4. /\ 0 <= o.at + o.v /\ o.at + o.v < WORD => at = o.at + o.v
      /\ WORD <= o.at + o.v /\ o.at + o.v < 2 * WORD => at = o.at + o.v - WORD
      /\ -WORD <= o.at + o.v /\ o.at + o.v < 0 => at = o.at + o.v + WORD
  <2>1. o.at + o.v \in Int /\ WORD > 0
    BY <1>1
  <2>2. Wraps(o.at + o.v, at, WORD) /\ at \in Int
    BY <2>1, WordOf
  <2> HIDE DEF at
  <2>3. QED
    BY <1>1, <2>2, SMT DEF Wraps
<1> HIDE DEF at
<1>5. /\ at \in Nat /\ v \in Int
      /\ v = 1 \/ v = 2 \/ v = -1 \/ v = -2
      /\ \/ /\ at <= side - o.size + 1
            /\ at = 0 => v > 0
            /\ at >= side - o.size => v < 0
            /\ at = side - o.size + 1 => v = -2
         \/ at = WORD - 1 /\ v = 2
  <2>1. CASE o.at = WORD - 1 /\ o.v = 2
    <3>1. at = 1
      BY <1>4, <2>1
    <3>2. QED
      BY <1>1, <1>3, <2>1, <3>1
  <2>2. CASE o.at = 1 /\ o.v = -2
    <3>1. at = WORD - 1
      BY <1>4, <2>2
    <3>2. at >= side - o.size
      BY <1>1, <1>3, <3>1
    <3>3. v = 2
      <4>1. v = -o.v
        BY <3>2
      <4> HIDE DEF v
      <4>2. o.v \in Int /\ o.v + 2 = 0
        BY <1>1, <2>2
      <4>3. QED
        BY <4>1, <4>2
    <3>4. QED
      BY <3>1, <3>3
  <2>3. CASE o.at <= side - o.size + 1 /\ ~(o.at = 1 /\ o.v = -2)
    <3>0. ~(o.at = WORD - 1)
      BY <1>1, <1>3, <2>3
    <3>1. 0 <= o.at + o.v /\ o.at + o.v < WORD
      BY <1>1, <1>3, <2>3, <3>0
    <3>2. at = o.at + o.v
      BY <1>4, <3>1
    <3>3. QED
      BY <1>1, <1>3, <2>3, <3>0, <3>1, <3>2
  <2>4. QED
    BY <1>3, <2>1, <2>2, <2>3
<1> HIDE DEF v, m
<1>6. m \in AxisRecords /\ m.at = at /\ m.v = v /\ m.size = o.size
  BY <1>1, <1>2, <1>5 DEF AxisRecords
<1>7. QED
  BY <1>3, <1>5, <1>6 DEF Bounces, m

(* What is painted of such a box.                                          *)
LEMMA BouncesShown ==
  ASSUME NEW o \in AxisRecords, NEW side \in Nat, side > 120, WORD \in Nat, WORD > 2 * side,
         Bounces(o, side)
  PROVE  \/ PaintedTo(o, side) = o.at + o.size - 1
         \/ PaintedTo(o, side) < o.at /\ o.v > 0 /\ (o.at + o.v) % WORD \in 0..side - o.size
         \/ o.at + o.size - side \in 1..2 /\ o.v < 0
<1> DEFINE end == (o.at + o.size) % WORD
           next == (o.at + o.v) % WORD
<1>1. o.at \in Nat /\ o.size \in Nat /\ o.v \in Int
  BY DEF AxisRecords
<1>2. /\ o.size >= 12 /\ o.size <= 20
      /\ o.v = 1 \/ o.v = 2 \/ o.v = -1 \/ o.v = -2
      /\ \/ /\ o.at <= side - o.size + 1
            /\ o.at = side - o.size + 1 => o.v = -2
         \/ o.at = WORD - 1 /\ o.v = 2
  BY DEF Bounces
<1>3. /\ 0 <= o.at + o.size /\ o.at + o.size < WORD => end = o.at + o.size
      /\ WORD <= o.at + o.size /\ o.at + o.size < 2 * WORD => end = o.at + o.size - WORD
      /\ WORD <= o.at + o.v /\ o.at + o.v < 2 * WORD => next = o.at + o.v - WORD
  <2>1. o.at + o.size \in Int /\ o.at + o.v \in Int /\ WORD > 0
    BY <1>1
  <2>2. Wraps(o.at + o.size, end, WORD) /\ Wraps(o.at + o.v, next, WORD) 
    BY <2>1, WordOf
  <2>t. end \in Int /\ next \in Int
    BY <2>1
  <2> HIDE DEF end, next
  <2>3. QED
    BY <1>1, <2>2, <2>t, SMT DEF Wraps
<1>4. PaintedTo(o, side) = (IF end < side THEN end ELSE side) - 1
  BY DEF PaintedTo
<1> HIDE DEF end
<1>5. CASE o.at = WORD - 1 /\ o.v = 2
  <2>1. end = o.size - 1 /\ next = 1
    BY <1>1, <1>2, <1>3, <1>5
  <2> HIDE DEF next
  <2>2. PaintedTo(o, side) < o.at /\ o.v > 0 /\ next \in 0..side - o.size
    BY <1>1, <1>2, <1>4, <1>5, <2>1
  <2>3. QED
    BY <2>2 DEF next
<1>6. CASE o.at <= side - o.size + 1 /\ (o.at = side - o.size + 1 => o.v = -2)
  <2>1. end = o.at + o.size
    BY <1>1, <1>2, <1>3, <1>6
  <2>2. CASE o.at = side - o.size + 1
    BY <1>1, <1>2, <1>6, <2>2
  <2>3. CASE o.at # side - o.size + 1
    BY <1>1, <1>2, <1>4, <1>6, <2>1, <2>3
  <2>4. QED
    BY <2>2, <2>3
<1>7. QED
  BY <1>2, <1>5, <1>6

DemoKept(d) ==
  /\ DOMAIN d.objects = 0..OBJECTS - 1
  /\ \A i \in 0..OBJECTS - 1, a \in Axis :
       d.objects[i][a] \in AxisRecords /\ Bounces(d.objects[i][a], Screen[a])

DemoInv ==
  /\ DemoKept(demo)
  /\ demo \in [running : BOOLEAN, frame : Nat, objects : {demo.objects}]

LEMMA Sides ==
  ASSUME NEW a \in Axis
  PROVE  Screen[a] \in Nat /\ Screen[a] > 120 /\ WORD \in Nat /\ WORD > 2 * Screen[a]
<1>1. (a = "x" /\ Screen[a] = VIDEO_WIDTH) \/ (a = "y" /\ Screen[a] = VIDEO_HEIGHT)
  BY DEF Axis, Screen
<1>2. /\ VIDEO_WIDTH \in Nat /\ VIDEO_WIDTH > 120 /\ VIDEO_HEIGHT \in Nat /\ VIDEO_HEIGHT > 120
      /\ WORD \in Nat /\ WORD > 2 * VIDEO_WIDTH /\ WORD > 2 * VIDEO_HEIGHT
  BY GraphicsAssumption
<1>3. QED
  BY <1>1, <1>2

LEMMA DemoStarts ==
  /\ init_graphics_demo \in [running : BOOLEAN, frame : Nat, objects : {init_graphics_demo.objects}]
  /\ DemoKept(init_graphics_demo)
<1>1. /\ init_graphics_demo.running = TRUE /\ init_graphics_demo.frame = 0
      /\ init_graphics_demo.objects = [i \in 0..OBJECTS - 1 |-> DemoObject(i)]
      /\ init_graphics_demo \in [running : BOOLEAN, frame : Nat, objects : {init_graphics_demo.objects}]
  BY DEF init_graphics_demo
<1>2. ASSUME NEW i \in 0..OBJECTS - 1, NEW a \in Axis
      PROVE  DemoObject(i)[a] \in AxisRecords /\ Bounces(DemoObject(i)[a], Screen[a])
  <2>1. i = 0 \/ i = 1 \/ i = 2 \/ i = 3 \/ i = 4
    BY DEF OBJECTS
  <2> DEFINE at == IF a = "x" THEN 40 + i * 25 ELSE 40 + i * 15
             size == 12 + i * 2
             v == IF a = "x" THEN 1 + (i % 2) ELSE 1 + ((i \div 2) % 2)
             o == [at |-> at, size |-> size, v |-> v]
  <2>2. DemoObject(i)[a] = o
    BY DEF DemoObject, Axis
  <2>3. (v = 1 \/ v = 2) /\ at \in Nat /\ at > 0 /\ size \in Nat /\ size >= 12 /\ size <= 20
    BY <2>1
  <2>4. at + size < Screen[a]
    <3>1. CASE a = "x"
      <4>1. Screen[a] = VIDEO_WIDTH
        BY <3>1 DEF Screen
      <4>2. at + size <= 160
        BY <2>1, <3>1
      <4>3. QED
        BY <2>3, <4>1, <4>2, GraphicsAssumption
    <3>2. CASE a = "y"
      <4>1. Screen[a] = VIDEO_HEIGHT
        BY <3>2 DEF Screen
      <4>2. at + size <= 120
        BY <2>1, <3>2
      <4>3. QED
        BY <2>3, <4>1, <4>2, GraphicsAssumption
    <3>3. QED
      BY <3>1, <3>2 DEF Axis
  <2> HIDE DEF at, size, v
  <2>5. o \in AxisRecords /\ o.at = at /\ o.size = size /\ o.v = v
    BY <2>3 DEF AxisRecords
  <2> HIDE DEF o
  <2>6. Bounces(o, Screen[a])
    <3>1. Screen[a] \in Nat
      BY Sides
    <3>2. v \in Int /\ v > 0 /\ at <= Screen[a] - size + 1 /\ ~(at >= Screen[a] - size)
          /\ ~(at = Screen[a] - size + 1)
      BY <2>3, <2>4, <3>1
    <3>3. QED
      BY <2>3, <2>5, <3>2 DEF Bounces
  <2>7. QED
    BY <2>2, <2>5, <2>6
<1>3. QED
  BY <1>1, <1>2 DEF DemoKept

LEMMA DemoSteps == [AsmNext]_asmVars => DemoNext \/ demo' = init_graphics_demo \/ UNCHANGED demo
BY DEF AsmNext, PlayGame, DrawScreen, UseWire, UseTables, UseDisk, Reset, asmVars, screen

LEMMA NextKeepsDemo == DemoInv /\ [AsmNext]_asmVars => DemoInv'
<1> SUFFICES ASSUME DemoInv, [AsmNext]_asmVars PROVE DemoInv'
  OBVIOUS
<1>1. DemoNext \/ demo' = init_graphics_demo \/ UNCHANGED demo
  BY DemoSteps
<1>2. CASE demo' = init_graphics_demo
  BY <1>2, DemoStarts DEF DemoInv, DemoKept
<1>3. CASE UNCHANGED demo
  BY <1>3 DEF DemoInv, DemoKept
<1>4. ASSUME NEW key \in BOOLEAN, DemoFrame(key) PROVE DemoInv'
  <2> DEFINE moved == [i \in DOMAIN demo.objects |->
                         [a \in Axis |-> MoveObject(demo.objects[i][a], Screen[a])]]
             f == demo.frame + 1
  <2>1. demo' = [demo EXCEPT !.frame = f, !.running = ~key, !.objects = moved]
    BY <1>4 DEF DemoFrame
  <2>2. demo \in [running : BOOLEAN, frame : Nat, objects : {demo.objects}] /\ f \in Nat
    BY DEF DemoInv
  <2>k. (~key) \in BOOLEAN
    OBVIOUS
  <2>3. DOMAIN moved = 0..OBJECTS - 1
    BY DEF DemoInv, DemoKept
  <2>4. ASSUME NEW i \in 0..OBJECTS - 1, NEW a \in Axis
        PROVE  moved[i][a] \in AxisRecords /\ Bounces(moved[i][a], Screen[a])
    <3>1. moved[i][a] = MoveObject(demo.objects[i][a], Screen[a])
      BY DEF DemoInv, DemoKept
    <3>2. demo.objects[i][a] \in AxisRecords /\ Bounces(demo.objects[i][a], Screen[a])
      BY DEF DemoInv, DemoKept
    <3> HIDE DEF moved
    <3>3. QED
      BY <3>1, <3>2, Sides, AxisMoves
  <2> HIDE DEF moved, f
  <2>5. demo' \in [running : BOOLEAN, frame : Nat, objects : {moved}] /\ demo'.objects = moved
    BY <2>1, <2>2, <2>k
  <2>6. DemoKept(demo')
    BY <2>3, <2>4, <2>5 DEF DemoKept
  <2>7. QED
    BY <2>5, <2>6 DEF DemoInv, DemoKept
<1>5. CASE DemoAgain
  BY <1>2, <1>5 DEF DemoAgain
<1>6. QED
  BY <1>1, <1>2, <1>3, <1>4, <1>5 DEF DemoNext

(* draw_line sets only pixels nearest to its line and ends on its end      *)
(* point, whatever its end points, and no box of run_graphics_demo is lost *)
(* to the wrap of its unsigned coordinates, whatever the word and screen.  *)
THEOREM GraphicsAreSound == AsmSpec => []GraphicsSound
<1>1. AsmInit => LineInv /\ DemoInv
  BY DemoStarts DEF AsmInit, LineInit, LineInv, DemoInit, DemoInv
<1>2. DemoInv => BoxComesBack
  <2> SUFFICES ASSUME DemoInv, NEW i \in DOMAIN demo.objects, NEW a \in Axis
               PROVE  LET o == demo.objects[i][a]
                          to == PaintedTo(o, Screen[a])
                      IN  \/ to = o.at + o.size - 1
                          \/ to < o.at /\ o.v > 0 /\ (o.at + o.v) % WORD \in 0..Screen[a] - o.size
                          \/ o.at + o.size - Screen[a] \in 1..2 /\ o.v < 0
    BY DEF BoxComesBack
  <2>1. demo.objects[i][a] \in AxisRecords /\ Bounces(demo.objects[i][a], Screen[a])
    BY DEF DemoInv, DemoKept
  <2>2. QED
    BY <2>1, Sides, BouncesShown
<1>3. LineInv /\ DemoInv => GraphicsSound
  BY <1>2, OnLineTracks DEF GraphicsSound
<1>4. QED
  BY <1>1, <1>3, NextKeepsLine, NextKeepsDemo, PTL DEF AsmSpec
-------------------------------------------------------------------------------
(* The tables of names.  Rows with a name, and the first of them.          *)
PadRows == [name : Stored, setting : Int]
Listed(t, n) == {i \in 1..Len(t) : t[i].name = n}
Leads(t, i, n) == i \in 1..Len(t) /\ t[i].name = n /\ \A j \in 1..Len(t) : t[j].name = n => i <= j

LEMMA PadNumbers ==
  /\ NAME_FIELD \in Nat /\ TABLE_SLOTS \in Nat /\ SETTING_MAX \in Nat
BY ProfilesAssumption

LEMMA NameStored == ASSUME NEW n \in ProfileNames PROVE copy_name(n) \in Stored
BY DEF Stored

LEMMA RowsCounted == ASSUME NEW t \in Seq(PadRows) PROVE Len(t) \in Nat
OBVIOUS

LEMMA RowAt == ASSUME NEW t \in Seq(PadRows), NEW k \in 1..Len(t) PROVE t[k].name \in Stored
<1>1. t[k] \in PadRows
  OBVIOUS
<1>2. QED
  BY <1>1 DEF PadRows

LEMMA Recount ==
  ASSUME NEW f \in [Stored -> Int], NEW a \in Stored
  PROVE  [f EXCEPT ![a] = f[a] + 1] \in [Stored -> Int] /\ [f EXCEPT ![a] = f[a] - 1] \in [Stored -> Int]
<1>1. f[a] \in Int
  OBVIOUS
<1>2. f[a] + 1 \in Int /\ f[a] - 1 \in Int
  BY <1>1
<1>3. QED
  BY <1>2

LEMMA FirstRowLeads ==
  ASSUME NEW t \in Seq(PadRows), NEW n
  PROVE  /\ FirstRow(t, n) # 0 => Leads(t, FirstRow(t, n), n)
         /\ FirstRow(t, n) = 0 => Listed(t, n) = {}
<1> DEFINE rows == {i \in 1..Len(t) : t[i].name = n}
           k == FirstRow(t, n)
<1>1. k = IF rows # {} THEN Min(rows) ELSE 0
  BY DEF FirstRow, SelectInSeq
<1>2. rows \in SUBSET Nat /\ Len(t) \in Nat
  OBVIOUS
<1>3. CASE rows = {}
  BY <1>1, <1>3 DEF Listed
<1>4. CASE rows # {}
  <2>1. k = Min(rows)
    BY <1>1, <1>4
  <2>2. k \in rows /\ \A y \in rows : k <= y
    BY <1>2, <1>4, <2>1, MinIsLeast
  <2>3. k # 0
    BY <1>2, <2>2
  <2>4. Leads(t, k, n)
    BY <2>2 DEF Leads
  <2>5. QED
    BY <2>3, <2>4
<1>5. QED
  BY <1>3, <1>4

LEMMA LeadsOnce ==
  ASSUME NEW t \in Seq(PadRows), NEW n, NEW i, NEW k, Leads(t, i, n), Leads(t, k, n)
  PROVE  i = k
<1>1. Len(t) \in Nat /\ i \in 1..Len(t) /\ k \in 1..Len(t)
  BY RowsCounted DEF Leads
<1>2. i <= k /\ k <= i
  BY <1>1 DEF Leads
<1>3. QED
  BY <1>1, <1>2

LEMMA ListedFinite ==
  ASSUME NEW t \in Seq(PadRows), NEW n
  PROVE  IsFiniteSet(Listed(t, n)) /\ Cardinality(Listed(t, n)) \in Nat
<1>1. Len(t) \in Int
  OBVIOUS
<1>2. IsFiniteSet(1..Len(t))
  BY <1>1, FS_Interval
<1>3. Listed(t, n) \in SUBSET (1..Len(t))
  BY DEF Listed
<1>4. IsFiniteSet(Listed(t, n))
  BY <1>2, <1>3, FS_Subset
<1>5. QED
  BY <1>4, FS_CardinalityType

(* A row more.                                                             *)
LEMMA RowAppended ==
  ASSUME NEW t \in Seq(PadRows), NEW r \in PadRows
  PROVE  LET u == Append(t, r)
         IN  /\ u \in Seq(PadRows) /\ Len(u) = Len(t) + 1 /\ u[Len(t) + 1] = r
             /\ \A i \in 1..Len(t) : u[i] = t[i]
OBVIOUS

LEMMA AppendListed ==
  ASSUME NEW t \in Seq(PadRows), NEW r \in PadRows, NEW n
  PROVE  Cardinality(Listed(Append(t, r), n)) =
           IF r.name = n THEN Cardinality(Listed(t, n)) + 1 ELSE Cardinality(Listed(t, n))
<1> DEFINE u == Append(t, r)
           l == Len(t)
<1>1. l \in Nat /\ Len(u) = l + 1 /\ u[l + 1] = r /\ \A i \in 1..l : u[i] = t[i]
  BY RowAppended
<1> HIDE DEF u, l
<1>2. r.name = n => Listed(u, n) = Listed(t, n) \cup {l + 1}
  BY <1>1 DEF Listed, l
<1>3. r.name # n => Listed(u, n) = Listed(t, n)
  BY <1>1 DEF Listed, l
<1>4. l + 1 \notin Listed(t, n)
  BY <1>1 DEF Listed, l
<1>5. IsFiniteSet(Listed(t, n))
  BY ListedFinite
<1>6. Cardinality(Listed(t, n) \cup {l + 1}) = Cardinality(Listed(t, n)) + 1
  BY <1>4, <1>5, FS_AddElement
<1>7. QED
  BY <1>2, <1>3, <1>6 DEF u

(* A row less: the rows behind it move down by one.                        *)
LEMMA RowRemoved ==
  ASSUME NEW t \in Seq(PadRows), NEW k \in 1..Len(t)
  PROVE  LET u == ShiftDown(t, k)
         IN  /\ u \in Seq(PadRows) /\ Len(u) = Len(t) - 1
             /\ \A i \in 1..Len(t) - 1 : u[i] = IF i < k THEN t[i] ELSE t[i + 1]
<1> DEFINE l == Len(t)
           a == SubSeq(t, 1, k - 1)
           b == SubSeq(t, k + 1, l)
           u == a \o b
<1>1. l \in Nat /\ k \in Int /\ 1 <= k /\ k <= l /\ \A i \in 1..l : t[i] \in PadRows
  OBVIOUS
<1>2. ShiftDown(t, k) = u
  BY DEF ShiftDown, RemoveAt
<1>3. a \in Seq(PadRows) /\ Len(a) = k - 1 /\ \A i \in 1..k - 1 : a[i] = t[i]
  <2> DEFINE m == k - 1
  <2>1. m \in Int /\ m >= 0 /\ \A i \in 1..m : t[i] \in PadRows
    BY <1>1
  <2> HIDE DEF m
  <2>2. /\ SubSeq(t, 1, m) \in Seq(PadRows)
        /\ Len(SubSeq(t, 1, m)) = IF 1 <= m THEN m - 1 + 1 ELSE 0
        /\ \A i \in 1..m - 1 + 1 : SubSeq(t, 1, m)[i] = t[1 + i - 1]
    BY <2>1, SubSeqProperties
  <2>3. m - 1 + 1 = m /\ \A i \in 1..m : 1 + i - 1 = i
    BY <2>1
  <2>4. Len(SubSeq(t, 1, m)) = m
    BY <2>1, <2>2
  <2>5. \A i \in 1..m : SubSeq(t, 1, m)[i] = t[i]
    BY <2>2, <2>3
  <2>6. QED
    BY <2>2, <2>4, <2>5 DEF m
<1>4. b \in Seq(PadRows) /\ Len(b) = l - k /\ \A i \in 1..l - k : b[i] = t[i + k]
  <2> DEFINE m == k + 1
  <2>1. m \in Int /\ m <= l + 1 /\ l \in Int /\ \A i \in m..l : t[i] \in PadRows
    BY <1>1
  <2> HIDE DEF m, l
  <2>2. /\ SubSeq(t, m, l) \in Seq(PadRows)
        /\ Len(SubSeq(t, m, l)) = IF m <= l THEN l - m + 1 ELSE 0
        /\ \A i \in 1..l - m + 1 : SubSeq(t, m, l)[i] = t[m + i - 1]
    BY <2>1, SubSeqProperties
  <2>3. l - m + 1 = l - k /\ \A i \in 1..l - k : m + i - 1 = i + k
    BY <1>1, <2>1 DEF m
  <2>4. Len(SubSeq(t, m, l)) = l - k
    BY <1>1, <2>1, <2>2, <2>3
  <2>5. \A i \in 1..l - k : SubSeq(t, m, l)[i] = t[i + k]
    BY <2>2, <2>3
  <2>6. QED
    BY <2>2, <2>4, <2>5 DEF m
<1> HIDE DEF a, b, l
<1>5. /\ u \in Seq(PadRows) /\ Len(u) = Len(a) + Len(b)
      /\ \A i \in 1..Len(a) + Len(b) : u[i] = IF i <= Len(a) THEN a[i] ELSE b[i - Len(a)]
  BY <1>3, <1>4, ConcatProperties
<1>6. Len(a) + Len(b) = l - 1
  BY <1>1, <1>3, <1>4
<1>7. ASSUME NEW i \in 1..l - 1 PROVE u[i] = IF i < k THEN t[i] ELSE t[i + 1]
  <2>1. u[i] = IF i <= k - 1 THEN a[i] ELSE b[i - (k - 1)]
    BY <1>3, <1>5, <1>6
  <2>2. CASE i < k
    <3>1. i <= k - 1 /\ i \in 1..k - 1
      BY <1>1, <2>2
    <3>2. QED
      BY <1>3, <2>1, <2>2, <3>1
  <2>3. CASE ~(i < k)
    <3>1. ~(i <= k - 1) /\ i - (k - 1) \in 1..l - k /\ i - (k - 1) + k = i + 1
      BY <1>1, <2>3
    <3>2. QED
      BY <1>4, <2>1, <2>3, <3>1
  <2>4. QED
    BY <2>2, <2>3
<1>8. QED
  BY <1>2, <1>5, <1>6, <1>7 DEF l

LEMMA RemoveListed ==
  ASSUME NEW t \in Seq(PadRows), NEW k \in 1..Len(t), NEW n
  PROVE  Cardinality(Listed(ShiftDown(t, k), n)) =
           IF t[k].name = n THEN Cardinality(Listed(t, n)) - 1 ELSE Cardinality(Listed(t, n))
<1> DEFINE l == Len(t)
           u == ShiftDown(t, k)
           S == Listed(t, n) \ {k}
           T == Listed(u, n)
           f == [i \in S |-> IF i < k THEN i ELSE i - 1]
<1>1. l \in Nat /\ k \in 1..l
  OBVIOUS
<1>2. Len(u) = l - 1 /\ \A i \in 1..l - 1 : u[i] = IF i < k THEN t[i] ELSE t[i + 1]
  BY RowRemoved
<1>3. \A i \in S : i \in 1..l /\ i # k /\ t[i].name = n
  BY DEF Listed
<1>4. \A j : j \in T <=> j \in 1..l - 1 /\ u[j].name = n
  BY <1>2 DEF Listed
<1> HIDE DEF l, u, T
<1>5. ASSUME NEW i \in S PROVE f[i] \in T
  <2>1. CASE i < k
    <3>1. i \in 1..l - 1 /\ u[i] = t[i]
      BY <1>1, <1>2, <1>3, <2>1
    <3>2. QED
      BY <1>3, <1>4, <2>1, <3>1
  <2>2. CASE ~(i < k)
    <3>1. i - 1 \in 1..l - 1 /\ ~(i - 1 < k) /\ (i - 1) + 1 = i
      BY <1>1, <1>3, <2>2
    <3>2. u[i - 1] = t[i]
      BY <1>2, <3>1
    <3>3. QED
      BY <1>3, <1>4, <2>2, <3>1, <3>2
  <2>3. QED
    BY <2>1, <2>2
<1>6. f \in [S -> T]
  BY <1>5
<1>7. \A i, j \in S : f[i] = f[j] => i = j
  BY <1>1, <1>3
<1>8. ASSUME NEW j \in T PROVE \E i \in S : f[i] = j
  <2>1. j \in 1..l - 1 /\ u[j].name = n
    BY <1>4
  <2>2. CASE j < k
    <3>1. t[j].name = n /\ j \in 1..l /\ j # k
      BY <1>1, <1>2, <2>1, <2>2
    <3>2. j \in S
      BY <3>1 DEF Listed, l
    <3>3. QED
      BY <2>2, <3>2
  <2>3. CASE ~(j < k)
    <3>1. t[j + 1].name = n /\ j + 1 \in 1..l /\ j + 1 # k /\ ~(j + 1 < k) /\ (j + 1) - 1 = j
      BY <1>1, <1>2, <2>1, <2>3
    <3>2. j + 1 \in S
      BY <3>1 DEF Listed, l
    <3>3. QED
      BY <3>1, <3>2
  <2>4. QED
    BY <2>2, <2>3
<1>9. DOMAIN f = S
  OBVIOUS
<1>10. IsFiniteSet(Listed(t, n)) /\ Cardinality(Listed(t, n)) \in Nat
  BY ListedFinite
<1>11. /\ IsFiniteSet(S)
       /\ Cardinality(S) = IF k \in Listed(t, n) THEN Cardinality(Listed(t, n)) - 1
                           ELSE Cardinality(Listed(t, n))
  BY <1>10, FS_RemoveElement
<1>12. k \in Listed(t, n) <=> t[k].name = n
  BY DEF Listed
<1> HIDE DEF S, f
<1>13. f \in Bijection(S, T)
  BY <1>6, <1>7, <1>8, <1>9 DEF Bijection, Injection, Surjection, IsInjective
<1>14. Cardinality(T) = Cardinality(S)
  BY <1>11, <1>13, FS_Bijection DEF ExistsBijection
<1>15. QED
  BY <1>11, <1>12, <1>14 DEF T, u

(* What the table keeps of what was entered.                               *)
PadRecords == [kind : Kinds, on : BOOLEAN, table : Seq(PadRows), force : Int,
               first : UNION {[D -> Int] : D \in SUBSET Stored}, pairings : [Stored -> Int]]

FirstsKept(t, first) ==
  /\ \A i \in 1..Len(t) : t[i].name \in DOMAIN first
  /\ \A n \in DOMAIN first : \E i \in 1..Len(t) : Leads(t, i, n) /\ first[n] = t[i].setting

PadsKept(p) ==
  /\ p \in PadRecords
  /\ ~p.on => p.table = <<>> /\ p.kind \in {"bt profile", "bt device"}
  /\ p.kind # "bt device" => FirstsKept(p.table, p.first)
  /\ p.kind = "bt device" => \A a \in Stored : Cardinality(Listed(p.table, a)) = p.pairings[a]

LEMMA EmptyListed == ASSUME NEW n PROVE Listed(<<>>, n) = {} /\ Cardinality(Listed(<<>>, n)) = 0
<1>1. Listed(<<>>, n) = {}
  BY DEF Listed
<1>2. QED
  BY <1>1, FS_EmptySet

LEMMA PadsStarts == ASSUME NEW k \in Kinds PROVE PadsKept(PadsStart(k))
<1> DEFINE p == PadsStart(k)
           f == <<>>
           none == [a \in Stored |-> 0]
           on == k \notin {"bt profile", "bt device"}
<1>1. p = [kind |-> k, on |-> on, table |-> <<>>, force |-> 1, first |-> f, pairings |-> none]
  BY DEF PadsStart, DefaultSetting
<1>2. DOMAIN f = {} /\ f \in [{} -> Int]
  OBVIOUS
<1>3. f \in UNION {[D -> Int] : D \in SUBSET Stored}
  BY <1>2
<1>4. none \in [Stored -> Int] /\ \A a \in Stored : none[a] = 0
  OBVIOUS
<1>5. <<>> \in Seq(PadRows) /\ Len(<<>>) = 0
  OBVIOUS
<1>6. on \in BOOLEAN
  OBVIOUS
<1> HIDE DEF p, none, on, f
<1>7. p \in PadRecords
  BY <1>1, <1>3, <1>4, <1>5, <1>6 DEF PadRecords
<1>8. p.table = <<>> /\ p.first = f /\ p.pairings = none
  BY <1>1
<1>9. FirstsKept(p.table, p.first)
  BY <1>2, <1>5, <1>8 DEF FirstsKept
<1>10. \A a \in Stored : Cardinality(Listed(p.table, a)) = p.pairings[a]
  BY <1>4, <1>8, EmptyListed
<1>11. p.kind = k /\ (~p.on => k \in {"bt profile", "bt device"})
  BY <1>1 DEF on
<1>12. QED
  BY <1>7, <1>8, <1>9, <1>10, <1>11 DEF PadsKept, p

(* The ghost record of first settings after one more row.                  *)
Recorded(first, r) ==
  IF r.name \in DOMAIN first THEN first
  ELSE [n \in DOMAIN first \cup {r.name} |-> IF n = r.name THEN r.setting ELSE first[n]]

LEMMA FirstsAppended ==
  ASSUME NEW t \in Seq(PadRows), NEW first \in UNION {[D -> Int] : D \in SUBSET Stored},
         FirstsKept(t, first), NEW r \in PadRows
  PROVE  /\ Recorded(first, r) \in UNION {[D -> Int] : D \in SUBSET Stored}
         /\ FirstsKept(Append(t, r), Recorded(first, r))
<1> DEFINE s == r.name
           D == DOMAIN first
           u == Append(t, r)
           l == Len(t)
           ext == [n \in D \cup {s} |-> IF n = s THEN r.setting ELSE first[n]]
           g == IF s \in D THEN first ELSE ext
<1>1. s \in Stored /\ r.setting \in Int
  BY DEF PadRows
<1>2. D \in SUBSET Stored /\ first \in [D -> Int]
  OBVIOUS
<1>3. l \in Nat /\ Len(u) = l + 1 /\ u[l + 1] = r /\ \A i \in 1..l : u[i] = t[i]
  BY RowAppended
<1>4. ext \in [D \cup {s} -> Int] /\ D \cup {s} \in SUBSET Stored
  BY <1>1, <1>2
<1>5. g \in UNION {[E -> Int] : E \in SUBSET Stored}
  BY <1>4
<1>6. /\ DOMAIN g = D \cup {s} /\ \A n \in D : g[n] = first[n]
      /\ s \notin D => g[s] = r.setting
  BY <1>2
<1> HIDE DEF g, ext, u, l, s
<1>7. ASSUME NEW i \in 1..l + 1 PROVE u[i].name \in DOMAIN g
  <2>1. CASE i = l + 1
    BY <1>3, <1>6, <2>1 DEF s
  <2>2. CASE i # l + 1
    <3>1. i \in 1..l
      BY <1>3, <2>2
    <3>2. t[i].name \in D
      BY <3>1 DEF FirstsKept, l
    <3>3. QED
      BY <1>3, <1>6, <3>1, <3>2
  <2>3. QED
    BY <2>1, <2>2
<1>8. ASSUME NEW n \in DOMAIN g PROVE \E i \in 1..l + 1 : Leads(u, i, n) /\ g[n] = u[i].setting
  <2>1. CASE n \in D
    <3>1. PICK i \in 1..l : Leads(t, i, n) /\ first[n] = t[i].setting
      BY <2>1 DEF FirstsKept, l
    <3>2. i \in 1..l + 1 /\ u[i] = t[i] /\ g[n] = u[i].setting
      BY <1>3, <1>6, <2>1, <3>1
    <3>3. \A j \in 1..l + 1 : u[j].name = n => i <= j
      BY <1>3, <3>1 DEF Leads, l
    <3>4. Leads(u, i, n)
      BY <1>3, <3>1, <3>2, <3>3 DEF Leads
    <3>5. QED
      BY <3>2, <3>4
  <2>2. CASE n \notin D
    <3>1. n = s /\ g[n] = r.setting /\ u[l + 1] = r
      BY <1>3, <1>6, <2>2
    <3>2. \A j \in 1..l : t[j].name # n
      BY <2>2 DEF FirstsKept, l
    <3>3. \A j \in 1..l + 1 : u[j].name = n => l + 1 <= j
      BY <1>3, <3>2
    <3>4. l + 1 \in 1..l + 1
      BY <1>3
    <3>5. Leads(u, l + 1, n)
      BY <1>3, <3>1, <3>3, <3>4 DEF Leads, s
    <3>6. QED
      BY <3>1, <3>4, <3>5
  <2>3. QED
    BY <2>1, <2>2
<1>9. FirstsKept(u, g)
  BY <1>3, <1>7, <1>8 DEF FirstsKept
<1>10. QED
  BY <1>5, <1>9 DEF g, ext, u, s, Recorded

LEMMA EnterKeepsPads ==
  ASSUME PadsKept(pads), pads.kind # "bt device", pads.on, NEW name \in ProfileNames, NEW v \in Int,
         pads' = Entered(name, v)
  PROVE  PadsKept(pads')
<1> DEFINE s == copy_name(name)
           r == [name |-> s, setting |-> v]
           u == Append(pads.table, r)
           D == DOMAIN pads.first
           g == IF s \in D THEN pads.first
                ELSE [n \in D \cup {s} |-> IF n = s THEN v ELSE pads.first[n]]
<1>1. pads' = [pads EXCEPT !.table = u, !.first = g]
  BY DEF Entered
<1>2. /\ pads \in PadRecords /\ pads.table \in Seq(PadRows) /\ FirstsKept(pads.table, pads.first)
      /\ pads.first \in UNION {[E -> Int] : E \in SUBSET Stored}
  BY DEF PadsKept, PadRecords
<1>3. r \in PadRows /\ r.name = s /\ r.setting = v
  BY NameStored DEF PadRows
<1>4. g \in UNION {[E -> Int] : E \in SUBSET Stored} /\ FirstsKept(u, g)
  <2> HIDE DEF r, s
  <2>1. g = Recorded(pads.first, r)
    BY <1>3 DEF Recorded
  <2> HIDE DEF g
  <2>2. QED
    BY <1>2, <1>3, <2>1, FirstsAppended
<1>5. u \in Seq(PadRows)
  BY <1>2, <1>3, RowAppended
<1> HIDE DEF g, u
<1>6. /\ pads' \in PadRecords /\ pads'.kind = pads.kind /\ pads'.on = pads.on /\ pads'.table = u
      /\ pads'.first = g
  BY <1>1, <1>2, <1>4, <1>5 DEF PadRecords
<1>7. QED
  BY <1>4, <1>6 DEF PadsKept

(* Steps that change the settings in force and nothing else.               *)
LEMMA ForceKeepsPads ==
  ASSUME PadsKept(pads), NEW v \in Int, pads' = [pads EXCEPT !.force = v]
  PROVE  PadsKept(pads')
<1>1. /\ pads' \in PadRecords /\ pads'.kind = pads.kind /\ pads'.on = pads.on
      /\ pads'.table = pads.table /\ pads'.first = pads.first /\ pads'.pairings = pads.pairings
  BY DEF PadsKept, PadRecords
<1>2. QED
  BY <1>1 DEF PadsKept

LEMMA FoundKeepsPads ==
  ASSUME PadsKept(pads), NEW n, pads' = Found(n)
  PROVE  PadsKept(pads')
<1> DEFINE k == FirstRow(pads.table, n)
           v == pads.table[k].setting
<1>1. pads.table \in Seq(PadRows)
  BY DEF PadsKept, PadRecords
<1>2. CASE k = 0
  BY <1>2 DEF Found
<1>3. CASE k # 0
  <2>1. Leads(pads.table, k, n)
    BY <1>1, <1>3, FirstRowLeads
  <2>2. pads.table[k] \in PadRows
    BY <1>1, <2>1 DEF Leads
  <2>3. v \in Int
    BY <2>2 DEF PadRows
  <2>4. pads' = [pads EXCEPT !.force = v]
    BY <1>3 DEF Found
  <2> HIDE DEF v, k
  <2>5. QED
    BY <2>3, <2>4, ForceKeepsPads
<1>4. QED
  BY <1>2, <1>3

LEMMA FoundRestores ==
  ASSUME PadsKept(pads), pads.kind # "bt device", NEW n, pads' = Found(n)
  PROVE  pads'.force = IF n \in DOMAIN pads.first THEN pads.first[n] ELSE pads.force
<1> DEFINE t == pads.table
           k == FirstRow(t, n)
<1>1. t \in Seq(PadRows) /\ FirstsKept(t, pads.first) /\ pads \in PadRecords
  BY DEF PadsKept, PadRecords
<1> HIDE DEF t
<1>2. k # 0 => Leads(t, k, n)
  BY <1>1, FirstRowLeads
<1>3. k = 0 => Listed(t, n) = {}
  BY <1>1, FirstRowLeads
<1>4. k = 0 => pads' = pads
  BY DEF Found, t
<1>5. k # 0 => pads'.force = t[k].setting
  BY <1>1 DEF Found, PadRecords, t
<1> HIDE DEF k
<1>6. CASE n \in DOMAIN pads.first
  <2>1. PICK i \in 1..Len(t) : Leads(t, i, n) /\ pads.first[n] = t[i].setting
    BY <1>1, <1>6 DEF FirstsKept
  <2>2. k # 0
    BY <1>3, <2>1 DEF Leads, Listed
  <2>3. k = i
    BY <1>1, <1>2, <2>1, <2>2, LeadsOnce
  <2>4. QED
    BY <1>5, <1>6, <2>1, <2>2, <2>3
<1>7. CASE n \notin DOMAIN pads.first
  <2>1. k = 0
    BY <1>1, <1>2, <1>7 DEF Leads, FirstsKept
  <2>2. QED
    BY <1>4, <1>7, <2>1
<1>8. QED
  BY <1>6, <1>7

LEMMA PairKeepsPads ==
  ASSUME PadsKept(pads), NEW addr \in ProfileNames, bt_pair(addr)
  PROVE  PadsKept(pads')
<1> DEFINE s == copy_name(addr)
           r == [name |-> s, setting |-> 0]
           u == Append(pads.table, r)
           q == [pads.pairings EXCEPT ![s] = pads.pairings[s] + 1]
<1>1. /\ pads \in PadRecords /\ pads.table \in Seq(PadRows) /\ pads.pairings \in [Stored -> Int]
      /\ pads.kind = "bt device" /\ pads.on
      /\ \A a \in Stored : Cardinality(Listed(pads.table, a)) = pads.pairings[a]
  BY DEF PadsKept, PadRecords, bt_pair
<1>2. pads' = [pads EXCEPT !.table = u, !.pairings = q]
  BY <1>1 DEF bt_pair, PadRecords
<1>3. s \in Stored /\ r \in PadRows /\ r.name = s
  BY NameStored DEF PadRows
<1>4. u \in Seq(PadRows)
  BY <1>1, <1>3, RowAppended
<1>5. q \in [Stored -> Int]
  BY <1>1, <1>3, Recount
<1>6. ASSUME NEW a \in Stored PROVE Cardinality(Listed(u, a)) = q[a]
  <2>1. Cardinality(Listed(u, a)) = IF r.name = a THEN Cardinality(Listed(pads.table, a)) + 1
                                    ELSE Cardinality(Listed(pads.table, a))
    BY <1>1, <1>3, AppendListed
  <2>2. QED
    BY <1>1, <1>3, <2>1
<1> HIDE DEF q, u
<1>7. /\ pads' \in PadRecords /\ pads'.kind = "bt device" /\ pads'.on /\ pads'.table = u
      /\ pads'.pairings = q
  BY <1>1, <1>2, <1>4, <1>5 DEF PadRecords
<1>8. QED
  BY <1>6, <1>7 DEF PadsKept

LEMMA UnpairKeepsPads ==
  ASSUME PadsKept(pads), NEW addr \in ProfileNames, bt_unpair(addr)
  PROVE  PadsKept(pads')
<1> DEFINE t == pads.table
           k == FirstRow(t, addr)
           u == ShiftDown(t, k)
           q == [pads.pairings EXCEPT ![addr] = pads.pairings[addr] - 1]
<1>1. /\ pads \in PadRecords /\ t \in Seq(PadRows) /\ pads.pairings \in [Stored -> Int]
      /\ pads.kind = "bt device" /\ pads.on
      /\ \A a \in Stored : Cardinality(Listed(t, a)) = pads.pairings[a]
  BY DEF PadsKept, PadRecords, bt_unpair
<1>2. CASE k = 0
  <2>1. pads' = pads
    BY <1>2 DEF bt_unpair
  <2>2. QED
    BY <2>1
<1>3. CASE k # 0
  <2>1. pads' = [pads EXCEPT !.table = u, !.pairings = q]
    BY <1>1, <1>3 DEF bt_unpair, PadRecords
  <2>2. k \in 1..Len(t) /\ t[k].name = addr
    BY <1>1, <1>3, FirstRowLeads DEF Leads
  <2> HIDE DEF k, t
  <2>3. addr \in Stored
    BY <1>1, <2>2, RowAt
  <2>4. u \in Seq(PadRows)
    BY <1>1, <2>2, RowRemoved
  <2>5. q \in [Stored -> Int]
    BY <1>1, <2>3, Recount
  <2>6. ASSUME NEW a \in Stored PROVE Cardinality(Listed(u, a)) = q[a]
    <3>1. Cardinality(Listed(u, a)) = IF t[k].name = a THEN Cardinality(Listed(t, a)) - 1
                                      ELSE Cardinality(Listed(t, a))
      BY <1>1, <2>2, RemoveListed
    <3>2. QED
      BY <1>1, <2>2, <2>3, <3>1
  <2> HIDE DEF q, u
  <2>7. /\ pads' \in PadRecords /\ pads'.kind = "bt device" /\ pads'.on /\ pads'.table = u
        /\ pads'.pairings = q
    BY <1>1, <2>1, <2>4, <2>5 DEF PadRecords
  <2>8. QED
    BY <2>6, <2>7 DEF PadsKept
<1>4. QED
  BY <1>2, <1>3

LEMMA InitKeepsPads ==
  ASSUME PadsKept(pads), bt_init
  PROVE  PadsKept(pads')
<1>1. CASE pads.on
  BY <1>1 DEF bt_init
<1>2. CASE ~pads.on
  <2>1. pads' = [pads EXCEPT !.on = TRUE, !.table = <<>>, !.force = 1]
    BY <1>2 DEF bt_init, DefaultSetting
  <2>2. pads.table = <<>> /\ pads \in PadRecords
    BY <1>2 DEF PadsKept
  <2>3. /\ pads' \in PadRecords /\ pads'.kind = pads.kind /\ pads'.on /\ pads'.table = pads.table
        /\ pads'.first = pads.first /\ pads'.pairings = pads.pairings
    <3>1. <<>> \in Seq(PadRows) /\ 1 \in Int /\ TRUE \in BOOLEAN
      OBVIOUS
    <3>2. QED
      BY <2>1, <2>2, <3>1 DEF PadRecords
  <2>4. QED
    BY <2>3 DEF PadsKept
<1>3. QED
  BY <1>1, <1>2

LEMMA PadsSteps ==
  [AsmNext]_asmVars => PadsNext \/ pads' = PadsStart(pads.kind) \/ UNCHANGED pads
BY DEF AsmNext, PlayGame, DrawScreen, UseWire, UseTables, UseDisk, Reset, asmVars, tables

LEMMA NextKeepsPads == PadsKept(pads) /\ [AsmNext]_asmVars => PadsKept(pads')
<1> SUFFICES ASSUME PadsKept(pads), [AsmNext]_asmVars PROVE PadsKept(pads')
  OBVIOUS
<1>1. PadsNext \/ pads' = PadsStart(pads.kind) \/ UNCHANGED pads
  BY PadsSteps
<1>2. /\ pads.kind \in Kinds /\ pads.force \in Int /\ pads \in PadRecords
      /\ ~pads.on => pads.kind \in {"bt profile", "bt device"}
  BY DEF PadsKept, PadRecords
<1>3. ASSUME NEW v \in -1..(SETTING_MAX + 1), controller_set(v) \/ controller_set_turbo(v)
      PROVE  PadsKept(pads')
  <2> DEFINE c == Clamped(v)
             m == v % (SETTING_MAX + 1)
  <2>1. c \in Int
    BY PadNumbers DEF Clamped
  <2>2. m \in Int
    BY PadNumbers
  <2>3. pads' = [pads EXCEPT !.force = c] \/ pads' = [pads EXCEPT !.force = m]
    BY <1>3 DEF controller_set, controller_set_turbo
  <2> HIDE DEF c, m
  <2>4. QED
    BY <2>1, <2>2, <2>3, ForceKeepsPads
<1>4. ASSUME NEW v \in 0..SETTING_MAX, controller_map_set(v) PROVE PadsKept(pads')
  <2>1. pads' = [pads EXCEPT !.force = v]
    BY <1>4 DEF controller_map_set
  <2>2. v \in Int
    BY PadNumbers
  <2>3. QED
    BY <2>1, <2>2, ForceKeepsPads
<1>5. ASSUME NEW n \in ProfileNames, bt_controller_profile_create(n) \/ controller_profile_save(n)
      PROVE  PadsKept(pads')
  <2>1. pads.kind # "bt device" /\ pads.on /\ pads' = Entered(n, pads.force)
    BY <1>2, <1>5 DEF bt_controller_profile_create, controller_profile_save
  <2>2. QED
    BY <1>2, <2>1, EnterKeepsPads
<1>6. ASSUME NEW n \in ProfileNames, NEW v \in 0..SETTING_MAX, pause_compat_add(n, v)
      PROVE  PadsKept(pads')
  <2>1. pads.kind # "bt device" /\ pads.on /\ pads' = Entered(n, v)
    BY <1>2, <1>6 DEF pause_compat_add
  <2>2. v \in Int
    BY PadNumbers
  <2>3. QED
    BY <2>1, <2>2, EnterKeepsPads
<1>7. ASSUME NEW n \in ProfileNames, ProfileLoad(n) PROVE PadsKept(pads')
  BY <1>7, FoundKeepsPads DEF ProfileLoad, bt_controller_profile_load, controller_profile_load,
     pause_compat_get
<1>8. UNCHANGED pads => PadsKept(pads')
  OBVIOUS
<1>9. pads' = PadsStart(pads.kind) => PadsKept(pads')
  BY <1>2, PadsStarts
<1>10. QED
  BY <1>1, <1>3, <1>4, <1>5, <1>6, <1>7, <1>8, <1>9, InitKeepsPads, PairKeepsPads, UnpairKeepsPads
     DEF PadsNext

PadsSound == PadsKept(pads)

(* The tables of bluetooth.c, controller_remap.c and pause_engine.c, with  *)
(* any number of slots, any names and any length of the name field: a load *)
(* brings back what was first saved under a name, and a device is listed   *)
(* as often as it was paired and not unpaired.                             *)
THEOREM TablesAlwaysKeep == AsmSpec => TablesKeep
<1>1. AsmInit => PadsSound
  BY PadsStarts DEF AsmInit, PadsInit, PadsSound
<1>2. PadsSound /\ [AsmNext]_asmVars => PadsSound'
  BY NextKeepsPads DEF PadsSound, PadsKept, FirstsKept, Leads, Listed
<1>3. PadsSound => LoadRestores
  <2>1. ASSUME PadsSound, NEW n \in ProfileNames, ProfileLoad(n)
        PROVE  pads'.force = IF n \in DOMAIN pads.first THEN pads.first[n] ELSE pads.force
    <3>1. pads.kind # "bt device" /\ pads' = Found(n)
      BY <2>1 DEF ProfileLoad, bt_controller_profile_load, controller_profile_load, pause_compat_get
    <3>2. QED
      BY <2>1, <3>1, FoundRestores DEF PadsSound
  <2>2. QED
    BY <2>1 DEF LoadRestores
<1>4. PadsSound => PairingsCounted
  <2> SUFFICES ASSUME PadsSound, pads.kind = "bt device", NEW a \in Stored
               PROVE  Cardinality({i \in DOMAIN pads.table : pads.table[i].name = a}) = pads.pairings[a]
    BY DEF PairingsCounted
  <2>1. pads.table \in Seq(PadRows) /\ Cardinality(Listed(pads.table, a)) = pads.pairings[a]
    BY DEF PadsSound, PadsKept, PadRecords
  <2>2. DOMAIN pads.table = 1..Len(pads.table)
    BY <2>1, LenProperties
  <2>3. QED
    BY <2>1, <2>2 DEF Listed
<1>5. QED
  BY <1>1, <1>2, <1>3, <1>4, PTL DEF AsmSpec, TablesKeep
-------------------------------------------------------------------------------
(* The shell: what one call, and what the calls of a line, may carry.      *)
CallFit(c) ==
  /\ c[1] \in {"mc_mount", "mc_clone"} => c[2] \in 0..1
  /\ c[1] = "led_rgb" => c[2] \in 0..255
  /\ c[1] = "launch_game" => c[2] >= 0
  /\ c[1] \in WithText => c[2] # ""

(* The calls whose argument matters.                                       *)
Guarded == WithText \cup {"mc_mount", "mc_clone", "led_rgb", "launch_game"}

AtMostOne(s) == s = Nothing \/ \E c : s = <<c>> /\ CallFit(c)
Fit(s) == AtMostOne(s) \/ \E c, d : s = <<c, d>> /\ CallFit(c) /\ CallFit(d)

LEMMA FitCalls ==
  ASSUME NEW s, Fit(s), NEW i \in DOMAIN s
  PROVE  CallFit(s[i])
BY DEF Fit, AtMostOne, Nothing

LEMMA OneCall ==
  ASSUME NEW name, NEW arg, CallFit(<<name, arg>>)
  PROVE  AtMostOne(Call(name, arg))
BY DEF AtMostOne, Call

LEMMA NoCall == AtMostOne(Nothing)
BY DEF AtMostOne

LEMMA DoFits ==
  ASSUME NEW name, name \notin Guarded
  PROVE  AtMostOne(Do(name)) /\ \E c : Do(name) = <<c>> /\ CallFit(c)
<1>1. CallFit(<<name, "">>)
  BY DEF CallFit, Guarded
<1>2. QED
  BY <1>1 DEF Do, AtMostOne

LEMMA JoinedLength ==
  ASSUME NEW S, NEW a \in Seq(S), NEW b \in Seq(S)
  PROVE  Len(a \o b) = Len(a) + Len(b)
OBVIOUS

LEMMA InitThen ==
  ASSUME NEW s, NEW t, \E c : s = <<c>> /\ CallFit(c), AtMostOne(t)
  PROVE  Fit(s \o t)
<1>1. PICK c : s = <<c>> /\ CallFit(c)
  OBVIOUS
<1>2. CASE t = Nothing
  <2>1. s \o t = <<c>>
    BY <1>1, <1>2 DEF Nothing
  <2>2. QED
    BY <1>1, <2>1 DEF Fit, AtMostOne
<1>3. CASE \E d : t = <<d>> /\ CallFit(d)
  <2>1. PICK d : t = <<d>> /\ CallFit(d)
    BY <1>3
  <2>2. s \o t = <<c, d>>
    <3>1. s = <<c>> /\ t = <<d>>
      BY <1>1, <2>1
    <3> DEFINE st == s \o t
               cd == <<c, d>>
    <3>2. s \in Seq({c, d}) /\ t \in Seq({c, d}) /\ Len(s) = 1 /\ Len(t) = 1 /\ s[1] = c /\ t[1] = d
      BY <3>1
    <3>3. st \in Seq({c, d}) /\ Len(st) = 2 /\ st[1] = c /\ st[2] = d
      <4>1. Len(st) = 2 /\ st \in Seq({c, d})
        <5>1. st \in Seq({c, d})
          BY <3>2
        <5>2. Len(st) = Len(s) + Len(t)
          BY <3>2, JoinedLength
        <5>3. QED
          BY <3>2, <5>1, <5>2
      <4>2. st[1] = c
        BY <3>2
      <4>3. st[2] = d
        BY <3>2
      <4>4. QED
        BY <4>1, <4>2, <4>3
    <3>4. cd \in Seq({c, d}) /\ Len(cd) = 2 /\ cd[1] = c /\ cd[2] = d
      OBVIOUS
    <3> HIDE DEF st, cd
    <3>5. st = cd
      BY <3>3, <3>4, SeqEqual
    <3>6. QED
      BY <3>5 DEF st, cd
  <2>3. QED
    BY <1>1, <2>1, <2>2 DEF Fit
<1>4. QED
  BY <1>2, <1>3 DEF AtMostOne

(* A handler that prepares its subsystem and then makes at most one call.  *)
LEMMA InitOrUsage ==
  ASSUME NEW sub, NEW name, name \notin Guarded, NEW t, AtMostOne(t)
  PROVE  Fit(IF sub = "" THEN Nothing ELSE Do(name) \o t)
<1>1. Fit(Do(name) \o t) /\ Fit(Nothing)
  BY DoFits, InitThen, NoCall DEF Fit
<1>2. QED
  BY <1>1

LEMMA Scanned ==
  ASSUME NEW w, NEW default \in Int
  PROVE  scan_d(w, default) \in Int
<1>1. \A v \in DOMAIN Numeral : Numeral[v] \in Int
  BY ShellAssumption
<1>2. CASE w = ""
  BY <1>2 DEF scan_d
<1>3. CASE w # "" /\ w \in DOMAIN Numeral
  <2>1. Numeral[w] \in Int
    BY <1>1, <1>3
  <2>2. scan_d(w, default) = Numeral[w]
    BY <1>3 DEF scan_d
  <2>3. QED
    BY <2>1, <2>2, Zenon
<1>4. CASE w # "" /\ w \notin DOMAIN Numeral
  <2> DEFINE zero == 0
  <2>1. zero \in Int
    OBVIOUS
  <2>2. scan_d(w, default) = IF w = "" THEN default
                             ELSE IF w \in DOMAIN Numeral THEN Numeral[w] ELSE zero
    BY DEF scan_d
  <2> HIDE DEF zero
  <2>3. scan_d(w, default) = zero
    BY <1>4, <2>2, Zenon
  <2>4. QED
    BY <2>1, <2>3, Zenon
<1>5. QED
  BY <1>2, <1>3, <1>4

Words == {a \in Seq(STRING) : \A i \in 1..Len(a) : a[i] # ""}

(* A call whose argument matters, with a text that is not empty.           *)
LEMMA TextFits ==
  ASSUME NEW name \in WithText, NEW arg, arg # ""
  PROVE  AtMostOne(Call(name, arg))
<1>1. name \notin {"mc_mount", "mc_clone", "led_rgb", "launch_game"}
  BY DEF WithText
<1>2. CallFit(<<name, arg>>)
  BY <1>1 DEF CallFit
<1>3. QED
  BY <1>2, OneCall

(* A call whose argument does not matter.                                  *)
LEMMA FreeFits ==
  ASSUME NEW name, name \notin Guarded, NEW arg
  PROVE  AtMostOne(Call(name, arg))
<1>1. CallFit(<<name, arg>>)
  BY DEF CallFit, Guarded
<1>2. QED
  BY <1>1, OneCall

LEMMA McFits == ASSUME NEW a PROVE AtMostOne(cmd_mc(a))
<1> DEFINE w == Word(a, 2)
           n == scan_d(w, 0) - 1
<1>1. AtMostOne(Do("fat12_list_files")) /\ AtMostOne(Do("mc_repair"))
  <2>1. "fat12_list_files" \notin Guarded /\ "mc_repair" \notin Guarded
    BY DEF Guarded, WithText
  <2>2. QED
    BY <2>1, DoFits
<1>2. McSlot(w) => AtMostOne(Call("mc_mount", n)) /\ AtMostOne(Call("mc_clone", n))
  <2> SUFFICES ASSUME McSlot(w) PROVE AtMostOne(Call("mc_mount", n)) /\ AtMostOne(Call("mc_clone", n))
    OBVIOUS
  <2>1. n \in 0..1
    BY Scanned DEF McSlot
  <2> HIDE DEF n
  <2>2. CallFit(<<"mc_mount", n>>) /\ CallFit(<<"mc_clone", n>>)
    BY <2>1 DEF CallFit, WithText
  <2>3. QED
    BY <2>2, OneCall
<1>3. w # "" => AtMostOne(Call("mc_export", w))
  BY TextFits DEF WithText
<1>4. QED
  BY <1>1, <1>2, <1>3, NoCall, Zenon DEF cmd_mc

LEMMA LedFits == ASSUME NEW a PROVE AtMostOne(cmd_led(a))
<1> DEFINE w == Word(a, 2)
           colour == Byte(scan_d(w, 0))
<1>1. w # "" => AtMostOne(Call("led_set", w))
  BY TextFits DEF WithText
<1>2. AtMostOne(Call("led_pulse", 0))
  BY FreeFits DEF Guarded, WithText
<1>3. AtMostOne(Call("led_rgb", colour))
  <2>1. colour \in 0..255
    BY Scanned DEF Byte
  <2> HIDE DEF colour
  <2>2. CallFit(<<"led_rgb", colour>>)
    BY <2>1 DEF CallFit, WithText
  <2>3. QED
    BY <2>2, OneCall
<1>4. QED
  BY <1>1, <1>2, <1>3, NoCall, Zenon DEF cmd_led

LEMMA PartyFits == ASSUME NEW a PROVE Fit(cmd_party(a))
<1> DEFINE w == Word(a, 2)
           t == CASE Word(a, 1) = "create" -> Call("party_create", w)
                  [] Word(a, 1) = "invite" /\ w # "" -> Call("party_invite", w)
                  [] Word(a, 1) = "join" -> Call("party_join", w)
                  [] Word(a, 1) = "leave" -> Do("party_leave")
                  [] Word(a, 1) = "chat" /\ w # "" -> Call("party_chat", w)
                  [] OTHER -> Nothing
<1>1. w # "" => AtMostOne(Call("party_invite", w)) /\ AtMostOne(Call("party_chat", w))
  BY TextFits DEF WithText
<1>2. "party_create" \notin Guarded /\ "party_join" \notin Guarded /\ "party_leave" \notin Guarded
      /\ "party_init" \notin Guarded
  BY DEF Guarded, WithText
<1>3. AtMostOne(Call("party_create", w)) /\ AtMostOne(Call("party_join", w))
  BY <1>2, FreeFits
<1>4. AtMostOne(Do("party_leave"))
  BY <1>2, DoFits
<1>5. AtMostOne(t)
  BY <1>1, <1>3, <1>4, NoCall, Zenon
<1>6. cmd_party(a) = IF Word(a, 1) = "" THEN Nothing ELSE Do("party_init") \o t
  BY DEF cmd_party
<1> HIDE DEF t
<1>7. QED
  BY <1>2, <1>5, <1>6, InitOrUsage

LEMMA StreamFits == ASSUME NEW a PROVE Fit(cmd_stream(a))
<1> DEFINE w == Word(a, 2)
           t == CASE Word(a, 1) = "start" /\ w # "" -> Call("streaming_start", w)
                  [] Word(a, 1) = "stop" -> Do("streaming_stop")
                  [] Word(a, 1) = "quality" -> Call("streaming_set_quality", scan_d(w, 1))
                  [] OTHER -> Nothing
<1>1. w # "" => AtMostOne(Call("streaming_start", w))
  BY TextFits DEF WithText
<1>2. "streaming_stop" \notin Guarded /\ "streaming_set_quality" \notin Guarded
      /\ "streaming_init" \notin Guarded
  BY DEF Guarded, WithText
<1>3. AtMostOne(Call("streaming_set_quality", scan_d(w, 1))) /\ AtMostOne(Do("streaming_stop"))
  BY <1>2, FreeFits, DoFits
<1>4. AtMostOne(t)
  BY <1>1, <1>3, NoCall, Zenon
<1>5. cmd_stream(a) = IF Word(a, 1) = "" THEN Nothing ELSE Do("streaming_init") \o t
  BY DEF cmd_stream
<1> HIDE DEF t
<1>6. QED
  BY <1>2, <1>4, <1>5, InitOrUsage

LEMMA BtFits == ASSUME NEW a PROVE Fit(cmd_bt(a))
<1> DEFINE w == Word(a, 2)
           mac == IF w = "" THEN "00:11:22:33:44:55" ELSE w
           t == CASE Word(a, 1) = "scan" -> Do("bt_scan")
                  [] Word(a, 1) = "pair" -> Call("bt_pair", mac)
                  [] Word(a, 1) = "unpair" /\ w # "" -> Call("bt_unpair", w)
                  [] OTHER -> Nothing
<1>1. w # "" => AtMostOne(Call("bt_unpair", w))
  BY TextFits DEF WithText
<1>2. AtMostOne(Call("bt_pair", mac))
  <2>1. mac # "" /\ "bt_pair" \in WithText
    BY DEF WithText
  <2>2. QED
    BY <2>1, TextFits
<1>3. "bt_scan" \notin Guarded /\ "bt_init" \notin Guarded
  BY DEF Guarded, WithText
<1>4. AtMostOne(Do("bt_scan"))
  BY <1>3, DoFits
<1>5. AtMostOne(t)
  BY <1>1, <1>2, <1>4, NoCall, Zenon
<1>6. cmd_bt(a) = IF Word(a, 1) = "" THEN Nothing ELSE Do("bt_init") \o t
  BY DEF cmd_bt
<1> HIDE DEF t
<1>7. QED
  BY <1>3, <1>5, <1>6, InitOrUsage

LEMMA ProfileFits == ASSUME NEW a PROVE Fit(cmd_ctrlprofile(a))
<1> DEFINE w == Word(a, 2)
           t == CASE Word(a, 1) = "create" /\ w # "" -> Call("bt_controller_profile_create", w)
                  [] Word(a, 1) = "load" /\ w # "" -> Call("bt_controller_profile_load", w)
                  [] OTHER -> Nothing
<1>1. w # "" => /\ AtMostOne(Call("bt_controller_profile_create", w))
                /\ AtMostOne(Call("bt_controller_profile_load", w))
  BY TextFits DEF WithText
<1>2. "bt_init" \notin Guarded
  BY DEF Guarded, WithText
<1>3. AtMostOne(t)
  BY <1>1, NoCall, Zenon
<1>4. cmd_ctrlprofile(a) = IF Word(a, 1) = "" THEN Nothing ELSE Do("bt_init") \o t
  BY DEF cmd_ctrlprofile
<1> HIDE DEF t
<1>5. QED
  BY <1>2, <1>3, <1>4, InitOrUsage

LEMMA GamesFits == ASSUME NEW a PROVE AtMostOne(cmd_games(a))
<1>1. /\ "game_history_print_history" \notin Guarded /\ "game_history_print_stats" \notin Guarded
      /\ "game_history_print_last" \notin Guarded
  BY DEF Guarded, WithText
<1>2. /\ AtMostOne(Do("game_history_print_history")) /\ AtMostOne(Do("game_history_print_stats"))
      /\ AtMostOne(Do("game_history_print_last"))
  BY <1>1, DoFits
<1>3. QED
  BY <1>2, NoCall, Zenon DEF cmd_games

LEMMA MusicFits == ASSUME NEW a PROVE AtMostOne(cmd_music(a))
<1>1. /\ "music_play" \notin Guarded /\ "music_background" \notin Guarded
      /\ "music_add_to_playlist" \notin Guarded /\ "music_playlist_clear" \notin Guarded
  BY DEF Guarded, WithText
<1>2. \A w : /\ AtMostOne(Call("music_play", w)) /\ AtMostOne(Call("music_background", w))
             /\ AtMostOne(Call("music_add_to_playlist", w)) /\ AtMostOne(Do("music_playlist_clear"))
  BY <1>1, DoFits, FreeFits
<1>3. QED
  BY <1>2, NoCall, Zenon DEF cmd_music

LEMMA ControllerFits == ASSUME NEW a PROVE AtMostOne(cmd_controller(a))
<1>1. /\ "controller_profile_save" \notin Guarded /\ "controller_profile_load" \notin Guarded
      /\ "controller_set_sensitivity" \notin Guarded /\ "controller_set_deadzone" \notin Guarded
      /\ "controller_set_turbo" \notin Guarded
  BY DEF Guarded, WithText
<1>2. \A w : /\ AtMostOne(Call("controller_profile_save", w))
             /\ AtMostOne(Call("controller_profile_load", w))
             /\ AtMostOne(Call("controller_set_sensitivity", w))
             /\ AtMostOne(Call("controller_set_deadzone", w))
             /\ AtMostOne(Call("controller_set_turbo", w))
  BY <1>1, FreeFits
<1>3. QED
  BY <1>2, NoCall, Zenon DEF cmd_controller

LEMMA SavesFit == ASSUME NEW a PROVE AtMostOne(cmd_saves(a))
<1> DEFINE in == ksscanf(a, <<"%31s", "%31s", "%31s">>)
           to == IF in[3] # "" THEN in[3] ELSE IF in[2] # "" THEN in[2] ELSE "backup"
           from == IF in[3] # "" THEN in[3] ELSE "backup"
<1>1. to # "" /\ from # ""
  <2> HIDE DEF in
  <2>1. QED
    OBVIOUS
<1>2. "save_manager_backup" \in WithText /\ "save_manager_restore" \in WithText
  BY DEF WithText
<1>3. AtMostOne(Call("save_manager_backup", to)) /\ AtMostOne(Call("save_manager_restore", from))
  <2> HIDE DEF to, from
  <2>1. QED
    BY <1>1, <1>2, TextFits
<1>4. /\ "save_manager_clone" \notin Guarded /\ "save_manager_rollback" \notin Guarded
      /\ "save_manager_list" \notin Guarded
  BY DEF Guarded, WithText
<1>5. /\ \A w : AtMostOne(Call("save_manager_clone", w)) /\ AtMostOne(Call("save_manager_rollback", w))
      /\ AtMostOne(Do("save_manager_list"))
  BY <1>4, FreeFits, DoFits
<1>6. QED
  BY <1>3, <1>5, NoCall, Zenon DEF cmd_saves

LEMMA ClientFits == ASSUME NEW a, NEW client \in {"ftp", "telnet", "irc"}
                    PROVE AtMostOne(cmd_client(client, a)) /\ AtMostOne(cmd_superpose(a))
<1>1. "quantum_superpose" \notin Guarded /\ client \notin Guarded
  BY DEF Guarded, WithText
<1>2. \A w : AtMostOne(Call("quantum_superpose", w)) /\ AtMostOne(Call(client, w))
  BY <1>1, FreeFits
<1>3. QED
  BY <1>2, NoCall, Zenon DEF cmd_client, cmd_superpose

LEMMA FirstWord ==
  ASSUME NEW S, NEW a \in Seq(S)
  PROVE  Len(a) \in Nat /\ (a # <<>> => 1 \in 1..Len(a))
BY EmptySeq

LEMMA QuantumFits == ASSUME NEW a \in Words
                     PROVE /\ AtMostOne(cmd_observe(a)) /\ AtMostOne(cmd_collapse(a))
                           /\ AtMostOne(cmd_ping(a)) /\ AtMostOne(cmd_entangle(a))
<1>1. a # <<>> => a[1] # ""
  <2>1. a \in Seq(STRING) /\ \A i \in 1..Len(a) : a[i] # ""
    BY DEF Words
  <2>2. a # <<>> => 1 \in 1..Len(a)
    BY <2>1, FirstWord
  <2>3. QED
    BY <2>1, <2>2
<1>2. /\ "quantum_observe" \in WithText /\ "quantum_collapse" \in WithText
      /\ "plat_net_ping" \in WithText
  BY DEF WithText
<1>3. a # <<>> => /\ AtMostOne(Call("quantum_observe", a[1]))
                  /\ AtMostOne(Call("quantum_collapse", a[1]))
                  /\ AtMostOne(Call("plat_net_ping", a[1]))
  BY <1>1, <1>2, TextFits
<1>4. "quantum_entangle_input" \notin Guarded
  BY DEF Guarded, WithText
<1>5. AtMostOne(cmd_entangle(a))
  BY <1>4, FreeFits DEF cmd_entangle
<1>6. QED
  BY <1>3, <1>5, NoCall DEF cmd_observe, cmd_collapse, cmd_ping

LEMMA GameFits == ASSUME NEW a PROVE AtMostOne(cmd_game(a))
<1> DEFINE n == scan_d(Word(a, 1), -1)
           g == n - 1
<1>1. n >= 1 => g >= 0
  BY Scanned
<1> HIDE DEF g, n
<1>2. n >= 1 => CallFit(<<"launch_game", g>>)
  BY <1>1 DEF CallFit, WithText
<1>3. n >= 1 => AtMostOne(Call("launch_game", g))
  BY <1>2, OneCall
<1>4. QED
  BY <1>3, NoCall DEF cmd_game, n, g

LEMMA InitsFit == Fit(cmd_network) /\ Fit(cmd_demo)
<1>1. /\ "plat_net_init" \notin Guarded /\ "net_init" \notin Guarded
      /\ "init_graphics_demo" \notin Guarded /\ "run_graphics_demo" \notin Guarded
  BY DEF Guarded, WithText
<1>2. QED
  BY <1>1, DoFits, InitThen DEF cmd_network, cmd_demo

LEMMA HandlersFit == ASSUME NEW cmd, NEW a \in Words PROVE Fit(Handler(cmd, a))
<1>1. \A s : AtMostOne(s) => Fit(s)
  BY DEF Fit
<1>2. /\ Fit(cmd_mc(a)) /\ Fit(cmd_led(a)) /\ Fit(cmd_party(a)) /\ Fit(cmd_stream(a)) /\ Fit(cmd_bt(a))
      /\ Fit(cmd_ctrlprofile(a)) /\ Fit(cmd_games(a)) /\ Fit(cmd_music(a)) /\ Fit(cmd_controller(a))
      /\ Fit(cmd_saves(a)) /\ Fit(cmd_game(a)) /\ Fit(cmd_network) /\ Fit(cmd_demo)
  BY <1>1, McFits, LedFits, PartyFits, StreamFits, BtFits, ProfileFits, GamesFits, MusicFits,
     ControllerFits, SavesFit, GameFits, InitsFit
<1>3. /\ Fit(cmd_observe(a)) /\ Fit(cmd_collapse(a)) /\ Fit(cmd_ping(a)) /\ Fit(cmd_entangle(a))
  BY <1>1, QuantumFits
<1>4. /\ Fit(cmd_superpose(a)) /\ (cmd \in {"ftp", "telnet", "irc"} => Fit(cmd_client(cmd, a)))
  BY <1>1, ClientFits
<1>5. /\ "bt_init" \notin Guarded /\ "sys_sound_init" \notin Guarded /\ "sys_graphics_init" \notin Guarded
      /\ "sys_timer_init" \notin Guarded /\ "clear_screen" \notin Guarded
      /\ "fat12_list_files" \notin Guarded
  BY DEF Guarded, WithText
<1>6. /\ Fit(Do("bt_init")) /\ Fit(Do("sys_sound_init")) /\ Fit(Do("sys_graphics_init"))
      /\ Fit(Do("sys_timer_init")) /\ Fit(Do("clear_screen")) /\ Fit(Do("fat12_list_files"))
      /\ Fit(Nothing)
  BY <1>1, <1>5, DoFits, NoCall
<1>7. QED
  BY <1>2, <1>3, <1>4, <1>6, Zenon DEF Handler
LEMMA LineParsed ==
  ASSUME NEW words \in Lines
  PROVE  parse_cmd_args(words).args \in Words
<1>1. words \in Seq(STRING) /\ \A i \in 1..Len(words) : words[i] # ""
  BY ShellAssumption
<1>2. CASE words = <<>>
  <2>1. parse_cmd_args(words).args = <<>>
    BY <1>2 DEF parse_cmd_args
  <2>2. <<>> \in Seq(STRING) /\ \A i \in 1..Len(<<>>) : (<<>>)[i] # ""
    OBVIOUS
  <2>3. QED
    BY <2>1, <2>2 DEF Words
<1>3. CASE words # <<>>
  <2>1. parse_cmd_args(words).args = Tail(words)
    BY <1>3 DEF parse_cmd_args
  <2>2. /\ Tail(words) \in Seq(STRING) /\ Len(Tail(words)) = Len(words) - 1
        /\ \A i \in 1..Len(Tail(words)) : Tail(words)[i] = words[i + 1]
    BY <1>1, <1>3, HeadTailProperties
  <2>3. \A i \in 1..Len(Tail(words)) : i + 1 \in 1..Len(words)
    <3>1. Len(words) \in Nat
      BY <1>1, FirstWord
    <3>2. \A m \in Nat : \A i \in 1..(m - 1) : i + 1 \in 1..m
      OBVIOUS
    <3>3. QED
      BY <2>2, <3>1, <3>2
  <2>4. QED
    BY <1>1, <2>1, <2>2, <2>3 DEF Words
<1>4. QED
  BY <1>2, <1>3

(* What every pass of the shell leaves.                                    *)
ShellFit(s) ==
  /\ Fit(s.calls)
  /\ s.coherence \in Nat /\ 6 <= s.coherence /\ s.coherence <= COHERENCE_MAX
  /\ s.charged \in Nat /\ s.charged <= APP_BUDGET

LEMMA ShellNumbers ==
  /\ COHERENCE_START \in Nat /\ COHERENCE_MAX \in Nat /\ APP_BUDGET \in Nat
  /\ 10 < COHERENCE_START /\ COHERENCE_START <= COHERENCE_MAX
BY ShellAssumption

LEMMA CoherenceKept ==
  ASSUME NEW c \in Nat, 6 <= c, c <= COHERENCE_MAX
  PROVE  /\ quantum_tick(c) \in Nat /\ 6 <= quantum_tick(c) /\ quantum_tick(c) <= COHERENCE_MAX
         /\ Observed(c) \in Nat /\ 6 <= Observed(c) /\ Observed(c) <= COHERENCE_MAX
BY ShellNumbers DEF quantum_tick, Observed

LEMMA ShellStarts == ShellFit(ShellStart)
<1>1. Fit(Nothing)
  BY NoCall DEF Fit
<1>2. QED
  BY <1>1, ShellNumbers DEF ShellStart, ShellFit

LEMMA PassKeepsShell ==
  ASSUME ShellFit(shell), NEW words \in Lines, Pass(words)
  PROVE  ShellFit(shell')
<1> DEFINE in == parse_cmd_args(words)
           calls == Handler(in.cmd, in.args)
           ticked == quantum_tick(shell.coherence)
           observes == \E i \in DOMAIN calls : calls[i][1] = "quantum_observe"
           coherence == IF observes THEN Observed(ticked) ELSE ticked
           charged == IF observes /\ shell.charged < APP_BUDGET THEN shell.charged + 1
                      ELSE shell.charged
<1>1. shell' = [line |-> words, calls |-> calls, coherence |-> coherence, charged |-> charged]
  BY DEF Pass
<1>2. Fit(calls)
  BY LineParsed, HandlersFit
<1>3. ticked \in Nat /\ 6 <= ticked /\ ticked <= COHERENCE_MAX
  BY CoherenceKept DEF ShellFit
<1> HIDE DEF ticked
<1>4. coherence \in Nat /\ 6 <= coherence /\ coherence <= COHERENCE_MAX
  BY <1>3, CoherenceKept
<1>5. charged \in Nat /\ charged <= APP_BUDGET
  <2> HIDE DEF observes
  <2>1. QED
    BY ShellNumbers DEF ShellFit
<1> HIDE DEF calls, coherence, charged
<1>6. QED
  BY <1>1, <1>2, <1>4, <1>5 DEF ShellFit

LEMMA ShellSteps == [AsmNext]_asmVars => start_shell \/ shell' = ShellStart \/ UNCHANGED shell
BY DEF AsmNext, PlayGame, DrawScreen, UseWire, UseTables, UseDisk, Reset, asmVars, tables

ShellInv == ShellFit(shell)

(* Whatever lines are typed in whatever order, no handler of shell.c       *)
(* passes on a card slot, colour, game or text outside its range, and      *)
(* quantum_observe neither wraps the coherence byte nor overcharges the    *)
(* application region, for every set of lines made of non-empty words and  *)
(* every budget.                                                           *)
THEOREM ShellIsSound == AsmSpec => []ShellSound
<1>1. AsmInit => ShellInv
  BY ShellStarts DEF AsmInit, ShellInit, ShellInv
<1>2. ShellInv /\ [AsmNext]_asmVars => ShellInv'
  <2> SUFFICES ASSUME ShellFit(shell), [AsmNext]_asmVars PROVE ShellFit(shell')
    BY DEF ShellInv, ShellFit, Fit, AtMostOne, CallFit
  <2>1. start_shell \/ shell' = ShellStart \/ UNCHANGED shell
    BY ShellSteps
  <2>2. start_shell => shell' = ShellStart \/ \E words \in Lines : Pass(words)
    BY DEF start_shell, Leave
  <2>3. QED
    BY <2>1, <2>2, ShellStarts, PassKeepsShell
<1>3. ShellInv => ShellSound
  <2> SUFFICES ASSUME ShellInv PROVE ShellSound
    OBVIOUS
  <2>1. \A i \in DOMAIN shell.calls : CallFit(shell.calls[i])
    BY FitCalls DEF ShellInv, ShellFit
  <2>2. shell.coherence \in 6..COHERENCE_MAX /\ shell.charged <= APP_BUDGET
    BY ShellNumbers DEF ShellInv, ShellFit
  <2>3. QED
    BY <2>1, <2>2 DEF ShellSound, CallFit
<1>4. QED
  BY <1>1, <1>2, <1>3, PTL DEF AsmSpec
-------------------------------------------------------------------------------
(* The text console.  The rows of a text are a recursive function of its   *)
(* length: it exists, and one character more is one step more of it.       *)
ConText == Seq(Glyph \cup {NL})
ConRows == Seq(Seq(Glyph))

LEMMA ConNumbers ==
  /\ VGA_W \in Nat /\ VGA_W > 1 /\ VGA_H \in Nat /\ VGA_H >= 1 /\ LINE_MAX \in Nat
BY ConsoleAssumption

LEMMA FrontOf ==
  ASSUME NEW S, NEW s \in Seq(S), Len(s) >= 1
  PROVE  /\ Front(s) \in Seq(S) /\ Len(Front(s)) = Len(s) - 1
         /\ \A i \in 1..Len(s) - 1 : Front(s)[i] = s[i]
         /\ Append(Front(s), s[Len(s)]) = s
<1> DEFINE n == Len(s) - 1
           t == Front(s)
<1>1. n \in Nat /\ Len(s) = n + 1 /\ \A i \in 1..n : s[i] \in S
  OBVIOUS
<1>2. t = SubSeq(s, 1, n)
  BY DEF Front
<1> HIDE DEF n, t
<1>3. /\ SubSeq(s, 1, n) \in Seq(S)
      /\ Len(SubSeq(s, 1, n)) = IF 1 <= n THEN n - 1 + 1 ELSE 0
      /\ \A i \in 1..n - 1 + 1 : SubSeq(s, 1, n)[i] = s[1 + i - 1]
  BY <1>1, SubSeqProperties
<1>4. n - 1 + 1 = n /\ \A i \in 1..n : 1 + i - 1 = i
  BY <1>1
<1>5. t \in Seq(S) /\ Len(t) = n /\ \A i \in 1..n : t[i] = s[i]
  BY <1>1, <1>2, <1>3, <1>4
<1>6. s[n + 1] \in S
  BY <1>1
<1>7. /\ Append(t, s[n + 1]) \in Seq(S) /\ Len(Append(t, s[n + 1])) = n + 1
      /\ \A i \in 1..n + 1 : Append(t, s[n + 1])[i] = s[i]
  BY <1>1, <1>5, <1>6
<1>8. Append(t, s[n + 1]) = s
  BY <1>1, <1>7, SameSequence
<1>9. QED
  BY <1>1, <1>5, <1>8 DEF n, t

RowStep(before, g) ==
  LET row == IF g = NL THEN Last(before) ELSE Append(Last(before), g)
  IN  IF g = NL \/ Len(row) = VGA_W THEN Append(Front(before), row) \o << <<>> >>
      ELSE Append(Front(before), row)
RowsFrom(text, f, n) == IF n = 0 THEN << <<>> >> ELSE RowStep(f[n - 1], text[n])
RowsUpTo(text, f, m) == [n \in 0..m |-> RowsFrom(text, f, n)]
RowsOf(text) == CHOOSE f : f = RowsUpTo(text, f, Len(text))

LEMMA TextRowsIs == ASSUME NEW text PROVE TextRows(text) = RowsOf(text)[Len(text)]
BY DEF TextRows, RowsOf, RowsUpTo, RowsFrom, RowStep

(* The recursion has a solution for every length.                          *)
LEMMA RowsExist ==
  ASSUME NEW text, NEW m \in Nat
  PROVE  \E f : f = RowsUpTo(text, f, m)
<1> DEFINE T == {k \in Nat : ~\E f : f = RowsUpTo(text, f, k)}
<1>1. T = {}
  <2>1. SUFFICES ASSUME T # {} PROVE FALSE
    OBVIOUS
  <2>2. T \in SUBSET Nat
    OBVIOUS
  <2>3. PICK k \in T : \A j \in T : k <= j
    BY <2>1, <2>2, MinIsLeast
  <2>4. CASE k = 0
    <3> DEFINE g == [n \in 0..0 |-> << <<>> >>]
    <3>1. ASSUME NEW n \in 0..0 PROVE g[n] = RowsFrom(text, g, n)
      BY DEF RowsFrom
    <3>2. g = RowsUpTo(text, g, 0)
      BY <3>1 DEF RowsUpTo
    <3>3. QED
      BY <2>3, <2>4, <3>2
  <2>5. CASE k # 0
    <3>1. k - 1 \in Nat /\ k - 1 \notin T
      BY <2>3, <2>5
    <3>2. PICK f : f = RowsUpTo(text, f, k - 1)
      BY <3>1
    <3>3. ASSUME NEW n \in 0..(k - 1) PROVE f[n] = RowsFrom(text, f, n)
      BY <3>2 DEF RowsUpTo
    <3> DEFINE g == [n \in 0..k |-> IF n < k THEN f[n] ELSE RowsFrom(text, f, k)]
    <3>4. ASSUME NEW n \in 0..k PROVE g[n] = RowsFrom(text, g, n)
      <4>1. CASE n = k
        <5>1. k - 1 \in 0..k /\ k - 1 < k /\ k \in 0..k /\ ~(k < k)
          BY <3>1
        <5>2. g[k - 1] = f[k - 1] /\ g[k] = RowsFrom(text, f, k)
          BY <5>1
        <5>3. RowsFrom(text, f, k) = RowsFrom(text, g, k)
          BY <5>2 DEF RowsFrom
        <5>4. QED
          BY <4>1, <5>2, <5>3
      <4>2. CASE n < k
        <5>1. n \in 0..(k - 1) /\ g[n] = f[n]
          BY <4>2, <3>1
        <5>2. CASE n = 0
          BY <5>1, <5>2, <3>3 DEF RowsFrom
        <5>3. CASE n # 0
          <6>1. n - 1 \in 0..k /\ n - 1 < k
            BY <5>1, <5>3, <3>1
          <6>2. g[n - 1] = f[n - 1]
            BY <6>1
          <6>3. RowsFrom(text, f, n) = RowsFrom(text, g, n)
            BY <6>2 DEF RowsFrom
          <6>4. QED
            BY <5>1, <6>3, <3>3
        <5>4. QED
          BY <5>2, <5>3
      <4>3. QED
        BY <4>1, <4>2, <2>2
    <3>5. g = RowsUpTo(text, g, k)
      BY <3>4 DEF RowsUpTo
    <3>6. QED
      BY <2>3, <3>5
  <2>6. QED
    BY <2>4, <2>5
<1>2. QED
  BY <1>1

LEMMA RowsAre ==
  ASSUME NEW text, Len(text) \in Nat
  PROVE  \A n \in 0..Len(text) : RowsOf(text)[n] = RowsFrom(text, RowsOf(text), n)
<1>1. RowsOf(text) = RowsUpTo(text, RowsOf(text), Len(text))
  BY RowsExist DEF RowsOf
<1> DEFINE f == RowsOf(text)
<1> HIDE DEF f
<1>2. f = RowsUpTo(text, f, Len(text))
  BY <1>1 DEF f
<1>3. \A n \in 0..Len(text) : f[n] = RowsFrom(text, f, n)
  BY <1>2 DEF RowsUpTo
<1>4. QED
  BY <1>3 DEF f

LEMMA NoRows == TextRows(<<>>) = << <<>> >>
<1>1. Len(<<>>) = 0 /\ 0 \in 0..0
  OBVIOUS
<1>2. RowsOf(<<>>)[0] = RowsFrom(<<>>, RowsOf(<<>>), 0)
  BY <1>1, RowsAre
<1>3. QED
  BY <1>1, <1>2, TextRowsIs DEF RowsFrom

LEMMA RowsGrow ==
  ASSUME NEW text \in ConText, NEW g \in Glyph \cup {NL}
  PROVE  TextRows(Append(text, g)) = RowStep(TextRows(text), g)
<1> DEFINE N == Len(text)
           longer == Append(text, g)
           f == RowsOf(text)
           h == RowsOf(longer)
<1>1. /\ N \in Nat /\ Len(longer) = N + 1 /\ longer[N + 1] = g
      /\ \A n \in 1..N : longer[n] = text[n]
  BY DEF ConText
<1>2. /\ \A n \in 0..N : f[n] = RowsFrom(text, f, n)
      /\ \A n \in 0..N + 1 : h[n] = RowsFrom(longer, h, n)
  <2>1. \A n \in 0..N : f[n] = RowsFrom(text, f, n)
    BY <1>1, RowsAre
  <2>2. Len(longer) \in Nat
    BY <1>1
  <2> HIDE DEF longer
  <2>3. \A n \in 0..Len(longer) : h[n] = RowsFrom(longer, h, n)
    BY <2>2, RowsAre
  <2>4. QED
    BY <2>1, <2>3, <1>1
<1>3. TextRows(longer) = h[N + 1] /\ TextRows(text) = f[N]
  BY <1>1, TextRowsIs
<1> HIDE DEF N, longer, f, h
<1> DEFINE T == {n \in 0..N : f[n] # h[n]}
<1>4. T = {}
  <2>1. SUFFICES ASSUME T # {} PROVE FALSE
    OBVIOUS
  <2>2. T \in SUBSET Nat
    BY <1>1
  <2>3. PICK n \in T : \A j \in T : n <= j
    BY <2>1, <2>2, MinIsLeast
  <2>4. n \in 0..N /\ n \in 0..N + 1 /\ f[n] = RowsFrom(text, f, n) /\ h[n] = RowsFrom(longer, h, n)
    BY <1>1, <1>2, <2>2
  <2>5. n # 0
    BY <2>3, <2>4 DEF RowsFrom
  <2>6. n - 1 \in 0..N /\ n - 1 \notin T /\ n \in 1..N
    BY <2>2, <2>3, <2>4, <2>5, <1>1
  <2>7. f[n - 1] = h[n - 1] /\ longer[n] = text[n]
    BY <2>6, <1>1
  <2>8. QED
    BY <2>3, <2>4, <2>7 DEF RowsFrom
<1>5. f[N] = h[N]
  BY <1>1, <1>4
<1>6. h[N + 1] = RowStep(h[N], g)
  <2>1. N + 1 \in 0..N + 1 /\ N + 1 # 0 /\ (N + 1) - 1 = N
    BY <1>1
  <2>2. QED
    BY <2>1, <1>1, <1>2 DEF RowsFrom
<1>7. QED
  BY <1>3, <1>5, <1>6 DEF longer

(* What one character does to the rows: the last one ends with a newline   *)
(* or when it is full, and an empty one follows.                           *)
RowsFit(R) == R \in ConRows /\ Len(R) >= 1 /\ Len(R[Len(R)]) < VGA_W

RowsStepped(R, B, g) ==
  /\ \A i \in 1..Len(B) - 1 : R[i] = B[i]
  /\ R[Len(B)] = IF g = NL THEN B[Len(B)] ELSE Append(B[Len(B)], g)
  /\ IF g = NL \/ Len(B[Len(B)]) + 1 = VGA_W
     THEN Len(R) = Len(B) + 1 /\ R[Len(B) + 1] = <<>>
     ELSE Len(R) = Len(B)

LEMMA RowStepOf ==
  ASSUME NEW B, RowsFit(B), NEW g \in Glyph \cup {NL}
  PROVE  RowsFit(RowStep(B, g)) /\ RowsStepped(RowStep(B, g), B, g)
<1> DEFINE N == Len(B)
           row == IF g = NL THEN B[N] ELSE Append(B[N], g)
           full == g = NL \/ Len(row) = VGA_W
           C == Append(Front(B), row)
<1>1. B \in Seq(Seq(Glyph)) /\ N \in Nat /\ N >= 1 /\ B[N] \in Seq(Glyph)
  BY DEF RowsFit, ConRows
<1>2. Len(B[N]) \in Nat /\ Len(B[N]) < VGA_W
  BY <1>1 DEF RowsFit
<1>3. row \in Seq(Glyph) /\ (g # NL => Len(row) = Len(B[N]) + 1) /\ (g = NL => row = B[N])
  BY <1>1
<1>4. /\ Front(B) \in Seq(Seq(Glyph)) /\ Len(Front(B)) = N - 1
      /\ \A i \in 1..N - 1 : Front(B)[i] = B[i]
  BY <1>1, FrontOf
<1>5. RowStep(B, g) = IF full THEN C \o << <<>> >> ELSE C
  BY DEF RowStep, Last
<1> DEFINE F == Front(B)
<1> HIDE DEF row, N, F
<1>6. /\ C \in Seq(Seq(Glyph)) /\ Len(C) = N /\ C[N] = row
      /\ \A i \in 1..N - 1 : C[i] = B[i]
  <2>1. /\ F \in Seq(Seq(Glyph)) /\ Len(F) = N - 1 /\ \A i \in 1..N - 1 : F[i] = B[i]
    BY <1>4 DEF F
  <2>2. /\ Append(F, row) \in Seq(Seq(Glyph)) /\ Len(Append(F, row)) = N
        /\ Append(F, row)[N] = row /\ \A i \in 1..N - 1 : Append(F, row)[i] = B[i]
    BY <2>1, <1>1, <1>3
  <2>3. QED
    BY <2>2 DEF F
<1> HIDE DEF C
<1>7. CASE full
  <2> DEFINE e == << <<>> >>
             D == C \o e
  <2>1. e \in Seq(Seq(Glyph)) /\ Len(e) = 1 /\ e[1] = <<>>
    OBVIOUS
  <2> HIDE DEF e
  <2>2. /\ D \in Seq(Seq(Glyph)) /\ Len(D) = N + 1
        /\ \A i \in 1..N + 1 : D[i] = IF i <= N THEN C[i] ELSE e[i - N]
    <3>1. /\ D \in Seq(Seq(Glyph)) /\ Len(D) = Len(C) + Len(e)
          /\ \A i \in 1..Len(C) + Len(e) : D[i] = IF i <= Len(C) THEN C[i] ELSE e[i - Len(C)]
      BY <2>1, <1>6, ConcatProperties
    <3>2. QED
      BY <3>1, <2>1, <1>6
  <2> HIDE DEF D
  <2>3. D[N + 1] = <<>>
    <3>1. N + 1 \in 1..N + 1 /\ ~(N + 1 <= N) /\ (N + 1) - N = 1
      BY <1>1
    <3>2. QED
      BY <3>1, <2>1, <2>2
  <2>4. D[N] = row /\ \A i \in 1..N - 1 : D[i] = B[i]
    <3>1. \A i \in 1..N : D[i] = C[i]
      BY <2>2, <1>1
    <3>2. N \in 1..N /\ \A i \in 1..N - 1 : i \in 1..N
      BY <1>1
    <3>3. QED
      BY <3>1, <3>2, <1>6
  <2>5. Len(<<>>) = 0 /\ 0 < VGA_W
    BY ConNumbers
  <2>6. RowsFit(D)
    BY <2>2, <2>3, <2>5, <1>1 DEF RowsFit, ConRows
  <2>7. g = NL \/ Len(B[N]) + 1 = VGA_W
    BY <1>7, <1>3
  <2>8. RowsStepped(D, B, g)
    BY <2>2, <2>3, <2>4, <2>7 DEF RowsStepped, N, row
  <2>9. QED
    BY <2>6, <2>8, <1>5, <1>7 DEF D, e
<1>8. CASE ~full
  <2>1. g # NL /\ Len(row) = Len(B[N]) + 1 /\ Len(row) # VGA_W
    BY <1>8, <1>3
  <2>2. RowsFit(C)
    <3>1. Len(row) < VGA_W
      BY <2>1, <1>2, ConNumbers
    <3>2. QED
      BY <3>1, <1>1, <1>6 DEF RowsFit, ConRows
  <2>3. ~(g = NL \/ Len(B[N]) + 1 = VGA_W)
    BY <2>1
  <2>4. RowsStepped(C, B, g)
    BY <1>6, <2>3, <2>1 DEF RowsStepped, N, row
  <2>5. QED
    BY <2>2, <2>4, <1>5, <1>8
<1>9. QED
  BY <1>7, <1>8

LEMMA RowsAlwaysFit == ASSUME NEW text \in ConText PROVE RowsFit(TextRows(text))
<1> DEFINE N == Len(text)
           f == RowsOf(text)
<1>1. N \in Nat /\ \A n \in 1..N : text[n] \in Glyph \cup {NL}
  BY DEF ConText
<1>2. \A n \in 0..N : f[n] = RowsFrom(text, f, n)
  BY <1>1, RowsAre
<1>3. TextRows(text) = f[N]
  BY TextRowsIs
<1> HIDE DEF N, f
<1> DEFINE T == {n \in 0..N : ~RowsFit(f[n])}
<1>4. T = {}
  <2>1. SUFFICES ASSUME T # {} PROVE FALSE
    OBVIOUS
  <2>2. T \in SUBSET Nat
    BY <1>1
  <2>3. PICK n \in T : \A j \in T : n <= j
    BY <2>1, <2>2, MinIsLeast
  <2>4. CASE n = 0
    <3>1. f[n] = << <<>> >>
      BY <1>1, <1>2, <2>4 DEF RowsFrom
    <3>2. << <<>> >> \in Seq(Seq(Glyph)) /\ Len(<< <<>> >>) = 1 /\ << <<>> >>[1] = <<>> /\ Len(<<>>) = 0
      OBVIOUS
    <3>3. RowsFit(f[n])
      BY <3>1, <3>2, ConNumbers DEF RowsFit, ConRows
    <3>4. QED
      BY <2>3, <3>3
  <2>5. CASE n # 0
    <3>1. n - 1 \in 0..N /\ n - 1 \notin T /\ n \in 1..N /\ n \in 0..N
      BY <2>2, <2>3, <2>5, <1>1
    <3>2. f[n] = RowStep(f[n - 1], text[n])
      BY <3>1, <2>5, <1>2 DEF RowsFrom
    <3>3. RowsFit(f[n - 1]) /\ text[n] \in Glyph \cup {NL}
      BY <3>1, <1>1
    <3>4. RowsFit(f[n])
      BY <3>2, <3>3, RowStepOf
    <3>5. QED
      BY <2>3, <3>4
  <2>6. QED
    BY <2>4, <2>5
<1>5. QED
  BY <1>1, <1>3, <1>4

(* The screen from row first on, for rows that may reach one row below it. *)
RowCell(R, i, j) == IF i <= Len(R) /\ j < Len(R[i]) THEN R[i][j + 1] ELSE Blank
TopRow(R) == IF Len(R) > VGA_H THEN Len(R) - VGA_H ELSE 0

ShowsFrom(c, R, first) ==
  /\ c.screen \in [ConCells -> Glyph]
  /\ \A p \in ConCells : c.screen[p] = RowCell(R, first + p[1] + 1, p[2])
  /\ c.row = Len(R) - first - 1
  /\ c.col = Len(R[Len(R)])

ConWith(c, screen0, row, col, text) ==
  [screen |-> screen0, row |-> row, col |-> col, text |-> text, reading |-> c.reading,
   shift |-> c.shift, buf |-> c.buf, start |-> c.start, slipped |-> c.slipped]

IsCon(c) == c = ConWith(c, c.screen, c.row, c.col, c.text) /\ c.text \in ConText
Shows(c) == IsCon(c) /\ ShowsFrom(c, TextRows(c.text), TopRow(TextRows(c.text)))

ScrolledScreen(old) ==
  [p \in ConCells |-> IF p[1] < VGA_H - 1 THEN old[<<p[1] + 1, p[2]>>] ELSE Blank]
PutScreen(c, g) == IF g = NL THEN c.screen ELSE [c.screen EXCEPT ![<<c.row, c.col>>] = g]
PutRow(c, g) == IF g = NL \/ c.col + 1 >= VGA_W THEN c.row + 1 ELSE c.row
PutCol(c, g) == IF g = NL \/ c.col + 1 >= VGA_W THEN 0 ELSE c.col + 1
Put(c, g) == ConWith(c, PutScreen(c, g), PutRow(c, g), PutCol(c, g), Append(c.text, g))

LEMMA ConFields ==
  ASSUME NEW c, NEW s, NEW r, NEW k, NEW t
  PROVE  LET d == ConWith(c, s, r, k, t)
         IN  /\ d.screen = s /\ d.row = r /\ d.col = k /\ d.text = t /\ d.reading = c.reading
             /\ d.shift = c.shift /\ d.buf = c.buf /\ d.start = c.start /\ d.slipped = c.slipped
             /\ d = ConWith(d, d.screen, d.row, d.col, d.text)
BY DEF ConWith

LEMMA ConSet ==
  ASSUME NEW c, c = ConWith(c, c.screen, c.row, c.col, c.text), NEW x
  PROVE  /\ [c EXCEPT !.screen = x] = ConWith(c, x, c.row, c.col, c.text)
         /\ [c EXCEPT !.row = x] = ConWith(c, c.screen, x, c.col, c.text)
         /\ [c EXCEPT !.col = x] = ConWith(c, c.screen, c.row, x, c.text)
         /\ [c EXCEPT !.text = x] = ConWith(c, c.screen, c.row, c.col, x)
<1>1. [c EXCEPT !.screen = x] = ConWith(c, x, c.row, c.col, c.text)
  BY DEF ConWith
<1>2. [c EXCEPT !.row = x] = ConWith(c, c.screen, x, c.col, c.text)
  BY DEF ConWith
<1>3. [c EXCEPT !.col = x] = ConWith(c, c.screen, c.row, x, c.text)
  BY DEF ConWith
<1>4. [c EXCEPT !.text = x] = ConWith(c, c.screen, c.row, c.col, x)
  BY DEF ConWith
<1>5. QED
  BY <1>1, <1>2, <1>3, <1>4

LEMMA ConSame ==
  ASSUME NEW c, NEW s, NEW r, NEW k, NEW t, NEW s2, NEW r2, NEW k2, NEW t2
  PROVE  ConWith(ConWith(c, s, r, k, t), s2, r2, k2, t2) = ConWith(c, s2, r2, k2, t2)
BY DEF ConWith

LEMMA ScrollIs ==
  ASSUME NEW c, c = ConWith(c, c.screen, c.row, c.col, c.text)
  PROVE  ConScroll(c) = IF c.row >= VGA_H
                        THEN ConWith(c, ScrolledScreen(c.screen), VGA_H - 1, c.col, c.text) ELSE c
<1> DEFINE s == ScrolledScreen(c.screen)
<1>1. ConScroll(c) = IF c.row >= VGA_H THEN [[c EXCEPT !.screen = s] EXCEPT !.row = VGA_H - 1] ELSE c
  BY DEF ConScroll, ScrolledScreen
<1> HIDE DEF s
<1>2. [[c EXCEPT !.screen = s] EXCEPT !.row = VGA_H - 1] = ConWith(c, s, VGA_H - 1, c.col, c.text)
  <2> DEFINE d == ConWith(c, s, c.row, c.col, c.text)
  <2>1. [c EXCEPT !.screen = s] = d
    BY ConSet
  <2>2. d.screen = s /\ d.col = c.col /\ d.text = c.text /\ d = ConWith(d, d.screen, d.row, d.col, d.text)
    BY ConFields
  <2>3. ConWith(d, s, VGA_H - 1, c.col, c.text) = ConWith(c, s, VGA_H - 1, c.col, c.text)
    BY ConSame
  <2> HIDE DEF d
  <2>4. [d EXCEPT !.row = VGA_H - 1] = ConWith(d, d.screen, VGA_H - 1, d.col, d.text)
    BY <2>2, ConSet
  <2>5. QED
    BY <2>1, <2>2, <2>3, <2>4
<1>3. QED
  BY <1>1, <1>2 DEF s

LEMMA KprintIs ==
  ASSUME NEW c, IsCon(c), NEW g
  PROVE  kprint_char(c, g) = ConScroll(Put(c, g))
<1> DEFINE said == [c EXCEPT !.text = Append(@, g)]
           put == [said EXCEPT !.screen[<<c.row, c.col>>] = g, !.col = @ + 1]
           x == IF g = NL THEN [said EXCEPT !.row = @ + 1, !.col = 0]
                ELSE IF put.col >= VGA_W THEN [put EXCEPT !.col = 0, !.row = @ + 1] ELSE put
<1>1. kprint_char(c, g) = ConScroll(x)
  BY DEF kprint_char
<1>2. said = ConWith(c, c.screen, c.row, c.col, Append(c.text, g))
  BY DEF IsCon, ConWith
<1> HIDE DEF said
<1>3. /\ said.screen = c.screen /\ said.row = c.row /\ said.col = c.col
  BY <1>2, ConFields
<1>4. put = ConWith(c, [c.screen EXCEPT ![<<c.row, c.col>>] = g], c.row, c.col + 1, Append(c.text, g))
  <2> DEFINE s == [c.screen EXCEPT ![<<c.row, c.col>>] = g]
             t == Append(c.text, g)
             d == ConWith(c, s, c.row, c.col, t)
  <2>1. put = [[said EXCEPT !.screen = s] EXCEPT !.col = c.col + 1]
    <3>1. put = [[said EXCEPT !.screen = [said.screen EXCEPT ![<<c.row, c.col>>] = g]]
                   EXCEPT !.col = said.col + 1]
      OBVIOUS
    <3>2. QED
      BY <3>1, <1>3
  <2> HIDE DEF s, t
  <2>2. said = ConWith(said, said.screen, said.row, said.col, said.text) /\ said.text = t
    <3> DEFINE e == ConWith(c, c.screen, c.row, c.col, t)
    <3>1. e.text = t /\ e = ConWith(e, e.screen, e.row, e.col, e.text)
      BY ConFields
    <3>2. said = e
      BY <1>2 DEF t
    <3> HIDE DEF e
    <3>3. QED
      BY <3>1, <3>2
  <2>3. ConWith(said, s, c.row, c.col, t) = d
    BY <1>2, ConSame DEF t
  <2>4. [said EXCEPT !.screen = s] = d
    <3>1. [said EXCEPT !.screen = s] = ConWith(said, s, said.row, said.col, said.text)
      BY <2>2, ConSet
    <3>2. QED
      BY <2>2, <2>3, <3>1, <1>3
  <2>5. d.screen = s /\ d.row = c.row /\ d.text = t /\ d = ConWith(d, d.screen, d.row, d.col, d.text)
    BY ConFields
  <2>6. ConWith(d, s, c.row, c.col + 1, t) = ConWith(c, s, c.row, c.col + 1, t)
    BY ConSame
  <2> HIDE DEF d
  <2>7. [d EXCEPT !.col = c.col + 1] = ConWith(d, d.screen, d.row, c.col + 1, d.text)
    BY <2>5, ConSet
  <2>8. QED
    BY <2>1, <2>4, <2>5, <2>6, <2>7 DEF s, t
<1> HIDE DEF put
<1>5. put.col = c.col + 1 /\ put.row = c.row
  BY <1>4, ConFields
<1>6. x = Put(c, g)
  <2>1. CASE g = NL
    BY <2>1, <1>2, <1>3 DEF Put, PutScreen, PutRow, PutCol, ConWith
  <2>2. CASE g # NL /\ c.col + 1 >= VGA_W
    <3>1. x = [put EXCEPT !.col = 0, !.row = @ + 1]
      BY <2>2, <1>5
    <3>2. x = ConWith(c, [c.screen EXCEPT ![<<c.row, c.col>>] = g], c.row + 1, 0, Append(c.text, g))
      BY <3>1, <1>4, <1>5 DEF ConWith
    <3>3. QED
      BY <3>2, <2>2 DEF Put, PutScreen, PutRow, PutCol
  <2>3. CASE g # NL /\ ~(c.col + 1 >= VGA_W)
    <3>1. x = put
      BY <2>3, <1>5
    <3>2. QED
      BY <3>1, <2>3, <1>4 DEF Put, PutScreen, PutRow, PutCol
  <2>4. QED
    BY <2>1, <2>2, <2>3
<1>7. QED
  BY <1>1, <1>6

(* One character more, before and after the screen is scrolled.            *)
LEMMA RowSeq ==
  ASSUME NEW R, RowsFit(R)
  PROVE  /\ Len(R) \in Nat /\ Len(R) >= 1
         /\ \A i \in 1..Len(R) : /\ R[i] \in Seq(Glyph) /\ Len(R[i]) \in Nat
                                /\ \A j \in 1..Len(R[i]) : R[i][j] \in Glyph
<1>1. R \in Seq(Seq(Glyph)) /\ Len(R) \in Nat /\ Len(R) >= 1
  BY DEF RowsFit, ConRows
<1>2. ASSUME NEW i \in 1..Len(R)
      PROVE  R[i] \in Seq(Glyph) /\ Len(R[i]) \in Nat /\ \A j \in 1..Len(R[i]) : R[i][j] \in Glyph
  <2>1. R[i] \in Seq(Glyph)
    BY <1>1
  <2>2. QED
    BY <2>1
<1>3. QED
  BY <1>1, <1>2

LEMMA TopRowIs ==
  ASSUME NEW R, RowsFit(R)
  PROVE  /\ TopRow(R) \in Nat /\ Len(R) - TopRow(R) <= VGA_H /\ Len(R) - TopRow(R) >= 1
         /\ TopRow(R) > 0 => Len(R) = TopRow(R) + VGA_H
BY RowSeq, ConNumbers DEF TopRow

LEMMA CellStepped ==
  ASSUME NEW B, NEW R, NEW g \in Glyph \cup {NL}, RowsFit(B), RowsFit(R), RowsStepped(R, B, g),
         NEW i \in Nat, NEW j \in Nat, i >= 1
  PROVE  RowCell(R, i, j) = IF g # NL /\ i = Len(B) /\ j = Len(B[Len(B)]) THEN g
                            ELSE RowCell(B, i, j)
<1> DEFINE N == Len(B)
           b == B[N]
<1>1. N \in Nat /\ N >= 1 /\ N \in 1..N /\ b \in Seq(Glyph) /\ Len(b) \in Nat
  BY RowSeq
<1>2. Len(R) = N \/ (Len(R) = N + 1 /\ R[N + 1] = <<>>)
  BY DEF RowsStepped
<1>3. CASE i < N
  <2>1. R[i] = B[i] /\ i <= Len(R) /\ i <= N
    BY <1>1, <1>2, <1>3 DEF RowsStepped
  <2>2. QED
    BY <2>1, <1>1, <1>3 DEF RowCell
<1>4. CASE i > N
  <2>1. ~(i <= N)
    BY <1>1, <1>4
  <2>2. RowCell(B, i, j) = Blank
    BY <2>1 DEF RowCell
  <2>3. RowCell(R, i, j) = Blank
    <3>1. CASE Len(R) = N
      BY <3>1, <2>1 DEF RowCell
    <3>2. CASE Len(R) = N + 1 /\ R[N + 1] = <<>> /\ i = N + 1
      <4>1. Len(R[i]) = 0 /\ ~(j < 0)
        BY <3>2
      <4>2. QED
        BY <4>1 DEF RowCell
    <3>3. CASE Len(R) = N + 1 /\ i # N + 1
      <4>1. ~(i <= Len(R))
        BY <3>3, <1>1, <1>4
      <4>2. QED
        BY <4>1 DEF RowCell
    <3>4. QED
      BY <3>1, <3>2, <3>3, <1>2
  <2>4. QED
    BY <2>1, <2>2, <2>3, <1>1
<1>5. CASE i = N
  <2>1. R[i] = (IF g = NL THEN b ELSE Append(b, g)) /\ i <= Len(R) /\ i <= N
    BY <1>1, <1>2, <1>5 DEF RowsStepped
  <2>2. CASE g = NL
    BY <2>1, <2>2, <1>5 DEF RowCell
  <2>3. CASE g # NL
    <3>1. R[i] = Append(b, g) /\ B[i] = b
      BY <2>1, <2>3, <1>5
    <3>2. g \in Glyph
      BY <2>3
    <3>3. /\ Len(R[i]) = Len(b) + 1 /\ R[i][Len(b) + 1] = g
          /\ \A k \in 1..Len(b) : R[i][k] = b[k]
      BY <3>1, <3>2, <1>1
    <3> HIDE DEF b
    <3>4. CASE j = Len(b)
      BY <3>3, <3>4, <2>1, <2>3, <1>1, <1>5 DEF RowCell, b
    <3>5. CASE j < Len(b)
      <4>1. j + 1 \in 1..Len(b) /\ j < Len(b) + 1
        BY <3>5, <1>1
      <4>2. R[i][j + 1] = b[j + 1]
        BY <4>1, <3>3
      <4>3. RowCell(R, i, j) = b[j + 1] /\ RowCell(B, i, j) = b[j + 1]
        BY <4>1, <4>2, <3>1, <3>3, <3>5, <2>1 DEF RowCell
      <4>4. j # Len(b)
        BY <3>5, <1>1
      <4>5. QED
        BY <4>3, <4>4 DEF b
    <3>6. CASE j > Len(b)
      <4>1. ~(j < Len(b) + 1) /\ ~(j < Len(b)) /\ j # Len(b)
        BY <3>6, <1>1
      <4>2. RowCell(R, i, j) = Blank /\ RowCell(B, i, j) = Blank
        BY <4>1, <3>1, <3>3 DEF RowCell
      <4>3. QED
        BY <4>1, <4>2 DEF b
    <3>7. QED
      BY <3>4, <3>5, <3>6, <1>1
  <2>4. QED
    BY <2>2, <2>3
<1>6. QED
  BY <1>1, <1>3, <1>4, <1>5

LEMMA CellPair ==
  /\ \A p \in ConCells : /\ p[1] \in 0..VGA_H - 1 /\ p[2] \in 0..VGA_W - 1 /\ p = <<p[1], p[2]>>
                         /\ p[1] \in Nat /\ p[2] \in Nat
  /\ \A i \in 0..VGA_H - 1, j \in 0..VGA_W - 1 : <<i, j>> \in ConCells
BY ConNumbers DEF ConCells

LEMMA PutShows ==
  ASSUME NEW c, NEW B, RowsFit(B), NEW first \in Nat, Len(B) - first <= VGA_H, Len(B) - first >= 1,
         ShowsFrom(c, B, first), NEW g \in Glyph \cup {NL}, NEW R, RowsFit(R), RowsStepped(R, B, g)
  PROVE  ShowsFrom(Put(c, g), R, first)
<1> DEFINE N == Len(B)
           b == B[N]
           q == <<c.row, c.col>>
           d == Put(c, g)
<1>1. N \in Nat /\ N >= 1 /\ N \in 1..N /\ b \in Seq(Glyph) /\ Len(b) \in Nat /\ Len(b) < VGA_W
  BY RowSeq DEF RowsFit
<1>2. c.row = N - first - 1 /\ c.col = Len(b) /\ c.screen \in [ConCells -> Glyph]
  BY DEF ShowsFrom
<1>3. d.screen = PutScreen(c, g) /\ d.row = PutRow(c, g) /\ d.col = PutCol(c, g)
  BY ConFields DEF Put
<1>4. c.row \in 0..VGA_H - 1 /\ c.col \in 0..VGA_W - 1
  BY <1>1, <1>2, ConNumbers
<1>5. q \in ConCells /\ q[1] = c.row /\ q[2] = c.col
  BY <1>4, CellPair
<1> HIDE DEF N, b, d, q
<1>6. d.screen \in [ConCells -> Glyph]
  BY <1>2, <1>3 DEF PutScreen
<1>7. ASSUME NEW p \in ConCells PROVE d.screen[p] = RowCell(R, first + p[1] + 1, p[2])
  <2> DEFINE i == first + p[1] + 1
             j == p[2]
  <2>1. p[1] \in Nat /\ j \in Nat /\ i \in Nat /\ i >= 1 /\ p = <<p[1], p[2]>>
    BY CellPair
  <2>2. c.screen[p] = RowCell(B, i, j)
    BY DEF ShowsFrom
  <2>3. RowCell(R, i, j) = IF g # NL /\ i = N /\ j = Len(b) THEN g ELSE RowCell(B, i, j)
    BY <2>1, CellStepped DEF N, b
  <2>4. (i = N /\ j = Len(b)) <=> p = q
    <3>1. i = N <=> p[1] = c.row
      BY <2>1, <1>1, <1>2
    <3>2. p = q <=> p[1] = c.row /\ p[2] = c.col
      BY <2>1, <1>5 DEF q
    <3>3. QED
      BY <3>1, <3>2, <1>2
  <2>5. d.screen[p] = IF g # NL /\ p = q THEN g ELSE c.screen[p]
    BY <1>2, <1>3, <1>5 DEF PutScreen, q
  <2> HIDE DEF i, j
  <2>6. d.screen[p] = RowCell(R, i, j)
    BY <2>2, <2>3, <2>4, <2>5
  <2>7. QED
    BY <2>6 DEF i, j
<1>8. (g = NL \/ Len(b) + 1 = VGA_W) <=> (g = NL \/ c.col + 1 >= VGA_W)
  BY <1>1, <1>2, ConNumbers
<1>9. d.row = Len(R) - first - 1 /\ d.col = Len(R[Len(R)])
  <2>1. CASE g = NL \/ Len(b) + 1 = VGA_W
    <3>1. Len(R) = N + 1 /\ R[Len(R)] = <<>>
      BY <2>1 DEF RowsStepped, N, b
    <3>2. d.row = c.row + 1 /\ d.col = 0
      BY <2>1, <1>3, <1>8 DEF PutRow, PutCol
    <3>3. QED
      BY <3>1, <3>2, <1>1, <1>2
  <2>2. CASE ~(g = NL \/ Len(b) + 1 = VGA_W)
    <3>1. Len(R) = N /\ R[Len(R)] = Append(b, g) /\ g \in Glyph
      BY <2>2 DEF RowsStepped, N, b
    <3>2. d.row = c.row /\ d.col = c.col + 1
      BY <2>2, <1>3, <1>8 DEF PutRow, PutCol
    <3>3. QED
      BY <3>1, <3>2, <1>1, <1>2
  <2>3. QED
    BY <2>1, <2>2
<1>10. QED
  BY <1>6, <1>7, <1>9 DEF ShowsFrom, d

LEMMA ScrollShows ==
  ASSUME NEW c, c = ConWith(c, c.screen, c.row, c.col, c.text), NEW R, RowsFit(R),
         NEW first \in Nat, ShowsFrom(c, R, first), Len(R) - first >= 1,
         \/ Len(R) - first <= VGA_H /\ (first > 0 => Len(R) - first = VGA_H)
         \/ Len(R) - first = VGA_H + 1 /\ R[Len(R)] = <<>>
  PROVE  ShowsFrom(ConScroll(c), R, TopRow(R))
<1> DEFINE N == Len(R)
           s == ScrolledScreen(c.screen)
           d == ConWith(c, s, VGA_H - 1, c.col, c.text)
<1>1. N \in Nat /\ N >= 1
  BY RowSeq
<1>2. /\ c.row = N - first - 1 /\ c.screen \in [ConCells -> Glyph] /\ c.col = Len(R[N])
      /\ \A p \in ConCells : c.screen[p] = RowCell(R, first + p[1] + 1, p[2])
  BY DEF ShowsFrom
<1>3. CASE ~(c.row >= VGA_H)
  <2>1. ConScroll(c) = c
    BY <1>3, ScrollIs
  <2>2. N - first <= VGA_H
    BY <1>1, <1>2, <1>3, ConNumbers
  <2>3. first > 0 => N - first = VGA_H
    BY <2>2, <1>1, ConNumbers
  <2>4. TopRow(R) = first
    BY <2>2, <2>3, <1>1, ConNumbers DEF TopRow
  <2>5. QED
    BY <2>1, <2>4
<1>4. CASE c.row >= VGA_H
  <2>1. ConScroll(c) = d
    BY <1>4, ScrollIs
  <2>2. N - first = VGA_H + 1 /\ R[N] = <<>>
    BY <1>1, <1>2, <1>4, ConNumbers
  <2>3. TopRow(R) = first + 1
    BY <2>2, <1>1, ConNumbers DEF TopRow
  <2>4. d.screen = s /\ d.row = VGA_H - 1 /\ d.col = c.col
    BY ConFields
  <2>5. ASSUME NEW p \in ConCells
        PROVE  s[p] \in Glyph /\ s[p] = RowCell(R, (first + 1) + p[1] + 1, p[2])
    <3>1. /\ p[1] \in Nat /\ p[2] \in Nat /\ p[1] \in 0..VGA_H - 1 /\ p[2] \in 0..VGA_W - 1
      BY CellPair
    <3>2. CASE p[1] < VGA_H - 1
      <4> DEFINE u == <<p[1] + 1, p[2]>>
      <4>1. p[1] + 1 \in 0..VGA_H - 1
        BY <3>1, <3>2, ConNumbers
      <4>2. u \in ConCells /\ u[1] = p[1] + 1 /\ u[2] = p[2]
        BY <4>1, <3>1, CellPair
      <4>3. s[p] = c.screen[u]
        BY <3>2 DEF ScrolledScreen
      <4> HIDE DEF u
      <4>4. first + u[1] + 1 = (first + 1) + p[1] + 1
        BY <4>2, <3>1
      <4>5. c.screen[u] \in Glyph /\ c.screen[u] = RowCell(R, first + u[1] + 1, u[2])
        BY <4>2, <1>2
      <4>6. QED
        BY <4>2, <4>3, <4>4, <4>5
    <3>3. CASE ~(p[1] < VGA_H - 1)
      <4>1. s[p] = Blank
        BY <3>3 DEF ScrolledScreen
      <4>2. (first + 1) + p[1] + 1 = N /\ ~(p[2] < 0) /\ Len(R[N]) = 0
        BY <3>1, <3>3, <2>2, <1>1, ConNumbers
      <4>3. RowCell(R, N, p[2]) = Blank
        BY <4>2 DEF RowCell
      <4>4. QED
        BY <4>1, <4>2, <4>3 DEF Glyph
    <3>4. QED
      BY <3>2, <3>3
  <2>6. s \in [ConCells -> Glyph]
    BY <2>5 DEF ScrolledScreen
  <2>7. VGA_H - 1 = N - (first + 1) - 1
    BY <2>2, <1>1, ConNumbers
  <2> HIDE DEF d, s
  <2>8. ShowsFrom(d, R, first + 1)
    BY <2>4, <2>5, <2>6, <2>7, <1>2 DEF ShowsFrom
  <2>9. QED
    BY <2>1, <2>3, <2>8
<1>5. QED
  BY <1>3, <1>4

(* What an operation of the screen leaves of the line being read.          *)
SameLine(d, c) ==
  /\ d.reading = c.reading /\ d.shift = c.shift /\ d.buf = c.buf /\ d.start = c.start
  /\ d.slipped = c.slipped

LEMMA KprintShows ==
  ASSUME NEW c, Shows(c), NEW g \in Glyph \cup {NL}
  PROVE  LET d == kprint_char(c, g)
         IN  Shows(d) /\ SameLine(d, c) /\ d.text = Append(c.text, g) /\ d.col = PutCol(c, g)
<1> DEFINE d == kprint_char(c, g)
           B == TextRows(c.text)
           t == Append(c.text, g)
           R == TextRows(t)
           first == TopRow(B)
           u == Put(c, g)
<1>1. IsCon(c) /\ c.text \in ConText /\ ShowsFrom(c, B, first)
  BY DEF Shows, IsCon
<1>2. RowsFit(B) /\ R = RowStep(B, g)
  BY <1>1, RowsAlwaysFit, RowsGrow
<1>3. RowsFit(R) /\ RowsStepped(R, B, g)
  BY <1>2, RowStepOf
<1>4. t \in ConText
  BY <1>1 DEF ConText
<1>5. /\ u = ConWith(u, u.screen, u.row, u.col, u.text) /\ u.text = t /\ SameLine(u, c)
      /\ u.col = PutCol(c, g)
  <2> DEFINE s == PutScreen(c, g)
             r == PutRow(c, g)
             k == PutCol(c, g)
             e == ConWith(c, s, r, k, t)
  <2> HIDE DEF s, r, k, t
  <2>1. /\ e = ConWith(e, e.screen, e.row, e.col, e.text) /\ e.text = t /\ SameLine(e, c)
        /\ e.col = k
    BY ConFields DEF SameLine
  <2> HIDE DEF e
  <2>2. u = e
    BY DEF Put, e, s, r, k, t
  <2>3. QED
    BY <2>1, <2>2 DEF k
<1>6. d = ConScroll(u)
  BY <1>1, KprintIs
<1>7. /\ d = (IF u.row >= VGA_H THEN ConWith(u, ScrolledScreen(u.screen), VGA_H - 1, u.col, u.text) ELSE u)
  BY <1>5, <1>6, ScrollIs
<1> HIDE DEF u, R, B, t, d, first
<1>8. /\ d = ConWith(d, d.screen, d.row, d.col, d.text) /\ d.text = t /\ SameLine(d, c)
      /\ d.col = PutCol(c, g)
  <2>1. CASE u.row >= VGA_H
    <3> DEFINE e == ConWith(u, ScrolledScreen(u.screen), VGA_H - 1, u.col, u.text)
    <3>1. e = ConWith(e, e.screen, e.row, e.col, e.text) /\ e.text = u.text /\ SameLine(e, u)
          /\ e.col = u.col
      BY ConFields DEF SameLine
    <3>2. d = e
      BY <2>1, <1>7
    <3> HIDE DEF e
    <3>3. QED
      BY <3>1, <3>2, <1>5 DEF SameLine
  <2>2. CASE ~(u.row >= VGA_H)
    BY <2>2, <1>5, <1>7
  <2>3. QED
    BY <2>1, <2>2
<1>9. /\ first \in Nat /\ Len(B) - first <= VGA_H /\ Len(B) - first >= 1
      /\ first > 0 => Len(B) = first + VGA_H
  BY <1>2, TopRowIs DEF first
<1>10. ShowsFrom(u, R, first)
  BY <1>1, <1>2, <1>3, <1>9, PutShows DEF u
<1>11. Len(B) \in Nat /\ (Len(R) = Len(B) \/ (Len(R) = Len(B) + 1 /\ R[Len(R)] = <<>>))
  BY <1>2, <1>3, RowSeq DEF RowsStepped
<1>12. /\ Len(R) - first >= 1
       /\ \/ Len(R) - first <= VGA_H /\ (first > 0 => Len(R) - first = VGA_H)
          \/ Len(R) - first = VGA_H + 1 /\ R[Len(R)] = <<>>
  BY <1>9, <1>11, ConNumbers
<1>13. ShowsFrom(d, R, TopRow(R))
  BY <1>3, <1>5, <1>6, <1>9, <1>10, <1>12, ScrollShows
<1>14. Shows(d)
  BY <1>4, <1>8, <1>13 DEF Shows, IsCon, R
<1>15. QED
  BY <1>8, <1>14 DEF d, t

LEMMA TextOnRow ==
  ASSUME NEW c, Shows(c), c.col # 0
  PROVE  c.text \in ConText /\ Len(c.text) \in Nat /\ Len(c.text) >= 1
<1>1. c.text \in ConText /\ c.col = Len(TextRows(c.text)[Len(TextRows(c.text))])
  BY DEF Shows, IsCon, ShowsFrom
<1>2. ASSUME c.text = <<>> PROVE FALSE
  <2>1. TextRows(c.text) = << <<>> >>
    BY <1>2, NoRows
  <2>2. Len(<< <<>> >>) = 1 /\ << <<>> >>[1] = <<>> /\ Len(<<>>) = 0
    OBVIOUS
  <2>3. QED
    BY <1>1, <2>1, <2>2
<1>3. QED
  BY <1>1, <1>2, EmptySeq DEF ConText

RubbedOut(c) ==
  ConWith(c, [c.screen EXCEPT ![<<c.row, c.col - 1>>] = Blank], c.row, c.col - 1, Front(c.text))

LEMMA BackspaceIs ==
  ASSUME NEW c, IsCon(c), c.col # 0
  PROVE  VgaBackspace(c) = RubbedOut(c)
<1> DEFINE s == [c.screen EXCEPT ![<<c.row, c.col - 1>>] = Blank]
           k == c.col - 1
           t == Front(c.text)
           d == ConWith(c, c.screen, c.row, k, c.text)
           e == ConWith(c, s, c.row, k, c.text)
<1>1. VgaBackspace(c) = [[[c EXCEPT !.col = k] EXCEPT !.screen = [[c EXCEPT !.col = k].screen EXCEPT ![<<c.row, c.col - 1>>] = Blank]]
                            EXCEPT !.text = Front([[c EXCEPT !.col = k] EXCEPT !.screen = [[c EXCEPT !.col = k].screen EXCEPT ![<<c.row, c.col - 1>>] = Blank]].text)]
  BY DEF VgaBackspace
<1> HIDE DEF k
<1>2. [c EXCEPT !.col = k] = d
  BY ConSet DEF IsCon
<1>3. d.screen = c.screen /\ d.row = c.row /\ d.col = k /\ d.text = c.text /\ d = ConWith(d, d.screen, d.row, d.col, d.text)
  BY ConFields
<1>4. ConWith(d, s, c.row, k, c.text) = e
  BY ConSame
<1> HIDE DEF d
<1>5. VgaBackspace(c) = [[d EXCEPT !.screen = s] EXCEPT !.text = Front([d EXCEPT !.screen = s].text)]
  BY <1>1, <1>2, <1>3
<1> HIDE DEF s
<1>6. [d EXCEPT !.screen = s] = ConWith(d, s, d.row, d.col, d.text)
  BY <1>3, ConSet
<1>7. [d EXCEPT !.screen = s] = e
  BY <1>3, <1>4, <1>6
<1>8. /\ e.screen = s /\ e.row = c.row /\ e.col = k /\ e.text = c.text
      /\ e = ConWith(e, e.screen, e.row, e.col, e.text)
  BY ConFields
<1>9. ConWith(e, s, c.row, k, t) = ConWith(c, s, c.row, k, t)
  BY ConSame
<1> HIDE DEF e
<1>10. [e EXCEPT !.text = t] = ConWith(e, e.screen, e.row, e.col, t)
  BY <1>8, ConSet
<1>11. VgaBackspace(c) = [e EXCEPT !.text = t]
  BY <1>5, <1>7, <1>8
<1>12. QED
  BY <1>8, <1>9, <1>10, <1>11 DEF RubbedOut, s, k

LEMMA BackspaceShows ==
  ASSUME NEW c, Shows(c), c.col # 0
  PROVE  LET d == VgaBackspace(c)
         IN  Shows(d) /\ SameLine(d, c) /\ d.text = Front(c.text) /\ d.col = c.col - 1
<1> DEFINE d == VgaBackspace(c)
           n == Len(c.text)
           t == Front(c.text)
           g == c.text[n]
           R == TextRows(c.text)
           B == TextRows(t)
           first == TopRow(R)
           s == [c.screen EXCEPT ![<<c.row, c.col - 1>>] = Blank]
<1>1. c.text \in ConText /\ n \in Nat /\ n >= 1 /\ IsCon(c) /\ ShowsFrom(c, R, first)
  BY TextOnRow DEF Shows
<1>2. t \in ConText /\ g \in Glyph \cup {NL} /\ Append(t, g) = c.text
  <2>1. c.text \in Seq(Glyph \cup {NL})
    BY <1>1 DEF ConText
  <2>2. QED
    BY <2>1, <1>1, FrontOf DEF ConText
<1>3. R = RowStep(B, g) /\ RowsFit(B)
  BY <1>2, RowsGrow, RowsAlwaysFit
<1>4. RowsFit(R) /\ RowsStepped(R, B, g)
  BY <1>2, <1>3, RowStepOf
<1>5. d = ConWith(c, s, c.row, c.col - 1, t)
  BY <1>1, BackspaceIs DEF RubbedOut
<1>6. /\ d.screen = s /\ d.row = c.row /\ d.col = c.col - 1 /\ d.text = t /\ SameLine(d, c)
      /\ d = ConWith(d, d.screen, d.row, d.col, d.text)
  <2> DEFINE e == ConWith(c, s, c.row, c.col - 1, t)
  <2>1. /\ e.screen = s /\ e.row = c.row /\ e.col = c.col - 1 /\ e.text = t /\ SameLine(e, c)
        /\ e = ConWith(e, e.screen, e.row, e.col, e.text)
    BY ConFields DEF SameLine
  <2> HIDE DEF e
  <2>2. d = e
    BY <1>5 DEF e
  <2>3. QED
    BY <2>1, <2>2
<1> DEFINE N == Len(B)
           b == B[N]
<1>7. N \in Nat /\ N >= 1 /\ N \in 1..N /\ b \in Seq(Glyph) /\ Len(b) \in Nat
  BY <1>3, RowSeq
<1>8. /\ c.row = Len(R) - first - 1 /\ c.col = Len(R[Len(R)]) /\ c.screen \in [ConCells -> Glyph]
      /\ \A p \in ConCells : c.screen[p] = RowCell(R, first + p[1] + 1, p[2])
  BY <1>1 DEF ShowsFrom
<1>9. /\ first \in Nat /\ Len(R) - first <= VGA_H /\ Len(R) - first >= 1
  BY <1>4, TopRowIs
<1> HIDE DEF d, t, g, R, B, n, first, s
<1>10. g # NL /\ Len(R) = N /\ R[N] = Append(b, g)
  <2>1. ASSUME g = NL \/ Len(b) + 1 = VGA_W PROVE FALSE
    <3>1. R[Len(R)] = <<>> /\ Len(<<>>) = 0
      BY <2>1, <1>4 DEF RowsStepped
    <3>2. QED
      BY <3>1, <1>8
  <2>2. QED
    BY <2>1, <1>4 DEF RowsStepped
<1>11. c.col = Len(b) + 1 /\ c.col - 1 = Len(b)
  BY <1>2, <1>7, <1>8, <1>10
<1>12. TopRow(B) = first
  BY <1>10 DEF TopRow, first
<1>13. c.row \in 0..VGA_H - 1 /\ c.col - 1 \in 0..VGA_W - 1
  <2>1. Len(b) < VGA_W
    BY <1>3 DEF RowsFit
  <2>2. QED
    BY <2>1, <1>7, <1>8, <1>9, <1>10, <1>11, ConNumbers
<1> DEFINE q == <<c.row, c.col - 1>>
<1>14. q \in ConCells /\ q[1] = c.row /\ q[2] = c.col - 1
  BY <1>13, CellPair
<1>15. s \in [ConCells -> Glyph]
  BY <1>8 DEF s, Glyph
<1>16. ASSUME NEW p \in ConCells PROVE s[p] = RowCell(B, first + p[1] + 1, p[2])
  <2> DEFINE i == first + p[1] + 1
             j == p[2]
  <2>1. p[1] \in Nat /\ j \in Nat /\ i \in Nat /\ i >= 1 /\ p = <<p[1], p[2]>>
    BY CellPair, <1>9
  <2>2. RowCell(R, i, j) = IF g # NL /\ i = N /\ j = Len(b) THEN g ELSE RowCell(B, i, j)
    BY <2>1, <1>2, <1>3, <1>4, CellStepped
  <2>3. (i = N /\ j = Len(b)) <=> p = q
    <3>1. i = N <=> p[1] = c.row
      BY <2>1, <1>7, <1>8, <1>9, <1>10
    <3>2. p = q <=> p[1] = c.row /\ p[2] = c.col - 1
      BY <2>1, <1>14
    <3>3. QED
      BY <3>1, <3>2, <1>11
  <2>4. s[p] = IF p = q THEN Blank ELSE c.screen[p]
    BY <1>8, <1>14 DEF s
  <2>5. p = q => RowCell(B, i, j) = Blank
    <3>1. ASSUME p = q PROVE i = N /\ ~(j < Len(b))
      BY <3>1, <2>3, <1>7
    <3>2. QED
      BY <3>1 DEF RowCell
  <2>6. c.screen[p] = RowCell(R, i, j)
    BY <1>8
  <2> HIDE DEF i, j
  <2>7. s[p] = RowCell(B, i, j)
    BY <2>2, <2>3, <2>4, <2>5, <2>6
  <2>8. QED
    BY <2>7 DEF i, j
<1>17. ShowsFrom(d, B, TopRow(B))
  BY <1>6, <1>8, <1>10, <1>11, <1>12, <1>15, <1>16 DEF ShowsFrom
<1>18. Shows(d)
  BY <1>2, <1>6, <1>17 DEF Shows, IsCon, B
<1>19. QED
  BY <1>6, <1>18 DEF d, t

LEMMA FrontAppend ==
  ASSUME NEW S, NEW s \in Seq(S), NEW e \in S
  PROVE  Front(Append(s, e)) = s
<1> DEFINE a == Append(s, e)
<1>1. a \in Seq(S) /\ Len(a) = Len(s) + 1 /\ Len(s) \in Nat /\ \A i \in 1..Len(s) : a[i] = s[i]
  OBVIOUS
<1> HIDE DEF a
<1>2. Front(a) \in Seq(S) /\ Len(Front(a)) = Len(a) - 1 /\ \A i \in 1..Len(a) - 1 : Front(a)[i] = a[i]
  BY SMTT(20), <1>1, FrontOf
<1>3. Len(Front(a)) = Len(s) /\ \A i \in 1..Len(Front(a)) : Front(a)[i] = s[i]
  BY <1>1, <1>2
<1>4. Front(a) = s
  BY <1>2, <1>3, SameSequence
<1>5. QED
  BY <1>4 DEF a

(* Back, a blank, back: away from the left edge one character is gone, at  *)
(* the edge nothing is.                                                    *)
LEMMA RubShows ==
  ASSUME NEW c, Shows(c)
  PROVE  LET d == VgaBackspace(vga_putchar(VgaBackspace(c), Blank))
         IN  Shows(d) /\ SameLine(d, c) /\ d.text = IF c.col = 0 THEN c.text ELSE Front(c.text)
<1> DEFINE x == VgaBackspace(c)
           y == vga_putchar(x, Blank)
           d == VgaBackspace(y)
<1>0. c.text \in ConText /\ c.col \in Nat /\ c.col < VGA_W
  <2>1. c.text \in ConText /\ c.col = Len(TextRows(c.text)[Len(TextRows(c.text))])
    BY DEF Shows, IsCon, ShowsFrom
  <2> DEFINE R == TextRows(c.text)
  <2>2. RowsFit(R)
    BY <2>1, RowsAlwaysFit
  <2> HIDE DEF R
  <2>3. Len(R) \in 1..Len(R) /\ Len(R[Len(R)]) \in Nat /\ Len(R[Len(R)]) < VGA_W
    BY <2>2, RowSeq DEF RowsFit
  <2>4. QED
    BY <2>1, <2>3 DEF R
<1>1. /\ Shows(x) /\ SameLine(x, c) /\ x.text = IF c.col = 0 THEN c.text ELSE Front(c.text)
      /\ x.col \in Nat /\ x.col + 1 < VGA_W
  <2>1. CASE c.col = 0
    <3>1. x = c
      BY <2>1 DEF VgaBackspace
    <3>2. QED
      BY <3>1, <2>1, ConNumbers DEF SameLine
  <2>2. CASE c.col # 0
    <3>1. Shows(x) /\ SameLine(x, c) /\ x.text = Front(c.text) /\ x.col = c.col - 1
      BY <2>2, BackspaceShows
    <3> HIDE DEF x
    <3>2. QED
      BY <3>1, <2>2, <1>0, ConNumbers
  <2>3. QED
    BY <2>1, <2>2
<1> HIDE DEF x
<1>2. Blank \in Glyph /\ Blank # NL /\ Blank \in Glyph \cup {NL}
  BY DEF Blank, Glyph, NL
<1>3. y = kprint_char(x, Blank)
  BY DEF vga_putchar
<1>4. Shows(y) /\ SameLine(y, x) /\ y.text = Append(x.text, Blank) /\ y.col = PutCol(x, Blank)
  BY <1>1, <1>2, <1>3, KprintShows
<1> HIDE DEF y
<1>5. y.col = x.col + 1 /\ y.col # 0
  BY <1>1, <1>2, <1>4, ConNumbers DEF PutCol
<1>6. Shows(d) /\ SameLine(d, y) /\ d.text = Front(y.text)
  BY <1>4, <1>5, BackspaceShows
<1>7. x.text \in Seq(Glyph \cup {NL})
  BY <1>1 DEF Shows, IsCon, ConText
<1>8. d.text = x.text
  BY <1>2, <1>4, <1>6, <1>7, FrontAppend
<1> HIDE DEF d
<1>9. Shows(d) /\ SameLine(d, c) /\ d.text = IF c.col = 0 THEN c.text ELSE Front(c.text)
  BY <1>1, <1>4, <1>6, <1>8 DEF SameLine
<1>10. QED
  BY <1>9 DEF d, y, x

(* The line being read.                                                    *)
EchoOf(c) == SubSeq(c.text, c.start + 1, Len(c.text))
ConLine(d, r, h, b, s, l) ==
  [screen |-> d.screen, row |-> d.row, col |-> d.col, text |-> d.text, reading |-> r, shift |-> h,
   buf |-> b, start |-> s, slipped |-> l]

ConKept(c) ==
  /\ Shows(c)
  /\ c.reading \in BOOLEAN /\ c.shift \in BOOLEAN /\ c.slipped \in BOOLEAN
  /\ c.buf \in Seq(Glyph)
  /\ c.reading => /\ c.start \in Nat /\ c.start <= Len(c.text)
                  /\ IF c.slipped THEN Len(c.text) - c.start > Len(c.buf) ELSE EchoOf(c) = c.buf

LEMMA LineSet ==
  ASSUME NEW d, Shows(d), NEW r, NEW h, NEW b, NEW s, NEW l, NEW e, e = ConLine(d, r, h, b, s, l)
  PROVE  /\ Shows(e) /\ e.text = d.text
         /\ e.reading = r /\ e.shift = h /\ e.buf = b /\ e.start = s /\ e.slipped = l
<1>1. /\ e.screen = d.screen /\ e.row = d.row /\ e.col = d.col /\ e.text = d.text
      /\ e.reading = r /\ e.shift = h /\ e.buf = b /\ e.start = s /\ e.slipped = l
      /\ e = ConWith(e, e.screen, e.row, e.col, e.text)
  BY DEF ConLine, ConWith
<1>2. Shows(e)
  BY <1>1 DEF Shows, IsCon, ShowsFrom
<1>3. QED
  BY <1>1, <1>2

LEMMA IsLine ==
  ASSUME NEW d, IsCon(d)
  PROVE  d = ConLine(d, d.reading, d.shift, d.buf, d.start, d.slipped)
BY DEF IsCon, ConWith, ConLine

IsConLine(d) == d = ConLine(d, d.reading, d.shift, d.buf, d.start, d.slipped)

LEMMA LineChange ==
  ASSUME NEW d, IsConLine(d), NEW x
  PROVE  /\ [d EXCEPT !.reading = x] = ConLine(d, x, d.shift, d.buf, d.start, d.slipped)
         /\ [d EXCEPT !.shift = x] = ConLine(d, d.reading, x, d.buf, d.start, d.slipped)
         /\ [d EXCEPT !.buf = x] = ConLine(d, d.reading, d.shift, x, d.start, d.slipped)
         /\ [d EXCEPT !.start = x] = ConLine(d, d.reading, d.shift, d.buf, x, d.slipped)
         /\ [d EXCEPT !.slipped = x] = ConLine(d, d.reading, d.shift, d.buf, d.start, x)
<1>1. d = [screen |-> d.screen, row |-> d.row, col |-> d.col, text |-> d.text, reading |-> d.reading,
           shift |-> d.shift, buf |-> d.buf, start |-> d.start, slipped |-> d.slipped]
  BY DEF IsConLine, ConLine
<1>2. [d EXCEPT !.reading = x] = ConLine(d, x, d.shift, d.buf, d.start, d.slipped)
  BY <1>1 DEF ConLine
<1>3. [d EXCEPT !.shift = x] = ConLine(d, d.reading, x, d.buf, d.start, d.slipped)
  BY <1>1 DEF ConLine
<1>4. [d EXCEPT !.buf = x] = ConLine(d, d.reading, d.shift, x, d.start, d.slipped)
  BY <1>1 DEF ConLine
<1>5. [d EXCEPT !.start = x] = ConLine(d, d.reading, d.shift, d.buf, x, d.slipped)
  BY <1>1 DEF ConLine
<1>6. [d EXCEPT !.slipped = x] = ConLine(d, d.reading, d.shift, d.buf, d.start, x)
  BY <1>1 DEF ConLine
<1>7. QED
  BY <1>2, <1>3, <1>4, <1>5, <1>6

LEMMA LineFields ==
  ASSUME NEW d, NEW r, NEW h, NEW b, NEW s, NEW l
  PROVE  LET e == ConLine(d, r, h, b, s, l)
         IN  /\ e.screen = d.screen /\ e.row = d.row /\ e.col = d.col /\ e.text = d.text
             /\ e.reading = r /\ e.shift = h /\ e.buf = b /\ e.start = s /\ e.slipped = l
             /\ IsConLine(e)
BY DEF ConLine, IsConLine

LEMMA LineAgain ==
  ASSUME NEW d, NEW e, e.screen = d.screen, e.row = d.row, e.col = d.col, e.text = d.text,
         NEW r, NEW h, NEW b, NEW s, NEW l
  PROVE  ConLine(e, r, h, b, s, l) = ConLine(d, r, h, b, s, l)
BY DEF ConLine

LEMMA RubChange ==
  ASSUME NEW d, IsConLine(d), NEW b, NEW l
  PROVE  [[d EXCEPT !.buf = b] EXCEPT !.slipped = l] = ConLine(d, d.reading, d.shift, b, d.start, l)
<1> DEFINE e == ConLine(d, d.reading, d.shift, b, d.start, d.slipped)
<1>1. [d EXCEPT !.buf = b] = e
  BY LineChange
<1>2. /\ e.screen = d.screen /\ e.row = d.row /\ e.col = d.col /\ e.text = d.text
      /\ e.reading = d.reading /\ e.shift = d.shift /\ e.buf = b /\ e.start = d.start /\ IsConLine(e)
  BY LineFields
<1> HIDE DEF e
<1>3. [e EXCEPT !.slipped = l] = ConLine(e, e.reading, e.shift, e.buf, e.start, l)
  BY <1>2, LineChange
<1>4. ConLine(e, d.reading, d.shift, b, d.start, l) = ConLine(d, d.reading, d.shift, b, d.start, l)
  BY <1>2, LineAgain
<1>5. QED
  BY <1>1, <1>2, <1>3, <1>4

Reread(d, r, b, s, l) ==
  [[[[d EXCEPT !.reading = r] EXCEPT !.buf = b] EXCEPT !.start = s] EXCEPT !.slipped = l]

LEMMA ReadChange ==
  ASSUME NEW d, IsConLine(d), NEW r, NEW b, NEW s, NEW l
  PROVE  Reread(d, r, b, s, l) = ConLine(d, r, d.shift, b, s, l)
<1> DEFINE e == ConLine(d, r, d.shift, d.buf, d.start, d.slipped)
<1>1. [d EXCEPT !.reading = r] = e
  BY LineChange
<1>2. /\ e.screen = d.screen /\ e.row = d.row /\ e.col = d.col /\ e.text = d.text
      /\ e.reading = r /\ e.shift = d.shift /\ e.start = d.start /\ e.slipped = d.slipped /\ IsConLine(e)
  BY LineFields
<1> HIDE DEF e
<1> DEFINE g == ConLine(d, r, d.shift, b, d.start, d.slipped)
           k == ConLine(d, r, d.shift, b, s, d.slipped)
<1>3. [e EXCEPT !.buf = b] = g
  <2>1. [e EXCEPT !.buf = b] = ConLine(e, e.reading, e.shift, b, e.start, e.slipped)
    BY <1>2, LineChange
  <2>2. ConLine(e, r, d.shift, b, d.start, d.slipped) = g
    BY <1>2, LineAgain
  <2> HIDE DEF g
  <2>3. QED
    BY <2>1, <2>2, <1>2
<1>4. /\ g.screen = d.screen /\ g.row = d.row /\ g.col = d.col /\ g.text = d.text /\ g.buf = b
      /\ g.reading = r /\ g.shift = d.shift /\ g.slipped = d.slipped /\ IsConLine(g)
  BY LineFields
<1> HIDE DEF g
<1>5. [g EXCEPT !.start = s] = k
  <2>1. [g EXCEPT !.start = s] = ConLine(g, g.reading, g.shift, g.buf, s, g.slipped)
    BY <1>4, LineChange
  <2>2. ConLine(g, r, d.shift, b, s, d.slipped) = k
    BY <1>4, LineAgain
  <2> HIDE DEF k
  <2>3. QED
    BY <2>1, <2>2, <1>4
<1>6. /\ k.screen = d.screen /\ k.row = d.row /\ k.col = d.col /\ k.text = d.text /\ k.buf = b
      /\ k.reading = r /\ k.shift = d.shift /\ k.start = s /\ IsConLine(k)
  BY LineFields
<1> HIDE DEF k
<1>7. [k EXCEPT !.slipped = l] = ConLine(k, k.reading, k.shift, k.buf, k.start, l)
  BY <1>6, LineChange
<1>8. ConLine(k, r, d.shift, b, s, l) = ConLine(d, r, d.shift, b, s, l)
  BY <1>6, LineAgain
<1>9. QED
  BY <1>1, <1>3, <1>5, <1>6, <1>7, <1>8 DEF Reread

LEMMA EchoTyped ==
  ASSUME NEW t \in ConText, NEW k \in Nat, k <= Len(t)
  PROVE  /\ Len(t) \in Nat
         /\ SubSeq(t, k + 1, Len(t)) \in ConText /\ Len(SubSeq(t, k + 1, Len(t))) = Len(t) - k
         /\ \A i \in 1..Len(t) - k : SubSeq(t, k + 1, Len(t))[i] = t[k + i]
<1> DEFINE n == Len(t)
           m == k + 1
           S == Glyph \cup {NL}
<1>1. n \in Nat /\ n \in Int /\ m \in Int /\ \A i \in m..n : t[i] \in S
  BY DEF ConText
<1> HIDE DEF n, m, S
<1>2. /\ SubSeq(t, m, n) \in Seq(S) /\ Len(SubSeq(t, m, n)) = (IF m <= n THEN n - m + 1 ELSE 0)
      /\ \A i \in 1..n - m + 1 : SubSeq(t, m, n)[i] = t[m + i - 1]
  BY <1>1, SubSeqProperties
<1>3. n - m + 1 = n - k /\ (~(m <= n) => n - k = 0) /\ \A i \in 1..n - k : m + i - 1 = k + i
  BY <1>1 DEF m, n
<1>4. Len(SubSeq(t, m, n)) = n - k
  BY <1>2, <1>3
<1>5. \A i \in 1..n - k : SubSeq(t, m, n)[i] = t[k + i]
  BY <1>2, <1>3
<1>6. QED
  BY <1>1, <1>2, <1>4, <1>5 DEF n, m, S, ConText

(* The echo grows and shrinks with the text.                               *)
LEMMA EchoGrows ==
  ASSUME NEW t \in ConText, NEW k \in Nat, k <= Len(t), NEW g \in Glyph
  PROVE  SubSeq(Append(t, g), k + 1, Len(Append(t, g))) = Append(SubSeq(t, k + 1, Len(t)), g)
<1> DEFINE S == Glyph \cup {NL}
           a == Append(t, g)
           e == SubSeq(t, k + 1, Len(t))
           x == SubSeq(a, k + 1, Len(a))
           y == Append(e, g)
<1>1. /\ a \in ConText /\ Len(t) \in Nat /\ Len(a) = Len(t) + 1 /\ a[Len(t) + 1] = g
      /\ \A i \in 1..Len(t) : a[i] = t[i]
  BY DEF ConText
<1>2. /\ e \in ConText /\ Len(e) = Len(t) - k /\ \A i \in 1..Len(t) - k : e[i] = t[k + i]
  BY EchoTyped
<1> HIDE DEF a, e
<1>3. k <= Len(a)
  BY <1>1
<1>4. /\ x \in ConText /\ Len(x) = Len(a) - k /\ \A i \in 1..Len(a) - k : x[i] = a[k + i]
  BY <1>1, <1>3, EchoTyped
<1> HIDE DEF x
<1>5. y \in ConText /\ Len(y) = Len(e) + 1 /\ y[Len(e) + 1] = g /\ \A i \in 1..Len(e) : y[i] = e[i]
  BY <1>2 DEF ConText
<1> HIDE DEF y
<1>6. Len(x) = Len(y)
  BY <1>1, <1>2, <1>4, <1>5
<1>7. ASSUME NEW i \in 1..Len(x) PROVE x[i] = y[i]
  <2>1. i \in 1..Len(a) - k /\ x[i] = a[k + i]
    BY <1>4
  <2>2. CASE i = Len(e) + 1
    <3>1. k + i = Len(t) + 1
      BY <2>2, <1>1, <1>2
    <3>2. QED
      BY <3>1, <2>1, <2>2, <1>1, <1>5
  <2>3. CASE i # Len(e) + 1
    <3>1. i \in 1..Len(e) /\ i \in 1..Len(t) - k /\ k + i \in 1..Len(t)
      BY <2>1, <2>3, <1>1, <1>2
    <3>2. QED
      BY <3>1, <2>1, <1>1, <1>2, <1>5
  <2>4. QED
    BY <2>2, <2>3
<1>8. x = y
  BY <1>4, <1>5, <1>6, <1>7, SameSequence DEF ConText
<1>9. QED
  BY <1>8 DEF x, y, a, e

LEMMA EchoShrinks ==
  ASSUME NEW t \in ConText, NEW k \in Nat, k < Len(t)
  PROVE  SubSeq(Front(t), k + 1, Len(Front(t))) = Front(SubSeq(t, k + 1, Len(t)))
<1> DEFINE S == Glyph \cup {NL}
           a == Front(t)
           e == SubSeq(t, k + 1, Len(t))
           x == SubSeq(a, k + 1, Len(a))
           y == Front(e)
<1>0. t \in Seq(S) /\ Len(t) \in Nat /\ Len(t) >= 1
  BY DEF ConText
<1>1. a \in Seq(S) /\ Len(a) = Len(t) - 1 /\ \A i \in 1..Len(t) - 1 : a[i] = t[i]
  BY <1>0, FrontOf
<1>2. /\ e \in ConText /\ Len(e) = Len(t) - k /\ \A i \in 1..Len(t) - k : e[i] = t[k + i]
  BY <1>0, EchoTyped
<1> HIDE DEF a, e
<1>3. k <= Len(a) /\ a \in ConText
  BY <1>0, <1>1 DEF ConText
<1>4. /\ x \in ConText /\ Len(x) = Len(a) - k /\ \A i \in 1..Len(a) - k : x[i] = a[k + i]
  BY <1>1, <1>3, EchoTyped
<1> HIDE DEF x
<1>5. y \in Seq(S) /\ Len(y) = Len(e) - 1 /\ \A i \in 1..Len(e) - 1 : y[i] = e[i]
  <2>1. e \in Seq(S) /\ Len(e) >= 1
    BY <1>0, <1>2 DEF ConText
  <2>2. QED
    BY <2>1, FrontOf
<1> HIDE DEF y
<1>6. Len(x) = Len(y)
  BY <1>0, <1>1, <1>2, <1>4, <1>5
<1>7. ASSUME NEW i \in 1..Len(x) PROVE x[i] = y[i]
  <2>1. /\ i \in 1..Len(a) - k /\ i \in 1..Len(e) - 1 /\ i \in 1..Len(t) - k
        /\ k + i \in 1..Len(t) - 1
    BY <1>0, <1>1, <1>2, <1>4
  <2>2. x[i] = a[k + i] /\ a[k + i] = t[k + i]
    BY <2>1, <1>1, <1>4
  <2>3. y[i] = t[k + i]
    BY <2>1, <1>2, <1>5
  <2>4. QED
    BY <2>2, <2>3
<1>8. x \in Seq(S)
  BY <1>4 DEF ConText
<1>9. x = y
  BY <1>5, <1>6, <1>7, <1>8, SameSequence
<1>10. QED
  BY <1>9 DEF x, y, a, e

(* The actions.                                                            *)
LEMMA ClearKeepsCon == ConKept(clear_screen)
<1> DEFINE c == clear_screen
           s == [p \in ConCells |-> Blank]
           R == << <<>> >>
<1>1. /\ c.screen = s /\ c.row = 0 /\ c.col = 0 /\ c.text = <<>> /\ c.reading = FALSE
      /\ c.shift = FALSE /\ c.buf = <<>> /\ c.start = 0 /\ c.slipped = FALSE
      /\ c = ConWith(c, c.screen, c.row, c.col, c.text)
  BY DEF clear_screen, ConWith
<1> HIDE DEF c
<1>2. TextRows(c.text) = R
  BY <1>1, NoRows
<1>3. Len(R) = 1 /\ R[1] = <<>> /\ Len(<<>>) = 0 /\ <<>> \in ConText /\ <<>> \in Seq(Glyph)
  BY DEF ConText
<1> HIDE DEF R
<1>4. TopRow(R) = 0
  BY <1>3, ConNumbers DEF TopRow
<1>5. s \in [ConCells -> Glyph] /\ \A p \in ConCells : s[p] = Blank
  BY DEF Glyph
<1> HIDE DEF s
<1>6. ASSUME NEW p \in ConCells PROVE RowCell(R, 0 + p[1] + 1, p[2]) = Blank
  <2>1. p[1] \in Nat /\ p[2] \in Nat
    BY CellPair
  <2>2. ~(0 + p[1] + 1 <= 1 /\ p[2] < Len(R[0 + p[1] + 1]))
    <3>1. CASE p[1] = 0
      BY <3>1, <2>1, <1>3
    <3>2. CASE p[1] # 0
      BY <3>2, <2>1
    <3>3. QED
      BY <3>1, <3>2
  <2>3. QED
    BY <2>2, <1>3 DEF RowCell
<1>7. 0 = Len(R) - 0 - 1
  BY <1>3
<1>8. ShowsFrom(c, R, 0)
  BY <1>1, <1>3, <1>5, <1>6, <1>7 DEF ShowsFrom
<1>9. Shows(c)
  BY <1>1, <1>2, <1>3, <1>4, <1>8 DEF Shows, IsCon
<1>10. QED
  BY <1>1, <1>3, <1>9 DEF ConKept, c

LEMMA ConFacts ==
  ASSUME NEW c, ConKept(c)
  PROVE  /\ Shows(c) /\ IsCon(c) /\ IsConLine(c) /\ c.text \in ConText /\ Len(c.text) \in Nat
         /\ c.buf \in Seq(Glyph) /\ Len(c.buf) \in Nat
<1>1. Shows(c) /\ IsCon(c) /\ c.text \in ConText /\ c.buf \in Seq(Glyph)
  BY DEF ConKept, Shows, IsCon
<1>2. QED
  BY <1>1, IsLine DEF IsConLine, ConText

LEMMA PrintKeepsCon ==
  ASSUME ConKept(con), NEW g \in Glyph \cup {NL}, ConPrint(g)
  PROVE  ConKept(con')
<1>1. con' = kprint_char(con, g) /\ ~con.reading
  BY DEF ConPrint, kprint_char_color, putchar
<1>2. Shows(con') /\ SameLine(con', con)
  BY <1>1, KprintShows DEF ConKept
<1>3. QED
  BY <1>1, <1>2 DEF ConKept, SameLine

LEMMA ReadKeepsCon == ASSUME ConKept(con), sys_read_line PROVE ConKept(con')
<1>2. /\ Shows(con') /\ con'.text = con.text /\ con'.reading = TRUE /\ con'.shift = con.shift
      /\ con'.buf = <<>> /\ con'.start = Len(con.text) /\ con'.slipped = FALSE
  <2> DEFINE r == TRUE
             b == <<>>
             k == Len(con.text)
             l == FALSE
  <2>1. con' = Reread(con, r, b, k, l)
    BY DEF sys_read_line, Reread
  <2>2. IsConLine(con)
    BY ConFacts
  <2> HIDE DEF r, b, k, l
  <2>3. Reread(con, r, b, k, l) = ConLine(con, r, con.shift, b, k, l)
    BY <2>2, ReadChange
  <2>4. con' = ConLine(con, r, con.shift, b, k, l)
    BY <2>1, <2>3
  <2>5. Shows(con)
    BY ConFacts
  <2>6. /\ Shows(con') /\ con'.text = con.text /\ con'.reading = r /\ con'.shift = con.shift
        /\ con'.buf = b /\ con'.start = k /\ con'.slipped = l
    BY <2>4, <2>5, LineSet
  <2>7. QED
    BY <2>6 DEF r, b, k, l
<1>3. con.text \in ConText /\ Len(con.text) \in Nat
  BY ConFacts
<1>4. SubSeq(con.text, Len(con.text) + 1, Len(con.text)) = <<>>
  <2>1. Len(con.text) < Len(con.text) + 1 /\ Len(con.text) \in Int /\ Len(con.text) + 1 \in Int
    BY <1>3
  <2>2. QED
    BY <2>1, SubSeqEmpty
<1>5. EchoOf(con') = <<>>
  BY <1>2, <1>4 DEF EchoOf
<1>6. <<>> \in Seq(Glyph)
  OBVIOUS
<1>7. con.shift \in BOOLEAN
  BY DEF ConKept
<1>8. Len(con'.text) = Len(con.text) /\ con'.start \in Nat /\ con'.start <= Len(con'.text)
  BY <1>2, <1>3
<1>9. EchoOf(con') = con'.buf /\ con'.slipped = FALSE /\ con'.buf \in Seq(Glyph)
  BY <1>2, <1>5, <1>6
<1>10. QED
  BY <1>2, <1>7, <1>8, <1>9 DEF ConKept

LEMMA ShiftKeepsCon ==
  ASSUME ConKept(con), NEW down \in BOOLEAN, ConShift(down)
  PROVE  ConKept(con')
<1>1. con' = ConLine(con, con.reading, down, con.buf, con.start, con.slipped)
  BY ConFacts, LineChange DEF ConShift
<1>2. /\ Shows(con') /\ con'.text = con.text /\ con'.reading = con.reading /\ con'.shift = down
      /\ con'.buf = con.buf /\ con'.start = con.start /\ con'.slipped = con.slipped
  BY <1>1, ConFacts, LineSet
<1>3. QED
  BY <1>2 DEF ConKept, EchoOf

LEMMA TypeKeepsCon ==
  ASSUME ConKept(con), NEW sc \in {"A", "space"}, ConType(sc)
  PROVE  ConKept(con')
<1> DEFINE g == scancode_to_ascii(sc, con.shift)
           d == vga_putchar(con, g)
<1>1. g \in Glyph /\ g \in Glyph \cup {NL}
  <2>1. g # "none"
    BY DEF ConType
  <2>2. CASE sc = "A"
    <3>1. g = IF con.shift THEN "D" ELSE "a"
      BY <2>2 DEF scancode_to_ascii
    <3>2. QED
      BY <3>1 DEF Glyph
  <2>3. CASE sc = "space"
    <3>1. g = IF con.shift THEN Blank ELSE "none"
      BY <2>3 DEF scancode_to_ascii
    <3>2. QED
      BY <3>1, <2>1 DEF Glyph
  <2>4. QED
    BY <2>2, <2>3
<1>2. con' = [d EXCEPT !.buf = Append(d.buf, g)] /\ con.reading
  BY DEF ConType
<1> HIDE DEF g
<1>3. Shows(d) /\ SameLine(d, con) /\ d.text = Append(con.text, g)
  BY <1>1, ConFacts, KprintShows DEF vga_putchar
<1> HIDE DEF d
<1>4. IsConLine(d)
  BY <1>3, IsLine DEF Shows, IsConLine
<1>5. con' = ConLine(d, d.reading, d.shift, Append(d.buf, g), d.start, d.slipped)
  BY <1>2, <1>4, LineChange
<1>6. /\ Shows(con') /\ con'.text = d.text /\ con'.reading = d.reading /\ con'.shift = d.shift
      /\ con'.buf = Append(d.buf, g) /\ con'.start = d.start /\ con'.slipped = d.slipped
  <2> DEFINE b == Append(d.buf, g)
  <2>1. con' = ConLine(d, d.reading, d.shift, b, d.start, d.slipped)
    BY <1>5
  <2> HIDE DEF b
  <2>2. /\ Shows(con') /\ con'.text = d.text /\ con'.reading = d.reading /\ con'.shift = d.shift
        /\ con'.buf = b /\ con'.start = d.start /\ con'.slipped = d.slipped
    BY <2>1, <1>3, LineSet
  <2>3. QED
    BY <2>2 DEF b
<1>7. /\ con'.text = Append(con.text, g) /\ con'.reading = con.reading /\ con'.shift = con.shift
      /\ con'.buf = Append(con.buf, g) /\ con'.start = con.start /\ con'.slipped = con.slipped
  BY <1>3, <1>6 DEF SameLine
<1>8. /\ con.text \in ConText /\ Len(con.text) \in Nat /\ con.buf \in Seq(Glyph)
      /\ Len(con.buf) \in Nat
  BY ConFacts
<1>9. /\ con.start \in Nat /\ con.start <= Len(con.text)
      /\ IF con.slipped THEN Len(con.text) - con.start > Len(con.buf) ELSE EchoOf(con) = con.buf
      /\ con.reading \in BOOLEAN /\ con.shift \in BOOLEAN /\ con.slipped \in BOOLEAN
  BY <1>2 DEF ConKept
<1>10. Len(con'.text) = Len(con.text) + 1 /\ Len(con'.buf) = Len(con.buf) + 1 /\ con'.buf \in Seq(Glyph)
  BY <1>1, <1>7, <1>8 DEF ConText
<1>11. con'.start <= Len(con'.text)
  BY <1>7, <1>8, <1>9, <1>10
<1>12. con'.slipped => Len(con'.text) - con'.start > Len(con'.buf)
  BY <1>7, <1>8, <1>9, <1>10
<1>13. ~con'.slipped => EchoOf(con') = con'.buf
  <2>1. EchoOf(con') = Append(EchoOf(con), g)
    BY <1>1, <1>7, <1>8, <1>9, EchoGrows DEF EchoOf
  <2>2. QED
    BY <2>1, <1>7, <1>9
<1>14. QED
  BY <1>6, <1>7, <1>9, <1>10, <1>11, <1>12, <1>13 DEF ConKept

LEMMA BackspaceKeepsCon == ASSUME ConKept(con), ConBackspace PROVE ConKept(con')
<1> DEFINE d == VgaBackspace(vga_putchar(VgaBackspace(con), Blank))
           l == con.slipped \/ con.col = 0
<1>1. con' = [[d EXCEPT !.buf = Front(d.buf)] EXCEPT !.slipped = [d EXCEPT !.buf = Front(d.buf)].slipped \/ con.col = 0]
      /\ con.reading /\ con.buf # <<>>
  BY DEF ConBackspace
<1>2. Shows(d) /\ SameLine(d, con) /\ d.text = IF con.col = 0 THEN con.text ELSE Front(con.text)
  BY ConFacts, RubShows
<1> HIDE DEF d
<1>3. IsConLine(d)
  BY <1>2, IsLine DEF Shows, IsConLine
<1>4. [d EXCEPT !.buf = Front(d.buf)].slipped = d.slipped
  <2>1. [d EXCEPT !.buf = Front(d.buf)] = ConLine(d, d.reading, d.shift, Front(d.buf), d.start, d.slipped)
    BY <1>3, LineChange
  <2>2. QED
    BY <2>1, LineFields
<1>5. con' = ConLine(d, d.reading, d.shift, Front(d.buf), d.start, d.slipped \/ con.col = 0)
  <2> DEFINE b == Front(d.buf)
             m == d.slipped \/ con.col = 0
  <2>1. con' = [[d EXCEPT !.buf = b] EXCEPT !.slipped = m]
    BY <1>1, <1>4
  <2> HIDE DEF b, m
  <2>2. con' = ConLine(d, d.reading, d.shift, b, d.start, m)
    BY <2>1, <1>3, RubChange
  <2>3. QED
    BY <2>2 DEF b, m
<1>6. /\ Shows(con') /\ con'.text = d.text /\ con'.reading = d.reading /\ con'.shift = d.shift
      /\ con'.buf = Front(d.buf) /\ con'.start = d.start /\ con'.slipped = (d.slipped \/ con.col = 0)
  BY <1>2, <1>5, LineSet
<1>7. /\ con'.reading = con.reading /\ con'.shift = con.shift
      /\ con'.buf = Front(con.buf) /\ con'.start = con.start /\ con'.slipped = l
      /\ con'.text = IF con.col = 0 THEN con.text ELSE Front(con.text)
  BY <1>2, <1>6 DEF SameLine
<1>8. /\ con.text \in ConText /\ Len(con.text) \in Nat /\ con.buf \in Seq(Glyph)
      /\ Len(con.buf) \in Nat /\ Len(con.buf) >= 1
  BY <1>1, ConFacts, EmptySeq
<1>9. /\ con.start \in Nat /\ con.start <= Len(con.text)
      /\ IF con.slipped THEN Len(con.text) - con.start > Len(con.buf) ELSE EchoOf(con) = con.buf
      /\ con.reading \in BOOLEAN /\ con.shift \in BOOLEAN /\ con.slipped \in BOOLEAN
  BY <1>1 DEF ConKept
<1>10. Front(con.buf) \in Seq(Glyph) /\ Len(Front(con.buf)) = Len(con.buf) - 1
  BY <1>8, FrontOf
<1>11. Len(EchoOf(con)) = Len(con.text) - con.start
  BY <1>8, <1>9, EchoTyped DEF EchoOf
<1>12. Len(con.text) - con.start >= Len(con.buf) /\ con.start < Len(con.text) /\ Len(con.text) >= 1
  BY <1>8, <1>9, <1>11
<1>13. CASE con.col = 0
  <2>1. con'.slipped = TRUE /\ con'.text = con.text
    BY <1>7, <1>13
  <2>2. Len(con'.text) - con'.start > Len(con'.buf) /\ con'.start <= Len(con'.text)
    BY <2>1, <1>7, <1>8, <1>9, <1>10, <1>12
  <2>3. QED
    BY <2>1, <2>2, <1>6, <1>7, <1>9, <1>10 DEF ConKept
<1>14. CASE con.col # 0
  <2>1. con'.slipped = con.slipped /\ con'.text = Front(con.text)
    BY <1>7, <1>9, <1>14
  <2>2. Len(Front(con.text)) = Len(con.text) - 1
    BY <1>8, <1>12, FrontOf DEF ConText
  <2>3. con'.start <= Len(con'.text)
    BY <2>1, <2>2, <1>7, <1>8, <1>9, <1>12
  <2>4. con'.slipped => Len(con'.text) - con'.start > Len(con'.buf)
    BY <2>1, <2>2, <1>7, <1>8, <1>9, <1>10
  <2>5. ~con'.slipped => EchoOf(con') = con'.buf
    <3>1. EchoOf(con') = Front(EchoOf(con))
      BY <2>1, <1>7, <1>8, <1>9, <1>12, EchoShrinks DEF EchoOf
    <3>2. QED
      BY <3>1, <2>1, <1>7, <1>9
  <2>6. QED
    BY <2>1, <2>3, <2>4, <2>5, <1>6, <1>7, <1>9, <1>10 DEF ConKept
<1>15. QED
  BY <1>13, <1>14

LEMMA EnterKeepsCon == ASSUME ConKept(con), ConEnter PROVE ConKept(con')
<1> DEFINE d == vga_putchar(con, NL)
<1>1. Shows(d) /\ SameLine(d, con)
  BY ConFacts, KprintShows DEF vga_putchar
<1> DEFINE r == FALSE
           b == <<>>
           k == 0
           l == FALSE
<1>2. con' = Reread(d, r, b, k, l)
  BY DEF ConEnter, Reread
<1> HIDE DEF d, r, b, k, l
<1>3. IsConLine(d)
  BY <1>1, IsLine DEF Shows, IsConLine
<1>4. con' = ConLine(d, r, d.shift, b, k, l)
  <2>1. Reread(d, r, b, k, l) = ConLine(d, r, d.shift, b, k, l)
    BY <1>3, ReadChange
  <2>2. QED
    BY <2>1, <1>2
<1>5. /\ Shows(con') /\ con'.reading = r /\ con'.shift = d.shift /\ con'.buf = b
      /\ con'.slipped = l
  BY <1>1, <1>4, LineSet
<1>6. d.shift \in BOOLEAN /\ <<>> \in Seq(Glyph)
  BY <1>1 DEF SameLine, ConKept
<1>7. QED
  BY <1>5, <1>6 DEF ConKept, r, b, l

LEMMA ConSteps == [AsmNext]_asmVars => ConsoleNext \/ con' = clear_screen \/ UNCHANGED con
BY DEF AsmNext, PlayGame, DrawScreen, UseWire, UseTables, UseDisk, Reset, asmVars, screen

LEMMA NextKeepsCon == ConKept(con) /\ [AsmNext]_asmVars => ConKept(con')
<1> SUFFICES ASSUME ConKept(con), [AsmNext]_asmVars PROVE ConKept(con')
  OBVIOUS
<1>1. CASE con' = clear_screen
  BY <1>1, ClearKeepsCon
<1>2. CASE UNCHANGED con
  BY <1>2
<1>3. CASE ConsoleNext
  <2>1. CASE ConClear
    BY <2>1, ClearKeepsCon DEF ConClear
  <2>2. QED
    BY <2>1, <1>3, PrintKeepsCon, ReadKeepsCon, ShiftKeepsCon, TypeKeepsCon, BackspaceKeepsCon,
       EnterKeepsCon DEF ConsoleNext
<1>4. QED
  BY <1>1, <1>2, <1>3, ConSteps

LEMMA ConIsShown == ASSUME ConKept(con) PROVE ConsoleShows
<1> DEFINE R == TextRows(con.text)
           first == TopRow(R)
<1>1. ShowsFrom(con, R, first)
  BY DEF ConKept, Shows
<1>2. ScreenIsTail
  <2>1. con.screen = [p \in ConCells |-> RowCell(R, first + p[1] + 1, p[2])]
    <3> HIDE DEF R, first
    <3>1. QED
      BY <1>1 DEF ShowsFrom
  <2>2. con.row = Len(R) - first - 1 /\ con.col = Len(R[Len(R)])
    BY <1>1 DEF ShowsFrom
  <2>3. QED
    BY <2>1, <2>2 DEF ScreenIsTail, RowCell, TopRow, Last
<1>3. EchoInStep
  <2> SUFFICES ASSUME con.reading PROVE IF con.slipped THEN Len(EchoOf(con)) > Len(con.buf)
                                        ELSE EchoOf(con) = con.buf
    BY DEF EchoInStep, EchoOf
  <2>1. /\ con.start \in Nat /\ con.start <= Len(con.text)
        /\ IF con.slipped THEN Len(con.text) - con.start > Len(con.buf) ELSE EchoOf(con) = con.buf
    BY DEF ConKept
  <2>2. Len(EchoOf(con)) = Len(con.text) - con.start
    BY <2>1, ConFacts, EchoTyped DEF EchoOf
  <2>3. QED
    BY <2>1, <2>2
<1>4. QED
  BY <1>2, <1>3 DEF ConsoleShows

ConInv == ConKept(con)

(* Whatever mixture of wraps, newlines, scrolls, backspaces and lines read *)
(* led there, on a screen of any size the text console shows the last rows *)
(* of what was written with the cursor behind them, and the echo of a line *)
(* is what sys_read_line will return until a backspace slips at the left   *)
(* edge; from then on the screen shows more than the line holds.           *)
THEOREM ConsoleAlwaysShows == AsmSpec => []ConsoleShows
<1>1. AsmInit => ConInv
  BY ClearKeepsCon DEF AsmInit, ConsoleInit, ConInv
<1>2. ConInv /\ [AsmNext]_asmVars => ConInv'
  BY NextKeepsCon DEF ConInv
<1>3. ConInv => ConsoleShows
  BY ConIsShown DEF ConInv
<1>4. QED
  BY <1>1, <1>2, <1>3, PTL DEF AsmSpec
===============================================================================
