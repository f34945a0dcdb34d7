------------------------------ MODULE SaveManager ------------------------------
(***************************************************************************)
(* save_manager.c and the snapshots of pause_engine.c over the FAT12 files *)
(* of FatStorage.  The save manager remembers in RAM the name of the last  *)
(* backup, and it does so before plat_fs_write may fail; the disk survives *)
(* a power failure, the name does not.  backup_version and backup_size are *)
(* only printed and are left out.                                          *)
(***************************************************************************)
EXTENDS FatStorage

CONSTANTS
  BackupImage,    \* what save_manager_backup writes
  SnapshotImage   \* what pause_snapshot_save writes

ASSUME SavesAssumption == {BackupImage, SnapshotImage} \subseteq Files

(* name is backup_name.  The other fields are not part of the program and  *)
(* outlive the power: kept, the backup last reported written, until it is  *)
(* deleted, and intact, no write has been tried since.                     *)
VARIABLE saves

saveVars == <<data, dir, root, fs_ready, latest, failed, saves>>

NoName == <<"no", "name">>
NoBackup == [name |-> NoName, kept |-> {}, intact |-> FALSE]

(* save_manager_init *)
SavesInit == Init /\ saves = NoBackup

BadBackupResult(n, content) == TRUE    \* the result of the write is not looked at

(* What plat_fs_write has returned: 0 when all of it reached the disk.     *)
BackupResult(n, content) == fs_ready' /\ latest' = {[name |-> n, content |-> content]}

(* The operation went no further than the directory.                       *)
NothingStored == LoadFailed \/ Look

(* A backup that fails takes the place of the earlier one in backup_name.  *)
save_manager_backup(n) ==
  /\ PlatFsWrite(n, BackupImage)
  /\ \/ BackupResult(n, BackupImage) /\ saves' = [name |-> n, kept |-> {n}, intact |-> TRUE]
     \/ /\ ~BackupResult(n, BackupImage)
        /\ saves' = [saves EXCEPT !.name = n, !.intact = @ /\ NothingStored]

(* The name is taken over only when the file could be read.                *)
save_manager_restore(n) ==
  /\ PlatFsRead
  /\ \/ UNCHANGED saves                                  \* no file, or the read fails
     \/ /\ fs_ready' /\ FileContent(Loaded, data, n, MaxLen) # NotRead
        /\ saves' = [saves EXCEPT !.name = n]

save_manager_rollback == saves.name # NoName /\ save_manager_restore(saves.name)

WrittenOver == saves' = [saves EXCEPT !.intact = @ /\ NothingStored]

save_manager_clone(dest, src) == Copy(dest, src, MaxLen) /\ WrittenOver

(* pause_snapshot_save, pause_checkpoint_save *)
pause_snapshot_save(path) == PlatFsWrite(path, SnapshotImage) /\ WrittenOver

(* pause_snapshot_restore *)
pause_snapshot_restore == PlatFsRead /\ UNCHANGED saves

(* plat_fs_delete: a backup that is deleted is no longer expected.         *)
DeleteFile(n) ==
  /\ PlatFsDelete(n)
  /\ LET kept == {m \in saves.kept : FatNormalize(m) # FatNormalize(n)}
     IN  saves' = [saves EXCEPT !.kept = kept, !.intact = @ /\ kept # {}]

(* The power fails: backup_name is gone, what is on the disk is not.       *)
SavesPowerCycle == PowerCycle /\ saves' = [saves EXCEPT !.name = NoName]

SavesNext ==
  \/ PlatFsInit /\ UNCHANGED saves
  \/ pause_snapshot_restore \/ SavesPowerCycle \/ save_manager_rollback
  \/ save_manager_clone(Slot1, Slot0)
  \/ \E n \in Names : save_manager_backup(n) \/ save_manager_restore(n)
                        \/ pause_snapshot_save(n) \/ DeleteFile(n)

(* A backup that was reported written stays restorable by its name until   *)
(* it is deleted: after any snapshots, clones, later backups that fail,    *)
(* failed transfers, repairs and power failures the directory still leads  *)
(* to a file of that name.  And until something else is written the file   *)
(* is the backup, byte for byte, through deletes of other files, failed    *)
(* transfers and power failures, if it is no longer than the kernel whose  *)
(* chain it borrows.  After that nothing is claimed of what it holds:      *)
(* every file is written to the same clusters.                             *)
BackupRestorable ==
  \A n \in saves.kept :
    LET content == FileContent(Loaded, data, n, MaxLen) IN
    /\ content # NotRead
    /\ saves.intact /\ Len(BackupImage) <= KernelLen => content = BackupImage
===============================================================================
