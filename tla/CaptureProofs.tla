--------------------------- MODULE CaptureProofs ---------------------------
(***************************************************************************)
(* What module Capture guarantees for any number of processes, keys,       *)
(* requests, ids, observations and faults.                                 *)
(*                                                                         *)
(* The properties rest on one inductive invariant, IInv: the types and     *)
(* what an attempt knows of itself (TypeInv); that lock and transaction    *)
(* mean mutual exclusion (LockInv); that nobody else binds the key, sees   *)
(* the window or commits the id of an attempt that has passed its checks   *)
(* (KeyInv, IdInv); that bindings, rows and pending answers agree          *)
(* (BoundInv, AnswerInv); how far the two files of an attempt have got, on *)
(* disk and after a machine crash (FilesInv); and that no removal under    *)
(* way names a file of a committed prediction (TodoInv).                   *)
(*                                                                         *)
(* What is left of attempts that did not commit needs a second invariant   *)
(* on top of it, DInv, of the same files seen from the side of their       *)
(* removal: that a list of removals covers what is there, manifest last in *)
(* recovery (CleanInv), and that what could come back after a power cut is *)
(* named by a manifest that would come back with it (DurableInv).          *)
(***************************************************************************)
EXTENDS Capture, SequenceTheorems, TLAPS

(* A list of paths of one id is a list of directory entries. *)
LEMMA EntriesType ==
    ASSUME NEW q \in Pids, NEW paths \in Seq(Paths)
    PROVE  Entries(q, paths) \in Seq(Pids \X Paths)
  <1>1. PICK n \in Nat : paths \in [1..n -> Paths]
    BY SeqDef
  <1>2. Entries(q, paths) \in [1..n -> Pids \X Paths]
    BY <1>1 DEF Entries
  <1> QED
    BY <1>2, SeqDef

(* What recovery, finalize and rollback are given to unlink are entries.   *)
LEMMA ListsType ==
    ASSUME TypeOK, NEW q \in Pids
    PROVE  /\ RecoveryList(q) \in Seq(Pids \X Paths)
           /\ FinalizeList(q) \in Seq(Pids \X Paths)
           /\ \A p \in Procs : pid[p] \in Pids => RollbackList(p) \in Seq(Pids \X Paths)
  <1>1. /\ <<"record_temp", "snapshot_temp", "manifest">> \in Seq(Paths)
        /\ <<"record_temp", "snapshot_temp", "record", "snapshot", "manifest">> \in Seq(Paths)
        /\ <<"record">> \in Seq(Paths)
        /\ <<"snapshot">> \in Seq(Paths)
        /\ <<>> \in Seq(Paths)
    BY DEF Paths, RecordsDir, SnapshotsDir
  <1>2. RecoveryList(q) \in Seq(Pids \X Paths) /\ FinalizeList(q) \in Seq(Pids \X Paths)
    BY <1>1, EntriesType DEF RecoveryList, FinalizeList
  <1>3. ASSUME NEW p \in Procs, pid[p] \in Pids
        PROVE  RollbackList(p) \in Seq(Pids \X Paths)
    <2> DEFINE mid  == IF "record" \in Owned(p) THEN <<"record">> ELSE <<>>
               tail == IF "snapshot" \in Owned(p) THEN <<"snapshot">> ELSE <<>>
    <2>1. mid \in Seq(Paths) /\ tail \in Seq(Paths)
      BY <1>1
    <2>2. (<<"record_temp", "snapshot_temp", "manifest">> \o mid) \o tail \in Seq(Paths)
      BY <2>1, <1>1, ConcatProperties
    <2> QED
      BY <2>2, <1>3, EntriesType DEF RollbackList
  <1> QED
    BY <1>2, <1>3

----------------------------------------------------------------------------
(* Type correctness.  An attempt that has reached staging has an id, and   *)
(* only a capture, which has a request, has a key.                         *)

HasPid == {"stage", "commit", "doubt", "finalize", "rollback", "sync_snapshots"} \cup Staging

AttemptOK ==
    \A p \in Procs :
      /\ pc[p] \in HasPid => pid[p] \in Pids
      /\ key[p] # None => req[p] \in Reqs
      /\ key[p] # None => pid[p] \in Uuids \cup {None}
      /\ pc[p] \in {"lookup", "check", "allocate"} => key[p] # None
      /\ key[p] # None /\ ret[p] = "ok" => pid[p] \in Uuids
      /\ pc[p] = "begin" /\ key[p] = None => pid[p] \in Pids
      /\ pc[p] \in {"idle", "wait"} \cup (Looking \ {"stage"}) \cup {"recover"} => ret[p] = "none"

TypeInv == TypeOK /\ AttemptOK

(* What may survive a crash is typed when what is there is. *)
LEMMA UnsettledType ==
    ASSUME TypeOK, fs' \in [Pids -> [Paths -> Content]], Unsettled
    PROVE  survive' \in [Pids -> [Paths -> SUBSET Content]]
  BY DEF TypeOK, Unsettled

(* Nothing has happened yet: no attempt, no file, no row. *)
LEMMA TypeInit == Init => TypeInv
  BY NoneAssumption DEF Init, TypeInv, TypeOK, AttemptOK, Labels, Returns, Content, HasPid, Staging

(* Every step keeps every variable's type. *)
LEMMA TypeOKStep == TypeInv /\ [Next]_vars => TypeOK'
  <1> SUFFICES ASSUME TypeInv, [Next]_vars PROVE TypeOK'
    OBVIOUS
  <1> USE NoneAssumption DEF TypeInv, TypeOK, AttemptOK, HasPid, Labels, Locked, Go, Unsettled, disk, tables, attempt, history
  <1>1. ASSUME NEW p \in Procs, Enter(p) PROVE TypeOK'
    <2>1. PICK k \in Keys \cup {None}, r \in Reqs \cup {None}, q \in Pids \cup {None} :
            Begin(p, k, r, q)
      BY <1>1 DEF Enter, Capture, Write, Open, Pids
    <2> QED
      BY <2>1 DEF Begin
  <1>2. ASSUME NEW p \in Procs, AcquireLock(p) PROVE TypeOK'
    BY <1>2 DEF AcquireLock, Looking
  <1>3. ASSUME NEW p \in Procs, LockTimeout(p) PROVE TypeOK'
    BY <1>3 DEF LockTimeout, BackToIdle
  <1>4. ASSUME NEW p \in Procs, RecoverTmps(p) PROVE TypeOK'
    <2>1. fs' \in [Pids -> [Paths -> Content]]
      BY <1>4 DEF RecoverTmps, Content
    <2>2. survive' \in [Pids -> [Paths -> SUBSET Content]]
      BY <2>1, <1>4, UnsettledType DEF RecoverTmps, DiskStep, Cleaning
    <2> QED
      BY <2>1, <2>2, <1>4 DEF RecoverTmps, DiskStep, Cleaning
  <1>5. ASSUME NEW p \in Procs, RecoverManifest(p) PROVE TypeOK'
    <2>1. PICK q \in manifests[p] :
            /\ manifests' = [manifests EXCEPT ![p] = @ \ {q}]
            /\ todo' = [todo EXCEPT ![p] = RecoveryList(q)]
            /\ cleaned' = IF q \in predictions THEN cleaned ELSE cleaned \cup {q}
      BY <1>5 DEF RecoverManifest
    <2>2. q \in Pids /\ manifests[p] \ {q} \in SUBSET Pids
      BY <2>1
    <2>3. RecoveryList(q) \in Seq(Pids \X Paths)
      BY <2>2, ListsType
    <2>4. /\ manifests' \in [Procs -> SUBSET Pids] /\ cleaned' \subseteq Pids
          /\ todo' \in [Procs -> Seq(Pids \X Paths)]
      BY <2>1, <2>2, <2>3
    <2> QED
      BY <1>5, <2>4 DEF RecoverManifest
  <1>6. ASSUME NEW p \in Procs, RecoverDone(p) PROVE TypeOK'
    BY <1>6 DEF RecoverDone, EndWith, Looking, Returns
  <1>7. ASSUME NEW p \in Procs, BeginImmediate(p) PROVE TypeOK'
    BY <1>7 DEF BeginImmediate, Looking
  <1>8. ASSUME NEW p \in Procs, LookupMiss(p) PROVE TypeOK'
    BY <1>8 DEF LookupMiss, Looking
  <1>9. ASSUME NEW p \in Procs, LookupConflict(p) PROVE TypeOK'
    BY <1>9 DEF LookupConflict, EndWith, Returns
  <1>10. ASSUME NEW p \in Procs, LookupHit(p) PROVE TypeOK'
    BY <1>10 DEF LookupHit, ResultForRow, EndWith, Returns, Binding, Pids
  <1>11. ASSUME NEW p \in Procs, CheckFresh(p) PROVE TypeOK'
    BY <1>11 DEF CheckFresh, EndWith, Looking, Returns
  <1>12. ASSUME NEW p \in Procs, Allocate(p) PROVE TypeOK'
    BY <1>12 DEF Allocate, Looking, Pids
  <1>13. ASSUME NEW p \in Procs, StageDuplicate(p) PROVE TypeOK'
    BY <1>13 DEF StageDuplicate, ResultForRow, EndWith, Returns
  <1>14. ASSUME NEW p \in Procs, StageRefused(p) PROVE TypeOK'
    BY <1>14 DEF StageRefused, EndWith, Returns
  <1>15. ASSUME NEW p \in Procs, StageNew(p) PROVE TypeOK'
    BY <1>15 DEF StageNew, DiskStep, Staging
  <1>16. ASSUME NEW p \in Procs, Raise(p) PROVE TypeOK'
    BY <1>16 DEF Raise, EndWith, Returns
  <1>17. ASSUME NEW p \in Procs, WriteManifestTmp(p) PROVE TypeOK'
    BY <1>17 DEF WriteManifestTmp, DiskStep, Set, Sync, Content, Paths, SnapshotsDir, RecordsDir, Staging
  <1>18. ASSUME NEW p \in Procs, RenameManifest(p) PROVE TypeOK'
    <2>1. fs' \in [Pids -> [Paths -> Content]]
      BY <1>18 DEF RenameManifest, Content
    <2>2. survive' \in [Pids -> [Paths -> SUBSET Content]]
      BY <2>1, <1>18, UnsettledType DEF RenameManifest, DiskStep, Staging
    <2> QED
      BY <2>1, <2>2, <1>18 DEF RenameManifest, DiskStep, Staging
  <1>19. ASSUME NEW p \in Procs, SyncManifest(p) PROVE TypeOK'
    BY <1>19 DEF SyncManifest, DiskStep, Set, Sync, Content, Paths, SnapshotsDir, RecordsDir, Staging
  <1>20. ASSUME NEW p \in Procs, WriteSnapshotTemp(p) PROVE TypeOK'
    BY <1>20 DEF WriteSnapshotTemp, DiskStep, Set, Sync, Content, Paths, SnapshotsDir, RecordsDir, Staging
  <1>21. ASSUME NEW p \in Procs, WriteRecordTemp(p) PROVE TypeOK'
    BY <1>21 DEF WriteRecordTemp, DiskStep, Set, Sync, Content, Paths, SnapshotsDir, RecordsDir, Staging
  <1>22. ASSUME NEW p \in Procs, LinkSnapshot(p) PROVE TypeOK'
    BY <1>22 DEF LinkSnapshot, Link, DiskStep, Set, Content, Paths, SnapshotsDir, RecordsDir, Staging
  <1>23. ASSUME NEW p \in Procs, LinkRecord(p) PROVE TypeOK'
    <2>1. fs' \in [Pids -> [Paths -> Content]]
      BY <1>23 DEF LinkRecord, Link, Set, Content
    <2>2. survive' \in [Pids -> [Paths -> SUBSET Content]]
      BY <2>1, <1>23, UnsettledType DEF LinkRecord, Link, DiskStep, Set, Staging
    <2> QED
      BY <2>1, <2>2, <1>23 DEF LinkRecord, Link, DiskStep, Set, Staging
  <1>24. ASSUME NEW p \in Procs, SnapshotCollides(p) PROVE TypeOK'
    BY <1>24, ListsType DEF SnapshotCollides, LinkCollides, StartRollback, Staging, Cleaning, Returns
  <1>25. ASSUME NEW p \in Procs, RecordCollides(p) PROVE TypeOK'
    BY <1>25, ListsType DEF RecordCollides, LinkCollides, StartRollback, Staging, Cleaning, Returns
  <1>26. ASSUME NEW p \in Procs, FlagSnapshot(p) PROVE TypeOK'
    BY <1>26 DEF FlagSnapshot, Flag, DiskStep, Staging
  <1>27. ASSUME NEW p \in Procs, FlagRecord(p) PROVE TypeOK'
    BY <1>27 DEF FlagRecord, Flag, DiskStep, Staging
  <1>28. ASSUME NEW p \in Procs, UnlinkSnapshotTemp(p) PROVE TypeOK'
    BY <1>28 DEF UnlinkSnapshotTemp, UnlinkTemp, DiskStep, Set, Content, Paths, SnapshotsDir, RecordsDir, Staging
  <1>29. ASSUME NEW p \in Procs, UnlinkRecordTemp(p) PROVE TypeOK'
    BY <1>29 DEF UnlinkRecordTemp, UnlinkTemp, DiskStep, Set, Content, Paths, SnapshotsDir, RecordsDir, Staging
  <1>30. ASSUME NEW p \in Procs, SyncSnapshot(p) PROVE TypeOK'
    BY <1>30 DEF SyncSnapshot, SyncPublished, DiskStep, Sync, Content, Staging
  <1>31. ASSUME NEW p \in Procs, SyncRecord(p) PROVE TypeOK'
    BY <1>31 DEF SyncRecord, SyncPublished, DiskStep, Sync, Content, Staging
  <1>32. ASSUME NEW p \in Procs, Commit(p) PROVE TypeOK'
    BY <1>32, ListsType DEF Commit, CommitRows, Binding, Cleaning, Returns
  <1>33. ASSUME NEW p \in Procs, DoubtCommitted(p) PROVE TypeOK'
    BY <1>33, ListsType DEF DoubtCommitted, Cleaning
  <1>34. ASSUME NEW p \in Procs, DoubtUncommitted(p) PROVE TypeOK'
    BY <1>34, ListsType DEF DoubtUncommitted, StartRollback, Cleaning
  <1>35. ASSUME NEW p \in Procs, Remove(p) PROVE TypeOK'
    BY <1>35, HeadTailProperties DEF Remove, Set, Content
  <1>36. ASSUME NEW p \in Procs, SyncRecordsDir(p) PROVE TypeOK'
    BY <1>36 DEF SyncRecordsDir, Sync, Content
  <1>37. ASSUME NEW p \in Procs, SyncSnapshotsDir(p) PROVE TypeOK'
    BY <1>37 DEF SyncSnapshotsDir, Sync, Content
  <1>38. ASSUME NEW p \in Procs, Leave(p) PROVE TypeOK'
    BY <1>38 DEF Leave, BackToIdle, Returns
  <1>39. ASSUME NEW p \in Procs, StageRaises(p) PROVE TypeOK'
    <2>1. pid[p] \in Pids /\ RollbackList(p) \in Seq(Pids \X Paths)
      BY <1>39, ListsType DEF StageRaises
    <2> QED
      BY <2>1, <1>39 DEF StageRaises, StartRollback, Fault, Cleaning, Returns
  <1>40. ASSUME NEW p \in Procs, CommitLands(p) PROVE TypeOK'
    BY <1>40 DEF CommitLands, InDoubt, CommitRows, Fault, Binding, Returns
  <1>41. ASSUME NEW p \in Procs, CommitFails(p) PROVE TypeOK'
    BY <1>41 DEF CommitFails, InDoubt, Fault, Returns
  <1>42. ASSUME NEW p \in Procs, DoubtRaises(p) PROVE TypeOK'
    BY <1>42 DEF DoubtRaises, EndWith, Fault, Returns
  <1>43. ASSUME NEW p \in Procs, RemoveRaises(p) PROVE TypeOK'
    BY <1>43 DEF RemoveRaises, EndWith, TornBy, Fault, Returns
  <1>44. ASSUME NEW p \in Procs, Crash(p) PROVE TypeOK'
    BY <1>44 DEF Crash, BackToIdle, TornBy, Fault, Returns
  <1>45. ASSUME NEW q \in Pids, NEW x \in Artifacts, NEW c \in {"none", "foreign"}, Edit(q, x, c)
        PROVE  TypeOK'
    BY <1>45 DEF Edit, Set, Fault, Content, Artifacts, Paths, SnapshotsDir, RecordsDir
  <1>46. ASSUME NEW C \in SUBSET Cells, Touch(C) PROVE TypeOK'
    BY <1>46 DEF Touch
  <1>47. CASE MachineCrash
    <2>1. PICK after \in [Unsynced -> Content] :
            fs' = [q \in Pids |-> [x \in Paths |->
                     IF <<q, x>> \in Unsynced THEN after[<<q, x>>] ELSE fs[q][x]]]
      BY <1>47 DEF MachineCrash
    <2>2. ASSUME NEW q \in Pids, NEW x \in Paths
          PROVE  (IF <<q, x>> \in Unsynced THEN after[<<q, x>>] ELSE fs[q][x]) \in Content
      BY <2>1
    <2>3. fs' \in [Pids -> [Paths -> Content]]
      BY <2>1, <2>2
    <2>4. survive' \in [Pids -> [Paths -> SUBSET Content]]
      BY <2>3, <1>47 DEF MachineCrash
    <2>5. Revived \subseteq Pids /\ UNION {TornBy(p) : p \in Procs} \subseteq Pids
      <3>1. Revived \subseteq Pids
        BY DEF Revived
      <3>2. \A p \in Procs : TornBy(p) \subseteq Pids
        BY DEF TornBy
      <3> QED
        BY <3>1, <3>2
    <2> QED
      BY <2>3, <2>4, <2>5, <1>47 DEF MachineCrash, Fault, Returns
  <1>48. CASE UNCHANGED vars
    BY <1>48 DEF vars
  <1> HIDE DEF TypeInv, TypeOK, AttemptOK, disk, tables, attempt, history
  <1> QED
    BY <1>1, <1>2, <1>3, <1>4, <1>5, <1>6, <1>7, <1>8, <1>9, <1>10, <1>11, <1>12, <1>13, <1>14, <1>15, <1>16, <1>17, <1>18, <1>19, <1>20, <1>21, <1>22, <1>23, <1>24, <1>25, <1>26, <1>27, <1>28, <1>29, <1>30, <1>31, <1>32, <1>33, <1>34, <1>35, <1>36, <1>37, <1>38, <1>39, <1>40, <1>41, <1>42, <1>43, <1>44, <1>45, <1>46, <1>47, <1>48
    DEF Next, Progress, Recover, Select, Lookup, Stage, Publish, Finish, Faulty

(* Every step keeps what an attempt knows about itself. *)
LEMMA AttemptStep == TypeInv /\ [Next]_vars => AttemptOK'
  <1> SUFFICES ASSUME TypeInv, [Next]_vars PROVE AttemptOK'
    OBVIOUS
  <1> USE NoneAssumption DEF TypeInv, TypeOK, AttemptOK, HasPid, Looking, Staging, Go, tables, attempt, history
  <1>1. ASSUME NEW p \in Procs, Enter(p) PROVE AttemptOK'
    <2>1. PICK k \in Keys \cup {None}, r \in Reqs \cup {None}, q \in Pids \cup {None} :
            /\ Begin(p, k, r, q)
            /\ k # None => r \in Reqs /\ q = None
      BY <1>1 DEF Enter, Capture, Write, Open, Pids
    <2> QED
      BY <2>1 DEF Begin
  <1>2. ASSUME NEW p \in Procs, AcquireLock(p) PROVE AttemptOK'
    BY <1>2 DEF AcquireLock, Looking
  <1>3. ASSUME NEW p \in Procs, LockTimeout(p) PROVE AttemptOK'
    BY <1>3 DEF LockTimeout, BackToIdle
  <1>4. ASSUME NEW p \in Procs, RecoverTmps(p) PROVE AttemptOK'
    BY <1>4 DEF RecoverTmps, DiskStep, Content, Cleaning
  <1>5. ASSUME NEW p \in Procs, RecoverManifest(p) PROVE AttemptOK'
    <2>1. UNCHANGED <<pc, key, req, pid, ret>>
      BY <1>5 DEF RecoverManifest
    <2> QED
      BY <2>1
  <1>6. ASSUME NEW p \in Procs, RecoverDone(p) PROVE AttemptOK'
    <2>1. pc[p] = "recover" /\ ret[p] = "none" /\ UNCHANGED <<key, req, pid>>
      BY <1>6 DEF RecoverDone
    <2>2. CASE key[p] = None /\ pid[p] = None
      BY <1>6, <2>1, <2>2 DEF RecoverDone, EndWith
    <2>3. CASE ~(key[p] = None /\ pid[p] = None)
      BY <1>6, <2>1, <2>3 DEF RecoverDone
    <2> QED
      BY <2>2, <2>3
  <1>7. ASSUME NEW p \in Procs, BeginImmediate(p) PROVE AttemptOK'
    BY <1>7 DEF BeginImmediate, Looking
  <1>8. ASSUME NEW p \in Procs, LookupMiss(p) PROVE AttemptOK'
    BY <1>8 DEF LookupMiss, Looking
  <1>9. ASSUME NEW p \in Procs, LookupConflict(p) PROVE AttemptOK'
    BY <1>9 DEF LookupConflict, EndWith, Returns
  <1>10. ASSUME NEW p \in Procs, LookupHit(p) PROVE AttemptOK'
    BY <1>10 DEF LookupHit, ResultForRow, EndWith, Returns, Binding, Pids
  <1>11. ASSUME NEW p \in Procs, CheckFresh(p) PROVE AttemptOK'
    BY <1>11 DEF CheckFresh, EndWith, Looking, Returns
  <1>12. ASSUME NEW p \in Procs, Allocate(p) PROVE AttemptOK'
    BY <1>12 DEF Allocate, Looking, Pids
  <1>13. ASSUME NEW p \in Procs, StageDuplicate(p) PROVE AttemptOK'
    BY <1>13 DEF StageDuplicate, ResultForRow, EndWith, Returns
  <1>14. ASSUME NEW p \in Procs, StageRefused(p) PROVE AttemptOK'
    BY <1>14 DEF StageRefused, EndWith, Returns
  <1>15. ASSUME NEW p \in Procs, StageNew(p) PROVE AttemptOK'
    BY <1>15 DEF StageNew, DiskStep, Staging
  <1>16. ASSUME NEW p \in Procs, Raise(p) PROVE AttemptOK'
    BY <1>16 DEF Raise, EndWith, Returns
  <1>17. ASSUME NEW p \in Procs, WriteManifestTmp(p) PROVE AttemptOK'
    BY <1>17 DEF WriteManifestTmp, DiskStep, Set, Sync, Content, Paths, SnapshotsDir, RecordsDir, Staging
  <1>18. ASSUME NEW p \in Procs, RenameManifest(p) PROVE AttemptOK'
    BY <1>18 DEF RenameManifest, DiskStep, Set, Sync, Content, Paths, SnapshotsDir, RecordsDir, Staging
  <1>19. ASSUME NEW p \in Procs, SyncManifest(p) PROVE AttemptOK'
    BY <1>19 DEF SyncManifest, DiskStep, Set, Sync, Content, Paths, SnapshotsDir, RecordsDir, Staging
  <1>20. ASSUME NEW p \in Procs, WriteSnapshotTemp(p) PROVE AttemptOK'
    BY <1>20 DEF WriteSnapshotTemp, DiskStep, Set, Sync, Content, Paths, SnapshotsDir, RecordsDir, Staging
  <1>21. ASSUME NEW p \in Procs, WriteRecordTemp(p) PROVE AttemptOK'
    BY <1>21 DEF WriteRecordTemp, DiskStep, Set, Sync, Content, Paths, SnapshotsDir, RecordsDir, Staging
  <1>22. ASSUME NEW p \in Procs, LinkSnapshot(p) PROVE AttemptOK'
    BY <1>22 DEF LinkSnapshot, Link, DiskStep, Set, Content, Paths, SnapshotsDir, RecordsDir, Staging
  <1>23. ASSUME NEW p \in Procs, LinkRecord(p) PROVE AttemptOK'
    BY <1>23 DEF LinkRecord, Link, DiskStep, Set, Content, Paths, SnapshotsDir, RecordsDir, Staging
  <1>24. ASSUME NEW p \in Procs, SnapshotCollides(p) PROVE AttemptOK'
    BY <1>24 DEF SnapshotCollides, LinkCollides, StartRollback, Staging, Cleaning, Returns
  <1>25. ASSUME NEW p \in Procs, RecordCollides(p) PROVE AttemptOK'
    BY <1>25 DEF RecordCollides, LinkCollides, StartRollback, Staging, Cleaning, Returns
  <1>26. ASSUME NEW p \in Procs, FlagSnapshot(p) PROVE AttemptOK'
    BY <1>26 DEF FlagSnapshot, Flag, DiskStep, Staging
  <1>27. ASSUME NEW p \in Procs, FlagRecord(p) PROVE AttemptOK'
    BY <1>27 DEF FlagRecord, Flag, DiskStep, Staging
  <1>28. ASSUME NEW p \in Procs, UnlinkSnapshotTemp(p) PROVE AttemptOK'
    BY <1>28 DEF UnlinkSnapshotTemp, UnlinkTemp, DiskStep, Set, Content, Paths, SnapshotsDir, RecordsDir, Staging
  <1>29. ASSUME NEW p \in Procs, UnlinkRecordTemp(p) PROVE AttemptOK'
    BY <1>29 DEF UnlinkRecordTemp, UnlinkTemp, DiskStep, Set, Content, Paths, SnapshotsDir, RecordsDir, Staging
  <1>30. ASSUME NEW p \in Procs, SyncSnapshot(p) PROVE AttemptOK'
    BY <1>30 DEF SyncSnapshot, SyncPublished, DiskStep, Sync, Content, Staging
  <1>31. ASSUME NEW p \in Procs, SyncRecord(p) PROVE AttemptOK'
    BY <1>31 DEF SyncRecord, SyncPublished, DiskStep, Sync, Content, Staging
  <1>32. ASSUME NEW p \in Procs, Commit(p) PROVE AttemptOK'
    BY <1>32 DEF Commit, CommitRows, Binding, Cleaning, Returns
  <1>33. ASSUME NEW p \in Procs, DoubtCommitted(p) PROVE AttemptOK'
    BY <1>33 DEF DoubtCommitted, Cleaning
  <1>34. ASSUME NEW p \in Procs, DoubtUncommitted(p) PROVE AttemptOK'
    BY <1>34 DEF DoubtUncommitted, StartRollback, Cleaning
  <1>35. ASSUME NEW p \in Procs, Remove(p) PROVE AttemptOK'
    BY <1>35 DEF Remove, Set, Content
  <1>36. ASSUME NEW p \in Procs, SyncRecordsDir(p) PROVE AttemptOK'
    BY <1>36 DEF SyncRecordsDir, Sync, Content
  <1>37. ASSUME NEW p \in Procs, SyncSnapshotsDir(p) PROVE AttemptOK'
    BY <1>37 DEF SyncSnapshotsDir, Sync, Content
  <1>38. ASSUME NEW p \in Procs, Leave(p) PROVE AttemptOK'
    BY <1>38 DEF Leave, BackToIdle, Returns
  <1>39. ASSUME NEW p \in Procs, StageRaises(p) PROVE AttemptOK'
    BY <1>39 DEF StageRaises, StartRollback, Fault, Cleaning, Returns
  <1>40. ASSUME NEW p \in Procs, CommitLands(p) PROVE AttemptOK'
    BY <1>40 DEF CommitLands, InDoubt, CommitRows, Fault, Binding, Returns
  <1>41. ASSUME NEW p \in Procs, CommitFails(p) PROVE AttemptOK'
    BY <1>41 DEF CommitFails, InDoubt, Fault, Returns
  <1>42. ASSUME NEW p \in Procs, DoubtRaises(p) PROVE AttemptOK'
    BY <1>42 DEF DoubtRaises, EndWith, Fault, Returns
  <1>43. ASSUME NEW p \in Procs, RemoveRaises(p) PROVE AttemptOK'
    BY <1>43 DEF RemoveRaises, EndWith, TornBy, Fault, Returns
  <1>44. ASSUME NEW p \in Procs, Crash(p) PROVE AttemptOK'
    BY <1>44 DEF Crash, BackToIdle, TornBy, Fault, Returns
  <1>45. ASSUME NEW q \in Pids, NEW x \in Artifacts, NEW c \in {"none", "foreign"}, Edit(q, x, c)
        PROVE  AttemptOK'
    BY <1>45 DEF Edit, Set, Fault, Content, Artifacts, Paths, SnapshotsDir, RecordsDir
  <1>46. ASSUME NEW C \in SUBSET Cells, Touch(C) PROVE AttemptOK'
    BY <1>46 DEF Touch
  <1>47. CASE MachineCrash
    BY <1>47 DEF MachineCrash, Unsynced, Fault, Content, Returns
  <1>48. CASE UNCHANGED vars
    BY <1>48 DEF vars
  <1> HIDE DEF TypeInv, TypeOK, AttemptOK, disk, tables, attempt, history
  <1> QED
    BY <1>1, <1>2, <1>3, <1>4, <1>5, <1>6, <1>7, <1>8, <1>9, <1>10, <1>11, <1>12, <1>13, <1>14, <1>15, <1>16, <1>17, <1>18, <1>19, <1>20, <1>21, <1>22, <1>23, <1>24, <1>25, <1>26, <1>27, <1>28, <1>29, <1>30, <1>31, <1>32, <1>33, <1>34, <1>35, <1>36, <1>37, <1>38, <1>39, <1>40, <1>41, <1>42, <1>43, <1>44, <1>45, <1>46, <1>47, <1>48
    DEF Next, Progress, Recover, Select, Lookup, Stage, Publish, Finish, Faulty

(* The two halves together: TypeInv is inductive. *)
LEMMA TypeStep == TypeInv /\ [Next]_vars => TypeInv'
  BY TypeOKStep, AttemptStep DEF TypeInv


----------------------------------------------------------------------------
(* The inductive invariant behind the safety theorems.                     *)

(* Exactly the process that holds the ledger lock is in the critical       *)
(* section, and only it can be inside the registry's write transaction.    *)
LockInv ==
    \A p \in Procs :
      /\ pc[p] \in Locked <=> lock = p
      /\ pc[p] \in InTxn => txn = p
      /\ txn = p => pc[p] \in Locked

(* What an attempt learned before staging is still true when it commits:   *)
(* its key is unbound and its window fresh.                                *)
Chosen == {"stage", "commit"} \cup Staging

KeyInv ==
    \A p \in Procs :
      /\ pc[p] \in {"check", "allocate"} \cup Chosen /\ key[p] # None
           => captureRequests[key[p]] = None
      /\ pc[p] \in {"allocate"} \cup Chosen /\ key[p] # None
           => CellsOf[req[p]] \cap touchedWindows = {}

(* A capture commits an id nobody committed before, and a draft is no uuid. *)
IdInv ==
    /\ predictions \cap Uuids \subseteq allocated
    /\ \A p \in Procs :
         /\ key[p] # None /\ pc[p] \in Chosen => pid[p] \in allocated \ predictions
         /\ pc[p] \in Staging \cup {"commit", "rollback"} => pid[p] \notin predictions
         /\ key[p] = None => pid[p] \notin Uuids

(* A bound key names a committed prediction. *)
BoundInv == \A k \in Keys : captureRequests[k] # None => captureRequests[k].pid \in predictions

(* A process about to answer "ok" holds the prediction its key is bound to. *)
AnswerInv ==
    \A p \in Procs : key[p] # None /\ ret[p] = "ok"
        => captureRequests[key[p]] = [req |-> req[p], pid |-> pid[p]]

(* A file is placed when it is there, settled when a machine crash cannot  *)
(* take it away; what an editor changed is the editor's business.          *)
Placed(q, x)  == fs[q][x] = "own" \/ <<q, x>> \in edited
Settled(q, x) == (fs[q][x] = "own" /\ survive[q][x] = {"own"}) \/ <<q, x>> \in edited

FilesInv ==
    /\ \A q \in predictions, x \in Artifacts : Settled(q, x)
    /\ \A p \in Procs :
         /\ pc[p] \in {"snapshot_flag", "snapshot_unlink", "snapshot_sync"}
              => Placed(pid[p], "snapshot")
         /\ pc[p] \in {"record_link", "record_flag", "record_unlink", "record_sync", "commit"}
              => Settled(pid[p], "snapshot")
         /\ pc[p] \in {"record_flag", "record_unlink", "record_sync"} => Placed(pid[p], "record")
         /\ pc[p] = "commit" => Settled(pid[p], "record")

(* Nobody is about to unlink an artifact of a committed prediction.        *)
TodoInv ==
    \A p \in Procs :
      /\ pc[p] \notin Cleaning => todo[p] = <<>>
      /\ \A i \in DOMAIN todo[p] : todo[p][i][2] \in Artifacts => todo[p][i][1] \notin predictions

IInv == /\ TypeInv /\ LockInv /\ KeyInv /\ IdInv /\ BoundInv /\ AnswerInv
        /\ FilesInv /\ TodoInv

(* None is no process, key, request, id or binding. *)
LEMMA NoneIsNothing ==
    /\ None \notin Procs /\ None \notin Keys /\ None \notin Reqs
    /\ None \notin Pids /\ None \notin Uuids /\ None \notin Binding
  BY NoneAssumption DEF Pids

(* Every entry of a removal list belongs to one id. *)
LEMMA EntriesOf ==
    ASSUME NEW q, NEW paths, NEW i \in DOMAIN Entries(q, paths)
    PROVE  i \in DOMAIN paths /\ Entries(q, paths)[i] = <<q, paths[i]>>
  BY DEF Entries

(* The lists of recovery and finalize name the id they are for, and, for a *)
(* committed id, neither of its artifacts.                                 *)
LEMMA ListsName ==
    /\ \A q, i : i \in DOMAIN FinalizeList(q) => FinalizeList(q)[i][2] \notin Artifacts
    /\ \A q, i : i \in DOMAIN RecoveryList(q) =>
         RecoveryList(q)[i][1] = q /\ (q \in predictions => RecoveryList(q)[i][2] \notin Artifacts)
    /\ \A p, i : i \in DOMAIN RollbackList(p) => RollbackList(p)[i][1] = pid[p]
  <1>1. ASSUME NEW i \in DOMAIN <<"record_temp", "snapshot_temp", "manifest">>
        PROVE  <<"record_temp", "snapshot_temp", "manifest">>[i] \notin Artifacts
    BY DEF Artifacts
  <1>2. ASSUME NEW q, NEW i \in DOMAIN FinalizeList(q)
        PROVE  FinalizeList(q)[i][2] \notin Artifacts
    BY <1>1, EntriesOf DEF FinalizeList
  <1>3. ASSUME NEW q, NEW i \in DOMAIN RecoveryList(q)
        PROVE  RecoveryList(q)[i][1] = q /\ (q \in predictions => RecoveryList(q)[i][2] \notin Artifacts)
    <2>1. RecoveryList(q)[i][1] = q
      BY EntriesOf DEF RecoveryList
    <2>2. ASSUME q \in predictions PROVE RecoveryList(q)[i][2] \notin Artifacts
      BY <2>2, <1>1, EntriesOf DEF RecoveryList
    <2> QED
      BY <2>1, <2>2
  <1>4. ASSUME NEW p, NEW i \in DOMAIN RollbackList(p)
        PROVE  RollbackList(p)[i][1] = pid[p]
    BY EntriesOf DEF RollbackList
  <1> QED
    BY <1>2, <1>3, <1>4

(* What callers can see changes in three ways only: a commit, an answer,   *)
(* a run looking at data.                                                  *)

visible == <<predictions, captureRequests, touchedWindows, receipts>>

(* Only a commit, an answer and a run change what callers can see. *)
LEMMA VisibleStep ==
    ASSUME [Next]_vars
    PROVE  \/ UNCHANGED visible
           \/ \E p \in Procs : pc[p] = "commit" /\ CommitRows(p) /\ UNCHANGED receipts
           \/ \E p \in Procs : Leave(p)
           \/ \E C \in SUBSET Cells : Touch(C)
  <1> USE DEF visible, tables, history
  <1>1. ASSUME NEW p \in Procs, Enter(p) \/ AcquireLock(p) \/ LockTimeout(p) \/ Recover(p)
        PROVE  UNCHANGED visible
    BY <1>1 DEF Enter, Capture, Write, Open, Begin, AcquireLock, LockTimeout, Recover,
                RecoverTmps, RecoverManifest, RecoverDone, DiskStep
  <1>2. ASSUME NEW p \in Procs, Select(p)
        PROVE  UNCHANGED visible
    BY <1>2 DEF Select, BeginImmediate, Lookup, LookupMiss, LookupConflict, LookupHit, CheckFresh,
                Allocate, Stage, StageDuplicate, StageRefused, StageNew, Raise, DiskStep
  <1>3. ASSUME NEW p \in Procs, Publish(p)
        PROVE  UNCHANGED visible
    BY <1>3 DEF Publish, WriteManifestTmp, RenameManifest, SyncManifest, WriteSnapshotTemp,
                WriteRecordTemp, LinkSnapshot, FlagSnapshot, UnlinkSnapshotTemp, SyncSnapshot,
                LinkRecord, FlagRecord, UnlinkRecordTemp, SyncRecord, SnapshotCollides,
                RecordCollides, Link, LinkCollides, Flag, UnlinkTemp, SyncPublished,
                StartRollback, DiskStep
  <1>4. ASSUME NEW p \in Procs, DoubtCommitted(p) \/ DoubtUncommitted(p) \/ Remove(p)
                                \/ SyncRecordsDir(p) \/ SyncSnapshotsDir(p)
        PROVE  UNCHANGED visible
    BY <1>4 DEF DoubtCommitted, DoubtUncommitted, Remove, SyncRecordsDir, SyncSnapshotsDir,
                StartRollback
  <1>5. ASSUME NEW p \in Procs, StageRaises(p) \/ CommitFails(p) \/ DoubtRaises(p)
                                \/ RemoveRaises(p) \/ Crash(p)
        PROVE  UNCHANGED visible
    BY <1>5 DEF StageRaises, CommitFails, InDoubt, DoubtRaises, RemoveRaises, Crash, StartRollback
  <1>6. ASSUME NEW p \in Procs, Commit(p) \/ CommitLands(p)
        PROVE  pc[p] = "commit" /\ CommitRows(p) /\ UNCHANGED receipts
    BY <1>6 DEF Commit, CommitLands, InDoubt
  <1>7. ASSUME NEW q \in Pids, NEW x \in Artifacts, NEW c \in {"none", "foreign"}, Edit(q, x, c)
        PROVE  UNCHANGED visible
    BY <1>7 DEF Edit
  <1>8. MachineCrash => UNCHANGED visible
    BY DEF MachineCrash
  <1>9. UNCHANGED vars => UNCHANGED visible
    BY DEF vars
  <1> HIDE DEF visible, tables, history
  <1> QED
    BY <1>1, <1>2, <1>3, <1>4, <1>5, <1>6, <1>7, <1>8, <1>9 DEF Next, Progress, Finish, Faulty

(* The commit of a capture binds an unbound key to a fresh window and a    *)
(* new uuid; the commit of a draft binds nothing.                          *)
LEMMA CommitBinds ==
    ASSUME IInv, NEW p \in Procs, pc[p] = "commit", CommitRows(p)
    PROVE  /\ pid[p] \in Pids \ predictions
           /\ predictions' = predictions \cup {pid[p]}
           /\ UNCHANGED touchedWindows
           /\ key[p] = None => pid[p] \in DraftIds /\ UNCHANGED captureRequests
           /\ key[p] # None =>
                /\ key[p] \in Keys /\ req[p] \in Reqs /\ pid[p] \in Uuids
                /\ captureRequests[key[p]] = None
                /\ CellsOf[req[p]] \cap touchedWindows = {}
                /\ captureRequests' =
                     [captureRequests EXCEPT ![key[p]] = [req |-> req[p], pid |-> pid[p]]]
  <1>1. pid[p] \in Pids /\ pid[p] \notin predictions
    BY DEF IInv, TypeInv, AttemptOK, HasPid, IdInv
  <1>2. key[p] = None => pid[p] \notin Uuids
    BY DEF IInv, IdInv
  <1>3. key[p] # None => key[p] \in Keys /\ req[p] \in Reqs /\ pid[p] \in Uuids
    BY <1>1, NoneIsNothing DEF IInv, TypeInv, TypeOK, AttemptOK
  <1>4. key[p] # None => /\ captureRequests[key[p]] = None
                         /\ CellsOf[req[p]] \cap touchedWindows = {}
    BY DEF IInv, KeyInv, Chosen
  <1> QED
    BY <1>1, <1>2, <1>3, <1>4 DEF CommitRows, Pids

(* Rows and bindings are committed together. *)
LEMMA BoundStep == IInv /\ [Next]_vars => BoundInv'
  <1> SUFFICES ASSUME IInv, [Next]_vars PROVE BoundInv'
    OBVIOUS
  <1> USE DEF BoundInv
  <1>1. BoundInv /\ captureRequests \in [Keys -> Binding \cup {None}]
    BY DEF IInv, TypeInv, TypeOK
  <1>2. CASE UNCHANGED <<predictions, captureRequests>>
    BY <1>1, <1>2
  <1>3. ASSUME NEW p \in Procs, pc[p] = "commit", CommitRows(p)
        PROVE  BoundInv'
    <2>1. CASE key[p] = None
      BY <1>1, <1>3, <2>1, CommitBinds
    <2>2. CASE key[p] # None
      <3> DEFINE row == [req |-> req[p], pid |-> pid[p]]
      <3>1. /\ key[p] \in Keys /\ captureRequests[key[p]] = None
            /\ predictions' = predictions \cup {pid[p]}
            /\ pid[p] \notin predictions /\ pid[p] \in Uuids
            /\ captureRequests' = [captureRequests EXCEPT ![key[p]] = row]
            /\ row \in Binding /\ row # None
        BY <1>3, <2>2, CommitBinds, NoneIsNothing DEF Binding
      <3>2. captureRequests'[key[p]] = row /\ row.pid = pid[p]
        BY <1>1, <3>1
      <3>3. \A k \in Keys \ {key[p]} : captureRequests'[k] = captureRequests[k]
        BY <1>1, <3>1
      <3> HIDE DEF row
      <3> QED
        BY <1>1, <3>1, <3>2, <3>3
    <2> QED
      BY <2>1, <2>2
  <1> QED
    BY <1>2, <1>3, VisibleStep DEF visible, Leave, Touch, tables

(* Every step keeps the lock and the transaction exclusive: a process is   *)
(* in the critical section exactly when it holds the lock.                 *)
LEMMA LockStep == IInv /\ [Next]_vars => LockInv'
  <1> SUFFICES ASSUME IInv, [Next]_vars PROVE LockInv'
    OBVIOUS
  <1> USE NoneIsNothing DEF IInv, TypeInv, TypeOK, LockInv, disk, Locked, InTxn, Looking, Staging, Cleaning, Go, tables, attempt, history
  <1>1. ASSUME NEW p \in Procs, Enter(p) PROVE LockInv'
    <2>1. PICK k \in Keys \cup {None}, r \in Reqs \cup {None}, q \in Pids \cup {None} :
            Begin(p, k, r, q) /\ (k = None => q \notin Uuids)
      BY <1>1, IdsAssumption DEF Enter, Capture, Write, Open, Pids
    <2> QED
      BY <2>1 DEF Begin
  <1>2. ASSUME NEW p \in Procs, AcquireLock(p) PROVE LockInv'
    BY <1>2 DEF AcquireLock
  <1>3. ASSUME NEW p \in Procs, LockTimeout(p) PROVE LockInv'
    BY <1>3 DEF LockTimeout, BackToIdle
  <1>4. ASSUME NEW p \in Procs, RecoverTmps(p) PROVE LockInv'
    BY <1>4 DEF RecoverTmps, DiskStep
  <1>5. ASSUME NEW p \in Procs, RecoverManifest(p) PROVE LockInv'
    BY <1>5 DEF RecoverManifest
  <1>6. ASSUME NEW p \in Procs, RecoverDone(p) PROVE LockInv'
    BY <1>6 DEF RecoverDone, EndWith
  <1>7. ASSUME NEW p \in Procs, BeginImmediate(p) PROVE LockInv'
    BY <1>7 DEF BeginImmediate
  <1>8. ASSUME NEW p \in Procs, LookupMiss(p) PROVE LockInv'
    BY <1>8 DEF LookupMiss
  <1>9. ASSUME NEW p \in Procs, LookupConflict(p) PROVE LockInv'
    BY <1>9 DEF LookupConflict, EndWith
  <1>10. ASSUME NEW p \in Procs, LookupHit(p) PROVE LockInv'
    BY <1>10 DEF LookupHit, ResultForRow, EndWith
  <1>11. ASSUME NEW p \in Procs, CheckFresh(p) PROVE LockInv'
    BY <1>11 DEF CheckFresh, EndWith
  <1>12. ASSUME NEW p \in Procs, Allocate(p) PROVE LockInv'
    BY <1>12 DEF Allocate
  <1>13. ASSUME NEW p \in Procs, StageDuplicate(p) PROVE LockInv'
    BY <1>13 DEF StageDuplicate, ResultForRow, EndWith
  <1>14. ASSUME NEW p \in Procs, StageRefused(p) PROVE LockInv'
    BY <1>14 DEF StageRefused, EndWith
  <1>15. ASSUME NEW p \in Procs, StageNew(p) PROVE LockInv'
    BY <1>15 DEF StageNew, DiskStep
  <1>16. ASSUME NEW p \in Procs, Raise(p) PROVE LockInv'
    BY <1>16 DEF Raise, EndWith
  <1>17. ASSUME NEW p \in Procs, WriteManifestTmp(p) PROVE LockInv'
    BY <1>17 DEF WriteManifestTmp, DiskStep, Set, Sync
  <1>18. ASSUME NEW p \in Procs, RenameManifest(p) PROVE LockInv'
    BY <1>18 DEF RenameManifest, DiskStep, Set, Sync
  <1>19. ASSUME NEW p \in Procs, SyncManifest(p) PROVE LockInv'
    BY <1>19 DEF SyncManifest, DiskStep, Set, Sync
  <1>20. ASSUME NEW p \in Procs, WriteSnapshotTemp(p) PROVE LockInv'
    BY <1>20 DEF WriteSnapshotTemp, DiskStep, Set, Sync
  <1>21. ASSUME NEW p \in Procs, WriteRecordTemp(p) PROVE LockInv'
    BY <1>21 DEF WriteRecordTemp, DiskStep, Set, Sync
  <1>22. ASSUME NEW p \in Procs, LinkSnapshot(p) PROVE LockInv'
    BY <1>22 DEF LinkSnapshot, Link, DiskStep, Set
  <1>23. ASSUME NEW p \in Procs, LinkRecord(p) PROVE LockInv'
    BY <1>23 DEF LinkRecord, Link, DiskStep, Set
  <1>24. ASSUME NEW p \in Procs, SnapshotCollides(p) PROVE LockInv'
    BY <1>24 DEF SnapshotCollides, LinkCollides, StartRollback
  <1>25. ASSUME NEW p \in Procs, RecordCollides(p) PROVE LockInv'
    BY <1>25 DEF RecordCollides, LinkCollides, StartRollback
  <1>26. ASSUME NEW p \in Procs, FlagSnapshot(p) PROVE LockInv'
    BY <1>26 DEF FlagSnapshot, Flag, DiskStep
  <1>27. ASSUME NEW p \in Procs, FlagRecord(p) PROVE LockInv'
    BY <1>27 DEF FlagRecord, Flag, DiskStep
  <1>28. ASSUME NEW p \in Procs, UnlinkSnapshotTemp(p) PROVE LockInv'
    BY <1>28 DEF UnlinkSnapshotTemp, UnlinkTemp, DiskStep, Set
  <1>29. ASSUME NEW p \in Procs, UnlinkRecordTemp(p) PROVE LockInv'
    BY <1>29 DEF UnlinkRecordTemp, UnlinkTemp, DiskStep, Set
  <1>30. ASSUME NEW p \in Procs, SyncSnapshot(p) PROVE LockInv'
    BY <1>30 DEF SyncSnapshot, SyncPublished, DiskStep, Sync
  <1>31. ASSUME NEW p \in Procs, SyncRecord(p) PROVE LockInv'
    BY <1>31 DEF SyncRecord, SyncPublished, DiskStep, Sync
  <1>32. ASSUME NEW p \in Procs, Commit(p) PROVE LockInv'
    BY <1>32 DEF Commit, CommitRows
  <1>33. ASSUME NEW p \in Procs, DoubtCommitted(p) PROVE LockInv'
    BY <1>33 DEF DoubtCommitted
  <1>34. ASSUME NEW p \in Procs, DoubtUncommitted(p) PROVE LockInv'
    BY <1>34 DEF DoubtUncommitted, StartRollback
  <1>35. ASSUME NEW p \in Procs, Remove(p) PROVE LockInv'
    BY <1>35 DEF Remove, Set
  <1>36. ASSUME NEW p \in Procs, SyncRecordsDir(p) PROVE LockInv'
    BY <1>36 DEF SyncRecordsDir, Sync
  <1>37. ASSUME NEW p \in Procs, SyncSnapshotsDir(p) PROVE LockInv'
    BY <1>37 DEF SyncSnapshotsDir, Sync
  <1>38. ASSUME NEW p \in Procs, Leave(p) PROVE LockInv'
    BY <1>38 DEF Leave, BackToIdle
  <1>39. ASSUME NEW p \in Procs, StageRaises(p) PROVE LockInv'
    BY <1>39 DEF StageRaises, StartRollback, Fault
  <1>40. ASSUME NEW p \in Procs, CommitLands(p) PROVE LockInv'
    BY <1>40 DEF CommitLands, InDoubt, CommitRows, Fault
  <1>41. ASSUME NEW p \in Procs, CommitFails(p) PROVE LockInv'
    BY <1>41 DEF CommitFails, InDoubt, Fault
  <1>42. ASSUME NEW p \in Procs, DoubtRaises(p) PROVE LockInv'
    BY <1>42 DEF DoubtRaises, EndWith, Fault
  <1>43. ASSUME NEW p \in Procs, RemoveRaises(p) PROVE LockInv'
    BY <1>43 DEF RemoveRaises, EndWith, TornBy, Fault
  <1>44. ASSUME NEW p \in Procs, Crash(p) PROVE LockInv'
    BY <1>44 DEF Crash, BackToIdle, TornBy, Fault
  <1>45. ASSUME NEW q \in Pids, NEW x \in Artifacts, NEW c \in {"none", "foreign"}, Edit(q, x, c)
        PROVE  LockInv'
    BY <1>45 DEF Edit, Set, Fault
  <1>46. ASSUME NEW C \in SUBSET Cells, Touch(C) PROVE LockInv'
    BY <1>46 DEF Touch
  <1>47. CASE MachineCrash
    BY <1>47 DEF MachineCrash, Unsynced, Fault
  <1>48. CASE UNCHANGED vars
    BY <1>48 DEF vars
  <1> HIDE DEF IInv, TypeInv, TypeOK, AttemptOK, LockInv, KeyInv, IdInv, AnswerInv, BoundInv, disk, tables, attempt, history
  <1> QED
    BY <1>1, <1>2, <1>3, <1>4, <1>5, <1>6, <1>7, <1>8, <1>9, <1>10, <1>11, <1>12, <1>13, <1>14, <1>15, <1>16, <1>17, <1>18, <1>19, <1>20, <1>21, <1>22, <1>23, <1>24, <1>25, <1>26, <1>27, <1>28, <1>29, <1>30, <1>31, <1>32, <1>33, <1>34, <1>35, <1>36, <1>37, <1>38, <1>39, <1>40, <1>41, <1>42, <1>43, <1>44, <1>45, <1>46, <1>47, <1>48
    DEF Next, Progress, Recover, Select, Lookup, Stage, Publish, Finish, Faulty

(* Nobody binds the key or looks at the window of an attempt under way. *)
LEMMA KeyStep == IInv /\ [Next]_vars => KeyInv'
  <1> SUFFICES ASSUME IInv, [Next]_vars PROVE KeyInv'
    OBVIOUS
  <1> USE NoneIsNothing DEF IInv, TypeInv, TypeOK, AttemptOK, LockInv, KeyInv, Chosen, Locked, InTxn, Looking, Staging, Cleaning, Go, tables, attempt, history
  <1>1. ASSUME NEW p \in Procs, Enter(p) PROVE KeyInv'
    <2>1. PICK k \in Keys \cup {None}, r \in Reqs \cup {None}, q \in Pids \cup {None} :
            Begin(p, k, r, q) /\ (k = None => q \notin Uuids)
      BY <1>1, IdsAssumption DEF Enter, Capture, Write, Open, Pids
    <2> QED
      BY <2>1 DEF Begin
  <1>2. ASSUME NEW p \in Procs, AcquireLock(p) PROVE KeyInv'
    BY <1>2 DEF AcquireLock
  <1>3. ASSUME NEW p \in Procs, LockTimeout(p) PROVE KeyInv'
    BY <1>3 DEF LockTimeout, BackToIdle
  <1>4. ASSUME NEW p \in Procs, RecoverTmps(p) PROVE KeyInv'
    BY <1>4 DEF RecoverTmps, DiskStep
  <1>5. ASSUME NEW p \in Procs, RecoverManifest(p) PROVE KeyInv'
    BY <1>5 DEF RecoverManifest
  <1>6. ASSUME NEW p \in Procs, RecoverDone(p) PROVE KeyInv'
    BY <1>6 DEF RecoverDone, EndWith
  <1>7. ASSUME NEW p \in Procs, BeginImmediate(p) PROVE KeyInv'
    BY <1>7 DEF BeginImmediate
  <1>8. ASSUME NEW p \in Procs, LookupMiss(p) PROVE KeyInv'
    BY <1>8 DEF LookupMiss
  <1>9. ASSUME NEW p \in Procs, LookupConflict(p) PROVE KeyInv'
    BY <1>9 DEF LookupConflict, EndWith
  <1>10. ASSUME NEW p \in Procs, LookupHit(p) PROVE KeyInv'
    BY <1>10 DEF LookupHit, ResultForRow, EndWith
  <1>11. ASSUME NEW p \in Procs, CheckFresh(p) PROVE KeyInv'
    BY <1>11 DEF CheckFresh, EndWith
  <1>12. ASSUME NEW p \in Procs, Allocate(p) PROVE KeyInv'
    BY <1>12 DEF Allocate
  <1>13. ASSUME NEW p \in Procs, StageDuplicate(p) PROVE KeyInv'
    BY <1>13 DEF StageDuplicate, ResultForRow, EndWith
  <1>14. ASSUME NEW p \in Procs, StageRefused(p) PROVE KeyInv'
    BY <1>14 DEF StageRefused, EndWith
  <1>15. ASSUME NEW p \in Procs, StageNew(p) PROVE KeyInv'
    BY <1>15 DEF StageNew, DiskStep
  <1>16. ASSUME NEW p \in Procs, Raise(p) PROVE KeyInv'
    BY <1>16 DEF Raise, EndWith
  <1>17. ASSUME NEW p \in Procs, WriteManifestTmp(p) PROVE KeyInv'
    BY <1>17 DEF WriteManifestTmp, DiskStep, Set, Sync
  <1>18. ASSUME NEW p \in Procs, RenameManifest(p) PROVE KeyInv'
    BY <1>18 DEF RenameManifest, DiskStep, Set, Sync
  <1>19. ASSUME NEW p \in Procs, SyncManifest(p) PROVE KeyInv'
    BY <1>19 DEF SyncManifest, DiskStep, Set, Sync
  <1>20. ASSUME NEW p \in Procs, WriteSnapshotTemp(p) PROVE KeyInv'
    BY <1>20 DEF WriteSnapshotTemp, DiskStep, Set, Sync
  <1>21. ASSUME NEW p \in Procs, WriteRecordTemp(p) PROVE KeyInv'
    BY <1>21 DEF WriteRecordTemp, DiskStep, Set, Sync
  <1>22. ASSUME NEW p \in Procs, LinkSnapshot(p) PROVE KeyInv'
    BY <1>22 DEF LinkSnapshot, Link, DiskStep, Set
  <1>23. ASSUME NEW p \in Procs, LinkRecord(p) PROVE KeyInv'
    BY <1>23 DEF LinkRecord, Link, DiskStep, Set
  <1>24. ASSUME NEW p \in Procs, SnapshotCollides(p) PROVE KeyInv'
    BY <1>24 DEF SnapshotCollides, LinkCollides, StartRollback
  <1>25. ASSUME NEW p \in Procs, RecordCollides(p) PROVE KeyInv'
    BY <1>25 DEF RecordCollides, LinkCollides, StartRollback
  <1>26. ASSUME NEW p \in Procs, FlagSnapshot(p) PROVE KeyInv'
    BY <1>26 DEF FlagSnapshot, Flag, DiskStep
  <1>27. ASSUME NEW p \in Procs, FlagRecord(p) PROVE KeyInv'
    BY <1>27 DEF FlagRecord, Flag, DiskStep
  <1>28. ASSUME NEW p \in Procs, UnlinkSnapshotTemp(p) PROVE KeyInv'
    BY <1>28 DEF UnlinkSnapshotTemp, UnlinkTemp, DiskStep, Set
  <1>29. ASSUME NEW p \in Procs, UnlinkRecordTemp(p) PROVE KeyInv'
    BY <1>29 DEF UnlinkRecordTemp, UnlinkTemp, DiskStep, Set
  <1>30. ASSUME NEW p \in Procs, SyncSnapshot(p) PROVE KeyInv'
    BY <1>30 DEF SyncSnapshot, SyncPublished, DiskStep, Sync
  <1>31. ASSUME NEW p \in Procs, SyncRecord(p) PROVE KeyInv'
    BY <1>31 DEF SyncRecord, SyncPublished, DiskStep, Sync
  <1>32. ASSUME NEW p \in Procs, Commit(p) PROVE KeyInv'
    BY <1>32 DEF Commit, CommitRows
  <1>33. ASSUME NEW p \in Procs, DoubtCommitted(p) PROVE KeyInv'
    BY <1>33 DEF DoubtCommitted
  <1>34. ASSUME NEW p \in Procs, DoubtUncommitted(p) PROVE KeyInv'
    BY <1>34 DEF DoubtUncommitted, StartRollback
  <1>35. ASSUME NEW p \in Procs, Remove(p) PROVE KeyInv'
    BY <1>35 DEF Remove, Set
  <1>36. ASSUME NEW p \in Procs, SyncRecordsDir(p) PROVE KeyInv'
    BY <1>36 DEF SyncRecordsDir, Sync
  <1>37. ASSUME NEW p \in Procs, SyncSnapshotsDir(p) PROVE KeyInv'
    BY <1>37 DEF SyncSnapshotsDir, Sync
  <1>38. ASSUME NEW p \in Procs, Leave(p) PROVE KeyInv'
    BY <1>38 DEF Leave, BackToIdle
  <1>39. ASSUME NEW p \in Procs, StageRaises(p) PROVE KeyInv'
    BY <1>39 DEF StageRaises, StartRollback, Fault
  <1>40. ASSUME NEW p \in Procs, CommitLands(p) PROVE KeyInv'
    BY <1>40 DEF CommitLands, InDoubt, CommitRows, Fault
  <1>41. ASSUME NEW p \in Procs, CommitFails(p) PROVE KeyInv'
    BY <1>41 DEF CommitFails, InDoubt, Fault
  <1>42. ASSUME NEW p \in Procs, DoubtRaises(p) PROVE KeyInv'
    BY <1>42 DEF DoubtRaises, EndWith, Fault
  <1>43. ASSUME NEW p \in Procs, RemoveRaises(p) PROVE KeyInv'
    BY <1>43 DEF RemoveRaises, EndWith, TornBy, Fault
  <1>44. ASSUME NEW p \in Procs, Crash(p) PROVE KeyInv'
    BY <1>44 DEF Crash, BackToIdle, TornBy, Fault
  <1>45. ASSUME NEW q \in Pids, NEW x \in Artifacts, NEW c \in {"none", "foreign"}, Edit(q, x, c)
        PROVE  KeyInv'
    BY <1>45 DEF Edit, Set, Fault
  <1>46. ASSUME NEW C \in SUBSET Cells, Touch(C) PROVE KeyInv'
    BY <1>46 DEF Touch
  <1>47. CASE MachineCrash
    BY <1>47 DEF MachineCrash, Unsynced, Fault
  <1>48. CASE UNCHANGED vars
    BY <1>48 DEF vars
  <1> HIDE DEF IInv, TypeInv, TypeOK, AttemptOK, LockInv, KeyInv, IdInv, AnswerInv, BoundInv, disk, tables, attempt, history
  <1> QED
    BY <1>1, <1>2, <1>3, <1>4, <1>5, <1>6, <1>7, <1>8, <1>9, <1>10, <1>11, <1>12, <1>13, <1>14, <1>15, <1>16, <1>17, <1>18, <1>19, <1>20, <1>21, <1>22, <1>23, <1>24, <1>25, <1>26, <1>27, <1>28, <1>29, <1>30, <1>31, <1>32, <1>33, <1>34, <1>35, <1>36, <1>37, <1>38, <1>39, <1>40, <1>41, <1>42, <1>43, <1>44, <1>45, <1>46, <1>47, <1>48
    DEF Next, Progress, Recover, Select, Lookup, Stage, Publish, Finish, Faulty

(* Nobody commits the id of an attempt under way. *)
LEMMA IdStep == IInv /\ [Next]_vars => IdInv'
  <1> SUFFICES ASSUME IInv, [Next]_vars PROVE IdInv'
    OBVIOUS
  <1> USE NoneIsNothing DEF IInv, TypeInv, TypeOK, AttemptOK, LockInv, IdInv, HasPid, Chosen, Locked, InTxn, Looking, Staging, Cleaning, Go, tables, attempt, history
  <1>1. ASSUME NEW p \in Procs, Enter(p) PROVE IdInv'
    <2>1. PICK k \in Keys \cup {None}, r \in Reqs \cup {None}, q \in Pids \cup {None} :
            Begin(p, k, r, q) /\ (k = None => q \notin Uuids)
      BY <1>1, IdsAssumption DEF Enter, Capture, Write, Open, Pids
    <2> QED
      BY <2>1 DEF Begin
  <1>2. ASSUME NEW p \in Procs, AcquireLock(p) PROVE IdInv'
    BY <1>2 DEF AcquireLock
  <1>3. ASSUME NEW p \in Procs, LockTimeout(p) PROVE IdInv'
    BY <1>3 DEF LockTimeout, BackToIdle
  <1>4. ASSUME NEW p \in Procs, RecoverTmps(p) PROVE IdInv'
    BY <1>4 DEF RecoverTmps, DiskStep
  <1>5. ASSUME NEW p \in Procs, RecoverManifest(p) PROVE IdInv'
    BY <1>5 DEF RecoverManifest
  <1>6. ASSUME NEW p \in Procs, RecoverDone(p) PROVE IdInv'
    <2>1. CASE key[p] = None /\ pid[p] = None
      BY <2>1, <1>6 DEF RecoverDone, EndWith
    <2>2. CASE ~(key[p] = None /\ pid[p] = None)
      BY <2>2, <1>6 DEF RecoverDone
    <2> QED
      BY <2>1, <2>2
  <1>7. ASSUME NEW p \in Procs, BeginImmediate(p) PROVE IdInv'
    BY <1>7 DEF BeginImmediate
  <1>8. ASSUME NEW p \in Procs, LookupMiss(p) PROVE IdInv'
    BY <1>8 DEF LookupMiss
  <1>9. ASSUME NEW p \in Procs, LookupConflict(p) PROVE IdInv'
    BY <1>9 DEF LookupConflict, EndWith
  <1>10. ASSUME NEW p \in Procs, LookupHit(p) PROVE IdInv'
    BY <1>10 DEF LookupHit, ResultForRow, EndWith
  <1>11. ASSUME NEW p \in Procs, CheckFresh(p) PROVE IdInv'
    BY <1>11 DEF CheckFresh, EndWith
  <1>12. ASSUME NEW p \in Procs, Allocate(p) PROVE IdInv'
    BY <1>12 DEF Allocate
  <1>13. ASSUME NEW p \in Procs, StageDuplicate(p) PROVE IdInv'
    BY <1>13 DEF StageDuplicate, ResultForRow, EndWith
  <1>14. ASSUME NEW p \in Procs, StageRefused(p) PROVE IdInv'
    BY <1>14 DEF StageRefused, EndWith
  <1>15. ASSUME NEW p \in Procs, StageNew(p) PROVE IdInv'
    BY <1>15 DEF StageNew, DiskStep
  <1>16. ASSUME NEW p \in Procs, Raise(p) PROVE IdInv'
    BY <1>16 DEF Raise, EndWith
  <1>17. ASSUME NEW p \in Procs, WriteManifestTmp(p) PROVE IdInv'
    BY <1>17 DEF WriteManifestTmp, DiskStep, Set, Sync
  <1>18. ASSUME NEW p \in Procs, RenameManifest(p) PROVE IdInv'
    BY <1>18 DEF RenameManifest, DiskStep, Set, Sync
  <1>19. ASSUME NEW p \in Procs, SyncManifest(p) PROVE IdInv'
    BY <1>19 DEF SyncManifest, DiskStep, Set, Sync
  <1>20. ASSUME NEW p \in Procs, WriteSnapshotTemp(p) PROVE IdInv'
    BY <1>20 DEF WriteSnapshotTemp, DiskStep, Set, Sync
  <1>21. ASSUME NEW p \in Procs, WriteRecordTemp(p) PROVE IdInv'
    BY <1>21 DEF WriteRecordTemp, DiskStep, Set, Sync
  <1>22. ASSUME NEW p \in Procs, LinkSnapshot(p) PROVE IdInv'
    BY <1>22 DEF LinkSnapshot, Link, DiskStep, Set
  <1>23. ASSUME NEW p \in Procs, LinkRecord(p) PROVE IdInv'
    BY <1>23 DEF LinkRecord, Link, DiskStep, Set
  <1>24. ASSUME NEW p \in Procs, SnapshotCollides(p) PROVE IdInv'
    BY <1>24 DEF SnapshotCollides, LinkCollides, StartRollback
  <1>25. ASSUME NEW p \in Procs, RecordCollides(p) PROVE IdInv'
    BY <1>25 DEF RecordCollides, LinkCollides, StartRollback
  <1>26. ASSUME NEW p \in Procs, FlagSnapshot(p) PROVE IdInv'
    BY <1>26 DEF FlagSnapshot, Flag, DiskStep
  <1>27. ASSUME NEW p \in Procs, FlagRecord(p) PROVE IdInv'
    BY <1>27 DEF FlagRecord, Flag, DiskStep
  <1>28. ASSUME NEW p \in Procs, UnlinkSnapshotTemp(p) PROVE IdInv'
    BY <1>28 DEF UnlinkSnapshotTemp, UnlinkTemp, DiskStep, Set
  <1>29. ASSUME NEW p \in Procs, UnlinkRecordTemp(p) PROVE IdInv'
    BY <1>29 DEF UnlinkRecordTemp, UnlinkTemp, DiskStep, Set
  <1>30. ASSUME NEW p \in Procs, SyncSnapshot(p) PROVE IdInv'
    BY <1>30 DEF SyncSnapshot, SyncPublished, DiskStep, Sync
  <1>31. ASSUME NEW p \in Procs, SyncRecord(p) PROVE IdInv'
    BY <1>31 DEF SyncRecord, SyncPublished, DiskStep, Sync
  <1>32. ASSUME NEW p \in Procs, Commit(p) PROVE IdInv'
    BY <1>32 DEF Commit, CommitRows
  <1>33. ASSUME NEW p \in Procs, DoubtCommitted(p) PROVE IdInv'
    BY <1>33 DEF DoubtCommitted
  <1>34. ASSUME NEW p \in Procs, DoubtUncommitted(p) PROVE IdInv'
    BY <1>34 DEF DoubtUncommitted, StartRollback
  <1>35. ASSUME NEW p \in Procs, Remove(p) PROVE IdInv'
    BY <1>35 DEF Remove, Set
  <1>36. ASSUME NEW p \in Procs, SyncRecordsDir(p) PROVE IdInv'
    BY <1>36 DEF SyncRecordsDir, Sync
  <1>37. ASSUME NEW p \in Procs, SyncSnapshotsDir(p) PROVE IdInv'
    BY <1>37 DEF SyncSnapshotsDir, Sync
  <1>38. ASSUME NEW p \in Procs, Leave(p) PROVE IdInv'
    BY <1>38 DEF Leave, BackToIdle
  <1>39. ASSUME NEW p \in Procs, StageRaises(p) PROVE IdInv'
    BY <1>39 DEF StageRaises, StartRollback, Fault
  <1>40. ASSUME NEW p \in Procs, CommitLands(p) PROVE IdInv'
    BY <1>40 DEF CommitLands, InDoubt, CommitRows, Fault
  <1>41. ASSUME NEW p \in Procs, CommitFails(p) PROVE IdInv'
    BY <1>41 DEF CommitFails, InDoubt, Fault
  <1>42. ASSUME NEW p \in Procs, DoubtRaises(p) PROVE IdInv'
    BY <1>42 DEF DoubtRaises, EndWith, Fault
  <1>43. ASSUME NEW p \in Procs, RemoveRaises(p) PROVE IdInv'
    BY <1>43 DEF RemoveRaises, EndWith, TornBy, Fault
  <1>44. ASSUME NEW p \in Procs, Crash(p) PROVE IdInv'
    BY <1>44 DEF Crash, BackToIdle, TornBy, Fault
  <1>45. ASSUME NEW q \in Pids, NEW x \in Artifacts, NEW c \in {"none", "foreign"}, Edit(q, x, c)
        PROVE  IdInv'
    BY <1>45 DEF Edit, Set, Fault
  <1>46. ASSUME NEW C \in SUBSET Cells, Touch(C) PROVE IdInv'
    BY <1>46 DEF Touch
  <1>47. CASE MachineCrash
    BY <1>47 DEF MachineCrash, Unsynced, Fault
  <1>48. CASE UNCHANGED vars
    BY <1>48 DEF vars
  <1> HIDE DEF IInv, TypeInv, TypeOK, AttemptOK, LockInv, KeyInv, IdInv, AnswerInv, BoundInv, disk, tables, attempt, history
  <1> QED
    BY <1>1, <1>2, <1>3, <1>4, <1>5, <1>6, <1>7, <1>8, <1>9, <1>10, <1>11, <1>12, <1>13, <1>14, <1>15, <1>16, <1>17, <1>18, <1>19, <1>20, <1>21, <1>22, <1>23, <1>24, <1>25, <1>26, <1>27, <1>28, <1>29, <1>30, <1>31, <1>32, <1>33, <1>34, <1>35, <1>36, <1>37, <1>38, <1>39, <1>40, <1>41, <1>42, <1>43, <1>44, <1>45, <1>46, <1>47, <1>48
    DEF Next, Progress, Recover, Select, Lookup, Stage, Publish, Finish, Faulty

(* An answer stays right until it is given. *)
LEMMA AnswerStep == IInv /\ [Next]_vars => AnswerInv'
  <1> SUFFICES ASSUME IInv, [Next]_vars PROVE AnswerInv'
    OBVIOUS
  <1> USE NoneIsNothing DEF IInv, TypeInv, TypeOK, AttemptOK, LockInv, KeyInv, IdInv, AnswerInv, HasPid, Chosen, Locked, InTxn, Looking, Staging, Cleaning, Go, tables, attempt, history
  <1>1. ASSUME NEW p \in Procs, Enter(p) PROVE AnswerInv'
    <2>1. PICK k \in Keys \cup {None}, r \in Reqs \cup {None}, q \in Pids \cup {None} :
            Begin(p, k, r, q) /\ (k = None => q \notin Uuids)
      BY <1>1, IdsAssumption DEF Enter, Capture, Write, Open, Pids
    <2> QED
      BY <2>1 DEF Begin
  <1>2. ASSUME NEW p \in Procs, AcquireLock(p) PROVE AnswerInv'
    BY <1>2 DEF AcquireLock
  <1>3. ASSUME NEW p \in Procs, LockTimeout(p) PROVE AnswerInv'
    BY <1>3 DEF LockTimeout, BackToIdle
  <1>4. ASSUME NEW p \in Procs, RecoverTmps(p) PROVE AnswerInv'
    BY <1>4 DEF RecoverTmps, DiskStep
  <1>5. ASSUME NEW p \in Procs, RecoverManifest(p) PROVE AnswerInv'
    BY <1>5 DEF RecoverManifest
  <1>6. ASSUME NEW p \in Procs, RecoverDone(p) PROVE AnswerInv'
    BY <1>6 DEF RecoverDone, EndWith
  <1>7. ASSUME NEW p \in Procs, BeginImmediate(p) PROVE AnswerInv'
    BY <1>7 DEF BeginImmediate
  <1>8. ASSUME NEW p \in Procs, LookupMiss(p) PROVE AnswerInv'
    BY <1>8 DEF LookupMiss
  <1>9. ASSUME NEW p \in Procs, LookupConflict(p) PROVE AnswerInv'
    BY <1>9 DEF LookupConflict, EndWith
  <1>10. ASSUME NEW p \in Procs, LookupHit(p) PROVE AnswerInv'
    <2>1. captureRequests[key[p]] \in Binding
      BY <1>10 DEF LookupHit
    <2>2. captureRequests[key[p]] = [req |-> req[p], pid |-> captureRequests[key[p]].pid]
      BY <2>1, <1>10 DEF LookupHit, Binding
    <2> QED
      BY <2>2, <1>10 DEF LookupHit, ResultForRow, EndWith
  <1>11. ASSUME NEW p \in Procs, CheckFresh(p) PROVE AnswerInv'
    BY <1>11 DEF CheckFresh, EndWith
  <1>12. ASSUME NEW p \in Procs, Allocate(p) PROVE AnswerInv'
    <2>1. /\ pc[p] = "allocate" /\ UNCHANGED <<captureRequests, key, req, ret>>
          /\ \A o \in Procs \ {p} : pid'[o] = pid[o]
      BY <1>12 DEF Allocate
    <2>2. ret[p] = "none"
      BY <2>1
    <2> QED
      BY <2>1, <2>2
  <1>13. ASSUME NEW p \in Procs, StageDuplicate(p) PROVE AnswerInv'
    BY <1>13 DEF StageDuplicate, ResultForRow, EndWith
  <1>14. ASSUME NEW p \in Procs, StageRefused(p) PROVE AnswerInv'
    BY <1>14 DEF StageRefused, EndWith
  <1>15. ASSUME NEW p \in Procs, StageNew(p) PROVE AnswerInv'
    BY <1>15 DEF StageNew, DiskStep
  <1>16. ASSUME NEW p \in Procs, Raise(p) PROVE AnswerInv'
    BY <1>16 DEF Raise, EndWith
  <1>17. ASSUME NEW p \in Procs, WriteManifestTmp(p) PROVE AnswerInv'
    BY <1>17 DEF WriteManifestTmp, DiskStep, Set, Sync
  <1>18. ASSUME NEW p \in Procs, RenameManifest(p) PROVE AnswerInv'
    BY <1>18 DEF RenameManifest, DiskStep, Set, Sync
  <1>19. ASSUME NEW p \in Procs, SyncManifest(p) PROVE AnswerInv'
    BY <1>19 DEF SyncManifest, DiskStep, Set, Sync
  <1>20. ASSUME NEW p \in Procs, WriteSnapshotTemp(p) PROVE AnswerInv'
    BY <1>20 DEF WriteSnapshotTemp, DiskStep, Set, Sync
  <1>21. ASSUME NEW p \in Procs, WriteRecordTemp(p) PROVE AnswerInv'
    BY <1>21 DEF WriteRecordTemp, DiskStep, Set, Sync
  <1>22. ASSUME NEW p \in Procs, LinkSnapshot(p) PROVE AnswerInv'
    BY <1>22 DEF LinkSnapshot, Link, DiskStep, Set
  <1>23. ASSUME NEW p \in Procs, LinkRecord(p) PROVE AnswerInv'
    BY <1>23 DEF LinkRecord, Link, DiskStep, Set
  <1>24. ASSUME NEW p \in Procs, SnapshotCollides(p) PROVE AnswerInv'
    BY <1>24 DEF SnapshotCollides, LinkCollides, StartRollback
  <1>25. ASSUME NEW p \in Procs, RecordCollides(p) PROVE AnswerInv'
    BY <1>25 DEF RecordCollides, LinkCollides, StartRollback
  <1>26. ASSUME NEW p \in Procs, FlagSnapshot(p) PROVE AnswerInv'
    BY <1>26 DEF FlagSnapshot, Flag, DiskStep
  <1>27. ASSUME NEW p \in Procs, FlagRecord(p) PROVE AnswerInv'
    BY <1>27 DEF FlagRecord, Flag, DiskStep
  <1>28. ASSUME NEW p \in Procs, UnlinkSnapshotTemp(p) PROVE AnswerInv'
    BY <1>28 DEF UnlinkSnapshotTemp, UnlinkTemp, DiskStep, Set
  <1>29. ASSUME NEW p \in Procs, UnlinkRecordTemp(p) PROVE AnswerInv'
    BY <1>29 DEF UnlinkRecordTemp, UnlinkTemp, DiskStep, Set
  <1>30. ASSUME NEW p \in Procs, SyncSnapshot(p) PROVE AnswerInv'
    BY <1>30 DEF SyncSnapshot, SyncPublished, DiskStep, Sync
  <1>31. ASSUME NEW p \in Procs, SyncRecord(p) PROVE AnswerInv'
    BY <1>31 DEF SyncRecord, SyncPublished, DiskStep, Sync
  <1>32. ASSUME NEW p \in Procs, Commit(p) PROVE AnswerInv'
    <2>1. ASSUME NEW o \in Procs, o # p PROVE ret'[o] = "none"
      BY <2>1, <1>32 DEF Commit, Labels
    <2>2. key[p] # None => captureRequests'[key[p]] = [req |-> req[p], pid |-> pid[p]]
      BY <1>32 DEF Commit, CommitRows
    <2> QED
      BY <2>1, <2>2, <1>32 DEF Commit
  <1>33. ASSUME NEW p \in Procs, DoubtCommitted(p) PROVE AnswerInv'
    BY <1>33 DEF DoubtCommitted
  <1>34. ASSUME NEW p \in Procs, DoubtUncommitted(p) PROVE AnswerInv'
    BY <1>34 DEF DoubtUncommitted, StartRollback
  <1>35. ASSUME NEW p \in Procs, Remove(p) PROVE AnswerInv'
    BY <1>35 DEF Remove, Set
  <1>36. ASSUME NEW p \in Procs, SyncRecordsDir(p) PROVE AnswerInv'
    BY <1>36 DEF SyncRecordsDir, Sync
  <1>37. ASSUME NEW p \in Procs, SyncSnapshotsDir(p) PROVE AnswerInv'
    BY <1>37 DEF SyncSnapshotsDir, Sync
  <1>38. ASSUME NEW p \in Procs, Leave(p) PROVE AnswerInv'
    BY <1>38 DEF Leave, BackToIdle
  <1>39. ASSUME NEW p \in Procs, StageRaises(p) PROVE AnswerInv'
    BY <1>39 DEF StageRaises, StartRollback, Fault
  <1>40. ASSUME NEW p \in Procs, CommitLands(p) PROVE AnswerInv'
    <2>1. ASSUME NEW o \in Procs, o # p PROVE ret'[o] = "none"
      BY <2>1, <1>40 DEF CommitLands, InDoubt, Fault, Labels
    <2>2. key[p] # None => captureRequests'[key[p]] = [req |-> req[p], pid |-> pid[p]]
      BY <1>40 DEF CommitLands, InDoubt, Fault, CommitRows
    <2> QED
      BY <2>1, <2>2, <1>40 DEF CommitLands, InDoubt, Fault
  <1>41. ASSUME NEW p \in Procs, CommitFails(p) PROVE AnswerInv'
    BY <1>41 DEF CommitFails, InDoubt, Fault
  <1>42. ASSUME NEW p \in Procs, DoubtRaises(p) PROVE AnswerInv'
    BY <1>42 DEF DoubtRaises, EndWith, Fault
  <1>43. ASSUME NEW p \in Procs, RemoveRaises(p) PROVE AnswerInv'
    BY <1>43 DEF RemoveRaises, EndWith, TornBy, Fault
  <1>44. ASSUME NEW p \in Procs, Crash(p) PROVE AnswerInv'
    BY <1>44 DEF Crash, BackToIdle, TornBy, Fault
  <1>45. ASSUME NEW q \in Pids, NEW x \in Artifacts, NEW c \in {"none", "foreign"}, Edit(q, x, c)
        PROVE  AnswerInv'
    BY <1>45 DEF Edit, Set, Fault
  <1>46. ASSUME NEW C \in SUBSET Cells, Touch(C) PROVE AnswerInv'
    BY <1>46 DEF Touch
  <1>47. CASE MachineCrash
    BY <1>47 DEF MachineCrash, Unsynced, Fault
  <1>48. CASE UNCHANGED vars
    BY <1>48 DEF vars
  <1> HIDE DEF IInv, TypeInv, TypeOK, AttemptOK, LockInv, KeyInv, IdInv, AnswerInv, BoundInv, disk, tables, attempt, history
  <1> QED
    BY <1>1, <1>2, <1>3, <1>4, <1>5, <1>6, <1>7, <1>8, <1>9, <1>10, <1>11, <1>12, <1>13, <1>14, <1>15, <1>16, <1>17, <1>18, <1>19, <1>20, <1>21, <1>22, <1>23, <1>24, <1>25, <1>26, <1>27, <1>28, <1>29, <1>30, <1>31, <1>32, <1>33, <1>34, <1>35, <1>36, <1>37, <1>38, <1>39, <1>40, <1>41, <1>42, <1>43, <1>44, <1>45, <1>46, <1>47, <1>48
    DEF Next, Progress, Recover, Select, Lookup, Stage, Publish, Finish, Faulty

(* Removal lists never come to name a committed artifact. *)
LEMMA TodoStep == IInv /\ [Next]_vars => TodoInv'
  <1> SUFFICES ASSUME IInv, [Next]_vars PROVE TodoInv'
    OBVIOUS
  <1> USE NoneIsNothing DEF IInv, TypeInv, TypeOK, AttemptOK, HasPid, LockInv, IdInv, TodoInv, Locked, InTxn, Looking, Staging, Cleaning, Go, tables, attempt, history
  <1>1. ASSUME NEW p \in Procs, Enter(p) PROVE TodoInv'
    <2>1. PICK k \in Keys \cup {None}, r \in Reqs \cup {None}, q \in Pids \cup {None} :
            Begin(p, k, r, q) /\ (k = None => q \notin Uuids)
      BY <1>1, IdsAssumption DEF Enter, Capture, Write, Open, Pids
    <2> QED
      BY <2>1 DEF Begin
  <1>2. ASSUME NEW p \in Procs, AcquireLock(p) PROVE TodoInv'
    BY <1>2 DEF AcquireLock
  <1>3. ASSUME NEW p \in Procs, LockTimeout(p) PROVE TodoInv'
    BY <1>3 DEF LockTimeout, BackToIdle
  <1>4. ASSUME NEW p \in Procs, RecoverTmps(p) PROVE TodoInv'
    BY <1>4 DEF RecoverTmps, DiskStep
  <1>5. ASSUME NEW p \in Procs, RecoverManifest(p) PROVE TodoInv'
    BY <1>5, ListsName DEF RecoverManifest
  <1>6. ASSUME NEW p \in Procs, RecoverDone(p) PROVE TodoInv'
    BY <1>6 DEF RecoverDone, EndWith
  <1>7. ASSUME NEW p \in Procs, BeginImmediate(p) PROVE TodoInv'
    BY <1>7 DEF BeginImmediate
  <1>8. ASSUME NEW p \in Procs, LookupMiss(p) PROVE TodoInv'
    BY <1>8 DEF LookupMiss
  <1>9. ASSUME NEW p \in Procs, LookupConflict(p) PROVE TodoInv'
    BY <1>9 DEF LookupConflict, EndWith
  <1>10. ASSUME NEW p \in Procs, LookupHit(p) PROVE TodoInv'
    BY <1>10 DEF LookupHit, ResultForRow, EndWith
  <1>11. ASSUME NEW p \in Procs, CheckFresh(p) PROVE TodoInv'
    BY <1>11 DEF CheckFresh, EndWith
  <1>12. ASSUME NEW p \in Procs, Allocate(p) PROVE TodoInv'
    BY <1>12 DEF Allocate
  <1>13. ASSUME NEW p \in Procs, StageDuplicate(p) PROVE TodoInv'
    BY <1>13 DEF StageDuplicate, ResultForRow, EndWith
  <1>14. ASSUME NEW p \in Procs, StageRefused(p) PROVE TodoInv'
    BY <1>14 DEF StageRefused, EndWith
  <1>15. ASSUME NEW p \in Procs, StageNew(p) PROVE TodoInv'
    BY <1>15 DEF StageNew, DiskStep
  <1>16. ASSUME NEW p \in Procs, Raise(p) PROVE TodoInv'
    BY <1>16 DEF Raise, EndWith
  <1>17. ASSUME NEW p \in Procs, WriteManifestTmp(p) PROVE TodoInv'
    BY <1>17 DEF WriteManifestTmp, DiskStep, Set, Sync
  <1>18. ASSUME NEW p \in Procs, RenameManifest(p) PROVE TodoInv'
    BY <1>18 DEF RenameManifest, DiskStep, Set, Sync
  <1>19. ASSUME NEW p \in Procs, SyncManifest(p) PROVE TodoInv'
    BY <1>19 DEF SyncManifest, DiskStep, Set, Sync
  <1>20. ASSUME NEW p \in Procs, WriteSnapshotTemp(p) PROVE TodoInv'
    BY <1>20 DEF WriteSnapshotTemp, DiskStep, Set, Sync
  <1>21. ASSUME NEW p \in Procs, WriteRecordTemp(p) PROVE TodoInv'
    BY <1>21 DEF WriteRecordTemp, DiskStep, Set, Sync
  <1>22. ASSUME NEW p \in Procs, LinkSnapshot(p) PROVE TodoInv'
    BY <1>22 DEF LinkSnapshot, Link, DiskStep, Set
  <1>23. ASSUME NEW p \in Procs, LinkRecord(p) PROVE TodoInv'
    BY <1>23 DEF LinkRecord, Link, DiskStep, Set
  <1>24. ASSUME NEW p \in Procs, SnapshotCollides(p) PROVE TodoInv'
    BY <1>24, ListsName DEF SnapshotCollides, LinkCollides, StartRollback
  <1>25. ASSUME NEW p \in Procs, RecordCollides(p) PROVE TodoInv'
    BY <1>25, ListsName DEF RecordCollides, LinkCollides, StartRollback
  <1>26. ASSUME NEW p \in Procs, FlagSnapshot(p) PROVE TodoInv'
    BY <1>26 DEF FlagSnapshot, Flag, DiskStep
  <1>27. ASSUME NEW p \in Procs, FlagRecord(p) PROVE TodoInv'
    BY <1>27 DEF FlagRecord, Flag, DiskStep
  <1>28. ASSUME NEW p \in Procs, UnlinkSnapshotTemp(p) PROVE TodoInv'
    BY <1>28 DEF UnlinkSnapshotTemp, UnlinkTemp, DiskStep, Set
  <1>29. ASSUME NEW p \in Procs, UnlinkRecordTemp(p) PROVE TodoInv'
    BY <1>29 DEF UnlinkRecordTemp, UnlinkTemp, DiskStep, Set
  <1>30. ASSUME NEW p \in Procs, SyncSnapshot(p) PROVE TodoInv'
    BY <1>30 DEF SyncSnapshot, SyncPublished, DiskStep, Sync
  <1>31. ASSUME NEW p \in Procs, SyncRecord(p) PROVE TodoInv'
    BY <1>31 DEF SyncRecord, SyncPublished, DiskStep, Sync
  <1>32. ASSUME NEW p \in Procs, Commit(p) PROVE TodoInv'
    <2>1. ASSUME NEW o \in Procs, o # p PROVE todo'[o] = <<>> /\ pc'[o] \notin Cleaning
      BY <2>1, <1>32 DEF Commit
    <2>2. todo'[p] = FinalizeList(pid[p]) /\ pc'[p] \in Cleaning
      BY <1>32 DEF Commit
    <2> QED
      BY <2>1, <2>2, ListsName
  <1>33. ASSUME NEW p \in Procs, DoubtCommitted(p) PROVE TodoInv'
    BY <1>33, ListsName DEF DoubtCommitted
  <1>34. ASSUME NEW p \in Procs, DoubtUncommitted(p) PROVE TodoInv'
    BY <1>34, ListsName DEF DoubtUncommitted, StartRollback
  <1>35. ASSUME NEW p \in Procs, Remove(p) PROVE TodoInv'
    BY <1>35 DEF Remove, Set
  <1>36. ASSUME NEW p \in Procs, SyncRecordsDir(p) PROVE TodoInv'
    BY <1>36 DEF SyncRecordsDir, Sync
  <1>37. ASSUME NEW p \in Procs, SyncSnapshotsDir(p) PROVE TodoInv'
    BY <1>37 DEF SyncSnapshotsDir, Sync
  <1>38. ASSUME NEW p \in Procs, Leave(p) PROVE TodoInv'
    BY <1>38 DEF Leave, BackToIdle
  <1>39. ASSUME NEW p \in Procs, StageRaises(p) PROVE TodoInv'
    BY <1>39, ListsName DEF StageRaises, StartRollback, Fault
  <1>40. ASSUME NEW p \in Procs, CommitLands(p) PROVE TodoInv'
    BY <1>40 DEF CommitLands, InDoubt, CommitRows, Fault
  <1>41. ASSUME NEW p \in Procs, CommitFails(p) PROVE TodoInv'
    BY <1>41 DEF CommitFails, InDoubt, Fault
  <1>42. ASSUME NEW p \in Procs, DoubtRaises(p) PROVE TodoInv'
    BY <1>42 DEF DoubtRaises, EndWith, Fault
  <1>43. ASSUME NEW p \in Procs, RemoveRaises(p) PROVE TodoInv'
    BY <1>43 DEF RemoveRaises, EndWith, TornBy, Fault
  <1>44. ASSUME NEW p \in Procs, Crash(p) PROVE TodoInv'
    BY <1>44 DEF Crash, BackToIdle, TornBy, Fault
  <1>45. ASSUME NEW q \in Pids, NEW x \in Artifacts, NEW c \in {"none", "foreign"}, Edit(q, x, c)
        PROVE  TodoInv'
    BY <1>45 DEF Edit, Set, Fault
  <1>46. ASSUME NEW C \in SUBSET Cells, Touch(C) PROVE TodoInv'
    BY <1>46 DEF Touch
  <1>47. CASE MachineCrash
    BY <1>47 DEF MachineCrash, Unsynced, Fault
  <1>48. CASE UNCHANGED vars
    BY <1>48 DEF vars
  <1> HIDE DEF IInv, TypeInv, TypeOK, AttemptOK, LockInv, KeyInv, IdInv, AnswerInv, BoundInv, disk, tables, attempt, history, TodoInv
  <1> QED
    BY <1>1, <1>2, <1>3, <1>4, <1>5, <1>6, <1>7, <1>8, <1>9, <1>10, <1>11, <1>12, <1>13, <1>14, <1>15, <1>16, <1>17, <1>18, <1>19, <1>20, <1>21, <1>22, <1>23, <1>24, <1>25, <1>26, <1>27, <1>28, <1>29, <1>30, <1>31, <1>32, <1>33, <1>34, <1>35, <1>36, <1>37, <1>38, <1>39, <1>40, <1>41, <1>42, <1>43, <1>44, <1>45, <1>46, <1>47, <1>48
    DEF Next, Progress, Recover, Select, Lookup, Stage, Publish, Finish, Faulty

(* Committed artifacts stay where they are. *)
LEMMA FilesStep == IInv /\ [Next]_vars => FilesInv'
  <1> SUFFICES ASSUME IInv, [Next]_vars PROVE FilesInv'
    OBVIOUS
  <1> USE NoneIsNothing DEF IInv, TypeInv, TypeOK, AttemptOK, HasPid, LockInv, IdInv, TodoInv, FilesInv, Placed, Settled, Artifacts, Paths, SnapshotsDir, RecordsDir, Unsettled, disk, Locked, InTxn, Looking, Staging, Cleaning, Go, tables, attempt, history
  <1>1. ASSUME NEW p \in Procs, Enter(p) PROVE FilesInv'
    <2>1. PICK k \in Keys \cup {None}, r \in Reqs \cup {None}, q \in Pids \cup {None} :
            Begin(p, k, r, q) /\ (k = None => q \notin Uuids)
      BY <1>1, IdsAssumption DEF Enter, Capture, Write, Open, Pids
    <2> QED
      BY <2>1 DEF Begin
  <1>2. ASSUME NEW p \in Procs, AcquireLock(p) PROVE FilesInv'
    BY <1>2 DEF AcquireLock
  <1>3. ASSUME NEW p \in Procs, LockTimeout(p) PROVE FilesInv'
    BY <1>3 DEF LockTimeout, BackToIdle
  <1>4. ASSUME NEW p \in Procs, RecoverTmps(p) PROVE FilesInv'
    BY <1>4 DEF RecoverTmps, DiskStep
  <1>5. ASSUME NEW p \in Procs, RecoverManifest(p) PROVE FilesInv'
    BY <1>5 DEF RecoverManifest
  <1>6. ASSUME NEW p \in Procs, RecoverDone(p) PROVE FilesInv'
    BY <1>6 DEF RecoverDone, EndWith
  <1>7. ASSUME NEW p \in Procs, BeginImmediate(p) PROVE FilesInv'
    BY <1>7 DEF BeginImmediate
  <1>8. ASSUME NEW p \in Procs, LookupMiss(p) PROVE FilesInv'
    BY <1>8 DEF LookupMiss
  <1>9. ASSUME NEW p \in Procs, LookupConflict(p) PROVE FilesInv'
    BY <1>9 DEF LookupConflict, EndWith
  <1>10. ASSUME NEW p \in Procs, LookupHit(p) PROVE FilesInv'
    BY <1>10 DEF LookupHit, ResultForRow, EndWith
  <1>11. ASSUME NEW p \in Procs, CheckFresh(p) PROVE FilesInv'
    BY <1>11 DEF CheckFresh, EndWith
  <1>12. ASSUME NEW p \in Procs, Allocate(p) PROVE FilesInv'
    BY <1>12 DEF Allocate
  <1>13. ASSUME NEW p \in Procs, StageDuplicate(p) PROVE FilesInv'
    BY <1>13 DEF StageDuplicate, ResultForRow, EndWith
  <1>14. ASSUME NEW p \in Procs, StageRefused(p) PROVE FilesInv'
    BY <1>14 DEF StageRefused, EndWith
  <1>15. ASSUME NEW p \in Procs, StageNew(p) PROVE FilesInv'
    BY <1>15 DEF StageNew, DiskStep
  <1>16. ASSUME NEW p \in Procs, Raise(p) PROVE FilesInv'
    BY <1>16 DEF Raise, EndWith
  <1>17. ASSUME NEW p \in Procs, WriteManifestTmp(p) PROVE FilesInv'
    BY <1>17 DEF WriteManifestTmp, DiskStep, Set, Sync
  <1>18. ASSUME NEW p \in Procs, RenameManifest(p) PROVE FilesInv'
    BY <1>18 DEF RenameManifest, DiskStep, Set, Sync
  <1>19. ASSUME NEW p \in Procs, SyncManifest(p) PROVE FilesInv'
    BY <1>19 DEF SyncManifest, DiskStep, Set, Sync
  <1>20. ASSUME NEW p \in Procs, WriteSnapshotTemp(p) PROVE FilesInv'
    BY <1>20 DEF WriteSnapshotTemp, DiskStep, Set, Sync
  <1>21. ASSUME NEW p \in Procs, WriteRecordTemp(p) PROVE FilesInv'
    BY <1>21 DEF WriteRecordTemp, DiskStep, Set, Sync
  <1>22. ASSUME NEW p \in Procs, LinkSnapshot(p) PROVE FilesInv'
    BY <1>22 DEF LinkSnapshot, Link, DiskStep, Set
  <1>23. ASSUME NEW p \in Procs, LinkRecord(p) PROVE FilesInv'
    BY <1>23 DEF LinkRecord, Link, DiskStep, Set
  <1>24. ASSUME NEW p \in Procs, SnapshotCollides(p) PROVE FilesInv'
    BY <1>24 DEF SnapshotCollides, LinkCollides, StartRollback
  <1>25. ASSUME NEW p \in Procs, RecordCollides(p) PROVE FilesInv'
    BY <1>25 DEF RecordCollides, LinkCollides, StartRollback
  <1>26. ASSUME NEW p \in Procs, FlagSnapshot(p) PROVE FilesInv'
    BY <1>26 DEF FlagSnapshot, Flag, DiskStep
  <1>27. ASSUME NEW p \in Procs, FlagRecord(p) PROVE FilesInv'
    BY <1>27 DEF FlagRecord, Flag, DiskStep
  <1>28. ASSUME NEW p \in Procs, UnlinkSnapshotTemp(p) PROVE FilesInv'
    BY <1>28 DEF UnlinkSnapshotTemp, UnlinkTemp, DiskStep, Set
  <1>29. ASSUME NEW p \in Procs, UnlinkRecordTemp(p) PROVE FilesInv'
    BY <1>29 DEF UnlinkRecordTemp, UnlinkTemp, DiskStep, Set
  <1>30. ASSUME NEW p \in Procs, SyncSnapshot(p) PROVE FilesInv'
    BY <1>30 DEF SyncSnapshot, SyncPublished, DiskStep, Sync
  <1>31. ASSUME NEW p \in Procs, SyncRecord(p) PROVE FilesInv'
    BY <1>31 DEF SyncRecord, SyncPublished, DiskStep, Sync
  <1>32. ASSUME NEW p \in Procs, Commit(p) PROVE FilesInv'
    BY <1>32 DEF Commit, CommitRows
  <1>33. ASSUME NEW p \in Procs, DoubtCommitted(p) PROVE FilesInv'
    BY <1>33 DEF DoubtCommitted
  <1>34. ASSUME NEW p \in Procs, DoubtUncommitted(p) PROVE FilesInv'
    BY <1>34 DEF DoubtUncommitted, StartRollback
  <1>35. ASSUME NEW p \in Procs, Remove(p) PROVE FilesInv'
    <2> DEFINE q == Head(todo[p])[1]
               x == Head(todo[p])[2]
    <2>1. q \in Pids /\ x \in Paths /\ (x \in Artifacts => q \notin predictions)
      <3>1. todo[p] \in Seq(Pids \X Paths) /\ todo[p] # <<>>
        BY <1>35 DEF Remove
      <3>2. Head(todo[p]) = todo[p][1] /\ 1 \in DOMAIN todo[p] /\ Head(todo[p]) \in Pids \X Paths
        BY <3>1
      <3> QED
        BY <3>2
    <2>2. ASSUME NEW r \in predictions, NEW y \in Artifacts PROVE Settled(r, y)'
      <3>1. fs'[r][y] = fs[r][y]
        BY <2>1, <1>35 DEF Remove, Set
      <3>2. survive'[r][y] = survive[r][y] \cup {fs'[r][y]}
        BY <1>35 DEF Remove, Set
      <3>3. edited' = edited /\ Settled(r, y)
        BY <1>35 DEF Remove
      <3> QED
        BY <3>1, <3>2, <3>3
    <2>3. ASSUME NEW o \in Procs, o # p PROVE pc'[o] \notin Locked
      BY <2>3, <1>35 DEF Remove
    <2> QED
      BY <2>2, <2>3, <1>35 DEF Remove
  <1>36. ASSUME NEW p \in Procs, SyncRecordsDir(p) PROVE FilesInv'
    BY <1>36 DEF SyncRecordsDir, Sync
  <1>37. ASSUME NEW p \in Procs, SyncSnapshotsDir(p) PROVE FilesInv'
    BY <1>37 DEF SyncSnapshotsDir, Sync
  <1>38. ASSUME NEW p \in Procs, Leave(p) PROVE FilesInv'
    BY <1>38 DEF Leave, BackToIdle
  <1>39. ASSUME NEW p \in Procs, StageRaises(p) PROVE FilesInv'
    BY <1>39 DEF StageRaises, StartRollback, Fault
  <1>40. ASSUME NEW p \in Procs, CommitLands(p) PROVE FilesInv'
    BY <1>40 DEF CommitLands, InDoubt, CommitRows, Fault
  <1>41. ASSUME NEW p \in Procs, CommitFails(p) PROVE FilesInv'
    BY <1>41 DEF CommitFails, InDoubt, Fault
  <1>42. ASSUME NEW p \in Procs, DoubtRaises(p) PROVE FilesInv'
    BY <1>42 DEF DoubtRaises, EndWith, Fault
  <1>43. ASSUME NEW p \in Procs, RemoveRaises(p) PROVE FilesInv'
    BY <1>43 DEF RemoveRaises, EndWith, TornBy, Fault
  <1>44. ASSUME NEW p \in Procs, Crash(p) PROVE FilesInv'
    BY <1>44 DEF Crash, BackToIdle, TornBy, Fault
  <1>45. ASSUME NEW q \in Pids, NEW x \in Artifacts, NEW c \in {"none", "foreign"}, Edit(q, x, c)
        PROVE  FilesInv'
    BY <1>45 DEF Edit, Set, Fault
  <1>46. ASSUME NEW C \in SUBSET Cells, Touch(C) PROVE FilesInv'
    BY <1>46 DEF Touch
  <1>47. CASE MachineCrash
    <2>1. ASSUME NEW r \in predictions, NEW y \in Artifacts PROVE Settled(r, y)'
      <3>1. CASE <<r, y>> \in edited
        BY <3>1, <1>47 DEF MachineCrash
      <3>2. CASE <<r, y>> \notin edited
        <4>1. r \in Pids /\ y \in Paths /\ fs[r][y] = "own" /\ survive[r][y] = {"own"}
          BY <3>2
        <4>2. <<r, y>> \notin Unsynced
          BY <4>1 DEF Unsynced
        <4>3. fs'[r][y] = "own"
          BY <4>1, <4>2, <1>47 DEF MachineCrash
        <4> QED
          BY <4>1, <4>3, <1>47 DEF MachineCrash
      <3> QED
        BY <3>1, <3>2
    <2> QED
      BY <2>1, <1>47 DEF MachineCrash
  <1>48. CASE UNCHANGED vars
    BY <1>48 DEF vars
  <1> HIDE DEF IInv, TypeInv, TypeOK, AttemptOK, LockInv, KeyInv, IdInv, AnswerInv, BoundInv, disk, tables, attempt, history, FilesInv
  <1> QED
    BY <1>1, <1>2, <1>3, <1>4, <1>5, <1>6, <1>7, <1>8, <1>9, <1>10, <1>11, <1>12, <1>13, <1>14, <1>15, <1>16, <1>17, <1>18, <1>19, <1>20, <1>21, <1>22, <1>23, <1>24, <1>25, <1>26, <1>27, <1>28, <1>29, <1>30, <1>31, <1>32, <1>33, <1>34, <1>35, <1>36, <1>37, <1>38, <1>39, <1>40, <1>41, <1>42, <1>43, <1>44, <1>45, <1>46, <1>47, <1>48
    DEF Next, Progress, Recover, Select, Lookup, Stage, Publish, Finish, Faulty

----------------------------------------------------------------------------
(* The inductive invariant holds when the ledger is created. *)
LEMMA IInvInit == Init => IInv
  <1> SUFFICES ASSUME Init PROVE IInv
    OBVIOUS
  <1>1. TypeInv
    BY TypeInit
  <1>2. LockInv /\ KeyInv /\ IdInv /\ BoundInv /\ AnswerInv
    BY NoneIsNothing DEF Init, LockInv, KeyInv, IdInv, BoundInv, AnswerInv, Locked, InTxn, Chosen,
                         Looking, Staging, Cleaning
  <1>3. FilesInv /\ TodoInv
    BY DEF Init, FilesInv, TodoInv, Cleaning
  <1> QED
    BY <1>1, <1>2, <1>3 DEF IInv

(* Every step keeps it: one lemma for each of its parts. *)
LEMMA IInvStep == IInv /\ [Next]_vars => IInv'
  BY TypeStep, LockStep, KeyStep, IdStep, BoundStep, AnswerStep, TodoStep, FilesStep DEF IInv

(* The writer's state has its type in every behaviour. *)
THEOREM TypeCorrect == Spec => []TypeOK
  <1>1. IInv => TypeOK
    BY DEF IInv, TypeInv
  <1> QED
    BY <1>1, IInvInit, IInvStep, PTL DEF Spec

(* A committed row always has both its files, through every failure of the *)
(* writer, crash of a process or of the machine, and recovery.             *)
THEOREM CommittedIsReadable == Spec => []CommittedHasArtifacts
  <1>1. IInv => CommittedHasArtifacts
    BY DEF IInv, FilesInv, Settled, CommittedHasArtifacts
  <1> QED
    BY <1>1, IInvInit, IInvStep, PTL DEF Spec

(* An answer names the prediction the caller's key is bound to.            *)
LEMMA LeaveAnswers ==
    ASSUME IInv, NEW p \in Procs, Leave(p)
    PROVE  /\ UNCHANGED <<predictions, captureRequests, touchedWindows>>
           /\ \/ UNCHANGED receipts
              \/ /\ key[p] \in Keys
                 /\ captureRequests[key[p]] # None
                 /\ captureRequests[key[p]] = [req |-> req[p], pid |-> pid[p]]
                 /\ receipts' = receipts \cup {[key |-> key[p], req |-> req[p], pid |-> pid[p]]}
  <1>1. UNCHANGED <<predictions, captureRequests, touchedWindows>>
    BY DEF Leave, tables
  <1>2. CASE ret[p] = "ok" /\ key[p] # None
    <2>1. captureRequests[key[p]] = [req |-> req[p], pid |-> pid[p]] /\ key[p] \in Keys
      BY <1>2 DEF IInv, AnswerInv, TypeInv, TypeOK
    <2>2. captureRequests[key[p]] # None
      <3>1. req[p] \in Reqs /\ pid[p] \in Uuids
        BY <1>2 DEF IInv, TypeInv, AttemptOK
      <3> QED
        BY <2>1, <3>1, NoneIsNothing DEF Binding
    <2> QED
      BY <1>1, <1>2, <2>1, <2>2 DEF Leave
  <1>3. CASE ~(ret[p] = "ok" /\ key[p] # None)
    BY <1>1, <1>3 DEF Leave
  <1> QED
    BY <1>2, <1>3

----------------------------------------------------------------------------
(* What a step that binds a key finds. *)
Fresh ==
  \A k \in Keys : captureRequests'[k] # captureRequests[k] =>
      /\ captureRequests[k] = None
      /\ CellsOf[captureRequests'[k].req] \cap touchedWindows = {}

(* No step binds a key that is bound, or on a window that was seen: the    *)
(* commit of begin_prediction still finds what check_fresh_windows found.  *)
LEMMA FreshStep == IInv /\ [Next]_vars => Fresh
  <1> SUFFICES ASSUME IInv, [Next]_vars PROVE Fresh
    OBVIOUS
  <1> USE DEF Fresh
  <1>1. CASE UNCHANGED visible
    BY <1>1 DEF visible
  <1>2. ASSUME NEW p \in Procs, pc[p] = "commit", CommitRows(p)
        PROVE  Fresh
    <2>1. CASE key[p] = None
      BY <2>1, <1>2, CommitBinds
    <2>2. CASE key[p] # None
      BY <2>2, <1>2, CommitBinds DEF IInv, TypeInv, TypeOK
    <2> QED
      BY <2>1, <2>2
  <1>3. ASSUME NEW p \in Procs, Leave(p) PROVE Fresh
    BY <1>3, LeaveAnswers
  <1>4. ASSUME NEW C \in SUBSET Cells, Touch(C) PROVE Fresh
    BY <1>4 DEF Touch
  <1> QED
    BY <1>1, <1>2, <1>3, <1>4, VisibleStep

(* A key is bound once, and only while its window is unseen. *)
THEOREM BindsOnceWhileFresh == Spec => BoundWhileFresh
  <1>1. IInv /\ [Next]_vars => [\A k \in Keys : captureRequests'[k] # captureRequests[k] =>
                                 /\ captureRequests[k] = None
                                 /\ CellsOf[captureRequests'[k].req] \cap touchedWindows = {}]_vars
    BY FreshStep DEF Fresh
  <1> QED
    BY <1>1, IInvInit, IInvStep, PTL DEF Spec, BoundWhileFresh

(* One key, one prediction, one answer: kept by every step. *)
LEMMA OnceStep == IInv /\ ExactlyOnce /\ [Next]_vars => ExactlyOnce'
  <1> SUFFICES ASSUME IInv, ExactlyOnce, [Next]_vars PROVE ExactlyOnce'
    OBVIOUS
  <1> USE DEF ExactlyOnce
  <1>1. CASE UNCHANGED visible
    BY <1>1 DEF visible
  <1>2. ASSUME NEW p \in Procs, pc[p] = "commit", CommitRows(p), UNCHANGED receipts
        PROVE  ExactlyOnce'
    <2>1. CASE key[p] = None
      <3>1. predictions' = predictions \cup {pid[p]} /\ pid[p] \notin Uuids
        BY <2>1, <1>2, CommitBinds, IdsAssumption
      <3>2. UNCHANGED <<captureRequests, receipts>>
        BY <2>1, <1>2, CommitBinds
      <3> QED
        BY <3>1, <3>2
    <2>2. CASE key[p] # None
      <3> DEFINE row == [req |-> req[p], pid |-> pid[p]]
      <3>1. /\ key[p] \in Keys /\ pid[p] \notin predictions
            /\ captureRequests[key[p]] = None
            /\ predictions' = predictions \cup {pid[p]}
            /\ captureRequests' = [captureRequests EXCEPT ![key[p]] = row]
        BY <2>2, <1>2, CommitBinds
      <3>2. row # None /\ row.pid = pid[p]
        BY <2>2, <1>2, CommitBinds, NoneIsNothing DEF Binding
      <3>3. captureRequests \in [Keys -> Binding \cup {None}]
        BY DEF IInv, TypeInv, TypeOK
      <3>4. \A k \in Keys : captureRequests'[k] = IF k = key[p] THEN row ELSE captureRequests[k]
        BY <3>1, <3>3
      <3>5. \A c \in receipts : captureRequests'[c.key] = [req |-> c.req, pid |-> c.pid]
        <4> SUFFICES ASSUME NEW c \in receipts
                     PROVE  captureRequests'[c.key] = [req |-> c.req, pid |-> c.pid]
          OBVIOUS
        <4>1. c.key \in Keys /\ c.req \in Reqs /\ c.pid \in Uuids
          BY DEF IInv, TypeInv, TypeOK
        <4>2. captureRequests[c.key] = [req |-> c.req, pid |-> c.pid]
          OBVIOUS
        <4>3. [req |-> c.req, pid |-> c.pid] # None
          BY <4>1, NoneIsNothing DEF Binding
        <4> QED
          BY <4>1, <4>2, <4>3, <3>1, <3>4
      <3>6. \A k \in Keys : captureRequests[k] # None => captureRequests[k].pid # pid[p]
        BY <3>1 DEF IInv, BoundInv
      <3>7. \A k, l \in Keys :
              captureRequests'[k] # None /\ captureRequests'[l] # None
                /\ captureRequests'[k].pid = captureRequests'[l].pid => k = l
        BY <3>2, <3>4, <3>6
      <3>8. \A q \in predictions' \cap Uuids :
              \E k \in Keys : captureRequests'[k] # None /\ captureRequests'[k].pid = q
        BY <3>1, <3>2, <3>4
      <3> QED
        BY <3>5, <3>7, <3>8, <1>2
    <2> QED
      BY <2>1, <2>2
  <1>3. ASSUME NEW p \in Procs, Leave(p) PROVE ExactlyOnce'
    <2>1. UNCHANGED <<predictions, captureRequests>>
      BY <1>3, LeaveAnswers
    <2>2. CASE UNCHANGED receipts
      BY <2>1, <2>2
    <2>3. CASE receipts' # receipts
      <3> DEFINE answer == [key |-> key[p], req |-> req[p], pid |-> pid[p]]
      <3>1. /\ captureRequests[answer.key] = [req |-> answer.req, pid |-> answer.pid]
            /\ receipts' = receipts \cup {answer}
        BY <2>3, <1>3, LeaveAnswers
      <3>2. \A c \in receipts' : captureRequests[c.key] = [req |-> c.req, pid |-> c.pid]
        BY <3>1
      <3> QED
        BY <3>2, <2>1
    <2> QED
      BY <2>2, <2>3
  <1>4. ASSUME NEW C \in SUBSET Cells, Touch(C) PROVE ExactlyOnce'
    BY <1>4 DEF Touch, history
  <1> HIDE DEF ExactlyOnce
  <1> QED
    BY <1>1, <1>2, <1>3, <1>4, VisibleStep

(* One key, one prediction, one answer. *)
THEOREM CapturedOnce == Spec => []ExactlyOnce
  <1>1. Init => ExactlyOnce
    BY DEF Init, ExactlyOnce
  <1> QED
    BY <1>1, OnceStep, IInvInit, IInvStep, PTL DEF Spec

(* Every behaviour of the writer, its failures, crashes and recoveries is  *)
(* a behaviour of the atomic ledger.                                       *)
THEOREM ImplementsAtomicLedger == Spec => RefinesAtomicLedger
  <1>1. Init => Atomic!AInit
    BY DEF Init, Atomic!AInit
  <1>2. IInv /\ [Next]_vars => [Atomic!ANext]_(Atomic!avars)
    <2> SUFFICES ASSUME IInv, [Next]_vars PROVE Atomic!ANext \/ UNCHANGED Atomic!avars
      OBVIOUS
    <2>1. CASE UNCHANGED visible
      BY <2>1 DEF visible, Atomic!avars
    <2>2. ASSUME NEW p \in Procs, pc[p] = "commit", CommitRows(p), UNCHANGED receipts
          PROVE  Atomic!ANext
      <3>1. CASE key[p] = None
        <4>1. pid[p] \in DraftIds /\ Atomic!WriteDraft(pid[p])
          BY <3>1, <2>2, CommitBinds DEF Atomic!WriteDraft
        <4> QED
          BY <4>1 DEF Atomic!ANext
      <3>2. CASE key[p] # None
        <4>1. key[p] \in Keys /\ req[p] \in Reqs /\ pid[p] \in Uuids
          BY <3>2, <2>2, CommitBinds
        <4>2. Atomic!Register(key[p], req[p], pid[p])
          BY <3>2, <2>2, CommitBinds DEF Atomic!Register
        <4> QED
          BY <4>1, <4>2 DEF Atomic!ANext
      <3> QED
        BY <3>1, <3>2
    <2>3. ASSUME NEW p \in Procs, Leave(p) PROVE Atomic!ANext \/ UNCHANGED Atomic!avars
      <3>1. CASE UNCHANGED receipts
        BY <3>1, <2>3, LeaveAnswers DEF Atomic!avars
      <3>2. CASE receipts' # receipts
        <4>1. key[p] \in Keys /\ Atomic!Answer(key[p])
          <5>1. /\ key[p] \in Keys
                /\ captureRequests[key[p]] # None
                /\ captureRequests[key[p]] = [req |-> req[p], pid |-> pid[p]]
                /\ receipts' = receipts \cup {[key |-> key[p], req |-> req[p], pid |-> pid[p]]}
                /\ UNCHANGED <<predictions, captureRequests, touchedWindows>>
            BY <3>2, <2>3, LeaveAnswers
          <5>2. captureRequests[key[p]].req = req[p] /\ captureRequests[key[p]].pid = pid[p]
            BY <5>1
          <5> QED
            BY <5>1, <5>2 DEF Atomic!Answer
        <4> QED
          BY <4>1 DEF Atomic!ANext
      <3> QED
        BY <3>1, <3>2
    <2>4. ASSUME NEW C \in SUBSET Cells, Touch(C) PROVE Atomic!ANext
      <3>1. Atomic!Observe(C)
        BY <2>4 DEF Touch, history, Atomic!Observe
      <3> QED
        BY <3>1 DEF Atomic!ANext
    <2> QED
      BY <2>1, <2>2, <2>3, <2>4, VisibleStep
  <1> QED
    BY <1>1, <1>2, IInvInit, IInvStep, PTL DEF Spec, RefinesAtomicLedger, Atomic!ASpec

----------------------------------------------------------------------------
(* Debris: the files of an attempt that did not commit, and temporary      *)
(* files.                                                                  *)

(* The entries of an id that may hold debris: all but committed artifacts. *)
Volatile(q) == Staged \ (IF q \in predictions THEN Artifacts ELSE {})

Temps == {"record_temp", "snapshot_temp"}

(* An entry may survive a machine crash as it is. *)
SurviveInv == \A q \in Pids, x \in Paths : fs[q][x] \in survive[q][x]

(* The temporary files of a committed prediction are gone for good. *)
TempsInv == \A q \in predictions, x \in Temps : survive[q][x] = {"none"}

(* The writer has linked neither file yet; has not linked the record yet;  *)
(* has a manifest that survives a machine crash.                           *)
BeforeSnapshot == {"manifest_tmp", "manifest_rename", "manifest_sync",
                   "snapshot_temp", "record_temp", "snapshot_link"}
BeforeRecord == BeforeSnapshot \cup {"snapshot_flag", "snapshot_unlink", "snapshot_sync",
                                    "record_link"}
Named == (Staging \ {"manifest_tmp", "manifest_rename", "manifest_sync"}) \cup {"commit", "doubt"}

(* What the writer has put on disk, by the place it has reached. *)
StagedInv ==
    \A p \in Procs :
      /\ pc[p] \in BeforeSnapshot => fs[pid[p]]["snapshot"] # "own"
      /\ pc[p] \in BeforeRecord => fs[pid[p]]["record"] # "own"
      /\ pc[p] = "manifest_sync" => fs[pid[p]]["manifest"] = "own"
      /\ pc[p] \in Named => survive[pid[p]]["manifest"] = {"own"}
      /\ pc[p] \in {"record_temp", "snapshot_link", "snapshot_flag", "snapshot_unlink"}
           => fs[pid[p]]["snapshot_temp"] = "own"
      /\ pc[p] \in {"snapshot_link", "snapshot_flag", "snapshot_unlink", "snapshot_sync",
                    "record_link", "record_flag", "record_unlink"}
           => fs[pid[p]]["record_temp"] = "own"
      /\ pc[p] = "snapshot_sync" => fs[pid[p]]["snapshot_temp"] = "none"
      /\ pc[p] = "record_sync" => fs[pid[p]]["record_temp"] = "none"
      /\ pc[p] \in {"record_link", "record_flag", "record_unlink", "record_sync", "commit", "doubt"}
           => survive[pid[p]]["snapshot_temp"] = {"none"}
      /\ pc[p] \in {"commit", "doubt"} => survive[pid[p]]["record_temp"] = {"none"}

(* A list has an element. *)
Has(s, x) == \E i \in DOMAIN s : s[i] = x

(* Everything of the id that is on disk will be removed. *)
Covers(list, q) == \A x \in Volatile(q) : fs[q][x] = "own" => Has(list, <<q, x>>)

(* A rollback lists every file of its attempt that is on disk. *)
RollsBack(p) ==
    /\ pid[p] \in cleaned
    /\ \A i \in DOMAIN todo[p] : todo[p][i][1] = pid[p]
    /\ Covers(todo[p], pid[p])

(* Recovery follows one manifest at a time and removes it last. *)
Recovers(p, q) ==
    /\ q \in cleaned \cup predictions
    /\ \A i \in DOMAIN todo[p] : /\ todo[p][i][1] = q
                                 /\ i < Len(todo[p]) => todo[p][i][2] # "manifest"
    /\ todo[p][Len(todo[p])][2] = "manifest"
    /\ fs[q]["manifest"] = "own"
    /\ Covers(todo[p], q)

(* A finalization removes entries of a committed prediction. *)
Finalizes(p) == /\ pid[p] \in predictions
                /\ \A i \in DOMAIN todo[p] : todo[p][i][1] = pid[p]

(* Nothing is left, and nothing of the records directory can come back. *)
Swept(q) == \A x \in Volatile(q) : /\ fs[q][x] # "own"
                                   /\ x \in RecordsDir => "own" \notin survive[q][x]

(* What a clean-up has still to do. *)
CleanInv ==
    \A p \in Procs :
      /\ pc[p] = "rollback" => RollsBack(p)
      /\ pc[p] = "recover" /\ todo[p] # <<>> => \E q \in Pids : Recovers(p, q)
      /\ pc[p] = "finalize" => Finalizes(p)
      /\ pc[p] = "sync_snapshots" => Swept(pid[p])

(* What may survive a machine crash is named by a manifest that survives   *)
(* it too, or its removal has begun.                                       *)
DurableInv ==
    \A q \in Pids, x \in Paths : x \in Volatile(q) /\ "own" \in survive[q][x] =>
        survive[q]["manifest"] = {"own"} \/ q \in cleaned \cup torn \cup undone

(* DebrisHasManifest, one entry at a time. *)
ManifestInv ==
    \A q \in Pids, x \in Paths : x \in Volatile(q) /\ fs[q][x] = "own" =>
        fs[q]["manifest"] = "own" \/ BeingRemoved(q) \/ q \in torn \cup undone

(* While a manifest names debris, it also survives a machine crash.        *)
LastingInv ==
    \A q \in Pids, x \in Paths :
        x \in Volatile(q) /\ fs[q][x] = "own" /\ fs[q]["manifest"] = "own" =>
            survive[q]["manifest"] = {"own"} \/ q \in torn \cup undone

(* The manifests a recovery has still to follow are there, and none of     *)
(* them is the one it follows now.                                         *)
PassInv ==
    \A p \in Procs : pc[p] = "recover" =>
        /\ \A q \in manifests[p] : fs[q]["manifest"] = "own"
        /\ \A i \in DOMAIN todo[p] : todo[p][i][1] \notin manifests[p]

DInv == /\ SurviveInv /\ TempsInv /\ StagedInv /\ PassInv /\ CleanInv
        /\ DurableInv /\ LastingInv /\ ManifestInv

(* Labels at which the writer has files of its own to answer for. *)
Watched == Staging \cup Cleaning \cup {"commit", "doubt", "sync_snapshots"}

(* A step that touches no file and no row, after which the process has     *)
(* none to answer for; a rollback it breaks off is torn.                   *)
Quiet(p) ==
    /\ UNCHANGED <<fs, survive, predictions, cleaned, undone>>
    /\ torn' = torn \cup TornBy(p)
    /\ \A o \in Procs \ {p} : /\ pc'[o] = pc[o] /\ pid'[o] = pid[o] /\ todo'[o] = todo[o]
                               /\ manifests'[o] = manifests[o]
    /\ pc'[p] \notin Watched

(* The steps that only look, wait, answer or fail are quiet: none of them  *)
(* changes a file or a row.                                                *)
LEMMA QuietSteps ==
    ASSUME IInv, NEW p \in Procs,
           \/ Enter(p) \/ AcquireLock(p) \/ LockTimeout(p) \/ RecoverDone(p) \/ BeginImmediate(p)
           \/ LookupMiss(p) \/ LookupConflict(p) \/ LookupHit(p) \/ CheckFresh(p) \/ Allocate(p)
           \/ StageDuplicate(p) \/ StageRefused(p) \/ Raise(p) \/ Leave(p)
           \/ DoubtRaises(p) \/ RemoveRaises(p) \/ Crash(p)
    PROVE  Quiet(p)
  <1> USE DEF IInv, TypeInv, TypeOK, Quiet, Watched, Locked, Looking, Staging, Cleaning, Go,
              disk, tables, attempt, history, TornBy
  <1>1. CASE Enter(p)
    BY <1>1 DEF Enter, Capture, Write, Open, Begin
  <1>2. CASE AcquireLock(p)
    BY <1>2 DEF AcquireLock
  <1>3. CASE LockTimeout(p)
    BY <1>3 DEF LockTimeout, BackToIdle
  <1>4. CASE RecoverDone(p)
    BY <1>4 DEF RecoverDone, EndWith
  <1>5. CASE BeginImmediate(p)
    BY <1>5 DEF BeginImmediate
  <1>6. CASE LookupMiss(p)
    BY <1>6 DEF LookupMiss
  <1>7. CASE LookupConflict(p)
    BY <1>7 DEF LookupConflict, EndWith
  <1>8. CASE LookupHit(p)
    BY <1>8 DEF LookupHit, ResultForRow, EndWith
  <1>9. CASE CheckFresh(p)
    BY <1>9 DEF CheckFresh, EndWith
  <1>10. CASE Allocate(p)
    BY <1>10 DEF Allocate
  <1>11. CASE StageDuplicate(p)
    BY <1>11 DEF StageDuplicate, ResultForRow, EndWith
  <1>12. CASE StageRefused(p)
    BY <1>12 DEF StageRefused, EndWith
  <1>13. CASE Raise(p)
    BY <1>13 DEF Raise, EndWith
  <1>14. CASE Leave(p)
    BY <1>14 DEF Leave, BackToIdle
  <1>15. CASE DoubtRaises(p)
    BY <1>15 DEF DoubtRaises, EndWith, Fault
  <1>16. CASE RemoveRaises(p)
    BY <1>16 DEF RemoveRaises, EndWith, Fault
  <1>17. CASE Crash(p)
    BY <1>17 DEF Crash, BackToIdle, Fault
  <1> HIDE DEF IInv, Quiet
  <1> QED
    BY <1>1, <1>2, <1>3, <1>4, <1>5, <1>6, <1>7, <1>8, <1>9, <1>10, <1>11,
       <1>12, <1>13, <1>14, <1>15, <1>16, <1>17

(* One entry is unlinked, the first of the process's list. *)
Removes(p, q, x) ==
    /\ todo[p][1] = <<q, x>> /\ Len(todo[p]) \in Nat \ {0} /\ 1 \in DOMAIN todo[p]
    /\ fs'[q][x] = "none"
    /\ \A r \in Pids, y \in Paths : <<r, y>> # <<q, x>> => fs'[r][y] = fs[r][y]
    /\ \A r \in Pids, y \in Paths : survive'[r][y] = survive[r][y] \cup {fs'[r][y]}
    /\ todo[p] \in Seq(Pids \X Paths)
    /\ todo'[p] \in Seq(Pids \X Paths) /\ Len(todo'[p]) = Len(todo[p]) - 1
    /\ \A i \in 1..Len(todo'[p]) : todo'[p][i] = todo[p][i + 1]
    /\ \A o \in Procs \ {p} : todo'[o] = todo[o]
    /\ pc[p] \in Cleaning
    /\ UNCHANGED <<predictions, cleaned, torn, undone, pc, pid>>

(* Remove unlinks the first entry of the process's list. *)
LEMMA RemoveEffect ==
    ASSUME IInv, NEW p \in Procs, Remove(p)
    PROVE  \E q \in Pids, x \in Paths : Removes(p, q, x)
  <1>1. /\ todo \in [Procs -> Seq(Pids \X Paths)] /\ fs \in [Pids -> [Paths -> Content]]
        /\ survive \in [Pids -> [Paths -> SUBSET Content]]
    BY DEF IInv, TypeInv, TypeOK
  <1>2. todo[p] \in Seq(Pids \X Paths) /\ todo[p] # <<>>
    BY <1>1 DEF Remove
  <1>3. /\ Head(todo[p]) = todo[p][1] /\ Len(todo[p]) \in Nat \ {0} /\ 1 \in DOMAIN todo[p]
        /\ Head(todo[p]) \in Pids \X Paths
    BY <1>2
  <1>4. PICK q \in Pids, x \in Paths : Head(todo[p]) = <<q, x>>
    BY <1>3
  <1>5. /\ todo' = [todo EXCEPT ![p] = Tail(todo[p])]
        /\ fs' = [fs EXCEPT ![q][x] = "none"] /\ Unsettled /\ pc[p] \in Cleaning
        /\ UNCHANGED <<predictions, cleaned, torn, undone, pc, pid>>
    <2>1. /\ todo' = [todo EXCEPT ![p] = Tail(todo[p])]
          /\ fs' = [fs EXCEPT ![Head(todo[p])[1]][Head(todo[p])[2]] = "none"] /\ Unsettled
          /\ pc[p] \in Cleaning /\ UNCHANGED <<predictions, cleaned, torn, undone, pc, pid>>
      BY DEF Remove, Set, tables, attempt, history
    <2>2. Head(todo[p])[1] = q /\ Head(todo[p])[2] = x
      BY <1>4
    <2> QED
      BY <2>1, <2>2
  <1>6. /\ Tail(todo[p]) \in Seq(Pids \X Paths) /\ Len(Tail(todo[p])) = Len(todo[p]) - 1
        /\ \A i \in 1..(Len(todo[p]) - 1) : Tail(todo[p])[i] = todo[p][i + 1]
    BY <1>2, <1>3
  <1>7. todo'[p] = Tail(todo[p]) /\ \A o \in Procs \ {p} : todo'[o] = todo[o]
    BY <1>1, <1>5
  <1>8. /\ fs' \in [Pids -> [Paths -> Content]] /\ fs'[q][x] = "none"
        /\ \A r \in Pids, y \in Paths : <<r, y>> # <<q, x>> => fs'[r][y] = fs[r][y]
    BY <1>1, <1>4, <1>5 DEF Content
  <1>9. \A r \in Pids, y \in Paths : survive'[r][y] = survive[r][y] \cup {fs'[r][y]}
    BY <1>5 DEF Unsettled
  <1>10. todo[p][1] = <<q, x>>
    BY <1>3, <1>4
  <1>11. /\ todo'[p] \in Seq(Pids \X Paths) /\ Len(todo'[p]) = Len(todo[p]) - 1
         /\ \A i \in 1..Len(todo'[p]) : todo'[p][i] = todo[p][i + 1]
    BY <1>6, <1>7
  <1>12. Removes(p, q, x)
    BY <1>2, <1>3, <1>5, <1>7, <1>8, <1>9, <1>10, <1>11 DEF Removes
  <1> QED
    BY <1>12

(* A machine crash leaves of every entry something that may survive it.    *)
LEMMA CrashEffect ==
    ASSUME IInv, DInv, MachineCrash
    PROVE  /\ \A q \in Pids, x \in Paths : fs'[q][x] \in survive[q][x] /\ survive'[q][x] = {fs'[q][x]}
           /\ UNCHANGED predictions /\ cleaned' = {}
           /\ torn' = torn \cup UNION {TornBy(p) : p \in Procs}
           /\ undone' = undone \cup Revived
           /\ \A p \in Procs : pc'[p] = "idle" /\ todo'[p] = <<>>
  <1>1. PICK after \in [Unsynced -> Content] :
          /\ \A u \in Unsynced : after[u] \in survive[u[1]][u[2]]
          /\ fs' = [q \in Pids |-> [x \in Paths |->
                      IF <<q, x>> \in Unsynced THEN after[<<q, x>>] ELSE fs[q][x]]]
    BY DEF MachineCrash
  <1>2. ASSUME NEW q \in Pids, NEW x \in Paths PROVE fs'[q][x] \in survive[q][x]
    <2>1. CASE <<q, x>> \in Unsynced
      <3>1. fs'[q][x] = after[<<q, x>>]
        BY <1>1, <2>1
      <3>2. after[<<q, x>>] \in survive[<<q, x>>[1]][<<q, x>>[2]]
        BY <1>1, <2>1
      <3> QED
        BY <3>1, <3>2
    <2>2. CASE <<q, x>> \notin Unsynced
      BY <1>1, <2>2 DEF DInv, SurviveInv
    <2> QED
      BY <2>1, <2>2
  <1>3. \A q \in Pids, x \in Paths : survive'[q][x] = {fs'[q][x]}
    BY DEF MachineCrash
  <1> QED
    BY <1>2, <1>3 DEF MachineCrash, tables

(* Remove leaves the temporary files of committed predictions gone.        *)
LEMMA RemoveTemps ==
    ASSUME IInv, DInv, NEW p \in Procs, Remove(p)
    PROVE  TempsInv'
  <1>1. PICK q \in Pids, x \in Paths : Removes(p, q, x)
    BY RemoveEffect
  <1>2. ASSUME NEW r \in predictions, NEW y \in Temps PROVE survive'[r][y] = {"none"}
    <2>1. r \in Pids /\ y \in Paths /\ survive[r][y] = {"none"} /\ fs[r][y] \in survive[r][y]
      BY DEF IInv, TypeInv, TypeOK, DInv, TempsInv, SurviveInv, Temps, Paths, RecordsDir, SnapshotsDir
    <2>2. fs'[r][y] = "none"
      BY <1>1, <2>1 DEF Removes
    <2> QED
      BY <1>1, <2>1, <2>2 DEF Removes
  <1> QED
    BY <1>1, <1>2 DEF TempsInv, Removes

(* Every step keeps what is in an entry among what may survive there.      *)
LEMMA SurviveStep == IInv /\ IInv' /\ DInv /\ [Next]_vars => SurviveInv'
  <1> SUFFICES ASSUME IInv, IInv', DInv, [Next]_vars PROVE SurviveInv'
    OBVIOUS
  <1> USE DEF IInv, DInv, TypeInv, TypeOK, SurviveInv, Unsettled, disk, tables, attempt,
          history
  <1>1. ASSUME NEW p \in Procs, Quiet(p) PROVE SurviveInv'
    BY <1>1 DEF Quiet, Watched
  <1>2. ASSUME NEW p \in Procs, RecoverTmps(p) PROVE SurviveInv'
    BY <1>2 DEF RecoverTmps, DiskStep
  <1>3. ASSUME NEW p \in Procs, RecoverManifest(p) PROVE SurviveInv'
    BY <1>3 DEF RecoverManifest
  <1>4. ASSUME NEW p \in Procs, StageNew(p) PROVE SurviveInv'
    BY <1>4 DEF StageNew, DiskStep
  <1>5. ASSUME NEW p \in Procs, WriteManifestTmp(p) PROVE SurviveInv'
    BY <1>5 DEF WriteManifestTmp, DiskStep, Set, Sync
  <1>6. ASSUME NEW p \in Procs, RenameManifest(p) PROVE SurviveInv'
    BY <1>6 DEF RenameManifest, DiskStep, Set, Sync
  <1>7. ASSUME NEW p \in Procs, SyncManifest(p) PROVE SurviveInv'
    BY <1>7 DEF SyncManifest, DiskStep, Set, Sync
  <1>8. ASSUME NEW p \in Procs, WriteSnapshotTemp(p) PROVE SurviveInv'
    BY <1>8 DEF WriteSnapshotTemp, DiskStep, Set, Sync
  <1>9. ASSUME NEW p \in Procs, WriteRecordTemp(p) PROVE SurviveInv'
    BY <1>9 DEF WriteRecordTemp, DiskStep, Set, Sync
  <1>10. ASSUME NEW p \in Procs, LinkSnapshot(p) PROVE SurviveInv'
    BY <1>10 DEF LinkSnapshot, Link, DiskStep, Set
  <1>11. ASSUME NEW p \in Procs, LinkRecord(p) PROVE SurviveInv'
    BY <1>11 DEF LinkRecord, Link, DiskStep, Set
  <1>12. ASSUME NEW p \in Procs, SnapshotCollides(p) PROVE SurviveInv'
    BY <1>12 DEF SnapshotCollides, LinkCollides, StartRollback
  <1>13. ASSUME NEW p \in Procs, RecordCollides(p) PROVE SurviveInv'
    BY <1>13 DEF RecordCollides, LinkCollides, StartRollback
  <1>14. ASSUME NEW p \in Procs, FlagSnapshot(p) PROVE SurviveInv'
    BY <1>14 DEF FlagSnapshot, Flag, DiskStep
  <1>15. ASSUME NEW p \in Procs, FlagRecord(p) PROVE SurviveInv'
    BY <1>15 DEF FlagRecord, Flag, DiskStep
  <1>16. ASSUME NEW p \in Procs, UnlinkSnapshotTemp(p) PROVE SurviveInv'
    BY <1>16 DEF UnlinkSnapshotTemp, UnlinkTemp, DiskStep, Set
  <1>17. ASSUME NEW p \in Procs, UnlinkRecordTemp(p) PROVE SurviveInv'
    BY <1>17 DEF UnlinkRecordTemp, UnlinkTemp, DiskStep, Set
  <1>18. ASSUME NEW p \in Procs, SyncSnapshot(p) PROVE SurviveInv'
    BY <1>18 DEF SyncSnapshot, SyncPublished, DiskStep, Sync
  <1>19. ASSUME NEW p \in Procs, SyncRecord(p) PROVE SurviveInv'
    BY <1>19 DEF SyncRecord, SyncPublished, DiskStep, Sync
  <1>20. ASSUME NEW p \in Procs, Commit(p) PROVE SurviveInv'
    BY <1>20 DEF Commit, CommitRows
  <1>21. ASSUME NEW p \in Procs, DoubtCommitted(p) PROVE SurviveInv'
    BY <1>21 DEF DoubtCommitted
  <1>22. ASSUME NEW p \in Procs, DoubtUncommitted(p) PROVE SurviveInv'
    BY <1>22 DEF DoubtUncommitted, StartRollback
  <1>23. ASSUME NEW p \in Procs, Remove(p) PROVE SurviveInv'
    BY <1>23 DEF Remove, Set
  <1>24. ASSUME NEW p \in Procs, SyncRecordsDir(p) PROVE SurviveInv'
    BY <1>24 DEF SyncRecordsDir, Sync
  <1>25. ASSUME NEW p \in Procs, SyncSnapshotsDir(p) PROVE SurviveInv'
    BY <1>25 DEF SyncSnapshotsDir, Sync
  <1>26. ASSUME NEW p \in Procs, StageRaises(p) PROVE SurviveInv'
    BY <1>26 DEF StageRaises, StartRollback, Fault
  <1>27. ASSUME NEW p \in Procs, CommitLands(p) PROVE SurviveInv'
    BY <1>27 DEF CommitLands, InDoubt, CommitRows, Fault
  <1>28. ASSUME NEW p \in Procs, CommitFails(p) PROVE SurviveInv'
    BY <1>28 DEF CommitFails, InDoubt, Fault
  <1>29. ASSUME NEW q \in Pids, NEW x \in Artifacts, NEW c \in {"none", "foreign"}, Edit(q, x, c)
        PROVE  SurviveInv'
    BY <1>29 DEF Edit, Set
  <1>30. ASSUME NEW C \in SUBSET Cells, Touch(C) PROVE SurviveInv'
    BY <1>30 DEF Touch
  <1>31. CASE MachineCrash
    BY <1>31 DEF MachineCrash
  <1>32. CASE UNCHANGED vars
    BY <1>32 DEF vars
  <1> HIDE DEF IInv, DInv, TypeInv, TypeOK, SurviveInv, Unsettled, disk, tables,
          attempt, history
  <1> QED
    BY QuietSteps, <1>1, <1>2, <1>3, <1>4, <1>5, <1>6, <1>7, <1>8, <1>9,
       <1>10, <1>11, <1>12, <1>13, <1>14, <1>15, <1>16, <1>17, <1>18, <1>19, <1>20,
       <1>21, <1>22, <1>23, <1>24, <1>25, <1>26, <1>27, <1>28, <1>29, <1>30, <1>31,
       <1>32
    DEF Next, Progress, Recover, Select, Lookup, Stage, Publish, Finish, Faulty

(* Nobody writes a temporary file of a committed prediction. *)
LEMMA TempsStep == IInv /\ IInv' /\ DInv /\ [Next]_vars => TempsInv'
  <1> SUFFICES ASSUME IInv, IInv', DInv, [Next]_vars PROVE TempsInv'
    OBVIOUS
  <1> USE DEF IInv, DInv, TypeInv, TypeOK, AttemptOK, HasPid, IdInv, SurviveInv,
          TempsInv, StagedInv, Temps, Artifacts, Paths, SnapshotsDir, RecordsDir,
          Unsettled, disk, Staging, Go, tables, attempt, history
  <1>1. ASSUME NEW p \in Procs, Quiet(p) PROVE TempsInv'
    BY <1>1 DEF Quiet, Watched
  <1>2. ASSUME NEW p \in Procs, RecoverTmps(p) PROVE TempsInv'
    BY <1>2 DEF RecoverTmps, DiskStep
  <1>3. ASSUME NEW p \in Procs, RecoverManifest(p) PROVE TempsInv'
    BY <1>3 DEF RecoverManifest
  <1>4. ASSUME NEW p \in Procs, StageNew(p) PROVE TempsInv'
    BY <1>4 DEF StageNew, DiskStep
  <1>5. ASSUME NEW p \in Procs, WriteManifestTmp(p) PROVE TempsInv'
    BY <1>5 DEF WriteManifestTmp, DiskStep, Set, Sync
  <1>6. ASSUME NEW p \in Procs, RenameManifest(p) PROVE TempsInv'
    BY <1>6 DEF RenameManifest, DiskStep, Set, Sync
  <1>7. ASSUME NEW p \in Procs, SyncManifest(p) PROVE TempsInv'
    BY <1>7 DEF SyncManifest, DiskStep, Set, Sync
  <1>8. ASSUME NEW p \in Procs, WriteSnapshotTemp(p) PROVE TempsInv'
    BY <1>8 DEF WriteSnapshotTemp, DiskStep, Set, Sync
  <1>9. ASSUME NEW p \in Procs, WriteRecordTemp(p) PROVE TempsInv'
    BY <1>9 DEF WriteRecordTemp, DiskStep, Set, Sync
  <1>10. ASSUME NEW p \in Procs, LinkSnapshot(p) PROVE TempsInv'
    BY <1>10 DEF LinkSnapshot, Link, DiskStep, Set
  <1>11. ASSUME NEW p \in Procs, LinkRecord(p) PROVE TempsInv'
    BY <1>11 DEF LinkRecord, Link, DiskStep, Set
  <1>12. ASSUME NEW p \in Procs, SnapshotCollides(p) PROVE TempsInv'
    BY <1>12 DEF SnapshotCollides, LinkCollides, StartRollback
  <1>13. ASSUME NEW p \in Procs, RecordCollides(p) PROVE TempsInv'
    BY <1>13 DEF RecordCollides, LinkCollides, StartRollback
  <1>14. ASSUME NEW p \in Procs, FlagSnapshot(p) PROVE TempsInv'
    BY <1>14 DEF FlagSnapshot, Flag, DiskStep
  <1>15. ASSUME NEW p \in Procs, FlagRecord(p) PROVE TempsInv'
    BY <1>15 DEF FlagRecord, Flag, DiskStep
  <1>16. ASSUME NEW p \in Procs, UnlinkSnapshotTemp(p) PROVE TempsInv'
    BY <1>16 DEF UnlinkSnapshotTemp, UnlinkTemp, DiskStep, Set
  <1>17. ASSUME NEW p \in Procs, UnlinkRecordTemp(p) PROVE TempsInv'
    BY <1>17 DEF UnlinkRecordTemp, UnlinkTemp, DiskStep, Set
  <1>18. ASSUME NEW p \in Procs, SyncSnapshot(p) PROVE TempsInv'
    BY <1>18 DEF SyncSnapshot, SyncPublished, DiskStep, Sync
  <1>19. ASSUME NEW p \in Procs, SyncRecord(p) PROVE TempsInv'
    BY <1>19 DEF SyncRecord, SyncPublished, DiskStep, Sync
  <1>20. ASSUME NEW p \in Procs, Commit(p) PROVE TempsInv'
    BY <1>20 DEF Commit, CommitRows
  <1>21. ASSUME NEW p \in Procs, DoubtCommitted(p) PROVE TempsInv'
    BY <1>21 DEF DoubtCommitted
  <1>22. ASSUME NEW p \in Procs, DoubtUncommitted(p) PROVE TempsInv'
    BY <1>22 DEF DoubtUncommitted, StartRollback
  <1>23. ASSUME NEW p \in Procs, Remove(p) PROVE TempsInv'
    BY <1>23, RemoveTemps
  <1>24. ASSUME NEW p \in Procs, SyncRecordsDir(p) PROVE TempsInv'
    BY <1>24 DEF SyncRecordsDir, Sync
  <1>25. ASSUME NEW p \in Procs, SyncSnapshotsDir(p) PROVE TempsInv'
    BY <1>25 DEF SyncSnapshotsDir, Sync
  <1>26. ASSUME NEW p \in Procs, StageRaises(p) PROVE TempsInv'
    BY <1>26 DEF StageRaises, StartRollback, Fault
  <1>27. ASSUME NEW p \in Procs, CommitLands(p) PROVE TempsInv'
    BY <1>27 DEF CommitLands, InDoubt, CommitRows, Fault
  <1>28. ASSUME NEW p \in Procs, CommitFails(p) PROVE TempsInv'
    BY <1>28 DEF CommitFails, InDoubt, Fault
  <1>29. ASSUME NEW q \in Pids, NEW x \in Artifacts, NEW c \in {"none", "foreign"}, Edit(q, x, c)
        PROVE  TempsInv'
    BY <1>29 DEF Edit, Set
  <1>30. ASSUME NEW C \in SUBSET Cells, Touch(C) PROVE TempsInv'
    BY <1>30 DEF Touch
  <1>31. CASE MachineCrash
    <2>1. ASSUME NEW r \in predictions, NEW y \in Temps PROVE survive'[r][y] = {"none"}
      <3>1. r \in Pids /\ y \in Paths /\ survive[r][y] = {"none"}
        OBVIOUS
      <3> QED
        BY <1>31, <3>1, CrashEffect
    <2> QED
      BY <1>31, <2>1, CrashEffect
  <1>32. CASE UNCHANGED vars
    BY <1>32 DEF vars
  <1> HIDE DEF IInv, DInv, TypeInv, TypeOK, AttemptOK, HasPid, IdInv, SurviveInv,
          TempsInv, StagedInv, Temps, Artifacts, Paths, SnapshotsDir, RecordsDir,
          Unsettled, disk, Staging, Go, tables, attempt, history
  <1> QED
    BY QuietSteps, <1>1, <1>2, <1>3, <1>4, <1>5, <1>6, <1>7, <1>8, <1>9,
       <1>10, <1>11, <1>12, <1>13, <1>14, <1>15, <1>16, <1>17, <1>18, <1>19, <1>20,
       <1>21, <1>22, <1>23, <1>24, <1>25, <1>26, <1>27, <1>28, <1>29, <1>30, <1>31,
       <1>32
    DEF Next, Progress, Recover, Select, Lookup, Stage, Publish, Finish, Faulty

(* The writer's files follow its position. *)
LEMMA StagedStep == IInv /\ IInv' /\ DInv /\ [Next]_vars => StagedInv'
  <1> SUFFICES ASSUME IInv, IInv', DInv, [Next]_vars PROVE StagedInv'
    OBVIOUS
  <1> USE DEF IInv, DInv, TypeInv, TypeOK, AttemptOK, HasPid, LockInv, SurviveInv,
          StagedInv, BeforeSnapshot, BeforeRecord, Named, Artifacts, Paths,
          SnapshotsDir, RecordsDir, Unsettled, disk, Content, Locked, InTxn, Looking,
          Staging, Cleaning, Go, tables, attempt, history
  <1>1. ASSUME NEW p \in Procs, Quiet(p) PROVE StagedInv'
    <2>1. /\ fs' = fs /\ survive' = survive
          /\ \A o \in Procs : pc'[o] \notin Watched \/ (pc'[o] = pc[o] /\ pid'[o] = pid[o])
      BY <1>1 DEF Quiet
    <2> QED
      BY <2>1 DEF Watched
  <1>2. ASSUME NEW p \in Procs, RecoverTmps(p) PROVE StagedInv'
    BY <1>2 DEF RecoverTmps, DiskStep
  <1>3. ASSUME NEW p \in Procs, RecoverManifest(p) PROVE StagedInv'
    BY <1>3 DEF RecoverManifest
  <1>4. ASSUME NEW p \in Procs, StageNew(p) PROVE StagedInv'
    BY <1>4 DEF StageNew, DiskStep
  <1>5. ASSUME NEW p \in Procs, WriteManifestTmp(p) PROVE StagedInv'
    BY <1>5 DEF WriteManifestTmp, DiskStep, Set, Sync
  <1>6. ASSUME NEW p \in Procs, RenameManifest(p) PROVE StagedInv'
    BY <1>6 DEF RenameManifest, DiskStep, Set, Sync
  <1>7. ASSUME NEW p \in Procs, SyncManifest(p) PROVE StagedInv'
    BY <1>7 DEF SyncManifest, DiskStep, Set, Sync
  <1>8. ASSUME NEW p \in Procs, WriteSnapshotTemp(p) PROVE StagedInv'
    BY <1>8 DEF WriteSnapshotTemp, DiskStep, Set, Sync
  <1>9. ASSUME NEW p \in Procs, WriteRecordTemp(p) PROVE StagedInv'
    BY <1>9 DEF WriteRecordTemp, DiskStep, Set, Sync
  <1>10. ASSUME NEW p \in Procs, LinkSnapshot(p) PROVE StagedInv'
    BY <1>10 DEF LinkSnapshot, Link, DiskStep, Set
  <1>11. ASSUME NEW p \in Procs, LinkRecord(p) PROVE StagedInv'
    BY <1>11 DEF LinkRecord, Link, DiskStep, Set
  <1>12. ASSUME NEW p \in Procs, SnapshotCollides(p) PROVE StagedInv'
    BY <1>12 DEF SnapshotCollides, LinkCollides, StartRollback
  <1>13. ASSUME NEW p \in Procs, RecordCollides(p) PROVE StagedInv'
    BY <1>13 DEF RecordCollides, LinkCollides, StartRollback
  <1>14. ASSUME NEW p \in Procs, FlagSnapshot(p) PROVE StagedInv'
    BY <1>14 DEF FlagSnapshot, Flag, DiskStep
  <1>15. ASSUME NEW p \in Procs, FlagRecord(p) PROVE StagedInv'
    BY <1>15 DEF FlagRecord, Flag, DiskStep
  <1>16. ASSUME NEW p \in Procs, UnlinkSnapshotTemp(p) PROVE StagedInv'
    BY <1>16 DEF UnlinkSnapshotTemp, UnlinkTemp, DiskStep, Set
  <1>17. ASSUME NEW p \in Procs, UnlinkRecordTemp(p) PROVE StagedInv'
    BY <1>17 DEF UnlinkRecordTemp, UnlinkTemp, DiskStep, Set
  <1>18. ASSUME NEW p \in Procs, SyncSnapshot(p) PROVE StagedInv'
    BY <1>18 DEF SyncSnapshot, SyncPublished, DiskStep, Sync
  <1>19. ASSUME NEW p \in Procs, SyncRecord(p) PROVE StagedInv'
    BY <1>19 DEF SyncRecord, SyncPublished, DiskStep, Sync
  <1>20. ASSUME NEW p \in Procs, Commit(p) PROVE StagedInv'
    BY <1>20 DEF Commit, CommitRows
  <1>21. ASSUME NEW p \in Procs, DoubtCommitted(p) PROVE StagedInv'
    BY <1>21 DEF DoubtCommitted
  <1>22. ASSUME NEW p \in Procs, DoubtUncommitted(p) PROVE StagedInv'
    BY <1>22 DEF DoubtUncommitted, StartRollback
  <1>23. ASSUME NEW p \in Procs, Remove(p) PROVE StagedInv'
    <2>1. pc' = pc /\ pc[p] \in Cleaning
      BY <1>23 DEF Remove
    <2>2. \A o \in Procs : pc'[o] \notin Staging \cup {"commit", "doubt"}
      BY <2>1
    <2> QED
      BY <2>2
  <1>24. ASSUME NEW p \in Procs, SyncRecordsDir(p) PROVE StagedInv'
    BY <1>24 DEF SyncRecordsDir, Sync
  <1>25. ASSUME NEW p \in Procs, SyncSnapshotsDir(p) PROVE StagedInv'
    BY <1>25 DEF SyncSnapshotsDir, Sync
  <1>26. ASSUME NEW p \in Procs, StageRaises(p) PROVE StagedInv'
    BY <1>26 DEF StageRaises, StartRollback, Fault
  <1>27. ASSUME NEW p \in Procs, CommitLands(p) PROVE StagedInv'
    BY <1>27 DEF CommitLands, InDoubt, CommitRows, Fault
  <1>28. ASSUME NEW p \in Procs, CommitFails(p) PROVE StagedInv'
    BY <1>28 DEF CommitFails, InDoubt, Fault
  <1>29. ASSUME NEW q \in Pids, NEW x \in Artifacts, NEW c \in {"none", "foreign"}, Edit(q, x, c)
        PROVE  StagedInv'
    BY <1>29 DEF Edit, Set
  <1>30. ASSUME NEW C \in SUBSET Cells, Touch(C) PROVE StagedInv'
    BY <1>30 DEF Touch
  <1>31. CASE MachineCrash
    <2>1. \A o \in Procs : pc'[o] = "idle"
      BY <1>31 DEF MachineCrash
    <2> QED
      BY <2>1
  <1>32. CASE UNCHANGED vars
    BY <1>32 DEF vars
  <1> HIDE DEF IInv, DInv, TypeInv, TypeOK, AttemptOK, HasPid, LockInv, SurviveInv,
          StagedInv, BeforeSnapshot, BeforeRecord, Named, Artifacts, Paths,
          SnapshotsDir, RecordsDir, Unsettled, disk, Content, Locked, InTxn, Looking,
          Staging, Cleaning, Go, tables, attempt, history
  <1> QED
    BY QuietSteps, <1>1, <1>2, <1>3, <1>4, <1>5, <1>6, <1>7, <1>8, <1>9,
       <1>10, <1>11, <1>12, <1>13, <1>14, <1>15, <1>16, <1>17, <1>18, <1>19, <1>20,
       <1>21, <1>22, <1>23, <1>24, <1>25, <1>26, <1>27, <1>28, <1>29, <1>30, <1>31,
       <1>32
    DEF Next, Progress, Recover, Select, Lookup, Stage, Publish, Finish, Faulty

(* Concatenation keeps the elements of both lists. *)
LEMMA HasConcat ==
    ASSUME NEW S, NEW s \in Seq(S), NEW t \in Seq(S)
    PROVE  s \o t \in Seq(S) /\ \A x : Has(s, x) \/ Has(t, x) => Has(s \o t, x)
  <1>1. s \o t \in Seq(S) /\ Len(s \o t) = Len(s) + Len(t) /\ Len(s) \in Nat /\ Len(t) \in Nat
    OBVIOUS
  <1>2. ASSUME NEW i \in 1..Len(s) PROVE i \in 1..Len(s \o t) /\ (s \o t)[i] = s[i]
    BY <1>1
  <1>3. ASSUME NEW i \in 1..Len(t)
        PROVE  Len(s) + i \in 1..Len(s \o t) /\ (s \o t)[Len(s) + i] = t[i]
    BY <1>1
  <1>4. ASSUME NEW x, Has(s, x) PROVE Has(s \o t, x)
    <2>1. PICK i \in 1..Len(s) : s[i] = x
      BY <1>4 DEF Has
    <2> QED
      BY <1>1, <1>2, <2>1 DEF Has
  <1>5. ASSUME NEW x, Has(t, x) PROVE Has(s \o t, x)
    <2>1. PICK i \in 1..Len(t) : t[i] = x
      BY <1>5 DEF Has
    <2> QED
      BY <1>1, <1>3, <2>1 DEF Has
  <1> QED
    BY <1>1, <1>4, <1>5

(* Every name of a list of names gives an entry of a removal list. *)
LEMMA HasEntries ==
    ASSUME NEW q, NEW paths
    PROVE  /\ \A i \in DOMAIN Entries(q, paths) : Entries(q, paths)[i][1] = q
           /\ \A x : Has(paths, x) => Has(Entries(q, paths), <<q, x>>)
  BY DEF Entries, Has

(* Recovery removes everything a manifest may name, the manifest last.     *)
LEMMA RecoveryListCovers ==
    ASSUME NEW q
    PROVE  /\ RecoveryList(q) # <<>> /\ RecoveryList(q)[1][1] = q
           /\ RecoveryList(q)[Len(RecoveryList(q))][2] = "manifest"
           /\ \A i \in DOMAIN RecoveryList(q) :
                /\ RecoveryList(q)[i][1] = q
                /\ i < Len(RecoveryList(q)) => RecoveryList(q)[i][2] # "manifest"
           /\ \A x \in Volatile(q) : Has(RecoveryList(q), <<q, x>>)
  <1> DEFINE five == <<"record_temp", "snapshot_temp", "record", "snapshot", "manifest">>
  <1>1. CASE q \in predictions
    <2>1. RecoveryList(q) = <<<<q, "record_temp">>, <<q, "snapshot_temp">>, <<q, "manifest">>>>
      BY <1>1 DEF RecoveryList, Entries
    <2>2. Volatile(q) = {"record_temp", "snapshot_temp"}
      BY <1>1 DEF Volatile, Staged, Artifacts
    <2> QED
      BY <2>1, <2>2 DEF Has
  <1>2. CASE q \notin predictions
    <2>1. RecoveryList(q) = Entries(q, five)
      BY <1>2 DEF RecoveryList
    <2>2. /\ Len(five) = 5 /\ five[1] = "record_temp" /\ five[2] = "snapshot_temp"
          /\ five[3] = "record" /\ five[4] = "snapshot" /\ five[5] = "manifest"
          /\ DOMAIN five = 1..5
      OBVIOUS
    <2>3. Has(five, "record_temp") /\ Has(five, "snapshot_temp") /\ Has(five, "record") /\ Has(five, "snapshot")
      BY <2>2 DEF Has
    <2> HIDE DEF five
    <2>4. Volatile(q) = {"record_temp", "snapshot_temp", "record", "snapshot"}
      BY <1>2 DEF Volatile, Staged, Artifacts
    <2>5. \A x \in Volatile(q) : Has(RecoveryList(q), <<q, x>>)
      BY <2>1, <2>3, <2>4, HasEntries
    <2>6. /\ RecoveryList(q) = [i \in 1..5 |-> <<q, five[i]>>] /\ DOMAIN RecoveryList(q) = 1..5
          /\ \A i \in 1..5 : RecoveryList(q)[i] = <<q, five[i]>>
      BY <2>1, <2>2 DEF Entries
    <2>7. Len(RecoveryList(q)) = 5
      BY <2>6
    <2>8. \A i \in 1..5 : i < 5 => five[i] # "manifest"
      BY <2>2
    <2>9. \A i \in DOMAIN RecoveryList(q) :
            /\ RecoveryList(q)[i][1] = q
            /\ i < Len(RecoveryList(q)) => RecoveryList(q)[i][2] # "manifest"
      BY <2>6, <2>7, <2>8
    <2>10. RecoveryList(q)[1] = <<q, five[1]>> /\ RecoveryList(q)[5] = <<q, five[5]>>
      BY <2>6
    <2>11. RecoveryList(q)[1][1] = q /\ RecoveryList(q)[5][2] = "manifest"
      BY <2>2, <2>10
    <2>12. RecoveryList(q) # <<>>
      BY <2>7
    <2> QED
      BY <2>5, <2>7, <2>9, <2>11, <2>12
  <1> QED
    BY <1>1, <1>2

(* Rollback removes every file the attempt has on disk: a final path is    *)
(* flagged as published, or still is the inode of its temporary file.      *)
LEMMA RollbackListCovers ==
    ASSUME IInv, DInv, NEW p \in Procs, pc[p] \in Staging \cup {"doubt"}
    PROVE  /\ \A i \in DOMAIN RollbackList(p) : RollbackList(p)[i][1] = pid[p]
           /\ \A x \in Staged : fs[pid[p]][x] = "own" => Has(RollbackList(p), <<pid[p], x>>)
  <1> DEFINE q == pid[p]
             three == <<"record_temp", "snapshot_temp", "manifest">>
             mid == IF "record" \in Owned(p) THEN <<"record">> ELSE <<>>
             last == IF "snapshot" \in Owned(p) THEN <<"snapshot">> ELSE <<>>
  <1>1. RollbackList(p) = Entries(q, (three \o mid) \o last)
    BY DEF RollbackList
  <1>2. StagedInv
    BY DEF DInv
  <1>3. fs[q]["record"] = "own" => "record" \in Owned(p)
    BY <1>2 DEF StagedInv, Owned, Flagged, SameInode, Staging, BeforeRecord, BeforeSnapshot
  <1>4. fs[q]["snapshot"] = "own" => "snapshot" \in Owned(p)
    BY <1>2 DEF StagedInv, Owned, Flagged, SameInode, Staging, BeforeRecord, BeforeSnapshot
  <1>5. three \in Seq(Paths) /\ mid \in Seq(Paths) /\ last \in Seq(Paths)
    <2>1. /\ "record_temp" \in Paths /\ "snapshot_temp" \in Paths /\ "manifest" \in Paths
          /\ "record" \in Paths /\ "snapshot" \in Paths
      BY DEF Paths, RecordsDir, SnapshotsDir
    <2>2. three \in Seq(Paths)
      BY <2>1
    <2>3. mid \in Seq(Paths)
      BY <2>1
    <2>4. last \in Seq(Paths)
      BY <2>1
    <2> QED
      BY <2>2, <2>3, <2>4
  <1>6. Has(three, "record_temp") /\ Has(three, "snapshot_temp")
    BY DEF Has
  <1>7. "record" \in Owned(p) => Has(mid, "record")
    BY DEF Has
  <1>8. "snapshot" \in Owned(p) => Has(last, "snapshot")
    BY DEF Has
  <1> HIDE DEF three, mid, last
  <1>9. ASSUME NEW x \in Staged, fs[q][x] = "own" PROVE Has((three \o mid) \o last, x)
    <2>1. Has(three, x) \/ Has(mid, x) \/ Has(last, x)
      BY <1>3, <1>4, <1>6, <1>7, <1>8, <1>9 DEF Staged, Artifacts
    <2>2. Has(three \o mid, x) \/ Has(last, x)
      BY <1>5, <2>1, HasConcat
    <2> QED
      BY <1>5, <2>2, HasConcat
  <1> QED
    BY <1>1, <1>9, HasEntries


(* Labels of a process that is removing files. *)
Busy == Cleaning \cup {"sync_snapshots"}

(* The one process that holds the lock is the only one that cleans up.     *)
LEMMA OneBusy ==
    ASSUME IInv, NEW p \in Procs, pc[p] \in Locked
    PROVE  \A o \in Procs \ {p} : pc[o] \notin Busy
  BY DEF IInv, LockInv, Busy, Locked

(* A step that leaves files and rows alone keeps every clean-up complete.  *)
LEMMA CleanKept ==
    ASSUME DInv, UNCHANGED <<fs, survive, predictions>>, cleaned' = cleaned,
           \A o \in Procs : \/ pc'[o] \notin Busy
                            \/ pc'[o] = pc[o] /\ pid'[o] = pid[o] /\ todo'[o] = todo[o]
    PROVE  CleanInv'
  <1>1. ASSUME NEW o \in Procs, pc'[o] = "rollback" PROVE RollsBack(o)'
    BY <1>1 DEF Busy, Cleaning, DInv, CleanInv, RollsBack, Covers, Volatile
  <1>2. ASSUME NEW o \in Procs, pc'[o] = "recover", todo'[o] # <<>>
        PROVE  \E q \in Pids : Recovers(o, q)'
    <2>1. pc[o] = "recover" /\ todo[o] # <<>> /\ todo'[o] = todo[o]
      BY <1>2 DEF Busy, Cleaning
    <2>2. PICK q \in Pids : Recovers(o, q)
      BY <2>1 DEF DInv, CleanInv
    <2>3. Recovers(o, q)'
      BY <2>1, <2>2 DEF Recovers, Covers, Volatile
    <2> QED
      BY <2>3
  <1>3. ASSUME NEW o \in Procs, pc'[o] = "finalize" PROVE Finalizes(o)'
    BY <1>3 DEF Busy, Cleaning, DInv, CleanInv, Finalizes
  <1>4. ASSUME NEW o \in Procs, pc'[o] = "sync_snapshots" PROVE Swept(pid[o])'
    BY <1>4 DEF Busy, Cleaning, DInv, CleanInv, Swept, Volatile
  <1> QED
    BY <1>1, <1>2, <1>3, <1>4 DEF CleanInv

(* A rollback starts with every file of the attempt on its list.           *)
LEMMA RollbackStarts ==
    ASSUME IInv, DInv, NEW p \in Procs, pc[p] \in Staging \cup {"doubt"}, StartRollback(p),
           UNCHANGED <<fs, predictions, pid>>
    PROVE  CleanInv'
  <1>1. /\ pc'[p] = "rollback" /\ todo'[p] = RollbackList(p) /\ cleaned' = cleaned \cup {pid[p]}
        /\ \A o \in Procs \ {p} : pc'[o] = pc[o]
    BY DEF StartRollback, Go, IInv, TypeInv, TypeOK
  <1>2. \A o \in Procs \ {p} : pc'[o] \notin Busy
    BY <1>1, OneBusy DEF Locked
  <1>3. RollsBack(p)'
    <2>1. Volatile(pid[p]) \subseteq Staged /\ Volatile(pid[p])' = Volatile(pid[p])
      BY DEF Volatile
    <2> QED
      BY <1>1, <2>1, RollbackListCovers DEF RollsBack, Covers
  <1> QED
    BY <1>1, <1>2, <1>3 DEF CleanInv, Busy, Cleaning

(* Recovery starts on a manifest with everything it may name on its list.  *)
LEMMA RecoveryStarts ==
    ASSUME IInv, DInv, NEW p \in Procs, RecoverManifest(p)
    PROVE  CleanInv'
  <1>1. PICK q \in Pids :
          /\ fs[q]["manifest"] = "own" /\ todo' = [todo EXCEPT ![p] = RecoveryList(q)]
          /\ cleaned' = IF q \in predictions THEN cleaned ELSE cleaned \cup {q}
    BY DEF RecoverManifest, IInv, TypeInv, TypeOK, DInv, PassInv
  <1>2. /\ todo'[p] = RecoveryList(q) /\ pc' = pc /\ pc[p] = "recover"
        /\ UNCHANGED <<fs, predictions>>
    BY <1>1 DEF RecoverManifest, IInv, TypeInv, TypeOK, disk, tables
  <1>3. \A o \in Procs \ {p} : pc'[o] \notin Busy
    BY <1>2, OneBusy DEF Locked, Cleaning
  <1>4. Recovers(p, q)'
    <2>1. q \in cleaned' \cup predictions' /\ Volatile(q)' = Volatile(q)
      BY <1>1, <1>2 DEF Volatile
    <2> QED
      BY <1>1, <1>2, <2>1, RecoveryListCovers DEF Recovers, Covers
  <1> QED
    BY <1>2, <1>3, <1>4 DEF CleanInv, Busy, Cleaning

(* Finalization removes entries of the committed prediction. *)
LEMMA FinalizeStarts ==
    ASSUME IInv, NEW p \in Procs, pc[p] \in {"commit", "doubt"}, Go(p, "finalize"),
           todo' = [todo EXCEPT ![p] = FinalizeList(pid[p])], pid' = pid, pid[p] \in predictions'
    PROVE  CleanInv'
  <1>1. /\ pc'[p] = "finalize" /\ todo'[p] = FinalizeList(pid[p])
        /\ \A o \in Procs \ {p} : pc'[o] = pc[o]
    BY DEF Go, IInv, TypeInv, TypeOK
  <1>2. \A o \in Procs \ {p} : pc'[o] \notin Busy
    BY <1>1, OneBusy DEF Locked
  <1>3. Finalizes(p)'
    BY <1>1, HasEntries DEF Finalizes, FinalizeList
  <1> QED
    BY <1>1, <1>2, <1>3 DEF CleanInv, Busy, Cleaning

(* Remove takes one entry off the list and off the disk. *)
LEMMA RemoveClean ==
    ASSUME IInv, DInv, NEW p \in Procs, Remove(p)
    PROVE  CleanInv'
  <1>1. PICK q \in Pids, x \in Paths : Removes(p, q, x)
    BY RemoveEffect
  <1>2. pc' = pc /\ pid' = pid /\ predictions' = predictions /\ cleaned' = cleaned /\ pc[p] \in Cleaning
    BY <1>1 DEF Removes
  <1>3. \A o \in Procs \ {p} : pc'[o] \notin Busy
    BY <1>2, OneBusy DEF Locked
  <1>4. /\ todo[p][1] = <<q, x>> /\ Len(todo[p]) \in Nat \ {0}
        /\ todo[p] \in Seq(Pids \X Paths)
        /\ todo'[p] \in Seq(Pids \X Paths) /\ Len(todo'[p]) = Len(todo[p]) - 1
        /\ \A i \in 1..Len(todo'[p]) : todo'[p][i] = todo[p][i + 1]
    BY <1>1 DEF Removes
  <1>5. ASSUME NEW i \in DOMAIN todo'[p]
        PROVE  i + 1 \in DOMAIN todo[p] /\ todo'[p][i] = todo[p][i + 1]
    <2>1. i \in 1..Len(todo'[p])
      BY <1>4
    <2>2. i + 1 \in 1..Len(todo[p])
      BY <1>4, <2>1
    <2>3. i + 1 \in DOMAIN todo[p]
      BY <1>4, <2>2
    <2> QED
      BY <1>4, <2>1, <2>3
  <1>6. ASSUME NEW e, e # <<q, x>>, Has(todo[p], e) PROVE Has(todo'[p], e)
    <2>1. PICK i \in DOMAIN todo[p] : todo[p][i] = e
      BY <1>6 DEF Has
    <2>2. i \in 1..Len(todo[p]) /\ i # 1
      BY <1>4, <1>6, <2>1
    <2>3. i - 1 \in 1..Len(todo'[p]) /\ todo'[p][i - 1] = todo[p][(i - 1) + 1] /\ (i - 1) + 1 = i
      BY <1>4, <2>2
    <2>4. i - 1 \in DOMAIN todo'[p] /\ todo'[p][i - 1] = e
      BY <1>4, <2>1, <2>3
    <2> QED
      BY <2>4 DEF Has
  <1>7. ASSUME NEW r \in Pids, Covers(todo[p], r) PROVE Covers(todo[p], r)'
    <2>1. ASSUME NEW y \in Volatile(r), fs'[r][y] = "own" PROVE Has(todo'[p], <<r, y>>)
      <3>1. y \in Paths
        BY DEF Volatile, Staged, Artifacts, Paths, RecordsDir, SnapshotsDir
      <3>2. <<r, y>> # <<q, x>> /\ fs[r][y] = "own"
        BY <1>1, <2>1, <3>1 DEF Removes
      <3> QED
        BY <1>6, <1>7, <3>2 DEF Covers
    <2>2. Volatile(r)' = Volatile(r)
      BY <1>2 DEF Volatile
    <2> QED
      BY <2>1, <2>2 DEF Covers
  <1>8. ASSUME pc[p] = "rollback" PROVE RollsBack(p)'
    <2>1. RollsBack(p) /\ pid[p] \in Pids
      BY <1>8 DEF DInv, CleanInv, IInv, TypeInv, AttemptOK, HasPid
    <2> QED
      BY <1>2, <1>5, <1>7, <2>1 DEF RollsBack
  <1>9. ASSUME pc[p] = "recover", todo'[p] # <<>> PROVE \E r \in Pids : Recovers(p, r)'
    <2>1. todo[p] # <<>>
      BY <1>4
    <2>2. PICK r \in Pids : Recovers(p, r)
      BY <1>9, <2>1 DEF DInv, CleanInv
    <2>3. Len(todo[p]) > 1 /\ Len(todo'[p]) \in 1..Len(todo'[p]) /\ Len(todo'[p]) + 1 = Len(todo[p])
      BY <1>4, <1>9
    <2>4. x # "manifest"
      <3>1. 1 \in DOMAIN todo[p] /\ 1 < Len(todo[p])
        BY <1>4, <2>3
      <3>2. todo[p][1][2] # "manifest"
        BY <2>2, <3>1 DEF Recovers
      <3> QED
        BY <1>4, <3>2
    <2>5. fs'[r]["manifest"] = "own"
      <3>1. "manifest" \in Paths /\ <<r, "manifest">> # <<q, x>>
        BY <2>4 DEF Paths, SnapshotsDir
      <3> QED
        BY <1>1, <2>2, <3>1 DEF Removes, Recovers
    <2>6. todo'[p][Len(todo'[p])] = todo[p][Len(todo[p])]
      BY <1>4, <2>3
    <2>7. \A i \in DOMAIN todo'[p] : /\ todo'[p][i][1] = r
                                     /\ i < Len(todo'[p]) => todo'[p][i][2] # "manifest"
      <3> SUFFICES ASSUME NEW i \in DOMAIN todo'[p]
                   PROVE  /\ todo'[p][i][1] = r
                          /\ i < Len(todo'[p]) => todo'[p][i][2] # "manifest"
        OBVIOUS
      <3>1. i + 1 \in DOMAIN todo[p] /\ todo'[p][i] = todo[p][i + 1]
        BY <1>5
      <3>2. i < Len(todo'[p]) => i + 1 < Len(todo[p])
        BY <1>4
      <3> QED
        BY <2>2, <3>1, <3>2 DEF Recovers
    <2>8. Recovers(p, r)'
      BY <1>2, <1>7, <2>2, <2>5, <2>6, <2>7 DEF Recovers
    <2> QED
      BY <2>8
  <1>10. ASSUME pc[p] = "finalize" PROVE Finalizes(p)'
    <2>1. Finalizes(p)
      BY <1>10 DEF DInv, CleanInv
    <2> QED
      BY <1>2, <1>5, <2>1 DEF Finalizes
  <1> QED
    BY <1>2, <1>3, <1>8, <1>9, <1>10 DEF CleanInv, Busy, Cleaning

(* When the list is empty nothing of the id is left. *)
LEMMA SweptAfterList ==
    ASSUME IInv, DInv, NEW p \in Procs, SyncRecordsDir(p)
    PROVE  CleanInv'
  <1>1. /\ pc[p] \in {"finalize", "rollback"} /\ todo[p] = <<>> /\ pid[p] \in Pids
        /\ pc'[p] = "sync_snapshots" /\ \A o \in Procs \ {p} : pc'[o] = pc[o]
        /\ UNCHANGED <<fs, predictions, pid>>
    BY DEF SyncRecordsDir, Sync, Go, IInv, TypeInv, TypeOK, AttemptOK, HasPid, tables, attempt
  <1>2. \A o \in Procs \ {p} : pc'[o] \notin Busy
    BY <1>1, OneBusy DEF Locked, Cleaning
  <1>3. \A x \in Volatile(pid[p]) : fs[pid[p]][x] # "own"
    <2>1. CASE pc[p] = "rollback"
      <3>1. Covers(<<>>, pid[p])
        BY <1>1, <2>1 DEF DInv, CleanInv, RollsBack
      <3> QED
        BY <3>1 DEF Covers, Has
    <2>2. CASE pc[p] = "finalize"
      <3>1. pid[p] \in predictions
        BY <2>2 DEF DInv, CleanInv, Finalizes
      <3>2. Volatile(pid[p]) = Temps
        BY <3>1 DEF Volatile, Staged, Artifacts, Temps
      <3> QED
        BY <1>1, <3>1, <3>2
        DEF DInv, TempsInv, SurviveInv, Temps, Paths, RecordsDir, SnapshotsDir
    <2> QED
      BY <1>1, <2>1, <2>2
  <1>4. \A x \in RecordsDir : survive'[pid[p]][x] = {fs[pid[p]][x]}
    BY <1>1 DEF SyncRecordsDir, Sync, Paths
  <1>5. Swept(pid[p])'
    BY <1>1, <1>3, <1>4 DEF Swept, Volatile
  <1> QED
    BY <1>1, <1>2, <1>5 DEF CleanInv, Busy, Cleaning

(* An editor removes files or replaces them by its own. *)
LEMMA EditClean ==
    ASSUME IInv, DInv, NEW q \in Pids, NEW x \in Artifacts, NEW c \in {"none", "foreign"}, Edit(q, x, c)
    PROVE  CleanInv'
  <1>1. /\ \A r \in Pids, y \in Paths : fs'[r][y] = "own" => fs[r][y] = "own"
        /\ \A r \in Pids, y \in Paths : y \notin Artifacts => fs'[r][y] = fs[r][y]
        /\ \A r \in Pids, y \in Paths : "own" \in survive'[r][y] => "own" \in survive[r][y]
        /\ UNCHANGED <<predictions, cleaned, pc, pid, todo>>
    BY DEF Edit, Set, Unsettled, IInv, TypeInv, TypeOK, DInv, SurviveInv, tables, attempt
  <1>2. \A r \in Pids : Volatile(r) \subseteq Paths /\ Volatile(r)' = Volatile(r)
    BY <1>1 DEF Volatile, Staged, Artifacts, Paths, RecordsDir, SnapshotsDir
  <1>3. ASSUME NEW list, NEW r \in Pids, Covers(list, r)
        PROVE  \A y \in Volatile(r) : fs'[r][y] = "own" => Has(list, <<r, y>>)
    <2> SUFFICES ASSUME NEW y \in Volatile(r), fs'[r][y] = "own" PROVE Has(list, <<r, y>>)
      OBVIOUS
    <2>1. fs[r][y] = "own"
      BY <1>1, <1>2
    <2> QED
      BY <1>3, <2>1 DEF Covers
  <1>4. ASSUME NEW p \in Procs, pc[p] = "rollback" PROVE RollsBack(p)'
    <2>1. RollsBack(p) /\ pid[p] \in Pids
      BY <1>4 DEF DInv, CleanInv, IInv, TypeInv, AttemptOK, HasPid
    <2> QED
      BY <1>1, <1>2, <1>3, <2>1 DEF RollsBack, Covers
  <1>5. ASSUME NEW p \in Procs, pc[p] = "recover", todo[p] # <<>> PROVE \E r \in Pids : Recovers(p, r)'
    <2>1. PICK r \in Pids : Recovers(p, r)
      BY <1>5 DEF DInv, CleanInv
    <2>2. fs'[r]["manifest"] = "own"
      <3>1. "manifest" \in Paths /\ "manifest" \notin Artifacts
        BY DEF Paths, SnapshotsDir, Artifacts
      <3>2. fs'[r]["manifest"] = fs[r]["manifest"]
        BY <1>1, <3>1
      <3> QED
        BY <2>1, <3>2 DEF Recovers
    <2>3. Covers(todo[p], r)'
      BY <1>1, <1>2, <1>3, <2>1 DEF Recovers, Covers
    <2>4. Recovers(p, r)'
      BY <1>1, <2>1, <2>2, <2>3 DEF Recovers
    <2> QED
      BY <2>4
  <1>6. ASSUME NEW p \in Procs, pc[p] = "finalize" PROVE Finalizes(p)'
    BY <1>1, <1>6 DEF Finalizes, DInv, CleanInv
  <1>7. ASSUME NEW p \in Procs, pc[p] = "sync_snapshots" PROVE Swept(pid[p])'
    <2>1. Swept(pid[p]) /\ pid[p] \in Pids
      BY <1>7 DEF DInv, CleanInv, IInv, TypeInv, AttemptOK, HasPid
    <2>2. ASSUME NEW y \in Volatile(pid[p])
          PROVE  fs'[pid[p]][y] # "own" /\ (y \in RecordsDir => "own" \notin survive'[pid[p]][y])
      <3>1. y \in Paths
        BY <1>2, <2>1
      <3>2. fs[pid[p]][y] # "own" /\ (y \in RecordsDir => "own" \notin survive[pid[p]][y])
        BY <2>1 DEF Swept
      <3> QED
        BY <1>1, <2>1, <3>1, <3>2
    <2> QED
      BY <1>1, <1>2, <2>1, <2>2 DEF Swept
  <1> QED
    BY <1>1, <1>4, <1>5, <1>6, <1>7 DEF CleanInv

(* Recovery keeps to its pass while somebody else steps. *)
LEMMA PassKept ==
    ASSUME IInv, DInv, \A q \in Pids : fs'[q]["manifest"] = fs[q]["manifest"],
           \A o \in Procs : \/ pc'[o] # "recover"
                            \/ pc'[o] = pc[o] /\ todo'[o] = todo[o] /\ manifests'[o] = manifests[o]
    PROVE  PassInv'
  BY DEF PassInv, DInv, IInv, TypeInv, TypeOK

(* Recovery follows a manifest that is there and takes it off its pass.    *)
LEMMA PassAdvances ==
    ASSUME IInv, DInv, NEW p \in Procs, RecoverManifest(p)
    PROVE  PassInv'
  <1>1. PICK q \in manifests[p] : /\ manifests' = [manifests EXCEPT ![p] = @ \ {q}]
                                  /\ todo' = [todo EXCEPT ![p] = RecoveryList(q)]
    BY DEF RecoverManifest
  <1>2. UNCHANGED <<fs, pc>> /\ pc[p] = "recover"
    BY DEF RecoverManifest, disk
  <1>3. /\ manifests'[p] = manifests[p] \ {q} /\ todo'[p] = RecoveryList(q)
        /\ \A r \in manifests[p] : fs[r]["manifest"] = "own"
    BY <1>1, <1>2 DEF IInv, TypeInv, TypeOK, DInv, PassInv
  <1>4. \A o \in Procs \ {p} : pc[o] # "recover"
    BY <1>2, OneBusy DEF Locked, Cleaning, Busy
  <1>5. \A i \in DOMAIN RecoveryList(q) : RecoveryList(q)[i][1] = q
    BY RecoveryListCovers
  <1> QED
    BY <1>2, <1>3, <1>4, <1>5 DEF PassInv

(* What recovery removes belongs to no manifest it has still to follow.    *)
LEMMA PassRemoves ==
    ASSUME IInv, DInv, NEW p \in Procs, Remove(p)
    PROVE  PassInv'
  <1>1. PICK q \in Pids, x \in Paths : Removes(p, q, x)
    BY RemoveEffect
  <1>2. /\ todo[p][1] = <<q, x>> /\ 1 \in DOMAIN todo[p] /\ Len(todo[p]) \in Nat \ {0}
        /\ todo[p] \in Seq(Pids \X Paths) /\ todo'[p] \in Seq(Pids \X Paths)
        /\ Len(todo'[p]) = Len(todo[p]) - 1
        /\ \A i \in 1..Len(todo'[p]) : todo'[p][i] = todo[p][i + 1]
        /\ pc' = pc /\ pc[p] \in Cleaning
    BY <1>1 DEF Removes
  <1>3. \A o \in Procs \ {p} : pc[o] # "recover"
    BY <1>2, OneBusy DEF Locked, Cleaning, Busy
  <1>4. ASSUME pc[p] = "recover"
        PROVE  /\ \A r \in manifests[p] : fs'[r]["manifest"] = "own"
               /\ \A i \in DOMAIN todo'[p] : todo'[p][i][1] \notin manifests[p]
    <2>1. /\ \A r \in manifests[p] : fs[r]["manifest"] = "own" /\ r \in Pids
          /\ \A i \in DOMAIN todo[p] : todo[p][i][1] \notin manifests[p]
      BY <1>4 DEF DInv, PassInv, IInv, TypeInv, TypeOK
    <2>2. todo[p][1][1] = q
      BY <1>2
    <2>3. q \notin manifests[p]
      BY <1>2, <2>1, <2>2
    <2>4. ASSUME NEW r \in manifests[p] PROVE fs'[r]["manifest"] = "own"
      <3>1. r \in Pids /\ "manifest" \in Paths /\ <<r, "manifest">> # <<q, x>>
        BY <2>1, <2>3 DEF Paths, SnapshotsDir
      <3> QED
        BY <1>1, <2>1, <3>1 DEF Removes
    <2>5. ASSUME NEW i \in DOMAIN todo'[p] PROVE todo'[p][i][1] \notin manifests[p]
      <3>1. i \in 1..Len(todo'[p]) /\ i + 1 \in DOMAIN todo[p]
        BY <1>2
      <3> QED
        BY <1>2, <2>1, <3>1
    <2> QED
      BY <2>4, <2>5
  <1>5. manifests' = manifests
    BY DEF Remove, attempt
  <1> QED
    BY <1>2, <1>3, <1>4, <1>5 DEF PassInv

(* The manifests of a recovery's pass stay until it comes to them. *)
LEMMA PassStep == IInv /\ IInv' /\ DInv /\ [Next]_vars => PassInv'
  <1> SUFFICES ASSUME IInv, IInv', DInv, [Next]_vars PROVE PassInv'
    OBVIOUS
  <1> USE DEF Locked, Looking, Staging, Cleaning, Busy, Go, disk, tables, attempt, TypeInv, TypeOK
  <1>1. ASSUME NEW p \in Procs, Quiet(p) PROVE PassInv'
    BY <1>1, PassKept DEF Quiet, Watched
  <1>2. ASSUME NEW p \in Procs, RecoverTmps(p) PROVE PassInv'
    <2>0. pc[p] = "recover_tmp" /\ todo[p] = <<>>
      BY <1>2 DEF RecoverTmps, IInv, TodoInv
    <2>1. /\ pc[p] = "recover_tmp" /\ todo'[p] = <<>> /\ \A o \in Procs \ {p} : pc'[o] = pc[o]
          /\ manifests'[p] = {q \in Pids : fs[q]["manifest"] = "own"}
          /\ \A q \in Pids : fs'[q]["manifest"] = fs[q]["manifest"]
      BY <1>2, <2>0 DEF RecoverTmps, IInv, Paths, SnapshotsDir
    <2>2. \A o \in Procs \ {p} : pc'[o] # "recover"
      BY <2>1, OneBusy
    <2> QED
      BY <2>1, <2>2 DEF PassInv
  <1>3. ASSUME NEW p \in Procs, RecoverManifest(p) PROVE PassInv'
    BY <1>3, PassAdvances
  <1>4. ASSUME NEW p \in Procs, StageNew(p) PROVE PassInv'
    <2>1. \A o \in Procs : pc'[o] # "recover"
      BY <1>4, OneBusy DEF StageNew, DiskStep, IInv
    <2> QED
      BY <2>1 DEF PassInv
  <1>5. ASSUME NEW p \in Procs, WriteManifestTmp(p) PROVE PassInv'
    <2>1. \A o \in Procs : pc'[o] # "recover"
      BY <1>5, OneBusy DEF WriteManifestTmp, DiskStep, IInv
    <2> QED
      BY <2>1 DEF PassInv
  <1>6. ASSUME NEW p \in Procs, RenameManifest(p) PROVE PassInv'
    <2>1. \A o \in Procs : pc'[o] # "recover"
      BY <1>6, OneBusy DEF RenameManifest, DiskStep, IInv
    <2> QED
      BY <2>1 DEF PassInv
  <1>7. ASSUME NEW p \in Procs, SyncManifest(p) PROVE PassInv'
    <2>1. \A o \in Procs : pc'[o] # "recover"
      BY <1>7, OneBusy DEF SyncManifest, DiskStep, IInv
    <2> QED
      BY <2>1 DEF PassInv
  <1>8. ASSUME NEW p \in Procs, WriteSnapshotTemp(p) PROVE PassInv'
    <2>1. \A o \in Procs : pc'[o] # "recover"
      BY <1>8, OneBusy DEF WriteSnapshotTemp, DiskStep, IInv
    <2> QED
      BY <2>1 DEF PassInv
  <1>9. ASSUME NEW p \in Procs, WriteRecordTemp(p) PROVE PassInv'
    <2>1. \A o \in Procs : pc'[o] # "recover"
      BY <1>9, OneBusy DEF WriteRecordTemp, DiskStep, IInv
    <2> QED
      BY <2>1 DEF PassInv
  <1>10. ASSUME NEW p \in Procs, LinkSnapshot(p) PROVE PassInv'
    <2>1. \A o \in Procs : pc'[o] # "recover"
      BY <1>10, OneBusy DEF LinkSnapshot, Link, DiskStep, IInv
    <2> QED
      BY <2>1 DEF PassInv
  <1>11. ASSUME NEW p \in Procs, LinkRecord(p) PROVE PassInv'
    <2>1. \A o \in Procs : pc'[o] # "recover"
      BY <1>11, OneBusy DEF LinkRecord, Link, DiskStep, IInv
    <2> QED
      BY <2>1 DEF PassInv
  <1>12. ASSUME NEW p \in Procs, SnapshotCollides(p) PROVE PassInv'
    <2>1. \A o \in Procs : pc'[o] # "recover"
      BY <1>12, OneBusy DEF SnapshotCollides, LinkCollides, StartRollback, IInv
    <2> QED
      BY <2>1 DEF PassInv
  <1>13. ASSUME NEW p \in Procs, RecordCollides(p) PROVE PassInv'
    <2>1. \A o \in Procs : pc'[o] # "recover"
      BY <1>13, OneBusy DEF RecordCollides, LinkCollides, StartRollback, IInv
    <2> QED
      BY <2>1 DEF PassInv
  <1>14. ASSUME NEW p \in Procs, FlagSnapshot(p) PROVE PassInv'
    <2>1. \A o \in Procs : pc'[o] # "recover"
      BY <1>14, OneBusy DEF FlagSnapshot, Flag, DiskStep, IInv
    <2> QED
      BY <2>1 DEF PassInv
  <1>15. ASSUME NEW p \in Procs, FlagRecord(p) PROVE PassInv'
    <2>1. \A o \in Procs : pc'[o] # "recover"
      BY <1>15, OneBusy DEF FlagRecord, Flag, DiskStep, IInv
    <2> QED
      BY <2>1 DEF PassInv
  <1>16. ASSUME NEW p \in Procs, UnlinkSnapshotTemp(p) PROVE PassInv'
    <2>1. \A o \in Procs : pc'[o] # "recover"
      BY <1>16, OneBusy DEF UnlinkSnapshotTemp, UnlinkTemp, DiskStep, IInv
    <2> QED
      BY <2>1 DEF PassInv
  <1>17. ASSUME NEW p \in Procs, UnlinkRecordTemp(p) PROVE PassInv'
    <2>1. \A o \in Procs : pc'[o] # "recover"
      BY <1>17, OneBusy DEF UnlinkRecordTemp, UnlinkTemp, DiskStep, IInv
    <2> QED
      BY <2>1 DEF PassInv
  <1>18. ASSUME NEW p \in Procs, SyncSnapshot(p) PROVE PassInv'
    <2>1. \A o \in Procs : pc'[o] # "recover"
      BY <1>18, OneBusy DEF SyncSnapshot, SyncPublished, DiskStep, IInv
    <2> QED
      BY <2>1 DEF PassInv
  <1>19. ASSUME NEW p \in Procs, SyncRecord(p) PROVE PassInv'
    <2>1. \A o \in Procs : pc'[o] # "recover"
      BY <1>19, OneBusy DEF SyncRecord, SyncPublished, DiskStep, IInv
    <2> QED
      BY <2>1 DEF PassInv
  <1>20. ASSUME NEW p \in Procs, Commit(p) PROVE PassInv'
    <2>1. \A o \in Procs : pc'[o] # "recover"
      BY <1>20, OneBusy DEF Commit, IInv
    <2> QED
      BY <2>1 DEF PassInv
  <1>21. ASSUME NEW p \in Procs, DoubtCommitted(p) PROVE PassInv'
    <2>1. \A o \in Procs : pc'[o] # "recover"
      BY <1>21, OneBusy DEF DoubtCommitted, IInv
    <2> QED
      BY <2>1 DEF PassInv
  <1>22. ASSUME NEW p \in Procs, DoubtUncommitted(p) PROVE PassInv'
    <2>1. \A o \in Procs : pc'[o] # "recover"
      BY <1>22, OneBusy DEF DoubtUncommitted, StartRollback, IInv
    <2> QED
      BY <2>1 DEF PassInv
  <1>23. ASSUME NEW p \in Procs, Remove(p) PROVE PassInv'
    BY <1>23, PassRemoves
  <1>24. ASSUME NEW p \in Procs, SyncRecordsDir(p) PROVE PassInv'
    <2>1. \A o \in Procs : pc'[o] # "recover"
      BY <1>24, OneBusy DEF SyncRecordsDir, IInv
    <2> QED
      BY <2>1 DEF PassInv
  <1>25. ASSUME NEW p \in Procs, SyncSnapshotsDir(p) PROVE PassInv'
    <2>1. \A o \in Procs : pc'[o] # "recover"
      BY <1>25, OneBusy DEF SyncSnapshotsDir, IInv
    <2> QED
      BY <2>1 DEF PassInv
  <1>26. ASSUME NEW p \in Procs, StageRaises(p) PROVE PassInv'
    <2>1. \A o \in Procs : pc'[o] # "recover"
      BY <1>26, OneBusy DEF StageRaises, StartRollback, Fault, IInv
    <2> QED
      BY <2>1 DEF PassInv
  <1>27. ASSUME NEW p \in Procs, CommitLands(p) PROVE PassInv'
    <2>1. \A o \in Procs : pc'[o] # "recover"
      BY <1>27, OneBusy DEF CommitLands, InDoubt, Fault, IInv
    <2> QED
      BY <2>1 DEF PassInv
  <1>28. ASSUME NEW p \in Procs, CommitFails(p) PROVE PassInv'
    <2>1. \A o \in Procs : pc'[o] # "recover"
      BY <1>28, OneBusy DEF CommitFails, InDoubt, Fault, IInv
    <2> QED
      BY <2>1 DEF PassInv
  <1>29. ASSUME NEW q \in Pids, NEW x \in Artifacts, NEW c \in {"none", "foreign"}, Edit(q, x, c)
        PROVE  PassInv'
    <2>1. \A r \in Pids : fs'[r]["manifest"] = fs[r]["manifest"]
      BY <1>29 DEF Edit, Set, Artifacts, IInv
    <2> QED
      BY <1>29, <2>1, PassKept DEF Edit
  <1>30. ASSUME NEW C \in SUBSET Cells, Touch(C) PROVE PassInv'
    BY <1>30, PassKept DEF Touch
  <1>31. CASE MachineCrash
    BY <1>31, CrashEffect DEF PassInv
  <1>32. CASE UNCHANGED vars
    BY <1>32, PassKept DEF vars
  <1> HIDE DEF Locked, Looking, Staging, Cleaning, Busy, Go, disk, tables, attempt, TypeInv, TypeOK
  <1> QED
    BY QuietSteps, <1>1, <1>2, <1>3, <1>4, <1>5, <1>6, <1>7, <1>8, <1>9,
       <1>10, <1>11, <1>12, <1>13, <1>14, <1>15, <1>16, <1>17, <1>18, <1>19, <1>20,
       <1>21, <1>22, <1>23, <1>24, <1>25, <1>26, <1>27, <1>28, <1>29, <1>30, <1>31,
       <1>32
    DEF Next, Progress, Recover, Select, Lookup, Stage, Publish, Finish, Faulty

(* What a clean-up has to remove stays on its list. *)
LEMMA CleanStep == IInv /\ IInv' /\ DInv /\ [Next]_vars => CleanInv'
  <1> SUFFICES ASSUME IInv, IInv', DInv, [Next]_vars PROVE CleanInv'
    OBVIOUS
  <1> USE DEF Locked, Looking, Staging, Cleaning, Busy, Go, disk, tables, attempt,
          history, TypeInv, TypeOK
  <1>1. ASSUME NEW p \in Procs, Quiet(p) PROVE CleanInv'
    <2>1. /\ UNCHANGED <<fs, survive, predictions, cleaned>>
          /\ \A o \in Procs : \/ pc'[o] \notin Busy
                              \/ pc'[o] = pc[o] /\ pid'[o] = pid[o] /\ todo'[o] = todo[o]
      BY <1>1 DEF Quiet, Watched, Busy
    <2> QED
      BY <2>1, CleanKept
  <1>2. ASSUME NEW p \in Procs, RecoverTmps(p) PROVE CleanInv'
    <2>1. /\ pc'[p] = "recover" /\ todo'[p] = <<>>
          /\ \A o \in Procs \ {p} : pc'[o] \notin Busy
      BY <1>2, OneBusy DEF RecoverTmps, DiskStep, IInv, TodoInv
    <2> QED
      BY <2>1 DEF CleanInv, Busy, Cleaning
  <1>3. ASSUME NEW p \in Procs, RecoverManifest(p) PROVE CleanInv'
    BY <1>3, RecoveryStarts
  <1>4. ASSUME NEW p \in Procs, StageNew(p) PROVE CleanInv'
    <2>1. \A o \in Procs : pc'[o] \notin Busy
      BY <1>4, OneBusy DEF StageNew, DiskStep
    <2> QED
      BY <2>1 DEF CleanInv, Busy, Cleaning
  <1>5. ASSUME NEW p \in Procs, WriteManifestTmp(p) PROVE CleanInv'
    <2>1. \A o \in Procs : pc'[o] \notin Busy
      BY <1>5, OneBusy DEF WriteManifestTmp, DiskStep, Set, Sync
    <2> QED
      BY <2>1 DEF CleanInv, Busy, Cleaning
  <1>6. ASSUME NEW p \in Procs, RenameManifest(p) PROVE CleanInv'
    <2>1. \A o \in Procs : pc'[o] \notin Busy
      BY <1>6, OneBusy DEF RenameManifest, DiskStep, Set, Sync
    <2> QED
      BY <2>1 DEF CleanInv, Busy, Cleaning
  <1>7. ASSUME NEW p \in Procs, SyncManifest(p) PROVE CleanInv'
    <2>1. \A o \in Procs : pc'[o] \notin Busy
      BY <1>7, OneBusy DEF SyncManifest, DiskStep, Set, Sync
    <2> QED
      BY <2>1 DEF CleanInv, Busy, Cleaning
  <1>8. ASSUME NEW p \in Procs, WriteSnapshotTemp(p) PROVE CleanInv'
    <2>1. \A o \in Procs : pc'[o] \notin Busy
      BY <1>8, OneBusy DEF WriteSnapshotTemp, DiskStep, Set, Sync
    <2> QED
      BY <2>1 DEF CleanInv, Busy, Cleaning
  <1>9. ASSUME NEW p \in Procs, WriteRecordTemp(p) PROVE CleanInv'
    <2>1. \A o \in Procs : pc'[o] \notin Busy
      BY <1>9, OneBusy DEF WriteRecordTemp, DiskStep, Set, Sync
    <2> QED
      BY <2>1 DEF CleanInv, Busy, Cleaning
  <1>10. ASSUME NEW p \in Procs, LinkSnapshot(p) PROVE CleanInv'
    <2>1. \A o \in Procs : pc'[o] \notin Busy
      BY <1>10, OneBusy DEF LinkSnapshot, Link, DiskStep, Set
    <2> QED
      BY <2>1 DEF CleanInv, Busy, Cleaning
  <1>11. ASSUME NEW p \in Procs, LinkRecord(p) PROVE CleanInv'
    <2>1. \A o \in Procs : pc'[o] \notin Busy
      BY <1>11, OneBusy DEF LinkRecord, Link, DiskStep, Set
    <2> QED
      BY <2>1 DEF CleanInv, Busy, Cleaning
  <1>12. ASSUME NEW p \in Procs, SnapshotCollides(p) PROVE CleanInv'
    BY <1>12, RollbackStarts DEF SnapshotCollides, LinkCollides
  <1>13. ASSUME NEW p \in Procs, RecordCollides(p) PROVE CleanInv'
    BY <1>13, RollbackStarts DEF RecordCollides, LinkCollides
  <1>14. ASSUME NEW p \in Procs, FlagSnapshot(p) PROVE CleanInv'
    <2>1. \A o \in Procs : pc'[o] \notin Busy
      BY <1>14, OneBusy DEF FlagSnapshot, Flag, DiskStep
    <2> QED
      BY <2>1 DEF CleanInv, Busy, Cleaning
  <1>15. ASSUME NEW p \in Procs, FlagRecord(p) PROVE CleanInv'
    <2>1. \A o \in Procs : pc'[o] \notin Busy
      BY <1>15, OneBusy DEF FlagRecord, Flag, DiskStep
    <2> QED
      BY <2>1 DEF CleanInv, Busy, Cleaning
  <1>16. ASSUME NEW p \in Procs, UnlinkSnapshotTemp(p) PROVE CleanInv'
    <2>1. \A o \in Procs : pc'[o] \notin Busy
      BY <1>16, OneBusy DEF UnlinkSnapshotTemp, UnlinkTemp, DiskStep, Set
    <2> QED
      BY <2>1 DEF CleanInv, Busy, Cleaning
  <1>17. ASSUME NEW p \in Procs, UnlinkRecordTemp(p) PROVE CleanInv'
    <2>1. \A o \in Procs : pc'[o] \notin Busy
      BY <1>17, OneBusy DEF UnlinkRecordTemp, UnlinkTemp, DiskStep, Set
    <2> QED
      BY <2>1 DEF CleanInv, Busy, Cleaning
  <1>18. ASSUME NEW p \in Procs, SyncSnapshot(p) PROVE CleanInv'
    <2>1. \A o \in Procs : pc'[o] \notin Busy
      BY <1>18, OneBusy DEF SyncSnapshot, SyncPublished, DiskStep, Sync
    <2> QED
      BY <2>1 DEF CleanInv, Busy, Cleaning
  <1>19. ASSUME NEW p \in Procs, SyncRecord(p) PROVE CleanInv'
    <2>1. \A o \in Procs : pc'[o] \notin Busy
      BY <1>19, OneBusy DEF SyncRecord, SyncPublished, DiskStep, Sync
    <2> QED
      BY <2>1 DEF CleanInv, Busy, Cleaning
  <1>20. ASSUME NEW p \in Procs, Commit(p) PROVE CleanInv'
    BY <1>20, FinalizeStarts DEF Commit, CommitRows
  <1>21. ASSUME NEW p \in Procs, DoubtCommitted(p) PROVE CleanInv'
    BY <1>21, FinalizeStarts DEF DoubtCommitted
  <1>22. ASSUME NEW p \in Procs, DoubtUncommitted(p) PROVE CleanInv'
    BY <1>22, RollbackStarts DEF DoubtUncommitted
  <1>23. ASSUME NEW p \in Procs, Remove(p) PROVE CleanInv'
    BY <1>23, RemoveClean
  <1>24. ASSUME NEW p \in Procs, SyncRecordsDir(p) PROVE CleanInv'
    BY <1>24, SweptAfterList
  <1>25. ASSUME NEW p \in Procs, SyncSnapshotsDir(p) PROVE CleanInv'
    <2>1. pc[p] = "sync_snapshots" /\ pc'[p] = "leave" /\ \A o \in Procs \ {p} : pc'[o] = pc[o]
      BY <1>25 DEF SyncSnapshotsDir, IInv
    <2>2. \A o \in Procs : pc'[o] \notin Busy
      BY <2>1, OneBusy
    <2> QED
      BY <2>2 DEF CleanInv
  <1>26. ASSUME NEW p \in Procs, StageRaises(p) PROVE CleanInv'
    BY <1>26, RollbackStarts DEF StageRaises, Fault
  <1>27. ASSUME NEW p \in Procs, CommitLands(p) PROVE CleanInv'
    <2>1. \A o \in Procs : pc'[o] \notin Busy
      BY <1>27, OneBusy DEF CommitLands, InDoubt, CommitRows, Fault
    <2> QED
      BY <2>1 DEF CleanInv, Busy, Cleaning
  <1>28. ASSUME NEW p \in Procs, CommitFails(p) PROVE CleanInv'
    <2>1. \A o \in Procs : pc'[o] \notin Busy
      BY <1>28, OneBusy DEF CommitFails, InDoubt, Fault
    <2> QED
      BY <2>1 DEF CleanInv, Busy, Cleaning
  <1>29. ASSUME NEW q \in Pids, NEW x \in Artifacts, NEW c \in {"none", "foreign"}, Edit(q, x, c)
        PROVE  CleanInv'
    BY <1>29, EditClean
  <1>30. ASSUME NEW C \in SUBSET Cells, Touch(C) PROVE CleanInv'
    BY <1>30, CleanKept DEF Touch
  <1>31. CASE MachineCrash
    BY <1>31, CrashEffect DEF CleanInv
  <1>32. CASE UNCHANGED vars
    BY <1>32, CleanKept DEF vars
  <1> HIDE DEF Locked, Looking, Staging, Cleaning, Busy, Go, disk, tables, attempt,
          history, TypeInv, TypeOK
  <1> QED
    BY QuietSteps, <1>1, <1>2, <1>3, <1>4, <1>5, <1>6, <1>7, <1>8, <1>9,
       <1>10, <1>11, <1>12, <1>13, <1>14, <1>15, <1>16, <1>17, <1>18, <1>19, <1>20,
       <1>21, <1>22, <1>23, <1>24, <1>25, <1>26, <1>27, <1>28, <1>29, <1>30, <1>31,
       <1>32
    DEF Next, Progress, Recover, Select, Lookup, Stage, Publish, Finish, Faulty

(* Debris is on disk, and committed predictions leave none behind.         *)
LEMMA DebrisFacts ==
    ASSUME IInv, DInv, NEW q \in Pids, NEW x \in Volatile(q)
    PROVE  /\ x \in Paths /\ x \in Staged /\ x # "manifest" /\ x # "manifest_tmp"
           /\ q \in predictions => survive[q][x] = {"none"} /\ fs[q][x] = "none"
  <1>1. x \in Paths /\ x \in Staged /\ x # "manifest" /\ x # "manifest_tmp"
    BY DEF Volatile, Staged, Artifacts, Paths, RecordsDir, SnapshotsDir
  <1>2. q \in predictions => x \in Temps
    BY DEF Volatile, Staged, Artifacts, Temps
  <1> QED
    BY <1>1, <1>2 DEF DInv, TempsInv, SurviveInv

(* A removal takes the manifest of an id that is being cleaned, or that is *)
(* committed.                                                              *)
LEMMA RemovesFrom ==
    ASSUME IInv, DInv, NEW p \in Procs, NEW q \in Pids, NEW x \in Paths, Removes(p, q, x)
    PROVE  /\ q \in cleaned \cup predictions
           /\ pc[p] = "rollback" => q = pid[p]
  <1>1. 1 \in DOMAIN todo[p] /\ todo[p][1] = <<q, x>> /\ pc[p] \in Cleaning /\ todo[p] # <<>>
    <2>1. /\ 1 \in DOMAIN todo[p] /\ todo[p][1] = <<q, x>> /\ pc[p] \in Cleaning
          /\ Len(todo[p]) \in Nat \ {0}
      BY DEF Removes
    <2> QED
      BY <2>1
  <1>2. todo[p][1][1] = q
    BY <1>1
  <1>3. CASE pc[p] = "rollback"
    BY <1>1, <1>2, <1>3 DEF DInv, CleanInv, RollsBack
  <1>4. CASE pc[p] = "finalize"
    BY <1>1, <1>2, <1>4 DEF DInv, CleanInv, Finalizes
  <1>5. CASE pc[p] = "recover"
    <2>1. PICK r \in Pids : Recovers(p, r)
      BY <1>1, <1>5 DEF DInv, CleanInv
    <2> QED
      BY <1>1, <1>2, <1>5, <2>1 DEF Recovers
  <1> QED
    BY <1>1, <1>3, <1>4, <1>5 DEF Cleaning

(* A removed manifest leaves nothing that could come back unnoticed.       *)
LEMMA RemoveDurable ==
    ASSUME IInv, DInv, NEW p \in Procs, Remove(p)
    PROVE  DurableInv'
  <1>1. PICK q \in Pids, x \in Paths : Removes(p, q, x)
    BY RemoveEffect
  <1>2. UNCHANGED <<predictions, cleaned, torn, undone>>
    BY <1>1 DEF Removes
  <1>3. \A r \in Pids, y \in Paths : survive'[r][y] = survive[r][y] \cup {fs'[r][y]}
    BY <1>1 DEF Removes
  <1>4. ASSUME NEW r \in Pids, NEW y \in Paths, y \in Volatile(r), "own" \in survive'[r][y]
        PROVE  survive'[r]["manifest"] = {"own"} \/ r \in cleaned \cup torn \cup undone
    <2>1. "own" \in survive[r][y]
      <3>1. fs'[r][y] = "own" => fs[r][y] = "own"
        BY <1>1 DEF Removes
      <3> QED
        BY <1>3, <1>4, <3>1 DEF DInv, SurviveInv
    <2>2. r \notin predictions
      BY <1>4, <2>1, DebrisFacts
    <2>3. survive[r]["manifest"] = {"own"} \/ r \in cleaned \cup torn \cup undone
      BY <1>4, <2>1 DEF DInv, DurableInv
    <2>4. CASE r = q
      BY <1>1, <2>2, <2>4, RemovesFrom
    <2>5. CASE r # q
      <3>1. "manifest" \in Paths /\ <<r, "manifest">> # <<q, x>>
        BY <2>5 DEF Paths, SnapshotsDir
      <3>2. fs'[r]["manifest"] = fs[r]["manifest"]
        BY <1>1, <3>1 DEF Removes
      <3>3. fs[r]["manifest"] \in survive[r]["manifest"]
        BY <3>1 DEF DInv, SurviveInv
      <3>4. survive'[r]["manifest"] = survive[r]["manifest"] \cup {fs[r]["manifest"]}
        BY <1>3, <3>1, <3>2
      <3> QED
        BY <2>3, <3>3, <3>4
    <2> QED
      BY <2>4, <2>5
  <1> QED
    BY <1>2, <1>4 DEF DurableInv, Volatile

(* The removal of a manifest is the last of its list, or a rollback's.     *)
LEMMA RemoveManifest ==
    ASSUME IInv, DInv, NEW p \in Procs, Remove(p)
    PROVE  ManifestInv'
  <1>1. PICK q \in Pids, x \in Paths : Removes(p, q, x)
    BY RemoveEffect
  <1>2. UNCHANGED <<predictions, torn, undone, pc, pid>>
    BY <1>1 DEF Removes
  <1>3. ASSUME NEW r \in Pids, NEW y \in Paths, y \in Volatile(r), fs'[r][y] = "own"
        PROVE  fs'[r]["manifest"] = "own" \/ BeingRemoved(r) \/ r \in torn \cup undone
    <2>1. fs[r][y] = "own" /\ <<r, y>> # <<q, x>>
      BY <1>1, <1>3 DEF Removes
    <2>2. fs[r]["manifest"] = "own" \/ BeingRemoved(r) \/ r \in torn \cup undone
      BY <1>3, <2>1 DEF DInv, ManifestInv
    <2>3. CASE <<r, "manifest">> # <<q, x>>
      BY <1>1, <2>2, <2>3 DEF Removes, Paths, SnapshotsDir
    <2>4. CASE <<r, "manifest">> = <<q, x>>
      <3>1. r = q /\ x = "manifest" /\ r \notin predictions /\ y # "manifest"
        BY <1>3, <2>1, <2>4, DebrisFacts
      <3>2. /\ todo[p][1] = <<q, x>> /\ pc[p] \in Cleaning /\ todo[p] \in Seq(Pids \X Paths)
            /\ Len(todo[p]) \in Nat \ {0} /\ 1 \in DOMAIN todo[p]
        BY <1>1 DEF Removes
      <3>3. CASE pc[p] = "rollback"
        BY <1>1, <3>1, <3>3, RemovesFrom DEF BeingRemoved
      <3>4. CASE pc[p] = "finalize"
        <4>1. todo[p][1][1] = q
          BY <3>2
        <4> QED
          BY <3>1, <3>2, <3>4, <4>1 DEF DInv, CleanInv, Finalizes
      <3>5. CASE pc[p] = "recover"
        <4>1. todo[p] # <<>> /\ todo[p][1][1] = q /\ todo[p][1][2] = "manifest"
          BY <3>1, <3>2
        <4>2. PICK s \in Pids : Recovers(p, s)
          BY <3>5, <4>1 DEF DInv, CleanInv
        <4>3. s = q /\ ~(1 < Len(todo[p]))
          BY <3>2, <4>1, <4>2 DEF Recovers
        <4>4. Has(todo[p], <<q, y>>)
          BY <1>3, <2>1, <3>1, <4>2, <4>3 DEF Recovers, Covers
        <4>5. PICK i \in DOMAIN todo[p] : todo[p][i] = <<q, y>>
          BY <4>4 DEF Has
        <4>6. i = 1
          BY <3>2, <4>3, <4>5
        <4> QED
          BY <3>1, <3>2, <4>5, <4>6
      <3> QED
        BY <3>2, <3>3, <3>4, <3>5 DEF Cleaning
    <2> QED
      BY <2>3, <2>4
  <1>4. \A r \in Pids : BeingRemoved(r)' <=> BeingRemoved(r)
    BY <1>2 DEF BeingRemoved
  <1> QED
    BY <1>2, <1>3, <1>4 DEF ManifestInv, Volatile

(* A rollback that is left with nothing on its list has removed everything. *)
LEMMA EmptyList ==
    ASSUME IInv, DInv, NEW p \in Procs, pc[p] = "rollback", todo[p] = <<>>
    PROVE  \A x \in Volatile(pid[p]) : fs[pid[p]][x] # "own"
  <1>1. Covers(<<>>, pid[p])
    BY DEF DInv, CleanInv, RollsBack
  <1> QED
    BY <1>1 DEF Covers, Has

(* A rollback that still has files on disk has not come to the end of its  *)
(* list: if it has removed the manifest, to stop it here tears it.         *)
LEMMA StillListed ==
    ASSUME IInv, DInv, NEW q \in Pids, NEW x \in Paths, x \in Volatile(q), fs[q][x] = "own",
           fs[q]["manifest"] # "own", BeingRemoved(q)
    PROVE  \E p \in Procs : q \in TornBy(p)
  <1>1. PICK p \in Procs : pid[p] = q /\ pc[p] = "rollback"
    BY DEF BeingRemoved
  <1>2. todo[p] # <<>>
    BY <1>1, EmptyList
  <1> QED
    BY <1>1, <1>2 DEF TornBy

(* A machine crash brings back only what a manifest names; but for the     *)
(* files of a rollback it stops, and of a removal it takes back.           *)
LEMMA CrashDebris ==
    ASSUME IInv, DInv, MachineCrash
    PROVE  DurableInv' /\ ManifestInv' /\ LastingInv'
  <1>1. ASSUME NEW q \in Pids, NEW x \in Paths, x \in Volatile(q), fs'[q][x] = "own"
        PROVE  fs'[q]["manifest"] = "own" \/ q \in torn' \cup undone'
    <2>1. "own" \in survive[q][x] /\ x \in Staged
      BY <1>1, CrashEffect DEF Volatile
    <2>2. survive[q]["manifest"] = {"own"} \/ q \in cleaned \cup torn \cup undone
      BY <1>1, <2>1 DEF DInv, DurableInv
    <2>3. "manifest" \in Paths
      BY DEF Paths, SnapshotsDir
    <2>4. survive[q]["manifest"] = {"own"} => fs'[q]["manifest"] = "own"
      BY <2>3, CrashEffect
    <2>5. torn \cup undone \subseteq torn' \cup undone'
      BY CrashEffect
    <2>6. CASE q \in cleaned /\ fs[q][x] # "own"
      BY <1>1, <2>1, <2>6, CrashEffect DEF Revived
    <2>7. CASE fs[q][x] = "own" /\ fs[q]["manifest"] = "own"
      BY <1>1, <2>4, <2>5, <2>7 DEF DInv, LastingInv
    <2>8. CASE fs[q][x] = "own" /\ fs[q]["manifest"] # "own"
      <3>1. BeingRemoved(q) \/ q \in torn \cup undone
        BY <1>1, <2>8 DEF DInv, ManifestInv
      <3>2. CASE BeingRemoved(q)
        <4>1. PICK p \in Procs : q \in TornBy(p)
          BY <1>1, <2>8, <3>2, StillListed
        <4> QED
          BY <4>1, CrashEffect
      <3> QED
        BY <2>5, <3>1, <3>2
    <2> QED
      BY <2>2, <2>4, <2>5, <2>6, <2>7, <2>8
  <1>2. /\ \A q \in Pids, x \in Paths : survive'[q][x] = {fs'[q][x]}
        /\ \A q \in Pids : Volatile(q)' = Volatile(q)
    BY CrashEffect DEF Volatile
  <1>3. "manifest" \in Paths
    BY DEF Paths, SnapshotsDir
  <1>4. DurableInv'
    <2> SUFFICES ASSUME NEW q \in Pids, NEW x \in Paths, x \in Volatile(q), "own" \in survive'[q][x]
                 PROVE  survive'[q]["manifest"] = {"own"} \/ q \in torn' \cup undone'
      BY <1>2 DEF DurableInv
    <2>1. fs'[q][x] = "own"
      BY <1>2
    <2> QED
      BY <1>1, <1>2, <1>3, <2>1
  <1>5. ManifestInv'
    BY <1>1, <1>2 DEF ManifestInv
  <1>6. LastingInv'
    BY <1>2, <1>3 DEF LastingInv
  <1> QED
    BY <1>4, <1>5, <1>6

(* A finished clean-up leaves nothing that could come back. *)
LEMMA SweptDurable ==
    ASSUME IInv, DInv, NEW p \in Procs, SyncSnapshotsDir(p)
    PROVE  DurableInv'
  <1>1. /\ pc[p] = "sync_snapshots" /\ pid[p] \in Pids /\ cleaned' = cleaned \ {pid[p]}
        /\ UNCHANGED <<fs, predictions, torn, undone>>
    BY DEF SyncSnapshotsDir, Sync, IInv, TypeInv, AttemptOK, HasPid, tables
  <1>2. \A q \in Pids, x \in Paths : survive'[q][x] = IF x \in SnapshotsDir THEN {fs[q][x]} ELSE survive[q][x]
    BY DEF SyncSnapshotsDir, Sync
  <1>3. Swept(pid[p])
    BY <1>1 DEF DInv, CleanInv
  <1>4. ASSUME NEW q \in Pids, NEW x \in Paths, x \in Volatile(q), "own" \in survive'[q][x]
        PROVE  survive'[q]["manifest"] = {"own"} \/ q \in cleaned' \cup torn \cup undone
    <2>1. "own" \in survive[q][x] /\ (x \in SnapshotsDir => fs[q][x] = "own")
      BY <1>2, <1>4 DEF DInv, SurviveInv
    <2>2. ASSUME q = pid[p] PROVE FALSE
      <3>1. fs[q][x] # "own" /\ (x \in RecordsDir => "own" \notin survive[q][x])
        BY <1>3, <1>4, <2>2 DEF Swept
      <3>2. x \in RecordsDir \/ x \in SnapshotsDir
        BY DEF Paths
      <3> QED
        BY <2>1, <3>1, <3>2
    <2>3. survive[q]["manifest"] = {"own"} \/ q \in cleaned' \cup torn \cup undone
      BY <1>1, <1>4, <2>1, <2>2 DEF DInv, DurableInv
    <2>4. "manifest" \in Paths /\ "manifest" \in SnapshotsDir
      BY DEF Paths, SnapshotsDir
    <2>5. survive'[q]["manifest"] = {fs[q]["manifest"]} /\ fs[q]["manifest"] \in survive[q]["manifest"]
      BY <1>2, <2>4 DEF DInv, SurviveInv
    <2> QED
      BY <2>3, <2>5
  <1> QED
    BY <1>1, <1>4 DEF DurableInv, Volatile

(* A quiet step that breaks off a rollback leaves its id torn, or clean.   *)
LEMMA QuietManifest ==
    ASSUME IInv, DInv, NEW p \in Procs, Quiet(p)
    PROVE  ManifestInv'
  <1>1. /\ UNCHANGED <<fs, predictions, undone>> /\ torn' = torn \cup TornBy(p)
        /\ \A o \in Procs \ {p} : pc'[o] = pc[o] /\ pid'[o] = pid[o]
    BY DEF Quiet
  <1>2. ASSUME NEW q \in Pids, NEW x \in Paths, x \in Volatile(q), fs[q][x] = "own",
               fs[q]["manifest"] # "own", BeingRemoved(q)
        PROVE  BeingRemoved(q)' \/ q \in torn' \cup undone'
    <2>1. PICK o \in Procs : q \in TornBy(o)
      BY <1>2, StillListed
    <2>2. pid[o] = q /\ pc[o] = "rollback"
      BY <2>1 DEF TornBy
    <2>3. CASE o # p
      BY <1>1, <2>2, <2>3 DEF BeingRemoved
    <2>4. CASE o = p
      BY <1>1, <2>1, <2>4
    <2> QED
      BY <2>3, <2>4
  <1>3. ASSUME NEW q \in Pids, NEW x \in Paths, x \in Volatile(q), fs[q][x] = "own"
        PROVE  fs[q]["manifest"] = "own" \/ BeingRemoved(q)' \/ q \in torn' \cup undone'
    BY <1>1, <1>2, <1>3 DEF DInv, ManifestInv
  <1> QED
    BY <1>1, <1>3 DEF ManifestInv, Volatile

(* A writer stages its temporary files under a manifest. *)
LEMMA NamedInTime ==
    ASSUME IInv, DInv, NEW p \in Procs, pc[p] \in Named
    PROVE  pid[p] \in Pids /\ fs[pid[p]]["manifest"] = "own"
  <1>1. pid[p] \in Pids
    BY DEF IInv, TypeInv, AttemptOK, HasPid, Named
  <1>2. survive[pid[p]]["manifest"] = {"own"}
    BY DEF DInv, StagedInv
  <1>3. "manifest" \in Paths
    BY DEF Paths, SnapshotsDir
  <1> QED
    BY <1>1, <1>2, <1>3 DEF DInv, SurviveInv

(* A rollback ends with nothing left to name. *)
LEMMA SweptManifest ==
    ASSUME IInv, DInv, NEW p \in Procs, SyncRecordsDir(p)
    PROVE  ManifestInv'
  <1>1. /\ UNCHANGED <<fs, predictions, torn, undone, pid>> /\ todo[p] = <<>>
        /\ \A o \in Procs \ {p} : pc'[o] = pc[o]
    BY DEF SyncRecordsDir, Sync, Go, IInv, TypeInv, TypeOK, tables, attempt, history
  <1>2. ASSUME NEW q \in Pids, NEW x \in Paths, x \in Volatile(q), fs[q][x] = "own", BeingRemoved(q)
        PROVE  BeingRemoved(q)'
    <2>1. PICK o \in Procs : pid[o] = q /\ pc[o] = "rollback"
      BY <1>2 DEF BeingRemoved
    <2>2. o # p
      BY <1>1, <1>2, <2>1, EmptyList
    <2> QED
      BY <1>1, <2>1, <2>2 DEF BeingRemoved
  <1>3. ASSUME NEW q \in Pids, NEW x \in Paths, x \in Volatile(q), fs[q][x] = "own"
        PROVE  fs[q]["manifest"] = "own" \/ BeingRemoved(q)' \/ q \in torn \cup undone
    BY <1>2, <1>3 DEF DInv, ManifestInv
  <1> QED
    BY <1>1, <1>3 DEF ManifestInv, Volatile

(* The rename puts a manifest in its place and touches no other file.      *)
LEMMA RenameEffect ==
    ASSUME IInv, NEW p \in Procs, RenameManifest(p)
    PROVE  /\ pc[p] = "manifest_rename" /\ faults' = faults
           /\ UNCHANGED <<predictions, cleaned, torn, undone>>
           /\ \A q \in Pids, x \in Paths : x \notin {"manifest", "manifest_tmp"} => fs'[q][x] = fs[q][x]
           /\ \A q \in Pids : fs'[q]["manifest"] = "own" \/ fs'[q]["manifest"] = fs[q]["manifest"]
           /\ \A q \in Pids : fs'[q]["manifest"] = "own" => fs[q]["manifest"] = "own" \/ q = pid[p]
           /\ \A q \in Pids, x \in Paths : survive'[q][x] = survive[q][x] \cup {fs'[q][x]}
  BY DEF RenameManifest, DiskStep, Unsettled, IInv, TypeInv, TypeOK, Paths, SnapshotsDir, Content,
         tables, history

(* A step that brings debris only where a durable manifest names it, and   *)
(* removes no manifest, leaves what may survive a crash named.             *)
LEMMA DurableKept ==
    ASSUME IInv, DInv, UNCHANGED <<predictions, cleaned, torn, undone>>,
           \A q \in Pids, x \in Paths : survive'[q][x] = survive[q][x] \cup {fs'[q][x]},
           \A q \in Pids : fs'[q]["manifest"] = "own" \/ fs'[q]["manifest"] = fs[q]["manifest"],
           \A q \in Pids, x \in Paths : x \in Volatile(q) /\ fs'[q][x] = "own" =>
               fs[q][x] = "own" \/ survive[q]["manifest"] = {"own"}
    PROVE  DurableInv'
  <1>1. "manifest" \in Paths
    BY DEF Paths, SnapshotsDir
  <1>2. ASSUME NEW q \in Pids, NEW x \in Paths, x \in Volatile(q), "own" \in survive'[q][x]
        PROVE  survive[q]["manifest"] = {"own"} \/ q \in cleaned \cup torn \cup undone
    <2>1. "own" \in survive[q][x] \/ survive[q]["manifest"] = {"own"}
      BY <1>2 DEF DInv, SurviveInv
    <2> QED
      BY <1>2, <2>1 DEF DInv, DurableInv
  <1>3. \A q \in Pids : survive[q]["manifest"] = {"own"} => survive'[q]["manifest"] = {"own"}
    BY <1>1 DEF DInv, SurviveInv
  <1> QED
    BY <1>2, <1>3 DEF DurableInv, Volatile

(* Taking up a manifest touches no file.                                    *)
LEMMA RecoverManifestKeeps ==
    ASSUME NEW p \in Procs, RecoverManifest(p)
    PROVE  UNCHANGED <<fs, survive, predictions, torn, undone>> /\ cleaned \subseteq cleaned'
  BY DEF RecoverManifest, disk, tables

(* What may survive a machine crash stays named by a manifest. *)
LEMMA DurableStep == IInv /\ IInv' /\ DInv /\ [Next]_vars => DurableInv'
  <1> SUFFICES ASSUME IInv, IInv', DInv, [Next]_vars PROVE DurableInv'
    OBVIOUS
  <1> USE DEF IInv, DInv, TypeInv, TypeOK, AttemptOK, HasPid, SurviveInv, StagedInv,
          Named, DurableInv, Volatile, Staged, Artifacts, Paths, SnapshotsDir, RecordsDir,
          Unsettled, Content, disk, Staging, Go, tables, attempt, history
  <1>1. ASSUME NEW p \in Procs, Quiet(p) PROVE DurableInv'
    BY <1>1 DEF Quiet
  <1>2. ASSUME NEW p \in Procs, RecoverTmps(p) PROVE DurableInv'
    BY <1>2 DEF RecoverTmps, DiskStep
  <1>3. ASSUME NEW p \in Procs, RecoverManifest(p) PROVE DurableInv'
    BY <1>3, RecoverManifestKeeps
  <1>4. ASSUME NEW p \in Procs, StageNew(p) PROVE DurableInv'
    BY <1>4 DEF StageNew, DiskStep
  <1>5. ASSUME NEW p \in Procs, WriteManifestTmp(p) PROVE DurableInv'
    BY <1>5 DEF WriteManifestTmp, DiskStep, Set, Sync
  <1>6. ASSUME NEW p \in Procs, RenameManifest(p) PROVE DurableInv'
    <2>1. \A q \in Pids, x \in Paths : x \in Volatile(q) => fs'[q][x] = fs[q][x]
      BY <1>6, RenameEffect
    <2> QED
      BY <1>6, <2>1, RenameEffect, DurableKept
  <1>7. ASSUME NEW p \in Procs, SyncManifest(p) PROVE DurableInv'
    BY <1>7 DEF SyncManifest, DiskStep, Set, Sync
  <1>8. ASSUME NEW p \in Procs, WriteSnapshotTemp(p) PROVE DurableInv'
    <2>1. /\ pid[p] \in Pids /\ survive[pid[p]]["manifest"] = {"own"}
          /\ fs[pid[p]]["manifest"] = "own"
      BY <1>8, NamedInTime DEF WriteSnapshotTemp, DiskStep
    <2>2. /\ fs' = [fs EXCEPT ![pid[p]]["snapshot_temp"] = "own"]
          /\ UNCHANGED <<predictions, cleaned, torn, undone>>
      BY <1>8 DEF WriteSnapshotTemp, DiskStep, Set
    <2>3. \A q \in Pids, x \in Paths : survive'[q][x] = survive[q][x] \cup {fs'[q][x]}
      BY <1>8 DEF WriteSnapshotTemp, Set
    <2>4. \A q \in Pids : fs'[q]["manifest"] = fs[q]["manifest"]
      BY <2>2
    <2>5. \A q \in Pids, x \in Paths : q # pid[p] => fs'[q][x] = fs[q][x]
      BY <2>2
    <2> QED
      BY <2>1, <2>2, <2>3, <2>4, <2>5, DurableKept
  <1>9. ASSUME NEW p \in Procs, WriteRecordTemp(p) PROVE DurableInv'
    BY <1>9 DEF WriteRecordTemp, DiskStep, Set, Sync
  <1>10. ASSUME NEW p \in Procs, LinkSnapshot(p) PROVE DurableInv'
    BY <1>10 DEF LinkSnapshot, Link, DiskStep, Set
  <1>11. ASSUME NEW p \in Procs, LinkRecord(p) PROVE DurableInv'
    BY <1>11 DEF LinkRecord, Link, DiskStep, Set
  <1>12. ASSUME NEW p \in Procs, SnapshotCollides(p) PROVE DurableInv'
    BY <1>12 DEF SnapshotCollides, LinkCollides, StartRollback
  <1>13. ASSUME NEW p \in Procs, RecordCollides(p) PROVE DurableInv'
    BY <1>13 DEF RecordCollides, LinkCollides, StartRollback
  <1>14. ASSUME NEW p \in Procs, FlagSnapshot(p) PROVE DurableInv'
    BY <1>14 DEF FlagSnapshot, Flag, DiskStep
  <1>15. ASSUME NEW p \in Procs, FlagRecord(p) PROVE DurableInv'
    BY <1>15 DEF FlagRecord, Flag, DiskStep
  <1>16. ASSUME NEW p \in Procs, UnlinkSnapshotTemp(p) PROVE DurableInv'
    BY <1>16 DEF UnlinkSnapshotTemp, UnlinkTemp, DiskStep, Set
  <1>17. ASSUME NEW p \in Procs, UnlinkRecordTemp(p) PROVE DurableInv'
    BY <1>17 DEF UnlinkRecordTemp, UnlinkTemp, DiskStep, Set
  <1>18. ASSUME NEW p \in Procs, SyncSnapshot(p) PROVE DurableInv'
    BY <1>18 DEF SyncSnapshot, SyncPublished, DiskStep, Sync
  <1>19. ASSUME NEW p \in Procs, SyncRecord(p) PROVE DurableInv'
    BY <1>19 DEF SyncRecord, SyncPublished, DiskStep, Sync
  <1>20. ASSUME NEW p \in Procs, Commit(p) PROVE DurableInv'
    BY <1>20 DEF Commit, CommitRows
  <1>21. ASSUME NEW p \in Procs, DoubtCommitted(p) PROVE DurableInv'
    BY <1>21 DEF DoubtCommitted
  <1>22. ASSUME NEW p \in Procs, DoubtUncommitted(p) PROVE DurableInv'
    BY <1>22 DEF DoubtUncommitted, StartRollback
  <1>23. ASSUME NEW p \in Procs, Remove(p) PROVE DurableInv'
    BY <1>23, RemoveDurable
  <1>24. ASSUME NEW p \in Procs, SyncRecordsDir(p) PROVE DurableInv'
    BY <1>24 DEF SyncRecordsDir, Sync
  <1>25. ASSUME NEW p \in Procs, SyncSnapshotsDir(p) PROVE DurableInv'
    BY <1>25, SweptDurable
  <1>26. ASSUME NEW p \in Procs, StageRaises(p) PROVE DurableInv'
    BY <1>26 DEF StageRaises, StartRollback, Fault
  <1>27. ASSUME NEW p \in Procs, CommitLands(p) PROVE DurableInv'
    BY <1>27 DEF CommitLands, InDoubt, CommitRows, Fault
  <1>28. ASSUME NEW p \in Procs, CommitFails(p) PROVE DurableInv'
    BY <1>28 DEF CommitFails, InDoubt, Fault
  <1>29. ASSUME NEW q \in Pids, NEW x \in Artifacts, NEW c \in {"none", "foreign"}, Edit(q, x, c)
        PROVE  DurableInv'
    BY <1>29 DEF Edit, Set
  <1>30. ASSUME NEW C \in SUBSET Cells, Touch(C) PROVE DurableInv'
    BY <1>30 DEF Touch
  <1>31. CASE MachineCrash
    BY <1>31, CrashDebris
  <1>32. CASE UNCHANGED vars
    BY <1>32 DEF vars
  <1> HIDE DEF IInv, DInv, TypeInv, TypeOK, AttemptOK, HasPid, SurviveInv, StagedInv,
          Named, DurableInv, Volatile, Staged, Artifacts, Paths, SnapshotsDir, RecordsDir,
          Unsettled, Content, disk, Staging, Go, tables, attempt, history
  <1> QED
    BY QuietSteps, <1>1, <1>2, <1>3, <1>4, <1>5, <1>6, <1>7, <1>8, <1>9,
       <1>10, <1>11, <1>12, <1>13, <1>14, <1>15, <1>16, <1>17, <1>18, <1>19, <1>20,
       <1>21, <1>22, <1>23, <1>24, <1>25, <1>26, <1>27, <1>28, <1>29, <1>30, <1>31,
       <1>32
    DEF Next, Progress, Recover, Select, Lookup, Stage, Publish, Finish, Faulty

(* Renaming the manifest into place names no debris that was not named.    *)
LEMMA RenameLasting ==
    ASSUME IInv, DInv, NEW p \in Procs, RenameManifest(p)
    PROVE  LastingInv'
  <1>1. /\ pc[p] = "manifest_rename" /\ UNCHANGED <<predictions, torn, undone>>
        /\ \A q \in Pids, x \in Paths : x \notin {"manifest", "manifest_tmp"} => fs'[q][x] = fs[q][x]
        /\ \A q \in Pids : fs'[q]["manifest"] = "own" => fs[q]["manifest"] = "own" \/ q = pid[p]
        /\ \A q \in Pids, x \in Paths : survive'[q][x] = survive[q][x] \cup {fs'[q][x]}
    BY RenameEffect
  <1>2. \A q \in Pids : ~BeingRemoved(q)
    BY <1>1 DEF BeingRemoved, IInv, LockInv, Locked, Staging, Cleaning
  <1>3. ASSUME NEW q \in Pids, NEW x \in Paths, x \in Volatile(q), fs'[q][x] = "own",
               fs'[q]["manifest"] = "own"
        PROVE  survive'[q]["manifest"] = {"own"} \/ q \in torn \cup undone
    <2>1. fs[q][x] = "own"
      BY <1>1, <1>3, DebrisFacts
    <2>2. fs[q]["manifest"] = "own" \/ q \in torn \cup undone
      BY <1>2, <1>3, <2>1 DEF DInv, ManifestInv
    <2>3. survive[q]["manifest"] = {"own"} \/ q \in torn \cup undone
      BY <1>3, <2>1, <2>2 DEF DInv, LastingInv
    <2>4. "manifest" \in Paths
      BY DEF Paths, SnapshotsDir
    <2> QED
      BY <1>1, <1>3, <2>3, <2>4
  <1> QED
    BY <1>1, <1>3 DEF LastingInv, Volatile

(* A removal leaves the manifests it does not remove as they are. *)
LEMMA RemoveLasting ==
    ASSUME IInv, DInv, NEW p \in Procs, Remove(p)
    PROVE  LastingInv'
  <1>1. PICK q \in Pids, x \in Paths : Removes(p, q, x)
    BY RemoveEffect
  <1>2. ASSUME NEW r \in Pids, NEW y \in Paths, y \in Volatile(r), fs'[r][y] = "own",
               fs'[r]["manifest"] = "own"
        PROVE  survive'[r]["manifest"] = {"own"} \/ r \in torn \cup undone
    <2>1. "manifest" \in Paths
      BY DEF Paths, SnapshotsDir
    <2>2. fs[r][y] = "own" /\ fs[r]["manifest"] = "own"
      BY <1>1, <1>2, <2>1 DEF Removes
    <2>3. survive[r]["manifest"] = {"own"} \/ r \in torn \cup undone
      BY <1>2, <2>2 DEF DInv, LastingInv
    <2> QED
      BY <1>1, <1>2, <2>1, <2>3 DEF Removes
  <1> QED
    BY <1>1, <1>2 DEF LastingInv, Removes, Volatile

(* A manifest that names debris stays durable. *)
LEMMA LastingStep == IInv /\ IInv' /\ DInv /\ [Next]_vars => LastingInv'
  <1> SUFFICES ASSUME IInv, IInv', DInv, [Next]_vars PROVE LastingInv'
    OBVIOUS
  <1> USE DEF IInv, DInv, TypeInv, TypeOK, AttemptOK, HasPid, SurviveInv, StagedInv,
          Named, LastingInv, Volatile, Staged, Artifacts, Paths, SnapshotsDir, RecordsDir,
          Unsettled, Content, disk, Staging, Go, tables, attempt, history
  <1>1. ASSUME NEW p \in Procs, Quiet(p) PROVE LastingInv'
    BY <1>1 DEF Quiet
  <1>2. ASSUME NEW p \in Procs, RecoverTmps(p) PROVE LastingInv'
    BY <1>2 DEF RecoverTmps, DiskStep
  <1>3. ASSUME NEW p \in Procs, RecoverManifest(p) PROVE LastingInv'
    BY <1>3, RecoverManifestKeeps
  <1>4. ASSUME NEW p \in Procs, StageNew(p) PROVE LastingInv'
    BY <1>4 DEF StageNew, DiskStep
  <1>5. ASSUME NEW p \in Procs, WriteManifestTmp(p) PROVE LastingInv'
    BY <1>5 DEF WriteManifestTmp, DiskStep, Set, Sync
  <1>6. ASSUME NEW p \in Procs, RenameManifest(p) PROVE LastingInv'
    BY <1>6, RenameLasting
  <1>7. ASSUME NEW p \in Procs, SyncManifest(p) PROVE LastingInv'
    BY <1>7 DEF SyncManifest, DiskStep, Set, Sync
  <1>8. ASSUME NEW p \in Procs, WriteSnapshotTemp(p) PROVE LastingInv'
    <2>1. /\ pid[p] \in Pids /\ survive[pid[p]]["manifest"] = {"own"}
          /\ fs[pid[p]]["manifest"] = "own"
      BY <1>8, NamedInTime DEF WriteSnapshotTemp, DiskStep
    <2>2. /\ fs' = [fs EXCEPT ![pid[p]]["snapshot_temp"] = "own"]
          /\ UNCHANGED <<predictions, cleaned, torn, undone>>
      BY <1>8 DEF WriteSnapshotTemp, DiskStep, Set
    <2>3. \A q \in Pids, x \in Paths : survive'[q][x] = survive[q][x] \cup {fs'[q][x]}
      BY <1>8 DEF WriteSnapshotTemp, Set
    <2> QED
      BY <2>1, <2>2, <2>3
  <1>9. ASSUME NEW p \in Procs, WriteRecordTemp(p) PROVE LastingInv'
    BY <1>9 DEF WriteRecordTemp, DiskStep, Set, Sync
  <1>10. ASSUME NEW p \in Procs, LinkSnapshot(p) PROVE LastingInv'
    BY <1>10 DEF LinkSnapshot, Link, DiskStep, Set
  <1>11. ASSUME NEW p \in Procs, LinkRecord(p) PROVE LastingInv'
    BY <1>11 DEF LinkRecord, Link, DiskStep, Set
  <1>12. ASSUME NEW p \in Procs, SnapshotCollides(p) PROVE LastingInv'
    BY <1>12 DEF SnapshotCollides, LinkCollides, StartRollback
  <1>13. ASSUME NEW p \in Procs, RecordCollides(p) PROVE LastingInv'
    BY <1>13 DEF RecordCollides, LinkCollides, StartRollback
  <1>14. ASSUME NEW p \in Procs, FlagSnapshot(p) PROVE LastingInv'
    BY <1>14 DEF FlagSnapshot, Flag, DiskStep
  <1>15. ASSUME NEW p \in Procs, FlagRecord(p) PROVE LastingInv'
    BY <1>15 DEF FlagRecord, Flag, DiskStep
  <1>16. ASSUME NEW p \in Procs, UnlinkSnapshotTemp(p) PROVE LastingInv'
    BY <1>16 DEF UnlinkSnapshotTemp, UnlinkTemp, DiskStep, Set
  <1>17. ASSUME NEW p \in Procs, UnlinkRecordTemp(p) PROVE LastingInv'
    BY <1>17 DEF UnlinkRecordTemp, UnlinkTemp, DiskStep, Set
  <1>18. ASSUME NEW p \in Procs, SyncSnapshot(p) PROVE LastingInv'
    BY <1>18 DEF SyncSnapshot, SyncPublished, DiskStep, Sync
  <1>19. ASSUME NEW p \in Procs, SyncRecord(p) PROVE LastingInv'
    BY <1>19 DEF SyncRecord, SyncPublished, DiskStep, Sync
  <1>20. ASSUME NEW p \in Procs, Commit(p) PROVE LastingInv'
    BY <1>20 DEF Commit, CommitRows
  <1>21. ASSUME NEW p \in Procs, DoubtCommitted(p) PROVE LastingInv'
    BY <1>21 DEF DoubtCommitted
  <1>22. ASSUME NEW p \in Procs, DoubtUncommitted(p) PROVE LastingInv'
    BY <1>22 DEF DoubtUncommitted, StartRollback
  <1>23. ASSUME NEW p \in Procs, Remove(p) PROVE LastingInv'
    BY <1>23, RemoveLasting
  <1>24. ASSUME NEW p \in Procs, SyncRecordsDir(p) PROVE LastingInv'
    BY <1>24 DEF SyncRecordsDir, Sync
  <1>25. ASSUME NEW p \in Procs, SyncSnapshotsDir(p) PROVE LastingInv'
    BY <1>25 DEF SyncSnapshotsDir, Sync
  <1>26. ASSUME NEW p \in Procs, StageRaises(p) PROVE LastingInv'
    BY <1>26 DEF StageRaises, StartRollback, Fault
  <1>27. ASSUME NEW p \in Procs, CommitLands(p) PROVE LastingInv'
    BY <1>27 DEF CommitLands, InDoubt, CommitRows, Fault
  <1>28. ASSUME NEW p \in Procs, CommitFails(p) PROVE LastingInv'
    BY <1>28 DEF CommitFails, InDoubt, Fault
  <1>29. ASSUME NEW q \in Pids, NEW x \in Artifacts, NEW c \in {"none", "foreign"}, Edit(q, x, c)
        PROVE  LastingInv'
    BY <1>29 DEF Edit, Set
  <1>30. ASSUME NEW C \in SUBSET Cells, Touch(C) PROVE LastingInv'
    BY <1>30 DEF Touch
  <1>31. CASE MachineCrash
    BY <1>31, CrashDebris
  <1>32. CASE UNCHANGED vars
    BY <1>32 DEF vars
  <1> HIDE DEF IInv, DInv, TypeInv, TypeOK, AttemptOK, HasPid, SurviveInv, StagedInv,
          Named, LastingInv, Volatile, Staged, Artifacts, Paths, SnapshotsDir, RecordsDir,
          Unsettled, Content, disk, Staging, Go, tables, attempt, history
  <1> QED
    BY QuietSteps, <1>1, <1>2, <1>3, <1>4, <1>5, <1>6, <1>7, <1>8, <1>9,
       <1>10, <1>11, <1>12, <1>13, <1>14, <1>15, <1>16, <1>17, <1>18, <1>19, <1>20,
       <1>21, <1>22, <1>23, <1>24, <1>25, <1>26, <1>27, <1>28, <1>29, <1>30, <1>31,
       <1>32
    DEF Next, Progress, Recover, Select, Lookup, Stage, Publish, Finish, Faulty

(* Debris stays named by a manifest, or by a rollback that is under way. *)
LEMMA ManifestStep == IInv /\ IInv' /\ DInv /\ [Next]_vars => ManifestInv'
  <1> SUFFICES ASSUME IInv, IInv', DInv, [Next]_vars PROVE ManifestInv'
    OBVIOUS
  <1> USE DEF IInv, DInv, TypeInv, TypeOK, AttemptOK, HasPid, LockInv, SurviveInv,
          StagedInv, Named, ManifestInv, BeingRemoved, Volatile, Staged, Artifacts, Paths,
          SnapshotsDir, RecordsDir, Content, disk, Staging, Go, tables, attempt, history
  <1>1. ASSUME NEW p \in Procs, Quiet(p) PROVE ManifestInv'
    BY <1>1, QuietManifest
  <1>2. ASSUME NEW p \in Procs, RecoverTmps(p) PROVE ManifestInv'
    BY <1>2 DEF RecoverTmps, DiskStep
  <1>3. ASSUME NEW p \in Procs, RecoverManifest(p) PROVE ManifestInv'
    BY <1>3 DEF RecoverManifest
  <1>4. ASSUME NEW p \in Procs, StageNew(p) PROVE ManifestInv'
    BY <1>4 DEF StageNew, DiskStep
  <1>5. ASSUME NEW p \in Procs, WriteManifestTmp(p) PROVE ManifestInv'
    BY <1>5 DEF WriteManifestTmp, DiskStep, Set, Sync
  <1>6. ASSUME NEW p \in Procs, RenameManifest(p) PROVE ManifestInv'
    BY <1>6 DEF RenameManifest, DiskStep, Set, Sync
  <1>7. ASSUME NEW p \in Procs, SyncManifest(p) PROVE ManifestInv'
    BY <1>7 DEF SyncManifest, DiskStep, Set, Sync
  <1>8. ASSUME NEW p \in Procs, WriteSnapshotTemp(p) PROVE ManifestInv'
    <2>1. pid[p] \in Pids /\ fs[pid[p]]["manifest"] = "own"
      <3>1. pc[p] = "snapshot_temp"
        BY <1>8 DEF WriteSnapshotTemp, DiskStep
      <3> QED
        BY <3>1, NamedInTime
    <2>2. /\ fs' = [fs EXCEPT ![pid[p]]["snapshot_temp"] = "own"] /\ UNCHANGED <<predictions, torn, undone, pid>>
          /\ \A o \in Procs : pc[o] = "rollback" => pc'[o] = "rollback"
      BY <1>8 DEF WriteSnapshotTemp, DiskStep, Set
    <2>3. ASSUME NEW r \in Pids, NEW y \in Paths, y \in Volatile(r), fs'[r][y] = "own"
          PROVE  fs'[r]["manifest"] = "own" \/ BeingRemoved(r)' \/ r \in torn \cup undone
      BY <2>1, <2>2, <2>3
    <2> QED
      BY <2>2, <2>3
  <1>9. ASSUME NEW p \in Procs, WriteRecordTemp(p) PROVE ManifestInv'
    BY <1>9 DEF WriteRecordTemp, DiskStep, Set, Sync
  <1>10. ASSUME NEW p \in Procs, LinkSnapshot(p) PROVE ManifestInv'
    BY <1>10 DEF LinkSnapshot, Link, DiskStep, Set
  <1>11. ASSUME NEW p \in Procs, LinkRecord(p) PROVE ManifestInv'
    BY <1>11 DEF LinkRecord, Link, DiskStep, Set
  <1>12. ASSUME NEW p \in Procs, SnapshotCollides(p) PROVE ManifestInv'
    BY <1>12 DEF SnapshotCollides, LinkCollides, StartRollback
  <1>13. ASSUME NEW p \in Procs, RecordCollides(p) PROVE ManifestInv'
    BY <1>13 DEF RecordCollides, LinkCollides, StartRollback
  <1>14. ASSUME NEW p \in Procs, FlagSnapshot(p) PROVE ManifestInv'
    BY <1>14 DEF FlagSnapshot, Flag, DiskStep
  <1>15. ASSUME NEW p \in Procs, FlagRecord(p) PROVE ManifestInv'
    BY <1>15 DEF FlagRecord, Flag, DiskStep
  <1>16. ASSUME NEW p \in Procs, UnlinkSnapshotTemp(p) PROVE ManifestInv'
    BY <1>16 DEF UnlinkSnapshotTemp, UnlinkTemp, DiskStep, Set
  <1>17. ASSUME NEW p \in Procs, UnlinkRecordTemp(p) PROVE ManifestInv'
    BY <1>17 DEF UnlinkRecordTemp, UnlinkTemp, DiskStep, Set
  <1>18. ASSUME NEW p \in Procs, SyncSnapshot(p) PROVE ManifestInv'
    BY <1>18 DEF SyncSnapshot, SyncPublished, DiskStep, Sync
  <1>19. ASSUME NEW p \in Procs, SyncRecord(p) PROVE ManifestInv'
    BY <1>19 DEF SyncRecord, SyncPublished, DiskStep, Sync
  <1>20. ASSUME NEW p \in Procs, Commit(p) PROVE ManifestInv'
    BY <1>20 DEF Commit, CommitRows
  <1>21. ASSUME NEW p \in Procs, DoubtCommitted(p) PROVE ManifestInv'
    BY <1>21 DEF DoubtCommitted
  <1>22. ASSUME NEW p \in Procs, DoubtUncommitted(p) PROVE ManifestInv'
    BY <1>22 DEF DoubtUncommitted, StartRollback
  <1>23. ASSUME NEW p \in Procs, Remove(p) PROVE ManifestInv'
    BY <1>23, RemoveManifest
  <1>24. ASSUME NEW p \in Procs, SyncRecordsDir(p) PROVE ManifestInv'
    BY <1>24, SweptManifest
  <1>25. ASSUME NEW p \in Procs, SyncSnapshotsDir(p) PROVE ManifestInv'
    BY <1>25 DEF SyncSnapshotsDir, Sync
  <1>26. ASSUME NEW p \in Procs, StageRaises(p) PROVE ManifestInv'
    BY <1>26 DEF StageRaises, StartRollback, Fault
  <1>27. ASSUME NEW p \in Procs, CommitLands(p) PROVE ManifestInv'
    BY <1>27 DEF CommitLands, InDoubt, CommitRows, Fault
  <1>28. ASSUME NEW p \in Procs, CommitFails(p) PROVE ManifestInv'
    BY <1>28 DEF CommitFails, InDoubt, Fault
  <1>29. ASSUME NEW q \in Pids, NEW x \in Artifacts, NEW c \in {"none", "foreign"}, Edit(q, x, c)
        PROVE  ManifestInv'
    BY <1>29 DEF Edit, Set
  <1>30. ASSUME NEW C \in SUBSET Cells, Touch(C) PROVE ManifestInv'
    BY <1>30 DEF Touch
  <1>31. CASE MachineCrash
    BY <1>31, CrashDebris
  <1>32. CASE UNCHANGED vars
    BY <1>32 DEF vars
  <1> HIDE DEF IInv, DInv, TypeInv, TypeOK, AttemptOK, HasPid, LockInv, SurviveInv,
          StagedInv, Named, ManifestInv, BeingRemoved, Volatile, Staged, Artifacts, Paths,
          SnapshotsDir, RecordsDir, Content, disk, Staging, Go, tables, attempt, history
  <1> QED
    BY QuietSteps, <1>1, <1>2, <1>3, <1>4, <1>5, <1>6, <1>7, <1>8, <1>9,
       <1>10, <1>11, <1>12, <1>13, <1>14, <1>15, <1>16, <1>17, <1>18, <1>19, <1>20,
       <1>21, <1>22, <1>23, <1>24, <1>25, <1>26, <1>27, <1>28, <1>29, <1>30, <1>31,
       <1>32
    DEF Next, Progress, Recover, Select, Lookup, Stage, Publish, Finish, Faulty

(* Nothing is on disk and nobody writes. *)
LEMMA DebrisInit == Init => DInv
  <1> SUFFICES ASSUME Init PROVE DInv
    OBVIOUS
  <1> USE DEF Init
  <1>1. SurviveInv /\ TempsInv /\ PassInv /\ DurableInv /\ LastingInv /\ ManifestInv
    BY DEF SurviveInv, TempsInv, PassInv, DurableInv, LastingInv, ManifestInv
  <1>2. StagedInv
    BY DEF StagedInv, BeforeSnapshot, BeforeRecord, Named, Staging
  <1>3. CleanInv
    BY DEF CleanInv
  <1> QED
    BY <1>1, <1>2, <1>3 DEF DInv

(* The invariant of the files on disk holds throughout. *)
THEOREM DebrisInvariant == Spec => []DInv
  <1>1. Init => DInv
    BY DebrisInit
  <1>2. IInv /\ IInv' /\ DInv /\ [Next]_vars => DInv'
    BY SurviveStep, TempsStep, StagedStep, PassStep, CleanStep, DurableStep, LastingStep,
       ManifestStep DEF DInv
  <1> QED
    BY <1>1, <1>2, IInvInit, IInvStep, PTL DEF Spec

(* Files of an attempt that did not commit, and temporary files of any     *)
(* attempt, are named by a manifest that the next writer's recovery        *)
(* (recover_unfinished_transactions_locked) follows, unless their rollback *)
(* is under way or was cut short after it removed the manifest, or a power *)
(* cut took back their removal, which recovery does not fsync.             *)
THEOREM DebrisIsNamed == Spec => []DebrisHasManifest
  <1>1. IInv /\ DInv => DebrisHasManifest
    <2> SUFFICES ASSUME IInv, DInv, NEW q \in Pids, Debris(q) # {}
                 PROVE  fs[q]["manifest"] = "own" \/ BeingRemoved(q) \/ q \in torn \cup undone
      BY DEF DebrisHasManifest
    <2>1. PICK x \in Own(q) : x \notin (IF q \in predictions THEN Artifacts ELSE {})
      BY DEF Debris
    <2>2. x \in Volatile(q) /\ fs[q][x] = "own"
      BY <2>1 DEF Own, Volatile
    <2>3. x \in Paths
      BY <2>2, DebrisFacts
    <2> QED
      BY <2>2, <2>3 DEF DInv, ManifestInv
  <1> QED
    BY <1>1, IInvInit, IInvStep, DebrisInvariant, PTL DEF Spec

(* A step puts none of the writer's files over an editor's. *)
Respects == \A q \in Pids, x \in Artifacts :
    faults' = faults /\ fs[q][x] = "foreign" => fs'[q][x] # "own"

(* Remove only takes a file away, so it publishes nothing over an editor's. *)
LEMMA RemoveRespects ==
    ASSUME IInv, NEW p \in Procs, Remove(p)
    PROVE  Respects
  <1>1. PICK q \in Pids, x \in Paths : Removes(p, q, x)
    BY RemoveEffect
  <1>2. Artifacts \subseteq Paths
    BY DEF Artifacts, Paths, RecordsDir, SnapshotsDir
  <1> QED
    BY <1>1, <1>2 DEF Respects, Removes

(* Only a link publishes an artifact, and a link finds its path free. *)
LEMMA RespectsStep == IInv /\ [Next]_vars => [Respects]_vars
  <1> SUFFICES ASSUME IInv, [Next]_vars PROVE [Respects]_vars
    OBVIOUS
  <1> USE DEF IInv, TypeInv, TypeOK, AttemptOK, HasPid, Respects, Staging, Artifacts,
          Paths, SnapshotsDir, RecordsDir, disk, Fault
  <1>1. ASSUME NEW p \in Procs, Quiet(p) PROVE Respects
    BY <1>1 DEF Quiet
  <1>2. ASSUME NEW p \in Procs, RecoverTmps(p) PROVE Respects
    BY <1>2 DEF RecoverTmps, DiskStep
  <1>3. ASSUME NEW p \in Procs, RecoverManifest(p) PROVE Respects
    BY <1>3, RecoverManifestKeeps
  <1>4. ASSUME NEW p \in Procs, StageNew(p) PROVE Respects
    BY <1>4 DEF StageNew, DiskStep
  <1>5. ASSUME NEW p \in Procs, WriteManifestTmp(p) PROVE Respects
    BY <1>5 DEF WriteManifestTmp, DiskStep, Set, Sync
  <1>6. ASSUME NEW p \in Procs, RenameManifest(p) PROVE Respects
    BY <1>6, RenameEffect
  <1>7. ASSUME NEW p \in Procs, SyncManifest(p) PROVE Respects
    BY <1>7 DEF SyncManifest, DiskStep, Set, Sync
  <1>8. ASSUME NEW p \in Procs, WriteSnapshotTemp(p) PROVE Respects
    BY <1>8 DEF WriteSnapshotTemp, DiskStep, Set, Sync
  <1>9. ASSUME NEW p \in Procs, WriteRecordTemp(p) PROVE Respects
    BY <1>9 DEF WriteRecordTemp, DiskStep, Set, Sync
  <1>10. ASSUME NEW p \in Procs, LinkSnapshot(p) PROVE Respects
    BY <1>10 DEF LinkSnapshot, Link, DiskStep, Set
  <1>11. ASSUME NEW p \in Procs, LinkRecord(p) PROVE Respects
    BY <1>11 DEF LinkRecord, Link, DiskStep, Set
  <1>12. ASSUME NEW p \in Procs, SnapshotCollides(p) PROVE Respects
    BY <1>12 DEF SnapshotCollides, LinkCollides, StartRollback
  <1>13. ASSUME NEW p \in Procs, RecordCollides(p) PROVE Respects
    BY <1>13 DEF RecordCollides, LinkCollides, StartRollback
  <1>14. ASSUME NEW p \in Procs, FlagSnapshot(p) PROVE Respects
    BY <1>14 DEF FlagSnapshot, Flag, DiskStep
  <1>15. ASSUME NEW p \in Procs, FlagRecord(p) PROVE Respects
    BY <1>15 DEF FlagRecord, Flag, DiskStep
  <1>16. ASSUME NEW p \in Procs, UnlinkSnapshotTemp(p) PROVE Respects
    BY <1>16 DEF UnlinkSnapshotTemp, UnlinkTemp, DiskStep, Set
  <1>17. ASSUME NEW p \in Procs, UnlinkRecordTemp(p) PROVE Respects
    BY <1>17 DEF UnlinkRecordTemp, UnlinkTemp, DiskStep, Set
  <1>18. ASSUME NEW p \in Procs, SyncSnapshot(p) PROVE Respects
    BY <1>18 DEF SyncSnapshot, SyncPublished, DiskStep, Sync
  <1>19. ASSUME NEW p \in Procs, SyncRecord(p) PROVE Respects
    BY <1>19 DEF SyncRecord, SyncPublished, DiskStep, Sync
  <1>20. ASSUME NEW p \in Procs, Commit(p) PROVE Respects
    BY <1>20 DEF Commit, CommitRows
  <1>21. ASSUME NEW p \in Procs, DoubtCommitted(p) PROVE Respects
    BY <1>21 DEF DoubtCommitted
  <1>22. ASSUME NEW p \in Procs, DoubtUncommitted(p) PROVE Respects
    BY <1>22 DEF DoubtUncommitted, StartRollback
  <1>23. ASSUME NEW p \in Procs, Remove(p) PROVE Respects
    BY <1>23, RemoveRespects
  <1>24. ASSUME NEW p \in Procs, SyncRecordsDir(p) PROVE Respects
    BY <1>24 DEF SyncRecordsDir, Sync
  <1>25. ASSUME NEW p \in Procs, SyncSnapshotsDir(p) PROVE Respects
    BY <1>25 DEF SyncSnapshotsDir, Sync
  <1>26. ASSUME NEW p \in Procs, StageRaises(p) PROVE Respects
    BY <1>26 DEF StageRaises, StartRollback, Fault
  <1>27. ASSUME NEW p \in Procs, CommitLands(p) PROVE Respects
    BY <1>27 DEF CommitLands, InDoubt, CommitRows, Fault
  <1>28. ASSUME NEW p \in Procs, CommitFails(p) PROVE Respects
    BY <1>28 DEF CommitFails, InDoubt, Fault
  <1>29. ASSUME NEW q \in Pids, NEW x \in Artifacts, NEW c \in {"none", "foreign"}, Edit(q, x, c)
        PROVE  Respects
    BY <1>29 DEF Edit, Set
  <1>30. ASSUME NEW C \in SUBSET Cells, Touch(C) PROVE Respects
    BY <1>30 DEF Touch
  <1>31. CASE MachineCrash
    BY <1>31 DEF MachineCrash
  <1>32. CASE UNCHANGED vars
    BY <1>32 DEF vars
  <1> HIDE DEF IInv, TypeInv, TypeOK, AttemptOK, HasPid, Respects, Staging, Artifacts,
          Paths, SnapshotsDir, RecordsDir, disk, Fault
  <1> QED
    BY QuietSteps, <1>1, <1>2, <1>3, <1>4, <1>5, <1>6, <1>7, <1>8, <1>9,
       <1>10, <1>11, <1>12, <1>13, <1>14, <1>15, <1>16, <1>17, <1>18, <1>19, <1>20,
       <1>21, <1>22, <1>23, <1>24, <1>25, <1>26, <1>27, <1>28, <1>29, <1>30, <1>31,
       <1>32
    DEF Next, Progress, Recover, Select, Lookup, Stage, Publish, Finish, Faulty

(* README, Atomicity boundary: publication uses no-replace links           *)
(* (_publish_no_replace), so no step of the writer puts its file over one  *)
(* an editor left at an artifact's path.                                   *)
THEOREM EditorsAreRespected == Spec => NeverOverwritesForeign
  <1>1. Spec => [][Respects]_vars
    BY RespectsStep, IInvInit, IInvStep, PTL DEF Spec
  <1> QED
    BY <1>1 DEF NeverOverwritesForeign, Respects
=============================================================================
