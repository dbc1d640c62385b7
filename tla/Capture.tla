------------------------------ MODULE Capture ------------------------------
(***************************************************************************)
(* The atomic capture of a preregistered prediction: CaptureService.capture *)
(* (src/ledger/capture.py) and LedgerWriter (src/ledger/writer.py) over the *)
(* SQLite registry (src/ledger/registry.py), the ledger file lock           *)
(* (src/ledger/locking.py) and two directories of the vault.                *)
(*                                                                          *)
(* A capture publishes two files and commits one SQLite transaction.  No    *)
(* primitive does all three at once, so the writer keeps a manifest next to *)
(* the snapshots, orders its fsyncs and recovers unfinished attempts before *)
(* every new one.  The model keeps every file-system call as a step of its  *)
(* own, so that a process or a machine can stop between any two of them.    *)
(*                                                                          *)
(* A prediction id owns six directory entries.  What each holds now is fs;  *)
(* what each may hold after a machine crash is survive: a directory change  *)
(* is only certain once that directory has been fsynced.                    *)
(***************************************************************************)
EXTENDS Naturals, Sequences

CONSTANTS
    Procs,      \* processes that write the ledger (backend, CLI, bridge)
    Keys,       \* idempotency keys of capture requests
    Reqs,       \* capture requests; two have one request_hash iff they are equal
    Uuids,      \* prediction ids the capture service draws with uuid4
    DraftIds,   \* prediction ids callers of LedgerWriter.write choose
    Cells,      \* observations: one day of one strategy family
    CellsOf,    \* the out-of-sample window of each request, as a set of Cells
    None,       \* no process, no key, no prediction
    Faults,     \* the faults a run injects
    MaxFaults   \* bound: how many faults one behaviour suffers

Pids == Uuids \cup DraftIds
Binding == [req : Reqs, pid : Uuids]   \* a row of capture_requests
FaultKinds == {"raise", "crash", "machine", "editor"}

ASSUME CellsAssumption == CellsOf \in [Reqs -> SUBSET Cells]
ASSUME NoneAssumption  == None \notin Procs \cup Keys \cup Reqs \cup Pids \cup Binding
ASSUME IdsAssumption   == Uuids \cap DraftIds = {}
ASSUME FaultAssumption == Faults \subseteq FaultKinds /\ MaxFaults \in Nat

VARIABLES
    lock,             \* holder of .ledger/registry.lock
    txn,              \* holder of the registry's write transaction
    predictions,      \* ids with a row in transaction_state = committed
    captureRequests,  \* the capture_requests table: key -> request and id
    touchedWindows,   \* observations some run has already seen
    fs,               \* the directory entries of each id
    survive,          \* what a machine crash may leave of each entry
    pc,               \* where each process is
    key, req, pid,    \* the attempt each process is making
    manifests,        \* ids whose manifest its recovery has still to follow
    todo,             \* entries the process has still to unlink
    ret,              \* how the attempt is going to end
    receipts,         \* results callers have received
    allocated,        \* uuids already drawn
    edited,           \* entries an editor has written or removed
    cleaned,          \* ids whose uncommitted files are being removed
    torn,             \* ids whose rollback stopped between manifest and files
    undone,           \* ids whose removal a power cut took back, not the manifest's
    faults            \* faults injected so far

disk    == <<fs, survive>>
tables  == <<predictions, captureRequests, touchedWindows>>
attempt == <<key, req, pid, manifests>>
history == <<receipts, allocated, edited, cleaned, torn, undone>>
vars    == <<lock, txn, tables, disk, pc, attempt, todo, ret, history, faults>>

----------------------------------------------------------------------------
(* The six directory entries of a prediction id, and the two directories.  *)

RecordsDir   == {"record", "record_temp"}
SnapshotsDir == {"snapshot", "snapshot_temp", "manifest", "manifest_tmp"}
Paths        == RecordsDir \cup SnapshotsDir
Artifacts    == {"record", "snapshot"}
Staged       == Artifacts \cup {"record_temp", "snapshot_temp"}

(* "own" is a file this writer staged, "foreign" one an editor put there.  *)
Content == {"none", "own", "foreign"}

(* Until its directory is fsynced an entry may survive as any content it   *)
(* has had since the last time.                                            *)
Unsettled ==
    survive' = [q \in Pids |-> [x \in Paths |-> survive[q][x] \cup {fs'[q][x]}]]

Set(q, x, c) ==
    /\ fs' = [fs EXCEPT ![q][x] = c]
    /\ Unsettled

Sync(dir) ==
    /\ survive' = [q \in Pids |-> [x \in Paths |->
                     IF x \in dir THEN {fs[q][x]} ELSE survive[q][x]]]
    /\ UNCHANGED fs

----------------------------------------------------------------------------
(* Program counters.  Staging is the body of the try block in              *)
(* _stage_committed; an exception there runs StagedWrite.rollback.         *)

Looking  == {"recover_tmp", "begin", "lookup", "check", "allocate", "stage"}
Staging  == {"manifest_tmp", "manifest_rename", "manifest_sync",
             "snapshot_temp", "record_temp",
             "snapshot_link", "snapshot_flag", "snapshot_unlink", "snapshot_sync",
             "record_link", "record_flag", "record_unlink", "record_sync"}
Cleaning == {"recover", "finalize", "rollback"}
InTxn    == {"lookup", "check", "allocate", "stage", "commit"} \cup Staging
Locked   == Looking \cup Staging \cup Cleaning
              \cup {"commit", "doubt", "sync_snapshots", "leave"}
Labels   == {"idle", "wait"} \cup Locked

Returns  == {"none", "ok", "conflict", "stale_window", "integrity", "failed"}

Go(p, label) == pc' = [pc EXCEPT ![p] = label]

(* Leave the critical section with this outcome. *)
EndWith(p, r) == Go(p, "leave") /\ ret' = [ret EXCEPT ![p] = r]

BackToIdle(p) ==
    /\ Go(p, "idle")
    /\ key' = [key EXCEPT ![p] = None]
    /\ req' = [req EXCEPT ![p] = None]
    /\ pid' = [pid EXCEPT ![p] = None]
    /\ manifests' = [manifests EXCEPT ![p] = {}]

(* A step whose only effect beside the process's own position is on disk. *)
DiskStep(p, from, to) ==
    /\ pc[p] = from
    /\ Go(p, to)
    /\ UNCHANGED <<lock, txn, tables, attempt, todo, ret, history, faults>>

Fault(kind) ==
    /\ kind \in Faults
    /\ faults < MaxFaults
    /\ faults' = faults + 1

Init ==
    /\ lock = None
    /\ txn = None
    /\ predictions = {}
    /\ captureRequests = [k \in Keys |-> None]
    /\ touchedWindows = {}
    /\ fs = [q \in Pids |-> [x \in Paths |-> "none"]]
    /\ survive = [q \in Pids |-> [x \in Paths |-> {"none"}]]
    /\ pc = [p \in Procs |-> "idle"]
    /\ key = [p \in Procs |-> None]
    /\ req = [p \in Procs |-> None]
    /\ pid = [p \in Procs |-> None]
    /\ manifests = [p \in Procs |-> {}]
    /\ todo = [p \in Procs |-> <<>>]
    /\ ret = [p \in Procs |-> "none"]
    /\ receipts = {}
    /\ allocated = {}
    /\ edited = {}
    /\ cleaned = {}
    /\ torn = {}
    /\ undone = {}
    /\ faults = 0

----------------------------------------------------------------------------
(* Entering: an attempt starts, takes the ledger lock or times out on it.  *)
(* A backup or the preparation of a run may hold the lock too, so a        *)
(* timeout does not need another process of this module.                   *)

Begin(p, k, r, q) ==
    /\ pc[p] = "idle"
    /\ key' = [key EXCEPT ![p] = k]
    /\ req' = [req EXCEPT ![p] = r]
    /\ pid' = [pid EXCEPT ![p] = q]
    /\ Go(p, "wait")
    /\ UNCHANGED <<lock, txn, tables, disk, manifests, todo, ret, history, faults>>

Capture(p) == \E k \in Keys, r \in Reqs : Begin(p, k, r, None)
Write(p)   == \E q \in DraftIds : Begin(p, None, None, q)
Open(p)    == Begin(p, None, None, None)

AcquireLock(p) ==
    /\ pc[p] = "wait"
    /\ lock = None
    /\ lock' = p
    /\ Go(p, "recover_tmp")
    /\ UNCHANGED <<txn, tables, disk, attempt, todo, ret, history, faults>>

LockTimeout(p) ==
    /\ pc[p] = "wait"
    /\ BackToIdle(p)
    /\ UNCHANGED <<lock, txn, tables, disk, todo, ret, history, faults>>

----------------------------------------------------------------------------
(* recover_unfinished_transactions_locked: one pass over the manifests that *)
(* are there when it starts.                                               *)

RecoverTmps(p) ==
    /\ pc[p] = "recover_tmp"
    /\ fs' = [q \in Pids |-> [fs[q] EXCEPT !["manifest_tmp"] = "none"]]
    /\ Unsettled
    /\ manifests' = [manifests EXCEPT ![p] = {q \in Pids : fs[q]["manifest"] = "own"}]
    /\ Go(p, "recover")
    /\ UNCHANGED <<lock, txn, tables, key, req, pid, todo, ret, history, faults>>

Entries(q, paths) == [i \in DOMAIN paths |-> <<q, paths[i]>>]

(* Faulty variants, for judging the properties: recovery that ignores the  *)
(* committed row, and recovery that leaves the manifest behind.            *)
RecoveryListUnconditional(q) ==
    Entries(q, <<"record_temp", "snapshot_temp", "record", "snapshot", "manifest">>)

RecoveryListKeepsManifest(q) == Entries(q, <<"record_temp", "snapshot_temp">>)

RecoveryList(q) ==
    Entries(q, IF q \in predictions
               THEN <<"record_temp", "snapshot_temp", "manifest">>
               ELSE <<"record_temp", "snapshot_temp", "record", "snapshot", "manifest">>)

RecoverManifest(p) ==
    /\ pc[p] = "recover"
    /\ todo[p] = <<>>
    /\ \E q \in manifests[p] :
         /\ manifests' = [manifests EXCEPT ![p] = @ \ {q}]
         /\ todo' = [todo EXCEPT ![p] = RecoveryList(q)]
         /\ cleaned' = IF q \in predictions THEN cleaned ELSE cleaned \cup {q}
    /\ UNCHANGED <<lock, txn, tables, disk, pc, key, req, pid, ret,
                   receipts, allocated, edited, torn, undone, faults>>

(* Opening a LedgerWriter ends here; a write or a capture goes on. *)
RecoverDone(p) ==
    /\ pc[p] = "recover"
    /\ todo[p] = <<>>
    /\ manifests[p] = {}
    /\ IF key[p] = None /\ pid[p] = None
       THEN EndWith(p, "ok")
       ELSE Go(p, "begin") /\ UNCHANGED ret
    /\ UNCHANGED <<lock, txn, tables, disk, attempt, todo, history, faults>>

----------------------------------------------------------------------------
(* The transaction up to staging.                                          *)

(* Faulty variant: a deferred BEGIN, which takes no write lock. *)
BeginDeferred(p) ==
    /\ pc[p] = "begin"
    /\ txn = None
    /\ Go(p, IF key[p] = None THEN "stage" ELSE "lookup")
    /\ UNCHANGED <<lock, txn, tables, disk, attempt, todo, ret, history, faults>>

(* LedgerWriter.write goes straight to stage_in_transaction. *)
BeginImmediate(p) ==
    /\ pc[p] = "begin"
    /\ txn = None
    /\ txn' = p
    /\ Go(p, IF key[p] = None THEN "stage" ELSE "lookup")
    /\ UNCHANGED <<lock, tables, disk, attempt, todo, ret, history, faults>>

(* result_for_row: a duplicate succeeds only while both files are there.   *)
ResultForRow(p, q) ==
    EndWith(p, IF \A x \in Artifacts : fs[q][x] # "none" THEN "ok" ELSE "integrity")

LookupMiss(p) ==
    /\ pc[p] = "lookup"
    /\ captureRequests[key[p]] = None
    /\ Go(p, "check")
    /\ UNCHANGED <<lock, txn, tables, disk, attempt, todo, ret, history, faults>>

LookupConflict(p) ==
    /\ pc[p] = "lookup"
    /\ captureRequests[key[p]] # None
    /\ captureRequests[key[p]].req # req[p]
    /\ EndWith(p, "conflict")
    /\ UNCHANGED <<lock, txn, tables, disk, attempt, todo, history, faults>>

(* Faulty variant: a known key answers whatever the request hash. *)
LookupHitAnyRequest(p) ==
    /\ pc[p] = "lookup"
    /\ captureRequests[key[p]] # None
    /\ pid' = [pid EXCEPT ![p] = captureRequests[key[p]].pid]
    /\ ResultForRow(p, captureRequests[key[p]].pid)
    /\ UNCHANGED <<lock, txn, tables, disk, key, req, manifests, todo, history, faults>>

LookupHit(p) ==
    /\ pc[p] = "lookup"
    /\ captureRequests[key[p]] # None
    /\ captureRequests[key[p]].req = req[p]
    /\ pid' = [pid EXCEPT ![p] = captureRequests[key[p]].pid]
    /\ ResultForRow(p, captureRequests[key[p]].pid)
    /\ UNCHANGED <<lock, txn, tables, disk, key, req, manifests, todo, history, faults>>

Lookup(p) == LookupMiss(p) \/ LookupConflict(p) \/ LookupHit(p)

(* Faulty variant: the overlap with touched windows is not looked up. *)
CheckNothing(p) ==
    /\ pc[p] = "check"
    /\ Go(p, "allocate")
    /\ UNCHANGED <<lock, txn, tables, disk, attempt, todo, ret, history, faults>>

CheckFresh(p) ==
    /\ pc[p] = "check"
    /\ IF CellsOf[req[p]] \cap touchedWindows = {}
       THEN Go(p, "allocate") /\ UNCHANGED ret
       ELSE EndWith(p, "stale_window")
    /\ UNCHANGED <<lock, txn, tables, disk, attempt, todo, history, faults>>

(* A fresh uuid, then the snapshot provider. *)
Allocate(p) ==
    /\ pc[p] = "allocate"
    /\ \E q \in Uuids \ allocated :
         /\ allocated' = allocated \cup {q}
         /\ pid' = [pid EXCEPT ![p] = q]
    /\ Go(p, "stage")
    /\ UNCHANGED <<lock, txn, tables, disk, key, req, manifests, todo, ret,
                   receipts, edited, cleaned, torn, undone, faults>>

(* stage_in_transaction: an id already committed is a duplicate, a file    *)
(* already at either path is refused.                                      *)
StageDuplicate(p) ==
    /\ pc[p] = "stage"
    /\ pid[p] \in predictions
    /\ ResultForRow(p, pid[p])
    /\ UNCHANGED <<lock, txn, tables, disk, attempt, todo, history, faults>>

StageRefused(p) ==
    /\ pc[p] = "stage"
    /\ pid[p] \notin predictions
    /\ \E x \in Artifacts : fs[pid[p]][x] # "none"
    /\ EndWith(p, "integrity")
    /\ UNCHANGED <<lock, txn, tables, disk, attempt, todo, history, faults>>

StageNew(p) ==
    /\ DiskStep(p, "stage", "manifest_tmp")
    /\ pid[p] \notin predictions
    /\ \A x \in Artifacts : fs[pid[p]][x] = "none"
    /\ UNCHANGED disk

Stage(p) == StageDuplicate(p) \/ StageRefused(p) \/ StageNew(p)

(* Anything that raises before a file of the attempt exists: the schema,   *)
(* the snapshot provider, SQLite, an interrupt.                            *)
Raise(p) ==
    /\ pc[p] \in Looking \ {"recover_tmp"}
    /\ EndWith(p, "failed")
    /\ UNCHANGED <<lock, txn, tables, disk, attempt, todo, history, faults>>

----------------------------------------------------------------------------
(* _stage_committed: manifest, two temporary files, two no-replace links.  *)

WriteManifestTmp(p) ==
    DiskStep(p, "manifest_tmp", "manifest_rename") /\ Set(pid[p], "manifest_tmp", "own")

RenameManifest(p) ==
    /\ DiskStep(p, "manifest_rename", "manifest_sync")
    /\ fs' = [fs EXCEPT ![pid[p]] = [@ EXCEPT !["manifest_tmp"] = "none", !["manifest"] = "own"]]
    /\ Unsettled

(* Faulty variant: the manifest's directory is not fsynced. *)
ManifestNotSynced(p) == DiskStep(p, "manifest_sync", "snapshot_temp") /\ UNCHANGED disk

SyncManifest(p) ==
    DiskStep(p, "manifest_sync", "snapshot_temp") /\ Sync(SnapshotsDir)

WriteSnapshotTemp(p) ==
    DiskStep(p, "snapshot_temp", "record_temp") /\ Set(pid[p], "snapshot_temp", "own")

(* The rows begin_prediction inserts next are the transaction's own until Commit. *)
WriteRecordTemp(p) ==
    DiskStep(p, "record_temp", "snapshot_link") /\ Set(pid[p], "record_temp", "own")

(* StagedWrite.rollback removes a final path when its link was recorded,   *)
(* or when it still is the inode of the temporary file.                    *)
Flagged(p) ==
    (IF pc[p] \in {"snapshot_unlink", "snapshot_sync", "record_link", "record_flag",
                   "record_unlink", "record_sync", "doubt"} THEN {"snapshot"} ELSE {})
      \cup (IF pc[p] \in {"record_unlink", "record_sync", "doubt"} THEN {"record"} ELSE {})

SameInode(q, temp, x) == fs[q][temp] = "own" /\ fs[q][x] = "own"

Owned(p) ==
    LET q == pid[p] IN
    Flagged(p) \cup (IF SameInode(q, "record_temp", "record") THEN {"record"} ELSE {})
               \cup (IF SameInode(q, "snapshot_temp", "snapshot") THEN {"snapshot"} ELSE {})

RollbackList(p) ==
    Entries(pid[p],
            <<"record_temp", "snapshot_temp", "manifest">>
              \o (IF "record" \in Owned(p) THEN <<"record">> ELSE <<>>)
              \o (IF "snapshot" \in Owned(p) THEN <<"snapshot">> ELSE <<>>))

StartRollback(p) ==
    /\ todo' = [todo EXCEPT ![p] = RollbackList(p)]
    /\ cleaned' = cleaned \cup {pid[p]}
    /\ Go(p, "rollback")
    /\ UNCHANGED <<receipts, allocated, edited, torn, undone>>

StageRaises(p) ==
    /\ pc[p] \in Staging
    /\ Fault("raise")
    /\ StartRollback(p)
    /\ ret' = [ret EXCEPT ![p] = "failed"]
    /\ UNCHANGED <<lock, txn, tables, disk, attempt>>

(* Faulty variant: os.replace instead of a no-replace link. *)
LinkReplaces(p, x, from, to) ==
    /\ DiskStep(p, from, to)
    /\ Set(pid[p], x, "own")

(* _publish_no_replace: a file that appeared meanwhile is never replaced.  *)
Link(p, x, from, to) ==
    /\ DiskStep(p, from, to)
    /\ fs[pid[p]][x] = "none"
    /\ Set(pid[p], x, "own")

LinkCollides(p, x, from) ==
    /\ pc[p] = from
    /\ fs[pid[p]][x] # "none"
    /\ StartRollback(p)
    /\ ret' = [ret EXCEPT ![p] = "integrity"]
    /\ UNCHANGED <<lock, txn, tables, disk, attempt, faults>>

Flag(p, from, to) == DiskStep(p, from, to) /\ UNCHANGED disk

UnlinkTemp(p, temp, from, to) == DiskStep(p, from, to) /\ Set(pid[p], temp, "none")

SyncPublished(p, dir, from, to) == DiskStep(p, from, to) /\ Sync(dir)

(* Faulty variant: the record's directory is not fsynced before the commit. *)
RecordNotSynced(p) == DiskStep(p, "record_sync", "commit") /\ UNCHANGED disk

LinkSnapshot(p)       == Link(p, "snapshot", "snapshot_link", "snapshot_flag")
SnapshotCollides(p)   == LinkCollides(p, "snapshot", "snapshot_link")
FlagSnapshot(p)       == Flag(p, "snapshot_flag", "snapshot_unlink")
UnlinkSnapshotTemp(p) == UnlinkTemp(p, "snapshot_temp", "snapshot_unlink", "snapshot_sync")
SyncSnapshot(p)       == SyncPublished(p, SnapshotsDir, "snapshot_sync", "record_link")
LinkRecord(p)         == Link(p, "record", "record_link", "record_flag")
RecordCollides(p)     == LinkCollides(p, "record", "record_link")
FlagRecord(p)         == Flag(p, "record_flag", "record_unlink")
UnlinkRecordTemp(p)   == UnlinkTemp(p, "record_temp", "record_unlink", "record_sync")
SyncRecord(p)         == SyncPublished(p, RecordsDir, "record_sync", "commit")

----------------------------------------------------------------------------
(* Commit, and the doubt after a commit that raised.                       *)

FinalizeList(q) == Entries(q, <<"record_temp", "snapshot_temp", "manifest">>)

(* commit_prediction and register_capture_request become visible at once.  *)
CommitRows(p) ==
    /\ predictions' = predictions \cup {pid[p]}
    /\ captureRequests' =
         IF key[p] = None THEN captureRequests
         ELSE [captureRequests EXCEPT ![key[p]] = [req |-> req[p], pid |-> pid[p]]]
    /\ UNCHANGED touchedWindows

Commit(p) ==
    /\ pc[p] = "commit"
    /\ CommitRows(p)
    /\ txn' = None
    /\ todo' = [todo EXCEPT ![p] = FinalizeList(pid[p])]
    /\ ret' = [ret EXCEPT ![p] = "ok"]
    /\ Go(p, "finalize")
    /\ UNCHANGED <<lock, disk, attempt, history, faults>>

(* connection.commit() raises, whether or not the rows became durable; the *)
(* except block then asks the registry which it was.                       *)
InDoubt(p) ==
    /\ pc[p] = "commit"
    /\ Fault("raise")
    /\ txn' = None
    /\ ret' = [ret EXCEPT ![p] = "failed"]
    /\ Go(p, "doubt")
    /\ UNCHANGED <<lock, disk, attempt, todo, history>>

CommitLands(p) == InDoubt(p) /\ CommitRows(p)
CommitFails(p) == InDoubt(p) /\ UNCHANGED tables

DoubtCommitted(p) ==
    /\ pc[p] = "doubt"
    /\ pid[p] \in predictions
    /\ todo' = [todo EXCEPT ![p] = FinalizeList(pid[p])]
    /\ Go(p, "finalize")
    /\ UNCHANGED <<lock, txn, tables, disk, attempt, ret, history, faults>>

DoubtUncommitted(p) ==
    /\ pc[p] = "doubt"
    /\ pid[p] \notin predictions
    /\ StartRollback(p)
    /\ UNCHANGED <<lock, txn, tables, disk, attempt, ret, faults>>

(* is_committed raises too: the manifest stays for the next writer. *)
DoubtRaises(p) ==
    /\ pc[p] = "doubt"
    /\ Fault("raise")
    /\ EndWith(p, "failed")
    /\ UNCHANGED <<lock, txn, tables, disk, attempt, todo, history>>

----------------------------------------------------------------------------
(* _remove_paths, one unlink at a time, and the fsyncs that follow it.     *)

Remove(p) ==
    /\ pc[p] \in Cleaning
    /\ todo[p] # <<>>
    /\ Set(Head(todo[p])[1], Head(todo[p])[2], "none")
    /\ todo' = [todo EXCEPT ![p] = Tail(@)]
    /\ UNCHANGED <<lock, txn, tables, pc, attempt, ret, history, faults>>

(* A rollback that has removed the manifest and not yet all the files. *)
TornBy(p) ==
    IF pc[p] = "rollback" /\ todo[p] # <<>> /\ fs[pid[p]]["manifest"] # "own"
    THEN {pid[p]} ELSE {}

RemoveRaises(p) ==
    /\ pc[p] \in Cleaning \cup {"recover_tmp", "sync_snapshots"}
    /\ Fault("raise")
    /\ torn' = torn \cup TornBy(p)
    /\ todo' = [todo EXCEPT ![p] = <<>>]
    /\ EndWith(p, "failed")
    /\ UNCHANGED <<lock, txn, tables, disk, attempt, receipts, allocated, edited, cleaned,
                   undone>>

SyncRecordsDir(p) ==
    /\ pc[p] \in {"finalize", "rollback"}
    /\ todo[p] = <<>>
    /\ Sync(RecordsDir)
    /\ Go(p, "sync_snapshots")
    /\ UNCHANGED <<lock, txn, tables, attempt, todo, ret, history, faults>>

SyncSnapshotsDir(p) ==
    /\ pc[p] = "sync_snapshots"
    /\ Sync(SnapshotsDir)
    /\ cleaned' = cleaned \ {pid[p]}
    /\ Go(p, "leave")
    /\ UNCHANGED <<lock, txn, tables, attempt, todo, ret,
                   receipts, allocated, edited, torn, undone, faults>>

(* Faulty variant: every attempt with a key is answered as if it succeeded. *)
LeaveAnswersAll(p) ==
    /\ pc[p] = "leave"
    /\ lock' = None
    /\ txn' = IF txn = p THEN None ELSE txn
    /\ receipts' = IF key[p] # None
                   THEN receipts \cup {[key |-> key[p], req |-> req[p], pid |-> pid[p]]}
                   ELSE receipts
    /\ BackToIdle(p)
    /\ ret' = [ret EXCEPT ![p] = "none"]
    /\ UNCHANGED <<tables, disk, todo, allocated, edited, cleaned, torn, undone, faults>>

(* Roll back whatever transaction is open, release the lock, answer.       *)
Leave(p) ==
    /\ pc[p] = "leave"
    /\ lock' = None
    /\ txn' = IF txn = p THEN None ELSE txn
    /\ receipts' = IF ret[p] = "ok" /\ key[p] # None
                   THEN receipts \cup {[key |-> key[p], req |-> req[p], pid |-> pid[p]]}
                   ELSE receipts
    /\ BackToIdle(p)
    /\ ret' = [ret EXCEPT ![p] = "none"]
    /\ UNCHANGED <<tables, disk, todo, allocated, edited, cleaned, torn, undone, faults>>

----------------------------------------------------------------------------
(* The environment: crashes, editors, and runs that look at a window.      *)

(* A process dies: the kernel drops its file lock, SQLite its transaction. *)
Crash(p) ==
    /\ pc[p] # "idle"
    /\ Fault("crash")
    /\ lock' = IF lock = p THEN None ELSE lock
    /\ txn' = IF txn = p THEN None ELSE txn
    /\ torn' = torn \cup TornBy(p)
    /\ BackToIdle(p)
    /\ todo' = [todo EXCEPT ![p] = <<>>]
    /\ ret' = [ret EXCEPT ![p] = "none"]
    /\ UNCHANGED <<tables, disk, receipts, allocated, edited, cleaned, undone>>

(* Files whose removal the crash takes back, although their manifest stays *)
(* away: recovery unlinks both and fsyncs neither directory.               *)
Revived ==
    {q \in cleaned : /\ fs'[q]["manifest"] # "own"
                     /\ \E x \in Staged : fs[q][x] # "own" /\ fs'[q][x] = "own"}

Unsynced == {u \in Pids \X Paths : survive[u[1]][u[2]] # {fs[u[1]][u[2]]}}

(* The machine dies: every entry keeps one of the contents it may have.    *)
(* The registry is in WAL mode with synchronous = FULL, so a commit stays. *)
MachineCrash ==
    /\ Fault("machine")
    /\ \E after \in [Unsynced -> Content] :
         /\ \A u \in Unsynced : after[u] \in survive[u[1]][u[2]]
         /\ fs' = [q \in Pids |-> [x \in Paths |->
                     IF <<q, x>> \in Unsynced THEN after[<<q, x>>] ELSE fs[q][x]]]
    /\ survive' = [q \in Pids |-> [x \in Paths |-> {fs'[q][x]}]]
    /\ lock' = None
    /\ txn' = None
    /\ torn' = torn \cup UNION {TornBy(p) : p \in Procs}
    /\ undone' = undone \cup Revived
    /\ cleaned' = {}
    /\ pc' = [p \in Procs |-> "idle"]
    /\ key' = [p \in Procs |-> None]
    /\ req' = [p \in Procs |-> None]
    /\ pid' = [p \in Procs |-> None]
    /\ manifests' = [p \in Procs |-> {}]
    /\ todo' = [p \in Procs |-> <<>>]
    /\ ret' = [p \in Procs |-> "none"]
    /\ UNCHANGED <<tables, receipts, allocated, edited>>

(* An editor or a sync client writes or removes a file of the vault.       *)
Edit(q, x, c) ==
    /\ Fault("editor")
    /\ fs[q][x] # c
    /\ Set(q, x, c)
    /\ edited' = edited \cup {<<q, x>>}
    /\ UNCHANGED <<lock, txn, tables, pc, attempt, todo, ret,
                   receipts, allocated, cleaned, torn, undone>>

(* LedgerRegistry.start_run and mark_window_touched: one immediate         *)
(* transaction each, on a whole window, without the ledger lock.           *)
Touch(C) ==
    /\ txn = None
    /\ ~(C \subseteq touchedWindows)
    /\ touchedWindows' = touchedWindows \cup C
    /\ UNCHANGED <<lock, txn, predictions, captureRequests, disk, pc, attempt, todo, ret,
                   history, faults>>

----------------------------------------------------------------------------

Enter(p)   == Capture(p) \/ Write(p) \/ Open(p)
Recover(p) == RecoverTmps(p) \/ RecoverManifest(p) \/ RecoverDone(p)
Select(p)  == BeginImmediate(p) \/ Lookup(p) \/ CheckFresh(p) \/ Allocate(p) \/ Stage(p)
                \/ Raise(p)
Publish(p) == WriteManifestTmp(p) \/ RenameManifest(p) \/ SyncManifest(p)
                \/ WriteSnapshotTemp(p) \/ WriteRecordTemp(p)
                \/ LinkSnapshot(p) \/ FlagSnapshot(p) \/ UnlinkSnapshotTemp(p) \/ SyncSnapshot(p)
                \/ LinkRecord(p) \/ FlagRecord(p) \/ UnlinkRecordTemp(p) \/ SyncRecord(p)
                \/ SnapshotCollides(p) \/ RecordCollides(p)
Finish(p)  == Commit(p) \/ DoubtCommitted(p) \/ DoubtUncommitted(p) \/ Remove(p)
                \/ SyncRecordsDir(p) \/ SyncSnapshotsDir(p) \/ Leave(p)
Faulty(p)  == StageRaises(p) \/ CommitLands(p) \/ CommitFails(p) \/ DoubtRaises(p)
                \/ RemoveRaises(p) \/ Crash(p)

Progress(p) == AcquireLock(p) \/ LockTimeout(p) \/ Recover(p) \/ Select(p) \/ Publish(p)
                 \/ Finish(p)

Next ==
    \/ \E p \in Procs : Enter(p) \/ Progress(p) \/ Faulty(p)
    \/ \E q \in Pids, x \in Artifacts, c \in {"none", "foreign"} : Edit(q, x, c)
    \/ \E C \in SUBSET Cells : Touch(C)
    \/ MachineCrash

Spec == Init /\ [][Next]_vars

(* A live process keeps executing; nothing obliges it to start an attempt. *)
FairSpec == Spec /\ \A p \in Procs : WF_vars(Progress(p))
----------------------------------------------------------------------------
(* Properties.                                                             *)

(* Every variable has its type: the lock and the transaction name at most  *)
(* one process, an entry holds one content and may survive as it is.       *)
TypeOK ==
    /\ lock \in Procs \cup {None}
    /\ txn \in Procs \cup {None}
    /\ predictions \subseteq Pids
    /\ captureRequests \in [Keys -> Binding \cup {None}]
    /\ touchedWindows \subseteq Cells
    /\ fs \in [Pids -> [Paths -> Content]]
    /\ survive \in [Pids -> [Paths -> SUBSET Content]]
    /\ pc \in [Procs -> Labels]
    /\ key \in [Procs -> Keys \cup {None}]
    /\ req \in [Procs -> Reqs \cup {None}]
    /\ pid \in [Procs -> Pids \cup {None}]
    /\ manifests \in [Procs -> SUBSET Pids]
    /\ todo \in [Procs -> Seq(Pids \X Paths)]
    /\ ret \in [Procs -> Returns]
    /\ receipts \subseteq [key : Keys, req : Reqs, pid : Uuids]
    /\ allocated \subseteq Uuids
    /\ edited \subseteq Pids \X Artifacts
    /\ cleaned \subseteq Pids
    /\ torn \subseteq Pids
    /\ undone \subseteq Pids
    /\ faults \in Nat

(* The committed row is the visibility boundary (class docstring of        *)
(* LedgerWriter): whenever a row says committed, the record and the        *)
(* snapshot it names are there, through failures, crashes of processes and *)
(* of the machine and recovery, unless an editor changed them.             *)
CommittedHasArtifacts ==
    \A q \in predictions, x \in Artifacts : fs[q][x] = "own" \/ <<q, x>> \in edited

(* Exactly once (capture, lines 86-97): every answer for a key names the   *)
(* one prediction its request is bound to, two keys never share one, and   *)
(* no captured prediction is left without a key.                           *)
ExactlyOnce ==
    /\ \A c \in receipts : captureRequests[c.key] = [req |-> c.req, pid |-> c.pid]
    /\ \A k, l \in Keys :
         captureRequests[k] # None /\ captureRequests[l] # None
           /\ captureRequests[k].pid = captureRequests[l].pid => k = l
    /\ \A q \in predictions \cap Uuids :
         \E k \in Keys : captureRequests[k] # None /\ captureRequests[k].pid = q

(* A key is bound once and for good, and only while no run has seen any    *)
(* observation of the request's window: the check of lines 111-122 still   *)
(* holds when the transaction commits.                                     *)
BoundWhileFresh ==
    [][\A k \in Keys : captureRequests'[k] # captureRequests[k] =>
          /\ captureRequests[k] = None
          /\ CellsOf[captureRequests'[k].req] \cap touchedWindows = {}]_vars

Own(q) == {x \in Staged : fs[q][x] = "own"}
Debris(q) == Own(q) \ (IF q \in predictions THEN Artifacts ELSE {})
BeingRemoved(q) == \E p \in Procs : pid[p] = q /\ pc[p] = "rollback"

(* Files of an attempt that did not commit, and temporary files of any     *)
(* attempt, are named by a manifest the next writer will follow, but for   *)
(* three cases: their rollback is under way; it was cut short after it     *)
(* removed the manifest (torn); or they had been removed, and a power cut  *)
(* brought back a file whose removal was not fsynced, without bringing     *)
(* back the manifest (undone).                                             *)
DebrisHasManifest ==
    \A q \in Pids : Debris(q) # {} =>
        fs[q]["manifest"] = "own" \/ BeingRemoved(q) \/ q \in torn \cup undone

(* README, Atomicity boundary: "a durable manifest lets the next writer    *)
(* remove any uncommitted debris after a process or machine crash".  A     *)
(* writer that has finished recovery finds no uncommitted file.            *)
RecoveredLedgerIsClean ==
    \A p \in Procs : pc[p] \in {"begin", "lookup", "check", "allocate"} =>
        \A q \in Pids \ predictions : Own(q) = {}

(* The same promise for records alone, which are what an editor shows and  *)
(* lie in another directory than the manifest that named them.             *)
RecoveredRecordsAreCommitted ==
    \A p \in Procs : pc[p] \in {"begin", "lookup", "check", "allocate"} =>
        \A q \in Pids \ predictions : fs[q]["record"] # "own"

(* README, Atomicity boundary: "Artifact publication uses atomic           *)
(* no-replace links so concurrent editor activity can never be             *)
(* overwritten": no step of the writer puts its file over an editor's (a   *)
(* machine crash may undo an edit that had not reached the disk).          *)
NeverOverwritesForeign ==
    [][\A q \in Pids, x \in Artifacts :
         faults' = faults /\ fs[q][x] = "foreign" => fs'[q][x] # "own"]_vars

(* Recovery comes to an end (lines 344-363): as long as writers keep       *)
(* taking the lock, a manifest does not stay, and goes only with the files *)
(* it names, however many recoveries and rollbacks are broken off on the   *)
(* way.  Torn and undone removals are the exceptions of DebrisHasManifest. *)
ManifestsAreFollowed ==
    []<>(lock # None) =>
        \A q \in Pids :
            fs[q]["manifest"] = "own" ~>
                (fs[q]["manifest"] = "none" /\ Debris(q) = {}) \/ q \in torn \cup undone

(* Step by step the capture implements the atomic ledger.                  *)
Atomic == INSTANCE AtomicLedger WITH
    Keys <- Keys, Reqs <- Reqs, Uuids <- Uuids, DraftIds <- DraftIds,
    Cells <- Cells, CellsOf <- CellsOf, None <- None,
    predictions <- predictions, captureRequests <- captureRequests,
    touchedWindows <- touchedWindows, receipts <- receipts
RefinesAtomicLedger == Atomic!ASpec
=============================================================================
