------------------------------- MODULE Backup -------------------------------
(***************************************************************************)
(* create_backup (src/ledger/backup_cli.py) beside the runs: it holds the  *)
(* ledger lock while it looks for an active run, copies the registry and   *)
(* copies the vault's files, and publishes when everything is verified.    *)
(***************************************************************************)
EXTENDS Runs

VARIABLES
    locked,      \* the backup holds the ledger lock
    step,        \* where the backup is
    registryCopy,   \* the runs in the copied registry
    fileCopy     \* the predictions whose files were copied

backup == <<locked, step, registryCopy, fileCopy>>
bvars  == <<vars, backup>>

NoCopy == [r \in RunIds |-> "none"]

BInit ==
    /\ Init
    /\ locked = FALSE
    /\ step = "idle"
    /\ registryCopy = NoCopy
    /\ fileCopy = {}

(* Every file under the managed roots is copied.  Those of a prediction    *)
(* are there once its row is committed, which is what module Capture is    *)
(* about; what uncommitted captures left there is copied too, and is left  *)
(* out here.                                                               *)
Captured == {r \in Allocated : runState[r] # "none"}

(* Every backup is made in a new directory. *)
TakeLock ==
    /\ step \in {"idle", "published"}
    /\ ~locked
    /\ locked' = TRUE
    /\ step' = "check"
    /\ registryCopy' = NoCopy
    /\ fileCopy' = {}
    /\ UNCHANGED vars

Refuse ==
    /\ step = "check"
    /\ \E r \in RunIds : runState[r] = "running"
    /\ locked' = FALSE
    /\ step' = "idle"
    /\ UNCHANGED <<vars, registryCopy, fileCopy>>

CheckActive ==
    /\ step = "check"
    /\ \A r \in RunIds : runState[r] # "running"
    /\ step' = "copy"
    /\ UNCHANGED <<vars, locked, registryCopy, fileCopy>>

(* Faulty variant: the lock covers the copy of the registry only. *)
CopyRegistryAndUnlock ==
    /\ step = "copy"
    /\ registryCopy' = runState
    /\ step' = "files"
    /\ locked' = FALSE
    /\ UNCHANGED <<vars, fileCopy>>

(* SQLite's online backup reads the registry in one snapshot. *)
CopyRegistry ==
    /\ step = "copy"
    /\ registryCopy' = runState
    /\ step' = "files"
    /\ UNCHANGED <<vars, locked, fileCopy>>

CopyFiles ==
    /\ step = "files"
    /\ fileCopy' = Captured
    /\ locked' = FALSE
    /\ step' = "verify"
    /\ UNCHANGED <<vars, registryCopy>>

(* The copy gets its name when it is verified, *)
Publish ==
    /\ step = "verify"
    /\ step' = "named"
    /\ UNCHANGED <<vars, locked, registryCopy, fileCopy>>

(* and is verified once more under it.  A death now leaves it there, too.  *)
Confirm ==
    /\ step = "named"
    /\ step' = "published"
    /\ UNCHANGED <<vars, locked, registryCopy, fileCopy>>

(* Any exception removes what was copied, also when it has its name; a     *)
(* death before that leaves it unnamed.                                    *)
Fail ==
    /\ step \in {"check", "copy", "files", "verify", "named"}
    /\ locked' = FALSE
    /\ step' = "idle"
    /\ registryCopy' = NoCopy
    /\ fileCopy' = {}
    /\ UNCHANGED vars

BNext ==
    \/ ~locked /\ UnderLedgerLock /\ UNCHANGED backup
    \/ WithoutLedgerLock /\ UNCHANGED backup
    \/ TakeLock \/ Refuse \/ CheckActive \/ CopyRegistry \/ CopyFiles \/ Publish
    \/ Confirm \/ Fail

BSpec == BInit /\ [][BNext]_bvars

(* A live wrapper keeps executing and a command ends some time; nothing is *)
(* assumed of the backup.                                                  *)
BFairSpec ==
    /\ BSpec
    /\ \A p \in Procs : WF_bvars(Execute(p) /\ UNCHANGED backup)
    /\ \A r \in RunIds :
         WF_bvars((ChildExits(r, "ok") \/ ChildExits(r, "bad")) /\ UNCHANGED backup)

(* A backup with a name holds the files of every prediction its registry   *)
(* knows and of no later one, whatever is captured while it is made.       *)
BackupIsWhole ==
    step \in {"named", "published"} => fileCopy = {r \in Allocated : registryCopy[r] # "none"}

(* docs/durable-deployment.md: the backup "refuses to snapshot while an MSM *)
(* run is active": no backup with a name holds a running run.             *)
BackupHasNoActiveRun ==
    step \in {"named", "published"} => \A r \in RunIds : registryCopy[r] # "running"
=============================================================================
