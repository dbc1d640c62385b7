------------------------------- MODULE Ledger -------------------------------
(***************************************************************************)
(* One ledger: the captures of module Capture, the runs of module Runs and *)
(* a backup share the registry, its touched windows, the write transaction *)
(* and the ledger lock.                                                    *)
(*                                                                         *)
(* Runs assumes that a registration finds its window fresh, and Capture    *)
(* that windows are touched between transactions only.  Here neither is    *)
(* assumed: a run is registered by the commit of its prediction            *)
(* (begin_prediction inserts both rows), and windows are touched by runs   *)
(* that start and by imports.                                              *)
(*                                                                         *)
(* A prediction's run is named by what it is registered for, the request   *)
(* and the prediction's id.  Processes die one by one; a machine crash,    *)
(* which ends them all at once, is left to Capture.                        *)
(***************************************************************************)
EXTENDS Capture

CONSTANTS
    Invocations,  \* invocations of the run wrapper
    RunKeys,      \* idempotency keys of run requests
    RunRequests,  \* run requests
    Target,       \* the run a preregistered request names, None if exploratory
    Drawn,        \* run ids exploratory requests draw
    Imported,     \* run ids imports draw
    Docs,         \* evidence documents of runs that bypassed the wrapper
    SourceOf,     \* the external run a document describes
    Succeeded,    \* the documents that report success
    Evidence,     \* result evidence documents
    OwnWindow,    \* the window of an exploratory request or a document
    MaxAbandoned  \* bound: invocations that die or raise in one behaviour

(* What Runs assumes of its parameters, said of these.  Predictions come   *)
(* from CaptureService only: LedgerWriter.write, which only tests call,    *)
(* registers the run of a draft whatever its window.                       *)
Parameters ==
    /\ DraftIds = {}
    /\ Drawn \cap Imported = {} /\ (Drawn \cup Imported) \cap (Reqs \X Uuids) = {}
    /\ Target \in [RunRequests -> (Reqs \X Uuids) \cup {None}]
    /\ OwnWindow \in [RunRequests \cup Docs -> SUBSET Cells]
    /\ RunRequests \cap Docs = {} /\ DOMAIN SourceOf = Docs /\ Succeeded \subseteq Docs
    /\ None \notin Invocations \cup RunKeys \cup RunRequests \cup Docs \cup Evidence
                     \cup (Reqs \X Uuids) \cup Drawn \cup Imported
    /\ MaxAbandoned \in Nat

(* What an envelope freezes: a run of a prediction observes the window the *)
(* capture froze in its snapshot, any other run its own.                   *)
Observes ==
    [o \in RunRequests \cup Docs |->
       IF o \in RunRequests /\ Target[o] # None THEN CellsOf[Target[o][1]] ELSE OwnWindow[o]]

VARIABLES
    runState, bindings, results, imports,                    \* tables of the runs
    lease, at, runKey, run, outcome, child, launched,        \* invocations
    answers, abandoned,
    locked, step, registryCopy, fileCopy                     \* the backup

B == INSTANCE Backup WITH
    Procs <- Invocations, Keys <- RunKeys, Requests <- RunRequests,
    Allocated <- Reqs \X Uuids, CellsOf <- Observes, MaxFaults <- MaxAbandoned,
    touched <- touchedWindows, pc <- at, key <- runKey, faults <- abandoned

wrapper == <<lease, at, runKey, run, outcome, child, launched, answers, abandoned>>
backup  == <<locked, step, registryCopy, fileCopy>>
lvars   == <<vars, runState, bindings, results, imports, wrapper, backup>>

LInit == Init /\ B!BInit

----------------------------------------------------------------------------
(* Captures. *)

(* begin_prediction: the rows of runs that come with what is bound here.   *)
Allocates ==
    {<<captureRequests'[k].req, captureRequests'[k].pid>> :
       k \in {l \in Keys : captureRequests'[l] # captureRequests[l]}}

(* A backup keeps a capture from entering, as another capture does.        *)
CaptureStep ==
    /\ \/ \E p \in Procs : Enter(p) \/ Progress(p) \/ Faulty(p)
       \/ \E q \in Pids, x \in Artifacts, c \in {"none", "foreign"} : Edit(q, x, c)
    /\ lock' \in {lock, None} \/ ~locked
    /\ runState' = [r \in B!RunIds |-> IF r \in Allocates THEN "registered" ELSE runState[r]]
    /\ UNCHANGED <<touchedWindows, bindings, results, imports, wrapper, backup>>

----------------------------------------------------------------------------
(* Runs. *)

(* Preparations, results and imports hold the ledger lock for their one    *)
(* transaction; whoever writes a table needs the write transaction.        *)
RunStep ==
    /\ \/ lock = None /\ ~locked /\ B!RunTransactions
       \/ B!WithoutLedgerLock
    /\ B!tables' # B!tables => txn = None
    /\ UNCHANGED <<lock, txn, predictions, captureRequests, disk, pc, attempt, todo, ret,
                   history, faults, backup>>

----------------------------------------------------------------------------
(* The backup. *)

BackupStep ==
    /\ \/ lock = None /\ B!TakeLock
       \/ B!Refuse \/ B!CheckActive \/ B!CopyRegistry \/ B!CopyFiles \/ B!Publish
       \/ B!Confirm \/ B!Fail
    /\ UNCHANGED vars

----------------------------------------------------------------------------

LNext == CaptureStep \/ RunStep \/ BackupStep

LSpec == LInit /\ [][LNext]_lvars

----------------------------------------------------------------------------
(* What the parts promise together. *)

(* README: a prediction is preregistered on data nobody has looked at.     *)
(* When a key is bound, no child has ever been started on any observation  *)
(* of the request's window, whatever captures, runs and imports race.      *)
CapturedBlind ==
    [][\A k \in Keys, s \in B!RunIds :
         captureRequests'[k] # captureRequests[k] /\ launched[s] > 0
           => B!WindowOf(s) \cap CellsOf[captureRequests'[k].req] = {}]_lvars

(* A prediction has its run, and a run its prediction: the row of a run    *)
(* exists exactly when the pair it was drawn for is bound.                 *)
RunsHavePredictions ==
    \A r \in Reqs, q \in Uuids :
        runState[<<r, q>>] # "none" <=> \E k \in Keys : captureRequests[k] = [req |-> r, pid |-> q]

(* create_backup copies files that are there: when it comes to copy them,  *)
(* both artifacts of every prediction its registry knows exist, unless an  *)
(* editor touched them.                                                    *)
BackupFindsFiles ==
    step = "files" =>
        \A r \in Reqs, q \in Uuids, x \in Artifacts :
            registryCopy[<<r, q>>] # "none" => fs[q][x] = "own" \/ <<q, x>> \in edited

(* src/docs/durable-deployment.md:64-65: the backup "refuses to snapshot   *)
(* while an MSM run is active".  Here the run is the one a capture         *)
(* preregistered, and the lock is the one captures contend for.            *)
BackupHasNoActiveRun == B!BackupHasNoActiveRun
=============================================================================
