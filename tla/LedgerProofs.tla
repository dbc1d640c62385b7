---------------------------- MODULE LedgerProofs ----------------------------
(***************************************************************************)
(* Proofs about module Ledger: captures, runs and a backup over one        *)
(* registry, for any number of each.                                       *)
(*                                                                         *)
(* The composition implements Capture and it implements Backup, so every   *)
(* theorem about Capture, Runs and Backup holds of the whole.  The two     *)
(* lean on each other: a registration of Runs finds its window fresh       *)
(* because of what Capture's invariant says of a capture that commits, and *)
(* Capture's invariant holds because a run touches windows only between    *)
(* transactions.  So both invariants are carried through together.         *)
(***************************************************************************)
EXTENDS Ledger, CaptureProofs

R == INSTANCE RunsProofs WITH
    Procs <- Invocations, Keys <- RunKeys, Requests <- RunRequests,
    Allocated <- Reqs \X Uuids, CellsOf <- Observes, MaxFaults <- MaxAbandoned,
    touched <- touchedWindows, pc <- at, key <- runKey, faults <- abandoned

(* The ledger lock has one holder, of whatever kind. *)
LockIsShared == locked => lock = None

Joint == IInv /\ R!IInv /\ LockIsShared /\ RunsHavePredictions

----------------------------------------------------------------------------
(* The runs of the ledger are the runs the theorems are about. *)

(* The parameters satisfy what Runs assumes of its own. *)
LEMMA RunParameters ==
  ASSUME Parameters
  PROVE  R!RunIdsAssumption /\ R!OriginAssumption /\ R!NoneAssumption /\ R!BoundAssumption
<1>1. R!RunIdsAssumption /\ R!NoneAssumption /\ R!BoundAssumption
  BY DEF Parameters, R!RunIdsAssumption, R!NoneAssumption, R!BoundAssumption, R!RunIds
<1>2. Observes \in [RunRequests \cup Docs -> SUBSET Cells]
  BY CellsAssumption DEF Parameters, Observes
<1>3. \A q, s \in RunRequests : Target[q] # None /\ Target[q] = Target[s] => Observes[q] = Observes[s]
  BY DEF Observes
<1>4. R!OriginAssumption
  BY <1>2, <1>3 DEF Parameters, R!OriginAssumption, R!Origin
<1> QED
  BY <1>1, <1>4

(* Ledger takes the definitions from Backup, the theorems take them from   *)
(* RunsProofs: they are the same.                                          *)
LEMMA SameRuns ==
  /\ B!BInit <=> R!BInit
  /\ B!BNext <=> R!BNext
  /\ B!RunTransactions <=> R!RunTransactions
  /\ B!WithoutLedgerLock <=> R!WithoutLedgerLock
  /\ \A s : B!WindowOf(s) = R!WindowOf(s)
<1> USE DEF B!RunIds, R!RunIds, B!tables, R!tables, B!wrapper, R!wrapper, B!vars, R!vars,
      B!Terminal, R!Terminal, B!OriginsOf, R!OriginsOf, B!WindowOf, R!WindowOf, B!Go, R!Go,
      B!Return, R!Return, B!Reply, R!Reply, B!Register, R!Register, B!Prepared, R!Prepared,
      B!Known, R!Known, B!Retry, R!Retry, B!BindPreregistered, R!BindPreregistered,
      B!BindExploratory, R!BindExploratory, B!FoundTerminal, R!FoundTerminal, B!FoundOpen,
      R!FoundOpen, B!TakeLease, R!TakeLease, B!LeaseBusy, R!LeaseBusy, B!LookTerminal,
      R!LookTerminal, B!LookOpen, R!LookOpen, B!FinishRun, R!FinishRun, B!FailOrphan,
      R!FailOrphan, B!VerifyFails, R!VerifyFails, B!StartRun, R!StartRun, B!Launch, R!Launch,
      B!Conclude, R!Conclude, B!LaunchFails, R!LaunchFails, B!Reap, R!Reap, B!Interrupt,
      R!Interrupt, B!Record, R!Record, B!RecordAndRaise, R!RecordAndRaise, B!Reread, R!Reread,
      B!Abandon, R!Abandon, B!ChildExits, R!ChildExits, B!IngestResult, R!IngestResult,
      B!ImportExternal, R!ImportExternal, B!Prepare, R!Prepare, B!Execute, R!Execute,
      B!RunTransactions, R!RunTransactions, B!UnderLedgerLock, R!UnderLedgerLock,
      B!WithoutLedgerLock, R!WithoutLedgerLock, B!Next, R!Next, B!backup, R!backup, B!bvars,
      R!bvars, B!NoCopy, R!NoCopy, B!Captured, R!Captured, B!TakeLock, R!TakeLock, B!Refuse,
      R!Refuse, B!CheckActive, R!CheckActive, B!CopyRegistry, R!CopyRegistry, B!CopyFiles,
      R!CopyFiles, B!Publish, R!Publish, B!Confirm, R!Confirm, B!Fail, R!Fail, B!BNext, R!BNext
<1>1. B!BInit <=> R!BInit
  BY DEF B!BInit, R!BInit, B!Init, R!Init
<1>2. B!BNext <=> R!BNext
  OBVIOUS
<1>3. B!RunTransactions <=> R!RunTransactions
  OBVIOUS
<1>4. B!WithoutLedgerLock <=> R!WithoutLedgerLock
  OBVIOUS
<1>5. \A s : B!WindowOf(s) = R!WindowOf(s)
  OBVIOUS
<1> HIDE DEF B!RunIds, R!RunIds, B!tables, R!tables, B!wrapper, R!wrapper, B!vars, R!vars,
      B!Terminal, R!Terminal, B!OriginsOf, R!OriginsOf, B!WindowOf, R!WindowOf, B!Go, R!Go,
      B!Return, R!Return, B!Reply, R!Reply, B!Register, R!Register, B!Prepared, R!Prepared,
      B!Known, R!Known, B!Retry, R!Retry, B!BindPreregistered, R!BindPreregistered,
      B!BindExploratory, R!BindExploratory, B!FoundTerminal, R!FoundTerminal, B!FoundOpen,
      R!FoundOpen, B!TakeLease, R!TakeLease, B!LeaseBusy, R!LeaseBusy, B!LookTerminal,
      R!LookTerminal, B!LookOpen, R!LookOpen, B!FinishRun, R!FinishRun, B!FailOrphan,
      R!FailOrphan, B!VerifyFails, R!VerifyFails, B!StartRun, R!StartRun, B!Launch, R!Launch,
      B!Conclude, R!Conclude, B!LaunchFails, R!LaunchFails, B!Reap, R!Reap, B!Interrupt,
      R!Interrupt, B!Record, R!Record, B!RecordAndRaise, R!RecordAndRaise, B!Reread, R!Reread,
      B!Abandon, R!Abandon, B!ChildExits, R!ChildExits, B!IngestResult, R!IngestResult,
      B!ImportExternal, R!ImportExternal, B!Prepare, R!Prepare, B!Execute, R!Execute,
      B!RunTransactions, R!RunTransactions, B!UnderLedgerLock, R!UnderLedgerLock,
      B!WithoutLedgerLock, R!WithoutLedgerLock, B!Next, R!Next, B!backup, R!backup, B!bvars,
      R!bvars, B!NoCopy, R!NoCopy, B!Captured, R!Captured, B!TakeLock, R!TakeLock, B!Refuse,
      R!Refuse, B!CheckActive, R!CheckActive, B!CopyRegistry, R!CopyRegistry, B!CopyFiles,
      R!CopyFiles, B!Publish, R!Publish, B!Confirm, R!Confirm, B!Fail, R!Fail, B!BNext, R!BNext
<1> QED
  BY <1>1, <1>2, <1>3, <1>4, <1>5

(* Who leaves the tables, the invocations and the backup alone is not seen *)
(* by the runs.                                                            *)
LEMMA RunsStutter ==
  ASSUME UNCHANGED <<runState, bindings, touchedWindows, results, imports, wrapper, backup>>
  PROVE  UNCHANGED R!bvars
BY DEF R!bvars, R!vars, R!tables, R!wrapper, R!backup, wrapper, backup

----------------------------------------------------------------------------
(* Captures. *)

(* What a capture does here it does alone. *)
LEMMA CaptureStepIsNext == CaptureStep => Next
BY DEF CaptureStep, Next

(* A step of a capture that binds no key registers no run. *)
LEMMA NothingRegistered ==
  ASSUME Joint, CaptureStep, UNCHANGED captureRequests
  PROVE  UNCHANGED R!bvars /\ RunsHavePredictions'
<1>1. Allocates = {}
  BY DEF Allocates
<1>2. runState \in [B!RunIds -> R!States]
  BY DEF Joint, R!IInv, R!TypeOK, B!RunIds, R!RunIds
<1>3. runState' = runState
  BY <1>1, <1>2 DEF CaptureStep
<1>4. UNCHANGED R!bvars
  BY <1>3, RunsStutter DEF CaptureStep
<1> QED
  BY <1>3, <1>4 DEF Joint, RunsHavePredictions

(* A capture that binds its key registers its run, on a fresh window and   *)
(* with the ledger lock in hand.                                           *)
LEMMA CommitRegisters ==
  ASSUME Parameters, Joint, CaptureStep, NEW p \in Procs, pc[p] = "commit", CommitRows(p),
         key[p] # None
  PROVE  R!BNext /\ RunsHavePredictions'
<1> DEFINE r == <<req[p], pid[p]>>
           b == [req |-> req[p], pid |-> pid[p]]
<1>1. /\ key[p] \in Keys /\ req[p] \in Reqs /\ pid[p] \in Uuids \ predictions
      /\ captureRequests[key[p]] = None
      /\ CellsOf[req[p]] \cap touchedWindows = {}
      /\ captureRequests' = [captureRequests EXCEPT ![key[p]] = b]
  BY CommitBinds DEF Joint
<1>2. /\ captureRequests \in [Keys -> Binding \cup {None}]
      /\ \A k \in Keys : captureRequests[k] # None => captureRequests[k].pid \in predictions
      /\ lock = p
  BY DEF Joint, IInv, TypeInv, TypeOK, BoundInv, LockInv, Locked
<1>3. b # None
  BY <1>1, NoneIsNothing DEF Binding
<1>4. Allocates = {r}
  <2>1. \A k \in Keys : captureRequests'[k] # captureRequests[k] <=> k = key[p]
    BY <1>1, <1>2, <1>3
  <2>2. captureRequests'[key[p]] = b
    BY <1>1, <1>2
  <2> QED
    BY <1>1, <2>1, <2>2 DEF Allocates
<1>5. r \in Reqs \X Uuids /\ r \in R!RunIds /\ B!RunIds = R!RunIds
  BY <1>1 DEF B!RunIds, R!RunIds
<1>6. runState[r] = "none"
  <2>1. ASSUME NEW k \in Keys, captureRequests[k] = b PROVE FALSE
    BY <1>1, <1>2, <1>3, <2>1
  <2> QED
    BY <1>1, <2>1 DEF Joint, RunsHavePredictions
<1>7. runState' = [runState EXCEPT ![r] = "registered"]
  <2>1. runState \in [R!RunIds -> R!States]
    BY DEF Joint, R!IInv, R!TypeOK
  <2>2. runState' = [s \in R!RunIds |-> IF s = r THEN "registered" ELSE runState[s]]
    BY <1>4, <1>5 DEF CaptureStep
  <2> HIDE DEF r
  <2> QED
    BY <2>1, <2>2
<1>8. \A q \in RunRequests : Target[q] = r => Observes[q] \cap touchedWindows = {}
  <2> SUFFICES ASSUME NEW q \in RunRequests, Target[q] = r
               PROVE  Observes[q] = CellsOf[req[p]]
    BY <1>1
  <2>1. Target[q] # None /\ Target[q][1] = req[p]
    BY <1>5 DEF Parameters
  <2> QED
    BY <2>1 DEF Observes
<1>9. R!Register(r)
  BY <1>6, <1>7, <1>8 DEF R!Register, R!wrapper, CaptureStep, wrapper
<1>10. ~locked /\ UNCHANGED R!backup
  <2>1. ~locked
    BY <1>2, NoneIsNothing DEF Joint, LockIsShared
  <2> QED
    BY <2>1 DEF CaptureStep, backup, R!backup
<1>11. R!BNext
  BY <1>5, <1>9, <1>10 DEF R!BNext, R!UnderLedgerLock
<1>12. RunsHavePredictions'
  <2> SUFFICES ASSUME NEW s \in Reqs, NEW q \in Uuids
               PROVE  runState'[<<s, q>>] # "none" <=>
                        \E k \in Keys : captureRequests'[k] = [req |-> s, pid |-> q]
    BY DEF RunsHavePredictions
  <2>1. runState \in [R!RunIds -> R!States] /\ <<s, q>> \in R!RunIds
    BY DEF Joint, R!IInv, R!TypeOK, R!RunIds
  <2>2. CASE s = req[p] /\ q = pid[p]
    BY <1>1, <1>2, <1>7, <2>1, <2>2
  <2>3. CASE ~(s = req[p] /\ q = pid[p])
    <3>1. runState'[<<s, q>>] = runState[<<s, q>>]
      BY <1>7, <2>1, <2>3
    <3>2. [req |-> s, pid |-> q] # b /\ [req |-> s, pid |-> q] # None
      BY <2>3, NoneIsNothing DEF Binding
    <3>3. \A k \in Keys : captureRequests'[k] = [req |-> s, pid |-> q]
                            <=> captureRequests[k] = [req |-> s, pid |-> q]
      BY <1>1, <1>2, <3>2
    <3> QED
      BY <3>1, <3>3 DEF Joint, RunsHavePredictions
  <2> QED
    BY <2>2, <2>3
<1> QED
  BY <1>11, <1>12

(* A step of a capture is a registration, or none of the runs' business.   *)
LEMMA CaptureMoves ==
  ASSUME Parameters, Joint, CaptureStep
  PROVE  [R!BNext]_(R!bvars) /\ LockIsShared' /\ RunsHavePredictions'
<1>1. LockIsShared'
  BY DEF Joint, LockIsShared, CaptureStep, backup
<1>2. CASE UNCHANGED captureRequests
  BY <1>1, <1>2, NothingRegistered
<1>3. ASSUME NEW p \in Procs, pc[p] = "commit", CommitRows(p)
      PROVE  [R!BNext]_(R!bvars) /\ RunsHavePredictions'
  <2>1. CASE key[p] = None
    BY <1>3, <2>1, <1>2, CommitBinds DEF Joint
  <2>2. CASE key[p] # None
    BY <1>3, <2>2, CommitRegisters
  <2> QED
    BY <2>1, <2>2
<1>4. ASSUME NEW p \in Procs, Leave(p) PROVE UNCHANGED captureRequests
  BY <1>4 DEF Leave, tables
<1>5. ASSUME NEW C \in SUBSET Cells, Touch(C) PROVE UNCHANGED captureRequests
  BY <1>5 DEF Touch
<1>6. UNCHANGED visible => UNCHANGED captureRequests
  BY DEF visible
<1> QED
  BY <1>1, <1>2, <1>3, <1>4, <1>5, <1>6, CaptureStepIsNext, VisibleStep

----------------------------------------------------------------------------
(* Runs. *)

(* Captures see of a step of the runs that windows are touched, between    *)
(* two transactions, or nothing.                                           *)
LEMMA RunMoves ==
  ASSUME Parameters, Joint, RunStep
  PROVE  R!BNext /\ [Next]_vars /\ LockIsShared' /\ RunsHavePredictions'
<1>1. R!RunTransactions \/ R!WithoutLedgerLock
  BY SameRuns DEF RunStep
<1>2. R!BNext
  <2>1. B!BNext
    BY DEF RunStep, B!BNext, B!UnderLedgerLock, B!backup, backup
  <2> QED
    BY <2>1, SameRuns
<1>3. R!Next
  BY <1>1 DEF R!Next, R!UnderLedgerLock
<1>4. touchedWindows \subseteq touchedWindows' /\ touchedWindows' \subseteq Cells
  <2>1. R!IInv'
    BY <1>3, RunParameters, R!StepIInv DEF Joint
  <2>2. touchedWindows' \subseteq Cells
    BY <2>1 DEF R!IInv, R!TypeOK
  <2>3. touchedWindows \subseteq touchedWindows'
    BY <1>3, RunParameters, R!TouchedGrows
  <2> QED
    BY <2>2, <2>3
<1>5. [Next]_vars
  <2>1. CASE UNCHANGED touchedWindows
    BY <2>1 DEF RunStep, vars, tables
  <2>2. CASE touchedWindows' # touchedWindows
    <3>1. txn = None
      BY <2>2 DEF RunStep, B!tables
    <3>2. Touch(touchedWindows')
      BY <1>4, <2>2, <3>1 DEF RunStep, Touch
    <3> QED
      BY <1>4, <3>2 DEF Next
  <2> QED
    BY <2>1, <2>2
<1>6. \A r \in Reqs \X Uuids : runState'[r] = "none" <=> runState[r] = "none"
  BY <1>1, RunParameters, R!RowsAppearByRegistration DEF Joint
<1>7. RunsHavePredictions'
  BY <1>6 DEF Joint, RunsHavePredictions, RunStep
<1>8. LockIsShared'
  BY DEF Joint, LockIsShared, RunStep, backup
<1> QED
  BY <1>2, <1>5, <1>7, <1>8

----------------------------------------------------------------------------
(* The whole. *)

(* Every step of the ledger is a step of its captures, or none of theirs,  *)
(* and a step of its runs and backup, or none of theirs.                   *)
LEMMA JointStep ==
  ASSUME Parameters, Joint, [LNext]_lvars
  PROVE  [Next]_vars /\ [R!BNext]_(R!bvars) /\ Joint'
<1>1. [Next]_vars /\ [R!BNext]_(R!bvars) /\ LockIsShared' /\ RunsHavePredictions'
  <2>1. CASE CaptureStep
    BY <2>1, CaptureStepIsNext, CaptureMoves
  <2>2. CASE RunStep
    BY <2>2, RunMoves
  <2>3. CASE BackupStep
    <3>1. B!BNext
      BY <2>3 DEF BackupStep, B!BNext
    <3>2. UNCHANGED vars /\ UNCHANGED runState
      BY <2>3 DEF BackupStep, B!TakeLock, B!Refuse, B!CheckActive, B!CopyRegistry, B!CopyFiles,
                  B!Publish, B!Confirm, B!Fail, B!vars, B!tables
    <3>3. RunsHavePredictions'
      BY <3>2 DEF Joint, RunsHavePredictions, vars, tables
    <3>4. LockIsShared'
      BY <2>3, <3>2 DEF Joint, LockIsShared, vars, BackupStep, B!TakeLock, B!Refuse,
                        B!CheckActive, B!CopyRegistry, B!CopyFiles, B!Publish, B!Confirm, B!Fail
    <3> QED
      BY <3>1, <3>2, <3>3, <3>4, SameRuns
  <2>4. CASE UNCHANGED lvars
    <3>1. UNCHANGED vars /\ UNCHANGED R!bvars
      BY <2>4, RunsStutter DEF lvars, vars, tables
    <3> QED
      BY <2>4, <3>1 DEF Joint, RunsHavePredictions, LockIsShared, lvars, vars, tables, backup
  <2> QED
    BY <2>1, <2>2, <2>3, <2>4 DEF LNext
<1>2. IInv'
  BY <1>1, IInvStep DEF Joint
<1>3. R!IInv'
  BY <1>1, RunParameters, R!StepBesideBackup, R!StepIInv DEF Joint
<1> QED
  BY <1>1, <1>2, <1>3 DEF Joint

(* Nothing is captured, registered or locked at first. *)
LEMMA JointInit == ASSUME Parameters, LInit PROVE Joint
<1>1. IInv
  BY IInvInit DEF LInit
<1>2. R!IInv
  <2>1. R!Init
    BY SameRuns DEF LInit, R!BInit
  <2> QED
    BY <2>1, RunParameters, R!InitIInv
<1>3. LockIsShared
  BY DEF LInit, B!BInit, LockIsShared
<1>4. RunsHavePredictions
  <2>1. ASSUME NEW r \in Reqs, NEW q \in Uuids PROVE [req |-> r, pid |-> q] # None
    BY NoneIsNothing DEF Binding
  <2> QED
    BY <2>1 DEF LInit, Init, B!BInit, B!Init, B!RunIds, RunsHavePredictions
<1> QED
  BY <1>1, <1>2, <1>3, <1>4 DEF Joint

(* Both invariants hold together. *)
LEMMA JointInvariant == ASSUME Parameters PROVE LSpec => []Joint
  BY JointInit, JointStep, PTL DEF LSpec

(* CaptureService beside RunService, the imports and create_backup behaves *)
(* as module Capture says: what touches windows there are runs that start  *)
(* and imports, and they come between two transactions.  So every theorem  *)
(* about Capture holds of the ledger.                                      *)
THEOREM CapturesBesideRuns == ASSUME Parameters PROVE LSpec => Spec
<1>1. LInit => Init
  BY DEF LInit
<1>2. Joint /\ [LNext]_lvars => [Next]_vars
  BY JointStep
<1> QED
  BY <1>1, <1>2, JointInvariant, PTL DEF LSpec, Spec

(* In particular a capture beside runs, imports and a backup is one step   *)
(* of AtomicLedger, and runs that start and imports are its observations.  *)
THEOREM LedgerIsAtomic == ASSUME Parameters PROVE LSpec => RefinesAtomicLedger
  BY CapturesBesideRuns, ImplementsAtomicLedger, PTL

(* The runs and the backup of the ledger behave as their theorems assume.  *)
LEMMA RunsBehave == ASSUME Parameters PROVE LSpec => R!BSpec
<1>1. LInit => R!BInit
  BY SameRuns DEF LInit
<1>2. Joint /\ [LNext]_lvars => [R!BNext]_(R!bvars)
  BY JointStep
<1> QED
  BY <1>1, <1>2, JointInvariant, PTL DEF LSpec, R!BSpec

(* RunService and create_backup beside CaptureService behave as modules    *)
(* Runs and Backup say: what Runs assumes of a registration, a fresh       *)
(* window and no row yet, and Backup of the lock, the commit of a capture  *)
(* guarantees.                                                             *)
THEOREM RunsBesideCaptures == ASSUME Parameters PROVE LSpec => B!BSpec
<1>1. R!BInit => B!BInit
  BY SameRuns
<1>2. [R!BNext]_(R!bvars) => [B!BNext]_(B!bvars)
  BY SameRuns DEF R!bvars, R!vars, R!tables, R!wrapper, R!backup,
                  B!bvars, B!vars, B!tables, B!wrapper, B!backup
<1> QED
  BY <1>1, <1>2, RunsBehave, PTL DEF R!BSpec, B!BSpec

(* README: preregistration.  A key is bound only while no child has ever   *)
(* been started on any observation of the request's window, by whatever    *)
(* run, under all races of capture, start_run, import and backup.          *)
THEOREM CapturesAreBlind == ASSUME Parameters PROVE LSpec => CapturedBlind
<1> DEFINE Blind == \A k \in Keys, s \in B!RunIds :
                      captureRequests'[k] # captureRequests[k] /\ launched[s] > 0
                        => B!WindowOf(s) \cap CellsOf[captureRequests'[k].req] = {}
<1>1. Joint /\ [LNext]_lvars => [Blind]_lvars
  <2> SUFFICES ASSUME Joint, [LNext]_lvars, NEW k \in Keys, NEW s \in B!RunIds,
                      captureRequests'[k] # captureRequests[k], launched[s] > 0
               PROVE  B!WindowOf(s) \cap CellsOf[captureRequests'[k].req] = {}
    OBVIOUS
  <2>1. B!WindowOf(s) \subseteq touchedWindows
    <3>1. s \in R!RunIds
      BY DEF B!RunIds, R!RunIds
    <3>2. R!WindowOf(s) \subseteq touchedWindows
      BY <3>1 DEF Joint, R!IInv, R!TypeOK, R!LaunchedWhenRunning, R!StartedIsTouched
    <3> QED
      BY <3>2, SameRuns
  <2>2. CellsOf[captureRequests'[k].req] \cap touchedWindows = {}
    BY JointStep, FreshStep DEF Joint, Fresh
  <2> QED
    BY <2>1, <2>2
<1> QED
  BY <1>1, JointInvariant, PTL DEF LSpec, CapturedBlind

(* begin_prediction: a run row and its prediction appear together, and     *)
(* stay together whatever fails.                                           *)
THEOREM RowsComeTogether == ASSUME Parameters PROVE LSpec => []RunsHavePredictions
<1>1. Joint => RunsHavePredictions
  BY DEF Joint
<1> QED
  BY <1>1, JointInvariant, PTL

(* create_backup finds the files of every prediction in its copy of the    *)
(* registry, although captures publish and clean up beside it.             *)
THEOREM BackupsFindFiles == ASSUME Parameters PROVE LSpec => []BackupFindsFiles
<1>1. Joint /\ R!LockCoversCopies => BackupFindsFiles
  <2> SUFFICES ASSUME Joint, R!LockCoversCopies, step = "files",
                      NEW r \in Reqs, NEW q \in Uuids, NEW x \in Artifacts,
                      registryCopy[<<r, q>>] # "none"
               PROVE  fs[q][x] = "own" \/ <<q, x>> \in edited
    BY DEF BackupFindsFiles
  <2>1. runState[<<r, q>>] # "none"
    BY DEF R!LockCoversCopies
  <2>2. PICK k \in Keys : captureRequests[k] = [req |-> r, pid |-> q]
    BY <2>1 DEF Joint, RunsHavePredictions
  <2>3. q \in predictions
    <3>1. captureRequests[k] # None /\ captureRequests[k].pid = q
      BY <2>2, NoneIsNothing DEF Binding
    <3> QED
      BY <3>1 DEF Joint, IInv, BoundInv
  <2> QED
    BY <2>3 DEF Joint, IInv, FilesInv, Settled
<1>2. R!BSpec => []R!LockCoversCopies
  BY RunParameters, R!CopiesAgree
<1> QED
  BY <1>1, <1>2, JointInvariant, RunsBehave, PTL
=============================================================================
