-------------------------------- MODULE Runs --------------------------------
(***************************************************************************)
(* MSM runs: RunService (src/ledger/run.py) binds a request to a run and    *)
(* executes its command under a lease; the registry keeps the lifecycle,    *)
(* the touched windows and the imports; MSMResultIngestor                   *)
(* (src/ledger/results.py) and ExternalRunIngestor (src/ledger/external.py) *)
(* add evidence.                                                            *)
(*                                                                          *)
(* The registry's transactions are atomic steps.  What is not atomic is an  *)
(* invocation of the wrapper: it reads the run, takes the lease, reads it   *)
(* again, starts it, launches a child and records its exit in separate      *)
(* transactions, and can be killed between any two of them while the child  *)
(* lives on.                                                                *)
(***************************************************************************)
EXTENDS Naturals

CONSTANTS
    Procs,      \* invocations of the wrapper
    Keys,       \* idempotency keys of run requests
    Requests,   \* run requests; two have one request_hash iff they are equal
    Target,     \* the run a preregistered request names, None if exploratory
    Allocated,  \* run ids captures allocate to predictions
    Drawn,      \* run ids exploratory requests draw
    Imported,   \* run ids imports draw
    Docs,       \* evidence documents of runs that bypassed the wrapper
    SourceOf,   \* the external run a document describes
    Succeeded,  \* the documents that report success
    Evidence,   \* result evidence documents
    Cells,      \* observations: one day of one strategy family
    CellsOf,    \* the out-of-sample window of each request and document
    None,       \* no run, no process, no evidence
    MaxFaults   \* bound: wrappers that die or raise in one behaviour

RunIds == Allocated \cup Drawn \cup Imported
Origin == Requests \cup Docs   \* what a binding's request_hash stands for

ASSUME RunIdsAssumption ==
    Allocated \cap Drawn = {} /\ Allocated \cap Imported = {} /\ Drawn \cap Imported = {}
ASSUME OriginAssumption ==
    /\ Target \in [Requests -> Allocated \cup {None}]
    /\ CellsOf \in [Origin -> SUBSET Cells]
    /\ \A q, s \in Requests : Target[q] # None /\ Target[q] = Target[s] => CellsOf[q] = CellsOf[s]
    /\ Requests \cap Docs = {}
    /\ DOMAIN SourceOf = Docs
    /\ Succeeded \subseteq Docs
ASSUME NoneAssumption ==
    None \notin Procs \cup RunIds \cup Evidence \cup Keys \cup Requests \cup Docs
ASSUME BoundAssumption == MaxFaults \in Nat

VARIABLES
    runState,   \* runs.state, "none" before the row exists
    bindings,   \* run_bindings: which request and key a run is bound to
    touched,    \* touched_windows
    results,    \* run_results
    imports,    \* external_run_imports
    lease,      \* holder of each run's execution lock
    pc, key, run,  \* where an invocation is, its key and its run
    outcome,    \* the terminal state an invocation is about to record
    child,      \* the process of each run
    launched,   \* how often a process was started for a run
    answers,    \* results invocations returned
    faults      \* wrappers that died or raised so far

tables == <<runState, bindings, touched, results, imports>>
wrapper == <<lease, pc, key, run, outcome, child, launched, answers, faults>>
vars == <<tables, wrapper>>

States    == {"none", "registered", "running", "completed", "failed"}
Terminal  == {"completed", "failed"}
Children  == {"none", "alive", "ok", "bad"}
Leased    == {"leased", "verify", "orphan", "launch", "waiting",
              "record", "record_raise", "reread"}
Labels    == {"idle", "execute", "lease"} \cup Leased
Binding   == [run : RunIds, key : Keys, req : Requests]
Answer    == [run : RunIds, key : Keys, state : States]

(* The window a run observes is the one its immutable envelope froze.      *)
OriginsOf(r) == {b.req : b \in {c \in bindings : c.run = r}}
                  \cup {i.doc : i \in {j \in imports : j.run = r}}
WindowOf(r) == UNION {CellsOf[o] : o \in OriginsOf(r)}

Init ==
    /\ runState = [r \in RunIds |-> "none"]
    /\ bindings = {}
    /\ touched = {}
    /\ results = [r \in RunIds |-> None]
    /\ imports = {}
    /\ lease = [r \in RunIds |-> None]
    /\ pc = [p \in Procs |-> "idle"]
    /\ key = [p \in Procs |-> None]
    /\ run = [p \in Procs |-> None]
    /\ outcome = [p \in Procs |-> "none"]
    /\ child = [r \in RunIds |-> "none"]
    /\ launched = [r \in RunIds |-> 0]
    /\ answers = {}
    /\ faults = 0

Go(p, label) == pc' = [pc EXCEPT ![p] = label]

(* The invocation returns or raises; its lease goes with it.               *)
Return(p) ==
    /\ Go(p, "idle")
    /\ key' = [key EXCEPT ![p] = None]
    /\ run' = [run EXCEPT ![p] = None]
    /\ outcome' = [outcome EXCEPT ![p] = "none"]
    /\ lease' = [r \in RunIds |-> IF lease[r] = p THEN None ELSE lease[r]]

Reply(p) ==
    /\ answers' = answers \cup {[run |-> run[p], key |-> key[p], state |-> runState[run[p]]]}
    /\ Return(p)

----------------------------------------------------------------------------
(* A capture commits a prediction and allocates its run, on a fresh window. *)
Register(r) ==
    /\ runState[r] = "none"
    /\ \A q \in Requests : Target[q] = r => CellsOf[q] \cap touched = {}
    /\ runState' = [runState EXCEPT ![r] = "registered"]
    /\ UNCHANGED <<bindings, touched, results, imports, wrapper>>

----------------------------------------------------------------------------
(* _prepare_preregistered and _prepare_exploratory: one transaction under   *)
(* the ledger lock.  A request they refuse (another request under the key,  *)
(* a run already bound or started, an unreadable artifact, no lock within   *)
(* the timeout) changes nothing, and is no step.                            *)

Prepared(p, k, r) ==
    /\ pc[p] = "idle"
    /\ Go(p, "execute")
    /\ key' = [key EXCEPT ![p] = k]
    /\ run' = [run EXCEPT ![p] = r]
    /\ UNCHANGED <<touched, results, imports, lease, outcome, child, launched, answers,
                   faults>>

Known(k) == \E b \in bindings : b.key = k

Retry(p, k, q) ==
    /\ \E b \in bindings :
         /\ b.key = k /\ b.req = q
         /\ Prepared(p, k, b.run)
    /\ UNCHANGED <<runState, bindings>>

BindPreregistered(p, k, q) ==
    /\ ~Known(k)
    /\ Target[q] # None
    /\ runState[Target[q]] = "registered"
    /\ \A b \in bindings : b.run # Target[q]
    /\ bindings' = bindings \cup {[run |-> Target[q], key |-> k, req |-> q]}
    /\ Prepared(p, k, Target[q])
    /\ UNCHANGED runState

BindExploratory(p, k, q) ==
    /\ ~Known(k)
    /\ Target[q] = None
    /\ \E r \in Drawn :
         /\ runState[r] = "none"
         /\ runState' = [runState EXCEPT ![r] = "registered"]
         /\ bindings' = bindings \cup {[run |-> r, key |-> k, req |-> q]}
         /\ Prepared(p, k, r)

----------------------------------------------------------------------------
(* _execute: a terminal run is answered from its row, any other needs the   *)
(* lease, which is taken at once or not at all.                             *)

(* Faulty variant: a run that has been started is answered as it is. *)
FoundStarted(p) ==
    /\ pc[p] = "execute"
    /\ runState[run[p]] # "registered"
    /\ Reply(p)
    /\ UNCHANGED <<tables, child, launched, faults>>

FoundTerminal(p) ==
    /\ pc[p] = "execute"
    /\ runState[run[p]] \in Terminal
    /\ Reply(p)
    /\ UNCHANGED <<tables, child, launched, faults>>

FoundOpen(p) ==
    /\ pc[p] = "execute"
    /\ runState[run[p]] \notin Terminal
    /\ Go(p, "lease")
    /\ UNCHANGED <<tables, lease, key, run, outcome, child, launched, answers, faults>>

(* Faulty variant: the lease is not exclusive. *)
TakeSharedLease(p) ==
    /\ pc[p] = "lease"
    /\ lease' = [lease EXCEPT ![run[p]] = p]
    /\ Go(p, "leased")
    /\ UNCHANGED <<tables, key, run, outcome, child, launched, answers, faults>>

TakeLease(p) ==
    /\ pc[p] = "lease"
    /\ lease[run[p]] = None
    /\ lease' = [lease EXCEPT ![run[p]] = p]
    /\ Go(p, "leased")
    /\ UNCHANGED <<tables, key, run, outcome, child, launched, answers, faults>>

LeaseBusy(p) ==
    /\ pc[p] = "lease"
    /\ lease[run[p]] # None
    /\ Return(p)
    /\ UNCHANGED <<tables, child, launched, answers, faults>>

----------------------------------------------------------------------------
(* _execute_locked *)

LookTerminal(p) ==
    /\ pc[p] = "leased"
    /\ runState[run[p]] \in Terminal
    /\ Reply(p)
    /\ UNCHANGED <<tables, child, launched, faults>>

(* Faulty variants: a retry of a running run launches its command again,    *)
(* or waits for the exit of a process it never launched.                    *)
LookOpenRelaunches(p) ==
    /\ pc[p] = "leased"
    /\ runState[run[p]] \notin Terminal
    /\ Go(p, IF runState[run[p]] = "running" THEN "launch" ELSE "verify")
    /\ UNCHANGED <<tables, lease, key, run, outcome, child, launched, answers, faults>>

LookOpenWaits(p) ==
    /\ pc[p] = "leased"
    /\ runState[run[p]] \notin Terminal
    /\ Go(p, IF runState[run[p]] = "running" THEN "waiting" ELSE "verify")
    /\ UNCHANGED <<tables, lease, key, run, outcome, child, launched, answers, faults>>

LookOpen(p) ==
    /\ pc[p] = "leased"
    /\ runState[run[p]] \notin Terminal
    /\ Go(p, IF runState[run[p]] = "running" THEN "orphan" ELSE "verify")
    /\ UNCHANGED <<tables, lease, key, run, outcome, child, launched, answers, faults>>

(* finish_run, which changes a running run and raises for any other.        *)
FinishRun(p, state, next) ==
    IF runState[run[p]] = "running"
    THEN /\ runState' = [runState EXCEPT ![run[p]] = state]
         /\ Go(p, next)
         /\ UNCHANGED <<lease, key, run, outcome>>
    ELSE Return(p) /\ UNCHANGED runState

FailOrphan(p) ==
    /\ pc[p] = "orphan"
    /\ FinishRun(p, "failed", "reread")
    /\ UNCHANGED <<bindings, touched, results, imports, child, launched, answers, faults>>

(* The envelope, the commit or the cleanliness of the checkout is wrong. *)
VerifyFails(p) ==
    /\ pc[p] = "verify"
    /\ Return(p)
    /\ UNCHANGED <<tables, child, launched, answers, faults>>

(* Faulty variant: the window is left for the end of the run to touch. *)
StartRunUntouched(p) ==
    /\ pc[p] = "verify"
    /\ IF runState[run[p]] = "registered"
       THEN /\ runState' = [runState EXCEPT ![run[p]] = "running"]
            /\ Go(p, "launch")
            /\ UNCHANGED <<lease, key, run, outcome>>
       ELSE Return(p) /\ UNCHANGED runState
    /\ UNCHANGED <<bindings, touched, results, imports, child, launched, answers, faults>>

(* start_run: claims the run and touches its window in one transaction.     *)
StartRun(p) ==
    /\ pc[p] = "verify"
    /\ IF runState[run[p]] = "registered"
       THEN /\ runState' = [runState EXCEPT ![run[p]] = "running"]
            /\ touched' = touched \cup WindowOf(run[p])
            /\ Go(p, "launch")
            /\ UNCHANGED <<lease, key, run, outcome>>
       ELSE Return(p) /\ UNCHANGED <<runState, touched>>
    /\ UNCHANGED <<bindings, results, imports, child, launched, answers, faults>>

Launch(p) ==
    /\ pc[p] = "launch"
    /\ child' = [child EXCEPT ![run[p]] = "alive"]
    /\ launched' = [launched EXCEPT ![run[p]] = @ + 1]
    /\ Go(p, "waiting")
    /\ UNCHANGED <<tables, lease, key, run, outcome, answers, faults>>

(* The exit the invocation is going to record, and where it goes to do so.  *)
Conclude(p, state, label) ==
    /\ outcome' = [outcome EXCEPT ![p] = state]
    /\ Go(p, label)
    /\ UNCHANGED <<tables, lease, key, run, launched, answers, faults>>

LaunchFails(p) ==
    /\ pc[p] = "launch"
    /\ Conclude(p, "failed", "record")
    /\ UNCHANGED child

(* Faulty variants: any exit completes the run; the exit code is recorded   *)
(* where the state belongs.                                                 *)
ReapCompletes(p) ==
    /\ pc[p] = "waiting"
    /\ child[run[p]] \in {"ok", "bad"}
    /\ Conclude(p, "completed", "record")
    /\ UNCHANGED child

ReapRecordsExit(p) ==
    /\ pc[p] = "waiting"
    /\ child[run[p]] \in {"ok", "bad"}
    /\ Conclude(p, child[run[p]], "record")
    /\ UNCHANGED child

Reap(p) ==
    /\ pc[p] = "waiting"
    /\ child[run[p]] \in {"ok", "bad"}
    /\ Conclude(p, IF child[run[p]] = "ok" THEN "completed" ELSE "failed", "record")
    /\ UNCHANGED child

(* KeyboardInterrupt: subprocess.run kills the child before it propagates.  *)
Interrupt(p) ==
    /\ pc[p] = "waiting"
    /\ Conclude(p, "failed", "record_raise")
    /\ child' = [child EXCEPT ![run[p]] = IF @ = "alive" THEN "bad" ELSE @]

Record(p) ==
    /\ pc[p] = "record"
    /\ FinishRun(p, outcome[p], "reread")
    /\ UNCHANGED <<bindings, touched, results, imports, child, launched, answers, faults>>

RecordAndRaise(p) ==
    /\ pc[p] = "record_raise"
    /\ runState' = IF runState[run[p]] = "running"
                   THEN [runState EXCEPT ![run[p]] = outcome[p]] ELSE runState
    /\ Return(p)
    /\ UNCHANGED <<bindings, touched, results, imports, child, launched, answers, faults>>

Reread(p) ==
    /\ pc[p] = "reread"
    /\ Reply(p)
    /\ UNCHANGED <<tables, child, launched, faults>>

(* The wrapper is killed, or raises where nothing catches it (SQLite at     *)
(* its limit, a full disk, a commit that reports an error).  The kernel     *)
(* drops its lease; a child it had launched lives on.                       *)
Abandon(p) ==
    /\ pc[p] # "idle"
    /\ faults < MaxFaults
    /\ faults' = faults + 1
    /\ Return(p)
    /\ UNCHANGED <<tables, child, launched, answers>>

ChildExits(r, how) ==
    /\ child[r] = "alive"
    /\ child' = [child EXCEPT ![r] = how]
    /\ UNCHANGED <<tables, lease, pc, key, run, outcome, launched, answers, faults>>

----------------------------------------------------------------------------
(* Evidence.  An exact repetition and a refusal change nothing.             *)

IngestResult(r, e) ==
    /\ results[r] = None
    /\ runState[r] = "completed"
    /\ \A s \in RunIds : results[s] # e   \* evidence_hash is UNIQUE
    /\ results' = [results EXCEPT ![r] = e]
    /\ UNCHANGED <<runState, bindings, touched, imports, wrapper>>

(* registered, running, touched and terminal in one transaction. *)
ImportExternal(d) ==
    /\ \A i \in imports : SourceOf[i.doc] # SourceOf[d]
    /\ \E r \in Imported :
         /\ runState[r] = "none"
         /\ runState' = [runState EXCEPT ![r] = IF d \in Succeeded THEN "completed" ELSE "failed"]
         /\ imports' = imports \cup {[run |-> r, doc |-> d]}
    /\ touched' = touched \cup CellsOf[d]
    /\ UNCHANGED <<bindings, results, wrapper>>

----------------------------------------------------------------------------

Prepare(p) == \E k \in Keys, q \in Requests :
                Retry(p, k, q) \/ BindPreregistered(p, k, q) \/ BindExploratory(p, k, q)
Execute(p) == FoundTerminal(p) \/ FoundOpen(p) \/ TakeLease(p) \/ LeaseBusy(p)
                \/ LookTerminal(p) \/ LookOpen(p) \/ FailOrphan(p) \/ VerifyFails(p)
                \/ StartRun(p) \/ Launch(p) \/ LaunchFails(p) \/ Reap(p)
                \/ Record(p) \/ RecordAndRaise(p) \/ Reread(p)

(* The transactions that are made under the ledger lock, those of the runs *)
(* and those of captures, and the rest.                                    *)
RunTransactions ==
    \/ \E p \in Procs : Prepare(p)
    \/ \E r \in RunIds, e \in Evidence : IngestResult(r, e)
    \/ \E d \in Docs : ImportExternal(d)

UnderLedgerLock == RunTransactions \/ \E r \in Allocated : Register(r)

WithoutLedgerLock ==
    \/ \E p \in Procs : Execute(p) \/ Interrupt(p) \/ Abandon(p)
    \/ \E r \in RunIds, how \in {"ok", "bad"} : ChildExits(r, how)

Next == UnderLedgerLock \/ WithoutLedgerLock

Spec == Init /\ [][Next]_vars

----------------------------------------------------------------------------
(* Properties.                                                             *)

(* Every variable has its type. *)
TypeOK ==
    /\ runState \in [RunIds -> States]
    /\ bindings \subseteq Binding
    /\ touched \subseteq Cells
    /\ results \in [RunIds -> Evidence \cup {None}]
    /\ imports \subseteq [run : RunIds, doc : Docs]
    /\ lease \in [RunIds -> Procs \cup {None}]
    /\ pc \in [Procs -> Labels]
    /\ key \in [Procs -> Keys \cup {None}]
    /\ run \in [Procs -> RunIds \cup {None}]
    /\ outcome \in [Procs -> States]
    /\ child \in [RunIds -> Children]
    /\ launched \in [RunIds -> Nat]
    /\ answers \subseteq Answer
    /\ faults \in Nat

(* README, Running MSM: the next retry "never launches a duplicate          *)
(* process": whatever retries, concurrent invocations, deaths of wrappers   *)
(* and surviving children there are, a run's command starts at most once.   *)
LaunchedAtMostOnce == \A r \in RunIds : launched[r] <= 1

(* What the wrapper read under the lease is still so when it acts on it, in *)
(* a later transaction: start_run and finish_run never refuse their caller. *)
LeasedRowIsCurrent ==
    \A p \in Procs :
      /\ pc[p] = "verify" => runState[run[p]] = "registered"
      /\ pc[p] \in {"orphan", "launch", "waiting", "record", "record_raise"}
           => runState[run[p]] = "running"
      /\ pc[p] = "reread" => runState[run[p]] \in Terminal

(* A run counts as completed only if its own child exited with 0, or a      *)
(* document of a successful external run was imported; and only such runs   *)
(* ever carry result evidence.                                              *)
CompletedMeansSuccess ==
    \A r \in RunIds :
      /\ runState[r] = "completed" => child[r] = "ok" \/ \E i \in imports : i.run = r /\ i.doc \in Succeeded
      /\ results[r] # None => runState[r] = "completed"

(* README: a retry "returns the stored process exit code", the first call   *)
(* and every retry the same: an answer is terminal, stays the run's state,  *)
(* and one key is always answered with one run.                             *)
AnswersStand ==
    /\ \A a \in answers : a.state \in Terminal /\ runState[a.run] = a.state
    /\ \A a, b \in answers : a.key = b.key => a.run = b.run

(* README: the window is touched "before the child receives control": when  *)
(* a prediction is registered, no child has ever been started on any        *)
(* observation of its window.                                               *)
RegisteredBlind ==
    [][\A q \in Requests, s \in RunIds :
         /\ Target[q] # None
         /\ runState[Target[q]] = "none" /\ runState'[Target[q]] # "none"
         /\ launched[s] > 0
         => WindowOf(s) \cap CellsOf[q] = {}]_vars

(* Every invocation returns, and leaves its run terminal or unleased.       *)
EveryInvocationEnds == \A p \in Procs : pc[p] # "idle" ~> pc[p] = "idle"
=============================================================================
