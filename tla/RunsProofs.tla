----------------------------- MODULE RunsProofs -----------------------------
(***************************************************************************)
(* Proofs about modules Runs and Backup, for any number of invocations,    *)
(* requests, runs and documents.                                           *)
(*                                                                         *)
(* None of the safety properties is inductive alone.  A wrapper acts on    *)
(* what it read in an earlier transaction, so it has to be known that the  *)
(* lease is its own as long as it acts (LeaseIsHeld), that the run it has  *)
(* got exists and stays bound to its key (InvocationIsBound, BindingsAre-  *)
(* Unique, BoundRunExists), and what a launch, an exit and a touched       *)
(* window have to do with the state of the row (LaunchedWhenRunning,       *)
(* OutcomeIsTrue, StartedIsTouched).                                       *)
(*                                                                         *)
(* A backup beside the runs takes nothing from them: the composition       *)
(* implements Runs, so every theorem about Runs holds of it.  A backup is  *)
(* whole because it holds the ledger lock from the copy of the registry to *)
(* the copy of the files, and no row appears without the lock.             *)
(***************************************************************************)
EXTENDS Backup, TLAPS

(* One run for a key and one binding for a run: the UNIQUE columns of      *)
(* run_bindings.                                                           *)
BindingsAreUnique ==
    \A b, c \in bindings : b.key = c.key \/ b.run = c.run => b = c

(* A bound run has a row and was not drawn by an import; an import's run   *)
(* has a row too.                                                          *)
BoundRunExists ==
    /\ \A b \in bindings : b.run \in Allocated \cup Drawn /\ runState[b.run] # "none"
    /\ \A i \in imports : i.run \in Imported /\ runState[i.run] # "none"

(* An invocation works for a run that is bound to its key. *)
InvocationIsBound ==
    \A p \in Procs : pc[p] # "idle" =>
      \E b \in bindings : b.run = run[p] /\ b.key = key[p]

(* Between taking the lease and returning, an invocation holds it. *)
LeaseIsHeld == \A p \in Procs : pc[p] \in Leased => lease[run[p]] = p

(* A command was never started for a run that is not yet running, nor for  *)
(* one whose wrapper is about to start it.                                 *)
LaunchedWhenRunning ==
    /\ \A r \in RunIds : runState[r] \in {"none", "registered"} => launched[r] = 0
    /\ \A p \in Procs : pc[p] = "launch" => launched[run[p]] = 0

(* The state an invocation is about to record is the one its child earned. *)
OutcomeIsTrue ==
    \A p \in Procs :
      /\ pc[p] = "record" => outcome[p] \in Terminal
      /\ pc[p] = "record_raise" => outcome[p] = "failed"
      /\ pc[p] = "record" /\ outcome[p] = "completed" => child[run[p]] = "ok"

(* Every answer was given for a binding. *)
AnswersAreBound ==
    \A a \in answers : \E b \in bindings : b.run = a.run /\ b.key = a.key

(* The window of a run that was ever running is touched. *)
StartedIsTouched ==
    \A r \in RunIds : runState[r] \notin {"none", "registered"} => WindowOf(r) \subseteq touched

Bound == BindingsAreUnique /\ BoundRunExists /\ InvocationIsBound /\ LeaseIsHeld

IInv ==
    /\ TypeOK
    /\ Bound
    /\ LeasedRowIsCurrent
    /\ LaunchedWhenRunning /\ LaunchedAtMostOnce
    /\ OutcomeIsTrue /\ CompletedMeansSuccess
    /\ AnswersAreBound /\ AnswersStand
    /\ StartedIsTouched

----------------------------------------------------------------------------
(* An invocation that has got anywhere has a key and a run with a row. *)
LEMMA RunOfInvocation ==
  ASSUME TypeOK, InvocationIsBound, BoundRunExists, NEW p \in Procs, pc[p] # "idle"
  PROVE  /\ run[p] \in RunIds /\ run[p] \notin Imported /\ key[p] \in Keys
         /\ runState[run[p]] # "none"
<1>1. PICK b \in bindings : b.run = run[p] /\ b.key = key[p]
  BY DEF InvocationIsBound
<1>2. b \in Binding /\ b.run \in Allocated \cup Drawn /\ runState[b.run] # "none"
  BY DEF TypeOK, BoundRunExists
<1> QED
  BY <1>1, <1>2, RunIdsAssumption DEF Binding, RunIds

(* The lease is exclusive: no two invocations act on one run. *)
LEMMA LeaseIsExclusive ==
  ASSUME LeaseIsHeld, NEW p \in Procs, NEW q \in Procs,
         pc[p] \in Leased, pc[q] \in Leased, run[p] = run[q]
  PROVE  p = q
BY DEF LeaseIsHeld

(* The window of a run is made of cells, whatever it was started from.     *)
LEMMA WindowIsCells == ASSUME TypeOK, NEW r PROVE WindowOf(r) \subseteq Cells
<1>1. OriginsOf(r) \subseteq Origin
  BY DEF OriginsOf, Origin, TypeOK, Binding
<1> QED
  BY <1>1, OriginAssumption DEF WindowOf

(* The initial state satisfies every part of the invariant. *)
LEMMA InitIInv == Init => IInv
<1> SUFFICES ASSUME Init PROVE IInv
  OBVIOUS
<1> USE DEF Init
<1>1. TypeOK
  BY BoundAssumption DEF TypeOK, States, Labels, Children
<1>2. Bound
  BY DEF Bound, BindingsAreUnique, BoundRunExists, InvocationIsBound, LeaseIsHeld, Leased
<1>3. LeasedRowIsCurrent /\ LaunchedWhenRunning /\ LaunchedAtMostOnce /\ OutcomeIsTrue
  BY DEF LeasedRowIsCurrent, LaunchedWhenRunning, LaunchedAtMostOnce, OutcomeIsTrue
<1>4. CompletedMeansSuccess /\ AnswersAreBound /\ AnswersStand /\ StartedIsTouched
  BY DEF CompletedMeansSuccess, AnswersAreBound, AnswersStand, StartedIsTouched
<1> QED
  BY <1>1, <1>2, <1>3, <1>4 DEF IInv

----------------------------------------------------------------------------
(* Types. *)

(* Every step keeps every variable's type.                                 *)
LEMMA TypeStep == IInv /\ [Next]_vars => TypeOK'
<1> SUFFICES ASSUME IInv, [Next]_vars PROVE TypeOK'
  OBVIOUS
<1> USE DEF IInv, Bound, TypeOK, States, Terminal, Labels, Leased, Children, tables, wrapper, Go
<1>1. ASSUME NEW r \in Allocated, Register(r)
      PROVE  TypeOK'
  BY <1>1 DEF Register, RunIds
<1>2. ASSUME NEW p \in Procs, NEW k \in Keys, NEW q \in Requests, Retry(p, k, q)
      PROVE  TypeOK'
  BY <1>2 DEF Retry, Prepared, Binding
<1>3. ASSUME NEW p \in Procs, NEW k \in Keys, NEW q \in Requests, BindPreregistered(p, k, q)
      PROVE  TypeOK'
  BY <1>3, OriginAssumption DEF BindPreregistered, Prepared, Binding, RunIds
<1>4. ASSUME NEW p \in Procs, NEW k \in Keys, NEW q \in Requests, BindExploratory(p, k, q)
      PROVE  TypeOK'
  BY <1>4 DEF BindExploratory, Prepared, Binding, RunIds
<1>5. ASSUME NEW p \in Procs, FoundTerminal(p) \/ LookTerminal(p) \/ Reread(p)
      PROVE  TypeOK'
  BY <1>5, RunOfInvocation DEF FoundTerminal, LookTerminal, Reread, Reply, Return, Answer
<1>6. ASSUME NEW p \in Procs, FoundOpen(p) \/ LookOpen(p)
      PROVE  TypeOK'
  BY <1>6 DEF FoundOpen, LookOpen
<1>7. ASSUME NEW p \in Procs, TakeLease(p)
      PROVE  TypeOK'
  BY <1>7 DEF TakeLease
<1>8. ASSUME NEW p \in Procs, LeaseBusy(p) \/ VerifyFails(p) \/ Abandon(p)
      PROVE  TypeOK'
  BY <1>8 DEF LeaseBusy, VerifyFails, Abandon, Return
<1>9. ASSUME NEW p \in Procs, FailOrphan(p)
      PROVE  TypeOK'
  BY <1>9 DEF FailOrphan, FinishRun, Return
<1>10. ASSUME NEW p \in Procs, StartRun(p)
      PROVE  TypeOK'
  BY <1>10, WindowIsCells DEF StartRun, Return
<1>11. ASSUME NEW p \in Procs, Launch(p)
      PROVE  TypeOK'
  BY <1>11, RunOfInvocation DEF Launch
<1>12. ASSUME NEW p \in Procs, LaunchFails(p) \/ Reap(p)
      PROVE  TypeOK'
  BY <1>12 DEF LaunchFails, Reap, Conclude
<1>13. ASSUME NEW p \in Procs, Interrupt(p)
      PROVE  TypeOK'
  BY <1>13 DEF Interrupt, Conclude
<1>14. ASSUME NEW p \in Procs, Record(p)
      PROVE  TypeOK'
  BY <1>14 DEF Record, FinishRun, Return
<1>15. ASSUME NEW p \in Procs, RecordAndRaise(p)
      PROVE  TypeOK'
  BY <1>15 DEF RecordAndRaise, Return
<1>16. ASSUME NEW r \in RunIds, NEW how \in {"ok", "bad"}, ChildExits(r, how)
      PROVE  TypeOK'
  BY <1>16 DEF ChildExits
<1>17. ASSUME NEW r \in RunIds, NEW e \in Evidence, IngestResult(r, e)
      PROVE  TypeOK'
  BY <1>17 DEF IngestResult
<1>18. ASSUME NEW d \in Docs, ImportExternal(d)
      PROVE  TypeOK'
  BY <1>18, OriginAssumption DEF ImportExternal, RunIds, Origin
<1>19. CASE UNCHANGED vars
  BY <1>19 DEF vars
<1> QED
  BY <1>1, <1>2, <1>3, <1>4, <1>5, <1>6, <1>7, <1>8, <1>9, <1>10, <1>11, <1>12, <1>13, <1>14, <1>15, <1>16, <1>17, <1>18, <1>19
     DEF Next, UnderLedgerLock, RunTransactions, WithoutLedgerLock, Prepare, Execute
----------------------------------------------------------------------------
(* Rows only move forward, and whoever moves one holds its lease. *)
RowsMove ==
    \A r \in RunIds :
      \/ runState'[r] = runState[r]
      \/ runState[r] = "none" /\ runState'[r] = "registered" /\ r \in Allocated \cup Drawn
      \/ runState[r] = "none" /\ runState'[r] \in Terminal /\ r \in Imported
      \/ /\ runState[r] = "registered" /\ runState'[r] = "running"
         /\ \E p \in Procs : run[p] = r /\ pc[p] = "verify"
      \/ /\ runState[r] = "running" /\ runState'[r] \in Terminal
         /\ \E p \in Procs : run[p] = r /\ pc[p] \in {"orphan", "record", "record_raise"}

(* A row only moves forward, from none over registered and running to a
   terminal state, or from none to the terminal state an import reports. *)
LEMMA RowsMoveForward == IInv /\ [Next]_vars => RowsMove
<1> SUFFICES ASSUME IInv, [Next]_vars PROVE RowsMove
  OBVIOUS
<1> USE DEF IInv, Bound, tables, wrapper, Go, TypeOK, Terminal, RowsMove
<1>1. ASSUME NEW r \in Allocated, Register(r)
      PROVE  RowsMove
  BY <1>1 DEF Register
<1>2. ASSUME NEW p \in Procs, NEW k \in Keys, NEW q \in Requests,
             Retry(p, k, q) \/ BindPreregistered(p, k, q)
      PROVE  RowsMove
  BY <1>2 DEF Retry, Prepared, BindPreregistered, Known
<1>3. ASSUME NEW p \in Procs, NEW k \in Keys, NEW q \in Requests, BindExploratory(p, k, q)
      PROVE  RowsMove
  BY <1>3 DEF BindExploratory, Prepared, Known
<1>4. ASSUME NEW p \in Procs,
             FoundTerminal(p) \/ LookTerminal(p) \/ Reread(p) \/ FoundOpen(p)
               \/ LookOpen(p) \/ TakeLease(p) \/ LeaseBusy(p) \/ VerifyFails(p)
               \/ Abandon(p) \/ Launch(p) \/ LaunchFails(p) \/ Reap(p)
               \/ Interrupt(p)
      PROVE  RowsMove
  BY <1>4 DEF FoundTerminal, Reply, Return, LookTerminal, Reread, FoundOpen,
        LookOpen, TakeLease, LeaseBusy, VerifyFails, Abandon, Launch,
        LaunchFails, Conclude, Reap, Interrupt
<1>5. ASSUME NEW p \in Procs, FailOrphan(p)
      PROVE  RowsMove
  BY <1>5, RunOfInvocation DEF FailOrphan, FinishRun, Return
<1>6. ASSUME NEW p \in Procs, StartRun(p)
      PROVE  RowsMove
  BY <1>6, RunOfInvocation DEF StartRun, Return
<1>7. ASSUME NEW p \in Procs, Record(p)
      PROVE  RowsMove
  BY <1>7, RunOfInvocation DEF Record, FinishRun, Return, OutcomeIsTrue
<1>8. ASSUME NEW p \in Procs, RecordAndRaise(p)
      PROVE  RowsMove
  BY <1>8, RunOfInvocation DEF RecordAndRaise, Return, OutcomeIsTrue
<1>9. ASSUME NEW r \in RunIds, NEW how \in {"ok", "bad"}, ChildExits(r, how)
      PROVE  RowsMove
  BY <1>9 DEF ChildExits
<1>10. ASSUME NEW r \in RunIds, NEW e \in Evidence, IngestResult(r, e)
      PROVE  RowsMove
  BY <1>10 DEF IngestResult
<1>11. ASSUME NEW d \in Docs, ImportExternal(d)
      PROVE  RowsMove
  BY <1>11 DEF ImportExternal
<1>12. CASE UNCHANGED vars
  BY <1>12 DEF vars
<1> QED
  BY <1>1, <1>2, <1>3, <1>4, <1>5, <1>6, <1>7, <1>8, <1>9, <1>10, <1>11, <1>12
     DEF Next, UnderLedgerLock, RunTransactions, WithoutLedgerLock, Prepare, Execute

----------------------------------------------------------------------------
(* Bindings, leases, and the rows wrappers rely on. *)

(* Bindings stay unique, and what is bound or imported exists. *)
LEMMA BindingsStep == IInv /\ [Next]_vars => (BindingsAreUnique /\ BoundRunExists)'
<1> SUFFICES ASSUME IInv, [Next]_vars PROVE (BindingsAreUnique /\ BoundRunExists)'
  OBVIOUS
<1> USE DEF IInv, Bound, tables, wrapper, Go, TypeOK, RunIds, Binding,
        BindingsAreUnique, BoundRunExists
<1>0. RowsMove
  BY RowsMoveForward
<1>1. ASSUME NEW r \in Allocated, Register(r)
      PROVE  (BindingsAreUnique /\ BoundRunExists)'
  BY <1>1, <1>0 DEF Register, RowsMove
<1>2. ASSUME NEW p \in Procs, NEW k \in Keys, NEW q \in Requests, Retry(p, k, q)
      PROVE  (BindingsAreUnique /\ BoundRunExists)'
  BY <1>2, <1>0 DEF Retry, Prepared, RowsMove
<1>3. ASSUME NEW p \in Procs, NEW k \in Keys, NEW q \in Requests, BindPreregistered(p, k, q)
      PROVE  (BindingsAreUnique /\ BoundRunExists)'
  BY <1>3, OriginAssumption, <1>0 DEF BindPreregistered, Prepared, Known,
        RowsMove
<1>4. ASSUME NEW p \in Procs, NEW k \in Keys, NEW q \in Requests, BindExploratory(p, k, q)
      PROVE  (BindingsAreUnique /\ BoundRunExists)'
  BY <1>4, RunIdsAssumption, <1>0 DEF BindExploratory, Prepared, Known,
        RowsMove
<1>5. ASSUME NEW p \in Procs,
             FoundTerminal(p) \/ LookTerminal(p) \/ Reread(p) \/ FoundOpen(p)
               \/ LookOpen(p) \/ TakeLease(p) \/ LeaseBusy(p) \/ VerifyFails(p)
               \/ Abandon(p) \/ Launch(p) \/ LaunchFails(p) \/ Reap(p)
               \/ Interrupt(p) \/ FailOrphan(p) \/ StartRun(p) \/ Record(p)
               \/ RecordAndRaise(p)
      PROVE  (BindingsAreUnique /\ BoundRunExists)'
  <2>1. UNCHANGED <<bindings, imports>>
    BY <1>5 DEF FoundTerminal, Reply, Return, LookTerminal, Reread, FoundOpen, LookOpen,
          TakeLease, LeaseBusy, VerifyFails, Abandon, Launch, LaunchFails,
          Conclude, Reap, Interrupt, FailOrphan, FinishRun, StartRun, Record,
          RecordAndRaise
  <2> QED
    BY <2>1, <1>0 DEF RowsMove, Terminal
<1>6. ASSUME NEW r \in RunIds, NEW how \in {"ok", "bad"}, ChildExits(r, how)
      PROVE  (BindingsAreUnique /\ BoundRunExists)'
  BY <1>6, <1>0 DEF ChildExits, RowsMove
<1>7. ASSUME NEW r \in RunIds, NEW e \in Evidence, IngestResult(r, e)
      PROVE  (BindingsAreUnique /\ BoundRunExists)'
  BY <1>7, <1>0 DEF IngestResult, RowsMove
<1>8. ASSUME NEW d \in Docs, ImportExternal(d)
      PROVE  (BindingsAreUnique /\ BoundRunExists)'
  BY <1>8, <1>0 DEF ImportExternal, RowsMove
<1>9. CASE UNCHANGED vars
  BY <1>9 DEF vars
<1> QED
  BY <1>1, <1>2, <1>3, <1>4, <1>5, <1>6, <1>7, <1>8, <1>9
     DEF Next, UnderLedgerLock, RunTransactions, WithoutLedgerLock, Prepare, Execute

(* An invocation keeps the run and the key it was bound to. *)
LEMMA InvocationStep == IInv /\ [Next]_vars => InvocationIsBound'
<1> SUFFICES ASSUME IInv, [Next]_vars PROVE InvocationIsBound'
  OBVIOUS
<1> USE DEF IInv, Bound, tables, wrapper, Go, TypeOK, Labels, Leased,
        InvocationIsBound
<1>1. ASSUME NEW r \in Allocated, Register(r)
      PROVE  InvocationIsBound'
  BY <1>1 DEF Register
<1>2. ASSUME NEW p \in Procs, NEW k \in Keys, NEW q \in Requests, Retry(p, k, q)
      PROVE  InvocationIsBound'
  BY <1>2 DEF Retry, Prepared
<1>3. ASSUME NEW p \in Procs, NEW k \in Keys, NEW q \in Requests, BindPreregistered(p, k, q)
      PROVE  InvocationIsBound'
  <2> DEFINE b == [run |-> Target[q], key |-> k, req |-> q]
  <2>1. b \in bindings' /\ b.run = run'[p] /\ b.key = key'[p]
    BY <1>3 DEF BindPreregistered, Prepared, Known
  <2>2. \A x \in Procs : x = p \/ (pc'[x] = pc[x] /\ run'[x] = run[x] /\ key'[x] = key[x])
    BY <1>3 DEF BindPreregistered, Prepared, Known
  <2>3. bindings \subseteq bindings'
    BY <1>3 DEF BindPreregistered, BindExploratory
  <2> HIDE DEF b
  <2> QED
    BY <2>1, <2>2, <2>3
<1>4. ASSUME NEW p \in Procs, NEW k \in Keys, NEW q \in Requests, BindExploratory(p, k, q)
      PROVE  InvocationIsBound'
  <2>1. PICK s \in Drawn :
          /\ bindings' = bindings \cup {[run |-> s, key |-> k, req |-> q]}
          /\ Prepared(p, k, s)
    BY <1>4 DEF BindExploratory
  <2> DEFINE b == [run |-> s, key |-> k, req |-> q]
  <2>2. b \in bindings' /\ b.run = run'[p] /\ b.key = key'[p]
    BY <2>1 DEF Prepared
  <2>3. \A x \in Procs : x = p \/ (pc'[x] = pc[x] /\ run'[x] = run[x] /\ key'[x] = key[x])
    BY <2>1 DEF Prepared
  <2>4. bindings \subseteq bindings'
    BY <2>1
  <2> HIDE DEF b
  <2> QED
    BY <2>2, <2>3, <2>4
<1>5. ASSUME NEW p \in Procs,
             FoundTerminal(p) \/ LookTerminal(p) \/ Reread(p) \/ FoundOpen(p)
               \/ LookOpen(p) \/ TakeLease(p) \/ LeaseBusy(p) \/ VerifyFails(p)
               \/ Abandon(p) \/ Launch(p) \/ LaunchFails(p) \/ Reap(p)
               \/ Interrupt(p) \/ FailOrphan(p) \/ StartRun(p) \/ Record(p)
               \/ RecordAndRaise(p)
      PROVE  InvocationIsBound'
  BY <1>5 DEF FoundTerminal, Reply, Return, LookTerminal, Reread, FoundOpen,
        LookOpen, TakeLease, LeaseBusy, VerifyFails, Abandon, Launch,
        LaunchFails, Conclude, Reap, Interrupt, FailOrphan, FinishRun,
        StartRun, Record, RecordAndRaise
<1>6. ASSUME NEW r \in RunIds, NEW how \in {"ok", "bad"}, ChildExits(r, how)
      PROVE  InvocationIsBound'
  BY <1>6 DEF ChildExits
<1>7. ASSUME NEW r \in RunIds, NEW e \in Evidence, IngestResult(r, e)
      PROVE  InvocationIsBound'
  BY <1>7 DEF IngestResult
<1>8. ASSUME NEW d \in Docs, ImportExternal(d)
      PROVE  InvocationIsBound'
  BY <1>8 DEF ImportExternal
<1>9. CASE UNCHANGED vars
  BY <1>9 DEF vars
<1> QED
  BY <1>1, <1>2, <1>3, <1>4, <1>5, <1>6, <1>7, <1>8, <1>9
     DEF Next, UnderLedgerLock, RunTransactions, WithoutLedgerLock, Prepare, Execute

(* An invocation keeps its lease until it returns, whoever else returns. *)
LEMMA LeaseStep == IInv /\ [Next]_vars => LeaseIsHeld'
<1> SUFFICES ASSUME IInv, [Next]_vars PROVE LeaseIsHeld'
  OBVIOUS
<1> USE DEF IInv, Bound, tables, wrapper, Go, TypeOK, Labels, Leased,
        LeaseIsHeld
<1>1. ASSUME NEW r \in Allocated, Register(r)
      PROVE  LeaseIsHeld'
  BY <1>1 DEF Register
<1>2. ASSUME NEW p \in Procs, NEW k \in Keys, NEW q \in Requests, Retry(p, k, q)
      PROVE  LeaseIsHeld'
  BY <1>2 DEF Retry, Prepared
<1>3. ASSUME NEW p \in Procs, NEW k \in Keys, NEW q \in Requests, BindPreregistered(p, k, q)
      PROVE  LeaseIsHeld'
  BY <1>3 DEF BindPreregistered, Prepared, Known
<1>4. ASSUME NEW p \in Procs, NEW k \in Keys, NEW q \in Requests, BindExploratory(p, k, q)
      PROVE  LeaseIsHeld'
  BY <1>4 DEF BindExploratory, Prepared, Known
<1>5. ASSUME NEW p \in Procs,
             FoundTerminal(p) \/ LookTerminal(p) \/ Reread(p) \/ LeaseBusy(p)
               \/ VerifyFails(p) \/ Abandon(p) \/ RecordAndRaise(p)
      PROVE  LeaseIsHeld'
  BY <1>5, RunOfInvocation DEF FoundTerminal, Reply, Return, LookTerminal,
        Reread, LeaseBusy, VerifyFails, Abandon, RecordAndRaise
<1>6. ASSUME NEW p \in Procs,
             FoundOpen(p) \/ LookOpen(p) \/ Launch(p) \/ LaunchFails(p)
               \/ Reap(p) \/ Interrupt(p)
      PROVE  LeaseIsHeld'
  BY <1>6 DEF FoundOpen, LookOpen, Launch, LaunchFails, Conclude, Reap,
        Interrupt
<1>7. ASSUME NEW p \in Procs, FailOrphan(p) \/ StartRun(p) \/ Record(p)
      PROVE  LeaseIsHeld'
  BY <1>7, RunOfInvocation DEF FailOrphan, FinishRun, Return, StartRun, Record
<1>8. ASSUME NEW p \in Procs, TakeLease(p)
      PROVE  LeaseIsHeld'
  BY <1>8, NoneAssumption, RunOfInvocation DEF TakeLease
<1>9. ASSUME NEW r \in RunIds, NEW how \in {"ok", "bad"}, ChildExits(r, how)
      PROVE  LeaseIsHeld'
  BY <1>9 DEF ChildExits
<1>10. ASSUME NEW r \in RunIds, NEW e \in Evidence, IngestResult(r, e)
      PROVE  LeaseIsHeld'
  BY <1>10 DEF IngestResult
<1>11. ASSUME NEW d \in Docs, ImportExternal(d)
      PROVE  LeaseIsHeld'
  BY <1>11 DEF ImportExternal
<1>12. CASE UNCHANGED vars
  BY <1>12 DEF vars
<1> QED
  BY <1>1, <1>2, <1>3, <1>4, <1>5, <1>6, <1>7, <1>8, <1>9, <1>10, <1>11, <1>12
     DEF Next, UnderLedgerLock, RunTransactions, WithoutLedgerLock, Prepare, Execute

(* Nobody but the holder of the lease moves a row a wrapper has read. *)
LEMMA LeasedRowStep == IInv /\ [Next]_vars => LeasedRowIsCurrent'
<1> SUFFICES ASSUME IInv, [Next]_vars PROVE LeasedRowIsCurrent'
  OBVIOUS
<1> USE DEF IInv, Bound, tables, wrapper, Go, TypeOK, Labels, Leased,
        Terminal, States, LeasedRowIsCurrent
<1>1. ASSUME NEW r \in Allocated, Register(r)
      PROVE  LeasedRowIsCurrent'
  BY <1>1, RunOfInvocation DEF Register
<1>2. ASSUME NEW p \in Procs, NEW k \in Keys, NEW q \in Requests, Retry(p, k, q)
      PROVE  LeasedRowIsCurrent'
  BY <1>2, RunOfInvocation DEF Retry, Prepared
<1>3. ASSUME NEW p \in Procs, NEW k \in Keys, NEW q \in Requests, BindPreregistered(p, k, q)
      PROVE  LeasedRowIsCurrent'
  BY <1>3, RunOfInvocation DEF BindPreregistered, Prepared, Known
<1>4. ASSUME NEW p \in Procs, NEW k \in Keys, NEW q \in Requests, BindExploratory(p, k, q)
      PROVE  LeasedRowIsCurrent'
  BY <1>4, RunOfInvocation DEF BindExploratory, Prepared, Known
<1>5. ASSUME NEW p \in Procs,
             FoundTerminal(p) \/ LookTerminal(p) \/ Reread(p) \/ FoundOpen(p)
               \/ LookOpen(p) \/ TakeLease(p)
      PROVE  LeasedRowIsCurrent'
  BY <1>5, RunOfInvocation DEF FoundTerminal, Reply, Return, LookTerminal,
        Reread, FoundOpen, LookOpen, TakeLease
<1>6. ASSUME NEW p \in Procs,
             LeaseBusy(p) \/ VerifyFails(p) \/ Abandon(p)
      PROVE  LeasedRowIsCurrent'
  BY <1>6, RunOfInvocation DEF LeaseBusy, Return, VerifyFails, Abandon
<1>7. ASSUME NEW p \in Procs,
             Launch(p) \/ LaunchFails(p) \/ Reap(p) \/ Interrupt(p)
      PROVE  LeasedRowIsCurrent'
  BY <1>7, RunOfInvocation DEF Launch, LaunchFails, Conclude, Reap, Interrupt
<1>8. ASSUME NEW p \in Procs, FailOrphan(p)
      PROVE  LeasedRowIsCurrent'
  BY <1>8, LeaseIsExclusive, RunOfInvocation DEF FailOrphan, FinishRun, Return
<1>9. ASSUME NEW p \in Procs, StartRun(p)
      PROVE  LeasedRowIsCurrent'
  BY <1>9, LeaseIsExclusive, RunOfInvocation DEF StartRun, Return
<1>10. ASSUME NEW p \in Procs, Record(p)
      PROVE  LeasedRowIsCurrent'
  BY <1>10, LeaseIsExclusive, RunOfInvocation DEF Record, FinishRun, Return,
        OutcomeIsTrue
<1>11. ASSUME NEW p \in Procs, RecordAndRaise(p)
      PROVE  LeasedRowIsCurrent'
  BY <1>11, LeaseIsExclusive, RunOfInvocation DEF RecordAndRaise, Return
<1>12. ASSUME NEW r \in RunIds, NEW how \in {"ok", "bad"}, ChildExits(r, how)
      PROVE  LeasedRowIsCurrent'
  BY <1>12, RunOfInvocation DEF ChildExits
<1>13. ASSUME NEW r \in RunIds, NEW e \in Evidence, IngestResult(r, e)
      PROVE  LeasedRowIsCurrent'
  BY <1>13, RunOfInvocation DEF IngestResult
<1>14. ASSUME NEW d \in Docs, ImportExternal(d)
      PROVE  LeasedRowIsCurrent'
  BY <1>14, RunOfInvocation DEF ImportExternal
<1>15. CASE UNCHANGED vars
  BY <1>15 DEF vars
<1> QED
  BY <1>1, <1>2, <1>3, <1>4, <1>5, <1>6, <1>7, <1>8, <1>9, <1>10, <1>11,
     <1>12, <1>13, <1>14, <1>15
     DEF Next, UnderLedgerLock, RunTransactions, WithoutLedgerLock, Prepare, Execute

----------------------------------------------------------------------------
(* Launches, exits, answers and windows. *)

(* Nothing is launched for a run twice: whoever launches has just started
   the run himself. *)
LEMMA LaunchStep == IInv /\ [Next]_vars => (LaunchedWhenRunning /\ LaunchedAtMostOnce)'
<1> SUFFICES ASSUME IInv, [Next]_vars PROVE (LaunchedWhenRunning /\ LaunchedAtMostOnce)'
  OBVIOUS
<1> USE DEF IInv, Bound, tables, wrapper, Go, TypeOK, Labels, Leased,
        Terminal, States, LaunchedWhenRunning, LaunchedAtMostOnce
<1>1. ASSUME NEW r \in Allocated, Register(r)
      PROVE  (LaunchedWhenRunning /\ LaunchedAtMostOnce)'
  BY <1>1, RunOfInvocation DEF Register
<1>2. ASSUME NEW p \in Procs, NEW k \in Keys, NEW q \in Requests, Retry(p, k, q)
      PROVE  (LaunchedWhenRunning /\ LaunchedAtMostOnce)'
  BY <1>2, RunOfInvocation DEF Retry, Prepared
<1>3. ASSUME NEW p \in Procs, NEW k \in Keys, NEW q \in Requests, BindPreregistered(p, k, q)
      PROVE  (LaunchedWhenRunning /\ LaunchedAtMostOnce)'
  BY <1>3, RunOfInvocation DEF BindPreregistered, Prepared, Known
<1>4. ASSUME NEW p \in Procs, NEW k \in Keys, NEW q \in Requests, BindExploratory(p, k, q)
      PROVE  (LaunchedWhenRunning /\ LaunchedAtMostOnce)'
  BY <1>4, RunOfInvocation DEF BindExploratory, Prepared, Known
<1>5. ASSUME NEW p \in Procs,
             FoundTerminal(p) \/ LookTerminal(p) \/ Reread(p) \/ FoundOpen(p)
               \/ LookOpen(p) \/ TakeLease(p)
      PROVE  (LaunchedWhenRunning /\ LaunchedAtMostOnce)'
  BY <1>5, RunOfInvocation DEF FoundTerminal, Reply, Return, LookTerminal,
        Reread, FoundOpen, LookOpen, TakeLease
<1>6. ASSUME NEW p \in Procs,
             LeaseBusy(p) \/ VerifyFails(p) \/ Abandon(p)
      PROVE  (LaunchedWhenRunning /\ LaunchedAtMostOnce)'
  BY <1>6, RunOfInvocation DEF LeaseBusy, Return, VerifyFails, Abandon
<1>7. ASSUME NEW p \in Procs, FailOrphan(p)
      PROVE  (LaunchedWhenRunning /\ LaunchedAtMostOnce)'
  BY <1>7, LeaseIsExclusive, RunOfInvocation DEF FailOrphan, FinishRun,
        Return, OutcomeIsTrue
<1>8. ASSUME NEW p \in Procs, StartRun(p)
      PROVE  (LaunchedWhenRunning /\ LaunchedAtMostOnce)'
  BY <1>8, LeaseIsExclusive, RunOfInvocation DEF StartRun, Return
<1>9. ASSUME NEW p \in Procs, Launch(p)
      PROVE  (LaunchedWhenRunning /\ LaunchedAtMostOnce)'
  BY <1>9, LeaseIsExclusive, RunOfInvocation DEF Launch, LeasedRowIsCurrent
<1>10. ASSUME NEW p \in Procs, LaunchFails(p) \/ Reap(p)
      PROVE  (LaunchedWhenRunning /\ LaunchedAtMostOnce)'
  BY <1>10, LeaseIsExclusive, RunOfInvocation DEF LaunchFails, Conclude, Reap
<1>11. ASSUME NEW p \in Procs, Interrupt(p)
      PROVE  (LaunchedWhenRunning /\ LaunchedAtMostOnce)'
  BY <1>11, LeaseIsExclusive, RunOfInvocation DEF Interrupt, Conclude
<1>12. ASSUME NEW p \in Procs, Record(p)
      PROVE  (LaunchedWhenRunning /\ LaunchedAtMostOnce)'
  BY <1>12, LeaseIsExclusive, RunOfInvocation DEF Record, FinishRun, Return,
        OutcomeIsTrue
<1>13. ASSUME NEW p \in Procs, RecordAndRaise(p)
      PROVE  (LaunchedWhenRunning /\ LaunchedAtMostOnce)'
  BY <1>13, LeaseIsExclusive, RunOfInvocation DEF RecordAndRaise, Return,
        OutcomeIsTrue
<1>14. ASSUME NEW r \in RunIds, NEW how \in {"ok", "bad"}, ChildExits(r, how)
      PROVE  (LaunchedWhenRunning /\ LaunchedAtMostOnce)'
  BY <1>14, RunOfInvocation DEF ChildExits
<1>15. ASSUME NEW r \in RunIds, NEW e \in Evidence, IngestResult(r, e)
      PROVE  (LaunchedWhenRunning /\ LaunchedAtMostOnce)'
  BY <1>15, RunOfInvocation DEF IngestResult
<1>16. ASSUME NEW d \in Docs, ImportExternal(d)
      PROVE  (LaunchedWhenRunning /\ LaunchedAtMostOnce)'
  BY <1>16, RunOfInvocation DEF ImportExternal
<1>17. CASE UNCHANGED vars
  BY <1>17 DEF vars
<1> QED
  BY <1>1, <1>2, <1>3, <1>4, <1>5, <1>6, <1>7, <1>8, <1>9, <1>10, <1>11,
     <1>12, <1>13, <1>14, <1>15, <1>16, <1>17
     DEF Next, UnderLedgerLock, RunTransactions, WithoutLedgerLock, Prepare, Execute

(* What a wrapper is about to record stays what its child earned. *)
LEMMA OutcomeStep == IInv /\ [Next]_vars => OutcomeIsTrue'
<1> SUFFICES ASSUME IInv, [Next]_vars PROVE OutcomeIsTrue'
  OBVIOUS
<1> USE DEF IInv, Bound, tables, wrapper, Go, TypeOK, Labels, Leased,
        Terminal, States, OutcomeIsTrue
<1>1. ASSUME NEW r \in Allocated, Register(r)
      PROVE  OutcomeIsTrue'
  BY <1>1, RunOfInvocation DEF Register
<1>2. ASSUME NEW p \in Procs, NEW k \in Keys, NEW q \in Requests, Retry(p, k, q)
      PROVE  OutcomeIsTrue'
  BY <1>2, RunOfInvocation DEF Retry, Prepared
<1>3. ASSUME NEW p \in Procs, NEW k \in Keys, NEW q \in Requests, BindPreregistered(p, k, q)
      PROVE  OutcomeIsTrue'
  BY <1>3, RunOfInvocation DEF BindPreregistered, Prepared, Known
<1>4. ASSUME NEW p \in Procs, NEW k \in Keys, NEW q \in Requests, BindExploratory(p, k, q)
      PROVE  OutcomeIsTrue'
  BY <1>4, RunOfInvocation DEF BindExploratory, Prepared, Known
<1>5. ASSUME NEW p \in Procs,
             FoundTerminal(p) \/ LookTerminal(p) \/ Reread(p) \/ FoundOpen(p)
               \/ LookOpen(p) \/ TakeLease(p)
      PROVE  OutcomeIsTrue'
  BY <1>5, RunOfInvocation DEF FoundTerminal, Reply, Return, LookTerminal,
        Reread, FoundOpen, LookOpen, TakeLease
<1>6. ASSUME NEW p \in Procs,
             LeaseBusy(p) \/ VerifyFails(p) \/ Abandon(p)
      PROVE  OutcomeIsTrue'
  BY <1>6, RunOfInvocation DEF LeaseBusy, Return, VerifyFails, Abandon
<1>7. ASSUME NEW p \in Procs, FailOrphan(p)
      PROVE  OutcomeIsTrue'
  BY <1>7, LeaseIsExclusive, RunOfInvocation DEF FailOrphan, FinishRun, Return
<1>8. ASSUME NEW p \in Procs, StartRun(p)
      PROVE  OutcomeIsTrue'
  BY <1>8, LeaseIsExclusive, RunOfInvocation DEF StartRun, Return
<1>9. ASSUME NEW p \in Procs, Launch(p)
      PROVE  OutcomeIsTrue'
  BY <1>9, LeaseIsExclusive, RunOfInvocation DEF Launch
<1>10. ASSUME NEW p \in Procs, LaunchFails(p) \/ Reap(p)
      PROVE  OutcomeIsTrue'
  BY <1>10, LeaseIsExclusive, RunOfInvocation DEF LaunchFails, Conclude, Reap
<1>11. ASSUME NEW p \in Procs, Interrupt(p)
      PROVE  OutcomeIsTrue'
  BY <1>11, LeaseIsExclusive, RunOfInvocation DEF Interrupt, Conclude
<1>12. ASSUME NEW p \in Procs, Record(p)
      PROVE  OutcomeIsTrue'
  BY <1>12, LeaseIsExclusive, RunOfInvocation DEF Record, FinishRun, Return
<1>13. ASSUME NEW p \in Procs, RecordAndRaise(p)
      PROVE  OutcomeIsTrue'
  BY <1>13, LeaseIsExclusive, RunOfInvocation DEF RecordAndRaise, Return
<1>14. ASSUME NEW r \in RunIds, NEW how \in {"ok", "bad"}, ChildExits(r, how)
      PROVE  OutcomeIsTrue'
  BY <1>14, RunOfInvocation DEF ChildExits
<1>15. ASSUME NEW r \in RunIds, NEW e \in Evidence, IngestResult(r, e)
      PROVE  OutcomeIsTrue'
  BY <1>15, RunOfInvocation DEF IngestResult
<1>16. ASSUME NEW d \in Docs, ImportExternal(d)
      PROVE  OutcomeIsTrue'
  BY <1>16, RunOfInvocation DEF ImportExternal
<1>17. CASE UNCHANGED vars
  BY <1>17 DEF vars
<1> QED
  BY <1>1, <1>2, <1>3, <1>4, <1>5, <1>6, <1>7, <1>8, <1>9, <1>10, <1>11,
     <1>12, <1>13, <1>14, <1>15, <1>16, <1>17
     DEF Next, UnderLedgerLock, RunTransactions, WithoutLedgerLock, Prepare, Execute

(* A run becomes completed by its child or by its import, and stays so. *)
LEMMA CompletedStep == IInv /\ [Next]_vars => CompletedMeansSuccess'
<1> SUFFICES ASSUME IInv, [Next]_vars PROVE CompletedMeansSuccess'
  OBVIOUS
<1> USE DEF IInv, Bound, tables, wrapper, Go, TypeOK, Labels, Leased,
        Terminal, States, CompletedMeansSuccess
<1>1. ASSUME NEW r \in Allocated, Register(r)
      PROVE  CompletedMeansSuccess'
  BY <1>1, RunOfInvocation DEF Register
<1>2. ASSUME NEW p \in Procs, NEW k \in Keys, NEW q \in Requests, Retry(p, k, q)
      PROVE  CompletedMeansSuccess'
  BY <1>2, RunOfInvocation DEF Retry, Prepared
<1>3. ASSUME NEW p \in Procs, NEW k \in Keys, NEW q \in Requests, BindPreregistered(p, k, q)
      PROVE  CompletedMeansSuccess'
  BY <1>3, RunOfInvocation DEF BindPreregistered, Prepared, Known
<1>4. ASSUME NEW p \in Procs, NEW k \in Keys, NEW q \in Requests, BindExploratory(p, k, q)
      PROVE  CompletedMeansSuccess'
  BY <1>4, RunOfInvocation DEF BindExploratory, Prepared, Known
<1>5. ASSUME NEW p \in Procs,
             FoundTerminal(p) \/ LookTerminal(p) \/ Reread(p) \/ FoundOpen(p)
               \/ LookOpen(p) \/ TakeLease(p)
      PROVE  CompletedMeansSuccess'
  BY <1>5, RunOfInvocation DEF FoundTerminal, Reply, Return, LookTerminal,
        Reread, FoundOpen, LookOpen, TakeLease
<1>6. ASSUME NEW p \in Procs,
             LeaseBusy(p) \/ VerifyFails(p) \/ Abandon(p)
      PROVE  CompletedMeansSuccess'
  BY <1>6, RunOfInvocation DEF LeaseBusy, Return, VerifyFails, Abandon
<1>7. ASSUME NEW p \in Procs, FailOrphan(p)
      PROVE  CompletedMeansSuccess'
  BY <1>7, RunOfInvocation DEF FailOrphan, FinishRun, Return
<1>8. ASSUME NEW p \in Procs, StartRun(p)
      PROVE  CompletedMeansSuccess'
  BY <1>8, RunOfInvocation DEF StartRun, Return
<1>9. ASSUME NEW p \in Procs, Launch(p)
      PROVE  CompletedMeansSuccess'
  BY <1>9, RunOfInvocation DEF Launch, LeasedRowIsCurrent
<1>10. ASSUME NEW p \in Procs, LaunchFails(p) \/ Reap(p)
      PROVE  CompletedMeansSuccess'
  BY <1>10, RunOfInvocation DEF LaunchFails, Conclude, Reap
<1>11. ASSUME NEW p \in Procs, Interrupt(p)
      PROVE  CompletedMeansSuccess'
  BY <1>11, RunOfInvocation DEF Interrupt, Conclude, LeasedRowIsCurrent
<1>12. ASSUME NEW p \in Procs, Record(p)
      PROVE  CompletedMeansSuccess'
  BY <1>12, RunOfInvocation DEF Record, FinishRun, Return, OutcomeIsTrue
<1>13. ASSUME NEW p \in Procs, RecordAndRaise(p)
      PROVE  CompletedMeansSuccess'
  BY <1>13, RunOfInvocation DEF RecordAndRaise, Return, OutcomeIsTrue
<1>14. ASSUME NEW r \in RunIds, NEW how \in {"ok", "bad"}, ChildExits(r, how)
      PROVE  CompletedMeansSuccess'
  BY <1>14, RunOfInvocation DEF ChildExits
<1>15. ASSUME NEW r \in RunIds, NEW e \in Evidence, IngestResult(r, e)
      PROVE  CompletedMeansSuccess'
  BY <1>15, NoneAssumption, RunOfInvocation DEF IngestResult
<1>16. ASSUME NEW d \in Docs, ImportExternal(d)
      PROVE  CompletedMeansSuccess'
  <2>1. PICK x \in Imported :
          /\ runState[x] = "none"
          /\ runState' = [runState EXCEPT ![x] = IF d \in Succeeded THEN "completed" ELSE "failed"]
          /\ imports' = imports \cup {[run |-> x, doc |-> d]}
    BY <1>16 DEF ImportExternal
  <2> DEFINE i == [run |-> x, doc |-> d]
  <2>2. i \in imports' /\ i.run = x /\ i.doc = d
    BY <2>1
  <2>3. imports \subseteq imports' /\ UNCHANGED <<child, results>>
    BY <2>1, <1>16 DEF ImportExternal
  <2> HIDE DEF i
  <2>4. \A r \in RunIds : runState'[r] = runState[r] \/ (r = x /\ runState[r] = "none")
    BY <2>1
  <2>5. x \in RunIds /\ (runState'[x] = "completed" => d \in Succeeded)
    BY <2>1 DEF RunIds
  <2> QED
    BY <2>2, <2>3, <2>4, <2>5
<1>17. CASE UNCHANGED vars
  BY <1>17 DEF vars
<1> QED
  BY <1>1, <1>2, <1>3, <1>4, <1>5, <1>6, <1>7, <1>8, <1>9, <1>10, <1>11,
     <1>12, <1>13, <1>14, <1>15, <1>16, <1>17
     DEF Next, UnderLedgerLock, RunTransactions, WithoutLedgerLock, Prepare, Execute

(* Every step leaves an answer that was given right.                       *)
LEMMA AnswersStep == IInv /\ [Next]_vars => (AnswersAreBound /\ AnswersStand)'
<1> SUFFICES ASSUME IInv, [Next]_vars PROVE (AnswersAreBound /\ AnswersStand)'
  OBVIOUS
<1> USE DEF IInv, Bound, tables, wrapper, Go, TypeOK, Answer, Terminal,
        States, AnswersAreBound, AnswersStand
<1>0. RowsMove
  BY RowsMoveForward
<1>1. ASSUME NEW r \in Allocated, Register(r)
      PROVE  (AnswersAreBound /\ AnswersStand)'
  BY <1>1, RunOfInvocation, <1>0 DEF Register, RowsMove
<1>2. ASSUME NEW p \in Procs, NEW k \in Keys, NEW q \in Requests,
             Retry(p, k, q) \/ BindPreregistered(p, k, q)
      PROVE  (AnswersAreBound /\ AnswersStand)'
  BY <1>2, RunOfInvocation, <1>0 DEF Retry, Prepared, RowsMove,
        BindPreregistered, Known
<1>3. ASSUME NEW p \in Procs, NEW k \in Keys, NEW q \in Requests, BindExploratory(p, k, q)
      PROVE  (AnswersAreBound /\ AnswersStand)'
  BY <1>3, RunOfInvocation, <1>0 DEF BindExploratory, Prepared, Known,
        RowsMove
<1>4. ASSUME NEW p \in Procs,
             FoundTerminal(p) \/ LookTerminal(p) \/ Reread(p)
      PROVE  (AnswersAreBound /\ AnswersStand)'
  <2> DEFINE a == [run |-> run[p], key |-> key[p], state |-> runState[run[p]]]
  <2>1. answers' = answers \cup {a} /\ UNCHANGED <<runState, bindings>> /\ pc[p] # "idle"
    BY <1>4 DEF FoundTerminal, Reply, Return, LookTerminal, Reread
  <2>2. a.run = run[p] /\ a.key = key[p] /\ a.state = runState[run[p]] /\ a.state \in Terminal
    BY <1>4 DEF FoundTerminal, LookTerminal, Reread, LeasedRowIsCurrent
  <2> HIDE DEF a
  <2>3. PICK b \in bindings : b.run = a.run /\ b.key = a.key
    BY <2>1, <2>2 DEF InvocationIsBound
  <2>4. AnswersAreBound'
    BY <2>1, <2>3
  <2>5. \A c \in answers : c.key = a.key => c.run = a.run
    BY <2>3 DEF BindingsAreUnique
  <2>6. AnswersStand'
    BY <2>1, <2>2, <2>5
  <2> QED
    BY <2>4, <2>6
<1>5. ASSUME NEW p \in Procs,
             FoundOpen(p) \/ LookOpen(p) \/ TakeLease(p) \/ LeaseBusy(p)
               \/ VerifyFails(p) \/ Abandon(p) \/ Launch(p) \/ LaunchFails(p)
               \/ Reap(p) \/ Interrupt(p)
      PROVE  (AnswersAreBound /\ AnswersStand)'
  BY <1>5, RunOfInvocation, <1>0 DEF FoundOpen, RowsMove, LookOpen, TakeLease,
        LeaseBusy, Return, VerifyFails, Abandon, Launch, LaunchFails,
        Conclude, Reap, Interrupt
<1>6. ASSUME NEW p \in Procs, FailOrphan(p)
      PROVE  (AnswersAreBound /\ AnswersStand)'
  BY <1>6, RunOfInvocation, <1>0 DEF FailOrphan, FinishRun, Return, RowsMove
<1>7. ASSUME NEW p \in Procs, StartRun(p)
      PROVE  (AnswersAreBound /\ AnswersStand)'
  BY <1>7, RunOfInvocation, <1>0 DEF StartRun, Return, RowsMove
<1>8. ASSUME NEW p \in Procs, Record(p)
      PROVE  (AnswersAreBound /\ AnswersStand)'
  BY <1>8, RunOfInvocation, <1>0 DEF Record, FinishRun, Return, RowsMove
<1>9. ASSUME NEW p \in Procs, RecordAndRaise(p)
      PROVE  (AnswersAreBound /\ AnswersStand)'
  BY <1>9, RunOfInvocation, <1>0 DEF RecordAndRaise, Return, RowsMove
<1>10. ASSUME NEW r \in RunIds, NEW how \in {"ok", "bad"}, ChildExits(r, how)
      PROVE  (AnswersAreBound /\ AnswersStand)'
  BY <1>10, RunOfInvocation, <1>0 DEF ChildExits, RowsMove
<1>11. ASSUME NEW r \in RunIds, NEW e \in Evidence, IngestResult(r, e)
      PROVE  (AnswersAreBound /\ AnswersStand)'
  BY <1>11, RunOfInvocation, <1>0 DEF IngestResult, RowsMove
<1>12. ASSUME NEW d \in Docs, ImportExternal(d)
      PROVE  (AnswersAreBound /\ AnswersStand)'
  BY <1>12, RunOfInvocation, <1>0 DEF ImportExternal, RowsMove
<1>13. CASE UNCHANGED vars
  BY <1>13 DEF vars
<1> QED
  BY <1>1, <1>2, <1>3, <1>4, <1>5, <1>6, <1>7, <1>8, <1>9, <1>10, <1>11,
     <1>12, <1>13
     DEF Next, UnderLedgerLock, RunTransactions, WithoutLedgerLock, Prepare, Execute

(* A window is touched by the transaction that starts its run. *)
LEMMA TouchedStep == IInv /\ [Next]_vars => StartedIsTouched'
<1> SUFFICES ASSUME IInv, [Next]_vars PROVE StartedIsTouched'
  OBVIOUS
<1> USE DEF IInv, Bound, tables, wrapper, Go, TypeOK, States, Terminal,
        StartedIsTouched, WindowOf, OriginsOf
<1>1. ASSUME NEW r \in Allocated, Register(r)
      PROVE  StartedIsTouched'
  BY <1>1 DEF Register
<1>2. ASSUME NEW p \in Procs, NEW k \in Keys, NEW q \in Requests, Retry(p, k, q)
      PROVE  StartedIsTouched'
  BY <1>2 DEF Retry, Prepared
<1>3. ASSUME NEW p \in Procs, NEW k \in Keys, NEW q \in Requests, BindPreregistered(p, k, q)
      PROVE  StartedIsTouched'
  BY <1>3 DEF BindPreregistered, Prepared, Known
<1>4. ASSUME NEW p \in Procs, NEW k \in Keys, NEW q \in Requests, BindExploratory(p, k, q)
      PROVE  StartedIsTouched'
  BY <1>4 DEF BindExploratory, Prepared, Known
<1>5. ASSUME NEW p \in Procs,
             FoundTerminal(p) \/ LookTerminal(p) \/ Reread(p) \/ FoundOpen(p)
               \/ LookOpen(p) \/ TakeLease(p)
      PROVE  StartedIsTouched'
  BY <1>5 DEF FoundTerminal, Reply, Return, LookTerminal, Reread, FoundOpen,
        LookOpen, TakeLease
<1>6. ASSUME NEW p \in Procs,
             LeaseBusy(p) \/ VerifyFails(p) \/ Abandon(p)
      PROVE  StartedIsTouched'
  BY <1>6 DEF LeaseBusy, Return, VerifyFails, Abandon
<1>7. ASSUME NEW p \in Procs, FailOrphan(p)
      PROVE  StartedIsTouched'
  BY <1>7, RunOfInvocation DEF FailOrphan, FinishRun, Return,
        LeasedRowIsCurrent, OutcomeIsTrue
<1>8. ASSUME NEW p \in Procs, StartRun(p)
      PROVE  StartedIsTouched'
  BY <1>8, RunOfInvocation DEF StartRun, Return
<1>9. ASSUME NEW p \in Procs, Launch(p)
      PROVE  StartedIsTouched'
  BY <1>9 DEF Launch
<1>10. ASSUME NEW p \in Procs, LaunchFails(p) \/ Reap(p)
      PROVE  StartedIsTouched'
  BY <1>10 DEF LaunchFails, Conclude, Reap
<1>11. ASSUME NEW p \in Procs, Interrupt(p)
      PROVE  StartedIsTouched'
  BY <1>11 DEF Interrupt, Conclude
<1>12. ASSUME NEW p \in Procs, Record(p)
      PROVE  StartedIsTouched'
  BY <1>12, RunOfInvocation DEF Record, FinishRun, Return, LeasedRowIsCurrent,
        OutcomeIsTrue
<1>13. ASSUME NEW p \in Procs, RecordAndRaise(p)
      PROVE  StartedIsTouched'
  BY <1>13, RunOfInvocation DEF RecordAndRaise, Return, LeasedRowIsCurrent,
        OutcomeIsTrue
<1>14. ASSUME NEW r \in RunIds, NEW how \in {"ok", "bad"}, ChildExits(r, how)
      PROVE  StartedIsTouched'
  BY <1>14 DEF ChildExits
<1>15. ASSUME NEW r \in RunIds, NEW e \in Evidence, IngestResult(r, e)
      PROVE  StartedIsTouched'
  BY <1>15 DEF IngestResult
<1>16. ASSUME NEW d \in Docs, ImportExternal(d)
      PROVE  StartedIsTouched'
  <2>1. PICK x \in Imported :
          /\ runState[x] = "none"
          /\ runState' = [runState EXCEPT ![x] = IF d \in Succeeded THEN "completed" ELSE "failed"]
          /\ imports' = imports \cup {[run |-> x, doc |-> d]}
    BY <1>16 DEF ImportExternal
  <2>2. x \in RunIds /\ bindings' = bindings /\ touched' = touched \cup CellsOf[d]
    BY <1>16 DEF ImportExternal, RunIds
  <2>3. \A r \in RunIds \ {x} : OriginsOf(r)' = OriginsOf(r) /\ runState'[r] = runState[r]
    BY <2>1, <2>2 DEF OriginsOf
  <2>4. OriginsOf(x)' \subseteq {d}
    <3>1. \A b \in bindings : b.run # x
      BY <2>1 DEF BoundRunExists
    <3>2. \A i \in imports : i.run # x
      BY <2>1 DEF BoundRunExists
    <3>3. {b.req : b \in {c \in bindings : c.run = x}} = {}
      BY <3>1
    <3>4. \A i \in imports' : i.run = x => i.doc = d
      BY <2>1, <3>2
    <3> QED
      BY <2>2, <3>3, <3>4 DEF OriginsOf
  <2>5. WindowOf(x)' \subseteq touched'
    BY <2>2, <2>4 DEF WindowOf
  <2>6. ASSUME NEW r \in RunIds \ {x}, runState'[r] \notin {"none", "registered"}
        PROVE  WindowOf(r)' \subseteq touched'
    BY <2>2, <2>3, <2>6 DEF WindowOf, StartedIsTouched
  <2> QED
    BY <2>5, <2>6 DEF StartedIsTouched
<1>17. CASE UNCHANGED vars
  BY <1>17 DEF vars
<1> QED
  BY <1>1, <1>2, <1>3, <1>4, <1>5, <1>6, <1>7, <1>8, <1>9, <1>10, <1>11,
     <1>12, <1>13, <1>14, <1>15, <1>16, <1>17
     DEF Next, UnderLedgerLock, RunTransactions, WithoutLedgerLock, Prepare, Execute

----------------------------------------------------------------------------
(* The theorems. *)

(* Every step keeps the invariant. *)
LEMMA StepIInv == IInv /\ [Next]_vars => IInv'
  BY TypeStep, BindingsStep, InvocationStep, LeaseStep, LeasedRowStep, LaunchStep,
     OutcomeStep, CompletedStep, AnswersStep, TouchedStep DEF IInv, Bound

(* The invariant holds in every reachable state. *)
LEMMA IInvariant == Spec => []IInv
  BY InitIInv, StepIInv, PTL DEF Spec

(* Types, for any number of runs, requests and invocations. *)
THEOREM TypeCorrect == Spec => []TypeOK
<1>1. IInv => TypeOK
  BY DEF IInv
<1> QED
  BY IInvariant, <1>1, PTL

(* README, Running MSM: no retry "launches a duplicate process", whatever  *)
(* invocations of RunService overlap, die or leave a child behind.         *)
THEOREM NoDuplicateProcess == Spec => []LaunchedAtMostOnce
<1>1. IInv => LaunchedAtMostOnce
  BY DEF IInv
<1> QED
  BY IInvariant, <1>1, PTL

(* start_run and finish_run never refuse the wrapper that calls them: the  *)
(* row is still what _execute_locked read before.                          *)
THEOREM RowsStayCurrent == Spec => []LeasedRowIsCurrent
<1>1. IInv => LeasedRowIsCurrent
  BY DEF IInv
<1> QED
  BY IInvariant, <1>1, PTL

(* A completed run is one whose child succeeded or that was imported as a  *)
(* success, and no other run carries evidence.                             *)
THEOREM CompletionIsEarned == Spec => []CompletedMeansSuccess
<1>1. IInv => CompletedMeansSuccess
  BY DEF IInv
<1> QED
  BY IInvariant, <1>1, PTL

(* Every answer RunService gave stays right, and one key is one run. *)
THEOREM AnswersAreFinal == Spec => []AnswersStand
<1>1. IInv => AnswersStand
  BY DEF IInv
<1> QED
  BY IInvariant, <1>1, PTL

(* No row appears or disappears but under the ledger lock. *)
LEMMA RowsAppearUnderLock ==
  ASSUME IInv, WithoutLedgerLock
  PROVE  \A r \in RunIds : runState'[r] = "none" <=> runState[r] = "none"
<1> USE DEF IInv, Bound, TypeOK, tables, wrapper
<1>1. ASSUME NEW p \in Procs, Execute(p) \/ Interrupt(p) \/ Abandon(p)
      PROVE  \A x \in RunIds : runState'[x] = "none" <=> runState[x] = "none"
  <2>1. \/ runState' = runState
        \/ /\ pc[p] # "idle"
           /\ \E y \in States \ {"none"} : runState' = [runState EXCEPT ![run[p]] = y]
    BY <1>1
       DEF Execute, FoundTerminal, LookTerminal, Reread, FoundOpen, LookOpen, TakeLease,
           LeaseBusy, VerifyFails, FailOrphan, FinishRun, StartRun, Launch, LaunchFails,
           Reap, Conclude, Record, RecordAndRaise, Interrupt, Abandon, OutcomeIsTrue,
           States, Terminal
  <2> QED
    BY <2>1, RunOfInvocation
<1>2. ASSUME NEW s \in RunIds, NEW how \in {"ok", "bad"}, ChildExits(s, how)
      PROVE  runState' = runState
  BY <1>2 DEF ChildExits
<1> QED
  BY <1>1, <1>2 DEF WithoutLedgerLock

(* No row of a prediction's run appears or disappears but by registration. *)
LEMMA RowsAppearByRegistration ==
  ASSUME IInv, RunTransactions \/ WithoutLedgerLock
  PROVE  \A r \in Allocated : runState'[r] = "none" <=> runState[r] = "none"
<1> USE RunIdsAssumption DEF IInv, Bound, TypeOK, RunIds, tables, wrapper
<1>1. ASSUME NEW p \in Procs, Prepare(p)
      PROVE  \A x \in Allocated : runState'[x] = "none" <=> runState[x] = "none"
  <2>1. PICK k \in Keys, z \in Requests :
          Retry(p, k, z) \/ BindPreregistered(p, k, z) \/ BindExploratory(p, k, z)
    BY <1>1 DEF Prepare
  <2>2. runState' = runState \/ \E r \in Drawn : runState' = [runState EXCEPT ![r] = "registered"]
    BY <2>1 DEF Retry, BindPreregistered, BindExploratory
  <2> QED
    BY <2>2
<1>2. ASSUME NEW r \in RunIds, NEW e \in Evidence, IngestResult(r, e) PROVE runState' = runState
  BY <1>2 DEF IngestResult
<1>3. ASSUME NEW d \in Docs, ImportExternal(d)
      PROVE  \A x \in Allocated : runState'[x] = "none" <=> runState[x] = "none"
  BY <1>3 DEF ImportExternal
<1> QED
  BY <1>1, <1>2, <1>3, RowsAppearUnderLock DEF RunTransactions

(* Observations are never forgotten. *)
LEMMA TouchedGrows == ASSUME [Next]_vars PROVE touched \subseteq touched'
<1> USE DEF tables, wrapper
<1>1. ASSUME NEW p \in Procs, Prepare(p) PROVE touched' = touched
  BY <1>1 DEF Prepare, Retry, BindPreregistered, BindExploratory, Prepared
<1>2. ASSUME NEW p \in Procs, Execute(p) \/ Interrupt(p) \/ Abandon(p)
      PROVE  touched \subseteq touched'
  BY <1>2 DEF Execute, FoundTerminal, LookTerminal, Reread, FoundOpen, LookOpen, TakeLease,
              LeaseBusy, VerifyFails, FailOrphan, StartRun, Launch, LaunchFails,
              Reap, Conclude, Record, RecordAndRaise, Interrupt, Abandon
<1>3. ASSUME NEW r \in Allocated, Register(r) PROVE touched' = touched
  BY <1>3 DEF Register
<1>4. ASSUME NEW r \in RunIds, NEW e \in Evidence, IngestResult(r, e) PROVE touched' = touched
  BY <1>4 DEF IngestResult
<1>5. ASSUME NEW r \in RunIds, NEW how \in {"ok", "bad"}, ChildExits(r, how)
      PROVE  touched' = touched
  BY <1>5 DEF ChildExits
<1>6. ASSUME NEW d \in Docs, ImportExternal(d) PROVE touched \subseteq touched'
  BY <1>6 DEF ImportExternal
<1>7. CASE UNCHANGED vars
  BY <1>7 DEF vars
<1> QED
  BY <1>1, <1>2, <1>3, <1>4, <1>5, <1>6, <1>7
     DEF Next, UnderLedgerLock, RunTransactions, WithoutLedgerLock

(* README: the window is touched "before the child receives control": a    *)
(* prediction is registered blind, whatever runs have been started.        *)
THEOREM RegistrationIsBlind == Spec => RegisteredBlind
<1> DEFINE Blind == \A q \in Requests, s \in RunIds :
                      /\ Target[q] # None
                      /\ runState[Target[q]] = "none" /\ runState'[Target[q]] # "none"
                      /\ launched[s] > 0
                      => WindowOf(s) \cap CellsOf[q] = {}
<1>1. IInv /\ [Next]_vars => [Blind]_vars
  <2> SUFFICES ASSUME IInv, Next, NEW q \in Requests, NEW s \in RunIds,
                      Target[q] # None,
                      runState[Target[q]] = "none", runState'[Target[q]] # "none",
                      launched[s] > 0
               PROVE  WindowOf(s) \cap CellsOf[q] = {}
    OBVIOUS
  <2>1. WindowOf(s) \subseteq touched
    BY DEF IInv, TypeOK, LaunchedWhenRunning, StartedIsTouched
  <2>2. Target[q] \in Allocated /\ Target[q] \notin Imported /\ Target[q] \notin Drawn
    BY OriginAssumption, RunIdsAssumption
  <2>3. Register(Target[q])
    <3>1. ASSUME NEW r \in Allocated, Register(r) PROVE r = Target[q]
      BY <2>2, <3>1 DEF IInv, TypeOK, RunIds, Register
    <3>2. ~(RunTransactions \/ WithoutLedgerLock)
      BY <2>2, RowsAppearByRegistration
    <3> QED
      BY <3>1, <3>2 DEF Next, UnderLedgerLock
  <2> QED
    BY <2>1, <2>3 DEF Register
<1> QED
  BY IInvariant, <1>1, PTL DEF Spec, RegisteredBlind

----------------------------------------------------------------------------
(* Backup. *)

(* The lock is held until the files are copied; until then no prediction   *)
(* appears that the copied registry does not know.                         *)
LockCoversCopies ==
    /\ step \in {"check", "copy", "files"} => locked
    /\ step = "files" => \A r \in Allocated : registryCopy[r] = "none" <=> runState[r] = "none"
    /\ step \in {"verify", "named", "published"} =>
         fileCopy = {r \in Allocated : registryCopy[r] # "none"}

(* A step beside a backup is a step of the runs, or none of theirs. *)
LEMMA StepBesideBackup == [BNext]_bvars => [Next]_vars
  BY DEF BNext, Next, bvars, TakeLock, Refuse, CheckActive, CopyRegistry, CopyFiles, Publish,
     Confirm, Fail

(* The runs behave beside a backup as they do alone. *)
THEOREM RunsBesideBackup == BSpec => Spec
<1>1. BInit => Init
  BY DEF BInit
<1> QED
  BY <1>1, StepBesideBackup, PTL DEF BSpec, Spec

(* No prediction appears between the two copies. *)
LEMMA CopiesAgree == BSpec => []LockCoversCopies
<1>1. BInit => LockCoversCopies
  BY DEF BInit, LockCoversCopies
<1>2. IInv /\ LockCoversCopies /\ [BNext]_bvars => LockCoversCopies'
  <2> SUFFICES ASSUME IInv, LockCoversCopies, [BNext]_bvars PROVE LockCoversCopies'
    OBVIOUS
  <2> USE DEF LockCoversCopies, backup
  <2>1. CASE ~locked /\ UnderLedgerLock /\ UNCHANGED backup
    BY <2>1
  <2>2. CASE WithoutLedgerLock /\ UNCHANGED backup
    BY <2>2, RowsAppearUnderLock DEF RunIds
  <2>3. CASE TakeLock \/ Refuse \/ CheckActive \/ Fail
    BY <2>3 DEF TakeLock, Refuse, CheckActive, Fail
  <2>4. CASE CopyRegistry
    BY <2>4 DEF CopyRegistry, vars, tables
  <2>5. CASE CopyFiles
    BY <2>5 DEF CopyFiles, Captured
  <2>6. CASE Publish \/ Confirm
    BY <2>6 DEF Publish, Confirm
  <2>7. CASE UNCHANGED bvars
    BY <2>7 DEF bvars, vars, tables
  <2> QED
    BY <2>1, <2>2, <2>3, <2>4, <2>5, <2>6, <2>7 DEF BNext
<1> QED
  BY <1>1, <1>2, RunsBesideBackup, IInvariant, PTL DEF BSpec

(* create_backup: a published backup holds the files of exactly the        *)
(* predictions its copy of the registry knows, whatever is captured, bound *)
(* and executed while it is made.                                          *)
THEOREM BackupWhole == BSpec => []BackupIsWhole
<1>1. LockCoversCopies => BackupIsWhole
  BY DEF LockCoversCopies, BackupIsWhole
<1> QED
  BY <1>1, CopiesAgree, PTL
=============================================================================
