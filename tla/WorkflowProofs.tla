--------------------------- MODULE WorkflowProofs ---------------------------
(***************************************************************************)
(* Proofs about module Workflow, for any number of workflows, tabs, calls  *)
(* and restarts.                                                           *)
(*                                                                         *)
(* Exact replay needs to know that nothing was ever called for a workflow  *)
(* that can still be confirmed or cancelled (NotYetSubmitted), a true      *)
(* receipt that an answer waiting to be recorded is what the ledger holds  *)
(* (RepliesAreTrue), and one call at a time that a handler's claim and the *)
(* state of the row go together as long as no second server has recovered  *)
(* the rows of a live one (ClaimsFit).  The last section shows that the    *)
(* console over the backend implements AtomicLedger.                       *)
(***************************************************************************)
EXTENDS Workflow, FiniteSetTheorems, TLAPS

(* A handler works for a workflow, and has something to record. *)
HandlersFit ==
    \A t \in Tabs : /\ pc[t] # "idle" => at[t] \in Workflows
                    /\ pc[t] = "record" => reply[t] # None
                    /\ pc[t] # "record" => reply[t] = None

(* Nothing was called for a workflow that is new, or still or again open   *)
(* to revision, or cancelled.                                              *)
Early == {"editing", "extracting", "reviewing", "cancelled"}
NotYetSubmitted ==
    \A w \in Workflows :
      /\ version[w] = 0 => state[w] \in {"none", "editing"}
      /\ version[w] = 0 \/ state[w] \in Early => ledger[w] = None /\ \A c \in calls : c.wf # w

(* A submission that is not settled has a frozen request. *)
Unsettled == {"submitting", "uncertain", "retryable_failure"}
RequestIsFrozen == \A w \in Workflows : state[w] \in Unsettled => frozen[w] # None

(* An answer that waits to be recorded is what the ledger holds. *)
RepliesAreTrue == \A t \in Tabs : reply[t] \in Inputs => ledger[at[t]] = reply[t]

(* What was called is as little forgotten as what was captured. *)
CalledIsReconciled ==
    \A c \in calls : \/ state[c.wf] \in Unsettled /\ expiry[c.wf] = "never"
                     \/ receipt[c.wf] # None
                     \/ c.wf \in rejected

(* A claim and its row go together. *)
ClaimsFit ==
    ~twice => \A t \in Tabs : /\ pc[t] \in {"calling", "record"} => state[at[t]] = "submitting"
                              /\ pc[t] = "extracting" => state[at[t]] = "extracting"

IInv ==
    /\ TypeOK /\ IsFiniteSet(calls)
    /\ HandlersFit /\ NotYetSubmitted /\ RequestIsFrozen
    /\ ReplaysExactly
    /\ RepliesAreTrue /\ ReceiptIsTrue
    /\ CalledIsReconciled /\ CapturedIsReconciled
    /\ ClaimsFit /\ OneCallAtATime

----------------------------------------------------------------------------
(* What a call adds to the calls. *)

CallRecord == [n : Nat, tab : Tabs, wf : Workflows, req : Inputs, open : BOOLEAN]

(* An update of a row keeps the types of its columns. *)
LEMMA UpdateTypes ==
  ASSUME TypeOK, NEW w \in Workflows, NEW s \in States, NEW e \in {"never", "ahead", "passed"},
         Update(w, s, e)
  PROVE  /\ state' \in [Workflows -> States]
         /\ expiry' \in [Workflows -> {"never", "ahead", "passed"}]
         /\ version' \in [Workflows -> Nat]
  BY DEF TypeOK, Update

(* A call adds one record, with the workflow and the request it is for.    *)
LEMMA CallAdds ==
  ASSUME TypeOK, IsFiniteSet(calls),
         NEW t \in Tabs, NEW w \in Workflows, NEW r \in Inputs, Call(t, w, r)
  PROVE  /\ calls' \subseteq CallRecord /\ IsFiniteSet(calls')
         /\ \A d \in calls' : d \in calls \/ (d.wf = w /\ d.req = r)
<1>1. Cardinality(CallsOf(w)) \in Nat
  BY FS_Subset, FS_CardinalityType DEF CallsOf
<1> DEFINE new == [n |-> Cardinality(CallsOf(w)) + 1, tab |-> t, wf |-> w, req |-> r, open |-> TRUE]
<1>2. new \in CallRecord /\ new.wf = w /\ new.req = r
  BY <1>1 DEF CallRecord
<1>3. calls' = calls \cup {new}
  BY DEF Call
<1> HIDE DEF new
<1>4. IsFiniteSet(calls')
  BY <1>3, FS_AddElement
<1> QED
  BY <1>2, <1>3, <1>4 DEF TypeOK, CallRecord

(* A retry calls with the request that was frozen. *)
LEMMA RetryAdds ==
  ASSUME TypeOK, IsFiniteSet(calls), RequestIsFrozen,
         NEW t \in Tabs, NEW w \in Workflows, Retry(t, w)
  PROVE  /\ frozen[w] \in Inputs
         /\ calls' \subseteq CallRecord /\ IsFiniteSet(calls')
         /\ \A d \in calls' : d \in calls \/ (d.wf = w /\ d.req = frozen[w])
<1>1. frozen[w] \in Inputs
  BY DEF Retry, TypeOK, RequestIsFrozen, Unsettled
<1> QED
  BY <1>1, CallAdds DEF Retry

(* No call is added, or changes its workflow or its request. *)
CallsKept ==
    /\ calls' \subseteq CallRecord /\ IsFiniteSet(calls')
    /\ \A d \in calls' : \E c \in calls : c.wf = d.wf /\ c.req = d.req

(* So it is when the backend has answered a call. *)
LEMMA CloseKeeps ==
  ASSUME TypeOK, IsFiniteSet(calls), NEW c \in calls, Close(c) PROVE CallsKept
<1> DEFINE new == [c EXCEPT !.open = FALSE]
<1>1. new \in CallRecord /\ new.wf = c.wf /\ new.req = c.req
  BY DEF TypeOK, CallRecord
<1>2. calls' = (calls \ {c}) \cup {new}
  BY DEF Close
<1> HIDE DEF new
<1>3. IsFiniteSet(calls')
  BY <1>2, FS_AddElement, FS_RemoveElement
<1> QED
  BY <1>1, <1>2, <1>3 DEF CallsKept, TypeOK, CallRecord

(* So it is when the backend dies and all its calls are closed. *)
LEMMA RestartKeeps ==
  ASSUME TypeOK, IsFiniteSet(calls), calls' = {[c EXCEPT !.open = FALSE] : c \in calls}
  PROVE  CallsKept
<1>1. \A d \in calls' : \E c \in calls : d = [c EXCEPT !.open = FALSE]
  OBVIOUS
<1>2. \A c \in calls : /\ [c EXCEPT !.open = FALSE] \in CallRecord
                       /\ [c EXCEPT !.open = FALSE].wf = c.wf
                       /\ [c EXCEPT !.open = FALSE].req = c.req
  BY DEF TypeOK, CallRecord
<1>3. IsFiniteSet(calls')
  <2> DEFINE f == [c \in calls |-> [c EXCEPT !.open = FALSE]]
  <2>1. f \in Surjection(calls, calls')
    BY DEF Surjection
  <2> QED
    BY <2>1, FS_Surjection DEF ExistsSurjection
<1>4. ASSUME NEW d \in calls'
      PROVE  d \in CallRecord /\ \E c \in calls : c.wf = d.wf /\ c.req = d.req
  <2>1. PICK c \in calls : d = [c EXCEPT !.open = FALSE]
    BY <1>1
  <2>2. d \in CallRecord /\ c.wf = d.wf /\ c.req = d.req
    BY <1>2, <2>1
  <2> QED
    BY <2>2
<1> QED
  BY <1>3, <1>4 DEF CallsKept

(* The initial state satisfies the invariant. *)
LEMMA InitIInv == Init => IInv
<1> SUFFICES ASSUME Init PROVE IInv
  OBVIOUS
<1> USE NoneAssumption DEF Init
<1>1. TypeOK /\ IsFiniteSet(calls)
  BY FS_EmptySet DEF TypeOK, States, Claimed
<1>2. HandlersFit /\ NotYetSubmitted /\ RequestIsFrozen /\ CalledIsReconciled
  BY DEF HandlersFit, NotYetSubmitted, RequestIsFrozen, CalledIsReconciled, Early, Unsettled
<1>3. RepliesAreTrue /\ ReceiptIsTrue /\ CapturedIsReconciled /\ ReplaysExactly
  BY DEF RepliesAreTrue, ReceiptIsTrue, CapturedIsReconciled, ReplaysExactly
<1>4. ClaimsFit /\ OneCallAtATime
  BY DEF ClaimsFit, OneCallAtATime, Claimed
<1> QED
  BY <1>1, <1>2, <1>3, <1>4 DEF IInv

----------------------------------------------------------------------------
(* Types, and only finitely many calls were made. *)
LEMMA TypeStep == IInv /\ [Next]_vars => (TypeOK /\ IsFiniteSet(calls))'
<1> SUFFICES ASSUME IInv, [Next]_vars PROVE (TypeOK /\ IsFiniteSet(calls))'
  OBVIOUS
<1> USE DEF IInv, row, handler, mishaps, TypeOK, States, Claimed, Failures,
        CallRecord, CallsKept, HandlersFit
<1>1. ASSUME NEW t \in Tabs, NEW w \in Workflows, Create(t, w)
      PROVE  (TypeOK /\ IsFiniteSet(calls))'
  BY <1>1 DEF Create, Begin
<1>2. ASSUME NEW t \in Tabs, NEW w \in Workflows, Render(t, w)
      PROVE  (TypeOK /\ IsFiniteSet(calls))'
  BY <1>2 DEF Render, Found, Current
<1>3. ASSUME NEW t \in Tabs, NEW w \in Workflows, Revise(t, w)
      PROVE  (TypeOK /\ IsFiniteSet(calls))'
  BY <1>3 DEF Revise, Found, Current, Update, Begin
<1>4. ASSUME NEW t \in Tabs, NEW w \in Workflows, Cancel(t, w)
      PROVE  (TypeOK /\ IsFiniteSet(calls))'
  BY <1>4 DEF Cancel, Found, Current, Update
<1>5. ASSUME NEW t \in Tabs, NEW w \in Workflows, Retry(t, w)
      PROVE  (TypeOK /\ IsFiniteSet(calls))'
  <2>1. calls' \subseteq CallRecord /\ IsFiniteSet(calls')
    BY <1>5, RetryAdds
  <2>2. UNCHANGED <<frozen, receipt, seen, drafts, ledger, rejected, mishaps>>
    BY <1>5 DEF Retry
  <2>3. Update(w, "submitting", "never") /\ Begin(t, w, "calling")
    BY <1>5 DEF Retry
  <2> QED
    BY <2>1, <2>2, <2>3 DEF Update, Begin
<1>6. ASSUME NEW t \in Tabs, NEW w \in Workflows, NEW i \in Inputs, Confirm(t, w, i)
      PROVE  (TypeOK /\ IsFiniteSet(calls))'
  BY <1>6, CallAdds DEF Confirm, Found, Current, Update, Begin
<1>7. ASSUME NEW t \in Tabs, BeginExtraction(t)
      PROVE  (TypeOK /\ IsFiniteSet(calls))'
  <2>1. at[t] \in Workflows /\ expiry[at[t]] \in {"never", "ahead", "passed"}
    BY <1>7 DEF BeginExtraction
  <2>2. /\ state' \in [Workflows -> States]
        /\ expiry' \in [Workflows -> {"never", "ahead", "passed"}]
        /\ version' \in [Workflows -> Nat]
    <3>1. CASE Found(at[t]) /\ state[at[t]] = "editing" /\ Current(t, at[t])
      <4>1. Update(at[t], "extracting", expiry[at[t]])
        BY <1>7, <3>1 DEF BeginExtraction
      <4> QED
        BY <2>1, <4>1, UpdateTypes
    <3>2. CASE ~(Found(at[t]) /\ state[at[t]] = "editing" /\ Current(t, at[t]))
      BY <1>7, <3>2 DEF BeginExtraction
    <3> QED
      BY <3>1, <3>2
  <2>3. /\ pc' \in [Tabs -> {"idle", "extract"} \cup Claimed]
        /\ at' \in [Tabs -> Workflows \cup {None}]
        /\ reply' \in [Tabs -> Inputs \cup Failures \cup {None}]
    BY <1>7 DEF BeginExtraction, Go, End
  <2> QED
    BY <1>7, <2>2, <2>3 DEF BeginExtraction
<1>8. ASSUME NEW t \in Tabs, TimesOut(t)
      PROVE  (TypeOK /\ IsFiniteSet(calls))'
  BY <1>8 DEF TimesOut
<1>9. ASSUME NEW t \in Tabs, RecordReceipt(t)
      PROVE  (TypeOK /\ IsFiniteSet(calls))'
  BY <1>9 DEF RecordReceipt, Recording, Update, End
<1>10. ASSUME NEW t \in Tabs, RecordFailure(t)
      PROVE  (TypeOK /\ IsFiniteSet(calls))'
  BY <1>10 DEF RecordFailure, Recording, Update, End, FailureState, Failures
<1>11. ASSUME NEW t \in Tabs, RecordRefused(t)
      PROVE  (TypeOK /\ IsFiniteSet(calls))'
  BY <1>11 DEF RecordRefused, Recording, End
<1>12. ASSUME NEW t \in Tabs, RecordRaises(t)
      PROVE  (TypeOK /\ IsFiniteSet(calls))'
  BY <1>12 DEF RecordRaises, Recording, Update, End
<1>13. ASSUME NEW t \in Tabs, StoreFails(t)
      PROVE  (TypeOK /\ IsFiniteSet(calls))'
  BY <1>13 DEF StoreFails, Recording, End
<1>14. ASSUME NEW t \in Tabs, NEW s \in {"reviewing", "editing"}, EndExtraction(t, s)
      PROVE  (TypeOK /\ IsFiniteSet(calls))'
  <2>1. at[t] \in Workflows /\ expiry[at[t]] \in {"never", "ahead", "passed"}
    BY <1>14 DEF EndExtraction
  <2>2. /\ state' \in [Workflows -> States]
        /\ expiry' \in [Workflows -> {"never", "ahead", "passed"}]
        /\ version' \in [Workflows -> Nat]
    <3>1. CASE state[at[t]] = "extracting"
      <4>1. Update(at[t], s, "ahead")
        BY <1>14, <3>1 DEF EndExtraction
      <4> QED
        BY <2>1, <4>1, UpdateTypes
    <3>2. CASE ~(state[at[t]] = "extracting")
      BY <1>14, <3>2 DEF EndExtraction
    <3> QED
      BY <3>1, <3>2
  <2>3. /\ pc' \in [Tabs -> {"idle", "extract"} \cup Claimed]
        /\ at' \in [Tabs -> Workflows \cup {None}]
        /\ reply' \in [Tabs -> Inputs \cup Failures \cup {None}]
    BY <1>14 DEF EndExtraction, End
  <2> QED
    BY <1>14, <2>2, <2>3 DEF EndExtraction
<1>15. ASSUME NEW c \in calls, Captures(c)
      PROVE  (TypeOK /\ IsFiniteSet(calls))'
  <2>1. CallsKept
    BY <1>15, CloseKeeps DEF Captures, Answered
  <2>2. c.req \in Inputs /\ c.tab \in Tabs /\ c.wf \in Workflows
    OBVIOUS
  <2>3. PICK r \in Inputs \cup Failures : Deliver(c, r)
    BY <1>15, <2>2 DEF Captures, Answered
  <2>4. pc' \in [Tabs -> {"idle", "extract"} \cup Claimed] /\ reply' \in [Tabs -> Inputs \cup Failures \cup {None}]
    BY <2>2, <2>3 DEF Deliver
  <2> QED
    BY <1>15, <2>1, <2>2, <2>3, <2>4 DEF Captures, Answered, Deliver
<1>16. ASSUME NEW c \in calls, Refuses(c)
      PROVE  (TypeOK /\ IsFiniteSet(calls))'
  <2>1. CallsKept
    BY <1>16, CloseKeeps DEF Refuses, Answered
  <2>2. c.req \in Inputs /\ c.tab \in Tabs /\ c.wf \in Workflows
    OBVIOUS
  <2>3. PICK r \in Inputs \cup Failures : Deliver(c, r)
    BY <1>16, <2>2 DEF Refuses, Answered
  <2>4. pc' \in [Tabs -> {"idle", "extract"} \cup Claimed] /\ reply' \in [Tabs -> Inputs \cup Failures \cup {None}]
    BY <2>2, <2>3 DEF Deliver
  <2> QED
    BY <1>16, <2>1, <2>2, <2>3, <2>4 DEF Refuses, Answered, Deliver
<1>17. ASSUME NEW c \in calls, Repeats(c)
      PROVE  (TypeOK /\ IsFiniteSet(calls))'
  <2>1. CallsKept
    BY <1>17, CloseKeeps DEF Repeats, Answered
  <2>2. c.req \in Inputs /\ c.tab \in Tabs /\ c.wf \in Workflows
    OBVIOUS
  <2>3. PICK r \in Inputs \cup Failures : Deliver(c, r)
    BY <1>17, <2>2 DEF Repeats, Answered
  <2>4. pc' \in [Tabs -> {"idle", "extract"} \cup Claimed] /\ reply' \in [Tabs -> Inputs \cup Failures \cup {None}]
    BY <2>2, <2>3 DEF Deliver
  <2> QED
    BY <1>17, <2>1, <2>2, <2>3, <2>4 DEF Repeats, Answered, Deliver
<1>18. ASSUME NEW w \in Workflows, Expires(w)
      PROVE  (TypeOK /\ IsFiniteSet(calls))'
  BY <1>18 DEF Expires
<1>19. CASE Cleanup
  BY <1>19 DEF Cleanup, Expired
<1>20. CASE Restart
  BY <1>20 DEF Restart, RecoverAbandoned
<1>21. CASE ServeTwice
  BY <1>21 DEF ServeTwice, RecoverAbandoned
<1>22. CASE BackendRestart
  BY <1>22, RestartKeeps DEF BackendRestart
<1>23. CASE UNCHANGED vars
  BY <1>23 DEF vars
<1> QED
  BY <1>1, <1>2, <1>3, <1>4, <1>5, <1>6, <1>7, <1>8, <1>9, <1>10, <1>11, <1>12, <1>13,
     <1>14, <1>15, <1>16, <1>17, <1>18, <1>19, <1>20, <1>21, <1>22, <1>23
     DEF Next, Post, Handle, Backend

(* A handler keeps its workflow until it ends. *)
LEMMA HandlersStep == IInv /\ [Next]_vars => HandlersFit'
<1> SUFFICES ASSUME IInv, [Next]_vars PROVE HandlersFit'
  OBVIOUS
<1> USE DEF IInv, row, handler, mishaps, TypeOK, Failures, Claimed, HandlersFit
<1>1. ASSUME NEW t \in Tabs, NEW w \in Workflows, Create(t, w)
      PROVE  HandlersFit'
  BY <1>1, NoneAssumption DEF Create, Begin
<1>2. ASSUME NEW t \in Tabs, NEW w \in Workflows, Render(t, w)
      PROVE  HandlersFit'
  BY <1>2, NoneAssumption DEF Render, Found, Current
<1>3. ASSUME NEW t \in Tabs, NEW w \in Workflows, Revise(t, w)
      PROVE  HandlersFit'
  BY <1>3, NoneAssumption DEF Revise, Found, Current, Update, Begin
<1>4. ASSUME NEW t \in Tabs, NEW w \in Workflows, Cancel(t, w)
      PROVE  HandlersFit'
  BY <1>4, NoneAssumption DEF Cancel, Found, Current, Update
<1>5. ASSUME NEW t \in Tabs, NEW w \in Workflows, Retry(t, w)
      PROVE  HandlersFit'
  BY <1>5, NoneAssumption DEF Retry, Found, Current, Update, Begin
<1>6. ASSUME NEW t \in Tabs, NEW w \in Workflows, NEW i \in Inputs, Confirm(t, w, i)
      PROVE  HandlersFit'
  BY <1>6, NoneAssumption DEF Confirm, Found, Current, Update, Begin
<1>7. ASSUME NEW t \in Tabs, BeginExtraction(t)
      PROVE  HandlersFit'
  BY <1>7, NoneAssumption DEF BeginExtraction, Found, Current, Update, Go, End
<1>8. ASSUME NEW t \in Tabs, TimesOut(t)
      PROVE  HandlersFit'
  BY <1>8, NoneAssumption DEF TimesOut
<1>9. ASSUME NEW t \in Tabs, RecordReceipt(t)
      PROVE  HandlersFit'
  BY <1>9, NoneAssumption DEF RecordReceipt, Recording, Update, End
<1>10. ASSUME NEW t \in Tabs, RecordFailure(t)
      PROVE  HandlersFit'
  BY <1>10, NoneAssumption DEF RecordFailure, Recording, Update, End, FailureState,
        Failures
<1>11. ASSUME NEW t \in Tabs, RecordRefused(t)
      PROVE  HandlersFit'
  BY <1>11, NoneAssumption DEF RecordRefused, Recording, End
<1>12. ASSUME NEW t \in Tabs, RecordRaises(t)
      PROVE  HandlersFit'
  BY <1>12, NoneAssumption DEF RecordRaises, Recording, Update, End
<1>13. ASSUME NEW t \in Tabs, StoreFails(t)
      PROVE  HandlersFit'
  BY <1>13, NoneAssumption DEF StoreFails, Recording, End
<1>14. ASSUME NEW t \in Tabs, NEW s \in {"reviewing", "editing"}, EndExtraction(t, s)
      PROVE  HandlersFit'
  BY <1>14, NoneAssumption DEF EndExtraction, Update, End
<1>15. ASSUME NEW c \in calls, Captures(c)
      PROVE  HandlersFit'
  BY <1>15, NoneAssumption DEF Captures, Answered, Deliver, Awaited
<1>16. ASSUME NEW c \in calls, Refuses(c)
      PROVE  HandlersFit'
  BY <1>16, NoneAssumption DEF Refuses, Answered, Deliver, Awaited
<1>17. ASSUME NEW c \in calls, Repeats(c)
      PROVE  HandlersFit'
  BY <1>17, NoneAssumption DEF Repeats, Answered, Deliver, Awaited
<1>18. ASSUME NEW w \in Workflows, Expires(w)
      PROVE  HandlersFit'
  BY <1>18, NoneAssumption DEF Expires
<1>19. CASE Cleanup
  BY <1>19, NoneAssumption DEF Cleanup, Expired
<1>20. CASE Restart
  BY <1>20, NoneAssumption DEF Restart, RecoverAbandoned
<1>21. CASE ServeTwice
  BY <1>21, NoneAssumption DEF ServeTwice, RecoverAbandoned
<1>22. CASE BackendRestart
  BY <1>22, NoneAssumption DEF BackendRestart
<1>23. CASE UNCHANGED vars
  BY <1>23 DEF vars
<1> QED
  BY <1>1, <1>2, <1>3, <1>4, <1>5, <1>6, <1>7, <1>8, <1>9, <1>10, <1>11, <1>12, <1>13,
     <1>14, <1>15, <1>16, <1>17, <1>18, <1>19, <1>20, <1>21, <1>22, <1>23
     DEF Next, Post, Handle, Backend

(* Nothing is called for a workflow before it is confirmed. *)
LEMMA EarlyStep == IInv /\ [Next]_vars => NotYetSubmitted'
<1> SUFFICES ASSUME IInv, [Next]_vars PROVE NotYetSubmitted'
  OBVIOUS
<1> USE DEF IInv, row, handler, mishaps, TypeOK, Early, CallsKept, CallRecord,
        Unsettled, NotYetSubmitted
<1>1. ASSUME NEW t \in Tabs, NEW w \in Workflows, Create(t, w)
      PROVE  NotYetSubmitted'
  BY <1>1 DEF Create, Begin
<1>2. ASSUME NEW t \in Tabs, NEW w \in Workflows, Render(t, w)
      PROVE  NotYetSubmitted'
  BY <1>2 DEF Render, Found, Current
<1>3. ASSUME NEW t \in Tabs, NEW w \in Workflows, Revise(t, w)
      PROVE  NotYetSubmitted'
  BY <1>3 DEF Revise, Found, Current, Update, Begin
<1>4. ASSUME NEW t \in Tabs, NEW w \in Workflows, Cancel(t, w)
      PROVE  NotYetSubmitted'
  BY <1>4 DEF Cancel, Found, Current, Update
<1>5. ASSUME NEW t \in Tabs, NEW w \in Workflows, Retry(t, w)
      PROVE  NotYetSubmitted'
  <2>1. \A d \in calls' : d \in calls \/ d.wf = w
    BY <1>5, RetryAdds
  <2>2. Update(w, "submitting", "never") /\ UNCHANGED ledger
    BY <1>5 DEF Retry
  <2> QED
    BY <2>1, <2>2 DEF Update
<1>6. ASSUME NEW t \in Tabs, NEW w \in Workflows, NEW i \in Inputs, Confirm(t, w, i)
      PROVE  NotYetSubmitted'
  BY <1>6, CallAdds DEF Confirm, Found, Current, Update, Begin
<1>7. ASSUME NEW t \in Tabs, BeginExtraction(t)
      PROVE  NotYetSubmitted'
  BY <1>7 DEF BeginExtraction, Found, Current, Update, Go, End
<1>8. ASSUME NEW t \in Tabs, TimesOut(t)
      PROVE  NotYetSubmitted'
  BY <1>8 DEF TimesOut
<1>9. ASSUME NEW t \in Tabs, RecordReceipt(t)
      PROVE  NotYetSubmitted'
  BY <1>9 DEF RecordReceipt, Recording, Update, End
<1>10. ASSUME NEW t \in Tabs, RecordFailure(t)
      PROVE  NotYetSubmitted'
  BY <1>10 DEF RecordFailure, Recording, Update, End, FailureState, Failures
<1>11. ASSUME NEW t \in Tabs, RecordRefused(t)
      PROVE  NotYetSubmitted'
  BY <1>11 DEF RecordRefused, Recording, End
<1>12. ASSUME NEW t \in Tabs, RecordRaises(t)
      PROVE  NotYetSubmitted'
  BY <1>12 DEF RecordRaises, Recording, Update, End
<1>13. ASSUME NEW t \in Tabs, StoreFails(t)
      PROVE  NotYetSubmitted'
  BY <1>13 DEF StoreFails, Recording, End
<1>14. ASSUME NEW t \in Tabs, NEW s \in {"reviewing", "editing"}, EndExtraction(t, s)
      PROVE  NotYetSubmitted'
  BY <1>14 DEF EndExtraction, Update, End
<1>15. ASSUME NEW c \in calls, Captures(c)
      PROVE  NotYetSubmitted'
  BY <1>15, CloseKeeps DEF Captures, Answered, Deliver, Awaited
<1>16. ASSUME NEW c \in calls, Refuses(c)
      PROVE  NotYetSubmitted'
  BY <1>16, CloseKeeps DEF Refuses, Answered, Deliver, Awaited
<1>17. ASSUME NEW c \in calls, Repeats(c)
      PROVE  NotYetSubmitted'
  BY <1>17, CloseKeeps DEF Repeats, Answered, Deliver, Awaited
<1>18. ASSUME NEW w \in Workflows, Expires(w)
      PROVE  NotYetSubmitted'
  BY <1>18 DEF Expires
<1>19. CASE Cleanup
  BY <1>19 DEF Cleanup, Expired
<1>20. CASE Restart
  BY <1>20 DEF Restart, RecoverAbandoned
<1>21. CASE ServeTwice
  BY <1>21 DEF ServeTwice, RecoverAbandoned
<1>22. CASE BackendRestart
  BY <1>22, RestartKeeps DEF BackendRestart
<1>23. CASE UNCHANGED vars
  BY <1>23 DEF vars
<1> QED
  BY <1>1, <1>2, <1>3, <1>4, <1>5, <1>6, <1>7, <1>8, <1>9, <1>10, <1>11, <1>12, <1>13,
     <1>14, <1>15, <1>16, <1>17, <1>18, <1>19, <1>20, <1>21, <1>22, <1>23
     DEF Next, Post, Handle, Backend

(* A request is frozen once, and every call and capture is of it. *)
LEMMA FrozenStep == IInv /\ [Next]_vars => (RequestIsFrozen /\ ReplaysExactly)'
<1> SUFFICES ASSUME IInv, [Next]_vars PROVE (RequestIsFrozen /\ ReplaysExactly)'
  OBVIOUS
<1> USE DEF IInv, row, handler, mishaps, TypeOK, Early, CallsKept, CallRecord,
        Unsettled, NotYetSubmitted, RequestIsFrozen, ReplaysExactly, HandlersFit
<1>1. ASSUME NEW t \in Tabs, NEW w \in Workflows, Create(t, w)
      PROVE  (RequestIsFrozen /\ ReplaysExactly)'
  BY <1>1, NoneAssumption DEF Create, Begin
<1>2. ASSUME NEW t \in Tabs, NEW w \in Workflows, Render(t, w)
      PROVE  (RequestIsFrozen /\ ReplaysExactly)'
  BY <1>2, NoneAssumption DEF Render, Found, Current
<1>3. ASSUME NEW t \in Tabs, NEW w \in Workflows, Revise(t, w)
      PROVE  (RequestIsFrozen /\ ReplaysExactly)'
  BY <1>3, NoneAssumption DEF Revise, Found, Current, Update, Begin
<1>4. ASSUME NEW t \in Tabs, NEW w \in Workflows, Cancel(t, w)
      PROVE  (RequestIsFrozen /\ ReplaysExactly)'
  BY <1>4, NoneAssumption DEF Cancel, Found, Current, Update
<1>5. ASSUME NEW t \in Tabs, NEW w \in Workflows, Retry(t, w)
      PROVE  (RequestIsFrozen /\ ReplaysExactly)'
  <2>1. frozen[w] \in Inputs /\ \A d \in calls' : d \in calls \/ (d.wf = w /\ d.req = frozen[w])
    BY <1>5, RetryAdds DEF RequestIsFrozen
  <2>2. UNCHANGED <<frozen, ledger>> /\ Update(w, "submitting", "never")
    BY <1>5 DEF Retry
  <2> QED
    BY <2>1, <2>2, NoneAssumption DEF Update
<1>6. ASSUME NEW t \in Tabs, NEW w \in Workflows, NEW i \in Inputs, Confirm(t, w, i)
      PROVE  (RequestIsFrozen /\ ReplaysExactly)'
  BY <1>6, CallAdds, NoneAssumption DEF Confirm, Found, Current, Update, Begin
<1>7. ASSUME NEW t \in Tabs, BeginExtraction(t)
      PROVE  (RequestIsFrozen /\ ReplaysExactly)'
  BY <1>7, NoneAssumption DEF BeginExtraction, Found, Current, Update, Go, End
<1>8. ASSUME NEW t \in Tabs, TimesOut(t)
      PROVE  (RequestIsFrozen /\ ReplaysExactly)'
  BY <1>8, NoneAssumption DEF TimesOut
<1>9. ASSUME NEW t \in Tabs, RecordReceipt(t)
      PROVE  (RequestIsFrozen /\ ReplaysExactly)'
  BY <1>9, NoneAssumption DEF RecordReceipt, Recording, Update, End
<1>10. ASSUME NEW t \in Tabs, RecordFailure(t)
      PROVE  (RequestIsFrozen /\ ReplaysExactly)'
  BY <1>10, NoneAssumption DEF RecordFailure, Recording, Update, End, FailureState,
        Failures
<1>11. ASSUME NEW t \in Tabs, RecordRefused(t)
      PROVE  (RequestIsFrozen /\ ReplaysExactly)'
  BY <1>11, NoneAssumption DEF RecordRefused, Recording, End
<1>12. ASSUME NEW t \in Tabs, RecordRaises(t)
      PROVE  (RequestIsFrozen /\ ReplaysExactly)'
  BY <1>12, NoneAssumption DEF RecordRaises, Recording, Update, End
<1>13. ASSUME NEW t \in Tabs, StoreFails(t)
      PROVE  (RequestIsFrozen /\ ReplaysExactly)'
  BY <1>13, NoneAssumption DEF StoreFails, Recording, End
<1>14. ASSUME NEW t \in Tabs, NEW s \in {"reviewing", "editing"}, EndExtraction(t, s)
      PROVE  (RequestIsFrozen /\ ReplaysExactly)'
  BY <1>14, NoneAssumption DEF EndExtraction, Update, End
<1>15. ASSUME NEW c \in calls, Captures(c)
      PROVE  (RequestIsFrozen /\ ReplaysExactly)'
  BY <1>15, CloseKeeps, NoneAssumption DEF Captures, Answered, Deliver, Awaited
<1>16. ASSUME NEW c \in calls, Refuses(c)
      PROVE  (RequestIsFrozen /\ ReplaysExactly)'
  BY <1>16, CloseKeeps, NoneAssumption DEF Refuses, Answered, Deliver, Awaited
<1>17. ASSUME NEW c \in calls, Repeats(c)
      PROVE  (RequestIsFrozen /\ ReplaysExactly)'
  BY <1>17, CloseKeeps, NoneAssumption DEF Repeats, Answered, Deliver, Awaited
<1>18. ASSUME NEW w \in Workflows, Expires(w)
      PROVE  (RequestIsFrozen /\ ReplaysExactly)'
  BY <1>18, NoneAssumption DEF Expires
<1>19. CASE Cleanup
  BY <1>19, NoneAssumption DEF Cleanup, Expired
<1>20. CASE Restart
  BY <1>20, NoneAssumption DEF Restart, RecoverAbandoned
<1>21. CASE ServeTwice
  BY <1>21, NoneAssumption DEF ServeTwice, RecoverAbandoned
<1>22. CASE BackendRestart
  <2>1. CallsKept
    BY <1>22, RestartKeeps DEF BackendRestart
  <2> QED
    BY <1>22, <2>1 DEF BackendRestart
<1>23. CASE UNCHANGED vars
  BY <1>23 DEF vars
<1> QED
  BY <1>1, <1>2, <1>3, <1>4, <1>5, <1>6, <1>7, <1>8, <1>9, <1>10, <1>11, <1>12, <1>13,
     <1>14, <1>15, <1>16, <1>17, <1>18, <1>19, <1>20, <1>21, <1>22, <1>23
     DEF Next, Post, Handle, Backend

(* What is answered is captured, and a receipt is an answer. *)
LEMMA TruthStep == IInv /\ [Next]_vars => (RepliesAreTrue /\ ReceiptIsTrue)'
<1> SUFFICES ASSUME IInv, [Next]_vars PROVE (RepliesAreTrue /\ ReceiptIsTrue)'
  OBVIOUS
<1> USE DEF IInv, row, handler, mishaps, TypeOK, CallsKept, CallRecord,
        RepliesAreTrue, ReceiptIsTrue, HandlersFit, Failures
<1>1. ASSUME NEW t \in Tabs, NEW w \in Workflows, Create(t, w)
      PROVE  (RepliesAreTrue /\ ReceiptIsTrue)'
  BY <1>1, NoneAssumption, InputsAssumption DEF Create, Begin
<1>2. ASSUME NEW t \in Tabs, NEW w \in Workflows, Render(t, w)
      PROVE  (RepliesAreTrue /\ ReceiptIsTrue)'
  BY <1>2, NoneAssumption, InputsAssumption DEF Render, Found, Current
<1>3. ASSUME NEW t \in Tabs, NEW w \in Workflows, Revise(t, w)
      PROVE  (RepliesAreTrue /\ ReceiptIsTrue)'
  BY <1>3, NoneAssumption, InputsAssumption DEF Revise, Found, Current, Update, Begin
<1>4. ASSUME NEW t \in Tabs, NEW w \in Workflows, Cancel(t, w)
      PROVE  (RepliesAreTrue /\ ReceiptIsTrue)'
  BY <1>4, NoneAssumption, InputsAssumption DEF Cancel, Found, Current, Update
<1>5. ASSUME NEW t \in Tabs, NEW w \in Workflows, Retry(t, w)
      PROVE  (RepliesAreTrue /\ ReceiptIsTrue)'
  BY <1>5, NoneAssumption, InputsAssumption DEF Retry, Found, Current, Update, Begin
<1>6. ASSUME NEW t \in Tabs, NEW w \in Workflows, NEW i \in Inputs, Confirm(t, w, i)
      PROVE  (RepliesAreTrue /\ ReceiptIsTrue)'
  BY <1>6, NoneAssumption, InputsAssumption DEF Confirm, Found, Current, Update, Begin
<1>7. ASSUME NEW t \in Tabs, BeginExtraction(t)
      PROVE  (RepliesAreTrue /\ ReceiptIsTrue)'
  BY <1>7, NoneAssumption, InputsAssumption DEF BeginExtraction, Found, Current,
        Update, Go, End
<1>8. ASSUME NEW t \in Tabs, TimesOut(t)
      PROVE  (RepliesAreTrue /\ ReceiptIsTrue)'
  BY <1>8, NoneAssumption, InputsAssumption DEF TimesOut
<1>9. ASSUME NEW t \in Tabs, RecordReceipt(t)
      PROVE  (RepliesAreTrue /\ ReceiptIsTrue)'
  BY <1>9, NoneAssumption, InputsAssumption DEF RecordReceipt, Recording, Update, End
<1>10. ASSUME NEW t \in Tabs, RecordFailure(t)
      PROVE  (RepliesAreTrue /\ ReceiptIsTrue)'
  BY <1>10, NoneAssumption, InputsAssumption DEF RecordFailure, Recording, Update,
        End, FailureState, Failures
<1>11. ASSUME NEW t \in Tabs, RecordRefused(t)
      PROVE  (RepliesAreTrue /\ ReceiptIsTrue)'
  BY <1>11, NoneAssumption, InputsAssumption DEF RecordRefused, Recording, End
<1>12. ASSUME NEW t \in Tabs, RecordRaises(t)
      PROVE  (RepliesAreTrue /\ ReceiptIsTrue)'
  BY <1>12, NoneAssumption, InputsAssumption DEF RecordRaises, Recording, Update, End
<1>13. ASSUME NEW t \in Tabs, StoreFails(t)
      PROVE  (RepliesAreTrue /\ ReceiptIsTrue)'
  BY <1>13, NoneAssumption, InputsAssumption DEF StoreFails, Recording, End
<1>14. ASSUME NEW t \in Tabs, NEW s \in {"reviewing", "editing"}, EndExtraction(t, s)
      PROVE  (RepliesAreTrue /\ ReceiptIsTrue)'
  BY <1>14, NoneAssumption, InputsAssumption DEF EndExtraction, Update, End
<1>15. ASSUME NEW c \in calls, Captures(c)
      PROVE  (RepliesAreTrue /\ ReceiptIsTrue)'
  <2>1. PICK r \in {c.req, "unverified"} : Deliver(c, r)
    BY <1>15 DEF Captures, Answered
  <2>2. /\ ledger[c.wf] = None /\ c.wf \in Workflows /\ c.req \in Inputs
        /\ ledger' = [ledger EXCEPT ![c.wf] = c.req] /\ UNCHANGED <<at, state, receipt>>
    BY <1>15, <2>1 DEF Captures, Answered, Deliver
  <2>3. \A t \in Tabs : reply'[t] \in Inputs => reply'[t] = reply[t] \/ (reply'[t] = c.req /\ at[t] = c.wf)
    BY <2>1, InputsAssumption DEF Deliver, Awaited
  <2>4. RepliesAreTrue'
    BY <2>2, <2>3, NoneAssumption
  <2>5. ReceiptIsTrue'
    BY <2>2
  <2> QED
    BY <2>4, <2>5
<1>16. ASSUME NEW c \in calls, Refuses(c)
      PROVE  (RepliesAreTrue /\ ReceiptIsTrue)'
  <2>1. PICK r \in Failures : Deliver(c, r)
    BY <1>16 DEF Refuses, Answered
  <2>2. r \notin Inputs
    BY InputsAssumption
  <2>3. UNCHANGED <<ledger, at, state, receipt>>
    BY <1>16, <2>1 DEF Refuses, Answered, Deliver
  <2>4. \A t \in Tabs : reply'[t] = reply[t] \/ reply'[t] = r
    BY <2>1 DEF Deliver
  <2> QED
    BY <2>2, <2>3, <2>4
<1>17. ASSUME NEW c \in calls, Repeats(c)
      PROVE  (RepliesAreTrue /\ ReceiptIsTrue)'
  <2>1. PICK r \in {c.req} \cup Failures : Deliver(c, r)
    BY <1>17 DEF Repeats, Answered
  <2>2. ledger[c.wf] = c.req /\ UNCHANGED <<ledger, at, state, receipt>>
    BY <1>17, <2>1 DEF Repeats, Answered, Deliver
  <2>3. \A t \in Tabs : reply'[t] \in Inputs => reply'[t] = reply[t] \/ (reply'[t] = c.req /\ at[t] = c.wf)
    BY <2>1, InputsAssumption DEF Deliver, Awaited
  <2> QED
    BY <2>2, <2>3
<1>18. ASSUME NEW w \in Workflows, Expires(w)
      PROVE  (RepliesAreTrue /\ ReceiptIsTrue)'
  BY <1>18, NoneAssumption, InputsAssumption DEF Expires
<1>19. CASE Cleanup
  BY <1>19, NoneAssumption, InputsAssumption DEF Cleanup, Expired
<1>20. CASE Restart
  BY <1>20, NoneAssumption, InputsAssumption DEF Restart, RecoverAbandoned
<1>21. CASE ServeTwice
  BY <1>21, NoneAssumption, InputsAssumption DEF ServeTwice, RecoverAbandoned
<1>22. CASE BackendRestart
  BY <1>22, NoneAssumption, InputsAssumption DEF BackendRestart
<1>23. CASE UNCHANGED vars
  BY <1>23 DEF vars
<1> QED
  BY <1>1, <1>2, <1>3, <1>4, <1>5, <1>6, <1>7, <1>8, <1>9, <1>10, <1>11, <1>12, <1>13,
     <1>14, <1>15, <1>16, <1>17, <1>18, <1>19, <1>20, <1>21, <1>22, <1>23
     DEF Next, Post, Handle, Backend

(* What was called or captured stays open to retry until it is settled. *)
LEMMA ReconcileStep == IInv /\ [Next]_vars => (CalledIsReconciled /\ CapturedIsReconciled)'
<1> SUFFICES ASSUME IInv, [Next]_vars PROVE (CalledIsReconciled /\ CapturedIsReconciled)'
  OBVIOUS
<1> USE DEF IInv, row, handler, mishaps, TypeOK, CallsKept, CallRecord, Unsettled,
        Early, NotYetSubmitted, CalledIsReconciled, CapturedIsReconciled,
        RequestIsFrozen, HandlersFit, Removable
<1>1. ASSUME NEW t \in Tabs, NEW w \in Workflows, Create(t, w)
      PROVE  (CalledIsReconciled /\ CapturedIsReconciled)'
  BY <1>1, NoneAssumption DEF Create, Begin
<1>2. ASSUME NEW t \in Tabs, NEW w \in Workflows, Render(t, w)
      PROVE  (CalledIsReconciled /\ CapturedIsReconciled)'
  BY <1>2, NoneAssumption DEF Render, Found, Current
<1>3. ASSUME NEW t \in Tabs, NEW w \in Workflows, Revise(t, w)
      PROVE  (CalledIsReconciled /\ CapturedIsReconciled)'
  BY <1>3, NoneAssumption DEF Revise, Found, Current, Update, Begin
<1>4. ASSUME NEW t \in Tabs, NEW w \in Workflows, Cancel(t, w)
      PROVE  (CalledIsReconciled /\ CapturedIsReconciled)'
  BY <1>4, NoneAssumption DEF Cancel, Found, Current, Update
<1>5. ASSUME NEW t \in Tabs, NEW w \in Workflows, Retry(t, w)
      PROVE  (CalledIsReconciled /\ CapturedIsReconciled)'
  <2>1. \A d \in calls' : d \in calls \/ d.wf = w
    BY <1>5, RetryAdds
  <2>2. UNCHANGED <<ledger, receipt, rejected>> /\ Update(w, "submitting", "never")
    BY <1>5 DEF Retry
  <2> QED
    BY <2>1, <2>2 DEF Update
<1>6. ASSUME NEW t \in Tabs, NEW w \in Workflows, NEW i \in Inputs, Confirm(t, w, i)
      PROVE  (CalledIsReconciled /\ CapturedIsReconciled)'
  BY <1>6, CallAdds, NoneAssumption DEF Confirm, Found, Current, Update, Begin
<1>7. ASSUME NEW t \in Tabs, BeginExtraction(t)
      PROVE  (CalledIsReconciled /\ CapturedIsReconciled)'
  BY <1>7, NoneAssumption DEF BeginExtraction, Found, Current, Update, Go, End
<1>8. ASSUME NEW t \in Tabs, TimesOut(t)
      PROVE  (CalledIsReconciled /\ CapturedIsReconciled)'
  BY <1>8, NoneAssumption DEF TimesOut
<1>9. ASSUME NEW t \in Tabs, RecordReceipt(t)
      PROVE  (CalledIsReconciled /\ CapturedIsReconciled)'
  BY <1>9, NoneAssumption DEF RecordReceipt, Recording, Update, End
<1>10. ASSUME NEW t \in Tabs, RecordFailure(t)
      PROVE  (CalledIsReconciled /\ CapturedIsReconciled)'
  BY <1>10, NoneAssumption DEF RecordFailure, Recording, Update, End, FailureState,
        Failures
<1>11. ASSUME NEW t \in Tabs, RecordRefused(t)
      PROVE  (CalledIsReconciled /\ CapturedIsReconciled)'
  BY <1>11, NoneAssumption DEF RecordRefused, Recording, End
<1>12. ASSUME NEW t \in Tabs, RecordRaises(t)
      PROVE  (CalledIsReconciled /\ CapturedIsReconciled)'
  BY <1>12, NoneAssumption DEF RecordRaises, Recording, Update, End
<1>13. ASSUME NEW t \in Tabs, StoreFails(t)
      PROVE  (CalledIsReconciled /\ CapturedIsReconciled)'
  BY <1>13, NoneAssumption DEF StoreFails, Recording, End
<1>14. ASSUME NEW t \in Tabs, NEW s \in {"reviewing", "editing"}, EndExtraction(t, s)
      PROVE  (CalledIsReconciled /\ CapturedIsReconciled)'
  BY <1>14, NoneAssumption DEF EndExtraction, Update, End
<1>15. ASSUME NEW c \in calls, Captures(c)
      PROVE  (CalledIsReconciled /\ CapturedIsReconciled)'
  BY <1>15, CloseKeeps, NoneAssumption DEF Captures, Answered, Deliver, Awaited
<1>16. ASSUME NEW c \in calls, Refuses(c)
      PROVE  (CalledIsReconciled /\ CapturedIsReconciled)'
  BY <1>16, CloseKeeps, NoneAssumption DEF Refuses, Answered, Deliver, Awaited
<1>17. ASSUME NEW c \in calls, Repeats(c)
      PROVE  (CalledIsReconciled /\ CapturedIsReconciled)'
  BY <1>17, CloseKeeps, NoneAssumption DEF Repeats, Answered, Deliver, Awaited
<1>18. ASSUME NEW w \in Workflows, Expires(w)
      PROVE  (CalledIsReconciled /\ CapturedIsReconciled)'
  BY <1>18, NoneAssumption DEF Expires
<1>19. CASE Cleanup
  BY <1>19, NoneAssumption DEF Cleanup, Expired
<1>20. CASE Restart
  BY <1>20, NoneAssumption DEF Restart, RecoverAbandoned
<1>21. CASE ServeTwice
  BY <1>21, NoneAssumption DEF ServeTwice, RecoverAbandoned
<1>22. CASE BackendRestart
  <2>1. CallsKept
    BY <1>22, RestartKeeps DEF BackendRestart
  <2> QED
    BY <1>22, <2>1 DEF BackendRestart
<1>23. CASE UNCHANGED vars
  BY <1>23 DEF vars
<1> QED
  BY <1>1, <1>2, <1>3, <1>4, <1>5, <1>6, <1>7, <1>8, <1>9, <1>10, <1>11, <1>12, <1>13,
     <1>14, <1>15, <1>16, <1>17, <1>18, <1>19, <1>20, <1>21, <1>22, <1>23
     DEF Next, Post, Handle, Backend

(* A workflow is claimed by one handler, and the row says so. *)
LEMMA ClaimStep == IInv /\ [Next]_vars => (ClaimsFit /\ OneCallAtATime)'
<1> SUFFICES ASSUME IInv, [Next]_vars PROVE (ClaimsFit /\ OneCallAtATime)'
  OBVIOUS
<1> USE DEF IInv, row, handler, mishaps, TypeOK, Claimed, Removable, ClaimsFit,
        OneCallAtATime, HandlersFit
<1>1. ASSUME NEW t \in Tabs, NEW w \in Workflows, Create(t, w)
      PROVE  (ClaimsFit /\ OneCallAtATime)'
  BY <1>1, NoneAssumption DEF Create, Begin
<1>2. ASSUME NEW t \in Tabs, NEW w \in Workflows, Render(t, w)
      PROVE  (ClaimsFit /\ OneCallAtATime)'
  BY <1>2, NoneAssumption DEF Render, Found, Current
<1>3. ASSUME NEW t \in Tabs, NEW w \in Workflows, Revise(t, w)
      PROVE  (ClaimsFit /\ OneCallAtATime)'
  BY <1>3, NoneAssumption DEF Revise, Found, Current, Update, Begin
<1>4. ASSUME NEW t \in Tabs, NEW w \in Workflows, Cancel(t, w)
      PROVE  (ClaimsFit /\ OneCallAtATime)'
  BY <1>4, NoneAssumption DEF Cancel, Found, Current, Update
<1>5. ASSUME NEW t \in Tabs, NEW w \in Workflows, Retry(t, w)
      PROVE  (ClaimsFit /\ OneCallAtATime)'
  BY <1>5, NoneAssumption DEF Retry, Found, Current, Update, Begin
<1>6. ASSUME NEW t \in Tabs, NEW w \in Workflows, NEW i \in Inputs, Confirm(t, w, i)
      PROVE  (ClaimsFit /\ OneCallAtATime)'
  BY <1>6, NoneAssumption DEF Confirm, Found, Current, Update, Begin
<1>7. ASSUME NEW t \in Tabs, BeginExtraction(t)
      PROVE  (ClaimsFit /\ OneCallAtATime)'
  <2>1. CASE Found(at[t]) /\ state[at[t]] = "editing" /\ Current(t, at[t])
    <3>1. Update(at[t], "extracting", expiry[at[t]]) /\ Go(t, "extracting")
      BY <1>7, <2>1 DEF BeginExtraction
    <3>2. at[t] \in Workflows /\ UNCHANGED <<twice, stranded>>
      BY <1>7 DEF BeginExtraction
    <3>3. ClaimsFit'
      BY <2>1, <3>1, <3>2 DEF Update, Go
    <3>4. OneCallAtATime'
      BY <2>1, <3>1, <3>2 DEF Update, Go
    <3> QED
      BY <3>3, <3>4
  <2>2. CASE ~(Found(at[t]) /\ state[at[t]] = "editing" /\ Current(t, at[t]))
    <3>1. UNCHANGED <<state, twice, stranded>> /\ End(t) /\ pc[t] = "extract"
      BY <1>7, <2>2 DEF BeginExtraction
    <3> QED
      BY <3>1 DEF End
  <2> QED
    BY <2>1, <2>2
<1>8. ASSUME NEW t \in Tabs, TimesOut(t)
      PROVE  (ClaimsFit /\ OneCallAtATime)'
  BY <1>8, NoneAssumption DEF TimesOut
<1>9. ASSUME NEW t \in Tabs, RecordReceipt(t)
      PROVE  (ClaimsFit /\ OneCallAtATime)'
  BY <1>9, NoneAssumption DEF RecordReceipt, Recording, Update, End
<1>10. ASSUME NEW t \in Tabs, RecordFailure(t)
      PROVE  (ClaimsFit /\ OneCallAtATime)'
  BY <1>10, NoneAssumption DEF RecordFailure, Recording, Update, End, FailureState,
        Failures
<1>11. ASSUME NEW t \in Tabs, RecordRefused(t)
      PROVE  (ClaimsFit /\ OneCallAtATime)'
  BY <1>11, NoneAssumption DEF RecordRefused, Recording, End
<1>12. ASSUME NEW t \in Tabs, RecordRaises(t)
      PROVE  (ClaimsFit /\ OneCallAtATime)'
  BY <1>12, NoneAssumption DEF RecordRaises, Recording, Update, End
<1>13. ASSUME NEW t \in Tabs, StoreFails(t)
      PROVE  (ClaimsFit /\ OneCallAtATime)'
  BY <1>13, NoneAssumption DEF StoreFails, Recording, End
<1>14. ASSUME NEW t \in Tabs, NEW s \in {"reviewing", "editing"}, EndExtraction(t, s)
      PROVE  (ClaimsFit /\ OneCallAtATime)'
  BY <1>14, NoneAssumption DEF EndExtraction, Update, End
<1>15. ASSUME NEW c \in calls, Captures(c)
      PROVE  (ClaimsFit /\ OneCallAtATime)'
  BY <1>15, NoneAssumption DEF Captures, Answered, Deliver, Awaited
<1>16. ASSUME NEW c \in calls, Refuses(c)
      PROVE  (ClaimsFit /\ OneCallAtATime)'
  BY <1>16, NoneAssumption DEF Refuses, Answered, Deliver, Awaited
<1>17. ASSUME NEW c \in calls, Repeats(c)
      PROVE  (ClaimsFit /\ OneCallAtATime)'
  <2>1. PICK r : Deliver(c, r)
    BY <1>17 DEF Repeats, Answered
  <2>2. UNCHANGED <<at, state, twice, stranded>>
    BY <1>17, <2>1 DEF Repeats, Answered, Deliver
  <2>3. \A t \in Tabs : pc'[t] = pc[t] \/ (pc[t] = "calling" /\ pc'[t] = "record")
    BY <2>1 DEF Deliver, Awaited
  <2> QED
    BY <2>2, <2>3
<1>18. ASSUME NEW w \in Workflows, Expires(w)
      PROVE  (ClaimsFit /\ OneCallAtATime)'
  BY <1>18, NoneAssumption DEF Expires
<1>19. CASE Cleanup
  BY <1>19, NoneAssumption DEF Cleanup, Expired
<1>20. CASE Restart
  BY <1>20, NoneAssumption DEF Restart, RecoverAbandoned
<1>21. CASE ServeTwice
  BY <1>21, NoneAssumption DEF ServeTwice, RecoverAbandoned
<1>22. CASE BackendRestart
  BY <1>22, NoneAssumption DEF BackendRestart
<1>23. CASE UNCHANGED vars
  BY <1>23 DEF vars
<1> QED
  BY <1>1, <1>2, <1>3, <1>4, <1>5, <1>6, <1>7, <1>8, <1>9, <1>10, <1>11, <1>12, <1>13,
     <1>14, <1>15, <1>16, <1>17, <1>18, <1>19, <1>20, <1>21, <1>22, <1>23
     DEF Next, Post, Handle, Backend

----------------------------------------------------------------------------
(* The invariant holds throughout, and the results that follow from it. *)
LEMMA IInvariant == Spec => []IInv
<1>1. IInv /\ [Next]_vars => IInv'
  BY TypeStep, HandlersStep, EarlyStep, FrozenStep, TruthStep, ReconcileStep, ClaimStep DEF IInv
<1> QED
  BY InitIInv, <1>1, PTL DEF Spec

(* Every variable keeps its type: no handler records an outcome for a row   *)
(* that is not there, or calls with nothing frozen.                         *)
THEOREM TypeCorrect == Spec => []TypeOK
<1>1. IInv => TypeOK
  BY DEF IInv
<1> QED
  BY IInvariant, <1>1, PTL

(* freeze_and_begin_submission and begin_retry: every call a workflow makes *)
(* and whatever the ledger holds under its key is the one request it froze. *)
THEOREM ReplayIsExact == Spec => []ReplaysExactly
<1>1. IInv => ReplaysExactly
  BY DEF IInv
<1> QED
  BY IInvariant, <1>1, PTL

(* Two handlers never work for one workflow, whatever tabs post when and    *)
(* however the console is restarted, unless a second server was started.    *)
THEOREM ClaimsAreExclusive == Spec => []OneCallAtATime
<1>1. IInv => OneCallAtATime
  BY DEF IInv
<1> QED
  BY IInvariant, <1>1, PTL

(* record_capture_response: a receipt is only stored for what is captured.  *)
THEOREM ReceiptsAreTrue == Spec => []ReceiptIsTrue
<1>1. IInv => ReceiptIsTrue
  BY DEF IInv
<1> QED
  BY IInvariant, <1>1, PTL

(* cleanup_expired never removes a workflow whose capture is not settled.   *)
THEOREM CapturesAreReconciled == Spec => []CapturedIsReconciled
<1>1. IInv => CapturedIsReconciled
  BY DEF IInv
<1> QED
  BY IInvariant, <1>1, PTL

(* A workflow that was cancelled is never captured, whatever other tabs had *)
(* open: nothing is called for it and nothing was.                          *)
THEOREM CancellationHolds == Spec => []CancelledIsNeverCaptured
<1>1. IInv => CancelledIsNeverCaptured
  BY DEF IInv, NotYetSubmitted, Early, CancelledIsNeverCaptured, CallsOf
<1> QED
  BY IInvariant, <1>1, PTL

----------------------------------------------------------------------------
(* What the console and the backend keep for a workflow, read as the state *)
(* of the atomic ledger.  A workflow stands for its key and the prediction *)
(* under it, an answer is a receipt the console has stored, and windows,   *)
(* which the backend decides on, are empty.                                *)

Nothing    == [req |-> None, pid |-> None]
Bound(w)   == IF ledger[w] = None THEN Nothing ELSE [req |-> ledger[w], pid |-> w]
Captured   == {w \in Workflows : ledger[w] # None}
Shown      == {[key |-> w, req |-> receipt[w], pid |-> w] : w \in {v \in Workflows : receipt[v] # None}}

A == INSTANCE AtomicLedger WITH
    Keys <- Workflows, Reqs <- Inputs, Uuids <- Workflows, DraftIds <- {}, Cells <- {},
    CellsOf <- [r \in Inputs |-> {}], None <- Nothing,
    predictions <- Captured, captureRequests <- [w \in Workflows |-> Bound(w)],
    touchedWindows <- {}, receipts <- Shown

(* Whoever changes neither the ledger nor a receipt is not seen. *)
LEMMA NotSeen == UNCHANGED <<ledger, receipt>> => UNCHANGED A!avars
BY DEF A!avars, Bound, Captured, Shown

(* The backend binds the key of a workflow once. *)
LEMMA CaptureRegisters ==
  ASSUME IInv, NEW c \in calls, Captures(c)
  PROVE  A!Register(c.wf, c.req, c.wf) /\ c.wf \in Workflows /\ c.req \in Inputs
<1>1. c.wf \in Workflows /\ c.req \in Inputs /\ c.req # None
  BY NoneAssumption DEF IInv, TypeOK
<1>2. /\ ledger \in [Workflows -> Inputs \cup {None}] /\ ledger[c.wf] = None
      /\ ledger' = [ledger EXCEPT ![c.wf] = c.req]
      /\ UNCHANGED receipt
  BY DEF IInv, TypeOK, Captures, Answered, row
<1>3. Captured' = Captured \cup {c.wf} /\ c.wf \notin Captured
  BY <1>1, <1>2 DEF Captured
<1>4. [w \in Workflows |-> Bound(w)]'
        = [[w \in Workflows |-> Bound(w)] EXCEPT ![c.wf] = [req |-> c.req, pid |-> c.wf]]
  BY <1>1, <1>2 DEF Bound
<1>5. [w \in Workflows |-> Bound(w)][c.wf] = Nothing
  BY <1>1, <1>2 DEF Bound
<1>6. Shown' = Shown
  BY <1>2 DEF Shown
<1> QED
  BY <1>1, <1>3, <1>4, <1>5, <1>6 DEF A!Register

(* A receipt is stored for what the ledger answers. *)
LEMMA ReceiptAnswers ==
  ASSUME IInv, NEW t \in Tabs, RecordReceipt(t)
  PROVE  at[t] \in Workflows /\ A!Answer(at[t])
<1> DEFINE w == at[t]
<1>1. w \in Workflows /\ reply[t] \in Inputs /\ ledger[w] = reply[t] /\ reply[t] # None
  BY NoneAssumption DEF IInv, HandlersFit, RepliesAreTrue, RecordReceipt, Recording
<1>2. /\ receipt \in [Workflows -> Inputs \cup {None}]
      /\ receipt' = [receipt EXCEPT ![w] = reply[t]]
      /\ UNCHANGED ledger
  BY DEF IInv, TypeOK, RecordReceipt
<1>3. receipt[w] # None => receipt[w] = reply[t]
  BY <1>1 DEF IInv, ReceiptIsTrue
<1>4. [v \in Workflows |-> Bound(v)][w] = [req |-> reply[t], pid |-> w]
  BY <1>1 DEF Bound
<1>5. Shown' = Shown \cup {[key |-> w, req |-> reply[t], pid |-> w]}
  <2>1. \A v \in Workflows : receipt'[v] = IF v = w THEN reply[t] ELSE receipt[v]
    BY <1>2
  <2> QED
    BY <1>1, <1>3, <2>1 DEF Shown
<1> HIDE DEF w
<1>6. [v \in Workflows |-> Bound(v)][w] # Nothing
  BY <1>1, <1>4 DEF Nothing
<1>7. Captured' = Captured /\ [v \in Workflows |-> Bound(v)]' = [v \in Workflows |-> Bound(v)]
  BY <1>2 DEF Captured, Bound
<1> QED
  BY <1>1, <1>4, <1>5, <1>6, <1>7 DEF A!Answer, w

(* The atomic ledger, as the console sees it. *)
ConsoleIsAtomic == A!ASpec

(* WorkflowService over the backend does what AtomicLedger promises: seen   *)
(* through lost and late answers, repeated calls, restarts and second       *)
(* servers, every workflow is captured in one step, at most once, and a     *)
(* stored receipt is the ledger's answer to what was captured.              *)
THEOREM ConsoleImplementsAtomicLedger == Spec => ConsoleIsAtomic
<1>1. Init => A!AInit
  BY DEF Init, A!AInit, Bound, Captured, Shown
<1>2. IInv /\ [Next]_vars => [A!ANext]_(A!avars)
  <2> SUFFICES ASSUME IInv, [Next]_vars PROVE [A!ANext]_(A!avars)
    OBVIOUS
  <2>1. ASSUME NEW c \in calls, Captures(c) PROVE A!ANext
    BY <2>1, CaptureRegisters DEF A!ANext
  <2>2. ASSUME NEW t \in Tabs, RecordReceipt(t) PROVE A!ANext
    BY <2>2, ReceiptAnswers DEF A!ANext
  <2>3. ASSUME NEW w \in Workflows, Expires(w) PROVE UNCHANGED <<ledger, receipt>>
    BY <2>3 DEF Expires
  <2>4. ASSUME NEW t \in Tabs, Post(t) PROVE UNCHANGED <<ledger, receipt>>
    BY <2>4 DEF Post, Create, Render, Revise, Cancel, Retry, Confirm, row
  <2>5. ASSUME NEW t \in Tabs, \/ BeginExtraction(t) \/ EndExtraction(t, "reviewing")
                               \/ EndExtraction(t, "editing") \/ TimesOut(t) \/ RecordFailure(t)
                               \/ RecordRefused(t) \/ RecordRaises(t) \/ StoreFails(t)
        PROVE  UNCHANGED <<ledger, receipt>>
    BY <2>5 DEF BeginExtraction, EndExtraction, TimesOut, RecordFailure, RecordRefused,
                RecordRaises, StoreFails, row
  <2>6. ASSUME NEW c \in calls, Refuses(c) \/ Repeats(c) PROVE UNCHANGED <<ledger, receipt>>
    BY <2>6 DEF Refuses, Repeats, Answered, row
  <2>7. ASSUME Cleanup \/ Restart \/ ServeTwice \/ BackendRestart \/ UNCHANGED vars
        PROVE  UNCHANGED <<ledger, receipt>>
    BY <2>7 DEF Cleanup, Restart, ServeTwice, RecoverAbandoned, BackendRestart, vars, row
  <2> QED
    BY <2>1, <2>2, <2>3, <2>4, <2>5, <2>6, <2>7, NotSeen DEF Next, Handle, Backend
<1> QED
  BY <1>1, <1>2, IInvariant, PTL DEF Spec, A!ASpec, ConsoleIsAtomic
=============================================================================
