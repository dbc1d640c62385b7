------------------------------ MODULE Workflow ------------------------------
(***************************************************************************)
(* A capture from the research console: WorkflowService                    *)
(* (src/ledger/console/workflow.py) over ConsoleStateStore                 *)
(* (src/ledger/console/state.py), calling the backend through              *)
(* ConsoleBackendClient (src/ledger/console/backend_client.py).            *)
(*                                                                         *)
(* The console is not the authority: the ledger is.  A handler commits the *)
(* intention (submitting), calls, and commits the outcome, in that order;  *)
(* the call can be lost, answered too late, or executed after the handler  *)
(* has given up, and the console can be killed between any two steps.      *)
(***************************************************************************)
EXTENDS Naturals, FiniteSets

CONSTANTS
    Workflows,    \* workflow ids, each with an idempotency key of its own
    Tabs,         \* request handlers of the console, one for each tab's post
    Inputs,       \* what a user may confirm on the review page
    None,         \* nothing frozen, no receipt, no workflow
    MaxCalls,     \* bound: capture calls of one workflow
    MaxDrafts,    \* bound: extractions of one workflow
    MaxFaults     \* bound: restarts, second servers and failing stores

Failures == {"terminal", "retryable", "unverified"}

ASSUME BoundsAssumption == MaxCalls \in Nat /\ MaxDrafts \in Nat /\ MaxFaults \in Nat
ASSUME NoneAssumption   == None \notin Workflows \cup Inputs \cup Failures
ASSUME InputsAssumption == Inputs \cap Failures = {}

VARIABLES
    state,      \* workflows.state, "none" before creation and after deletion
    frozen,     \* frozen_request_json, remembered after the row is deleted
    receipt,    \* capture_response_json, likewise
    expiry,     \* expires_at: never, ahead or passed
    version,    \* workflows.version
    seen,       \* the version of each workflow a tab's page was rendered with
    pc, at,     \* where a handler is and the workflow it works for
    reply,      \* the backend's answer: the captured request, or a failure
    calls,      \* capture calls, and whether the backend still has them
    drafts,     \* extractions of each workflow so far
    ledger,     \* the request each workflow's key is bound to in the ledger
    rejected,   \* workflows a validated terminal error was recorded for
    stranded,   \* workflows whose handler could not store its outcome
    twice,      \* a second server was started beside the first
    faults      \* faults so far

row     == <<state, frozen, receipt, expiry, version>>
handler == <<pc, at, reply>>
mishaps == <<stranded, twice, faults>>
vars    == <<row, seen, handler, calls, drafts, ledger, rejected, mishaps>>

States == {"none", "editing", "extracting", "reviewing", "submitting", "uncertain",
           "retryable_failure", "terminal_failure", "committed", "cancelled"}
Removable == {"editing", "reviewing", "terminal_failure", "committed", "cancelled"}
Claimed == {"extracting", "calling", "record"}

Init ==
    /\ state = [w \in Workflows |-> "none"]
    /\ frozen = [w \in Workflows |-> None]
    /\ receipt = [w \in Workflows |-> None]
    /\ expiry = [w \in Workflows |-> "never"]
    /\ version = [w \in Workflows |-> 0]
    /\ seen = [t \in Tabs |-> [w \in Workflows |-> 0]]
    /\ pc = [t \in Tabs |-> "idle"]
    /\ at = [t \in Tabs |-> None]
    /\ reply = [t \in Tabs |-> None]
    /\ calls = {}
    /\ drafts = [w \in Workflows |-> 0]
    /\ ledger = [w \in Workflows |-> None]
    /\ rejected = {}
    /\ stranded = {}
    /\ twice = FALSE
    /\ faults = 0

(* _update: every change of a row moves its version on. *)
Update(w, s, e) ==
    /\ state' = [state EXCEPT ![w] = s]
    /\ expiry' = [expiry EXCEPT ![w] = e]
    /\ version' = [version EXCEPT ![w] = @ + 1]

(* _get_row: an expired workflow is not found. *)
Found(w) == state[w] # "none" /\ expiry[w] # "passed"

(* _require_version, for a post from a page rendered earlier. *)
Current(t, w) == seen[t][w] = version[w]

Begin(t, w, label) ==
    /\ pc[t] = "idle"
    /\ pc' = [pc EXCEPT ![t] = label]
    /\ at' = [at EXCEPT ![t] = w]
    /\ UNCHANGED reply

Go(t, label) == pc' = [pc EXCEPT ![t] = label] /\ UNCHANGED <<at, reply>>

End(t) ==
    /\ pc' = [pc EXCEPT ![t] = "idle"]
    /\ at' = [at EXCEPT ![t] = None]
    /\ reply' = [reply EXCEPT ![t] = None]

----------------------------------------------------------------------------
(* Before the confirmation.                                                *)

(* A post to /workflows creates a workflow, or revises the source of one   *)
(* that is being edited, and goes on to extract with the version it left.  *)
Create(t, w) ==
    /\ state[w] = "none" /\ version[w] = 0
    /\ drafts' = [drafts EXCEPT ![w] = 1]
    /\ state' = [state EXCEPT ![w] = "editing"]
    /\ expiry' = [expiry EXCEPT ![w] = "ahead"]
    /\ Begin(t, w, "extract")
    /\ UNCHANGED <<frozen, receipt, version, seen, calls, ledger, rejected, mishaps>>

Revise(t, w) ==
    /\ Found(w) /\ state[w] = "editing" /\ Current(t, w)
    /\ drafts[w] < MaxDrafts
    /\ drafts' = [drafts EXCEPT ![w] = @ + 1]
    /\ Update(w, "editing", "ahead")
    /\ seen' = [seen EXCEPT ![t][w] = version'[w]]
    /\ Begin(t, w, "extract")
    /\ UNCHANGED <<frozen, receipt, calls, ledger, rejected, mishaps>>

(* A page of the workflow is rendered in the tab. *)
Render(t, w) ==
    /\ pc[t] = "idle"
    /\ Found(w)
    /\ ~Current(t, w)
    /\ seen' = [seen EXCEPT ![t][w] = version[w]]
    /\ UNCHANGED <<row, handler, calls, drafts, ledger, rejected, mishaps>>

(* begin_extraction: another tab may have taken the workflow meanwhile. *)
BeginExtraction(t) ==
    /\ pc[t] = "extract"
    /\ IF Found(at[t]) /\ state[at[t]] = "editing" /\ Current(t, at[t])
       THEN Update(at[t], "extracting", expiry[at[t]]) /\ Go(t, "extracting")
       ELSE UNCHANGED <<state, expiry, version>> /\ End(t)
    /\ UNCHANGED <<frozen, receipt, seen, calls, drafts, ledger, rejected, mishaps>>

(* finish_extraction with a proposal; fail_extraction, or no proposal. *)
EndExtraction(t, s) ==
    /\ pc[t] = "extracting"
    /\ IF state[at[t]] = "extracting"
       THEN Update(at[t], s, "ahead")
       ELSE UNCHANGED <<state, expiry, version>>
    /\ End(t)
    /\ UNCHANGED <<frozen, receipt, seen, calls, drafts, ledger, rejected, mishaps>>

(* Faulty variant: an uncertain workflow can be cancelled. *)
CancelUncertain(t, w) ==
    /\ pc[t] = "idle"
    /\ Found(w) /\ state[w] \in {"editing", "reviewing", "uncertain"} /\ Current(t, w)
    /\ Update(w, "cancelled", "ahead")
    /\ UNCHANGED <<frozen, receipt, seen, handler, calls, drafts, ledger, rejected, mishaps>>

Cancel(t, w) ==
    /\ pc[t] = "idle"
    /\ Found(w) /\ state[w] \in {"editing", "reviewing"} /\ Current(t, w)
    /\ Update(w, "cancelled", "ahead")
    /\ UNCHANGED <<frozen, receipt, seen, handler, calls, drafts, ledger, rejected, mishaps>>

----------------------------------------------------------------------------
(* Confirmation, retry and the call.                                       *)

CallsOf(w) == {c \in calls : c.wf = w}

(* to_backend_request of the frozen request, sent once. *)
Call(t, w, r) == calls' = calls \cup {[n |-> Cardinality(CallsOf(w)) + 1, tab |-> t, wf |-> w,
                                       req |-> r, open |-> TRUE]}

(* Faulty variant: a request that failed is frozen anew. *)
ConfirmRefreezes(t, w, i) ==
    /\ Found(w) /\ state[w] \in {"reviewing", "retryable_failure"} /\ Current(t, w)
    /\ Cardinality(CallsOf(w)) < MaxCalls
    /\ frozen' = [frozen EXCEPT ![w] = i]
    /\ Update(w, "submitting", "never")
    /\ Begin(t, w, "calling")
    /\ Call(t, w, i)
    /\ UNCHANGED <<receipt, seen, drafts, ledger, rejected, mishaps>>

(* freeze_and_begin_submission: reviewing, frozen and submitting at once.  *)
(* Confirming a committed workflow again only shows the receipt.           *)
Confirm(t, w, i) ==
    /\ Found(w) /\ state[w] = "reviewing" /\ Current(t, w)
    /\ frozen' = [frozen EXCEPT ![w] = i]
    /\ Update(w, "submitting", "never")
    /\ Begin(t, w, "calling")
    /\ Call(t, w, i)
    /\ UNCHANGED <<receipt, seen, drafts, ledger, rejected, mishaps>>

(* Faulty variant: a submission that takes long can be retried. *)
RetrySubmitting(t, w) ==
    /\ Found(w) /\ state[w] \in {"submitting", "uncertain", "retryable_failure"} /\ Current(t, w)
    /\ Cardinality(CallsOf(w)) < MaxCalls
    /\ Update(w, "submitting", "never")
    /\ Begin(t, w, "calling")
    /\ Call(t, w, frozen[w])
    /\ UNCHANGED <<frozen, receipt, seen, drafts, ledger, rejected, mishaps>>

(* begin_retry: the exact frozen request again. *)
Retry(t, w) ==
    /\ Found(w) /\ state[w] \in {"uncertain", "retryable_failure"} /\ Current(t, w)
    /\ Cardinality(CallsOf(w)) < MaxCalls
    /\ Update(w, "submitting", "never")
    /\ Begin(t, w, "calling")
    /\ Call(t, w, frozen[w])
    /\ UNCHANGED <<frozen, receipt, seen, drafts, ledger, rejected, mishaps>>

Close(c) == calls' = (calls \ {c}) \cup {[c EXCEPT !.open = FALSE]}

(* The handler that made this call still waits for it. *)
Awaited(c) == /\ pc[c.tab] = "calling" /\ at[c.tab] = c.wf
              /\ \A d \in CallsOf(c.wf) : d.tab = c.tab => d.n <= c.n

Deliver(c, r) ==
    /\ IF Awaited(c)
       THEN /\ pc' = [pc EXCEPT ![c.tab] = "record"]
            /\ reply' = [reply EXCEPT ![c.tab] = r]
       ELSE UNCHANGED <<pc, reply>>
    /\ UNCHANGED at

(* The backend executes a call, in whatever order calls reach it.  Module  *)
(* Capture is about what happens inside; an unbound key is captured or     *)
(* refused, a bound one is answered if the request is the same.            *)
Answered(c, r) ==
    /\ c.open
    /\ Close(c)
    /\ Deliver(c, r)
    /\ UNCHANGED <<row, seen, drafts, rejected, mishaps>>

Captures(c) ==
    /\ ledger[c.wf] = None
    /\ ledger' = [ledger EXCEPT ![c.wf] = c.req]
    /\ \E r \in {c.req, "unverified"} : Answered(c, r)

Refuses(c) ==
    /\ ledger[c.wf] = None
    /\ \E r \in Failures : Answered(c, r)
    /\ UNCHANGED ledger

(* A duplicate: the stored result, integrity_error if a file is gone, or   *)
(* no access because the token has changed.                                *)
Repeats(c) ==
    /\ ledger[c.wf] = c.req
    /\ \E r \in {c.req} \cup Failures : Answered(c, r)
    /\ UNCHANGED ledger

(* Faulty variant: a handler that times out records nothing. *)
TimesOutUnrecorded(t) ==
    /\ pc[t] = "calling"
    /\ End(t)
    /\ UNCHANGED <<row, seen, calls, drafts, ledger, rejected, mishaps>>

(* The handler's call times out; the backend may still execute it. *)
TimesOut(t) ==
    /\ pc[t] = "calling"
    /\ pc' = [pc EXCEPT ![t] = "record"]
    /\ reply' = [reply EXCEPT ![t] = "unverified"]
    /\ UNCHANGED <<row, seen, at, calls, drafts, ledger, rejected, mishaps>>

----------------------------------------------------------------------------
(* record_capture_response and record_capture_failure, which refuse a      *)
(* workflow that is no longer submitting.                                  *)

Recording(t) == pc[t] = "record" /\ state[at[t]] = "submitting"

(* Faulty variant: an answer that cannot be validated counts as a receipt. *)
RecordReceiptUnverified(t) ==
    /\ Recording(t)
    /\ reply[t] \notin {"terminal", "retryable"}
    /\ receipt' = [receipt EXCEPT ![at[t]] = frozen[at[t]]]
    /\ Update(at[t], "committed", "ahead")
    /\ End(t)
    /\ UNCHANGED <<frozen, seen, calls, drafts, ledger, rejected, mishaps>>

RecordReceipt(t) ==
    /\ Recording(t)
    /\ reply[t] \in Inputs
    /\ receipt' = [receipt EXCEPT ![at[t]] = reply[t]]
    /\ Update(at[t], "committed", "ahead")
    /\ End(t)
    /\ UNCHANGED <<frozen, seen, calls, drafts, ledger, rejected, mishaps>>

(* Faulty variant: the disposition is stored where the state belongs. *)
FailureDisposition(r) == r

(* _failure_state: terminal failures expire, the others never do. *)
FailureState(r) == CASE r = "terminal"  -> "terminal_failure"
                     [] r = "retryable" -> "retryable_failure"
                     [] OTHER           -> "uncertain"

(* Faulty variant: every failure expires. *)
RecordFailureExpires(t) ==
    /\ Recording(t)
    /\ reply[t] \in Failures
    /\ Update(at[t], FailureState(reply[t]), "ahead")
    /\ rejected' = IF reply[t] = "terminal" THEN rejected \cup {at[t]} ELSE rejected
    /\ End(t)
    /\ UNCHANGED <<frozen, receipt, seen, calls, drafts, ledger, mishaps>>

RecordFailure(t) ==
    /\ Recording(t)
    /\ reply[t] \in Failures
    /\ Update(at[t], FailureState(reply[t]), IF reply[t] = "terminal" THEN "ahead" ELSE "never")
    /\ rejected' = IF reply[t] = "terminal" THEN rejected \cup {at[t]} ELSE rejected
    /\ End(t)
    /\ UNCHANGED <<frozen, receipt, seen, calls, drafts, ledger, mishaps>>

(* The receipt cannot be stored: the outcome is recorded as uncertain. *)
RecordRaises(t) ==
    /\ Recording(t)
    /\ reply[t] \in Inputs
    /\ faults < MaxFaults /\ faults' = faults + 1
    /\ Update(at[t], "uncertain", "never")
    /\ End(t)
    /\ UNCHANGED <<frozen, receipt, seen, calls, drafts, ledger, rejected, stranded, twice>>

(* The workflow is no longer submitting: the handler raises. *)
RecordRefused(t) ==
    /\ pc[t] = "record" /\ ~Recording(t)
    /\ End(t)
    /\ UNCHANGED <<row, seen, calls, drafts, ledger, rejected, mishaps>>

(* Nothing at all can be stored: the handler raises and leaves the row.    *)
StoreFails(t) ==
    /\ pc[t] = "extracting" \/ Recording(t)
    /\ faults < MaxFaults /\ faults' = faults + 1
    /\ stranded' = stranded \cup {at[t]}
    /\ End(t)
    /\ UNCHANGED <<row, seen, calls, drafts, ledger, rejected, twice>>

----------------------------------------------------------------------------
(* Time, retention and restarts.                                           *)

Expires(w) ==
    /\ expiry[w] = "ahead"
    /\ expiry' = [expiry EXCEPT ![w] = "passed"]
    /\ UNCHANGED <<state, frozen, receipt, version, seen, handler, calls, drafts, ledger,
                   rejected, mishaps>>

Expired(w) == state[w] \in Removable /\ expiry[w] = "passed"

(* cleanup_expired, from the retention loop. *)
Cleanup ==
    /\ \E w \in Workflows : Expired(w)
    /\ state' = [w \in Workflows |-> IF Expired(w) THEN "none" ELSE state[w]]
    /\ expiry' = [w \in Workflows |-> IF Expired(w) THEN "never" ELSE expiry[w]]
    /\ version' = [w \in Workflows |-> IF Expired(w) THEN version[w] + 1 ELSE version[w]]
    /\ UNCHANGED <<frozen, receipt, seen, handler, calls, drafts, ledger, rejected, mishaps>>

(* recover_abandoned_workflows, which serve calls before it binds its       *)
(* socket (the cleanup_expired that follows is a transaction of its own).  *)
RecoverAbandoned ==
    /\ state' = [w \in Workflows |->
                   CASE state[w] = "submitting" -> "uncertain"
                     [] state[w] = "extracting" -> "editing"
                     [] OTHER                   -> state[w]]
    /\ expiry' = [w \in Workflows |->
                    CASE state[w] = "submitting" -> "never"
                      [] state[w] = "extracting" -> "ahead"
                      [] OTHER                   -> expiry[w]]
    /\ version' = [w \in Workflows |->
                     IF state[w] \in {"submitting", "extracting"} THEN version[w] + 1
                     ELSE version[w]]
    /\ stranded' = {}
    /\ faults < MaxFaults /\ faults' = faults + 1
    /\ UNCHANGED <<frozen, receipt, seen, calls, drafts, ledger, rejected>>

(* The console dies and serves again; its calls are still at the backend.  *)
Restart ==
    /\ RecoverAbandoned
    /\ pc' = [t \in Tabs |-> "idle"]
    /\ at' = [t \in Tabs |-> None]
    /\ reply' = [t \in Tabs |-> None]
    /\ UNCHANGED twice

(* serve is started beside a live console: it recovers the live console's  *)
(* workflows before it finds the socket taken and gives up.                *)
ServeTwice ==
    /\ RecoverAbandoned
    /\ \E t \in Tabs : pc[t] # "idle"
    /\ twice' = TRUE
    /\ UNCHANGED handler

(* The backend dies: what it had not committed is gone, nobody is answered. *)
BackendRestart ==
    /\ faults < MaxFaults /\ faults' = faults + 1
    /\ \E c \in calls : c.open
    /\ calls' = {[c EXCEPT !.open = FALSE] : c \in calls}
    /\ pc' = [t \in Tabs |-> IF pc[t] = "calling" THEN "record" ELSE pc[t]]
    /\ reply' = [t \in Tabs |-> IF pc[t] = "calling" THEN "unverified" ELSE reply[t]]
    /\ UNCHANGED <<row, seen, at, drafts, ledger, rejected, stranded, twice>>

----------------------------------------------------------------------------

Post(t) == \E w \in Workflows :
             \/ Create(t, w) \/ Render(t, w) \/ Revise(t, w) \/ Cancel(t, w) \/ Retry(t, w)
             \/ \E i \in Inputs : Confirm(t, w, i)
Handle(t) == BeginExtraction(t) \/ EndExtraction(t, "reviewing") \/ EndExtraction(t, "editing")
               \/ TimesOut(t) \/ RecordReceipt(t) \/ RecordFailure(t) \/ RecordRefused(t)
Backend == \E c \in calls : Captures(c) \/ Refuses(c) \/ Repeats(c)

Next ==
    \/ \E w \in Workflows : Expires(w)
    \/ \E t \in Tabs : Post(t) \/ Handle(t) \/ RecordRaises(t) \/ StoreFails(t)
    \/ Backend \/ Cleanup \/ Restart \/ ServeTwice \/ BackendRestart

Spec == Init /\ [][Next]_vars

(* A handler keeps running; its call is answered or times out. *)
FairSpec == Spec /\ \A t \in Tabs : WF_vars(Handle(t))

----------------------------------------------------------------------------
(* Properties.                                                             *)

(* Every variable has its type. *)
TypeOK ==
    /\ state \in [Workflows -> States]
    /\ frozen \in [Workflows -> Inputs \cup {None}]
    /\ receipt \in [Workflows -> Inputs \cup {None}]
    /\ expiry \in [Workflows -> {"never", "ahead", "passed"}]
    /\ version \in [Workflows -> Nat]
    /\ seen \in [Tabs -> [Workflows -> Nat]]
    /\ pc \in [Tabs -> {"idle", "extract"} \cup Claimed]
    /\ at \in [Tabs -> Workflows \cup {None}]
    /\ reply \in [Tabs -> Inputs \cup Failures \cup {None}]
    /\ calls \subseteq [n : Nat, tab : Tabs, wf : Workflows, req : Inputs, open : BOOLEAN]
    /\ drafts \in [Workflows -> Nat]
    /\ ledger \in [Workflows -> Inputs \cup {None}]
    /\ rejected \subseteq Workflows
    /\ stranded \subseteq Workflows
    /\ twice \in BOOLEAN
    /\ faults \in Nat

(* Exact replay: however often a workflow is submitted, retried, recovered  *)
(* and raced for by several tabs, every call it ever makes carries the one  *)
(* request it froze, so its key can never meet an idempotency conflict.     *)
ReplaysExactly ==
    /\ \A c \in calls : c.req = frozen[c.wf]
    /\ \A w \in Workflows : ledger[w] # None => ledger[w] = frozen[w]

(* docs/console-reliability-testing.md: "concurrent confirmations from      *)
(* separate store/session views issue one backend call": two handlers never *)
(* work for one workflow, and a submitting workflow has its handler, unless *)
(* a second server was started or nothing could be stored.                  *)
OneCallAtATime ==
    /\ ~twice => \A t, u \in Tabs :
         {pc[t], pc[u]} \subseteq Claimed /\ at[t] = at[u] => t = u
    /\ \A w \in Workflows : ~twice /\ state[w] = "submitting" =>
         w \in stranded \/ \E t \in Tabs : at[t] = w /\ pc[t] \in {"calling", "record"}

(* A receipt is only shown for what the ledger holds. *)
ReceiptIsTrue ==
    \A w \in Workflows : /\ state[w] = "committed" => receipt[w] # None
                         /\ receipt[w] # None => ledger[w] = receipt[w]

(* What was captured is not forgotten: until a receipt or a terminal error  *)
(* is on record its workflow never expires, and is submitting or open to    *)
(* exact retry.                                                             *)
CapturedIsReconciled ==
    \A w \in Workflows : ledger[w] # None =>
        \/ state[w] \in {"submitting", "uncertain", "retryable_failure"} /\ expiry[w] = "never"
        \/ receipt[w] # None
        \/ w \in rejected

(* A cancelled workflow never reaches the ledger, not even by a call made   *)
(* in another tab.                                                          *)
CancelledIsNeverCaptured ==
    \A w \in Workflows : state[w] = "cancelled" => ledger[w] = None /\ CallsOf(w) = {}

(* Every submission is settled by a receipt, a failure or a state that is   *)
(* open to retry, unless its handler could not store even the failure.      *)
SubmissionSettles ==
    \A w \in Workflows : state[w] = "submitting" ~> state[w] # "submitting" \/ w \in stranded
=============================================================================
