------------------------------ MODULE Watcher ------------------------------
(***************************************************************************)
(* VaultWatcher (src/ledger/watcher.py) with RecordIntegrityChecker        *)
(* (src/ledger/record_integrity.py) as its callbacks, over a vault that    *)
(* the writer and an editor change.                                        *)
(*                                                                         *)
(* Two threads turn changes into events: the observer, from the platform's *)
(* notifications, which can be late or lost, and the reconciler, which     *)
(* compares the files with what is known of them.  Events of one path are  *)
(* merged until a timer fires, and every timer dispatches on a thread of   *)
(* its own.  Reading a file, the registry, or what is known of the files   *)
(* are separate steps of such a thread.                                    *)
(*                                                                         *)
(* What the watcher keeps, it keeps for each path, and nothing it does for *)
(* one path reads what it keeps for another.  The module therefore follows *)
(* one path, the record or the snapshot of one prediction: a thread that   *)
(* is busy with another path is a thread that takes its time.              *)
(***************************************************************************)
EXTENDS Naturals, Sequences

CONSTANTS
    Workers,      \* timer threads dispatching at one time
    Resolutions,  \* statuses a resolution may set
    MaxTroubles,  \* bound: edits, failed writes and failed dispatches, together
    MaxQueued     \* bound: notifications on their way, more are lost

Kinds   == {"record", "snapshot"}
Threads == {"observer", "reconciler"}

(* A file verifies, or its contents no longer do, or it cannot be parsed.  *)
Contents == {"none", "good", "altered", "damaged"}
Statuses == {"open", "resolved", "invalidated", "quarantined"}
Raw      == {"deleted", "moved", "other"}
Changes  == {"created", "modified", "moved", "deleted", "replaced"}

ASSUME BoundsAssumption == MaxTroubles \in Nat /\ MaxQueued \in Nat
ASSUME ResolutionsAssumption == Resolutions \subseteq Statuses \ {"quarantined"}

VARIABLES
    followed,   \* the path this behaviour is about
    row,        \* status of the committed row, "none" before the commit
    content,    \* what each file holds
    stamp,      \* inode, size and time of the followed path, as a counter
    write,      \* how far the writer is
    mode,       \* new, on, or closed
    events,     \* notifications the platform has not delivered yet
    known,      \* _known_files: the fingerprint remembered, 0 if none
    scanned,    \* the fingerprint a reconciliation has read, <<>> if none runs
    raw,        \* the change a reconciliation has still to submit
    look,       \* event and fingerprint a thread has read, <<>> if none
    normal,     \* the normalised change a thread is about to submit
    pending,    \* _Debouncer._pending
    job,        \* what each timer thread is doing
    verdict,    \* how the last event since the last edit ended (history)
    rewritten,  \* the prediction was written again after a failure
    edits,      \* what the editor has made of files: contents it has left
    troubles    \* edits, failed writes and failed dispatches so far

vault   == <<followed, row, content, stamp, write, mode, events>>
watcher == <<known, scanned, raw, look, normal, pending, job>>
counts  == <<rewritten, edits, troubles>>
vars    == <<vault, watcher, verdict, counts>>

Trouble == troubles < MaxTroubles /\ troubles' = troubles + 1

Idle == [step |-> "idle"]

(* _file_fingerprint *)
Fingerprint == IF content[followed] = "none" THEN 0 ELSE stamp

Init ==
    /\ followed \in Kinds
    /\ row = "none"
    /\ content = [k \in Kinds |-> "none"]
    /\ stamp = 0
    /\ write = "ready"
    /\ mode = "new"
    /\ events = <<>>
    /\ known = 0
    /\ scanned = <<>>
    /\ raw = "none"
    /\ look = [t \in Threads |-> <<>>]
    /\ normal = [t \in Threads |-> "none"]
    /\ pending = "none"
    /\ job = [w \in Workers |-> Idle]
    /\ verdict = "none"
    /\ rewritten = FALSE
    /\ edits = {} /\ troubles = 0

----------------------------------------------------------------------------
(* The vault: the writer publishes the snapshot, then the record, then     *)
(* commits the row (module Capture); the editor changes what it likes.     *)

(* The platform may fail to notify the watcher.                            *)
Change(k, c, kind) ==
    /\ content' = [content EXCEPT ![k] = c]
    /\ stamp' = IF k = followed THEN stamp + 1 ELSE stamp
    /\ \/ k = followed /\ mode = "on" /\ Len(events) < MaxQueued /\ events' = Append(events, kind)
       \/ UNCHANGED events

Unlink(k) ==
    IF content[k] = "none" THEN UNCHANGED <<content, stamp, events>>
                           ELSE Change(k, "none", "deleted")

Advance(from, to) ==
    /\ write = from
    /\ write' = to
    /\ UNCHANGED <<followed, mode, watcher, verdict, edits>>

PublishSnapshot ==
    /\ Advance("ready", "snapshot")
    /\ Change("snapshot", "good", "other")
    /\ UNCHANGED <<row, rewritten, troubles>>

PublishRecord ==
    /\ Advance("snapshot", "record")
    /\ Change("record", "good", "other")
    /\ UNCHANGED <<row, rewritten, troubles>>

CommitRow ==
    /\ Advance("record", "done")
    /\ row' = "open"
    /\ UNCHANGED <<content, stamp, events, rewritten, troubles>>

(* A failed write removes what it published, the record first; a draft's   *)
(* id may then be written again.                                           *)
Withdraw ==
    /\ Trouble
    /\ rewritten' = TRUE
    /\ \/ Advance("record", "undo") /\ Unlink("record")
       \/ Advance("snapshot", "ready") /\ Unlink("snapshot")
    /\ UNCHANGED row

WithdrawSnapshot ==
    /\ Advance("undo", "ready")
    /\ Unlink("snapshot")
    /\ UNCHANGED <<row, rewritten, troubles>>

(* Evidence is edited once it is committed.  A touch, or an edit of the    *)
(* body, leaves the file good; an editor saves in place or by a rename.    *)
Edit(k, c, kind) ==
    /\ Trouble
    /\ edits' = edits \cup {c}
    /\ c = "none" <=> kind = "deleted"
    /\ k = followed \/ followed = "record"   \* nothing reads the record otherwise
    /\ row # "none" /\ (c = "none" => content[k] # "none")
    /\ Change(k, c, kind)
    /\ verdict' = "none"
    /\ UNCHANGED <<followed, row, write, mode, watcher, rewritten>>

(* update_resolution; the database refuses to lift a quarantine. *)
Resolve(s) ==
    /\ row \notin {"none", "quarantined"}
    /\ row' = s
    /\ UNCHANGED <<followed, content, stamp, write, mode, events, watcher, verdict, counts>>

----------------------------------------------------------------------------
(* From changes to the pending event.                                      *)

(* VaultWatcher.start: what is there already is known, not new.            *)
Start ==
    /\ mode = "new"
    /\ mode' = "on"
    /\ known' = Fingerprint
    /\ UNCHANGED <<followed, row, content, stamp, write, events, scanned, raw, look, normal,
                   pending, job, verdict, counts>>

Free(t) == look[t] = <<>> /\ normal[t] = "none"

(* The observer is called for an event, and reads the file. *)
Notify ==
    /\ mode = "on" /\ events # <<>>
    /\ Free("observer")
    /\ look' = [look EXCEPT !["observer"] = <<Head(events), Fingerprint>>]
    /\ events' = Tail(events)
    /\ UNCHANGED <<followed, row, content, stamp, write, mode, known, scanned, raw, normal,
                   pending, job, verdict, counts>>

(* reconcile reads the file, *)
ReconcileScan ==
    /\ mode = "on" /\ scanned = <<>> /\ raw = "none"
    /\ Free("reconciler")
    /\ scanned' = <<Fingerprint>>
    /\ UNCHANGED <<vault, known, raw, look, normal, pending, job, verdict, counts>>

(* then what is known of it, *)
ReconcileCompare ==
    /\ scanned # <<>>
    /\ raw' = IF scanned[1] = known THEN "none" ELSE IF scanned[1] = 0 THEN "deleted" ELSE "other"
    /\ scanned' = <<>>
    /\ UNCHANGED <<vault, known, look, normal, pending, job, verdict, counts>>

(* and submits an event if they differ.                                    *)
ReconcileSubmit ==
    /\ raw # "none" /\ Free("reconciler")
    /\ look' = [look EXCEPT !["reconciler"] = <<raw, Fingerprint>>]
    /\ raw' = "none"
    /\ UNCHANGED <<vault, known, scanned, normal, pending, job, verdict, counts>>

(* Faulty variant: a change of a known file is passed on as it came. *)
NormalizedAsReported(previous, kind, fingerprint) ==
    IF kind = "deleted" \/ fingerprint = 0
    THEN IF previous # 0 THEN "deleted" ELSE "none"
    ELSE IF previous = fingerprint THEN "none" ELSE kind

(* _normalize_change: the change an event stands for, "none" if no news.   *)
Normalized(previous, kind, fingerprint) ==
    IF kind = "deleted" \/ fingerprint = 0
    THEN IF previous # 0 THEN "deleted" ELSE "none"
    ELSE IF previous = fingerprint THEN "none"
    ELSE IF previous # 0 THEN "modified"
    ELSE IF kind = "moved" THEN "moved" ELSE "created"

Normalize(t) ==
    LET kind == look[t][1]
        fingerprint == look[t][2]
        change == Normalized(known, kind, fingerprint) IN
    /\ look[t] # <<>>
    /\ look' = [look EXCEPT ![t] = <<>>]
    /\ known' = IF kind = "deleted" THEN 0 ELSE fingerprint
    /\ normal' = [normal EXCEPT ![t] = change]
    /\ UNCHANGED <<vault, scanned, raw, pending, job, verdict, counts>>

(* _merge_path_events *)
Merged(previous, current) ==
    IF previous = "none" \/ current = "deleted" THEN current
    ELSE IF previous = "deleted" THEN "replaced"
    ELSE IF previous = "created" THEN "created" ELSE current

(* _Debouncer.submit *)
Submit(t) ==
    /\ normal[t] # "none"
    /\ pending' = Merged(pending, normal[t])
    /\ normal' = [normal EXCEPT ![t] = "none"]
    /\ UNCHANGED <<vault, known, scanned, raw, look, job, verdict, counts>>

----------------------------------------------------------------------------
(* A timer fires: _dispatch, and the callbacks.  `bad' says whether the    *)
(* verification has failed so far.  A record is verified whatever happened *)
(* to it: only a snapshot's job looks at the change.                       *)

Steps == {"identify", "row", "record", "snapshot", "judge", "managed", "violation"}
Job == [step : Steps, change : Changes \cup {"none"}, bad : BOOLEAN]

Do(w, j) == job' = [job EXCEPT ![w] = j]
At(w, step) == job[w].step = step
GoTo(w, step) == Do(w, [job[w] EXCEPT !.step = step, !.change = "none"])

(* Faulty variant: a record's job trusts the reported change.              *)
FireAsReported(w) ==
    /\ job[w] = Idle /\ pending # "none"
    /\ Do(w, [step |-> "managed", change |-> pending, bad |-> FALSE])
    /\ pending' = "none"
    /\ verdict' = "sound"
    /\ UNCHANGED <<vault, known, scanned, raw, look, normal, counts>>

(* _Debouncer._fire, or close with flush. *)
Fire(w) ==
    /\ job[w] = Idle /\ pending # "none"
    /\ Do(w, IF followed = "record"
              THEN [step |-> "identify", change |-> "none", bad |-> FALSE]
              ELSE [step |-> "managed", change |-> pending, bad |-> FALSE])
    /\ pending' = "none"
    /\ verdict' = "sound"
    /\ UNCHANGED <<vault, known, scanned, raw, look, normal, counts>>

JobStep == UNCHANGED <<followed, content, stamp, write, mode, events, scanned, raw, look, normal,
                       pending, rewritten, edits>>

(* The event ends here, and nobody has judged the file. *)
Drop(w) == Do(w, Idle) /\ verdict' = "missed"

(* _dispatch_record: is it a ledger record at all?  A committed row stays, *)
(* so one that is found here is found again by check_record.               *)
Identify(w) ==
    /\ At(w, "identify")
    /\ \/ row # "none" /\ GoTo(w, "record") /\ UNCHANGED verdict
       \/ /\ row = "none" /\ content["record"] \in {"good", "altered"}
          /\ GoTo(w, "row") /\ UNCHANGED verdict
       \/ /\ row = "none" /\ content["record"] \notin {"good", "altered"}
          /\ Drop(w)
    /\ JobStep /\ UNCHANGED <<row, known, troubles>>

(* check_record: the row, *)
CheckRow(w) ==
    /\ At(w, "row")
    /\ \/ row = "none" /\ Drop(w)
       \/ row # "none" /\ GoTo(w, "record") /\ UNCHANGED verdict
    /\ JobStep /\ UNCHANGED <<row, known, troubles>>

(* Faulty variant: a record that is missing or malformed is skipped.       *)
VerifyRecordIfReadable(w) ==
    /\ At(w, "record")
    /\ Do(w, [job[w] EXCEPT !.step = "snapshot", !.bad = content["record"] = "altered"])
    /\ JobStep /\ UNCHANGED <<row, known, verdict, troubles>>

(* the record, *)
VerifyRecord(w) ==
    /\ At(w, "record")
    /\ Do(w, [job[w] EXCEPT
                !.step = IF content["record"] \in {"none", "damaged"} THEN "judge" ELSE "snapshot",
                !.bad = content["record"] # "good"])
    /\ JobStep /\ UNCHANGED <<row, known, verdict, troubles>>

(* the snapshot, *)
VerifySnapshot(w) ==
    /\ At(w, "snapshot")
    /\ IF job[w].bad \/ content["snapshot"] # "good"
       THEN Do(w, [job[w] EXCEPT !.step = "judge", !.bad = TRUE])
       ELSE Do(w, Idle)
    /\ JobStep /\ UNCHANGED <<row, known, verdict, troubles>>

(* and quarantine_prediction; indexing a record that verifies is left out. *)
Judge(w) ==
    /\ At(w, "judge")
    /\ Do(w, Idle)
    /\ row' = "quarantined"
    /\ JobStep /\ UNCHANGED <<known, verdict, troubles>>

Violations == {"deleted", "modified", "replaced"}

(* Faulty variant: a file that was replaced counts as new. *)
DispatchRewrite(w) ==
    /\ At(w, "managed")
    /\ \/ job[w].change \in Violations \ {"replaced"} /\ GoTo(w, "violation")
       \/ job[w].change \notin Violations \ {"replaced"} /\ Do(w, Idle)
    /\ JobStep /\ UNCHANGED <<row, known, verdict, troubles>>

(* _dispatch_snapshot.  A new snapshot is only reported when no committed  *)
(* row names it, and the checker does not act on that.                     *)
DispatchSnapshot(w) ==
    /\ At(w, "managed")
    /\ \/ /\ job[w].change \in Violations
          /\ GoTo(w, "violation")
          /\ UNCHANGED <<known, verdict>>
       \/ /\ job[w].change \notin Violations
          /\ content["snapshot"] = "none"
          /\ known' = 0
          /\ Drop(w)
       \/ /\ job[w].change \notin Violations
          /\ content["snapshot"] # "none"
          /\ Do(w, Idle)
          /\ verdict' = IF row = "none" THEN "missed"
                        ELSE IF content["snapshot"] # "good" THEN "masked" ELSE verdict
          /\ UNCHANGED known
    /\ JobStep /\ UNCHANGED <<row, troubles>>

(* handle_managed_violation *)
HandleViolation(w) ==
    /\ At(w, "violation")
    /\ \/ row = "none" /\ Drop(w) /\ UNCHANGED row
       \/ row # "none" /\ Do(w, Idle) /\ row' = "quarantined" /\ UNCHANGED verdict
    /\ JobStep /\ UNCHANGED <<known, troubles>>

(* Any exception is logged and the event is gone. *)
JobFails(w) ==
    /\ job[w] # Idle
    /\ Trouble
    /\ Drop(w)
    /\ JobStep /\ UNCHANGED <<row, known>>

(* VaultWatcher.stop joins both threads; without flush, events are dropped. *)
Stop(flush) ==
    /\ mode # "closed"
    /\ scanned = <<>> /\ raw = "none" /\ \A t \in Threads : Free(t)
    /\ mode' = "closed"
    /\ pending' = IF flush THEN pending ELSE "none"
    /\ verdict' = IF pending' = pending THEN verdict ELSE "missed"
    /\ UNCHANGED <<followed, row, content, stamp, write, events, known, scanned, raw, look,
                   normal, job, counts>>

----------------------------------------------------------------------------

Work(w) == Identify(w) \/ CheckRow(w) \/ VerifyRecord(w) \/ VerifySnapshot(w) \/ Judge(w)
             \/ DispatchSnapshot(w) \/ HandleViolation(w)
Observe   == Notify \/ Normalize("observer") \/ Submit("observer")
Reconcile == ReconcileScan \/ ReconcileCompare \/ ReconcileSubmit
               \/ Normalize("reconciler") \/ Submit("reconciler")
Vault == \/ PublishSnapshot \/ PublishRecord \/ CommitRow \/ Withdraw \/ WithdrawSnapshot
         \/ \E s \in Resolutions : Resolve(s)
         \/ \E k \in Kinds, c \in Contents, kind \in Raw : Edit(k, c, kind)

Next ==
    \/ Vault \/ Start \/ Observe \/ Reconcile
    \/ \E w \in Workers : Fire(w) \/ Work(w) \/ JobFails(w)
    \/ \E flush \in BOOLEAN : Stop(flush)

Spec == Init /\ [][Next]_vars

(* Threads run, timers fire, and the reconciler keeps coming round. *)
FairSpec ==
    /\ Spec
    /\ WF_vars(Observe) /\ WF_vars(Reconcile)
    /\ \A w \in Workers : WF_vars(Fire(w) \/ Work(w))

----------------------------------------------------------------------------
(* Properties.                                                             *)

(* Every variable has its type. *)
TypeOK ==
    /\ followed \in Kinds
    /\ row \in Statuses \cup {"none"}
    /\ content \in [Kinds -> Contents]
    /\ stamp \in Nat
    /\ write \in {"ready", "snapshot", "record", "undo", "done"}
    /\ mode \in {"new", "on", "closed"}
    /\ events \in Seq(Raw)
    /\ known \in Nat
    /\ scanned \in Seq(Nat)
    /\ raw \in Raw \cup {"none"}
    /\ look \in [Threads -> (Raw \X Nat) \cup {<<>>}]
    /\ normal \in [Threads -> Changes \cup {"none"}]
    /\ pending \in Changes \cup {"none"}
    /\ job \in [Workers -> Job \cup {Idle}]
    /\ verdict \in {"none", "sound", "missed", "masked"}
    /\ rewritten \in BOOLEAN
    /\ edits \subseteq Contents /\ troubles \in Nat

(* What is known of the file is what it is, and no event is on its way.    *)
CaughtUp ==
    /\ mode # "new" /\ known = Fingerprint /\ pending = "none"
    /\ \A t \in Threads : Free(t)
    /\ \A w \in Workers : job[w] = Idle

(* README, Vault observation: "a malformed or missing committed record, an *)
(* immutable frontmatter mismatch, or a managed snapshot rewrite/deletion" *)
(* leads to quarantine.  Once the watcher has caught up a bad file means   *)
(* quarantine, whatever events were merged, lost or reordered.  It has not *)
(* been judged if its event came before the commit or its dispatch failed, *)
(* and a snapshot rewritten before its creation was dispatched is taken    *)
(* for the writer's own.  A deletion is what DamageIsFound is about.       *)
DamageIsQuarantined ==
    CaughtUp /\ known # 0 /\ row # "none" /\ content[followed] # "good" /\ verdict = "sound"
      => row = "quarantined"

(* README, Vault observation: "body or mutable projection edits cannot     *)
(* alter registry authority".  A record is read again before it counts as  *)
(* bad (record_integrity.py:273-300, check_record): however its events     *)
(* were merged, reordered or made up by a reconciliation that read it too  *)
(* early, its prediction is quarantined only if an edit spoilt the record  *)
(* or the snapshot.  A snapshot's own events are not checked that way      *)
(* (OnlyChangesAreQuarantined).                                            *)
RecordQuarantineIsEarned ==
    followed = "record" /\ row = "quarantined" => edits \ {"good"} # {}

(* README, Vault observation: the checker "quarantines semantic changes to *)
(* committed immutable evidence": a prediction whose files nobody but the  *)
(* writer has touched, and which was written once, is not quarantined.     *)
OnlyChangesAreQuarantined == row = "quarantined" => rewritten \/ edits # {}

(* Notifications may all be lost: while the watcher is on, a file it knows *)
(* that is changed for the worse or removed is found, with the exceptions  *)
(* of DamageIsQuarantined.                                                 *)
DamageIsFound ==
    (mode = "on" /\ known \notin {0, Fingerprint} /\ row # "none" /\ content[followed] # "good")
      ~> (mode = "closed" \/ content[followed] = "good" \/ row = "quarantined"
            \/ verdict \in {"missed", "masked"})
=============================================================================
