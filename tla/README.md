# Pine: a verification project in TLA+

Pine is a local ledger of preregistered predictions.  A prediction is captured
once, before any run has looked at the data of its window; a run of the MSM
program then executes against it, and its evidence is attached.  Three kinds of
clients drive it: the research console (a web server), an Obsidian plugin, and
command line tools.  They are separate processes that share a SQLite registry, a
directory of Markdown records, a directory of snapshots, and a few lock files.

This directory holds models of the parts where that sharing is delicate, TLC
configurations that check them on small instances, and TLAPS proofs that their
safety properties hold on every instance.  Line numbers refer to `src/`.

## The system

| Component | State it keeps | Operations | Talks to |
|---|---|---|---|
| Capture (`capture.py`, `writer.py`, `locking.py`, `registry.py`) | ledger lock, write transaction, `predictions`, `capture_requests`, `touched_windows`, six directory entries per prediction | `capture`, `write`, recovery, rollback, finalize | file system, SQLite |
| Runs (`run.py`, `results.py`, `external.py`) | `runs`, `run_bindings`, `run_results`, `external_run_imports`, one lease per run, the child process | `run`, retry, result ingestion, import | capture through the tables, the MSM child |
| Backup (`backup_cli.py`) | a copy of the registry, copies of files | create, verify | ledger lock, registry |
| Console workflow (`console/state.py`, `workflow.py`, `backend_client.py`, `errors.py`) | `workflows` rows with version, frozen request, receipt, expiry | create, extract, revise, confirm, retry, cancel, record, recover, clean up | the backend's HTTP API |
| Watcher and integrity (`watcher.py`, `record_integrity.py`, `integrity.py`) | remembered fingerprints, pending events and their timers, prediction status, violations | notify, reconcile, debounce, verify, quarantine, resolve | file system, registry |
| Console sessions and limits (`sessions.py`, `rate_limit.py`, `security.py`, `auth.py`) | session rows, the browser's cookie and open forms, stamps per bucket and identity, slots in flight | look up, create, sweep, log out, hit, one in flight | browser, console handlers |
| Backend, bridge and console processes (`backend.py`, `backend_cli.py`, `bridge_cli.py`, `console/unix_socket.py`) | process lock, installed schemas, token, descriptor, ssh tunnel, Unix socket | install, acquire, publish, serve, signal, clear | each other through the files, clients that discover them |
| Read service (`read_service.py`) | a cursor at the client | list a page, show one prediction | registry, records and snapshots |
| Extraction, schemas, forms, CLIs, deployment | none shared, or read-only | | |

What is hard, and what each part has to guarantee:

* **Capture.**  No primitive publishes two files and a row at once.  The code
  stages temporary files, writes a manifest, links, syncs directories, commits
  and then removes the manifest, and can die anywhere.  It must bind each
  idempotency key once, only on a window no run has touched; a committed row
  must have its files; files without a row must be found by recovery; nothing an
  editor wrote may be replaced.
* **Runs.**  A wrapper reads the run, takes a lease, reads again, starts, launches
  and records, in separate transactions; it may die while its child lives on.
  A command must start at most once, the window must be touched first, and an
  answer once given must stand.
* **Backup.**  Copies two stores one after the other while both change.
* **Console workflow.**  Its call can be lost, answered late, or executed after
  it gave up.  It must repeat exactly what it froze, never forget what the
  ledger may have captured, and never claim a receipt it has not verified.
* **Watcher.**  Three kinds of threads share the remembered fingerprints and the
  pending events, the file may change between any two of their steps, and a
  quarantine can never be lifted.  Damage must be found although notifications
  are lost, and untouched evidence must not be quarantined.
* **Sessions and limits.**  A request passes lookup, creation and the CSRF check
  one after the other, each with a clock reading made before its transaction;
  other requests of the browser, a logout or another person's login come in
  between, and responses arrive late or never.  Nobody may act in another's name,
  an ended session must stay ended, and slots must be given back.
* **Processes.**  Two releases may install schemas before either holds the lock;
  a token and a descriptor are two files; a signal may come before there is
  anything to stop; a killed process leaves files behind.
* **Reads.**  A walk over pages holds nothing between its queries, and the rows
  of a batch are verified one by one while the ledger changes.

The list of hazards, each at its line and with the properties aimed at it, is in
`PROJECT.json`.

## Modules

| Module | Models | Extends |
|---|---|---|
| `AtomicLedger` | what the ledger promises: register, answer, observe, each in one step | |
| `Capture` | the capture protocol, step by step, with its faults | |
| `CaptureProofs` | theorems about `Capture` | `Capture`, `TLAPS` |
| `Runs` | binding, execution, results and imports of runs | |
| `Backup` | `create_backup` beside the runs | `Runs` |
| `Workflow` | a capture driven from the console | |
| `Watcher` | file events, verification and quarantine of one path | |
| `RateLimit` | sliding windows and slots of the limiter | |
| `Sessions` | browser sessions, the security boundary, the extraction gate | `RateLimit` |
| `Services` | the processes of a vault and the files they are found by | |
| `Reads` | pages and details while the ledger changes | |
| `Ledger` | captures, runs and a backup over one registry and one lock | `Capture`, and an instance of `Backup` |
| `LedgerProofs` | theorems about `Ledger` | `Ledger`, `CaptureProofs`, and an instance of `RunsProofs` |
| `RunsProofs` | theorems about `Runs` and `Backup` | `Backup`, `TLAPS` |
| `WorkflowProofs`, `WatcherProofs`, `SessionsProofs`, `ServicesProofs`, `ReadsProofs` | theorems about the module of that name | that module, `TLAPS` |
| `MCCapture`, `MCBackup`, `MCLedger`, `MCSessions`, `MCReads` | windows, targets, limits and filters for TLC, symmetry | the above |

Definitions introduced as faulty variants (`LookOpenRelaunches`,
`CheckAnyToken` and so on) are not part of any specification: they state
plausible mistakes, and each property is known to fail when one of them takes
the place of the correct definition.

### Capture

`lock` is the holder of `.ledger/registry.lock`, `txn` the holder of the write
transaction (`BEGIN IMMEDIATE`).  `fs` gives each of the six directory entries of
a prediction (record, snapshot, their temporaries, the manifest and its
temporary) one of the contents none, own, foreign.  `survive` is the set of
contents a power cut may leave: it grows with every change and is reset when the
directory is fsynced.  SQLite runs in WAL mode with `synchronous=FULL`, so a
committed transaction survives.  `pc` has one value per step of the code between
which something else can happen; reads and writes inside the transaction that
nobody can observe are one step.

Faults are chosen by a configuration: `raise` (any operation of staging, the
commit, or a removal raises), `crash` (a process dies, its locks with it, its
transaction rolled back), `machine` (everything dies, unsynced entries take any
surviving content), `editor` (another program writes or removes a record or
snapshot).  `CommitLands` and `CommitFails` are the two truths behind a COMMIT
that raises; `DoubtCommitted` and `DoubtUncommitted` are how the code finds out.
`CheckFresh` and `Touch` use observations, one day of one strategy family: two
windows overlap exactly if they share one.  `Touch` adds the observations of a
whole window between two transactions; who does that is left open here and is
the business of `Ledger`.  Waiting for the lock may time out whoever holds it.
`manifests` is the list a recovery draws up when it begins (`sorted(glob)`): it
follows each manifest on it once, in any order, and goes on, and a removal that
raises ends the critical section.  Recovery fsyncs neither directory, rollback
and finalize do.  History variables (`receipts`, `edited`, `cleaned`, `torn`,
`undone`) only record what happened: `torn` are the ids whose rollback stopped
after the manifest and before the files, `undone` those of which a power cut took
back the removal of a file and not that of the manifest.

### Runs

The registry's transactions are single actions.  An invocation is a process with
its own `pc`: prepare (bind or find), look, lease, look again, verify, start,
launch, wait, record, read back.  `Abandon` kills or raises at any point, which
frees the lease and leaves the child running.  `Register` stands for a capture,
with a guard that `LedgerProofs` shows every capture to meet; `RunService`'s
refusals change nothing and are no step.

### Backup

`Backup` extends `Runs` and adds the lock the backup shares with captures and
preparations; `start_run` and `finish_run` do not take it, so they interleave
with every step of the copy.  The rows of one SQLite snapshot are copied in one
step, as the online backup API does under a write lock-free read.  The staged
copy is verified, takes its final name (`Publish`), and is verified again
(`Confirm`); a failure in between removes it under either name (`Fail`).  The
code copies every file under the managed roots; `fileCopy` keeps those of
predictions in the ledger, since no property asks for debris in a backup.

### Ledger

`Capture` leaves open who touches windows, and `Runs` and `Backup` assume that a
registration finds a fresh window and comes under the ledger lock.  `Ledger` puts
them together over one set of tables, with the actions of both and nothing
assumed about either.  A step of a capture that binds a key inserts the row of
the prediction's run, as `begin_prediction` does; preparations, results and
imports need the ledger lock free, starting and finishing a run do not, and
whatever writes a table needs the write transaction free; a backup and a capture
keep each other out.  A run is named by the request and the prediction it was
drawn for, and observes the window frozen in that request (`Observes`).

Processes die one by one; the power cut, which ends captures, runs and backup at
once, is in `Capture` only.  `LedgerWriter.write`, which registers the run of a
draft without looking at its window, is called from tests only, and `Parameters`
leaves drafts out.  `CapturedBlind`, `RunsHavePredictions` and
`BackupFindsFiles` are what the parts promise only together.

### Workflow

One row per workflow, one handler per browser tab.  Handlers commit the intention
(`submitting`), call, and commit the outcome; `calls` are the calls the backend
may still execute, also after the handler timed out.  `Restart` kills every
handler and runs `recover_abandoned_workflows`; `ServeTwice` is the same recovery
run by a second `serve` that only then finds the socket taken.  `frozen` and
`receipt` are kept after a row is deleted so that properties can speak of it.
The ledger side is `AtomicLedger`'s: bind once per key, answer a repeat with the
binding, refuse anything else; that the console makes of it no more than that is
`ConsoleImplementsAtomicLedger`.

### Watcher

The module follows one path, the record or the snapshot of one prediction
(`followed`), because the watcher keeps everything per path.  A file holds good,
altered (parsed, but not what was committed) or damaged contents, and its
fingerprint is a counter that every change increments.  The observer takes
notifications from `events`, which the platform may lose; the reconciler reads
the file (`scanned`), then what is known, then submits.  Both end in `Normalize`
(under `_known_lock`) and `Submit` (under the debouncer's lock), as separate
steps.  A timer thread is a worker: it takes the pending event and goes through
`_dispatch_record` and `check_record`, or `_dispatch_snapshot` and
`handle_managed_violation`, one read or write of shared state at a time.  The
writer's protocol is reduced to publishing the snapshot, the record and the row,
or withdrawing them in the order of `rollback`.  Evidence is edited after the
commit only; what happens before it is `Capture`'s subject.  `verdict` is
history: whether the last event was judged (sound), dropped before anybody
judged the file (missed), or accepted as the writer's own creation although the
snapshot was already rewritten (masked).  `edits`, also history, holds the
contents the editor has left.  The last two are limits of the code
that its properties name as exceptions.

### RateLimit and Sessions

`events` is the limiter's table of queues and `inFlight` its set of slots; what
the code does under the limiter's lock is one step.  `hit` reads the clock before
it takes the lock, so an action takes any reading made since its caller's
previous step (`since`, `Readings`); for the session store, which reads the wall
clock, the reading may moreover lie up to `MaxSkew` in the past (`WallReadings`).
Establishing a session runs on the event loop, one at a time, so the next one
reads the clock after the last one is done with the limiter (`loop`).

A request is a caller with a `pc` that goes through `__call__` of the security
middleware: turned away, looked up (missing, another's, expired, overtaken,
valid), passed through the session gate, swept, created, checked for its CSRF
token, handled, answered.  Each database transaction is one step.  The browser
holds one cookie (`jar`) and the sessions whose forms are on open pages
(`forms`); the identity comes from the ingress and may change between requests.
`LookupOvertaken` is the trigger that refuses to move a session's time back.
`Restart` loses the limiter and keeps the rows.  `issued` and `admitted` are
history.

`GatesHold` allows one attempt beyond the limit: a caller that read the clock
early can be overtaken by one that prunes with a later reading, and two calls of
one item are never inside the limiter together.  The confirmation and retry
gates, whose items are workflows and whose calls do overlap on threads, are not
modelled.

### Services

Every process (backend, bridge or console) runs once and is a record: its kind,
where it is, the schema it was released with, the token it accepts, the token it
found.  `lock`, `schema`, `token`, `descriptor`, `tunnel` and `socket` are what
they share.  Each system call that another process can observe is a step, and
each may fail as the code lets it fail; `Kill` ends a process anywhere and leaves
its files.  The client reads the descriptor and, in a later step, the token.
The service manager, which empties the runtime directory of a stopped unit, the
operating system and the ssh child are external.  All bridges lead to one remote
backend, whose token stays; a bridge to another remote that meets the ssh child
of an earlier one is not modelled.

### Reads

`Query` is `list_committed_predictions`: the clauses and the keyset condition
(`Matching`), the order by commit time and identifier, and the limit.  The order
is stated by place: a row's `Rank` is the number of matching rows before it, and
the page has at place `i` the row of rank `i`.  `List`, `Snapshot` (the read
transaction), `Files` (record, schema, snapshot, run, result) and `Page` are the
steps of `list_predictions`; `Detail` enters at `Snapshot`.  The ledger commits,
with any time, resolves, records results, quarantines and is damaged between any
two steps.  The cursor is the sort key and identifier of the last item; its
signature and the binding to its filters are the guard of `NextPage`.  `shown`,
`steady` and `known` are history.  A row whose status is none of those a failed
summary knows would end the query; the registry's constraints admit none.

## Runs of the model checker

| Run | Bounds | Shows |
|---|---|---|
| `capture_concurrent` | 2 processes, 2 keys, 2 requests with overlapping windows, 2 ids, 2 observations, 2 faults (raise, crash) | types, `ExactlyOnce`, `BoundWhileFresh`, refinement of `AtomicLedger` |
| `capture_files` | 1 process, 1 draft id that may be tried again, 4 faults of every kind | `CommittedHasArtifacts`, `DebrisHasManifest`, `NeverOverwritesForeign`, `ManifestsAreFollowed` |
| `capture_debris` | 1 process, 1 capture and 1 draft id, 2 faults (raise, crash) | violated: `RecoveredLedgerIsClean` |
| `capture_powercut` | 1 process, 1 key, 2 ids, 2 power cuts | violated: `RecoveredRecordsAreCommitted` |
| `runs` | 2 invocations under 1 key, 3 requests (two for the captured run), one run of each origin, 2 documents of one external run, 2 faults, a backup beside them | the six safety properties of `Runs`, `BackupIsWhole`, `EveryInvocationEnds` |
| `backup_active` | `Ledger` with 1 capture, 1 invocation of its run, 1 backup, no faults | violated: `BackupHasNoActiveRun` |
| `workflow` | 1 workflow, 2 tabs, 2 inputs, 3 calls, 2 drafts, 2 faults | six safety properties and `SubmissionSettles` |
| `watcher` | either path, 2 timer threads, 1 edit, failed write or failed dispatch, 2 queued notifications | `DamageIsQuarantined`, `RecordQuarantineIsEarned`, `DamageIsFound` |
| `watcher_false` | 1 timer thread, nothing goes wrong | violated: `OnlyChangesAreQuarantined` |
| `sessions` | 2 overlapping requests, 3 in all, 1 browser, 2 identities, 2 sessions, clock 0..3, idle lifetime 2, absolute 3, window 2, 2 items in the table, clock set back by 1 | `ActsAsItself`, `SessionsRunOut`, `GatesHold`, `SlotHasOneHolder` |
| `services` | 3 processes of any kind, 2 releases | `SocketStands`, `DiscoveredTokenWorks`, `SchemasStand`, `StopIsHonoured` |
| `reads` | 4 predictions, 2 commit times, pages of 1, batches of 2, 2 changes | `WalkIsExact`, `VerifiedIsCurrent` |

Why the bounds are enough to be interesting: a race needs two actors and one
shared object, so two processes (tabs) on one key or run reach every
interleaving of two critical sections; a second key and an overlapping window
let a capture lose to another one's run.  In `runs` the one key is bound to the
captured or to the exploratory run, and both invocations, a retry with another
command and the imports meet on it.  File faults act on one attempt and on
the recovery after it, so one process with four faults covers a failure, a
crash during its clean-up, a power cut during the recovery from that, and an
edit; the id can be tried again, so the leavings of one attempt meet the next.
One edit is enough for the watcher because each of its verdicts concerns the
contents at one moment; the writer's own publications are further changes of the
path.  In `sessions` the idle lifetime is 2, so that a session is used and
extended before it runs out, and the clock reaches the absolute lifetime of 3;
expiry by either, a full window and a full table all happen within three
requests.  In `services` three processes are a predecessor that left
its files, its successor, and one that competes with it.  In `reads` four
predictions over two commit times make ties, several pages, and a page that
needs two queries.  Symmetry is used for processes, ids, and the callers,
identities and sessions of `sessions`, in runs without liveness only.  The
`workflow`, `watcher` and `services` runs do not check for deadlock: bounded
calls and drafts let the console come to rest, a stopped watcher has nothing left
to do, and all processes may have ended.

Violations are kept as findings because the repository says otherwise:

1. *Rollback and debris.*  `StagedWrite.rollback` removes the manifest before the
   published files.  A crash in between leaves files that recovery never finds;
   the README promises that the next writer removes any uncommitted debris.
2. *Recovery and power cuts.*  Recovery fsyncs neither directory.  Record and
   manifest lie in different ones, so a power cut after a completed recovery may
   bring back the record and not the manifest; the record of a prediction nobody
   committed then stays.  The README's promise speaks of machine crashes too.
3. *Backup and active runs.*  The check for running runs and the copy are not
   atomic with respect to `start_run`.
4. *False quarantine.*  `reconcile` reads the files before it reads what is known
   of them.  A snapshot that the observer learns of in between is taken for a
   deleted one, and the untouched prediction is quarantined, which is terminal.
   The same race on a record makes the watcher forget a file that exists: if the
   record is then removed before the next pass, nobody notices, which is why
   `DamageIsFound` speaks of files the watcher knows.

Behaviours of the models that a reader of the code should know of, without a run
of their own:

* `rollback` believes its published flags and unlinks the path even when an
  editor has replaced the file (`Capture`, `Owned` and `RollbackList`); its
  docstring speaks of artifacts proven to belong to the staged write.
* `integrity_error` is terminal for the console, and the backend answers it for
  committed predictions too (`Workflow`, `FailureState`); the page then says that
  the request was rejected.
* A backend killed between creating and filling its token leaves an empty file
  that every later start refuses (`Services`, `ReadToken`).
* The bridge handles Ctrl-C and not SIGTERM: a bridge that is terminated leaves
  its descriptor and its ssh child (`Services`, `Kill`), until another start
  replaces the one and the connection of the other breaks.
* A console whose socket path was left by a killed predecessor refuses to start
  until the runtime directory is emptied (`Services`, `Inspect`).

## Fairness

`Capture`: weak fairness of each process's progress once it has started an
attempt, which is the operating system's scheduling of a live process; waiting
for the lock is bounded by the code's timeout, itself an action, so no strong
fairness is needed.  That writers keep coming and get the lock is
nothing the code can promise: it is the hypothesis of `ManifestsAreFollowed`, and
faults are bounded in number.  `Runs`, checked beside the
backup: weak fairness of each wrapper, and of the end of
each child, an assumption about MSM and not about this code (the wrapper waits
without a timeout).  `Workflow`: weak fairness of each handler, whose call ends
because the client has a deadline.  `Watcher`: weak fairness of the observer's and
the reconciler's loop and of each timer thread, all of them live threads until
the watcher is stopped; no notification has to arrive.  `Services`: weak fairness
of each process that has been started; nobody has to start, signal or kill one.
`RateLimit`, `Sessions` and `Reads` make no liveness claim and assume none.  Starting work, faults, the backend and users
are never fair.

## What is proved

For any sets of processes, keys, requests, ids, workflows, identities,
predictions and so on, any number of faults and any page size, that is for every
value of the constants that satisfies the assumptions:

| Module | Theorem | Statement |
|---|---|---|
| `CaptureProofs` | `TypeCorrect` | `Spec => []TypeOK` |
| | `CommittedIsReadable` | `Spec => []CommittedHasArtifacts` |
| | `CapturedOnce` | `Spec => []ExactlyOnce` |
| | `DebrisIsNamed` | `Spec => []DebrisHasManifest` |
| | `BindsOnceWhileFresh` | `Spec => BoundWhileFresh` (steps) |
| | `EditorsAreRespected` | `Spec => NeverOverwritesForeign` (steps) |
| | `ImplementsAtomicLedger` | `Spec => RefinesAtomicLedger` |
| `RunsProofs` | `TypeCorrect` | `Spec => []TypeOK` |
| | `NoDuplicateProcess` | `Spec => []LaunchedAtMostOnce` |
| | `RowsStayCurrent` | `Spec => []LeasedRowIsCurrent` |
| | `CompletionIsEarned` | `Spec => []CompletedMeansSuccess` |
| | `AnswersAreFinal` | `Spec => []AnswersStand` |
| | `RegistrationIsBlind` | `Spec => RegisteredBlind` (steps) |
| | `RunsBesideBackup` | `BSpec => Spec`, where `BSpec` is `Backup`'s |
| | `BackupWhole` | `BSpec => []BackupIsWhole` |
| `LedgerProofs` | `CapturesBesideRuns` | `LSpec => Spec`, where `Spec` is `Capture`'s |
| | `LedgerIsAtomic` | `LSpec => RefinesAtomicLedger` |
| | `RunsBesideCaptures` | `LSpec => B!BSpec`, where `BSpec` is `Backup`'s |
| | `CapturesAreBlind` | `LSpec => CapturedBlind` (steps) |
| | `RowsComeTogether` | `LSpec => []RunsHavePredictions` |
| | `BackupsFindFiles` | `LSpec => []BackupFindsFiles` |
| `WorkflowProofs` | `TypeCorrect` | `Spec => []TypeOK` |
| | `ReplayIsExact` | `Spec => []ReplaysExactly` |
| | `ClaimsAreExclusive` | `Spec => []OneCallAtATime` |
| | `ReceiptsAreTrue` | `Spec => []ReceiptIsTrue` |
| | `CapturesAreReconciled` | `Spec => []CapturedIsReconciled` |
| | `CancellationHolds` | `Spec => []CancelledIsNeverCaptured` |
| | `ConsoleImplementsAtomicLedger` | `Spec => ConsoleIsAtomic` |
| `WatcherProofs` | `TypeCorrect` | `Spec => []TypeOK` |
| | `BadFilesAreQuarantined` | `Spec => []DamageIsQuarantined` |
| | `RecordQuarantinesAreEarned` | `Spec => []RecordQuarantineIsEarned` |
| `SessionsProofs` | `TypeCorrect` | `Spec => []TypeOK` |
| | `NobodyActsForAnother` | `Spec => []ActsAsItself` |
| | `SlotIsHeldOnce` | `Spec => []SlotHasOneHolder` |
| | `WindowsHold` | `Spec => []GatesHold` |
| | `SessionsEnd` | `Spec => SessionsRunOut` (steps) |
| `ServicesProofs` | `TypeCorrect` | `Spec => []TypeOK` |
| | `SocketsStand` | `Spec => []SocketStands` |
| | `DiscoveryWorks` | `Spec => DiscoveredTokenWorks` (steps) |
| | `SchemasNeverChange` | `Spec => SchemasStand` (steps) |
| `ReadsProofs` | `TypeCorrect` | `Spec => []TypeOK` |
| | `WalksAreExact` | `Spec => []WalkIsExact` |
| | `VerifiedRowsAreCurrent` | `Spec => VerifiedIsCurrent` (steps) |

The assumptions are the named ones of the modules.  They say that `None` and the
other markers are none of the values they stand apart from, that bounds are
natural numbers, and what the code guarantees of its parameters: windows are
sets of observations, drawn uuids are no draft ids, a run has one origin, a
resolution is not a quarantine, the limiter knows the two gates of every
identity, limits, windows, page and batch sizes are positive, and an idle
lifetime is shorter than the absolute one.  The theorems of `LedgerProofs` have
the hypothesis `Parameters`, which says of `Ledger`'s constants what `Runs`
assumes of its own, and that there are no drafts.  Nothing is assumed about the
sizes of the sets.

### How the arguments go

No safety property is inductive by itself.  Each proof module has an invariant
`IInv` that is; lemmas show that every action preserves each of its conjuncts,
and the theorems follow.  TLC confirmed each `IInv` on an instance before it was
proved (346,556 states for `Runs`, 461,836 for `Workflow`, 719,397 for
`Watcher`, 753,212 for `Sessions`, 174,480 for `Services`, 290,976 for `Reads`
with three predictions, 182,302 for the second invariant of `Capture` with four
faults on one id and 109,512 with two faults on two ids).  It also confirmed the two refinements and the three properties of
`Ledger` on 1,544,849 states (one capture that may crash, a preregistered and an
exploratory run request, an import, a backup), and `ConsoleIsAtomic` on the
instance of the run `workflow`.

* **Capture.**  That a committed prediction has its files depends on how far the
  committing process had got on disk and what a power cut could still undo
  (`FilesInv`), and on nobody having such a file on its list of removals
  (`TodoInv`), which in turn depends on ids being committed by one process only
  (`IdInv`).  That the window is still fresh at commit depends on the write
  transaction excluding `Touch` (`LockInv`, `KeyInv`).  That an answer is right
  depends on what a process knows when it leaves (`BoundInv`, `AnswerInv`).
  Refinement uses the identity mapping: `Commit` and `CommitLands` are `Register`
  or `WriteDraft`, `Leave` with ok is `Answer`, `Touch` is `Observe`, everything
  else stutters.
* **Debris.**  A second invariant, `DInv`, on top of `IInv`.  The writer's files
  follow its position, and from the manifest's fsync on the manifest survives a
  power cut (`StagedInv`).  A list of removals covers everything of its id that
  is on disk, and recovery takes the manifest last (`CleanInv`); rollback covers
  a published file because its flag is set or because it still is the inode of
  its temporary file (`RollbackListCovers`).  What a power cut could bring back
  is named by a manifest that it would bring back too, or belongs to an id whose
  removal has begun (`DurableInv`).  A committed prediction has no temporary file
  that could come back (`TempsInv`), which is why finalize and recovery may drop
  its manifest.  A manifest that names a file on disk is itself durable
  (`LastingInv`), and what a recovery has still to follow is there and not being
  removed yet (`PassInv`).  The theorem exempts `torn` and `undone`, which are the
  subjects of the first two violations.
* **Runs.**  A wrapper acts on what an earlier transaction read.  It holds the
  lease of its run from taking it to its return (`LeaseIsHeld`), the run exists
  and stays bound to its key (`InvocationIsBound`, `BindingsAreUnique`,
  `BoundRunExists`), and launches, exits and touched windows go with the state of
  the row (`LaunchedWhenRunning`, `OutcomeIsTrue`, `StartedIsTouched`).
* **Backup.**  `RunsBesideBackup` shows that the composition implements `Runs`,
  so that every theorem of `RunsProofs` holds beside a backup.  A backup is whole
  because rows of predictions appear only under the lock it holds from one copy
  to the other.
* **Ledger.**  The invariant `Joint` is the invariants of `Capture` and of `Runs`
  with `LockIsShared` and `RunsHavePredictions`.  Neither half stands alone.  A
  commit is a registration because `Capture`'s invariant says that its window is
  still fresh and its id new, so that no run has it yet; a step of the runs is a
  `Touch`, or nothing, because the write transaction is free when a table is
  written.  From there the invariants carry each other (`JointStep`) and each
  specification is implemented, so the theorems about the parts hold of the
  whole.  `CapturedBlind` joins the two: what was launched had its window touched
  (`Runs`), and what is bound finds it untouched (`Capture`).  A backup finds the
  files because a run row has its prediction (`RunsHavePredictions`), a
  prediction its files (`FilesInv`), and rows and copy agree under the lock.
  The proof asked for two corrections of `Capture`: a window is touched whole,
  not one observation at a time, and a wait for the lock can time out although
  no capture holds it.
* **Workflow.**  Nothing was ever called for a workflow that is still open to
  revision or cancelled (`NotYetSubmitted`); an answer that waits to be recorded
  is what the ledger holds (`RepliesAreTrue`); what was called is kept as safely
  as what was captured (`CalledIsReconciled`); claims and rows go together unless
  a second server recovered the rows of a live one (`ClaimsFit`).  For the
  refinement a workflow stands for its key and its prediction; `Captures` is
  `Register`, `RecordReceipt` is `Answer` because the reply is what the ledger
  holds, and everything else stutters.
* **Watcher.**  After the commit only the editor changes a file (`Committed`),
  and an edit takes the verdict back, so a verdict that stands belongs to a
  dispatch that began after the last edit.  As long as the file is bad and the
  row not quarantined, some thread has still to read the file or has found it bad
  (`StillJudged`).  That a quarantine for an event of a record is earned is a
  statement about what a timer thread has read of it: as long as no edit spoilt
  the files they are as the writer left them, and no verdict against them is on
  its way (`Earned`).
* **Sessions.**  A request keeps the tie to the session it was attached to while
  other requests end and replace sessions (`AttachedFits`), the three times of a
  row hang together (`RowsFit`), and a slot knows its holder (`SlotFits`).
* **Windows.**  The queue of an item is the end of all the stamps it was
  admitted with, and what is no longer in the queue had expired by the last
  reading that pruned it.  So two stamps that lie as many attempts apart as the
  limit and one more lie a window apart (`Spaced`), and a window holds at most
  one attempt beyond the limit.  For that to last, whoever reads the clock for
  an item next must read it after the item's last stamp was taken (`GatesFit`):
  the event loop has finished the last call, and an extraction takes its reading
  with the slot of its identity in hand.  An earlier version of `Sessions` let
  the loop read the clock before its last call was done; the proof failed there,
  TLC found calls overtaken several times, and the model was corrected to what
  the loop does.
* **Services.**  Only the holder of the process lock writes the token and the
  descriptor, so the token file holds what the process accepts from the moment it
  has a token (`TokenStands`).  What comes before the lock and beside it is
  exclusive by link and bind alone (`SchemaIsSeen`, `SocketIsBound`).  That only
  a backend handles signals (`FlagsFit`) was missing from the first invariant;
  the proof asked for it.
* **Reads.**  What a walk has shown, matched and listed is one descending
  sequence (`Sorted`) at or above its cursor (`AboveCursor`), and everything it
  could show all along is in that sequence or still below the cursor
  (`SteadyIsCovered`).  Sort keys never change, so what others commit, resolve,
  quarantine or damage leaves that order alone.  The lemmas about the query
  (`OrderIsTotal`, `RankIsPlace`, `QueryIsRight`) show that ranks number the
  matching rows without gaps and that no two rows share one.

### Only model-checked

* Liveness: `ManifestsAreFollowed`, `EveryInvocationEnds`, `SubmissionSettles`,
  `DamageIsFound`, `StopIsHonoured`.  The prover has no rules for fairness.
* The four violations, which are counterexamples.

The theorems of `LedgerProofs` and `ConsoleImplementsAtomicLedger` go the other
way: they are proved and belong to no run; TLC checked their statements on the
instances named above.

## Plan

Done: `AtomicLedger`, `Capture`, `Runs`, `Backup`, `Workflow`, `Watcher`,
`RateLimit`, `Sessions`, `Services`, `Reads`, their composition in `Ledger`, and
proofs of all their safety properties.  Next, in this order:

1. The power cut in `Ledger`, which needs what a machine crash does to wrappers,
   their children and a backup.
2. The confirmation and retry gates over `Workflow`'s handlers.
3. The other managed paths of the watcher.

## Not modelled

Contents of records, snapshots, envelopes and evidence, and their hashing and
validation; HTML, forms and configuration; the extraction call; argument
parsing; schema migrations; deployment scripts.  Restoring a backup.  These are
listed in `PROJECT.json` with the reasons.
