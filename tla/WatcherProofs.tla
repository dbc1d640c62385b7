--------------------------- MODULE WatcherProofs ---------------------------
(***************************************************************************)
(* Proofs about module Watcher, for any number of timer threads, edits,    *)
(* lost notifications and failures.                                        *)
(*                                                                         *)
(* The argument for quarantine: once a row is committed only the editor    *)
(* changes a file (Committed), and an edit takes the verdict back.  A      *)
(* verdict that stands therefore belongs to a dispatch that began after    *)
(* the last edit, and as long as the file is bad and the row is not        *)
(* quarantined some thread has still to read the file, or has already      *)
(* found it bad (StillJudged).  The other way round, a thread that follows *)
(* a record reads the row before it reads the files, and so finds them as  *)
(* the writer left them while no edit has spoilt them (Earned).            *)
(***************************************************************************)
EXTENDS Watcher, TLAPS

(* The writer has published both files before it commits, and nobody else  *)
(* touches them until then.                                                *)
Committed ==
    /\ row = "none" <=> write # "done"
    /\ write = "snapshot" => content["snapshot"] = "good"
    /\ write = "record" => \A k \in Kinds : content[k] = "good"

(* A thread follows the steps of the path's kind; past the row there is a  *)
(* row, and a record that is to be judged was found bad.                   *)
JobsFit ==
    \A w \in Workers :
      /\ followed = "record" => job[w].step \notin {"managed", "violation"}
      /\ followed = "snapshot" => job[w].step \in {"idle", "managed", "violation"}
      /\ job[w].step \in {"record", "snapshot", "judge"} => row # "none"
      /\ job[w].step = "judge" => job[w].bad

(* A thread that will read the file, or has found it bad. *)
Judging(w) ==
    \/ job[w].step \in {"identify", "row", "record", "managed", "violation"}
    \/ job[w].step \in {"snapshot", "judge"} /\ job[w].bad

StillJudged ==
    verdict = "sound" /\ row \notin {"none", "quarantined"} /\ content[followed] # "good" =>
        \E w \in Workers : Judging(w)

(* Nobody has spoilt a file of the prediction. *)
Intact == edits \subseteq {"good"}

(* The files of a committed prediction nobody has spoilt verify, and so no *)
(* thread that reads them finds them bad.                                  *)
Earned ==
    /\ row # "none" /\ Intact => \A k \in Kinds : content[k] = "good"
    /\ followed = "record" /\ Intact =>
         \A w \in Workers : job[w].step \in {"snapshot", "judge"} => ~job[w].bad
    /\ followed = "record" /\ Intact => row # "quarantined"

IInv == TypeOK /\ Committed /\ JobsFit /\ StillJudged /\ Earned

----------------------------------------------------------------------------
(* Types. *)

(* A changed file has contents, a later stamp and perhaps a notification.   *)
LEMMA ChangeTypes ==
  ASSUME TypeOK, NEW k \in Kinds, NEW c \in Contents, NEW kind \in Raw, Change(k, c, kind)
  PROVE  content' \in [Kinds -> Contents] /\ stamp' \in Nat /\ events' \in Seq(Raw)
<1>1. content' \in [Kinds -> Contents]
  BY DEF TypeOK, Change
<1>2. stamp' \in Nat
  BY DEF TypeOK, Change
<1>3. events' \in Seq(Raw)
  <2>1. events \in Seq(Raw)
    BY DEF TypeOK
  <2>2. Append(events, kind) \in Seq(Raw)
    BY <2>1
  <2>3. events' = events \/ events' = Append(events, kind)
    BY DEF Change
  <2> QED
    BY <2>1, <2>2, <2>3
<1> QED
  BY <1>1, <1>2, <1>3

(* So it is with one the writer takes back. *)
LEMMA UnlinkTypes ==
  ASSUME TypeOK, NEW k \in Kinds, Unlink(k)
  PROVE  content' \in [Kinds -> Contents] /\ stamp' \in Nat /\ events' \in Seq(Raw)
<1>1. CASE content[k] = "none"
  BY <1>1 DEF Unlink, TypeOK
<1>2. CASE content[k] # "none"
  BY <1>2, ChangeTypes DEF Unlink, Contents, Raw
<1> QED
  BY <1>1, <1>2

(* A thread that goes on keeps what it has found, and no other moves. *)
LEMMA GoToJob ==
  ASSUME TypeOK, NEW w \in Workers, job[w].step # "idle", NEW to \in Steps, GoTo(w, to)
  PROVE  /\ job' \in [Workers -> Job \cup {Idle}]
         /\ job'[w].step = to /\ job'[w].bad = job[w].bad
         /\ \A v \in Workers \ {w} : job'[v] = job[v]
<1> DEFINE j == [job[w] EXCEPT !.step = to, !.change = "none"]
<1>1. job[w] \in Job
  BY DEF TypeOK, Idle
<1>2. j \in Job /\ j.step = to /\ j.bad = job[w].bad
  BY <1>1 DEF Job
<1>3. job' = [job EXCEPT ![w] = j]
  BY DEF GoTo, Do
<1> HIDE DEF j
<1> QED
  BY <1>2, <1>3 DEF TypeOK

(* So it is with what a verification has found. *)
LEMMA FoundJob ==
  ASSUME TypeOK, NEW w \in Workers, job[w].step # "idle", NEW to \in Steps, NEW b \in BOOLEAN,
         Do(w, [job[w] EXCEPT !.step = to, !.bad = b])
  PROVE  /\ job' \in [Workers -> Job \cup {Idle}]
         /\ job'[w].step = to /\ job'[w].bad = b
         /\ \A v \in Workers \ {w} : job'[v] = job[v]
<1> DEFINE j == [job[w] EXCEPT !.step = to, !.bad = b]
<1>1. job[w] \in Job
  BY DEF TypeOK, Idle
<1>2. j \in Job /\ j.step = to /\ j.bad = b
  BY <1>1 DEF Job
<1>3. job' = [job EXCEPT ![w] = j]
  BY DEF Do
<1> HIDE DEF j
<1> QED
  BY <1>2, <1>3 DEF TypeOK

(* A thread that is done with its job has none to answer for.              *)
LEMMA IdleJob ==
  ASSUME TypeOK, NEW w \in Workers, Do(w, Idle)
  PROVE  /\ job' \in [Workers -> Job \cup {Idle}]
         /\ job'[w].step = "idle"
         /\ \A v \in Workers \ {w} : job'[v] = job[v]
  BY DEF TypeOK, Do, Idle

(* What the reading of the record leads to. *)
LEMMA VerifyRecordJob ==
  ASSUME TypeOK, NEW w \in Workers, VerifyRecord(w)
  PROVE  /\ job' \in [Workers -> Job \cup {Idle}]
         /\ job'[w].step \in {"snapshot", "judge"} /\ job'[w].bad = (content["record"] # "good")
         /\ job'[w].step = "judge" => content["record"] \in {"none", "damaged"}
         /\ \A v \in Workers \ {w} : job'[v] = job[v]
<1>1. job[w].step = "record"
  BY DEF VerifyRecord, At
<1>2. CASE content["record"] \in {"none", "damaged"}
  <2>1. Do(w, [job[w] EXCEPT !.step = "judge", !.bad = content["record"] # "good"])
    BY <1>2 DEF VerifyRecord
  <2> QED
    BY <1>1, <1>2, <2>1, FoundJob DEF Steps
<1>3. CASE content["record"] \notin {"none", "damaged"}
  <2>1. Do(w, [job[w] EXCEPT !.step = "snapshot", !.bad = content["record"] # "good"])
    BY <1>3 DEF VerifyRecord
  <2> QED
    BY <1>1, <1>3, <2>1, FoundJob DEF Steps
<1> QED
  BY <1>2, <1>3

(* Every step keeps the types of the variables. *)
LEMMA TypeStep == IInv /\ [Next]_vars => TypeOK'
<1> SUFFICES ASSUME IInv, [Next]_vars PROVE TypeOK'
  OBVIOUS
<1> USE DEF IInv, vault, watcher, counts, TypeOK
<1>1. CASE PublishSnapshot
  <2>1. content' \in [Kinds -> Contents] /\ stamp' \in Nat /\ events' \in Seq(Raw)
    BY <1>1, ChangeTypes DEF PublishSnapshot, Kinds, Contents, Raw
  <2> QED
    BY <1>1, <2>1 DEF PublishSnapshot, Advance, Trouble
<1>2. CASE PublishRecord
  <2>1. content' \in [Kinds -> Contents] /\ stamp' \in Nat /\ events' \in Seq(Raw)
    BY <1>2, ChangeTypes DEF PublishRecord, Kinds, Contents, Raw
  <2> QED
    BY <1>2, <2>1 DEF PublishRecord, Advance, Trouble
<1>3. CASE CommitRow
  BY <1>3 DEF CommitRow, Advance, Kinds, Threads, Contents, Statuses, Raw, Changes,
        Steps, Job, Idle
<1>4. CASE Withdraw
  <2>1. content' \in [Kinds -> Contents] /\ stamp' \in Nat /\ events' \in Seq(Raw)
    BY <1>4, UnlinkTypes DEF Withdraw, Kinds, Contents, Raw
  <2> QED
    BY <1>4, <2>1 DEF Withdraw, Advance, Trouble
<1>5. CASE WithdrawSnapshot
  <2>1. content' \in [Kinds -> Contents] /\ stamp' \in Nat /\ events' \in Seq(Raw)
    BY <1>5, UnlinkTypes DEF WithdrawSnapshot, Kinds, Contents, Raw
  <2> QED
    BY <1>5, <2>1 DEF WithdrawSnapshot, Advance, Trouble
<1>6. ASSUME NEW s \in Resolutions, Resolve(s)
      PROVE  TypeOK'
  BY <1>6, ResolutionsAssumption DEF Resolve, Kinds, Threads, Contents, Statuses, Raw,
        Changes, Steps, Job, Idle
<1>7. ASSUME NEW k \in Kinds, NEW c \in Contents, NEW kind \in Raw, Edit(k, c, kind)
      PROVE  TypeOK'
  <2>1. content' \in [Kinds -> Contents] /\ stamp' \in Nat /\ events' \in Seq(Raw)
    BY <1>7, ChangeTypes DEF Edit, Kinds, Contents, Raw
  <2> QED
    BY <1>7, <2>1 DEF Edit, Advance, Trouble
<1>8. CASE Start
  BY <1>8 DEF Start, Fingerprint, Kinds, Threads, Contents, Statuses, Raw, Changes,
        Steps, Job, Idle
<1>9. CASE Notify
  BY <1>9 DEF Notify, Fingerprint, Free, Kinds, Threads, Contents, Statuses, Raw,
        Changes, Steps, Job, Idle
<1>10. ASSUME NEW t \in Threads, Normalize(t)
      PROVE  TypeOK'
  BY <1>10 DEF Normalize, Normalized, Kinds, Threads, Contents, Statuses, Raw,
        Changes, Steps, Job, Idle
<1>11. ASSUME NEW t \in Threads, Submit(t)
      PROVE  TypeOK'
  BY <1>11 DEF Submit, Merged, Kinds, Threads, Contents, Statuses, Raw, Changes,
        Steps, Job, Idle
<1>12. CASE ReconcileScan
  BY <1>12 DEF ReconcileScan, Fingerprint, Free, Kinds, Threads, Contents, Statuses,
        Raw, Changes, Steps, Job, Idle
<1>13. CASE ReconcileCompare
  BY <1>13 DEF ReconcileCompare, Kinds, Threads, Contents, Statuses, Raw, Changes,
        Steps, Job, Idle
<1>14. CASE ReconcileSubmit
  BY <1>14 DEF ReconcileSubmit, Fingerprint, Free, Kinds, Threads, Contents, Statuses,
        Raw, Changes, Steps, Job, Idle
<1>15. ASSUME NEW w \in Workers, Fire(w)
      PROVE  TypeOK'
  BY <1>15 DEF Fire, Do, At, GoTo, Kinds, Threads, Contents, Statuses, Raw, Changes,
        Steps, Job, Idle
<1>16. ASSUME NEW w \in Workers, Identify(w)
      PROVE  TypeOK'
  <2>1. job' \in [Workers -> Job \cup {Idle}]
    BY <1>16, GoToJob, IdleJob DEF Identify, At, Drop, Steps
  <2> QED
    BY <1>16, <2>1 DEF Identify, JobStep, Drop
<1>17. ASSUME NEW w \in Workers, CheckRow(w)
      PROVE  TypeOK'
  <2>1. job' \in [Workers -> Job \cup {Idle}]
    BY <1>17, GoToJob, IdleJob DEF CheckRow, At, Drop, Steps
  <2> QED
    BY <1>17, <2>1 DEF CheckRow, JobStep, Drop
<1>18. ASSUME NEW w \in Workers, VerifyRecord(w)
      PROVE  TypeOK'
  <2>1. job' \in [Workers -> Job \cup {Idle}]
    BY <1>18, VerifyRecordJob DEF VerifyRecord, At, Drop, Steps
  <2> QED
    BY <1>18, <2>1 DEF VerifyRecord, JobStep
<1>19. ASSUME NEW w \in Workers, VerifySnapshot(w)
      PROVE  TypeOK'
  <2>1. job' \in [Workers -> Job \cup {Idle}]
    BY <1>19, FoundJob, IdleJob DEF VerifySnapshot, At, Drop, Steps
  <2> QED
    BY <1>19, <2>1 DEF VerifySnapshot, JobStep
<1>20. ASSUME NEW w \in Workers, Judge(w)
      PROVE  TypeOK'
  BY <1>20 DEF Judge, Do, At, JobStep, GoTo, Kinds, Threads, Contents, Statuses, Raw,
        Changes, Steps, Job, Idle
<1>21. ASSUME NEW w \in Workers, DispatchSnapshot(w)
      PROVE  TypeOK'
  <2>1. job' \in [Workers -> Job \cup {Idle}]
    BY <1>21, GoToJob, IdleJob DEF DispatchSnapshot, At, Drop, Steps
  <2> QED
    BY <1>21, <2>1 DEF DispatchSnapshot, JobStep, Drop
<1>22. ASSUME NEW w \in Workers, HandleViolation(w)
      PROVE  TypeOK'
  <2>1. job' \in [Workers -> Job \cup {Idle}]
    BY <1>22, IdleJob DEF HandleViolation, Drop
  <2> QED
    BY <1>22, <2>1 DEF HandleViolation, JobStep, Drop, Statuses
<1>23. ASSUME NEW w \in Workers, JobFails(w)
      PROVE  TypeOK'
  BY <1>23 DEF JobFails, Trouble, JobStep, Drop, Do, At, GoTo, Kinds, Threads,
        Contents, Statuses, Raw, Changes, Steps, Job, Idle
<1>24. ASSUME NEW flush \in BOOLEAN, Stop(flush)
      PROVE  TypeOK'
  BY <1>24 DEF Stop, Free, Kinds, Threads, Contents, Statuses, Raw, Changes, Steps,
        Job, Idle
<1>25. CASE UNCHANGED vars
  BY <1>25 DEF vars
<1> QED
  BY <1>1, <1>2, <1>3, <1>4, <1>5, <1>6, <1>7, <1>8, <1>9, <1>10, <1>11,
     <1>12, <1>13, <1>14, <1>15, <1>16, <1>17, <1>18, <1>19, <1>20, <1>21, <1>22,
     <1>23, <1>24, <1>25
     DEF Next, Vault, Observe, Reconcile, Work, Threads

(* The row is committed once, after its files. *)
LEMMA CommittedStep == IInv /\ [Next]_vars => Committed'
<1> SUFFICES ASSUME IInv, [Next]_vars PROVE Committed'
  OBVIOUS
<1> USE DEF IInv, vault, watcher, counts, TypeOK, Committed
<1>1. CASE PublishSnapshot
  BY <1>1 DEF PublishSnapshot, Change, Advance, Kinds, Statuses
<1>2. CASE PublishRecord
  BY <1>2 DEF PublishRecord, Change, Advance, Kinds, Statuses
<1>3. CASE CommitRow
  BY <1>3 DEF CommitRow, Advance, Kinds, Statuses
<1>4. CASE Withdraw
  BY <1>4 DEF Withdraw, Trouble, Unlink, Advance, Change, Kinds, Statuses
<1>5. CASE WithdrawSnapshot
  BY <1>5 DEF WithdrawSnapshot, Unlink, Advance, Change, Kinds, Statuses
<1>6. ASSUME NEW s \in Resolutions, Resolve(s)
      PROVE  Committed'
  BY <1>6, ResolutionsAssumption DEF Resolve, Kinds, Statuses
<1>7. ASSUME NEW k \in Kinds, NEW c \in Contents, NEW kind \in Raw, Edit(k, c, kind)
      PROVE  Committed'
  BY <1>7 DEF Edit, Trouble, Change, Kinds, Statuses
<1>8. CASE Start
  BY <1>8 DEF Start
<1>9. CASE Notify
  BY <1>9 DEF Notify
<1>10. ASSUME NEW t \in Threads, Normalize(t)
      PROVE  Committed'
  BY <1>10 DEF Normalize
<1>11. ASSUME NEW t \in Threads, Submit(t)
      PROVE  Committed'
  BY <1>11 DEF Submit
<1>12. CASE ReconcileScan
  BY <1>12 DEF ReconcileScan
<1>13. CASE ReconcileCompare
  BY <1>13 DEF ReconcileCompare
<1>14. CASE ReconcileSubmit
  BY <1>14 DEF ReconcileSubmit
<1>15. ASSUME NEW w \in Workers, Fire(w)
      PROVE  Committed'
  BY <1>15 DEF Fire
<1>16. ASSUME NEW w \in Workers, Identify(w)
      PROVE  Committed'
  BY <1>16 DEF Identify, JobStep
<1>17. ASSUME NEW w \in Workers, CheckRow(w)
      PROVE  Committed'
  BY <1>17 DEF CheckRow, JobStep
<1>18. ASSUME NEW w \in Workers, VerifyRecord(w)
      PROVE  Committed'
  BY <1>18 DEF VerifyRecord, JobStep
<1>19. ASSUME NEW w \in Workers, VerifySnapshot(w)
      PROVE  Committed'
  BY <1>19 DEF VerifySnapshot, JobStep
<1>20. ASSUME NEW w \in Workers, Judge(w)
      PROVE  Committed'
  BY <1>20 DEF Judge, At, JobStep, JobsFit
<1>21. ASSUME NEW w \in Workers, DispatchSnapshot(w)
      PROVE  Committed'
  BY <1>21 DEF DispatchSnapshot, JobStep
<1>22. ASSUME NEW w \in Workers, HandleViolation(w)
      PROVE  Committed'
  BY <1>22 DEF HandleViolation, JobStep
<1>23. ASSUME NEW w \in Workers, JobFails(w)
      PROVE  Committed'
  BY <1>23 DEF JobFails, Trouble, JobStep
<1>24. ASSUME NEW flush \in BOOLEAN, Stop(flush)
      PROVE  Committed'
  BY <1>24 DEF Stop
<1>25. CASE UNCHANGED vars
  BY <1>25 DEF vars
<1> QED
  BY <1>1, <1>2, <1>3, <1>4, <1>5, <1>6, <1>7, <1>8, <1>9, <1>10, <1>11,
     <1>12, <1>13, <1>14, <1>15, <1>16, <1>17, <1>18, <1>19, <1>20, <1>21, <1>22,
     <1>23, <1>24, <1>25
     DEF Next, Vault, Observe, Reconcile, Work, Threads

(* A thread takes the steps of its path's kind. *)
LEMMA JobsStep == IInv /\ [Next]_vars => JobsFit'
<1> SUFFICES ASSUME IInv, [Next]_vars PROVE JobsFit'
  OBVIOUS
<1> USE DEF IInv, vault, watcher, counts, JobsFit
<1>1. CASE PublishSnapshot
  BY <1>1 DEF PublishSnapshot, Advance
<1>2. CASE PublishRecord
  BY <1>2 DEF PublishRecord, Advance
<1>3. CASE CommitRow
  BY <1>3 DEF CommitRow, Advance
<1>4. CASE Withdraw
  BY <1>4 DEF Withdraw, Advance
<1>5. CASE WithdrawSnapshot
  BY <1>5 DEF WithdrawSnapshot, Advance
<1>6. ASSUME NEW s \in Resolutions, Resolve(s)
      PROVE  JobsFit'
  BY <1>6, ResolutionsAssumption DEF Resolve, Statuses
<1>7. ASSUME NEW k \in Kinds, NEW c \in Contents, NEW kind \in Raw, Edit(k, c, kind)
      PROVE  JobsFit'
  BY <1>7 DEF Edit
<1>8. CASE Start
  BY <1>8 DEF Start
<1>9. CASE Notify
  BY <1>9 DEF Notify
<1>10. ASSUME NEW t \in Threads, Normalize(t)
      PROVE  JobsFit'
  BY <1>10 DEF Normalize
<1>11. ASSUME NEW t \in Threads, Submit(t)
      PROVE  JobsFit'
  BY <1>11 DEF Submit
<1>12. CASE ReconcileScan
  BY <1>12 DEF ReconcileScan
<1>13. CASE ReconcileCompare
  BY <1>13 DEF ReconcileCompare
<1>14. CASE ReconcileSubmit
  BY <1>14 DEF ReconcileSubmit
<1>15. ASSUME NEW w \in Workers, Fire(w)
      PROVE  JobsFit'
  BY <1>15 DEF Fire, Do, Kinds, TypeOK
<1>16. ASSUME NEW w \in Workers, Identify(w)
      PROVE  JobsFit'
  <2>1. /\ job'[w].step \in {"idle", "row"} \/ (row # "none" /\ job'[w].step = "record")
        /\ \A v \in Workers \ {w} : job'[v] = job[v]
    BY <1>16, GoToJob, IdleJob DEF Identify, At, Drop, Steps, JobStep
  <2>2. UNCHANGED followed /\ (row # "none" => row' # "none")
    BY <1>16 DEF Identify, JobStep
  <2> QED
    BY <1>16, <2>1, <2>2 DEF Identify, At
<1>17. ASSUME NEW w \in Workers, CheckRow(w)
      PROVE  JobsFit'
  <2>1. /\ job'[w].step = "idle" \/ (row # "none" /\ job'[w].step = "record")
        /\ \A v \in Workers \ {w} : job'[v] = job[v]
    BY <1>17, GoToJob, IdleJob DEF CheckRow, At, Drop, Steps, JobStep
  <2>2. UNCHANGED followed /\ (row # "none" => row' # "none")
    BY <1>17 DEF CheckRow, JobStep
  <2> QED
    BY <1>17, <2>1, <2>2 DEF CheckRow, At
<1>18. ASSUME NEW w \in Workers, VerifyRecord(w)
      PROVE  JobsFit'
  <2>1. /\ job'[w].step \in {"snapshot", "judge"} /\ (job'[w].step = "judge" => job'[w].bad)
        /\ \A v \in Workers \ {w} : job'[v] = job[v]
    BY <1>18, VerifyRecordJob DEF VerifyRecord, At, Drop, Steps, JobStep
  <2>2. UNCHANGED followed /\ (row # "none" => row' # "none")
    BY <1>18 DEF VerifyRecord, JobStep
  <2> QED
    BY <1>18, <2>1, <2>2 DEF VerifyRecord, At
<1>19. ASSUME NEW w \in Workers, VerifySnapshot(w)
      PROVE  JobsFit'
  <2>1. /\ job'[w].step = "idle" \/ (job'[w].step = "judge" /\ job'[w].bad)
        /\ \A v \in Workers \ {w} : job'[v] = job[v]
    BY <1>19, FoundJob, IdleJob DEF VerifySnapshot, At, Steps
  <2>2. UNCHANGED <<followed, row>>
    BY <1>19 DEF VerifySnapshot, JobStep
  <2> QED
    BY <1>19, <2>1, <2>2 DEF VerifySnapshot, At
<1>20. ASSUME NEW w \in Workers, Judge(w)
      PROVE  JobsFit'
  <2>1. /\ job'[w].step = "idle"
        /\ \A v \in Workers \ {w} : job'[v] = job[v]
    BY <1>20, IdleJob DEF Judge, At, Drop, Steps, JobStep
  <2>2. UNCHANGED followed /\ (row # "none" => row' # "none")
    BY <1>20 DEF Judge, JobStep
  <2> QED
    BY <1>20, <2>1, <2>2 DEF Judge, At
<1>21. ASSUME NEW w \in Workers, DispatchSnapshot(w)
      PROVE  JobsFit'
  <2>1. /\ job'[w].step \in {"idle", "violation"}
        /\ \A v \in Workers \ {w} : job'[v] = job[v]
    BY <1>21, GoToJob, IdleJob DEF DispatchSnapshot, At, Drop, Steps, JobStep
  <2>2. UNCHANGED followed /\ (row # "none" => row' # "none")
    BY <1>21 DEF DispatchSnapshot, JobStep
  <2> QED
    BY <1>21, <2>1, <2>2 DEF DispatchSnapshot, At
<1>22. ASSUME NEW w \in Workers, HandleViolation(w)
      PROVE  JobsFit'
  <2>1. /\ job'[w].step = "idle"
        /\ \A v \in Workers \ {w} : job'[v] = job[v]
    BY <1>22, IdleJob DEF HandleViolation, At, Drop, Steps, JobStep
  <2>2. UNCHANGED followed /\ (row # "none" => row' # "none")
    BY <1>22 DEF HandleViolation, JobStep
  <2> QED
    BY <1>22, <2>1, <2>2 DEF HandleViolation, At
<1>23. ASSUME NEW w \in Workers, JobFails(w)
      PROVE  JobsFit'
  <2>1. /\ job'[w].step = "idle"
        /\ \A v \in Workers \ {w} : job'[v] = job[v]
    BY <1>23, IdleJob DEF JobFails, At, Drop, Steps, JobStep
  <2>2. UNCHANGED followed /\ (row # "none" => row' # "none")
    BY <1>23 DEF JobFails, JobStep
  <2> QED
    BY <1>23, <2>1, <2>2 DEF JobFails, At
<1>24. ASSUME NEW flush \in BOOLEAN, Stop(flush)
      PROVE  JobsFit'
  BY <1>24 DEF Stop
<1>25. CASE UNCHANGED vars
  BY <1>25 DEF vars
<1> QED
  BY <1>1, <1>2, <1>3, <1>4, <1>5, <1>6, <1>7, <1>8, <1>9, <1>10, <1>11,
     <1>12, <1>13, <1>14, <1>15, <1>16, <1>17, <1>18, <1>19, <1>20, <1>21, <1>22,
     <1>23, <1>24, <1>25
     DEF Next, Vault, Observe, Reconcile, Work, Threads

(* As long as a verdict stands, somebody is still judging a bad file. *)
LEMMA JudgedStep == IInv /\ [Next]_vars => StillJudged'
<1> SUFFICES ASSUME IInv, [Next]_vars PROVE StillJudged'
  OBVIOUS
<1> USE DEF IInv, vault, watcher, counts, StillJudged, Judging
<1>1. CASE PublishSnapshot
  BY <1>1 DEF PublishSnapshot, Advance, Committed
<1>2. CASE PublishRecord
  BY <1>2 DEF PublishRecord, Advance, Committed
<1>3. CASE CommitRow
  BY <1>3 DEF CommitRow, Advance, Committed, TypeOK
<1>4. CASE Withdraw
  BY <1>4 DEF Withdraw, Advance, Committed
<1>5. CASE WithdrawSnapshot
  BY <1>5 DEF WithdrawSnapshot, Advance, Committed
<1>6. ASSUME NEW s \in Resolutions, Resolve(s)
      PROVE  StillJudged'
  BY <1>6 DEF Resolve
<1>7. ASSUME NEW k \in Kinds, NEW c \in Contents, NEW kind \in Raw, Edit(k, c, kind)
      PROVE  StillJudged'
  BY <1>7 DEF Edit
<1>8. CASE Start
  BY <1>8 DEF Start
<1>9. CASE Notify
  BY <1>9 DEF Notify
<1>10. ASSUME NEW t \in Threads, Normalize(t)
      PROVE  StillJudged'
  BY <1>10 DEF Normalize
<1>11. ASSUME NEW t \in Threads, Submit(t)
      PROVE  StillJudged'
  BY <1>11 DEF Submit
<1>12. CASE ReconcileScan
  BY <1>12 DEF ReconcileScan
<1>13. CASE ReconcileCompare
  BY <1>13 DEF ReconcileCompare
<1>14. CASE ReconcileSubmit
  BY <1>14 DEF ReconcileSubmit
<1>15. ASSUME NEW w \in Workers, Fire(w)
      PROVE  StillJudged'
  <2>1. Judging(w)'
    BY <1>15 DEF Fire, Do, TypeOK
  <2> QED
    BY <2>1
<1>16. ASSUME NEW w \in Workers, Identify(w)
      PROVE  StillJudged'
  <2>1. /\ row # "none" => job'[w].step = "record"
        /\ \A v \in Workers \ {w} : job'[v] = job[v]
    BY <1>16, GoToJob, IdleJob DEF Identify, At, Drop, Steps
  <2>2. UNCHANGED <<followed, content, row, verdict>> \/ row' = "none" \/ verdict' = "missed"
    BY <1>16 DEF Identify, JobStep, Drop
  <2> QED
    BY <2>1, <2>2
<1>17. ASSUME NEW w \in Workers, CheckRow(w)
      PROVE  StillJudged'
  <2>1. /\ row # "none" => job'[w].step = "record"
        /\ \A v \in Workers \ {w} : job'[v] = job[v]
    BY <1>17, GoToJob, IdleJob DEF CheckRow, At, Drop, Steps
  <2>2. UNCHANGED <<followed, content, row, verdict>> \/ row' = "none" \/ verdict' = "missed"
    BY <1>17 DEF CheckRow, JobStep, Drop
  <2> QED
    BY <2>1, <2>2
<1>18. ASSUME NEW w \in Workers, VerifyRecord(w)
      PROVE  StillJudged'
  <2>1. /\ job'[w].step \in {"snapshot", "judge"} /\ job'[w].bad = (content["record"] # "good")
        /\ \A v \in Workers \ {w} : job'[v] = job[v]
    BY <1>18, VerifyRecordJob
  <2>2. followed = "record" /\ UNCHANGED <<followed, content, row, verdict>>
    BY <1>18 DEF VerifyRecord, At, JobStep, JobsFit, TypeOK, Kinds
  <2> QED
    BY <2>1, <2>2
<1>19. ASSUME NEW w \in Workers, VerifySnapshot(w)
      PROVE  StillJudged'
  <2>1. /\ Judging(w) => Judging(w)'
        /\ \A v \in Workers \ {w} : job'[v] = job[v]
    BY <1>19, FoundJob, IdleJob DEF VerifySnapshot, At, Steps
  <2>2. UNCHANGED <<followed, content, row, verdict>>
    BY <1>19 DEF VerifySnapshot, JobStep
  <2> QED
    BY <2>1, <2>2
<1>20. ASSUME NEW w \in Workers, Judge(w)
      PROVE  StillJudged'
  BY <1>20 DEF Judge
<1>21. ASSUME NEW w \in Workers, DispatchSnapshot(w)
      PROVE  StillJudged'
  <2>1. followed = "snapshot"
    BY <1>21 DEF DispatchSnapshot, At, JobsFit, TypeOK, Kinds
  <2>2. UNCHANGED <<followed, content, row>> /\ \A v \in Workers \ {w} : job'[v] = job[v]
    BY <1>21, GoToJob, IdleJob DEF DispatchSnapshot, JobStep, Drop, At, Steps
  <2>3. \/ job'[w].step = "violation" /\ UNCHANGED verdict
        \/ verdict' # "sound"
        \/ row = "none"
        \/ content["snapshot"] = "good"
    BY <1>21, GoToJob DEF DispatchSnapshot, Drop, At, Steps
  <2> QED
    BY <2>1, <2>2, <2>3
<1>22. ASSUME NEW w \in Workers, HandleViolation(w)
      PROVE  StillJudged'
  BY <1>22 DEF HandleViolation, Drop
<1>23. ASSUME NEW w \in Workers, JobFails(w)
      PROVE  StillJudged'
  BY <1>23 DEF JobFails, Drop
<1>24. ASSUME NEW flush \in BOOLEAN, Stop(flush)
      PROVE  StillJudged'
  BY <1>24 DEF Stop
<1>25. CASE UNCHANGED vars
  BY <1>25 DEF vars
<1> QED
  BY <1>1, <1>2, <1>3, <1>4, <1>5, <1>6, <1>7, <1>8, <1>9, <1>10, <1>11,
     <1>12, <1>13, <1>14, <1>15, <1>16, <1>17, <1>18, <1>19, <1>20, <1>21, <1>22,
     <1>23, <1>24, <1>25
     DEF Next, Vault, Observe, Reconcile, Work, Threads

----------------------------------------------------------------------------
(* What it takes to quarantine a prediction whose record is followed.       *)

(* A thread that touches no file and finds nothing bad earns nothing.      *)
LEMMA MovedEarned ==
  ASSUME IInv, NEW w \in Workers, UNCHANGED <<followed, row, content, edits>>,
         \A v \in Workers \ {w} : job'[v] = job[v],
         job'[w].step \in {"snapshot", "judge"} /\ followed = "record" /\ Intact => ~job'[w].bad
  PROVE  Earned'
  BY DEF IInv, Earned, Intact

(* No step finds an unspoilt file bad, or quarantines its prediction: a    *)
(* record is read again after its row is committed.                        *)
LEMMA EarnedStep == IInv /\ [Next]_vars => Earned'
<1> SUFFICES ASSUME IInv, [Next]_vars PROVE Earned'
  OBVIOUS
<1> USE DEF IInv, vault, watcher, counts, Earned, Intact
<1>1. CASE PublishSnapshot
  BY <1>1 DEF PublishSnapshot, Advance, Committed
<1>2. CASE PublishRecord
  BY <1>2 DEF PublishRecord, Advance, Committed
<1>3. CASE CommitRow
  BY <1>3 DEF CommitRow, Advance, Committed
<1>4. CASE Withdraw
  BY <1>4 DEF Withdraw, Advance, Committed
<1>5. CASE WithdrawSnapshot
  BY <1>5 DEF WithdrawSnapshot, Advance, Committed
<1>6. ASSUME NEW s \in Resolutions, Resolve(s)
      PROVE  Earned'
  BY <1>6, ResolutionsAssumption DEF Resolve
<1>7. ASSUME NEW k \in Kinds, NEW c \in Contents, NEW kind \in Raw, Edit(k, c, kind)
      PROVE  Earned'
  BY <1>7 DEF Edit, Change, TypeOK
<1>8. CASE Start
  BY <1>8 DEF Start
<1>9. CASE Notify
  BY <1>9 DEF Notify
<1>10. ASSUME NEW t \in Threads, Normalize(t)
      PROVE  Earned'
  BY <1>10 DEF Normalize
<1>11. ASSUME NEW t \in Threads, Submit(t)
      PROVE  Earned'
  BY <1>11 DEF Submit
<1>12. CASE ReconcileScan
  BY <1>12 DEF ReconcileScan
<1>13. CASE ReconcileCompare
  BY <1>13 DEF ReconcileCompare
<1>14. CASE ReconcileSubmit
  BY <1>14 DEF ReconcileSubmit
<1>15. ASSUME NEW w \in Workers, Fire(w)
      PROVE  Earned'
  <2>1. /\ job'[w].step \notin {"snapshot", "judge"}
        /\ \A v \in Workers \ {w} : job'[v] = job[v]
    BY <1>15 DEF Fire, Do, TypeOK
  <2> QED
    BY <1>15, <2>1, MovedEarned DEF Fire
<1>16. ASSUME NEW w \in Workers, Identify(w)
      PROVE  Earned'
  <2>1. /\ job'[w].step \notin {"snapshot", "judge"}
        /\ \A v \in Workers \ {w} : job'[v] = job[v]
    BY <1>16, GoToJob, IdleJob DEF Identify, At, Drop, Steps
  <2> QED
    BY <1>16, <2>1, MovedEarned DEF Identify, JobStep
<1>17. ASSUME NEW w \in Workers, CheckRow(w)
      PROVE  Earned'
  <2>1. /\ job'[w].step \notin {"snapshot", "judge"}
        /\ \A v \in Workers \ {w} : job'[v] = job[v]
    BY <1>17, GoToJob, IdleJob DEF CheckRow, At, Drop, Steps
  <2> QED
    BY <1>17, <2>1, MovedEarned DEF CheckRow, JobStep
<1>18. ASSUME NEW w \in Workers, VerifyRecord(w)
      PROVE  Earned'
  <2>1. /\ job'[w].bad = (content["record"] # "good")
        /\ \A v \in Workers \ {w} : job'[v] = job[v]
    BY <1>18, VerifyRecordJob
  <2>2. row # "none"
    BY <1>18 DEF VerifyRecord, At, JobsFit
  <2>3. Intact => content["record"] = "good"
    BY <2>2 DEF Kinds
  <2> QED
    BY <1>18, <2>1, <2>3, MovedEarned DEF VerifyRecord, JobStep
<1>19. ASSUME NEW w \in Workers, VerifySnapshot(w)
      PROVE  Earned'
  <2>1. row # "none" /\ (followed = "record" /\ Intact => ~job[w].bad)
    BY <1>19 DEF VerifySnapshot, At, JobsFit
  <2>2. Intact => content["snapshot"] = "good"
    BY <2>1 DEF Kinds
  <2>3. /\ followed = "record" /\ Intact => job'[w].step = "idle"
        /\ \A v \in Workers \ {w} : job'[v] = job[v]
    BY <1>19, <2>1, <2>2, FoundJob, IdleJob DEF VerifySnapshot, At, Steps
  <2> QED
    BY <1>19, <2>3, MovedEarned DEF VerifySnapshot, JobStep
<1>20. ASSUME NEW w \in Workers, Judge(w)
      PROVE  Earned'
  <2>1. ~(followed = "record" /\ Intact)
    BY <1>20 DEF Judge, At, JobsFit
  <2>2. row # "none"
    BY <1>20 DEF Judge, At, JobsFit
  <2> QED
    BY <1>20, <2>1, <2>2 DEF Judge, JobStep
<1>21. ASSUME NEW w \in Workers, DispatchSnapshot(w)
      PROVE  Earned'
  <2>1. followed = "snapshot"
    BY <1>21 DEF DispatchSnapshot, At, JobsFit, TypeOK, Kinds
  <2> QED
    BY <1>21, <2>1 DEF DispatchSnapshot, JobStep
<1>22. ASSUME NEW w \in Workers, HandleViolation(w)
      PROVE  Earned'
  <2>1. followed = "snapshot"
    BY <1>22 DEF HandleViolation, At, JobsFit, TypeOK, Kinds
  <2> QED
    BY <1>22, <2>1 DEF HandleViolation, JobStep
<1>23. ASSUME NEW w \in Workers, JobFails(w)
      PROVE  Earned'
  <2>1. job'[w].step = "idle" /\ \A v \in Workers \ {w} : job'[v] = job[v]
    BY <1>23, IdleJob DEF JobFails, Drop
  <2> QED
    BY <1>23, <2>1, MovedEarned DEF JobFails, JobStep
<1>24. ASSUME NEW flush \in BOOLEAN, Stop(flush)
      PROVE  Earned'
  BY <1>24 DEF Stop
<1>25. CASE UNCHANGED vars
  BY <1>25 DEF vars
<1> QED
  BY <1>1, <1>2, <1>3, <1>4, <1>5, <1>6, <1>7, <1>8, <1>9, <1>10, <1>11,
     <1>12, <1>13, <1>14, <1>15, <1>16, <1>17, <1>18, <1>19, <1>20, <1>21, <1>22,
     <1>23, <1>24, <1>25
     DEF Next, Vault, Observe, Reconcile, Work, Threads

(* The initial state satisfies the invariant. *)
LEMMA InitIInv == Init => IInv
<1> SUFFICES ASSUME Init PROVE IInv
  OBVIOUS
<1>1. TypeOK
  <2>1. events \in Seq(Raw) /\ scanned \in Seq(Nat)
    BY DEF Init
  <2>2. look \in [Threads -> (Raw \X Nat) \cup {<<>>}] /\ job \in [Workers -> Job \cup {Idle}]
    BY DEF Init
  <2>3. content \in [Kinds -> Contents] /\ normal \in [Threads -> Changes \cup {"none"}]
    BY DEF Init, Contents
  <2> QED
    BY <2>1, <2>2, <2>3 DEF Init, TypeOK
<1>2. Committed /\ JobsFit /\ StillJudged /\ Earned
  BY DEF Init, Committed, JobsFit, StillJudged, Earned, Idle, Kinds
<1> QED
  BY <1>1, <1>2 DEF IInv

(* The inductive invariant of the watcher holds throughout.                *)
LEMMA IInvariant == Spec => []IInv
<1>1. IInv /\ [Next]_vars => IInv'
  BY TypeStep, CommittedStep, JobsStep, JudgedStep, EarnedStep DEF IInv
<1> QED
  BY InitIInv, <1>1, PTL DEF Spec

(* Every variable keeps its type: no change is normalised, merged or        *)
(* dispatched to something the watcher does not know.                       *)
THEOREM TypeCorrect == Spec => []TypeOK
<1>1. IInv => TypeOK
  BY DEF IInv
<1> QED
  BY IInvariant, <1>1, PTL

(* Once the watcher has caught up, a bad file of a committed prediction     *)
(* means quarantine, however many timer threads judged it and in which      *)
(* order (watcher.py, _dispatch; record_integrity.py).                      *)
THEOREM BadFilesAreQuarantined == Spec => []DamageIsQuarantined
<1>1. ASSUME IInv PROVE DamageIsQuarantined
  <2> SUFFICES ASSUME CaughtUp, row # "none", content[followed] # "good", verdict = "sound",
                      row # "quarantined"
               PROVE  FALSE
    BY DEF DamageIsQuarantined
  <2>1. PICK w \in Workers : Judging(w)
    BY <1>1 DEF IInv, StillJudged
  <2>2. job[w] = Idle
    BY DEF CaughtUp
  <2> QED
    BY <2>1, <2>2 DEF Judging, Idle
<1> QED
  BY IInvariant, <1>1, PTL

(* The prediction of a record is quarantined only if an edit spoilt its     *)
(* evidence, whatever was reported of the record and in which order         *)
(* (record_integrity.py, check_record).                                     *)
THEOREM RecordQuarantinesAreEarned == Spec => []RecordQuarantineIsEarned
<1>1. IInv => RecordQuarantineIsEarned
  BY DEF IInv, Earned, Intact, RecordQuarantineIsEarned
<1> QED
  BY IInvariant, <1>1, PTL
=============================================================================
