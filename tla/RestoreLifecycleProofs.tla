----------------------- MODULE RestoreLifecycleProofs -----------------------
(***************************************************************************)
(* Proofs about RestoreLifecycle for any set of jobs, any number of index  *)
(* batches and any number of restarts.                                     *)
(***************************************************************************)
EXTENDS RestoreLifecycle, SequenceTheorems, TLAPS

USE DEF NonTerminal, Terminal, InRustic

-----------------------------------------------------------------------------
(* Lemmas *)

\* A run belongs to a job.
LEMMA RunJob == \A r \in Runs : JobOf(r) \in Jobs
  BY DEF Runs, JobOf

\* Each job has the run of Initiate and the run of the reconciliation.
LEMMA JobRuns ==
    ASSUME NEW j \in Jobs
    PROVE  /\ <<j, "initiate">> \in Runs /\ JobOf(<<j, "initiate">>) = j
           /\ <<j, "resume">> \in Runs   /\ JobOf(<<j, "resume">>) = j
  BY DEF Runs, JobOf

\* The actions of Next, each with the run or the job that takes it.
LEMMA StepCases ==
    ASSUME Next
    PROVE  \/ \E r \in Runs : RunStep(r)
           \/ \E r \in Runs : HookStep(r)
           \/ \E r \in Runs : DeadlinePasses(r)
           \/ \E j \in Jobs : ReconcileRow(j)
           \/ \E j \in Jobs : Notify(j)
           \/ \E j \in Jobs : Initiate(j)
           \/ \E j \in Jobs : DeleteSnapshot(j)
           \/ ReconcileSelect
           \/ Restart
  BY DEF Next, Work, Environment

-----------------------------------------------------------------------------
(* Type correctness *)

Status == {"absent"} \cup NonTerminal \cup Terminal

Error == {"none", "unsubmitted", "other"}

\* A row with one of its columns rewritten is a row.
LEMMA RowFields ==
    ASSUME NEW w \in Row, NEW s \in Status, NEW e \in Error, NEW b \in BOOLEAN
    PROVE  /\ [w EXCEPT !.status = s] \in Row
           /\ [w EXCEPT !.status = s, !.error = e] \in Row
           /\ [w EXCEPT !.batchJob = b] \in Row
           /\ [w EXCEPT !.batchJob = b, !.status = s] \in Row
           /\ [w EXCEPT !.notified = b] \in Row
           /\ [w EXCEPT !.finished = b] \in Row
           /\ [w EXCEPT !.snap = b] \in Row
  BY DEF Row, Status, Error

LEMMA SetStatusType ==
    ASSUME row \in [Jobs -> Row], NEW j \in Jobs,
           NEW s \in Status, NEW e \in Error, SetStatus(j, s, e)
    PROVE  row' \in [Jobs -> Row]
<1>1. [row[j] EXCEPT !.status = s, !.error = e] \in Row
  BY RowFields
<1>2. row' = [row EXCEPT ![j] = [row[j] EXCEPT !.status = s, !.error = e]]
  BY DEF SetStatus
<1>. QED
  BY <1>1, <1>2

\* The statements that write one column, and the hook's, which writes two.
LEMMA StatementType ==
    ASSUME row \in [Jobs -> Row], NEW j \in Jobs,
           NEW s \in Status, NEW b \in BOOLEAN,
           \/ row' = [row EXCEPT ![j].status = s]
           \/ row' = [row EXCEPT ![j].batchJob = b]
           \/ row' = [row EXCEPT ![j].batchJob = b, ![j].status = s]
           \/ row' = [row EXCEPT ![j].notified = b]
           \/ row' = [row EXCEPT ![j].finished = b]
           \/ row' = [row EXCEPT ![j].snap = b]
    PROVE  row' \in [Jobs -> Row]
<1>1. PICK w \in Row : row' = [row EXCEPT ![j] = w]
  BY RowFields, "none" \in Error DEF Error
<1>. QED
  BY <1>1

LEMMA TypeInit == Init => TypeOK
<1>. SUFFICES ASSUME Init PROVE TypeOK
  OBVIOUS
<1>1. NoRow \in Row
  BY DEF NoRow, Row
<1>2. need \in [Jobs -> Nat]
  BY IndexAssumption DEF Init
<1>. QED
  BY <1>1, <1>2 DEF Init, TypeOK, Stations

\* What the two steps that write to the pipe do, their lines read as a type.
LEMMA Appended ==
    ASSUME TypeOK, NEW r \in Runs, NEW l \in {"id", "sentinel"}
    PROVE  [lines EXCEPT ![r] = Append(@, l)] \in [Runs -> Seq({"id", "sentinel"})]
<1>1. lines \in [Runs -> Seq({"id", "sentinel"})]
  BY DEF TypeOK
<1>2. Append(lines[r], l) \in Seq({"id", "sentinel"})
  BY <1>1, AppendProperties
<1>. QED
  BY <1>1, <1>2

LEMMA SubmitEffect ==
    ASSUME TypeOK, NEW r \in Runs, SubmitBatch(r)
    PROVE  /\ lines' \in [Runs -> Seq({"id", "sentinel"})]
           /\ Goto(r, "warm", "wait")
           /\ batch[r] < need[JobOf(r)]
           /\ UNCHANGED <<row, total, batch, expired, hook, recVars, outbox,
                          restarts, need, histVars>>
<1>1. lines' = [lines EXCEPT ![r] = Append(@, "id")]
  BY DEF SubmitBatch
<1>2. lines' \in [Runs -> Seq({"id", "sentinel"})]
  BY <1>1, Appended
<1>. QED
  BY <1>2 DEF SubmitBatch

LEMMA ThawTyped ==
    ASSUME TypeOK, NEW r \in Runs, NEW from, NEW to \in Stations,
           BatchThawed(r, from, to)
    PROVE  TypeOK'
<1>1. \/ lines' = [lines EXCEPT ![r] = Append(@, "sentinel")]
      \/ lines' = lines
  BY DEF BatchThawed
<1>2. lines' \in [Runs -> Seq({"id", "sentinel"})]
  BY <1>1, Appended DEF TypeOK
<1>3. PICK b \in BOOLEAN : thawed' = [thawed EXCEPT ![JobOf(r)] = b]
  BY DEF BatchThawed
<1>4. thawed' \in [Jobs -> BOOLEAN]
  BY <1>3 DEF TypeOK
<1>5. pc' \in [Runs -> Stations] /\ batch' \in [Runs -> Nat]
  <2>1. /\ pc' = [pc EXCEPT ![r] = to]
        /\ batch' = [batch EXCEPT ![r] = batch[r] + 1]
    BY DEF BatchThawed, Goto
  <2>2. batch[r] + 1 \in Nat
    BY DEF TypeOK
  <2>. QED
    BY <2>1, <2>2 DEF TypeOK
<1>6. UNCHANGED <<row, total, expired, hook, recVars, outbox, restarts, need,
                  fellBack, restored, lost, notices>>
  BY DEF BatchThawed
<1>. QED
  BY <1>2, <1>4, <1>5, <1>6 DEF TypeOK, recVars

LEMMA TypeRunStep ==
    ASSUME TypeOK, NEW r \in Runs, RunStep(r) PROVE TypeOK'
<1>. USE RunJob DEF TypeOK, Stations, Goto
<1>1. CASE ComputeWarmupPlan(r)
  BY <1>1, IndexAssumption DEF ComputeWarmupPlan, recVars
<1>2. CASE Prepare(r)
  BY <1>2 DEF Prepare, recVars, histVars
<1>3. CASE RequestWarmup(r)
  <2>1. row' \in [Jobs -> Row]
    BY <1>3, SetStatusType DEF RequestWarmup, InTime, Status, Error
  <2>. QED
    BY <1>3, <2>1 DEF RequestWarmup, recVars, histVars
<1>4. CASE SubmitBatch(r)
  BY <1>4, SubmitEffect DEF recVars, histVars
<1>5. CASE ThawBatch(r)
  BY <1>5, ThawTyped DEF ThawBatch
<1>6. CASE OrphanThaws(r)
  BY <1>6, ThawTyped DEF OrphanThaws
<1>7. CASE StartDownload(r)
  BY <1>7 DEF StartDownload, recVars, histVars
<1>8. CASE FinishDownload(r)
  BY <1>8 DEF FinishDownload, recVars
<1>9. CASE RusticFails(r) \/ RusticDies(r)
  BY <1>9 DEF RusticFails, RusticDies, recVars, histVars
<1>10. CASE StampCompletedAt(r)
  <2>1. row' \in [Jobs -> Row]
    BY <1>10, StatementType DEF StampCompletedAt, InTime, Status, Error
  <2>. QED
    BY <1>10, <2>1 DEF StampCompletedAt, recVars, histVars
<1>11. CASE MarkCompleted(r)
  <2>1. row' \in [Jobs -> Row]
    BY <1>11, SetStatusType DEF MarkCompleted, InTime, Status, Error
  <2>2. lost' = [lost EXCEPT ![JobOf(r)] = TRUE] \/ lost' = lost
    BY <1>11 DEF MarkCompleted
  <2>3. lost' \in [Jobs -> BOOLEAN]
    BY <2>2
  <2>. QED
    BY <1>11, <2>1, <2>3 DEF MarkCompleted, Return, recVars
<1>12. CASE MarkFailed(r)
  <2>1. row' \in [Jobs -> Row]
    BY <1>12, SetStatusType DEF MarkFailed, Status, Error
  <2>. QED
    BY <1>12, <2>1 DEF MarkFailed, Return, recVars, histVars
<1>13. CASE ResumeLoad(r)
  <2>1. row' \in [Jobs -> Row]
    BY <1>13, SetStatusType DEF ResumeLoad, Status, Error
  <2>. QED
    BY <1>13, <2>1 DEF ResumeLoad, recVars, histVars
<1>14. CASE ResumeClear(r)
  <2>1. row' \in [Jobs -> Row]
    BY <1>14, StatementType DEF ResumeClear, Status, Error
  <2>. QED
    BY <1>14, <2>1 DEF ResumeClear, recVars, histVars
<1>. QED
  BY <1>1, <1>2, <1>3, <1>4, <1>5, <1>6, <1>7, <1>8, <1>9, <1>10, <1>11,
     <1>12, <1>13, <1>14 DEF RunStep

LEMMA TypeHookStep ==
    ASSUME TypeOK, NEW r \in Runs, HookStep(r) PROVE TypeOK'
<1>. USE RunJob DEF TypeOK
<1>1. CASE HookRecordsBatchJob(r)
  <2>1. row' \in [Jobs -> Row]
    BY <1>1, StatementType DEF HookRecordsBatchJob, InTime, Status, Error
  <2>2. lines' \in [Runs -> Seq({"id", "sentinel"})]
    BY <1>1 DEF HookRecordsBatchJob
  <2>3. UNCHANGED <<pc, total, batch, expired, hook, recon, reconRows, outbox,
                    restarts, need, histVars>>
    BY <1>1 DEF HookRecordsBatchJob, recVars
  <2>. QED
    BY <2>1, <2>2, <2>3 DEF histVars
<1>2. CASE HookSeesSentinel(r)
  <2>1. row' \in [Jobs -> Row]
    BY <1>2, SetStatusType DEF HookSeesSentinel, InTime, Status, Error
  <2>. QED
    BY <1>2, <2>1 DEF HookSeesSentinel, recVars, histVars
<1>3. CASE NotifyWarmupOnce(r)
  <2>1. row' \in [Jobs -> Row]
    BY <1>3, StatementType DEF NotifyWarmupOnce, Status, Error
  <2>. QED
    BY <1>3, <2>1 DEF NotifyWarmupOnce, recVars, histVars
<1>. QED
  BY <1>1, <1>2, <1>3 DEF HookStep

LEMMA TypeStep == TypeOK /\ [Next]_vars => TypeOK'
<1>. SUFFICES ASSUME TypeOK, [Next]_vars PROVE TypeOK'
  OBVIOUS
<1>. USE DEF runVars, recVars, histVars
<1>1. CASE \E r \in Runs : RunStep(r)
  BY <1>1, TypeRunStep
<1>2. CASE \E r \in Runs : HookStep(r)
  BY <1>2, TypeHookStep
<1>3. CASE \E r \in Runs : DeadlinePasses(r)
  BY <1>3 DEF DeadlinePasses, TypeOK, Stations
<1>4. CASE \E j \in Jobs : ReconcileRow(j)
  <2>. PICK j \in Jobs : ReconcileRow(j)
    BY <1>4
  <2>. QED
    BY JobRuns, SetStatusType
       DEF ReconcileRow, TypeOK, Stations, Status, Error
<1>5. CASE \E j \in Jobs : Notify(j)
  BY <1>5 DEF Notify, TypeOK
<1>6. CASE \E j \in Jobs : Initiate(j)
  <2>. PICK j \in Jobs : Initiate(j)
    BY <1>6
  <2>1. row' \in [Jobs -> Row]
    BY StatementType DEF Initiate, TypeOK, Status
  <2>. QED
    BY <2>1, JobRuns DEF Initiate, TypeOK, Stations
<1>7. CASE \E j \in Jobs : DeleteSnapshot(j)
  <2>. PICK j \in Jobs : DeleteSnapshot(j)
    BY <1>7
  <2>1. row' \in [Jobs -> Row]
    BY StatementType, "failed" \in Status DEF DeleteSnapshot, TypeOK, Status
  <2>. QED
    BY <2>1 DEF DeleteSnapshot, TypeOK
<1>8. CASE ReconcileSelect
  BY <1>8 DEF ReconcileSelect, TypeOK, Row
<1>9. CASE Restart
  BY <1>9, RestartAssumption DEF Restart, FreshProcess, TypeOK, Stations
<1>10. CASE UNCHANGED vars
  BY <1>10 DEF vars, TypeOK
<1>. QED
  BY <1>1, <1>2, <1>3, <1>4, <1>5, <1>6, <1>7, <1>8, <1>9, <1>10, StepCases

\* Every variable keeps its type: a row's status stays one of the statuses the
\* code declares, whatever statement of whatever run writes it.
THEOREM TypeCorrect == Spec => []TypeOK
  BY TypeInit, TypeStep, PTL DEF Spec
-----------------------------------------------------------------------------
(* One notification per job *)

\* What each statement does to the columns status and notified.
LEMMA StatementEffect ==
    ASSUME row \in [Jobs -> Row], NEW i \in Jobs, NEW j \in Jobs,
           NEW s \in Status, NEW e \in Error, NEW b \in BOOLEAN
    PROVE  /\ SetStatus(i, s, e) =>
                 /\ row'[j].status = IF i = j THEN s ELSE row[j].status
                 /\ row'[j].notified = row[j].notified
           /\ row' = [row EXCEPT ![i].status = s] =>
                 /\ row'[j].status = IF i = j THEN s ELSE row[j].status
                 /\ row'[j].notified = row[j].notified
           /\ row' = [row EXCEPT ![i].batchJob = b, ![i].status = s] =>
                 /\ row'[j].status = IF i = j THEN s ELSE row[j].status
                 /\ row'[j].notified = row[j].notified
           /\ row' = [row EXCEPT ![i].batchJob = b] =>
                 /\ row'[j].status = row[j].status
                 /\ row'[j].notified = row[j].notified
           /\ row' = [row EXCEPT ![i].finished = b] =>
                 /\ row'[j].status = row[j].status
                 /\ row'[j].notified = row[j].notified
           /\ row' = [row EXCEPT ![i].snap = b] =>
                 /\ row'[j].status = row[j].status
                 /\ row'[j].notified = row[j].notified
           /\ row' = [row EXCEPT ![i].notified = b] =>
                 /\ row'[j].status = row[j].status
                 /\ row'[j].notified = IF i = j THEN b ELSE row[j].notified
  BY DEF SetStatus, Row

\* A notification that was sent or is under way is covered by the row's claim,
\* and none is under way once one was sent.
ClaimedOnce ==
    \A j \in Jobs :
        /\ notices[j] \in {0, 1}
        /\ j \in outbox => notices[j] = 0 /\ ~ClaimIsFree(j)
        /\ notices[j] = 1 => ~ClaimIsFree(j)

\* No claim is made or lost.
KeepsClaims == \A j \in Jobs : ClaimIsFree(j)' = ClaimIsFree(j)

\* A claim, once made, stands: no step of a run touches it.
LEMMA RunStepKeepsClaims ==
    ASSUME TypeOK, NEW r \in Runs, RunStep(r)
    PROVE  KeepsClaims /\ UNCHANGED <<outbox, notices>>
<1>. USE RunJob, StatementEffect DEF TypeOK, Status, Error, KeepsClaims,
         ClaimIsFree
<1>1. CASE ComputeWarmupPlan(r)
  BY <1>1 DEF ComputeWarmupPlan
<1>2. CASE Prepare(r)
  BY <1>2 DEF Prepare, histVars
<1>3. CASE RequestWarmup(r)
  BY <1>3 DEF RequestWarmup, InTime, histVars
<1>4. CASE SubmitBatch(r)
  BY <1>4, SubmitEffect DEF histVars
<1>5. CASE ThawBatch(r) \/ OrphanThaws(r)
  BY <1>5 DEF ThawBatch, OrphanThaws, BatchThawed
<1>6. CASE StartDownload(r)
  BY <1>6 DEF StartDownload, histVars
<1>7. CASE FinishDownload(r)
  BY <1>7 DEF FinishDownload
<1>8. CASE RusticFails(r) \/ RusticDies(r)
  BY <1>8 DEF RusticFails, RusticDies, histVars
<1>9. CASE StampCompletedAt(r)
  BY ZenonT(60), <1>9 DEF StampCompletedAt, InTime, histVars
<1>10. CASE MarkCompleted(r)
  BY <1>10 DEF MarkCompleted, InTime, histVars
<1>11. CASE MarkFailed(r)
  BY <1>11 DEF MarkFailed, histVars
<1>12. CASE ResumeLoad(r)
  BY <1>12 DEF ResumeLoad, histVars
<1>13. CASE ResumeClear(r)
  BY <1>13 DEF ResumeClear, histVars
<1>. QED
  BY <1>1, <1>2, <1>3, <1>4, <1>5, <1>6, <1>7, <1>8, <1>9, <1>10, <1>11,
     <1>12, <1>13 DEF RunStep

LEMMA OtherStepsKeepClaims ==
    ASSUME TypeOK,
           \/ \E r \in Runs :
                 \/ HookRecordsBatchJob(r) \/ HookSeesSentinel(r)
                 \/ DeadlinePasses(r)
           \/ \E j \in Jobs :
                 ReconcileRow(j) \/ Initiate(j) \/ DeleteSnapshot(j)
           \/ ReconcileSelect
    PROVE  KeepsClaims /\ UNCHANGED <<outbox, notices>>
<1>. USE RunJob, StatementEffect DEF TypeOK, Status, Error, KeepsClaims,
         ClaimIsFree, histVars
<1>1. CASE \E r \in Runs : HookRecordsBatchJob(r)
  <2>. PICK r \in Runs : HookRecordsBatchJob(r)
    BY <1>1
  <2>1. \/ UNCHANGED row
        \/ row' = [row EXCEPT ![JobOf(r)].batchJob = TRUE,
                              ![JobOf(r)].status = "retrieval_in_progress"]
    BY DEF HookRecordsBatchJob, InTime
  <2>2. UNCHANGED <<outbox, notices>>
    BY DEF HookRecordsBatchJob
  <2>3. /\ JobOf(r) \in Jobs
        /\ "retrieval_in_progress" \in Status /\ "none" \in Error
    OBVIOUS
  <2>. HIDE DEF Status, Error
  <2>4. ASSUME NEW j \in Jobs PROVE row'[j].notified = row[j].notified
    <3>1. CASE UNCHANGED row
      BY <3>1
    <3>2. CASE row' = [row EXCEPT ![JobOf(r)].batchJob = TRUE,
                                 ![JobOf(r)].status = "retrieval_in_progress"]
      BY <2>3, <3>2
    <3>. QED
      BY <2>1, <3>1, <3>2
  <2>. QED
    BY <2>2, <2>4
<1>2. CASE \E r \in Runs : HookSeesSentinel(r)
  <2>. PICK r \in Runs : HookSeesSentinel(r)
    BY <1>2
  <2>1. UNCHANGED row \/ SetStatus(JobOf(r), "retrieval_complete", "none")
    BY DEF HookSeesSentinel, InTime
  <2>2. UNCHANGED <<outbox, notices>>
    BY DEF HookSeesSentinel
  <2>. QED
    BY <2>1, <2>2
<1>3. CASE \E r \in Runs : DeadlinePasses(r)
  BY <1>3 DEF DeadlinePasses
<1>4. CASE \E j \in Jobs : ReconcileRow(j)
  BY <1>4 DEF ReconcileRow
<1>5. CASE \E j \in Jobs : Initiate(j)
  <2>1. PICK i \in Jobs : row' = [row EXCEPT ![i].status = "queued"]
    BY <1>5 DEF Initiate
  <2>2. UNCHANGED <<outbox, notices>>
    BY <1>5 DEF Initiate
  <2>. QED
    BY <2>1, <2>2
<1>6. CASE \E j \in Jobs : DeleteSnapshot(j)
  <2>1. PICK i \in Jobs : row' = [row EXCEPT ![i].snap = FALSE]
    BY <1>6 DEF DeleteSnapshot
  <2>2. UNCHANGED <<outbox, notices>>
    BY <1>6 DEF DeleteSnapshot
  <2>. QED
    BY <2>1, <2>2
<1>7. CASE ReconcileSelect
  BY <1>7 DEF ReconcileSelect
<1>. QED
  BY <1>1, <1>2, <1>3, <1>4, <1>5, <1>6, <1>7

\* notifyWarmupOnce makes a claim that was free, and starts one notification.
LEMMA NotifyWarmupOnceClaims ==
    ASSUME TypeOK, NEW r \in Runs, NotifyWarmupOnce(r)
    PROVE  \/ KeepsClaims /\ UNCHANGED <<outbox, notices>>
           \/ /\ ClaimIsFree(JobOf(r))
              /\ \A j \in Jobs :
                    ClaimIsFree(j)' = (ClaimIsFree(j) /\ j # JobOf(r))
              /\ outbox' = outbox \cup {JobOf(r)}
              /\ UNCHANGED notices
<1>1. JobOf(r) \in Jobs /\ row \in [Jobs -> Row]
  BY RunJob DEF TypeOK
<1>2. CASE ~ClaimIsFree(JobOf(r))
  BY <1>2 DEF NotifyWarmupOnce, KeepsClaims, ClaimIsFree, histVars
<1>3. CASE ClaimIsFree(JobOf(r))
  <2>1. /\ row' = [row EXCEPT ![JobOf(r)].notified = TRUE]
        /\ outbox' = outbox \cup {JobOf(r)}
        /\ UNCHANGED notices
    BY <1>3 DEF NotifyWarmupOnce, histVars
  <2>2. \A j \in Jobs : row'[j].notified = IF JobOf(r) = j
                                           THEN TRUE ELSE row[j].notified
    BY <1>1, <2>1, StatementEffect, "none" \in Error, "failed" \in Status
       DEF Error, Status
  <2>3. \A j \in Jobs : ClaimIsFree(j)' = (ClaimIsFree(j) /\ j # JobOf(r))
    BY <2>2 DEF ClaimIsFree
  <2>. QED
    BY <1>3, <2>1, <2>3
<1>. QED
  BY <1>2, <1>3

LEMMA ClaimedOnceStep ==
    TypeOK /\ ClaimedOnce /\ [Next]_vars => ClaimedOnce'
<1>. SUFFICES ASSUME TypeOK, ClaimedOnce, [Next]_vars PROVE ClaimedOnce'
  OBVIOUS
<1>. USE DEF ClaimedOnce
<1>1. CASE KeepsClaims /\ UNCHANGED <<outbox, notices>>
  BY <1>1 DEF KeepsClaims
<1>2. CASE \E r \in Runs : NotifyWarmupOnce(r)
  <2>1. PICK r \in Runs : NotifyWarmupOnce(r)
    BY <1>2
  <2>. QED
    BY <1>1, <2>1, NotifyWarmupOnceClaims
<1>3. CASE \E j \in Jobs : Notify(j)
  BY <1>3 DEF Notify, TypeOK, ClaimIsFree
<1>4. CASE Restart
  BY <1>4 DEF Restart, FreshProcess, TypeOK, ClaimIsFree, histVars
<1>5. CASE UNCHANGED vars
  BY <1>5 DEF vars, histVars, ClaimIsFree
<1>. QED
  BY <1>1, <1>2, <1>3, <1>4, <1>5, RunStepKeepsClaims, OtherStepsKeepClaims,
     StepCases DEF HookStep

\* The user is told at most once that a job's packs are warm, however many
\* runs, restarts and resumed runs race for the claim.
THEOREM WarmupNotifiedOnce == Spec => []WarmupNotifiedAtMostOnce
<1>1. Init => ClaimedOnce
  <2>. SUFFICES ASSUME Init, NEW j \in Jobs
                PROVE  /\ notices[j] \in {0, 1}
                       /\ j \in outbox => notices[j] = 0 /\ ~ClaimIsFree(j)
                       /\ notices[j] = 1 => ~ClaimIsFree(j)
    BY Zenon DEF ClaimedOnce
  <2>. QED
    BY DEF Init
<1>2. ClaimedOnce => WarmupNotifiedAtMostOnce
  <2>. SUFFICES ASSUME ClaimedOnce, NEW j \in Jobs PROVE notices[j] <= 1
    BY DEF WarmupNotifiedAtMostOnce
  <2>. QED
    BY DEF ClaimedOnce
<1>. QED
  BY <1>1, <1>2, TypeCorrect, ClaimedOnceStep, PTL DEF Spec

-----------------------------------------------------------------------------
(* Completed means restored *)

\* A run that is about to record its success has written the files.
WrittenFirst ==
    \A r \in Runs : pc[r] \in {"exited", "mark"} => restored[JobOf(r)]

\* What a step must not do to the two: forget that files were written, have a
\* run exit or a row complete without them.
OnlyRestoredCompletes ==
    /\ \A j \in Jobs : restored[j] => restored'[j]
    /\ \A r \in Runs : pc'[r] \in {"exited", "mark"} =>
                           pc[r] \in {"exited", "mark"} \/ restored'[JobOf(r)]
    /\ \A j \in Jobs : row'[j].status = "completed" =>
                           row[j].status = "completed" \/ restored[j]

\* No row becomes completed.
NoneCompletes ==
    \A j \in Jobs : row'[j].status = "completed" => row[j].status = "completed"

LEMMA StatusCompletesNone ==
    ASSUME row \in [Jobs -> Row], NEW i \in Jobs,
           NEW s \in Status \ {"completed"}, NEW e \in Error,
           \/ UNCHANGED row
           \/ SetStatus(i, s, e)
           \/ row' = [row EXCEPT ![i].status = s]
           \/ row' = [row EXCEPT ![i].batchJob = TRUE, ![i].status = s]
    PROVE  NoneCompletes
<1>. SUFFICES ASSUME NEW j \in Jobs, row'[j].status = "completed"
              PROVE  row[j].status = "completed"
  BY DEF NoneCompletes
<1>1. s \in Status /\ s # "completed" /\ TRUE \in BOOLEAN
  OBVIOUS
<1>2. CASE UNCHANGED row
  BY <1>2
<1>3. CASE SetStatus(i, s, e)
  BY <1>1, <1>3 DEF SetStatus, Row
<1>4. CASE row' = [row EXCEPT ![i].status = s]
  BY <1>1, <1>4 DEF Row
<1>5. CASE row' = [row EXCEPT ![i].batchJob = TRUE, ![i].status = s]
  BY <1>1, <1>5 DEF Row
<1>. QED
  BY <1>2, <1>3, <1>4, <1>5

\* The statuses and errors that statements other than the completion write.
LEMMA WrittenValues ==
    /\ \A s \in NonTerminal \cup {"failed"} : s \in Status \ {"completed"}
    /\ "none" \in Error /\ "other" \in Error /\ "unsubmitted" \in Error
  BY DEF Status, Error

LEMMA ColumnCompletesNone ==
    ASSUME row \in [Jobs -> Row], NEW i \in Jobs, NEW b \in BOOLEAN,
           \/ UNCHANGED row
           \/ row' = [row EXCEPT ![i].batchJob = b]
           \/ row' = [row EXCEPT ![i].notified = b]
           \/ row' = [row EXCEPT ![i].finished = b]
           \/ row' = [row EXCEPT ![i].snap = b]
    PROVE  NoneCompletes
  BY ZenonT(60), StatementEffect, "failed" \in Status, "none" \in Error
     DEF NoneCompletes, Status, Error

LEMMA RunStepRestores ==
    ASSUME TypeOK, WrittenFirst, NEW r \in Runs, RunStep(r)
    PROVE  OnlyRestoredCompletes
<1>. USE RunJob
     DEF TypeOK, OnlyRestoredCompletes, Goto
<1>1. CASE ComputeWarmupPlan(r)
  BY <1>1 DEF ComputeWarmupPlan
<1>2. CASE Prepare(r)
  BY <1>2 DEF Prepare, histVars
<1>3. CASE RequestWarmup(r)
  <2>1. UNCHANGED row \/ SetStatus(JobOf(r), "warmup_requested", "none")
    BY <1>3 DEF RequestWarmup, InTime
  <2>2. NoneCompletes
    BY <2>1, StatusCompletesNone, WrittenValues, RunJob
  <2>. QED
    BY <1>3, <2>2 DEF NoneCompletes, RequestWarmup, histVars
<1>4. CASE SubmitBatch(r)
  BY <1>4, SubmitEffect DEF histVars
<1>5. CASE ThawBatch(r) \/ OrphanThaws(r)
  BY <1>5 DEF ThawBatch, OrphanThaws, BatchThawed
<1>6. CASE StartDownload(r)
  BY <1>6 DEF StartDownload, histVars
<1>7. CASE FinishDownload(r)
  BY <1>7 DEF FinishDownload
<1>8. CASE RusticFails(r) \/ RusticDies(r)
  BY <1>8 DEF RusticFails, RusticDies, histVars
<1>9. CASE StampCompletedAt(r)
  <2>1. NoneCompletes
    BY <1>9, ColumnCompletesNone DEF StampCompletedAt, InTime
  <2>. QED
    BY <1>9, <2>1 DEF NoneCompletes, StampCompletedAt, histVars
<1>10. CASE MarkCompleted(r)
  <2>1. restored[JobOf(r)] /\ UNCHANGED restored
    BY <1>10 DEF MarkCompleted, Return, WrittenFirst, histVars
  <2>2. \A q \in Runs :
           pc'[q] \in {"exited", "mark"} => pc[q] \in {"exited", "mark"}
    BY <1>10 DEF MarkCompleted, Return
  <2>3. ASSUME NEW j \in Jobs
        PROVE  row'[j].status = row[j].status \/ j = JobOf(r)
    <3>1. UNCHANGED row \/ SetStatus(JobOf(r), "completed", "none")
      BY <1>10 DEF MarkCompleted, InTime
    <3>. QED
      BY <3>1 DEF SetStatus, Row
  <2>. QED
    BY <2>1, <2>2, <2>3
<1>11. CASE MarkFailed(r)
  <2>1. SetStatus(JobOf(r), "failed", "other")
    BY <1>11 DEF MarkFailed
  <2>2. NoneCompletes
    BY <2>1, StatusCompletesNone, WrittenValues, RunJob
  <2>. QED
    BY <1>11, <2>2 DEF NoneCompletes, MarkFailed, Return, histVars
<1>12. CASE ResumeLoad(r)
  <2>1. UNCHANGED row \/ SetStatus(JobOf(r), "failed", "other")
    BY <1>12 DEF ResumeLoad
  <2>2. NoneCompletes
    BY <2>1, StatusCompletesNone, WrittenValues, RunJob
  <2>. QED
    BY <1>12, <2>2 DEF NoneCompletes, ResumeLoad, histVars
<1>13. CASE ResumeClear(r)
  BY <1>13 DEF ResumeClear, histVars
<1>. QED
  BY <1>1, <1>2, <1>3, <1>4, <1>5, <1>6, <1>7, <1>8, <1>9, <1>10, <1>11,
     <1>12, <1>13 DEF RunStep

LEMMA HookStepRestores ==
    ASSUME TypeOK, NEW r \in Runs, HookStep(r)
    PROVE  OnlyRestoredCompletes
<1>. USE RunJob
     DEF TypeOK, OnlyRestoredCompletes, histVars
<1>1. CASE HookRecordsBatchJob(r)
  <2>1. \/ UNCHANGED row
        \/ row' = [row EXCEPT ![JobOf(r)].batchJob = TRUE,
                              ![JobOf(r)].status = "retrieval_in_progress"]
    BY <1>1 DEF HookRecordsBatchJob, InTime
  <2>2. NoneCompletes
    BY <2>1, StatusCompletesNone, WrittenValues, RunJob
  <2>. QED
    BY <1>1, <2>2 DEF NoneCompletes, HookRecordsBatchJob
<1>2. CASE HookSeesSentinel(r)
  <2>1. UNCHANGED row \/ SetStatus(JobOf(r), "retrieval_complete", "none")
    BY <1>2 DEF HookSeesSentinel, InTime
  <2>2. NoneCompletes
    BY <2>1, StatusCompletesNone, WrittenValues, RunJob
  <2>. QED
    BY <1>2, <2>2 DEF NoneCompletes, HookSeesSentinel
<1>3. CASE NotifyWarmupOnce(r)
  <2>1. NoneCompletes
    BY <1>3, ColumnCompletesNone DEF NotifyWarmupOnce
  <2>. QED
    BY <1>3, <2>1 DEF NoneCompletes, NotifyWarmupOnce
<1>. QED
  BY <1>1, <1>2, <1>3 DEF HookStep

LEMMA OtherStepsRestore ==
    ASSUME TypeOK,
           \/ \E r \in Runs : DeadlinePasses(r)
           \/ \E j \in Jobs : \/ ReconcileRow(j) \/ Notify(j)
                               \/ Initiate(j) \/ DeleteSnapshot(j)
           \/ ReconcileSelect
           \/ Restart
           \/ UNCHANGED vars
    PROVE  OnlyRestoredCompletes
<1>. USE DEF TypeOK, OnlyRestoredCompletes, runVars, histVars
<1>1. CASE \E r \in Runs : DeadlinePasses(r)
  BY <1>1 DEF DeadlinePasses
<1>2. CASE \E j \in Jobs : ReconcileRow(j)
  <2>. PICK j \in Jobs : ReconcileRow(j)
    BY <1>2
  <2>1. UNCHANGED row \/ SetStatus(j, "failed", "unsubmitted")
    BY DEF ReconcileRow
  <2>2. NoneCompletes
    BY <2>1, StatusCompletesNone, WrittenValues, RunJob
  <2>. QED
    BY <2>2 DEF NoneCompletes, ReconcileRow
<1>3. CASE \E j \in Jobs : Notify(j)
  BY <1>3 DEF Notify
<1>4. CASE \E j \in Jobs : Initiate(j)
  <2>. PICK j \in Jobs : Initiate(j)
    BY <1>4
  <2>1. row' = [row EXCEPT ![j].status = "queued"]
    BY DEF Initiate
  <2>2. NoneCompletes
    BY <2>1, StatusCompletesNone, WrittenValues, RunJob
  <2>. QED
    BY <2>2 DEF NoneCompletes, Initiate
<1>5. CASE \E j \in Jobs : DeleteSnapshot(j)
  <2>. PICK j \in Jobs : DeleteSnapshot(j)
    BY <1>5
  <2>1. NoneCompletes
    BY ColumnCompletesNone DEF DeleteSnapshot
  <2>. QED
    BY <2>1 DEF NoneCompletes, DeleteSnapshot
<1>6. CASE ReconcileSelect
  BY <1>6 DEF ReconcileSelect
<1>7. CASE Restart
  BY <1>7 DEF Restart, FreshProcess
<1>8. CASE UNCHANGED vars
  BY <1>8 DEF vars
<1>. QED
  BY <1>1, <1>2, <1>3, <1>4, <1>5, <1>6, <1>7, <1>8

\* A row says completed only of a restore whose files rustic has written.
THEOREM CompletedIsRestored == Spec => []CompletedMeansRestored
<1>1. Init => WrittenFirst /\ CompletedMeansRestored
  BY DEF Init, WrittenFirst, CompletedMeansRestored, NoRow
<1>2. TypeOK /\ WrittenFirst /\ CompletedMeansRestored /\ [Next]_vars
        => WrittenFirst' /\ CompletedMeansRestored'
  <2>. SUFFICES ASSUME TypeOK, WrittenFirst, CompletedMeansRestored,
                       [Next]_vars
                PROVE  WrittenFirst' /\ CompletedMeansRestored'
    OBVIOUS
  <2>1. OnlyRestoredCompletes
    BY StepCases, RunStepRestores, HookStepRestores, OtherStepsRestore
  <2>. QED
    BY <2>1, RunJob
       DEF OnlyRestoredCompletes, WrittenFirst, CompletedMeansRestored
<1>. QED
  BY <1>1, <1>2, TypeCorrect, PTL DEF Spec

-----------------------------------------------------------------------------
(* An honest warm-up signal *)

\* Some run thawed all the job needs, or planned without the pack count.
Honest(j) == thawed[j] \/ fellBack[j]

\* The wrapper of a run compares its batches with those of the whole index.
PlanCovers ==
    \A r \in Runs :
        pc[r] \in {"lookup", "request"} \cup InRustic =>
            total[r] = IndexBatches \/ fellBack[JobOf(r)]

\* A run thaws no more batches than its job needs.
WithinNeed ==
    \A r \in Runs :
        /\ pc[r] \in {"lookup", "request"} => batch[r] = 0
        /\ pc[r] = "warm" => batch[r] <= need[JobOf(r)]
        /\ pc[r] \in {"wait", "orphan"} => batch[r] < need[JobOf(r)]

NeedWithinIndex == \A j \in Jobs : need[j] <= IndexBatches

RunInv == PlanCovers /\ WithinNeed /\ NeedWithinIndex

\* What a step leaves as it is when it is not about a run's plan.
KeepsPlan == UNCHANGED <<total, batch, need, thawed, fellBack>>

LEMMA RunInvStep == TypeOK /\ RunInv /\ [Next]_vars => RunInv'
<1>. SUFFICES ASSUME TypeOK, RunInv, [Next]_vars PROVE RunInv'
  OBVIOUS
<1>. USE DEF RunInv, PlanCovers, WithinNeed, NeedWithinIndex, TypeOK, KeepsPlan
<1>1. CASE UNCHANGED pc /\ KeepsPlan
  BY <1>1
<1>2. ASSUME NEW r \in Runs, RunStep(r) PROVE RunInv'
  <2>. USE RunJob DEF Goto
  <2>1. CASE ComputeWarmupPlan(r)
    <3>1. PICK counted \in BOOLEAN :
            /\ total' = [total EXCEPT ![r] =
                            IF counted THEN IndexBatches ELSE 1]
            /\ fellBack' = [fellBack EXCEPT ![JobOf(r)] = @ \/ ~counted]
      BY <2>1 DEF ComputeWarmupPlan
    <3>2. /\ pc' = [pc EXCEPT ![r] = "lookup"]
          /\ batch' = [batch EXCEPT ![r] = 0]
          /\ UNCHANGED need
      BY <2>1 DEF ComputeWarmupPlan
    <3>3. total'[r] = IndexBatches \/ fellBack'[JobOf(r)]
      BY <3>1
    <3>4. \A j \in Jobs : fellBack[j] => fellBack'[j]
      BY <3>1
    <3>5. \A q \in Runs : q # r => total'[q] = total[q] /\ pc'[q] = pc[q]
      BY <3>1, <3>2
    <3>6. PlanCovers'
      BY <3>3, <3>4, <3>5
    <3>7. WithinNeed' /\ NeedWithinIndex'
      BY <3>2
    <3>. QED
      BY <3>6, <3>7
  <2>2. CASE Prepare(r)
    BY <2>2 DEF Prepare, histVars
  <2>3. CASE RequestWarmup(r)
    BY <2>3 DEF RequestWarmup, histVars
  <2>4. CASE SubmitBatch(r)
    <3>1. /\ pc[r] = "warm" /\ pc' = [pc EXCEPT ![r] = "wait"]
          /\ batch[r] < need[JobOf(r)]
          /\ UNCHANGED <<total, batch, need, fellBack>>
      BY <2>4, SubmitEffect DEF histVars
    <3>2. \A q \in Runs : q # r => pc'[q] = pc[q]
      BY <3>1
    <3>3. pc'[r] = "wait"
      BY <3>1
    <3>4. PlanCovers'
      BY <3>1, <3>2, <3>3
    <3>5. WithinNeed' /\ NeedWithinIndex'
      BY <3>1, <3>2, <3>3
    <3>. QED
      BY <3>4, <3>5
  <2>5. CASE ThawBatch(r)
    BY <2>5 DEF ThawBatch, BatchThawed
  <2>6. CASE OrphanThaws(r)
    BY <2>6 DEF OrphanThaws, BatchThawed
  <2>7. CASE StartDownload(r)
    BY <2>7 DEF StartDownload, histVars
  <2>8. CASE FinishDownload(r)
    BY <2>8 DEF FinishDownload
  <2>9. CASE RusticFails(r) \/ RusticDies(r)
    BY <2>9 DEF RusticFails, RusticDies, histVars
  <2>10. CASE StampCompletedAt(r)
    BY <2>10 DEF StampCompletedAt, histVars
  <2>11. CASE MarkCompleted(r)
    BY <2>11 DEF MarkCompleted, Return, histVars
  <2>12. CASE MarkFailed(r)
    BY <2>12 DEF MarkFailed, Return, histVars
  <2>13. CASE ResumeLoad(r)
    BY <2>13 DEF ResumeLoad, histVars
  <2>14. CASE ResumeClear(r)
    BY <2>14 DEF ResumeClear, histVars
  <2>. QED
    BY <1>2, <2>1, <2>2, <2>3, <2>4, <2>5, <2>6, <2>7, <2>8, <2>9, <2>10,
       <2>11, <2>12, <2>13, <2>14 DEF RunStep
<1>3. CASE \E r \in Runs : HookStep(r)
  BY <1>1, <1>3 DEF HookStep, HookRecordsBatchJob, HookSeesSentinel,
     NotifyWarmupOnce, histVars
<1>4. CASE \E r \in Runs : DeadlinePasses(r)
  BY <1>4 DEF DeadlinePasses, histVars
<1>5. CASE \E j \in Jobs : ReconcileRow(j)
  <2>. PICK j \in Jobs : ReconcileRow(j)
    BY <1>5
  <2>1. UNCHANGED pc \/ pc' = [pc EXCEPT ![<<j, "resume">>] = "load"]
    BY DEF ReconcileRow
  <2>2. KeepsPlan
    BY DEF ReconcileRow, histVars
  <2>. QED
    BY ZenonT(60), <2>1, <2>2, JobRuns
<1>6. CASE \E j \in Jobs : Initiate(j)
  BY <1>6, JobRuns DEF Initiate, histVars
<1>7. CASE \E j \in Jobs : Notify(j) \/ DeleteSnapshot(j)
  BY <1>1, <1>7 DEF Notify, DeleteSnapshot, runVars, histVars
<1>8. CASE ReconcileSelect
  BY <1>1, <1>8 DEF ReconcileSelect, runVars, histVars
<1>9. CASE Restart
  BY <1>9 DEF Restart, FreshProcess, histVars
<1>10. CASE UNCHANGED vars
  BY <1>1, <1>10 DEF vars, runVars, histVars
<1>. QED
  BY <1>2, <1>3, <1>4, <1>5, <1>6, <1>7, <1>8, <1>9, <1>10, StepCases

\* The batch that completes a plan is the last the job needs.
LEMMA LastBatchThaws ==
    ASSUME TypeOK, RunInv, NEW r \in Runs,
           pc[r] \in {"wait", "orphan"}, IsLastBatch(batch[r] + 1, total[r])
    PROVE  batch[r] + 1 = need[JobOf(r)] \/ fellBack[JobOf(r)]
<1>. SUFFICES ASSUME ~fellBack[JobOf(r)] PROVE batch[r] + 1 = need[JobOf(r)]
  OBVIOUS
<1>1. JobOf(r) \in Jobs
  BY RunJob
<1>2. total[r] = IndexBatches
  BY DEF RunInv, PlanCovers
<1>3. batch[r] < need[JobOf(r)] /\ need[JobOf(r)] <= IndexBatches
  BY <1>1 DEF RunInv, WithinNeed, NeedWithinIndex
<1>4. batch[r] \in Nat /\ need[JobOf(r)] \in Nat /\ IndexBatches \in Nat
  BY <1>1, IndexAssumption DEF TypeOK
<1>. QED
  BY <1>2, <1>3, <1>4 DEF IsLastBatch

\* No step takes back what has been thawed or how it was planned.
LEMMA HonestyKept ==
    ASSUME TypeOK, [Next]_vars, NEW j \in Jobs, Honest(j) PROVE Honest(j)'
<1>. USE DEF TypeOK, Honest
<1>1. CASE UNCHANGED <<thawed, fellBack>>
  BY <1>1
<1>2. ASSUME NEW r \in Runs, RunStep(r) PROVE Honest(j)'
  <2>. USE RunJob
  <2>1. CASE ComputeWarmupPlan(r)
    BY <2>1 DEF ComputeWarmupPlan
  <2>2. CASE ThawBatch(r) \/ OrphanThaws(r)
    BY <2>2 DEF ThawBatch, OrphanThaws, BatchThawed
  <2>3. CASE SubmitBatch(r) \/ FinishDownload(r)
    BY <1>1, <2>3, SubmitEffect DEF FinishDownload, histVars
  <2>4. CASE Prepare(r) \/ RequestWarmup(r) \/ StartDownload(r)
             \/ RusticFails(r) \/ RusticDies(r) \/ StampCompletedAt(r)
             \/ MarkCompleted(r) \/ MarkFailed(r) \/ ResumeLoad(r) \/ ResumeClear(r)
    BY <1>1, <2>4 DEF Prepare, RequestWarmup, StartDownload, RusticFails,
       RusticDies, StampCompletedAt, MarkCompleted, MarkFailed, ResumeLoad, ResumeClear,
       histVars
  <2>. QED
    BY <1>2, <2>1, <2>2, <2>3, <2>4 DEF RunStep
<1>3. CASE \E r \in Runs : HookStep(r) \/ DeadlinePasses(r)
  BY <1>1, <1>3 DEF HookStep, HookRecordsBatchJob, HookSeesSentinel,
     NotifyWarmupOnce, DeadlinePasses, histVars
<1>4. CASE \E i \in Jobs : ReconcileRow(i) \/ Notify(i) \/ Initiate(i)
                            \/ DeleteSnapshot(i)
  BY <1>1, <1>4 DEF ReconcileRow, Notify, Initiate, DeleteSnapshot, histVars
<1>5. CASE ReconcileSelect \/ Restart \/ UNCHANGED vars
  BY <1>1, <1>5 DEF ReconcileSelect, Restart, vars, histVars
<1>. QED
  BY <1>2, <1>3, <1>4, <1>5, StepCases

HasSentinel(q) == \E n \in 1 .. Len(q) : q[n] = "sentinel"

LEMMA SentinelInQueue ==
    ASSUME NEW q \in Seq({"id", "sentinel"})
    PROVE  /\ HasSentinel(Append(q, "id")) => HasSentinel(q)
           /\ q # <<>> => /\ HasSentinel(Tail(q)) => HasSentinel(q)
                          /\ Head(q) = "sentinel" => HasSentinel(q)
  BY DEF HasSentinel

\* A sentinel under way to the claim, or being claimed, is honest ...
SentinelHonest ==
    \A r \in Runs :
        HasSentinel(lines[r]) \/ hook[r] = "claim" => Honest(JobOf(r))

\* ... and so is a claim.
ClaimHonest == \A j \in Jobs : ClaimIsFree(j) \/ Honest(j)

\* The steps that bring no sentinel into a pipe or to the hook.
NoNewSentinel ==
    \A r \in Runs : HasSentinel(lines'[r]) \/ hook'[r] = "claim"
                       => HasSentinel(lines[r]) \/ hook[r] = "claim"

LEMMA ThawedBatchSentinel ==
    ASSUME TypeOK, RunInv, SentinelHonest, [Next]_vars,
           NEW r \in Runs, ThawBatch(r) \/ OrphanThaws(r)
    PROVE  SentinelHonest'
<1>. DEFINE k == batch[r] + 1
<1>1. /\ pc[r] \in {"wait", "orphan"}
      /\ lines' = IF IsLastBatch(k, total[r])
                  THEN [lines EXCEPT ![r] = Append(@, "sentinel")] ELSE lines
      /\ thawed' = [thawed EXCEPT ![JobOf(r)] = @ \/ k = need[JobOf(r)]]
      /\ UNCHANGED <<hook, fellBack>>
  BY DEF ThawBatch, OrphanThaws, BatchThawed, Goto
<1>2. CASE ~IsLastBatch(k, total[r])
  BY <1>1, <1>2, HonestyKept, RunJob DEF SentinelHonest
<1>3. CASE IsLastBatch(k, total[r])
  <2>1. k = need[JobOf(r)] \/ fellBack[JobOf(r)]
    BY <1>1, <1>3, LastBatchThaws
  <2>2. Honest(JobOf(r))'
    BY <1>1, <2>1, RunJob DEF Honest, TypeOK
  <2>3. \A q \in Runs : q # r => lines'[q] = lines[q]
    BY <1>1, <1>3 DEF TypeOK
  <2>. QED
    BY <1>1, <2>2, <2>3, HonestyKept, RunJob DEF SentinelHonest
<1>. QED
  BY <1>2, <1>3

LEMMA OtherStepsNoSentinel ==
    ASSUME TypeOK, [Next]_vars,
           ~ \E r \in Runs : ThawBatch(r) \/ OrphanThaws(r)
    PROVE  NoNewSentinel
<1>. USE DEF TypeOK, NoNewSentinel
<1>1. CASE UNCHANGED <<lines, hook>>
  BY <1>1
<1>2. ASSUME NEW r \in Runs, RunStep(r) PROVE NoNewSentinel
  <2>1. CASE SubmitBatch(r)
    <3>1. /\ lines' = [lines EXCEPT ![r] = Append(@, "id")]
          /\ UNCHANGED hook
      BY <2>1 DEF SubmitBatch
    <3>. QED
      BY <3>1, SentinelInQueue
  <2>2. CASE ComputeWarmupPlan(r) \/ FinishDownload(r)
    BY <1>1, <2>2 DEF ComputeWarmupPlan, FinishDownload
  <2>3. CASE Prepare(r) \/ RequestWarmup(r) \/ StartDownload(r)
             \/ RusticFails(r) \/ RusticDies(r) \/ StampCompletedAt(r)
             \/ MarkCompleted(r) \/ MarkFailed(r) \/ ResumeLoad(r) \/ ResumeClear(r)
    BY <1>1, <2>3 DEF Prepare, RequestWarmup, StartDownload, RusticFails,
       RusticDies, StampCompletedAt, MarkCompleted, MarkFailed, ResumeLoad, ResumeClear
  <2>. QED
    BY <1>2, <2>1, <2>2, <2>3 DEF RunStep
<1>3. ASSUME NEW r \in Runs, HookStep(r) PROVE NoNewSentinel
  <2>1. CASE HookRecordsBatchJob(r)
    <3>1. /\ lines[r] # <<>>
          /\ lines' = [lines EXCEPT ![r] = Tail(@)]
          /\ UNCHANGED hook
      BY <2>1 DEF HookRecordsBatchJob
    <3>. QED
      BY <3>1, SentinelInQueue
  <2>2. CASE HookSeesSentinel(r)
    <3>1. /\ lines[r] # <<>> /\ Head(lines[r]) = "sentinel"
          /\ lines' = [lines EXCEPT ![r] = Tail(@)]
          /\ hook' = [hook EXCEPT ![r] = "claim"]
      BY <2>2 DEF HookSeesSentinel
    <3>2. HasSentinel(lines[r])
      BY <3>1, SentinelInQueue
    <3>. QED
      BY <3>1, <3>2
  <2>3. CASE NotifyWarmupOnce(r)
    BY <2>3 DEF NotifyWarmupOnce
  <2>. QED
    BY <1>3, <2>1, <2>2, <2>3 DEF HookStep
<1>4. CASE \E r \in Runs : DeadlinePasses(r)
  BY <1>1, <1>4 DEF DeadlinePasses
<1>5. CASE \E i \in Jobs : ReconcileRow(i) \/ Notify(i) \/ Initiate(i)
                            \/ DeleteSnapshot(i)
  BY <1>1, <1>5 DEF ReconcileRow, Notify, Initiate, DeleteSnapshot, runVars
<1>6. CASE Restart
  BY <1>6 DEF Restart, FreshProcess, HasSentinel
<1>7. CASE ReconcileSelect \/ UNCHANGED vars
  BY <1>1, <1>7 DEF ReconcileSelect, vars, runVars
<1>. QED
  BY <1>2, <1>3, <1>4, <1>5, <1>6, <1>7, StepCases

LEMMA SentinelHonestStep ==
    TypeOK /\ RunInv /\ SentinelHonest /\ [Next]_vars => SentinelHonest'
<1>. SUFFICES ASSUME TypeOK, RunInv, SentinelHonest, [Next]_vars
              PROVE  SentinelHonest'
  OBVIOUS
<1>1. CASE NoNewSentinel
  BY <1>1, HonestyKept, RunJob DEF NoNewSentinel, SentinelHonest
<1>. QED
  BY <1>1, ThawedBatchSentinel, OtherStepsNoSentinel

LEMMA ClaimHonestStep ==
    TypeOK /\ SentinelHonest /\ ClaimHonest /\ [Next]_vars => ClaimHonest'
<1>. SUFFICES ASSUME TypeOK, SentinelHonest, ClaimHonest, [Next]_vars,
                     NEW j \in Jobs, ~ClaimIsFree(j)'
              PROVE  Honest(j)'
  BY DEF ClaimHonest
<1>1. CASE ~ClaimIsFree(j)
  BY <1>1, HonestyKept DEF ClaimHonest
<1>2. CASE \E r \in Runs : NotifyWarmupOnce(r)
  <2>1. PICK r \in Runs : NotifyWarmupOnce(r)
    BY <1>2
  <2>2. CASE j = JobOf(r)
    <3>1. hook[r] = "claim"
      BY <2>1 DEF NotifyWarmupOnce
    <3>. QED
      BY <2>2, <3>1, HonestyKept DEF SentinelHonest
  <2>3. CASE j # JobOf(r)
    BY <1>1, <2>1, <2>3, NotifyWarmupOnceClaims DEF KeepsClaims
  <2>. QED
    BY <2>2, <2>3
<1>3. CASE KeepsClaims
  BY <1>1, <1>3 DEF KeepsClaims
<1>4. CASE \E i \in Jobs : Notify(i)
  BY <1>1, <1>4 DEF Notify, ClaimIsFree
<1>5. CASE Restart \/ UNCHANGED vars
  BY <1>1, <1>5 DEF Restart, vars, ClaimIsFree
<1>. QED
  BY <1>2, <1>3, <1>4, <1>5, RunStepKeepsClaims, OtherStepsKeepClaims,
     StepCases DEF HookStep

\* The warm-up notification is claimed only when some run of the job has
\* thawed every pack the job needs, or had to plan without the pack count.
THEOREM SignalIsHonest == Spec => []HonestWarmupSignal
<1>1. Init => RunInv /\ SentinelHonest /\ ClaimHonest
  <2>. SUFFICES ASSUME Init PROVE RunInv /\ SentinelHonest /\ ClaimHonest
    OBVIOUS
  <2>1. RunInv
    BY IndexAssumption
       DEF Init, RunInv, PlanCovers, WithinNeed, NeedWithinIndex
  <2>2. SentinelHonest
    BY DEF Init, SentinelHonest, HasSentinel
  <2>3. ClaimHonest
    BY DEF Init, ClaimHonest, ClaimIsFree, NoRow
  <2>. QED
    BY <2>1, <2>2, <2>3
<1>2. ClaimHonest => HonestWarmupSignal
  BY DEF ClaimHonest, HonestWarmupSignal, ClaimIsFree, Honest
<1>. QED
  BY <1>1, <1>2, TypeCorrect, RunInvStep, SentinelHonestStep, ClaimHonestStep,
     PTL DEF Spec

=============================================================================
