------------------------ MODULE RestoreOutcomeProofs ------------------------
(***************************************************************************)
(* What a restore comes to, for any set of jobs, index size and number of  *)
(* restarts: no row is left under way with nobody to attend to it, a       *)
(* restore as large as the index is announced before it completes, and     *)
(* every run has only so many steps to take.                               *)
(***************************************************************************)
EXTENDS RestoreLifecycleProofs

USE DEF NonTerminal, Terminal, InRustic

-----------------------------------------------------------------------------
(* The pipe *)

\* A run reads its pipe to the end before it leaves it, and none is started
\* for a job that has one: the pipe of a run that is not in rustic is drained.
Piped == InRustic \cup {"exited", "failing"}

QuietPipe == \A r \in Runs : pc[r] \notin Piped => Drained(r)

\* The run of Initiate belongs to a row that exists, and a row that is to be
\* resumed has no resume goroutine yet; rows are selected once.
NoSecondStart ==
    /\ recon = "ready" => reconRows = {}
    /\ \A j \in Jobs : pc[<<j, "initiate">>] # "idle" => row[j].status # "absent"
    /\ \A j \in Jobs : <<j, TRUE>> \in reconRows \/ recon = "ready"
                           => pc[<<j, "resume">>] = "idle"

Orderly == QuietPipe /\ NoSecondStart

-----------------------------------------------------------------------------
(* What a step does to the rows *)

\* Only the row of job i may change its status, and none disappears.
OnlyRow(i) ==
    /\ \A j \in Jobs : row[j].status # "absent" => row'[j].status # "absent"
    /\ \A j \in Jobs : j # i => row'[j].status = row[j].status

LEMMA RowEffect ==
    ASSUME row \in [Jobs -> Row], NEW i \in Jobs, NEW b \in BOOLEAN,
           NEW s \in Status, s # "absent", NEW e \in Error
    PROVE  /\ SetStatus(i, s, e) => OnlyRow(i) /\ row'[i].status = s
           /\ row' = [row EXCEPT ![i].status = s] =>
                 OnlyRow(i) /\ row'[i].status = s
           /\ row' = [row EXCEPT ![i].batchJob = b, ![i].status = s] =>
                 OnlyRow(i) /\ row'[i].status = s
           /\ \/ UNCHANGED row
              \/ row' = [row EXCEPT ![i].batchJob = b]
              \/ row' = [row EXCEPT ![i].finished = b]
              \/ row' = [row EXCEPT ![i].notified = b]
              \/ row' = [row EXCEPT ![i].snap = b]
              => OnlyRow(i) /\ row'[i].status = row[i].status
<1>. HIDE DEF Status, Error
<1>1. SetStatus(i, s, e) => OnlyRow(i) /\ row'[i].status = s
  BY DEF OnlyRow, SetStatus, Row
<1>2. row' = [row EXCEPT ![i].status = s] => OnlyRow(i) /\ row'[i].status = s
  BY DEF OnlyRow, Row
<1>3. row' = [row EXCEPT ![i].batchJob = b, ![i].status = s] =>
         OnlyRow(i) /\ row'[i].status = s
  BY DEF OnlyRow, Row
<1>4. row' = [row EXCEPT ![i].batchJob = b] =>
         OnlyRow(i) /\ row'[i].status = row[i].status
  BY ZenonT(60), StatementEffect DEF OnlyRow
<1>5. row' = [row EXCEPT ![i].finished = b] =>
         OnlyRow(i) /\ row'[i].status = row[i].status
  BY ZenonT(60), StatementEffect DEF OnlyRow
<1>6. row' = [row EXCEPT ![i].notified = b] =>
         OnlyRow(i) /\ row'[i].status = row[i].status
  BY ZenonT(60), StatementEffect DEF OnlyRow
<1>7. row' = [row EXCEPT ![i].snap = b] =>
         OnlyRow(i) /\ row'[i].status = row[i].status
  BY ZenonT(60), StatementEffect DEF OnlyRow
<1>8. UNCHANGED row => OnlyRow(i) /\ row'[i].status = row[i].status
  BY DEF OnlyRow
<1>. QED
  BY <1>1, <1>2, <1>3, <1>4, <1>5, <1>6, <1>7, <1>8

LEMMA WordsOfRows ==
    /\ "queued" \in Status /\ "warmup_requested" \in Status
    /\ "retrieval_in_progress" \in Status /\ "retrieval_complete" \in Status
    /\ "completed" \in Status /\ "failed" \in Status
    /\ "none" \in Error /\ "other" \in Error /\ "unsubmitted" \in Error
BY DEF Status, Error

-----------------------------------------------------------------------------
(* What a step of a run does *)

\* It moves its own run, which is alive, writes only its own pipe and row, and
\* gives a run up only when the pipe is drained and the row has a verdict, or
\* when the deadline has swallowed the verdict.
Moves(r) ==
    /\ pc[r] # "idle" /\ \E to \in Stations : pc' = [pc EXCEPT ![r] = to]
    /\ \A q \in Runs : q # r => lines'[q] = lines[q]
    /\ UNCHANGED <<hook, recVars>>
    /\ pc'[r] \notin Piped => Drained(r) /\ UNCHANGED lines
    /\ OnlyRow(JobOf(r))
    /\ \A j \in Jobs : lost[j] => lost'[j]
    /\ pc'[r] = "idle" =>
          \/ row'[JobOf(r)].status \in Terminal
          \/ row'[JobOf(r)].status = row[JobOf(r)].status /\ lost'[JobOf(r)]

LEMMA RunStepMoves ==
    ASSUME TypeOK, QuietPipe, NEW r \in Runs, RunStep(r)
    PROVE  Moves(r)
<1>. DEFINE i == JobOf(r)
<1>0. row \in [Jobs -> Row] /\ i \in Jobs /\ pc \in [Runs -> Stations]
  BY RunJob DEF TypeOK
<1>1. UNCHANGED row => OnlyRow(i)
  BY DEF OnlyRow
<1>. USE <1>0 DEF Moves, Goto, Stations
<1>2. CASE ComputeWarmupPlan(r)
  BY <1>1, <1>2 DEF ComputeWarmupPlan, QuietPipe, Piped
<1>3. CASE Prepare(r)
  BY <1>1, <1>3 DEF Prepare, QuietPipe, Piped, histVars
<1>4. CASE RequestWarmup(r)
  <2>1. OnlyRow(i)
    BY <1>1, <1>4, RowEffect, WordsOfRows DEF RequestWarmup, InTime
  <2>. QED
    BY <1>4, <2>1 DEF RequestWarmup, Piped, histVars
<1>5. CASE SubmitBatch(r)
  <2>1. /\ pc[r] = "warm" /\ pc' = [pc EXCEPT ![r] = "wait"]
        /\ lines' = [lines EXCEPT ![r] = Append(@, "id")]
        /\ UNCHANGED <<row, hook, recVars, lost>>
    BY <1>5 DEF SubmitBatch, histVars
  <2>2. \A q \in Runs : q # r => lines'[q] = lines[q]
    BY <2>1 DEF TypeOK
  <2>3. pc'[r] = "wait"
    BY <2>1
  <2>. QED
    BY <1>1, <2>1, <2>2, <2>3 DEF Piped
<1>6. CASE ThawBatch(r)
  BY <1>1, <1>6 DEF ThawBatch, BatchThawed, Piped, TypeOK
<1>7. CASE OrphanThaws(r)
  BY <1>1, <1>7 DEF OrphanThaws, BatchThawed, Piped, TypeOK
<1>8. CASE StartDownload(r)
  BY <1>1, <1>8 DEF StartDownload, Piped, histVars
<1>9. CASE FinishDownload(r)
  BY <1>1, <1>9 DEF FinishDownload, Piped, TypeOK
<1>10. CASE RusticFails(r)
  BY <1>1, <1>10 DEF RusticFails, Piped, histVars
<1>16. CASE RusticDies(r)
  BY <1>1, <1>16 DEF RusticDies, Piped, histVars
<1>11. CASE StampCompletedAt(r)
  <2>1. OnlyRow(i)
    BY <1>1, <1>11, RowEffect, WordsOfRows DEF StampCompletedAt, InTime
  <2>. QED
    BY <1>11, <2>1 DEF StampCompletedAt, Piped, histVars
<1>12. CASE MarkCompleted(r)
  <2>1. pc[r] = "mark" /\ pc' = [pc EXCEPT ![r] = "idle"]
    BY <1>12 DEF MarkCompleted, Return
  <2>2. Drained(r)
    BY <2>1 DEF QuietPipe, Piped
  <2>3. OnlyRow(i) /\ (row'[i].status = "completed" \/ row'[i].status = row[i].status)
    BY <1>1, <1>12, RowEffect, WordsOfRows DEF MarkCompleted, InTime
  <2>4. \/ lost' = [lost EXCEPT ![i] = TRUE]
        \/ ~expired[r] /\ lost' = lost
    BY <1>12 DEF MarkCompleted
  <2>5. \A j \in Jobs : lost[j] => lost'[j]
    BY <2>4 DEF TypeOK
  <2>6. row'[i].status = "completed" \/ (row'[i].status = row[i].status /\ lost'[i])
    <3>1. CASE expired[r]
      BY <1>12, <2>4, <3>1 DEF MarkCompleted, InTime, TypeOK
    <3>2. CASE ~expired[r]
      <4>1. SetStatus(i, "completed", "none")
        BY <1>12, <3>2 DEF MarkCompleted, InTime
      <4>. QED
        BY <4>1, RowEffect, WordsOfRows
    <3>. QED
      BY <3>1, <3>2
  <2>7. UNCHANGED <<lines, hook, recVars>>
    BY <1>12 DEF MarkCompleted
  <2>. QED
    BY <2>1, <2>2, <2>3, <2>5, <2>6, <2>7
<1>13. CASE MarkFailed(r)
  <2>1. OnlyRow(i) /\ row'[i].status = "failed"
    BY <1>13, RowEffect, WordsOfRows DEF MarkFailed
  <2>. QED
    BY <1>13, <2>1 DEF MarkFailed, Return, histVars
<1>14. CASE ResumeLoad(r)
  <2>1. Drained(r) /\ pc[r] = "load"
    BY <1>14 DEF ResumeLoad, QuietPipe, Piped
  <2>2. CASE row[i].snap
    BY <1>1, <1>14, <2>1, <2>2 DEF ResumeLoad, histVars
  <2>3. CASE ~row[i].snap
    <3>1. OnlyRow(i) /\ row'[i].status = "failed"
      BY <1>14, <2>3, RowEffect, WordsOfRows DEF ResumeLoad
    <3>. QED
      BY <1>14, <2>1, <2>3, <3>1 DEF ResumeLoad, histVars
  <2>. QED
    BY <2>2, <2>3
<1>15. CASE ResumeClear(r)
  <2>1. Drained(r)
    BY <1>15 DEF ResumeClear, QuietPipe, Piped
  <2>2. OnlyRow(i)
    BY <1>15, RowEffect, WordsOfRows DEF ResumeClear
  <2>. QED
    BY <1>15, <2>1, <2>2 DEF ResumeClear, histVars
<1>. QED
  BY <1>2, <1>3, <1>4, <1>5, <1>6, <1>7, <1>8, <1>9, <1>10, <1>11, <1>12,
     <1>13, <1>14, <1>15, <1>16 DEF RunStep

LEMMA MovesOrderly ==
    ASSUME TypeOK, Orderly, NEW r \in Runs, Moves(r) PROVE Orderly'
<1>. PICK to \in Stations : pc' = [pc EXCEPT ![r] = to]
  BY DEF Moves
<1>1. pc'[r] = to /\ \A q \in Runs : q # r => pc'[q] = pc[q]
  BY DEF TypeOK
<1>2. QuietPipe'
  BY <1>1 DEF Orderly, QuietPipe, Moves, Drained
<1>3. NoSecondStart'
  <2>1. ASSUME NEW j \in Jobs, pc'[<<j, "initiate">>] # "idle"
        PROVE  row'[j].status # "absent"
    BY <1>1, <2>1, JobRuns DEF Orderly, NoSecondStart, Moves, OnlyRow
  <2>2. ASSUME NEW j \in Jobs, <<j, TRUE>> \in reconRows' \/ recon' = "ready"
        PROVE  pc'[<<j, "resume">>] = "idle"
    BY <1>1, <2>2, JobRuns DEF Orderly, NoSecondStart, Moves, recVars
  <2>. QED
    BY <2>1, <2>2 DEF Orderly, NoSecondStart, Moves, recVars
<1>. QED
  BY <1>2, <1>3 DEF Orderly

LEMMA MovesAttended ==
    ASSUME TypeOK, NoRowLeftBehind, NEW r \in Runs, Moves(r)
    PROVE  NoRowLeftBehind'
<1>. PICK to \in Stations : pc' = [pc EXCEPT ![r] = to]
  BY DEF Moves
<1>1. pc'[r] = to /\ \A q \in Runs : q # r => pc'[q] = pc[q]
  BY DEF TypeOK
<1>. SUFFICES ASSUME NEW j \in Jobs, row'[j].status \in NonTerminal
              PROVE  LiveRun(j)' \/ ToReconcile(j)' \/ lost'[j]
  BY DEF NoRowLeftBehind
<1>2. CASE j = JobOf(r) /\ to # "idle"
  BY <1>1, <1>2 DEF LiveRun
<1>3. CASE j = JobOf(r) /\ to = "idle"
  BY <1>1, <1>3 DEF Moves
<1>4. CASE j # JobOf(r)
  <2>1. row[j].status \in NonTerminal
    BY <1>4 DEF Moves, OnlyRow
  <2>2. LiveRun(j) => LiveRun(j)'
    BY <1>1, <1>4 DEF LiveRun
  <2>3. ToReconcile(j) => ToReconcile(j)'
    BY DEF Moves, recVars, ToReconcile
  <2>. QED
    BY <2>1, <2>2, <2>3 DEF NoRowLeftBehind, Moves
<1>. QED
  BY <1>2, <1>3, <1>4

-----------------------------------------------------------------------------
(* What the hook does, and everybody else *)

\* The hook has something to do only while its run is alive, and that run goes
\* on; it writes no other row.
LEMMA HookMoves ==
    ASSUME TypeOK, QuietPipe, NEW r \in Runs, HookStep(r)
    PROVE  /\ pc[r] \in Piped /\ UNCHANGED <<pc, recVars, lost>>
           /\ \A q \in Runs : q # r => lines'[q] = lines[q] /\ hook'[q] = hook[q]
           /\ OnlyRow(JobOf(r))
<1>. DEFINE i == JobOf(r)
<1>0. row \in [Jobs -> Row] /\ i \in Jobs
  BY RunJob DEF TypeOK
<1>1. ~Drained(r)
  BY DEF HookStep, HookRecordsBatchJob, HookSeesSentinel, NotifyWarmupOnce, Drained
<1>2. UNCHANGED row => OnlyRow(i)
  BY DEF OnlyRow
<1>3. CASE HookRecordsBatchJob(r)
  <2>1. \/ UNCHANGED row
        \/ row' = [row EXCEPT ![i].batchJob = TRUE, ![i].status = "retrieval_in_progress"]
    BY <1>3 DEF HookRecordsBatchJob, InTime
  <2>2. OnlyRow(i)
    BY <1>0, <1>2, <2>1, RowEffect, WordsOfRows
  <2>. QED
    BY <1>1, <1>3, <2>2 DEF HookRecordsBatchJob, QuietPipe, histVars, TypeOK
<1>4. CASE HookSeesSentinel(r)
  <2>1. UNCHANGED row \/ SetStatus(i, "retrieval_complete", "none")
    BY <1>4 DEF HookSeesSentinel, InTime
  <2>2. OnlyRow(i)
    BY <1>0, <1>2, <2>1, RowEffect, WordsOfRows
  <2>. QED
    BY <1>1, <1>4, <2>2 DEF HookSeesSentinel, QuietPipe, histVars, TypeOK
<1>5. CASE NotifyWarmupOnce(r)
  <2>1. UNCHANGED row \/ row' = [row EXCEPT ![i].notified = TRUE]
    BY <1>5 DEF NotifyWarmupOnce
  <2>2. OnlyRow(i)
    BY <1>0, <1>2, <2>1, RowEffect, WordsOfRows
  <2>. QED
    BY <1>1, <1>5, <2>2 DEF NotifyWarmupOnce, QuietPipe, histVars, TypeOK
<1>. QED
  BY <1>3, <1>4, <1>5 DEF HookStep

Held == Orderly /\ NoRowLeftBehind

LEMMA HookHolds ==
    ASSUME TypeOK, Held, NEW r \in Runs, HookStep(r) PROVE Held'
<1>1. /\ pc[r] \in Piped /\ UNCHANGED <<pc, recVars, lost>>
      /\ \A q \in Runs : q # r => lines'[q] = lines[q] /\ hook'[q] = hook[q]
      /\ OnlyRow(JobOf(r))
  BY HookMoves DEF Held, Orderly
<1>2. QuietPipe'
  BY <1>1 DEF Held, Orderly, QuietPipe, Drained
<1>3. NoSecondStart'
  BY <1>1 DEF Held, Orderly, NoSecondStart, OnlyRow, recVars
<1>4. NoRowLeftBehind'
  <2>. SUFFICES ASSUME NEW j \in Jobs, row'[j].status \in NonTerminal
                PROVE  LiveRun(j)' \/ ToReconcile(j)' \/ lost'[j]
    BY DEF NoRowLeftBehind
  <2>1. CASE j = JobOf(r)
    BY <1>1, <2>1 DEF LiveRun, Piped
  <2>2. CASE j # JobOf(r)
    BY <1>1, <2>2 DEF Held, NoRowLeftBehind, OnlyRow, LiveRun, ToReconcile, recVars
  <2>. QED
    BY <2>1, <2>2
<1>. QED
  BY <1>2, <1>3, <1>4 DEF Held, Orderly

LEMMA DeadlineHolds ==
    ASSUME TypeOK, Held, NEW r \in Runs, DeadlinePasses(r) PROVE Held'
<1>. DEFINE to == CASE pc[r] = "wait" -> "orphan"
                    [] pc[r] \in {"warm", "download"} -> "failing"
                    [] OTHER -> pc[r]
<1>1. /\ pc[r] \in {"warm", "wait", "download", "exited", "mark"}
      /\ pc' = [pc EXCEPT ![r] = to]
      /\ UNCHANGED <<row, lines, hook, recVars, lost>>
  BY DEF DeadlinePasses, histVars
<1>2. to # "idle" /\ (to \notin Piped => to = pc[r])
  BY <1>1 DEF Piped
<1>. HIDE DEF to
<1>3. pc'[r] = to /\ \A q \in Runs : q # r => pc'[q] = pc[q]
  BY <1>1 DEF TypeOK
<1>4. QuietPipe'
  BY <1>1, <1>2, <1>3 DEF Held, Orderly, QuietPipe, Drained
<1>5. NoSecondStart'
  BY <1>1, <1>2, <1>3, JobRuns DEF Held, Orderly, NoSecondStart, recVars
<1>6. NoRowLeftBehind'
  BY <1>1, <1>2, <1>3 DEF Held, NoRowLeftBehind, LiveRun, ToReconcile, recVars
<1>. QED
  BY <1>4, <1>5, <1>6 DEF Held, Orderly

LEMMA TriageHolds ==
    ASSUME TypeOK, Held, NEW j \in Jobs, ReconcileRow(j) PROVE Held'
<1>. DEFINE resume == <<j, "resume">>
<1>0. row \in [Jobs -> Row] /\ resume \in Runs /\ JobOf(resume) = j
  BY JobRuns DEF TypeOK
<1>1. PICK recorded \in BOOLEAN :
         /\ <<j, recorded>> \in reconRows
         /\ reconRows' = reconRows \ {<<j, recorded>>}
         /\ IF recorded
            THEN pc' = [pc EXCEPT ![resume] = "load"] /\ UNCHANGED row
            ELSE SetStatus(j, "failed", "unsubmitted") /\ UNCHANGED pc
         /\ UNCHANGED <<lines, hook, recon, lost>>
  BY DEF ReconcileRow, histVars
<1>2. /\ OnlyRow(j)
      /\ recorded \/ row'[j].status = "failed"
  <2>1. UNCHANGED row => OnlyRow(j)
    BY DEF OnlyRow
  <2>. QED
    BY <1>0, <1>1, <2>1, RowEffect, WordsOfRows
<1>3. /\ \A q \in Runs : q # resume => pc'[q] = pc[q]
      /\ pc'[resume] = IF recorded THEN "load" ELSE pc[resume]
  BY <1>0, <1>1 DEF TypeOK
<1>4. QuietPipe'
  <2>1. recorded => Drained(resume)
    BY <1>0, <1>1 DEF Held, Orderly, NoSecondStart, QuietPipe, Piped
  <2>. QED
    BY <1>1, <1>3, <2>1 DEF Held, Orderly, QuietPipe, Drained
<1>5. NoSecondStart'
  <2>1. ASSUME NEW i \in Jobs, pc'[<<i, "initiate">>] # "idle"
        PROVE  row'[i].status # "absent"
    <3>1. <<i, "initiate">> # resume /\ <<i, "initiate">> \in Runs
      BY JobRuns
    <3>. QED
      BY <1>2, <1>3, <2>1, <3>1 DEF Held, Orderly, NoSecondStart, OnlyRow
  <2>2. ASSUME NEW i \in Jobs, <<i, TRUE>> \in reconRows' \/ recon' = "ready"
        PROVE  pc'[<<i, "resume">>] = "idle"
    <3>1. recon # "ready"
      BY <1>1 DEF Held, Orderly, NoSecondStart
    <3>2. pc[<<i, "resume">>] = "idle"
      BY <1>1, <2>2 DEF Held, Orderly, NoSecondStart
    <3>3. CASE ~recorded \/ i # j
      BY <1>1, <1>3, <3>2, <3>3, JobRuns
    <3>4. CASE recorded /\ i = j
      BY <1>1, <2>2, <3>1, <3>4
    <3>. QED
      BY <3>3, <3>4
  <2>3. recon' # "ready"
    BY <1>1 DEF Held, Orderly, NoSecondStart
  <2>. QED
    BY <2>1, <2>2, <2>3 DEF NoSecondStart
<1>6. NoRowLeftBehind'
  <2>. SUFFICES ASSUME NEW i \in Jobs, row'[i].status \in NonTerminal
                PROVE  LiveRun(i)' \/ ToReconcile(i)' \/ lost'[i]
    BY DEF NoRowLeftBehind
  <2>1. CASE i = j
    BY <1>0, <1>2, <1>3, <2>1 DEF LiveRun
  <2>2. CASE i # j
    <3>1. row[i].status \in NonTerminal
      BY <1>2, <2>2 DEF OnlyRow
    <3>2. LiveRun(i) => LiveRun(i)'
      BY <1>0, <1>3, <2>2 DEF LiveRun
    <3>3. ToReconcile(i) => ToReconcile(i)'
      BY <1>1, <2>2 DEF ToReconcile
    <3>. QED
      BY <1>1, <3>1, <3>2, <3>3 DEF Held, NoRowLeftBehind
  <2>. QED
    BY <2>1, <2>2
<1>. QED
  BY <1>4, <1>5, <1>6 DEF Held, Orderly

LEMMA InitiateHolds ==
    ASSUME TypeOK, Held, NEW j \in Jobs, Initiate(j) PROVE Held'
<1>. DEFINE first == <<j, "initiate">>
<1>0. row \in [Jobs -> Row] /\ first \in Runs /\ JobOf(first) = j
  BY JobRuns DEF TypeOK
<1>1. /\ row[j].status = "absent" /\ row' = [row EXCEPT ![j].status = "queued"]
      /\ pc' = [pc EXCEPT ![first] = "plan"]
      /\ UNCHANGED <<lines, hook, recVars, lost>>
  BY DEF Initiate, histVars
<1>2. OnlyRow(j) /\ row'[j].status = "queued"
  BY <1>0, <1>1, RowEffect, WordsOfRows
<1>3. pc'[first] = "plan" /\ \A q \in Runs : q # first => pc'[q] = pc[q]
  BY <1>0, <1>1 DEF TypeOK
<1>4. Drained(first)
  BY <1>0, <1>1 DEF Held, Orderly, NoSecondStart, QuietPipe, Piped
<1>5. QuietPipe'
  BY <1>1, <1>3, <1>4 DEF Held, Orderly, QuietPipe, Drained
<1>6. NoSecondStart'
  <2>1. \A i \in Jobs : <<i, "resume">> \in Runs /\ <<i, "resume">> # first
    BY JobRuns
  <2>2. \A i \in Jobs : i # j => <<i, "initiate">> \in Runs /\ <<i, "initiate">> # first
    BY JobRuns
  <2>3. ASSUME NEW i \in Jobs, pc'[<<i, "initiate">>] # "idle"
        PROVE  row'[i].status # "absent"
    BY <1>2, <1>3, <2>2, <2>3 DEF Held, Orderly, NoSecondStart, OnlyRow
  <2>. QED
    BY <1>1, <1>3, <2>1, <2>3 DEF Held, Orderly, NoSecondStart, recVars
<1>7. NoRowLeftBehind'
  <2>. SUFFICES ASSUME NEW i \in Jobs, row'[i].status \in NonTerminal
                PROVE  LiveRun(i)' \/ ToReconcile(i)' \/ lost'[i]
    BY DEF NoRowLeftBehind
  <2>1. CASE i = j
    BY <1>0, <1>3, <2>1 DEF LiveRun
  <2>2. CASE i # j
    <3>1. LiveRun(i) => LiveRun(i)'
      BY <1>0, <1>3, <2>2 DEF LiveRun
    <3>. QED
      BY <1>1, <1>2, <2>2, <3>1 DEF Held, NoRowLeftBehind, OnlyRow, ToReconcile, recVars
  <2>. QED
    BY <2>1, <2>2
<1>. QED
  BY <1>5, <1>6, <1>7 DEF Held, Orderly

\* The steps that start and end no run.
LEMMA QuietStepHolds ==
    ASSUME TypeOK, Held, UNCHANGED <<pc, lines, hook, recVars, lost>>,
           NEW j \in Jobs, OnlyRow(j), row'[j].status = row[j].status
    PROVE  Held'
<1>1. \A i \in Jobs : row'[i].status = row[i].status
  BY DEF OnlyRow
<1>2. Orderly'
  BY <1>1 DEF Held, Orderly, QuietPipe, Drained, NoSecondStart, recVars
<1>3. NoRowLeftBehind'
  BY <1>1 DEF Held, NoRowLeftBehind, LiveRun, ToReconcile, recVars
<1>. QED
  BY <1>2, <1>3 DEF Held

LEMMA SelectHolds == ASSUME TypeOK, Held, ReconcileSelect PROVE Held'
<1>1. /\ recon = "ready" /\ recon' = "scan"
      /\ reconRows' = {<<j, row[j].batchJob>> :
                          j \in {i \in Jobs : row[i].status \in NonTerminal}}
      /\ UNCHANGED <<row, pc, lines, hook, lost>>
  BY DEF ReconcileSelect, runVars, histVars
<1>2. Orderly'
  BY <1>1 DEF Held, Orderly, QuietPipe, Drained, NoSecondStart
<1>3. NoRowLeftBehind'
  <2>. SUFFICES ASSUME NEW j \in Jobs, row[j].status \in NonTerminal
                PROVE  \E b \in BOOLEAN : <<j, b>> \in reconRows'
    BY <1>1 DEF NoRowLeftBehind, ToReconcile
  <2>1. row[j].batchJob \in BOOLEAN
    BY DEF TypeOK, Row
  <2>2. <<j, row[j].batchJob>> \in reconRows'
    BY <1>1
  <2>. QED
    BY <2>1, <2>2
<1>. QED
  BY <1>2, <1>3 DEF Held

LEMMA RestartHolds == ASSUME TypeOK, Restart PROVE Held'
<1>1. /\ recon' = "ready" /\ \A r \in Runs : pc'[r] = "idle"
      /\ reconRows' = {} /\ \A r \in Runs : lines'[r] = <<>> /\ hook'[r] = "read"
  BY DEF Restart, FreshProcess
<1>2. Orderly'
  BY <1>1, JobRuns DEF Orderly, QuietPipe, Drained, NoSecondStart
<1>3. NoRowLeftBehind'
  BY <1>1 DEF NoRowLeftBehind, ToReconcile
<1>. QED
  BY <1>2, <1>3 DEF Held

LEMMA HeldStep == ASSUME TypeOK, Held, [Next]_vars PROVE Held'
<1>0. row \in [Jobs -> Row]
  BY DEF TypeOK
<1>1. ASSUME NEW r \in Runs, RunStep(r) PROVE Held'
  BY <1>1, RunStepMoves, MovesOrderly, MovesAttended DEF Held, Orderly
<1>2. CASE \E j \in Jobs : Notify(j)
  <2>. PICK j \in Jobs : Notify(j)
    BY <1>2
  <2>1. UNCHANGED <<row, pc, lines, hook, recVars, lost>>
    BY DEF Notify, runVars
  <2>. QED
    BY <2>1, QuietStepHolds DEF OnlyRow
<1>3. CASE \E j \in Jobs : DeleteSnapshot(j)
  <2>. PICK j \in Jobs : DeleteSnapshot(j)
    BY <1>3
  <2>1. /\ row' = [row EXCEPT ![j].snap = FALSE]
        /\ UNCHANGED <<pc, lines, hook, recVars, lost>>
    BY DEF DeleteSnapshot, runVars, histVars
  <2>2. OnlyRow(j) /\ row'[j].status = row[j].status
    BY <1>0, <2>1, RowEffect, WordsOfRows
  <2>. QED
    BY <2>1, <2>2, QuietStepHolds
<1>4. CASE UNCHANGED vars
  <2>1. UNCHANGED <<row, pc, lines, hook, recVars, lost>>
    BY <1>4 DEF vars, runVars, histVars
  <2>. QED
    BY <2>1 DEF Held, Orderly, QuietPipe, Drained, NoSecondStart,
       NoRowLeftBehind, LiveRun, ToReconcile, recVars
<1>. QED
  BY <1>1, <1>2, <1>3, <1>4, HookHolds, DeadlineHolds, TriageHolds,
     InitiateHolds, SelectHolds, RestartHolds, StepCases

LEMMA InitHolds == Init => Held
<1>. SUFFICES ASSUME Init PROVE Held
  OBVIOUS
<1>2. Orderly
  BY JobRuns DEF Init, Orderly, QuietPipe, Drained, NoSecondStart
<1>3. NoRowLeftBehind
  BY DEF Init, NoRowLeftBehind, ToReconcile
<1>. QED
  BY <1>2, <1>3 DEF Held

LEMMA AlwaysHeld == Spec => [](TypeOK /\ Held)
BY TypeCorrect, InitHolds, HeldStep, PTL DEF Spec

\* Wherever goroutines race, deadlines pass and the container restarts, a row
\* shown as under way has a goroutine, a triage to come, or lost its verdict to a
\* deadline in this life of the process.
THEOREM NobodyIsLeft == Spec => []NoRowLeftBehind
<1>1. Held => NoRowLeftBehind
  BY DEF Held
<1>. QED
  BY <1>1, AlwaysHeld, PTL

-----------------------------------------------------------------------------
(* A restore as large as the index is announced *)

Planned  == {"lookup", "request", "exited", "mark"} \cup InRustic
Fetching == {"download", "exited", "mark"}
Warming  == {"warm", "wait"} \cup Fetching

\* The sentinel is in the pipe, with the hook, or has been claimed.
Told(r) == HasSentinel(lines[r]) \/ hook[r] = "claim" \/ ~ClaimIsFree(JobOf(r))

\* No plan has more batches than the index; rustic downloads after the last
\* batch the job needs; a wrapper that has reached its plan has said so.
Announces(r) ==
    /\ pc[r] \in Planned => total[r] \in 1 .. IndexBatches
    /\ pc[r] \in Fetching => batch[r] = need[JobOf(r)]
    /\ pc[r] \in Warming /\ batch[r] >= total[r] => Told(r)

Announced == \A r \in Runs : Announces(r)

\* A claim, once made, stands.
LEMMA ClaimsStand ==
    ASSUME TypeOK, [Next]_vars, NEW j \in Jobs, ~ClaimIsFree(j)
    PROVE  ~ClaimIsFree(j)'
<1>1. CASE \E r \in Runs : NotifyWarmupOnce(r)
  <2>. PICK r \in Runs : NotifyWarmupOnce(r)
    BY <1>1
  <2>1. UNCHANGED row \/ row' = [row EXCEPT ![JobOf(r)].notified = TRUE]
    BY DEF NotifyWarmupOnce
  <2>. QED
    BY <2>1, RunJob DEF ClaimIsFree, TypeOK, Row
<1>2. CASE KeepsClaims
  BY <1>2 DEF KeepsClaims
<1>3. CASE (\E i \in Jobs : Notify(i)) \/ Restart \/ UNCHANGED vars
  BY <1>3 DEF Notify, Restart, vars, ClaimIsFree
<1>. QED
  BY <1>1, <1>2, <1>3, RunStepKeepsClaims, OtherStepsKeepClaims, StepCases DEF HookStep

LEMMA SentinelStays ==
    ASSUME NEW q \in Seq({"id", "sentinel"}), NEW x \in {"id", "sentinel"}
    PROVE  /\ HasSentinel(q) => HasSentinel(Append(q, x))
           /\ HasSentinel(Append(q, "sentinel"))
           /\ q # <<>> /\ HasSentinel(q) =>
                 Head(q) = "sentinel" \/ HasSentinel(Tail(q))
<1>1. Len(q) \in Nat
  OBVIOUS
<1>2. ASSUME HasSentinel(q) PROVE HasSentinel(Append(q, x))
  <2>1. PICK n \in 1 .. Len(q) : q[n] = "sentinel"
    BY <1>2 DEF HasSentinel
  <2>2. n \in 1 .. Len(Append(q, x)) /\ Append(q, x)[n] = "sentinel"
    BY <1>1, <2>1
  <2>. QED
    BY <2>2 DEF HasSentinel
<1>3. HasSentinel(Append(q, "sentinel"))
  <2>. DEFINE n == Len(q) + 1
  <2>1. n \in 1 .. Len(Append(q, "sentinel")) /\ Append(q, "sentinel")[n] = "sentinel"
    BY <1>1
  <2>. QED
    BY <2>1 DEF HasSentinel
<1>4. ASSUME q # <<>>, HasSentinel(q), Head(q) # "sentinel" PROVE HasSentinel(Tail(q))
  <2>1. PICK n \in 1 .. Len(q) : q[n] = "sentinel"
    BY <1>4 DEF HasSentinel
  <2>2. n # 1
    BY <1>4, <2>1
  <2>3. n - 1 \in 1 .. Len(Tail(q)) /\ Tail(q)[n - 1] = "sentinel"
    BY <1>1, <1>4, <2>1, <2>2
  <2>. QED
    BY <2>3 DEF HasSentinel
<1>. QED
  BY <1>2, <1>3, <1>4

\* A run that a step does not touch goes on announcing.
LEMMA OtherRuns ==
    ASSUME TypeOK, [Next]_vars, NEW q \in Runs, Announces(q),
           pc'[q] = pc[q], total'[q] = total[q], batch'[q] = batch[q],
           Told(q) => Told(q)', need' = need
    PROVE  Announces(q)'
BY DEF Announces

LEMMA SamePipe ==
    ASSUME TypeOK, [Next]_vars, NEW q \in Runs,
           lines'[q] = lines[q], hook'[q] = hook[q], Told(q)
    PROVE  Told(q)'
BY ClaimsStand, RunJob DEF Told

LEMMA RunStepAnnounces ==
    ASSUME TypeOK, RunInv, Announced, [Next]_vars, NEW r \in Runs, RunStep(r)
    PROVE  Announced'
<1>. DEFINE i == JobOf(r)
<1>0. i \in Jobs /\ Announces(r) /\ lines[r] \in Seq({"id", "sentinel"})
  BY RunJob DEF Announced, TypeOK
<1>1. /\ \A q \in Runs : q # r => /\ pc'[q] = pc[q] /\ lines'[q] = lines[q]
                                  /\ total'[q] = total[q] /\ batch'[q] = batch[q]
      /\ hook' = hook /\ need' = need
  BY DEF RunStep, ComputeWarmupPlan, Prepare, RequestWarmup, SubmitBatch, ThawBatch,
     OrphanThaws, BatchThawed, StartDownload, FinishDownload, RusticFails, RusticDies,
     StampCompletedAt, MarkCompleted, MarkFailed, Return, ResumeLoad, ResumeClear,
     Goto, TypeOK
<1>2. \A q \in Runs : q # r => Announces(q)'
  BY <1>1, OtherRuns, SamePipe DEF Announced
<1>3. Announces(r)'
  <2>. USE <1>0 DEF Announces, Planned, Fetching, Warming, Goto, TypeOK
  <2>1. CASE ComputeWarmupPlan(r)
    <3>1. pc'[r] = "lookup" /\ total'[r] \in {1, IndexBatches}
      BY <2>1 DEF ComputeWarmupPlan
    <3>. QED
      BY <3>1, IndexAssumption
  <2>2. CASE Prepare(r)
    BY <2>2 DEF Prepare
  <2>3. CASE RequestWarmup(r)
    <3>1. pc[r] = "request" /\ pc'[r] = "warm" /\ UNCHANGED <<total, batch>>
      BY <2>3 DEF RequestWarmup
    <3>2. batch[r] = 0 /\ total[r] \in 1 .. IndexBatches
      BY <3>1 DEF RunInv, WithinNeed
    <3>. QED
      BY <3>1, <3>2, IndexAssumption
  <2>4. CASE SubmitBatch(r)
    <3>1. /\ pc[r] = "warm" /\ pc'[r] = "wait" /\ UNCHANGED <<total, batch>>
          /\ lines'[r] = Append(lines[r], "id")
      BY <2>4 DEF SubmitBatch
    <3>2. Told(r) => Told(r)'
      BY <1>1, <3>1, ClaimsStand, SentinelStays DEF Told
    <3>. QED
      BY <3>1, <3>2
  <2>5. CASE ThawBatch(r)
    <3>1. /\ pc[r] = "wait" /\ pc'[r] = "warm" /\ UNCHANGED total
          /\ batch'[r] = batch[r] + 1
          /\ batch'[r] >= total[r] => lines'[r] = Append(lines[r], "sentinel")
      BY <2>5 DEF ThawBatch, BatchThawed, IsLastBatch
    <3>2. batch'[r] >= total'[r] => Told(r)'
      BY <3>1, SentinelStays DEF Told
    <3>. QED
      BY <3>1, <3>2
  <2>6. CASE StartDownload(r)
    <3>1. /\ pc[r] = "warm" /\ pc'[r] = "download" /\ batch[r] = need[i]
          /\ UNCHANGED <<total, batch, lines>>
      BY <2>6 DEF StartDownload
    <3>2. Told(r) => Told(r)'
      BY <1>1, <3>1, SamePipe
    <3>. QED
      BY <1>1, <3>1, <3>2
  <2>7. CASE FinishDownload(r) \/ StampCompletedAt(r)
    <3>1. /\ pc[r] \in Fetching /\ pc'[r] \in Fetching
          /\ UNCHANGED <<total, batch, lines>>
      BY <2>7 DEF FinishDownload, StampCompletedAt
    <3>2. Told(r) => Told(r)'
      BY <1>1, <3>1, SamePipe
    <3>. QED
      BY <1>1, <3>1, <3>2
  <2>8. CASE \/ OrphanThaws(r) \/ RusticFails(r) \/ MarkCompleted(r) \/ MarkFailed(r)
             \/ ResumeLoad(r) \/ ResumeClear(r)
    <3>1. pc'[r] \in {"failing", "idle", "clear", "plan"}
      BY <2>8 DEF OrphanThaws, BatchThawed, RusticFails, MarkCompleted, MarkFailed,
         Return, ResumeLoad, ResumeClear
    <3>. QED
      BY <3>1
  <2>9. CASE RusticDies(r)
    <3>1. pc[r] = "wait" /\ pc'[r] = "orphan" /\ UNCHANGED <<total, batch>>
      BY <2>9 DEF RusticDies
    <3>. QED
      BY <3>1
  <2>. QED
    BY <2>1, <2>2, <2>3, <2>4, <2>5, <2>6, <2>7, <2>8, <2>9 DEF RunStep
<1>. QED
  BY <1>2, <1>3 DEF Announced

LEMMA HookStepAnnounces ==
    ASSUME TypeOK, Announced, [Next]_vars, NEW r \in Runs, HookStep(r)
    PROVE  Announced'
<1>. DEFINE i == JobOf(r)
<1>0. i \in Jobs /\ lines[r] \in Seq({"id", "sentinel"})
  BY RunJob DEF TypeOK
<1>1. /\ UNCHANGED <<pc, total, batch, need>>
      /\ \A q \in Runs : q # r => lines'[q] = lines[q] /\ hook'[q] = hook[q]
  BY DEF HookStep, HookRecordsBatchJob, HookSeesSentinel, NotifyWarmupOnce, TypeOK
<1>2. Told(r) => Told(r)'
  <2>. SUFFICES ASSUME Told(r) PROVE Told(r)'
    OBVIOUS
  <2>1. CASE HookRecordsBatchJob(r)
    <3>1. /\ lines[r] # <<>> /\ Head(lines[r]) = "id" /\ lines'[r] = Tail(lines[r])
          /\ UNCHANGED hook
      BY <2>1 DEF HookRecordsBatchJob, TypeOK
    <3>. QED
      BY <1>0, <3>1, ClaimsStand, SentinelStays DEF Told
  <2>2. CASE HookSeesSentinel(r)
    <3>1. hook'[r] = "claim"
      BY <2>2 DEF HookSeesSentinel, TypeOK
    <3>. QED
      BY <3>1 DEF Told
  <2>3. CASE NotifyWarmupOnce(r)
    <3>1. ~ClaimIsFree(i)'
      BY <1>0, <2>3 DEF NotifyWarmupOnce, ClaimIsFree, TypeOK, Row
    <3>. QED
      BY <3>1 DEF Told
  <2>. QED
    BY <2>1, <2>2, <2>3 DEF HookStep
<1>. QED
  BY <1>1, <1>2, OtherRuns, SamePipe DEF Announced

LEMMA AnnouncedStep ==
    ASSUME TypeOK, RunInv, Announced, [Next]_vars PROVE Announced'
<1>1. CASE UNCHANGED <<pc, total, batch, lines, hook, need>>
  BY <1>1, OtherRuns, SamePipe DEF Announced
<1>2. CASE (\E j \in Jobs : Notify(j) \/ DeleteSnapshot(j)) \/ ReconcileSelect
             \/ UNCHANGED vars
  BY <1>1, <1>2 DEF Notify, DeleteSnapshot, ReconcileSelect, vars, runVars
<1>3. ASSUME NEW r \in Runs, DeadlinePasses(r) PROVE Announced'
  <2>1. /\ \A q \in Runs : q # r => pc'[q] = pc[q]
        /\ \/ pc[r] = "wait" /\ pc'[r] = "orphan"
           \/ pc[r] \in {"exited", "mark"} /\ pc'[r] = pc[r]
           \/ pc'[r] = "failing"
        /\ UNCHANGED <<total, batch, lines, hook, need>>
    BY <1>3 DEF DeadlinePasses, TypeOK
  <2>2. \A q \in Runs : q # r => Announces(q)'
    BY <2>1, OtherRuns, SamePipe DEF Announced
  <2>3. Announces(r) /\ (Told(r) => Told(r)')
    BY <2>1, SamePipe DEF Announced
  <2>4. Announces(r)'
    BY <2>1, <2>3 DEF Announces, Planned, Fetching, Warming
  <2>. QED
    BY <2>2, <2>4 DEF Announced
\* A run that starts has no plan yet.
<1>4. ASSUME NEW r \in Runs, NEW to \in {"load", "plan"},
             pc' = [pc EXCEPT ![r] = to],
             UNCHANGED <<total, batch, lines, hook, need>>
      PROVE  Announced'
  <2>1. \A q \in Runs : q # r => Announces(q)'
    BY <1>4, OtherRuns, SamePipe DEF Announced, TypeOK
  <2>2. Announces(r)'
    BY <1>4 DEF Announces, Planned, Fetching, Warming, TypeOK
  <2>. QED
    BY <2>1, <2>2 DEF Announced
<1>5. CASE \E j \in Jobs : Initiate(j)
  BY <1>4, <1>5, JobRuns DEF Initiate
<1>6. ASSUME NEW j \in Jobs, ReconcileRow(j) PROVE Announced'
  <2>1. /\ UNCHANGED <<total, batch, lines, hook, need>>
        /\ UNCHANGED pc \/ pc' = [pc EXCEPT ![<<j, "resume">>] = "load"]
    BY <1>6 DEF ReconcileRow
  <2>. QED
    BY <1>1, <1>4, <2>1, JobRuns
<1>7. CASE Restart
  BY <1>7 DEF Restart, FreshProcess, Announced, Announces, Planned, Fetching, Warming
<1>. QED
  BY <1>2, <1>3, <1>5, <1>6, <1>7, RunStepAnnounces, HookStepAnnounces, StepCases

\* A row becomes completed only at the last statement of its run.
LEMMA OnlyMarkCompletes ==
    ASSUME TypeOK, [Next]_vars, NEW j \in Jobs,
           row'[j].status = "completed", row[j].status # "completed"
    PROVE  \E r \in Runs : MarkCompleted(r) /\ JobOf(r) = j
<1>0. row \in [Jobs -> Row]
  BY DEF TypeOK
\* Any other statement that sets a status.
<1>1. ASSUME NEW i \in Jobs, NEW s \in Status \ {"absent", "completed"}, NEW e \in Error,
             \/ UNCHANGED row \/ SetStatus(i, s, e)
             \/ row' = [row EXCEPT ![i].status = s]
             \/ row' = [row EXCEPT ![i].batchJob = TRUE, ![i].status = s]
      PROVE  FALSE
  BY <1>0, <1>1, StatusCompletesNone DEF NoneCompletes
\* A statement that sets another column.
<1>2. ASSUME NEW i \in Jobs, NEW b \in BOOLEAN,
             \/ UNCHANGED row
             \/ row' = [row EXCEPT ![i].batchJob = b]
             \/ row' = [row EXCEPT ![i].notified = b]
             \/ row' = [row EXCEPT ![i].finished = b]
             \/ row' = [row EXCEPT ![i].snap = b]
      PROVE  FALSE
  BY <1>0, <1>2, ColumnCompletesNone DEF NoneCompletes
<1>3. ASSUME NEW r \in Runs, RunStep(r) PROVE MarkCompleted(r) /\ JobOf(r) = j
  <2>. DEFINE i == JobOf(r)
  <2>0. i \in Jobs
    BY RunJob
  <2>1. CASE RequestWarmup(r)
    <3>1. UNCHANGED row \/ SetStatus(i, "warmup_requested", "none")
      BY <2>1 DEF RequestWarmup, InTime
    <3>. QED
      BY <1>1, <2>0, <3>1, WordsOfRows
  <2>2. CASE StampCompletedAt(r)
    BY <1>2, <2>0, <2>2 DEF StampCompletedAt, InTime
  <2>3. CASE MarkFailed(r) \/ ResumeLoad(r)
    <3>1. UNCHANGED row \/ SetStatus(i, "failed", "other")
      BY <2>3 DEF MarkFailed, ResumeLoad
    <3>. QED
      BY <1>1, <2>0, <3>1, WordsOfRows
  <2>4. CASE ResumeClear(r)
    BY <1>2, <2>0, <2>4 DEF ResumeClear
  <2>5. CASE \/ ComputeWarmupPlan(r) \/ Prepare(r) \/ SubmitBatch(r) \/ ThawBatch(r)
             \/ OrphanThaws(r) \/ StartDownload(r) \/ FinishDownload(r) \/ RusticFails(r)
             \/ RusticDies(r)
    BY <1>2, <2>0, <2>5 DEF ComputeWarmupPlan, Prepare, SubmitBatch, ThawBatch, OrphanThaws,
       BatchThawed, StartDownload, FinishDownload, RusticFails, RusticDies
  <2>6. CASE MarkCompleted(r)
    <3>1. UNCHANGED row \/ SetStatus(i, "completed", "none")
      BY <2>6 DEF MarkCompleted, InTime
    <3>2. OnlyRow(i)
      BY <1>0, <2>0, <3>1, RowEffect, WordsOfRows
    <3>. QED
      BY <2>6, <3>2 DEF OnlyRow
  <2>. QED
    BY <1>3, <2>1, <2>2, <2>3, <2>4, <2>5, <2>6 DEF RunStep
<1>4. ASSUME NEW r \in Runs, HookStep(r) PROVE FALSE
  <2>. DEFINE i == JobOf(r)
  <2>0. i \in Jobs
    BY RunJob
  <2>1. CASE HookRecordsBatchJob(r)
    <3>1. \/ UNCHANGED row
          \/ row' = [row EXCEPT ![i].batchJob = TRUE, ![i].status = "retrieval_in_progress"]
      BY <2>1 DEF HookRecordsBatchJob, InTime
    <3>. QED
      BY <1>1, <2>0, <3>1, WordsOfRows
  <2>2. CASE HookSeesSentinel(r)
    <3>1. UNCHANGED row \/ SetStatus(i, "retrieval_complete", "none")
      BY <2>2 DEF HookSeesSentinel, InTime
    <3>. QED
      BY <1>1, <2>0, <3>1, WordsOfRows
  <2>3. CASE NotifyWarmupOnce(r)
    BY <1>2, <2>0, <2>3 DEF NotifyWarmupOnce
  <2>. QED
    BY <1>4, <2>1, <2>2, <2>3 DEF HookStep
<1>5. ASSUME NEW i \in Jobs, ReconcileRow(i) PROVE FALSE
  <2>1. UNCHANGED row \/ SetStatus(i, "failed", "unsubmitted")
    BY <1>5 DEF ReconcileRow
  <2>. QED
    BY <1>1, <2>1, WordsOfRows
<1>6. ASSUME NEW i \in Jobs, Initiate(i) PROVE FALSE
  <2>1. row' = [row EXCEPT ![i].status = "queued"]
    BY <1>6 DEF Initiate
  <2>. QED
    BY <1>1, <2>1, WordsOfRows
<1>7. ASSUME NEW i \in Jobs, DeleteSnapshot(i) PROVE FALSE
  BY <1>2, <1>7 DEF DeleteSnapshot
<1>8. CASE \/ \E r \in Runs : DeadlinePasses(r)
           \/ \E i \in Jobs : Notify(i)
           \/ ReconcileSelect \/ Restart \/ UNCHANGED vars
  BY <1>8 DEF DeadlinePasses, Notify, ReconcileSelect, Restart, vars
<1>. QED
  BY <1>3, <1>4, <1>5, <1>6, <1>7, <1>8, StepCases

LEMMA SignalledStep ==
    ASSUME TypeOK, QuietPipe, Announced, FullRestoreSignalled, [Next]_vars
    PROVE  FullRestoreSignalled'
<1>1. need' = need
  BY StepCases DEF RunStep, ComputeWarmupPlan, Prepare, RequestWarmup, SubmitBatch,
     ThawBatch, OrphanThaws, BatchThawed, StartDownload, FinishDownload, RusticFails,
     RusticDies, StampCompletedAt, MarkCompleted, MarkFailed, ResumeLoad, ResumeClear,
     HookStep, HookRecordsBatchJob, HookSeesSentinel, NotifyWarmupOnce,
     DeadlinePasses, ReconcileRow, Notify, Initiate, DeleteSnapshot, ReconcileSelect,
     Restart, vars
<1>. SUFFICES ASSUME NEW j \in Jobs, row'[j].status = "completed", need[j] = IndexBatches
              PROVE  ~ClaimIsFree(j)'
  BY <1>1 DEF FullRestoreSignalled, ClaimIsFree
<1>2. CASE row[j].status = "completed"
  BY <1>2, ClaimsStand DEF FullRestoreSignalled, ClaimIsFree
<1>3. CASE row[j].status # "completed"
  <2>. PICK r \in Runs : MarkCompleted(r) /\ JobOf(r) = j
    BY <1>3, OnlyMarkCompletes
  <2>1. pc[r] = "mark"
    BY DEF MarkCompleted, Return, Goto
  <2>2. lines[r] = <<>> /\ hook[r] = "read"
    BY <2>1 DEF QuietPipe, Piped, Drained
  <2>3. batch[r] = IndexBatches /\ total[r] \in 1 .. IndexBatches
    BY <2>1 DEF Announced, Announces, Planned, Fetching
  <2>4. Told(r)
    BY <2>1, <2>3, IndexAssumption DEF Announced, Announces, Warming, Fetching
  <2>5. ~ClaimIsFree(j)
    BY <2>2, <2>4 DEF Told, HasSentinel
  <2>. QED
    BY <2>5, ClaimsStand
<1>. QED
  BY <1>2, <1>3

\* Whatever deadlines, restarts and racing runs come between, a restore of as
\* many batches as the index holds does not complete before the notification of
\* its user has been claimed.
THEOREM FullRestoreIsSignalled == Spec => []FullRestoreSignalled
<1>1. Init => RunInv /\ Announced /\ FullRestoreSignalled
  <2>. SUFFICES ASSUME Init PROVE RunInv /\ Announced /\ FullRestoreSignalled
    OBVIOUS
  <2>1. RunInv
    BY IndexAssumption DEF Init, RunInv, PlanCovers, WithinNeed, NeedWithinIndex
  <2>2. Announced
    BY DEF Init, Announced, Announces, Planned, Fetching, Warming
  <2>3. FullRestoreSignalled
    BY DEF Init, FullRestoreSignalled, NoRow
  <2>. QED
    BY <2>1, <2>2, <2>3
<1>2. Held => QuietPipe
  BY DEF Held, Orderly
<1>. QED
  BY <1>1, <1>2, AlwaysHeld, RunInvStep, AnnouncedStep, SignalledStep, PTL DEF Spec

-----------------------------------------------------------------------------
(* How a run ends *)

\* The stations ahead of a run, its batches aside.
Stage == [l \in Stations |->
    CASE l = "load"                -> 9
      [] l = "clear"               -> 8
      [] l = "plan"                -> 7
      [] l = "lookup"              -> 6
      [] l = "request"             -> 5
      [] l \in {"warm", "orphan"}  -> 4
      [] l = "download"            -> 3
      [] l = "exited"              -> 2
      [] l \in {"mark", "failing"} -> 1
      [] l = "wait"                -> 1
      [] l = "idle"                -> 0]

\* The batches it has still to thaw.
ToThaw(r) ==
    IF pc[r] \in {"load", "clear", "plan", "lookup", "request"} THEN need[JobOf(r)]
    ELSE IF pc[r] \in {"warm", "wait"} THEN need[JobOf(r)] - batch[r] ELSE 0

Claiming(r) == IF hook[r] = "claim" THEN 1 ELSE 0

\* The steps of a run and of its line hook: a batch has two and writes at most
\* two lines, and a line has at most two.
Left(r) == Stage[pc[r]] + 6 * ToThaw(r) + 2 * Len(lines[r]) + Claiming(r)

\* What a step of one run leaves alone.
OthersStay(r) == need' = need /\ \A q \in Runs \ {r} :
    pc'[q] = pc[q] /\ batch'[q] = batch[q] /\ lines'[q] = lines[q] /\ hook'[q] = hook[q]

LEMMA Stages ==
    /\ Stage["load"] = 9 /\ Stage["clear"] = 8 /\ Stage["plan"] = 7 /\ Stage["lookup"] = 6
    /\ Stage["request"] = 5 /\ Stage["warm"] = 4 /\ Stage["wait"] = 1 /\ Stage["orphan"] = 4
    /\ Stage["download"] = 3 /\ Stage["exited"] = 2 /\ Stage["mark"] = 1
    /\ Stage["failing"] = 1 /\ Stage["idle"] = 0
    /\ \A l \in Stations : Stage[l] \in Nat
BY DEF Stage, Stations

LEMMA Weights ==
    ASSUME NEW s \in Nat, NEW t \in Nat, NEW l \in Nat, NEW c \in {0, 1}
    PROVE  /\ s + 6 * t + 2 * l + c \in Nat
           /\ \A s2, t2, l2, k \in Nat :
                 l2 <= l + k /\ s2 + 6 * t2 + 2 * k < s + 6 * t
                 => s2 + 6 * t2 + 2 * l2 + c < s + 6 * t + 2 * l + c
OBVIOUS

LEMMA PartsTyped ==
    ASSUME TypeOK, RunInv, NEW r \in Runs
    PROVE  /\ Stage[pc[r]] \in Nat /\ ToThaw(r) \in Nat /\ Claiming(r) \in {0, 1}
           /\ Len(lines[r]) \in Nat /\ Left(r) \in Nat
<1>1. /\ need[JobOf(r)] \in Nat /\ batch[r] \in Nat /\ Len(lines[r]) \in Nat
      /\ pc[r] \in Stations
  BY RunJob DEF TypeOK
<1>2. pc[r] \in {"warm", "wait"} => batch[r] <= need[JobOf(r)]
  BY <1>1 DEF RunInv, WithinNeed
<1>3. ToThaw(r) \in Nat
  BY <1>1, <1>2 DEF ToThaw
<1>4. Claiming(r) \in {0, 1}
  BY DEF Claiming
<1>5. Stage[pc[r]] \in Nat
  BY <1>1, Stages
<1>. QED
  BY <1>1, <1>3, <1>4, <1>5, Weights DEF Left

\* The same after a step.
LEMMA PartsLater ==
    ASSUME TypeOK', RunInv', NEW r \in Runs
    PROVE  /\ Stage[pc'[r]] \in Nat /\ ToThaw(r)' \in Nat /\ Claiming(r)' \in {0, 1}
           /\ Len(lines'[r]) \in Nat /\ Left(r)' \in Nat
<1>1. /\ need'[JobOf(r)] \in Nat /\ batch'[r] \in Nat /\ Len(lines'[r]) \in Nat
      /\ pc'[r] \in Stations
  BY RunJob DEF TypeOK
<1>2. pc'[r] \in {"warm", "wait"} => batch'[r] <= need'[JobOf(r)]
  BY <1>1 DEF RunInv, WithinNeed
<1>3. ToThaw(r)' \in Nat
  BY <1>1, <1>2 DEF ToThaw
<1>4. Claiming(r)' \in {0, 1}
  BY DEF Claiming
<1>5. Stage[pc'[r]] \in Nat
  BY <1>1, Stages
<1>. QED
  BY <1>1, <1>3, <1>4, <1>5, Weights DEF Left

\* A step that leaves the claim alone lowers what is left if what it takes from
\* the stations and the batches is worth more than the lines it writes.
LEMMA Lowered ==
    ASSUME TypeOK, RunInv, TypeOK', RunInv', NEW r \in Runs, hook'[r] = hook[r],
           NEW k \in Nat, Len(lines'[r]) <= Len(lines[r]) + k,
           Stage[pc'[r]] + 6 * ToThaw(r)' + 2 * k < Stage[pc[r]] + 6 * ToThaw(r)
    PROVE  Left(r)' < Left(r)
<1>1. /\ Stage[pc[r]] \in Nat /\ ToThaw(r) \in Nat /\ Len(lines[r]) \in Nat
      /\ Claiming(r) \in {0, 1}
  BY PartsTyped
<1>2. Stage[pc'[r]] \in Nat /\ ToThaw(r)' \in Nat /\ Len(lines'[r]) \in Nat
  BY PartsLater
<1>3. Claiming(r)' = Claiming(r)
  BY DEF Claiming
<1>4. Left(r) = Stage[pc[r]] + 6 * ToThaw(r) + 2 * Len(lines[r]) + Claiming(r)
  BY DEF Left
<1>5. Left(r)' = Stage[pc'[r]] + 6 * ToThaw(r)' + 2 * Len(lines'[r]) + Claiming(r)
  BY <1>3 DEF Left
<1>6. Stage[pc'[r]] + 6 * ToThaw(r)' + 2 * Len(lines'[r]) + Claiming(r)
         < Stage[pc[r]] + 6 * ToThaw(r) + 2 * Len(lines[r]) + Claiming(r)
  <2>. DEFINE s == Stage[pc[r]]    s2 == Stage[pc'[r]]
              t == ToThaw(r)       t2 == ToThaw(r)'
              l == Len(lines[r])   l2 == Len(lines'[r])
  <2>1. s \in Nat /\ t \in Nat /\ l \in Nat /\ s2 \in Nat /\ t2 \in Nat /\ l2 \in Nat
    BY <1>1, <1>2
  <2>2. l2 <= l + k /\ s2 + 6 * t2 + 2 * k < s + 6 * t /\ Claiming(r) \in {0, 1}
    BY <1>1
  <2>. HIDE DEF s, t, l, s2, t2, l2
  <2>3. s2 + 6 * t2 + 2 * l2 + Claiming(r) < s + 6 * t + 2 * l + Claiming(r)
    BY <2>1, <2>2, Weights
  <2>. QED
    BY <2>3 DEF s, t, l, s2, t2, l2
<1>. QED
  BY <1>4, <1>5, <1>6

LEMMA OneLineMore ==
    ASSUME TypeOK, NEW r \in Runs, NEW l \in {"id", "sentinel"},
           lines' = [lines EXCEPT ![r] = Append(@, l)]
    PROVE  Len(lines'[r]) = Len(lines[r]) + 1
<1>1. lines[r] \in Seq({"id", "sentinel"}) /\ lines'[r] = Append(lines[r], l)
  BY DEF TypeOK
<1>. QED
  BY <1>1

LEMMA OneLineLess ==
    ASSUME TypeOK, NEW r \in Runs, lines[r] # <<>>,
           lines' = [lines EXCEPT ![r] = Tail(@)]
    PROVE  Len(lines'[r]) = Len(lines[r]) - 1
<1>1. lines[r] \in Seq({"id", "sentinel"}) /\ lines'[r] = Tail(lines[r])
  BY DEF TypeOK
<1>. QED
  BY <1>1, HeadTailProperties

LEMMA RunStepDescends ==
    ASSUME TypeOK, RunInv, TypeOK', RunInv', NEW r \in Runs, RunStep(r)
    PROVE  OthersStay(r) /\ Left(r)' < Left(r)
<1>. DEFINE n == need[JobOf(r)]
            Goes(from, to) == pc[r] = from /\ pc'[r] = to
<1>0. /\ pc \in [Runs -> Stations] /\ batch \in [Runs -> Nat] /\ hook \in [Runs -> {"read", "claim"}]
      /\ lines \in [Runs -> Seq({"id", "sentinel"})]
      /\ n \in Nat /\ batch[r] \in Nat /\ batch'[r] \in Nat
      /\ Len(lines[r]) \in Nat /\ Len(lines'[r]) \in Nat
  BY RunJob DEF TypeOK
<1>1. CASE \/ ComputeWarmupPlan(r) \/ Prepare(r) \/ RequestWarmup(r) \/ StartDownload(r)
           \/ FinishDownload(r) \/ RusticFails(r) \/ RusticDies(r) \/ StampCompletedAt(r)
           \/ MarkCompleted(r) \/ MarkFailed(r) \/ ResumeLoad(r) \/ ResumeClear(r)
  <2>1. OthersStay(r) /\ UNCHANGED <<need, lines, hook>>
    BY <1>0, <1>1
    DEF ComputeWarmupPlan, Prepare, RequestWarmup, StartDownload, FinishDownload, RusticFails,
        RusticDies, StampCompletedAt, MarkCompleted, MarkFailed, ResumeLoad, ResumeClear, Return, Goto,
        OthersStay
  <2>2. \/ Goes("plan", "lookup") \/ Goes("lookup", "request") \/ Goes("lookup", "failing")
        \/ Goes("request", "warm") /\ batch'[r] = batch[r]
        \/ Goes("warm", "download") /\ batch[r] = n
        \/ Goes("download", "exited") \/ Goes("exited", "mark") \/ Goes("mark", "idle")
        \/ Goes("failing", "idle") \/ Goes("load", "clear") \/ Goes("load", "idle")
        \/ Goes("clear", "plan")
        \/ pc[r] \in InRustic /\ pc'[r] = "failing" /\ UNCHANGED batch
        \/ Goes("wait", "orphan")
    BY <1>0, <1>1
    DEF ComputeWarmupPlan, Prepare, RequestWarmup, StartDownload, FinishDownload, RusticFails,
        RusticDies, StampCompletedAt, MarkCompleted, MarkFailed, ResumeLoad, ResumeClear, Return, Goto
  <2>3. /\ pc[r] = "request" => batch[r] = 0
        /\ pc[r] = "warm" => batch[r] <= n
        /\ pc[r] = "wait" => batch[r] < n
    BY DEF RunInv, WithinNeed
  <2>4. Stage[pc'[r]] + 6 * ToThaw(r)' + 2 * 0 < Stage[pc[r]] + 6 * ToThaw(r)
    <3>1. need'[JobOf(r)] = n
      BY <2>1
    <3>2. CASE Goes("warm", "download") /\ batch[r] = n
      BY <1>0, <3>1, <3>2, Stages DEF ToThaw
    <3>3. CASE Goes("request", "warm") /\ batch'[r] = batch[r]
      BY <1>0, <2>3, <3>1, <3>3, Stages DEF ToThaw
    <3>4. CASE pc[r] \in InRustic /\ pc'[r] = "failing"
      <4>1. ToThaw(r)' = 0 /\ ToThaw(r) \in Nat
        BY <3>4, PartsTyped DEF ToThaw
      <4>2. pc[r] = "wait" => ToThaw(r) = n - batch[r] /\ ToThaw(r) > 0
        BY <1>0, <2>3 DEF ToThaw
      <4>. QED
        BY <3>4, <4>1, <4>2, Stages
    <3>8. CASE Goes("wait", "orphan")
      <4>1. ToThaw(r)' = 0 /\ ToThaw(r) \in Nat
        BY <3>8, PartsTyped DEF ToThaw
      <4>2. ToThaw(r) = n - batch[r] /\ ToThaw(r) > 0
        BY <1>0, <2>3, <3>8 DEF ToThaw
      <4>. QED
        BY <3>8, <4>1, <4>2, Stages
    <3>5. ToThaw(r) \in Nat /\ ToThaw(r)' \in Nat
      BY PartsTyped, PartsLater
    <3>6. CASE \/ Goes("plan", "lookup") \/ Goes("lookup", "request") \/ Goes("load", "clear")
               \/ Goes("clear", "plan")
      <4>1. ToThaw(r)' = ToThaw(r)
        BY <3>1, <3>6 DEF ToThaw
      <4>. QED
        BY <3>5, <3>6, <4>1, Stages
    <3>7. CASE \/ Goes("lookup", "failing") \/ Goes("download", "exited") \/ Goes("exited", "mark")
               \/ Goes("mark", "idle") \/ Goes("failing", "idle") \/ Goes("load", "idle")
      <4>1. ToThaw(r)' = 0
        BY <3>7 DEF ToThaw
      <4>. QED
        BY <3>5, <3>7, <4>1, Stages
    <3>. QED
      BY <2>2, <3>2, <3>3, <3>4, <3>6, <3>7, <3>8
  <2>5. Len(lines'[r]) <= Len(lines[r]) + 0 /\ hook'[r] = hook[r]
    BY <1>0, <2>1
  <2>. QED
    BY <2>1, <2>4, <2>5, Lowered
<1>2. CASE SubmitBatch(r)
  <2>1. /\ Goes("warm", "wait") /\ batch[r] < n /\ n = need'[JobOf(r)]
        /\ batch' = batch /\ hook'[r] = hook[r] /\ OthersStay(r)
    BY <1>0, <1>2 DEF SubmitBatch, Goto, OthersStay
  <2>2. Len(lines'[r]) <= Len(lines[r]) + 1
    BY <1>0, <1>2, OneLineMore DEF SubmitBatch
  <2>3. Stage[pc'[r]] + 6 * ToThaw(r)' + 2 * 1 < Stage[pc[r]] + 6 * ToThaw(r)
    BY <1>0, <2>1, Stages DEF ToThaw
  <2>. QED
    BY <2>1, <2>2, <2>3, Lowered
<1>3. ASSUME NEW from, NEW to \in Stations, BatchThawed(r, from, to)
      PROVE  /\ Goes(from, to) /\ batch'[r] = batch[r] + 1
             /\ hook'[r] = hook[r] /\ n = need'[JobOf(r)] /\ OthersStay(r)
             /\ Len(lines'[r]) <= Len(lines[r]) + 1
  <2>1. \/ lines' = lines
        \/ lines' = [lines EXCEPT ![r] = Append(@, "sentinel")]
    BY <1>3 DEF BatchThawed
  <2>2. Len(lines'[r]) <= Len(lines[r]) + 1
    BY <1>0, <2>1, OneLineMore
  <2>. QED
    BY <1>0, <1>3, <2>1, <2>2 DEF BatchThawed, Goto, OthersStay
<1>4. CASE ThawBatch(r)
  <2>1. BatchThawed(r, "wait", "warm") /\ "warm" \in Stations
    BY <1>4 DEF ThawBatch, Stations
  <2>2. Stage[pc'[r]] + 6 * ToThaw(r)' + 2 * 1 < Stage[pc[r]] + 6 * ToThaw(r)
    <3>1. ToThaw(r) = n - batch[r] /\ ToThaw(r)' = n - (batch[r] + 1)
      BY <1>3, <2>1 DEF ToThaw
    <3>2. Stage[pc[r]] = 1 /\ Stage[pc'[r]] = 4 /\ n \in Nat /\ batch[r] \in Nat
      BY <1>0, <1>3, <2>1, Stages
    <3>3. 4 + 6 * (n - (batch[r] + 1)) + 2 * 1 < 1 + 6 * (n - batch[r])
      BY <3>2
    <3>. QED
      BY <3>1, <3>2, <3>3
  <2>. QED
    BY <1>3, <2>1, <2>2, Lowered
<1>5. CASE OrphanThaws(r)
  <2>1. BatchThawed(r, "orphan", "failing") /\ "failing" \in Stations
    BY <1>5 DEF OrphanThaws, Stations
  <2>2. Stage[pc'[r]] + 6 * ToThaw(r)' + 2 * 1 < Stage[pc[r]] + 6 * ToThaw(r)
    <3>1. ToThaw(r) = 0 /\ ToThaw(r)' = 0
      BY <1>3, <2>1 DEF ToThaw
    <3>. QED
      BY <1>3, <2>1, <3>1, Stages
  <2>. QED
    BY <1>3, <2>1, <2>2, Lowered
<1>. QED
  BY <1>1, <1>2, <1>4, <1>5 DEF RunStep

LEMMA HookStepDescends ==
    ASSUME TypeOK, RunInv, NEW r \in Runs, HookStep(r)
    PROVE  OthersStay(r) /\ Left(r)' < Left(r)
<1>0. /\ hook \in [Runs -> {"read", "claim"}]
      /\ lines \in [Runs -> Seq({"id", "sentinel"})]
  BY DEF TypeOK
<1>1. /\ OthersStay(r) /\ UNCHANGED <<pc, batch, need>>
      /\ \/ hook[r] = "claim" /\ hook'[r] = "read" /\ lines' = lines
         \/ /\ hook[r] = "read" /\ hook'[r] \in {"read", "claim"} /\ lines[r] # <<>>
            /\ lines' = [lines EXCEPT ![r] = Tail(@)]
  BY <1>0 DEF HookStep, HookRecordsBatchJob, HookSeesSentinel, NotifyWarmupOnce, OthersStay
<1>2. \/ Claiming(r) = 1 /\ Claiming(r)' = 0 /\ Len(lines'[r]) = Len(lines[r])
      \/ Claiming(r) = 0 /\ Claiming(r)' \in {0, 1} /\ Len(lines'[r]) = Len(lines[r]) - 1
  BY <1>1, OneLineLess DEF Claiming
<1>3. Stage[pc[r]] \in Nat /\ ToThaw(r) \in Nat /\ Len(lines[r]) \in Nat
  BY PartsTyped
<1>4. Left(r) = Stage[pc[r]] + 6 * ToThaw(r) + 2 * Len(lines[r]) + Claiming(r)
  BY DEF Left
<1>5. Left(r)' = Stage[pc[r]] + 6 * ToThaw(r) + 2 * Len(lines'[r]) + Claiming(r)'
  BY <1>1 DEF Left, ToThaw
<1>. QED
  BY <1>1, <1>2, <1>3, <1>4, <1>5

LEMMA DeadlineDescends ==
    ASSUME TypeOK, RunInv, TypeOK', RunInv', NEW r \in Runs, DeadlinePasses(r)
    PROVE  OthersStay(r) /\ Left(r)' <= Left(r)
<1>. DEFINE n == need[JobOf(r)]
<1>0. /\ pc \in [Runs -> Stations] /\ n \in Nat /\ batch[r] \in Nat /\ Len(lines[r]) \in Nat
  BY RunJob DEF TypeOK
<1>1. OthersStay(r) /\ UNCHANGED <<batch, lines, hook, need>>
  BY <1>0 DEF DeadlinePasses, OthersStay
<1>2. \/ pc[r] = "wait" /\ pc'[r] = "orphan"
      \/ pc[r] \in {"warm", "download"} /\ pc'[r] = "failing"
      \/ pc[r] \in {"exited", "mark"} /\ pc'[r] = pc[r]
  BY <1>0 DEF DeadlinePasses
<1>3. /\ pc[r] = "warm" => batch[r] <= n
      /\ pc[r] = "wait" => batch[r] < n
  BY DEF RunInv, WithinNeed
<1>4. Left(r) \in Nat
  BY PartsTyped
<1>5. CASE pc'[r] = pc[r]
  <2>1. Left(r)' = Left(r)
    BY <1>1, <1>5 DEF Left, ToThaw, Claiming
  <2>. QED
    BY <1>1, <1>4, <2>1
<1>6. CASE pc'[r] # pc[r]
  <2>1. Stage[pc'[r]] + 6 * ToThaw(r)' + 2 * 0 < Stage[pc[r]] + 6 * ToThaw(r)
    <3>1. ToThaw(r)' = 0 /\ ToThaw(r) \in Nat
      BY <1>2, <1>6, PartsTyped DEF ToThaw
    <3>2. pc[r] = "wait" => ToThaw(r) = n - batch[r] /\ ToThaw(r) > 0
      BY <1>0, <1>3 DEF ToThaw
    <3>. QED
      BY <1>2, <1>6, <3>1, <3>2, Stages
  <2>2. Len(lines'[r]) <= Len(lines[r]) + 0 /\ hook'[r] = hook[r]
    BY <1>0, <1>1
  <2>3. Left(r)' < Left(r)
    BY <2>1, <2>2, Lowered
  <2>4. Left(r)' \in Nat
    BY PartsLater
  <2>. QED
    BY <1>1, <1>4, <2>3, <2>4
<1>. QED
  BY <1>5, <1>6

\* A step of a run or of its hook brings the run nearer to its end, a deadline
\* takes it no further away, and neither changes what another run has left.
RunsDescend == \A r \in Runs :
    /\ RunStep(r) \/ HookStep(r) => Left(r)' < Left(r)
    /\ DeadlinePasses(r) => Left(r)' <= Left(r)
    /\ RunStep(r) \/ HookStep(r) \/ DeadlinePasses(r) =>
          \A q \in Runs \ {r} : Left(q)' = Left(q)

\* No run goes on for ever: what it has left is a natural number that its own
\* steps lower, wherever the wrapper fails and whenever the deadline passes.
THEOREM RunsComeToAnEnd ==
    Spec => [](\A r \in Runs : Left(r) \in Nat) /\ [][RunsDescend]_vars
<1>1. Spec => [](TypeOK /\ RunInv)
  <2>1. Init => RunInv
    BY IndexAssumption DEF Init, RunInv, PlanCovers, WithinNeed, NeedWithinIndex
  <2>. QED
    BY <2>1, TypeCorrect, RunInvStep, PTL DEF Spec
<1>2. TypeOK /\ RunInv => \A r \in Runs : Left(r) \in Nat
  BY PartsTyped
<1>3. ASSUME TypeOK, RunInv, TypeOK', RunInv' PROVE RunsDescend
  <2>1. ASSUME NEW r \in Runs, OthersStay(r) PROVE \A q \in Runs \ {r} : Left(q)' = Left(q)
    BY <2>1 DEF OthersStay, Left, ToThaw, Claiming
  <2>. QED
    BY <1>3, <2>1, RunStepDescends, HookStepDescends, DeadlineDescends DEF RunsDescend
<1>4. TypeOK /\ RunInv /\ (TypeOK /\ RunInv)' => [RunsDescend]_vars
  BY <1>3
<1>. QED
  BY <1>1, <1>2, <1>4, PTL DEF Spec
=============================================================================
