-------------------------- MODULE RestoreLifecycle --------------------------
(***************************************************************************)
(* The life of a Glacier restore job: the row of restore_jobs, the         *)
(* goroutine that drives rustic (src/api/internal/restore/restore.go), the *)
(* line hook that reads rustic's output, the wrapper rustic calls once per *)
(* batch of packs, the warm-up notification, and what a container restart  *)
(* does to all of them (src/api/internal/restore/resume.go).               *)
(*                                                                         *)
(* A run is a goroutine executing Manager.run.  In one life of the process *)
(* a job has at most two: the one Initiate started and the one the startup *)
(* reconciliation resumed.                                                 *)
(***************************************************************************)
EXTENDS Integers, Sequences

CONSTANTS
    Jobs,           \* ids of restore_jobs rows
    IndexBatches,   \* batches the repository index calls for (an upper bound)
    MaxRestarts     \* bound: container restarts in one behaviour

ASSUME IndexAssumption == IndexBatches \in Nat \ {0}
ASSUME RestartAssumption == MaxRestarts \in Nat

VARIABLES
    row,        \* job -> its row of restore_jobs; survives a restart
    pc,         \* run -> where its goroutine (and its rustic child) stands
    total,      \* run -> TOTAL_BATCHES of its warmup-plan.txt
    batch,      \* run -> batches its wrapper has thawed
    expired,    \* run -> its context deadline (plan.Timeout) has passed
    lines,      \* run -> output lines in the pipe, not yet seen by the hook
    hook,       \* run -> what the line hook does next
    recon,      \* the reconciliation goroutine of this process
    reconRows,  \* rows its SELECT returned and it has not handled yet
    outbox,     \* jobs whose warm-up notification goroutine has not sent yet
    restarts,   \* restarts so far
    need,       \* job -> batches its snapshot really needs
    thawed,     \* history: some run of the job thawed every needed pack
    fellBack,   \* history: some run of the job used the single-batch fallback
    restored,   \* history: rustic wrote the job's files
    lost,       \* history: this process lost the job's last UPDATE
    notices     \* history: job -> warm-up notifications sent to apprise

runVars  == <<pc, total, batch, expired, lines, hook>>
recVars  == <<recon, reconRows>>
histVars == <<thawed, fellBack, restored, lost, notices>>
vars == <<row, runVars, recVars, outbox, restarts, need, histVars>>

-----------------------------------------------------------------------------
(* Types *)

Terminal == {"completed", "failed"}

\* The statuses ReconcileInterruptedJobs selects.  "restoring" is declared in
\* the source and selected here, but no statement ever writes it.
NonTerminal ==
    {"queued", "warmup_requested", "retrieval_in_progress",
     "retrieval_complete", "restoring"}

Runs == Jobs \X {"initiate", "resume"}

JobOf(r) == r[1]

Row == [status   : {"absent"} \cup NonTerminal \cup Terminal,
        error    : {"none", "unsubmitted", "other"},
        batchJob : BOOLEAN,     \* batch_job_id IS NOT NULL
        notified : BOOLEAN,     \* warmup_notified_at IS NOT NULL
        finished : BOOLEAN,     \* completed_at IS NOT NULL
        snap     : BOOLEAN]     \* snapshot_id IS NOT NULL

NoRow == [status |-> "absent", error |-> "none", batchJob |-> FALSE,
          notified |-> FALSE, finished |-> FALSE, snap |-> TRUE]

\* Stations of a run: "load".."clear" are resumeAfterRestart before it calls
\* run; "warm".."orphan" are inside RunRestore; "failing" leads to the caller's
\* setStatus(failed) once the pipe is drained and run has returned its error.
Stations ==
    {"idle", "load", "clear", "plan", "lookup", "request", "warm", "wait",
     "download", "orphan", "exited", "mark", "failing"}

InRustic == {"warm", "wait", "download", "orphan"}

TypeOK ==
    /\ row \in [Jobs -> Row]
    /\ pc \in [Runs -> Stations]
    /\ total \in [Runs -> Nat]
    /\ batch \in [Runs -> Nat]
    /\ expired \in [Runs -> BOOLEAN]
    /\ lines \in [Runs -> Seq({"id", "sentinel"})]
    /\ hook \in [Runs -> {"read", "claim"}]
    /\ recon \in {"ready", "scan"}
    /\ reconRows \in SUBSET (Jobs \X BOOLEAN)
    /\ outbox \in SUBSET Jobs
    /\ restarts \in Nat
    /\ need \in [Jobs -> Nat]
    /\ thawed \in [Jobs -> BOOLEAN]
    /\ fellBack \in [Jobs -> BOOLEAN]
    /\ restored \in [Jobs -> BOOLEAN]
    /\ lost \in [Jobs -> BOOLEAN]
    /\ notices \in [Jobs -> Nat]

-----------------------------------------------------------------------------
(* Statements *)

\* Mutant: the bound parameters of the UPDATE swapped.
SetStatusSwapped(j, status, error) ==
    row' = [row EXCEPT ![j].status = error, ![j].error = status]

SetStatus(j, status, error) ==
    row' = [row EXCEPT ![j].status = status, ![j].error = error]

\* A statement executed with the run's own context: database/sql refuses it
\* once the deadline has passed, and the caller ignores the error.
InTime(r, statement) == IF expired[r] THEN UNCHANGED row ELSE statement

Goto(r, from, to) ==
    /\ pc[r] = from
    /\ pc' = [pc EXCEPT ![r] = to]

\* rustic's end as the goroutine sees it: RunRestore returns only after the
\* reader goroutine has drained the pipe and closed done.
Drained(r) == lines[r] = <<>> /\ hook[r] = "read"

\* The goroutine returns: what it knew of its plan and its deadline is gone.
Return(r, from) ==
    /\ Goto(r, from, "idle")
    /\ total' = [total EXCEPT ![r] = 0]
    /\ batch' = [batch EXCEPT ![r] = 0]
    /\ expired' = [expired EXCEPT ![r] = FALSE]

\* A fresh container: no goroutine survives, one reconciliation is spawned.
FreshProcess ==
    /\ pc' = [r \in Runs |-> "idle"]
    /\ total' = [r \in Runs |-> 0]
    /\ batch' = [r \in Runs |-> 0]
    /\ expired' = [r \in Runs |-> FALSE]
    /\ lines' = [r \in Runs |-> <<>>]
    /\ hook' = [r \in Runs |-> "read"]
    /\ recon' = "ready"
    /\ reconRows' = {}
    /\ outbox' = {}

Init ==
    /\ row = [j \in Jobs |-> NoRow]
    /\ pc = [r \in Runs |-> "idle"]
    /\ total = [r \in Runs |-> 0]
    /\ batch = [r \in Runs |-> 0]
    /\ expired = [r \in Runs |-> FALSE]
    /\ lines = [r \in Runs |-> <<>>]
    /\ hook = [r \in Runs |-> "read"]
    /\ recon = "ready"
    /\ reconRows = {}
    /\ outbox = {}
    /\ restarts = 0
    /\ need \in [Jobs -> 0 .. IndexBatches]
    /\ thawed = [j \in Jobs |-> FALSE]
    /\ fellBack = [j \in Jobs |-> FALSE]
    /\ restored = [j \in Jobs |-> FALSE]
    /\ lost = [j \in Jobs |-> FALSE]
    /\ notices = [j \in Jobs |-> 0]

-----------------------------------------------------------------------------
(* The API: create a restore, delete its snapshot *)

\* INSERT the row and spawn the goroutine.  A snapshot that is gone fails the
\* foreign key and nothing is created.
Initiate(j) ==
    /\ row[j].status = "absent"
    /\ row[j].snap
    /\ row' = [row EXCEPT ![j].status = "queued"]
    /\ pc' = [pc EXCEPT ![<<j, "initiate">>] = "plan"]
    /\ UNCHANGED <<total, batch, expired, lines, hook, recVars, outbox,
                   restarts, need, histVars>>

\* DELETE FROM snapshots: ON DELETE SET NULL clears the job's reference.
DeleteSnapshot(j) ==
    /\ row[j].snap
    /\ row' = [row EXCEPT ![j].snap = FALSE]
    /\ UNCHANGED <<runVars, recVars, outbox, restarts, need, histVars>>

-----------------------------------------------------------------------------
(* Manager.run up to the start of rustic *)

\* computeWarmupPlan: the index count, or the single-batch fallback when the
\* count fails.
ComputeWarmupPlan(r) ==
    /\ Goto(r, "plan", "lookup")
    /\ \E counted \in BOOLEAN :
          /\ total' = [total EXCEPT ![r] = IF counted THEN IndexBatches ELSE 1]
          /\ fellBack' = [fellBack EXCEPT ![JobOf(r)] = @ \/ ~counted]
    /\ batch' = [batch EXCEPT ![r] = 0]
    /\ expired' = [expired EXCEPT ![r] = FALSE]
    /\ UNCHANGED <<row, lines, hook, recVars, outbox, restarts, need,
                   thawed, restored, lost, notices>>

\* SELECT the snapshot, render the configuration, load the credentials.  Any
\* of them may fail, and the first does when the snapshot was deleted.
Prepare(r) ==
    /\ \/ Goto(r, "lookup", "request") /\ row[JobOf(r)].snap
       \/ Goto(r, "lookup", "failing")
    /\ UNCHANGED <<row, total, batch, expired, lines, hook, recVars, outbox,
                   restarts, need, histVars>>

RequestWarmup(r) ==
    /\ Goto(r, "request", "warm")
    /\ InTime(r, SetStatus(JobOf(r), "warmup_requested", "none"))
    /\ UNCHANGED <<total, batch, expired, lines, hook, recVars, outbox,
                   restarts, need, histVars>>

-----------------------------------------------------------------------------
(* RunRestore: rustic, the wrapper it calls per batch, and the download *)

\* The tool submits the batch's S3 Batch job, and only then reports its id on
\* the pipe.  The line stands for those of the wrapper's retries too: the
\* hook's UPDATE ignores all but the first.
SubmitBatch(r) ==
    /\ Goto(r, "warm", "wait")
    /\ batch[r] < need[JobOf(r)]
    /\ lines' = [lines EXCEPT ![r] = Append(@, "id")]
    /\ UNCHANGED <<row, total, batch, expired, hook, recVars, outbox, restarts,
                   need, histVars>>

\* Mutants: the wrapper's counter compared off by one, either way.
IsLastBatchEarly(k, n) == k >= n - 1

IsLastBatchLate(k, n) == k > n

\* The wrapper prints the sentinel when the batch it has just thawed is the
\* last of the PLAN, not the last rustic has.
IsLastBatch(k, n) == k >= n

\* The tool exits 0: every pack of the batch has a live copy.  A wrapper whose
\* rustic was killed ends the same way, but no further batch follows.
BatchThawed(r, from, to) ==
    LET k == batch[r] + 1 IN
    /\ Goto(r, from, to)
    /\ batch' = [batch EXCEPT ![r] = k]
    /\ lines' = IF IsLastBatch(k, total[r])
                THEN [lines EXCEPT ![r] = Append(@, "sentinel")] ELSE lines
    /\ thawed' = [thawed EXCEPT ![JobOf(r)] = @ \/ k = need[JobOf(r)]]
    /\ UNCHANGED <<row, total, expired, hook, recVars, outbox, restarts, need,
                   fellBack, restored, lost, notices>>

ThawBatch(r) == BatchThawed(r, "wait", "warm")

OrphanThaws(r) == BatchThawed(r, "orphan", "failing")

StartDownload(r) ==
    /\ Goto(r, "warm", "download")
    /\ batch[r] = need[JobOf(r)]
    /\ UNCHANGED <<row, total, batch, expired, lines, hook, recVars, outbox,
                   restarts, need, histVars>>

FinishDownload(r) ==
    /\ Goto(r, "download", "exited")
    /\ restored' = [restored EXCEPT ![JobOf(r)] = TRUE]
    /\ UNCHANGED <<row, total, batch, expired, lines, hook, recVars, outbox,
                   restarts, need, thawed, fellBack, lost, notices>>

\* Mutant: rustic's exit status dropped.
RusticErrorDropped(r) ==
    /\ pc[r] \in InRustic
    /\ pc' = [pc EXCEPT ![r] = "exited"]
    /\ UNCHANGED <<row, total, batch, expired, lines, hook, recVars, outbox,
                   restarts, need, histVars>>

\* The wrapper is out of attempts, or rustic gives up with no wrapper below it.
RusticFails(r) ==
    /\ pc[r] \in InRustic
    /\ pc' = [pc EXCEPT ![r] = "failing"]
    /\ UNCHANGED <<row, total, batch, expired, lines, hook, recVars, outbox,
                   restarts, need, histVars>>

\* rustic itself dies under a wrapper that waits for its batch.  The wrapper
\* lives on, keeps the pipe open and so keeps RunRestore waiting.
RusticDies(r) ==
    /\ Goto(r, "wait", "orphan")
    /\ UNCHANGED <<row, total, batch, expired, lines, hook, recVars, outbox,
                   restarts, need, histVars>>

\* The deadline kills rustic but not the wrapper below it.  plan.Timeout is at least 96 h:
\* it passes while rustic runs or while its result is being recorded.
DeadlinePasses(r) ==
    /\ pc[r] \in {"warm", "wait", "download", "exited", "mark"}
    /\ ~expired[r]
    /\ expired' = [expired EXCEPT ![r] = TRUE]
    /\ pc' = [pc EXCEPT ![r] = CASE @ = "wait" -> "orphan"
                                 [] @ \in {"warm", "download"} -> "failing"
                                 [] OTHER -> @]
    /\ UNCHANGED <<row, total, batch, lines, hook, recVars, outbox, restarts,
                   need, histVars>>

-----------------------------------------------------------------------------
(* warmupLineHook, called by the pipe's reader goroutine *)

\* A Batch job id: recorded once per attempt of the job.
HookRecordsBatchJob(r) ==
    LET j == JobOf(r) IN
    /\ hook[r] = "read"
    /\ lines[r] # <<>>
    /\ Head(lines[r]) = "id"
    /\ lines' = [lines EXCEPT ![r] = Tail(@)]
    /\ InTime(r, IF row[j].batchJob THEN UNCHANGED row
                 ELSE row' = [row EXCEPT ![j].batchJob = TRUE,
                                         ![j].status = "retrieval_in_progress"])
    /\ UNCHANGED <<pc, total, batch, expired, hook, recVars, outbox, restarts,
                   need, histVars>>

HookSeesSentinel(r) ==
    /\ hook[r] = "read"
    /\ lines[r] # <<>>
    /\ Head(lines[r]) = "sentinel"
    /\ lines' = [lines EXCEPT ![r] = Tail(@)]
    /\ hook' = [hook EXCEPT ![r] = "claim"]
    /\ InTime(r, SetStatus(JobOf(r), "retrieval_complete", "none"))
    /\ UNCHANGED <<pc, total, batch, expired, recVars, outbox, restarts, need,
                   histVars>>

\* Mutant: the claim without its WHERE warmup_notified_at IS NULL.
ClaimUnguarded(j) == TRUE

ClaimIsFree(j) == ~row[j].notified

\* notifyWarmupOnce: UPDATE ... WHERE warmup_notified_at IS NULL, with a
\* context of its own; a claim that changed a row starts the notification.
NotifyWarmupOnce(r) ==
    LET j == JobOf(r) IN
    /\ hook[r] = "claim"
    /\ hook' = [hook EXCEPT ![r] = "read"]
    /\ IF ClaimIsFree(j)
       THEN /\ row' = [row EXCEPT ![j].notified = TRUE]
            /\ outbox' = outbox \cup {j}
       ELSE UNCHANGED <<row, outbox>>
    /\ UNCHANGED <<pc, total, batch, expired, lines, recVars, restarts, need,
                   histVars>>

\* notifyEvent's goroutine hands the notification to apprise.
Notify(j) ==
    /\ j \in outbox
    /\ outbox' = outbox \ {j}
    /\ notices' = [notices EXCEPT ![j] = @ + 1]
    /\ UNCHANGED <<row, runVars, recVars, restarts, need, thawed,
                   fellBack, restored, lost>>

-----------------------------------------------------------------------------
(* RunRestore has returned *)

StampCompletedAt(r) ==
    /\ Drained(r)
    /\ Goto(r, "exited", "mark")
    /\ InTime(r, row' = [row EXCEPT ![JobOf(r)].finished = TRUE])
    /\ UNCHANGED <<total, batch, expired, lines, hook, recVars, outbox,
                   restarts, need, histVars>>

\* setStatus(completed) and the end of the goroutine: past the deadline the
\* row keeps its last status.  The completion notification that follows reads
\* and writes nothing modelled here.
MarkCompleted(r) ==
    /\ Return(r, "mark")
    /\ InTime(r, SetStatus(JobOf(r), "completed", "none"))
    /\ lost' = IF expired[r] THEN [lost EXCEPT ![JobOf(r)] = TRUE] ELSE lost
    /\ UNCHANGED <<lines, hook, recVars, outbox, restarts, need, thawed,
                   fellBack, restored, notices>>

\* Mutant: the failure recorded with the run's own, perhaps expired, context.
MarkFailedInTime(r) ==
    /\ Drained(r)
    /\ Return(r, "failing")
    /\ InTime(r, SetStatus(JobOf(r), "failed", "other"))
    /\ UNCHANGED <<lines, hook, recVars, outbox, restarts, need, histVars>>

\* The caller of run (Initiate's goroutine or resumeAfterRestart) records the
\* error with a context of its own.
MarkFailed(r) ==
    /\ Drained(r)
    /\ Return(r, "failing")
    /\ SetStatus(JobOf(r), "failed", "other")
    /\ UNCHANGED <<lines, hook, recVars, outbox, restarts, need, histVars>>

-----------------------------------------------------------------------------
(* Restart and reconciliation *)

\* The container goes down and comes back: rows survive, and so do the Batch
\* jobs already submitted.
Restart ==
    /\ restarts < MaxRestarts
    /\ restarts' = restarts + 1
    /\ FreshProcess
    /\ lost' = [j \in Jobs |-> FALSE]
    /\ UNCHANGED <<row, need, thawed, fellBack, restored, notices>>

\* The SELECT of ReconcileInterruptedJobs.  It runs in a goroutine of its own
\* that main does not wait for, so a new job may already be there.
ReconcileSelect ==
    /\ recon = "ready"
    /\ recon' = "scan"
    /\ reconRows' = {<<j, row[j].batchJob>> :
                        j \in {i \in Jobs : row[i].status \in NonTerminal}}
    /\ UNCHANGED <<row, runVars, outbox, restarts, need, histVars>>

\* One selected row: without a Batch job id it is marked failed, whatever it
\* has become since; with one a resume goroutine is spawned.
ReconcileRow(j) ==
    \E recorded \in BOOLEAN :
      /\ <<j, recorded>> \in reconRows
      /\ reconRows' = reconRows \ {<<j, recorded>>}
      /\ IF recorded
         THEN /\ pc' = [pc EXCEPT ![<<j, "resume">>] = "load"]
              /\ UNCHANGED row
         ELSE /\ SetStatus(j, "failed", "unsubmitted")
              /\ UNCHANGED pc
      /\ UNCHANGED <<total, batch, expired, lines, hook, recon, outbox,
                     restarts, need, histVars>>

\* Mutant: a resumed job whose snapshot is gone only logs and returns.
ResumeLoadLogs(r) ==
    /\ Goto(r, "load", IF row[JobOf(r)].snap THEN "clear" ELSE "idle")
    /\ UNCHANGED <<row, total, batch, expired, lines, hook, recVars, outbox,
                   restarts, need, histVars>>

\* resumeAfterRestart reads the row; a deleted snapshot ends the job.
ResumeLoad(r) ==
    LET j == JobOf(r) IN
    /\ IF row[j].snap
       THEN Goto(r, "load", "clear") /\ UNCHANGED row
       ELSE Goto(r, "load", "idle") /\ SetStatus(j, "failed", "other")
    /\ UNCHANGED <<total, batch, expired, lines, hook, recVars, outbox,
                   restarts, need, histVars>>

\* "Clear the recorded Batch job so this attempt records its own."
ResumeClear(r) ==
    /\ Goto(r, "clear", "plan")
    /\ row' = [row EXCEPT ![JobOf(r)].batchJob = FALSE]
    /\ UNCHANGED <<total, batch, expired, lines, hook, recVars, outbox,
                   restarts, need, histVars>>

-----------------------------------------------------------------------------

RunStep(r) ==
    \/ ComputeWarmupPlan(r) \/ Prepare(r) \/ RequestWarmup(r)
    \/ SubmitBatch(r) \/ ThawBatch(r) \/ OrphanThaws(r) \/ StartDownload(r)
    \/ FinishDownload(r) \/ RusticFails(r) \/ RusticDies(r)
    \/ StampCompletedAt(r) \/ MarkCompleted(r) \/ MarkFailed(r)
    \/ ResumeLoad(r) \/ ResumeClear(r)

HookStep(r) ==
    HookRecordsBatchJob(r) \/ HookSeesSentinel(r) \/ NotifyWarmupOnce(r)

\* What the process does by itself once a request or a restart started it.
Work ==
    \/ \E r \in Runs : RunStep(r) \/ HookStep(r)
    \/ \E j \in Jobs : ReconcileRow(j) \/ Notify(j)
    \/ ReconcileSelect

Environment ==
    \/ \E j \in Jobs : Initiate(j) \/ DeleteSnapshot(j)
    \/ \E r \in Runs : DeadlinePasses(r)
    \/ Restart

Next == Work \/ Environment

\* The Go scheduler always runs some goroutine that can run, and AWS or rustic
\* always answers in the end (the wrapper gives up after MAX_ATTEMPTS).  That
\* is enough: a life of the process has finitely many steps to take.  Nobody
\* is obliged to create or delete anything, to restart the container or to let
\* a deadline pass.
Fairness == WF_vars(Work)

Spec == Init /\ [][Next]_vars /\ Fairness

-----------------------------------------------------------------------------
(* Properties *)

\* The user is told at most once per job that Glacier has finished, across
\* restarts, resumed runs and a resumed run racing the original one
\* (the warmup_notified_at claim of notifyWarmupOnce).
WarmupNotifiedAtMostOnce == \A j \in Jobs : notices[j] <= 1

\* "Warmup complete" is never claimed while a pack the restore needs is still
\* frozen, unless the pack count failed and the plan assumed one batch.
HonestWarmupSignal ==
    \A j \in Jobs : row[j].notified => thawed[j] \/ fellBack[j]

\* A row says completed only if rustic wrote the files, whatever mixture of
\* failed, killed and resumed runs came before.
CompletedMeansRestored ==
    \A j \in Jobs : row[j].status = "completed" => restored[j]

LiveRun(j) == \E r \in Runs : JobOf(r) = j /\ pc[r] # "idle"

ToReconcile(j) == recon = "ready" \/ \E b \in BOOLEAN : <<j, b>> \in reconRows

\* No restore is forgotten: a row the UI shows as under way has a goroutine
\* working on it or a reconciliation that will triage it.  The one exception
\* is a restore that finished in this life of the process as its deadline
\* passed: its last UPDATE uses the run's own context and is lost.  The next
\* start takes such a row up again like any other.
NoRowLeftBehind ==
    \A j \in Jobs : row[j].status \in NonTerminal
                      => LiveRun(j) \/ ToReconcile(j) \/ lost[j]

\* A completed restore of as many batches as the index holds went through the
\* sentinel, so its user was notified (the claim was made).
FullRestoreSignalled ==
    \A j \in Jobs :
        row[j].status = "completed" /\ need[j] = IndexBatches
            => row[j].notified

\* What docs/design.md:249-259 promises of every restore that warms packs: the
\* wrapper's last batch prints the sentinel, the notification fires on it and
\* the download starts only after it.  The wrapper compares its batch number
\* with the batches of the whole index, so a restore of fewer batches never
\* prints it.
EveryWarmupSignalled ==
    \A j \in Jobs :
        row[j].status = "completed" /\ need[j] > 0 => row[j].notified

\* Every restore that is created reaches completed or failed, as long as the
\* container is not restarted forever.  A process that loses the last UPDATE to
\* the deadline leaves the row as it was; after the next restart that row has
\* to settle as well, by a resumed run or by the triage.
EveryRestoreSettles ==
    \A j \in Jobs :
        row[j].status \in NonTerminal
            ~> row[j].status \in Terminal \/ lost[j]

=============================================================================
