----------------------------- MODULE BackupJobs -----------------------------
(***************************************************************************)
(* Backup jobs: the rows of backup_jobs, the goroutines of the two callers *)
(* that run rustic for them ("Run now" in src/api/internal/server/         *)
(* router.go and the cron callback in src/api/internal/scheduler/          *)
(* scheduler.go), the cancel handler with its registry                     *)
(* (src/api/internal/engine/cancel.go), the catalog sync that follows a    *)
(* backup (src/api/internal/catalog/sync.go), deleting a definition, and   *)
(* the startup reconciliation of src/api/cmd/server/main.go.               *)
(*                                                                         *)
(* A snapshot is named by the job whose rustic wrote it.                   *)
(***************************************************************************)
EXTENDS Integers

CONSTANTS
    Jobs,           \* ids of backup_jobs rows
    Defs,           \* ids of backup_definitions rows
    NoDef,          \* NULL in a backup_def_id column
    MaxRestarts     \* bound: container restarts in one behaviour

ASSUME NoDefAssumption == NoDef \notin Defs
ASSUME AbsentAssumption == "absent" \notin Defs \cup {NoDef}
ASSUME RestartAssumption == MaxRestarts \in Nat

VARIABLES
    defs,       \* the rows of backup_definitions
    row,        \* job -> its row of backup_jobs
    pc,         \* job -> where its goroutine stands
    kind,       \* job -> which caller runs it: "now" or "cron"
    from,       \* job -> the definition its caller captured
    registered, \* job -> its cancel func is in engine.jobCancels
    killed,     \* job -> the context of its goroutine is done
    listing,    \* job -> snapshots its sync has listed and not yet upserted
    syncFailed, \* job -> its catalog sync returned an error
    canceller,  \* job -> where a cancel request for it stands
    repo,       \* the snapshots in the repository
    catalog,    \* snapshot -> backup_def_id of its catalog row, or "absent"
    cutOff,     \* history: a restart interrupted the job's catalog sync
    notices,    \* history: job -> "backup completed" notifications sent
    restarts    \* restarts so far

dbVars == <<defs, row, catalog>>
callVars == <<kind, from>>
ctxVars == <<registered, killed>>
syncVars == <<listing, syncFailed>>
runVars == <<pc, callVars, ctxVars, syncVars>>
histVars == <<cutOff, notices, restarts>>
vars == <<dbVars, runVars, canceller, repo, histVars>>

-----------------------------------------------------------------------------
(* Types *)

Terminal == {"completed", "failed", "cancelled"}

Row == [status : {"absent", "running"} \cup Terminal,
        error  : {"none", "backup", "sync", "cancelled", "interrupted"},
        def    : Defs \cup {NoDef}]

NoRow == [status |-> "absent", error |-> "none", def |-> NoDef]

\* "lookup": the handler has read the definition and not yet inserted the row.
\* "wrote": rustic has written the snapshot and not yet exited.
Stations ==
    {"idle", "lookup", "spawned", "rustic", "wrote", "failed", "list",
     "upsert", "record", "surface"}

Syncing == {"list", "upsert", "surface"}

TypeOK ==
    /\ defs \in SUBSET Defs
    /\ row \in [Jobs -> Row]
    /\ pc \in [Jobs -> Stations]
    /\ kind \in [Jobs -> {"now", "cron"}]
    /\ from \in [Jobs -> Defs \cup {NoDef}]
    /\ registered \in [Jobs -> BOOLEAN]
    /\ killed \in [Jobs -> BOOLEAN]
    /\ listing \in [Jobs -> SUBSET Jobs]
    /\ syncFailed \in [Jobs -> BOOLEAN]
    /\ canceller \in [Jobs -> {"none", "checked", "marked"}]
    /\ repo \in SUBSET Jobs
    /\ catalog \in [Jobs -> Defs \cup {NoDef, "absent"}]
    /\ cutOff \in [Jobs -> BOOLEAN]
    /\ notices \in [Jobs -> Nat]
    /\ restarts \in Nat

Init ==
    /\ defs = Defs
    /\ row = [j \in Jobs |-> NoRow]
    /\ pc = [j \in Jobs |-> "idle"]
    /\ kind = [j \in Jobs |-> "now"]
    /\ from = [j \in Jobs |-> NoDef]
    /\ registered = [j \in Jobs |-> FALSE]
    /\ killed = [j \in Jobs |-> FALSE]
    /\ listing = [j \in Jobs |-> {}]
    /\ syncFailed = [j \in Jobs |-> FALSE]
    /\ canceller = [j \in Jobs |-> "none"]
    /\ repo = {}
    /\ catalog = [j \in Jobs |-> "absent"]
    /\ cutOff = [j \in Jobs |-> FALSE]
    /\ notices = [j \in Jobs |-> 0]
    /\ restarts = 0

-----------------------------------------------------------------------------
(* Starting a job *)

Unused(j) == row[j].status = "absent" /\ pc[j] = "idle"

\* Mutant: the row gets the first status of restore_jobs.
InsertQueued(j, d) == row' = [row EXCEPT ![j].status = "queued", ![j].def = d]

Insert(j, d) == row' = [row EXCEPT ![j].status = "running", ![j].def = d]

\* handleRunBackupNow reads the definition ...
RunNow(j, d) ==
    /\ Unused(j)
    /\ d \in defs
    /\ pc' = [pc EXCEPT ![j] = "lookup"]
    /\ kind' = [kind EXCEPT ![j] = "now"]
    /\ from' = [from EXCEPT ![j] = d]
    /\ UNCHANGED <<dbVars, ctxVars, syncVars, canceller, repo, histVars>>

\* ... and inserts the row and spawns the goroutine.  If the definition was
\* deleted in between, the foreign key refuses the row and the handler panics.
InsertRow(j) ==
    /\ pc[j] = "lookup"
    /\ IF from[j] \in defs
       THEN /\ Insert(j, from[j])
            /\ pc' = [pc EXCEPT ![j] = "spawned"]
       ELSE /\ pc' = [pc EXCEPT ![j] = "idle"]
            /\ UNCHANGED row
    /\ UNCHANGED <<defs, callVars, ctxVars, syncVars, canceller, repo, catalog,
                   histVars>>

\* The cron entry of a definition fires and its callback inserts the row.  An
\* entry that outlives its definition inserts nothing and returns.
CronFires(j, d) ==
    /\ Unused(j)
    /\ d \in defs
    /\ Insert(j, d)
    /\ pc' = [pc EXCEPT ![j] = "spawned"]
    /\ kind' = [kind EXCEPT ![j] = "cron"]
    /\ from' = [from EXCEPT ![j] = d]
    /\ UNCHANGED <<defs, ctxVars, syncVars, canceller, repo, catalog, histVars>>

RegisterCancel(j) ==
    /\ pc[j] = "spawned"
    /\ pc' = [pc EXCEPT ![j] = "rustic"]
    /\ registered' = [registered EXCEPT ![j] = TRUE]
    /\ UNCHANGED <<dbVars, callVars, killed, syncVars, canceller, repo,
                   histVars>>

-----------------------------------------------------------------------------
(* rustic backup *)

RusticWrites(j) ==
    /\ pc[j] = "rustic"
    /\ pc' = [pc EXCEPT ![j] = "wrote"]
    /\ repo' = repo \cup {j}
    /\ UNCHANGED <<dbVars, callVars, ctxVars, syncVars, canceller, histVars>>

\* rustic exits 0.  Run now records the completion before it syncs the
\* catalog, the scheduler syncs first.
RusticSucceeds(j) ==
    /\ pc[j] = "wrote"
    /\ pc' = [pc EXCEPT ![j] = IF kind[j] = "now" THEN "record" ELSE "list"]
    /\ UNCHANGED <<dbVars, callVars, ctxVars, syncVars, canceller, repo,
                   histVars>>

\* rustic fails by itself, before or after the snapshot is written, or is
\* killed because its context is done.
RusticDies(j) ==
    /\ pc[j] \in {"rustic", "wrote"}
    /\ pc' = [pc EXCEPT ![j] = "failed"]
    /\ UNCHANGED <<dbVars, callVars, ctxVars, syncVars, canceller, repo,
                   histVars>>

KillRustic(j) == killed[j] /\ RusticDies(j)

\* The scheduler gives a run twelve hours; Run now has no deadline.
TimesOut(j) ==
    /\ kind[j] = "cron"
    /\ pc[j] \notin {"idle", "lookup"}
    /\ ~killed[j]
    /\ killed' = [killed EXCEPT ![j] = TRUE]
    /\ UNCHANGED <<dbVars, pc, callVars, registered, syncVars, canceller, repo,
                   histVars>>

-----------------------------------------------------------------------------
(* Recording the result *)

\* Mutants: the guard of the UPDATE dropped, or a wrong one.
Unguarded(j) == TRUE

NotFailed(j) == row[j].status \notin {"absent", "failed"}

\* UPDATE backup_jobs ... WHERE id=? AND status='running'
StillRunning(j) == row[j].status = "running"

\* The goroutine returns and its deferred UnregisterCancel runs.
Return(j) ==
    /\ pc' = [pc EXCEPT ![j] = "idle"]
    /\ registered' = [registered EXCEPT ![j] = FALSE]

RecordFailure(j) ==
    /\ pc[j] = "failed"
    /\ row' = IF StillRunning(j)
              THEN [row EXCEPT ![j].status = "failed", ![j].error = "backup"]
              ELSE row
    /\ Return(j)
    /\ UNCHANGED <<defs, callVars, killed, syncVars, canceller, repo, catalog,
                   histVars>>

\* The guarded completion update.  If a row changed the user is notified, and
\* Run now goes on to its catalog sync; otherwise the job was cancelled and
\* the goroutine returns.
RecordCompletion(j) ==
    /\ pc[j] = "record"
    /\ IF StillRunning(j)
       THEN /\ row' = [row EXCEPT
                ![j].status = "completed",
                ![j].error = IF syncFailed[j] THEN "sync" ELSE "none"]
            /\ notices' = [notices EXCEPT ![j] = @ + 1]
            /\ IF kind[j] = "now"
               THEN /\ pc' = [pc EXCEPT ![j] = "list"]
                    /\ UNCHANGED registered
               ELSE Return(j)
       ELSE Return(j) /\ UNCHANGED <<row, notices>>
    /\ UNCHANGED <<defs, callVars, killed, syncVars, canceller, repo, catalog,
                   cutOff, restarts>>

-----------------------------------------------------------------------------
(* SyncAfterBackup *)

\* Mutant: the scheduler's sync takes a fresh context too.
SyncUnbounded(j) == FALSE

\* The statements of the scheduler's sync use the run's context; Run now has
\* taken a fresh one.
SyncAborted(j) == kind[j] = "cron" /\ killed[j]

SyncFails(j) ==
    /\ pc' = [pc EXCEPT ![j] = IF kind[j] = "now" THEN "surface" ELSE "record"]
    /\ syncFailed' = [syncFailed EXCEPT ![j] = TRUE]
    /\ listing' = [listing EXCEPT ![j] = {}]

ListSnapshots(j) ==
    /\ pc[j] = "list"
    /\ ~SyncAborted(j)
    /\ pc' = [pc EXCEPT ![j] = "upsert"]
    /\ listing' = [listing EXCEPT ![j] = repo]
    /\ UNCHANGED <<dbVars, callVars, ctxVars, syncFailed, canceller, repo,
                   histVars>>

\* `rustic snapshots` fails or is killed with its context.
ListingFails(j) ==
    /\ pc[j] = "list"
    /\ SyncFails(j)
    /\ UNCHANGED <<dbVars, callVars, ctxVars, canceller, repo, histVars>>

\* INSERT ... ON CONFLICT DO UPDATE: a new row takes the definition of the job
\* that syncs, whoever wrote the snapshot; a definition that is gone fails the
\* foreign key, but only of a new row.
UpsertSnapshot(j) ==
    /\ pc[j] = "upsert"
    /\ \E s \in listing[j] :
          IF SyncAborted(j) \/ (catalog[s] = "absent" /\ from[j] \notin defs)
          THEN SyncFails(j) /\ UNCHANGED catalog
          ELSE /\ catalog' = [catalog EXCEPT ![s] =
                                 IF @ = "absent" THEN from[j] ELSE @]
               /\ listing' = [listing EXCEPT ![j] = @ \ {s}]
               /\ UNCHANGED <<pc, syncFailed>>
    /\ UNCHANGED <<defs, row, callVars, ctxVars, canceller, repo, histVars>>

\* Mutant: the sync stops at the snapshot its own backup wrote.
OwnUpserted(j) == catalog[j] # "absent"

AllUpserted(j) == listing[j] = {}

SyncSucceeds(j) ==
    /\ pc[j] = "upsert"
    /\ AllUpserted(j)
    /\ IF kind[j] = "now"
       THEN Return(j)
       ELSE pc' = [pc EXCEPT ![j] = "record"] /\ UNCHANGED registered
    /\ UNCHANGED <<dbVars, callVars, killed, syncVars, canceller, repo,
                   histVars>>

\* Mutant: a failed sync is only logged.
SwallowSyncError(j) ==
    /\ pc[j] = "surface"
    /\ Return(j)
    /\ UNCHANGED <<dbVars, callVars, killed, syncVars, canceller, repo,
                   histVars>>

\* Run now puts a failed sync on the row it has already completed.
SurfaceSyncError(j) ==
    /\ pc[j] = "surface"
    /\ row' = [row EXCEPT ![j].error = "sync"]
    /\ Return(j)
    /\ UNCHANGED <<defs, callVars, killed, syncVars, canceller, repo, catalog,
                   histVars>>

-----------------------------------------------------------------------------
(* handleCancelJob: check the registry, mark the row, kill *)

\* Mutant: the registry is not asked before the row is marked.
HasCancelUnchecked(j) ==
    /\ canceller[j] = "none"
    /\ canceller' = [canceller EXCEPT ![j] = "checked"]
    /\ UNCHANGED <<dbVars, runVars, repo, histVars>>

HasCancel(j) ==
    /\ canceller[j] = "none"
    /\ registered[j]
    /\ canceller' = [canceller EXCEPT ![j] = "checked"]
    /\ UNCHANGED <<dbVars, runVars, repo, histVars>>

\* Mutant: the row is marked and nobody kills the run.
MarkCancelledOnly(j) ==
    /\ canceller[j] = "checked"
    /\ canceller' = [canceller EXCEPT ![j] = "none"]
    /\ row' = IF StillRunning(j)
              THEN [row EXCEPT ![j].status = "cancelled", ![j].error = "cancelled"]
              ELSE row
    /\ UNCHANGED <<defs, runVars, repo, catalog, histVars>>

MarkCancelled(j) ==
    /\ canceller[j] = "checked"
    /\ IF StillRunning(j)
       THEN /\ row' = [row EXCEPT ![j].status = "cancelled",
                                  ![j].error = "cancelled"]
            /\ canceller' = [canceller EXCEPT ![j] = "marked"]
       ELSE /\ canceller' = [canceller EXCEPT ![j] = "none"]
            /\ UNCHANGED row
    /\ UNCHANGED <<defs, runVars, repo, catalog, histVars>>

CancelJob(j) ==
    /\ canceller[j] = "marked"
    /\ canceller' = [canceller EXCEPT ![j] = "none"]
    /\ killed' = [killed EXCEPT ![j] = @ \/ registered[j]]
    /\ UNCHANGED <<dbVars, pc, callVars, registered, syncVars, repo, histVars>>

-----------------------------------------------------------------------------
(* Deleting a definition, and the restart of the container *)

\* One transaction: detach the jobs and the snapshots, delete the definition.
DeleteDefinition(d) ==
    /\ d \in defs
    /\ defs' = defs \ {d}
    /\ row' = [j \in Jobs |-> IF row[j].def = d
                              THEN [row[j] EXCEPT !.def = NoDef] ELSE row[j]]
    /\ catalog' = [s \in Jobs |-> IF catalog[s] = d THEN NoDef ELSE catalog[s]]
    /\ UNCHANGED <<runVars, canceller, repo, histVars>>

\* Mutant: main starts without looking at the rows a crash left.
Unreconciled(j) == row[j]

Reconciled(j) ==
    IF StillRunning(j)
    THEN [row[j] EXCEPT !.status = "failed", !.error = "interrupted"]
    ELSE row[j]

\* Every goroutine and rustic are gone; before the API is up, main marks the
\* rows they left running.
Restart ==
    /\ restarts < MaxRestarts
    /\ restarts' = restarts + 1
    /\ row' = [j \in Jobs |-> Reconciled(j)]
    /\ cutOff' = [j \in Jobs |-> cutOff[j] \/ pc[j] \in Syncing]
    /\ pc' = [j \in Jobs |-> "idle"]
    /\ registered' = [j \in Jobs |-> FALSE]
    /\ killed' = [j \in Jobs |-> FALSE]
    /\ listing' = [j \in Jobs |-> {}]
    /\ syncFailed' = [j \in Jobs |-> FALSE]
    /\ canceller' = [j \in Jobs |-> "none"]
    /\ UNCHANGED <<defs, callVars, repo, catalog, notices>>

-----------------------------------------------------------------------------

\* The program's own next step for a job.
Step(j) ==
    \/ InsertRow(j) \/ RegisterCancel(j) \/ RecordFailure(j)
    \/ RecordCompletion(j) \/ UpsertSnapshot(j) \/ SyncSucceeds(j)
    \/ SurfaceSyncError(j)

\* What rustic, which may also hang, does for a job.
Rustic(j) ==
    \/ RusticWrites(j) \/ RusticSucceeds(j) \/ RusticDies(j)
    \/ ListSnapshots(j) \/ ListingFails(j)

Cancel(j) == MarkCancelled(j) \/ CancelJob(j)

\* A context that is done kills the rustic it was given to.
Kill(j) ==
    \/ KillRustic(j)
    \/ SyncAborted(j) /\ ListingFails(j)

Next ==
    \/ \E j \in Jobs :
          \/ Step(j) \/ Rustic(j) \/ Cancel(j) \/ HasCancel(j) \/ TimesOut(j)
          \/ \E d \in Defs : RunNow(j, d) \/ CronFires(j, d)
    \/ \E d \in Defs : DeleteDefinition(d)
    \/ Restart

\* Goroutines and handlers run, deadlines pass and kills arrive.  rustic is
\* not obliged to finish, nor anybody to start, cancel or delete anything.
Fairness ==
    \A j \in Jobs :
        /\ WF_vars(Step(j))
        /\ WF_vars(Cancel(j))
        /\ WF_vars(TimesOut(j))
        /\ WF_vars(Kill(j))

Spec == Init /\ [][Next]_vars /\ Fairness

-----------------------------------------------------------------------------
(* Properties *)

\* The first verdict on a job stands: neither a backup that ends while it is
\* being cancelled, nor a cancel that arrives as it ends, nor a restart
\* changes a status the user has seen (the guard WHERE status='running').
TerminalIsFinal ==
    [][\A j \in Jobs : row[j].status \in Terminal =>
                           row'[j].status = row[j].status]_vars

\* The table implements JobLedger: of two callers, cancels and restarts, each job
\* gets one verdict, and a notice of success exactly with the completion.
Ledger == INSTANCE JobLedger WITH status <- [j \in Jobs |-> row[j].status],
                                  told <- notices

ImplementsLedger == Ledger!Spec

\* A row that says running has a goroutine behind it, also after a restart.
RunningHasGoroutine ==
    \A j \in Jobs : row[j].status = "running" => pc[j] # "idle"

\* A cancel that was accepted cannot miss: from the mark on, the context of the
\* goroutine is closed, or the request still holds the call that closes it and
\* the registry still holds the function.  handleCancelJob asks the registry,
\* marks, and only then kills, while the goroutine may record its result and
\* unregister between any two of these.
CancelReaches ==
    \A j \in Jobs : row[j].status = "cancelled" /\ pc[j] # "idle" =>
        killed[j] \/ (canceller[j] = "marked" /\ registered[j])

\* A job that is recorded as completed without an error has its snapshot in
\* the catalog: "a silent failure here is what made snapshots never appear in
\* the UI".  The exceptions are a Run now job whose sync is still going on and
\* one whose sync a restart cut off.
CompletedIsCatalogued ==
    \A j \in Jobs :
        row[j].status = "completed" /\ row[j].error = "none" =>
            catalog[j] # "absent" \/ pc[j] \in Syncing \/ cutOff[j]

\* The sync of any later backup makes up for one that a restart cut off: when
\* it ends well, the snapshots of interrupted syncs are in the catalog too.
LaterSyncRepairs ==
    [][\A j, k \in Jobs : SyncSucceeds(j) /\ cutOff[k] => catalog[k] # "absent"]_vars

\* Once a job is marked cancelled its goroutine ends, even if rustic hangs.
CancelEndsTheRun ==
    \A j \in Jobs : row[j].status = "cancelled" ~> pc[j] = "idle"

\* A scheduled backup leaves running within its twelve hours, whatever rustic
\* does; a Run now backup whose rustic hangs runs until somebody cancels it.
ScheduledRunEnds ==
    \A j \in Jobs :
        row[j].status = "running" /\ kind[j] = "cron"
            ~> row[j].status \in Terminal

=============================================================================
