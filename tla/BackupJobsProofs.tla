-------------------------- MODULE BackupJobsProofs --------------------------
(***************************************************************************)
(* For any number of jobs, definitions and restarts: the table implements  *)
(* JobLedger, a verdict stands, a running row has a goroutine, what is     *)
(* completed without an error is in the catalog, a later sync adds what a  *)
(* restart has cut off, and a cancel reaches the run it has marked.        *)
(***************************************************************************)
EXTENDS BackupJobs, TLAPS

-----------------------------------------------------------------------------
(* Type correctness *)

Statuses == {"absent", "running"} \cup Terminal
Errors == {"none", "backup", "sync", "cancelled", "interrupted"}

\* What the UPDATE and INSERT statements do to a row.
LEMMA RowUpdates ==
    ASSUME NEW r \in [Jobs -> Row], NEW j \in Jobs,
           NEW s \in Statuses, NEW e \in Errors, NEW d \in Defs \cup {NoDef}
    PROVE  /\ [r EXCEPT ![j].status = s, ![j].error = e] \in [Jobs -> Row]
           /\ [r EXCEPT ![j].status = s, ![j].error = e][j].status = s
           /\ [r EXCEPT ![j].status = s, ![j].error = e][j].error = e
           /\ [r EXCEPT ![j].status = s, ![j].def = d] \in [Jobs -> Row]
           /\ [r EXCEPT ![j].status = s, ![j].def = d][j].status = s
           /\ [r EXCEPT ![j].error = e] \in [Jobs -> Row]
           /\ [r EXCEPT ![j].error = e][j].status = r[j].status
           /\ [r EXCEPT ![j].error = e][j].error = e
<1>1. /\ [r EXCEPT ![j].error = e] \in [Jobs -> Row]
      /\ [r EXCEPT ![j].error = e][j].status = r[j].status
      /\ [r EXCEPT ![j].error = e][j].error = e
  BY DEF Row, Errors
<1>. DEFINE m == [r EXCEPT ![j].status = s]
<1>2. m \in [Jobs -> Row] /\ m[j].status = s
  BY DEF Row, Statuses
<1>. HIDE DEF m
<1>3. /\ [m EXCEPT ![j].error = e] \in [Jobs -> Row]
      /\ [m EXCEPT ![j].error = e][j].status = s
      /\ [m EXCEPT ![j].error = e][j].error = e
  BY <1>2 DEF Row, Errors
<1>4. /\ [m EXCEPT ![j].def = d] \in [Jobs -> Row]
      /\ [m EXCEPT ![j].def = d][j].status = s
  BY <1>2 DEF Row
<1>. QED
  BY <1>1, <1>3, <1>4 DEF m

LEMMA OneRow ==
    ASSUME NEW x \in Row, NEW s \in Statuses, NEW e \in Errors, NEW d \in Defs \cup {NoDef}
    PROVE  /\ [x EXCEPT !.def = d] \in Row
           /\ [x EXCEPT !.status = s, !.error = e] \in Row
BY DEF Row, Statuses, Errors

LEMMA InitTypes == Init => TypeOK
<1>1. NoRow \in Row
  BY DEF NoRow, Row
<1>. QED
  BY <1>1 DEF Init, TypeOK, Stations

\* Where the row of a job goes.
LEMMA RowStep ==
    ASSUME TypeOK, Next
    PROVE  row' \in [Jobs -> Row]
<1>. USE DEF TypeOK
<1>0. {"running", "failed", "completed", "cancelled"} \subseteq Statuses
  BY DEF Statuses, Terminal
<1>. HIDE DEF Statuses
<1>1. ASSUME NEW j \in Jobs, NEW d \in Defs \cup {NoDef}, Insert(j, d)
      PROVE  row' \in [Jobs -> Row]
  <2>1. "none" \in Errors
    BY DEF Errors
  <2>. QED
    BY <1>0, <1>1, <2>1, RowUpdates DEF Insert
<1>2. ASSUME NEW j \in Jobs, NEW s \in Statuses, NEW e \in Errors,
             row' = [row EXCEPT ![j].status = s, ![j].error = e]
      PROVE  row' \in [Jobs -> Row]
  BY ZenonT(60), <1>2, RowUpdates
<1>3. ASSUME NEW j \in Jobs, RecordFailure(j) \/ RecordCompletion(j) \/ MarkCancelled(j)
      PROVE  row' \in [Jobs -> Row]
  <2>1. {"backup", "cancelled", "sync", "none"} \subseteq Errors
    BY DEF Errors
  <2>. DEFINE e == IF syncFailed[j] THEN "sync" ELSE "none"
  <2>2. e \in Errors
    BY DEF Errors
  <2>3. RecordCompletion(j) => \/ row' = row
                               \/ row' = [row EXCEPT ![j].status = "completed",
                                                     ![j].error = e]
    BY DEF RecordCompletion
  <2>. HIDE DEF e
  <2>4. CASE RecordCompletion(j)
    BY <1>0, <1>2, <2>2, <2>3, <2>4
  <2>5. CASE RecordFailure(j)
    BY <1>0, <1>2, <2>1, <2>5 DEF RecordFailure
  <2>6. CASE MarkCancelled(j)
    BY <1>0, <1>2, <2>1, <2>6 DEF MarkCancelled
  <2>. QED
    BY <1>3, <2>4, <2>5, <2>6
<1>4. ASSUME NEW j \in Jobs, SurfaceSyncError(j) PROVE row' \in [Jobs -> Row]
  <2>1. "sync" \in Errors /\ NoDef \in Defs \cup {NoDef}
    BY DEF Errors
  <2>. QED
    BY ZenonT(60), <1>0, <1>4, <2>1, RowUpdates DEF SurfaceSyncError
<1>5. ASSUME NEW d \in Defs, DeleteDefinition(d) PROVE row' \in [Jobs -> Row]
  <2>1. ASSUME NEW k \in Jobs PROVE [row[k] EXCEPT !.def = NoDef] \in Row
    BY OneRow, <1>0 DEF Errors
  <2>. QED
    BY <1>5, <2>1 DEF DeleteDefinition
<1>6. CASE Restart
  <2>1. ASSUME NEW j \in Jobs PROVE Reconciled(j) \in Row
    <3>1. "interrupted" \in Errors /\ NoDef \in Defs \cup {NoDef}
      BY DEF Errors
    <3>. QED
      BY <1>0, <3>1, OneRow DEF Reconciled
  <2>. QED
    BY <1>6, <2>1 DEF Restart
<1>7. ASSUME NEW j \in Jobs, InsertRow(j) PROVE row' \in [Jobs -> Row]
  BY <1>1, <1>7 DEF InsertRow
<1>8. ASSUME NEW j \in Jobs, NEW d \in Defs, CronFires(j, d) PROVE row' \in [Jobs -> Row]
  BY <1>1, <1>8 DEF CronFires
<1>9. CASE row' = row
  BY <1>9
<1>. QED
  BY <1>3, <1>4, <1>5, <1>6, <1>7, <1>8, <1>9
  DEF Next, Step, Rustic, Cancel, HasCancel, TimesOut, RunNow, RegisterCancel,
      UpsertSnapshot, SyncSucceeds, RusticWrites, RusticSucceeds, RusticDies,
      ListSnapshots, ListingFails, CancelJob, dbVars

\* The other variables.
RunTypes ==
    /\ pc \in [Jobs -> Stations]
    /\ kind \in [Jobs -> {"now", "cron"}]
    /\ from \in [Jobs -> Defs \cup {NoDef}]
    /\ listing \in [Jobs -> SUBSET Jobs]
    /\ canceller \in [Jobs -> {"none", "checked", "marked"}]

DataTypes ==
    /\ defs \in SUBSET Defs
    /\ repo \in SUBSET Jobs
    /\ catalog \in [Jobs -> Defs \cup {NoDef, "absent"}]
    /\ notices \in [Jobs -> Nat]
    /\ restarts \in Nat

FlagTypes ==
    /\ registered \in [Jobs -> BOOLEAN]
    /\ killed \in [Jobs -> BOOLEAN]
    /\ syncFailed \in [Jobs -> BOOLEAN]
    /\ cutOff \in [Jobs -> BOOLEAN]

LEMMA OtherTypes == ASSUME TypeOK, Next PROVE RunTypes' /\ DataTypes' /\ FlagTypes'
<1>. USE DEF TypeOK, Stations
<1>1. ASSUME NEW j \in Jobs, Step(j) PROVE RunTypes' /\ DataTypes' /\ FlagTypes'
  <2>1. RunTypes'
    BY <1>1 DEF Step, InsertRow, RegisterCancel, RecordFailure, RecordCompletion,
       UpsertSnapshot, SyncSucceeds, SurfaceSyncError, SyncFails, Return, RunTypes,
       callVars, syncVars
  <2>2. notices' \in [Jobs -> Nat]
    <3>1. CASE notices' = [notices EXCEPT ![j] = @ + 1]
      <4>1. notices[j] + 1 \in Nat
        OBVIOUS
      <4>. QED
        BY <3>1, <4>1
    <3>2. CASE notices' = notices
      BY <3>2
    <3>. QED
      BY <1>1, <3>1, <3>2 DEF Step, InsertRow, RegisterCancel, RecordFailure,
         RecordCompletion, UpsertSnapshot, SyncSucceeds, SurfaceSyncError, histVars
  <2>3. /\ defs' \in SUBSET Defs /\ repo' \in SUBSET Jobs /\ restarts' \in Nat
        /\ catalog' \in [Jobs -> Defs \cup {NoDef, "absent"}]
    BY <1>1 DEF Step, InsertRow, RegisterCancel, RecordFailure, RecordCompletion,
       UpsertSnapshot, SyncSucceeds, SurfaceSyncError, dbVars, histVars
  <2>4. FlagTypes'
    BY ZenonT(60), <1>1 DEF Step, InsertRow, RegisterCancel, RecordFailure, RecordCompletion,
       UpsertSnapshot, SyncSucceeds, SurfaceSyncError, SyncFails, Return, FlagTypes,
       ctxVars, syncVars, histVars
  <2>. QED
    BY <2>1, <2>2, <2>3, <2>4 DEF DataTypes
<1>2. ASSUME NEW j \in Jobs, Rustic(j) PROVE RunTypes' /\ DataTypes' /\ FlagTypes'
  <2>1. RunTypes' /\ DataTypes'
    BY <1>2 DEF Rustic, RusticWrites, RusticSucceeds, RusticDies, ListSnapshots,
       ListingFails, SyncFails, RunTypes, DataTypes, dbVars, callVars, syncVars, histVars
  <2>2. FlagTypes'
    BY ZenonT(60), <1>2 DEF Rustic, RusticWrites, RusticSucceeds, RusticDies, ListSnapshots,
       ListingFails, SyncFails, FlagTypes, ctxVars, syncVars, histVars
  <2>. QED
    BY <2>1, <2>2
<1>3. ASSUME NEW j \in Jobs, Cancel(j) \/ HasCancel(j) \/ TimesOut(j)
      PROVE  RunTypes' /\ DataTypes' /\ FlagTypes'
  <2>1. RunTypes' /\ DataTypes'
    BY <1>3 DEF Cancel, MarkCancelled, CancelJob, HasCancel, TimesOut, RunTypes,
       DataTypes, dbVars, runVars, callVars, syncVars, histVars
  <2>2. FlagTypes'
    BY <1>3 DEF Cancel, MarkCancelled, CancelJob, HasCancel, TimesOut, FlagTypes,
       runVars, ctxVars, syncVars, histVars
  <2>. QED
    BY <2>1, <2>2
<1>4. ASSUME NEW j \in Jobs, NEW d \in Defs, RunNow(j, d) \/ CronFires(j, d)
      PROVE  RunTypes' /\ DataTypes' /\ FlagTypes'
  <2>1. RunTypes' /\ DataTypes'
    BY <1>4 DEF RunNow, CronFires, RunTypes, DataTypes, dbVars, syncVars, histVars
  <2>2. FlagTypes'
    BY <1>4 DEF RunNow, CronFires, FlagTypes, ctxVars, syncVars, histVars
  <2>. QED
    BY <2>1, <2>2
<1>5. ASSUME NEW d \in Defs, DeleteDefinition(d)
      PROVE  RunTypes' /\ DataTypes' /\ FlagTypes'
  BY <1>5 DEF DeleteDefinition, RunTypes, DataTypes, FlagTypes, runVars, callVars,
     ctxVars, syncVars, histVars
<1>6. CASE Restart
  <2>1. RunTypes' /\ DataTypes'
    BY <1>6, RestartAssumption DEF Restart, RunTypes, DataTypes, callVars
  <2>2. FlagTypes'
    BY <1>6 DEF Restart, FlagTypes
  <2>. QED
    BY <2>1, <2>2
<1>. QED
  BY <1>1, <1>2, <1>3, <1>4, <1>5, <1>6 DEF Next

LEMMA TypeStep == TypeOK /\ [Next]_vars => TypeOK'
<1>. SUFFICES ASSUME TypeOK, [Next]_vars PROVE TypeOK'
  OBVIOUS
<1>1. CASE Next
  BY <1>1, RowStep, OtherTypes DEF TypeOK, RunTypes, DataTypes, FlagTypes
<1>2. CASE UNCHANGED vars
  BY <1>2 DEF TypeOK, vars, dbVars, runVars, callVars, ctxVars, syncVars, histVars
<1>. QED
  BY <1>1, <1>2

\* Rows, goroutines, cancel requests, repository and catalog have their types
\* in every reachable state.
THEOREM TypeCorrect == Spec => []TypeOK
<1>. QED
  BY InitTypes, TypeStep, PTL DEF Spec

-----------------------------------------------------------------------------
(* What each job's row, goroutine and snapshot say of each other *)

\* The row: it is absent during the lookup, running only with a goroutine, and
\* completed only behind the last guarded update of that goroutine.
RowFits(j) ==
    /\ pc[j] = "lookup" => row[j].status = "absent"
    /\ row[j].status = "running" => pc[j] # "idle"
    /\ pc[j] = "surface" => kind[j] = "now"
    /\ kind[j] = "now" /\ pc[j] \in Syncing => row[j].status # "running"
    /\ row[j].status = "completed" =>
         pc[j] = "idle" \/ (kind[j] = "now" /\ pc[j] \in Syncing)
    /\ notices[j] = IF row[j].status = "completed" THEN 1 ELSE 0

\* The snapshot: once written it is in every later listing, and a sync that
\* ends without an error has upserted it.
SnapshotFits(j) ==
    /\ pc[j] \in {"wrote", "record"} \cup Syncing => j \in repo
    /\ pc[j] = "upsert" => j \in listing[j] \/ catalog[j] # "absent"
    /\ kind[j] = "cron" /\ pc[j] = "record" /\ ~syncFailed[j] => catalog[j] # "absent"
    /\ row[j].status = "completed" /\ row[j].error = "none" =>
         catalog[j] # "absent" \/ pc[j] \in Syncing \/ cutOff[j]

Fits == \A j \in Jobs : RowFits(j) /\ SnapshotFits(j)

\* A row of the catalog and a snapshot of the repository stay.
Grows == /\ repo \subseteq repo'
         /\ \A j \in Jobs : catalog[j] # "absent" => catalog'[j] # "absent"

\* A job that a step does not touch.
Same(k) == /\ row'[k].status = row[k].status /\ row'[k].error = row[k].error
           /\ pc'[k] = pc[k] /\ kind'[k] = kind[k] /\ listing'[k] = listing[k]
           /\ notices'[k] = notices[k]
           /\ syncFailed'[k] = syncFailed[k]
           /\ cutOff'[k] = cutOff[k]

LEMMA Untouched ==
    ASSUME TypeOK, Grows, NEW k \in Jobs, Same(k), RowFits(k), SnapshotFits(k)
    PROVE  RowFits(k)' /\ SnapshotFits(k)'
<1>1. RowFits(k)'
  BY DEF Same, RowFits
<1>2. SnapshotFits(k)'
  BY DEF Same, Grows, SnapshotFits
<1>. QED
  BY <1>1, <1>2

LEMMA CatalogGrows == ASSUME TypeOK, Next PROVE Grows
<1>. USE DEF TypeOK
<1>1. ASSUME NEW j \in Jobs, UpsertSnapshot(j) PROVE Grows
  <2>1. repo' = repo
    BY <1>1 DEF UpsertSnapshot
  <2>2. \A k \in Jobs : catalog[k] # "absent" => catalog'[k] = catalog[k]
    BY <1>1 DEF UpsertSnapshot
  <2>. QED
    BY <2>1, <2>2 DEF Grows
<1>2. ASSUME NEW d \in Defs, DeleteDefinition(d) PROVE Grows
  BY <1>2, AbsentAssumption DEF DeleteDefinition, Grows
<1>3. CASE repo \subseteq repo' /\ catalog' = catalog
  BY <1>3 DEF Grows
<1>. QED
  BY ZenonT(60), <1>1, <1>2, <1>3
  DEF Next, Step, InsertRow, RegisterCancel, RecordFailure, RecordCompletion,
      SyncSucceeds, SurfaceSyncError, Rustic, RusticWrites, RusticSucceeds, RusticDies,
      ListSnapshots, ListingFails, Cancel, MarkCancelled, CancelJob, HasCancel, TimesOut,
      RunNow, CronFires, Restart, dbVars

\* A step of one job touches no other.
LEMMA OthersSame ==
    ASSUME TypeOK, NEW j \in Jobs,
           \/ Step(j) \/ Rustic(j) \/ Cancel(j) \/ HasCancel(j) \/ TimesOut(j)
           \/ \E d \in Defs : RunNow(j, d) \/ CronFires(j, d)
    PROVE  \A k \in Jobs \ {j} : Same(k)
<1>. USE DEF TypeOK
<1>1. CASE Step(j)
  <2>. SUFFICES ASSUME NEW k \in Jobs \ {j} PROVE Same(k)
    OBVIOUS
  <2>1. row'[k].status = row[k].status /\ row'[k].error = row[k].error
    BY <1>1 DEF Step, InsertRow, Insert, RegisterCancel, RecordFailure,
       RecordCompletion, UpsertSnapshot, SyncSucceeds, SurfaceSyncError, dbVars
  <2>2. pc'[k] = pc[k] /\ kind'[k] = kind[k] /\ listing'[k] = listing[k]
    BY <1>1 DEF Step, InsertRow, RegisterCancel, RecordFailure, RecordCompletion,
       UpsertSnapshot, SyncSucceeds, SurfaceSyncError, SyncFails, Return, callVars, syncVars
  <2>3. notices'[k] = notices[k] /\ syncFailed'[k] = syncFailed[k] /\ cutOff'[k] = cutOff[k]
    BY <1>1 DEF Step, InsertRow, RegisterCancel, RecordFailure, RecordCompletion,
       UpsertSnapshot, SyncSucceeds, SurfaceSyncError, SyncFails, syncVars, histVars
  <2>. QED
    BY <2>1, <2>2, <2>3 DEF Same
<1>2. CASE Rustic(j) \/ Cancel(j) \/ HasCancel(j) \/ TimesOut(j)
  <2>. SUFFICES ASSUME NEW k \in Jobs \ {j} PROVE Same(k)
    OBVIOUS
  <2>1. row'[k].status = row[k].status /\ row'[k].error = row[k].error
    BY <1>2 DEF Rustic, RusticWrites, RusticSucceeds, RusticDies, ListSnapshots,
       ListingFails, Cancel, MarkCancelled, CancelJob, HasCancel, TimesOut, dbVars
  <2>2. pc'[k] = pc[k] /\ kind'[k] = kind[k] /\ listing'[k] = listing[k]
    BY <1>2 DEF Rustic, RusticWrites, RusticSucceeds, RusticDies, ListSnapshots,
       ListingFails, SyncFails, Cancel, MarkCancelled, CancelJob, HasCancel, TimesOut,
       runVars, callVars, syncVars
  <2>3. notices'[k] = notices[k] /\ syncFailed'[k] = syncFailed[k] /\ cutOff'[k] = cutOff[k]
    BY <1>2 DEF Rustic, RusticWrites, RusticSucceeds, RusticDies, ListSnapshots,
       ListingFails, SyncFails, Cancel, MarkCancelled, CancelJob, HasCancel, TimesOut,
       runVars, syncVars, histVars
  <2>. QED
    BY <2>1, <2>2, <2>3 DEF Same
<1>3. ASSUME NEW d \in Defs, RunNow(j, d) \/ CronFires(j, d)
      PROVE  \A k \in Jobs \ {j} : Same(k)
  BY <1>3 DEF RunNow, CronFires, Insert, Same, dbVars, syncVars, histVars
<1>. QED
  BY <1>1, <1>2, <1>3

\* What each update leaves in the row of its job.
LEMMA RowAfter ==
    ASSUME TypeOK, NEW j \in Jobs
    PROVE  /\ \A d \in Defs \cup {NoDef} : Insert(j, d) => row'[j].status = "running"
           /\ RecordFailure(j) => row'[j].status = IF StillRunning(j) THEN "failed"
                                                   ELSE row[j].status
           /\ RecordFailure(j) /\ ~StillRunning(j) => row' = row
           /\ RecordCompletion(j) /\ StillRunning(j) =>
                /\ row'[j].status = "completed"
                /\ row'[j].error = IF syncFailed[j] THEN "sync" ELSE "none"
           /\ RecordCompletion(j) /\ ~StillRunning(j) => row' = row
           /\ SurfaceSyncError(j) => /\ row'[j].status = row[j].status
                                     /\ row'[j].error = "sync"
           /\ MarkCancelled(j) /\ StillRunning(j) => row'[j].status = "cancelled"
           /\ MarkCancelled(j) /\ ~StillRunning(j) => row' = row
<1>. USE DEF TypeOK
<1>. DEFINE e == IF syncFailed[j] THEN "sync" ELSE "none"
<1>1. /\ {"running", "failed", "completed", "cancelled"} \subseteq Statuses
      /\ {"backup", "cancelled", "sync", "none"} \subseteq Errors
      /\ NoDef \in Defs \cup {NoDef}
  BY DEF Statuses, Terminal, Errors
<1>2. e \in Errors
  BY DEF Errors
<1>. HIDE DEF Statuses, Errors
<1>3. \A d \in Defs \cup {NoDef} : Insert(j, d) => row'[j].status = "running"
  BY <1>1, RowUpdates DEF Insert
<1>4. RecordFailure(j) /\ StillRunning(j) => row'[j].status = "failed"
  BY <1>1, RowUpdates DEF RecordFailure
<1>5. RecordCompletion(j) /\ StillRunning(j) => row'[j].status = "completed" /\ row'[j].error = e
  <2>1. RecordCompletion(j) /\ StillRunning(j) =>
          row' = [row EXCEPT ![j].status = "completed", ![j].error = e]
    BY DEF RecordCompletion
  <2>. HIDE DEF e
  <2>2. /\ [row EXCEPT ![j].status = "completed", ![j].error = e][j].status = "completed"
        /\ [row EXCEPT ![j].status = "completed", ![j].error = e][j].error = e
    BY <1>1, <1>2, RowUpdates
  <2>. QED
    BY <2>1, <2>2
<1>6. SurfaceSyncError(j) => row'[j].status = row[j].status /\ row'[j].error = "sync"
  BY <1>1, RowUpdates DEF SurfaceSyncError
<1>7. MarkCancelled(j) /\ StillRunning(j) => row'[j].status = "cancelled"
  <2>1. [row EXCEPT ![j].status = "cancelled", ![j].error = "cancelled"][j].status
          = "cancelled"
    BY <1>1, RowUpdates
  <2>. QED
    BY <2>1 DEF MarkCancelled
<1>8. /\ RecordFailure(j) /\ ~StillRunning(j) => row' = row
      /\ RecordCompletion(j) /\ ~StillRunning(j) => row' = row
      /\ MarkCancelled(j) /\ ~StillRunning(j) => row' = row
  BY DEF RecordFailure, RecordCompletion, MarkCancelled
<1>. QED
  BY <1>3, <1>4, <1>5, <1>6, <1>7, <1>8

\* A step of a job leaves its own row, goroutine and snapshot fitting.
LEMMA OwnStep ==
    ASSUME TypeOK, NEW j \in Jobs, RowFits(j), SnapshotFits(j),
           Grows,
           \/ Step(j) \/ Rustic(j) \/ Cancel(j) \/ HasCancel(j) \/ TimesOut(j)
           \/ \E d \in Defs : RunNow(j, d) \/ CronFires(j, d)
    PROVE  RowFits(j)' /\ SnapshotFits(j)'
<1>. USE DEF TypeOK, Syncing
<1>1. ASSUME NEW d \in Defs, RunNow(j, d) PROVE RowFits(j)' /\ SnapshotFits(j)'
  <2>1. RowFits(j)'
    BY <1>1 DEF RunNow, Unused, RowFits, dbVars, histVars
  <2>2. SnapshotFits(j)'
    BY <1>1 DEF RunNow, Unused, SnapshotFits, dbVars, histVars
  <2>. QED
    BY <2>1, <2>2
<1>2. ASSUME NEW d \in Defs, CronFires(j, d) PROVE RowFits(j)' /\ SnapshotFits(j)'
  <2>1. row'[j].status = "running" /\ pc'[j] = "spawned" /\ notices' = notices
        /\ row[j].status = "absent"
    BY <1>2, RowAfter DEF CronFires, Unused, histVars
  <2>. QED
    BY <2>1 DEF RowFits, SnapshotFits
<1>3. ASSUME InsertRow(j) PROVE RowFits(j)' /\ SnapshotFits(j)'
  <2>1. CASE from[j] \in defs
    <3>1. row'[j].status = "running" /\ pc'[j] = "spawned" /\ notices' = notices
          /\ row[j].status = "absent"
      BY <1>3, <2>1, RowAfter DEF InsertRow, RowFits, histVars
    <3>. QED
      BY <3>1 DEF RowFits, SnapshotFits
  <2>2. CASE from[j] \notin defs
    <3>1. row' = row /\ pc'[j] = "idle" /\ notices' = notices
          /\ row[j].status = "absent"
      BY <1>3, <2>2 DEF InsertRow, RowFits, histVars
    <3>. QED
      BY <3>1 DEF RowFits, SnapshotFits
  <2>. QED
    BY <2>1, <2>2
<1>4. ASSUME RegisterCancel(j) \/ RusticWrites(j) \/ RusticDies(j) \/ RusticSucceeds(j)
      PROVE  RowFits(j)' /\ SnapshotFits(j)'
  <2>1. /\ row' = row /\ notices' = notices /\ kind' = kind
        /\ pc[j] \in {"spawned", "rustic", "wrote"}
        /\ \/ pc'[j] \in {"rustic", "failed"}
           \/ pc'[j] = "wrote" /\ j \in repo'
           \/ /\ pc[j] = "wrote" /\ repo' = repo /\ catalog' = catalog
              /\ pc'[j] = IF kind[j] = "now" THEN "record" ELSE "list"
    BY <1>4 DEF RegisterCancel, RusticWrites, RusticDies, RusticSucceeds, dbVars,
       callVars, histVars
  <2>2. row[j].status # "completed"
    BY <2>1 DEF RowFits
  <2>3. RowFits(j)'
    BY <2>1, <2>2 DEF RowFits
  <2>4. SnapshotFits(j)'
    BY <2>1, <2>2 DEF SnapshotFits
  <2>. QED
    BY <2>3, <2>4
<1>5. ASSUME TimesOut(j) \/ HasCancel(j) \/ CancelJob(j)
      PROVE  RowFits(j)' /\ SnapshotFits(j)'
  <2>1. Same(j)
    BY <1>5 DEF TimesOut, HasCancel, CancelJob, Same, dbVars, runVars, callVars,
       syncVars, histVars
  <2>. QED
    BY <2>1, Untouched
<1>6. ASSUME MarkCancelled(j) PROVE RowFits(j)' /\ SnapshotFits(j)'
  <2>1. CASE StillRunning(j)
    <3>1. /\ row'[j].status = "cancelled" /\ notices' = notices /\ pc' = pc
          /\ kind' = kind /\ repo' = repo /\ catalog' = catalog /\ listing' = listing
          /\ syncFailed' = syncFailed
      BY <1>6, <2>1, RowAfter DEF MarkCancelled, runVars, callVars, syncVars, histVars
    <3>2. row[j].status = "running"
      BY <2>1 DEF StillRunning
    <3>3. RowFits(j)'
      BY <3>1, <3>2 DEF RowFits
    <3>4. SnapshotFits(j)'
      BY <3>1 DEF SnapshotFits
    <3>. QED
      BY <3>3, <3>4
  <2>2. CASE ~StillRunning(j)
    <3>1. Same(j)
      BY <1>6, <2>2, RowAfter
      DEF MarkCancelled, Same, runVars, callVars, syncVars, histVars
    <3>. QED
      BY <3>1, Untouched
  <2>. QED
    BY <2>1, <2>2
<1>7. ASSUME RecordFailure(j) PROVE RowFits(j)' /\ SnapshotFits(j)'
  <2>1. /\ pc'[j] = "idle" /\ pc[j] = "failed" /\ notices' = notices
        /\ row'[j].status \notin {"running", "completed"}
    <3>1. /\ pc'[j] = "idle" /\ pc[j] = "failed" /\ notices' = notices
          /\ row[j].status # "completed"
      BY <1>7 DEF RecordFailure, Return, histVars, RowFits
    <3>2. row'[j].status = IF StillRunning(j) THEN "failed" ELSE row[j].status
      BY <1>7, RowAfter
    <3>. QED
      BY <3>1, <3>2 DEF StillRunning
  <2>2. row[j].status # "completed"
    BY <2>1 DEF RowFits
  <2>. QED
    BY <2>1, <2>2 DEF RowFits, SnapshotFits
<1>8. ASSUME RecordCompletion(j) PROVE RowFits(j)' /\ SnapshotFits(j)'
  <2>1. pc[j] = "record" /\ kind' = kind /\ syncFailed' = syncFailed /\ catalog' = catalog
        /\ repo' = repo
    BY <1>8 DEF RecordCompletion, callVars, syncVars
  <2>2. row[j].status # "completed" /\ notices[j] = 0
    BY <2>1 DEF RowFits
  <2>3. CASE ~StillRunning(j)
    <3>1. row' = row /\ notices' = notices /\ pc'[j] = "idle"
      BY <1>8, <2>3 DEF RecordCompletion, Return
    <3>2. row[j].status # "running"
      BY <2>3 DEF StillRunning
    <3>. QED
      BY <2>2, <3>1, <3>2 DEF RowFits, SnapshotFits
  <2>4. CASE StillRunning(j)
    <3>1. /\ row'[j].status = "completed"
          /\ row'[j].error = IF syncFailed[j] THEN "sync" ELSE "none"
      BY <1>8, <2>4, RowAfter
    <3>2. notices'[j] = 1
      BY <1>8, <2>2, <2>4 DEF RecordCompletion
    <3>3. pc'[j] = IF kind[j] = "now" THEN "list" ELSE "idle"
      BY <1>8, <2>4 DEF RecordCompletion, Return
    <3>4. RowFits(j)'
      BY <2>1, <3>1, <3>2, <3>3 DEF RowFits
    <3>5. SnapshotFits(j)'
      BY <2>1, <3>1, <3>3 DEF SnapshotFits
    <3>. QED
      BY <3>4, <3>5
  <2>. QED
    BY <2>3, <2>4
<1>9. ASSUME SyncFails(j), UNCHANGED <<row, kind, notices>>, pc[j] \in {"list", "upsert"}
      PROVE  RowFits(j)' /\ SnapshotFits(j)'
  <2>1. /\ pc'[j] = IF kind[j] = "now" THEN "surface" ELSE "record"
        /\ syncFailed'[j]
    BY <1>9 DEF SyncFails
  <2>2. kind[j] = "cron" => row[j].status # "completed"
    BY <1>9 DEF RowFits
  <2>3. RowFits(j)'
    BY <1>9, <2>1, <2>2 DEF RowFits
  <2>4. SnapshotFits(j)'
    BY <1>9, <2>1, <2>2 DEF SnapshotFits, Grows
  <2>. QED
    BY <2>3, <2>4
<1>10. ASSUME ListSnapshots(j) \/ ListingFails(j) PROVE RowFits(j)' /\ SnapshotFits(j)'
  <2>1. CASE ListingFails(j)
    BY <1>9, <2>1 DEF ListingFails, dbVars, callVars, histVars
  <2>2. CASE ListSnapshots(j)
    <3>1. /\ pc[j] = "list" /\ pc'[j] = "upsert" /\ listing'[j] = repo /\ repo' = repo
          /\ row' = row /\ kind' = kind /\ notices' = notices
      BY <2>2 DEF ListSnapshots, dbVars, callVars, histVars
    <3>. QED
      BY <3>1 DEF RowFits, SnapshotFits
  <2>. QED
    BY <1>10, <2>1, <2>2
<1>11. ASSUME UpsertSnapshot(j) PROVE RowFits(j)' /\ SnapshotFits(j)'
  <2>1. CASE SyncFails(j)
    BY <1>9, <1>11, <2>1 DEF UpsertSnapshot, callVars, histVars
  <2>2. CASE ~SyncFails(j)
    <3>1. /\ pc[j] = "upsert" /\ pc' = pc /\ syncFailed' = syncFailed /\ repo' = repo
          /\ row' = row /\ kind' = kind /\ notices' = notices /\ cutOff' = cutOff
      BY <1>11, <2>2 DEF UpsertSnapshot, callVars, histVars
    <3>2. PICK s \in listing[j] :
            /\ ~(catalog[s] = "absent" /\ from[j] \notin defs)
            /\ catalog' = [catalog EXCEPT ![s] = IF @ = "absent" THEN from[j] ELSE @]
            /\ listing' = [listing EXCEPT ![j] = @ \ {s}]
      BY <1>11, <2>2 DEF UpsertSnapshot
    <3>3. catalog'[s] # "absent"
      BY <3>2, AbsentAssumption
    <3>4. j \in listing'[j] \/ catalog'[j] # "absent"
      BY <3>1, <3>2, <3>3 DEF SnapshotFits, Grows
    <3>5. RowFits(j)'
      BY <3>1 DEF RowFits
    <3>6. SnapshotFits(j)'
      BY <3>1, <3>4 DEF SnapshotFits
    <3>. QED
      BY <3>5, <3>6
  <2>. QED
    BY <2>1, <2>2
<1>12. ASSUME SyncSucceeds(j) PROVE RowFits(j)' /\ SnapshotFits(j)'
  <2>1. /\ pc[j] = "upsert" /\ listing[j] = {} /\ row' = row /\ kind' = kind
        /\ notices' = notices /\ catalog' = catalog /\ repo' = repo
        /\ pc'[j] = IF kind[j] = "now" THEN "idle" ELSE "record"
    BY <1>12 DEF SyncSucceeds, AllUpserted, Return, dbVars, callVars, histVars
  <2>2. catalog[j] # "absent" /\ j \in repo
    BY <2>1 DEF SnapshotFits
  <2>3. RowFits(j)'
    BY <2>1 DEF RowFits
  <2>4. SnapshotFits(j)'
    BY <2>1, <2>2 DEF SnapshotFits
  <2>. QED
    BY <2>3, <2>4
<1>13. ASSUME SurfaceSyncError(j) PROVE RowFits(j)' /\ SnapshotFits(j)'
  <2>1. /\ pc[j] = "surface" /\ pc'[j] = "idle" /\ kind' = kind /\ notices' = notices
        /\ row'[j].status = row[j].status /\ row'[j].error = "sync"
    BY <1>13, RowAfter DEF SurfaceSyncError, Return, callVars, histVars
  <2>. QED
    BY <2>1 DEF RowFits, SnapshotFits
<1>. QED
  BY <1>1, <1>2, <1>3, <1>4, <1>5, <1>6, <1>7, <1>8, <1>10, <1>11, <1>12, <1>13
  DEF Step, Rustic, Cancel

LEMMA FitsStep == TypeOK /\ Fits /\ [Next]_vars => Fits'
<1>. SUFFICES ASSUME TypeOK, Fits, [Next]_vars PROVE Fits'
  OBVIOUS
<1>1. ASSUME NEW j \in Jobs,
             \/ Step(j) \/ Rustic(j) \/ Cancel(j) \/ HasCancel(j) \/ TimesOut(j)
             \/ \E d \in Defs : RunNow(j, d) \/ CronFires(j, d)
      PROVE  Fits'
  <2>1. Grows
    BY <1>1, CatalogGrows DEF Next
  <2>2. RowFits(j)' /\ SnapshotFits(j)'
    BY <1>1, <2>1, OwnStep DEF Fits
  <2>3. \A k \in Jobs \ {j} : RowFits(k)' /\ SnapshotFits(k)'
    BY <1>1, <2>1, OthersSame, Untouched DEF Fits
  <2>. QED
    BY <2>2, <2>3 DEF Fits
<1>2. ASSUME NEW d \in Defs, DeleteDefinition(d) PROVE Fits'
  <2>1. Grows
    BY <1>2, CatalogGrows DEF Next
  <2>2. \A k \in Jobs : row'[k].status = row[k].status /\ row'[k].error = row[k].error
    BY <1>2 DEF DeleteDefinition, TypeOK, Row
  <2>3. \A k \in Jobs : Same(k)
    BY <1>2, <2>2 DEF DeleteDefinition, Same, runVars, callVars, syncVars, histVars
  <2>. QED
    BY <2>1, <2>3, Untouched DEF Fits
<1>3. CASE Restart
  <2>. SUFFICES ASSUME NEW k \in Jobs PROVE RowFits(k)' /\ SnapshotFits(k)'
    BY DEF Fits
  <2>1. /\ row'[k].status = IF row[k].status = "running" THEN "failed" ELSE row[k].status
        /\ row[k].status # "running" => row'[k] = row[k]
    BY ZenonT(60), <1>3 DEF Restart, Reconciled, StillRunning, TypeOK, Row
  <2>2. /\ pc'[k] = "idle" /\ notices' = notices /\ catalog' = catalog /\ kind' = kind
        /\ cutOff'[k] = (cutOff[k] \/ pc[k] \in Syncing)
    BY <1>3 DEF Restart, callVars
  <2>3. RowFits(k) /\ SnapshotFits(k)
    BY DEF Fits
  <2>4. RowFits(k)'
    BY <2>1, <2>2, <2>3 DEF RowFits, Syncing
  <2>5. SnapshotFits(k)'
    BY <2>1, <2>2, <2>3 DEF SnapshotFits, Syncing
  <2>. QED
    BY <2>4, <2>5
<1>4. CASE UNCHANGED vars
  BY <1>4 DEF vars, dbVars, runVars, callVars, syncVars, histVars, Fits, RowFits,
     SnapshotFits
<1>. QED
  BY <1>1, <1>2, <1>3, <1>4 DEF Next

LEMMA AlwaysFits == Spec => [](TypeOK /\ Fits)
<1>1. Init => TypeOK /\ Fits
  BY InitTypes DEF Init, Fits, RowFits, SnapshotFits, NoRow, Syncing
<1>. QED
  BY <1>1, TypeStep, FitsStep, PTL DEF Spec

\* Every row that says running has a goroutine behind it, also after a crash.
THEOREM GoroutineBehindRow == Spec => []RunningHasGoroutine
<1>1. Fits => RunningHasGoroutine
  BY DEF Fits, RowFits, RunningHasGoroutine
<1>. QED
  BY <1>1, AlwaysFits, PTL

\* A job completed without an error has its snapshot in the catalog, unless its
\* sync is still going on or was cut off by a restart.
THEOREM CompletedInCatalog == Spec => []CompletedIsCatalogued
<1>1. Fits => CompletedIsCatalogued
  BY DEF Fits, SnapshotFits, CompletedIsCatalogued
<1>. QED
  BY <1>1, AlwaysFits, PTL

-----------------------------------------------------------------------------
(* Syncs that were cut off *)

\* A snapshot whose sync was cut off is in the repository, so a later sync has
\* listed it, and has it still to upsert or in the catalog.
Relisted == \A k \in Jobs : cutOff[k] =>
    /\ k \in repo
    /\ \A j \in Jobs : pc[j] = "upsert" => k \in listing[j] \/ catalog[k] # "absent"

\* What a step makes of the listing of a sync.
LEMMA ListingStep ==
    ASSUME TypeOK, NEW j \in Jobs, pc'[j] = "upsert",
           \/ Step(j) \/ Rustic(j) \/ Cancel(j) \/ HasCancel(j) \/ TimesOut(j)
           \/ \E d \in Defs : RunNow(j, d) \/ CronFires(j, d)
    PROVE  \/ listing'[j] = repo
           \/ /\ pc[j] = "upsert"
              /\ \A k \in listing[j] : k \in listing'[j] \/ catalog'[k] # "absent"
<1>. USE DEF TypeOK
<1>1. CASE ListSnapshots(j)
  BY <1>1 DEF ListSnapshots
<1>2. CASE UpsertSnapshot(j)
  <2>1. ~SyncFails(j)
    BY DEF SyncFails
  <2>2. PICK s \in listing[j] :
          /\ ~(catalog[s] = "absent" /\ from[j] \notin defs)
          /\ catalog' = [catalog EXCEPT ![s] = IF @ = "absent" THEN from[j] ELSE @]
          /\ listing' = [listing EXCEPT ![j] = @ \ {s}]
    BY <1>2, <2>1 DEF UpsertSnapshot
  <2>3. catalog'[s] # "absent"
    BY <2>2, AbsentAssumption
  <2>. QED
    BY <1>2, <2>2, <2>3 DEF UpsertSnapshot
<1>3. CASE pc' = pc /\ listing' = listing
  BY <1>3
<1>. QED
  BY <1>1, <1>2, <1>3
  DEF Step, InsertRow, RegisterCancel, RecordFailure, RecordCompletion, SyncSucceeds,
      SurfaceSyncError, Return, Rustic, RusticWrites, RusticSucceeds, RusticDies,
      ListingFails, SyncFails, Cancel, MarkCancelled, CancelJob, HasCancel, TimesOut,
      RunNow, CronFires, runVars, syncVars

LEMMA RelistedStep == TypeOK /\ Fits /\ Relisted /\ [Next]_vars => Relisted'
<1>. SUFFICES ASSUME TypeOK, Fits, Relisted, [Next]_vars PROVE Relisted'
  OBVIOUS
<1>1. CASE Restart
  BY <1>1 DEF Restart, TypeOK, Relisted, Fits, SnapshotFits
<1>2. CASE UNCHANGED vars
  BY <1>2 DEF vars, dbVars, runVars, syncVars, histVars, Relisted
<1>3. ASSUME NEW d \in Defs, DeleteDefinition(d) PROVE Relisted'
  <2>1. Grows
    BY <1>3, CatalogGrows DEF Next
  <2>. QED
    BY <1>3, <2>1 DEF DeleteDefinition, runVars, syncVars, histVars, Grows, Relisted
<1>4. ASSUME NEW j \in Jobs,
             \/ Step(j) \/ Rustic(j) \/ Cancel(j) \/ HasCancel(j) \/ TimesOut(j)
             \/ \E d \in Defs : RunNow(j, d) \/ CronFires(j, d)
      PROVE  Relisted'
  <2>1. Grows
    BY <1>4, CatalogGrows DEF Next
  <2>2. cutOff' = cutOff
    BY <1>4 DEF Step, InsertRow, RegisterCancel, RecordFailure, RecordCompletion,
       UpsertSnapshot, SyncSucceeds, SurfaceSyncError, Rustic, RusticWrites,
       RusticSucceeds, RusticDies, ListSnapshots, ListingFails, Cancel, MarkCancelled,
       CancelJob, HasCancel, TimesOut, RunNow, CronFires, histVars
  <2>. SUFFICES ASSUME NEW k \in Jobs, cutOff[k], NEW i \in Jobs, pc'[i] = "upsert"
                PROVE  k \in listing'[i] \/ catalog'[k] # "absent"
    BY <2>1, <2>2 DEF Relisted, Grows
  <2>3. k \in repo /\ (pc[i] = "upsert" => k \in listing[i] \/ catalog[k] # "absent")
    BY DEF Relisted
  <2>4. CASE i = j
    BY <1>4, <2>1, <2>3, <2>4, ListingStep DEF Grows
  <2>5. CASE i # j
    <3>1. pc'[i] = pc[i] /\ listing'[i] = listing[i]
      BY <1>4, <2>5, OthersSame DEF Same
    <3>. QED
      BY <2>1, <2>3, <3>1 DEF Grows
  <2>. QED
    BY <2>4, <2>5
<1>. QED
  BY <1>1, <1>2, <1>3, <1>4 DEF Next

\* A sync that ends without an error has catalogued every snapshot whose own
\* sync a restart cut off, whatever was cancelled, deleted or timed out between.
THEOREM LaterSyncCatalogs == Spec => LaterSyncRepairs
<1>1. Init => Relisted
  BY DEF Init, Relisted
<1>2. Spec => [](TypeOK /\ Fits /\ Relisted)
  BY <1>1, AlwaysFits, RelistedStep, PTL DEF Spec
<1>3. ASSUME Relisted, NEW j \in Jobs, NEW k \in Jobs, SyncSucceeds(j), cutOff[k]
      PROVE  catalog[k] # "absent"
  BY <1>3 DEF Relisted, SyncSucceeds, AllUpserted
<1>4. Relisted =>
        [\A j, k \in Jobs : SyncSucceeds(j) /\ cutOff[k] => catalog[k] # "absent"]_vars
  BY <1>3
<1>. QED
  BY <1>2, <1>4, PTL DEF LaterSyncRepairs

-----------------------------------------------------------------------------
(* A cancel reaches the run *)

\* The registry and the cancel request: the cancel function is registered from
\* the start of rustic to the return of the goroutine, and a request that found
\* it there is about a job whose goroutine has got that far, or has returned.
KillFits(j) ==
    /\ registered[j] <=> pc[j] \notin {"idle", "lookup", "spawned"}
    /\ pc[j] \notin {"idle", "lookup"} => row[j].status # "absent"
    /\ canceller[j] # "none" => /\ pc[j] \notin {"lookup", "spawned"}
                                /\ row[j].status # "absent"
    /\ row[j].status = "cancelled" /\ pc[j] # "idle" =>
         killed[j] \/ canceller[j] = "marked"

KillsFit == \A j \in Jobs : KillFits(j)

\* What KillFits reads of a job.
Unmoved(k) ==
    /\ row'[k].status = row[k].status /\ pc'[k] = pc[k]
    /\ registered'[k] = registered[k] /\ killed'[k] = killed[k]
    /\ canceller'[k] = canceller[k]

LEMMA OthersUnmoved ==
    ASSUME TypeOK, NEW j \in Jobs,
           \/ Step(j) \/ Rustic(j) \/ Cancel(j) \/ HasCancel(j) \/ TimesOut(j)
           \/ \E d \in Defs : RunNow(j, d) \/ CronFires(j, d)
    PROVE  \A k \in Jobs \ {j} : Unmoved(k)
<1>. SUFFICES ASSUME NEW k \in Jobs \ {j} PROVE Unmoved(k)
  OBVIOUS
<1>1. row'[k].status = row[k].status /\ pc'[k] = pc[k]
  BY OthersSame DEF Same
<1>2. registered'[k] = registered[k] /\ killed'[k] = killed[k]
  BY DEF TypeOK, Step, InsertRow, RegisterCancel, RecordFailure, RecordCompletion,
     UpsertSnapshot, SyncSucceeds, SurfaceSyncError, Return, Rustic, RusticWrites,
     RusticSucceeds, RusticDies, ListSnapshots, ListingFails, Cancel, MarkCancelled,
     CancelJob, HasCancel, TimesOut, RunNow, CronFires, runVars, ctxVars
<1>3. canceller'[k] = canceller[k]
  BY DEF TypeOK, Step, InsertRow, RegisterCancel, RecordFailure, RecordCompletion,
     UpsertSnapshot, SyncSucceeds, SurfaceSyncError, Rustic, RusticWrites,
     RusticSucceeds, RusticDies, ListSnapshots, ListingFails, Cancel, MarkCancelled,
     CancelJob, HasCancel, TimesOut, RunNow, CronFires
<1>. QED
  BY <1>1, <1>2, <1>3 DEF Unmoved

LEMMA OwnKillStep ==
    ASSUME TypeOK, NEW j \in Jobs, RowFits(j), KillFits(j),
           \/ Step(j) \/ Rustic(j) \/ Cancel(j) \/ HasCancel(j) \/ TimesOut(j)
           \/ \E d \in Defs : RunNow(j, d) \/ CronFires(j, d)
    PROVE  KillFits(j)'
<1>. USE DEF TypeOK
<1>1. ASSUME NEW d \in Defs, RunNow(j, d) PROVE KillFits(j)'
  BY <1>1 DEF RunNow, Unused, KillFits, dbVars, ctxVars
<1>2. ASSUME NEW d \in Defs, CronFires(j, d) PROVE KillFits(j)'
  <2>1. /\ row'[j].status = "running" /\ pc'[j] = "spawned" /\ registered' = registered
        /\ canceller' = canceller /\ pc[j] = "idle" /\ row[j].status = "absent"
    BY <1>2, RowAfter DEF CronFires, Unused, ctxVars
  <2>. QED
    BY <2>1 DEF KillFits
<1>3. ASSUME InsertRow(j) PROVE KillFits(j)'
  <2>1. registered' = registered /\ killed' = killed /\ canceller' = canceller
        /\ pc[j] = "lookup" /\ row[j].status = "absent"
    BY <1>3 DEF InsertRow, RowFits, ctxVars
  <2>2. \/ Insert(j, from[j]) /\ pc'[j] = "spawned"
        \/ row' = row /\ pc'[j] = "idle"
    BY <1>3 DEF InsertRow
  <2>3. Insert(j, from[j]) => row'[j].status = "running"
    BY RowAfter
  <2>. QED
    BY <2>1, <2>2, <2>3 DEF KillFits
<1>4. ASSUME RegisterCancel(j) PROVE KillFits(j)'
  BY <1>4 DEF RegisterCancel, KillFits, dbVars
<1>5. ASSUME RusticWrites(j) \/ RusticSucceeds(j) \/ RusticDies(j) \/ ListSnapshots(j)
             \/ ListingFails(j) \/ UpsertSnapshot(j)
      PROVE  KillFits(j)'
  <2>1. /\ row' = row /\ registered' = registered /\ killed' = killed
        /\ canceller' = canceller
        /\ pc[j] \notin {"idle", "lookup", "spawned"}
        /\ pc'[j] \notin {"idle", "lookup", "spawned"}
    BY <1>5 DEF RusticWrites, RusticSucceeds, RusticDies, ListSnapshots, ListingFails,
       UpsertSnapshot, SyncFails, dbVars, ctxVars
  <2>. QED
    BY <2>1 DEF KillFits
<1>6. ASSUME TimesOut(j) PROVE KillFits(j)'
  BY <1>6 DEF TimesOut, KillFits, dbVars
<1>7. ASSUME HasCancel(j) PROVE KillFits(j)'
  BY <1>7 DEF HasCancel, KillFits, dbVars, runVars, ctxVars
<1>8. ASSUME CancelJob(j) PROVE KillFits(j)'
  BY <1>8 DEF CancelJob, KillFits, dbVars
<1>9. ASSUME MarkCancelled(j) PROVE KillFits(j)'
  <2>1. /\ pc' = pc /\ registered' = registered /\ killed' = killed
        /\ canceller[j] = "checked"
        /\ canceller'[j] = IF StillRunning(j) THEN "marked" ELSE "none"
    BY <1>9 DEF MarkCancelled, runVars, ctxVars
  <2>2. CASE StillRunning(j)
    <3>1. row'[j].status = "cancelled"
      BY <1>9, <2>2, RowAfter
    <3>. QED
      BY <2>1, <2>2, <3>1 DEF KillFits
  <2>3. CASE ~StillRunning(j)
    <3>1. row' = row
      BY <1>9, <2>3, RowAfter
    <3>. QED
      BY <2>1, <2>3, <3>1 DEF KillFits
  <2>. QED
    BY <2>2, <2>3
<1>10. ASSUME RecordFailure(j) \/ SurfaceSyncError(j) PROVE KillFits(j)'
  <2>1. pc'[j] = "idle" /\ registered'[j] = FALSE /\ canceller' = canceller
    BY <1>10 DEF RecordFailure, SurfaceSyncError, Return
  <2>2. row[j].status # "absent"
    BY <1>10 DEF RecordFailure, SurfaceSyncError, KillFits
  <2>3. row'[j].status \in {"failed", row[j].status}
    BY <1>10, RowAfter
  <2>. QED
    BY <2>1, <2>2, <2>3 DEF KillFits
<1>11. ASSUME RecordCompletion(j) PROVE KillFits(j)'
  <2>1. /\ pc[j] = "record" /\ killed' = killed /\ canceller' = canceller
        /\ \/ StillRunning(j) /\ pc'[j] = "list" /\ registered' = registered
           \/ pc'[j] = "idle" /\ registered'[j] = FALSE
    BY <1>11 DEF RecordCompletion, Return
  <2>2. IF StillRunning(j) THEN row'[j].status = "completed" ELSE row' = row
    BY <1>11, RowAfter
  <2>. QED
    BY <2>1, <2>2 DEF KillFits
<1>12. ASSUME SyncSucceeds(j) PROVE KillFits(j)'
  <2>1. /\ pc[j] = "upsert" /\ row' = row /\ killed' = killed /\ canceller' = canceller
        /\ \/ pc'[j] = "record" /\ registered' = registered
           \/ pc'[j] = "idle" /\ registered'[j] = FALSE
    BY <1>12 DEF SyncSucceeds, Return, dbVars
  <2>. QED
    BY <2>1 DEF KillFits
<1>. QED
  BY <1>1, <1>2, <1>3, <1>4, <1>5, <1>6, <1>7, <1>8, <1>9, <1>10, <1>11, <1>12
  DEF Step, Rustic, Cancel

LEMMA KillsFitStep == TypeOK /\ Fits /\ KillsFit /\ [Next]_vars => KillsFit'
<1>. SUFFICES ASSUME TypeOK, Fits, KillsFit, [Next]_vars PROVE KillsFit'
  OBVIOUS
<1>1. \A k \in Jobs : Unmoved(k) => KillFits(k)'
  BY DEF KillsFit, KillFits, Unmoved
<1>2. ASSUME NEW j \in Jobs,
             \/ Step(j) \/ Rustic(j) \/ Cancel(j) \/ HasCancel(j) \/ TimesOut(j)
             \/ \E d \in Defs : RunNow(j, d) \/ CronFires(j, d)
      PROVE  KillsFit'
  <2>1. KillFits(j)'
    BY <1>2, OwnKillStep DEF Fits, KillsFit
  <2>2. \A k \in Jobs \ {j} : KillFits(k)'
    BY <1>1, <1>2, OthersUnmoved
  <2>. QED
    BY <2>1, <2>2 DEF KillsFit
<1>3. ASSUME NEW d \in Defs, DeleteDefinition(d) PROVE KillsFit'
  <2>1. \A k \in Jobs : row'[k].status = row[k].status
    BY <1>3 DEF DeleteDefinition, TypeOK, Row
  <2>2. \A k \in Jobs : Unmoved(k)
    BY <1>3, <2>1 DEF DeleteDefinition, Unmoved, runVars, ctxVars
  <2>. QED
    BY <1>1, <2>2 DEF KillsFit
<1>4. CASE Restart
  BY <1>4 DEF Restart, KillsFit, KillFits
<1>5. CASE UNCHANGED vars
  BY <1>5 DEF vars, dbVars, runVars, ctxVars, KillsFit, KillFits
<1>. QED
  BY <1>2, <1>3, <1>4, <1>5 DEF Next

\* From the mark of a cancel to the return of the goroutine its context is
\* closed or the request is about to close it: the kill that follows the mark
\* cannot miss.  What is left of CancelEndsTheRun is that the request, the
\* killed rustic and the goroutine go on.
THEOREM MarkedIsKilled == Spec => []CancelReaches
<1>1. Init => KillsFit
  <2>. SUFFICES ASSUME Init, NEW j \in Jobs PROVE KillFits(j)
    BY DEF KillsFit
  <2>1. /\ row[j].status = "absent" /\ pc[j] = "idle" /\ canceller[j] = "none"
        /\ registered[j] = FALSE
    BY DEF Init, NoRow
  <2>. QED
    BY <2>1 DEF KillFits
<1>2. KillsFit => CancelReaches
  <2>. SUFFICES ASSUME NEW j \in Jobs, KillFits(j), pc[j] # "idle",
                       canceller[j] = "marked"
                PROVE  registered[j]
    BY DEF KillsFit, KillFits, CancelReaches
  <2>. QED
    BY DEF KillFits
<1>. QED
  BY <1>1, <1>2, AlwaysFits, KillsFitStep, PTL DEF Spec

-----------------------------------------------------------------------------
(* The table implements the ledger *)

Verdicts == [j \in Jobs |-> row[j].status]

LEMMA VerdictsStep ==
    ASSUME TypeOK, NEW j \in Jobs, \A k \in Jobs \ {j} : Same(k)
    PROVE  Verdicts' = [Verdicts EXCEPT ![j] = row'[j].status]
BY DEF Verdicts, Same

LEMMA StepImplements ==
    ASSUME TypeOK, Fits, [Next]_vars
    PROVE  [Ledger!Next]_<<Verdicts, notices>>
<1>. USE DEF TypeOK
<1>1. CASE UNCHANGED <<Verdicts, notices>>
  BY <1>1
<1>2. ASSUME NEW j \in Jobs, row'[j].status = row[j].status, notices' = notices,
             \A k \in Jobs \ {j} : Same(k)
      PROVE  UNCHANGED <<Verdicts, notices>>
  BY <1>2 DEF Verdicts, Same
<1>3. ASSUME NEW j \in Jobs, Verdicts[j] = "absent", row'[j].status = "running",
             notices' = notices, \A k \in Jobs \ {j} : Same(k)
      PROVE  Ledger!Next
  <2>1. Ledger!Begin(j)
    BY <1>3, VerdictsStep DEF Ledger!Begin, Verdicts
  <2>. QED
    BY <2>1 DEF Ledger!Next
<1>4. ASSUME NEW j \in Jobs, NEW v \in {"failed", "cancelled"},
             row[j].status = "running", row'[j].status = v,
             notices' = notices, \A k \in Jobs \ {j} : Same(k)
      PROVE  Ledger!Next
  <2>1. Ledger!Conclude(j, v)
    BY <1>4, VerdictsStep DEF Ledger!Conclude, Verdicts
  <2>. QED
    BY <2>1 DEF Ledger!Next
<1>5. ASSUME NEW j \in Jobs, Step(j) \/ Cancel(j)
      PROVE  Ledger!Next \/ UNCHANGED <<Verdicts, notices>>
  <2>1. \A k \in Jobs \ {j} : Same(k)
    BY <1>5, OthersSame
  <2>2. CASE InsertRow(j)
    <3>1. CASE from[j] \in defs
      <4>1. row'[j].status = "running" /\ notices' = notices /\ row[j].status = "absent"
        BY <2>2, <3>1, RowAfter DEF InsertRow, Fits, RowFits, histVars
      <4>2. Verdicts[j] = "absent"
        BY <4>1 DEF Verdicts
      <4>. QED
        BY <1>3, <2>1, <4>1, <4>2
    <3>2. CASE from[j] \notin defs
      BY <1>2, <2>1, <2>2, <3>2 DEF InsertRow, histVars
    <3>. QED
      BY <3>1, <3>2
  <2>3. CASE RecordFailure(j)
    <3>1. /\ row'[j].status = IF StillRunning(j) THEN "failed" ELSE row[j].status
          /\ notices' = notices
      BY <2>3, RowAfter DEF RecordFailure, histVars
    <3>2. CASE StillRunning(j)
      BY <1>4, <2>1, <3>1, <3>2 DEF StillRunning
    <3>3. CASE ~StillRunning(j)
      BY <1>2, <2>1, <3>1, <3>3
    <3>. QED
      BY <3>2, <3>3
  <2>4. CASE RecordCompletion(j)
    <3>1. CASE StillRunning(j)
      <4>1. row'[j].status = "completed" /\ row[j].status = "running"
        BY <2>4, <3>1, RowAfter DEF StillRunning
      <4>2. notices' = [notices EXCEPT ![j] = @ + 1]
        BY <2>4, <3>1 DEF RecordCompletion
      <4>3. Ledger!Complete(j)
        BY <2>1, <4>1, <4>2, VerdictsStep DEF Ledger!Complete, Verdicts
      <4>. QED
        BY <4>3 DEF Ledger!Next
    <3>2. CASE ~StillRunning(j)
      BY <1>2, <2>1, <2>4, <3>2 DEF RecordCompletion
    <3>. QED
      BY <3>1, <3>2
  <2>5. CASE MarkCancelled(j)
    <3>1. notices' = notices
      BY <2>5 DEF MarkCancelled, histVars
    <3>2. CASE StillRunning(j)
      <4>1. row'[j].status = "cancelled" /\ row[j].status = "running"
        BY <2>5, <3>2, RowAfter DEF StillRunning
      <4>. QED
        BY <1>4, <2>1, <3>1, <4>1
    <3>3. CASE ~StillRunning(j)
      BY <1>2, <2>1, <2>5, <3>1, <3>3, RowAfter
    <3>. QED
      BY <3>2, <3>3
  <2>6. CASE SurfaceSyncError(j)
    <3>1. row'[j].status = row[j].status /\ notices' = notices
      BY <2>6, RowAfter DEF SurfaceSyncError, histVars
    <3>. QED
      BY <1>2, <2>1, <3>1
  <2>7. CASE RegisterCancel(j) \/ UpsertSnapshot(j) \/ SyncSucceeds(j) \/ CancelJob(j)
    BY <1>2, <2>1, <2>7 DEF RegisterCancel, UpsertSnapshot, SyncSucceeds, CancelJob,
       dbVars, histVars
  <2>. QED
    BY <1>5, <2>2, <2>3, <2>4, <2>5, <2>6, <2>7 DEF Step, Cancel
<1>6. ASSUME NEW j \in Jobs, Rustic(j) \/ HasCancel(j) \/ TimesOut(j)
      PROVE  UNCHANGED <<Verdicts, notices>>
  BY <1>6 DEF Rustic, RusticWrites, RusticSucceeds, RusticDies, ListSnapshots,
     ListingFails, HasCancel, TimesOut, Verdicts, dbVars, histVars
<1>7. ASSUME NEW j \in Jobs, NEW d \in Defs, RunNow(j, d)
      PROVE  UNCHANGED <<Verdicts, notices>>
  BY <1>7 DEF RunNow, Verdicts, dbVars, histVars
<1>8. ASSUME NEW j \in Jobs, NEW d \in Defs, CronFires(j, d) PROVE Ledger!Next
  <2>1. row'[j].status = "running" /\ notices' = notices /\ Verdicts[j] = "absent"
    BY <1>8, RowAfter DEF CronFires, Unused, Verdicts, histVars
  <2>. QED
    BY <1>3, <1>8, <2>1, OthersSame
<1>9. ASSUME NEW d \in Defs, DeleteDefinition(d) PROVE UNCHANGED <<Verdicts, notices>>
  <2>1. \A k \in Jobs : row'[k].status = row[k].status
    BY <1>9 DEF DeleteDefinition, Row
  <2>. QED
    BY <1>9, <2>1 DEF DeleteDefinition, Verdicts, histVars
<1>10. CASE Restart
  <2>1. \A k \in Jobs : row'[k].status = IF row[k].status = "running" THEN "failed"
                                                                     ELSE row[k].status
    <3>1. ASSUME NEW k \in Jobs
          PROVE  row'[k].status = IF row[k].status = "running" THEN "failed"
                                                              ELSE row[k].status
      BY ZenonT(60), <1>10 DEF Restart, Reconciled, StillRunning, Row
    <3>. QED
      BY <3>1
  <2>2. notices' = notices
    BY <1>10 DEF Restart
  <2>3. Ledger!Crash
    BY <2>1, <2>2 DEF Ledger!Crash, Verdicts
  <2>. QED
    BY <2>3 DEF Ledger!Next
<1>11. CASE UNCHANGED vars
  BY <1>11 DEF vars, dbVars, histVars, Verdicts
<1>. QED
  BY <1>5, <1>6, <1>7, <1>8, <1>9, <1>10, <1>11 DEF Next

\* The table of jobs, written by two callers, cancels, deletions and restarts,
\* implements the ledger its readers see.
THEOREM TableImplementsLedger == Spec => ImplementsLedger
<1>1. Init => Ledger!Init
  BY DEF Init, Ledger!Init, NoRow
<1>2. TypeOK /\ Fits /\ [Next]_vars => [Ledger!Next]_<<Verdicts, notices>>
  BY StepImplements
<1>. QED
  BY <1>1, <1>2, AlwaysFits, PTL DEF Spec, ImplementsLedger, Ledger!Spec, Verdicts

\* A verdict the user has seen stands, since the ledger never changes one.
THEOREM VerdictStands == Spec => TerminalIsFinal
<1>1. TypeOK /\ Fits /\ [Next]_vars =>
        [\A j \in Jobs : row[j].status \in Terminal =>
                             row'[j].status = row[j].status]_vars
  <2>. SUFFICES ASSUME TypeOK, Fits, [Next]_vars,
                       NEW j \in Jobs, row[j].status \in Terminal
                PROVE  row'[j].status = row[j].status
    OBVIOUS
  <2>1. Verdicts[j] = row[j].status /\ Verdicts'[j] = row'[j].status
    BY DEF Verdicts
  <2>2. CASE UNCHANGED <<Verdicts, notices>>
    BY <2>1, <2>2
  <2>3. CASE Ledger!Next
    BY <2>1, <2>3
    DEF Ledger!Next, Ledger!Begin, Ledger!Complete, Ledger!Conclude, Ledger!Crash,
        Verdicts, Terminal
  <2>. QED
    BY <2>2, <2>3, StepImplements
<1>. QED
  BY <1>1, AlwaysFits, PTL DEF Spec, TerminalIsFinal
=============================================================================
