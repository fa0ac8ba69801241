--------------------------- MODULE ScheduleReload ---------------------------
(***************************************************************************)
(* The cron table of src/api/internal/scheduler/scheduler.go and the       *)
(* requests of src/api/internal/server/router.go that create, edit and     *)
(* delete the definitions it is made from.  Each request ends by spawning  *)
(* a Reload, which reads the definitions before it takes the mutex under   *)
(* which it replaces the entries: several reloads may be on their way.     *)
(*                                                                         *)
(* An entry that fires runs BackupJobs!CronFires.                          *)
(***************************************************************************)
EXTENDS Integers

CONSTANTS
    Ids,            \* ids of backup_definitions rows, each used at most once
    Calls,          \* requests; a request and the reload it spawns share a name
    Inputs,         \* the schedules a client may send
    CronExprs,      \* the expressions that robfig/cron accepts
    Paths,          \* values of the columns that only a run looks at
    Unset,          \* a field the body of an edit leaves out
    MaxRestarts     \* bound: container restarts in one behaviour

ASSUME RestartAssumption == MaxRestarts \in Nat

VARIABLES
    defs,       \* id -> its row of backup_definitions
    pc,         \* call -> where its handler, then its reload, stands
    target,     \* call -> the id an edit names
    body,       \* call -> the fields an edit sets
    gone,       \* call -> its client has gone and its context is done
    got,        \* call -> the definitions its reload has read
    ticket,     \* history: call -> the number of that read
    reads,      \* history: reads of the definitions so far
    applied,    \* history: the number of the read the table was built from
    cron,       \* the entries of the cron daemon
    entries,    \* id -> Scheduler.entries: an entry id, or 0
    restarts    \* restarts so far

callVars == <<pc, target, body, gone>>
readVars == <<got, ticket, reads>>
tableVars == <<cron, entries, applied>>
vars == <<defs, callVars, readVars, tableVars, restarts>>

-----------------------------------------------------------------------------
(* Types *)

namedSchedules ==
    [n \in {"daily", "weekly", "hourly", "6hourly"} |->
        CASE n = "daily"   -> "0 2 * * *"
          [] n = "weekly"  -> "0 2 * * 0"
          [] n = "hourly"  -> "0 * * * *"
          [] n = "6hourly" -> "0 */6 * * *"]

NormalizeCron(schedule) ==
    IF schedule \in DOMAIN namedSchedules THEN namedSchedules[schedule]
                                          ELSE schedule

\* What the schedule column may hold.
Schedules == {NormalizeCron(s) : s \in Inputs}

Def == [state    : {"unused", "saved", "deleted"},
        schedule : Schedules \cup {Unset},
        paths    : Paths \cup {Unset},
        enabled  : BOOLEAN]

NoDef == [state |-> "unused", schedule |-> Unset, paths |-> Unset,
          enabled |-> FALSE]

Body == [schedule : Inputs \cup {Unset},
         paths    : Paths \cup {Unset},
         enabled  : BOOLEAN \cup {Unset}]

NoBody == [schedule |-> Unset, paths |-> Unset, enabled |-> Unset]

Read == [id : Ids, def : Def]

\* An entry id is the number of the read it was made from: one reload adds a
\* definition at most once.
Entry == [by : Nat, id : Ids, def : Def]

\* The handler's stations are the column it will set next.
Editing == {"schedule", "paths", "enabled"}
Stations == Editing \cup {"idle", "load", "loaded", "done"}

TypeOK ==
    /\ defs \in [Ids -> Def]
    /\ pc \in [Calls -> Stations]
    /\ target \in [Calls -> Ids \cup {Unset}]
    /\ body \in [Calls -> Body]
    /\ gone \in [Calls -> BOOLEAN]
    /\ got \in [Calls -> SUBSET Read]
    /\ ticket \in [Calls -> Nat]
    /\ reads \in Nat
    /\ applied \in Nat
    /\ cron \in SUBSET Entry
    /\ entries \in [Ids -> Nat]
    /\ restarts \in Nat

-----------------------------------------------------------------------------
(* Reading the definitions and building the table *)

\* The SELECT of loadDefs.
LoadDefs ==
    {[id |-> d, def |-> defs[d]] :
        d \in {x \in Ids : defs[x].state = "saved" /\ defs[x].enabled}}

\* scheduleLocked skips a definition whose expression cron refuses.
Schedulable(list) == {r \in list : r.def.schedule \in CronExprs}

EntriesOf(list, n) ==
    {[by |-> n, id |-> r.id, def |-> r.def] : r \in Schedulable(list)}

Tracking(list, n) ==
    [d \in Ids |-> IF \E r \in Schedulable(list) : r.id = d THEN n ELSE 0]

Init ==
    /\ defs = [d \in Ids |-> NoDef]
    /\ pc = [c \in Calls |-> "idle"]
    /\ target = [c \in Calls |-> Unset]
    /\ body = [c \in Calls |-> NoBody]
    /\ gone = [c \in Calls |-> FALSE]
    /\ got = [c \in Calls |-> {}]
    /\ ticket = [c \in Calls |-> 0]
    /\ reads = 0
    /\ applied = 0
    /\ cron = {}
    /\ entries = [d \in Ids |-> 0]
    /\ restarts = 0

-----------------------------------------------------------------------------
(* The requests *)

\* Every handler that has changed the table of definitions spawns a reload.
SpawnReload(c) == pc' = [pc EXCEPT ![c] = "load"]

\* The end of an edit, with its locals.
ForgetEdit(c) ==
    /\ target' = [target EXCEPT ![c] = Unset]
    /\ body' = [body EXCEPT ![c] = NoBody]
    /\ gone' = [gone EXCEPT ![c] = FALSE]

\* A creation that SQLite refuses (a name in use) changes nothing.
CreateBackup(c, d, schedule, paths) ==
    /\ pc[c] = "idle"
    /\ defs[d].state = "unused"
    /\ defs' = [defs EXCEPT ![d] =
                    [state |-> "saved", schedule |-> NormalizeCron(schedule),
                     paths |-> paths, enabled |-> TRUE]]
    /\ SpawnReload(c)
    /\ UNCHANGED <<target, body, gone, readVars, tableVars, restarts>>

\* Mutant: the handler returns without the reload.
DeleteWithoutReload(c, d) ==
    /\ pc[c] = "idle"
    /\ defs' = IF defs[d].state = "saved"
               THEN [defs EXCEPT ![d].state = "deleted"] ELSE defs
    /\ pc' = [pc EXCEPT ![c] = "done"]
    /\ UNCHANGED <<target, body, gone, readVars, tableVars, restarts>>

\* The transaction that also detaches jobs and snapshots.  It deletes nothing,
\* and reloads all the same, if there is no such row.
DeleteBackup(c, d) ==
    /\ pc[c] = "idle"
    /\ defs' = IF defs[d].state = "saved"
               THEN [defs EXCEPT ![d].state = "deleted"] ELSE defs
    /\ SpawnReload(c)
    /\ UNCHANGED <<target, body, gone, readVars, tableVars, restarts>>

UpdateBackup(c, d, b) ==
    /\ pc[c] = "idle"
    /\ pc' = [pc EXCEPT ![c] = "schedule"]
    /\ target' = [target EXCEPT ![c] = d]
    /\ body' = [body EXCEPT ![c] = b]
    /\ UNCHANGED <<defs, gone, readVars, tableVars, restarts>>

\* Mutant: a field that the body leaves out is written as well.
SetsAlways(c, field) ==
    /\ ~gone[c]
    /\ defs[target[c]].state = "saved"

\* One UPDATE of an edit: it has its own field, its own statement and no
\* transaction, and it is skipped once the request's context is done.
Sets(c, field) ==
    /\ body[c][field] # Unset
    /\ ~gone[c]
    /\ defs[target[c]].state = "saved"

SetSchedule(c) ==
    /\ pc[c] = "schedule"
    /\ defs' = IF Sets(c, "schedule")
               THEN [defs EXCEPT ![target[c]].schedule =
                        NormalizeCron(body[c].schedule)]
               ELSE defs
    /\ pc' = [pc EXCEPT ![c] = "paths"]
    /\ UNCHANGED <<target, body, gone, readVars, tableVars, restarts>>

SetPaths(c) ==
    /\ pc[c] = "paths"
    /\ defs' = IF Sets(c, "paths")
               THEN [defs EXCEPT ![target[c]].paths = body[c].paths]
               ELSE defs
    /\ pc' = [pc EXCEPT ![c] = "enabled"]
    /\ UNCHANGED <<target, body, gone, readVars, tableVars, restarts>>

SetEnabled(c) ==
    /\ pc[c] = "enabled"
    /\ defs' = IF Sets(c, "enabled")
               THEN [defs EXCEPT ![target[c]].enabled = body[c].enabled]
               ELSE defs
    /\ SpawnReload(c)
    /\ ForgetEdit(c)
    /\ UNCHANGED <<readVars, tableVars, restarts>>

ClientLeaves(c) ==
    /\ pc[c] \in Editing
    /\ ~gone[c]
    /\ gone' = [gone EXCEPT ![c] = TRUE]
    /\ UNCHANGED <<defs, pc, target, body, readVars, tableVars, restarts>>

-----------------------------------------------------------------------------
(* Reload *)

\* Outside the mutex.
ReloadReads(c) ==
    /\ pc[c] = "load"
    /\ pc' = [pc EXCEPT ![c] = "loaded"]
    /\ got' = [got EXCEPT ![c] = LoadDefs]
    /\ reads' = reads + 1
    /\ ticket' = [ticket EXCEPT ![c] = reads + 1]
    /\ UNCHANGED <<defs, target, body, gone, tableVars, restarts>>

\* Mutant: the entries of the daemon are left in place.
NothingRemoved == cron

\* What is left once every entry that Scheduler.entries knows is removed.
Untracked == {e \in cron : entries[e.id] # e.by}

\* Under the mutex.
ReloadApplies(c) ==
    /\ pc[c] = "loaded"
    /\ pc' = [pc EXCEPT ![c] = "done"]
    /\ cron' = Untracked \cup EntriesOf(got[c], ticket[c])
    /\ entries' = Tracking(got[c], ticket[c])
    /\ applied' = ticket[c]
    /\ got' = [got EXCEPT ![c] = {}]
    /\ ticket' = [ticket EXCEPT ![c] = 0]
    /\ UNCHANGED <<defs, target, body, gone, reads, restarts>>

\* A restart loses handlers and reloads, and Start builds a new table before
\* the server accepts requests.
Restart ==
    /\ restarts < MaxRestarts
    /\ restarts' = restarts + 1
    /\ pc' = [c \in Calls |-> IF pc[c] = "idle" THEN "idle" ELSE "done"]
    /\ reads' = reads + 1
    /\ applied' = reads + 1
    /\ cron' = EntriesOf(LoadDefs, reads + 1)
    /\ entries' = Tracking(LoadDefs, reads + 1)
    /\ target' = [c \in Calls |-> Unset]
    /\ body' = [c \in Calls |-> NoBody]
    /\ gone' = [c \in Calls |-> FALSE]
    /\ got' = [c \in Calls |-> {}]
    /\ ticket' = [c \in Calls |-> 0]
    /\ UNCHANGED defs

Create(c) == \E d \in Ids, s \in Inputs, p \in Paths : CreateBackup(c, d, s, p)
Delete(c) == \E d \in Ids : DeleteBackup(c, d)
Update(c) == \E d \in Ids, b \in Body : UpdateBackup(c, d, b)

Next ==
    \/ \E c \in Calls :
        \/ Create(c) \/ Delete(c) \/ Update(c) \/ ClientLeaves(c)
        \/ SetSchedule(c) \/ SetPaths(c) \/ SetEnabled(c)
        \/ ReloadReads(c) \/ ReloadApplies(c)
    \/ Restart

Spec == Init /\ [][Next]_vars

-----------------------------------------------------------------------------
(* Properties *)

Settled == \A c \in Calls : pc[c] \in {"idle", "done"}

\* What the daemon would fire, and with what.
Table == {[id |-> e.id, def |-> e.def] : e \in cron}

\* When no request is under way and the last reload to be applied was also the
\* last to read, the daemon fires exactly the saved, enabled definitions whose
\* schedule it understands, each as it is saved: no request forgets to reload,
\* none reloads before its last statement, and entries of an earlier table are
\* gone.  This is the working of Reload at scheduler.go:118-140 and of its
\* three callers in router.go.  When two reloads apply in the other order than
\* they read, a disabled definition may keep its entry.
QuietTableIsCurrent ==
    Settled /\ applied = reads => Table = Schedulable(LoadDefs)

\* However reloads overlap, a definition has at most one entry, so one tick
\* starts it once: Reload replaces the entries and their map under one lock
\* (scheduler.go:124-138).
OneEntryPerDefinition ==
    \A e, f \in cron : e.id = f.id => e = f

=============================================================================
