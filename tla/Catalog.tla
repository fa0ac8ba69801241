------------------------------- MODULE Catalog -------------------------------
(***************************************************************************)
(* The local snapshot catalog: the tables snapshots and file_index, and    *)
(* the handlers that race on them: the sync after a backup and the rebuild *)
(* (src/api/internal/catalog/sync.go), the background indexing that a      *)
(* browse starts (catalog/indexprogress.go and handleSnapshotFiles of      *)
(* server/router.go), and the deletion of a snapshot.                      *)
(*                                                                         *)
(* file_index is abstracted to the rows whose listing it holds: a listing  *)
(* is inserted in one transaction, and the query that serves it groups by  *)
(* path, so a listing inserted twice is served like one inserted once.     *)
(***************************************************************************)
EXTENDS Integers

CONSTANTS
    Snaps,          \* rustic's snapshot ids
    MaxRows,        \* bound: row ids of snapshots ever handed out
    Rebuilds,       \* bound: POST /api/catalog/rebuild requests
    None            \* no row

ASSUME RowsAssumption == MaxRows \in Nat
ASSUME NoneAssumption == None \notin Snaps

VARIABLES
    repo,       \* the snapshots in the repository
    forgotten,  \* history: the snapshots rustic has forgotten
    empty,      \* the snapshots of which rustic ls yields no entry
    catalog,    \* row id -> the snapshot of that row, or None
    nextRow,    \* the next row id (AUTOINCREMENT never reuses one)
    indexed,    \* the row ids whose listing is in file_index
    sync,       \* the sync of a backup's definition: what is left to upsert
    prog,       \* row id -> its entry in idxProg
    bg,         \* row id -> where its background indexing stands
    deleting,   \* row id -> where its deletion stands
    browsing,   \* the row ids with a browse between its check and its query
    rebuild,    \* rebuild -> where it stands
    pending,    \* rebuild -> snapshots it has still to upsert
    todo,       \* rebuild -> rows it has still to index
    selected,   \* history: rebuild -> the rows it set out to index
    emptied     \* history: a rebuild has emptied file_index

repoVars == <<repo, forgotten, empty>>
dbVars == <<catalog, nextRow, indexed>>
progVars == <<prog, bg>>
requestVars == <<deleting, browsing>>
rebuildVars == <<rebuild, pending, todo, selected>>
vars == <<repoVars, dbVars, sync, progVars, requestVars, rebuildVars, emptied>>

Rows == 1 .. MaxRows

Ending == {"done", "failed", "unlinked"}

TypeOK ==
    /\ repo \in SUBSET Snaps
    /\ forgotten \in SUBSET Snaps
    /\ empty \in SUBSET Snaps
    /\ catalog \in [Rows -> Snaps \cup {None}]
    /\ nextRow \in 1 .. MaxRows + 1
    /\ indexed \in SUBSET Rows
    /\ sync \in SUBSET Snaps
    /\ prog \in [Rows -> {"none", "running", "finished"}]
    /\ bg \in [Rows -> {"idle", "check", "list", "insert", "failed"}]
    /\ deleting \in [Rows -> {"no", "forget", "drop"}]
    /\ browsing \in SUBSET Rows
    /\ rebuild \in [Rebuilds -> {"ready", "clear", "upsert", "select", "check",
                                 "list", "insert"} \cup Ending]
    /\ pending \in [Rebuilds -> SUBSET Snaps]
    /\ todo \in [Rebuilds -> SUBSET Rows]
    /\ selected \in [Rebuilds -> SUBSET Rows]
    /\ emptied \in BOOLEAN

Init ==
    /\ repo = {}
    /\ forgotten = {}
    /\ empty = {}
    /\ catalog = [i \in Rows |-> None]
    /\ nextRow = 1
    /\ indexed = {}
    /\ sync = {}
    /\ prog = [i \in Rows |-> "none"]
    /\ bg = [i \in Rows |-> "idle"]
    /\ deleting = [i \in Rows |-> "no"]
    /\ browsing = {}
    /\ rebuild = [b \in Rebuilds |-> "ready"]
    /\ pending = [b \in Rebuilds |-> {}]
    /\ todo = [b \in Rebuilds |-> {}]
    /\ selected = [b \in Rebuilds |-> {}]
    /\ emptied = FALSE

-----------------------------------------------------------------------------
(* The tables *)

Listed(s) == \E i \in Rows : catalog[i] = s

\* COUNT(*) > 0: never so for the listing of an empty snapshot.
IsIndexed(i) == i \in indexed

\* A new row of snapshots for s.
InsertRow(s) ==
    /\ nextRow <= MaxRows
    /\ catalog' = [catalog EXCEPT ![nextRow] = s]
    /\ nextRow' = nextRow + 1

\* upsertSnapshot for an existing definition.
Upsert(s) == IF Listed(s) THEN UNCHANGED <<catalog, nextRow>> ELSE InsertRow(s)

\* Mutant: the database opened without foreign keys.
InsertsAnyway(i) == TRUE

\* The one transaction that inserts a listing; the foreign key fails it when
\* the row is gone.
CanInsert(i) == catalog[i] # None

InsertListing(i) == indexed' = indexed \cup {i}

-----------------------------------------------------------------------------
(* Backups and their sync *)

\* rustic writes a snapshot, which may have nothing to list.
Backup(s) ==
    /\ s \notin repo \cup forgotten
    /\ repo' = repo \cup {s}
    /\ empty' \in {empty, empty \cup {s}}
    /\ UNCHANGED <<forgotten, dbVars, sync, progVars, requestVars, rebuildVars,
                   emptied>>

\* SyncAfterBackup lists the repository ...
SyncList ==
    /\ sync = {}
    /\ repo # {}
    /\ sync' = repo
    /\ UNCHANGED <<repoVars, dbVars, progVars, requestVars, rebuildVars,
                   emptied>>

\* ... and upserts what it listed, one statement per snapshot.
SyncUpsert(s) ==
    /\ s \in sync
    /\ sync' = sync \ {s}
    /\ Upsert(s)
    /\ UNCHANGED <<repoVars, indexed, progVars, requestVars, rebuildVars,
                   emptied>>

-----------------------------------------------------------------------------
(* Browsing: handleSnapshotFiles and EnsureIndexing *)

\* A request for a snapshot that is not indexed finds no entry in idxProg and
\* starts an indexing, finds one that runs and answers with its progress (no
\* step: it changes nothing), or finds one that has finished and goes on like
\* the request for an indexed one.
Unindexed(i) == catalog[i] # None /\ ~IsIndexed(i)

PassCheck(i) ==
    /\ i \notin browsing
    /\ catalog[i] # None
    /\ IsIndexed(i) \/ prog[i] = "finished"
    /\ browsing' = browsing \cup {i}
    /\ UNCHANGED <<repoVars, dbVars, sync, progVars, deleting, rebuildVars,
                   emptied>>

\* It then queries file_index, whatever that holds by now, and answers.
Answer(i) ==
    /\ i \in browsing
    /\ browsing' = browsing \ {i}
    /\ UNCHANGED <<repoVars, dbVars, sync, progVars, deleting, rebuildVars,
                   emptied>>

ShowsEmpty(i) == i \in browsing /\ ~IsIndexed(i)

\* EnsureIndexing: no entry in idxProg, so an entry and a goroutine are made.
StartIndexing(i) ==
    /\ Unindexed(i)
    /\ prog[i] = "none"
    /\ prog' = [prog EXCEPT ![i] = "running"]
    /\ bg' = [bg EXCEPT ![i] = "check"]
    /\ UNCHANGED <<repoVars, dbVars, sync, requestVars, rebuildVars, emptied>>

FinishIndexing(i) ==
    /\ bg' = [bg EXCEPT ![i] = "idle"]
    /\ prog' = [prog EXCEPT ![i] = "finished"]

\* Mutant: a queued indexing takes the entry for the listing.
TrustsEntry(i) ==
    /\ bg[i] = "check"
    /\ FinishIndexing(i)
    /\ UNCHANGED <<repoVars, dbVars, sync, requestVars, rebuildVars, emptied>>

\* "Another request may have indexed while this job was queued."
CheckIndexed(i) ==
    /\ bg[i] = "check"
    /\ IF IsIndexed(i)
       THEN FinishIndexing(i)
       ELSE bg' = [bg EXCEPT ![i] = "list"] /\ UNCHANGED prog
    /\ UNCHANGED <<repoVars, dbVars, sync, requestVars, rebuildVars, emptied>>

\* rustic ls streams the snapshot; it fails for one that is forgotten, and for
\* reasons of its own.  With nothing to insert the indexing is done.
ListFiles(i) ==
    /\ bg[i] = "list"
    /\ \/ /\ catalog[i] \in repo \cap empty
          /\ FinishIndexing(i)
       \/ /\ catalog[i] \in repo \ empty
          /\ bg' = [bg EXCEPT ![i] = "insert"]
          /\ UNCHANGED prog
       \/ /\ bg' = [bg EXCEPT ![i] = "failed"]
          /\ UNCHANGED prog
    /\ UNCHANGED <<repoVars, dbVars, sync, requestVars, rebuildVars, emptied>>

InsertFiles(i) ==
    /\ bg[i] = "insert"
    /\ IF CanInsert(i)
       THEN InsertListing(i) /\ FinishIndexing(i)
       ELSE bg' = [bg EXCEPT ![i] = "failed"] /\ UNCHANGED <<indexed, prog>>
    /\ UNCHANGED <<repoVars, catalog, nextRow, sync, requestVars, rebuildVars,
                   emptied>>

\* Mutant: the entry of a failed indexing is kept, as failed.
KeepsFailedEntry(i) ==
    /\ bg[i] = "failed"
    /\ bg' = [bg EXCEPT ![i] = "idle"]
    /\ prog' = [prog EXCEPT ![i] = "failed"]
    /\ UNCHANGED <<repoVars, dbVars, sync, requestVars, rebuildVars, emptied>>

\* Mutant: the goroutine ends and leaves its entry running.
KeepsEntry(i) ==
    /\ bg[i] = "failed"
    /\ bg' = [bg EXCEPT ![i] = "idle"]
    /\ UNCHANGED <<repoVars, dbVars, sync, prog, requestVars, rebuildVars,
                   emptied>>

\* "Drop the entry so the next request retries."
DropEntry(i) ==
    /\ bg[i] = "failed"
    /\ bg' = [bg EXCEPT ![i] = "idle"]
    /\ prog' = [prog EXCEPT ![i] = "none"]
    /\ UNCHANGED <<repoVars, dbVars, sync, requestVars, rebuildVars, emptied>>

-----------------------------------------------------------------------------
(* handleDeleteSnapshot *)

DeleteSnapshot(i) ==
    /\ deleting[i] = "no"
    /\ catalog[i] # None
    /\ deleting' = [deleting EXCEPT ![i] = "forget"]
    /\ UNCHANGED <<repoVars, dbVars, sync, progVars, browsing, rebuildVars,
                   emptied>>

\* rustic forget.  A snapshot that is already gone counts as forgotten; any
\* other failure ends the request.
Forget(i) ==
    /\ deleting[i] = "forget"
    /\ \/ /\ repo' = repo \ {catalog[i]}
          /\ forgotten' = forgotten \cup {catalog[i]}
          /\ UNCHANGED empty
          /\ deleting' = [deleting EXCEPT ![i] = "drop"]
       \/ /\ deleting' = [deleting EXCEPT ![i] = "no"]
          /\ UNCHANGED repoVars
    /\ UNCHANGED <<dbVars, sync, progVars, browsing, rebuildVars, emptied>>

\* One transaction drops the file index and the row.  It runs in the request's
\* context: a client that has gone away leaves the row of a forgotten snapshot.
DropRow(i) ==
    /\ deleting[i] = "drop"
    /\ deleting' = [deleting EXCEPT ![i] = "no"]
    /\ \/ /\ catalog' = [catalog EXCEPT ![i] = None]
          /\ indexed' = indexed \ {i}
       \/ UNCHANGED <<catalog, indexed>>
    /\ UNCHANGED <<repoVars, nextRow, sync, progVars, browsing, rebuildVars,
                   emptied>>

-----------------------------------------------------------------------------
(* RebuildCatalog: nothing keeps two of them apart *)

GotoRebuild(b, from, to) ==
    /\ rebuild[b] = from
    /\ rebuild' = [rebuild EXCEPT ![b] = to]

\* The rebuild returns an error and its locals are gone.
RebuildFails(b, error) ==
    /\ rebuild' = [rebuild EXCEPT ![b] = error]
    /\ pending' = [pending EXCEPT ![b] = {}]
    /\ todo' = [todo EXCEPT ![b] = {}]
    /\ selected' = [selected EXCEPT ![b] = {}]

RebuildList(b) ==
    /\ rebuild[b] = "ready"
    /\ \/ /\ GotoRebuild(b, "ready", "clear")
          /\ pending' = [pending EXCEPT ![b] = repo]
          /\ UNCHANGED <<todo, selected>>
       \/ RebuildFails(b, "failed")
    /\ UNCHANGED <<repoVars, dbVars, sync, progVars, requestVars, emptied>>

\* DELETE FROM file_index, committed at once.
RebuildClear(b) ==
    /\ GotoRebuild(b, "clear", "upsert")
    /\ indexed' = {}
    /\ emptied' = TRUE
    /\ UNCHANGED <<repoVars, catalog, nextRow, sync, progVars, requestVars,
                   pending, todo, selected>>

\* upsertSnapshot(ctx, s, 0): the row of a snapshot that is in the catalog is
\* refreshed; a new row with definition 0 fails its foreign key, and with it
\* the rebuild.
RebuildUpsert(b) ==
    /\ rebuild[b] = "upsert"
    /\ \E s \in pending[b] :
          IF Listed(s)
          THEN /\ pending' = [pending EXCEPT ![b] = @ \ {s}]
               /\ UNCHANGED <<rebuild, todo, selected>>
          ELSE RebuildFails(b, "unlinked")
    /\ UNCHANGED <<repoVars, dbVars, sync, progVars, requestVars, emptied>>

RebuildSelect(b) ==
    /\ pending[b] = {}
    /\ GotoRebuild(b, "upsert", "check")
    /\ todo' = [todo EXCEPT ![b] = {i \in Rows : catalog[i] # None}]
    /\ selected' = [selected EXCEPT ![b] = {i \in Rows : catalog[i] # None}]
    /\ UNCHANGED <<repoVars, dbVars, sync, progVars, requestVars, pending,
                   emptied>>

\* IndexSnapshot for one row after the other, with no entry in idxProg.  The
\* row in hand is the least of those to do.
Current(b) == CHOOSE i \in todo[b] : \A k \in todo[b] : i <= k

\* Mutant: a row that a browse has indexed before is skipped.
RebuildTrustsEntry(b) ==
    /\ rebuild[b] = "check"
    /\ todo[b] # {}
    /\ IF prog[Current(b)] # "none"
       THEN /\ todo' = [todo EXCEPT ![b] = @ \ {Current(b)}]
            /\ UNCHANGED rebuild
       ELSE GotoRebuild(b, "check", "list") /\ UNCHANGED todo
    /\ UNCHANGED <<repoVars, dbVars, sync, progVars, requestVars, pending,
                   selected, emptied>>

RebuildCheck(b) ==
    /\ rebuild[b] = "check"
    /\ todo[b] # {}
    /\ IF IsIndexed(Current(b))
       THEN /\ todo' = [todo EXCEPT ![b] = @ \ {Current(b)}]
            /\ UNCHANGED rebuild
       ELSE GotoRebuild(b, "check", "list") /\ UNCHANGED todo
    /\ UNCHANGED <<repoVars, dbVars, sync, progVars, requestVars, pending,
                   selected, emptied>>

RebuildListFiles(b) ==
    /\ rebuild[b] = "list"
    /\ \/ /\ catalog[Current(b)] \in repo \cap empty
          /\ GotoRebuild(b, "list", "check")
          /\ todo' = [todo EXCEPT ![b] = @ \ {Current(b)}]
          /\ UNCHANGED <<pending, selected>>
       \/ /\ catalog[Current(b)] \in repo \ empty
          /\ GotoRebuild(b, "list", "insert")
          /\ UNCHANGED <<pending, todo, selected>>
       \/ RebuildFails(b, "failed")
    /\ UNCHANGED <<repoVars, dbVars, sync, progVars, requestVars, emptied>>

RebuildInsert(b) ==
    /\ rebuild[b] = "insert"
    /\ IF CanInsert(Current(b))
       THEN /\ GotoRebuild(b, "insert", "check")
            /\ InsertListing(Current(b))
            /\ todo' = [todo EXCEPT ![b] = @ \ {Current(b)}]
            /\ UNCHANGED <<pending, selected>>
       ELSE RebuildFails(b, "failed") /\ UNCHANGED indexed
    /\ UNCHANGED <<repoVars, catalog, nextRow, sync, progVars, requestVars,
                   emptied>>

RebuildDone(b) ==
    /\ todo[b] = {}
    /\ GotoRebuild(b, "check", "done")
    /\ UNCHANGED <<repoVars, dbVars, sync, progVars, requestVars, pending, todo,
                   selected, emptied>>

-----------------------------------------------------------------------------

\* A new process: handlers, goroutines and idxProg are gone, tables stay.
Restart ==
    /\ sync' = {}
    /\ prog' = [i \in Rows |-> "none"]
    /\ bg' = [i \in Rows |-> "idle"]
    /\ deleting' = [i \in Rows |-> "no"]
    /\ browsing' = {}
    /\ rebuild' = [b \in Rebuilds |-> IF rebuild[b] \in Ending \cup {"ready"}
                                      THEN rebuild[b] ELSE "failed"]
    /\ pending' = [b \in Rebuilds |-> {}]
    /\ todo' = [b \in Rebuilds |-> {}]
    /\ selected' = [b \in Rebuilds |-> IF rebuild[b] = "done"
                                       THEN selected[b] ELSE {}]
    /\ UNCHANGED <<repoVars, dbVars, emptied>>

Indexing(i) ==
    CheckIndexed(i) \/ ListFiles(i) \/ InsertFiles(i) \/ DropEntry(i)

Rebuilding(b) ==
    \/ RebuildList(b) \/ RebuildClear(b) \/ RebuildUpsert(b)
    \/ RebuildSelect(b) \/ RebuildCheck(b) \/ RebuildListFiles(b)
    \/ RebuildInsert(b) \/ RebuildDone(b)

Next ==
    \/ \E s \in Snaps : Backup(s) \/ SyncUpsert(s)
    \/ SyncList
    \/ \E i \in Rows :
          \/ PassCheck(i) \/ Answer(i) \/ StartIndexing(i)
          \/ Indexing(i)
          \/ DeleteSnapshot(i) \/ Forget(i) \/ DropRow(i)
    \/ \E b \in Rebuilds : Rebuilding(b)
    \/ Restart

\* rustic ls ends in one way or the other, and goroutines run.  Nobody is
\* obliged to browse, back up, delete, rebuild or restart.
Fairness == \A i \in Rows : WF_vars(Indexing(i))

Spec == Init /\ [][Next]_vars /\ Fairness

-----------------------------------------------------------------------------
(* Properties *)

\* A listing never outlives its snapshot's row, although a background indexing
\* or a rebuild may insert it long after it looked at the row.
NoOrphanListing == \A i \in Rows : IsIndexed(i) => catalog[i] # None

\* A browse shows a snapshot without files only when it has none, when it was
\* deleted after the browse had looked, or when a rebuild has emptied
\* file_index, under a finished idxProg entry or under the browse itself.
EmptyOnlyAfterRebuild ==
    \A i \in Rows : ShowsEmpty(i) => emptied \/ catalog[i] \in empty \cup {None}

\* A rebuild that ends without error has indexed every row it set out to
\* index and that has files, whatever browses, deletions and other rebuilds did
\* meanwhile (a rebuild that emptied the index since, and failed, aside).
RebuildReindexes ==
    \A b \in Rebuilds :
        rebuild[b] = "done"
        /\ (\A c \in Rebuilds : rebuild[c] \in {"ready", "clear", "done"})
            => \A i \in selected[b] :
                   catalog[i] \notin empty \cup {None} => IsIndexed(i)

\* The browser is never left polling: an indexing that started ends or is
\* dropped for a retry.
IndexingEnds == \A i \in Rows : prog[i] = "running" ~> prog[i] # "running"

\* What docs/workflow.md:41-42 and docs/api.md:228-229 say of a rebuild: it
\* repairs a catalog that misses a snapshot of the repository.
RebuildRepairs == \A b \in Rebuilds : rebuild[b] # "unlinked"

=============================================================================
