---------------------------- MODULE CatalogProofs ----------------------------
(***************************************************************************)
(* For any number of snapshots, rows and rebuilds: a listing never         *)
(* outlives its row, a browse shows no files only for a reason, and a      *)
(* rebuild that ends has indexed what it set out to index.                 *)
(***************************************************************************)
EXTENDS Catalog, WellFoundedInduction, TLAPS

-----------------------------------------------------------------------------
(* Type correctness *)

\* A rebuild with rows to do has a row in hand: the natural numbers are well
\* ordered.
LEMMA CurrentIsToDo ==
    ASSUME NEW b \in Rebuilds, todo[b] \in SUBSET Rows, todo[b] # {}
    PROVE  Current(b) \in todo[b]
<1>. DEFINE R == OpToRel(<, Nat)
<1>1. IsWellFoundedOn(R, Nat)
  BY NatLessThanWellFounded
<1>2. todo[b] \subseteq Nat
  BY RowsAssumption DEF Rows
<1>3. \E i \in todo[b] : \A k \in todo[b] : ~ (<<k, i>> \in R)
  <2>. HIDE DEF R
  <2>. QED
    BY <1>1, <1>2, WFMin
<1>4. \A i, k \in Nat : <<k, i>> \in R <=> k < i
  BY DEF OpToRel
<1>5. \E i \in todo[b] : \A k \in todo[b] : i <= k
  <2>. HIDE DEF R
  <2>1. PICK i \in todo[b] : \A k \in todo[b] : ~ (<<k, i>> \in R)
    BY <1>3
  <2>2. \A k \in todo[b] : i <= k
    <3>. SUFFICES ASSUME NEW k \in todo[b] PROVE i <= k
      OBVIOUS
    <3>1. i \in Nat /\ k \in Nat
      BY <1>2
    <3>2. ~ (k < i)
      BY <1>4, <2>1, <3>1
    <3>. QED
      BY <3>1, <3>2
  <2>. QED
    BY <2>2
<1>. QED
  BY <1>5 DEF Current

\* A row that is being deleted is there, and a rebuild that lists or inserts
\* has a row in hand.
InHand ==
    /\ \A i \in Rows : deleting[i] # "no" => catalog[i] # None
    /\ \A b \in Rebuilds : rebuild[b] \in {"list", "insert"} => todo[b] # {}

Typed == TypeOK /\ InHand

LEMMA InitTypes == Init => Typed
<1>1. 1 \in 1 .. MaxRows + 1
  BY RowsAssumption
<1>. SUFFICES ASSUME Init PROVE Typed
  OBVIOUS
<1>2. InHand
  BY DEF Init, InHand
<1>3. /\ repo \in SUBSET Snaps /\ forgotten \in SUBSET Snaps
      /\ catalog \in [Rows -> Snaps \cup {None}] /\ nextRow \in 1 .. MaxRows + 1
      /\ indexed \in SUBSET Rows /\ sync \in SUBSET Snaps
      /\ empty \in SUBSET Snaps /\ browsing \in SUBSET Rows
  BY <1>1 DEF Init
<1>4. /\ prog \in [Rows -> {"none", "running", "finished"}]
      /\ bg \in [Rows -> {"idle", "check", "list", "insert", "failed"}]
      /\ deleting \in [Rows -> {"no", "forget", "drop"}]
  BY DEF Init
<1>5. /\ rebuild \in [Rebuilds -> {"ready", "clear", "upsert", "select", "check",
                                  "list", "insert"} \cup Ending]
      /\ pending \in [Rebuilds -> SUBSET Snaps]
      /\ todo \in [Rebuilds -> SUBSET Rows] /\ selected \in [Rebuilds -> SUBSET Rows]
  BY DEF Init
<1>6. emptied \in BOOLEAN
  BY DEF Init
<1>. QED
  BY <1>2, <1>3, <1>4, <1>5, <1>6 DEF Typed, TypeOK

\* A row of the catalog changes by one insertion or one deletion at most.
LEMMA CatalogTypes ==
    ASSUME Typed, Next
    PROVE  /\ catalog' \in [Rows -> Snaps \cup {None}]
           /\ nextRow' \in 1 .. MaxRows + 1
           /\ repo' \in SUBSET Snaps /\ forgotten' \in SUBSET Snaps
           /\ empty' \in SUBSET Snaps /\ sync' \in SUBSET Snaps
<1>. USE RowsAssumption DEF Typed, TypeOK
<1>1. catalog' \in [Rows -> Snaps \cup {None}]
  BY DEF Next, Indexing, Rebuilding, Backup, SyncList, SyncUpsert, Upsert, InsertRow,
     PassCheck, Answer, StartIndexing, CheckIndexed, ListFiles, InsertFiles,
     DropEntry, DeleteSnapshot, Forget, DropRow, RebuildList, RebuildClear,
     RebuildUpsert, RebuildSelect, RebuildCheck, RebuildListFiles, RebuildInsert,
     RebuildDone, Restart, dbVars
<1>2. nextRow' = nextRow \/ (nextRow <= MaxRows /\ nextRow' = nextRow + 1)
  <2>1. ASSUME NEW s \in Snaps, SyncUpsert(s)
        PROVE  nextRow' = nextRow \/ (nextRow <= MaxRows /\ nextRow' = nextRow + 1)
    <3>1. CASE Listed(s)
      BY <2>1, <3>1 DEF SyncUpsert, Upsert
    <3>2. CASE ~Listed(s)
      BY <2>1, <3>2 DEF SyncUpsert, Upsert, InsertRow
    <3>. QED
      BY <3>1, <3>2
  <2>2. (\A s \in Snaps : ~SyncUpsert(s)) => nextRow' = nextRow
    BY DEF Next, Indexing, Rebuilding, Backup, SyncList, PassCheck, Answer,
       StartIndexing, CheckIndexed, ListFiles, InsertFiles, DropEntry, DeleteSnapshot,
       Forget, DropRow, RebuildList, RebuildClear, RebuildUpsert, RebuildSelect,
       RebuildCheck, RebuildListFiles, RebuildInsert, RebuildDone, Restart, dbVars
  <2>3. CASE \A s \in Snaps : ~SyncUpsert(s)
    BY <2>2, <2>3
  <2>4. CASE \E s \in Snaps : SyncUpsert(s)
    BY <2>1, <2>4, Zenon
  <2>. QED
    BY <2>3, <2>4
<1>3. nextRow' \in 1 .. MaxRows + 1
  BY <1>2
<1>4. /\ repo' \in SUBSET Snaps /\ forgotten' \in SUBSET Snaps
      /\ empty' \in SUBSET Snaps
  <2>1. ASSUME NEW i \in Rows, Forget(i)
        PROVE  /\ repo' \in SUBSET Snaps /\ forgotten' \in SUBSET Snaps
               /\ empty' \in SUBSET Snaps
    <3>1. catalog[i] \in Snaps
      BY <2>1 DEF Forget, InHand
    <3>. QED
      BY <2>1, <3>1 DEF Forget, repoVars
  <2>2. CASE \E s \in Snaps : Backup(s)
    BY <2>2 DEF Backup
  <2>3. CASE UNCHANGED repoVars
    BY <2>3 DEF repoVars
  <2>. QED
    BY <2>1, <2>2, <2>3 DEF Next, Indexing, Rebuilding, SyncList, SyncUpsert,
       PassCheck, Answer, StartIndexing, CheckIndexed, ListFiles, InsertFiles,
       DropEntry, DeleteSnapshot, DropRow, RebuildList, RebuildClear, RebuildUpsert,
       RebuildSelect, RebuildCheck, RebuildListFiles, RebuildInsert, RebuildDone,
       Restart
<1>5. sync' \in SUBSET Snaps
  BY DEF Next, Indexing, Rebuilding, Backup, SyncList, SyncUpsert, PassCheck, Answer,
     StartIndexing, CheckIndexed, ListFiles, InsertFiles, DropEntry, DeleteSnapshot,
     Forget, DropRow, RebuildList, RebuildClear, RebuildUpsert, RebuildSelect,
     RebuildCheck, RebuildListFiles, RebuildInsert, RebuildDone, Restart
<1>. QED
  BY <1>1, <1>3, <1>4, <1>5

LEMMA IndexTypes ==
    ASSUME Typed, Next
    PROVE  /\ indexed' \in SUBSET Rows
           /\ prog' \in [Rows -> {"none", "running", "finished"}]
           /\ bg' \in [Rows -> {"idle", "check", "list", "insert", "failed"}]
           /\ deleting' \in [Rows -> {"no", "forget", "drop"}]
           /\ browsing' \in SUBSET Rows
<1>. USE DEF Typed, TypeOK
<1>1. indexed' \in SUBSET Rows
  <2>1. ASSUME NEW b \in Rebuilds, RebuildInsert(b) PROVE indexed' \in SUBSET Rows
    <3>1. Current(b) \in Rows
      <4>1. todo[b] # {} /\ todo[b] \in SUBSET Rows
        BY <2>1 DEF RebuildInsert, InHand
      <4>. QED
        BY <4>1, CurrentIsToDo
    <3>. QED
      BY <2>1, <3>1 DEF RebuildInsert, InsertListing
  <2>. QED
    BY <2>1 DEF Next, Indexing, Rebuilding, Backup, SyncList, SyncUpsert, PassCheck,
       Answer, StartIndexing, CheckIndexed, ListFiles, InsertFiles, InsertListing,
       DropEntry, DeleteSnapshot, Forget, DropRow, RebuildList, RebuildClear,
       RebuildUpsert, RebuildSelect, RebuildCheck, RebuildListFiles, RebuildDone,
       Restart, dbVars
<1>2. /\ prog' \in [Rows -> {"none", "running", "finished"}]
      /\ bg' \in [Rows -> {"idle", "check", "list", "insert", "failed"}]
  BY DEF Next, Indexing, Rebuilding, Backup, SyncList, SyncUpsert, PassCheck, Answer,
     StartIndexing, CheckIndexed, ListFiles, InsertFiles, FinishIndexing, DropEntry,
     DeleteSnapshot, Forget, DropRow, RebuildList, RebuildClear, RebuildUpsert,
     RebuildSelect, RebuildCheck, RebuildListFiles, RebuildInsert, RebuildDone,
     Restart, progVars
<1>3. deleting' \in [Rows -> {"no", "forget", "drop"}]
  BY DEF Next, Indexing, Rebuilding, Backup, SyncList, SyncUpsert, PassCheck, Answer,
     StartIndexing, CheckIndexed, ListFiles, InsertFiles, DropEntry, DeleteSnapshot,
     Forget, DropRow, RebuildList, RebuildClear, RebuildUpsert, RebuildSelect,
     RebuildCheck, RebuildListFiles, RebuildInsert, RebuildDone, Restart, requestVars
<1>4. browsing' \in SUBSET Rows
  BY DEF Next, Indexing, Rebuilding, Backup, SyncList, SyncUpsert, PassCheck, Answer,
     StartIndexing, CheckIndexed, ListFiles, InsertFiles, DropEntry, DeleteSnapshot,
     Forget, DropRow, RebuildList, RebuildClear, RebuildUpsert, RebuildSelect,
     RebuildCheck, RebuildListFiles, RebuildInsert, RebuildDone, Restart, requestVars
<1>. QED
  BY <1>1, <1>2, <1>3, <1>4

RebuildTypes ==
    /\ rebuild \in [Rebuilds -> {"ready", "clear", "upsert", "select", "check",
                                 "list", "insert"} \cup Ending]
    /\ pending \in [Rebuilds -> SUBSET Snaps]
    /\ todo \in [Rebuilds -> SUBSET Rows]
    /\ selected \in [Rebuilds -> SUBSET Rows]
    /\ emptied \in BOOLEAN
    /\ \A b \in Rebuilds : rebuild[b] \in {"list", "insert"} => todo[b] # {}

LEMMA RebuildTypesStep == ASSUME Typed, Next PROVE RebuildTypes'
<1>. USE DEF Typed, TypeOK, InHand, Ending
<1>1. ASSUME NEW b \in Rebuilds, RebuildList(b) PROVE RebuildTypes'
  BY <1>1 DEF RebuildList, GotoRebuild, RebuildFails, RebuildTypes
<1>2. ASSUME NEW b \in Rebuilds, RebuildClear(b) PROVE RebuildTypes'
  BY <1>2 DEF RebuildClear, GotoRebuild, RebuildTypes
<1>3. ASSUME NEW b \in Rebuilds, RebuildUpsert(b) PROVE RebuildTypes'
  BY <1>3 DEF RebuildUpsert, RebuildFails, RebuildTypes
<1>4. ASSUME NEW b \in Rebuilds, RebuildSelect(b) PROVE RebuildTypes'
  BY <1>4 DEF RebuildSelect, GotoRebuild, RebuildTypes
<1>5. ASSUME NEW b \in Rebuilds, RebuildCheck(b) PROVE RebuildTypes'
  BY <1>5 DEF RebuildCheck, GotoRebuild, RebuildTypes
<1>6. ASSUME NEW b \in Rebuilds, RebuildListFiles(b) PROVE RebuildTypes'
  BY <1>6 DEF RebuildListFiles, GotoRebuild, RebuildFails, RebuildTypes
<1>7. ASSUME NEW b \in Rebuilds, RebuildInsert(b) PROVE RebuildTypes'
  BY <1>7 DEF RebuildInsert, GotoRebuild, RebuildFails, RebuildTypes
<1>8. ASSUME NEW b \in Rebuilds, RebuildDone(b) PROVE RebuildTypes'
  BY <1>8 DEF RebuildDone, GotoRebuild, RebuildTypes
<1>9. CASE Restart
  BY <1>9 DEF Restart, RebuildTypes
<1>10. CASE UNCHANGED <<rebuildVars, emptied>>
  BY <1>10 DEF rebuildVars, RebuildTypes
<1>. QED
  BY <1>1, <1>2, <1>3, <1>4, <1>5, <1>6, <1>7, <1>8, <1>9, <1>10
  DEF Next, Indexing, Rebuilding, Backup, SyncList, SyncUpsert, PassCheck, Answer,
      StartIndexing, CheckIndexed, ListFiles, InsertFiles, DropEntry, DeleteSnapshot,
      Forget, DropRow

\* A row that is being deleted stays until the deletion drops it.
LEMMA DeletingStep ==
    ASSUME Typed, Next
    PROVE  \A i \in Rows : deleting'[i] # "no" => catalog'[i] # None
<1>. USE DEF Typed, TypeOK, InHand
<1>1. ASSUME NEW k \in Rows, DropRow(k)
      PROVE  \A i \in Rows : deleting'[i] # "no" => catalog'[i] # None
  BY <1>1 DEF DropRow
<1>2. ASSUME NEW s \in Snaps, SyncUpsert(s)
      PROVE  \A i \in Rows : deleting'[i] # "no" => catalog'[i] # None
  BY <1>2, NoneAssumption DEF SyncUpsert, Upsert, InsertRow, requestVars
<1>3. ASSUME NEW k \in Rows, DeleteSnapshot(k) \/ Forget(k)
      PROVE  \A i \in Rows : deleting'[i] # "no" => catalog'[i] # None
  BY <1>3 DEF DeleteSnapshot, Forget, dbVars
<1>4. CASE Restart
  BY <1>4 DEF Restart
<1>5. CASE deleting' = deleting /\ catalog' = catalog
  BY <1>5
<1>. QED
  BY <1>1, <1>2, <1>3, <1>4, <1>5
  DEF Next, Indexing, Rebuilding, Backup, SyncList, PassCheck, Answer, StartIndexing,
      CheckIndexed, ListFiles, InsertFiles, DropEntry, RebuildList, RebuildClear,
      RebuildUpsert, RebuildSelect, RebuildCheck, RebuildListFiles, RebuildInsert,
      RebuildDone, dbVars, requestVars

LEMMA TypeStep == Typed /\ [Next]_vars => Typed'
<1>. SUFFICES ASSUME Typed, [Next]_vars PROVE Typed'
  OBVIOUS
<1>1. CASE Next
  <2>1. TypeOK'
    BY <1>1, CatalogTypes, IndexTypes, RebuildTypesStep DEF RebuildTypes, TypeOK
  <2>2. InHand'
    BY <1>1, DeletingStep, RebuildTypesStep DEF RebuildTypes, InHand
  <2>. QED
    BY <2>1, <2>2 DEF Typed
<1>2. CASE UNCHANGED vars
  BY <1>2 DEF vars, repoVars, dbVars, progVars, requestVars, rebuildVars, Typed,
     TypeOK, InHand
<1>. QED
  BY <1>1, <1>2

\* Tables, entries, deletions and rebuilds have their types in every reachable
\* state; above all a rebuild that inserts a listing has a row in hand.
THEOREM TypeCorrect == Spec => []TypeOK
<1>1. Typed => TypeOK
  BY DEF Typed
<1>. QED
  BY <1>1, InitTypes, TypeStep, PTL DEF Spec

-----------------------------------------------------------------------------
(* Listings and rows *)

\* The steps of the catalog's table: a row appears under an id nobody has used,
\* or disappears together with its listing.
LEMMA RowStep ==
    ASSUME Typed, Next, NEW i \in Rows
    PROVE  /\ nextRow <= nextRow'
           /\ catalog'[i] # None /\ catalog[i] = None => i = nextRow /\ i < nextRow'
           /\ catalog'[i] = None /\ catalog[i] # None => i \notin indexed'
<1>. USE RowsAssumption DEF Typed, TypeOK, Rows
<1>1. ASSUME NEW s \in Snaps, SyncUpsert(s)
      PROVE  /\ nextRow <= nextRow'
             /\ catalog'[i] # None /\ catalog[i] = None => i = nextRow /\ i < nextRow'
             /\ catalog'[i] = None /\ catalog[i] # None => i \notin indexed'
  <2>1. CASE Listed(s)
    BY <1>1, <2>1 DEF SyncUpsert, Upsert
  <2>2. CASE ~Listed(s)
    <3>1. /\ nextRow \in Nat /\ nextRow' = nextRow + 1
          /\ catalog' = [catalog EXCEPT ![nextRow] = s]
      BY <1>1, <2>2 DEF SyncUpsert, Upsert, InsertRow
    <3>2. catalog'[i] = None /\ catalog[i] # None => FALSE
      BY <3>1, NoneAssumption
    <3>3. catalog'[i] # None /\ catalog[i] = None => i = nextRow
      BY <3>1
    <3>. QED
      BY <3>1, <3>2, <3>3
  <2>. QED
    BY <2>1, <2>2
<1>2. ASSUME NEW k \in Rows, DropRow(k)
      PROVE  /\ nextRow <= nextRow'
             /\ catalog'[i] # None /\ catalog[i] = None => i = nextRow /\ i < nextRow'
             /\ catalog'[i] = None /\ catalog[i] # None => i \notin indexed'
  <2>1. /\ nextRow' = nextRow
        /\ \/ catalog' = [catalog EXCEPT ![k] = None] /\ indexed' = indexed \ {k}
           \/ catalog' = catalog
    BY <1>2 DEF DropRow
  <2>. QED
    BY <2>1
<1>3. CASE catalog' = catalog /\ nextRow' = nextRow
  BY <1>3
<1>. QED
  BY <1>1, <1>2, <1>3
  DEF Next, Indexing, Rebuilding, Backup, SyncList, PassCheck, Answer, StartIndexing,
      CheckIndexed, ListFiles, InsertFiles, DropEntry, DeleteSnapshot, Forget,
      RebuildList, RebuildClear, RebuildUpsert, RebuildSelect, RebuildCheck,
      RebuildListFiles, RebuildInsert, RebuildDone, Restart, dbVars

\* A listing appears only for a row that is there, and disappears only with its
\* row or in a rebuild that empties the index.
LEMMA ListingStep ==
    ASSUME Typed, Next, NEW i \in Rows
    PROVE  /\ i \in indexed' /\ i \notin indexed => catalog'[i] # None
           /\ i \in indexed /\ i \notin indexed' =>
                catalog'[i] = None \/ \E b \in Rebuilds : RebuildClear(b)
<1>. USE DEF Typed, TypeOK
<1>1. ASSUME NEW k \in Rows, InsertFiles(k)
      PROVE  /\ i \in indexed' /\ i \notin indexed => catalog'[i] # None
             /\ indexed \subseteq indexed'
  BY <1>1 DEF InsertFiles, CanInsert, InsertListing
<1>2. ASSUME NEW b \in Rebuilds, RebuildInsert(b)
      PROVE  /\ i \in indexed' /\ i \notin indexed => catalog'[i] # None
             /\ indexed \subseteq indexed'
  BY <1>2 DEF RebuildInsert, CanInsert, InsertListing
<1>3. ASSUME NEW k \in Rows, DropRow(k)
      PROVE  /\ indexed' \subseteq indexed
             /\ i \in indexed /\ i \notin indexed' => catalog'[i] = None
  BY <1>3 DEF DropRow
<1>4. ASSUME NEW b \in Rebuilds, RebuildClear(b) PROVE indexed' = {}
  BY <1>4 DEF RebuildClear
<1>5. CASE indexed' = indexed
  BY <1>5
<1>. QED
  BY <1>1, <1>2, <1>3, <1>4, <1>5
  DEF Next, Indexing, Rebuilding, Backup, SyncList, SyncUpsert, PassCheck, Answer,
      StartIndexing, CheckIndexed, ListFiles, DropEntry, DeleteSnapshot, Forget,
      RebuildList, RebuildUpsert, RebuildSelect, RebuildCheck, RebuildListFiles,
      RebuildDone, Restart, dbVars

\* A listing never outlives its row, although an indexing or a rebuild may
\* insert it long after it looked at the row.
THEOREM ListingHasRow == Spec => []NoOrphanListing
<1>1. Init => NoOrphanListing
  BY DEF Init, NoOrphanListing, IsIndexed
<1>2. Typed /\ NoOrphanListing /\ [Next]_vars => NoOrphanListing'
  <2>. SUFFICES ASSUME Typed, NoOrphanListing, [Next]_vars, NEW i \in Rows, i \in indexed'
                PROVE  catalog'[i] # None
    BY DEF NoOrphanListing, IsIndexed
  <2>1. CASE Next
    BY <2>1, RowStep, ListingStep DEF NoOrphanListing, IsIndexed
  <2>2. CASE UNCHANGED vars
    BY <2>2 DEF vars, dbVars, NoOrphanListing, IsIndexed
  <2>. QED
    BY <2>1, <2>2
<1>. QED
  BY <1>1, <1>2, InitTypes, TypeStep, PTL DEF Spec

-----------------------------------------------------------------------------
(* Empty browses *)

\* A row id that is still to be handed out has no row, no entry, no indexing
\* and is nobody's to rebuild.
FreshIds == \A i \in Rows : i >= nextRow =>
    /\ catalog[i] = None /\ prog[i] = "none" /\ bg[i] = "idle"
    /\ i \notin indexed /\ i \notin browsing
    /\ \A b \in Rebuilds : i \notin selected[b]

LEMMA FreshStep == Typed /\ FreshIds /\ [Next]_vars => FreshIds'
<1>. SUFFICES ASSUME Typed, FreshIds, [Next]_vars,
                     NEW i \in Rows, i >= nextRow'
              PROVE  /\ catalog'[i] = None /\ prog'[i] = "none" /\ bg'[i] = "idle"
                     /\ i \notin indexed' /\ i \notin browsing'
                     /\ \A b \in Rebuilds : i \notin selected'[b]
  BY DEF FreshIds
<1>1. CASE Next
  <2>1. nextRow <= nextRow' /\ i \in Nat /\ nextRow \in Nat /\ nextRow' \in Nat
    BY <1>1, RowStep, CatalogTypes, RowsAssumption DEF Rows, Typed, TypeOK
  <2>2. i >= nextRow
    BY <2>1
  <2>3. /\ catalog[i] = None /\ prog[i] = "none" /\ bg[i] = "idle"
        /\ i \notin indexed /\ i \notin browsing
        /\ \A b \in Rebuilds : i \notin selected[b]
    BY <2>2 DEF FreshIds
  <2>4. catalog'[i] = None
    <3>1. ~ (i < nextRow')
      BY <2>1
    <3>. QED
      BY <1>1, <2>3, <3>1, RowStep
  <2>5. prog'[i] = "none" /\ bg'[i] = "idle"
    <3>1. ASSUME NEW k \in Rows, StartIndexing(k) \/ Indexing(k)
          PROVE  prog'[i] = "none" /\ bg'[i] = "idle"
      <4>1. k # i
        BY <2>3, <3>1 DEF StartIndexing, Unindexed, Indexing, CheckIndexed, ListFiles,
           InsertFiles, DropEntry
      <4>. QED
        BY <2>3, <3>1, <4>1 DEF StartIndexing, Indexing, CheckIndexed, ListFiles,
           InsertFiles, FinishIndexing, DropEntry, Typed, TypeOK
    <3>2. CASE Restart
      BY <3>2 DEF Restart
    <3>3. CASE UNCHANGED progVars
      BY <2>3, <3>3 DEF progVars
    <3>. QED
      BY <1>1, <3>1, <3>2, <3>3
      DEF Next, Rebuilding, Backup, SyncList, SyncUpsert, PassCheck, Answer,
          DeleteSnapshot, Forget, DropRow, RebuildList, RebuildClear, RebuildUpsert,
          RebuildSelect, RebuildCheck, RebuildListFiles, RebuildInsert, RebuildDone
  <2>6. ASSUME NEW b \in Rebuilds PROVE i \notin selected'[b]
    <3>1. ASSUME NEW c \in Rebuilds, Rebuilding(c) PROVE i \notin selected'[b]
      BY <2>3, <3>1 DEF Rebuilding, RebuildList, RebuildClear, RebuildUpsert,
         RebuildSelect, RebuildCheck, RebuildListFiles, RebuildInsert, RebuildDone,
         RebuildFails, Typed, TypeOK
    <3>2. CASE Restart
      BY <2>3, <3>2 DEF Restart
    <3>3. CASE UNCHANGED rebuildVars
      BY <2>3, <3>3 DEF rebuildVars
    <3>. QED
      BY <1>1, <3>1, <3>2, <3>3
      DEF Next, Indexing, Backup, SyncList, SyncUpsert, PassCheck, Answer,
          StartIndexing, CheckIndexed, ListFiles, InsertFiles, DropEntry,
          DeleteSnapshot, Forget, DropRow
  <2>7. i \notin indexed'
    BY <1>1, <2>3, <2>4, ListingStep
  <2>8. i \notin browsing'
    <3>1. ASSUME NEW k \in Rows, PassCheck(k) PROVE i \notin browsing'
      BY <2>3, <3>1 DEF PassCheck
    <3>2. CASE browsing' \subseteq browsing
      BY <2>3, <3>2
    <3>. QED
      BY <1>1, <3>1, <3>2
      DEF Next, Indexing, Rebuilding, Backup, SyncList, SyncUpsert, Answer,
          StartIndexing, CheckIndexed, ListFiles, InsertFiles, DropEntry,
          DeleteSnapshot, Forget, DropRow, RebuildList, RebuildClear, RebuildUpsert,
          RebuildSelect, RebuildCheck, RebuildListFiles, RebuildInsert, RebuildDone,
          Restart, requestVars
  <2>. QED
    BY <2>4, <2>5, <2>6, <2>7, <2>8
<1>2. CASE UNCHANGED vars
  BY <1>2 DEF vars, dbVars, progVars, requestVars, rebuildVars, FreshIds
<1>. QED
  BY <1>1, <1>2

\* A row keeps its snapshot, and a snapshot without entries never gets any.
LEMMA SnapshotStays ==
    ASSUME Typed, FreshIds, Next, NEW i \in Rows, catalog[i] # None, catalog'[i] # None
    PROVE  catalog'[i] = catalog[i] /\ (catalog[i] \in empty => catalog[i] \in empty')
<1>. USE RowsAssumption DEF Typed, TypeOK, Rows
<1>1. ASSUME NEW s \in Snaps, SyncUpsert(s) PROVE catalog'[i] = catalog[i]
  <2>1. i # nextRow
    BY DEF FreshIds
  <2>. QED
    BY <1>1, <2>1 DEF SyncUpsert, Upsert, InsertRow
<1>2. ASSUME NEW k \in Rows, DropRow(k) PROVE catalog'[i] = catalog[i]
  BY <1>2 DEF DropRow
<1>3. ASSUME catalog' = catalog PROVE catalog'[i] = catalog[i]
  BY <1>3
<1>4. catalog'[i] = catalog[i]
  BY <1>1, <1>2, <1>3
  DEF Next, Indexing, Rebuilding, Backup, SyncList, PassCheck, Answer, StartIndexing,
      CheckIndexed, ListFiles, InsertFiles, DropEntry, DeleteSnapshot, Forget,
      RebuildList, RebuildClear, RebuildUpsert, RebuildSelect, RebuildCheck,
      RebuildListFiles, RebuildInsert, RebuildDone, Restart, dbVars
<1>5. empty \subseteq empty'
  BY DEF Next, Indexing, Rebuilding, Backup, SyncList, SyncUpsert, PassCheck, Answer,
     StartIndexing, CheckIndexed, ListFiles, InsertFiles, DropEntry, DeleteSnapshot,
     Forget, DropRow, RebuildList, RebuildClear, RebuildUpsert, RebuildSelect,
     RebuildCheck, RebuildListFiles, RebuildInsert, RebuildDone, Restart, repoVars
<1>. QED
  BY <1>4, <1>5

\* A finished entry, and a browse that has looked at it, vouch for the listing
\* of a snapshot that has one until a rebuild empties the index.
Vouched == \A i \in Rows :
    prog[i] = "finished" \/ i \in browsing =>
        i \in indexed \/ emptied \/ catalog[i] \in empty \cup {None}

LEMMA VouchedStep == Typed /\ FreshIds /\ Vouched /\ [Next]_vars => Vouched'
<1>. SUFFICES ASSUME Typed, FreshIds, Vouched, [Next]_vars, NEW i \in Rows,
                     prog'[i] = "finished" \/ i \in browsing', catalog'[i] # None
              PROVE  i \in indexed' \/ emptied' \/ catalog'[i] \in empty'
  BY DEF Vouched
<1>1. CASE Next
  <2>1. emptied => emptied'
    BY <1>1 DEF Next, Indexing, Rebuilding, Backup, SyncList, SyncUpsert, PassCheck,
       Answer, StartIndexing, CheckIndexed, ListFiles, InsertFiles, DropEntry,
       DeleteSnapshot, Forget, DropRow, RebuildList, RebuildClear, RebuildUpsert,
       RebuildSelect, RebuildCheck, RebuildListFiles, RebuildInsert, RebuildDone,
       Restart
  <2>2. CASE prog[i] = "finished" \/ i \in browsing \/ i \in indexed
    <3>1. CASE catalog[i] = None
      <4>1. i >= nextRow /\ i = nextRow
        BY <1>1, <3>1, RowStep, RowsAssumption DEF Rows, Typed, TypeOK
      <4>. QED
        BY <2>2, <4>1 DEF FreshIds
    <3>2. CASE catalog[i] # None
      <4>1. i \in indexed \/ emptied \/ catalog[i] \in empty
        BY <2>2, <3>2 DEF Vouched
      <4>2. (\E b \in Rebuilds : RebuildClear(b)) => emptied'
        BY DEF RebuildClear
      <4>3. catalog[i] \in empty => catalog'[i] \in empty'
        BY <1>1, <3>2, SnapshotStays
      <4>. QED
        BY <1>1, <2>1, <4>1, <4>2, <4>3, ListingStep
    <3>. QED
      BY <3>1, <3>2
  <2>3. CASE ~ (prog[i] = "finished" \/ i \in browsing \/ i \in indexed)
    <3>1. CheckIndexed(i) \/ ListFiles(i) \/ InsertFiles(i)
      BY <1>1, <2>3 DEF Next, Indexing, Rebuilding, Backup, SyncList, SyncUpsert,
         PassCheck, Answer, StartIndexing, CheckIndexed, ListFiles, InsertFiles,
         FinishIndexing, DropEntry, DeleteSnapshot, Forget, DropRow, RebuildList,
         RebuildClear, RebuildUpsert, RebuildSelect, RebuildCheck, RebuildListFiles,
         RebuildInsert, RebuildDone, Restart, IsIndexed, progVars, requestVars, Typed,
         TypeOK
    <3>. QED
      BY <2>3, <3>1 DEF CheckIndexed, ListFiles, InsertFiles, FinishIndexing,
         InsertListing, IsIndexed, dbVars, repoVars, requestVars, Typed, TypeOK
  <2>. QED
    BY <2>2, <2>3
<1>2. CASE UNCHANGED vars
  BY <1>2 DEF vars, repoVars, dbVars, progVars, requestVars, Vouched
<1>. QED
  BY <1>1, <1>2

LEMMA InitRebuilds == Init => FreshIds /\ Vouched
BY DEF Init, FreshIds, Vouched

\* A browse shows a snapshot without files only when it has none, when it was
\* deleted under the browse, or when a rebuild has emptied the index.
THEOREM EmptyBrowse == Spec => []EmptyOnlyAfterRebuild
<1>1. Vouched => EmptyOnlyAfterRebuild
  BY DEF Vouched, EmptyOnlyAfterRebuild, ShowsEmpty, IsIndexed
<1>. QED
  BY <1>1, InitTypes, TypeStep, InitRebuilds, FreshStep, VouchedStep, PTL DEF Spec

-----------------------------------------------------------------------------
(* Rebuilds *)

\* A rebuild that will index the row, or that failed after it had emptied the
\* index.
Owes(c, i) == \/ rebuild[c] \in {"upsert", "failed", "unlinked"}
              \/ rebuild[c] \in {"check", "list", "insert"} /\ i \in todo[c]

\* A row that a rebuild has dealt with, that has files and that is not indexed is
\* owed by another rebuild, which emptied the index since.
Settled ==
    /\ \A b \in Rebuilds : \A i \in selected[b] \ todo[b] :
         catalog[i] \notin empty \cup {None} /\ i \notin indexed =>
            \E c \in Rebuilds : Owes(c, i)
    /\ \A b \in Rebuilds : rebuild[b] = "done" => todo[b] = {}

\* Who owes a row goes on owing it until the row is indexed or gone.
LEMMA OwesStep ==
    ASSUME Typed, Next, NEW c \in Rebuilds, NEW i \in Rows, Owes(c, i),
           catalog[i] \notin empty \cup {None}, catalog'[i] # None, i \notin indexed'
    PROVE  Owes(c, i)'
<1>. USE DEF Typed, TypeOK
<1>1. ASSUME RebuildList(c) \/ RebuildClear(c) PROVE Owes(c, i)'
  BY <1>1 DEF RebuildList, RebuildClear, GotoRebuild, Owes
<1>2. ASSUME RebuildUpsert(c) PROVE Owes(c, i)'
  BY <1>2 DEF RebuildUpsert, RebuildFails, Owes
<1>3. ASSUME RebuildSelect(c) PROVE Owes(c, i)'
  <2>1. rebuild'[c] = "check" /\ i \in todo'[c]
    BY <1>3 DEF RebuildSelect, GotoRebuild
  <2>. QED
    BY <2>1 DEF Owes
<1>4. ASSUME RebuildCheck(c) PROVE Owes(c, i)'
  <2>1. CASE IsIndexed(Current(c))
    <3>1. /\ rebuild' = rebuild /\ rebuild[c] = "check" /\ indexed' = indexed
          /\ todo' = [todo EXCEPT ![c] = @ \ {Current(c)}]
      BY <1>4, <2>1 DEF RebuildCheck, dbVars
    <3>2. i # Current(c)
      BY <2>1, <3>1 DEF IsIndexed
    <3>. QED
      BY <3>1, <3>2 DEF Owes
  <2>2. CASE ~IsIndexed(Current(c))
    BY <1>4, <2>2 DEF RebuildCheck, GotoRebuild, Owes
  <2>. QED
    BY <2>1, <2>2
<1>5. ASSUME RebuildListFiles(c) PROVE Owes(c, i)'
  BY <1>5 DEF RebuildListFiles, GotoRebuild, RebuildFails, Owes
<1>6. ASSUME RebuildInsert(c) PROVE Owes(c, i)'
  <2>1. CASE CanInsert(Current(c))
    <3>1. /\ rebuild'[c] = "check" /\ rebuild[c] = "insert"
          /\ indexed' = indexed \cup {Current(c)}
          /\ todo' = [todo EXCEPT ![c] = @ \ {Current(c)}]
      BY <1>6, <2>1 DEF RebuildInsert, GotoRebuild, InsertListing
    <3>2. i # Current(c)
      BY <3>1
    <3>. QED
      BY <3>1, <3>2 DEF Owes
  <2>2. CASE ~CanInsert(Current(c))
    BY <1>6, <2>2 DEF RebuildInsert, RebuildFails, Owes
  <2>. QED
    BY <2>1, <2>2
<1>7. ASSUME RebuildDone(c) PROVE Owes(c, i)'
  BY <1>7 DEF RebuildDone, GotoRebuild, Owes
<1>8. ASSUME NEW b \in Rebuilds \ {c}, Rebuilding(b) PROVE Owes(c, i)'
  <2>1. rebuild'[c] = rebuild[c] /\ todo'[c] = todo[c]
    BY <1>8 DEF Rebuilding, RebuildList, RebuildClear, RebuildUpsert, RebuildSelect,
       RebuildCheck, RebuildListFiles, RebuildInsert, RebuildDone, GotoRebuild,
       RebuildFails
  <2>. QED
    BY <2>1 DEF Owes
<1>9. CASE Restart
  BY <1>9 DEF Restart, Ending, Owes
<1>10. CASE UNCHANGED rebuildVars
  BY <1>10 DEF rebuildVars, Owes
<1>. QED
  BY <1>1, <1>2, <1>3, <1>4, <1>5, <1>6, <1>7, <1>8, <1>9, <1>10
  DEF Next, Rebuilding, Indexing, Backup, SyncList, SyncUpsert, PassCheck, Answer,
      StartIndexing, CheckIndexed, ListFiles, InsertFiles, DropEntry, DeleteSnapshot,
      Forget, DropRow

\* A row leaves the rows to do only when it is indexed or has nothing to index,
\* or with the whole rebuild.
LEMMA DealtWith ==
    ASSUME Typed, Settled, Next, NEW b \in Rebuilds, NEW i \in selected'[b] \ todo'[b]
    PROVE  i \in indexed' \/ catalog[i] \in empty \/ i \in selected[b] \ todo[b]
<1>. USE DEF Typed, TypeOK
<1>1. ASSUME RebuildList(b) PROVE i \in indexed' \/ i \in selected[b] \ todo[b]
  BY <1>1 DEF RebuildList, RebuildFails
<1>2. ASSUME RebuildUpsert(b) PROVE i \in indexed' \/ i \in selected[b] \ todo[b]
  BY <1>2 DEF RebuildUpsert, RebuildFails
<1>3. ASSUME RebuildSelect(b) PROVE i \in indexed' \/ i \in selected[b] \ todo[b]
  BY <1>3 DEF RebuildSelect
<1>4. ASSUME RebuildCheck(b) PROVE i \in indexed' \/ i \in selected[b] \ todo[b]
  BY <1>4 DEF RebuildCheck, IsIndexed, dbVars
<1>5. ASSUME RebuildInsert(b) PROVE i \in indexed' \/ i \in selected[b] \ todo[b]
  BY <1>5 DEF RebuildInsert, RebuildFails, InsertListing
<1>6. ASSUME RebuildDone(b) \/ RebuildClear(b)
      PROVE i \in indexed' \/ i \in selected[b] \ todo[b]
  BY <1>6 DEF RebuildDone, RebuildClear
<1>7. ASSUME NEW c \in Rebuilds \ {b}, Rebuilding(c)
      PROVE i \in indexed' \/ i \in selected[b] \ todo[b]
  <2>1. selected'[b] = selected[b] /\ todo'[b] = todo[b]
    BY <1>7 DEF Rebuilding, RebuildList, RebuildClear, RebuildUpsert, RebuildSelect,
       RebuildCheck, RebuildListFiles, RebuildInsert, RebuildDone, RebuildFails
  <2>. QED
    BY <2>1
<1>8. CASE Restart
  BY <1>8 DEF Restart, Settled
<1>9. CASE UNCHANGED rebuildVars
  BY <1>9 DEF rebuildVars
<1>10. ASSUME RebuildListFiles(b)
       PROVE  catalog[i] \in empty \/ i \in selected[b] \ todo[b]
  <2>1. CASE RebuildFails(b, "failed")
    BY <2>1 DEF RebuildFails
  <2>2. CASE UNCHANGED <<todo, selected>>
    BY <2>2
  <2>3. CASE /\ catalog[Current(b)] \in repo \cap empty
             /\ todo' = [todo EXCEPT ![b] = @ \ {Current(b)}]
             /\ UNCHANGED selected
    BY <2>3
  <2>. QED
    BY <1>10, <2>1, <2>2, <2>3 DEF RebuildListFiles
<1>. QED
  BY <1>1, <1>2, <1>3, <1>4, <1>5, <1>6, <1>7, <1>8, <1>9, <1>10
  DEF Next, Rebuilding, Indexing, Backup, SyncList, SyncUpsert, PassCheck, Answer,
      StartIndexing, CheckIndexed, ListFiles, InsertFiles, DropEntry, DeleteSnapshot,
      Forget, DropRow

LEMMA SettledStep == Typed /\ FreshIds /\ Settled /\ [Next]_vars => Settled'
<1>. SUFFICES ASSUME Typed, FreshIds, Settled, [Next]_vars PROVE Settled'
  OBVIOUS
<1>. USE DEF Typed, TypeOK
<1>1. CASE Next
  <2>1. ASSUME NEW b \in Rebuilds, NEW i \in selected'[b] \ todo'[b],
               catalog'[i] \notin empty' \cup {None}, i \notin indexed'
        PROVE  \E c \in Rebuilds : Owes(c, i)'
    <3>0. i \in Rows
      BY <1>1, <2>1, RebuildTypesStep DEF RebuildTypes
    <3>1. i \in selected[b] \ todo[b] \/ catalog[i] \in empty
      BY <1>1, <2>1, DealtWith
    <3>2. catalog[i] # None
      <4>1. CASE catalog[i] \in empty
        BY <4>1, NoneAssumption
      <4>2. CASE i \in selected[b] \ todo[b]
        <5>1. catalog[i] = None => i >= nextRow
          BY <1>1, <2>1, <3>0, RowStep, RowsAssumption DEF Rows
        <5>. QED
          BY <3>0, <4>2, <5>1 DEF FreshIds
      <4>. QED
        BY <3>1, <4>1, <4>2
    <3>6. catalog[i] \notin empty
      BY <1>1, <2>1, <3>0, <3>2, SnapshotStays
    <3>3. CASE \E c \in Rebuilds : RebuildClear(c)
      <4>1. PICK c \in Rebuilds : RebuildClear(c)
        BY <3>3
      <4>2. rebuild'[c] = "upsert"
        BY <4>1 DEF RebuildClear, GotoRebuild
      <4>. QED
        BY <4>2 DEF Owes
    <3>4. CASE i \notin indexed
      <4>1. PICK c \in Rebuilds : Owes(c, i)
        BY <3>1, <3>2, <3>4, <3>6 DEF Settled
      <4>. QED
        BY <1>1, <2>1, <3>0, <3>2, <3>6, <4>1, OwesStep
    <3>5. i \in indexed => \E c \in Rebuilds : RebuildClear(c)
      BY <1>1, <2>1, <3>0, ListingStep
    <3>. QED
      BY <3>3, <3>4, <3>5
  <2>2. ASSUME NEW b \in Rebuilds, rebuild'[b] = "done" PROVE todo'[b] = {}
    <3>1. ASSUME NEW c \in Rebuilds, Rebuilding(c) PROVE todo'[b] = {}
      <4>1. CASE c = b
        BY <2>2, <3>1, <4>1 DEF Rebuilding, RebuildList, RebuildClear, RebuildUpsert,
           RebuildSelect, RebuildCheck, RebuildListFiles, RebuildInsert, RebuildDone,
           GotoRebuild, RebuildFails
      <4>2. CASE c # b
        BY <2>2, <3>1, <4>2 DEF Rebuilding, RebuildList, RebuildClear, RebuildUpsert,
           RebuildSelect, RebuildCheck, RebuildListFiles, RebuildInsert, RebuildDone,
           GotoRebuild, RebuildFails, Settled
      <4>. QED
        BY <4>1, <4>2
    <3>2. CASE Restart
      BY <3>2 DEF Restart
    <3>3. CASE UNCHANGED rebuildVars
      BY <2>2, <3>3 DEF rebuildVars, Settled
    <3>. QED
      BY <1>1, <3>1, <3>2, <3>3
      DEF Next, Indexing, Backup, SyncList, SyncUpsert, PassCheck, Answer,
          StartIndexing, CheckIndexed, ListFiles, InsertFiles, DropEntry,
          DeleteSnapshot, Forget, DropRow
  <2>. QED
    BY <2>1, <2>2 DEF Settled
<1>2. CASE UNCHANGED vars
  BY <1>2 DEF vars, repoVars, dbVars, rebuildVars, Settled, Owes
<1>. QED
  BY <1>1, <1>2

\* A rebuild that ends without error has indexed every row with files that it set
\* out to index, whatever browses, deletions and other rebuilds did meanwhile.
THEOREM RebuildIndexes == Spec => []RebuildReindexes
<1>1. Init => Settled
  BY DEF Init, Settled
<1>2. Settled => RebuildReindexes
  BY DEF Settled, RebuildReindexes, Owes, IsIndexed
<1>. QED
  BY <1>1, <1>2, InitTypes, TypeStep, InitRebuilds, FreshStep, SettledStep, PTL DEF Spec
=============================================================================
