------------------------ MODULE ScheduleReloadProofs ------------------------
(***************************************************************************)
(* For any number of definitions, requests and restarts: a definition has  *)
(* at most one entry, and a quiet table whose reloads applied in the order *)
(* in which they read is the one the saved definitions ask for.            *)
(***************************************************************************)
EXTENDS ScheduleReload, TLAPS

-----------------------------------------------------------------------------
(* Type correctness *)

\* What a reload reads is a set of rows, each of its own definition.
LEMMA LoadDefsType ==
    ASSUME defs \in [Ids -> Def]
    PROVE  /\ LoadDefs \in SUBSET Read
           /\ \A r, q \in LoadDefs : r.id = q.id => r = q
BY DEF LoadDefs, Read

\* A list of rows yields a set of entries, all tracked.
LEMMA TableType ==
    ASSUME NEW list \in SUBSET Read, NEW n \in Nat
    PROVE  /\ EntriesOf(list, n) \in SUBSET Entry
           /\ Tracking(list, n) \in [Ids -> Nat]
           /\ \A e \in EntriesOf(list, n) : Tracking(list, n)[e.id] = e.by
<1>1. EntriesOf(list, n) \in SUBSET Entry
  BY DEF EntriesOf, Schedulable, Entry, Read
<1>2. Tracking(list, n) \in [Ids -> Nat]
  BY DEF Tracking
<1>3. ASSUME NEW e \in EntriesOf(list, n)
      PROVE  Tracking(list, n)[e.id] = e.by
  <2>1. PICK r \in Schedulable(list) : e = [by |-> n, id |-> r.id, def |-> r.def]
    BY <1>3 DEF EntriesOf
  <2>2. e.id = r.id /\ e.by = n /\ r.id \in Ids
    BY <2>1 DEF Schedulable, Read
  <2>. QED
    BY <2>1, <2>2 DEF Tracking
<1>. QED
  BY <1>1, <1>2, <1>3

LEMMA InitTypes == Init => TypeOK
<1>1. NoBody \in Body
  BY DEF NoBody, Body
<1>2. NoDef \in Def
  BY DEF NoDef, Def
<1>3. ASSUME Init PROVE cron \in SUBSET Entry /\ got \in [Calls -> SUBSET Read]
  BY <1>3 DEF Init
<1>. QED
  BY <1>1, <1>2, <1>3 DEF Init, TypeOK, Stations

LEMMA TypeStep == TypeOK /\ [Next]_vars => TypeOK'
<1>. SUFFICES ASSUME TypeOK, [Next]_vars PROVE TypeOK'
  OBVIOUS
<1>. USE DEF TypeOK
<1>1. ASSUME NEW c \in Calls, Create(c) PROVE TypeOK'
  <2>1. PICK d \in Ids, s \in Inputs, p \in Paths : CreateBackup(c, d, s, p)
    BY <1>1 DEF Create
  <2>2. [state |-> "saved", schedule |-> NormalizeCron(s), paths |-> p,
         enabled |-> TRUE] \in Def
    BY DEF Def, Schedules
  <2>3. defs' \in [Ids -> Def]
    BY <2>1, <2>2 DEF CreateBackup
  <2>. QED
    BY <2>1, <2>3
    DEF CreateBackup, SpawnReload, Stations, readVars, tableVars
<1>2. ASSUME NEW c \in Calls, Delete(c) PROVE TypeOK'
  <2>1. PICK d \in Ids : DeleteBackup(c, d)
    BY <1>2 DEF Delete
  <2>2. defs' \in [Ids -> Def]
    BY ZenonT(60), <2>1 DEF DeleteBackup, Def
  <2>. QED
    BY <2>1, <2>2
    DEF DeleteBackup, SpawnReload, Stations, readVars, tableVars
<1>3. ASSUME NEW c \in Calls, Update(c) PROVE TypeOK'
  BY <1>3 DEF Update, UpdateBackup, Stations, Editing, readVars, tableVars
<1>4. ASSUME NEW c \in Calls, ClientLeaves(c) PROVE TypeOK'
  BY <1>4 DEF ClientLeaves, readVars, tableVars
<1>5. ASSUME NEW c \in Calls, SetSchedule(c) PROVE TypeOK'
  <2>1. Sets(c, "schedule") =>
          /\ NormalizeCron(body[c].schedule) \in Schedules
          /\ target[c] \in Ids \cup {Unset}
    BY DEF Sets, Body, Schedules
  <2>2. defs' \in [Ids -> Def]
    BY ZenonT(60), <1>5, <2>1 DEF SetSchedule, Def
  <2>. QED
    BY <1>5, <2>2 DEF SetSchedule, Stations, Editing, readVars, tableVars
<1>6. ASSUME NEW c \in Calls, SetPaths(c) PROVE TypeOK'
  <2>0. Sets(c, "paths") => body[c].paths \in Paths
    BY DEF Sets, Body
  <2>1. defs' \in [Ids -> Def]
    BY ZenonT(60), <1>6, <2>0 DEF SetPaths, Def
  <2>. QED
    BY <1>6, <2>1 DEF SetPaths, Stations, Editing, readVars, tableVars
<1>7. ASSUME NEW c \in Calls, SetEnabled(c) PROVE TypeOK'
  <2>0. Sets(c, "enabled") => body[c].enabled \in BOOLEAN
    BY DEF Sets, Body
  <2>1. defs' \in [Ids -> Def]
    BY ZenonT(60), <1>7, <2>0 DEF SetEnabled, Def
  <2>2. NoBody \in Body
    BY DEF NoBody, Body
  <2>. QED
    BY <1>7, <2>1, <2>2
    DEF SetEnabled, ForgetEdit, SpawnReload, Stations, readVars, tableVars
<1>8. ASSUME NEW c \in Calls, ReloadReads(c) PROVE TypeOK'
  BY <1>8, LoadDefsType DEF ReloadReads, Stations, tableVars
<1>9. ASSUME NEW c \in Calls, ReloadApplies(c) PROVE TypeOK'
  <2>1. /\ EntriesOf(got[c], ticket[c]) \in SUBSET Entry
        /\ Tracking(got[c], ticket[c]) \in [Ids -> Nat]
    BY TableType
  <2>. QED
    BY <1>9, <2>1 DEF ReloadApplies, Untracked, Stations
<1>10. ASSUME Restart PROVE TypeOK'
  <2>1. /\ EntriesOf(LoadDefs, reads + 1) \in SUBSET Entry
        /\ Tracking(LoadDefs, reads + 1) \in [Ids -> Nat]
    <3>1. reads + 1 \in Nat
      OBVIOUS
    <3>. QED
      BY <3>1, LoadDefsType, TableType
  <2>2. NoBody \in Body
    BY DEF NoBody, Body
  <2>. QED
    BY <1>10, <2>1, <2>2 DEF Restart, Stations
<1>11. ASSUME UNCHANGED vars PROVE TypeOK'
  BY <1>11 DEF vars, callVars, readVars, tableVars
<1>. QED
  BY <1>1, <1>2, <1>3, <1>4, <1>5, <1>6, <1>7, <1>8, <1>9, <1>10, <1>11
  DEF Next

\* Every variable keeps its type.
THEOREM TypeCorrect == Spec => []TypeOK
BY InitTypes, TypeStep, PTL DEF Spec

-----------------------------------------------------------------------------
(* The inductive invariant *)

\* A request that has yet to write, or a reload that has yet to read.
NoneUnread == \A c \in Calls : pc[c] \notin Editing \cup {"load"}

TicketsAreOld ==
    /\ applied <= reads
    /\ \A c \in Calls : ticket[c] <= reads

\* Scheduler.entries knows every entry of the daemon.
EntriesTracked == \A e \in cron : entries[e.id] = e.by

\* A reload has read each definition once.
ReadOnce == \A c \in Calls : \A r, q \in got[c] : r.id = q.id => r = q

\* Once the reload of every request has read, the last read, be it in a reload
\* or already in the table, holds the definitions as they are.
LastReadIsCurrent ==
    NoneUnread =>
        /\ \A c \in Calls :
            pc[c] = "loaded" /\ ticket[c] = reads => got[c] = LoadDefs
        /\ applied = reads => Table = Schedulable(LoadDefs)

IInv ==
    /\ TypeOK
    /\ TicketsAreOld
    /\ EntriesTracked
    /\ ReadOnce
    /\ OneEntryPerDefinition
    /\ LastReadIsCurrent

\* What the daemon fires after a table has been built from a list of rows.
LEMMA BuiltTable ==
    ASSUME NEW list \in SUBSET Read, NEW n \in Nat
    PROVE  {[id |-> e.id, def |-> e.def] : e \in EntriesOf(list, n)}
             = Schedulable(list)
<1>. DEFINE entry(r) == [by |-> n, id |-> r.id, def |-> r.def]
            fires(e) == [id |-> e.id, def |-> e.def]
<1>1. ASSUME NEW r \in Schedulable(list) PROVE fires(entry(r)) = r
  BY DEF Schedulable, Read
<1>2. EntriesOf(list, n) = {entry(r) : r \in Schedulable(list)}
  BY DEF EntriesOf
<1>. HIDE DEF entry, fires
<1>3. {fires(e) : e \in EntriesOf(list, n)} = Schedulable(list)
  BY <1>1, <1>2
<1>. QED
  BY <1>3 DEF fires

LEMMA BuiltOnce ==
    ASSUME NEW list \in SUBSET Read, NEW n \in Nat,
           \A r, q \in list : r.id = q.id => r = q
    PROVE  \A e, f \in EntriesOf(list, n) : e.id = f.id => e = f
BY DEF EntriesOf, Schedulable

\* The steps of a request change neither the table nor a read, and leave
\* their own reload still to read.
LEMMA RequestStep ==
    ASSUME IInv, TypeOK', UNCHANGED <<readVars, tableVars>>,
           NEW c \in Calls, pc'[c] \in Editing \cup {"load"}
    PROVE  IInv'
<1>1. TicketsAreOld' /\ EntriesTracked' /\ ReadOnce' /\ OneEntryPerDefinition'
  BY DEF IInv, TicketsAreOld, EntriesTracked, ReadOnce, OneEntryPerDefinition,
         readVars, tableVars
<1>2. LastReadIsCurrent'
  BY DEF LastReadIsCurrent, NoneUnread
<1>. QED
  BY <1>1, <1>2 DEF IInv

LEMMA ReadStep ==
    ASSUME IInv, TypeOK', NEW c \in Calls, ReloadReads(c)
    PROVE  IInv'
<1>. USE DEF IInv, ReloadReads
<1>1. TicketsAreOld'
  BY DEF TicketsAreOld, TypeOK, tableVars
<1>2. EntriesTracked' /\ OneEntryPerDefinition'
  BY DEF EntriesTracked, OneEntryPerDefinition, tableVars
<1>3. ReadOnce'
  BY LoadDefsType DEF ReadOnce, TypeOK
<1>4. LastReadIsCurrent'
  <2>1. LoadDefs' = LoadDefs
    BY DEF LoadDefs
  <2>2. applied' # reads'
    BY DEF TicketsAreOld, TypeOK, tableVars
  <2>3. ASSUME NEW b \in Calls, ticket'[b] = reads'
        PROVE  got'[b] = LoadDefs'
    <3>1. b = c
      BY <2>3 DEF TicketsAreOld, TypeOK
    <3>. QED
      BY <2>1, <3>1 DEF TypeOK
  <2>. QED
    BY <2>2, <2>3 DEF LastReadIsCurrent
<1>. QED
  BY <1>1, <1>2, <1>3, <1>4

LEMMA ApplyStep ==
    ASSUME IInv, TypeOK', NEW c \in Calls, ReloadApplies(c)
    PROVE  IInv'
<1>. USE DEF IInv, ReloadApplies
<1>1. got[c] \in SUBSET Read /\ ticket[c] \in Nat
  BY DEF TypeOK
<1>2. cron' = EntriesOf(got[c], ticket[c])
  BY DEF EntriesTracked, Untracked
<1>3. TicketsAreOld'
  BY DEF TicketsAreOld, TypeOK
<1>4. EntriesTracked'
  BY <1>1, <1>2, TableType DEF EntriesTracked
<1>5. ReadOnce'
  BY DEF ReadOnce, TypeOK
<1>6. OneEntryPerDefinition'
  BY <1>1, <1>2, BuiltOnce DEF OneEntryPerDefinition, ReadOnce
<1>7. LastReadIsCurrent'
  <2>. SUFFICES ASSUME NoneUnread' PROVE LastReadIsCurrent'
    BY DEF LastReadIsCurrent
  <2>1. LoadDefs' = LoadDefs
    BY DEF LoadDefs
  <2>2. NoneUnread
    BY DEF NoneUnread, TypeOK, Editing
  <2>3. ASSUME NEW b \in Calls, pc'[b] = "loaded", ticket'[b] = reads'
        PROVE  got'[b] = LoadDefs'
    <3>1. b # c /\ pc[b] = "loaded" /\ ticket[b] = reads /\ got'[b] = got[b]
      BY <2>3 DEF TypeOK
    <3>. QED
      BY <2>1, <2>2, <3>1 DEF LastReadIsCurrent
  <2>4. ASSUME applied' = reads' PROVE Table' = Schedulable(LoadDefs)'
    <3>1. got[c] = LoadDefs
      BY <2>2, <2>4 DEF LastReadIsCurrent
    <3>2. Table' = Schedulable(got[c])
      BY <1>1, <1>2, BuiltTable DEF Table
    <3>. QED
      BY <2>1, <3>1, <3>2 DEF Schedulable
  <2>. QED
    BY <2>3, <2>4 DEF LastReadIsCurrent
<1>. QED
  BY <1>3, <1>4, <1>5, <1>6, <1>7

LEMMA RestartStep ==
    ASSUME IInv, TypeOK', Restart
    PROVE  IInv'
<1>. USE DEF IInv, Restart
<1>1. /\ LoadDefs \in SUBSET Read /\ reads + 1 \in Nat
      /\ \A r, q \in LoadDefs : r.id = q.id => r = q
  BY LoadDefsType DEF TypeOK
<1>2. TicketsAreOld'
  BY <1>1 DEF TicketsAreOld
<1>3. EntriesTracked'
  BY <1>1, TableType DEF EntriesTracked
<1>4. ReadOnce'
  BY DEF ReadOnce
<1>5. OneEntryPerDefinition'
  BY <1>1, BuiltOnce DEF OneEntryPerDefinition
<1>6. LastReadIsCurrent'
  <2>1. LoadDefs' = LoadDefs
    BY DEF LoadDefs
  <2>2. Table' = Schedulable(LoadDefs)'
    BY <1>1, <2>1, BuiltTable DEF Table, Schedulable
  <2>3. \A b \in Calls : pc'[b] # "loaded"
    OBVIOUS
  <2>. QED
    BY <2>2, <2>3 DEF LastReadIsCurrent
<1>. QED
  BY <1>2, <1>3, <1>4, <1>5, <1>6

LEMMA InvariantStep == IInv /\ [Next]_vars => IInv'
<1>. SUFFICES ASSUME IInv, [Next]_vars PROVE IInv'
  OBVIOUS
<1>1. TypeOK'
  BY TypeStep DEF IInv
<1>2. ASSUME NEW c \in Calls, Create(c) \/ Delete(c) \/ Update(c) PROVE IInv'
  <2>1. /\ UNCHANGED <<readVars, tableVars>>
        /\ pc'[c] \in Editing \cup {"load"}
    BY <1>2
    DEF Create, CreateBackup, Delete, DeleteBackup, Update, UpdateBackup,
        SpawnReload, Editing, IInv, TypeOK
  <2>. QED
    BY <1>1, <2>1, RequestStep
<1>3. ASSUME NEW c \in Calls,
             ClientLeaves(c) \/ SetSchedule(c) \/ SetPaths(c) \/ SetEnabled(c)
      PROVE  IInv'
  <2>1. /\ UNCHANGED <<readVars, tableVars>>
        /\ pc'[c] \in Editing \cup {"load"}
    BY <1>3
    DEF ClientLeaves, SetSchedule, SetPaths, SetEnabled, SpawnReload, Editing,
        IInv, TypeOK
  <2>. QED
    BY <1>1, <2>1, RequestStep
<1>4. ASSUME NEW c \in Calls, ReloadReads(c) PROVE IInv'
  BY <1>1, <1>4, ReadStep
<1>5. ASSUME NEW c \in Calls, ReloadApplies(c) PROVE IInv'
  BY <1>1, <1>5, ApplyStep
<1>6. ASSUME Restart PROVE IInv'
  BY <1>1, <1>6, RestartStep
<1>7. ASSUME UNCHANGED vars PROVE IInv'
  <2>1. LoadDefs' = LoadDefs /\ Table' = Table
    BY <1>7 DEF vars, LoadDefs, Table, tableVars
  <2>. QED
    BY <1>1, <1>7, <2>1
    DEF IInv, vars, callVars, readVars, tableVars, TicketsAreOld,
        EntriesTracked, ReadOnce, OneEntryPerDefinition, LastReadIsCurrent,
        NoneUnread, Schedulable
<1>. QED
  BY <1>2, <1>3, <1>4, <1>5, <1>6, <1>7 DEF Next

LEMMA Invariant == Spec => []IInv
<1>1. Init => IInv
  <2>1. Init => TypeOK
    BY InitTypes
  <2>2. ASSUME Init PROVE LastReadIsCurrent
    <3>1. LoadDefs = {}
      BY <2>2 DEF Init, LoadDefs, NoDef
    <3>. QED
      BY <2>2, <3>1 DEF Init, LastReadIsCurrent, Table, Schedulable
  <2>. QED
    BY <2>1, <2>2
    DEF Init, IInv, TicketsAreOld, EntriesTracked, ReadOnce,
        OneEntryPerDefinition
<1>. QED
  BY <1>1, InvariantStep, PTL DEF Spec

-----------------------------------------------------------------------------
(* Theorems *)

\* However many reloads overlap, no definition has two entries, so that no tick
\* starts it twice.
THEOREM AtMostOneEntry == Spec => []OneEntryPerDefinition
<1>1. IInv => OneEntryPerDefinition
  BY DEF IInv
<1>. QED
  BY <1>1, Invariant, PTL

\* The table of a quiet server is current unless a reload applied an older read
\* after a newer one.
THEOREM QuietTable == Spec => []QuietTableIsCurrent
<1>1. IInv => QuietTableIsCurrent
  BY DEF IInv, LastReadIsCurrent, NoneUnread, QuietTableIsCurrent, Settled,
         Editing
<1>. QED
  BY <1>1, Invariant, PTL

=============================================================================
