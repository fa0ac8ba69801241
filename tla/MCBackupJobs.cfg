CONSTANTS
    Jobs = {j1, j2}
    Defs = {d1}
    NoDef = NoDef
    MaxRestarts = 1
SPECIFICATION Spec
INVARIANT TypeOK
INVARIANT RunningHasGoroutine
INVARIANT CancelReaches
INVARIANT CompletedIsCatalogued
PROPERTY ImplementsLedger
PROPERTY TerminalIsFinal
PROPERTY LaterSyncRepairs
PROPERTY CancelEndsTheRun
PROPERTY ScheduledRunEnds
CHECK_DEADLOCK FALSE
