CONSTANTS
    Jobs = {j1}
    IndexBatches = 2
    MaxRestarts = 1
SPECIFICATION Spec
INVARIANT TypeOK
INVARIANT WarmupNotifiedAtMostOnce
INVARIANT HonestWarmupSignal
INVARIANT CompletedMeansRestored
INVARIANT NoRowLeftBehind
INVARIANT FullRestoreSignalled
PROPERTY EveryRestoreSettles
CHECK_DEADLOCK FALSE
