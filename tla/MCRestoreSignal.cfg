CONSTANTS
    Jobs = {j1}
    IndexBatches = 2
    MaxRestarts = 1
SPECIFICATION Spec
INVARIANT EveryWarmupSignalled
CHECK_DEADLOCK FALSE
