SPECIFICATION Spec
CONSTANTS
    Procs = {p1, p2}
    Stacks = {s1}
    None = None
    MaxRequests = 3
    MaxRestarts = 1
INVARIANTS TypeOK ProxyReflectsStore OneDistributionPerStack RestoreReadsSucceed SetupOpensRepository
PROPERTIES RequestsEnd
CHECK_DEADLOCK FALSE
