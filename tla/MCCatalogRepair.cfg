CONSTANTS
    Snaps = {s1}
    MaxRows = 2
    Rebuilds = {b1}
    None = None
SPECIFICATION Spec
INVARIANT RebuildRepairs
CHECK_DEADLOCK FALSE
