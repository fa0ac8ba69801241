CONSTANTS
    Snaps = {s1}
    MaxRows = 2
    Rebuilds = {b1, b2}
    None = None
SPECIFICATION Spec
INVARIANT TypeOK
INVARIANT NoOrphanListing
INVARIANT EmptyOnlyAfterRebuild
INVARIANT RebuildReindexes
PROPERTY IndexingEnds
CHECK_DEADLOCK FALSE
