CONSTANTS
    PackCounts = {0, 1000, 1001, 2400}
    Rates = {1080}
    Packs = {p1, p2}
    Steps = {24}
SPECIFICATION Spec
INVARIANT TypeOK
INVARIANT CopiesReachDownload
INVARIANT SLANeverGivesUp
INVARIANT DeadlineLeavesDownload
PROPERTY WarmupEnds
CHECK_DEADLOCK FALSE
