CONSTANTS
    Ids = {d1}
    Calls = {c1, c2, c3}
    Inputs = {"daily", "someday"}
    CronExprs = {"0 2 * * *"}
    Paths = {p1, p2}
    Unset = Unset
    MaxRestarts = 1
SPECIFICATION Spec
SYMMETRY Symmetry
INVARIANT TypeOK
INVARIANT QuietTableIsCurrent
INVARIANT OneEntryPerDefinition
CHECK_DEADLOCK FALSE
