CONSTANTS
    Cap = 3
    MaxLines <- FewLines
    NoLine = NoLine
    MaxRestarts = 1
SPECIFICATION Spec
INVARIANT TypeOK
INVARIANT ShortLogHasNoGap
PROPERTY StreamIsFeed
PROPERTY StreamEnds
PROPERTY LinesArrive
CHECK_DEADLOCK FALSE
