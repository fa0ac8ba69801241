CONSTANTS
    Cap = 3
    MaxLines <- FewLines
    NoLine = NoLine
    MaxRestarts = 1
SPECIFICATION Spec
INVARIANT SavedLogIsOwn
CHECK_DEADLOCK FALSE
