SPECIFICATION Spec
CONSTANTS
    Procs = {p1, p2}
    Stacks = {s1}
    None = None
    MaxRequests = 3
    MaxRestarts = 1
PROPERTY RestoresFallBack
CHECK_DEADLOCK FALSE
