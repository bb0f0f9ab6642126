\* A saved generator restored in the process it was saved in, next to the one it is a copy of.
SPECIFICATION GSpec
CONSTANTS
    Limit = 2
    Processes = {1, 2}
    Environments = {1, 2}
    MaxCalls = 3
    MaxCopies = 1
    MaxStops = 0
INVARIANT CopiesReseed
CHECK_DEADLOCK FALSE
