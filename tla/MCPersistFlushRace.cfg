SPECIFICATION Spec
CONSTANTS
    Null = Null
    Bad = Bad
    Query = {a, b}
    Capacity = 2
    MemoryLimit = 0
    Job = {j1}
    MaxHandlers = 1
    MaxInserts = 2
    MaxStarts = 2
INVARIANT FlushSticks
CHECK_DEADLOCK FALSE
