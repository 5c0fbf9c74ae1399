SPECIFICATION ServingSpec
CONSTANTS
    Callers = {c1, c2}
    Controllers = {k1}
    Free = Free
    QueueSize = 1
    MaxGen = 1
CHECK_DEADLOCK TRUE
INVARIANTS
    NeverConcurrent
