SPECIFICATION FairSpec
CONSTANTS
    Callers = {c1, c2}
    Controllers = {k1, k2}
    Free = Free
    QueueSize = 1
    MaxGen = 2
CHECK_DEADLOCK TRUE
INVARIANTS
    TypeOK
    NoAcceptedWriteLost
    AnswerIsTheTruth
    AtMostOneWriter
PROPERTIES
    ImplementsAtomicWrites
    EverySubmitReturns
    EveryStopReturns
