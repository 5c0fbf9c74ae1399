SPECIFICATION FairSpec
CONSTANTS
    Ids = {mail, telegram}
    Gens = {1, 2}
    Watched = mail
    Slow = {telegram}
    BufferSize = 1
    QueueSize = 1
    None = None
    NodesBound = 4
    CoreBound = 3
    Nodes = {n1, n2}
    Threshold = 2
    Burst = 1
    Editors = {r1, r2}
    Operators = {admin}
CHECK_DEADLOCK FALSE
INVARIANTS
    OneCore
    StopStands
    DivergenceIsKnown
    SaidIsRemembered
    InPublicationOrder
    NothingGoesMissing
PROPERTIES
    PublishedIsSettled
    ReplacedWorkersEnd
    StopEnds
    OnlyChangesAreTold
    LastNoticeIsTrue
    CoreRecovers
    EditsArrive
