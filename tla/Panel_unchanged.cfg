SPECIFICATION Spec
CONSTANTS
    Ids = {mail}
    Gens = {1}
    Watched = mail
    Slow = {}
    BufferSize = 1
    QueueSize = 1
    None = None
    NodesBound = 0
    CoreBound = 3
    Nodes = {n1}
    Threshold = 2
    Burst = 1
    Editors = {r1}
    Operators = {}
CHECK_DEADLOCK FALSE
INVARIANTS
    UnchangedMeansServed
