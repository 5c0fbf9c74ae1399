SPECIFICATION FairSpec
CONSTANTS
    Requests = {r1}
    Sync = sync
    Entries = {e1, e2, e3, e4}
    None = None
    MaxEdits = 3
    MaxFaults = 1
CHECK_DEADLOCK TRUE
INVARIANTS
    NoStray
    FingerprintIsTrue
PROPERTIES
    Converges
    HandOffsRecover
