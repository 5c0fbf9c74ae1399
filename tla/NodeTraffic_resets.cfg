SPECIFICATION FairSpec
CONSTANTS
    Nodes = {n1}
    None = None
    Total = 1
    MaxUse = 2
    MaxResets = 2
    MaxFaults = 1
CHECK_DEADLOCK TRUE
INVARIANTS
    CountedOnce
    WindowIsClean
    FreshResetSurvives
PROPERTIES
    LatchIsAboutThisWindow
    ResetsArrive
    SwitchesAgree
