SPECIFICATION FairSpec
CONSTANTS
    t1 = t1
    t2 = t2
    x1 = x1
    a1 = a1
    Absent = Absent
    Tags = {t1, t2}
    Clients = {x1}
    Admins = {a1}
    StartOnNode = {t1}
    MaxEdits = 1
    MaxFaults = 2
    MaxNodeEdits = 1
    MaxGen = 2
PROPERTIES NoEditForgotten MergeNeverOverridesAnEdit Converges DroppedOnlyIfDeleted SweepsOnlyManaged
CHECK_DEADLOCK FALSE
