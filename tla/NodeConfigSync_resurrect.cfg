SPECIFICATION Spec
CONSTANTS
    t1 = t1
    x1 = x1
    x2 = x2
    a1 = a1
    Absent = Absent
    Tags = {t1}
    Clients = {x1, x2}
    Admins = {a1}
    StartOnNode = {t1}
    MaxEdits = 2
    MaxFaults = 1
    MaxNodeEdits = 0
    MaxGen = 1
PROPERTY DeletedStaysDeleted
CHECK_DEADLOCK FALSE
