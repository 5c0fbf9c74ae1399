SPECIFICATION Spec
CONSTANTS
    t1 = t1
    t2 = t2
    x1 = x1
    a1 = a1
    Absent = Absent
    Tags = {t1, t2}
    Clients = {x1}
    Admins = {a1}
    StartOnNode = {t1}
    MaxEdits = 2
    MaxFaults = 0
    MaxNodeEdits = 0
    MaxGen = 1
PROPERTY SweepsOnlyImported
CHECK_DEADLOCK FALSE
