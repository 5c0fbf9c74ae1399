SPECIFICATION Spec
CONSTANTS
    Units = {u1}
    Regs = {r1}
    Batches = {b1}
    None = None
    MaxServers = 1
    MaxFaults = 0
    MaxCrashes = 0
CHECK_DEADLOCK TRUE
INVARIANTS
    RetiredTrafficKept
