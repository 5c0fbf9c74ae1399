SPECIFICATION FairSpec
CONSTANTS
    Units = {u1}
    Regs = {r1, r2}
    Batches = {b1, b2}
    None = None
    MaxServers = 2
    MaxFaults = 2
    MaxCrashes = 1
CHECK_DEADLOCK TRUE
INVARIANTS
    BilledAtMostOnce
    TakenIsKept
    StopAccounts
PROPERTIES
    JournalIsBilled
    ImplementsLedger
