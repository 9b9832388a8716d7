CONSTANTS
    Committers = {c1, c2}
    HasDerived = TRUE
    AsyncVectors = FALSE
    IndexPool = 4
    MaintenancePool = 2
    MemtableMax = 2
    CommitBound = 5
    MaxExplicit = 1
    FaultBound = 0
SPECIFICATION mpSpec
CHECK_DEADLOCK FALSE
INVARIANT NoStandstill
