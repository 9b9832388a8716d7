CONSTANTS
    None = None
    Durability = {"Safe", "Balanced", "Fast"}
    MaxCommits = 3
    MaxWal = 5
    MaxFaults = 3
SPECIFICATION Spec
CHECK_DEADLOCK FALSE
INVARIANTS
    KillRecoversAll
    RecoversUnlessExposed
    ExtentRecorded
