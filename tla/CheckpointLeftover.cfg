CONSTANTS
    None = None
    Durability = {"Safe"}
    MaxCommits = 3
    MaxWal = 5
    MaxFaults = 2
SPECIFICATION Spec
CHECK_DEADLOCK FALSE
INVARIANT
    KillAlwaysRecovers
