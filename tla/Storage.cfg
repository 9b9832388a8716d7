CONSTANTS
    None = None
    Bad = Bad
    MaxGen = 3
    MaxFaults = 6
    Ids = {r1}
    Threads = 2
    Writers = {w1}
    MaxCommits = 3
    MaxBlobs = 2
    MaxRewrites = 1
    LevelFanout = 2
    MaxSegments = 5
    MaxFailures = 1
    Committers = {c1, c2}
    HasDerived = TRUE
    AsyncVectors = TRUE
    IndexPool = 3
    MaintenancePool = 2
    MemtableMax = 2
    CommitBound = 3
    MaxExplicit = 1
    FaultBound = 1
    v1 = v1
    v2 = v2
SPECIFICATION stSpec
SYMMETRY Symmetry
CHECK_DEADLOCK FALSE
INVARIANTS
    TypeOK AlwaysLoadable ServedIsDurable NoDanglingManifest
    SnapshotPreserved LatestReadable OverlayNewer
    RunsCoverSegments VectorsSearchable IndexMatchesLatest ReadsExact
    NoOtherStandstill MaintenanceAlone RefusedOnlyWhenDrained MapsExact
PROPERTY ImplementsSnapshots
