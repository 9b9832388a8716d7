CONSTANTS
    ReaderBytes = 2
    BatchRows = 1
    GracePartitions = 2
    GraceMaxDepth = 1
    HeapFactor = 2
    GroupBytes = 1
    Int64Max = 4
    AvgScale = 6
    SqlKinds = {"sort", "join", "single", "aggregate"}
    Parents = {1, 2}
    Children = {1, 2}
    KeyValues = {1, 2}
    Clients = {1, 2}
    OnDelete = {"Restrict", "Cascade"}
    MaxStatements = 2
    BatchMembers = 2
    d1 = d1
    d2 = d2
    e1 = e1
    e2 = e2
SPECIFICATION smSpec
SYMMETRY Symmetry
CHECK_DEADLOCK FALSE
INVARIANTS
    StagedIsLastWrite ReplayOnlyBlindDeltas BudgetExact
    UniqueHolds ForeignKeysHold PayloadsMatchCatalog NotNullHonest
    CursorPagesExact TxnAnswersHonest
    SortsExact SelectsExact AggregationsExact
PROPERTY WritesAsReported
