CONSTANTS
    ReaderBytes = 2
    BatchRows = 1
    GracePartitions = 2
    GraceMaxDepth = 1
    HeapFactor = 2
    GroupBytes = 1
    Int64Max = 4
    AvgScale = 6
    SqlKinds = {"join"}
SPECIFICATION sqSpec
CHECK_DEADLOCK FALSE
INVARIANT RowsKeptOnlyWhenTrue
