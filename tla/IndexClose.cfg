CONSTANTS
    Ids = {1, 2}
    Keys = {1, 2}
    InitialTables <- PlainColumn
    BatchRows = 1
    ScanChunk = 1
    LogMax = 1
    TailEntries = 1
    Fanout = 2
    Attempts = 2
    MaxCommits = 2
    MaxFaults = 1
    MaxOpens = 1
    MaxReads = 1
SPECIFICATION irSpec
CHECK_DEADLOCK FALSE
INVARIANT IndexAlwaysMatchesLatest
