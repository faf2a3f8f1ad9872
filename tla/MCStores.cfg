CONSTANTS
    Block <- MCBlock
    Genesis <- MCGenesis
    Prev <- MCPrev
    Num <- MCNum
    Ancestry <- MCAncestry
    Lib <- MCLib
    Rank <- MCRank
    EntrySize <- MCEntrySize
    MaxCredit = 1
    MaxQueue = 1
    MaxBlock = 3
    BufferLength = 2
    Width = 3
    MinHistory = 1
    MinUncompressed = 0
    MaxHeight = 4
    MaxStops = 1
    MaxRows = 3
    Requested = {2}
    Forked = {2}
SPECIFICATION Spec
INVARIANTS LogSound HistorySound TracesSound
PROPERTIES RestartIsInvisible SnapshotsSound
CHECK_DEADLOCK FALSE
