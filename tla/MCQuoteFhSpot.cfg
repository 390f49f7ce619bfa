SPECIFICATION LiveSpec
CONSTANTS
    Sync = "spot"
    Prices = {1, 2, 3, 4, 5, 6}
    Depth = 1
    SnapshotLimit = 4
    LowWater = 3
    MaxLevels = 4
    BufferCap = 2
    Books <- MCBooks
    FirstBook <- MCFirstBook
    QueueCap = 1
    MaxUpdates = 3
    MaxSpan = 2
    MaxRequests = 2
    MaxFaults <- SpotFaults
INVARIANTS
    TypeOK
    BookExact
    PublishedExact
    RequestWatched
PROPERTIES
    RefreshKeepsChain
    RequestEnds
CHECK_DEADLOCK FALSE
