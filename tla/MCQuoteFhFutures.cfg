SPECIFICATION Spec
CONSTANTS
    Sync = "futures"
    Prices = {1, 2, 3, 4, 5, 6}
    Depth = 1
    SnapshotLimit = 4
    LowWater = 3
    MaxLevels = 4
    BufferCap = 2
    Books <- MCThreeBooks
    FirstBook <- MCFirstBook
    QueueCap = 1
    MaxUpdates = 4
    MaxSpan = 2
    MaxRequests = 2
    MaxFaults <- FuturesFaults
INVARIANTS
    BookExact
    PublishedExact
PROPERTIES
    NoUnmarkedBreak
CHECK_DEADLOCK FALSE
