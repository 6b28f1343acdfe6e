\* restart: see PROJECT.json and README.md
SPECIFICATION SnapshotSpec
CONSTANTS
    None = None
    Accounts <- AB
    NewOrders <- SnapshotMenu
    Amendments <- SnapshotAmendments
    MaxCommands = 5
    TickSize = 0
    LotSize = 0
    BandTicks = 0
    PositionLimit = 0
    MakerPpm <- Rebate
    TakerPpm = 4
    PpmScale = 100
    FeeMax = 1000
    WordBits = 29
CHECK_DEADLOCK FALSE
PROPERTIES
    RestoresExactly
