\* feeds: see PROJECT.json and README.md
SPECIFICATION FeedSpec
CONSTANTS
    None = None
    Accounts <- AB
    NewOrders <- RetreatMenu
    Amendments <- RetreatAmendments
    MaxCommands = 4
    TickSize = 0
    LotSize = 0
    BandTicks = 0
    PositionLimit = 0
    MakerPpm <- Rebate
    TakerPpm = 4
    PpmScale = 100
    FeeMax = 1000
    TapeCap = 2
    MaxBatch = 2
    ChannelCap = 2
CHECK_DEADLOCK FALSE
INVARIANTS
    L2InSync
    L3InSync
    L3KnowsOrders
    TapeEndsAtLastTrade
