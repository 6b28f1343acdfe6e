\* peak: see PROJECT.json and README.md
SPECIFICATION PeakSpec
CONSTANTS
    None = None
    Accounts <- AB
    NewOrders <- BookMenu
    Amendments <- BookAmendments
    MaxCommands = 5
    TickSize = 0
    LotSize = 0
    BandTicks = 0
    PositionLimit = 0
    MakerPpm <- Rebate
    TakerPpm = 4
    PpmScale = 100
    FeeMax = 1000
CHECK_DEADLOCK FALSE
INVARIANTS
    PeakKept
