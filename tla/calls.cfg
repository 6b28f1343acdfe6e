\* calls: see PROJECT.json and README.md
SPECIFICATION LedgerSpec
CONSTANTS
    None = None
    Accounts <- AB
    NewOrders <- LedgerMenu
    Amendments <- LedgerAmendments
    MaxCommands = 5
    TickSize = 0
    LotSize = 0
    BandTicks = 0
    PositionLimit = 0
    MakerPpm <- Rebate
    TakerPpm = 4
    PpmScale = 100
    FeeMax = 1000
CHECK_DEADLOCK FALSE
INVARIANTS
    StopsDormant
    OneHome
    LedgerMatchesBook
    FeesAddUp
    VenueNeverPays
PROPERTIES
    CallReturns
