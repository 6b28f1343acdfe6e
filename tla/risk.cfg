\* risk: see PROJECT.json and README.md
SPECIFICATION RiskSpec
CONSTANTS
    None = None
    Accounts <- AB
    NewOrders <- RiskMenu
    Amendments <- RiskAmendments
    MaxCommands = 5
    TickSize = 5
    LotSize = 2
    BandTicks = 1
    PositionLimit = 8
    MakerPpm <- Rebate
    TakerPpm = 4
    PpmScale = 100
    FeeMax = 1000
CHECK_DEADLOCK FALSE
INVARIANTS
    OpenVolumeIsBook
    NetsBalance
    WithinPositionLimit
    OnGrid
