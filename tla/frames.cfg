\* frames: see PROJECT.json and README.md
SPECIFICATION Spec
CONSTANTS
    None = None
    Accounts <- JournalAccounts
    WordBits = 29
    Batches <- JournalBatches
    BaseSeqs <- JournalBaseSeqs
    MaxAppends = 3
CHECK_DEADLOCK FALSE
INVARIANTS
    ReadsIntactFrames
    OnlyTornHeaderRefused
