\* faults: see PROJECT.json and README.md
SPECIFICATION Spec
CONSTANTS
    MaxCommands = 4
    MaxBatch = 2
    MaxFrames = 4
    Faults = {"torn", "reopen", "retry"}
CHECK_DEADLOCK FALSE
INVARIANTS
    LostOnlyIfMisplaced
    TornHeaderHoldsNothing
    CallsAreWhole
    CheckpointHeals
