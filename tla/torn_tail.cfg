\* torn_tail: see PROJECT.json and README.md
SPECIFICATION Spec
CONSTANTS
    MaxCommands = 5
    MaxBatch = 2
    MaxFrames = 5
    Faults = {"torn"}
CHECK_DEADLOCK FALSE
INVARIANTS
    AckedSurvives
