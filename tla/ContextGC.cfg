SPECIFICATION CarefulSpec
CONSTANTS
    None = None
    PRESERVE_CYCLE_COUNT = 3
    Levels = 2
    QueueSize = 1
    MaxId = 10
    MaxHashed = 1
    MaxCommands = 1
    MaxCycles = 4
INVARIANTS EveryIdOwnedOnce Retained
CHECK_DEADLOCK FALSE
