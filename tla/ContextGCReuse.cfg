SPECIFICATION CarefulSpec
CONSTANTS
    None = None
    PRESERVE_CYCLE_COUNT = 3
    Levels = 2
    QueueSize = 2
    MaxId = 9
    MaxHashed = 1
    MaxCommands = 1
    MaxCycles = 4
INVARIANTS KnownCommitsIntact
CHECK_DEADLOCK FALSE
