SPECIFICATION Spec
CONSTANTS
    Blocks = {b1, b2}
    Operations = {o1}
    Contexts = {c1}
    Actions <- MCActions
    Commits <- MCCommits
    ChannelBound = 1
    MaxMessages <- MCMaxMessages
    MaxSent = 9
    MaxErrors = 1
SYMMETRY BlockSymmetry
CHECK_DEADLOCK FALSE
INVARIANTS
    WholeBlocks
    GlobalStatsAddUp
PROPERTY GlobalStatsGrow
