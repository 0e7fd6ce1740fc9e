SPECIFICATION CarefulSpec
CONSTANTS
    None = None
    Dir = Dir
    Lost = Lost
    Values = {v}
    Keys <- MCKeys
    Names <- MCNames
    Contexts <- MCContexts
    Trees <- MCTrees
    MaxCalls = 5
    MaxDepth = 2
INVARIANTS HashCacheSound CommitsReadable HashRepeats WalkerMatches ReadsAgree ChangesAgree HistoryAgrees
PROPERTY ImplementsContextMap
CHECK_DEADLOCK FALSE
