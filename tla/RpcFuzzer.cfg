SPECIFICATION Spec
CONSTANTS
    ShellSchemas <- MCShellSchemas
    ProtocolSchemas <- MCProtocolSchemas
    Replies <- MCReplies
    UriSafe = {"c1", "h1", "h2"}
    Sizes = {2}
    MaxDepth = 2
    MaxEmpty = 1
    Rounds = {1, 2}
INVARIANTS
    
    KnowsWhatWasSaid
PROPERTY KeepsAsking
