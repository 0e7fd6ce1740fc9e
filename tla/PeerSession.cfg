SPECIFICATION FairSpec
CONSTANTS
    Null = Null
    Profiles <- AllProfiles
    PeerKinds = {"GetOperationsForBlocks", "GetCurrentHead", "CurrentHead"}
    MaxSplit = 2
    MaxBlocks = 2
    MaxNonce = 6
    MaxPeerNonce = 5
INVARIANTS
    DecryptsUnlessFuzzed
    ReadsAligned
    BurstBound
PROPERTIES
    Reconnects
CHECK_DEADLOCK FALSE
