SPECIFICATION FairSpec
CONSTANTS
    Capacity = 3
    MaxSlice = 3
    MaxSent = 9
INVARIANTS
    NoDataRace
    AvailableSuffices
PROPERTIES
    ImplementsFifo
    ProducerDropReported
CHECK_DEADLOCK FALSE
