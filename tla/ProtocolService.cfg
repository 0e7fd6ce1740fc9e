SPECIFICATION FairSpec
CONSTANTS
    Writers = {w}
    Readers = {r}
    Calls <- SomeCalls
    MaxRequests <- Requests
INVARIANTS AnswersShifted PooledHaveContext NoWaiterForgotten
PROPERTIES OperationsEnd
CHECK_DEADLOCK FALSE
