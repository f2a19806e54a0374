SPECIFICATION FairSpec
CONSTANTS
    Aids <- MCAids
    Saids <- MCSaids
    NoSaid = NoSaid
    NoEvent = NoEvent
    Raws <- ChainRaws
    LastSns = {0}
    Workers = {w1}
    Requests = {}
    QueueSize = 3
    EscrowLimit = 3
    DbErrors = FALSE
    Unwatching = FALSE
    MaxArrivals = 5
    MaxRestarts = 0
INVARIANTS
    EscrowForgetsNothing
    LmdbIsRecorded
PROPERTIES
    TasksFinish
    StopReturns
CHECK_DEADLOCK FALSE
