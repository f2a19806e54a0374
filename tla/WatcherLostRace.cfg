SPECIFICATION Spec
CONSTANTS
    Aids <- MCAids
    Saids <- MCSaids
    NoSaid = NoSaid
    NoEvent = NoEvent
    Raws <- ContestedRaws
    LastSns = {0}
    Workers = {w1}
    Requests = {h1}
    QueueSize = 1
    EscrowLimit = 2
    DbErrors = FALSE
    Unwatching = TRUE
    MaxArrivals = 3
    MaxRestarts = 0
INVARIANTS
    AcceptedIsFirstSeen
CHECK_DEADLOCK FALSE
