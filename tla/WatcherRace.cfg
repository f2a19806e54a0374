SPECIFICATION Spec
CONSTANTS
    Aids <- MCAids
    Saids <- MCSaids
    NoSaid = NoSaid
    NoEvent = NoEvent
    Raws <- ContestedRaws
    LastSns = {2}
    Workers = {w1}
    Requests = {h1}
    QueueSize = 1
    EscrowLimit = 2
    DbErrors = TRUE
    Unwatching = TRUE
    MaxArrivals = 3
    MaxRestarts = 1
INVARIANTS
    KelFollowsLmdb
    AccusedAsSent
    AnswersAreBacked
    ResolvedIsSeen
PROPERTIES
    IsFirstSeenLog
CHECK_DEADLOCK FALSE
