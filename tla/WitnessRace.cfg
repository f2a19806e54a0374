SPECIFICATION Spec
CONSTANTS
    Aids <- MCAids
    Saids <- MCSaids
    NoSaid = NoSaid
    Raws <- ContestedRaws
    SigSets <- SignedOrNot
    Workers = {w1, w2}
    Requests = {}
    QueueSize = 1
    EscrowLimit = 1
    MaxSubmits = 4
    MaxRestarts = 0
INVARIANTS
    ChainIntact
    ReplayNeverReescrows
PROPERTIES
    ForkNeedsStaleRead
CHECK_DEADLOCK FALSE
