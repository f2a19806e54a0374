SPECIFICATION FairSpec
CONSTANTS
    Aids <- MCAids
    Saids <- MCSaids
    NoSaid = NoSaid
    Raws <- SerialRaws
    SigSets <- SignedOrNot
    Workers = {w1}
    Requests = {h1}
    QueueSize = 1
    EscrowLimit = 1
    MaxSubmits = 3
    MaxRestarts = 1
INVARIANTS
    ReceiptIsOwn
PROPERTIES
    IsFirstSeenLog
    InceptionReceiptFinal
    TasksFinish
    QueueDrains
CHECK_DEADLOCK FALSE
