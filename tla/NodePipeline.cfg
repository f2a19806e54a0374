\* Two workers and messages of every kind; one worker and credentials that change.
CONSTANTS
    Aids = {"A"}
    Schemas = {"s"}
    Foreign <- Loop
    ForeignCred <- LoopCred
    Evicts = TRUE
    MaxIssued = 2
    Workers = {"v", "w"}
    Contents <- AllContents
    Policies <- AllPolicies
    Signing = TRUE
    HandlersFail = TRUE
    MaxMessages = 2
SPECIFICATION MCSpec
CHECK_DEADLOCK FALSE
INVARIANTS
    VerifyIsTrust
    RevocationIsPrompt
PROPERTIES
    IsGatekeeper
    EveryMessageCollected
