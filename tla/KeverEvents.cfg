\* Four logs, each of them in every order.
CONSTANTS
    Ked <- MCKed
    Msgs <- MCMsgs
    Rcts <- MCRcts
    MaxAge = 2
SPECIFICATION ScenariosSpec
INVARIANTS
    KeverTypeOK
    ChainIsBacked
    SeenOnce
PROPERTIES
    RotationsStay
    HonestLogIsAccepted
