\* Two AIDs, for which rotations keep to the order of calls or do not.
CONSTANTS
    Keys <- MCKeys
    SeedKeys <- MCSeedKeys
    NoKey = NoKey
    NoAid = NoAid
    Aids <- MCAids
    Prefix <- MCPrefix
    NoDigest = NoDigest
    Offered = {"dip", "rot", "ixn"}
    KeyLists <- OneKey
    Nexts = {NoKey}
    Delegators = {"A"}
    CallerKeys = {"k1"}
    Backups <- TwoBackups
    Wallet = TRUE
    MaxEvents = 5
    MaxSaves = 1
SPECIFICATION MCSpec
CHECK_DEADLOCK FALSE
INVARIANTS
    HotKeysSign
    KeysFollowLog
PROPERTIES
    IsFirstSeenLog
