\* Contract store without reports, verification server and workflow executor, side by side.
CONSTANTS
    Parts = {"alone", "deleting", "server", "workflow"}
    Workers = {"w", "x"}
    Contracts = {"c", "d", "e"}
    Specs <- MCSpecs
    Ops = {"create", "update", "delete", "remove"}
    Removable <- MCRemovable
    MaxRequests = 4
    MaxErrors = 1
    Clients = {c1, c2}
    Entries = {e}
    Unknown = {u}
    Nodes = {"a", "b", "c", "x"}
    Modules = {"a", "b", "c"}
    Mentions = {1, 2}
    Graphs <- MCGraphs
SPECIFICATION PartsSpec
CHECK_DEADLOCK FALSE
INVARIANTS
    StoreTypeOK
    DeletedIsGone
    OneDueAnswer
    EntriesAccountedFor
    OnlyCyclesRefused
PROPERTIES
    IsAtomicContracts
