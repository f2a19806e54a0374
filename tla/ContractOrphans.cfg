\* One thread, no failing call: a sub-contract is removed, then its contract deleted.
CONSTANTS
    Parts = {"alone"}
    Workers = {"w"}
    Contracts = {"c", "d", "e"}
    Specs <- MCSpecs
    Ops = {"create", "update", "delete", "remove"}
    Removable <- MCRemovable
    MaxRequests = 4
    MaxErrors = 0
    Clients = {c1, c2}
    Entries = {e}
    Unknown = {u}
    Nodes = {"a", "b", "c", "x"}
    Modules = {"a", "b", "c"}
    Mentions = {1, 2}
    Graphs <- MCGraphs
SPECIFICATION PartsSpec
CHECK_DEADLOCK FALSE
INVARIANT NoOrphans
