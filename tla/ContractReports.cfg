\* Reports between the steps of the requests of two threads.
CONSTANTS
    Parts = {"reporting"}
    Workers = {"w", "x"}
    Contracts = {"g"}
    Specs <- MCReportSpecs
    Ops = {"create", "update", "delete", "remove"}
    Removable <- MCReportRemovable
    MaxRequests = 3
    MaxErrors = 0
    Clients = {c1, c2}
    Entries = {e}
    Unknown = {u}
    Nodes = {"a", "b", "c", "x"}
    Modules = {"a", "b", "c"}
    Mentions = {1, 2}
    Graphs <- MCGraphs
SPECIFICATION PartsSpec
CHECK_DEADLOCK FALSE
INVARIANT ReportIsWhole
