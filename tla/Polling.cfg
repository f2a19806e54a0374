\* The watch list and the poller, side by side.
CONSTANTS
    ListAids = {a1, a2}
    WitnessLists = {w1, w2}
    Callers = {r1, r2}
    LoadLimit = 1
    DbErrors = TRUE
    MaxCalls = 4
    MaxRestarts = 1
    Aids = {"one", "two", "mixed"}
    Flat = {"v", "w"}
    Nested = {"n"}
    WitnessesOf <- MCWitnessesOf
    Requests = {"r"}
    MaxSn = 2
    Rotations <- MCRotations
    QueueSize = 2
    Workers = 2
    Faults = {"unwatch", "crash", "expire", "error"}
    MaxFaults = 2
SPECIFICATION PartsSpec
CHECK_DEADLOCK FALSE
INVARIANTS
    PartedOnlyByOverlap
    UpToLastSn
    NothingSkipped
PROPERTIES
    EventsAreSubmitted
