\* A decision on an Exit and a poll of the queue.
CONSTANTS
    t1 = t1
    t2 = t2
    Threads <- Pair
    Nobody = Nobody
    NoSignal = NoSignal
    Signals <- Exits
    Requests <- Decisions
    Etfs = {}
    Managed = TRUE
    Readers = {}
    MaxAlerts = 1
    MaxImports = 0
    MaxFaults = 0
SYMMETRY Swap
SPECIFICATION Spec
INVARIANTS ExitNeverExpires
