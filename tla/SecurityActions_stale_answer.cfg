\* An Ignore that read the action before it was recorded.
CONSTANTS
    t1 = t1
    t2 = t2
    Threads <- Pair
    Nobody = Nobody
    NoSignal = NoSignal
    Signals <- Buys
    Requests <- Answers
    Etfs = {}
    Managed = TRUE
    Readers = {}
    MaxAlerts = 1
    MaxImports = 0
    MaxFaults = 0
SYMMETRY Swap
SPECIFICATION Spec
PROPERTIES RecordedStaysLocked
