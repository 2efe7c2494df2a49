\* The weight policy proposes, withdraws and waits while the operator reports
\* and statements arrive; the mode of management changes.
CONSTANTS
    t1 = t1
    t2 = t2
    Threads <- Pair
    Nobody = Nobody
    NoSignal = NoSignal
    Signals <- Weights
    Requests <- Settling
    Etfs <- Funds
    Managed = TRUE
    Readers = {}
    MaxAlerts = 2
    MaxImports = 2
    MaxFaults = 0
SYMMETRY Swap
SPECIFICATION Spec
INVARIANTS VerdictIsLater
PROPERTIES WeightWaits
