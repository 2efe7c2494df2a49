\* Two requests at a time on an Exit and a purchase of one security; weight
\* management is off here and on in the other instances.
CONSTANTS
    t1 = t1
    t2 = t2
    Threads <- Pair
    Nobody = Nobody
    NoSignal = NoSignal
    Signals <- ExitAndBuy
    Requests <- Answers
    Etfs = {}
    Managed = FALSE
    Readers = {}
    MaxAlerts = 2
    MaxImports = 0
    MaxFaults = 1
SYMMETRY Swap
SPECIFICATION Spec
INVARIANTS TypeOK ExitNeverSilent NeverReportedTwice
PROPERTIES NeverRequeued
