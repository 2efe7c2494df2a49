\* Decisions and dismissals by alert against a page that polls the queue.
CONSTANTS
    t1 = t1
    t2 = t2
    Threads <- Pair
    Nobody = Nobody
    NoSignal = NoSignal
    Signals <- Exits
    Requests <- Decisions
    Etfs = {}
    Managed = TRUE
    Readers <- Page
    MaxAlerts = 2
    MaxImports = 0
    MaxFaults = 1
SPECIFICATION FairSpec
INVARIANTS ExitNeverSilent
PROPERTIES EveryAlertQueued ReleasedInTheEnd
