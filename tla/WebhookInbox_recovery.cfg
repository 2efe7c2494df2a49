\* Undated and keyed signals with a letter older than the inbox: crashes,
\* database errors, owner retries and dismissals against the worker's loop.
CONSTANTS
    NoId = NoId
    NoTime = NoTime
    Packets <- Events
    Processors <- MCProcessors
    Legacy <- OneLegacy
    MaxReceipts = 2
    MaxTime = 1
    MaxFaults = 2
    MaxRetries = 1
    Minute = 0
    Day = 1
    Week = 0
    MaxLag = 1
SPECIFICATION FairSpec
PROPERTIES ImplementsLifecycle EverySignalDecided
