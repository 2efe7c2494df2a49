\* Two dated signals of one source, delivered in any order and again.
CONSTANTS
    NoId = NoId
    NoTime = NoTime
    Packets <- Bars
    Processors <- MCProcessors
    Legacy <- NoLegacy
    MaxReceipts = 3
    MaxTime = 4
    MaxFaults = 1
    MaxRetries = 1
    Minute = 0
    Day = 1
    Week = 2
    MaxLag = 1
SPECIFICATION Spec
INVARIANTS TypeOK AutomaticOnce LetterMatchesReceipt
PROPERTIES RepeatedOnlyByRetry OvertakenOnlyInDoubt NoStaleStart
