SPECIFICATION FairSpec
CONSTANTS
    prices = prices
    listing = listing
    sched = sched
    nobody = nobody
    Tasks <- TwoTasks
    DueHour <- Hours
    Manual = {prices}
    Deaf = {listing}
    Weekly = {listing}
    Handlers = {h1}
    Scheduler = sched
    Nobody = nobody
    Task = 2
    Lease = 3
    Poll = 4
    Cycle = 5
    Retry = 6
    Day = 6
    Week = 7
    MaxFaults = 1
INVARIANTS TypeOK OneAtWork
PROPERTIES LeaseReturned KeepsRefreshing
