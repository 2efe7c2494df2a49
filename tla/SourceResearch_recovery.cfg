SPECIFICATION FairSpec
CONSTANTS
    Requests = {r1}
    r1 = r1
    r2 = r2
    r3 = r3
    s1 = s1
    s2 = s2
    Securities = {s1, s2}
    Target <- SingleRequest
    Runs = {i1, i2}
    Tabs = {t1}
    Operators = {h1, h2}
    MaxActive = 2
    MaxRequests = 1
    MaxFaults = 2
    Absent = Absent
INVARIANTS TypeOK AtMostOnePaidRun
PROPERTIES ImplementsPromise EveryJobDecided
