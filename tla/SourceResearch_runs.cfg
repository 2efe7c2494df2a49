\* Two jobs, about one security or about two, one operator, one fault.
SPECIFICATION Spec
CONSTANTS
    Requests = {r1, r2, r3}
    r1 = r1
    r2 = r2
    r3 = r3
    s1 = s1
    s2 = s2
    Securities = {s1, s2}
    Target <- SameOrOther
    Runs = {i1, i2}
    Tabs = {t1}
    Operators = {h1}
    MaxActive = 2
    MaxRequests = 2
    MaxFaults = 1
    Absent = Absent
SYMMETRY Alike
INVARIANTS OwnRunOnly SpendingBounded
