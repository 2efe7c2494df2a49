\* Two requests at a time, two plans, one shape from before the rule. The bounds
\* on plans, shapes and the clock end every behaviour.
CONSTANTS
    t1 = t1
    t2 = t2
    Threads <- Pair
    MaxPlans = 2
    MaxShapes = 3
    NoPlan = NoPlan
    MonthDays <- Lengths
    LastMonth <- Months
    Legacy <- OneLegacy
SYMMETRY Swap
SPECIFICATION Spec
INVARIANTS TypeOK ShapesApart LockedRightly NewestInForce ApprovedHasShape
PROPERTIES KeepsPolicy RefusedKeepsPlan
