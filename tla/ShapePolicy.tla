---------------------------- MODULE ShapePolicy ----------------------------
(* What DOCS/system/PORTFOLIO_CYCLES.md promises of approved portfolio     *)
(* shapes, without plans, requests or transactions: the list of approvals  *)
(* only grows, and each comes four calendar months after the one before.   *)
EXTENDS Naturals, Sequences

CONSTANTS
    MonthDays,   \* the length of every month
    LastMonth,   \* the last month the clock reaches
    Legacy       \* approvals recorded before the rule existed

VARIABLES today, approved

Dates == UNION {[month : {m}, day : 1 .. MonthDays[m]] : m \in 0 .. LastMonth}

Before(a, b) == a.month < b.month \/ (a.month = b.month /\ a.day < b.day)

\* In the fourth month after, the same day, or the last one if there is no such
\* day; or any later month.
FourMonths(a, b) ==
    \/ b.month > a.month + 4
    \/ /\ b.month = a.month + 4
       /\ b.day >= a.day \/ b.day = MonthDays[b.month]

Init ==
    /\ approved = Legacy
    /\ today \in Dates
    /\ \A i \in DOMAIN Legacy : ~Before(today, Legacy[i])

Advance ==
    /\ \E d \in Dates : Before(today, d) /\ today' = d
    /\ UNCHANGED approved

\* The first approval is unrestricted.
Approve ==
    /\ \E d \in Dates :
          /\ ~Before(today, d)
          /\ \A i \in DOMAIN approved : i = Len(approved) => FourMonths(approved[i], d)
          /\ approved' = Append(approved, d)
    /\ UNCHANGED today

Spec == Init /\ [][Advance \/ Approve]_<<today, approved>>

\* What the policy comes to: no four consecutive approvals under the rule fall
\* within twelve calendar months.
ThreeAYear ==
    \A i \in DOMAIN approved :
        i + 3 \in DOMAIN approved /\ i + 1 > Len(Legacy) =>
            approved[i + 3].month >= approved[i].month + 12

\* No approval is withdrawn or dated anew.
Kept ==
    [][\A i \in DOMAIN approved :
          i \in DOMAIN approved' /\ approved'[i] = approved[i]]_<<today, approved>>
=============================================================================
