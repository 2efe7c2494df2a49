--------------------------- MODULE PortfolioPlans ---------------------------
(* Rebalance plans and approved portfolio shapes: the handlers of          *)
(* portfolio_rebalance_handlers.go and portfolio_mix_handlers.go over      *)
(* their two stores and the approval policy. Requests run beside each      *)
(* other and meet only in SQLite: a transaction reads one snapshot, and    *)
(* its first write fails if anything was committed since. Weights, rows    *)
(* and the comparison with a statement are left out: a statement may match *)
(* at any time.                                                            *)
EXTENDS Naturals, Sequences

CONSTANTS
    Threads,     \* concurrent approval requests
    MaxPlans,    \* bound on plans
    MaxShapes,   \* bound on shapes
    NoPlan,
    MonthDays,   \* the length of every month
    LastMonth,   \* bound on the clock
    Legacy       \* approvals recorded before the four months' rule

Plans == 1 .. MaxPlans
Active == {"OPEN", "PARTIAL", "COMPLETED"}

Dates == UNION {[month : {m}, day : 1 .. MonthDays[m]] : m \in 0 .. LastMonth}
Before(a, b) == a.month < b.month \/ (a.month = b.month /\ a.day < b.day)

ASSUME PlansAssumption ==
    /\ MaxPlans \in Nat
    /\ MaxShapes \in Nat
    /\ NoPlan \notin Plans
    /\ LastMonth \in Nat
    /\ MonthDays \in [0 .. LastMonth + 4 -> Nat \ {0}]
    /\ Legacy \in Seq(Dates)
    /\ \A i, j \in DOMAIN Legacy : i < j => ~Before(Legacy[j], Legacy[i])

VARIABLES
    plan,     \* portfolio_rebalance_plans: the status of every id
    shapes,   \* portfolio_mix_snapshots, in the order of their ids
    now,      \* the clock
    req       \* the approval request a thread works on

vars == <<plan, shapes, now, req>>

NoRequest == [at |-> "idle", plan |-> NoPlan, now |-> now, fresh |-> FALSE]

Init ==
    /\ plan = [p \in Plans |-> "none"]
    /\ shapes = [i \in DOMAIN Legacy |->
          [at |-> Legacy[i], plan |-> NoPlan,
           status |-> IF i = Len(Legacy) THEN "APPROVED" ELSE "SUPERSEDED"]]
    /\ now \in Dates
    /\ \A i \in DOMAIN Legacy : ~Before(now, Legacy[i])
    /\ req = [t \in Threads |-> NoRequest]

Tick ==
    /\ \E d \in Dates : Before(now, d) /\ now' = d
    /\ UNCHANGED <<plan, shapes, req>>

-----------------------------------------------------------------------------
(* Plans                                                                   *)

\* A commit of another request is what an open snapshot has missed.
Missed(r) == [t \in Threads |-> [r[t] EXCEPT !.fresh = FALSE]]

\* The newest plan that is still worked on.
Current(p) ==
    /\ plan[p] \in Active
    /\ \A q \in Plans : plan[q] \in Active => q =< p

SupersedeActive == [p \in Plans |-> IF plan[p] \in Active THEN "SUPERSEDED" ELSE plan[p]]

Create(p) ==
    /\ plan[p] = "none"
    /\ \A q \in 1 .. p - 1 : plan[q] # "none"
    /\ plan' = [SupersedeActive EXCEPT ![p] = "OPEN"]
    /\ req' = Missed(req)
    /\ UNCHANGED <<shapes, now>>

\* Both write by id, whatever the plan's status.
MarkPartial(p) ==
    /\ plan[p] # "none"
    /\ plan' = [plan EXCEPT ![p] = "PARTIAL"]
    /\ req' = Missed(req)
    /\ UNCHANGED <<shapes, now>>

Complete(p) ==
    /\ plan[p] # "none"
    /\ plan' = [plan EXCEPT ![p] = "COMPLETED"]
    /\ req' = Missed(req)
    /\ UNCHANGED <<shapes, now>>

-----------------------------------------------------------------------------
(* The four months' rule                                                   *)

\* mutant: a day the month lacks becomes the first of the next month.
NextApprovalRolls(t) ==
    IF t.day > MonthDays[t.month + 4]
    THEN [month |-> t.month + 5, day |-> 1]
    ELSE [month |-> t.month + 4, day |-> t.day]

NextApprovalAt(t) ==
    LET lastDay == MonthDays[t.month + 4] IN
    [month |-> t.month + 4, day |-> IF t.day > lastDay THEN lastDay ELSE t.day]

\* The shape checkApprovalTx finds: the latest date among all of them.
Latest(i) == \A j \in DOMAIN shapes : ~Before(shapes[i].at, shapes[j].at)

Unlocked == \A i \in DOMAIN shapes : Latest(i) => ~Before(now, NextApprovalAt(shapes[i].at))

\* mutant: the shapes are superseded after the new one is stored.
ApprovedShapeLate(at, p) ==
    [i \in 1 .. Len(shapes) + 1 |->
        IF i =< Len(shapes) THEN [shapes[i] EXCEPT !.status = "SUPERSEDED"]
        ELSE [at |-> at, plan |-> p, status |-> "SUPERSEDED"]]

\* mutant: the shape replaced is not kept.
ApprovedShapeAlone(at, p) == <<[at |-> at, plan |-> p, status |-> "APPROVED"]>>

ApprovedShape(at, p) ==
    Append([i \in DOMAIN shapes |-> [shapes[i] EXCEPT !.status = "SUPERSEDED"]],
           [at |-> at, plan |-> p, status |-> "APPROVED"])

-----------------------------------------------------------------------------
(* Approval of a plan's target, in steps                                   *)

Ask(t, r) == req' = [req EXCEPT ![t] = r]
Waiting(t) == req[t].at \in {"idle", "locked"}

\* The plan is looked at before the transaction begins.
LoadPlan(t, p) ==
    /\ Waiting(t)
    /\ Current(p) /\ plan[p] = "COMPLETED"
    /\ Ask(t, [NoRequest EXCEPT !.at = "loaded", !.plan = p])
    /\ UNCHANGED <<plan, shapes, now>>

\* mutant: the plan is marked before the check, in a statement of its own.
CheckApprovalMarks(t) ==
    /\ req[t].at = "loaded"
    /\ plan' = [plan EXCEPT ![req[t].plan] = "APPROVED"]
    /\ IF Unlocked THEN Ask(t, [req[t] EXCEPT !.at = "checked", !.now = now, !.fresh = TRUE])
       ELSE Ask(t, [NoRequest EXCEPT !.at = "locked"])
    /\ UNCHANGED <<shapes, now>>

\* mutant: a request keeps its plan when it is answered.
CheckApprovalKeeps(t) ==
    /\ req[t].at = "loaded"
    /\ Ask(t, [req[t] EXCEPT !.at = IF Unlocked THEN "checked" ELSE "locked",
                             !.now = now, !.fresh = Unlocked])
    /\ UNCHANGED <<plan, shapes, now>>

\* The transaction's snapshot is taken by the check, and so is its time.
CheckApproval(t) ==
    /\ req[t].at = "loaded"
    /\ IF Unlocked THEN Ask(t, [req[t] EXCEPT !.at = "checked", !.now = now, !.fresh = TRUE])
       ELSE Ask(t, [NoRequest EXCEPT !.at = "locked"])
    /\ UNCHANGED <<plan, shapes, now>>

\* mutant: the check is made outside the transaction.
CommitApprovalStale(t) ==
    /\ req[t].at = "checked"
    /\ Len(shapes) < MaxShapes
    /\ plan' = [plan EXCEPT ![req[t].plan] = "APPROVED"]
    /\ shapes' = ApprovedShape(req[t].now, req[t].plan)
    /\ req' = [Missed(req) EXCEPT ![t] = NoRequest]
    /\ UNCHANGED now

CommitApproval(t) ==
    /\ req[t].at = "checked" /\ req[t].fresh
    /\ Len(shapes) < MaxShapes
    /\ plan' = [plan EXCEPT ![req[t].plan] = "APPROVED"]
    /\ shapes' = ApprovedShape(req[t].now, req[t].plan)
    /\ req' = [Missed(req) EXCEPT ![t] = NoRequest]
    /\ UNCHANGED now

\* A missed commit, any other error, or a restart.
ApprovalFails(t) ==
    /\ req[t].at \in {"loaded", "checked"}
    /\ Ask(t, NoRequest)
    /\ UNCHANGED <<plan, shapes, now>>

-----------------------------------------------------------------------------
(* Approval of the current mix: its first statement takes the write lock,  *)
(* and a refusal rolls it back.                                            *)

\* mutant: the plans are superseded although the approval is refused.
ApproveMixSupersedes(t) ==
    /\ Waiting(t)
    /\ plan' = SupersedeActive
    /\ IF Unlocked
       THEN /\ Len(shapes) < MaxShapes
            /\ shapes' = ApprovedShape(now, NoPlan)
            /\ req' = [Missed(req) EXCEPT ![t] = NoRequest]
       ELSE Ask(t, [NoRequest EXCEPT !.at = "locked"]) /\ UNCHANGED shapes
    /\ UNCHANGED now

ApproveMix(t) ==
    /\ Waiting(t)
    /\ IF Unlocked
       THEN /\ Len(shapes) < MaxShapes
            /\ plan' = SupersedeActive
            /\ shapes' = ApprovedShape(now, NoPlan)
            /\ req' = [Missed(req) EXCEPT ![t] = NoRequest]
       ELSE Ask(t, [NoRequest EXCEPT !.at = "locked"]) /\ UNCHANGED <<plan, shapes>>
    /\ UNCHANGED now

-----------------------------------------------------------------------------

Next ==
    \/ Tick
    \/ \E p \in Plans : Create(p) \/ MarkPartial(p) \/ Complete(p)
    \/ \E t \in Threads :
          \/ \E p \in Plans : LoadPlan(t, p)
          \/ CheckApproval(t)
          \/ CommitApproval(t)
          \/ ApprovalFails(t)
          \/ ApproveMix(t)

Spec == Init /\ [][Next]_vars

-----------------------------------------------------------------------------
(* Properties                                                              *)

Requests ==
    [at : {"idle", "loaded", "checked", "locked"}, plan : Plans \cup {NoPlan},
     now : Dates, fresh : BOOLEAN]

TypeOK ==
    /\ plan \in [Plans -> Active \cup {"none", "APPROVED", "SUPERSEDED"}]
    /\ shapes \in Seq([at : Dates, plan : Plans \cup {NoPlan}, status : {"APPROVED", "SUPERSEDED"}])
    /\ now \in Dates
    /\ req \in [Threads -> Requests]
    /\ \A t \in Threads : req[t].plan = NoPlan <=> Waiting(t)

Policy == INSTANCE ShapePolicy WITH
    today <- now, approved <- [i \in DOMAIN shapes |-> shapes[i].at]

\* Whatever requests run at once, shapes are only added, and each is approved
\* four calendar months after the one before, as the documented rule says.
KeepsPolicy == Policy!Spec

\* No two shapes approved under the rule are closer than four calendar months.
ShapesApart ==
    \A i, j \in DOMAIN shapes :
        i < j /\ j > Len(Legacy) => Policy!FourMonths(shapes[i].at, shapes[j].at)

\* An approval is refused as too early only if a shape is younger than that: a
\* month's end never costs the operator days.
LockedRightly ==
    \A t \in Threads : req[t].at = "locked" =>
        \E i \in DOMAIN shapes : ~Policy!FourMonths(shapes[i].at, req[t].now)

\* Of all shapes the newest alone is in force.
NewestInForce == \A i \in DOMAIN shapes : shapes[i].status = "APPROVED" <=> i = Len(shapes)

\* A plan shown as approved has its shape.
ApprovedHasShape ==
    \A p \in Plans : plan[p] = "APPROVED" => \E i \in DOMAIN shapes : shapes[i].plan = p

\* A plan is superseded by a new plan or a new shape, never by an approval that
\* was refused or failed.
RefusedKeepsPlan ==
    [][\A p \in Plans :
          plan'[p] = "SUPERSEDED" /\ plan[p] # "SUPERSEDED"
          => \/ Len(shapes') > Len(shapes)
             \/ \E q \in Plans : plan[q] = "none" /\ plan'[q] = "OPEN"]_vars
=============================================================================
