------------------------ MODULE PortfolioPlansProofs ------------------------
(* Proofs about PortfolioPlans, for any number of requests, plans, shapes  *)
(* and any calendar.                                                       *)
EXTENDS PortfolioPlans, TLAPS

Shape == [at : Dates, plan : Plans \cup {NoPlan}, status : {"APPROVED", "SUPERSEDED"}]

-----------------------------------------------------------------------------
(* The calendar                                                            *)

LEMMA MonthsOK ==
    /\ LastMonth \in Nat
    /\ \A m \in 0 .. LastMonth : m \in Nat /\ m + 4 \in 0 .. LastMonth + 4
    /\ \A m \in 0 .. LastMonth + 4 : MonthDays[m] \in Nat \ {0}
<1>1. LastMonth \in Nat /\ MonthDays \in [0 .. LastMonth + 4 -> Nat \ {0}]
  BY PlansAssumption
<1>. QED  BY <1>1

\* A date is a day its month has.
LEMMA DateFacts ==
    ASSUME NEW d
    PROVE  d \in Dates <=> /\ d \in [month : 0 .. LastMonth, day : Nat \ {0}]
                           /\ d.day =< MonthDays[d.month]
<1>. USE PlansAssumption
<1>1. ASSUME d \in Dates
      PROVE  d \in [month : 0 .. LastMonth, day : Nat \ {0}] /\ d.day =< MonthDays[d.month]
  <2>1. PICK m \in 0 .. LastMonth : d \in [month : {m}, day : 1 .. MonthDays[m]]
    BY <1>1 DEF Dates
  <2>. QED  BY <2>1
<1>2. ASSUME d \in [month : 0 .. LastMonth, day : Nat \ {0}], d.day =< MonthDays[d.month]
      PROVE  d \in Dates
  <2>1. d \in [month : {d.month}, day : 1 .. MonthDays[d.month]]
    BY <1>2
  <2>. QED  BY <1>2, <2>1 DEF Dates
<1>. QED  BY <1>1, <1>2

\* The code's clamped date says what the policy says in words: an approval is due
\* from NextApprovalAt on exactly when four calendar months have passed, the last
\* day of a shorter month standing for the days it lacks.
THEOREM Rule ==
    ASSUME NEW a \in Dates, NEW d \in Dates
    PROVE  ~Before(d, NextApprovalAt(a)) <=> Policy!FourMonths(a, d)
<1>1. /\ a.month \in 0 .. LastMonth /\ a.day \in Nat \ {0}
      /\ d.month \in 0 .. LastMonth /\ d.day \in Nat \ {0}
      /\ d.day =< MonthDays[d.month]
  BY DateFacts
<1>5. a.month \in Nat /\ d.month \in Nat /\ a.day \in Nat /\ d.day \in Nat
  BY <1>1, MonthsOK
<1>2. MonthDays[a.month + 4] \in Nat \ {0}
  BY <1>1, MonthsOK
<1>3. CASE d.month = a.month + 4
  BY <1>1, <1>5, <1>2, <1>3 DEF Before, NextApprovalAt, Policy!FourMonths
<1>4. CASE d.month # a.month + 4
  BY <1>1, <1>5, <1>2, <1>4 DEF Before, NextApprovalAt, Policy!FourMonths
<1>. QED  BY <1>3, <1>4

\* What is four months after a date is four months after every earlier one.
LEMMA Earlier ==
    ASSUME NEW a \in Dates, NEW b \in Dates, NEW d \in Dates,
           ~Before(b, a), Policy!FourMonths(b, d)
    PROVE  Policy!FourMonths(a, d)
<1>1. /\ a.month \in Nat /\ a.day \in Nat
      /\ b.month \in Nat /\ b.day \in Nat
      /\ d.month \in Nat /\ d.day \in Nat
  BY DateFacts, PlansAssumption
<1>. QED  BY <1>1 DEF Before, Policy!FourMonths

\* It is later than that date.
LEMMA Later ==
    ASSUME NEW a \in Dates, NEW d \in Dates, Policy!FourMonths(a, d)
    PROVE  ~Before(d, a)
<1>1. a.month \in Nat /\ a.day \in Nat /\ d.month \in Nat /\ d.day \in Nat
  BY DateFacts, PlansAssumption
<1>. QED  BY <1>1 DEF Before, Policy!FourMonths

\* Time only grows.
LEMMA NotBefore ==
    ASSUME NEW a \in Dates, NEW b \in Dates, NEW c \in Dates, ~Before(b, a), ~Before(c, b)
    PROVE  ~Before(c, a)
<1>1. /\ a.month \in Nat /\ a.day \in Nat
      /\ b.month \in Nat /\ b.day \in Nat
      /\ c.month \in Nat /\ c.day \in Nat
  BY DateFacts, PlansAssumption
<1>. QED  BY <1>1 DEF Before

-----------------------------------------------------------------------------
(* The inductive invariant                                                 *)

\* Types, as TypeOK without the request's plan.
Types ==
    /\ plan \in [Plans -> Active \cup {"none", "APPROVED", "SUPERSEDED"}]
    /\ shapes \in Seq(Shape)
    /\ now \in Dates
    /\ req \in [Threads -> Requests]

HasPlan == \A t \in Threads : req[t].plan = NoPlan <=> Waiting(t)

\* Shapes are dated in the order of their ids, and never after the clock.
Ordered ==
    /\ \A i, j \in DOMAIN shapes : i < j => ~Before(shapes[j].at, shapes[i].at)
    /\ \A i \in DOMAIN shapes : ~Before(now, shapes[i].at)

\* A check whose snapshot has missed nothing still holds.
Checked ==
    \A t \in Threads : req[t].at = "checked" =>
        /\ ~Before(now, req[t].now)
        /\ req[t].fresh => \A i \in DOMAIN shapes : Policy!FourMonths(shapes[i].at, req[t].now)

IInv ==
    /\ Types
    /\ HasPlan
    /\ Ordered
    /\ Checked
    /\ ShapesApart
    /\ LockedRightly
    /\ NewestInForce
    /\ ApprovedHasShape

LEMMA ShapeAt == ASSUME Types, NEW i \in DOMAIN shapes
                 PROVE  /\ i \in 1 .. Len(shapes) /\ Len(shapes) \in Nat
                        /\ shapes[i] \in Shape /\ shapes[i].at \in Dates
<1>1. i \in 1 .. Len(shapes) /\ Len(shapes) \in Nat /\ shapes[i] \in Shape
  BY DEF Types
<1>. QED  BY <1>1 DEF Shape

\* The rule looks at the latest date alone, and so covers every shape.
LEMMA UnlockedMeans ==
    ASSUME Types, Ordered
    PROVE  Unlocked <=> \A i \in DOMAIN shapes : Policy!FourMonths(shapes[i].at, now)
<1>1. ASSUME Unlocked, NEW i \in DOMAIN shapes
      PROVE  Policy!FourMonths(shapes[i].at, now)
  <2>. DEFINE n == Len(shapes)
  <2>1. n \in DOMAIN shapes /\ i =< n /\ shapes[n].at \in Dates /\ shapes[i].at \in Dates
    BY ShapeAt DEF Types
  <2>2. Latest(n)
    <3>. SUFFICES ASSUME NEW j \in DOMAIN shapes PROVE ~Before(shapes[n].at, shapes[j].at)
      BY DEF Latest
    <3>1. CASE j = n
      <4>1. shapes[n].at.month \in Nat /\ shapes[n].at.day \in Nat
        BY <2>1, DateFacts, MonthsOK
      <4>. QED  BY <3>1, <4>1 DEF Before
    <3>2. CASE j < n
      BY <3>2, <2>1 DEF Ordered
    <3>. QED  BY <3>1, <3>2, ShapeAt
  <2>3. Policy!FourMonths(shapes[n].at, now)
    BY <1>1, <2>1, <2>2, Rule DEF Unlocked, Types
  <2>4. CASE i = n
    BY <2>3, <2>4
  <2>5. CASE i < n
    BY <2>1, <2>3, <2>5, Earlier DEF Ordered, Types
  <2>. QED  BY <2>1, <2>4, <2>5, ShapeAt
<1>2. ASSUME \A i \in DOMAIN shapes : Policy!FourMonths(shapes[i].at, now)
      PROVE  Unlocked
  BY <1>2, ShapeAt, Rule DEF Unlocked, Types
<1>. QED  BY <1>1, <1>2

\* What is stored when a shape is approved.
LEMMA Stored ==
    ASSUME Types, NEW d \in Dates, NEW p \in Plans \cup {NoPlan}
    PROVE  LET s == ApprovedShape(d, p) n == Len(shapes) IN
           /\ s \in Seq(Shape) /\ Len(s) = n + 1 /\ DOMAIN s = 1 .. n + 1
           /\ DOMAIN shapes = 1 .. n /\ n \in Nat
           /\ s[n + 1] = [at |-> d, plan |-> p, status |-> "APPROVED"]
           /\ \A i \in DOMAIN shapes :
                 /\ i \in DOMAIN s /\ s[i].at = shapes[i].at /\ s[i].plan = shapes[i].plan
                 /\ s[i].status = "SUPERSEDED"
<1>. DEFINE n == Len(shapes)
            old == [i \in DOMAIN shapes |-> [shapes[i] EXCEPT !.status = "SUPERSEDED"]]
            new == [at |-> d, plan |-> p, status |-> "APPROVED"]
<1>1. n \in Nat /\ DOMAIN shapes = 1 .. n
  BY DEF Types
<1>2. \A i \in DOMAIN shapes : old[i] \in Shape /\ old[i].at = shapes[i].at
          /\ old[i].plan = shapes[i].plan /\ old[i].status = "SUPERSEDED"
  BY ShapeAt DEF Shape
<1>3. old \in Seq(Shape) /\ Len(old) = n
  <2>1. old \in [1 .. n -> Shape]
    BY <1>1, <1>2
  <2>. HIDE DEF old
  <2>. QED  BY <1>1, <2>1
<1>4. new \in Shape
  BY DEF Shape
<1>. HIDE DEF old, new
<1>5. /\ Append(old, new) \in Seq(Shape) /\ Len(Append(old, new)) = n + 1
      /\ Append(old, new)[n + 1] = new
      /\ \A i \in 1 .. n : Append(old, new)[i] = old[i]
  BY <1>3, <1>4
<1>6. ApprovedShape(d, p) = Append(old, new)
  BY DEF ApprovedShape, old, new
<1>7. DOMAIN Append(old, new) = 1 .. n + 1
  BY <1>5
<1>. QED  BY <1>1, <1>2, <1>5, <1>6, <1>7 DEF new

\* The same of the step that stores it.
AddedBy(d, p) ==
    /\ shapes' \in Seq(Shape) /\ Len(shapes') = Len(shapes) + 1
    /\ DOMAIN shapes' = 1 .. Len(shapes) + 1
    /\ DOMAIN shapes = 1 .. Len(shapes) /\ Len(shapes) \in Nat
    /\ Len(shapes) + 1 \in DOMAIN shapes'
    /\ shapes'[Len(shapes) + 1] = [at |-> d, plan |-> p, status |-> "APPROVED"]
    /\ \A i \in DOMAIN shapes :
          /\ i \in DOMAIN shapes' /\ i # Len(shapes) + 1
          /\ shapes'[i].at = shapes[i].at /\ shapes'[i].plan = shapes[i].plan
          /\ shapes'[i].status = "SUPERSEDED"

LEMMA Added ==
    ASSUME Types, NEW d \in Dates, NEW p \in Plans \cup {NoPlan}, shapes' = ApprovedShape(d, p)
    PROVE  AddedBy(d, p)
<1>. DEFINE s == ApprovedShape(d, p)  n == Len(shapes)
<1>1. /\ s \in Seq(Shape) /\ Len(s) = n + 1 /\ DOMAIN s = 1 .. n + 1
      /\ DOMAIN shapes = 1 .. n /\ n \in Nat
      /\ s[n + 1] = [at |-> d, plan |-> p, status |-> "APPROVED"]
      /\ \A i \in DOMAIN shapes :
            /\ i \in DOMAIN s /\ s[i].at = shapes[i].at /\ s[i].plan = shapes[i].plan
            /\ s[i].status = "SUPERSEDED"
  BY Stored, Zenon
<1>2. n + 1 \in 1 .. n + 1 /\ \A i \in 1 .. n : i # n + 1
  BY <1>1
<1>. QED  BY <1>1, <1>2, Zenon DEF AddedBy

-----------------------------------------------------------------------------
(* Every step keeps it                                                     *)

\* The answers a request can end with, told apart by their place.
LEMMA Answers ==
    /\ NoRequest.at = "idle"
    /\ [NoRequest EXCEPT !.at = "locked"].at = "locked"
    /\ \A p \in Plans : [NoRequest EXCEPT !.at = "loaded", !.plan = p].at = "loaded"
BY DEF NoRequest

\* A commit is missed by every open snapshot.
LEMMA AllMiss ==
    ASSUME Types, NEW t \in Threads, req' = [Missed(req) EXCEPT ![t] = NoRequest]
    PROVE  \A u \in Threads : ~req'[u].fresh
<1>1. /\ NoRequest.fresh = FALSE
      /\ \A u \in Threads : Missed(req)[u] = [req[u] EXCEPT !.fresh = FALSE]
      /\ DOMAIN Missed(req) = Threads
  BY DEF NoRequest, Missed
<1>2. \A u \in Threads : req[u] \in Requests
  BY DEF Types
<1>3. \A u \in Threads : Missed(req)[u].fresh = FALSE
  BY <1>1, <1>2 DEF Requests
<1>4. \A u \in Threads : req'[u] = IF u = t THEN NoRequest ELSE Missed(req)[u]
  BY <1>1
<1>. QED  BY <1>1, <1>3, <1>4

\* A step that changes the shapes approves one, now and by the rule, for the
\* plan of its request or for none.
LEMMA ShapesStep ==
    ASSUME IInv, [Next]_vars
    PROVE  \/ UNCHANGED shapes
           \/ \E d \in Dates, p \in Plans \cup {NoPlan} :
                 /\ shapes' = ApprovedShape(d, p)
                 /\ now' = now /\ ~Before(now, d)
                 /\ \A i \in DOMAIN shapes : Policy!FourMonths(shapes[i].at, d)
                 /\ \A q \in Plans : plan'[q] = "APPROVED" => plan[q] = "APPROVED" \/ p = q
                 /\ \A t \in Threads : ~req'[t].fresh
<1>. USE DEF IInv
<1>1. ASSUME NEW t \in Threads, CommitApproval(t)
      PROVE  \E d \in Dates, p \in Plans \cup {NoPlan} :
                 /\ shapes' = ApprovedShape(d, p)
                 /\ now' = now /\ ~Before(now, d)
                 /\ \A i \in DOMAIN shapes : Policy!FourMonths(shapes[i].at, d)
                 /\ \A q \in Plans : plan'[q] = "APPROVED" => plan[q] = "APPROVED" \/ p = q
                 /\ \A u \in Threads : ~req'[u].fresh
  <2>. DEFINE d == req[t].now  p == req[t].plan
  <2>1. d \in Dates /\ p \in Plans \cup {NoPlan}
    BY DEF Types, Requests
  <2>2. shapes' = ApprovedShape(d, p) /\ now' = now
    BY <1>1 DEF CommitApproval
  <2>3. ~Before(now, d) /\ \A i \in DOMAIN shapes : Policy!FourMonths(shapes[i].at, d)
    BY <1>1 DEF CommitApproval, Checked
  <2>4. \A q \in Plans : plan'[q] = "APPROVED" => plan[q] = "APPROVED" \/ p = q
    BY <1>1 DEF CommitApproval, Types
  <2>5. \A u \in Threads : ~req'[u].fresh
    BY <1>1, AllMiss DEF CommitApproval
  <2>. QED  BY <2>1, <2>2, <2>3, <2>4, <2>5
<1>2. ASSUME NEW t \in Threads, ApproveMix(t), ~UNCHANGED shapes
      PROVE  \E d \in Dates, p \in Plans \cup {NoPlan} :
                 /\ shapes' = ApprovedShape(d, p)
                 /\ now' = now /\ ~Before(now, d)
                 /\ \A i \in DOMAIN shapes : Policy!FourMonths(shapes[i].at, d)
                 /\ \A q \in Plans : plan'[q] = "APPROVED" => plan[q] = "APPROVED" \/ p = q
                 /\ \A u \in Threads : ~req'[u].fresh
  <2>1. Unlocked /\ shapes' = ApprovedShape(now, NoPlan) /\ now' = now
    BY <1>2 DEF ApproveMix
  <2>2. now \in Dates /\ ~Before(now, now)
    <3>1. now \in Dates /\ now.month \in Nat /\ now.day \in Nat
      BY DateFacts, MonthsOK DEF Types
    <3>. QED  BY <3>1 DEF Before
  <2>3. \A i \in DOMAIN shapes : Policy!FourMonths(shapes[i].at, now)
    BY <2>1, UnlockedMeans
  <2>4. \A q \in Plans : plan'[q] = "APPROVED" => plan[q] = "APPROVED"
    BY <1>2, <2>1 DEF ApproveMix, SupersedeActive, Types
  <2>5. \A u \in Threads : ~req'[u].fresh
    BY <1>2, <2>1, AllMiss DEF ApproveMix
  <2>. QED  BY <2>1, <2>2, <2>3, <2>4, <2>5
<1>3. CASE UNCHANGED vars
  BY <1>3 DEF vars
<1>4. ASSUME Tick \/ \E p \in Plans : Create(p) \/ MarkPartial(p) \/ Complete(p)
      PROVE  UNCHANGED shapes
  BY <1>4 DEF Tick, Create, MarkPartial, Complete
<1>5. ASSUME NEW t \in Threads,
             (\E p \in Plans : LoadPlan(t, p)) \/ CheckApproval(t) \/ ApprovalFails(t)
      PROVE  UNCHANGED shapes
  BY <1>5 DEF LoadPlan, CheckApproval, ApprovalFails
<1>. QED  BY <1>1, <1>2, <1>3, <1>4, <1>5 DEF Next

\* Plans change their status only by approval into APPROVED.
LEMMA PlanTypes ==
    ASSUME IInv, [Next]_vars
    PROVE  plan' \in [Plans -> Active \cup {"none", "APPROVED", "SUPERSEDED"}]
<1>. USE DEF IInv, Types, Active
<1>1. CASE UNCHANGED vars
  BY <1>1 DEF vars
<1>2. CASE Tick
  BY <1>2 DEF Tick
<1>3. ASSUME NEW p \in Plans, Create(p) \/ MarkPartial(p) \/ Complete(p)
      PROVE  plan' \in [Plans -> Active \cup {"none", "APPROVED", "SUPERSEDED"}]
  BY <1>3 DEF Create, MarkPartial, Complete, SupersedeActive
<1>4. ASSUME NEW t \in Threads,
             \/ \E p \in Plans : LoadPlan(t, p)
             \/ CheckApproval(t) \/ CommitApproval(t) \/ ApprovalFails(t) \/ ApproveMix(t)
      PROVE  plan' \in [Plans -> Active \cup {"none", "APPROVED", "SUPERSEDED"}]
  BY <1>4 DEF LoadPlan, CheckApproval, CommitApproval, ApprovalFails, ApproveMix, SupersedeActive
<1>. QED  BY <1>1, <1>2, <1>3, <1>4 DEF Next

\* What can become of a request: it misses a commit, ends, is taken up, passes
\* the check, or is refused by it.
ReqMoves(t) ==
    \/ req'[t] = req[t]
    \/ req'[t] = [req[t] EXCEPT !.fresh = FALSE]
    \/ req'[t] = NoRequest
    \/ \E p \in Plans : req'[t] = [NoRequest EXCEPT !.at = "loaded", !.plan = p]
    \/ /\ req[t].at = "loaded" /\ Unlocked /\ UNCHANGED <<shapes, now>>
       /\ req'[t] = [req[t] EXCEPT !.at = "checked", !.now = now, !.fresh = TRUE]
    \/ /\ ~Unlocked /\ UNCHANGED shapes
       /\ req'[t] = [NoRequest EXCEPT !.at = "locked"]

LEMMA ReqStep ==
    ASSUME IInv, [Next]_vars
    PROVE  req' = [u \in Threads |-> req'[u]] /\ \A t \in Threads : ReqMoves(t)
<1>. USE DEF IInv, Types, ReqMoves
<1>1. CASE UNCHANGED vars
  BY <1>1 DEF vars
<1>2. CASE Tick
  BY <1>2 DEF Tick
<1>3. ASSUME NEW p \in Plans, Create(p) \/ MarkPartial(p) \/ Complete(p)
      PROVE  req' = [u \in Threads |-> req'[u]] /\ \A t \in Threads : ReqMoves(t)
  BY <1>3 DEF Create, MarkPartial, Complete, Missed
<1>4. ASSUME NEW t \in Threads, NEW p \in Plans, LoadPlan(t, p)
      PROVE  req' = [u \in Threads |-> req'[u]] /\ \A u \in Threads : ReqMoves(u)
  BY <1>4 DEF LoadPlan, Ask
<1>5. ASSUME NEW t \in Threads, CheckApproval(t)
      PROVE  req' = [u \in Threads |-> req'[u]] /\ \A u \in Threads : ReqMoves(u)
  BY <1>5 DEF CheckApproval, Ask
<1>6. ASSUME NEW t \in Threads, CommitApproval(t)
      PROVE  req' = [u \in Threads |-> req'[u]] /\ \A u \in Threads : ReqMoves(u)
  BY <1>6 DEF CommitApproval, Missed
<1>7. ASSUME NEW t \in Threads, ApprovalFails(t)
      PROVE  req' = [u \in Threads |-> req'[u]] /\ \A u \in Threads : ReqMoves(u)
  BY <1>7 DEF ApprovalFails, Ask
<1>8. ASSUME NEW t \in Threads, ApproveMix(t)
      PROVE  req' = [u \in Threads |-> req'[u]] /\ \A u \in Threads : ReqMoves(u)
  <2>1. CASE Unlocked
    BY <1>8, <2>1 DEF ApproveMix, Missed
  <2>2. CASE ~Unlocked
    BY <1>8, <2>2 DEF ApproveMix, Ask
  <2>. QED  BY <2>1, <2>2
<1>. QED  BY <1>1, <1>2, <1>3, <1>4, <1>5, <1>6, <1>7, <1>8 DEF Next

\* The clock stays a date and never goes back.
LEMMA Clock ==
    ASSUME IInv, [Next]_vars
    PROVE  now' \in Dates /\ ~Before(now', now)
<1>1. now \in Dates /\ now.month \in Nat /\ now.day \in Nat
  BY DateFacts, MonthsOK DEF IInv, Types
<1>2. CASE now' = now
  BY <1>1, <1>2 DEF Before
<1>3. CASE Tick
  <2>1. PICK d \in Dates : Before(now, d) /\ now' = d
    BY <1>3 DEF Tick
  <2>2. d.month \in Nat /\ d.day \in Nat
    BY DateFacts, MonthsOK
  <2>. QED  BY <1>1, <2>1, <2>2 DEF Before
<1>4. now' = now \/ Tick
  BY DEF Next, vars, Create, MarkPartial, Complete, LoadPlan, CheckApproval, CommitApproval,
         ApprovalFails, ApproveMix
<1>. QED  BY <1>2, <1>3, <1>4

\* Requests keep their types, and their plan while they work on it.
LEMMA ReqTypes ==
    ASSUME IInv, [Next]_vars
    PROVE  req' \in [Threads -> Requests] /\ HasPlan'
<1>1. now \in Dates /\ \A t \in Threads : req[t] \in Requests
  BY DEF IInv, Types
<1>2. ASSUME NEW t \in Threads
      PROVE  /\ req'[t] \in Requests
             /\ req'[t].plan = NoPlan <=> req'[t].at \in {"idle", "locked"}
  <2>1. ReqMoves(t) /\ req[t] \in Requests /\ (req[t].plan = NoPlan <=> req[t].at \in {"idle", "locked"})
    BY ReqStep, <1>1 DEF IInv, HasPlan, Waiting
  <2>2. NoPlan \notin Plans
    BY PlansAssumption
  <2>3. /\ NoRequest \in Requests /\ NoRequest.plan = NoPlan /\ NoRequest.at = "idle"
        /\ [NoRequest EXCEPT !.at = "locked"] \in Requests
        /\ [NoRequest EXCEPT !.at = "locked"].plan = NoPlan
        /\ [NoRequest EXCEPT !.at = "locked"].at = "locked"
    BY <1>1 DEF NoRequest, Requests
  <2>4. ASSUME NEW p \in Plans, req'[t] = [NoRequest EXCEPT !.at = "loaded", !.plan = p]
        PROVE  req'[t] \in Requests /\ req'[t].plan = p /\ req'[t].at = "loaded"
    BY <1>1, <2>4 DEF NoRequest, Requests
  <2>5. ASSUME req[t].at = "loaded",
               req'[t] = [req[t] EXCEPT !.at = "checked", !.now = now, !.fresh = TRUE]
        PROVE  req'[t] \in Requests /\ req'[t].plan = req[t].plan /\ req'[t].at = "checked"
    BY <1>1, <2>5 DEF Requests
  <2>6. ASSUME req'[t] = [req[t] EXCEPT !.fresh = FALSE]
        PROVE  req'[t] \in Requests /\ req'[t].plan = req[t].plan /\ req'[t].at = req[t].at
    BY <1>1, <2>6 DEF Requests
  <2>. QED  BY <2>1, <2>2, <2>3, <2>4, <2>5, <2>6 DEF ReqMoves
<1>. QED
  BY <1>2, ReqStep DEF HasPlan, Waiting

\* Either the shapes are as they were, or one was added to them.
LEMMA ShapesKept ==
    ASSUME IInv, [Next]_vars
    PROVE  /\ shapes' \in Seq(Shape)
           /\ \A i \in DOMAIN shapes : i \in DOMAIN shapes' /\ shapes'[i].at = shapes[i].at
                                       /\ shapes'[i].plan = shapes[i].plan
<1>1. CASE UNCHANGED shapes
  BY <1>1 DEF IInv, Types
<1>2. ASSUME NEW d \in Dates, NEW p \in Plans \cup {NoPlan}, shapes' = ApprovedShape(d, p)
      PROVE  /\ shapes' \in Seq(Shape)
             /\ \A i \in DOMAIN shapes : i \in DOMAIN shapes' /\ shapes'[i].at = shapes[i].at
                                         /\ shapes'[i].plan = shapes[i].plan
  <2>. AddedBy(d, p)
    BY <1>2, Added DEF IInv
  <2>. QED  BY DEF AddedBy
<1>. QED  BY <1>1, <1>2, ShapesStep

LEMMA OrderedStep ==
    ASSUME IInv, [Next]_vars
    PROVE  Ordered'
<1>1. Types /\ Ordered /\ now' \in Dates /\ ~Before(now', now)
  BY Clock DEF IInv
<1>2. CASE UNCHANGED shapes
  BY <1>1, <1>2, ShapeAt, NotBefore DEF Ordered, Types
<1>3. ASSUME NEW d \in Dates, NEW p \in Plans \cup {NoPlan}, shapes' = ApprovedShape(d, p),
             now' = now, ~Before(now, d),
             \A i \in DOMAIN shapes : Policy!FourMonths(shapes[i].at, d)
      PROVE  Ordered'
  <2>. AddedBy(d, p)
    BY <1>1, <1>3, Added
  <2>1. \A i \in DOMAIN shapes : ~Before(d, shapes[i].at)
    BY <1>1, <1>3, ShapeAt, Later
  <2>2. /\ DOMAIN shapes = 1 .. Len(shapes) /\ DOMAIN shapes' = 1 .. Len(shapes) + 1
        /\ Len(shapes) \in Nat /\ shapes'[Len(shapes) + 1].at = d
        /\ \A i \in DOMAIN shapes : shapes'[i].at = shapes[i].at
    BY DEF AddedBy
  <2>. QED  BY <1>1, <1>3, <2>1, <2>2 DEF Ordered
<1>. QED  BY <1>2, <1>3, ShapesStep

LEMMA CheckedStep ==
    ASSUME IInv, [Next]_vars
    PROVE  Checked'
<1>. SUFFICES ASSUME NEW t \in Threads, req'[t].at = "checked"
              PROVE  /\ ~Before(now', req'[t].now)
                     /\ req'[t].fresh =>
                          \A i \in DOMAIN shapes' : Policy!FourMonths(shapes'[i].at, req'[t].now)
  BY DEF Checked
<1>1. Types /\ Ordered /\ Checked /\ req[t] \in Requests /\ now \in Dates
  BY DEF IInv, Types
<1>2. req'[t].fresh => UNCHANGED shapes
  BY ShapesStep
<1>3. ASSUME req[t].at = "checked", req'[t].now = req[t].now, req'[t].fresh => req[t].fresh
      PROVE  /\ ~Before(now', req'[t].now)
             /\ req'[t].fresh =>
                   \A i \in DOMAIN shapes' : Policy!FourMonths(shapes'[i].at, req'[t].now)
  <2>1. req[t].now \in Dates
    BY <1>1 DEF Requests
  <2>2. ~Before(now', req'[t].now)
    BY <1>1, <1>3, <2>1, Clock, NotBefore DEF Checked
  <2>. QED  BY <1>1, <1>2, <1>3, <2>2 DEF Checked
<1>4. ASSUME Unlocked, UNCHANGED <<shapes, now>>, req'[t].now = now
      PROVE  /\ ~Before(now', req'[t].now)
             /\ \A i \in DOMAIN shapes' : Policy!FourMonths(shapes'[i].at, req'[t].now)
  <2>1. now.month \in Nat /\ now.day \in Nat
    BY <1>1, DateFacts, MonthsOK
  <2>. QED  BY <1>1, <1>4, <2>1, UnlockedMeans DEF Before
<1>5. CASE req'[t] = req[t] \/ req'[t] = [req[t] EXCEPT !.fresh = FALSE]
  <2>1. req[t].at = "checked" /\ req'[t].now = req[t].now /\ (req'[t].fresh => req[t].fresh)
    BY <1>1, <1>5 DEF Requests
  <2>. QED  BY <1>3, <2>1
<1>6. CASE req'[t] = [req[t] EXCEPT !.at = "checked", !.now = now, !.fresh = TRUE]
           /\ Unlocked /\ UNCHANGED <<shapes, now>>
  <2>1. req'[t].now = now
    BY <1>1, <1>6 DEF Requests
  <2>. QED  BY <1>4, <1>6, <2>1
<1>7. /\ req'[t] # NoRequest /\ req'[t] # [NoRequest EXCEPT !.at = "locked"]
      /\ \A p \in Plans : req'[t] # [NoRequest EXCEPT !.at = "loaded", !.plan = p]
  BY Answers
<1>. QED  BY <1>5, <1>6, <1>7, ReqStep DEF ReqMoves

LEMMA ApartStep ==
    ASSUME IInv, [Next]_vars
    PROVE  ShapesApart'
<1>1. Types /\ ShapesApart
  BY DEF IInv
<1>2. CASE UNCHANGED shapes
  BY <1>1, <1>2 DEF ShapesApart
<1>3. ASSUME NEW d \in Dates, NEW p \in Plans \cup {NoPlan}, shapes' = ApprovedShape(d, p),
             \A i \in DOMAIN shapes : Policy!FourMonths(shapes[i].at, d)
      PROVE  ShapesApart'
  <2>. AddedBy(d, p)
    BY <1>1, <1>3, Added
  <2>1. /\ DOMAIN shapes = 1 .. Len(shapes) /\ DOMAIN shapes' = 1 .. Len(shapes) + 1
        /\ Len(shapes) \in Nat /\ shapes'[Len(shapes) + 1].at = d
        /\ \A i \in DOMAIN shapes : shapes'[i].at = shapes[i].at
    BY DEF AddedBy
  <2>. SUFFICES ASSUME NEW i \in DOMAIN shapes', NEW j \in DOMAIN shapes', i < j, j > Len(Legacy)
                PROVE  Policy!FourMonths(shapes'[i].at, shapes'[j].at)
    BY DEF ShapesApart
  <2>2. CASE j = Len(shapes) + 1
    BY <1>3, <2>1, <2>2
  <2>3. CASE j \in DOMAIN shapes
    BY <1>1, <2>1, <2>3 DEF ShapesApart
  <2>. QED  BY <2>1, <2>2, <2>3
<1>. QED  BY <1>2, <1>3, ShapesStep

LEMMA LockedStep ==
    ASSUME IInv, [Next]_vars
    PROVE  LockedRightly'
<1>. SUFFICES ASSUME NEW t \in Threads, req'[t].at = "locked"
              PROVE  \E i \in DOMAIN shapes' : ~Policy!FourMonths(shapes'[i].at, req'[t].now)
  BY DEF LockedRightly
<1>1. Types /\ Ordered /\ LockedRightly /\ req[t] \in Requests
  BY DEF IInv, Types
<1>2. CASE req'[t] = req[t] \/ req'[t] = [req[t] EXCEPT !.fresh = FALSE]
  <2>1. req[t].at = "locked" /\ req'[t].now = req[t].now
    BY <1>1, <1>2 DEF Requests
  <2>. QED  BY <1>1, <2>1, ShapesKept DEF LockedRightly
<1>3. CASE ~Unlocked /\ UNCHANGED shapes /\ req'[t] = [NoRequest EXCEPT !.at = "locked"]
  <2>1. req'[t].now = now
    BY <1>3 DEF NoRequest
  <2>. QED  BY <1>1, <1>3, <2>1, UnlockedMeans
<1>4. /\ req'[t] # NoRequest
      /\ \A p \in Plans : req'[t] # [NoRequest EXCEPT !.at = "loaded", !.plan = p]
      /\ req'[t] # [req[t] EXCEPT !.at = "checked", !.now = now, !.fresh = TRUE]
  <2>1. [req[t] EXCEPT !.at = "checked", !.now = now, !.fresh = TRUE].at = "checked"
    BY <1>1 DEF Requests
  <2>. QED  BY <2>1, Answers
<1>. QED  BY <1>2, <1>3, <1>4, ReqStep DEF ReqMoves

LEMMA InForceStep ==
    ASSUME IInv, [Next]_vars
    PROVE  NewestInForce'
<1>1. Types /\ NewestInForce
  BY DEF IInv
<1>2. CASE UNCHANGED shapes
  BY <1>1, <1>2 DEF NewestInForce
<1>3. ASSUME NEW d \in Dates, NEW p \in Plans \cup {NoPlan}, shapes' = ApprovedShape(d, p)
      PROVE  NewestInForce'
  <2>. AddedBy(d, p)
    BY <1>1, <1>3, Added
  <2>. QED  BY DEF AddedBy, NewestInForce
<1>. QED  BY <1>2, <1>3, ShapesStep

LEMMA HasShapeStep ==
    ASSUME IInv, [Next]_vars
    PROVE  ApprovedHasShape'
<1>. SUFFICES ASSUME NEW q \in Plans, plan'[q] = "APPROVED"
              PROVE  \E i \in DOMAIN shapes' : shapes'[i].plan = q
  BY DEF ApprovedHasShape
<1>1. Types /\ ApprovedHasShape
  BY DEF IInv
<1>2. ASSUME plan[q] = "APPROVED"
      PROVE  \E i \in DOMAIN shapes' : shapes'[i].plan = q
  BY <1>1, <1>2, ShapesKept DEF ApprovedHasShape
<1>3. ASSUME NEW d \in Dates, shapes' = ApprovedShape(d, q)
      PROVE  \E i \in DOMAIN shapes' : shapes'[i].plan = q
  <2>. AddedBy(d, q)
    BY <1>1, <1>3, Added
  <2>1. Len(shapes) + 1 \in DOMAIN shapes' /\ shapes'[Len(shapes) + 1].plan = q
    BY DEF AddedBy
  <2>. QED  BY <2>1
<1>4. CASE UNCHANGED shapes
  <2>1. plan[q] = "APPROVED"
    <3>1. ASSUME NEW t \in Threads, CommitApproval(t)
          PROVE  FALSE
      <4>1. shapes' = ApprovedShape(req[t].now, req[t].plan)
            /\ req[t].now \in Dates /\ req[t].plan \in Plans \cup {NoPlan}
        BY <1>1, <3>1 DEF CommitApproval, Types, Requests
      <4>. AddedBy(req[t].now, req[t].plan)
        BY <1>1, <4>1, Added
      <4>. QED  BY <1>4 DEF AddedBy
    <3>2. CASE UNCHANGED vars
      BY <3>2 DEF vars
    <3>3. CASE Tick
      BY <3>3 DEF Tick
    <3>4. ASSUME NEW p \in Plans, Create(p) \/ MarkPartial(p) \/ Complete(p)
          PROVE  plan[q] = "APPROVED"
      BY <1>1, <3>4 DEF Create, MarkPartial, Complete, SupersedeActive, Types
    <3>5. ASSUME NEW t \in Threads,
                 \/ \E p \in Plans : LoadPlan(t, p)
                 \/ CheckApproval(t) \/ ApprovalFails(t) \/ ApproveMix(t)
          PROVE  plan[q] = "APPROVED"
      BY <1>1, <3>5 DEF LoadPlan, CheckApproval, ApprovalFails, ApproveMix, SupersedeActive, Types
    <3>. QED  BY <3>1, <3>2, <3>3, <3>4, <3>5 DEF Next
  <2>. QED  BY <1>2, <2>1
<1>. QED  BY <1>2, <1>3, <1>4, ShapesStep

LEMMA InitIInv == Init => IInv
<1>. SUFFICES ASSUME Init PROVE IInv
  OBVIOUS
<1>. DEFINE row(i) == [at |-> Legacy[i], plan |-> NoPlan,
                       status |-> IF i = Len(Legacy) THEN "APPROVED" ELSE "SUPERSEDED"]
<1>1. Legacy \in Seq(Dates) /\ DOMAIN Legacy = 1 .. Len(Legacy) /\ Len(Legacy) \in Nat
      /\ \A i, j \in DOMAIN Legacy : i < j => ~Before(Legacy[j], Legacy[i])
  BY PlansAssumption
<1>2. \A i \in DOMAIN Legacy : row(i) \in Shape
  BY <1>1 DEF Shape
<1>3. shapes = [i \in 1 .. Len(Legacy) |-> row(i)]
  BY <1>1 DEF Init
<1>4. shapes \in [1 .. Len(Legacy) -> Shape]
  BY <1>1, <1>2, <1>3
<1>5. shapes \in Seq(Shape) /\ Len(shapes) = Len(Legacy)
  <2>. HIDE DEF row
  <2>. QED  BY <1>1, <1>3, <1>4
<1>6. DOMAIN shapes = DOMAIN Legacy /\ \A i \in DOMAIN shapes : shapes[i] = row(i)
  BY <1>1, <1>3
<1>7. now \in Dates
  BY DEF Init
<1>8. Types
  <2>1. NoRequest \in Requests
    BY <1>7 DEF NoRequest, Requests
  <2>. QED  BY <1>5, <1>7, <2>1 DEF Init, Types
<1>9. HasPlan /\ Checked /\ LockedRightly
  BY DEF Init, HasPlan, Waiting, Checked, LockedRightly, NoRequest
<1>10. Ordered
  BY <1>1, <1>6 DEF Init, Ordered
<1>11. ShapesApart /\ NewestInForce
  BY <1>1, <1>5, <1>6 DEF ShapesApart, NewestInForce
<1>12. ApprovedHasShape
  BY DEF Init, ApprovedHasShape
<1>. QED  BY <1>8, <1>9, <1>10, <1>11, <1>12 DEF IInv

LEMMA NextIInv == IInv /\ [Next]_vars => IInv'
<1>. SUFFICES ASSUME IInv, [Next]_vars PROVE IInv'
  OBVIOUS
<1>1. Types'
  BY PlanTypes, ShapesKept, Clock, ReqTypes DEF Types
<1>. QED
  BY <1>1, ReqTypes, OrderedStep, CheckedStep, ApartStep, LockedStep, InForceStep, HasShapeStep
     DEF IInv

LEMMA Invariance == Spec => []IInv
<1>. QED  BY InitIInv, NextIInv, PTL DEF Spec

-----------------------------------------------------------------------------
(* Results                                                                 *)

\* Both tables, the clock and every request keep their types, and a request
\* names a plan exactly while it works on one.
THEOREM TypeCorrect == Spec => []TypeOK
<1>1. IInv => TypeOK
  BY DEF IInv, Types, HasPlan, TypeOK, Shape
<1>. QED  BY <1>1, Invariance, PTL

\* No two shapes approved under the rule are closer than four calendar months,
\* whatever requests raced each other and whichever month ends were clamped.
THEOREM FourMonthsApart == Spec => []ShapesApart
<1>1. IInv => ShapesApart
  BY DEF IInv
<1>. QED  BY <1>1, Invariance, PTL

\* No approval is refused once four calendar months are over.
THEOREM RefusedRightly == Spec => []LockedRightly
<1>1. IInv => LockedRightly
  BY DEF IInv
<1>. QED  BY <1>1, Invariance, PTL

\* Of all shapes the newest alone is in force.
THEOREM OneInForce == Spec => []NewestInForce
<1>1. IInv => NewestInForce
  BY DEF IInv
<1>. QED  BY <1>1, Invariance, PTL

\* A plan is approved together with the shape made of it.
THEOREM ApprovedTogether == Spec => []ApprovedHasShape
<1>1. IInv => ApprovedHasShape
  BY DEF IInv
<1>. QED  BY <1>1, Invariance, PTL

\* What a plan loses, it loses to a new plan or to a new shape.
RefusedKeepsPlanNow ==
    \A p \in Plans :
        plan'[p] = "SUPERSEDED" /\ plan[p] # "SUPERSEDED"
        => \/ Len(shapes') > Len(shapes)
           \/ \E q \in Plans : plan[q] = "none" /\ plan'[q] = "OPEN"

LEMMA SupersededStep == IInv /\ [Next]_vars => [RefusedKeepsPlanNow]_vars
<1>. SUFFICES ASSUME IInv, Next, NEW p \in Plans, plan'[p] = "SUPERSEDED", plan[p] # "SUPERSEDED"
              PROVE  \/ Len(shapes') > Len(shapes)
                     \/ \E q \in Plans : plan[q] = "none" /\ plan'[q] = "OPEN"
  BY DEF RefusedKeepsPlanNow
<1>1. Types /\ now \in Dates
  BY DEF IInv, Types
<1>2. CASE Tick
  BY <1>2 DEF Tick
<1>3. ASSUME NEW q \in Plans, Create(q)
      PROVE  plan[q] = "none" /\ plan'[q] = "OPEN"
  BY <1>1, <1>3 DEF Create, SupersedeActive
<1>4. ASSUME NEW q \in Plans, MarkPartial(q) \/ Complete(q)
      PROVE  FALSE
  BY <1>1, <1>4 DEF MarkPartial, Complete, Types
<1>5. ASSUME NEW t \in Threads,
             \/ \E q \in Plans : LoadPlan(t, q)
             \/ CheckApproval(t) \/ CommitApproval(t) \/ ApprovalFails(t)
      PROVE  FALSE
  BY <1>1, <1>5 DEF LoadPlan, CheckApproval, CommitApproval, ApprovalFails, Types
<1>6. ASSUME NEW t \in Threads, ApproveMix(t)
      PROVE  Len(shapes') > Len(shapes)
  <2>1. shapes' = ApprovedShape(now, NoPlan)
    BY <1>6 DEF ApproveMix
  <2>. AddedBy(now, NoPlan)
    BY <1>1, <2>1, Added
  <2>. QED  BY DEF AddedBy
<1>. QED  BY <1>2, <1>3, <1>4, <1>5, <1>6 DEF Next

\* A refused or failed approval supersedes no plan.
THEOREM RefusalKeepsPlans == Spec => RefusedKeepsPlan
<1>1. IInv /\ [Next]_vars => [RefusedKeepsPlanNow]_vars
  BY SupersededStep
<1>. QED  BY <1>1, Invariance, PTL DEF Spec, RefusedKeepsPlan, RefusedKeepsPlanNow

-----------------------------------------------------------------------------
(* The plans and shapes implement the policy                               *)

Approvals == [i \in DOMAIN shapes |-> shapes[i].at]

LEMMA SameDates == Policy!Dates = Dates
BY DEF Policy!Dates, Dates

LEMMA SameBefore == ASSUME NEW a, NEW b PROVE Policy!Before(a, b) <=> Before(a, b)
BY DEF Policy!Before, Before

LEMMA InitPolicy == Init => Policy!Init
<1>. SUFFICES ASSUME Init PROVE Policy!Init
  OBVIOUS
<1>1. Legacy \in Seq(Dates) /\ DOMAIN Legacy = 1 .. Len(Legacy)
  BY PlansAssumption
<1>2. DOMAIN shapes = DOMAIN Legacy /\ \A i \in DOMAIN shapes : shapes[i].at = Legacy[i]
  BY DEF Init
<1>3. Legacy = [i \in DOMAIN Legacy |-> Legacy[i]]
  BY <1>1
<1>4. Approvals = Legacy
  BY <1>2, <1>3 DEF Approvals
<1>5. now \in Dates /\ \A i \in DOMAIN Legacy : ~Before(now, Legacy[i])
  BY DEF Init
<1>. QED  BY <1>4, <1>5, SameDates, SameBefore DEF Policy!Init, Approvals

LEMMA NextPolicy ==
    IInv /\ [Next]_vars => [Policy!Advance \/ Policy!Approve]_<<now, Approvals>>
<1>. SUFFICES ASSUME IInv, [Next]_vars
              PROVE  Policy!Advance \/ Policy!Approve \/ UNCHANGED <<now, Approvals>>
  OBVIOUS
<1>1. Types
  BY DEF IInv
<1>2. CASE UNCHANGED shapes
  <2>1. Approvals' = Approvals
    BY <1>2 DEF Approvals
  <2>2. now' = now \/ Tick
    BY DEF Next, vars, Create, MarkPartial, Complete, LoadPlan, CheckApproval, CommitApproval,
           ApprovalFails, ApproveMix
  <2>3. Tick => Policy!Advance
    BY <2>1, SameDates, SameBefore DEF Tick, Policy!Advance, Approvals
  <2>. QED  BY <2>1, <2>2, <2>3
<1>3. ASSUME NEW d \in Dates, NEW p \in Plans \cup {NoPlan}, shapes' = ApprovedShape(d, p),
             now' = now, ~Before(now, d),
             \A i \in DOMAIN shapes : Policy!FourMonths(shapes[i].at, d)
      PROVE  Policy!Approve
  <2>. DEFINE n == Len(shapes)
  <2>. AddedBy(d, p)
    BY <1>1, <1>3, Added
  <2>1. /\ DOMAIN shapes = 1 .. n /\ n \in Nat /\ DOMAIN shapes' = 1 .. n + 1
        /\ shapes'[n + 1].at = d
        /\ \A i \in DOMAIN shapes : shapes'[i].at = shapes[i].at
    BY DEF AddedBy
  <2>2. /\ Approvals \in [1 .. n -> Dates] /\ Approvals \in Seq(Dates) /\ Len(Approvals) = n
        /\ \A i \in 1 .. n : Approvals[i] = shapes[i].at
    <3>1. \A i \in 1 .. n : shapes[i].at \in Dates
      BY <1>1, <2>1, ShapeAt
    <3>2. Approvals = [i \in 1 .. n |-> shapes[i].at]
      BY <2>1 DEF Approvals
    <3>. QED  BY <2>1, <3>1, <3>2
  <2>3. Approvals' = Append(Approvals, d)
    <3>1. Approvals' = [i \in 1 .. n + 1 |-> shapes'[i].at]
      BY <2>1 DEF Approvals
    <3>2. Append(Approvals, d) = [i \in 1 .. n + 1 |-> IF i =< n THEN Approvals[i] ELSE d]
      <4>. DEFINE A == Append(Approvals, d)
      <4>1. /\ A \in Seq(Dates) /\ Len(A) = n + 1 /\ A[n + 1] = d
            /\ \A i \in 1 .. n : A[i] = Approvals[i]
        BY <2>1, <2>2
      <4>. HIDE DEF A
      <4>2. A \in [1 .. n + 1 -> Dates]
        BY <4>1
      <4>3. \A i \in 1 .. n + 1 : A[i] = IF i =< n THEN Approvals[i] ELSE d
        BY <2>1, <4>1
      <4>4. A = [i \in 1 .. n + 1 |-> IF i =< n THEN Approvals[i] ELSE d]
        BY <4>2, <4>3, Zenon
      <4>. QED  BY <4>4 DEF A
    <3>3. \A i \in 1 .. n + 1 : shapes'[i].at = IF i =< n THEN Approvals[i] ELSE d
      BY <2>1, <2>2
    <3>. QED  BY <3>1, <3>2, <3>3
  <2>4. \A i \in DOMAIN Approvals : i = Len(Approvals) => Policy!FourMonths(Approvals[i], d)
    BY <1>3, <2>1, <2>2
  <2>. QED
    BY <1>3, <2>3, <2>4, SameDates, SameBefore DEF Policy!Approve, Approvals
<1>. QED  BY <1>2, <1>3, ShapesStep

\* The plans, the shapes and the requests that race each other implement the
\* policy the documentation states.
THEOREM Implements == Spec => KeepsPolicy
<1>1. Init => Policy!Init
  BY InitPolicy
<1>2. IInv /\ [Next]_vars => [Policy!Advance \/ Policy!Approve]_<<now, [i \in DOMAIN shapes |-> shapes[i].at]>>
  BY NextPolicy DEF Approvals
<1>. QED  BY <1>1, <1>2, Invariance, PTL DEF Spec, KeepsPolicy, Policy!Spec

-----------------------------------------------------------------------------
(* What the policy comes to                                                *)

LEMMA ThreePeriods ==
    ASSUME NEW a \in Dates, NEW b \in Dates, NEW c \in Dates, NEW d \in Dates,
           Policy!FourMonths(a, b), Policy!FourMonths(b, c), Policy!FourMonths(c, d)
    PROVE  d.month >= a.month + 12
<1>1. ASSUME NEW e \in Dates
      PROVE  e.month \in Nat
  <2>1. e \in [month : 0 .. LastMonth, day : Nat \ {0}]
    BY DateFacts
  <2>. QED  BY <2>1, PlansAssumption
<1>2. b.month >= a.month + 4 /\ c.month >= b.month + 4 /\ d.month >= c.month + 4
  BY <1>1 DEF Policy!FourMonths
<1>3. a.month \in Nat /\ b.month \in Nat /\ c.month \in Nat /\ d.month \in Nat
  BY <1>1
<1>. QED  BY <1>2, <1>3

\* The shape changes three times in twelve months at most, and an approval is
\* never withdrawn or dated anew, whatever requests race each other.
THEOREM ThreeChangesAYear == Spec => []Policy!ThreeAYear /\ Policy!Kept
<1>. DEFINE A == [i \in DOMAIN shapes |-> shapes[i].at]
            Stays == \A i \in DOMAIN A : i \in DOMAIN A' /\ A'[i] = A[i]
<1>1. IInv => Policy!ThreeAYear
  <2>. SUFFICES ASSUME IInv, NEW i \in DOMAIN shapes, i + 3 \in DOMAIN shapes, i + 1 > Len(Legacy)
                PROVE  shapes[i + 3].at.month >= shapes[i].at.month + 12
    BY DEF Policy!ThreeAYear
  <2>1. DOMAIN shapes = 1 .. Len(shapes) /\ Len(shapes) \in Nat /\ Len(Legacy) \in Nat
    BY PlansAssumption DEF IInv, Types
  <2>2. PICK j \in DOMAIN shapes, k \in DOMAIN shapes, n \in DOMAIN shapes :
             i < j /\ j < k /\ k < n /\ j > Len(Legacy) /\ k > Len(Legacy) /\ n > Len(Legacy)
             /\ n = i + 3
    <3>1. /\ i \in Nat /\ i + 1 \in DOMAIN shapes /\ i + 2 \in DOMAIN shapes
          /\ i < i + 1 /\ i + 1 < i + 2 /\ i + 2 < i + 3
          /\ i + 2 > Len(Legacy) /\ i + 3 > Len(Legacy)
      BY <2>1
    <3>. QED  BY <3>1
  <2>3. \A m \in DOMAIN shapes : shapes[m].at \in Dates
    BY ShapeAt DEF IInv
  <2>4. /\ Policy!FourMonths(shapes[i].at, shapes[j].at)
        /\ Policy!FourMonths(shapes[j].at, shapes[k].at)
        /\ Policy!FourMonths(shapes[k].at, shapes[n].at)
    BY <2>2 DEF IInv, ShapesApart
  <2>5. shapes[n].at.month >= shapes[i].at.month + 12
    BY <2>3, <2>4, ThreePeriods
  <2>. QED
    BY <2>2, <2>5
<1>2. ASSUME IInv, Policy!Approve
      PROVE  Stays
  <2>1. A \in Seq(Dates)
    BY <1>2, ShapeAt DEF IInv, Types
  <2>2. PICK d : A' = Append(A, d)
    BY <1>2 DEF Policy!Approve
  <2>. HIDE DEF A
  <2>. QED
    BY <2>1, <2>2
<1>3. Policy!Advance => A' = A
  BY DEF Policy!Advance
<1>4. IInv /\ [Policy!Advance \/ Policy!Approve]_<<now, A>> => [Stays]_<<now, A>>
  BY <1>2, <1>3, Zenon
<1>. QED
  BY <1>1, <1>4, Implements, Invariance, PTL DEF KeepsPolicy, Policy!Spec, Policy!Kept
=============================================================================
