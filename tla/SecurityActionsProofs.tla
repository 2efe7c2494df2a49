------------------------ MODULE SecurityActionsProofs ------------------------
(* Theorems about SecurityActions, for any signals, requests, threads and    *)
(* bounds.                                                                   *)
EXTENDS SecurityActions, FiniteSetTheorems, TLAPS

\* What a table update keeps.
LEMMA MarkType ==
    ASSUME TypeOK, NEW S, NEW s \in Statuses
    PROVE  /\ Mark(S, s) \in [Ids -> Action]
           /\ \A i \in Ids : Mark(S, s)[i].status = IF i \in S THEN s ELSE Status(i)
BY DEF TypeOK, Mark, Action, Status

LEMMA ResolvedType ==
    ASSUME TypeOK, NEW S, NEW r \in {"NONE", "EXPIRED", "RESOLVED"}
    PROVE  /\ Resolved(S, r) \in [Ids -> Alert]
           /\ \A i \in Ids : /\ Resolved(S, r)[i].sig = alerts[i].sig
                             /\ Resolved(S, r)[i].active = IF i \in S THEN 0 ELSE alerts[i].active
                             /\ Resolved(S, r)[i].reason = IF i \in S THEN r ELSE alerts[i].reason
<1>1. \A a \in Alert : [a EXCEPT !.active = 0, !.reason = r] \in Alert
  <2>. SUFFICES ASSUME NEW a \in Alert
                PROVE  [a EXCEPT !.active = 0, !.reason = r] \in Alert
    OBVIOUS
  <2>1. [a EXCEPT !.active = 0] \in Alert
    BY DEF Alert
  <2>2. \A b \in Alert : [b EXCEPT !.reason = r] \in Alert
    BY DEF Alert
  <2>3. [a EXCEPT !.active = 0, !.reason = r] = [[a EXCEPT !.active = 0] EXCEPT !.reason = r]
    BY DEF Alert
  <2>. QED
    BY <2>1, <2>2, <2>3
<1>2. \A a \in Alert : LET b == [a EXCEPT !.active = 0, !.reason = r] IN
         b.sig = a.sig /\ b.active = 0 /\ b.reason = r
  BY DEF Alert
<1>. QED
  BY <1>1, <1>2 DEF TypeOK, Resolved

LEMMA RowsCount ==
    ASSUME TypeOK
    PROVE  Cardinality(Rows) \in Nat
<1>1. lastAlert \in Int
  BY LimitsAssumption DEF TypeOK
<1>2. IsFiniteSet(Stored)
  BY <1>1, FS_Interval DEF Stored
<1>3. IsFiniteSet(Rows)
  BY <1>2, FS_Subset DEF Rows
<1>. QED
  BY <1>3, FS_CardinalityType

LEMMA EnsuredType ==
    ASSUME TypeOK, NEW k
    PROVE  /\ Ensured(k) \in [Ids -> Action]
           /\ \A i \in Ids : Ensured(k)[i].status =
                 IF i = k /\ Status(i) = "NONE" THEN "OPEN" ELSE Status(i)
<1>1. Cardinality(Rows) + 1 \in Nat
  BY RowsCount
<1>. QED
  BY <1>1, ZenonT(60) DEF TypeOK, Ensured, Action, Status, Statuses, Unresolved, Queued, Terminal

LEMMA ReportedType ==
    ASSUME TypeOK, NEW k \in Int
    PROVE  /\ Reported(k) \in [Ids -> Action]
           /\ \A i \in Ids : i # k => Reported(k)[i].status = Status(i)
           /\ CountReport(k) \in [Ids -> 0..2]
           /\ \A i \in Ids : CountReport(k)[i] >= reports[i]
           /\ k \in Ids => CountReport(k)[k] > 0
<1>1. /\ latest \in 0..MaxImports
      /\ syncs \in 0..MaxImports
      /\ 0 \in 0..MaxImports
  BY LimitsAssumption DEF TypeOK
<1>. DEFINE st == IF alerts[k].sig.external THEN "CONFIRMED" ELSE "AWAITING_STATEMENT"
             bs == IF alerts[k].sig.external THEN 0 ELSE latest
<1>2. Reported(k) \in [Ids -> Action]
  <2>1. st \in Statuses /\ bs \in 0..MaxImports
    BY <1>1 DEF Statuses, Unresolved, Queued, Terminal
  <2>2. Reported(k) = [actions EXCEPT ![k].status = st, ![k].base = bs, ![k].sync = syncs,
                                      ![k].reported = 1]
    BY DEF Reported
  <2>. HIDE DEF st, bs
  <2>. QED
    <3>. DEFINE A1 == [actions EXCEPT ![k].status = st]
                 A2 == [A1 EXCEPT ![k].base = bs]
                 A3 == [A2 EXCEPT ![k].sync = syncs]
                 A4 == [A3 EXCEPT ![k].reported = 1]
    <3>1. A1 \in [Ids -> Action]
      BY <2>1 DEF TypeOK, Action
    <3>2. A2 \in [Ids -> Action]
      <4>. HIDE DEF A1
      <4>. QED  BY <2>1, <3>1 DEF Action
    <3>3. A3 \in [Ids -> Action]
      <4>. HIDE DEF A2
      <4>. QED  BY <1>1, <3>2 DEF Action
    <3>4. A4 \in [Ids -> Action]
      <4>. HIDE DEF A3
      <4>1. \A x \in Action : [x EXCEPT !.reported = 1] \in Action
        BY DEF Action
      <4>. QED  BY <3>3, <4>1
    <3>5. Reported(k) = A4
      BY <2>2
    <3>. QED
      BY <3>4, <3>5
<1>3. \A i \in Ids : i # k => Reported(k)[i].status = Status(i)
  BY DEF TypeOK, Reported, Action, Status
<1>4. /\ CountReport(k) \in [Ids -> 0..2]
      /\ \A i \in Ids : CountReport(k)[i] >= reports[i]
      /\ k \in Ids => CountReport(k)[k] > 0
  <2>1. reports \in [Ids -> 0..2]
    BY DEF TypeOK
  <2>2. CASE k \in Ids
    <3>1. CountReport(k) = [reports EXCEPT ![k] = IF reports[k] < 2 THEN reports[k] + 1
                                                  ELSE reports[k]]
      BY DEF CountReport
    <3>2. (IF reports[k] < 2 THEN reports[k] + 1 ELSE reports[k]) \in 1..2
      BY <2>1, <2>2
    <3>. QED
      BY <2>1, <2>2, <3>1, <3>2
  <2>3. CASE k \notin Ids
    <3>1. CountReport(k) = reports
      BY <2>1, <2>3 DEF CountReport
    <3>. QED
      BY <2>1, <2>3, <3>1
  <2>. QED
    BY <2>2, <2>3
<1>. QED
  BY <1>2, <1>3, <1>4

-----------------------------------------------------------------------------
(* Type correctness                                                        *)

\* TypeOK in two halves, the tables and the handlers.
TablesOK ==
    /\ alerts \in [Ids -> Alert]
    /\ actions \in [Ids -> Action]
    /\ lastAlert \in 0..MaxAlerts
    /\ \A i \in Ids : i <= lastAlert <=> alerts[i].sig # NoSignal
    /\ syncs \in 0..MaxImports /\ latest \in 0..syncs
    /\ reports \in [Ids -> 0..2]
    /\ faults \in 0..MaxFaults
HandlersOK ==
    /\ thread \in [Threads -> Handler]
    /\ \A t \in Threads : thread[t].on <= lastAlert /\ thread[t].todo \subseteq Stored
    /\ mu \in Threads \cup {Nobody}

LEMMA TypeHalves == TypeOK <=> TablesOK /\ HandlersOK
BY DEF TypeOK, TablesOK, HandlersOK
LEMMA TypeHalvesPrime == TypeOK' <=> TablesOK' /\ HandlersOK'
BY DEF TypeOK, TablesOK, HandlersOK

\* How a step moves the handlers.
LEMMA GotoType ==
    ASSUME TypeOK, NEW t \in Threads, NEW p \in Pcs, Goto(t, p)
    PROVE  /\ thread' \in [Threads -> Handler]
           /\ \A u \in Threads : /\ thread'[u].op = thread[u].op
                                 /\ thread'[u].on = thread[u].on
                                 /\ thread'[u].todo = thread[u].todo
                                 /\ thread'[u].pc = IF u = t THEN p ELSE thread[u].pc
BY DEF TypeOK, Goto, Handler

LEMMA IdleType == Idle \in Handler
BY LimitsAssumption DEF Idle, Handler, Ops, Pcs, Statuses, Unresolved, Queued, Terminal

LEMMA ReturnType ==
    ASSUME TypeOK, NEW t \in Threads, Return(t)
    PROVE  /\ thread' \in [Threads -> Handler]
           /\ mu' \in Threads \cup {Nobody}
           /\ \A u \in Threads : thread'[u] = IF u = t THEN Idle ELSE thread[u]
BY IdleType DEF TypeOK, Return

\* A handler works through its list.
LEMMA TodoType ==
    ASSUME TypeOK, NEW t \in Threads, NEW i,
           thread' = [thread EXCEPT ![t].todo = @ \ {i}]
    PROVE  /\ thread' \in [Threads -> Handler]
           /\ \A u \in Threads : /\ thread'[u].op = thread[u].op
                                 /\ thread'[u].on = thread[u].on
                                 /\ thread'[u].pc = thread[u].pc
                                 /\ thread'[u].todo \subseteq thread[u].todo
<1>1. \A h \in Handler : [h EXCEPT !.todo = h.todo \ {i}] \in Handler
  BY DEF Handler
<1>2. thread' = [thread EXCEPT ![t] = [thread[t] EXCEPT !.todo = thread[t].todo \ {i}]]
  BY DEF TypeOK
<1>3. thread \in [Threads -> Handler]
  BY DEF TypeOK
<1>4. \A h \in Handler : LET g == [h EXCEPT !.todo = h.todo \ {i}] IN
         g.op = h.op /\ g.on = h.on /\ g.pc = h.pc /\ g.todo \subseteq h.todo
  BY DEF Handler
<1>. QED
  BY <1>1, <1>2, <1>3, <1>4

\* Or fills it with stored rows.
LEMMA FillType ==
    ASSUME TypeOK, NEW t \in Threads, NEW S \in SUBSET Stored, NEW p \in Pcs,
           thread' = [thread EXCEPT ![t].todo = S, ![t].pc = p]
    PROVE  /\ thread' \in [Threads -> Handler]
           /\ \A u \in Threads : /\ thread'[u].op = thread[u].op
                                 /\ thread'[u].on = thread[u].on
                                 /\ thread'[u].pc = IF u = t THEN p ELSE thread[u].pc
                                 /\ thread'[u].todo = IF u = t THEN S ELSE thread[u].todo
<1>1. S \in SUBSET Ids
  BY LimitsAssumption DEF TypeOK, Stored, Ids
<1>2. \A h \in Handler : [h EXCEPT !.todo = S] \in Handler
  BY <1>1 DEF Handler
<1>3. \A h \in Handler : [h EXCEPT !.pc = p] \in Handler
  BY DEF Handler
<1>4. thread' = [[thread EXCEPT ![t].todo = S] EXCEPT ![t].pc = p]
  OBVIOUS
<1>5. [thread EXCEPT ![t].todo = S] \in [Threads -> Handler]
  BY <1>2 DEF TypeOK
<1>6. thread' \in [Threads -> Handler]
  BY <1>3, <1>4, <1>5, ZenonT(60)
<1>. QED
  BY <1>4, <1>6 DEF TypeOK, Handler

\* Or starts afresh.
LEMMA StartType ==
    ASSUME TypeOK, NEW t \in Threads, NEW h \in Handler, thread' = [thread EXCEPT ![t] = h]
    PROVE  /\ thread' \in [Threads -> Handler]
           /\ \A u \in Threads : thread'[u] = IF u = t THEN h ELSE thread[u]
BY DEF TypeOK

\* What is enough for the tables to stay well typed in a step that stores no
\* alert, and for the handlers.
LEMMA TablesStep ==
    ASSUME TypeOK, UNCHANGED <<lastAlert, broker>>, faults' \in 0..MaxFaults,
           alerts' \in [Ids -> Alert], \A i \in Ids : alerts'[i].sig = alerts[i].sig,
           actions' \in [Ids -> Action], reports' \in [Ids -> 0..2]
    PROVE  TablesOK'
BY DEF TypeOK, TablesOK, broker

LEMMA HandlersStep ==
    ASSUME TypeOK, lastAlert' \in Int, lastAlert <= lastAlert',
           thread' \in [Threads -> Handler], mu' \in Threads \cup {Nobody},
           \A u \in Threads : \/ thread'[u].on <= lastAlert'
                              \/ thread'[u].on = thread[u].on,
           \A u \in Threads : thread'[u].todo \subseteq Stored \cup thread[u].todo
    PROVE  HandlersOK'
<1>1. /\ lastAlert \in Int
      /\ \A u \in Threads : /\ thread[u].on \in Int /\ thread'[u].on \in Int
                            /\ thread[u].on <= lastAlert
                            /\ thread[u].todo \subseteq Stored
  BY LimitsAssumption DEF TypeOK, Handler
<1>2. Stored \subseteq Stored'
  BY <1>1 DEF Stored
<1>. QED
  BY <1>1, <1>2 DEF HandlersOK

LEMMA TodoStep ==
    ASSUME TypeOK, UNCHANGED <<lastAlert, mu>>, NEW t \in Threads, NEW i,
           thread' = [thread EXCEPT ![t].todo = @ \ {i}]
    PROVE  HandlersOK'
<1>1. lastAlert \in Int /\ mu \in Threads \cup {Nobody}
  BY LimitsAssumption DEF TypeOK
<1>2. /\ thread' \in [Threads -> Handler]
      /\ \A u \in Threads : thread'[u].on = thread[u].on
      /\ \A u \in Threads : thread'[u].todo \subseteq thread[u].todo
  BY TodoType
<1>. QED
  BY <1>1, <1>2, HandlersStep

LEMMA FillStep ==
    ASSUME TypeOK, UNCHANGED <<lastAlert, mu>>, NEW t \in Threads, NEW S \in SUBSET Stored,
           NEW p \in Pcs, thread' = [thread EXCEPT ![t].todo = S, ![t].pc = p]
    PROVE  HandlersOK'
<1>1. lastAlert \in Int /\ mu \in Threads \cup {Nobody}
  BY LimitsAssumption DEF TypeOK
<1>2. /\ thread' \in [Threads -> Handler]
      /\ \A u \in Threads : thread'[u].on = thread[u].on
      /\ \A u \in Threads : thread'[u].todo \subseteq Stored \cup thread[u].todo
  <2>1. /\ thread' \in [Threads -> Handler]
        /\ \A u \in Threads : /\ thread'[u].on = thread[u].on
                              /\ thread'[u].todo = IF u = t THEN S ELSE thread[u].todo
    BY FillType, ZenonT(60)
  <2>2. S \subseteq Stored
    OBVIOUS
  <2>. QED
    BY <2>1, <2>2
<1>. QED
  BY <1>1, <1>2, HandlersStep

LEMMA StatusesHold ==
    {"OPEN", "BLOCKED", "EXPIRED", "NOT_APPLICABLE", "IGNORED", "OVERRIDDEN",
     "CONFIRMED", "VARIANCE", "AWAITING_STATEMENT", "NONE"} \subseteq Statuses
BY DEF Statuses, Unresolved, Queued, Terminal

\* A handler that returns.
LEMMA ReturnStep ==
    ASSUME TypeOK, NEW t \in Threads, Return(t), lastAlert' \in Int, lastAlert <= lastAlert'
    PROVE  HandlersOK'
<1>1. /\ thread' \in [Threads -> Handler]
      /\ mu' \in Threads \cup {Nobody}
      /\ \A u \in Threads : thread'[u] = IF u = t THEN Idle ELSE thread[u]
  BY ReturnType
<1>2. Idle.on = 0 /\ Idle.todo = {}
  BY DEF Idle
<1>3. 0 <= lastAlert /\ lastAlert \in Int
  BY LimitsAssumption DEF TypeOK
<1>. QED
  BY <1>1, <1>2, <1>3, HandlersStep

\* One that begins or ends its projection.
LEMMA SyncType ==
    ASSUME TypeOK, NEW t \in Threads, NEW p \in Pcs, NEW b \in BOOLEAN,
           thread' = [thread EXCEPT ![t].pc = p, ![t].synced = b]
    PROVE  /\ thread' \in [Threads -> Handler]
           /\ \A u \in Threads \ {t} : thread'[u] = thread[u]
           /\ \A u \in Threads : /\ thread'[u].op = thread[u].op
                                 /\ thread'[u].on = thread[u].on
                                 /\ thread'[u].todo = thread[u].todo
                                 /\ thread'[u].date = thread[u].date
                                 /\ thread'[u].saw = thread[u].saw
                                 /\ thread'[u].pc = IF u = t THEN p ELSE thread[u].pc
<1>1. thread' = [thread EXCEPT ![t] = [[thread[t] EXCEPT !.pc = p] EXCEPT !.synced = b]]
  BY DEF TypeOK
<1>2. \A h \in Handler : LET g == [[h EXCEPT !.pc = p] EXCEPT !.synced = b] IN
         /\ g \in Handler
         /\ g.op = h.op /\ g.on = h.on /\ g.todo = h.todo /\ g.date = h.date /\ g.saw = h.saw
         /\ g.pc = p
  BY DEF Handler
<1>3. thread \in [Threads -> Handler]
  BY DEF TypeOK
<1>. DEFINE g == [[thread[t] EXCEPT !.pc = p] EXCEPT !.synced = b]
<1>4. /\ g \in Handler /\ g.pc = p
      /\ g.op = thread[t].op /\ g.on = thread[t].on /\ g.todo = thread[t].todo
      /\ g.date = thread[t].date /\ g.saw = thread[t].saw
  BY <1>2, <1>3
<1>5. thread' = [thread EXCEPT ![t] = g]
  BY <1>1
<1>. HIDE DEF g
<1>. QED
  BY <1>3, <1>4, <1>5

\* It returns, or goes on to the row it is about.
LEMMA ProjectedMoves ==
    ASSUME TypeOK, NEW t \in Threads, Projected(t)
    PROVE  \/ Return(t)
           \/ /\ thread[t].op \notin {"read", "policy"}
              /\ thread' \in [Threads -> Handler]
              /\ mu' \in {mu, Nobody}
              /\ mu' # mu => mu = t /\ thread[t].op \in {"execute", "skip"}
              /\ \A u \in Threads \ {t} : thread'[u] = thread[u]
              /\ \A u \in Threads : /\ thread'[u].op = thread[u].op
                                    /\ thread'[u].on = thread[u].on
                                    /\ thread'[u].todo = thread[u].todo
                                    /\ thread'[u].date = thread[u].date
                                    /\ thread'[u].saw = thread[u].saw
                                    /\ thread'[u].pc = IF u = t THEN "load" ELSE thread[u].pc
<1>1. "load" \in Pcs
  BY DEF Pcs
<1>2. CASE thread[t].op \in {"read", "policy"}
  BY <1>2 DEF Projected
<1>3. CASE thread[t].op \notin {"read", "policy"}
  <2>1. /\ thread' = [thread EXCEPT ![t].pc = "load", ![t].synced = FALSE]
        /\ mu' = IF thread[t].op \in {"execute", "skip"} /\ mu = t THEN Nobody ELSE mu
    BY <1>3 DEF Projected
  <2>. QED  BY <1>1, <1>3, <2>1, SyncType
<1>. QED
  BY <1>2, <1>3

LEMMA ProjectedType ==
    ASSUME TypeOK, NEW t \in Threads, Projected(t), lastAlert' \in Int, lastAlert <= lastAlert'
    PROVE  HandlersOK'
<1>1. CASE Return(t)
  BY <1>1, ReturnStep
<1>2. CASE ~Return(t)
  <2>1. /\ thread' \in [Threads -> Handler] /\ mu' \in {mu, Nobody}
        /\ \A u \in Threads : thread'[u].on = thread[u].on /\ thread'[u].todo = thread[u].todo
    BY <1>2, ProjectedMoves
  <2>2. mu' \in Threads \cup {Nobody}
    BY <2>1 DEF TypeOK
  <2>. QED  BY <2>1, <2>2, HandlersStep
<1>. QED
  BY <1>1, <1>2

LEMMA RefreshType ==
    ASSUME TypeOK, NEW t \in Threads, Refresh(t)
    PROVE  TypeOK'
<1>. USE StatusesHold
<1>0. /\ lastAlert \in Int /\ faults \in 0..MaxFaults
      /\ alerts \in [Ids -> Alert] /\ actions \in [Ids -> Action]
      /\ reports \in [Ids -> 0..2] /\ mu \in Threads \cup {Nobody}
      /\ Rows \subseteq Stored
  BY LimitsAssumption DEF TypeOK, Rows
<1>1. CASE Retire(t)
  <2>1. Goto(t, "unblock") /\ "unblock" \in Pcs
    BY <1>1 DEF Retire, Pcs
  <2>2. TablesOK'
    BY <1>0, <1>1, MarkType, TablesStep DEF Retire
  <2>3. HandlersOK'
    BY <1>0, <1>1, <2>1, GotoType, HandlersStep DEF Retire
  <2>. QED  BY <2>2, <2>3, TypeHalvesPrime
<1>2. CASE Unblock(t)
  <2>1. Goto(t, "rank") /\ "rank" \in Pcs
    BY <1>2 DEF Unblock, Pcs
  <2>2. TablesOK'
    BY <1>0, <1>2, MarkType, TablesStep DEF Unblock
  <2>3. HandlersOK'
    BY <1>0, <1>2, <2>1, GotoType, HandlersStep DEF Unblock
  <2>. QED  BY <2>2, <2>3, TypeHalvesPrime
<1>3. CASE Rank(t)
  <2>1. PICK S \in SUBSET Stored : thread' = [thread EXCEPT ![t].todo = S, ![t].pc = "block"]
    <3>. DEFINE queue == {i \in Rows : Status(i) \in Unresolved \ {"BLOCKED"}}
                S == {i \in queue : \E j \in queue : Ticker(i) = Ticker(j) /\ Ahead(j, i)}
    <3>1. S \in SUBSET Stored
      BY <1>0
    <3>2. thread' = [thread EXCEPT ![t].todo = S, ![t].pc = "block"]
      BY <1>3 DEF Rank
    <3>. QED  BY <3>1, <3>2
  <2>2. "block" \in Pcs
    BY DEF Pcs
  <2>3. TablesOK'
    BY <1>0, <1>3, TablesStep DEF Rank, tables
  <2>4. HandlersOK'
    BY <1>0, <1>3, <2>1, <2>2, FillStep DEF Rank, tables
  <2>. QED  BY <2>3, <2>4, TypeHalvesPrime
<1>4. CASE Block(t)
  <2>1. PICK i \in thread[t].todo :
            /\ actions' = Mark({i} \cap {j \in Ids : Status(j) = "OPEN"}, "BLOCKED")
            /\ thread' = [thread EXCEPT ![t].todo = @ \ {i}]
    BY <1>4 DEF Block
  <2>2. TablesOK'
    BY <1>0, <1>4, <2>1, MarkType, TablesStep DEF Block
  <2>3. HandlersOK'
    BY <1>0, <1>4, <2>1, TodoStep DEF Block
  <2>. QED  BY <2>2, <2>3, TypeHalvesPrime
<1>5. CASE BlockEnds(t)
  <2>1. TablesOK' /\ UNCHANGED lastAlert
    BY <1>0, <1>5, TablesStep DEF BlockEnds, tables
  <2>2. HandlersOK'
    <3>1. CASE Projected(t)
      BY <1>0, <2>1, <3>1, ProjectedType
    <3>2. ASSUME NEW p \in {"load", "project"}, Goto(t, p), UNCHANGED mu
          PROVE  HandlersOK'
      <4>1. p \in Pcs
        BY DEF Pcs
      <4>. QED  BY <1>0, <2>1, <3>2, <4>1, GotoType, HandlersStep
    <3>. QED  BY <1>5, <3>1, <3>2 DEF BlockEnds
  <2>. QED  BY <2>1, <2>2, TypeHalvesPrime
<1>. QED
  BY <1>1, <1>2, <1>3, <1>4, <1>5 DEF Refresh

LEMMA ReadingType ==
    ASSUME TypeOK, NEW t \in Threads, Reading(t)
    PROVE  TypeOK'
<1>. USE StatusesHold
<1>0. /\ lastAlert \in Int /\ faults \in 0..MaxFaults
      /\ alerts \in [Ids -> Alert] /\ actions \in [Ids -> Action]
      /\ reports \in [Ids -> 0..2] /\ mu \in Threads \cup {Nobody}
      /\ Rows \subseteq Stored
  BY LimitsAssumption DEF TypeOK, Rows
<1>1. CASE ExpireAlerts(t)
  <2>1. PICK p \in {"list", "expireActions"} : Goto(t, p)
    BY <1>1 DEF ExpireAlerts
  <2>2. p \in Pcs
    BY DEF Pcs
  <2>3. TablesOK'
    <3>. HIDE DEF Overdue
    <3>. QED  BY <1>0, <1>1, ResolvedType, TablesStep DEF ExpireAlerts
  <2>4. HandlersOK'
    BY <1>0, <1>1, <2>1, <2>2, GotoType, HandlersStep DEF ExpireAlerts
  <2>. QED  BY <2>3, <2>4, TypeHalvesPrime
<1>2. CASE ExpireActions(t)
  <2>1. Goto(t, "list") /\ "list" \in Pcs
    BY <1>2 DEF ExpireActions, Pcs
  <2>2. TablesOK'
    BY <1>0, <1>2, MarkType, TablesStep DEF ExpireActions
  <2>3. HandlersOK'
    BY <1>0, <1>2, <2>1, GotoType, HandlersStep DEF ExpireActions
  <2>. QED  BY <2>2, <2>3, TypeHalvesPrime
<1>3. CASE ListAlerts(t)
  <2>1. PICK S \in SUBSET Stored : thread' = [thread EXCEPT ![t].todo = S,
                                                            ![t].pc = "backfill"]
    BY <1>3 DEF ListAlerts
  <2>2. "backfill" \in Pcs
    BY DEF Pcs
  <2>3. TablesOK'
    BY <1>0, <1>3, TablesStep DEF ListAlerts, tables
  <2>4. HandlersOK'
    BY <1>0, <1>3, <2>1, <2>2, FillStep DEF ListAlerts, tables
  <2>. QED  BY <2>3, <2>4, TypeHalvesPrime
<1>4. CASE Backfill(t)
  <2>1. PICK i \in thread[t].todo : /\ actions' = Ensured(i)
                                    /\ thread' = [thread EXCEPT ![t].todo = @ \ {i}]
    BY <1>4 DEF Backfill
  <2>2. TablesOK'
    BY <1>0, <1>4, <2>1, EnsuredType, TablesStep DEF Backfill
  <2>3. HandlersOK'
    BY <1>0, <1>4, <2>1, TodoStep DEF Backfill
  <2>. QED  BY <2>2, <2>3, TypeHalvesPrime
<1>5. CASE BackfillEnds(t)
  <2>1. Goto(t, "retire") /\ "retire" \in Pcs
    BY <1>5 DEF BackfillEnds, Pcs
  <2>2. TablesOK'
    BY <1>0, <1>5, TablesStep DEF BackfillEnds, tables
  <2>3. HandlersOK'
    BY <1>0, <1>5, <2>1, GotoType, HandlersStep DEF BackfillEnds, tables
  <2>. QED  BY <2>2, <2>3, TypeHalvesPrime
<1>. QED
  BY <1>1, <1>2, <1>3, <1>4, <1>5 DEF Reading

\* The steps each kind of request goes through, and which of them are about an
\* alert.
PlacedAt(h) ==
    /\ h.on = 0 => h.op \in {"none", "read", "import", "policy"}
    /\ h.op = "none" => h.pc = "idle"
    /\ h.op = "create" => h.pc = "ensure"
    /\ h.op = "read" => h.pc \in {"expire", "expireActions", "list", "backfill", "retire",
                                 "unblock", "rank", "block", "project"}
    /\ h.op \in {"record", "except", "decide"} =>
          h.pc \in {"lock", "retire", "unblock", "rank", "block", "project", "load", "commit"}
    /\ h.op \in {"ignore", "override"} =>
          h.pc \in {"retire", "unblock", "rank", "block", "load", "commit"}
    /\ h.op = "execute" => h.pc \in {"ensure", "insert", "resolve", "project", "unblock", "rank",
                                    "block", "load", "commit"}
    /\ h.op = "skip" => h.pc \in {"ensure", "check", "insert", "resolve", "project", "unblock",
                                 "rank", "block", "load", "commit"}
    /\ h.op = "policy" => h.pc \in {"project", "unblock", "rank", "block"}
    /\ h.op = "dismiss" => h.pc \in {"ensure", "check", "resolve"}
    /\ h.op = "import" => h.pc \in {"candidates", "judge"}
Placed == \A t \in Threads : PlacedAt(thread[t])

LEMMA Targeted ==
    ASSUME TypeOK, Placed, NEW t \in Threads,
           thread[t].pc \in {"ensure", "load", "commit", "check", "insert", "resolve"}
    PROVE  thread[t].on \in Stored /\ thread[t].on \in Ids
<1>1. thread[t].op \notin {"none", "read", "import", "policy"}
  BY DEF Placed, PlacedAt
<1>2. thread[t].on # 0
  BY <1>1 DEF Placed, PlacedAt
<1>3. thread[t].on \in 0..MaxAlerts /\ thread[t].on <= lastAlert /\ lastAlert \in 0..MaxAlerts
  BY DEF TypeOK, Handler
<1>. QED
  BY <1>2, <1>3, LimitsAssumption DEF Stored, Ids

\* One that goes on.
LEMMA GotoStep ==
    ASSUME TypeOK, NEW t \in Threads, NEW p \in Pcs, Goto(t, p), UNCHANGED mu,
           lastAlert' \in Int, lastAlert <= lastAlert'
    PROVE  HandlersOK'
<1>1. mu' \in Threads \cup {Nobody}
  BY DEF TypeOK
<1>. QED
  BY <1>1, GotoType, HandlersStep

\* Storing an alert.
LEMMA NewAlertType ==
    ASSUME TypeOK, NEW s \in Signals, lastAlert < MaxAlerts, lastAlert' = lastAlert + 1,
           alerts' = [alerts EXCEPT ![lastAlert + 1] = NewAlert(s)]
    PROVE  /\ lastAlert' \in 0..MaxAlerts
           /\ lastAlert + 1 \in Ids
           /\ alerts' \in [Ids -> Alert]
           /\ \A i \in Ids : i <= lastAlert' <=> alerts'[i].sig # NoSignal
<1>1. lastAlert \in 0..MaxAlerts /\ MaxAlerts \in Nat
  BY LimitsAssumption DEF TypeOK
<1>2. lastAlert + 1 \in Ids /\ lastAlert' \in 0..MaxAlerts
  BY <1>1 DEF Ids
<1>3. NewAlert(s) \in Alert /\ NewAlert(s).sig = s
  BY DEF NewAlert, Alert
<1>4. alerts' \in [Ids -> Alert]
  BY <1>2, <1>3 DEF TypeOK
<1>5. \A i \in Ids : alerts'[i].sig = IF i = lastAlert + 1 THEN s ELSE alerts[i].sig
  BY <1>2, <1>3 DEF TypeOK
<1>6. s # NoSignal
  BY SignalsAssumption
<1>7. \A i \in Ids : i <= lastAlert' <=> alerts'[i].sig # NoSignal
  BY <1>1, <1>5, <1>6 DEF TypeOK, Ids
<1>. QED
  BY <1>2, <1>4, <1>7

LEMMA PolicySyncType ==
    ASSUME TypeOK, PolicySync, UNCHANGED broker, faults' \in 0..MaxFaults
    PROVE  TablesOK' /\ lastAlert' \in Int /\ lastAlert <= lastAlert'
<1>. USE StatusesHold
<1>0. /\ lastAlert \in Int /\ lastAlert \in 0..MaxAlerts
      /\ alerts \in [Ids -> Alert] /\ actions \in [Ids -> Action]
      /\ reports \in [Ids -> 0..2]
  BY LimitsAssumption DEF TypeOK
<1>1. CASE UNCHANGED tables
  BY <1>0, <1>1, TablesStep DEF tables
<1>2. ASSUME NEW K \in SUBSET Tickers, Withdraw(K)
      PROVE  TablesOK' /\ lastAlert' \in Int /\ lastAlert <= lastAlert'
  <2>1. PICK W : /\ actions' = Mark(W, "NOT_APPLICABLE")
                 /\ alerts' = Resolved(W, "RESOLVED")
                 /\ UNCHANGED <<lastAlert, reports>>
    BY <1>2 DEF Withdraw
  <2>2. TablesOK'
    BY <1>0, <2>1, MarkType, ResolvedType, TablesStep
  <2>. QED  BY <1>0, <2>1, <2>2
<1>3. ASSUME NEW s \in Signals, Propose(s)
      PROVE  TablesOK' /\ lastAlert' \in Int /\ lastAlert <= lastAlert'
  <2>1. /\ lastAlert < MaxAlerts
        /\ lastAlert' = lastAlert + 1
        /\ alerts' = [alerts EXCEPT ![lastAlert + 1] = NewAlert(s)]
        /\ actions' = [actions EXCEPT ![lastAlert + 1].status = "OPEN",
                                      ![lastAlert + 1].no = Cardinality(Rows) + 1]
        /\ UNCHANGED reports
    BY <1>3 DEF Propose
  <2>2. actions' \in [Ids -> Action]
    <3>1. Cardinality(Rows) + 1 \in Nat
      BY RowsCount
    <3>. QED  BY <1>0, <2>1, <3>1, ZenonT(60) DEF Action
  <2>3. TablesOK'
    BY <1>0, <2>1, <2>2, NewAlertType DEF TablesOK, TypeOK, broker
  <2>. QED  BY <1>0, <2>1, <2>3
<1>. QED
  BY <1>1, <1>2, <1>3 DEF PolicySync

LEMMA AnsweringType ==
    ASSUME TypeOK, Placed, NEW t \in Threads, Answering(t)
    PROVE  TypeOK'
<1>. USE StatusesHold
<1>0. /\ lastAlert \in Int /\ faults \in 0..MaxFaults
      /\ alerts \in [Ids -> Alert] /\ actions \in [Ids -> Action]
      /\ reports \in [Ids -> 0..2] /\ mu \in Threads \cup {Nobody}
  BY LimitsAssumption DEF TypeOK
<1>p. {"retire", "unblock", "load", "commit"} \subseteq Pcs
  BY DEF Pcs
<1>. DEFINE i == thread[t].on
<1>i. i \in Int
  BY LimitsAssumption DEF TypeOK, Handler
<1>1. CASE Lock(t)
  <2>1. Goto(t, "retire")
    BY <1>1 DEF Lock
  <2>2. TablesOK'
    BY <1>0, <1>1, TablesStep DEF Lock, tables
  <2>3. HandlersOK'
    BY <1>0, <1>1, <1>p, <2>1, GotoType, HandlersStep DEF Lock, tables
  <2>. QED  BY <2>2, <2>3, TypeHalvesPrime
<1>2. CASE Project(t)
  <2>0. PolicySync
    BY <1>2 DEF Project, PolicySync
  <2>1. TablesOK' /\ lastAlert' \in Int /\ lastAlert <= lastAlert'
    BY <1>0, <1>2, <2>0, PolicySyncType DEF Project
  <2>2. CASE Projected(t)
    BY <2>1, <2>2, ProjectedType, TypeHalvesPrime
  <2>3. CASE mu' = t /\ thread' = [thread EXCEPT ![t].pc = "unblock", ![t].synced = TRUE]
    <3>1. /\ thread' \in [Threads -> Handler]
          /\ \A u \in Threads : thread'[u].on = thread[u].on /\ thread'[u].todo = thread[u].todo
      BY <1>p, <2>3, SyncType
    <3>2. HandlersOK'
      BY <2>1, <2>3, <3>1, HandlersStep
    <3>. QED  BY <2>1, <3>2, TypeHalvesPrime
  <2>. QED  BY <1>2, <2>2, <2>3 DEF Project
<1>3. CASE Load(t)
  <2>1. TablesOK'
    BY <1>0, <1>3, TablesStep DEF Load, tables
  <2>2. HandlersOK'
    <3>1. CASE Return(t)
      BY <1>0, <1>3, <3>1, ReturnStep DEF Load, tables
    <3>2. CASE /\ thread' = [thread EXCEPT ![t].saw = Status(i), ![t].pc = "commit"]
               /\ UNCHANGED mu
      <4>1. i \in Ids
        BY <1>3, Targeted DEF Load, At
      <4>2. Status(i) \in Statuses
        BY <1>0, <4>1 DEF Action, Status
      <4>3. /\ thread' \in [Threads -> Handler]
            /\ \A u \in Threads : thread'[u].on = thread[u].on
            /\ \A u \in Threads : thread'[u].todo = thread[u].todo
        <5>. DEFINE s == Status(i)
                    T1 == [thread EXCEPT ![t].saw = s]
        <5>1. T1 \in [Threads -> Handler]
          BY <4>2 DEF TypeOK, Handler
        <5>2. thread' = [T1 EXCEPT ![t].pc = "commit"]
          BY <3>2
        <5>3. \A u \in Threads : T1[u].on = thread[u].on /\ T1[u].todo = thread[u].todo
          BY DEF TypeOK, Handler
        <5>. HIDE DEF T1
        <5>4. thread' \in [Threads -> Handler]
          BY <1>p, <5>1, <5>2 DEF Handler
        <5>5. \A u \in Threads : thread'[u].on = T1[u].on /\ thread'[u].todo = T1[u].todo
          BY <5>1, <5>2 DEF Handler
        <5>. QED  BY <5>3, <5>4, <5>5
      <4>4. lastAlert' = lastAlert /\ mu' \in Threads \cup {Nobody}
        BY <1>0, <1>3, <3>2 DEF Load, tables
      <4>. QED  BY <1>0, <4>3, <4>4, HandlersStep
    <3>. QED  BY <1>3, <3>1, <3>2 DEF Load
  <2>. QED  BY <2>1, <2>2, TypeHalvesPrime
<1>4. CASE CommitRecord(t)
  <2>1. TablesOK'
    <3>1. /\ UNCHANGED <<broker, faults, lastAlert>>
          /\ \/ UNCHANGED tables
             \/ /\ actions' = Reported(i)
                /\ alerts' = Resolved({i}, "RESOLVED")
                /\ reports' = CountReport(i)
      BY <1>4 DEF CommitRecord, tables
    <3>. QED  BY <1>0, <1>i, <3>1, ReportedType, ResolvedType, TablesStep DEF tables
  <2>2. HandlersOK'
    BY <1>0, <1>4, ReturnStep DEF CommitRecord, tables
  <2>. QED  BY <2>1, <2>2, TypeHalvesPrime
<1>5. ASSUME NEW op, NEW s \in {"IGNORED", "OVERRIDDEN"}, CommitAnswer(t, op, s)
      PROVE  TypeOK'
  <2>1. TablesOK'
    BY <1>0, <1>5, MarkType, ResolvedType, TablesStep DEF CommitAnswer
  <2>2. HandlersOK'
    BY <1>0, <1>5, ReturnStep DEF CommitAnswer
  <2>. QED  BY <2>1, <2>2, TypeHalvesPrime
<1>. QED
  BY <1>1, <1>2, <1>3, <1>4, <1>5 DEF Answering, CommitIgnore, CommitOverride

\* A handler that goes on as another kind of request.
LEMMA TurnType ==
    ASSUME TypeOK, NEW t \in Threads, NEW o \in Ops, NEW p \in Pcs,
           thread' = [thread EXCEPT ![t].op = o, ![t].pc = p]
    PROVE  /\ thread' \in [Threads -> Handler]
           /\ \A u \in Threads : /\ thread'[u].on = thread[u].on
                                 /\ thread'[u].todo = thread[u].todo
                                 /\ thread'[u].op = IF u = t THEN o ELSE thread[u].op
                                 /\ thread'[u].pc = IF u = t THEN p ELSE thread[u].pc
<1>. DEFINE T1 == [thread EXCEPT ![t].op = o]
<1>1. T1 \in [Threads -> Handler]
  BY DEF TypeOK, Handler
<1>2. thread' = [T1 EXCEPT ![t].pc = p]
  OBVIOUS
<1>3. \A u \in Threads : /\ T1[u].on = thread[u].on
                         /\ T1[u].todo = thread[u].todo
                         /\ T1[u].op = IF u = t THEN o ELSE thread[u].op
                         /\ T1[u].pc = thread[u].pc
  BY DEF TypeOK, Handler
<1>. HIDE DEF T1
<1>4. thread' \in [Threads -> Handler]
  BY <1>1, <1>2, ZenonT(60) DEF Handler
<1>5. \A u \in Threads : /\ thread'[u].on = T1[u].on
                         /\ thread'[u].todo = T1[u].todo
                         /\ thread'[u].op = T1[u].op
                         /\ thread'[u].pc = IF u = t THEN p ELSE T1[u].pc
  BY <1>1, <1>2 DEF Handler
<1>6. \A u \in Threads : /\ thread'[u].on = thread[u].on
                         /\ thread'[u].todo = thread[u].todo
                         /\ thread'[u].op = IF u = t THEN o ELSE thread[u].op
                         /\ thread'[u].pc = IF u = t THEN p ELSE thread[u].pc
  BY <1>3, <1>5, ZenonT(60)
<1>. QED
  BY <1>4, <1>6

LEMMA TurnStep ==
    ASSUME TypeOK, NEW t \in Threads, NEW o \in Ops, NEW p \in Pcs,
           UNCHANGED <<mu, lastAlert>>, thread' = [thread EXCEPT ![t].op = o, ![t].pc = p]
    PROVE  HandlersOK'
<1>1. lastAlert \in Int /\ mu \in Threads \cup {Nobody}
  BY LimitsAssumption DEF TypeOK
<1>2. /\ thread' \in [Threads -> Handler]
      /\ \A u \in Threads : thread'[u].on = thread[u].on /\ thread'[u].todo = thread[u].todo
  BY TurnType
<1>. QED
  BY <1>1, <1>2, HandlersStep

LEMMA EnsureMoves ==
    ASSUME TypeOK, NEW t \in Threads, Ensure(t)
    PROVE  \/ /\ thread[t].op = "create"
              /\ thread' = [thread EXCEPT ![t] = Idle]
           \/ \E p \in {"check", "insert"} : /\ thread[t].op \in {"dismiss", "execute", "skip"}
                                             /\ thread[t].op = "execute" <=> p = "insert"
                                             /\ Goto(t, p)
           \/ /\ thread[t].op = "execute"
              /\ thread' = [thread EXCEPT ![t].op = "decide", ![t].pc = "lock"]
           \/ /\ thread[t].op = "skip"
              /\ Weight(thread[t].on)
              /\ thread' = [thread EXCEPT ![t].op = "ignore", ![t].pc = "retire"]
BY DEF Ensure, Goto

LEMMA DecidingType ==
    ASSUME TypeOK, NEW t \in Threads, Deciding(t)
    PROVE  TypeOK'
<1>. USE StatusesHold
<1>0. /\ lastAlert \in Int /\ faults \in 0..MaxFaults
      /\ alerts \in [Ids -> Alert] /\ actions \in [Ids -> Action]
      /\ reports \in [Ids -> 0..2] /\ mu \in Threads \cup {Nobody}
  BY LimitsAssumption DEF TypeOK
<1>p. {"check", "insert", "lock", "retire", "resolve", "project"} \subseteq Pcs
      /\ {"decide", "ignore"} \subseteq Ops
  BY DEF Pcs, Ops
<1>. DEFINE i == thread[t].on
<1>i. i \in Int
  BY LimitsAssumption DEF TypeOK, Handler
<1>1. CASE Ensure(t)
  <2>1. UNCHANGED <<alerts, lastAlert, reports, broker, mu, faults>> /\ actions' = Ensured(i)
    BY <1>1 DEF Ensure
  <2>2. TablesOK'
    BY <1>0, <2>1, EnsuredType, TablesStep
  <2>3. CASE thread' = [thread EXCEPT ![t] = Idle]
    <3>1. Idle.on = 0 /\ Idle.todo = {} /\ 0 <= lastAlert
      BY LimitsAssumption DEF Idle, TypeOK
    <3>2. /\ thread' \in [Threads -> Handler]
          /\ \A u \in Threads : thread'[u] = IF u = t THEN Idle ELSE thread[u]
      BY <2>3, IdleType, StartType
    <3>3. /\ \A u \in Threads : thread'[u].on <= lastAlert' \/ thread'[u].on = thread[u].on
          /\ \A u \in Threads : thread'[u].todo \subseteq Stored \cup thread[u].todo
      BY <2>1, <3>1, <3>2
    <3>4. HandlersOK'
      BY <1>0, <2>1, <3>2, <3>3, HandlersStep
    <3>. QED  BY <2>2, <3>4, TypeHalvesPrime
  <2>4. ASSUME NEW p \in {"check", "insert"}, Goto(t, p)
        PROVE  TypeOK'
    BY <1>0, <1>p, <2>1, <2>2, <2>4, GotoStep, TypeHalvesPrime
  <2>5. CASE thread' = [thread EXCEPT ![t].op = "decide", ![t].pc = "lock"]
    BY <1>p, <2>1, <2>2, <2>5, TurnStep, TypeHalvesPrime
  <2>6. CASE thread' = [thread EXCEPT ![t].op = "ignore", ![t].pc = "retire"]
    BY <1>p, <2>1, <2>2, <2>6, TurnStep, TypeHalvesPrime
  <2>. QED  BY <1>1, <2>3, <2>4, <2>5, <2>6, EnsureMoves
<1>2. CASE Check(t)
  <2>1. TablesOK'
    BY <1>0, <1>2, TablesStep DEF Check, tables
  <2>2. HandlersOK'
    BY <1>0, <1>2, <1>p, ReturnStep, GotoStep DEF Check, tables
  <2>. QED  BY <2>1, <2>2, TypeHalvesPrime
<1>3. CASE Decide(t)
  <2>1. reports' \in [Ids -> 0..2]
    BY <1>0, <1>3, <1>i, ReportedType DEF Decide
  <2>2. TablesOK'
    BY <1>0, <1>3, <2>1, TablesStep DEF Decide
  <2>3. HandlersOK'
    BY <1>0, <1>3, <1>p, GotoStep DEF Decide
  <2>. QED  BY <2>2, <2>3, TypeHalvesPrime
<1>4. CASE Resolve(t)
  <2>1. PICK r : alerts' = Resolved({i}, r) /\ (r \in {"RESOLVED", "EXPIRED"} \/ r = alerts[i].reason)
    BY <1>4 DEF Resolve
  <2>2. alerts' \in [Ids -> Alert] /\ \A k \in Ids : alerts'[k].sig = alerts[k].sig
    <3>1. CASE i \in Ids
      <4>1. r \in {"NONE", "EXPIRED", "RESOLVED"}
        BY <1>0, <2>1, <3>1 DEF Alert
      <4>. QED  BY <2>1, <4>1, ResolvedType
    <3>2. CASE i \notin Ids
      <4>1. alerts' = alerts
        BY <1>0, <2>1, <3>2 DEF Resolved
      <4>. QED  BY <1>0, <4>1
    <3>. QED  BY <3>1, <3>2
  <2>3. TablesOK'
    BY <1>0, <1>4, <2>2, TablesStep DEF Resolve
  <2>4. HandlersOK'
    BY <1>0, <1>4, <1>p, ReturnStep, GotoStep DEF Resolve
  <2>. QED  BY <2>3, <2>4, TypeHalvesPrime
<1>5. CASE CommitDecision(t)
  <2>1. syncs \in 0..MaxImports /\ 0 \in 0..MaxImports
    BY LimitsAssumption DEF TypeOK
  <2>2. [actions EXCEPT ![i].status = "IGNORED", ![i].base = 0, ![i].sync = syncs]
            \in [Ids -> Action]
    <3>. DEFINE A1 == [actions EXCEPT ![i].status = "IGNORED"]
                A2 == [A1 EXCEPT ![i].base = 0]
    <3>1. A1 \in [Ids -> Action]
      BY <1>0 DEF Action
    <3>2. A2 \in [Ids -> Action]
      <4>. HIDE DEF A1
      <4>. QED  BY <2>1, <3>1 DEF Action
    <3>3. [A2 EXCEPT ![i].sync = syncs] \in [Ids -> Action]
      <4>. HIDE DEF A2
      <4>. QED  BY <2>1, <3>2 DEF Action
    <3>. QED  BY <3>3
  <2>3. actions' \in [Ids -> Action]
    BY <1>5, <1>i, <2>2, ReportedType DEF CommitDecision
  <2>4. TablesOK'
    BY <1>0, <1>5, <2>3, TablesStep DEF CommitDecision
  <2>5. HandlersOK'
    BY <1>0, <1>5, ReturnStep DEF CommitDecision
  <2>. QED  BY <2>4, <2>5, TypeHalvesPrime
<1>. QED
  BY <1>1, <1>2, <1>3, <1>4, <1>5 DEF Deciding

LEMMA ReconcilingType ==
    ASSUME TypeOK, NEW t \in Threads, Reconciling(t)
    PROVE  TypeOK'
<1>. USE StatusesHold
<1>0. /\ lastAlert \in Int /\ faults \in 0..MaxFaults
      /\ alerts \in [Ids -> Alert] /\ actions \in [Ids -> Action]
      /\ reports \in [Ids -> 0..2] /\ mu \in Threads \cup {Nobody}
      /\ Rows \subseteq Stored
  BY LimitsAssumption DEF TypeOK, Rows
<1>1. CASE ListCandidates(t)
  <2>1. PICK S \in SUBSET Stored : thread' = [thread EXCEPT ![t].todo = S, ![t].pc = "judge"]
    <3>. DEFINE S == {i \in Rows : Candidate(i, thread[t].date, thread[t].sync)}
    <3>1. S \in SUBSET Stored
      BY <1>0
    <3>2. thread' = [thread EXCEPT ![t].todo = S, ![t].pc = "judge"]
      BY <1>1 DEF ListCandidates
    <3>. QED  BY <3>1, <3>2
  <2>2. "judge" \in Pcs
    BY DEF Pcs
  <2>3. TablesOK'
    BY <1>0, <1>1, TablesStep DEF ListCandidates, tables
  <2>4. HandlersOK'
    BY <1>0, <1>1, <2>1, <2>2, FillStep DEF ListCandidates, tables
  <2>. QED  BY <2>3, <2>4, TypeHalvesPrime
<1>2. CASE Judge(t)
  <2>1. PICK i \in thread[t].todo :
          /\ \/ \E verdict \in {"CONFIRMED", "VARIANCE"} :
                   actions' = [actions EXCEPT ![i].status = verdict,
                                              ![i].stmt = thread[t].date]
             \/ UNCHANGED actions
          /\ thread' = [thread EXCEPT ![t].todo = @ \ {i}]
    BY <1>2 DEF Judge
  <2>2. actions' \in [Ids -> Action]
    <3>1. thread[t].date \in 0..MaxImports
      BY DEF TypeOK, Handler
    <3>2. ASSUME NEW v \in {"CONFIRMED", "VARIANCE"}
          PROVE  [actions EXCEPT ![i].status = v, ![i].stmt = thread[t].date] \in [Ids -> Action]
      <4>. DEFINE A1 == [actions EXCEPT ![i].status = v]
                  d == thread[t].date
      <4>1. A1 \in [Ids -> Action]
        BY <1>0 DEF Action
      <4>. HIDE DEF A1, d
      <4>2. [A1 EXCEPT ![i].stmt = d] \in [Ids -> Action]
        BY <3>1, <4>1 DEF Action, d
      <4>. QED  BY <4>2 DEF A1, d
    <3>. QED  BY <1>0, <2>1, <3>2
  <2>3. TablesOK'
    BY <1>0, <1>2, <2>2, TablesStep DEF Judge
  <2>4. HandlersOK'
    BY <1>2, <2>1, TodoStep DEF Judge
  <2>. QED  BY <2>3, <2>4, TypeHalvesPrime
<1>3. CASE JudgeEnds(t)
  <2>1. TablesOK'
    BY <1>0, <1>3, TablesStep DEF JudgeEnds, tables
  <2>2. HandlersOK'
    BY <1>0, <1>3, ReturnStep DEF JudgeEnds, tables
  <2>. QED  BY <2>1, <2>2, TypeHalvesPrime
<1>. QED
  BY <1>1, <1>2, <1>3 DEF Reconciling

\* A request begins.
LEMMA FirstSteps ==
    ASSUME NEW op \in DOMAIN FirstStep
    PROVE  \/ op = "read" /\ FirstStep[op] = "expire"
           \/ op \in {"record", "except"} /\ FirstStep[op] = "lock"
           \/ op \in {"ignore", "override"} /\ FirstStep[op] = "retire"
           \/ op \in {"execute", "skip", "dismiss"} /\ FirstStep[op] = "ensure"
BY DEF FirstStep

LEMMA ReadIsFirst == "read" \in DOMAIN FirstStep
BY DEF FirstStep

LEMMA RequestMoves ==
    ASSUME TypeOK, NEW t \in Threads, NEW op \in DOMAIN FirstStep, NEW i, Request(t, op, i)
    PROVE  \E h \in Handler :
              /\ thread' = [thread EXCEPT ![t] = h]
              /\ h.on <= lastAlert /\ h.todo = {}
              /\ PlacedAt(h)
              /\ h.op = op /\ h.pc = FirstStep[op] /\ h.on = i
<1>. DEFINE f == FirstStep[op]
            h == [Idle EXCEPT !.op = op, !.pc = f, !.on = i]
<1>1. op \in Ops /\ f \in Pcs
  BY FirstSteps DEF Ops, Pcs
<1>2. i \in 0..lastAlert /\ lastAlert \in 0..MaxAlerts /\ (i = 0 => op = "read")
  <2>1. lastAlert \in 0..MaxAlerts
    BY DEF TypeOK
  <2>2. i \in Targets(op)
    BY DEF Request
  <2>3. CASE op = "read"
    BY <2>1, <2>2, <2>3, LimitsAssumption DEF Targets
  <2>4. CASE op \in {"record", "except", "ignore", "override"}
    BY <2>1, <2>2, <2>4, LimitsAssumption DEF Targets, Rows, Stored
  <2>5. CASE op \in {"execute", "skip", "dismiss"}
    BY <2>1, <2>2, <2>5, LimitsAssumption DEF Targets, Stored
  <2>. QED  BY <2>1, <2>3, <2>4, <2>5, FirstSteps
<1>3. thread' = [thread EXCEPT ![t] = h]
  BY DEF Request
<1>4. h.op = op /\ h.pc = f /\ h.on = i /\ h.todo = {}
  BY DEF Idle
<1>5. PlacedAt(h)
  <2>. HIDE DEF h
  <2>. QED  BY <1>2, <1>4, FirstSteps DEF PlacedAt
<1>6. h \in Handler
  <2>1. i \in 0..MaxAlerts
    BY <1>2, LimitsAssumption
  <2>. HIDE DEF f
  <2>. QED  BY <1>1, <2>1, IdleType DEF Handler, Idle
<1>7. h.on <= lastAlert
  BY <1>2, <1>4, LimitsAssumption
<1>. HIDE DEF h
<1>. QED
  BY <1>3, <1>4, <1>5, <1>6, <1>7

LEMMA CreateMoves ==
    ASSUME TypeOK, NEW t \in Threads, NEW s \in Signals, CreateAlert(t, s)
    PROVE  \E h \in Handler : /\ thread' = [thread EXCEPT ![t] = h]
                              /\ h.on = lastAlert' /\ h.todo = {}
                              /\ PlacedAt(h)
                              /\ h.op = "create"
<1>. DEFINE h == [Idle EXCEPT !.op = "create", !.pc = "ensure", !.on = lastAlert + 1]
<1>1. thread' = [thread EXCEPT ![t] = h] /\ lastAlert' = lastAlert + 1
  BY DEF CreateAlert
<1>2. lastAlert + 1 \in 0..MaxAlerts /\ lastAlert + 1 # 0
  BY LimitsAssumption DEF CreateAlert, TypeOK
<1>3. h.op = "create" /\ h.pc = "ensure" /\ h.on = lastAlert + 1 /\ h.todo = {}
  BY DEF Idle
<1>4. h \in Handler
  BY <1>2, IdleType DEF Handler, Idle, Ops, Pcs
<1>. HIDE DEF h
<1>5. PlacedAt(h)
  BY <1>2, <1>3 DEF PlacedAt
<1>. QED
  BY <1>1, <1>3, <1>4, <1>5

LEMMA ImportMoves ==
    ASSUME TypeOK, NEW t \in Threads, Import(t)
    PROVE  /\ \E h \in Handler : /\ thread' = [thread EXCEPT ![t] = h]
                                 /\ h.on = 0 /\ h.todo = {}
                                 /\ PlacedAt(h)
                                 /\ h.op = "import" /\ h.pc = "candidates"
           /\ syncs' \in 0..MaxImports /\ latest' \in 0..syncs'
<1>1. syncs \in Int /\ latest \in Int /\ 0 <= latest /\ latest <= syncs /\ MaxImports \in Nat
  BY LimitsAssumption DEF TypeOK
<1>2. syncs < MaxImports /\ syncs' = syncs + 1
  BY DEF Import
<1>3. PICK d \in {latest, latest + 1} \ {0} :
          /\ latest' = d
          /\ thread' = [thread EXCEPT ![t] = [Idle EXCEPT !.op = "import", !.pc = "candidates",
                                                          !.date = d, !.sync = syncs + 1]]
  BY DEF Import
<1>4. syncs + 1 \in 0..MaxImports /\ d \in 0..MaxImports /\ d \in 0..(syncs + 1)
  BY <1>1, <1>2
<1>. DEFINE h == [Idle EXCEPT !.op = "import", !.pc = "candidates", !.date = d,
                              !.sync = syncs + 1]
<1>5. h.op = "import" /\ h.pc = "candidates" /\ h.on = 0 /\ h.todo = {}
  BY DEF Idle
<1>6. h \in Handler
  BY <1>4, IdleType DEF Handler, Idle, Ops, Pcs
<1>7. thread' = [thread EXCEPT ![t] = h]
  BY <1>3
<1>. HIDE DEF h
<1>8. PlacedAt(h)
  BY <1>5 DEF PlacedAt
<1>. QED
  BY <1>2, <1>3, <1>4, <1>5, <1>6, <1>7, <1>8

LEMMA PolicyMoves ==
    ASSUME TypeOK, NEW t \in Threads, PolicyWorker(t)
    PROVE  \E h \in Handler : /\ thread' = [thread EXCEPT ![t] = h]
                              /\ h.on = 0 /\ h.todo = {}
                              /\ PlacedAt(h)
                              /\ h.op = "policy" /\ h.pc = "project"
<1>. DEFINE h == [Idle EXCEPT !.op = "policy", !.pc = "project"]
<1>1. thread' = [thread EXCEPT ![t] = h]
  BY DEF PolicyWorker
<1>2. h.op = "policy" /\ h.pc = "project" /\ h.on = 0 /\ h.todo = {}
  BY DEF Idle
<1>3. h \in Handler
  BY IdleType DEF Handler, Idle, Ops, Pcs
<1>. HIDE DEF h
<1>4. PlacedAt(h)
  BY <1>2 DEF PlacedAt
<1>. QED
  BY <1>1, <1>2, <1>3, <1>4

\* A worker's tick writes nothing; the switch before it withdraws.
LEMMA PolicyStarts ==
    ASSUME NEW t \in Threads, PolicyWorker(t)
    PROVE  PolicySync /\ UNCHANGED <<broker, mu, faults>>
BY DEF PolicyWorker, Switched, PolicySync

\* What is enough for the handlers when one of them begins.
LEMMA StartStep ==
    ASSUME TypeOK, NEW t \in Threads, NEW h \in Handler, thread' = [thread EXCEPT ![t] = h],
           UNCHANGED mu, lastAlert' \in Int, lastAlert <= lastAlert',
           h.on <= lastAlert', h.todo = {}
    PROVE  HandlersOK'
<1>1. /\ thread' \in [Threads -> Handler]
      /\ \A u \in Threads : thread'[u] = IF u = t THEN h ELSE thread[u]
  BY StartType
<1>2. mu' \in Threads \cup {Nobody}
  BY DEF TypeOK
<1>3. /\ \A u \in Threads : thread'[u].on <= lastAlert' \/ thread'[u].on = thread[u].on
      /\ \A u \in Threads : thread'[u].todo \subseteq Stored \cup thread[u].todo
  BY <1>1
<1>. QED
  BY <1>1, <1>2, <1>3, HandlersStep

LEMMA ClientsType ==
    ASSUME TypeOK, NEW t \in Threads, Clients(t)
    PROVE  TypeOK'
<1>0. /\ lastAlert \in Int /\ faults \in 0..MaxFaults
      /\ alerts \in [Ids -> Alert] /\ actions \in [Ids -> Action]
      /\ reports \in [Ids -> 0..2] /\ mu \in Threads \cup {Nobody}
  BY LimitsAssumption DEF TypeOK
<1>1. ASSUME NEW op \in DOMAIN FirstStep, NEW i, Request(t, op, i)
      PROVE  TypeOK'
  <2>1. TablesOK' /\ UNCHANGED <<mu, lastAlert>>
    BY <1>0, <1>1, TablesStep DEF Request, tables
  <2>2. PICK h \in Handler : /\ thread' = [thread EXCEPT ![t] = h]
                             /\ h.on <= lastAlert /\ h.todo = {}
    BY <1>1, RequestMoves
  <2>3. HandlersOK'
    <3>1. /\ lastAlert' \in Int /\ lastAlert <= lastAlert'
          /\ UNCHANGED mu /\ h.on <= lastAlert'
      BY <1>0, <2>1, <2>2 DEF tables
    <3>. QED  BY <2>2, <3>1, StartStep
  <2>. QED  BY <2>1, <2>3, TypeHalvesPrime
<1>2. ASSUME NEW s \in Signals, CreateAlert(t, s)
      PROVE  TypeOK'
  <2>1. /\ lastAlert < MaxAlerts
        /\ lastAlert' = lastAlert + 1
        /\ alerts' = [alerts EXCEPT ![lastAlert + 1] = NewAlert(s)]
        /\ UNCHANGED <<actions, reports, broker, mu, faults>>
    BY <1>2 DEF CreateAlert
  <2>2. TablesOK'
    BY <1>0, <2>1, NewAlertType DEF TypeOK, TablesOK, broker
  <2>3. PICK h \in Handler : /\ thread' = [thread EXCEPT ![t] = h]
                             /\ h.on = lastAlert' /\ h.todo = {}
    BY <1>2, CreateMoves
  <2>4. HandlersOK'
    <3>1. /\ lastAlert' \in Int /\ lastAlert <= lastAlert'
          /\ UNCHANGED mu /\ h.on <= lastAlert'
      BY <1>0, <2>1, <2>3 DEF tables
    <3>. QED  BY <2>3, <3>1, StartStep
  <2>. QED  BY <2>2, <2>4, TypeHalvesPrime
<1>3. CASE Import(t)
  <2>1. UNCHANGED <<tables, mu, faults>>
    BY <1>3 DEF Import
  <2>2. TablesOK'
    BY <1>0, <1>3, <2>1, ImportMoves DEF TypeOK, TablesOK, tables
  <2>3. PICK h \in Handler : /\ thread' = [thread EXCEPT ![t] = h]
                             /\ h.on = 0 /\ h.todo = {}
    BY <1>3, ImportMoves
  <2>4. 0 <= lastAlert /\ lastAlert' = lastAlert
    BY <2>1, LimitsAssumption DEF TypeOK, tables
  <2>5. HandlersOK'
    <3>1. /\ lastAlert' \in Int /\ lastAlert <= lastAlert'
          /\ UNCHANGED mu /\ h.on <= lastAlert'
      BY <1>0, <2>1, <2>3, <2>4 DEF tables
    <3>. QED  BY <2>3, <2>4, <3>1, StartStep
  <2>. QED  BY <2>2, <2>5, TypeHalvesPrime
<1>4. CASE PolicyWorker(t)
  <2>1. PolicySync /\ UNCHANGED <<broker, mu, faults>>
    BY <1>4, PolicyStarts
  <2>2. TablesOK' /\ lastAlert' \in Int /\ lastAlert <= lastAlert'
    BY <1>0, <2>1, PolicySyncType
  <2>3. PICK h \in Handler : /\ thread' = [thread EXCEPT ![t] = h]
                             /\ h.on = 0 /\ h.todo = {}
    BY <1>4, PolicyMoves
  <2>4. h.on <= lastAlert'
    BY <1>0, <2>2, <2>3, LimitsAssumption DEF TypeOK
  <2>5. HandlersOK'
    BY <2>1, <2>2, <2>3, <2>4, StartStep
  <2>. QED  BY <2>2, <2>5, TypeHalvesPrime
<1>. QED
  BY <1>1, <1>2, <1>3, <1>4, ReadIsFirst DEF Clients

LEMMA EnvironmentType ==
    ASSUME TypeOK, Environment
    PROVE  TypeOK'
<1>. USE StatusesHold
<1>0. /\ lastAlert \in Int /\ faults \in 0..MaxFaults
      /\ alerts \in [Ids -> Alert] /\ actions \in [Ids -> Action]
      /\ reports \in [Ids -> 0..2] /\ mu \in Threads \cup {Nobody}
      /\ MaxFaults \in Nat
  BY LimitsAssumption DEF TypeOK
<1>1. ASSUME NEW i \in Ids, FallDue(i)
      PROVE  TypeOK'
  <2>1. alerts' = [alerts EXCEPT ![i].due = 1]
        /\ UNCHANGED <<actions, lastAlert, reports, broker, thread, mu, faults>>
    BY <1>1 DEF FallDue
  <2>2. alerts' \in [Ids -> Alert] /\ \A k \in Ids : alerts'[k].sig = alerts[k].sig
    <3>1. \A a \in Alert : [a EXCEPT !.due = 1] \in Alert /\ [a EXCEPT !.due = 1].sig = a.sig
      BY DEF Alert
    <3>2. alerts' = [alerts EXCEPT ![i] = [alerts[i] EXCEPT !.due = 1]]
      BY <1>0, <2>1
    <3>. QED  BY <1>0, <3>1, <3>2
  <2>3. TablesOK'
    BY <1>0, <2>1, <2>2, TablesStep
  <2>4. HandlersOK'
    BY <2>1, TypeHalves DEF HandlersOK, Stored
  <2>. QED  BY <2>3, <2>4, TypeHalvesPrime
<1>2. ASSUME NEW k \in Etfs, ChangeMode(k)
      PROVE  TypeOK'
  <2>1. PICK S, R : /\ actions' = Mark(S, "NOT_APPLICABLE")
                    /\ alerts' = Resolved(R, "RESOLVED")
                    /\ UNCHANGED <<lastAlert, reports, broker, thread, mu, faults>>
    BY <1>2 DEF ChangeMode
  <2>2. TablesOK'
    BY <1>0, <2>1, MarkType, ResolvedType, TablesStep
  <2>3. HandlersOK'
    BY <2>1, TypeHalves DEF HandlersOK, Stored
  <2>. QED  BY <2>2, <2>3, TypeHalvesPrime
<1>4. ASSUME NEW t \in Threads, Fail(t)
      PROVE  TypeOK'
  <2>1. /\ faults' \in 0..MaxFaults
        /\ Return(t) /\ UNCHANGED <<tables, broker>>
    BY <1>0, <1>4 DEF Fail
  <2>2. TablesOK'
    BY <1>0, <2>1, TablesStep DEF tables
  <2>3. HandlersOK'
    BY <1>0, <2>1, ReturnStep DEF tables
  <2>. QED  BY <2>2, <2>3, TypeHalvesPrime
<1>5. ASSUME NEW t \in Threads, ResolveFails(t)
      PROVE  TypeOK'
  <2>1. /\ faults' \in 0..MaxFaults
        /\ Goto(t, "project") /\ UNCHANGED <<tables, broker, mu>>
    BY <1>0, <1>5 DEF ResolveFails
  <2>2. TablesOK'
    BY <1>0, <2>1, TablesStep DEF tables
  <2>3. "project" \in Pcs
    BY DEF Pcs
  <2>4. HandlersOK'
    BY <1>0, <2>1, <2>3, GotoStep DEF tables
  <2>. QED  BY <2>2, <2>4, TypeHalvesPrime
<1>6. CASE Crash
  <2>1. /\ faults' \in 0..MaxFaults
        /\ thread' = [t \in Threads |-> Idle]
        /\ mu' = Nobody
        /\ UNCHANGED <<tables, broker>>
    BY <1>0, <1>6 DEF Crash
  <2>2. TablesOK'
    BY <1>0, <2>1, TablesStep DEF tables
  <2>3. Idle.on = 0 /\ Idle.todo = {} /\ 0 <= lastAlert
    BY LimitsAssumption DEF Idle, TypeOK
  <2>4. HandlersOK'
    BY <2>1, <2>3, IdleType DEF HandlersOK, tables
  <2>. QED  BY <2>2, <2>4, TypeHalvesPrime
<1>. QED
  BY <1>1, <1>2, <1>4, <1>5, <1>6 DEF Environment

LEMMA TypeInit == Init => TypeOK
<1>. SUFFICES ASSUME Init
              PROVE  TypeOK
  OBVIOUS
<1>1. NoAlert \in Alert /\ NoAlert.sig = NoSignal
  BY DEF NoAlert, Alert
<1>2. NoAction \in Action
  BY LimitsAssumption, StatusesHold DEF NoAction, Action
<1>3. TablesOK
  BY <1>1, <1>2, LimitsAssumption DEF Init, TablesOK, Ids
<1>4. HandlersOK
  BY IdleType DEF Init, HandlersOK, Idle
<1>. QED
  BY <1>3, <1>4, TypeHalves

-----------------------------------------------------------------------------
(* The steps of a handler                                                  *)

\* Three ways a step keeps the handlers placed.
LEMMA PlacedReturn ==
    ASSUME TypeOK, Placed, NEW t \in Threads, Return(t)
    PROVE  Placed'
<1>1. PlacedAt(Idle)
  BY DEF PlacedAt, Idle
<1>. QED
  BY <1>1, ReturnType DEF Placed

LEMMA PlacedStart ==
    ASSUME TypeOK, Placed, NEW t \in Threads, NEW h \in Handler, PlacedAt(h),
           thread' = [thread EXCEPT ![t] = h]
    PROVE  Placed'
BY StartType DEF Placed

LEMMA PlacedMove ==
    ASSUME TypeOK, Placed, NEW t \in Threads, NEW p,
           \A u \in Threads : /\ thread'[u].op = thread[u].op
                              /\ thread'[u].on = thread[u].on
                              /\ thread'[u].pc = IF u = t THEN p ELSE thread[u].pc,
           LET o == thread[t].op IN
           \/ o \in {"read", "record", "except", "decide"} /\ p = "retire"
           \/ o \in {"read", "record", "except", "decide", "policy"} /\ p = "project"
           \/ /\ o \in {"read", "record", "except", "decide", "ignore", "override", "execute",
                       "skip", "policy"}
              /\ p \in {"unblock", "rank", "block"}
           \/ o \in {"ignore", "override", "record", "except", "decide", "execute", "skip"}
              /\ p \in {"load", "commit"}
           \/ o = "read" /\ p \in {"expireActions", "list", "backfill"}
           \/ o = "execute" /\ p \in {"insert", "resolve", "project"}
           \/ o = "skip" /\ p \in {"check", "insert", "resolve", "project"}
           \/ o = "dismiss" /\ p \in {"check", "resolve"}
           \/ o = "import" /\ p = "judge"
    PROVE  Placed'
<1>. SUFFICES ASSUME NEW u \in Threads
              PROVE  PlacedAt(thread'[u])
  BY DEF Placed
<1>1. PlacedAt(thread[u])
  BY DEF Placed
<1>2. CASE u = t
  BY <1>1, <1>2 DEF PlacedAt
<1>3. CASE u # t
  BY <1>1, <1>3 DEF PlacedAt
<1>. QED
  BY <1>2, <1>3

LEMMA PlacedFill ==
    ASSUME TypeOK, Placed, NEW t \in Threads, NEW S \in SUBSET Stored,
           NEW p \in {"block", "backfill", "judge"},
           thread' = [thread EXCEPT ![t].todo = S, ![t].pc = p],
           p = "backfill" => thread[t].op = "read",
           p = "judge" => thread[t].op = "import",
           p = "block" => thread[t].op \in {"read", "record", "except", "decide", "ignore",
                                           "override", "execute", "skip", "policy"}
    PROVE  Placed'
<1>1. p \in Pcs
  BY DEF Pcs
<1>2. \A u \in Threads : /\ thread'[u].op = thread[u].op
                         /\ thread'[u].on = thread[u].on
                         /\ thread'[u].pc = IF u = t THEN p ELSE thread[u].pc
                         /\ thread'[u].todo = IF u = t THEN S ELSE thread[u].todo
  BY <1>1, FillType, ZenonT(60)
<1>. QED
  BY <1>2, PlacedMove, ZenonT(60)

LEMMA PlacedTurn ==
    ASSUME TypeOK, Placed, NEW t \in Threads, thread[t].op \in {"execute", "skip"}
    PROVE  /\ thread' = [thread EXCEPT ![t].op = "decide", ![t].pc = "lock"] => Placed'
           /\ thread' = [thread EXCEPT ![t].op = "ignore", ![t].pc = "retire"] => Placed'
<1>1. thread \in [Threads -> Handler] /\ PlacedAt(thread[t])
  BY DEF TypeOK, Placed
<1>2. ASSUME NEW o \in {"decide", "ignore"}, NEW p \in {"lock", "retire"},
             o = "decide" => p = "lock", o = "ignore" => p = "retire"
      PROVE  thread' = [thread EXCEPT ![t].op = o, ![t].pc = p] => Placed'
  <2>. DEFINE g == [thread[t] EXCEPT !.op = o]
              h == [g EXCEPT !.pc = p]
  <2>1. g \in Handler /\ g.op = o /\ g.on = thread[t].on
    BY <1>1 DEF Handler, Ops
  <2>. HIDE DEF g
  <2>2. h \in Handler /\ h.op = o /\ h.pc = p /\ h.on = g.on
    BY <2>1 DEF Handler, Pcs
  <2>. HIDE DEF h
  <2>3. PlacedAt(h)
    BY <1>1, <1>2, <2>1, <2>2 DEF PlacedAt
  <2>4. thread' = [thread EXCEPT ![t].op = o, ![t].pc = p] => thread' = [thread EXCEPT ![t] = h]
    BY <1>1 DEF g, h
  <2>. QED  BY <2>2, <2>3, <2>4, PlacedStart
<1>. QED
  BY <1>2

LEMMA ProjectedPlaced ==
    ASSUME TypeOK, Placed, NEW t \in Threads, Projected(t), thread[t].pc \in {"project", "block"}
    PROVE  Placed'
<1>1. CASE Return(t)
  BY <1>1, PlacedReturn
<1>2. CASE ~Return(t)
  <2>1. /\ thread[t].op \notin {"read", "policy"}
        /\ \A u \in Threads : /\ thread'[u].op = thread[u].op
                              /\ thread'[u].on = thread[u].on
                              /\ thread'[u].pc = IF u = t THEN "load" ELSE thread[u].pc
    BY <1>2, ProjectedMoves
  <2>2. thread[t].op \in Ops /\ PlacedAt(thread[t])
    BY DEF TypeOK, Handler, Placed
  <2>3. thread[t].op \in {"ignore", "override", "record", "except", "decide", "execute", "skip"}
    BY <2>1, <2>2 DEF PlacedAt, Ops
  <2>. QED  BY <2>1, <2>3, PlacedMove
<1>. QED
  BY <1>1, <1>2

LEMMA PlacedSame ==
    ASSUME TypeOK, Placed,
           \A u \in Threads : /\ thread'[u].op = thread[u].op
                              /\ thread'[u].on = thread[u].on
                              /\ thread'[u].pc = thread[u].pc
    PROVE  Placed'
BY DEF Placed, PlacedAt

LEMMA PlacedStep ==
    ASSUME TypeOK, Placed, Next
    PROVE  Placed'
<1>a. {"retire", "unblock", "rank", "block", "project", "load", "commit", "expireActions",
       "list", "backfill", "resolve", "insert", "check", "judge"} \subseteq Pcs
  BY DEF Pcs
<1>b. \A t \in Threads : PlacedAt(thread[t])
  BY DEF Placed
<1>c. thread \in [Threads -> Handler] /\ \A t \in Threads : thread[t].op \in Ops
  BY DEF TypeOK, Handler
<1>r. Rows \subseteq Stored
  BY DEF Rows
<1>1. ASSUME NEW t \in Threads, Refresh(t)
      PROVE  Placed'
  <2>1. CASE Retire(t)
    <3>1. thread[t].op \in {"read", "record", "except", "decide", "ignore", "override"}
          /\ Goto(t, "unblock")
      BY <1>b, <1>c, <2>1 DEF Retire, At, PlacedAt, Ops
    <3>. QED  BY <1>a, <3>1, GotoType, PlacedMove
  <2>2. CASE Unblock(t)
    <3>1. thread[t].op \in {"read", "record", "except", "decide", "ignore", "override", "execute",
                          "skip", "policy"}
          /\ Goto(t, "rank")
      BY <1>b, <1>c, <2>2 DEF Unblock, At, PlacedAt, Ops
    <3>. QED  BY <1>a, <3>1, GotoType, PlacedMove
  <2>3. CASE Rank(t)
    <3>1. thread[t].op \in {"read", "record", "except", "decide", "ignore", "override", "execute",
                          "skip", "policy"}
      BY <1>b, <1>c, <2>3 DEF Rank, At, PlacedAt, Ops
    <3>2. PICK S \in SUBSET Stored : thread' = [thread EXCEPT ![t].todo = S, ![t].pc = "block"]
      <4>. DEFINE queue == {i \in Rows : Status(i) \in Unresolved \ {"BLOCKED"}}
                  S == {i \in queue : \E j \in queue : Ticker(i) = Ticker(j) /\ Ahead(j, i)}
      <4>1. S \in SUBSET Stored
        BY <1>r
      <4>2. thread' = [thread EXCEPT ![t].todo = S, ![t].pc = "block"]
        BY <2>3 DEF Rank
      <4>. QED  BY <4>1, <4>2
    <3>. QED  BY <3>1, <3>2, PlacedFill
  <2>4. CASE Block(t)
    <3>1. PICK i : thread' = [thread EXCEPT ![t].todo = @ \ {i}]
      BY <2>4 DEF Block
    <3>. QED  BY <3>1, TodoType, PlacedSame
  <2>5. CASE BlockEnds(t)
    <3>1. CASE Projected(t)
      BY <2>5, <3>1, ProjectedPlaced DEF BlockEnds, At
    <3>2. ASSUME NEW p \in {"load", "project"}, Goto(t, p),
                 p = "load" <=> thread[t].op \in {"ignore", "override"}
          PROVE  Placed'
      <4>1. thread[t].op \in {"read", "record", "except", "decide", "ignore", "override",
                              "execute", "skip", "policy"}
        BY <1>b, <1>c, <2>5 DEF BlockEnds, At, PlacedAt, Ops
      <4>. QED  BY <1>a, <3>2, <4>1, GotoType, PlacedMove
    <3>. QED  BY <2>5, <3>1, <3>2 DEF BlockEnds
  <2>. QED  BY <1>1, <2>1, <2>2, <2>3, <2>4, <2>5 DEF Refresh
<1>2. ASSUME NEW t \in Threads, Reading(t)
      PROVE  Placed'
  <2>0. ASSUME thread[t].pc \in {"expire", "expireActions", "list", "backfill"}
        PROVE  thread[t].op = "read"
    BY <1>b, <1>c, <2>0 DEF PlacedAt, Ops
  <2>1. CASE ExpireAlerts(t)
    <3>1. PICK p \in {"list", "expireActions"} : Goto(t, p)
      BY <2>1 DEF ExpireAlerts
    <3>. QED  BY <1>a, <2>0, <2>1, <3>1, GotoType, PlacedMove DEF ExpireAlerts, At
  <2>2. CASE ExpireActions(t)
    BY <1>a, <2>0, <2>2, GotoType, PlacedMove DEF ExpireActions, At
  <2>3. CASE ListAlerts(t)
    <3>1. PICK S \in SUBSET Stored : thread' = [thread EXCEPT ![t].todo = S,
                                                              ![t].pc = "backfill"]
      BY <2>3 DEF ListAlerts
    <3>. QED  BY <2>0, <2>3, <3>1, PlacedFill DEF ListAlerts, At
  <2>4. CASE Backfill(t)
    <3>1. PICK i : thread' = [thread EXCEPT ![t].todo = @ \ {i}]
      BY <2>4 DEF Backfill
    <3>. QED  BY <3>1, TodoType, PlacedSame
  <2>5. CASE BackfillEnds(t)
    BY <1>a, <2>0, <2>5, GotoType, PlacedMove DEF BackfillEnds, At
  <2>. QED  BY <1>2, <2>1, <2>2, <2>3, <2>4, <2>5 DEF Reading
<1>3. ASSUME NEW t \in Threads, Answering(t)
      PROVE  Placed'
  <2>1. CASE Lock(t)
    <3>1. thread[t].op \in {"record", "except", "decide"} /\ Goto(t, "retire")
      BY <1>b, <1>c, <2>1 DEF Lock, At, PlacedAt, Ops
    <3>. QED  BY <1>a, <3>1, GotoType, PlacedMove
  <2>2. CASE Project(t)
    <3>1. CASE Projected(t)
      BY <2>2, <3>1, ProjectedPlaced DEF Project, At
    <3>2. CASE thread' = [thread EXCEPT ![t].pc = "unblock", ![t].synced = TRUE]
      <4>1. thread[t].op \in {"read", "record", "except", "decide", "execute", "skip", "policy"}
        BY <1>b, <1>c, <2>2 DEF Project, At, PlacedAt, Ops
      <4>2. \A u \in Threads : /\ thread'[u].op = thread[u].op
                               /\ thread'[u].on = thread[u].on
                               /\ thread'[u].pc = IF u = t THEN "unblock" ELSE thread[u].pc
        BY <1>a, <3>2, SyncType, ZenonT(60)
      <4>. QED  BY <4>1, <4>2, PlacedMove
    <3>. QED  BY <2>2, <3>1, <3>2 DEF Project
  <2>3. CASE Load(t)
    <3>1. CASE Return(t)
      BY <3>1, PlacedReturn
    <3>2. CASE thread' = [thread EXCEPT ![t].saw = Status(thread[t].on), ![t].pc = "commit"]
      <4>. DEFINE v == Status(thread[t].on)
      <4>1. thread' = [thread EXCEPT ![t] = [[thread[t] EXCEPT !.saw = v] EXCEPT !.pc = "commit"]]
        BY <3>2
      <4>2. \A h \in Handler : LET g == [[h EXCEPT !.saw = v] EXCEPT !.pc = "commit"] IN
                g.op = h.op /\ g.on = h.on /\ g.pc = "commit"
        BY DEF Handler
      <4>. HIDE DEF v
      <4>3. \A u \in Threads : /\ thread'[u].op = thread[u].op
                               /\ thread'[u].on = thread[u].on
                               /\ thread'[u].pc = IF u = t THEN "commit" ELSE thread[u].pc
        BY <1>c, <4>1, <4>2
      <4>4. thread[t].op \in {"ignore", "override", "record", "except", "decide", "execute",
                              "skip"}
        BY <1>b, <1>c, <2>3 DEF Load, At, PlacedAt, Ops
      <4>. QED  BY <4>3, <4>4, PlacedMove
    <3>. QED  BY <2>3, <3>1, <3>2 DEF Load
  <2>4. CASE CommitRecord(t) \/ CommitIgnore(t) \/ CommitOverride(t)
    BY <2>4, PlacedReturn DEF CommitRecord, CommitIgnore, CommitOverride, CommitAnswer
  <2>. QED  BY <1>3, <2>1, <2>2, <2>3, <2>4 DEF Answering
<1>4. ASSUME NEW t \in Threads, Deciding(t)
      PROVE  Placed'
  <2>1. CASE Ensure(t)
    <3>1. CASE thread' = [thread EXCEPT ![t] = Idle]
      <4>1. PlacedAt(Idle)
        BY DEF PlacedAt, Idle
      <4>. QED  BY <3>1, <4>1, IdleType, PlacedStart
    <3>2. ASSUME NEW p \in {"check", "insert"},
                 thread[t].op \in {"dismiss", "execute", "skip"},
                 thread[t].op = "execute" <=> p = "insert", Goto(t, p)
          PROVE  Placed'
      <4>1. p \in Pcs
        BY <1>a
      <4>. QED  BY <3>2, <4>1, GotoType, PlacedMove
    <3>3. CASE /\ thread[t].op = "execute"
               /\ thread' = [thread EXCEPT ![t].op = "decide", ![t].pc = "lock"]
      BY <3>3, PlacedTurn
    <3>4. CASE /\ thread[t].op = "skip"
               /\ thread' = [thread EXCEPT ![t].op = "ignore", ![t].pc = "retire"]
      BY <3>4, PlacedTurn
    <3>. QED
      BY <2>1, <3>1, <3>2, <3>3, <3>4, EnsureMoves
  <2>2. CASE Check(t)
    <3>1. \/ Return(t)
          \/ thread[t].op = "dismiss" /\ Goto(t, "resolve")
          \/ thread[t].op = "skip" /\ Goto(t, "insert")
      BY <1>b, <1>c, <2>2 DEF Check, At, PlacedAt, Ops
    <3>. QED  BY <1>a, <3>1, GotoType, PlacedMove, PlacedReturn
  <2>3. CASE Decide(t)
    <3>1. thread[t].op \in {"execute", "skip"} /\ Goto(t, "resolve")
      BY <1>b, <1>c, <2>3 DEF Decide, At, PlacedAt, Ops
    <3>. QED  BY <1>a, <3>1, GotoType, PlacedMove
  <2>4. CASE Resolve(t)
    <3>1. \/ Return(t)
          \/ thread[t].op \in {"execute", "skip"} /\ Goto(t, "project")
      BY <1>b, <1>c, <2>4 DEF Resolve, At, PlacedAt, Ops
    <3>. QED  BY <1>a, <3>1, GotoType, PlacedMove, PlacedReturn
  <2>5. CASE CommitDecision(t)
    BY <2>5, PlacedReturn DEF CommitDecision
  <2>. QED  BY <1>4, <2>1, <2>2, <2>3, <2>4, <2>5 DEF Deciding
<1>5. ASSUME NEW t \in Threads, Reconciling(t)
      PROVE  Placed'
  <2>0. ASSUME thread[t].pc \in {"candidates", "judge"}
        PROVE  thread[t].op = "import"
    BY <1>b, <1>c, <2>0 DEF PlacedAt, Ops
  <2>1. CASE ListCandidates(t)
    <3>1. PICK S \in SUBSET Stored : thread' = [thread EXCEPT ![t].todo = S, ![t].pc = "judge"]
      <4>. DEFINE S == {i \in Rows : Candidate(i, thread[t].date, thread[t].sync)}
      <4>1. S \in SUBSET Stored
        BY <1>r
      <4>2. thread' = [thread EXCEPT ![t].todo = S, ![t].pc = "judge"]
        BY <2>1 DEF ListCandidates
      <4>. QED  BY <4>1, <4>2
    <3>. QED  BY <2>0, <2>1, <3>1, PlacedFill DEF ListCandidates, At
  <2>2. CASE Judge(t)
    <3>1. PICK i : thread' = [thread EXCEPT ![t].todo = @ \ {i}]
      BY <2>2 DEF Judge
    <3>. QED  BY <3>1, TodoType, PlacedSame
  <2>3. CASE JudgeEnds(t)
    BY <2>3, PlacedReturn DEF JudgeEnds
  <2>. QED  BY <1>5, <2>1, <2>2, <2>3 DEF Reconciling
<1>6. ASSUME NEW t \in Threads, Clients(t)
      PROVE  Placed'
  <2>1. ASSUME NEW op \in DOMAIN FirstStep, NEW i, Request(t, op, i)
        PROVE  Placed'
    BY <2>1, RequestMoves, PlacedStart
  <2>2. ASSUME NEW s \in Signals, CreateAlert(t, s)
        PROVE  Placed'
    BY <2>2, CreateMoves, PlacedStart
  <2>3. CASE Import(t)
    BY <2>3, ImportMoves, PlacedStart
  <2>4. CASE PolicyWorker(t)
    BY <2>4, PolicyMoves, PlacedStart
  <2>. QED  BY <1>6, <2>1, <2>2, <2>3, <2>4, ReadIsFirst DEF Clients
<1>7. CASE Environment
  <2>1. CASE UNCHANGED thread
    BY <2>1 DEF Placed
  <2>2. ASSUME NEW t \in Threads, Fail(t)
        PROVE  Placed'
    BY <2>2, PlacedReturn DEF Fail
  <2>3. ASSUME NEW t \in Threads, ResolveFails(t)
        PROVE  Placed'
    <3>1. thread[t].op \in {"execute", "skip"} /\ Goto(t, "project")
      BY <1>b, <1>c, <2>3 DEF ResolveFails, At, PlacedAt, Ops
    <3>. QED  BY <1>a, <3>1, GotoType, PlacedMove
  <2>4. CASE Crash
    BY <2>4 DEF Crash, Placed, PlacedAt, Idle
  <2>. QED
    BY <1>7, <2>1, <2>2, <2>3, <2>4 DEF Environment, FallDue, ChangeMode
<1>. QED
  BY <1>1, <1>2, <1>3, <1>4, <1>5, <1>6, <1>7 DEF Next, Step

LEMMA TypeStep ==
    ASSUME TypeOK, Placed, Next
    PROVE  TypeOK'
BY RefreshType, ReadingType, AnsweringType, DecidingType, ReconcilingType, ClientsType,
   EnvironmentType DEF Next, Step

LEMMA PlacedInit == Init => Placed
BY DEF Init, Placed, PlacedAt, Idle

LEMMA TypeStutter ==
    ASSUME TypeOK, Placed, UNCHANGED vars
    PROVE  TypeOK' /\ Placed'
<1>1. Placed'
  BY DEF vars, Placed
<1>2. TypeOK'
  BY DEF vars, tables, broker, TypeOK, Stored
<1>. QED
  BY <1>1, <1>2

\* Type correctness: in every reachable state the tables, the handlers and the
\* mutex of the action queue (backend/security_actions.go, backend/alerts.go)
\* hold what the schema and the code allow, and each handler stands at a step
\* of its own kind of request.
THEOREM TypeCorrect == Spec => [](TypeOK /\ Placed)
<1>1. Init => TypeOK /\ Placed
  BY TypeInit, PlacedInit
<1>2. TypeOK /\ Placed /\ [Next]_vars => TypeOK' /\ Placed'
  BY TypeStep, PlacedStep, TypeStutter
<1>. QED
  BY <1>1, <1>2, PTL DEF Spec

-----------------------------------------------------------------------------
(* An Exit never disappears by itself                                      *)

\* An Exit nobody has recorded yet.
Pending(i) == i \in Stored /\ Intent(i) = "EXIT" /\ Ticker(i) \notin Etfs /\ reports[i] = 0

\* It is still in the queue, and its alert is active unless it is overridden.
ExitTables ==
    /\ \A i \in Ids \ Stored : Status(i) = "NONE"
    /\ \A i \in Stored : alerts[i].reason = "EXPIRED" => Intent(i) # "EXIT"
    /\ \A i \in Ids : Pending(i) =>
          /\ Status(i) \in {"NONE", "OPEN", "BLOCKED", "OVERRIDDEN"}
          /\ alerts[i].active = 0 => Status(i) = "OVERRIDDEN"

\* The steps of a decision by alert once it is stored.
Deciders == {"resolve", "project", "unblock", "rank", "block", "load", "commit"}
\* No handler is past the check that protects it.
ExitHandled(t) ==
    /\ Pending(thread[t].on) =>
          /\ thread[t].op = "execute" => thread[t].pc \notin Deciders
          /\ thread[t].op \in {"skip", "dismiss"} => thread[t].pc \notin {"insert"} \cup Deciders
          /\ thread[t].op = "ignore" => thread[t].pc # "commit"
          /\ thread[t].pc = "check" => Status(thread[t].on) # "NONE"
    /\ thread[t].op = "import" => \A i \in thread[t].todo : ~Pending(i)
ExitHandlers == \A t \in Threads : ExitHandled(t)

\* What is enough for the tables: nothing pending is lost, rows stay rows.
LEMMA TablesFrame ==
    ASSUME TypeOK, TypeOK', ExitTables, UNCHANGED lastAlert,
           \A i \in Ids : alerts'[i].sig = alerts[i].sig,
           \A i \in Ids : reports'[i] >= reports[i],
           \A i \in Ids \ Stored : actions'[i].status = actions[i].status,
           \A i \in Stored : alerts'[i].reason = "EXPIRED" =>
                                alerts[i].reason = "EXPIRED" \/ Intent(i) # "EXIT",
           \A i \in Ids : Pending(i) /\ reports'[i] = 0 =>
              /\ actions'[i].status \in {"NONE", "OPEN", "BLOCKED", "OVERRIDDEN"}
              /\ alerts'[i].active = 0 => actions'[i].status = "OVERRIDDEN"
    PROVE  /\ ExitTables'
           /\ \A i \in Stored : Pending(i)' => Pending(i)
<1>1. Stored' = Stored /\ Stored \subseteq Ids
  BY LimitsAssumption DEF Stored, Ids, TypeOK
<1>2. \A i \in Ids : Intent(i)' = Intent(i) /\ Ticker(i)' = Ticker(i)
  BY DEF Intent, Ticker
<1>3. \A i \in Ids : reports[i] \in 0..2 /\ reports'[i] \in 0..2
  BY DEF TypeOK, Ids
<1>4. \A i \in Ids : Pending(i)' => Pending(i) /\ reports'[i] = 0
  BY <1>1, <1>2, <1>3 DEF Pending
<1>5. \A i \in Ids : Status(i)' = actions'[i].status /\ Status(i) = actions[i].status
  BY DEF Status
<1>6. ExitTables'
  <2>1. (\A i \in Ids \ Stored : Status(i) = "NONE")'
    BY <1>1, <1>5 DEF ExitTables, Ids
  <2>2. (\A i \in Stored : alerts[i].reason = "EXPIRED" => Intent(i) # "EXIT")'
    BY <1>1, <1>2 DEF ExitTables
  <2>3. (\A i \in Ids : Pending(i) =>
          /\ Status(i) \in {"NONE", "OPEN", "BLOCKED", "OVERRIDDEN"}
          /\ alerts[i].active = 0 => Status(i) = "OVERRIDDEN")'
    BY <1>4, <1>5 DEF Ids
  <2>. QED  BY <2>1, <2>2, <2>3 DEF ExitTables
<1>. QED
  BY <1>1, <1>4, <1>6

\* And for the handlers: only t moves.
LEMMA HandlersFrame ==
    ASSUME TypeOK, ExitHandlers, NEW t \in Threads,
           \A u \in Threads \ {t} : thread'[u] = thread[u],
           \A i \in Stored : Pending(i)' => Pending(i),
           \A i \in Stored : Status(i) # "NONE" => Status(i)' # "NONE",
           ExitHandled(t)'
    PROVE  ExitHandlers'
<1>. SUFFICES ASSUME NEW u \in Threads \ {t}
              PROVE  ExitHandled(u)'
  BY DEF ExitHandlers
<1>1. ExitHandled(u) /\ thread'[u] = thread[u]
  BY DEF ExitHandlers
<1>2. thread[u].todo \subseteq Stored
  BY DEF TypeOK
<1>3. Pending(thread[u].on)' => Pending(thread[u].on) /\ thread[u].on \in Stored
  <2>1. thread[u].on \in 0..MaxAlerts /\ thread[u].on <= lastAlert
    BY DEF TypeOK, Handler
  <2>2. thread[u].on # 0 => thread[u].on \in Stored
    BY <2>1, LimitsAssumption DEF Stored, TypeOK
  <2>3. 0 \notin Stored'
    BY DEF Stored
  <2>. QED  BY <1>1, <2>2, <2>3 DEF Pending
<1>. QED
  BY <1>1, <1>2, <1>3 DEF ExitHandled, Deciders

\* Handlers the conditions say nothing about.
LEMMA Unaffected ==
    ASSUME NEW t \in Threads, thread'[t].op # "import", thread'[t].pc # "check",
           \/ thread'[t].op \in {"none", "create", "read", "record", "except", "decide", "override",
                                 "policy"}
           \/ thread'[t].op = "ignore" /\ thread'[t].pc # "commit"
           \/ thread'[t].pc \in {"ensure", "retire"}
    PROVE  ExitHandled(t)'
BY DEF ExitHandled, Deciders

LEMMA Harmless ==
    ASSUME NEW t \in Threads, NEW i, thread'[t].on = i, ~Pending(i)', thread'[t].op # "import"
    PROVE  ExitHandled(t)'
BY DEF ExitHandled, Deciders

LEMMA OnStored ==
    ASSUME TypeOK, Placed, NEW t \in Threads, thread[t].op \notin {"none", "read", "import", "policy"}
    PROVE  thread[t].on \in Stored
<1>1. thread[t].on # 0
  BY DEF Placed, PlacedAt
<1>2. thread[t].on \in 0..MaxAlerts /\ thread[t].on <= lastAlert
  BY DEF TypeOK, Handler
<1>. QED
  BY <1>1, <1>2, LimitsAssumption DEF Stored, TypeOK

\* A handler on its way through a projection.
LEMMA OnItsWay ==
    ASSUME TypeOK, Placed, ExitHandlers, NEW t \in Threads,
           thread[t].pc \in {"project", "unblock", "rank", "block"},
           thread'[t].op = thread[t].op, thread'[t].on = thread[t].on,
           thread'[t].pc \in {"project", "unblock", "rank", "block", "load"},
           \A i \in Stored : Pending(i)' => Pending(i)
    PROVE  ExitHandled(t)'
<1>1. thread[t].op \in Ops /\ PlacedAt(thread[t]) /\ ExitHandled(t)
  BY DEF TypeOK, Handler, Placed, ExitHandlers
<1>2. thread[t].op \in {"read", "record", "except", "decide", "ignore", "override", "execute",
                        "skip", "policy"}
  BY <1>1 DEF PlacedAt, Ops
<1>3. CASE thread[t].op \in {"execute", "skip"}
  <2>1. PICK i \in Stored : i = thread[t].on
    BY <1>3, OnStored
  <2>2. ~Pending(i)
    BY <1>1, <1>3, <2>1 DEF ExitHandled, Deciders
  <2>3. ~Pending(i)'
    BY <2>2
  <2>. QED  BY <1>3, <2>1, <2>3, Harmless
<1>4. CASE thread[t].op \notin {"execute", "skip"}
  BY <1>2, <1>4, Unaffected
<1>. QED
  BY <1>3, <1>4

\* A step that writes no table.
LEMMA QuietFrame ==
    ASSUME TypeOK, ExitTables, UNCHANGED tables
    PROVE  /\ ExitTables'
           /\ \A i \in Stored : Pending(i)' => Pending(i)
           /\ \A i \in Stored : Status(i) # "NONE" => Status(i)' # "NONE"
BY DEF tables, ExitTables, Pending, Stored, Status, Intent, Ticker

\* A step that only moves actions, none of them a pending Exit's out of the queue.
LEMMA MarkFrame ==
    ASSUME TypeOK, TypeOK', ExitTables, UNCHANGED <<lastAlert, reports>>,
           NEW S, NEW s \in Statuses \ {"NONE"}, actions' = Mark(S, s), S \subseteq Stored,
           UNCHANGED alerts \/ \E R, r : /\ r \in {"RESOLVED", "EXPIRED"}
                                         /\ alerts' = Resolved(R, r)
                                         /\ \A i \in R : i \in Ids => ~Pending(i) \/
                                               (i \in S /\ s = "OVERRIDDEN")
                                         /\ r = "EXPIRED" => \A i \in R : Intent(i) # "EXIT",
           \A i \in S : Pending(i) => \/ s = "OVERRIDDEN"
                                      \/ /\ s \in {"OPEN", "BLOCKED"}
                                         /\ Status(i) # "OVERRIDDEN"
    PROVE  /\ ExitTables'
           /\ \A i \in Stored : Pending(i)' => Pending(i)
           /\ \A i \in Stored : Status(i) # "NONE" => Status(i)' # "NONE"
<1>1. \A i \in Ids : actions'[i].status = IF i \in S THEN s ELSE Status(i)
  BY MarkType
<1>2. \A i \in Ids : reports'[i] >= reports[i]
  BY DEF TypeOK, Ids
<1>3. \A i \in Ids \ Stored : actions'[i].status = actions[i].status
  BY <1>1 DEF Status
<1>4. /\ \A i \in Ids : alerts'[i].sig = alerts[i].sig
      /\ \A i \in Ids : alerts'[i].reason = "EXPIRED" =>
                             alerts[i].reason = "EXPIRED" \/ Intent(i) # "EXIT"
      /\ \A i \in Ids : Pending(i) =>
            alerts'[i].active = alerts[i].active \/ (i \in S /\ s = "OVERRIDDEN")
  <2>1. CASE UNCHANGED alerts
    BY <2>1
  <2>2. ASSUME NEW R, NEW r \in {"RESOLVED", "EXPIRED"}, alerts' = Resolved(R, r),
               \A i \in R : i \in Ids => ~Pending(i) \/ (i \in S /\ s = "OVERRIDDEN"),
               r = "EXPIRED" => \A i \in R : Intent(i) # "EXIT"
        PROVE  <1>4!1 /\ <1>4!2 /\ <1>4!3
    BY <2>2, ResolvedType
  <2>. QED  BY <2>1, <2>2
<1>5. \A i \in Ids : Pending(i) /\ reports'[i] = 0 =>
         /\ actions'[i].status \in {"NONE", "OPEN", "BLOCKED", "OVERRIDDEN"}
         /\ alerts'[i].active = 0 => actions'[i].status = "OVERRIDDEN"
  <2>. SUFFICES ASSUME NEW i \in Ids, Pending(i)
                PROVE  /\ actions'[i].status \in {"NONE", "OPEN", "BLOCKED", "OVERRIDDEN"}
                       /\ alerts'[i].active = 0 => actions'[i].status = "OVERRIDDEN"
    OBVIOUS
  <2>1. /\ Status(i) \in {"NONE", "OPEN", "BLOCKED", "OVERRIDDEN"}
        /\ alerts[i].active = 0 => Status(i) = "OVERRIDDEN"
    BY DEF ExitTables
  <2>. QED  BY <1>1, <1>4, <2>1
<1>6. Stored \subseteq Ids
  BY LimitsAssumption DEF Stored, Ids, TypeOK
<1>7. ExitTables' /\ \A i \in Stored : Pending(i)' => Pending(i)
  BY <1>2, <1>3, <1>4, <1>5, <1>6, TablesFrame
<1>8. \A i \in Stored : Status(i) # "NONE" => Status(i)' # "NONE"
  BY <1>1, <1>6 DEF Status
<1>. QED
  BY <1>7, <1>8

\* A weight proposal is no Exit.
LEMMA WeightIsNoExit ==
    ASSUME TypeOK, NEW i \in Stored, Weight(i)
    PROVE  Intent(i) # "EXIT"
<1>1. i \in Ids /\ i <= lastAlert
  BY LimitsAssumption DEF Stored, Ids, TypeOK
<1>2. alerts[i].sig \in Signals
  BY <1>1 DEF TypeOK, Alert
<1>. QED
  BY <1>2, SignalsAssumption DEF Weight, Intent

\* A handler that returns needs no care.
LEMMA ReturnHandled ==
    ASSUME TypeOK, NEW t \in Threads, Return(t)
    PROVE  /\ \A u \in Threads \ {t} : thread'[u] = thread[u]
           /\ ExitHandled(t)'
<1>1. \A u \in Threads : thread'[u] = IF u = t THEN Idle ELSE thread[u]
  BY ReturnType
<1>2. thread'[t].op = "none" /\ thread'[t].pc = "idle"
  BY <1>1 DEF Idle
<1>. QED
  BY <1>1, <1>2, Unaffected

LEMMA ProjectedHandled ==
    ASSUME TypeOK, Placed, ExitHandlers, NEW t \in Threads, Projected(t),
           thread[t].pc \in {"project", "block"},
           \A i \in Stored : Pending(i)' => Pending(i)
    PROVE  /\ \A u \in Threads \ {t} : thread'[u] = thread[u]
           /\ ExitHandled(t)'
<1>1. CASE Return(t)
  BY <1>1, ReturnHandled
<1>2. CASE ~Return(t)
  <2>1. /\ \A u \in Threads \ {t} : thread'[u] = thread[u]
        /\ thread'[t].op = thread[t].op /\ thread'[t].on = thread[t].on
        /\ thread'[t].pc = "load"
    BY <1>2, ProjectedMoves
  <2>. QED  BY <2>1, OnItsWay
<1>. QED
  BY <1>1, <1>2

LEMMA ExitRefresh ==
    ASSUME TypeOK, TypeOK', Placed, ExitTables, ExitHandlers, NEW t \in Threads, Refresh(t)
    PROVE  ExitTables' /\ ExitHandlers'
<1>. USE StatusesHold
<1>a. {"unblock", "rank", "block", "project", "load"} \subseteq Pcs
  BY DEF Pcs
<1>b. thread \in [Threads -> Handler] /\ thread[t].op \in Ops /\ PlacedAt(thread[t])
  BY DEF TypeOK, Handler, Placed
<1>c. Rows \subseteq Stored
  BY DEF Rows
<1>d. thread[t].todo \subseteq Stored
  BY DEF TypeOK
<1>e. \A i \in Ids : Pending(i) =>
          /\ Status(i) \in {"NONE", "OPEN", "BLOCKED", "OVERRIDDEN"}
          /\ alerts[i].active = 0 => Status(i) = "OVERRIDDEN"
  BY DEF ExitTables
<1>s. Stored \subseteq Ids
  BY LimitsAssumption DEF Stored, Ids, TypeOK
<1>1. CASE Retire(t)
  <2>1. Goto(t, "unblock") /\ UNCHANGED <<alerts, lastAlert, reports>>
        /\ actions' = Mark(Orphaned, "EXPIRED")
    BY <1>1 DEF Retire
  <2>2. Orphaned \subseteq Stored /\ \A i \in Orphaned : ~Pending(i)
    BY <1>c, <1>e, <1>s DEF Orphaned, Queued
  <2>3. /\ ExitTables'
        /\ \A i \in Stored : Pending(i)' => Pending(i)
        /\ \A i \in Stored : Status(i) # "NONE" => Status(i)' # "NONE"
    BY <2>1, <2>2, MarkFrame
  <2>4. ExitHandled(t)'
    <3>1. thread'[t].op = thread[t].op /\ thread'[t].pc = "unblock"
      BY <1>a, <2>1, GotoType
    <3>2. thread[t].op \in {"read", "record", "except", "decide", "ignore", "override"}
      BY <1>1, <1>b DEF PlacedAt, Retire, At, Ops
    <3>. QED  BY <3>1, <3>2, Unaffected
  <2>5. \A u \in Threads \ {t} : thread'[u] = thread[u]
    BY <1>b, <2>1 DEF Goto
  <2>. QED  BY <2>3, <2>4, <2>5, HandlersFrame
<1>2. CASE Unblock(t)
  <2>. DEFINE S == {i \in Rows : Status(i) = "BLOCKED"}
  <2>1. Goto(t, "rank") /\ UNCHANGED <<alerts, lastAlert, reports>>
        /\ actions' = Mark(S, "OPEN")
    BY <1>2 DEF Unblock
  <2>2. S \subseteq Stored /\ \A i \in S : Status(i) = "BLOCKED"
    BY <1>c
  <2>. HIDE DEF S
  <2>3. /\ ExitTables'
        /\ \A i \in Stored : Pending(i)' => Pending(i)
        /\ \A i \in Stored : Status(i) # "NONE" => Status(i)' # "NONE"
    BY <2>1, <2>2, MarkFrame
  <2>4. ExitHandled(t)'
    <3>1. /\ thread[t].pc = "unblock" /\ thread'[t].pc = "rank"
          /\ thread'[t].op = thread[t].op /\ thread'[t].on = thread[t].on
      BY <1>2, <1>a, <2>1, GotoType DEF Unblock, At
    <3>. QED  BY <2>3, <3>1, OnItsWay
  <2>5. \A u \in Threads \ {t} : thread'[u] = thread[u]
    BY <1>b, <2>1 DEF Goto
  <2>. QED  BY <2>3, <2>4, <2>5, HandlersFrame
<1>3. CASE Rank(t)
  <2>1. UNCHANGED tables
    BY <1>3 DEF Rank
  <2>2. PICK S : thread' = [thread EXCEPT ![t].todo = S, ![t].pc = "block"]
    BY <1>3 DEF Rank
  <2>3. /\ thread'[t].op = thread[t].op /\ thread'[t].on = thread[t].on
        /\ thread'[t].pc = "block"
        /\ \A u \in Threads \ {t} : thread'[u] = thread[u]
    BY <1>b, <2>2 DEF Handler
  <2>4. thread[t].pc = "rank" /\ \A i \in Stored : Pending(i)' => Pending(i)
    BY <1>3, <2>1, QuietFrame DEF Rank, At
  <2>5. ExitHandled(t)'
    BY <2>3, <2>4, OnItsWay
  <2>. QED  BY <2>1, <2>3, <2>5, QuietFrame, HandlersFrame
<1>4. CASE Block(t)
  <2>1. PICK i \in thread[t].todo :
            /\ actions' = Mark({i} \cap {j \in Ids : Status(j) = "OPEN"}, "BLOCKED")
            /\ thread' = [thread EXCEPT ![t].todo = @ \ {i}]
    BY <1>4 DEF Block
  <2>. DEFINE S == {i} \cap {j \in Ids : Status(j) = "OPEN"}
  <2>2. UNCHANGED <<alerts, lastAlert, reports>>
    BY <1>4 DEF Block
  <2>3. S \subseteq Stored /\ (\A j \in S : Status(j) = "OPEN") /\ actions' = Mark(S, "BLOCKED")
    BY <1>d, <2>1
  <2>. HIDE DEF S
  <2>4. /\ ExitTables'
        /\ \A j \in Stored : Pending(j)' => Pending(j)
        /\ \A j \in Stored : Status(j) # "NONE" => Status(j)' # "NONE"
    BY <2>2, <2>3, MarkFrame
  <2>5. /\ thread[t].pc = "block" /\ thread'[t].pc = "block"
        /\ thread'[t].op = thread[t].op /\ thread'[t].on = thread[t].on
        /\ \A u \in Threads \ {t} : thread'[u] = thread[u]
    BY <1>4, <1>b, <2>1, TodoType DEF Block, At
  <2>7. ExitHandled(t)'
    BY <2>4, <2>5, OnItsWay
  <2>. QED  BY <2>4, <2>5, <2>7, HandlersFrame
<1>5. CASE BlockEnds(t)
  <2>1. UNCHANGED tables /\ thread[t].pc = "block"
    BY <1>5 DEF BlockEnds, At
  <2>2. CASE Projected(t)
    BY <2>1, <2>2, QuietFrame, ProjectedHandled, HandlersFrame
  <2>3. ASSUME NEW p \in {"load", "project"}, Goto(t, p)
        PROVE  ExitTables' /\ ExitHandlers'
    <3>1. /\ thread'[t].op = thread[t].op /\ thread'[t].on = thread[t].on
          /\ thread'[t].pc = p
          /\ \A u \in Threads \ {t} : thread'[u] = thread[u]
      BY <1>b, <2>3 DEF Goto, Handler
    <3>2. ExitHandled(t)'
      BY <2>1, <3>1, QuietFrame, OnItsWay
    <3>. QED  BY <2>1, <3>1, <3>2, QuietFrame, HandlersFrame
  <2>. QED  BY <1>5, <2>2, <2>3 DEF BlockEnds
<1>. QED
  BY <1>1, <1>2, <1>3, <1>4, <1>5 DEF Refresh

\* A step that projects an alert.
LEMMA EnsuredFrame ==
    ASSUME TypeOK, TypeOK', ExitTables, UNCHANGED <<alerts, lastAlert, reports>>,
           NEW k \in Stored, actions' = Ensured(k)
    PROVE  /\ ExitTables'
           /\ \A i \in Stored : Pending(i)' => Pending(i)
           /\ \A i \in Stored : Status(i) # "NONE" => Status(i)' # "NONE"
           /\ Status(k)' # "NONE"
<1>1. \A i \in Ids : actions'[i].status = IF i = k /\ Status(i) = "NONE" THEN "OPEN" ELSE Status(i)
  BY EnsuredType
<1>2. Stored \subseteq Ids
  BY LimitsAssumption DEF Stored, Ids, TypeOK
<1>3. \A i \in Ids : reports'[i] >= reports[i]
  BY DEF TypeOK, Ids
<1>4. \A i \in Ids : Pending(i) /\ reports'[i] = 0 =>
         /\ actions'[i].status \in {"NONE", "OPEN", "BLOCKED", "OVERRIDDEN"}
         /\ alerts'[i].active = 0 => actions'[i].status = "OVERRIDDEN"
  BY <1>1 DEF ExitTables
<1>5. \A i \in Ids \ Stored : actions'[i].status = actions[i].status
  BY <1>1 DEF Status
<1>6. ExitTables' /\ \A i \in Stored : Pending(i)' => Pending(i)
  BY <1>2, <1>3, <1>4, <1>5, TablesFrame
<1>. QED
  BY <1>1, <1>2, <1>6 DEF Status

LEMMA ExitReading ==
    ASSUME TypeOK, TypeOK', Placed, ExitTables, ExitHandlers, NEW t \in Threads, Reading(t)
    PROVE  ExitTables' /\ ExitHandlers'
<1>. USE StatusesHold
<1>b. thread \in [Threads -> Handler] /\ thread[t].op \in Ops /\ PlacedAt(thread[t])
  BY DEF TypeOK, Handler, Placed
<1>s. Stored \subseteq Ids /\ Rows \subseteq Stored
  BY LimitsAssumption DEF Stored, Ids, Rows, TypeOK
<1>h. /\ \A u \in Threads \ {t} : thread'[u] = thread[u]
      /\ ExitHandled(t)'
  <2>1. thread[t].op = "read"
    BY <1>b DEF Reading, ExpireAlerts, ExpireActions, ListAlerts, Backfill, BackfillEnds, At,
                PlacedAt, Ops
  <2>2. /\ \A u \in Threads \ {t} : thread'[u] = thread[u]
        /\ thread'[t].op = thread[t].op
        /\ thread'[t].pc # "check"
    <3>1. ASSUME NEW p \in {"list", "expireActions", "retire"}, Goto(t, p)
          PROVE  <2>2!1 /\ <2>2!2 /\ <2>2!3
      BY <1>b, <3>1 DEF Goto, Handler
    <3>2. ASSUME NEW S, thread' = [thread EXCEPT ![t].todo = S, ![t].pc = "backfill"]
          PROVE  <2>2!1 /\ <2>2!2 /\ <2>2!3
      BY <1>b, <3>2 DEF Handler
    <3>3. ASSUME NEW i, thread' = [thread EXCEPT ![t].todo = @ \ {i}], At(t, "backfill")
          PROVE  <2>2!1 /\ <2>2!2 /\ <2>2!3
      BY <1>b, <3>3, TodoType DEF At
    <3>. QED
      BY <3>1, <3>2, <3>3 DEF Reading, ExpireAlerts, ExpireActions, ListAlerts, Backfill,
                              BackfillEnds
  <2>. QED  BY <2>1, <2>2, Unaffected
<1>. SUFFICES /\ ExitTables'
              /\ \A i \in Stored : Pending(i)' => Pending(i)
              /\ \A i \in Stored : Status(i) # "NONE" => Status(i)' # "NONE"
  BY <1>h, HandlersFrame
<1>1. CASE ExpireAlerts(t)
  <2>1. alerts' = Resolved(Overdue, "EXPIRED") /\ UNCHANGED <<actions, lastAlert, reports>>
    BY <1>1 DEF ExpireAlerts
  <2>2. \A i \in Overdue : i \in Stored /\ Intent(i) # "EXIT" /\ ~Pending(i)
    BY DEF Overdue, Pending
  <2>3. /\ \A i \in Ids : alerts'[i].sig = alerts[i].sig
        /\ \A i \in Ids : alerts'[i].reason = "EXPIRED" =>
                               alerts[i].reason = "EXPIRED" \/ Intent(i) # "EXIT"
        /\ \A i \in Ids : Pending(i) => alerts'[i].active = alerts[i].active
    BY <2>1, <2>2, ResolvedType
  <2>4. \A i \in Ids : reports'[i] >= reports[i]
    BY <2>1 DEF TypeOK, Ids
  <2>5. \A i \in Ids : Pending(i) /\ reports'[i] = 0 =>
              /\ actions'[i].status \in {"NONE", "OPEN", "BLOCKED", "OVERRIDDEN"}
              /\ alerts'[i].active = 0 => actions'[i].status = "OVERRIDDEN"
    BY <2>1, <2>3 DEF ExitTables, Status
  <2>. QED  BY <1>s, <2>1, <2>3, <2>4, <2>5, TablesFrame DEF Status
<1>2. CASE ExpireActions(t)
  <2>. DEFINE S == {i \in Rows : alerts[i].reason = "EXPIRED" /\ Status(i) \in Queued}
  <2>1. actions' = Mark(S, "EXPIRED") /\ UNCHANGED <<alerts, lastAlert, reports>>
    BY <1>2 DEF ExpireActions
  <2>2. S \subseteq Stored /\ \A i \in S : ~Pending(i)
    BY <1>s DEF ExitTables, Pending
  <2>. HIDE DEF S
  <2>. QED  BY <2>1, <2>2, MarkFrame
<1>3. CASE ListAlerts(t)
  BY <1>3, QuietFrame DEF ListAlerts
<1>4. CASE Backfill(t)
  <2>1. PICK i \in thread[t].todo : actions' = Ensured(i)
    BY <1>4 DEF Backfill
  <2>2. UNCHANGED <<alerts, lastAlert, reports>> /\ i \in Stored
    BY <1>4 DEF Backfill, TypeOK
  <2>. QED  BY <2>1, <2>2, EnsuredFrame
<1>5. CASE BackfillEnds(t)
  BY <1>5, QuietFrame DEF BackfillEnds
<1>. QED
  BY <1>1, <1>2, <1>3, <1>4, <1>5 DEF Reading

\* A step that stores an alert, with or without its action.
LEMMA StoreFrame ==
    ASSUME TypeOK, TypeOK', ExitTables, NEW s \in Signals, lastAlert < MaxAlerts,
           lastAlert' = lastAlert + 1, alerts' = [alerts EXCEPT ![lastAlert + 1] = NewAlert(s)],
           UNCHANGED reports,
           \A i \in Ids \ {lastAlert + 1} : actions'[i].status = actions[i].status,
           actions'[lastAlert + 1].status \in {"NONE", "OPEN"}
    PROVE  /\ ExitTables'
           /\ \A i \in Stored : Pending(i)' => Pending(i)
           /\ \A i \in Stored : Status(i) # "NONE" => Status(i)' # "NONE"
<1>k. PICK k : k = lastAlert + 1
  OBVIOUS
<1>1. /\ k \in Ids /\ Stored' = Stored \cup {k} /\ k \notin Stored /\ Stored \subseteq Ids
  BY <1>k, LimitsAssumption DEF Stored, Ids, TypeOK
<1>2. /\ alerts'[k].active = 1 /\ alerts'[k].reason = "NONE"
      /\ \A i \in Ids \ {k} : alerts'[i] = alerts[i]
  BY <1>k, <1>1 DEF TypeOK, NewAlert
<1>3. \A i \in Ids \ {k} : /\ Status(i)' = Status(i)
                           /\ Intent(i)' = Intent(i) /\ Ticker(i)' = Ticker(i)
  BY <1>k, <1>2 DEF Status, Intent, Ticker
<1>4. Status(k)' \in {"NONE", "OPEN"}
  BY <1>k DEF Status
<1>5. \A i \in Stored : Pending(i)' => Pending(i)
  BY <1>1, <1>3 DEF Pending
<1>6. (\A i \in Ids \ Stored : Status(i) = "NONE")'
  BY <1>1, <1>3 DEF ExitTables, Ids
<1>7. (\A i \in Stored : alerts[i].reason = "EXPIRED" => Intent(i) # "EXIT")'
  BY <1>1, <1>2, <1>3 DEF ExitTables
<1>8. ASSUME NEW i \in Ids, Pending(i)'
      PROVE  /\ Status(i)' \in {"NONE", "OPEN", "BLOCKED", "OVERRIDDEN"}
             /\ alerts'[i].active = 0 => Status(i)' = "OVERRIDDEN"
  <2>1. CASE i = k
    BY <1>2, <1>4, <2>1
  <2>2. CASE i # k
    <3>1. Pending(i)
      BY <1>1, <1>5, <1>8, <2>2 DEF Pending
    <3>. QED  BY <1>2, <1>3, <2>2, <3>1 DEF ExitTables
  <2>. QED  BY <2>1, <2>2
<1>9. ExitTables'
  <2>1. \A i \in Ids : Pending(i)' =>
             /\ Status(i)' \in {"NONE", "OPEN", "BLOCKED", "OVERRIDDEN"}
             /\ alerts'[i].active = 0 => Status(i)' = "OVERRIDDEN"
    BY <1>8
  <2>. QED  BY <1>6, <1>7, <2>1 DEF ExitTables, Ids
<1>. QED
  BY <1>1, <1>3, <1>5, <1>9

LEMMA PolicyFrame ==
    ASSUME TypeOK, TypeOK', ExitTables, PolicySync
    PROVE  /\ ExitTables'
           /\ \A i \in Stored : Pending(i)' => Pending(i)
           /\ \A i \in Stored : Status(i) # "NONE" => Status(i)' # "NONE"
<1>. USE StatusesHold
<1>1. CASE UNCHANGED tables
  BY <1>1, QuietFrame
<1>2. ASSUME NEW K \in SUBSET Tickers, Withdraw(K)
      PROVE  /\ ExitTables'
             /\ \A i \in Stored : Pending(i)' => Pending(i)
             /\ \A i \in Stored : Status(i) # "NONE" => Status(i)' # "NONE"
  <2>1. PICK W \in SUBSET {i \in Rows : Weight(i)} :
            /\ actions' = Mark(W, "NOT_APPLICABLE")
            /\ alerts' = Resolved(W, "RESOLVED")
            /\ UNCHANGED <<lastAlert, reports>>
    BY <1>2 DEF Withdraw
  <2>2. \A i \in W : i \in Stored /\ ~Pending(i)
    BY <2>1, WeightIsNoExit DEF Rows, Pending
  <2>. QED  BY <2>1, <2>2, MarkFrame
<1>3. ASSUME NEW s \in Signals, Propose(s)
      PROVE  /\ ExitTables'
             /\ \A i \in Stored : Pending(i)' => Pending(i)
             /\ \A i \in Stored : Status(i) # "NONE" => Status(i)' # "NONE"
  <2>1. /\ lastAlert < MaxAlerts
        /\ lastAlert' = lastAlert + 1
        /\ alerts' = [alerts EXCEPT ![lastAlert + 1] = NewAlert(s)]
        /\ actions' = [actions EXCEPT ![lastAlert + 1].status = "OPEN",
                                      ![lastAlert + 1].no = Cardinality(Rows) + 1]
        /\ UNCHANGED reports
    BY <1>3 DEF Propose
  <2>2. lastAlert + 1 \in Ids
    BY <2>1, LimitsAssumption DEF Ids, TypeOK
  <2>3. /\ \A i \in Ids \ {lastAlert + 1} : actions'[i].status = actions[i].status
        /\ actions'[lastAlert + 1].status \in {"NONE", "OPEN"}
    BY <2>1, <2>2 DEF TypeOK, Action
  <2>. QED  BY <2>1, <2>3, StoreFrame
<1>. QED
  BY <1>1, <1>2, <1>3 DEF PolicySync

\* The report of an execution, on any row.
LEMMA ReportFrame ==
    ASSUME TypeOK, TypeOK', ExitTables, UNCHANGED lastAlert, NEW k \in Stored,
           \/ UNCHANGED reports /\ ~Pending(k) /\ UNCHANGED alerts
           \/ reports' = CountReport(k) /\ alerts' = Resolved({k}, "RESOLVED"),
           actions' = Reported(k)
    PROVE  /\ ExitTables'
           /\ \A i \in Stored : Pending(i)' => Pending(i)
           /\ \A i \in Stored : Status(i) # "NONE" => Status(i)' # "NONE"
<1>1. Stored \subseteq Ids /\ k \in Ids /\ k \in Int
  BY LimitsAssumption DEF Stored, Ids, TypeOK
<1>2. /\ \A i \in Ids : i # k => actions'[i].status = Status(i)
      /\ actions'[k].status \in {"CONFIRMED", "AWAITING_STATEMENT"}
  <2>1. \A i \in Ids : i # k => actions'[i].status = Status(i)
    BY <1>1, ReportedType
  <2>2. actions'[k].status \in {"CONFIRMED", "AWAITING_STATEMENT"}
    BY <1>1 DEF Reported, TypeOK, Action
  <2>. QED  BY <2>1, <2>2
<1>3. \A i \in Ids : reports'[i] >= reports[i]
  <2>1. CASE UNCHANGED reports
    BY <2>1 DEF TypeOK, Ids
  <2>2. CASE reports' = CountReport(k)
    BY <1>1, <2>2, ReportedType
  <2>. QED  BY <2>1, <2>2
<1>4. /\ \A i \in Ids : alerts'[i].sig = alerts[i].sig
      /\ \A i \in Ids : alerts'[i].reason = "EXPIRED" => alerts[i].reason = "EXPIRED"
      /\ \A i \in Ids : i # k => alerts'[i].active = alerts[i].active
  BY ResolvedType
<1>5. Pending(k) => reports'[k] > 0
  BY <1>1, ReportedType
<1>6. \A i \in Ids : Pending(i) /\ reports'[i] = 0 =>
         /\ actions'[i].status \in {"NONE", "OPEN", "BLOCKED", "OVERRIDDEN"}
         /\ alerts'[i].active = 0 => actions'[i].status = "OVERRIDDEN"
  <2>. SUFFICES ASSUME NEW i \in Ids, Pending(i), reports'[i] = 0
                PROVE  /\ actions'[i].status \in {"NONE", "OPEN", "BLOCKED", "OVERRIDDEN"}
                       /\ alerts'[i].active = 0 => actions'[i].status = "OVERRIDDEN"
    OBVIOUS
  <2>1. i # k
    BY <1>5
  <2>. QED  BY <1>2, <1>4, <2>1 DEF ExitTables
<1>7. \A i \in Ids \ Stored : actions'[i].status = actions[i].status
  BY <1>2 DEF Status
<1>8. ExitTables' /\ \A i \in Stored : Pending(i)' => Pending(i)
  BY <1>1, <1>3, <1>4, <1>6, <1>7, TablesFrame
<1>. QED
  BY <1>1, <1>2, <1>8 DEF Status

LEMMA ExitAnswering ==
    ASSUME TypeOK, TypeOK', Placed, ExitTables, ExitHandlers, NEW t \in Threads, Answering(t)
    PROVE  ExitTables' /\ ExitHandlers'
<1>. USE StatusesHold
<1>b. thread \in [Threads -> Handler] /\ thread[t].op \in Ops /\ PlacedAt(thread[t])
  BY DEF TypeOK, Handler, Placed
<1>x. ExitHandled(t)
  BY DEF ExitHandlers
<1>s. Stored \subseteq Ids /\ Rows \subseteq Stored
  BY LimitsAssumption DEF Stored, Ids, Rows, TypeOK
<1>1. CASE Lock(t)
  <2>1. UNCHANGED tables /\ thread' = [thread EXCEPT ![t].pc = "retire"]
    BY <1>1 DEF Lock, Goto
  <2>2. /\ \A u \in Threads \ {t} : thread'[u] = thread[u]
        /\ thread'[t].op = thread[t].op /\ thread'[t].pc = "retire"
    BY <1>b, <2>1 DEF Handler
  <2>3. thread[t].op # "import"
    BY <1>1, <1>b DEF PlacedAt, Lock, At
  <2>4. ExitHandled(t)'
    BY <2>2, <2>3, Unaffected
  <2>. QED  BY <2>1, <2>2, <2>4, QuietFrame, HandlersFrame
<1>2. CASE Project(t)
  <2>0. PolicySync
    BY <1>2 DEF Project, PolicySync
  <2>1. /\ ExitTables'
        /\ \A i \in Stored : Pending(i)' => Pending(i)
        /\ \A i \in Stored : Status(i) # "NONE" => Status(i)' # "NONE"
    BY <2>0, PolicyFrame
  <2>2. thread[t].pc = "project"
    BY <1>2 DEF Project, At
  <2>3. CASE Projected(t)
    BY <2>1, <2>2, <2>3, ProjectedHandled, HandlersFrame
  <2>4. CASE thread' = [thread EXCEPT ![t].pc = "unblock", ![t].synced = TRUE]
    <3>1. "unblock" \in Pcs
      BY DEF Pcs
    <3>0. /\ \A u \in Threads \ {t} : thread'[u] = thread[u]
          /\ \A u \in Threads : /\ thread'[u].op = thread[u].op /\ thread'[u].on = thread[u].on
                                /\ thread'[u].pc = IF u = t THEN "unblock" ELSE thread[u].pc
      BY <2>4, <3>1, SyncType, ZenonT(60)
    <3>2. /\ \A u \in Threads \ {t} : thread'[u] = thread[u]
          /\ thread'[t].op = thread[t].op /\ thread'[t].on = thread[t].on
          /\ thread'[t].pc = "unblock"
      BY <3>0
    <3>3. ExitHandled(t)'
      BY <2>1, <2>2, <3>2, OnItsWay
    <3>. QED  BY <2>1, <3>2, <3>3, HandlersFrame
  <2>. QED  BY <1>2, <2>3, <2>4 DEF Project
<1>3. CASE Load(t)
  <2>1. UNCHANGED tables
    BY <1>3 DEF Load
  <2>2. CASE Return(t)
    BY <2>1, <2>2, QuietFrame, ReturnHandled, HandlersFrame
  <2>3. CASE /\ Admits(t)
             /\ thread' = [thread EXCEPT ![t].saw = Status(thread[t].on), ![t].pc = "commit"]
    <3>. DEFINE v == Status(thread[t].on)
    <3>1. thread' = [thread EXCEPT ![t] = [[thread[t] EXCEPT !.saw = v] EXCEPT !.pc = "commit"]]
      BY <2>3
    <3>2. \A h \in Handler : LET g == [[h EXCEPT !.saw = v] EXCEPT !.pc = "commit"] IN
              g.op = h.op /\ g.on = h.on /\ g.pc = "commit"
      BY DEF Handler
    <3>. HIDE DEF v
    <3>3. /\ \A u \in Threads \ {t} : thread'[u] = thread[u]
          /\ thread'[t].op = thread[t].op /\ thread'[t].on = thread[t].on
          /\ thread'[t].pc = "commit"
      BY <1>b, <3>1, <3>2
    <3>4. thread[t].op \in {"ignore", "override", "record", "except", "decide", "execute", "skip"}
      BY <1>3, <1>b DEF Load, At, PlacedAt, Ops
    <3>5. CASE thread[t].op \in {"override", "record", "except", "decide"}
      <4>1. ExitHandled(t)'
        BY <3>3, <3>5, Unaffected
      <4>. QED  BY <2>1, <3>3, <4>1, QuietFrame, HandlersFrame
    <3>6. CASE thread[t].op \in {"ignore", "execute", "skip"}
      <4>1. PICK i \in Stored : i = thread[t].on
        BY <3>6, OnStored
      <4>2. ~Pending(i)
        <5>1. CASE thread[t].op = "ignore"
          BY <2>3, <4>1, <5>1 DEF Admits, Pending
        <5>2. CASE thread[t].op \in {"execute", "skip"}
          BY <1>3, <1>x, <4>1, <5>2 DEF ExitHandled, Deciders, Load, At
        <5>. QED  BY <3>6, <5>1, <5>2
      <4>3. ~Pending(i)'
        BY <2>1, <4>2, QuietFrame
      <4>4. ExitHandled(t)'
        BY <3>3, <3>6, <4>1, <4>3, Harmless
      <4>. QED  BY <2>1, <3>3, <4>4, QuietFrame, HandlersFrame
    <3>. QED  BY <3>4, <3>5, <3>6
  <2>. QED  BY <1>3, <2>2, <2>3 DEF Load
<1>4. CASE CommitRecord(t)
  <2>1. PICK i \in Stored : i = thread[t].on
    BY <1>4, OnStored DEF CommitRecord
  <2>2. /\ ExitTables'
        /\ \A j \in Stored : Pending(j)' => Pending(j)
        /\ \A j \in Stored : Status(j) # "NONE" => Status(j)' # "NONE"
    <3>1. CASE UNCHANGED tables
      BY <3>1, QuietFrame
    <3>2. CASE /\ actions' = Reported(i)
               /\ alerts' = Resolved({i}, "RESOLVED")
               /\ reports' = CountReport(i)
               /\ UNCHANGED lastAlert
      BY <3>2, ReportFrame
    <3>. QED  BY <1>4, <2>1, <3>1, <3>2 DEF CommitRecord
  <2>. QED  BY <1>4, <2>2, ReturnHandled, HandlersFrame DEF CommitRecord
<1>5. CASE CommitIgnore(t)
  <2>1. PICK i \in Stored : i = thread[t].on
    BY <1>5, OnStored DEF CommitIgnore, CommitAnswer
  <2>2. /\ actions' = Mark({i}, "IGNORED") /\ alerts' = Resolved({i}, "RESOLVED")
        /\ UNCHANGED <<lastAlert, reports>>
    BY <1>5, <2>1 DEF CommitIgnore, CommitAnswer
  <2>3. ~Pending(i)
    BY <1>5, <1>x, <2>1 DEF ExitHandled, Deciders, CommitIgnore, CommitAnswer, At
  <2>4. /\ ExitTables'
        /\ \A j \in Stored : Pending(j)' => Pending(j)
        /\ \A j \in Stored : Status(j) # "NONE" => Status(j)' # "NONE"
    BY <2>2, <2>3, MarkFrame
  <2>. QED  BY <1>5, <2>4, ReturnHandled, HandlersFrame DEF CommitIgnore, CommitAnswer
<1>6. CASE CommitOverride(t)
  <2>1. PICK i \in Stored : i = thread[t].on
    BY <1>6, OnStored DEF CommitOverride, CommitAnswer
  <2>2. /\ actions' = Mark({i}, "OVERRIDDEN") /\ alerts' = Resolved({i}, "RESOLVED")
        /\ UNCHANGED <<lastAlert, reports>>
    BY <1>6, <2>1 DEF CommitOverride, CommitAnswer
  <2>3. /\ ExitTables'
        /\ \A j \in Stored : Pending(j)' => Pending(j)
        /\ \A j \in Stored : Status(j) # "NONE" => Status(j)' # "NONE"
    BY <2>2, MarkFrame
  <2>. QED  BY <1>6, <2>3, ReturnHandled, HandlersFrame DEF CommitOverride, CommitAnswer
<1>. QED
  BY <1>1, <1>2, <1>3, <1>4, <1>5, <1>6 DEF Answering

LEMMA ExitEnsure ==
    ASSUME TypeOK, TypeOK', Placed, ExitTables, ExitHandlers, NEW t \in Threads, Ensure(t)
    PROVE  ExitTables' /\ ExitHandlers'
<1>b. thread \in [Threads -> Handler] /\ thread[t].op \in Ops /\ PlacedAt(thread[t])
  BY DEF TypeOK, Handler, Placed
<1>1. PICK i \in Stored : i = thread[t].on
  <2>1. thread[t].op \notin {"none", "read", "import", "policy"}
    BY <1>b DEF Ensure, At, PlacedAt
  <2>. QED  BY <2>1, OnStored
<1>2. /\ ExitTables'
      /\ \A j \in Stored : Pending(j)' => Pending(j)
      /\ \A j \in Stored : Status(j) # "NONE" => Status(j)' # "NONE"
      /\ Status(i)' # "NONE"
  BY <1>1, EnsuredFrame DEF Ensure
<1>. SUFFICES (\A u \in Threads \ {t} : thread'[u] = thread[u]) /\ ExitHandled(t)'
  BY <1>2, HandlersFrame
<1>3. CASE thread' = [thread EXCEPT ![t] = Idle]
  <2>1. thread'[t].op = "none" /\ thread'[t].pc = "idle"
        /\ \A u \in Threads \ {t} : thread'[u] = thread[u]
    BY <1>b, <1>3 DEF Idle
  <2>. QED  BY <2>1, Unaffected
<1>4. ASSUME NEW p \in {"check", "insert"}, thread[t].op \in {"dismiss", "execute", "skip"},
             thread[t].op = "execute" <=> p = "insert", Goto(t, p)
      PROVE  (\A u \in Threads \ {t} : thread'[u] = thread[u]) /\ ExitHandled(t)'
  <2>1. /\ \A u \in Threads \ {t} : thread'[u] = thread[u]
        /\ thread'[t].op = thread[t].op /\ thread'[t].on = i /\ thread'[t].pc = p
    BY <1>b, <1>1, <1>4 DEF Goto, Handler
  <2>2. ExitHandled(t)'
    BY <1>2, <1>4, <2>1 DEF ExitHandled, Deciders
  <2>. QED  BY <2>1, <2>2
<1>5. CASE thread' = [thread EXCEPT ![t].op = "decide", ![t].pc = "lock"]
  <2>1. /\ \A u \in Threads \ {t} : thread'[u] = thread[u]
        /\ thread'[t].op = "decide" /\ thread'[t].pc = "lock"
    BY <1>b, <1>5 DEF Handler
  <2>. QED  BY <2>1, Unaffected
<1>6. CASE thread' = [thread EXCEPT ![t].op = "ignore", ![t].pc = "retire"]
  <2>1. /\ \A u \in Threads \ {t} : thread'[u] = thread[u]
        /\ thread'[t].op = "ignore" /\ thread'[t].pc = "retire"
    BY <1>b, <1>6 DEF Handler
  <2>. QED  BY <2>1, Unaffected
<1>. QED
  BY <1>3, <1>4, <1>5, <1>6, EnsureMoves

LEMMA ExitDeciding ==
    ASSUME TypeOK, TypeOK', Placed, ExitTables, ExitHandlers, NEW t \in Threads, Deciding(t)
    PROVE  ExitTables' /\ ExitHandlers'
<1>b. thread \in [Threads -> Handler] /\ thread[t].op \in Ops /\ PlacedAt(thread[t])
  BY DEF TypeOK, Handler, Placed
<1>x. ExitHandled(t)
  BY DEF ExitHandlers
<1>s. Stored \subseteq Ids
  BY LimitsAssumption DEF Stored, Ids, TypeOK
<1>g. ASSUME NEW p, Goto(t, p)
      PROVE  /\ \A u \in Threads \ {t} : thread'[u] = thread[u]
             /\ thread'[t].op = thread[t].op /\ thread'[t].on = thread[t].on
             /\ thread'[t].pc = p
  BY <1>b, <1>g DEF Goto, Handler
<1>e. \A i \in Ids : Pending(i) =>
          /\ actions[i].status \in {"NONE", "OPEN", "BLOCKED", "OVERRIDDEN"}
          /\ alerts[i].active = 0 => actions[i].status = "OVERRIDDEN"
  BY DEF ExitTables, Status
<1>n. \A i \in Ids : reports[i] >= reports[i]
  BY DEF TypeOK, Ids
<1>1. CASE Ensure(t)
  BY <1>1, ExitEnsure
<1>2. CASE Check(t)
  <2>1. UNCHANGED tables
    BY <1>2 DEF Check
  <2>2. CASE Return(t)
    BY <2>1, <2>2, QuietFrame, ReturnHandled, HandlersFrame
  <2>3. CASE ~Return(t)
    <3>1. PICK p \in {"resolve", "insert"} : Goto(t, p)
      BY <1>2, <2>3 DEF Check
    <3>2. thread[t].op \in {"skip", "dismiss"}
      BY <1>2, <1>b DEF Check, At, PlacedAt, Ops
    <3>3. PICK i \in Stored : i = thread[t].on
      BY <3>2, OnStored
    <3>4. ~(Intent(i) = "EXIT" /\ Status(i) \in Unresolved)
      BY <1>2, <2>3, <3>3 DEF Check
    <3>5. ~Pending(i)
      <4>1. Pending(i) => Status(i) # "NONE"
        BY <1>2, <1>x, <3>3 DEF ExitHandled, Deciders, Check, At
      <4>2. Pending(i) => Status(i) \in {"NONE", "OPEN", "BLOCKED", "OVERRIDDEN"}
        BY <1>s DEF ExitTables
      <4>. QED  BY <3>4, <4>1, <4>2 DEF Pending, Unresolved, Queued
    <3>6. ~Pending(i)'
      BY <2>1, <3>5, QuietFrame
    <3>7. ExitHandled(t)'
      BY <1>g, <3>1, <3>2, <3>3, <3>6, Harmless
    <3>. QED  BY <1>g, <2>1, <3>1, <3>7, QuietFrame, HandlersFrame
  <2>. QED  BY <2>2, <2>3
<1>3. CASE Decide(t)
  <2>1. Goto(t, "resolve") /\ UNCHANGED <<alerts, actions, lastAlert>>
    BY <1>3 DEF Decide
  <2>2. thread[t].op \in {"execute", "skip"}
    BY <1>3, <1>b DEF Decide, At, PlacedAt, Ops
  <2>3. PICK i \in Stored : i = thread[t].on
    BY <2>2, OnStored
  <2>4. i \in Ids /\ i \in Int
    BY <1>s DEF Stored
  <2>5. \A j \in Ids : reports'[j] >= reports[j]
    <3>1. CASE reports' = CountReport(i)
      BY <2>4, <3>1, ReportedType
    <3>2. CASE reports' = reports
      BY <1>n, <3>2
    <3>. QED  BY <1>3, <2>3, <3>1, <3>2 DEF Decide
  <2>6. /\ ExitTables'
        /\ \A j \in Stored : Pending(j)' => Pending(j)
    BY <1>e, <1>s, <2>1, <2>5, TablesFrame
  <2>7. ~Pending(i)'
    <3>1. CASE thread[t].op = "execute"
      <4>1. reports'[i] > 0
        BY <1>3, <2>3, <2>4, <3>1, ReportedType DEF Decide
      <4>. QED  BY <4>1 DEF Pending
    <3>2. CASE thread[t].op = "skip"
      BY <1>3, <1>x, <2>3, <2>6, <3>2 DEF ExitHandled, Deciders, Decide, At
    <3>. QED  BY <2>2, <3>1, <3>2
  <2>8. ExitHandled(t)'
    BY <1>g, <2>1, <2>2, <2>3, <2>7, Harmless
  <2>9. \A j \in Stored : Status(j) # "NONE" => Status(j)' # "NONE"
    BY <2>1 DEF Status
  <2>. QED  BY <1>g, <2>1, <2>6, <2>8, <2>9, HandlersFrame
<1>4. CASE Resolve(t)
  <2>1. thread[t].op \in {"execute", "skip", "dismiss"}
    BY <1>4, <1>b DEF Resolve, At, PlacedAt, Ops
  <2>2. PICK i \in Stored : i = thread[t].on
    BY <2>1, OnStored
  <2>3. ~Pending(i)
    BY <1>4, <1>x, <2>1, <2>2 DEF ExitHandled, Deciders, Resolve, At
  <2>4. UNCHANGED <<actions, lastAlert, reports>>
        /\ \E r \in {"RESOLVED", alerts[i].reason} : alerts' = Resolved({i}, r)
    BY <1>4, <2>2 DEF Resolve
  <2>5. alerts[i].reason \in {"NONE", "EXPIRED", "RESOLVED"}
    BY <1>s DEF TypeOK, Alert
  <2>6. PICK r \in {"NONE", "EXPIRED", "RESOLVED"} :
            alerts' = Resolved({i}, r) /\ (r = "RESOLVED" \/ r = alerts[i].reason)
    BY <2>4, <2>5
  <2>7. /\ \A j \in Ids : alerts'[j].sig = alerts[j].sig
        /\ \A j \in Ids : alerts'[j].reason = "EXPIRED" => alerts[j].reason = "EXPIRED"
        /\ \A j \in Ids : j # i => alerts'[j].active = alerts[j].active
    BY <2>6, ResolvedType
  <2>8. /\ ExitTables'
        /\ \A j \in Stored : Pending(j)' => Pending(j)
    BY <1>e, <1>n, <1>s, <2>3, <2>4, <2>7, TablesFrame
  <2>9. \A j \in Stored : Status(j) # "NONE" => Status(j)' # "NONE"
    BY <2>4 DEF Status
  <2>10. CASE Return(t)
    BY <2>8, <2>9, <2>10, ReturnHandled, HandlersFrame
  <2>11. CASE Goto(t, "project")
    <3>1. ~Pending(i)'
      BY <2>3, <2>8
    <3>2. ExitHandled(t)'
      BY <1>g, <2>1, <2>2, <2>11, <3>1, Harmless
    <3>. QED  BY <1>g, <2>8, <2>9, <2>11, <3>2, HandlersFrame
  <2>. QED  BY <1>4, <2>10, <2>11 DEF Resolve
<1>5. CASE CommitDecision(t)
  <2>1. PICK i \in Stored : i = thread[t].on
    BY <1>5, OnStored DEF CommitDecision
  <2>2. ~Pending(i)
    BY <1>5, <1>x, <2>1 DEF ExitHandled, Deciders, CommitDecision, At
  <2>3. UNCHANGED <<alerts, lastAlert, reports>>
    BY <1>5 DEF CommitDecision
  <2>4. /\ ExitTables'
        /\ \A j \in Stored : Pending(j)' => Pending(j)
        /\ \A j \in Stored : Status(j) # "NONE" => Status(j)' # "NONE"
    <3>1. CASE actions' = Reported(i)
      BY <2>2, <2>3, <3>1, ReportFrame
    <3>2. CASE actions' = [actions EXCEPT ![i].status = "IGNORED", ![i].base = 0,
                                          ![i].sync = syncs]
      <4>1. \A j \in Ids : actions'[j].status = IF j = i THEN "IGNORED" ELSE actions[j].status
        BY <3>2 DEF TypeOK, Action
      <4>2. ExitTables' /\ \A j \in Stored : Pending(j)' => Pending(j)
        BY <1>e, <1>n, <1>s, <2>2, <2>3, <4>1, TablesFrame
      <4>3. \A j \in Stored : Status(j) # "NONE" => Status(j)' # "NONE"
        BY <1>s, <4>1 DEF Status
      <4>. QED  BY <4>2, <4>3
    <3>. QED  BY <1>5, <2>1, <3>1, <3>2 DEF CommitDecision
  <2>. QED  BY <1>5, <2>4, ReturnHandled, HandlersFrame DEF CommitDecision
<1>. QED
  BY <1>1, <1>2, <1>3, <1>4, <1>5 DEF Deciding

LEMMA ExitReconciling ==
    ASSUME TypeOK, TypeOK', Placed, ExitTables, ExitHandlers, NEW t \in Threads, Reconciling(t)
    PROVE  ExitTables' /\ ExitHandlers'
<1>b. thread \in [Threads -> Handler] /\ thread[t].op \in Ops /\ PlacedAt(thread[t])
  BY DEF TypeOK, Handler, Placed
<1>x. ExitHandled(t)
  BY DEF ExitHandlers
<1>s. Stored \subseteq Ids /\ Rows \subseteq Stored
  BY LimitsAssumption DEF Stored, Ids, Rows, TypeOK
<1>e. \A i \in Ids : Pending(i) =>
          /\ actions[i].status \in {"NONE", "OPEN", "BLOCKED", "OVERRIDDEN"}
          /\ alerts[i].active = 0 => actions[i].status = "OVERRIDDEN"
  BY DEF ExitTables, Status
<1>o. thread[t].op = "import" /\ thread[t].on \in 0..MaxAlerts
  BY <1>b DEF Reconciling, ListCandidates, Judge, JudgeEnds, At, PlacedAt, Ops, TypeOK, Handler
<1>1. CASE ListCandidates(t)
  <2>. DEFINE S == {i \in Rows : Candidate(i, thread[t].date, thread[t].sync)}
  <2>1. UNCHANGED tables /\ thread' = [thread EXCEPT ![t].todo = S, ![t].pc = "judge"]
    BY <1>1 DEF ListCandidates
  <2>2. S \subseteq Stored /\ \A i \in S : ~Pending(i)
    BY <1>s, <1>e DEF Candidate, Status
  <2>. HIDE DEF S
  <2>3. /\ \A u \in Threads \ {t} : thread'[u] = thread[u]
        /\ thread'[t].op = "import" /\ thread'[t].pc = "judge" /\ thread'[t].todo = S
    BY <1>b, <1>o, <2>1 DEF Handler
  <2>4. \A i \in S : ~Pending(i)'
    BY <2>1, <2>2, QuietFrame
  <2>5. ExitHandled(t)'
    BY <2>3, <2>4 DEF ExitHandled, Deciders
  <2>. QED  BY <2>1, <2>3, <2>5, QuietFrame, HandlersFrame
<1>2. CASE Judge(t)
  <2>1. PICK i \in thread[t].todo :
          /\ \/ \E verdict \in {"CONFIRMED", "VARIANCE"} :
                   actions' = [actions EXCEPT ![i].status = verdict,
                                              ![i].stmt = thread[t].date]
             \/ UNCHANGED actions
          /\ thread' = [thread EXCEPT ![t].todo = @ \ {i}]
    BY <1>2 DEF Judge
  <2>2. UNCHANGED <<alerts, lastAlert, reports>>
    BY <1>2 DEF Judge
  <2>3. i \in Stored /\ ~Pending(i) /\ thread[t].todo \subseteq Stored
    BY <1>o, <1>x DEF TypeOK, ExitHandled
  <2>4. /\ \A j \in Ids : j # i => actions'[j].status = actions[j].status
        /\ actions'[i].status \in {"CONFIRMED", "VARIANCE", actions[i].status}
    <3>1. CASE UNCHANGED actions
      BY <3>1
    <3>2. ASSUME NEW v \in {"CONFIRMED", "VARIANCE"},
                 actions' = [actions EXCEPT ![i].status = v, ![i].stmt = thread[t].date]
          PROVE  /\ \A j \in Ids : j # i => actions'[j].status = actions[j].status
                 /\ actions'[i].status \in {"CONFIRMED", "VARIANCE", actions[i].status}
      BY <1>s, <2>3, <3>2 DEF TypeOK, Action
    <3>. QED  BY <2>1, <3>1, <3>2
  <2>5. \A j \in Ids : reports'[j] >= reports[j]
    BY <2>2 DEF TypeOK, Ids
  <2>6. ExitTables' /\ \A j \in Stored : Pending(j)' => Pending(j)
    BY <1>e, <1>s, <2>2, <2>3, <2>4, <2>5, TablesFrame
  <2>7. \A j \in Stored : Status(j) # "NONE" => Status(j)' # "NONE"
    BY <1>s, <2>4 DEF Status
  <2>8. /\ \A u \in Threads \ {t} : thread'[u] = thread[u]
        /\ thread'[t].op = "import" /\ thread'[t].pc = "judge"
        /\ thread'[t].todo \subseteq thread[t].todo
    BY <1>2, <1>b, <1>o, <2>1, TodoType DEF Judge, At
  <2>9. \A j \in thread[t].todo : ~Pending(j)'
    BY <1>o, <1>x, <2>3, <2>6 DEF ExitHandled, Deciders
  <2>10. ExitHandled(t)'
    BY <2>8, <2>9 DEF ExitHandled, Deciders
  <2>. QED  BY <2>6, <2>7, <2>8, <2>10, HandlersFrame
<1>3. CASE JudgeEnds(t)
  BY <1>3, QuietFrame, ReturnHandled, HandlersFrame DEF JudgeEnds
<1>. QED
  BY <1>1, <1>2, <1>3 DEF Reconciling

\* A request that begins is at its first step.
LEMMA StartHandled ==
    ASSUME TypeOK, NEW t \in Threads, NEW h \in Handler, thread' = [thread EXCEPT ![t] = h],
           h.pc \in {"ensure", "expire", "lock", "retire", "candidates"},
           h.op = "import" => h.todo = {}
    PROVE  /\ \A u \in Threads \ {t} : thread'[u] = thread[u]
           /\ ExitHandled(t)'
<1>1. \A u \in Threads : thread'[u] = IF u = t THEN h ELSE thread[u]
  BY StartType
<1>. QED
  BY <1>1 DEF ExitHandled, Deciders

LEMMA ExitClients ==
    ASSUME TypeOK, TypeOK', Placed, ExitTables, ExitHandlers, NEW t \in Threads, Clients(t)
    PROVE  ExitTables' /\ ExitHandlers'
<1>1. ASSUME NEW op \in DOMAIN FirstStep, NEW i, Request(t, op, i)
      PROVE  ExitTables' /\ ExitHandlers'
  <2>1. PICK h \in Handler : /\ thread' = [thread EXCEPT ![t] = h]
                             /\ h.op = op /\ h.pc = FirstStep[op]
    BY <1>1, RequestMoves
  <2>2. h.pc \in {"ensure", "expire", "lock", "retire", "candidates"} /\ h.op # "import"
    BY <2>1, FirstSteps
  <2>. QED  BY <1>1, <2>1, <2>2, QuietFrame, StartHandled, HandlersFrame DEF Request
<1>2. ASSUME NEW s \in Signals, CreateAlert(t, s)
      PROVE  ExitTables' /\ ExitHandlers'
  <2>1. /\ lastAlert < MaxAlerts
        /\ lastAlert' = lastAlert + 1
        /\ alerts' = [alerts EXCEPT ![lastAlert + 1] = NewAlert(s)]
        /\ UNCHANGED <<actions, reports>>
    BY <1>2 DEF CreateAlert
  <2>2. lastAlert + 1 \in Ids \ Stored
    BY <2>1, LimitsAssumption DEF Ids, Stored, TypeOK
  <2>3. actions'[lastAlert + 1].status \in {"NONE", "OPEN"}
    BY <2>1, <2>2 DEF ExitTables, Status
  <2>4. /\ ExitTables'
        /\ \A i \in Stored : Pending(i)' => Pending(i)
        /\ \A i \in Stored : Status(i) # "NONE" => Status(i)' # "NONE"
    BY <2>1, <2>3, StoreFrame
  <2>5. PICK h \in Handler : /\ thread' = [thread EXCEPT ![t] = h]
                             /\ PlacedAt(h) /\ h.op = "create"
    BY <1>2, CreateMoves
  <2>6. h.pc = "ensure"
    BY <2>5 DEF PlacedAt
  <2>. QED  BY <2>4, <2>5, <2>6, StartHandled, HandlersFrame
<1>3. CASE Import(t)
  <2>1. PICK h \in Handler : /\ thread' = [thread EXCEPT ![t] = h]
                             /\ h.todo = {} /\ h.pc = "candidates"
    BY <1>3, ImportMoves
  <2>. QED  BY <1>3, <2>1, QuietFrame, StartHandled, HandlersFrame DEF Import
<1>4. CASE PolicyWorker(t)
  <2>1. /\ ExitTables'
        /\ \A i \in Stored : Pending(i)' => Pending(i)
        /\ \A i \in Stored : Status(i) # "NONE" => Status(i)' # "NONE"
    BY <1>4, PolicyStarts, PolicyFrame
  <2>2. PICK h \in Handler : /\ thread' = [thread EXCEPT ![t] = h]
                             /\ h.op = "policy" /\ h.pc = "project"
    BY <1>4, PolicyMoves
  <2>3. \A u \in Threads : thread'[u] = IF u = t THEN h ELSE thread[u]
    BY <2>2, StartType
  <2>4. ExitHandled(t)'
    BY <2>2, <2>3, Unaffected
  <2>. QED  BY <2>1, <2>3, <2>4, HandlersFrame
<1>. QED
  BY <1>1, <1>2, <1>3, <1>4, ReadIsFirst DEF Clients

\* What is enough for the handlers when none of them moves.
LEMMA StillFrame ==
    ASSUME TypeOK, ExitHandlers, UNCHANGED thread,
           \A i \in Stored : Pending(i)' => Pending(i),
           \A i \in Stored : Status(i) # "NONE" => Status(i)' # "NONE"
    PROVE  ExitHandlers'
<1>1. ASSUME NEW t \in Threads
      PROVE  ExitHandled(t)'
  <2>1. ExitHandled(t)
    BY DEF ExitHandlers
  <2>2. PICK i : i = thread[t].on
    OBVIOUS
  <2>3. thread[t].todo \subseteq Stored
    BY DEF TypeOK
  <2>4. Pending(i)' => Pending(i) /\ i \in Stored
    <3>1. i \in 0..MaxAlerts /\ i <= lastAlert
      BY <2>2 DEF TypeOK, Handler
    <3>2. i # 0 => i \in Stored
      BY <3>1, LimitsAssumption DEF Stored, TypeOK
    <3>3. 0 \notin Stored'
      BY DEF Stored
    <3>. QED  BY <3>2, <3>3 DEF Pending
  <2>. QED  BY <2>1, <2>2, <2>3, <2>4 DEF ExitHandled, Deciders
<1>. QED
  BY <1>1 DEF ExitHandlers

LEMMA ExitEnvironment ==
    ASSUME TypeOK, TypeOK', Placed, ExitTables, ExitHandlers, Environment
    PROVE  ExitTables' /\ ExitHandlers'
<1>. USE StatusesHold
<1>b. thread \in [Threads -> Handler]
  BY DEF TypeOK
<1>s. Stored \subseteq Ids /\ Rows \subseteq Stored
  BY LimitsAssumption DEF Stored, Ids, Rows, TypeOK
<1>1. ASSUME NEW i \in Ids, FallDue(i)
      PROVE  ExitTables' /\ ExitHandlers'
  <2>1. alerts' = [alerts EXCEPT ![i].due = 1]
        /\ UNCHANGED <<actions, lastAlert, reports, thread>>
    BY <1>1 DEF FallDue
  <2>2. \A j \in Ids : /\ alerts'[j].sig = alerts[j].sig
                       /\ alerts'[j].reason = alerts[j].reason
                       /\ alerts'[j].active = alerts[j].active
    BY <2>1 DEF TypeOK, Alert
  <2>3. \A j \in Ids : reports'[j] >= reports[j]
    BY <2>1 DEF TypeOK, Ids
  <2>4. ExitTables' /\ \A j \in Stored : Pending(j)' => Pending(j)
    BY <1>s, <2>1, <2>2, <2>3, TablesFrame DEF ExitTables, Status
  <2>5. \A j \in Stored : Status(j) # "NONE" => Status(j)' # "NONE"
    BY <2>1 DEF Status
  <2>. QED  BY <2>1, <2>4, <2>5, StillFrame
<1>2. ASSUME NEW k \in Etfs, ChangeMode(k)
      PROVE  ExitTables' /\ ExitHandlers'
  <2>1. PICK S, R : /\ S \subseteq {i \in Stored : Ticker(i) = k}
                    /\ R \subseteq {i \in Stored : Ticker(i) = k}
                    /\ actions' = Mark(S, "NOT_APPLICABLE")
                    /\ alerts' = Resolved(R, "RESOLVED")
                    /\ UNCHANGED <<lastAlert, reports, thread>>
    <3>. DEFINE mine == {i \in Stored : Ticker(i) = k /\ ~Weight(i)}
                S == {i \in mine : Status(i) \in Queued \cup {"OVERRIDDEN"}}
                R == {i \in mine : alerts[i].active = 1 /\ actions[i].reported = 0}
    <3>1. S \subseteq {i \in Stored : Ticker(i) = k} /\ R \subseteq {i \in Stored : Ticker(i) = k}
      OBVIOUS
    <3>2. /\ actions' = Mark(S, "NOT_APPLICABLE") /\ alerts' = Resolved(R, "RESOLVED")
          /\ UNCHANGED <<lastAlert, reports, thread>>
      BY <1>2 DEF ChangeMode
    <3>. QED  BY <3>1, <3>2
  <2>2. \A i \in S \cup R : i \in Stored /\ ~Pending(i)
    BY <2>1 DEF Pending
  <2>3. /\ ExitTables'
        /\ \A j \in Stored : Pending(j)' => Pending(j)
        /\ \A j \in Stored : Status(j) # "NONE" => Status(j)' # "NONE"
    BY <2>1, <2>2, MarkFrame
  <2>. QED  BY <2>1, <2>3, StillFrame
<1>4. ASSUME NEW t \in Threads, Fail(t)
      PROVE  ExitTables' /\ ExitHandlers'
  BY <1>4, QuietFrame, ReturnHandled, HandlersFrame DEF Fail
<1>5. ASSUME NEW t \in Threads, ResolveFails(t)
      PROVE  ExitTables' /\ ExitHandlers'
  <2>1. UNCHANGED tables /\ thread' = [thread EXCEPT ![t].pc = "project"]
    BY <1>5 DEF ResolveFails, Goto
  <2>2. /\ \A u \in Threads \ {t} : thread'[u] = thread[u]
        /\ thread'[t].op = thread[t].op /\ thread'[t].on = thread[t].on
    BY <1>b, <2>1 DEF Handler
  <2>3. thread[t].op \in Ops /\ PlacedAt(thread[t]) /\ ExitHandled(t)
    BY DEF TypeOK, Handler, Placed, ExitHandlers
  <2>4. thread[t].op \in {"execute", "skip"}
    BY <1>5, <2>3 DEF ResolveFails, At, PlacedAt, Ops
  <2>5. PICK i \in Stored : i = thread[t].on
    BY <2>4, OnStored
  <2>6. ~Pending(i)
    BY <1>5, <2>3, <2>4, <2>5 DEF ExitHandled, Deciders, ResolveFails, At
  <2>7. ~Pending(i)'
    BY <2>1, <2>6, QuietFrame
  <2>8. ExitHandled(t)'
    BY <2>2, <2>4, <2>5, <2>7, Harmless
  <2>. QED  BY <2>1, <2>2, <2>8, QuietFrame, HandlersFrame
<1>6. CASE Crash
  <2>1. UNCHANGED tables /\ \A t \in Threads : thread'[t] = Idle
    BY <1>6 DEF Crash
  <2>2. \A t \in Threads : ExitHandled(t)'
    BY <2>1, Unaffected DEF Idle
  <2>. QED  BY <2>1, <2>2, QuietFrame DEF ExitHandlers
<1>. QED
  BY <1>1, <1>2, <1>4, <1>5, <1>6 DEF Environment

\* The invariant.
ExitInv == TypeOK /\ Placed /\ ExitTables /\ ExitHandlers

LEMMA ExitInit == Init => ExitInv
<1>. SUFFICES ASSUME Init
              PROVE  ExitInv
  OBVIOUS
<1>1. Stored = {}
  BY DEF Init, Stored
<1>2. ExitTables
  BY <1>1 DEF Init, ExitTables, Pending, Status, NoAction, NoAlert
<1>3. ExitHandlers
  BY DEF Init, ExitHandlers, ExitHandled, Idle
<1>. QED
  BY <1>2, <1>3, TypeInit, PlacedInit DEF ExitInv

LEMMA ExitStep == ExitInv /\ [Next]_vars => ExitInv'
<1>. SUFFICES ASSUME ExitInv, [Next]_vars
              PROVE  ExitInv'
  OBVIOUS
<1>1. TypeOK /\ Placed /\ ExitTables /\ ExitHandlers
  BY DEF ExitInv
<1>2. TypeOK' /\ Placed'
  BY <1>1, TypeStep, PlacedStep, TypeStutter
<1>3. CASE Next
  <2>1. ExitTables' /\ ExitHandlers'
    BY <1>1, <1>2, <1>3, ExitRefresh, ExitReading, ExitAnswering, ExitDeciding,
       ExitReconciling, ExitClients, ExitEnvironment DEF Next, Step
  <2>. QED  BY <1>2, <2>1 DEF ExitInv
<1>4. CASE UNCHANGED vars
  <2>1. UNCHANGED tables /\ UNCHANGED thread
    BY <1>4 DEF vars
  <2>2. ExitTables' /\ ExitHandlers'
    BY <1>1, <2>1, QuietFrame, StillFrame
  <2>. QED  BY <1>2, <2>2 DEF ExitInv
<1>. QED
  BY <1>3, <1>4

\* An Exit never disappears by itself (DOCS/system/SIGNAL_AND_ACTION_CONTRACT.md,
\* the Exit gate): whatever requests, polls, imports, worker runs, failures and
\* restarts interleave, it is closed without a statement only after the
\* operator stored an execution decision on it.
THEOREM ExitProtected == Spec => []ExitNeverSilent
<1>1. ExitInv => ExitNeverSilent
  <2>. SUFFICES ASSUME ExitInv, NEW i \in Stored, Intent(i) = "EXIT", Ticker(i) \notin Etfs,
                       Status(i) \in {"IGNORED", "EXPIRED", "NOT_APPLICABLE"}
                PROVE  reports[i] > 0
    BY DEF ExitNeverSilent
  <2>1. i \in Ids
    BY LimitsAssumption DEF ExitInv, TypeOK, Stored, Ids
  <2>2. ~Pending(i)
    BY <2>1 DEF ExitInv, ExitTables
  <2>3. reports[i] \in 0..2 /\ reports[i] # 0
    BY <2>1, <2>2 DEF ExitInv, TypeOK, Pending
  <2>. QED  BY <2>3
<1>. QED
  BY <1>1, ExitInit, ExitStep, PTL DEF Spec

-----------------------------------------------------------------------------
(* What left the queue stays out                                           *)

\* Nothing takes a row back into the queue, and a row stays a row.
LEMMA MarkNeverRequeues ==
    ASSUME TypeOK, NEW S, NEW s \in Statuses \ {"NONE"}, actions' = Mark(S, s),
           s \in {"OPEN", "BLOCKED"} => \A i \in S : Status(i) \in Queued,
           NEW i \in Ids, Status(i) \notin Queued \cup {"NONE"}
    PROVE  Status(i)' \notin Queued \cup {"NONE"}
<1>1. actions'[i].status = IF i \in S THEN s ELSE Status(i)
  BY MarkType
<1>. QED
  BY <1>1 DEF Status, Queued

LEMMA StepNeverRequeues ==
    ASSUME TypeOK, Placed, ExitTables, Next, NEW i \in Ids, Status(i) \notin Queued \cup {"NONE"}
    PROVE  Status(i)' \notin Queued \cup {"NONE"}
<1>. USE StatusesHold
<1>q. "OPEN" \in Queued /\ "BLOCKED" \in Queued
      /\ \A s \in Queued : s = "OPEN" \/ s = "BLOCKED"
  BY DEF Queued
<1>1. CASE UNCHANGED actions
  BY <1>1 DEF Status
<1>2. ASSUME NEW t \in Threads, Refresh(t)
      PROVE  Status(i)' \notin Queued \cup {"NONE"}
  <2>1. CASE Retire(t)
    BY <2>1, MarkNeverRequeues DEF Retire
  <2>2. CASE Unblock(t)
    BY <1>q, <2>2, MarkNeverRequeues DEF Unblock
  <2>3. CASE Block(t)
    <3>1. PICK j : actions' = Mark({j} \cap {k \in Ids : Status(k) = "OPEN"}, "BLOCKED")
      BY <2>3 DEF Block
    <3>. QED  BY <1>q, <3>1, MarkNeverRequeues
  <2>. QED  BY <1>1, <1>2, <2>1, <2>2, <2>3 DEF Refresh, Rank, BlockEnds, tables
<1>3. ASSUME NEW k, actions' = Ensured(k)
      PROVE  Status(i)' \notin Queued \cup {"NONE"}
  <2>1. actions'[i].status = Status(i)
    BY <1>3, EnsuredType
  <2>. QED  BY <2>1 DEF Status
<1>4. ASSUME NEW t \in Threads, Reading(t)
      PROVE  Status(i)' \notin Queued \cup {"NONE"}
  <2>1. CASE ExpireActions(t)
    BY <2>1, MarkNeverRequeues DEF ExpireActions
  <2>2. CASE Backfill(t)
    BY <1>3, <2>2 DEF Backfill
  <2>. QED  BY <1>1, <1>4, <2>1, <2>2 DEF Reading, ExpireAlerts, ListAlerts, BackfillEnds, tables
<1>5. CASE PolicySync
  <2>1. ASSUME NEW K \in SUBSET Tickers, Withdraw(K)
        PROVE  Status(i)' \notin Queued \cup {"NONE"}
    BY <2>1, MarkNeverRequeues DEF Withdraw
  <2>2. ASSUME NEW s \in Signals, Propose(s)
        PROVE  Status(i)' \notin Queued \cup {"NONE"}
    <3>1. lastAlert + 1 \notin Stored
      BY LimitsAssumption DEF Stored, TypeOK
    <3>2. i # lastAlert + 1
      BY <3>1 DEF ExitTables
    <3>3. actions'[i] = actions[i]
      BY <2>2, <3>2 DEF Propose, TypeOK
    <3>. QED  BY <3>3 DEF Status
  <2>. QED  BY <1>1, <1>5, <2>1, <2>2 DEF PolicySync, tables
<1>6. ASSUME NEW k \in Int, actions' = Reported(k)
      PROVE  Status(i)' \notin Queued \cup {"NONE"}
  <2>1. CASE i = k
    <3>1. actions'[i].status \in {"CONFIRMED", "AWAITING_STATEMENT"}
      BY <1>6, <2>1 DEF Reported, TypeOK, Action
    <3>. QED  BY <3>1 DEF Status, Queued
  <2>2. CASE i # k
    BY <1>6, <2>2, ReportedType DEF Status
  <2>. QED  BY <2>1, <2>2
<1>i. \A t \in Threads : thread[t].on \in Int
  BY LimitsAssumption DEF TypeOK, Handler
<1>7. ASSUME NEW t \in Threads, Answering(t)
      PROVE  Status(i)' \notin Queued \cup {"NONE"}
  <2>1. CASE CommitRecord(t)
    BY <1>1, <1>6, <1>i, <2>1 DEF CommitRecord, tables
  <2>2. CASE CommitIgnore(t)
    BY <2>2, MarkNeverRequeues DEF CommitIgnore, CommitAnswer
  <2>3. CASE CommitOverride(t)
    BY <2>3, MarkNeverRequeues DEF CommitOverride, CommitAnswer
  <2>4. Project(t) => PolicySync
    BY DEF Project, PolicySync
  <2>. QED  BY <1>1, <1>5, <1>7, <2>1, <2>2, <2>3, <2>4 DEF Answering, Lock, Load, tables
<1>8. ASSUME NEW t \in Threads, Deciding(t)
      PROVE  Status(i)' \notin Queued \cup {"NONE"}
  <2>1. CASE Ensure(t)
    BY <1>3, <2>1 DEF Ensure
  <2>2. CASE CommitDecision(t)
    <3>1. CASE actions' = [actions EXCEPT ![thread[t].on].status = "IGNORED",
                                          ![thread[t].on].base = 0, ![thread[t].on].sync = syncs]
      <4>1. actions'[i].status \in {"IGNORED", Status(i)}
        BY <3>1 DEF Status, TypeOK, Action
      <4>. QED  BY <4>1 DEF Status, Queued
    <3>. QED  BY <1>6, <1>i, <2>2, <3>1 DEF CommitDecision
  <2>. QED  BY <1>1, <1>8, <2>1, <2>2 DEF Deciding, Check, Decide, Resolve, tables
<1>9. ASSUME NEW t \in Threads, Reconciling(t)
      PROVE  Status(i)' \notin Queued \cup {"NONE"}
  <2>1. CASE Judge(t)
    <3>1. PICK k : \/ \E verdict \in {"CONFIRMED", "VARIANCE"} :
                        actions' = [actions EXCEPT ![k].status = verdict,
                                                   ![k].stmt = thread[t].date]
                   \/ UNCHANGED actions
      BY <2>1 DEF Judge
    <3>2. actions'[i].status \in {"CONFIRMED", "VARIANCE", Status(i)}
      BY <3>1 DEF Status, TypeOK, Action
    <3>. QED  BY <3>2 DEF Status, Queued
  <2>. QED  BY <1>1, <1>9, <2>1 DEF Reconciling, ListCandidates, JudgeEnds, tables
<1>10. ASSUME NEW t \in Threads, Clients(t)
       PROVE  Status(i)' \notin Queued \cup {"NONE"}
  BY <1>1, <1>5, <1>10, PolicyStarts DEF Clients, Request, CreateAlert, Import, tables
<1>11. CASE Environment
  <2>1. ASSUME NEW k \in Etfs, ChangeMode(k)
        PROVE  Status(i)' \notin Queued \cup {"NONE"}
    BY <2>1, MarkNeverRequeues DEF ChangeMode
  <2>. QED
    BY <1>1, <1>11, <2>1 DEF Environment, FallDue, Fail, ResolveFails,
       Crash, tables
<1>. QED
  BY <1>2, <1>4, <1>7, <1>8, <1>9, <1>10, <1>11 DEF Next, Step

\* An action that was answered or settled is never put back into the queue, by
\* no prioritisation, poll or worker run that read it before
\* (prioritiseSecurityActions, security_actions.go).
THEOREM AnsweredStaysAnswered == Spec => NeverRequeued
<1>1. ExitInv /\ [Next]_vars =>
         [\A i \in Ids : Status(i) \notin Queued \cup {"NONE"} => Status(i)' \notin Queued]_vars
  BY StepNeverRequeues DEF ExitInv
<1>. QED
  BY <1>1, ExitInit, ExitStep, PTL DEF Spec, NeverRequeued
=============================================================================
