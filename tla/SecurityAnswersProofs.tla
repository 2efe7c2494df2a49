------------------------- MODULE SecurityAnswersProofs -------------------------
(* Theorems about what the operator reports and what a statement answers:    *)
(* a purchase is reported once, a verdict rests on a later statement, a      *)
(* weight reduction waits for other trades.                                  *)
EXTENDS SecurityActionsProofs

-----------------------------------------------------------------------------
(* What a write does to one row                                            *)

LEMMA MarkRow ==
    ASSUME TypeOK, NEW S, NEW s \in Statuses, NEW i \in Ids
    PROVE  /\ Mark(S, s)[i].status = IF i \in S THEN s ELSE Status(i)
           /\ Mark(S, s)[i].base = actions[i].base
           /\ Mark(S, s)[i].stmt = actions[i].stmt
           /\ Mark(S, s)[i].reported = actions[i].reported
BY DEF TypeOK, Mark, Action, Status

LEMMA EnsuredRow ==
    ASSUME TypeOK, NEW k, NEW i \in Ids
    PROVE  /\ Ensured(k)[i].status = IF i = k /\ Status(i) = "NONE" THEN "OPEN" ELSE Status(i)
           /\ Ensured(k)[i].base = actions[i].base
           /\ Ensured(k)[i].stmt = actions[i].stmt
           /\ Ensured(k)[i].reported = actions[i].reported
<1>1. Cardinality(Rows) + 1 \in Nat
  BY RowsCount
<1>2. actions \in [Ids -> Action]
  BY DEF TypeOK
<1>3. CASE Status(k) = "NONE"
  <2>. DEFINE A1 == [actions EXCEPT ![k].status = "OPEN"]
  <2>1. /\ A1 \in [Ids -> Action]
        /\ A1[i].status = IF i = k THEN "OPEN" ELSE Status(i)
        /\ A1[i].base = actions[i].base /\ A1[i].stmt = actions[i].stmt
        /\ A1[i].reported = actions[i].reported
    BY <1>2, StatusesHold DEF Action, Status
  <2>2. Ensured(k) = [A1 EXCEPT ![k].no = Cardinality(Rows) + 1]
    BY <1>3 DEF Ensured
  <2>. HIDE DEF A1
  <2>3. /\ Ensured(k)[i].status = A1[i].status
        /\ Ensured(k)[i].base = A1[i].base
        /\ Ensured(k)[i].stmt = A1[i].stmt
        /\ Ensured(k)[i].reported = A1[i].reported
    BY <1>1, <2>1, <2>2 DEF Action
  <2>. QED  BY <1>3, <2>1, <2>3
<1>4. CASE Status(k) # "NONE"
  BY <1>4 DEF Ensured, Status
<1>. QED
  BY <1>3, <1>4

LEMMA ReportedRow ==
    ASSUME TypeOK, NEW k \in Ids, NEW i \in Ids
    PROVE  /\ i # k => Reported(k)[i] = actions[i]
           /\ Reported(k)[k].status = IF alerts[k].sig.external THEN "CONFIRMED"
                                      ELSE "AWAITING_STATEMENT"
           /\ Reported(k)[k].base \in {0, latest}
           /\ Reported(k)[k].stmt = actions[k].stmt
           /\ Reported(k)[k].reported = 1
<1>. DEFINE st == IF alerts[k].sig.external THEN "CONFIRMED" ELSE "AWAITING_STATEMENT"
            bs == IF alerts[k].sig.external THEN 0 ELSE latest
            A1 == [actions EXCEPT ![k].status = st]
            A2 == [A1 EXCEPT ![k].base = bs]
            A3 == [A2 EXCEPT ![k].sync = syncs]
<1>0. /\ latest \in 0..MaxImports /\ syncs \in 0..MaxImports /\ 0 \in 0..MaxImports
      /\ st \in Statuses /\ bs \in 0..MaxImports /\ bs \in {0, latest}
  BY LimitsAssumption, StatusesHold DEF TypeOK
<1>. HIDE DEF st, bs
<1>1. /\ A1 \in [Ids -> Action]
      /\ i # k => A1[i] = actions[i]
      /\ A1[k].status = st /\ A1[k].stmt = actions[k].stmt
  BY <1>0 DEF TypeOK, Action
<1>. HIDE DEF A1
<1>2. /\ A2 \in [Ids -> Action]
      /\ i # k => A2[i] = A1[i]
      /\ A2[k].status = A1[k].status /\ A2[k].base = bs /\ A2[k].stmt = A1[k].stmt
  BY <1>0, <1>1 DEF Action
<1>. HIDE DEF A2
<1>3. /\ A3 \in [Ids -> Action]
      /\ i # k => A3[i] = A2[i]
      /\ A3[k].status = A2[k].status /\ A3[k].base = A2[k].base /\ A3[k].stmt = A2[k].stmt
  BY <1>0, <1>2 DEF Action
<1>. HIDE DEF A3
<1>4. Reported(k) = [A3 EXCEPT ![k].reported = 1]
  BY DEF Reported, A1, A2, A3, st, bs
<1>5. /\ i # k => Reported(k)[i] = A3[i]
      /\ Reported(k)[k].status = A3[k].status
      /\ Reported(k)[k].base = A3[k].base /\ Reported(k)[k].stmt = A3[k].stmt
      /\ Reported(k)[k].reported = 1
  BY <1>3, <1>4 DEF Action
<1>. QED
  BY <1>0, <1>1, <1>2, <1>3, <1>5 DEF st

-----------------------------------------------------------------------------
(* What a step does to one handler                                         *)

Same(u) == /\ thread'[u].op = thread[u].op
           /\ thread'[u].on = thread[u].on
           /\ thread'[u].date = thread[u].date
           /\ thread'[u].saw = thread[u].saw
\* A decision by alert is stored and counted.
Counted(u) ==
    /\ reports' = CountReport(thread[u].on)
    /\ \A v \in Threads \ {u} : thread'[v] = thread[v]
\* It goes on to a step of no interest here, or as another kind of request.
Moved(u) ==
    /\ thread[u].pc # "lock"
    /\ thread'[u].pc \notin {"lock", "insert", "commit", "candidates", "judge"}
    /\ Same(u)
    /\ thread[u].op = "execute" => thread[u].pc # "ensure"
    /\ thread[u].op = "execute" /\ thread[u].pc = "insert" => Counted(u)
Turned(u) ==
    \/ /\ thread[u].op = "execute"
       /\ thread'[u].op = "decide" /\ thread'[u].pc = "lock"
    \/ /\ thread'[u].op = "ignore" /\ thread'[u].pc = "retire"
Locked(u) ==
    /\ thread[u].pc = "lock" /\ mu = Nobody /\ mu' = u
    /\ thread'[u].pc = "retire" /\ Same(u)
Loaded(u) ==
    /\ thread[u].pc = "load" /\ thread'[u].pc = "commit"
    /\ Admits(u) /\ thread'[u].saw = Status(thread[u].on)
    /\ thread'[u].op = thread[u].op /\ thread'[u].on = thread[u].on
    /\ UNCHANGED tables
Inserting(u) ==
    /\ thread[u].pc \in {"ensure", "check"} /\ thread'[u].pc = "insert" /\ Same(u)
    /\ thread[u].op = "execute" => /\ Intent(thread[u].on) # "DEPLOY"
                                   /\ ~Weight(thread[u].on)
\* It begins.
Begun(u) ==
    \/ /\ thread'[u].op \in Requests
       /\ \/ thread'[u].op \in {"record", "except"} /\ thread'[u].pc = "lock"
          \/ /\ thread'[u].op \in {"read", "ignore", "override", "execute", "skip", "dismiss"}
             /\ thread'[u].pc \in {"expire", "retire", "ensure"}
    \/ thread'[u].op = "create" /\ thread'[u].pc = "ensure"
    \/ thread'[u].op = "policy" /\ thread'[u].pc = "project"
    \/ /\ thread'[u].op = "import" /\ thread'[u].pc = "candidates"
       /\ thread'[u].date = latest'
\* The statement's handler lists and judges.
Listed(u) ==
    /\ thread[u].pc = "candidates" /\ thread'[u].pc = "judge" /\ Same(u)
    /\ thread'[u].todo = {i \in Rows : Candidate(i, thread[u].date, thread[u].sync)}
    /\ UNCHANGED tables
Shorter(u) ==
    /\ thread[u].pc \in {"block", "backfill", "judge"}
    /\ thread'[u].pc = thread[u].pc /\ Same(u)
    /\ thread'[u].todo \subseteq thread[u].todo

History(u) ==
    \/ thread'[u] = thread[u] \/ thread'[u] = Idle
    \/ Moved(u) \/ Turned(u) \/ Locked(u) \/ Loaded(u) \/ Inserting(u) \/ Begun(u)
    \/ Listed(u) \/ Shorter(u)

\* A step writes one handler, or stops them all.
LEMMA OneHandler ==
    ASSUME TypeOK, NEW t \in Threads, NEW u \in Threads \ {t},
           Step(t) \/ Clients(t) \/ Fail(t) \/ ResolveFails(t)
    PROVE  thread'[u] = thread[u]
<1>. USE DEF TypeOK, Goto, Return
<1>0. Projected(t) => thread'[u] = thread[u]
  BY DEF Projected
<1>1. CASE Refresh(t)
  BY <1>0, <1>1 DEF Refresh, Retire, Unblock, Rank, Block, BlockEnds
<1>2. CASE Reading(t)
  BY <1>2 DEF Reading, ExpireAlerts, ExpireActions, ListAlerts, Backfill, BackfillEnds
<1>3. CASE Answering(t)
  BY <1>0, <1>3 DEF Answering, Lock, Project, Load, CommitRecord, CommitIgnore, CommitOverride,
              CommitAnswer
<1>4. CASE Deciding(t)
  BY <1>4 DEF Deciding, Ensure, Check, Decide, Resolve, CommitDecision
<1>5. CASE Reconciling(t)
  BY <1>5 DEF Reconciling, ListCandidates, Judge, JudgeEnds
<1>6. CASE Clients(t)
  BY <1>6 DEF Clients, CreateAlert, Request, Import, PolicyWorker
<1>7. CASE Fail(t) \/ ResolveFails(t)
  BY <1>7 DEF Fail, ResolveFails
<1>. QED
  BY <1>1, <1>2, <1>3, <1>4, <1>5, <1>6, <1>7 DEF Step

\* Goto and a shorter list, with every field.
LEMMA GotoSame ==
    ASSUME TypeOK, NEW t \in Threads, NEW p, Goto(t, p)
    PROVE  Same(t) /\ thread'[t].pc = p
BY DEF TypeOK, Goto, Handler, Same

LEMMA TodoSame ==
    ASSUME TypeOK, NEW t \in Threads, NEW i, thread' = [thread EXCEPT ![t].todo = @ \ {i}]
    PROVE  Same(t) /\ thread'[t].pc = thread[t].pc /\ thread'[t].todo \subseteq thread[t].todo
BY DEF TypeOK, Handler, Same

LEMMA FillSame ==
    ASSUME TypeOK, NEW t \in Threads, NEW S, NEW p,
           thread' = [thread EXCEPT ![t].todo = S, ![t].pc = p]
    PROVE  Same(t) /\ thread'[t].pc = p /\ thread'[t].todo = S
<1>1. thread' = [thread EXCEPT ![t] = [[thread[t] EXCEPT !.todo = S] EXCEPT !.pc = p]]
  BY DEF TypeOK
<1>2. \A h \in Handler : LET g == [[h EXCEPT !.todo = S] EXCEPT !.pc = p] IN
         g.op = h.op /\ g.on = h.on /\ g.date = h.date /\ g.saw = h.saw /\ g.pc = p /\ g.todo = S
  BY DEF Handler
<1>. QED
  BY <1>1, <1>2 DEF TypeOK, Same

LEMMA TurnSame ==
    ASSUME TypeOK, NEW t \in Threads, NEW o, NEW p,
           thread' = [thread EXCEPT ![t].op = o, ![t].pc = p]
    PROVE  thread'[t].op = o /\ thread'[t].pc = p
<1>1. thread' = [thread EXCEPT ![t] = [[thread[t] EXCEPT !.op = o] EXCEPT !.pc = p]]
  BY DEF TypeOK
<1>2. \A h \in Handler : LET g == [[h EXCEPT !.op = o] EXCEPT !.pc = p] IN
         g.op = o /\ g.pc = p
  BY DEF Handler
<1>. QED
  BY <1>1, <1>2 DEF TypeOK

LEMMA ReturnIdle ==
    ASSUME TypeOK, NEW t \in Threads, Return(t)
    PROVE  thread'[t] = Idle
BY DEF TypeOK, Return

LEMMA ProjectedHistory ==
    ASSUME TypeOK, NEW t \in Threads, Projected(t), thread[t].pc \in {"block", "project"}
    PROVE  History(t)
<1>1. CASE Return(t)
  BY <1>1, ReturnIdle DEF History
<1>2. CASE ~Return(t)
  <2>1. Same(t) /\ thread'[t].pc = "load"
    BY <1>2, ProjectedMoves DEF Same
  <2>. QED  BY <2>1 DEF History, Moved
<1>. QED
  BY <1>1, <1>2

LEMMA HandlerHistory ==
    ASSUME TypeOK, Placed, Next, NEW u \in Threads
    PROVE  History(u)
<1>1. CASE UNCHANGED thread
  BY <1>1 DEF History
<1>2. ASSUME NEW t \in Threads, Step(t) \/ Clients(t) \/ Fail(t) \/ ResolveFails(t)
      PROVE  History(u)
  <2>1. CASE u # t
    BY <1>2, <2>1, OneHandler DEF History
  <2>2. CASE u = t
    <3>1. CASE Refresh(t)
      <4>1. CASE Retire(t)
        BY <2>2, <4>1, GotoSame DEF Retire, At, History, Moved
      <4>2. CASE Unblock(t)
        BY <2>2, <4>2, GotoSame DEF Unblock, At, History, Moved
      <4>3. CASE Rank(t)
        <5>1. PICK S : thread' = [thread EXCEPT ![t].todo = S, ![t].pc = "block"]
          BY <4>3 DEF Rank
        <5>2. Same(t) /\ thread'[t].pc = "block"
          BY <5>1, FillSame, ZenonT(60)
        <5>. QED  BY <2>2, <4>3, <5>2 DEF Rank, At, History, Moved
      <4>4. CASE Block(t)
        BY <2>2, <4>4, TodoSame DEF Block, At, History, Shorter
      <4>5. CASE BlockEnds(t)
        BY <2>2, <4>5, GotoSame, ProjectedHistory DEF BlockEnds, At, History, Moved
      <4>. QED  BY <3>1, <4>1, <4>2, <4>3, <4>4, <4>5 DEF Refresh
    <3>2. CASE Reading(t)
      <4>1. CASE ExpireAlerts(t)
        BY <2>2, <4>1, GotoSame DEF ExpireAlerts, At, History, Moved
      <4>2. CASE ExpireActions(t)
        BY <2>2, <4>2, GotoSame DEF ExpireActions, At, History, Moved
      <4>3. CASE ListAlerts(t)
        <5>1. PICK S : thread' = [thread EXCEPT ![t].todo = S, ![t].pc = "backfill"]
          BY <4>3 DEF ListAlerts
        <5>2. Same(t) /\ thread'[t].pc = "backfill"
          BY <5>1, FillSame, ZenonT(60)
        <5>. QED  BY <2>2, <4>3, <5>2 DEF ListAlerts, At, History, Moved
      <4>4. CASE Backfill(t)
        BY <2>2, <4>4, TodoSame DEF Backfill, At, History, Shorter
      <4>5. CASE BackfillEnds(t)
        BY <2>2, <4>5, GotoSame DEF BackfillEnds, At, History, Moved
      <4>. QED  BY <3>2, <4>1, <4>2, <4>3, <4>4, <4>5 DEF Reading
    <3>3. CASE Answering(t)
      <4>1. CASE Lock(t)
        BY <2>2, <4>1, GotoSame DEF Lock, At, History, Locked
      <4>2. CASE Project(t)
        <5>1. CASE Projected(t)
          BY <2>2, <4>2, <5>1, ProjectedHistory DEF Project, At
        <5>2. CASE ~Projected(t)
          <6>1. thread' = [thread EXCEPT ![t].pc = "unblock", ![t].synced = TRUE]
                /\ thread[t].pc = "project"
            BY <4>2, <5>2 DEF Project, At
          <6>2. "unblock" \in Pcs /\ TRUE \in BOOLEAN
            BY DEF Pcs
          <6>3. \A v \in Threads : /\ thread'[v].op = thread[v].op
                                   /\ thread'[v].on = thread[v].on
                                   /\ thread'[v].date = thread[v].date
                                   /\ thread'[v].saw = thread[v].saw
                                   /\ thread'[v].pc = IF v = t THEN "unblock" ELSE thread[v].pc
            BY <6>1, <6>2, SyncType, ZenonT(60)
          <6>4. Same(t) /\ thread'[t].pc = "unblock"
            BY <6>3 DEF Same
          <6>5. thread[t].pc = "project"
            BY <6>1
          <6>. QED  BY <2>2, <6>4, <6>5 DEF History, Moved
        <5>. QED  BY <5>1, <5>2
      <4>3. CASE Load(t)
        <5>1. CASE Return(t)
          BY <2>2, <5>1, ReturnIdle DEF History
        <5>2. CASE Admits(t)
          <6>1. /\ thread' = [thread EXCEPT ![t].saw = Status(thread[t].on), ![t].pc = "commit"]
                /\ UNCHANGED tables /\ thread[t].pc = "load"
            BY <4>3, <5>2 DEF Load, At
          <6>2. \A h \in Handler : \A s : LET g == [[h EXCEPT !.saw = s] EXCEPT !.pc = "commit"] IN
                   g.op = h.op /\ g.on = h.on /\ g.saw = s /\ g.pc = "commit"
            BY DEF Handler
          <6>3. thread' = [thread EXCEPT ![t] =
                   [[thread[t] EXCEPT !.saw = Status(thread[t].on)] EXCEPT !.pc = "commit"]]
            BY <6>1 DEF TypeOK
          <6>4. thread[t] \in Handler /\ thread \in [Threads -> Handler]
            BY DEF TypeOK
          <6>. QED  BY <2>2, <5>2, <6>1, <6>2, <6>3, <6>4 DEF History, Loaded
        <5>. QED  BY <4>3, <5>1, <5>2 DEF Load
      <4>4. CASE CommitRecord(t) \/ CommitIgnore(t) \/ CommitOverride(t)
        BY <2>2, <4>4, ReturnIdle
           DEF CommitRecord, CommitIgnore, CommitOverride, CommitAnswer, History
      <4>. QED  BY <3>3, <4>1, <4>2, <4>3, <4>4 DEF Answering
    <3>4. CASE Deciding(t)
      <4>1. CASE Ensure(t)
        <5>1. CASE thread' = [thread EXCEPT ![t] = Idle]
          BY <2>2, <5>1 DEF History, TypeOK
        <5>2. CASE Goto(t, "check") /\ thread[t].op # "execute"
          BY <2>2, <4>1, <5>2, GotoSame DEF Ensure, At, History, Moved
        <5>3. CASE Goto(t, "insert") /\ (thread[t].op = "execute" => Intent(thread[t].on) # "DEPLOY"
                                                            /\ ~Weight(thread[t].on))
          BY <2>2, <4>1, <5>3, GotoSame DEF Ensure, At, History, Inserting
        <5>4. CASE thread[t].op = "execute" /\
                   thread' = [thread EXCEPT ![t].op = "decide", ![t].pc = "lock"]
          <6>1. thread'[t].op = "decide" /\ thread'[t].pc = "lock"
            BY <5>4, TurnSame, Zenon
          <6>. QED  BY <2>2, <5>4, <6>1 DEF History, Turned
        <5>5. CASE thread' = [thread EXCEPT ![t].op = "ignore", ![t].pc = "retire"]
          <6>1. thread'[t].op = "ignore" /\ thread'[t].pc = "retire"
            BY <5>5, TurnSame, Zenon
          <6>. QED  BY <2>2, <6>1 DEF History, Turned
        <5>. QED  BY <4>1, <5>1, <5>2, <5>3, <5>4, <5>5 DEF Ensure, Goto
      <4>2. CASE Check(t)
        <5>1. CASE Return(t)
          BY <2>2, <5>1, ReturnIdle DEF History
        <5>2. CASE Goto(t, "resolve")
          BY <2>2, <4>2, <5>2, GotoSame DEF Check, At, History, Moved
        <5>3. CASE Goto(t, "insert")
          <6>1. thread[t].pc = "check"
            BY <4>2 DEF Check, At
          <6>2. thread[t].op # "execute"
            BY <6>1 DEF Placed, PlacedAt
          <6>. QED  BY <2>2, <5>3, <6>1, <6>2, GotoSame DEF History, Inserting
        <5>. QED  BY <4>2, <5>1, <5>2, <5>3 DEF Check
      <4>3. CASE Decide(t)
        <5>1. Same(t) /\ thread'[t].pc = "resolve" /\ thread[t].pc = "insert"
          BY <4>3, GotoSame DEF Decide, At
        <5>2. thread[t].op = "execute" => Counted(t)
          BY <1>2, <4>3, OneHandler DEF Decide, Counted
        <5>. QED  BY <2>2, <5>1, <5>2 DEF History, Moved
      <4>4. CASE Resolve(t)
        BY <2>2, <4>4, GotoSame, ReturnIdle DEF Resolve, At, History, Moved
      <4>5. CASE CommitDecision(t)
        BY <2>2, <4>5, ReturnIdle DEF CommitDecision, History
      <4>. QED  BY <3>4, <4>1, <4>2, <4>3, <4>4, <4>5 DEF Deciding
    <3>5. CASE Reconciling(t)
      <4>1. CASE ListCandidates(t)
        <5>. DEFINE S == {i \in Rows : Candidate(i, thread[t].date, thread[t].sync)}
        <5>1. thread' = [thread EXCEPT ![t].todo = S, ![t].pc = "judge"]
          BY <4>1 DEF ListCandidates
        <5>2. Same(t) /\ thread'[t].pc = "judge" /\ thread'[t].todo = S
          <6>. HIDE DEF S
          <6>. QED  BY <5>1, FillSame, ZenonT(60)
        <5>. QED  BY <2>2, <4>1, <5>2 DEF ListCandidates, At, History, Listed
      <4>2. CASE Judge(t)
        BY <2>2, <4>2, TodoSame DEF Judge, At, History, Shorter
      <4>3. CASE JudgeEnds(t)
        BY <2>2, <4>3, ReturnIdle DEF JudgeEnds, History
      <4>. QED  BY <3>5, <4>1, <4>2, <4>3 DEF Reconciling
    <3>6. CASE Clients(t)
      <4>1. ASSUME NEW op \in DOMAIN FirstStep, NEW i, Request(t, op, i)
            PROVE  Begun(t)
        <5>1. op \in Requests
          BY <4>1 DEF Request
        <5>2. PICK h : thread' = [thread EXCEPT ![t] = h] /\ h.op = op /\ h.pc = FirstStep[op]
          BY <4>1, RequestMoves
        <5>3. thread'[t].op = op /\ thread'[t].pc = FirstStep[op]
          BY <5>2 DEF TypeOK
        <5>. QED  BY <5>1, <5>3, FirstSteps DEF Begun
      <4>2. ASSUME NEW s \in Signals, CreateAlert(t, s)
            PROVE  Begun(t)
        <5>1. thread'[t] = [Idle EXCEPT !.op = "create", !.pc = "ensure", !.on = lastAlert + 1]
          BY <4>2 DEF CreateAlert, TypeOK
        <5>. QED  BY <5>1 DEF Begun, Idle
      <4>3. ASSUME Import(t)
            PROVE  Begun(t)
        <5>1. thread'[t] = [Idle EXCEPT !.op = "import", !.pc = "candidates",
                                        !.date = latest', !.sync = syncs + 1]
          BY <4>3 DEF Import, TypeOK
        <5>. QED  BY <5>1 DEF Begun, Idle
      <4>4. ASSUME PolicyWorker(t)
            PROVE  Begun(t)
        <5>1. thread'[t] = [Idle EXCEPT !.op = "policy", !.pc = "project"]
          BY <4>4 DEF PolicyWorker, TypeOK
        <5>. QED  BY <5>1 DEF Begun, Idle
      <4>. QED  BY <2>2, <3>6, <4>1, <4>2, <4>3, <4>4, ReadIsFirst DEF Clients, History
    <3>7. CASE Fail(t)
      BY <2>2, <3>7, ReturnIdle DEF Fail, History
    <3>8. CASE ResolveFails(t)
      BY <2>2, <3>8, GotoSame DEF ResolveFails, At, History, Moved
    <3>. QED  BY <1>2, <3>1, <3>2, <3>3, <3>4, <3>5, <3>6, <3>7, <3>8 DEF Step
  <2>. QED  BY <2>1, <2>2
<1>3. CASE Crash
  BY <1>3 DEF Crash, History
<1>. QED
  BY <1>1, <1>2, <1>3 DEF Next, Environment, FallDue, ChangeMode

-----------------------------------------------------------------------------
(* What a step does to the tables                                          *)

\* An alert keeps what it says.
LEMMA SigHistory ==
    ASSUME TypeOK, Next
    PROVE  /\ Stored \subseteq Stored'
           /\ \A i \in Stored : alerts'[i].sig = alerts[i].sig
<1>0. /\ lastAlert \in 0..MaxAlerts /\ MaxAlerts \in Nat
      /\ alerts \in [Ids -> Alert] /\ Stored \subseteq Ids
  BY LimitsAssumption DEF TypeOK, Stored, Ids
<1>1. CASE UNCHANGED <<alerts, lastAlert>>
  BY <1>1 DEF Stored
<1>2. ASSUME NEW S, NEW r, alerts' = Resolved(S, r), UNCHANGED lastAlert
      PROVE  /\ Stored \subseteq Stored'
             /\ \A i \in Stored : alerts'[i].sig = alerts[i].sig
  BY <1>0, <1>2 DEF Stored, Resolved, Alert
<1>3. ASSUME NEW s, alerts' = [alerts EXCEPT ![lastAlert + 1] = NewAlert(s)],
             lastAlert' = lastAlert + 1
      PROVE  /\ Stored \subseteq Stored'
             /\ \A i \in Stored : alerts'[i].sig = alerts[i].sig
  BY <1>0, <1>3 DEF Stored
<1>4. CASE PolicySync
  BY <1>1, <1>2, <1>3, <1>4 DEF PolicySync, Withdraw, Propose, tables
<1>5. ASSUME NEW t \in Threads, Step(t)
      PROVE  /\ Stored \subseteq Stored'
             /\ \A i \in Stored : alerts'[i].sig = alerts[i].sig
  <2>1. CASE Refresh(t)
    BY <1>1, <2>1 DEF Refresh, Retire, Unblock, Rank, Block, BlockEnds, tables
  <2>2. CASE Reading(t)
    BY <1>1, <1>2, <2>2
       DEF Reading, ExpireAlerts, ExpireActions, ListAlerts, Backfill, BackfillEnds, tables
  <2>3. CASE Answering(t)
    BY <1>1, <1>2, <1>4, <2>3
       DEF Answering, Lock, Project, Load, CommitRecord, CommitIgnore, CommitOverride,
           CommitAnswer, tables
  <2>4. CASE Deciding(t)
    BY <1>1, <1>2, <2>4 DEF Deciding, Ensure, Check, Decide, Resolve, CommitDecision, tables
  <2>5. CASE Reconciling(t)
    BY <1>1, <2>5 DEF Reconciling, ListCandidates, Judge, JudgeEnds, tables
  <2>. QED  BY <1>5, <2>1, <2>2, <2>3, <2>4, <2>5 DEF Step
<1>6. ASSUME NEW t \in Threads, Clients(t)
      PROVE  /\ Stored \subseteq Stored'
             /\ \A i \in Stored : alerts'[i].sig = alerts[i].sig
  BY <1>1, <1>3, <1>4, <1>6, PolicyStarts DEF Clients, Request, CreateAlert, Import, tables
<1>7. CASE Environment
  <2>1. ASSUME NEW k \in Ids, FallDue(k)
        PROVE  /\ Stored \subseteq Stored'
               /\ \A i \in Stored : alerts'[i].sig = alerts[i].sig
    BY <1>0, <2>1 DEF FallDue, Stored, Alert
  <2>. QED
    BY <1>1, <1>2, <1>4, <1>7, <2>1
       DEF Environment, ChangeMode, Fail, ResolveFails, Crash, tables
<1>. QED
  BY <1>5, <1>6, <1>7 DEF Next

\* Only the import moves the latest statement, and never back.
LEMMA LatestHistory ==
    ASSUME TypeOK, Next
    PROVE  latest \in Nat /\ latest' \in Nat /\ latest <= latest'
<1>0. latest \in Nat
  BY LimitsAssumption DEF TypeOK
<1>1. CASE UNCHANGED latest
  BY <1>0, <1>1
<1>2. ASSUME NEW t \in Threads, Import(t)
      PROVE  latest' \in Nat /\ latest <= latest'
  BY <1>0, <1>2 DEF Import
<1>3. ASSUME NEW t \in Threads, Step(t)
      PROVE  UNCHANGED latest
  <2>1. CASE Refresh(t) \/ Reading(t)
    BY <2>1 DEF Refresh, Retire, Unblock, Rank, Block, BlockEnds, Reading, ExpireAlerts,
       ExpireActions, ListAlerts, Backfill, BackfillEnds, broker
  <2>2. CASE Answering(t)
    BY <2>2 DEF Answering, Lock, Project, Load, CommitRecord, CommitIgnore, CommitOverride,
       CommitAnswer, broker
  <2>3. CASE Deciding(t) \/ Reconciling(t)
    BY <2>3 DEF Deciding, Ensure, Check, Decide, Resolve, CommitDecision, Reconciling,
       ListCandidates, Judge, JudgeEnds, broker
  <2>. QED  BY <1>3, <2>1, <2>2, <2>3 DEF Step
<1>4. CASE Environment
  BY <1>1, <1>4 DEF Environment, FallDue, ChangeMode, Fail, ResolveFails, Crash,
     broker
<1>5. ASSUME NEW t \in Threads, Clients(t)
      PROVE  UNCHANGED latest \/ Import(t)
  BY <1>5, PolicyStarts DEF Clients, Request, CreateAlert, broker
<1>. QED
  BY <1>0, <1>1, <1>2, <1>3, <1>4, <1>5 DEF Next

\* What becomes of one row.
Kept(i) == /\ actions'[i].base = actions[i].base
           /\ actions'[i].stmt = actions[i].stmt
           /\ actions'[i].reported = actions[i].reported
           /\ \/ actions'[i].status = Status(i)
              \/ actions'[i].status \notin {"NONE", "AWAITING_STATEMENT", "CONFIRMED", "VARIANCE"}
Filled(i) == /\ actions'[i].status = IF alerts[i].sig.external THEN "CONFIRMED"
                                     ELSE "AWAITING_STATEMENT"
             /\ actions'[i].base \in {0, latest}
             /\ actions'[i].stmt = actions[i].stmt
             /\ actions'[i].reported = 1
Recorded(i) == /\ \E t \in Threads : /\ CommitRecord(t)
                                     /\ thread[t].on = i /\ thread[t].saw = Status(i)
               /\ Filled(i)
DecidedOn(i) == \E t \in Threads :
    /\ CommitDecision(t) /\ thread[t].on = i
    /\ \/ thread[t].op = "execute" /\ Filled(i)
       \/ /\ thread[t].op = "skip"
          /\ actions'[i].status = "IGNORED" /\ actions'[i].base = 0
          /\ actions'[i].stmt = actions[i].stmt
          /\ actions'[i].reported = actions[i].reported
Verdict(i) == \E t \in Threads :
    /\ thread[t].pc = "judge" /\ i \in thread[t].todo
    /\ actions'[i].status \in {"CONFIRMED", "VARIANCE"}
    /\ actions'[i].stmt = thread[t].date
    /\ actions'[i].base = actions[i].base
    /\ actions'[i].reported = actions[i].reported

LEMMA RowHistory ==
    ASSUME TypeOK, Placed, Next, NEW i \in Ids,
           i \notin Stored => Status(i) = "NONE"
    PROVE  Kept(i) \/ Recorded(i) \/ DecidedOn(i) \/ Verdict(i)
<1>. USE StatusesHold
<1>0. actions \in [Ids -> Action]
  BY DEF TypeOK
<1>1. CASE UNCHANGED actions
  BY <1>1 DEF Kept, Status
<1>2. ASSUME NEW S, NEW s \in {"OPEN", "BLOCKED", "EXPIRED", "NOT_APPLICABLE", "IGNORED",
                               "OVERRIDDEN"},
             actions' = Mark(S, s)
      PROVE  Kept(i)
  BY <1>2, MarkRow DEF Kept
<1>3. ASSUME NEW k, actions' = Ensured(k)
      PROVE  Kept(i)
  BY <1>3, EnsuredRow DEF Kept
<1>4. CASE PolicySync
  <2>1. ASSUME NEW s \in Signals, Propose(s)
        PROVE  Kept(i)
    <3>1. lastAlert + 1 \in Ids
      BY <2>1, LimitsAssumption DEF Propose, TypeOK, Ids
    <3>2. Cardinality(Rows) + 1 \in Nat
      BY RowsCount
    <3>. DEFINE A1 == [actions EXCEPT ![lastAlert + 1].status = "OPEN"]
    <3>3. /\ A1 \in [Ids -> Action]
          /\ A1[i].base = actions[i].base /\ A1[i].stmt = actions[i].stmt
          /\ A1[i].reported = actions[i].reported
          /\ A1[i].status \in {Status(i), "OPEN"}
      BY <1>0, <3>1 DEF Action, Status
    <3>4. actions' = [A1 EXCEPT ![lastAlert + 1].no = Cardinality(Rows) + 1]
      BY <2>1 DEF Propose
    <3>. HIDE DEF A1
    <3>5. actions'[i].base = A1[i].base /\ actions'[i].stmt = A1[i].stmt
          /\ actions'[i].status = A1[i].status /\ actions'[i].reported = A1[i].reported
      BY <3>2, <3>3, <3>4 DEF Action
    <3>. QED  BY <3>3, <3>5 DEF Kept
  <2>. QED  BY <1>1, <1>2, <1>4, <2>1 DEF PolicySync, Withdraw, tables
<1>5. ASSUME NEW t \in Threads, thread[t].pc = "commit", actions' = Reported(thread[t].on)
      PROVE  IF i = thread[t].on THEN Filled(i) ELSE Kept(i)
  <2>1. thread[t].on \in Ids
    BY <1>5, Targeted
  <2>. QED  BY <1>5, <2>1, ReportedRow DEF Filled, Kept, Status
<1>6. ASSUME NEW t \in Threads, Step(t)
      PROVE  Kept(i) \/ Recorded(i) \/ DecidedOn(i) \/ Verdict(i)
  <2>1. CASE Refresh(t)
    BY <1>1, <1>2, <2>1 DEF Refresh, Retire, Unblock, Rank, Block, BlockEnds, tables
  <2>2. CASE Reading(t)
    BY <1>1, <1>2, <1>3, <2>2
       DEF Reading, ExpireAlerts, ExpireActions, ListAlerts, Backfill, BackfillEnds, tables
  <2>3. CASE CommitRecord(t)
    BY <1>1, <1>5, <2>3 DEF CommitRecord, Recorded, At, tables
  <2>4. CASE Answering(t) /\ ~CommitRecord(t)
    <3>1. CASE CommitIgnore(t) \/ CommitOverride(t)
      BY <1>2, <3>1 DEF CommitIgnore, CommitOverride, CommitAnswer
    <3>2. CASE Lock(t) \/ Project(t) \/ Load(t)
      BY <1>1, <1>4, <3>2 DEF Lock, Project, Load, tables
    <3>. QED  BY <2>4, <3>1, <3>2 DEF Answering
  <2>5. CASE CommitDecision(t)
    <3>0. thread[t].op \in {"execute", "skip"} /\ thread[t].pc = "commit"
      BY <2>5 DEF CommitDecision, At
    <3>1. CASE thread[t].op = "execute"
      <4>1. actions' = Reported(thread[t].on)
        BY <2>5, <3>1 DEF CommitDecision
      <4>2. IF i = thread[t].on THEN Filled(i) ELSE Kept(i)
        BY <1>5, <3>0, <4>1
      <4>. QED  BY <2>5, <3>1, <4>2 DEF DecidedOn
    <3>2. CASE thread[t].op = "skip"
      <4>. DEFINE k == thread[t].on
                  A1 == [actions EXCEPT ![k].status = "IGNORED"]
                  A2 == [A1 EXCEPT ![k].base = 0]
      <4>0. 0 \in 0..MaxImports /\ syncs \in 0..MaxImports /\ k \in Ids
        BY <2>5, Targeted, LimitsAssumption DEF TypeOK, CommitDecision, At
      <4>1. actions' = [A2 EXCEPT ![k].sync = syncs]
        BY <2>5, <3>2 DEF CommitDecision
      <4>. HIDE DEF k
      <4>2. /\ A1 \in [Ids -> Action] /\ (i # k => A1[i] = actions[i])
            /\ A1[k].status = "IGNORED" /\ A1[k].stmt = actions[k].stmt
            /\ A1[k].reported = actions[k].reported
        BY <1>0, <4>0 DEF Action
      <4>. HIDE DEF A1
      <4>3. /\ A2 \in [Ids -> Action] /\ (i # k => A2[i] = A1[i])
            /\ A2[k].status = A1[k].status /\ A2[k].base = 0 /\ A2[k].stmt = A1[k].stmt
            /\ A2[k].reported = A1[k].reported
        BY <4>0, <4>2 DEF Action
      <4>. HIDE DEF A2
      <4>4. /\ i # k => actions'[i] = A2[i]
            /\ actions'[k].status = A2[k].status /\ actions'[k].base = A2[k].base
            /\ actions'[k].stmt = A2[k].stmt /\ actions'[k].reported = A2[k].reported
        BY <4>0, <4>1, <4>3 DEF Action
      <4>5. CASE i = k
        BY <2>5, <3>2, <4>2, <4>3, <4>4, <4>5 DEF DecidedOn, k
      <4>6. CASE i # k
        BY <4>2, <4>3, <4>4, <4>6 DEF Kept, Status
      <4>. QED  BY <4>5, <4>6
    <3>. QED  BY <3>0, <3>1, <3>2
  <2>6. CASE Deciding(t) /\ ~CommitDecision(t)
    BY <1>1, <1>3, <2>6 DEF Deciding, Ensure, Check, Decide, Resolve, tables
  <2>7. CASE Judge(t)
    <3>1. PICK k \in thread[t].todo :
             \/ \E verdict \in {"CONFIRMED", "VARIANCE"} :
                   actions' = [actions EXCEPT ![k].status = verdict,
                                              ![k].stmt = thread[t].date]
             \/ UNCHANGED actions
      BY <2>7 DEF Judge
    <3>2. ASSUME NEW v \in {"CONFIRMED", "VARIANCE"},
                 actions' = [actions EXCEPT ![k].status = v, ![k].stmt = thread[t].date]
          PROVE  Kept(i) \/ Verdict(i)
      <4>. DEFINE A1 == [actions EXCEPT ![k].status = v]
      <4>0. thread[t].date \in 0..MaxImports
        BY DEF TypeOK, Handler
      <4>1. actions' = [A1 EXCEPT ![k].stmt = thread[t].date]
        BY <3>2
      <4>2. /\ A1 \in [Ids -> Action] /\ (i # k => A1[i] = actions[i])
            /\ i = k => /\ A1[i].status = v /\ A1[i].base = actions[i].base
                        /\ A1[i].reported = actions[i].reported
        BY <1>0 DEF Action
      <4>. HIDE DEF A1
      <4>3. /\ i # k => actions'[i] = A1[i]
            /\ i = k => /\ actions'[i].status = A1[i].status
                        /\ actions'[i].base = A1[i].base
                        /\ actions'[i].stmt = thread[t].date
                        /\ actions'[i].reported = A1[i].reported
        BY <4>0, <4>1, <4>2 DEF Action
      <4>4. CASE i = k
        BY <2>7, <4>2, <4>3, <4>4 DEF Verdict, Judge, At
      <4>5. CASE i # k
        BY <4>2, <4>3, <4>5 DEF Kept, Status
      <4>. QED  BY <4>4, <4>5
    <3>. QED  BY <1>1, <3>1, <3>2
  <2>8. CASE Reconciling(t) /\ ~Judge(t)
    BY <1>1, <2>8 DEF Reconciling, ListCandidates, JudgeEnds, tables
  <2>. QED  BY <1>6, <2>1, <2>2, <2>3, <2>4, <2>5, <2>6, <2>7, <2>8 DEF Step
<1>7. CASE Environment
  BY <1>1, <1>2, <1>4, <1>7
     DEF Environment, FallDue, ChangeMode, Fail, ResolveFails, Crash, tables
<1>. QED
  BY <1>1, <1>4, <1>6, <1>7, PolicyStarts
     DEF Next, Clients, Request, CreateAlert, Import, tables

-----------------------------------------------------------------------------
(* A purchase is reported once                                             *)

LEMMA ReportHistory ==
    ASSUME TypeOK, Placed, Next
    PROVE  \/ UNCHANGED reports
           \/ \E t \in Threads : /\ CommitRecord(t) /\ Status(thread[t].on) = thread[t].saw
                                 /\ reports' = CountReport(thread[t].on)
           \/ \E t \in Threads : /\ thread[t].pc = "insert" /\ thread[t].op = "execute"
                                 /\ reports' = CountReport(thread[t].on)
<1>1. CASE PolicySync
  BY <1>1 DEF PolicySync, Withdraw, Propose, tables
<1>2. ASSUME NEW t \in Threads, Refresh(t) \/ Reading(t) \/ Reconciling(t)
      PROVE  UNCHANGED reports
  BY <1>2 DEF Refresh, Retire, Unblock, Rank, Block, BlockEnds, Reading, ExpireAlerts,
     ExpireActions, ListAlerts, Backfill, BackfillEnds, Reconciling, ListCandidates, Judge,
     JudgeEnds, tables
<1>3. ASSUME NEW t \in Threads, CommitRecord(t)
      PROVE  \/ UNCHANGED reports
             \/ /\ Status(thread[t].on) = thread[t].saw
                /\ reports' = CountReport(thread[t].on)
  BY <1>3 DEF CommitRecord, tables
<1>4. ASSUME NEW t \in Threads, Answering(t), ~CommitRecord(t)
      PROVE  UNCHANGED reports
  BY <1>1, <1>4 DEF Answering, Lock, Project, Load, CommitIgnore, CommitOverride, CommitAnswer,
     tables, PolicySync, Withdraw, Propose
<1>5. ASSUME NEW t \in Threads, Decide(t)
      PROVE  \/ UNCHANGED reports
             \/ /\ thread[t].pc = "insert" /\ thread[t].op = "execute"
                /\ reports' = CountReport(thread[t].on)
  BY <1>5 DEF Decide, At
<1>6. ASSUME NEW t \in Threads, Deciding(t), ~Decide(t)
      PROVE  UNCHANGED reports
  BY <1>6 DEF Deciding, Ensure, Check, Resolve, CommitDecision, tables
<1>7. ASSUME NEW t \in Threads, Clients(t)
      PROVE  UNCHANGED reports
  BY <1>1, <1>7, PolicyStarts
     DEF Clients, Request, CreateAlert, Import, tables, PolicySync, Withdraw, Propose
<1>8. CASE Environment
  <2>1. PolicySync => UNCHANGED reports
    BY DEF PolicySync, Withdraw, Propose, tables
  <2>. QED
    BY <1>8, <2>1 DEF Environment, FallDue, ChangeMode, Fail, ResolveFails, Crash,
       tables
<1>. QED
  BY <1>2, <1>3, <1>4, <1>5, <1>6, <1>7, <1>8 DEF Next, Step

\* The kind of an action's reports does not change.
LEMMA ConditionalKept ==
    ASSUME TypeOK, Next, NEW i \in Stored
    PROVE  i \in Stored' /\ (Conditional(i)' <=> Conditional(i))
<1>1. i \in Stored' /\ alerts'[i].sig = alerts[i].sig
  BY SigHistory
<1>. QED
  BY <1>1 DEF Conditional, Intent, Weight

\* What is still queued was never reported, and a handler that is about to
\* report an action either found it queued or has stored a decision by alert.
Fresh ==
    /\ \A i \in Ids \ Stored : reports[i] = 0
    /\ \A i \in Stored : Conditional(i) =>
          /\ reports[i] <= 1
          /\ Status(i) \in Queued \cup {"NONE"} => reports[i] = 0
Executing(t) == /\ thread[t].op = "execute"
                /\ thread[t].pc \in {"insert"} \cup Deciders
FoundAt(t) ==
    /\ /\ thread[t].pc = "commit" /\ thread[t].op \in {"record", "decide", "except"}
       => thread[t].saw \in Queued
    /\ thread[t].op = "execute" => "execute" \in Requests
    /\ Executing(t) => ~Conditional(thread[t].on)
Found == \A t \in Threads : FoundAt(t)

LEMMA Aimed ==
    ASSUME TypeOK, Placed, NEW t \in Threads, thread[t].op \notin {"none", "read", "import", "policy"}
    PROVE  thread[t].on \in Stored /\ thread[t].on \in Ids
<1>1. thread[t].on # 0
  BY DEF Placed, PlacedAt
<1>2. thread[t].on \in 0..MaxAlerts /\ thread[t].on <= lastAlert /\ lastAlert \in 0..MaxAlerts
  BY DEF TypeOK, Handler
<1>. QED
  BY <1>1, <1>2, LimitsAssumption DEF Stored, Ids

LEMMA ExecutingHistory ==
    ASSUME TypeOK, Placed, Next, NEW u \in Threads, Executing(u)'
    PROVE  /\ thread[u].op = "execute" /\ thread'[u].on = thread[u].on
           /\ Executing(u) \/ Inserting(u)
<1>1. thread'[u].op = "execute"
      /\ thread'[u].pc \in {"insert"} \cup Deciders
  BY DEF Executing
<1>2. CASE Moved(u)
  <2>1. thread[u].op = "execute" /\ thread[u].pc # "ensure"
    BY <1>1, <1>2 DEF Moved, Same
  <2>2. Executing(u)
    BY <2>1 DEF Executing, Deciders, Placed, PlacedAt
  <2>. QED  BY <1>2, <2>1, <2>2 DEF Moved, Same
<1>3. CASE Loaded(u)
  BY <1>1, <1>3 DEF Loaded, Executing, Deciders
<1>4. CASE Inserting(u)
  BY <1>1, <1>4 DEF Inserting, Same
<1>5. CASE thread'[u] = thread[u]
  BY <1>1, <1>5 DEF Executing
<1>6. CASE Shorter(u)
  BY <1>1, <1>6 DEF Shorter, Same, Executing
<1>. QED
  BY <1>1, <1>2, <1>3, <1>4, <1>5, <1>6, HandlerHistory
     DEF History, Idle, Turned, Locked, Begun, Listed, Deciders

LEMMA FoundStep ==
    ASSUME TypeOK, Placed, Found, Next
    PROVE  Found'
<1>. SUFFICES ASSUME NEW u \in Threads
              PROVE  FoundAt(u)'
  BY DEF Found
<1>0. FoundAt(u)
  BY DEF Found
<1>1. ASSUME thread'[u].pc = "commit", thread'[u].op \in {"record", "decide", "except"}
      PROVE  thread'[u].saw \in Queued
  <2>1. CASE thread'[u] = thread[u]
    BY <1>0, <1>1, <2>1 DEF FoundAt
  <2>2. CASE Loaded(u)
    BY <1>1, <2>2 DEF Loaded, Admits, Queued
  <2>. QED
    BY <1>1, <2>1, <2>2, HandlerHistory
       DEF History, Idle, Moved, Turned, Locked, Inserting, Begun, Listed, Shorter
<1>2. ASSUME thread'[u].op = "execute"
      PROVE  "execute" \in Requests
  BY <1>0, <1>2, HandlerHistory
     DEF FoundAt, History, Idle, Moved, Same, Turned, Locked, Loaded, Inserting, Begun, Listed,
         Shorter
<1>3. ASSUME Executing(u)'
      PROVE  ~Conditional(thread[u].on)'
  <2>1. /\ thread[u].op = "execute" /\ thread'[u].on = thread[u].on
        /\ Executing(u) \/ Inserting(u)
    BY <1>3, ExecutingHistory
  <2>2. PICK k : k = thread[u].on /\ k = thread'[u].on
    BY <2>1
  <2>3. k \in Stored
    BY <2>1, <2>2, Aimed
  <2>4. CASE Executing(u)
    <3>1. ~Conditional(k)
      BY <1>0, <2>2, <2>4 DEF FoundAt
    <3>2. ~Conditional(k)'
      BY <2>3, <3>1, ConditionalKept
    <3>. QED  BY <2>2, <3>2 DEF Conditional, Intent, Weight
  <2>5. CASE Inserting(u)
    <3>1. "execute" \in Requests /\ Intent(k) # "DEPLOY" /\ ~Weight(k)
      BY <1>0, <2>1, <2>2, <2>5 DEF FoundAt, Inserting
    <3>2. ~Conditional(k)'
      BY <2>3, <3>1, ConditionalKept DEF Conditional
    <3>. QED  BY <2>2, <3>2 DEF Conditional, Intent, Weight
  <2>. QED  BY <2>1, <2>4, <2>5
<1>. QED
  BY <1>1, <1>2, <1>3 DEF FoundAt

LEMMA FreshStep ==
    ASSUME TypeOK, Placed, ExitTables, Found, Fresh, Next
    PROVE  Fresh'
<1>0. reports \in [Ids -> 0..2] /\ Stored \subseteq Ids
  BY LimitsAssumption DEF TypeOK, Stored, Ids
<1>t. Stored' \subseteq Ids
  BY TypeStep, LimitsAssumption DEF TypeOK, Stored, Ids
<1>1. /\ Stored \subseteq Stored'
      /\ \A i \in Stored : Conditional(i)' <=> Conditional(i)
  BY SigHistory, ConditionalKept
<1>2. \A i \in Ids : Status(i)' \in Queued \cup {"NONE"} => Status(i) \in Queued \cup {"NONE"}
  BY StepNeverRequeues
<1>3. CASE UNCHANGED reports
  BY <1>0, <1>t, <1>1, <1>2, <1>3 DEF Fresh, Ids
<1>4. ASSUME NEW t \in Threads, CommitRecord(t), Status(thread[t].on) = thread[t].saw,
             reports' = CountReport(thread[t].on)
      PROVE  Fresh'
  <2>0. PICK k : k = thread[t].on
    OBVIOUS
  <2>1. k \in Stored /\ k \in Ids /\ Status(k) \in Queued
    BY <1>4, <2>0, Targeted DEF CommitRecord, At, Found, FoundAt
  <2>2. Status(k)' \notin Queued \cup {"NONE"}
    <3>1. actions' = Reported(k)
      BY <1>4, <2>0 DEF CommitRecord
    <3>2. actions'[k].status \in {"CONFIRMED", "AWAITING_STATEMENT"}
      BY <2>1, <3>1, ReportedRow
    <3>. QED  BY <3>2 DEF Status, Queued
  <2>3. /\ \A i \in Ids \ {k} : reports'[i] = reports[i]
        /\ reports[k] = 0 => reports'[k] = 1
    BY <1>0, <1>4, <2>0, <2>1 DEF CountReport
  <2>. QED  BY <1>0, <1>t, <1>1, <1>2, <2>1, <2>2, <2>3 DEF Fresh, Ids
<1>5. ASSUME NEW t \in Threads, thread[t].pc = "insert", thread[t].op = "execute",
             reports' = CountReport(thread[t].on)
      PROVE  Fresh'
  <2>0. PICK k : k = thread[t].on
    OBVIOUS
  <2>1. k \in Stored /\ ~Conditional(k)
    BY <1>5, <2>0, Targeted DEF Found, FoundAt, Executing
  <2>2. \A i \in Ids \ {k} : reports'[i] = reports[i]
    BY <1>0, <1>5, <2>0 DEF CountReport
  <2>. QED  BY <1>0, <1>t, <1>1, <1>2, <2>1, <2>2 DEF Fresh, Ids
<1>. QED
  BY <1>3, <1>4, <1>5, ReportHistory

ReportInv == ExitInv /\ Found /\ Fresh

LEMMA ReportInvariance == Spec => []ReportInv
<1>1. Init => Found /\ Fresh
  BY DEF Init, Found, FoundAt, Executing, Fresh, Idle, Stored
<1>2. ReportInv /\ [Next]_vars => ReportInv'
  <2>. SUFFICES ASSUME ReportInv, [Next]_vars
                PROVE  ReportInv'
    OBVIOUS
  <2>1. ExitInv'
    BY ExitStep DEF ReportInv
  <2>2. CASE Next
    BY <2>1, <2>2, FoundStep, FreshStep DEF ReportInv, ExitInv
  <2>3. CASE UNCHANGED vars
    <3>1. Found'
      BY <2>3 DEF ReportInv, vars, tables, Found, FoundAt, Executing, Conditional, Intent, Weight
    <3>2. Fresh'
      BY <2>3 DEF ReportInv, vars, tables, Fresh, Stored, Conditional, Intent, Weight, Status
    <3>. QED  BY <2>1, <3>1, <3>2 DEF ReportInv
  <2>. QED  BY <2>2, <2>3
<1>. QED
  BY <1>1, <1>2, ExitInit, PTL DEF Spec, ReportInv

\* However requests, polls and imports interleave, a purchase and a weight
\* reduction are reported at most once: record, decide and except write only
\* where the row is still as they found it (recordSecurityActionExecutionRequest),
\* and it was queued.
THEOREM ReportedOnce == Spec => []NeverReportedTwice
<1>1. ReportInv => NeverReportedTwice
  BY DEF ReportInv, Fresh, NeverReportedTwice
<1>. QED
  BY <1>1, ReportInvariance, PTL

-----------------------------------------------------------------------------
(* What a statement settles                                                *)

\* A decision by alert that is stored and counted, on its way to the queue.
Past(t) == /\ thread[t].op = "execute"
           /\ thread[t].pc \in Deciders

\* A row is reported by a handler that was counted, so where one report was
\* counted, one row write at most belongs to it.
Unreported == \A i \in Ids :
    actions[i].reported = 0 => Status(i) \notin {"AWAITING_STATEMENT", "CONFIRMED", "VARIANCE"}
Answered == \A i \in Ids :
    actions[i].reported = 1 => Status(i) \notin Queued \cup {"NONE"} /\ reports[i] >= 1
SingleAt(t) == \A i \in Ids : Past(t) /\ thread[t].on = i =>
    /\ reports[i] >= 1
    /\ reports[i] <= 1 => /\ actions[i].reported = 0
                          /\ \A u \in Threads \ {t} : ~(Past(u) /\ thread[u].on = i)
Single == \A t \in Threads : SingleAt(t)

\* What an import's handler is about to judge was answered, on an older statement
\* than its own unless it was reported twice, and its own statement is not
\* later than the latest.
JudgingAt(t) ==
    /\ thread[t].pc \in {"candidates", "judge"} => thread[t].date <= latest
    /\ thread[t].pc = "judge" => \A i \in thread[t].todo :
          /\ actions[i].reported = 1
          /\ reports[i] <= 1 => actions[i].base < thread[t].date
Judging == \A t \in Threads : JudgingAt(t)
Later == \A i \in Stored :
    /\ reports[i] <= 1
    /\ Status(i) = "VARIANCE" \/ (Status(i) = "CONFIRMED" /\ ~alerts[i].sig.external)
    => actions[i].base < actions[i].stmt /\ actions[i].stmt <= latest

LEMMA ReportsGrow ==
    ASSUME TypeOK, Placed, Next, NEW i \in Ids
    PROVE  reports[i] \in 0..2 /\ reports'[i] \in 0..2 /\ reports[i] <= reports'[i]
<1>0. reports \in [Ids -> 0..2]
  BY DEF TypeOK
<1>1. CASE UNCHANGED reports
  BY <1>0, <1>1
<1>2. ASSUME NEW k, reports' = CountReport(k)
      PROVE  reports'[i] \in 0..2 /\ reports[i] <= reports'[i]
  BY <1>0, <1>2 DEF CountReport
<1>. QED
  BY <1>0, <1>1, <1>2, ReportHistory

\* Counting a report.
LEMMA CountedOne ==
    ASSUME TypeOK, NEW i \in Ids, reports' = CountReport(i)
    PROVE  /\ reports'[i] >= 1
           /\ reports'[i] <= 1 => reports[i] = 0
BY DEF TypeOK, CountReport

LEMMA PastHistory ==
    ASSUME TypeOK, Placed, Next, NEW u \in Threads, Past(u)'
    PROVE  /\ thread'[u].on = thread[u].on /\ thread[u].on \in Ids
           /\ \/ Past(u)
              \/ Counted(u) /\ thread[u].pc = "insert"
<1>1. thread'[u].op = "execute"
      /\ thread'[u].pc \in Deciders
  BY DEF Past
<1>2. /\ thread[u].op = "execute" /\ thread'[u].on = thread[u].on
      /\ Executing(u) \/ Inserting(u)
  BY <1>1, ExecutingHistory DEF Executing
<1>3. thread[u].on \in Ids
  BY <1>2, Aimed
<1>4. Executing(u)
  BY <1>1, <1>2 DEF Inserting, Deciders
<1>5. CASE thread[u].pc = "insert"
  <2>1. Moved(u)
    BY <1>1, <1>5, HandlerHistory
       DEF History, Idle, Turned, Locked, Loaded, Inserting, Begun, Listed, Shorter, Deciders
  <2>. QED  BY <1>2, <1>3, <1>5, <2>1 DEF Moved
<1>6. CASE thread[u].pc # "insert"
  BY <1>2, <1>3, <1>4, <1>6 DEF Executing, Past
<1>. QED
  BY <1>5, <1>6

\* A row that was reported once keeps its baseline or loses it.
LEMMA BaselineKept ==
    ASSUME TypeOK, Placed, ExitTables, Found, Answered, Single, Next, NEW i \in Ids,
           actions[i].reported = 1
    PROVE  /\ actions'[i].reported = 1
           /\ reports'[i] <= 1 => actions'[i].base <= actions[i].base
<1>0. actions[i].base \in Nat
  BY LimitsAssumption DEF TypeOK, Action
<1>1. Status(i) \notin Queued \cup {"NONE"}
  BY DEF Answered
<1>2. i \notin Stored => Status(i) = "NONE"
  BY DEF ExitTables
<1>3. ~Recorded(i)
  BY <1>1 DEF Recorded, Found, FoundAt, CommitRecord, At
<1>4. DecidedOn(i) => /\ actions'[i].reported = 1
                      /\ reports[i] <= 1 => actions'[i].base = 0
  <2>1. ASSUME NEW t \in Threads, CommitDecision(t), thread[t].on = i, thread[t].op = "execute"
        PROVE  ~(reports[i] <= 1)
    BY <2>1 DEF CommitDecision, At, Past, Single, SingleAt, Deciders
  <2>. QED  BY <2>1 DEF DecidedOn, Filled
<1>5. reports'[i] <= 1 => reports[i] <= 1
  BY ReportsGrow
<1>. QED
  BY <1>0, <1>2, <1>3, <1>4, <1>5, RowHistory DEF Kept, Verdict

LEMMA UnreportedStep ==
    ASSUME TypeOK, Placed, ExitTables, Unreported, Judging, Next
    PROVE  Unreported'
<1>. SUFFICES ASSUME NEW i \in Ids, actions'[i].reported = 0
              PROVE  actions'[i].status \notin {"AWAITING_STATEMENT", "CONFIRMED", "VARIANCE"}
  BY DEF Unreported, Status
<1>1. i \notin Stored => Status(i) = "NONE"
  BY DEF ExitTables
<1>2. CASE Kept(i)
  BY <1>2 DEF Kept, Unreported
<1>3. ~Verdict(i)
  BY DEF Verdict, Judging, JudgingAt
<1>. QED
  BY <1>1, <1>2, <1>3, RowHistory DEF Recorded, DecidedOn, Filled

LEMMA AnsweredStep ==
    ASSUME TypeOK, Placed, ExitTables, Found, Answered, Single, Next
    PROVE  Answered'
<1>. SUFFICES ASSUME NEW i \in Ids, actions'[i].reported = 1
              PROVE  /\ Status(i)' \notin Queued \cup {"NONE"}
                     /\ reports'[i] >= 1
  BY DEF Answered
<1>0. reports[i] \in 0..2 /\ reports'[i] \in 0..2 /\ reports[i] <= reports'[i]
  BY ReportsGrow
<1>1. CASE actions[i].reported = 1
  <2>1. Status(i) \notin Queued \cup {"NONE"} /\ reports[i] >= 1
    BY <1>1 DEF Answered
  <2>. QED  BY <1>0, <2>1, StepNeverRequeues
<1>2. CASE actions[i].reported # 1
  <2>1. i \notin Stored => Status(i) = "NONE"
    BY DEF ExitTables
  <2>2. Recorded(i) \/ (DecidedOn(i) /\ Filled(i))
    BY <1>2, <2>1, RowHistory DEF Kept, Verdict, DecidedOn
  <2>3. Status(i)' \notin Queued \cup {"NONE"}
    BY <2>2 DEF Recorded, Filled, Status, Queued
  <2>4. CASE Recorded(i)
    <3>1. reports' = CountReport(i)
      BY <2>4 DEF Recorded, CommitRecord
    <3>. QED  BY <2>3, <3>1, CountedOne
  <2>5. CASE DecidedOn(i)
    <3>1. CASE \E t \in Threads : /\ CommitDecision(t) /\ thread[t].on = i
                                  /\ thread[t].op = "execute"
      <4>1. reports[i] >= 1
        BY <3>1 DEF CommitDecision, At, Past, Single, SingleAt, Deciders
      <4>. QED  BY <1>0, <2>3, <4>1
    <3>. QED  BY <1>2, <2>5, <3>1 DEF DecidedOn
  <2>. QED  BY <2>2, <2>4, <2>5
<1>. QED
  BY <1>1, <1>2

LEMMA SingleStep ==
    ASSUME TypeOK, Placed, ExitTables, Answered, Single, Next
    PROVE  Single'
<1>. SUFFICES ASSUME NEW t \in Threads, Past(t)', NEW i \in Ids, thread'[t].on = i
              PROVE  /\ reports'[i] >= 1
                     /\ reports'[i] <= 1 =>
                           /\ actions'[i].reported = 0
                           /\ \A u \in Threads \ {t} : ~(Past(u)' /\ thread'[u].on = i)
  BY DEF Single, SingleAt, Past
<1>0. reports[i] \in 0..2 /\ reports'[i] \in 0..2 /\ reports[i] <= reports'[i]
  BY ReportsGrow
<1>1. thread'[t] # Idle
  BY DEF Past, Idle
<1>2. i \notin Stored => Status(i) = "NONE"
  BY DEF ExitTables
<1>3. thread[t].on = i
  BY PastHistory
<1>4. actions[i].reported \in 0..1
  BY DEF TypeOK, Action
<1>5. CASE Past(t)
  <2>1. reports[i] >= 1
    BY <1>3, <1>5 DEF Single, SingleAt
  <2>. SUFFICES ASSUME reports'[i] <= 1
                PROVE  /\ actions'[i].reported = 0
                       /\ \A u \in Threads \ {t} : ~(Past(u)' /\ thread'[u].on = i)
    BY <1>0, <2>1
  <2>2. reports[i] = 1
    BY <1>0, <2>1
  <2>3. /\ actions[i].reported = 0
        /\ \A u \in Threads \ {t} : ~(Past(u) /\ thread[u].on = i)
    BY <1>3, <1>5, <2>2 DEF Single, SingleAt
  <2>4. reports' # CountReport(i)
    BY <2>2, CountedOne
  <2>5. ~Recorded(i)
    BY <2>4 DEF Recorded, CommitRecord
  <2>6. ASSUME NEW u \in Threads, CommitDecision(u), thread[u].on = i, thread[u].op = "execute"
        PROVE  FALSE
    <3>1. Past(u)
      BY <2>6 DEF CommitDecision, At, Past, Deciders
    <3>2. u = t
      BY <2>3, <2>6, <3>1
    <3>3. thread'[t] = Idle
      BY <2>6, <3>2, ReturnIdle DEF CommitDecision
    <3>. QED  BY <1>1, <3>3
  <2>7. actions'[i].reported = 0
    BY <1>2, <2>3, <2>5, <2>6, RowHistory DEF Kept, DecidedOn, Verdict
  <2>8. ASSUME NEW u \in Threads \ {t}, Past(u)', thread'[u].on = i
        PROVE  FALSE
    <3>1. thread[u].on = i /\ (Past(u) \/ Counted(u))
      BY <2>8, PastHistory
    <3>. QED  BY <2>3, <2>4, <3>1 DEF Counted
  <2>. QED  BY <2>7, <2>8
<1>6. CASE Counted(t) /\ thread[t].pc = "insert"
  <2>1. reports' = CountReport(i) /\ \A v \in Threads \ {t} : thread'[v] = thread[v]
    BY <1>3, <1>6 DEF Counted
  <2>2. reports'[i] >= 1 /\ (reports'[i] <= 1 => reports[i] = 0)
    BY <2>1, CountedOne
  <2>. SUFFICES ASSUME reports[i] = 0
                PROVE  /\ actions'[i].reported = 0
                       /\ \A u \in Threads \ {t} : ~(Past(u)' /\ thread'[u].on = i)
    BY <2>2
  <2>3. actions[i].reported = 0
    BY <1>4 DEF Answered
  <2>4. \A u \in Threads : ~(Past(u) /\ thread[u].on = i)
    BY DEF Single, SingleAt
  <2>5. ASSUME NEW u \in Threads, CommitRecord(u) \/ CommitDecision(u)
        PROVE  FALSE
    <3>1. thread[u].pc = "commit" /\ thread'[u] = Idle
      BY <2>5, ReturnIdle DEF CommitRecord, CommitDecision, At
    <3>2. u # t
      BY <1>6, <3>1
    <3>3. Idle.pc = "idle"
      BY DEF Idle
    <3>. QED  BY <2>1, <3>1, <3>2, <3>3
  <2>6. actions'[i].reported = 0
    BY <1>2, <2>3, <2>5, RowHistory DEF Kept, Recorded, DecidedOn, Verdict
  <2>7. \A u \in Threads \ {t} : ~(Past(u)' /\ thread'[u].on = i)
    BY <2>1, <2>4 DEF Past
  <2>. QED  BY <2>6, <2>7
<1>. QED
  BY <1>5, <1>6, PastHistory

LEMMA JudgingStep ==
    ASSUME TypeOK, Placed, ExitTables, Found, Unreported, Answered, Single, Judging, Next
    PROVE  Judging'
<1>. SUFFICES ASSUME NEW u \in Threads
              PROVE  JudgingAt(u)'
  BY DEF Judging
<1>0. /\ JudgingAt(u)
      /\ thread[u].date \in Int /\ thread[u].todo \subseteq Ids
      /\ \A i \in Ids : actions[i].base \in Int
  BY LimitsAssumption DEF Judging, TypeOK, Handler, Action
<1>t. \A i \in Ids : actions'[i].base \in Int
  BY TypeStep, LimitsAssumption DEF TypeOK, Action
<1>r. \A i \in Ids : reports'[i] <= 1 => reports[i] <= 1
  BY ReportsGrow
<1>l. latest \in Int /\ latest' \in Int /\ latest <= latest'
  BY LatestHistory
<1>1. CASE thread'[u] = thread[u] \/ Shorter(u)
  <2>1. /\ thread'[u].pc = thread[u].pc /\ thread'[u].date = thread[u].date
        /\ thread'[u].todo \subseteq thread[u].todo
    BY <1>1 DEF Shorter, Same
  <2>2. ASSUME thread[u].pc = "judge", NEW i \in thread[u].todo
        PROVE  /\ actions'[i].reported = 1
               /\ reports'[i] <= 1 => actions'[i].base < thread[u].date
    <3>1. i \in Ids /\ actions[i].reported = 1
          /\ (reports[i] <= 1 => actions[i].base < thread[u].date)
      BY <1>0, <2>2 DEF JudgingAt
    <3>2. /\ actions'[i].reported = 1
          /\ reports'[i] <= 1 => actions'[i].base <= actions[i].base
      BY <3>1, BaselineKept
    <3>. QED  BY <1>0, <1>t, <1>r, <3>1, <3>2
  <2>3. thread[u].pc \in {"candidates", "judge"} => thread[u].date <= latest'
    BY <1>0, <1>l DEF JudgingAt
  <2>. QED  BY <2>1, <2>2, <2>3 DEF JudgingAt
<1>2. CASE Listed(u)
  <2>1. UNCHANGED actions
    BY <1>2 DEF Listed, tables
  <2>2. ASSUME NEW i \in thread'[u].todo
        PROVE  actions[i].reported = 1 /\ actions[i].base < thread[u].date
    <3>1. i \in Ids /\ Candidate(i, thread[u].date, thread[u].sync)
      BY <1>2, <2>2, LimitsAssumption DEF Listed, Rows, Stored, Ids, TypeOK
    <3>2. actions[i].reported \in 0..1
      BY <3>1 DEF TypeOK, Action
    <3>. QED  BY <3>1, <3>2 DEF Candidate, Unreported
  <2>3. thread'[u].date = thread[u].date /\ thread[u].pc = "candidates"
    BY <1>2 DEF Listed, Same
  <2>4. thread[u].date <= latest'
    BY <1>0, <1>l, <2>3 DEF JudgingAt
  <2>. QED  BY <2>1, <2>2, <2>3, <2>4 DEF JudgingAt
<1>3. CASE Begun(u)
  <2>1. /\ thread'[u].pc # "judge"
        /\ thread'[u].pc = "candidates" => thread'[u].date = latest'
    BY <1>3 DEF Begun
  <2>. QED  BY <1>l, <2>1 DEF JudgingAt
<1>4. CASE thread'[u] = Idle \/ Moved(u) \/ Turned(u) \/ Locked(u) \/ Loaded(u) \/ Inserting(u)
  <2>1. thread'[u].pc \notin {"candidates", "judge"}
    BY <1>4 DEF Idle, Moved, Turned, Locked, Loaded, Inserting
  <2>. QED  BY <2>1 DEF JudgingAt
<1>. QED
  BY <1>1, <1>2, <1>3, <1>4, HandlerHistory DEF History

LEMMA LaterStep ==
    ASSUME TypeOK, Placed, ExitTables, Judging, Later, Next
    PROVE  Later'
<1>l. latest \in Int /\ latest' \in Int /\ latest <= latest'
  BY LatestHistory
<1>t. Stored' \subseteq Ids /\ Stored \subseteq Ids
  <2>1. TypeOK'
    BY TypeStep
  <2>2. lastAlert \in 0..MaxAlerts /\ lastAlert' \in 0..MaxAlerts
    BY <2>1 DEF TypeOK
  <2>. QED  BY <2>2, LimitsAssumption DEF Stored, Ids
<1>s. \A i \in Stored : alerts'[i].sig = alerts[i].sig
  BY SigHistory
<1>0. \A i \in Ids : actions[i].base \in Int /\ actions[i].stmt \in Int
  BY LimitsAssumption DEF TypeOK, Action
<1>. SUFFICES ASSUME NEW i \in Ids, i \in Stored', reports'[i] <= 1,
                     \/ actions'[i].status = "VARIANCE"
                     \/ actions'[i].status = "CONFIRMED" /\ ~alerts'[i].sig.external
              PROVE  actions'[i].base < actions'[i].stmt /\ actions'[i].stmt <= latest'
  BY <1>t DEF Later, Status
<1>1. i \notin Stored => Status(i) = "NONE"
  BY DEF ExitTables
<1>r. reports[i] <= 1
  BY ReportsGrow
<1>2. CASE Kept(i)
  <2>1. actions'[i].status = Status(i) /\ i \in Stored
    BY <1>1, <1>2 DEF Kept
  <2>2. actions[i].base < actions[i].stmt /\ actions[i].stmt <= latest
    BY <1>r, <1>s, <2>1 DEF Later
  <2>. QED  BY <1>0, <1>l, <1>2, <2>2 DEF Kept
<1>3. CASE Recorded(i) \/ DecidedOn(i)
  <2>1. PICK t \in Threads : thread[t].on = i /\ (CommitRecord(t) \/ CommitDecision(t))
    BY <1>3 DEF Recorded, DecidedOn
  <2>2. i \in Stored
    BY <2>1, Targeted DEF CommitRecord, CommitDecision, At
  <2>. QED  BY <1>3, <1>s, <2>2 DEF Recorded, DecidedOn, Filled
<1>4. CASE Verdict(i)
  <2>1. PICK t \in Threads : /\ thread[t].pc = "judge" /\ i \in thread[t].todo
                             /\ actions'[i].stmt = thread[t].date
                             /\ actions'[i].base = actions[i].base
    BY <1>4 DEF Verdict
  <2>2. thread[t].date <= latest /\ actions[i].base < thread[t].date /\ thread[t].date \in Int
    BY <1>r, <2>1, LimitsAssumption DEF Judging, JudgingAt, TypeOK, Handler
  <2>. QED  BY <1>0, <1>l, <2>1, <2>2
<1>. QED
  BY <1>1, <1>2, <1>3, <1>4, RowHistory

SettleInv == ReportInv /\ Unreported /\ Answered /\ Single /\ Judging /\ Later

LEMMA SettleInit == Init => Unreported /\ Answered /\ Single /\ Judging /\ Later
BY DEF Init, Unreported, Answered, Single, SingleAt, Past, Judging, JudgingAt, Later, Idle, Stored,
   NoAction, Status

LEMMA SettleStep ==
    ASSUME SettleInv, [Next]_vars
    PROVE  Unreported' /\ Answered' /\ Single' /\ Judging' /\ Later'
<1>1. CASE Next
  BY <1>1, UnreportedStep, AnsweredStep, SingleStep, JudgingStep, LaterStep
     DEF SettleInv, ReportInv, ExitInv
<1>2. CASE UNCHANGED vars
  <2>1. Unreported' /\ Answered'
    BY <1>2 DEF vars, tables, SettleInv, Unreported, Answered, Status
  <2>2. Single'
    BY <1>2 DEF vars, tables, SettleInv, Single, SingleAt, Past
  <2>3. Judging'
    BY <1>2 DEF vars, tables, broker, SettleInv, Judging, JudgingAt
  <2>4. Later'
    BY <1>2 DEF vars, tables, broker, SettleInv, Later, Status, Stored
  <2>. QED  BY <2>1, <2>2, <2>3, <2>4
<1>. QED
  BY <1>1, <1>2

LEMMA SettleInvariance == Spec => []SettleInv
<1>1. SettleInv /\ [Next]_vars /\ ReportInv' => SettleInv'
  BY SettleStep DEF SettleInv
<1>2. Init /\ ReportInv => SettleInv
  BY SettleInit DEF SettleInv
<1>. QED
  BY <1>1, <1>2, ReportInvariance, PTL DEF Spec

\* A statement's verdict rests on a later statement than the one the reported
\* quantities were captured from, through corrections of a day and imports that
\* are judged late, unless the trade was reported a second time
\* (reconcileSecurityActionsAfterStatement).
THEOREM SettledLater == Spec => []VerdictIsLater
<1>1. SettleInv => VerdictIsLater
  BY DEF SettleInv, Later, VerdictIsLater, Rows
<1>. QED
  BY <1>1, SettleInvariance, PTL

-----------------------------------------------------------------------------
(* A weight reduction waits                                               *)

\* The mutex is taken by Lock and Project and left by its holder alone: when it
\* returns, or when the projection of a decision by alert is over.
Leaves(t) == \/ thread'[t] = Idle
             \/ thread'[t].op = thread[t].op /\ thread[t].op \in {"execute", "skip"}
LEMMA MutexHistory ==
    ASSUME TypeOK, Next
    PROVE  \/ UNCHANGED mu
           \/ \E t \in Threads : mu = t /\ Leaves(t)
           \/ mu = Nobody
<1>1. ASSUME NEW t \in Threads, Return(t)
      PROVE  UNCHANGED mu \/ (mu = t /\ Leaves(t))
  BY <1>1 DEF Return, TypeOK, Leaves
<1>p. ASSUME NEW t \in Threads, Projected(t)
      PROVE  UNCHANGED mu \/ (mu = t /\ Leaves(t))
  BY <1>1, <1>p, ProjectedMoves DEF Leaves
<1>2. ASSUME NEW t \in Threads, Refresh(t) \/ Reading(t) \/ Reconciling(t)
      PROVE  UNCHANGED mu \/ (mu = t /\ Leaves(t))
  BY <1>1, <1>p, <1>2 DEF Refresh, Retire, Unblock, Rank, Block, BlockEnds, Reading, ExpireAlerts,
     ExpireActions, ListAlerts, Backfill, BackfillEnds, Reconciling, ListCandidates, Judge,
     JudgeEnds
<1>3. ASSUME NEW t \in Threads, Answering(t)
      PROVE  UNCHANGED mu \/ (mu = t /\ Leaves(t)) \/ mu = Nobody
  BY <1>1, <1>p, <1>3 DEF Answering, Lock, Project, Load, CommitRecord, CommitIgnore, CommitOverride,
     CommitAnswer
<1>4. ASSUME NEW t \in Threads, Deciding(t)
      PROVE  UNCHANGED mu \/ (mu = t /\ Leaves(t))
  BY <1>1, <1>4 DEF Deciding, Ensure, Check, Decide, Resolve, CommitDecision
<1>5. ASSUME NEW t \in Threads, Clients(t)
      PROVE  UNCHANGED mu
  BY <1>5, PolicyStarts DEF Clients, Request, CreateAlert, Import
<1>6. CASE Environment
  <2>1. CASE Crash
    <3>1. \A t \in Threads : thread'[t] = Idle
      BY <2>1 DEF Crash
    <3>. QED  BY <3>1 DEF TypeOK, Leaves
  <2>. QED
    BY <1>1, <1>6, <2>1 DEF Environment, FallDue, ChangeMode, Fail, ResolveFails
<1>. QED
  BY <1>2, <1>3, <1>4, <1>5, <1>6 DEF Next, Step

\* A record request has the mutex from its Lock to its end.
HoldsAt(t) == thread[t].op \in {"record", "except", "decide"} /\ thread[t].pc # "lock" => mu = t
Holds == \A t \in Threads : HoldsAt(t)

LEMMA HoldsStep ==
    ASSUME TypeOK, Placed, Holds, Next
    PROVE  Holds'
<1>. SUFFICES ASSUME NEW u \in Threads, thread'[u].op \in {"record", "except", "decide"},
                     thread'[u].pc # "lock"
              PROVE  mu' = u
  BY DEF Holds, HoldsAt
<1>1. Idle.op = "none"
  BY DEF Idle
<1>2. CASE thread[u].op = thread'[u].op /\ thread[u].pc # "lock"
  <2>1. mu = u /\ mu # Nobody
    BY <1>2, ThreadsAssumption DEF Holds, HoldsAt
  <2>. QED  BY <1>1, <1>2, <2>1, MutexHistory DEF Leaves
<1>3. CASE Locked(u)
  BY <1>3 DEF Locked
<1>. QED
  BY <1>1, <1>2, <1>3, HandlerHistory DEF History, Same, Moved, Turned, Loaded, Inserting,
     Begun, Listed, Shorter

\* At the commit of a weight reduction no other trade that was recorded by a
\* conditional update awaits its statement.
AwaitsNone(i) ==
    \A j \in Stored \ {i} :
        Ticker(j) = Ticker(i) /\ Conditional(j) => Status(j) # "AWAITING_STATEMENT"
ClearAt(t) ==
    thread[t].pc = "commit" /\ thread[t].on \in Stored /\ Weight(thread[t].on) =>
       /\ thread[t].op = "record" => AwaitsNone(thread[t].on)
       /\ thread[t].op \notin {"except", "decide"}
Clear == \A t \in Threads : ClearAt(t)

\* A weight proposal is no purchase.
LEMMA WeightIsNoPurchase ==
    ASSUME TypeOK, NEW i \in Stored, Weight(i)
    PROVE  Intent(i) # "DEPLOY"
<1>1. i \in Ids /\ i <= lastAlert
  BY LimitsAssumption DEF TypeOK, Stored, Ids
<1>2. alerts[i].sig \in Signals
  BY <1>1 DEF TypeOK, Alert
<1>. QED
  BY <1>2, SignalsAssumption DEF Weight, Intent

\* A decision by alert reports only what is not reported by a conditional update.
LEMMA DecidedByAlert ==
    ASSUME TypeOK, Placed, Found, Next, NEW j \in Ids, DecidedOn(j),
           actions'[j].status = "AWAITING_STATEMENT"
    PROVE  j \in Stored /\ ~Conditional(j)
<1>1. PICK t \in Threads : CommitDecision(t) /\ thread[t].on = j /\ thread[t].op = "execute"
  BY DEF DecidedOn
<1>2. thread[t].pc = "commit"
  BY <1>1 DEF CommitDecision, At
<1>. QED
  BY <1>1, <1>2, Targeted DEF Found, FoundAt, Executing, Deciders

\* Where nothing is awaited, only a record request changes that, and none is
\* at work but the holder of the mutex.
LEMMA AwaitsNoneKept ==
    ASSUME TypeOK, Placed, ExitTables, Holds, Found, Next, NEW u \in Threads,
           thread[u].op = "record", thread[u].pc \in {"load", "commit"},
           NEW i \in Stored, AwaitsNone(i), thread'[u] # Idle
    PROVE  AwaitsNone(i)'
<1>t. Stored' \subseteq Ids /\ Stored \subseteq Ids
  <2>1. TypeOK'
    BY TypeStep
  <2>2. lastAlert \in 0..MaxAlerts /\ lastAlert' \in 0..MaxAlerts
    BY <2>1 DEF TypeOK
  <2>. QED  BY <2>2, LimitsAssumption DEF Stored, Ids
<1>s. ASSUME NEW j \in Stored
      PROVE  j \in Stored' /\ Ticker(j)' = Ticker(j)
  <2>1. j \in Stored' /\ alerts'[j].sig = alerts[j].sig
    BY SigHistory
  <2>. QED  BY <2>1 DEF Ticker
<1>. SUFFICES ASSUME NEW j \in Ids, j \in Stored', j # i, Ticker(j)' = Ticker(i)',
                     Conditional(j)', Status(j)' = "AWAITING_STATEMENT"
              PROVE  FALSE
  BY <1>t DEF AwaitsNone
<1>1. j \notin Stored => Status(j) = "NONE"
  BY DEF ExitTables
<1>c. j \in Stored => Conditional(j)
  BY ConditionalKept
<1>2. actions'[j].status = "AWAITING_STATEMENT" /\ Status(j) # "AWAITING_STATEMENT"
  BY <1>1, <1>s, <1>c DEF Status, AwaitsNone
<1>3. CASE Recorded(j)
  <2>1. PICK t \in Threads : CommitRecord(t)
    BY <1>3 DEF Recorded
  <2>2. mu = t /\ mu = u
    BY <2>1 DEF CommitRecord, At, Holds, HoldsAt
  <2>3. thread'[u] = Idle
    BY <2>1, <2>2, ReturnIdle DEF CommitRecord
  <2>. QED  BY <2>3
<1>4. CASE DecidedOn(j)
  BY <1>2, <1>4, <1>c, DecidedByAlert
<1>. QED
  BY <1>1, <1>2, <1>3, <1>4, RowHistory DEF Kept, Verdict

LEMMA ClearStep ==
    ASSUME TypeOK, Placed, ExitTables, Holds, Found, Clear, Next
    PROVE  Clear'
<1>. SUFFICES ASSUME NEW u \in Threads, thread'[u].pc = "commit", NEW i, i = thread'[u].on,
                     i \in Stored', Weight(i)'
              PROVE  /\ thread'[u].op = "record" => AwaitsNone(i)'
                     /\ thread'[u].op \notin {"except", "decide"}
  BY DEF Clear, ClearAt
<1>1. CASE thread'[u] = thread[u]
  <2>1. i \in Stored
    BY <1>1, Targeted
  <2>2. Weight(i)
    BY <2>1, SigHistory DEF Weight
  <2>3. /\ thread[u].op = "record" => AwaitsNone(i)
        /\ thread[u].op \notin {"except", "decide"}
    BY <1>1, <2>1, <2>2 DEF Clear, ClearAt
  <2>4. thread'[u] # Idle
    BY DEF Idle
  <2>. QED  BY <1>1, <2>1, <2>3, <2>4, AwaitsNoneKept
<1>2. CASE Loaded(u)
  <2>1. i = thread[u].on /\ thread'[u].op = thread[u].op /\ thread[u].pc = "load" /\ Admits(u)
    BY <1>2 DEF Loaded
  <2>2. i \in Stored
    BY <2>1, Targeted
  <2>3. Weight(i)
    BY <2>2, SigHistory DEF Weight
  <2>4. Intent(i) # "DEPLOY"
    BY <2>2, <2>3, WeightIsNoPurchase
  <2>5. thread[u].op \notin {"except", "decide"}
    BY <2>1, <2>3, <2>4 DEF Admits
  <2>6. ASSUME thread[u].op = "record"
        PROVE  AwaitsNone(i)
    <3>1. ~Conflict(Ticker(i))
      BY <2>1, <2>3, <2>6 DEF Admits
    <3>. QED  BY <3>1 DEF Conflict, AwaitsNone, Rows
  <2>7. thread'[u] # Idle
    BY DEF Idle
  <2>. QED  BY <2>1, <2>2, <2>5, <2>6, <2>7, AwaitsNoneKept
<1>. QED
  BY <1>1, <1>2, HandlerHistory DEF History, Idle, Moved, Turned, Locked, Inserting, Begun,
     Listed, Shorter

WaitInv == SettleInv /\ Holds /\ Clear

LEMMA WaitInvariance == Spec => []WaitInv
<1>1. Init => Holds /\ Clear
  BY DEF Init, Holds, HoldsAt, Clear, ClearAt, Idle
<1>2. WaitInv /\ [Next]_vars => Holds' /\ Clear'
  <2>. SUFFICES ASSUME WaitInv, [Next]_vars
                PROVE  Holds' /\ Clear'
    OBVIOUS
  <2>1. CASE Next
    BY <2>1, HoldsStep, ClearStep DEF WaitInv, SettleInv, ReportInv, ExitInv
  <2>2. CASE UNCHANGED vars
    <3>1. Holds'
      BY <2>2 DEF vars, WaitInv, Holds, HoldsAt
    <3>2. Clear'
      BY <2>2 DEF vars, tables, WaitInv, Clear, ClearAt, AwaitsNone, Stored, Conditional, Intent,
         Weight, Ticker, Status
    <3>. QED  BY <3>1, <3>2
  <2>. QED  BY <2>1, <2>2
<1>3. WaitInv <=> SettleInv /\ Holds /\ Clear
  BY DEF WaitInv
<1>. QED
  BY <1>1, <1>2, <1>3, SettleInvariance, PTL DEF Spec

LEMMA WaitStep ==
    ASSUME WaitInv, Next, NEW i \in Stored, Weight(i), Status(i) # "AWAITING_STATEMENT",
           Status(i)' = "AWAITING_STATEMENT"
    PROVE  AwaitsNone(i)
<1>0. TypeOK /\ Placed /\ ExitTables /\ Found /\ Clear
  BY DEF WaitInv, SettleInv, ReportInv, ExitInv
<1>1. i \in Ids
  BY <1>0, LimitsAssumption DEF TypeOK, Stored, Ids
<1>2. actions'[i].status = "AWAITING_STATEMENT"
  BY DEF Status
<1>3. CASE Recorded(i)
  <2>1. PICK t \in Threads : CommitRecord(t) /\ thread[t].on = i
    BY <1>3 DEF Recorded
  <2>2. thread[t].op = "record" /\ thread[t].pc = "commit"
    BY <1>0, <2>1 DEF CommitRecord, At, Clear, ClearAt
  <2>. QED  BY <1>0, <2>1, <2>2 DEF Clear, ClearAt
<1>4. CASE DecidedOn(i)
  BY <1>0, <1>1, <1>2, <1>4, DecidedByAlert DEF Conditional
<1>. QED
  BY <1>0, <1>1, <1>2, <1>3, <1>4, RowHistory DEF Kept, Verdict

\* A weight reduction is never recorded while another trade of the security
\* awaits its statement that was recorded by a conditional update:
\* weightConflict is asked under deploymentFundingMu, and those updates are all
\* written under it (recordSecurityActionExecutionRequest).
THEOREM ReductionWaits == Spec => WeightWaits
<1>1. WaitInv /\ [Next]_vars =>
         [\A i \in Stored :
             /\ Weight(i)
             /\ Status(i) # "AWAITING_STATEMENT" /\ Status(i)' = "AWAITING_STATEMENT"
             => ~\E j \in Rows \ {i} : /\ Ticker(j) = Ticker(i) /\ Conditional(j)
                                       /\ Status(j) = "AWAITING_STATEMENT"]_vars
  BY WaitStep DEF AwaitsNone, Rows
<1>. QED
  BY <1>1, WaitInvariance, PTL DEF Spec, WeightWaits

-----------------------------------------------------------------------------
(* What a report gives way to                                              *)

\* Whoever is about to ignore, override or skip loaded a row without a report.
LookedAt(t) ==
    thread[t].pc = "commit" /\ thread[t].op \in {"ignore", "override", "skip"}
        => thread[t].saw # "AWAITING_STATEMENT"
Looked == \A t \in Threads : LookedAt(t)

LEMMA LookedStep ==
    ASSUME TypeOK, Placed, Looked, Next
    PROVE  Looked'
<1>. SUFFICES ASSUME NEW u \in Threads, thread'[u].pc = "commit",
                     thread'[u].op \in {"ignore", "override", "skip"}
              PROVE  thread'[u].saw # "AWAITING_STATEMENT"
  BY DEF Looked, LookedAt
<1>1. CASE thread'[u] = thread[u]
  BY <1>1 DEF Looked, LookedAt
<1>2. CASE Loaded(u)
  BY <1>2 DEF Loaded, Admits
<1>. QED
  BY <1>1, <1>2, HandlerHistory
     DEF History, Idle, Moved, Turned, Locked, Inserting, Begun, Listed, Shorter

\* No write of a poll, a projection or a change of mode touches a report.
LEMMA MarkSpares ==
    ASSUME TypeOK, NEW i \in Ids, NEW S, NEW s \in Statuses, i \notin S, actions' = Mark(S, s)
    PROVE  Status(i)' = Status(i)
<1>1. actions'[i].status = Status(i)
  BY MarkRow
<1>. QED  BY <1>1 DEF Status

LEMMA ReportStep ==
    ASSUME TypeOK, Placed, ExitTables, Looked, Next, NEW i \in Ids,
           Status(i) = "AWAITING_STATEMENT"
    PROVE  GivesWay(i)
<1>. USE StatusesHold
<1>. DEFINE Stays == Status(i)' \in {"AWAITING_STATEMENT", "CONFIRMED", "VARIANCE"}
<1>. SUFFICES Stays \/ OlderAnswer(i)
  BY DEF GivesWay
<1>q. "AWAITING_STATEMENT" \notin Queued
  BY DEF Queued
<1>1. ASSUME UNCHANGED actions
      PROVE  Stays
  BY <1>1 DEF Status
<1>2. ASSUME NEW S, NEW s \in Statuses, i \notin S, actions' = Mark(S, s)
      PROVE  Stays
  BY <1>2, MarkSpares
<1>3. ASSUME NEW k, actions' = Ensured(k)
      PROVE  Stays
  <2>1. actions'[i].status = Status(i)
    BY <1>3, EnsuredRow
  <2>. QED  BY <2>1 DEF Status
<1>4. ASSUME PolicySync
      PROVE  Stays
  <2>1. ASSUME NEW K \in SUBSET Tickers, Withdraw(K)
        PROVE  Stays
    BY <1>q, <1>2, <2>1 DEF Withdraw
  <2>2. ASSUME NEW s \in Signals, Propose(s)
        PROVE  Stays
    <3>1. lastAlert + 1 \notin Stored
      BY LimitsAssumption DEF Stored, TypeOK
    <3>2. i # lastAlert + 1
      BY <3>1 DEF ExitTables
    <3>3. actions'[i] = actions[i]
      BY <2>2, <3>2 DEF Propose, TypeOK
    <3>. QED  BY <3>3 DEF Status
  <2>. QED  BY <1>1, <1>4, <2>1, <2>2 DEF PolicySync, tables
<1>5. ASSUME NEW t \in Threads, thread[t].pc = "commit", actions' = Reported(thread[t].on)
      PROVE  Stays
  <2>1. thread[t].on \in Ids
    BY <1>5, Targeted
  <2>2. actions'[i].status \in {"AWAITING_STATEMENT", "CONFIRMED"}
    BY <1>5, <2>1, ReportedRow DEF Status
  <2>. QED  BY <2>2 DEF Status
<1>6. ASSUME NEW t \in Threads, Refresh(t)
      PROVE  Stays
  <2>1. CASE Retire(t)
    <3>1. i \notin Orphaned
      BY <1>q DEF Orphaned
    <3>2. actions' = Mark(Orphaned, "EXPIRED")
      BY <2>1 DEF Retire
    <3>. QED  BY <1>2, <3>1, <3>2
  <2>2. CASE Unblock(t)
    BY <1>2, <2>2 DEF Unblock
  <2>3. CASE Block(t)
    <3>1. PICK j : actions' = Mark({j} \cap {k \in Ids : Status(k) = "OPEN"}, "BLOCKED")
      BY <2>3 DEF Block
    <3>. DEFINE S == {j} \cap {k \in Ids : Status(k) = "OPEN"}
    <3>2. i \notin S
      OBVIOUS
    <3>3. actions' = Mark(S, "BLOCKED")
      BY <3>1
    <3>. HIDE DEF S
    <3>. QED  BY <1>2, <3>2, <3>3
  <2>. QED  BY <1>1, <1>6, <2>1, <2>2, <2>3 DEF Refresh, Rank, BlockEnds, tables
<1>7. ASSUME NEW t \in Threads, Reading(t)
      PROVE  Stays
  <2>1. CASE ExpireActions(t)
    BY <1>q, <1>2, <2>1 DEF ExpireActions
  <2>2. CASE Backfill(t)
    BY <1>3, <2>2 DEF Backfill
  <2>. QED  BY <1>1, <1>7, <2>1, <2>2 DEF Reading, ExpireAlerts, ListAlerts, BackfillEnds, tables
<1>8. ASSUME NEW t \in Threads, CommitIgnore(t) \/ CommitOverride(t)
      PROVE  Stays \/ OlderAnswer(i)
  <2>1. CASE thread[t].on = i
    BY <1>8, <2>1 DEF CommitIgnore, CommitOverride, CommitAnswer, At, Looked, LookedAt, OlderAnswer
  <2>2. CASE thread[t].on # i
    BY <1>2, <1>8, <2>2 DEF CommitIgnore, CommitOverride, CommitAnswer
  <2>. QED  BY <2>1, <2>2
<1>9. ASSUME NEW t \in Threads, CommitDecision(t)
      PROVE  Stays \/ OlderAnswer(i)
  <2>1. CASE thread[t].op = "execute"
    BY <1>5, <1>9, <2>1 DEF CommitDecision, At
  <2>2. CASE thread[t].op = "skip" /\ thread[t].on = i
    <3>1. thread[t].pc = "commit"
      BY <1>9 DEF CommitDecision, At
    <3>2. thread[t].saw # "AWAITING_STATEMENT"
      BY <2>2, <3>1 DEF Looked, LookedAt
    <3>. QED  BY <1>9, <2>2, <3>2 DEF OlderAnswer
  <2>3. CASE thread[t].op = "skip" /\ thread[t].on # i
    <3>1. actions'[i] = actions[i]
      BY <1>9, <2>3 DEF CommitDecision, TypeOK
    <3>. QED  BY <3>1 DEF Status
  <2>. QED  BY <1>9, <2>1, <2>2, <2>3 DEF CommitDecision
<1>10. ASSUME NEW t \in Threads, Answering(t)
       PROVE  Stays \/ OlderAnswer(i)
  <2>1. CASE CommitRecord(t)
    BY <1>1, <1>5, <2>1 DEF CommitRecord, At, tables
  <2>2. Project(t) => PolicySync
    BY DEF Project, PolicySync
  <2>. QED  BY <1>1, <1>4, <1>8, <1>10, <2>1, <2>2 DEF Answering, Lock, Load, tables
<1>11. ASSUME NEW t \in Threads, Deciding(t)
       PROVE  Stays \/ OlderAnswer(i)
  BY <1>1, <1>3, <1>9, <1>11 DEF Deciding, Ensure, Check, Decide, Resolve, tables
<1>12. ASSUME NEW t \in Threads, Reconciling(t)
       PROVE  Stays
  <2>1. CASE Judge(t)
    <3>1. PICK j \in thread[t].todo :
               \/ \E verdict \in {"CONFIRMED", "VARIANCE"} :
                     actions' = [actions EXCEPT ![j].status = verdict, ![j].stmt = thread[t].date]
               \/ UNCHANGED actions
      BY <2>1 DEF Judge
    <3>2. ASSUME NEW verdict \in {"CONFIRMED", "VARIANCE"},
                 actions' = [actions EXCEPT ![j].status = verdict, ![j].stmt = thread[t].date]
          PROVE  Stays
      <4>1. actions'[i] = actions[i] \/ actions'[i].status = verdict
        BY <3>2 DEF TypeOK, Action
      <4>. QED  BY <4>1 DEF Status
    <3>. QED  BY <1>1, <3>1, <3>2
  <2>. QED  BY <1>1, <1>12, <2>1 DEF Reconciling, ListCandidates, JudgeEnds, tables
<1>13. ASSUME NEW t \in Threads, Clients(t)
       PROVE  Stays
  <2>1. ASSUME NEW s, CreateAlert(t, s)
        PROVE  UNCHANGED actions
    BY <2>1 DEF CreateAlert
  <2>2. ASSUME NEW op, NEW j, Request(t, op, j)
        PROVE  UNCHANGED actions
    BY <2>2 DEF Request, tables
  <2>3. CASE Import(t)
    BY <1>1, <2>3 DEF Import, tables
  <2>4. PolicyWorker(t) => PolicySync
    BY PolicyStarts
  <2>. QED  BY <1>1, <1>4, <1>13, <2>1, <2>2, <2>3, <2>4 DEF Clients
<1>14. CASE Environment
  <2>1. ASSUME NEW k \in Etfs, ChangeMode(k)
        PROVE  Stays
    BY <1>q, <1>2, <2>1 DEF ChangeMode
  <2>. QED
    BY <1>1, <1>4, <1>14, <2>1 DEF Environment, FallDue, Fail, ResolveFails, Crash, tables
<1>. QED
  BY <1>6, <1>7, <1>10, <1>11, <1>12, <1>13, <1>14 DEF Next, Step

\* The finding of a report that is overwritten is the whole of it: an execution
\* that awaits its statement gives way to nothing but a verdict and an ignore,
\* an override or a skip that loaded the action before it was reported.
THEOREM ReportsStand == Spec => ReportGivesWay
<1>1. Init => Looked
  BY DEF Init, Looked, LookedAt, Idle
<1>2. SettleInv => TypeOK /\ Placed /\ ExitTables
  BY DEF SettleInv, ReportInv, ExitInv
<1>3. TypeOK /\ Placed /\ Looked /\ [Next]_vars => Looked'
  BY LookedStep DEF vars, Looked, LookedAt
<1>4. TypeOK /\ Placed /\ ExitTables /\ Looked /\ [Next]_vars => [\A i \in Stored : GivesWay(i)]_vars
  <2>. SUFFICES ASSUME TypeOK, Placed, ExitTables, Looked, Next, NEW i \in Stored
                PROVE  GivesWay(i)
    OBVIOUS
  <2>1. i \in Ids
    BY LimitsAssumption DEF TypeOK, Stored, Ids
  <2>2. CASE Status(i) # "AWAITING_STATEMENT"
    BY <2>2 DEF GivesWay
  <2>. QED  BY <2>1, <2>2, ReportStep
<1>. QED
  BY <1>1, <1>2, <1>3, <1>4, SettleInvariance, PTL DEF Spec, ReportGivesWay

-----------------------------------------------------------------------------
(* One proposal of a subject at a time                                     *)

\* A proposal's alert and action are stored together.
ProposalsQueued == \A i \in Stored : Weight(i) => Status(i) # "NONE"

\* A step that stores no alert, or one that is no proposal, or a proposal.
LEMMA AlertHistory ==
    ASSUME TypeOK, Next, NEW i \in Stored' \ Stored
    PROVE  \/ ~Weight(i)'
           \/ i = lastAlert + 1 /\ \E s \in Signals : Propose(s)
<1>0. lastAlert \in 0..MaxAlerts /\ MaxAlerts \in Nat /\ alerts \in [Ids -> Alert]
  BY LimitsAssumption DEF TypeOK
<1>1. lastAlert' # lastAlert
  BY DEF Stored
<1>2. CASE PolicySync
  <2>1. PICK s \in Signals : Propose(s)
    BY <1>1, <1>2 DEF PolicySync, Withdraw, tables
  <2>2. i = lastAlert + 1
    BY <1>0, <2>1 DEF Propose, Stored
  <2>. QED  BY <2>1, <2>2
<1>3. ASSUME NEW t \in Threads, NEW s \in Signals, CreateAlert(t, s)
      PROVE  ~Weight(i)'
  <2>1. i = lastAlert + 1 /\ lastAlert + 1 \in Ids
    BY <1>0, <1>3 DEF CreateAlert, Stored, Ids
  <2>2. alerts'[i] = NewAlert(s)
    BY <1>0, <1>3, <2>1 DEF CreateAlert
  <2>. QED  BY <1>3, <2>2 DEF CreateAlert, NewAlert, Weight
<1>4. ASSUME NEW t \in Threads, Step(t)
      PROVE  PolicySync
  <2>1. ~Refresh(t)
    BY <1>1 DEF Refresh, Retire, Unblock, Rank, Block, BlockEnds, tables
  <2>2. ~Reading(t)
    BY <1>1 DEF Reading, ExpireAlerts, ExpireActions, ListAlerts, Backfill, BackfillEnds, tables
  <2>3. ~Deciding(t) /\ ~Reconciling(t)
    BY <1>1 DEF Deciding, Ensure, Check, Decide, Resolve, CommitDecision,
                Reconciling, ListCandidates, Judge, JudgeEnds, tables
  <2>4. Answering(t) => Project(t)
    BY <1>1 DEF Answering, Lock, Load, CommitRecord, CommitIgnore, CommitOverride,
                CommitAnswer, tables
  <2>. QED  BY <1>4, <2>1, <2>2, <2>3, <2>4 DEF Step, Project, PolicySync
<1>5. ASSUME NEW t \in Threads, Clients(t)
      PROVE  PolicySync \/ \E s \in Signals : CreateAlert(t, s)
  <2>1. ASSUME NEW op, NEW k, Request(t, op, k)
        PROVE  FALSE
    BY <1>1, <2>1 DEF Request, tables
  <2>2. ~Import(t)
    BY <1>1 DEF Import, tables
  <2>. QED  BY <1>5, <2>1, <2>2, PolicyStarts DEF Clients
<1>6. CASE Environment
  BY <1>1, <1>2, <1>6
     DEF Environment, FallDue, ChangeMode, Fail, ResolveFails, Crash, tables
<1>. QED
  BY <1>2, <1>3, <1>4, <1>5, <1>6 DEF Next

\* A row stays a row.
LEMMA RowStays ==
    ASSUME TypeOK, Placed, ExitTables, Next, NEW i \in Ids, Status(i) # "NONE"
    PROVE  Status(i)' # "NONE"
<1>1. Kept(i) \/ Recorded(i) \/ DecidedOn(i) \/ Verdict(i)
  BY RowHistory DEF ExitTables
<1>2. CASE Kept(i)
  BY <1>2 DEF Kept, Status
<1>3. Filled(i) => Status(i)' # "NONE"
  BY DEF Filled, Status
<1>4. CASE Recorded(i)
  BY <1>3, <1>4 DEF Recorded
<1>5. CASE DecidedOn(i)
  BY <1>3, <1>5 DEF DecidedOn, Status
<1>6. CASE Verdict(i)
  BY <1>6 DEF Verdict, Status
<1>. QED
  BY <1>1, <1>2, <1>4, <1>5, <1>6

LEMMA ProposalsQueuedStep ==
    ASSUME TypeOK, Placed, ExitTables, ProposalsQueued, Next
    PROVE  ProposalsQueued'
<1>. SUFFICES ASSUME NEW i \in Stored', Weight(i)'
              PROVE  Status(i)' # "NONE"
  BY DEF ProposalsQueued
<1>1. CASE i \in Stored
  <2>1. i \in Ids
    BY <1>1, LimitsAssumption DEF TypeOK, Stored, Ids
  <2>2. Weight(i)
    BY <1>1, SigHistory DEF Weight
  <2>. QED  BY <1>1, <2>1, <2>2, RowStays DEF ProposalsQueued
<1>2. CASE i \notin Stored
  <2>1. PICK s \in Signals : Propose(s) /\ i = lastAlert + 1
    BY <1>2, AlertHistory
  <2>2. i \in Ids
    BY <2>1, LimitsAssumption DEF Propose, TypeOK, Ids
  <2>3. actions'[i].status = "OPEN"
    BY <2>1, <2>2 DEF Propose, TypeOK, Action
  <2>. QED  BY <2>3 DEF Status
<1>. QED
  BY <1>1, <1>2

\* What is not outstanding does not become so again.
LEMMA StaysSettled ==
    ASSUME TypeOK, Placed, ExitTables, Found, Next, NEW i \in Ids, i \in Stored, Outstanding(i)',
           Status(i) # "NONE"
    PROVE  Outstanding(i)
<1>1. Weight(i) /\ Conditional(i)
  BY SigHistory DEF Outstanding, Weight, Conditional
<1>2. SUFFICES ASSUME Status(i) \notin Queued \cup {"NONE", "AWAITING_STATEMENT"}
               PROVE  FALSE
  BY <1>1 DEF Outstanding
<1>3. actions'[i].status = "AWAITING_STATEMENT"
  BY <1>2, StepNeverRequeues DEF Outstanding, Status
<1>4. ~Kept(i) /\ ~Verdict(i)
  BY <1>2, <1>3 DEF Kept, Verdict
<1>5. ~DecidedOn(i)
  BY <1>1, <1>3, DecidedByAlert
<1>6. ~Recorded(i)
  <2>. SUFFICES ASSUME NEW t \in Threads, CommitRecord(t), thread[t].saw = Status(i)
                PROVE  FALSE
    BY DEF Recorded
  <2>1. thread[t].saw \in Queued
    BY DEF CommitRecord, At, Found, FoundAt
  <2>. QED  BY <1>2, <2>1
<1>. QED
  BY <1>4, <1>5, <1>6, RowHistory DEF ExitTables

LEMMA ProposalStep ==
    ASSUME TypeOK, Placed, ExitTables, Found, ProposalsQueued, OneProposal, Next
    PROVE  OneProposal'
<1>. SUFFICES ASSUME NEW i \in Stored', NEW j \in Stored', Outstanding(i)', Outstanding(j)',
                     alerts'[i].sig = alerts'[j].sig, i # j
              PROVE  FALSE
  BY DEF OneProposal, Rows
<1>0. \A k \in Stored : k \in Ids
  BY LimitsAssumption DEF TypeOK, Stored, Ids
<1>1. ASSUME NEW k \in Stored, Outstanding(k)'
      PROVE  Outstanding(k) /\ k \in Rows /\ alerts'[k].sig = alerts[k].sig
  <2>1. Weight(k) /\ alerts'[k].sig = alerts[k].sig
    BY <1>1, SigHistory DEF Outstanding, Weight
  <2>2. Status(k) # "NONE"
    BY <2>1 DEF ProposalsQueued
  <2>. QED  BY <1>0, <1>1, <2>1, <2>2, StaysSettled DEF Rows
<1>2. ASSUME NEW k \in Stored, NEW n \in Stored' \ Stored, Outstanding(k)', Outstanding(n)',
             alerts'[k].sig = alerts'[n].sig
      PROVE  FALSE
  <2>1. PICK s \in Signals : Propose(s) /\ n = lastAlert + 1
    BY <1>2, AlertHistory DEF Outstanding
  <2>2. n \in Ids
    BY <2>1, LimitsAssumption DEF Propose, TypeOK, Ids
  <2>3. alerts'[n].sig = s
    BY <2>1, <2>2 DEF Propose, NewAlert, TypeOK
  <2>4. Outstanding(k) /\ k \in Rows /\ alerts[k].sig = s
    BY <1>1, <1>2, <2>3
  <2>. QED  BY <2>1, <2>4 DEF Propose, Outstanding, Unresolved
<1>3. CASE i \in Stored /\ j \in Stored
  BY <1>1, <1>3 DEF OneProposal
<1>4. CASE i \notin Stored /\ j \notin Stored
  BY <1>4, AlertHistory DEF Outstanding
<1>. QED
  BY <1>2, <1>3, <1>4

\* At most one weight proposal of a subject is outstanding, however the
\* five-minute worker, the polls and the requests that run the policy (syncWeightPolicyLocked,
\* createWeightProposal) interleave with answers, verdicts and crashes.
THEOREM OneOutstandingProposal == Spec => []OneProposal
<1>. DEFINE Inv == ProposalsQueued /\ OneProposal
<1>1. Init => Inv
  BY DEF Init, ProposalsQueued, OneProposal, Rows, Stored
<1>2. ReportInv => TypeOK /\ Placed /\ ExitTables /\ Found
  BY DEF ReportInv, ExitInv
<1>3. ReportInv /\ Inv /\ [Next]_vars => Inv'
  <2>. SUFFICES ASSUME ReportInv, Inv, [Next]_vars
                PROVE  Inv'
    OBVIOUS
  <2>1. CASE Next
    BY <1>2, <2>1, ProposalsQueuedStep, ProposalStep
  <2>2. CASE UNCHANGED vars
    BY <2>2 DEF vars, tables, ProposalsQueued, OneProposal, Outstanding, Rows, Stored, Weight, Status
  <2>. QED  BY <2>1, <2>2
<1>4. Inv => OneProposal
  OBVIOUS
<1>. HIDE DEF Inv
<1>. QED
  BY <1>1, <1>3, <1>4, ReportInvariance, PTL DEF Spec
=============================================================================
