--------------------------- MODULE SecurityActions ---------------------------
(***************************************************************************)
(* The queue of instructions to the operator (backend/security_actions.go  *)
(* and the alert handlers of backend/alerts.go).  Every alert about a      *)
(* security becomes one row of security_actions; the page polls the queue, *)
(* the operator records, ignores or overrides, a later broker statement    *)
(* confirms or contradicts what was recorded.                              *)
(*                                                                         *)
(* Grain.  Handlers run concurrently, each in a thread; one SQL statement  *)
(* outside a transaction is one step, a transaction is one step, and what  *)
(* a handler has read it keeps in its thread until its last write.         *)
(* deploymentFundingMu is `mu'.                                            *)
(*                                                                         *)
(* Abstracted: whether units match a statement, a ticket is funded or a    *)
(* weight proposal still stands is any outcome; a refusal for such a       *)
(* reason is a handler that stops (Fail).  `ticker' is the scope an action *)
(* is queued under.  A statement is known by its date, and an import of    *)
(* the latest date again is a correction of that statement.                *)
(***************************************************************************)
EXTENDS Integers, FiniteSets

CONSTANTS
    Threads,     \* request handlers that can be in flight together
    Nobody,      \* the holder of a free mutex
    Signals,     \* what alerts say: [ticker, intent, weight, external, expires]
    NoSignal,    \* in place of the signal of an alert not yet stored
    Requests,    \* the kinds of request the clients send
    Etfs,        \* tickers whose management mode may change
    Managed,     \* whether weight management may be switched on
    Readers,     \* the threads of pages that poll the queue for ever
    MaxAlerts,   \* bound: alerts ever stored
    MaxImports,  \* bound: statement imports
    MaxFaults    \* bound: failed statements and crashes

ASSUME ThreadsAssumption == Nobody \notin Threads /\ Readers \subseteq Threads
ASSUME SignalsAssumption ==
    /\ NoSignal \notin Signals
    /\ \A s \in Signals : /\ s.intent \in {"EXIT", "REDUCE", "DEPLOY", "REVIEW"}
                          /\ {s.weight, s.external, s.expires} \subseteq BOOLEAN
                          /\ s.weight => s.intent \in {"REDUCE", "REVIEW"}
ASSUME ManagedAssumption == Managed \in BOOLEAN
ASSUME LimitsAssumption == {MaxAlerts, MaxImports, MaxFaults} \subseteq Nat

VARIABLES
    alerts,     \* table alerts
    actions,    \* table security_actions, each row under its alert's id
    lastAlert,  \* ids of alerts given out so far
    latest,     \* date of the latest statement, 0 before the first
    syncs,      \* rows of sync_history: imports committed
    thread,     \* what each handler is doing
    mu,         \* the holder of deploymentFundingMu
    reports,    \* history: execution decisions stored for each alert, to 2
    faults      \* failures so far (bounded)

tables == <<alerts, actions, lastAlert, reports>>
broker == <<latest, syncs>>
vars == <<tables, broker, thread, mu, faults>>

Ids == 1..MaxAlerts
Queued == {"OPEN", "BLOCKED"}
Unresolved == Queued \cup {"AWAITING_STATEMENT", "VARIANCE", "OVERRIDDEN"}
Terminal == {"CONFIRMED", "IGNORED", "EXPIRED", "NOT_APPLICABLE"}
Statuses == Unresolved \cup Terminal \cup {"NONE"}

NoAlert == [sig |-> NoSignal, active |-> 0, reason |-> "NONE", due |-> 0]
NoAction == [status |-> "NONE", no |-> 0, reported |-> 0,
             base |-> 0, sync |-> 0, stmt |-> 0]
Idle == [op |-> "none", pc |-> "idle", on |-> 0, todo |-> {}, saw |-> "NONE",
         date |-> 0, sync |-> 0, synced |-> FALSE]

Init ==
    /\ alerts = [i \in Ids |-> NoAlert]
    /\ actions = [i \in Ids |-> NoAction]
    /\ lastAlert = 0
    /\ latest = 0
    /\ syncs = 0
    /\ thread = [t \in Threads |-> Idle]
    /\ mu = Nobody
    /\ reports = [i \in Ids |-> 0]
    /\ faults = 0

Stored == 1..lastAlert
Ticker(i) == alerts[i].sig.ticker
Intent(i) == alerts[i].sig.intent
Weight(i) == alerts[i].sig.weight
Status(i) == actions[i].status
Rows == {i \in Stored : Status(i) # "NONE"}

At(t, pc) == thread[t].pc = pc
Goto(t, pc) == thread' = [thread EXCEPT ![t].pc = pc]
\* A handler returns; a deferred Unlock goes with it.
Return(t) ==
    /\ thread' = [thread EXCEPT ![t] = Idle]
    /\ mu' = IF mu = t THEN Nobody ELSE mu
\* UPDATE security_actions SET status = s for the rows of S.
Mark(S, s) ==
    [i \in Ids |-> IF i \in S THEN [actions[i] EXCEPT !.status = s] ELSE actions[i]]
\* UPDATE alerts SET is_active = 0 with a reason.
Resolved(S, r) ==
    [i \in Ids |-> IF i \in S THEN [alerts[i] EXCEPT !.active = 0, !.reason = r]
                   ELSE alerts[i]]

-----------------------------------------------------------------------------
(* Alerts arrive                                                           *)

NewAlert(s) == [sig |-> s, active |-> 1, reason |-> "NONE", due |-> 0]
\* INSERT ... ON CONFLICT(alert_id) DO NOTHING: one action per alert, ever.
Ensured(i) ==
    IF Status(i) = "NONE"
    THEN [actions EXCEPT ![i].status = "OPEN", ![i].no = Cardinality(Rows) + 1]
    ELSE actions

\* The alert's INSERT commits first, its action follows in the same handler.
CreateAlert(t, s) ==
    /\ At(t, "idle")
    /\ "create" \in Requests
    /\ ~s.weight
    /\ lastAlert < MaxAlerts
    /\ lastAlert' = lastAlert + 1
    /\ alerts' = [alerts EXCEPT ![lastAlert + 1] = NewAlert(s)]
    /\ thread' = [thread EXCEPT ![t] = [Idle EXCEPT !.op = "create", !.pc = "ensure",
                                                    !.on = lastAlert + 1]]
    /\ UNCHANGED <<actions, reports, broker, mu, faults>>

\* The expiry date of a signal that has one goes by.
FallDue(i) ==
    /\ i \in Stored
    /\ alerts[i].sig.expires /\ alerts[i].due = 0
    /\ alerts' = [alerts EXCEPT ![i].due = 1]
    /\ UNCHANGED <<actions, lastAlert, reports, broker, thread, mu, faults>>

\* mutant: a read of the queue does not look for unprojected alerts.
FirstStepNoBackfill ==
    [read |-> "retire", record |-> "lock", except |-> "lock", ignore |-> "retire",
     override |-> "retire", execute |-> "ensure", skip |-> "ensure", dismiss |-> "ensure"]

\* Which step of its handler a request starts with.
FirstStep == [read |-> "expire", record |-> "lock", except |-> "lock",
              ignore |-> "retire", override |-> "retire",
              execute |-> "ensure", skip |-> "ensure", dismiss |-> "ensure"]
Targets(op) ==
    CASE op = "read" -> {0}
      [] op \in {"record", "except", "ignore", "override"} -> Rows
      [] op \in {"execute", "skip", "dismiss"} -> Stored

Request(t, op, i) ==
    /\ At(t, "idle")
    /\ op \in Requests
    /\ i \in Targets(op)
    /\ thread' = [thread EXCEPT ![t] = [Idle EXCEPT !.op = op, !.pc = FirstStep[op],
                                                    !.on = i]]
    /\ UNCHANGED <<tables, broker, mu, faults>>

\* The handler's own ensureSecurityActionForAlertID, and where it goes next:
\* a purchase is recorded by the funded path, a weight proposal is dropped by
\* the queue's, everything else is decided here.
Ensure(t) ==
    /\ At(t, "ensure")
    /\ LET i == thread[t].on IN
       /\ actions' = Ensured(i)
       /\ \/ /\ thread[t].op = "create"
             /\ thread' = [thread EXCEPT ![t] = Idle]
          \/ /\ thread[t].op = "dismiss"
             /\ Goto(t, "check")
          \/ /\ thread[t].op = "execute"
             /\ thread' = IF Intent(i) = "DEPLOY" \/ Weight(i)
                          THEN [thread EXCEPT ![t].op = "decide", ![t].pc = "lock"]
                          ELSE [thread EXCEPT ![t].pc = "insert"]
          \/ /\ thread[t].op = "skip"
             /\ thread' = IF Weight(i)
                          THEN [thread EXCEPT ![t].op = "ignore", ![t].pc = "retire"]
                          ELSE [thread EXCEPT ![t].pc = "check"]
    /\ UNCHANGED <<alerts, lastAlert, reports, broker, mu, faults>>

-----------------------------------------------------------------------------
(* Reading the queue, which also maintains it                              *)

Overdue == {i \in Stored : alerts[i].active = 1 /\ alerts[i].due = 1 /\ Intent(i) # "EXIT"}

\* resolveExpiredAlerts, first statement.
ExpireAlerts(t) ==
    /\ At(t, "expire")
    /\ alerts' = Resolved(Overdue, "EXPIRED")
    /\ Goto(t, IF Overdue = {} THEN "list" ELSE "expireActions")
    /\ UNCHANGED <<actions, lastAlert, reports, broker, mu, faults>>

\* mutant: writes an alert's reason into the status column.
ExpireActionsByReason(t) ==
    /\ At(t, "expireActions")
    /\ actions' = Mark({i \in Rows : alerts[i].reason = "EXPIRED" /\ Status(i) \in Queued},
                       "RESOLVED")
    /\ Goto(t, "list")
    /\ UNCHANGED <<alerts, lastAlert, reports, broker, mu, faults>>

\* Its second statement.
ExpireActions(t) ==
    /\ At(t, "expireActions")
    /\ actions' = Mark({i \in Rows : alerts[i].reason = "EXPIRED" /\ Status(i) \in Queued},
                       "EXPIRED")
    /\ Goto(t, "list")
    /\ UNCHANGED <<alerts, lastAlert, reports, broker, mu, faults>>

\* backfillOpenSecurityActions: the active alerts, then one INSERT for each.
ListAlerts(t) ==
    /\ At(t, "list")
    /\ thread' = [thread EXCEPT ![t].todo = {i \in Stored : alerts[i].active = 1},
                                ![t].pc = "backfill"]
    /\ UNCHANGED <<tables, broker, mu, faults>>

Backfill(t) ==
    /\ At(t, "backfill")
    /\ \E i \in thread[t].todo :
          /\ \A j \in thread[t].todo : i <= j
          /\ actions' = Ensured(i)
          /\ thread' = [thread EXCEPT ![t].todo = @ \ {i}]
    /\ UNCHANGED <<alerts, lastAlert, reports, broker, mu, faults>>

BackfillEnds(t) ==
    /\ At(t, "backfill")
    /\ thread[t].todo = {}
    /\ Goto(t, "retire")
    /\ UNCHANGED <<tables, broker, mu, faults>>

\* Nothing stays queued whose alert is no longer active.
Orphaned == {i \in Rows : Status(i) \in Queued /\ alerts[i].active = 0}
Retire(t) ==
    /\ At(t, "retire")
    /\ actions' = Mark(Orphaned, "EXPIRED")
    /\ Goto(t, "unblock")
    /\ UNCHANGED <<alerts, lastAlert, reports, broker, mu, faults>>

\* mutants: reopens every unresolved action; reopens none.
UnblockUnresolved(t) ==
    /\ At(t, "unblock")
    /\ actions' = Mark({i \in Rows : Status(i) \in Unresolved}, "OPEN")
    /\ Goto(t, "rank")
    /\ UNCHANGED <<alerts, lastAlert, reports, broker, mu, faults>>
UnblockNone(t) ==
    /\ At(t, "unblock")
    /\ Goto(t, "rank")
    /\ UNCHANGED <<tables, broker, mu, faults>>

\* prioritiseSecurityActions: everything is reopened ...
Unblock(t) ==
    /\ At(t, "unblock")
    /\ actions' = Mark({i \in Rows : Status(i) = "BLOCKED"}, "OPEN")
    /\ Goto(t, "rank")
    /\ UNCHANGED <<alerts, lastAlert, reports, broker, mu, faults>>

Priority == [EXIT |-> 0, REDUCE |-> 1, DEPLOY |-> 2, REVIEW |-> 3]
StatusRank == [VARIANCE |-> 0, AWAITING_STATEMENT |-> 1, OVERRIDDEN |-> 2, OPEN |-> 3]
\* The order within a scope; `no' stands for created_at and the action's id.
Ahead(i, j) ==
    \/ Priority[Intent(i)] < Priority[Intent(j)]
    \/ /\ Intent(i) = Intent(j)
       /\ \/ StatusRank[Status(i)] < StatusRank[Status(j)]
          \/ Status(i) = Status(j) /\ actions[i].no < actions[j].no

\* ... the rows are read, and all but the first of each scope ...
Rank(t) ==
    /\ At(t, "rank")
    /\ LET queue == {i \in Rows : Status(i) \in Unresolved \ {"BLOCKED"}} IN
       thread' = [thread EXCEPT
          ![t].todo = {i \in queue : \E j \in queue : Ticker(i) = Ticker(j) /\ Ahead(j, i)},
          ![t].pc = "block"]
    /\ UNCHANGED <<tables, broker, mu, faults>>

\* mutant: blocks without looking at the status again.
BlockAny(t) ==
    /\ At(t, "block")
    /\ \E i \in thread[t].todo :
          /\ actions' = Mark({i}, "BLOCKED")
          /\ thread' = [thread EXCEPT ![t].todo = @ \ {i}]
    /\ UNCHANGED <<alerts, lastAlert, reports, broker, mu, faults>>

\* ... are blocked one by one, if they are still open.  Scopes come in map
\* order, so the order is left open.
Block(t) ==
    /\ At(t, "block")
    /\ \E i \in thread[t].todo :
          /\ actions' = Mark({i} \cap {j \in Ids : Status(j) = "OPEN"}, "BLOCKED")
          /\ thread' = [thread EXCEPT ![t].todo = @ \ {i}]
    /\ UNCHANGED <<alerts, lastAlert, reports, broker, mu, faults>>

\* projectOpenDeploymentActions returns to its caller, who goes on to the row it
\* is about.  A request to record keeps the mutex, the others took it for the
\* projection alone.
Projected(t) ==
    IF thread[t].op \in {"read", "policy"} THEN Return(t)
    ELSE /\ thread' = [thread EXCEPT ![t].pc = "load", ![t].synced = FALSE]
         /\ mu' = IF thread[t].op \in {"execute", "skip"} /\ mu = t THEN Nobody ELSE mu

\* The queue is in order; this was the projection's own pass over it or the
\* caller's before it.
BlockEnds(t) ==
    /\ At(t, "block")
    /\ thread[t].todo = {}
    /\ IF thread[t].synced THEN Projected(t)
       ELSE /\ Goto(t, IF thread[t].op \in {"ignore", "override"} THEN "load" ELSE "project")
            /\ UNCHANGED mu
    /\ UNCHANGED <<tables, broker, faults>>

-----------------------------------------------------------------------------
(* The weight policy, which every projection of the queue runs             *)

\* closeWeightActions for the subjects K.
Withdraw(K) ==
    LET W == {i \in Rows : Weight(i) /\ Ticker(i) \in K /\ Status(i) \in Queued} IN
    /\ W # {}
    /\ actions' = Mark(W, "NOT_APPLICABLE")
    /\ alerts' = Resolved(W, "RESOLVED")
    /\ UNCHANGED <<lastAlert, reports>>

\* weightConflict: the subject has a reduction, an exit or a trade under way.
Conflict(k) ==
    \E i \in Rows :
        /\ Ticker(i) = k
        /\ \/ Status(i) \in {"AWAITING_STATEMENT", "VARIANCE"}
           \/ Status(i) \in Unresolved /\ ~Weight(i) /\ Intent(i) \in {"REDUCE", "EXIT"}

\* createWeightProposal: alert and action in one transaction, one proposal of a
\* subject at a time.
Propose(s) ==
    /\ s.weight
    /\ lastAlert < MaxAlerts
    /\ s.intent = "REDUCE" => ~Conflict(s.ticker)
    /\ ~\E i \in Rows : alerts[i].sig = s /\ Status(i) \in Unresolved
    /\ lastAlert' = lastAlert + 1
    /\ alerts' = [alerts EXCEPT ![lastAlert + 1] = NewAlert(s)]
    /\ actions' = [actions EXCEPT ![lastAlert + 1].status = "OPEN",
                                  ![lastAlert + 1].no = Cardinality(Rows) + 1]
    /\ UNCHANGED reports

Tickers == {s.ticker : s \in Signals}
PolicySync ==
    \/ UNCHANGED tables
    \/ \E K \in SUBSET Tickers : Withdraw(K)
    \/ \E s \in Signals : Propose(s)

\* projectOpenDeploymentActions, under the mutex: the policy's transaction, or
\* the one that withdraws every proposal when its evidence is missing, and the
\* queue is put in order again; with weight management off neither.
Project(t) ==
    /\ At(t, "project")
    /\ mu \in {Nobody, t}
    /\ \/ /\ Managed
          /\ PolicySync
          /\ thread' = [thread EXCEPT ![t].pc = "unblock", ![t].synced = TRUE]
          /\ mu' = t
       \/ /\ UNCHANGED tables
          /\ Projected(t)
    /\ UNCHANGED <<broker, faults>>

\* The transaction of a switch of weight management.
Switched == mu = Nobody /\ Withdraw(Tickers)

\* The worker's projection, every five minutes, and the one that follows a switch.
PolicyWorker(t) ==
    /\ At(t, "idle")
    /\ Managed
    /\ UNCHANGED tables \/ Switched
    /\ thread' = [thread EXCEPT ![t] = [Idle EXCEPT !.op = "policy", !.pc = "project"]]
    /\ UNCHANGED <<broker, mu, faults>>

-----------------------------------------------------------------------------
(* The operator answers                                                    *)

\* mutant: the handler does not take the mutex.
LockNothing(t) ==
    /\ At(t, "lock")
    /\ Goto(t, "retire")
    /\ UNCHANGED <<tables, broker, mu, faults>>

\* recordSecurityActionExecutionRequest holds the mutex to its end.
Lock(t) ==
    /\ At(t, "lock")
    /\ mu = Nobody
    /\ mu' = t
    /\ Goto(t, "retire")
    /\ UNCHANGED <<tables, broker, faults>>

\* mutant: an Exit can be ignored like anything else.
AdmitsIgnoredExit(t) ==
    LET i == thread[t].on IN
    CASE thread[t].op = "override" -> Status(i) \in {"OPEN", "OVERRIDDEN"} /\ Intent(i) = "EXIT"
      [] thread[t].op # "override" -> Status(i) = "OPEN"

\* The guards each handler puts to the row it has just read.
Admits(t) ==
    LET i == thread[t].on IN
    CASE thread[t].op = "record"   -> /\ Status(i) = "OPEN" /\ Intent(i) # "REVIEW"
                                      /\ Weight(i) => ~Conflict(Ticker(i))
      [] thread[t].op = "decide"   -> Status(i) = "OPEN" /\ ~Weight(i)
      [] thread[t].op = "except"   -> /\ Status(i) \in Queued /\ Intent(i) = "DEPLOY"
                                      /\ ~alerts[i].sig.external
      [] thread[t].op = "ignore"   -> Status(i) = "OPEN" /\ Intent(i) # "EXIT"
      [] thread[t].op = "override" -> Status(i) \in {"OPEN", "OVERRIDDEN"} /\ Intent(i) = "EXIT"
      [] thread[t].op \in {"execute", "skip"} ->
                                      Status(i) \notin Terminal \cup {"AWAITING_STATEMENT"}

\* loadOpenSecurityAction and the answer 409.
Load(t) ==
    /\ At(t, "load")
    /\ IF Admits(t)
       THEN /\ thread' = [thread EXCEPT ![t].saw = Status(thread[t].on), ![t].pc = "commit"]
            /\ UNCHANGED mu
       ELSE Return(t)
    /\ UNCHANGED <<tables, broker, faults>>

\* The columns an execution report sets: an external holding needs no statement.
\* The baseline is the statement the quantities were captured from.
Reported(i) ==
    LET external == alerts[i].sig.external IN
    [actions EXCEPT ![i].status = IF external THEN "CONFIRMED" ELSE "AWAITING_STATEMENT",
                    ![i].base = IF external THEN 0 ELSE latest,
                    ![i].sync = syncs,
                    ![i].reported = 1]
CountReport(i) == [reports EXCEPT ![i] = IF @ < 2 THEN @ + 1 ELSE @]

\* The transaction of record: UPDATE ... WHERE id = ? AND status = <as loaded>,
\* rolled back when the row has changed.
CommitRecord(t) ==
    /\ At(t, "commit")
    /\ thread[t].op \in {"record", "decide", "except"}
    /\ LET i == thread[t].on IN
       IF Status(i) = thread[t].saw
       THEN /\ actions' = Reported(i)
            /\ alerts' = Resolved({i}, "RESOLVED")
            /\ reports' = CountReport(i)
            /\ UNCHANGED lastAlert
       ELSE UNCHANGED tables
    /\ Return(t)
    /\ UNCHANGED <<broker, faults>>

\* The transactions of ignore and override: UPDATE ... WHERE id = ?.
CommitAnswer(t, op, s) ==
    /\ At(t, "commit")
    /\ thread[t].op = op
    /\ actions' = Mark({thread[t].on}, s)
    /\ alerts' = Resolved({thread[t].on}, "RESOLVED")
    /\ Return(t)
    /\ UNCHANGED <<lastAlert, reports, broker, faults>>
CommitIgnore(t) == CommitAnswer(t, "ignore", "IGNORED")
CommitOverride(t) == CommitAnswer(t, "override", "OVERRIDDEN")

-----------------------------------------------------------------------------
(* Decisions and dismissals by alert (backend/alerts.go)                   *)

\* mutant: a dismissal does not ask for an Exit, only a decision does.
CheckSkip(t) ==
    /\ At(t, "check")
    /\ LET i == thread[t].on IN
       IF Intent(i) = "EXIT" /\ Status(i) \in Unresolved /\ thread[t].op = "skip"
       THEN Return(t)
       ELSE /\ Goto(t, IF thread[t].op = "dismiss" THEN "resolve" ELSE "insert")
            /\ UNCHANGED mu
    /\ UNCHANGED <<tables, broker, faults>>

\* activeExitActionForAlert: an Exit is neither ignored nor dismissed.
Check(t) ==
    /\ At(t, "check")
    /\ LET i == thread[t].on IN
       IF Intent(i) = "EXIT" /\ Status(i) \in Unresolved
       THEN Return(t)
       ELSE /\ Goto(t, IF thread[t].op = "dismiss" THEN "resolve" ELSE "insert")
            /\ UNCHANGED mu
    /\ UNCHANGED <<tables, broker, faults>>

\* INSERT INTO decisions.
Decide(t) ==
    /\ At(t, "insert")
    /\ reports' = IF thread[t].op = "execute" THEN CountReport(thread[t].on) ELSE reports
    /\ Goto(t, "resolve")
    /\ UNCHANGED <<alerts, actions, lastAlert, broker, mu, faults>>

\* UPDATE alerts; a dismissal is done, a decision goes on to the queue.
Resolve(t) ==
    /\ At(t, "resolve")
    /\ LET i == thread[t].on IN
       IF thread[t].op = "dismiss"
       THEN /\ alerts' = Resolved({i}, IF alerts[i].reason = "NONE" THEN "RESOLVED"
                                       ELSE alerts[i].reason)
            /\ Return(t)
       ELSE /\ alerts' = Resolved({i}, "RESOLVED")
            /\ Goto(t, "project")
            /\ UNCHANGED mu
    /\ UNCHANGED <<actions, lastAlert, reports, broker, faults>>

\* A decision already stored is not refused because that UPDATE failed.
ResolveFails(t) ==
    /\ At(t, "resolve")
    /\ thread[t].op # "dismiss"
    /\ faults < MaxFaults
    /\ faults' = faults + 1
    /\ Goto(t, "project")
    /\ UNCHANGED <<tables, broker, mu>>

\* syncLegacyDecisionIntoSecurityAction: UPDATE ... WHERE alert_id = ?.
CommitDecision(t) ==
    /\ At(t, "commit")
    /\ thread[t].op \in {"execute", "skip"}
    /\ LET i == thread[t].on IN
       actions' = IF thread[t].op = "execute" THEN Reported(i)
                  ELSE [actions EXCEPT ![i].status = "IGNORED", ![i].base = 0,
                                       ![i].sync = syncs]
    /\ Return(t)
    /\ UNCHANGED <<alerts, lastAlert, reports, broker, faults>>

-----------------------------------------------------------------------------
(* The statement answers                                                   *)

\* The import's transaction: never an older statement than the latest.
Import(t) ==
    /\ At(t, "idle")
    /\ "import" \in Requests
    /\ syncs < MaxImports
    /\ syncs' = syncs + 1
    /\ \E d \in {latest, latest + 1} \ {0} :
          /\ latest' = d
          /\ thread' = [thread EXCEPT ![t] = [Idle EXCEPT !.op = "import", !.pc = "candidates",
                                                          !.date = d, !.sync = syncs + 1]]
    /\ UNCHANGED <<tables, mu, faults>>

\* mutant: a correction of the baseline statement counts as a later one.
CandidateSameDay(i, d, n) ==
    /\ \/ Status(i) = "AWAITING_STATEMENT"
       \/ Status(i) \in {"CONFIRMED", "VARIANCE"} /\ actions[i].stmt = d
    /\ actions[i].sync < n
    /\ actions[i].base <= d

\* The actions a statement may settle: recorded before it was imported, on
\* quantities of an older one; those it settled itself are judged again.
Candidate(i, d, n) ==
    /\ \/ Status(i) = "AWAITING_STATEMENT"
       \/ Status(i) \in {"CONFIRMED", "VARIANCE"} /\ actions[i].stmt = d
    /\ actions[i].sync < n
    /\ actions[i].base < d

ListCandidates(t) ==
    /\ At(t, "candidates")
    /\ thread' = [thread EXCEPT
          ![t].todo = {i \in Rows : Candidate(i, thread[t].date, thread[t].sync)},
          ![t].pc = "judge"]
    /\ UNCHANGED <<tables, broker, mu, faults>>

\* UPDATE security_actions ... WHERE id = ?; one that cannot be read is left.
Judge(t) ==
    /\ At(t, "judge")
    /\ \E i \in thread[t].todo :
          /\ \/ \E verdict \in {"CONFIRMED", "VARIANCE"} :
                   actions' = [actions EXCEPT ![i].status = verdict,
                                              ![i].stmt = thread[t].date]
             \/ UNCHANGED actions
          /\ thread' = [thread EXCEPT ![t].todo = @ \ {i}]
    /\ UNCHANGED <<alerts, lastAlert, reports, broker, mu, faults>>

JudgeEnds(t) ==
    /\ At(t, "judge")
    /\ thread[t].todo = {}
    /\ Return(t)
    /\ UNCHANGED <<tables, broker, faults>>

-----------------------------------------------------------------------------
(* What else happens                                                       *)

\* A fund's management mode changes (updateETFManagementMode, one transaction),
\* not while a recorded trade waits.
ChangeMode(k) ==
    LET mine == {i \in Stored : Ticker(i) = k /\ ~Weight(i)} IN
    /\ k \in Etfs
    /\ ~\E i \in Rows : Ticker(i) = k /\ Status(i) \in {"AWAITING_STATEMENT", "VARIANCE"}
    /\ actions' = Mark({i \in mine : Status(i) \in Queued \cup {"OVERRIDDEN"}},
                       "NOT_APPLICABLE")
    /\ alerts' = Resolved({i \in mine : alerts[i].active = 1 /\ actions[i].reported = 0}, "RESOLVED")
    /\ UNCHANGED <<lastAlert, reports, broker, thread, mu, faults>>

\* A statement fails or an answer outside the model refuses: the handler stops
\* where it is and keeps what it has committed.
Fail(t) ==
    /\ ~At(t, "idle")
    /\ faults < MaxFaults
    /\ faults' = faults + 1
    /\ Return(t)
    /\ UNCHANGED <<tables, broker>>

\* The process dies with every handler in flight.
Crash ==
    /\ faults < MaxFaults
    /\ faults' = faults + 1
    /\ thread' = [t \in Threads |-> Idle]
    /\ mu' = Nobody
    /\ UNCHANGED <<tables, broker>>

Refresh(t) == Retire(t) \/ Unblock(t) \/ Rank(t) \/ Block(t) \/ BlockEnds(t)
Reading(t) == \/ ExpireAlerts(t) \/ ExpireActions(t) \/ ListAlerts(t)
              \/ Backfill(t) \/ BackfillEnds(t)
Answering(t) == \/ Lock(t) \/ Project(t) \/ Load(t)
                \/ CommitRecord(t) \/ CommitIgnore(t) \/ CommitOverride(t)
Deciding(t) == Ensure(t) \/ Check(t) \/ Decide(t) \/ Resolve(t) \/ CommitDecision(t)
Reconciling(t) == ListCandidates(t) \/ Judge(t) \/ JudgeEnds(t)
Step(t) == Refresh(t) \/ Reading(t) \/ Answering(t) \/ Deciding(t) \/ Reconciling(t)

\* A polling page only reads; any other client sends what it likes.
Clients(t) == \/ Request(t, "read", 0)
              \/ /\ t \notin Readers
                 /\ \/ \E s \in Signals : CreateAlert(t, s)
                    \/ \E op \in DOMAIN FirstStep \ {"read"}, i \in Ids : Request(t, op, i)
                    \/ Import(t)
                    \/ PolicyWorker(t)
Environment == \/ \E i \in Ids : FallDue(i)
               \/ \E k \in Etfs : ChangeMode(k)
               \/ \E t \in Threads : Fail(t) \/ ResolveFails(t)
               \/ Crash

Next == (\E t \in Threads : Step(t) \/ Clients(t)) \/ Environment
Spec == Init /\ [][Next]_vars

\* Handlers run on, the mutex is handed over, and some page polls for ever;
\* nobody owes an answer, a statement or an alert.
FairSpec ==
    /\ Spec
    /\ \A t \in Threads : WF_vars(Step(t)) /\ SF_vars(Lock(t)) /\ SF_vars(Project(t))
    /\ \A t \in Readers : WF_vars(Request(t, "read", 0))

-----------------------------------------------------------------------------
(* What the queue promises (DOCS/system/SIGNAL_AND_ACTION_CONTRACT.md)     *)

Alert == [sig : Signals \cup {NoSignal}, active : 0..1,
          reason : {"NONE", "EXPIRED", "RESOLVED"}, due : 0..1]
Action == [status : Statuses, no : Nat, reported : 0..1,
           base : 0..MaxImports, sync : 0..MaxImports, stmt : 0..MaxImports]
Ops == {"none", "create", "read", "record", "except", "decide", "ignore", "override",
        "execute", "skip", "dismiss", "import", "policy"}
Pcs == {"idle", "ensure", "expire", "expireActions", "list", "backfill", "lock", "retire",
        "unblock", "rank", "block", "project", "load", "commit", "check", "insert",
        "resolve", "candidates", "judge"}
Handler == [op : Ops, pc : Pcs, on : 0..MaxAlerts, todo : SUBSET Ids, saw : Statuses,
            date : 0..MaxImports, sync : 0..MaxImports, synced : BOOLEAN]
\* The tables, the handlers and the mutex hold what the schema and the code
\* allow; a handler's target is stored before the handler acts on it.
TypeOK ==
    /\ alerts \in [Ids -> Alert]
    /\ actions \in [Ids -> Action]
    /\ lastAlert \in 0..MaxAlerts
    /\ \A i \in Ids : i <= lastAlert <=> alerts[i].sig # NoSignal
    /\ syncs \in 0..MaxImports /\ latest \in 0..syncs
    /\ thread \in [Threads -> Handler]
    /\ \A t \in Threads : thread[t].on <= lastAlert /\ thread[t].todo \subseteq Stored
    /\ mu \in Threads \cup {Nobody}
    /\ reports \in [Ids -> 0..2]
    /\ faults \in 0..MaxFaults

\* An Exit never disappears by itself: it is closed without a statement only
\* after the operator stored an execution decision on it (save for a fund
\* whose management mode changed).
ExitNeverSilent ==
    \A i \in Stored :
        /\ Intent(i) = "EXIT"
        /\ Ticker(i) \notin Etfs
        /\ Status(i) \in {"IGNORED", "EXPIRED", "NOT_APPLICABLE"}
        => reports[i] > 0

\* Every report on i looks at the status again, under the mutex: purchases and
\* weight proposals always; a sale may also be reported by alert, which does not.
Conditional(i) == Intent(i) = "DEPLOY" \/ Weight(i) \/ "execute" \notin Requests

\* However requests, polls and imports interleave, what is reported by a
\* conditional update is reported at most once: what has left the queue is
\* never put back by a late block.
NeverReportedTwice == \A i \in Stored : Conditional(i) => reports[i] <= 1

\* An action that was answered or settled never returns to the queue.
NeverRequeued ==
    [][\A i \in Ids : Status(i) \notin Queued \cup {"NONE"} => Status(i)' \notin Queued]_vars

\* A statement's verdict on an action rests on a later statement than the one
\* its quantities were captured from, unless it was reported a second time.
VerdictIsLater ==
    \A i \in Rows :
        /\ reports[i] <= 1
        /\ Status(i) = "VARIANCE" \/ (Status(i) = "CONFIRMED" /\ ~alerts[i].sig.external)
        => actions[i].base < actions[i].stmt /\ actions[i].stmt <= latest

\* A weight reduction is never recorded while another trade on the security
\* awaits its statement that was itself recorded by a conditional update.
WeightWaits ==
    [][\A i \in Stored :
          /\ Weight(i)
          /\ Status(i) # "AWAITING_STATEMENT" /\ Status(i)' = "AWAITING_STATEMENT"
          => ~\E j \in Rows \ {i} : /\ Ticker(j) = Ticker(i) /\ Conditional(j)
                                    /\ Status(j) = "AWAITING_STATEMENT"]_vars

\* "At most one outstanding weight proposal per security": one that is queued or
\* whose execution awaits its statement, whoever ran the policy how often.
Outstanding(i) == Weight(i) /\ Status(i) \in Queued \cup {"AWAITING_STATEMENT"}
OneProposal ==
    \A i, j \in Rows :
        Outstanding(i) /\ Outstanding(j) /\ alerts[i].sig = alerts[j].sig => i = j

\* Every active alert gets its action, although the handler that stored the
\* alert may have stopped before projecting it.
EveryAlertQueued ==
    \A i \in Ids : (i \in Stored /\ alerts[i].active = 1)
                      ~> (i \in Rows \/ alerts[i].active = 0)

\* The queue does not wedge: in the end no action stays blocked that has no
\* unresolved rival in its scope, and none stays queued without its alert.
Alone(i) == ~\E j \in Rows \ {i} : Ticker(j) = Ticker(i) /\ Status(j) \in Unresolved
ReleasedInTheEnd ==
    <>[](\A i \in Rows : /\ Alone(i) => Status(i) # "BLOCKED"
                         /\ alerts[i].active = 0 => Status(i) \notin Queued)

(* What its documents promise and concurrent handlers break               *)

\* "An open Exit cannot be dismissed, ignored, or allowed to disappear by
\* expiry": a decision deactivates the alert before it reaches the queue.
ExitNeverExpires == \A i \in Stored : Intent(i) = "EXIT" => Status(i) # "EXPIRED"

\* "The next broker statement either changes it to CONFIRMED or VARIANCE": an
\* answer that loaded the action earlier overwrites the report.
RecordedStaysLocked ==
    [][\A i \in Ids :
          Status(i) = "AWAITING_STATEMENT" =>
             Status(i)' \in {"AWAITING_STATEMENT", "CONFIRMED", "VARIANCE"}]_vars

\* What remains of that: a report gives way to a verdict, or to an ignore, an
\* override or a skip by an operator whose handler loaded the row before it was
\* reported, and to nothing else (no poll, policy, expiry or change of mode).
OlderAnswer(i) ==
    \E t \in Threads :
        /\ CommitIgnore(t) \/ CommitOverride(t) \/ CommitDecision(t)
        /\ thread[t].on = i /\ thread[t].saw # "AWAITING_STATEMENT"
GivesWay(i) ==
    Status(i) = "AWAITING_STATEMENT" =>
        \/ Status(i)' \in {"AWAITING_STATEMENT", "CONFIRMED", "VARIANCE"}
        \/ OlderAnswer(i)
ReportGivesWay == [][\A i \in Stored : GivesWay(i)]_vars
=============================================================================
