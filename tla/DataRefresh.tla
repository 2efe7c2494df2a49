---------------------------- MODULE DataRefresh ----------------------------
(* The data-refresh scheduler and the manual refresh routes of the backend  *)
(* (data_refresh.go, and the handlers in analysis.go, regimes.go and        *)
(* commodity_price_history.go) sharing the leases kept in the table         *)
(* data_refresh_runs.                                                       *)
(*                                                                          *)
(* Of the table the model keeps, for each dataset, the rows some statement  *)
(* can still read or change: the RUNNING row (a unique index allows one),   *)
(* and the settled row with the latest started_at. A row carries the time   *)
(* since its started_at, so the state space is finite while days go by.     *)
(* Time is counted in units; a statement takes none, a refresh may take any.*)
(* FAILED stands for FAILED, PARTIAL and SKIPPED, which the scheduler does  *)
(* not tell apart. Automation is enabled; what a refresh fetches is left    *)
(* out.                                                                     *)
EXTENDS Integers, Sequences

CONSTANTS
    Tasks,      \* the datasets in the order a cycle takes them
    Manual,     \* those with a manual route that takes the lease
    Deaf,       \* those whose refresh ignores the cancellation of its context
    Weekly,     \* those refreshed weekly; the others are refreshed daily
    DueHour,    \* for each dataset the hour of the day it is due from
    Handlers,   \* requests to the manual routes in progress at a time
    Scheduler,  \* the automation goroutine
    Nobody,
    Task, Lease, Poll, Cycle, Retry, Day, Week,   \* the durations, in units
    MaxFaults   \* crashes, lost clients and timeouts in a behaviour

Datasets == {Tasks[i] : i \in DOMAIN Tasks}
Workers == Handlers \union {Scheduler}

ASSUME Durations ==
    /\ {Task, Lease, Poll, Cycle, Retry, Day, Week} \subseteq Nat \ {0}
    /\ MaxFaults \in Nat
    /\ Lease < Day /\ Retry =< Day /\ Day =< Week

ASSUME Roles ==
    /\ Tasks \in Seq(Datasets) /\ Tasks # <<>>
    /\ Manual \subseteq Datasets /\ Deaf \subseteq Datasets
    /\ DueHour \in [Datasets -> 0..Day - 1]
    /\ Scheduler \notin Handlers /\ Nobody \notin Workers

VARIABLES
    clock,      \* hour of the day
    lease,      \* for each dataset its RUNNING row, or NoRow
    last,       \* for each dataset its latest settled row, or NoRow
    worker,     \* for each worker: where it is, its dataset, the age of its run
    todo,       \* the datasets the cycle has yet to look at
    cycle,      \* time since the cycle started, which is its idea of now
    task,       \* time the scheduler's refresh has been running
    ticker,     \* time until the ticker fires; 0 before it is created
    pending,    \* a tick waits in the ticker's channel
    faults

rows == <<lease, last>>
timer == <<cycle, task, ticker, pending>>
vars == <<clock, rows, worker, todo, timer, faults>>

\* Beyond this age no guard tells one age of a run of d from another.
Horizon(d) == Cycle + IF d \in Weekly THEN Week ELSE Day
Ages == 0..Cycle + Week
Older(n, most) == IF n < most THEN n + 1 ELSE n

NoRow == [status |-> "none", age |-> 0, by |-> Nobody]
Running == [status : {"RUNNING"}, age : Ages, by : Workers \union {Nobody}]
Settled == [status : {"COMPLETE", "FAILED"}, age : Ages, by : Workers \union {Nobody}]

\* A worker with nothing to do: the scheduler turns to its next dataset.
Free(w) == [at |-> IF w = Scheduler THEN "look" ELSE "idle", dataset |-> Head(Tasks), age |-> 0]

\* The process has just started: the worker looks for due work at once.
Init ==
    /\ clock = 0
    /\ lease = [d \in Datasets |-> NoRow] /\ last = [d \in Datasets |-> NoRow]
    /\ worker = [w \in Workers |-> Free(w)]
    /\ todo = Tasks
    /\ cycle = 0 /\ task = 0 /\ ticker = 0 /\ pending = FALSE
    /\ faults = 0

-----------------------------------------------------------------------------
\* ORDER BY started_at DESC, id DESC: nothing is inserted while a row is
\* RUNNING, so of two rows as old as each other the RUNNING one is later.
Latest(d) ==
    IF lease[d] # NoRow /\ (last[d] = NoRow \/ lease[d].age =< last[d].age)
    THEN lease[d] ELSE last[d]

\* The latest settled row once the RUNNING row of d settles as row.
LatestSettled(d, row) ==
    IF last[d] = NoRow \/ row.age =< last[d].age THEN row ELSE last[d]

\* The day an age falls on, counted from today; the cycle's hour and its day.
DayOf(age) == (clock - age) \div Day
HourOf(age) == (clock - age) % Day

\* mutant: a RUNNING row is left to whoever holds it.
DueSettled(d) ==
    LET row == Latest(d)  since == row.age - cycle IN
    /\ HourOf(cycle) >= DueHour[d]
    /\ \/ row = NoRow
       \/ row.status = "FAILED" /\ since >= Retry
       \/ row.status = "COMPLETE" /\ d \in Weekly /\ since >= Week
       \/ row.status = "COMPLETE" /\ d \notin Weekly /\ DayOf(row.age) # DayOf(cycle)

\* dataRefreshDue, asked with the time the cycle started.
Due(d) ==
    LET row == Latest(d)  since == row.age - cycle IN
    /\ HourOf(cycle) >= DueHour[d]
    /\ \/ row = NoRow
       \/ row.status = "RUNNING" /\ since > Lease
       \/ row.status = "FAILED" /\ since >= Retry
       \/ row.status = "COMPLETE" /\ d \in Weekly /\ since >= Week
       \/ row.status = "COMPLETE" /\ d \notin Weekly /\ DayOf(row.age) # DayOf(cycle)

\* The context of the scheduler's refresh: the task's limit and the cycle's.
TimedOut == task >= Task \/ cycle >= Cycle

-----------------------------------------------------------------------------
Move(w, at) == worker' = [worker EXCEPT ![w].at = at]
Leave(w) ==
    /\ worker' = [worker EXCEPT ![w] = Free(w)]
    /\ task' = IF w = Scheduler THEN 0 ELSE task

\* A ticker channel holds one tick; the ticker is created after the first cycle.
Sleep ==
    /\ Move(Scheduler, "sleep")
    /\ ticker' = IF ticker = 0 THEN Poll ELSE ticker
    /\ cycle' = 0
    /\ UNCHANGED <<clock, rows, todo, task, pending, faults>>

Wake ==
    /\ worker[Scheduler].at = "sleep" /\ pending
    /\ Move(Scheduler, "look")
    /\ todo' = Tasks /\ pending' = FALSE
    /\ UNCHANGED <<clock, rows, cycle, task, ticker, faults>>

\* The next dataset of the cycle: skipped when it is not due, or when the
\* cycle's context is over and the query fails.
Look ==
    /\ worker[Scheduler].at = "look" /\ todo # <<>>
    /\ todo' = Tail(todo)
    /\ IF cycle < Cycle /\ Due(Head(todo))
       THEN worker' = [worker EXCEPT ![Scheduler] =
                           [at |-> "expire", dataset |-> Head(todo), age |-> cycle]]
       ELSE UNCHANGED worker
    /\ UNCHANGED <<clock, rows, timer, faults>>

CycleEnds == worker[Scheduler].at = "look" /\ todo = <<>> /\ Sleep

\* A manual route is called.
Post(h, d) ==
    /\ worker[h].at = "idle" /\ d \in Manual
    /\ worker' = [worker EXCEPT ![h] = [at |-> "expire", dataset |-> d, age |-> 0]]
    /\ UNCHANGED <<clock, rows, todo, timer, faults>>

-----------------------------------------------------------------------------
\* mutant: every RUNNING row of the dataset is taken for abandoned.
OverdueAny(d, w) == lease[d] # NoRow

\* mutant: no lease is ever given up.
OverdueNever(d, w) == FALSE

\* started_at < cutoff, the cutoff counted from the caller's now.
Overdue(d, w) == lease[d] # NoRow /\ lease[d].age - worker[w].age > Lease

\* mutant: the row is closed, its status left.
ExpireUnmarked(w) ==
    /\ worker[w].at = "expire"
    /\ Move(w, "insert")
    /\ LET d == worker[w].dataset IN
       IF Overdue(d, w)
       THEN /\ last' = [last EXCEPT ![d] = LatestSettled(d, lease[d])]
            /\ lease' = [lease EXCEPT ![d] = NoRow]
       ELSE UNCHANGED rows
    /\ UNCHANGED <<clock, todo, timer, faults>>

\* beginDataRefreshRun, its first statement: an overdue lease is failed.
Expire(w) ==
    /\ worker[w].at = "expire"
    /\ Move(w, "insert")
    /\ LET d == worker[w].dataset IN
       IF Overdue(d, w)
       THEN /\ last' = [last EXCEPT ![d] =
                           LatestSettled(d, [lease[d] EXCEPT !.status = "FAILED"])]
            /\ lease' = [lease EXCEPT ![d] = NoRow]
       ELSE UNCHANGED rows
    /\ UNCHANGED <<clock, todo, timer, faults>>

\* Its second: the unique index refuses a second RUNNING row.
Insert(w) ==
    /\ worker[w].at = "insert"
    /\ LET d == worker[w].dataset IN
       IF lease[d] = NoRow
       THEN /\ lease' = [lease EXCEPT ![d] =
                            [status |-> "RUNNING", age |-> worker[w].age, by |-> w]]
            /\ Move(w, "work") /\ UNCHANGED task
       ELSE Leave(w) /\ UNCHANGED lease
    /\ UNCHANGED <<clock, last, todo, cycle, ticker, pending, faults>>

\* The refresh ends and its outcome is written: by id, whatever has become of
\* the row meanwhile.
Finish(w, outcome) ==
    /\ worker[w].at = "work"
    /\ w = Scheduler => ~TimedOut
    /\ Leave(w)
    /\ LET d == worker[w].dataset
           row == [status |-> outcome, age |-> worker[w].age, by |-> Nobody] IN
       /\ lease' = IF lease[d].by = w THEN [lease EXCEPT ![d] = NoRow] ELSE lease
       /\ last' = IF lease[d].by = w THEN [last EXCEPT ![d] = LatestSettled(d, row)]
                  ELSE IF last[d].by = w THEN [last EXCEPT ![d] = row]
                  ELSE last
    /\ UNCHANGED <<clock, todo, cycle, ticker, pending, faults>>

\* The worker is gone and its row stays as it is.
Orphan(W) ==
    LET orphan(row) == IF row.by \in W THEN [row EXCEPT !.by = Nobody] ELSE row IN
    /\ lease' = [d \in Datasets |-> orphan(lease[d])]
    /\ last' = [d \in Datasets |-> orphan(last[d])]

\* A statement fails, or the context is over, by the clock or because the client
\* is gone: the run is not begun, or its outcome is not written.
Abandon(w) ==
    /\ worker[w].at \in {"expire", "insert", "work"}
    /\ \/ w = Scheduler /\ TimedOut /\ UNCHANGED faults
       \/ ~(w = Scheduler /\ TimedOut) /\ faults < MaxFaults /\ faults' = faults + 1
    /\ Leave(w)
    /\ Orphan({w})
    /\ UNCHANGED <<clock, todo, cycle, ticker, pending>>

-----------------------------------------------------------------------------
\* The process dies and starts again.
Crash ==
    /\ faults < MaxFaults /\ faults' = faults + 1
    /\ worker' = [w \in Workers |-> Free(w)]
    /\ Orphan(Workers)
    /\ todo' = Tasks
    /\ cycle' = 0 /\ task' = 0 /\ ticker' = 0 /\ pending' = FALSE
    /\ UNCHANGED clock

\* A unit of time goes by. The scheduler sleeps or refreshes; a refresh that
\* listens to its context is over at its limit, and reaching a limit is one of
\* the MaxFaults.
Tick ==
    LET at == worker[Scheduler].at
        deaf == worker[Scheduler].dataset \in Deaf
        limit == at = "work" /\ ~TimedOut /\ (task + 1 >= Task \/ cycle + 1 >= Cycle) IN
    /\ \A h \in Handlers : worker[h].at \in {"idle", "work"}
    /\ \/ at = "sleep" /\ ~pending
       \/ at = "work" /\ (deaf \/ ~TimedOut)
    /\ limit => faults < MaxFaults
    /\ faults' = IF limit THEN faults + 1 ELSE faults
    /\ clock' = (clock + 1) % Day
    /\ LET aged(d, row) == IF row = NoRow THEN row
                           ELSE [row EXCEPT !.age = Older(row.age, Horizon(d))] IN
       /\ lease' = [d \in Datasets |-> aged(d, lease[d])]
       /\ last' = [d \in Datasets |-> aged(d, last[d])]
    /\ worker' = [w \in Workers |->
                     IF worker[w].at # "work" THEN worker[w]
                     ELSE [worker[w] EXCEPT !.age = Older(worker[w].age, Horizon(worker[w].dataset))]]
    /\ cycle' = IF at = "work" THEN Older(cycle, Cycle) ELSE cycle
    /\ task' = IF at = "work" THEN Older(task, Task) ELSE task
    /\ ticker' = IF ticker = 1 THEN Poll ELSE IF ticker = 0 THEN 0 ELSE ticker - 1
    /\ pending' = (pending \/ ticker = 1)
    /\ UNCHANGED todo

-----------------------------------------------------------------------------
Work(w) == Expire(w) \/ Insert(w) \/ Abandon(w) \/ \E o \in {"COMPLETE", "FAILED"} : Finish(w, o)

Automation == Wake \/ Look \/ CycleEnds \/ Work(Scheduler)

Next ==
    \/ Automation
    \/ \E h \in Handlers : Work(h) \/ \E d \in Datasets : Post(h, d)
    \/ Crash
    \/ Tick

Spec == Init /\ [][Next]_vars

\* Time goes on however often the routes are called, the scheduler goes on, and
\* a manual refresh ends.
Fairness ==
    /\ SF_vars(Tick) /\ WF_vars(Automation)
    /\ \A h \in Handlers : WF_vars(Work(h))

FairSpec == Spec /\ Fairness

-----------------------------------------------------------------------------
TypeOK ==
    /\ clock \in 0..Day - 1
    /\ lease \in [Datasets -> Running \union {NoRow}]
    /\ last \in [Datasets -> Settled \union {NoRow}]
    /\ worker \in [Workers -> [at : {"idle", "sleep", "look", "expire", "insert", "work"},
                               dataset : Datasets, age : Ages]]
    /\ todo \in Seq(Datasets)
    /\ cycle \in 0..Cycle /\ task \in 0..Task /\ ticker \in 0..Poll /\ pending \in BOOLEAN
    /\ faults \in 0..MaxFaults

AtWork(w, d) == worker[w].at = "work" /\ worker[w].dataset = d

\* Two refreshes of one dataset are under way at the same time only once one of
\* them is recorded as older than the lease: a live refresh is never doubled by
\* a second call, a cycle, a restart or a late outcome.
OneAtWork ==
    \A d \in Datasets : \A v, w \in Workers :
        AtWork(v, d) /\ AtWork(w, d) /\ v # w =>
            worker[v].age > Lease \/ worker[w].age > Lease

\* While no time passes, the latest outcome of a dataset never gives way to an
\* older run's, and a COMPLETE one only to the run that holds the lease, when it
\* settles: an outcome that is written by id after its lease was lost undoes none.
Stands(d) ==
    last[d] # NoRow /\ clock' = clock /\ last'[d] # last[d] =>
        /\ last'[d] # NoRow /\ last'[d].age =< last[d].age
        /\ last[d].status = "COMPLETE" =>
              lease[d] # NoRow /\ lease'[d] = NoRow /\ last'[d].age = lease[d].age

OutcomeStands == [][\A d \in Datasets : Stands(d)]_vars

\* A RUNNING row whose refresh is gone (a restart, a lost client, a timeout)
\* does not stay: a later cycle or call finds it overdue.
LeaseReturned == \A d \in Datasets : []<>(lease[d] = NoRow \/ lease[d].by # Nobody)

\* Every dataset keeps being refreshed, whatever the others and the manual
\* routes do, once refreshes stop running into their limits.
KeepsRefreshing == \A d \in Datasets : []<>(\E w \in Workers : AtWork(w, d))
=============================================================================
