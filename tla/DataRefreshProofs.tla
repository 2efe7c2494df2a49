------------------------- MODULE DataRefreshProofs -------------------------
(* Theorems about DataRefresh, for any datasets, routes and durations.      *)
EXTENDS DataRefresh, TLAPS

\* A held lease names a worker that is at work on that dataset, in a run as old
\* as the row; and who works without holding the lease has lost it by age.
Holds(d, w) == lease[d].by = w

LeaseInv ==
    /\ \A d \in Datasets : \A w \in Workers :
          Holds(d, w) => AtWork(w, d) /\ worker[w].age = lease[d].age
    /\ \A d \in Datasets : \A w \in Workers :
          AtWork(w, d) => Holds(d, w) \/ worker[w].age > Lease

LEMMA Constants ==
    /\ Task \in Nat \ {0} /\ Lease \in Nat \ {0} /\ Poll \in Nat \ {0} /\ Cycle \in Nat \ {0}
    /\ Retry \in Nat \ {0} /\ Day \in Nat \ {0} /\ Week \in Nat \ {0} /\ MaxFaults \in Nat
    /\ Day =< Week
    /\ Scheduler \in Workers /\ Handlers \subseteq Workers /\ Nobody \notin Workers
    /\ Tasks \in Seq(Datasets) /\ Tasks # <<>> /\ Head(Tasks) \in Datasets
    /\ Manual \subseteq Datasets
  BY Durations, Roles DEF Workers

\* Time makes no run younger, and no age leaves its range.
LEMMA OlderIsOlder ==
    ASSUME NEW n \in Ages, NEW d \in Datasets
    PROVE  Older(n, Horizon(d)) \in Ages /\ Older(n, Horizon(d)) >= n
  BY Constants DEF Older, Horizon, Ages

LEMMA FreeType ==
    ASSUME NEW w \in Workers
    PROVE  /\ Free(w) \in [at : {"idle", "look"}, dataset : Datasets, age : Ages]
           /\ Free(w).at # "work"
  BY Constants DEF Free, Ages

\* Every row has an age and an owner, and only a row that is not there has none.
LEMMA RowFields ==
    ASSUME TypeOK, NEW d \in Datasets
    PROVE  /\ lease[d].age \in Ages /\ lease[d].by \in Workers \union {Nobody}
           /\ last[d].age \in Ages /\ last[d].by \in Workers \union {Nobody}
           /\ lease[d] # NoRow => lease[d] \in Running
           /\ last[d] # NoRow => last[d] \in Settled
           /\ NoRow.by = Nobody
  BY Constants DEF TypeOK, Running, Settled, NoRow, Ages

-----------------------------------------------------------------------------
(* Types.                                                                   *)
Places == {"idle", "sleep", "look", "expire", "insert", "work"}

LEMMA Zeros == 0 \in 0..Cycle /\ 0 \in 0..Task /\ 0 \in 0..Poll /\ 0 \in 0..Day - 1 /\ 0 \in 0..MaxFaults
  BY Constants

LEMMA TypeInit == Init => TypeOK
<1>. SUFFICES ASSUME Init PROVE TypeOK
  OBVIOUS
<1>1. worker \in [Workers -> [at : Places, dataset : Datasets, age : Ages]]
  BY FreeType DEF Init, Places
<1>. QED
  BY <1>1, Constants, Zeros DEF Init, TypeOK, Places

LEMMA LatestSettledType ==
    ASSUME TypeOK, NEW d \in Datasets, NEW row \in Settled
    PROVE  LatestSettled(d, row) \in Settled
  BY RowFields DEF LatestSettled

\* What a worker does between two statements.
LEMMA TypeSchedule ==
    ASSUME TypeOK, Wake \/ Look \/ CycleEnds \/ \E h \in Handlers, d \in Datasets : Post(h, d)
    PROVE  TypeOK'
<1>. USE Constants DEF TypeOK
<1>1. CASE Wake
  BY <1>1 DEF Wake, Move, rows
<1>2. CASE Look
  <2>1. Head(todo) \in Datasets /\ Tail(todo) \in Seq(Datasets)
    BY <1>2 DEF Look
  <2>2. cycle \in Ages
    BY DEF Ages
  <2>. QED
    <3>1. worker' \in [Workers -> [at : Places, dataset : Datasets, age : Ages]]
      <4>1. \/ worker' = worker
            \/ worker' = [worker EXCEPT ![Scheduler] =
                             [at |-> "expire", dataset |-> Head(todo), age |-> cycle]]
        BY <1>2 DEF Look
      <4>. QED
        BY <4>1, <2>1, <2>2 DEF Places
    <3>. QED
      BY <1>2, <2>1, <3>1 DEF Look, rows, timer, Places
<1>3. CASE CycleEnds
  <2>1. worker' \in [Workers -> [at : Places, dataset : Datasets, age : Ages]]
    BY <1>3 DEF CycleEnds, Sleep, Move, Places
  <2>2. ticker' \in 0..Poll /\ cycle' \in 0..Cycle
    BY <1>3 DEF CycleEnds, Sleep
  <2>. QED
    BY <1>3, <2>1, <2>2 DEF CycleEnds, Sleep, rows, Places
<1>4. ASSUME NEW h \in Handlers, NEW d \in Datasets, Post(h, d)
      PROVE  TypeOK'
  <2>1. 0 \in Ages
    BY DEF Ages
  <2>. QED
    BY <1>4, <2>1 DEF Post, rows, timer
<1>. QED
  BY <1>1, <1>2, <1>3, <1>4

LEMMA TypeExpire ==
    ASSUME TypeOK, NEW w \in Workers, Expire(w)
    PROVE  TypeOK'
<1>. DEFINE d == worker[w].dataset
<1>. USE Constants
<1>1. d \in Datasets
  BY DEF TypeOK
<1>2. worker' \in [Workers -> [at : Places, dataset : Datasets, age : Ages]]
  BY DEF TypeOK, Expire, Move, Places
<1>3. ASSUME Overdue(d, w)
      PROVE  /\ lease' \in [Datasets -> Running \union {NoRow}]
             /\ last' \in [Datasets -> Settled \union {NoRow}]
  <2>1. [lease[d] EXCEPT !.status = "FAILED"] \in Settled
    <3>1. lease[d] \in Running
      BY <1>1, <1>3, RowFields DEF Overdue
    <3>. QED
      BY <3>1 DEF Running, Settled
  <2>2. LatestSettled(d, [lease[d] EXCEPT !.status = "FAILED"]) \in Settled
    BY <1>1, <2>1, LatestSettledType
  <2>. QED
    <3>1. /\ last' = [last EXCEPT ![d] = LatestSettled(d, [lease[d] EXCEPT !.status = "FAILED"])]
          /\ lease' = [lease EXCEPT ![d] = NoRow]
      BY <1>3 DEF Expire
    <3>. QED
      BY <1>1, <3>1, <2>2 DEF TypeOK
<1>4. CASE ~Overdue(d, w)
  BY <1>2, <1>4 DEF Expire, TypeOK, rows, timer, Places
<1>. QED
  BY <1>2, <1>3, <1>4 DEF Expire, TypeOK, timer, Places

LEMMA TypeInsert ==
    ASSUME TypeOK, NEW w \in Workers, Insert(w)
    PROVE  TypeOK'
<1>. DEFINE d == worker[w].dataset
             row == [status |-> "RUNNING", age |-> worker[w].age, by |-> w]
<1>. USE Constants
<1>1. d \in Datasets /\ row \in Running
  BY DEF TypeOK, Running
<1>2. CASE lease[d] = NoRow
  <2>1. lease' \in [Datasets -> Running \union {NoRow}]
    BY <1>1, <1>2 DEF Insert, TypeOK
  <2>2. worker' \in [Workers -> [at : Places, dataset : Datasets, age : Ages]]
    <3>1. worker' = [worker EXCEPT ![w].at = "work"]
      BY <1>2 DEF Insert, Move
    <3>. QED
      BY <3>1 DEF TypeOK, Places
  <2>. QED
    BY <1>2, <2>1, <2>2 DEF Insert, TypeOK, Places
<1>3. CASE lease[d] # NoRow
  <2>1. worker' \in [Workers -> [at : Places, dataset : Datasets, age : Ages]]
    BY <1>3, FreeType DEF Insert, TypeOK, Leave, Places
  <2>2. task' \in 0..Task
    BY <1>3 DEF Insert, TypeOK, Leave
  <2>. QED
    BY <1>3, <2>1, <2>2 DEF Insert, TypeOK, Places
<1>. QED
  BY <1>2, <1>3

LEMMA TypeFinish ==
    ASSUME TypeOK, NEW w \in Workers, NEW o \in {"COMPLETE", "FAILED"}, Finish(w, o)
    PROVE  TypeOK'
<1>. DEFINE d == worker[w].dataset
             row == [status |-> o, age |-> worker[w].age, by |-> Nobody]
<1>. USE Constants
<1>1. d \in Datasets /\ row \in Settled
  BY DEF TypeOK, Settled
<1>2. LatestSettled(d, row) \in Settled
  BY <1>1, LatestSettledType
<1>3. lease' \in [Datasets -> Running \union {NoRow}]
  BY <1>1 DEF Finish, TypeOK
<1>4. last' \in [Datasets -> Settled \union {NoRow}]
  BY <1>1, <1>2 DEF Finish, TypeOK
<1>5. worker' \in [Workers -> [at : Places, dataset : Datasets, age : Ages]] /\ task' \in 0..Task
  BY FreeType DEF Finish, TypeOK, Leave, Places
<1>. QED
  BY <1>3, <1>4, <1>5 DEF Finish, TypeOK, Places

LEMMA OrphanType ==
    ASSUME TypeOK, NEW W \in SUBSET Workers, Orphan(W)
    PROVE  /\ lease' \in [Datasets -> Running \union {NoRow}]
           /\ last' \in [Datasets -> Settled \union {NoRow}]
<1>. USE Constants
<1>1. ASSUME NEW d \in Datasets
      PROVE  lease'[d] \in Running \union {NoRow}
  <2>1. lease[d] \in Running \/ lease[d] = NoRow
    BY RowFields
  <2>. QED
    BY <2>1 DEF Orphan, Running, NoRow
<1>2. ASSUME NEW d \in Datasets
      PROVE  last'[d] \in Settled \union {NoRow}
  <2>1. last[d] \in Settled \/ last[d] = NoRow
    BY RowFields
  <2>. QED
    BY <2>1 DEF Orphan, Settled, NoRow
<1>. QED
  BY <1>1, <1>2 DEF Orphan

LEMMA TypeAbandon ==
    ASSUME TypeOK, NEW w \in Workers, Abandon(w)
    PROVE  TypeOK'
<1>. USE Constants
<1>1. worker' \in [Workers -> [at : Places, dataset : Datasets, age : Ages]] /\ task' \in 0..Task
  BY FreeType DEF Abandon, TypeOK, Leave, Places
<1>2. faults' \in 0..MaxFaults
  BY DEF Abandon, TypeOK
<1>3. /\ lease' \in [Datasets -> Running \union {NoRow}]
      /\ last' \in [Datasets -> Settled \union {NoRow}]
  BY OrphanType DEF Abandon
<1>. QED
  BY <1>1, <1>2, <1>3 DEF Abandon, TypeOK, Places

LEMMA TypeCrash ==
    ASSUME TypeOK, Crash
    PROVE  TypeOK'
<1>. USE Constants
<1>1. worker' \in [Workers -> [at : Places, dataset : Datasets, age : Ages]]
  BY FreeType DEF Crash, Places
<1>2. faults' \in 0..MaxFaults
  BY DEF Crash, TypeOK
<1>3. /\ lease' \in [Datasets -> Running \union {NoRow}]
      /\ last' \in [Datasets -> Settled \union {NoRow}]
  BY OrphanType DEF Crash
<1>4. todo' = Tasks /\ cycle' = 0 /\ task' = 0 /\ ticker' = 0 /\ pending' = FALSE /\ clock' = clock
  BY DEF Crash
<1>. QED
  BY <1>1, <1>2, <1>3, <1>4, Zeros DEF TypeOK, Places

LEMMA TypeTick ==
    ASSUME TypeOK, Tick
    PROVE  TypeOK'
<1>. USE Constants
<1>1. ASSUME NEW d \in Datasets
      PROVE  lease'[d] \in Running \union {NoRow} /\ last'[d] \in Settled \union {NoRow}
  <2>1. Older(lease[d].age, Horizon(d)) \in Ages /\ Older(last[d].age, Horizon(d)) \in Ages
    BY RowFields, OlderIsOlder
  <2>2. lease'[d] = IF lease[d] = NoRow THEN lease[d]
                    ELSE [lease[d] EXCEPT !.age = Older(lease[d].age, Horizon(d))]
    BY DEF Tick
  <2>3. last'[d] = IF last[d] = NoRow THEN last[d]
                   ELSE [last[d] EXCEPT !.age = Older(last[d].age, Horizon(d))]
    BY DEF Tick
  <2>4. lease'[d] \in Running \union {NoRow}
    BY <2>1, <2>2, RowFields DEF Running
  <2>5. last'[d] \in Settled \union {NoRow}
    BY <2>1, <2>3, RowFields DEF Settled
  <2>. QED
    BY <2>4, <2>5
<1>2. worker' \in [Workers -> [at : Places, dataset : Datasets, age : Ages]]
  <2>1. ASSUME NEW w \in Workers
        PROVE  worker'[w] \in [at : Places, dataset : Datasets, age : Ages]
    <3>1. worker[w] \in [at : Places, dataset : Datasets, age : Ages]
      BY DEF TypeOK, Places
    <3>2. Older(worker[w].age, Horizon(worker[w].dataset)) \in Ages
      BY <3>1, OlderIsOlder
    <3>3. worker'[w] = IF worker[w].at # "work" THEN worker[w]
                       ELSE [worker[w] EXCEPT !.age = Older(worker[w].age, Horizon(worker[w].dataset))]
      BY DEF Tick
    <3>. QED
      BY <3>1, <3>2, <3>3
  <2>2. worker' = [w \in Workers |-> worker'[w]]
    BY DEF Tick
  <2>. QED
    BY <2>1, <2>2
<1>3. clock' \in 0..Day - 1
  <2>1. clock' = (clock + 1) % Day
    BY DEF Tick
  <2>. QED
    BY <2>1 DEF TypeOK
<1>4. cycle' \in 0..Cycle /\ task' \in 0..Task
  <2>1. cycle' \in {cycle, Older(cycle, Cycle)} /\ task' \in {task, Older(task, Task)}
    BY DEF Tick
  <2>. QED
    BY <2>1 DEF TypeOK, Older
<1>5. ticker' \in 0..Poll /\ pending' \in BOOLEAN
  <2>1. /\ ticker' = IF ticker = 1 THEN Poll ELSE IF ticker = 0 THEN 0 ELSE ticker - 1
        /\ pending' = (pending \/ ticker = 1)
    BY DEF Tick
  <2>. QED
    BY <2>1 DEF TypeOK
<1>6. faults' \in 0..MaxFaults
  <2>. DEFINE at == worker[Scheduler].at
              limit == at = "work" /\ ~TimedOut /\ (task + 1 >= Task \/ cycle + 1 >= Cycle)
  <2>2. /\ limit => faults < MaxFaults /\ faults' = faults + 1
        /\ ~limit => faults' = faults
    BY DEF Tick
  <2>1. faults' = faults \/ (faults' = faults + 1 /\ faults < MaxFaults)
    <3>. HIDE DEF limit
    <3>. QED
      BY <2>2
  <2>. QED
    BY <2>1 DEF TypeOK
<1>7. lease' \in [Datasets -> Running \union {NoRow}] /\ last' \in [Datasets -> Settled \union {NoRow}]
  BY <1>1 DEF Tick
<1>. QED
  BY <1>2, <1>3, <1>4, <1>5, <1>6, <1>7 DEF Tick, TypeOK, Places

\* Table, workers and timers keep their types.
THEOREM TypeCorrect == Spec => []TypeOK
<1>1. TypeOK /\ [Next]_vars => TypeOK'
  <2>. SUFFICES ASSUME TypeOK, [Next]_vars
                PROVE  TypeOK'
    OBVIOUS
  <2>1. CASE UNCHANGED vars
    BY <2>1 DEF vars, rows, timer, TypeOK
  <2>2. ASSUME NEW w \in Workers, Work(w)
        PROVE  TypeOK'
    BY <2>2, TypeExpire, TypeInsert, TypeFinish, TypeAbandon DEF Work
  <2>3. CASE Next
    BY <2>2, <2>3, Constants, TypeSchedule, TypeCrash, TypeTick DEF Next, Automation
  <2>. QED
    BY <2>1, <2>3
<1>. QED
  BY <1>1, TypeInit, PTL DEF Spec

-----------------------------------------------------------------------------
(* The lease.                                                               *)

\* A step that changes neither the leases nor who is at work on what.
LEMMA SameWork ==
    ASSUME LeaseInv, lease' = lease,
           \A w \in Workers : worker'[w].at = "work" \/ worker[w].at = "work" =>
                                  worker'[w] = worker[w]
    PROVE  LeaseInv'
  BY DEF LeaseInv, Holds, AtWork

LEMMA LeaseSchedule ==
    ASSUME TypeOK, LeaseInv,
           Wake \/ Look \/ CycleEnds \/ \E h \in Handlers, d \in Datasets : Post(h, d)
    PROVE  LeaseInv'
<1>. USE Constants, SameWork
<1>1. CASE Wake
  BY <1>1 DEF Wake, Move, rows, TypeOK
<1>2. CASE Look
  <2>1. \/ worker' = worker
        \/ /\ worker[Scheduler].at = "look"
           /\ worker' = [worker EXCEPT ![Scheduler] =
                           [at |-> "expire", dataset |-> Head(todo), age |-> cycle]]
    BY <1>2 DEF Look
  <2>2. lease' = lease
    BY <1>2 DEF Look, rows
  <2>. QED
    BY <2>1, <2>2 DEF TypeOK
<1>3. CASE CycleEnds
  BY <1>3 DEF CycleEnds, Sleep, Move, rows, TypeOK
<1>4. ASSUME NEW h \in Handlers, NEW d \in Datasets, Post(h, d)
      PROVE  LeaseInv'
  BY <1>4 DEF Post, rows, TypeOK
<1>. QED
  BY <1>1, <1>2, <1>3, <1>4

\* Whoever held the lease that is given up is recorded as older than Lease.
LEMMA LeaseExpire ==
    ASSUME TypeOK, LeaseInv, NEW w \in Workers, Expire(w)
    PROVE  LeaseInv'
<1>. DEFINE d == worker[w].dataset
<1>. USE Constants
<1>1. /\ d \in Datasets /\ worker[w].age \in Ages
      /\ \A v \in Workers : worker'[v].at = "work" \/ worker[v].at = "work" => worker'[v] = worker[v]
  BY DEF TypeOK, Expire, Move
<1>2. CASE ~Overdue(d, w)
  BY <1>1, <1>2, SameWork DEF Expire, rows
<1>3. CASE Overdue(d, w)
  <2>1. lease' = [lease EXCEPT ![d] = NoRow] /\ lease[d].age > Lease
    <3>1. lease' = [lease EXCEPT ![d] = NoRow]
      BY <1>3 DEF Expire
    <3>2. lease[d].age \in Nat /\ worker[w].age \in Nat
      BY <1>1, RowFields DEF Ages
    <3>3. lease[d].age - worker[w].age > Lease
      BY <1>3 DEF Overdue
    <3>. QED
      BY <3>1, <3>2, <3>3
  <2>2. ASSUME NEW v \in Workers, Holds(d, v)
        PROVE  worker[v].age > Lease
    BY <1>1, <2>1, <2>2 DEF LeaseInv
  <2>3. \A v \in Workers, e \in Datasets : AtWork(v, e)' => AtWork(v, e) /\ worker'[v] = worker[v]
    BY <1>1 DEF AtWork
  <2>4. \A v \in Workers, e \in Datasets : Holds(e, v)' => e # d /\ Holds(e, v)
    BY <1>1, <2>1, RowFields DEF Holds, TypeOK
  <2>5. \A v \in Workers, e \in Datasets : AtWork(v, e) => AtWork(v, e)' /\ worker'[v] = worker[v]
    BY <1>1 DEF AtWork
  <2>6. ASSUME NEW e \in Datasets, NEW v \in Workers, Holds(e, v)'
        PROVE  AtWork(v, e)' /\ worker'[v].age = lease'[e].age
    <3>1. AtWork(v, e) /\ worker[v].age = lease[e].age /\ lease'[e] = lease[e]
      BY <2>1, <2>4, <2>6 DEF LeaseInv, TypeOK
    <3>. QED
      BY <3>1, <2>5
  <2>7. ASSUME NEW e \in Datasets, NEW v \in Workers, AtWork(v, e)'
        PROVE  Holds(e, v)' \/ worker'[v].age > Lease
    <3>1. AtWork(v, e) /\ worker'[v] = worker[v]
      BY <2>3, <2>7
    <3>2. Holds(e, v) \/ worker[v].age > Lease
      BY <3>1 DEF LeaseInv
    <3>3. CASE Holds(e, v) /\ e # d
      BY <2>1, <3>3 DEF Holds, TypeOK
    <3>. QED
      BY <2>2, <3>1, <3>2, <3>3
  <2>. QED
    BY <2>6, <2>7 DEF LeaseInv
<1>. QED
  BY <1>2, <1>3

\* A lease is only taken when nobody holds it.
LEMMA LeaseInsert ==
    ASSUME TypeOK, LeaseInv, NEW w \in Workers, Insert(w)
    PROVE  LeaseInv'
<1>. DEFINE d == worker[w].dataset
<1>. USE Constants
<1>1. d \in Datasets /\ worker[w].at = "insert"
  BY DEF TypeOK, Insert
<1>2. CASE lease[d] # NoRow
  <2>1. lease' = lease /\ worker' = [worker EXCEPT ![w] = Free(w)]
    BY <1>2 DEF Insert, Leave
  <2>2. \A v \in Workers : worker'[v].at = "work" \/ worker[v].at = "work" => worker'[v] = worker[v]
    BY <1>1, <2>1, FreeType DEF TypeOK
  <2>. QED
    BY <2>1, <2>2, SameWork
<1>3. CASE lease[d] = NoRow
  <2>1. /\ lease' = [lease EXCEPT ![d] = [status |-> "RUNNING", age |-> worker[w].age, by |-> w]]
        /\ worker' = [worker EXCEPT ![w].at = "work"]
    BY <1>3 DEF Insert, Move
  <2>2. worker'[w].at = "work" /\ worker'[w].dataset = d /\ worker'[w].age = worker[w].age
    BY <2>1 DEF TypeOK
  <2>3. \A v \in Workers : v # w => worker'[v] = worker[v]
    BY <2>1 DEF TypeOK
  <2>4. lease'[d].by = w /\ lease'[d].age = worker[w].age
    BY <1>1, <2>1 DEF TypeOK
  <2>5. \A e \in Datasets : e # d => lease'[e] = lease[e]
    BY <2>1 DEF TypeOK
  <2>6. \A v \in Workers : ~Holds(d, v)
    BY <1>1, <1>3, RowFields DEF Holds
  <2>7. \A e \in Datasets : ~AtWork(w, e) /\ ~Holds(e, w)
    BY <1>1 DEF LeaseInv, AtWork
  <2>8. ASSUME NEW e \in Datasets, NEW v \in Workers, Holds(e, v)'
        PROVE  AtWork(v, e)' /\ worker'[v].age = lease'[e].age
    <3>1. CASE e = d
      BY <2>2, <2>4, <2>8, <3>1 DEF Holds, AtWork
    <3>2. CASE e # d
      <4>1. Holds(e, v) /\ v # w
        BY <2>5, <2>7, <2>8, <3>2 DEF Holds
      <4>. QED
        BY <2>3, <2>5, <3>2, <4>1 DEF LeaseInv, AtWork
    <3>. QED
      BY <3>1, <3>2
  <2>9. ASSUME NEW e \in Datasets, NEW v \in Workers, AtWork(v, e)'
        PROVE  Holds(e, v)' \/ worker'[v].age > Lease
    <3>1. CASE v = w
      BY <2>2, <2>4, <2>9, <3>1 DEF Holds, AtWork
    <3>2. CASE v # w
      <4>1. AtWork(v, e)
        BY <2>3, <2>9, <3>2 DEF AtWork
      <4>2. (Holds(e, v) /\ e # d) \/ worker[v].age > Lease
        BY <2>6, <4>1 DEF LeaseInv
      <4>. QED
        BY <2>3, <2>5, <3>2, <4>2 DEF Holds
    <3>. QED
      BY <3>1, <3>2
  <2>. QED
    BY <2>8, <2>9 DEF LeaseInv
<1>. QED
  BY <1>2, <1>3

\* A worker leaves and the row it held, if it held one, is no longer its own;
\* the other leases keep their holder and their age.
LEMMA LeaseLeft ==
    ASSUME TypeOK, LeaseInv, NEW w \in Workers, Leave(w),
           \A e \in Datasets : lease'[e].by # w,
           \A e \in Datasets : lease[e].by # w => lease'[e] = lease[e],
           \A e \in Datasets : lease[e].by = w => lease'[e].by = Nobody
    PROVE  LeaseInv'
<1>. USE Constants
<1>1. \A v \in Workers : v # w => worker'[v] = worker[v]
  BY DEF Leave, TypeOK
<1>2. worker'[w].at # "work"
  BY FreeType DEF Leave, TypeOK
<1>3. ASSUME NEW e \in Datasets, NEW v \in Workers, Holds(e, v)'
      PROVE  AtWork(v, e)' /\ worker'[v].age = lease'[e].age
  <2>1. v # w /\ lease'[e] = lease[e]
    BY <1>3 DEF Holds
  <2>2. AtWork(v, e) /\ worker[v].age = lease[e].age
    BY <1>3, <2>1 DEF LeaseInv, Holds
  <2>. QED
    BY <1>1, <2>1, <2>2 DEF AtWork
<1>4. ASSUME NEW e \in Datasets, NEW v \in Workers, AtWork(v, e)'
      PROVE  Holds(e, v)' \/ worker'[v].age > Lease
  <2>1. v # w
    BY <1>2, <1>4 DEF AtWork
  <2>2. AtWork(v, e)
    BY <1>1, <1>4, <2>1 DEF AtWork
  <2>3. Holds(e, v) \/ worker[v].age > Lease
    BY <2>2 DEF LeaseInv
  <2>. QED
    BY <1>1, <2>1, <2>3 DEF Holds
<1>. QED
  BY <1>3, <1>4 DEF LeaseInv

LEMMA LeaseFinish ==
    ASSUME TypeOK, LeaseInv, NEW w \in Workers, NEW o \in {"COMPLETE", "FAILED"}, Finish(w, o)
    PROVE  LeaseInv'
<1>. DEFINE d == worker[w].dataset
<1>. USE Constants
<1>1. d \in Datasets /\ Leave(w)
  BY DEF TypeOK, Finish
<1>2. lease' = IF lease[d].by = w THEN [lease EXCEPT ![d] = NoRow] ELSE lease
  BY DEF Finish
<1>3. \A e \in Datasets : lease[e].by = w => e = d
  BY DEF LeaseInv, Holds, AtWork
<1>4. \A e \in Datasets : lease'[e] = IF lease[e].by = w THEN NoRow ELSE lease[e]
  BY <1>1, <1>2, <1>3 DEF TypeOK
<1>. QED
  BY <1>1, <1>4, LeaseLeft, RowFields

LEMMA LeaseAbandon ==
    ASSUME TypeOK, LeaseInv, NEW w \in Workers, Abandon(w)
    PROVE  LeaseInv'
<1>. USE Constants
<1>1. Leave(w)
  BY DEF Abandon
<1>2. \A e \in Datasets : lease'[e] = IF lease[e].by \in {w} THEN [lease[e] EXCEPT !.by = Nobody]
                                      ELSE lease[e]
  BY DEF Abandon, Orphan
<1>3. \A e \in Datasets : lease[e].by = w => lease'[e].by = Nobody
  <2>. SUFFICES ASSUME NEW e \in Datasets, lease[e].by = w
                PROVE  lease'[e].by = Nobody
    OBVIOUS
  <2>1. lease[e] \in Running
    BY RowFields
  <2>. QED
    BY <1>2, <2>1 DEF Running
<1>. QED
  BY <1>1, <1>2, <1>3, LeaseLeft

\* Nobody is at work after a restart, and nobody holds a lease.
LEMMA LeaseCrash ==
    ASSUME TypeOK, LeaseInv, Crash
    PROVE  LeaseInv'
<1>. USE Constants
<1>1. \A w \in Workers : worker'[w].at # "work"
  BY FreeType DEF Crash
<1>2. ASSUME NEW d \in Datasets
      PROVE  lease'[d].by = Nobody
  <2>1. lease'[d] = IF lease[d].by \in Workers THEN [lease[d] EXCEPT !.by = Nobody] ELSE lease[d]
    BY DEF Crash, Orphan
  <2>2. lease[d] \in Running \/ lease[d] = NoRow
    BY RowFields
  <2>. QED
    BY <2>1, <2>2, RowFields DEF Running
<1>. QED
  BY <1>1, <1>2 DEF LeaseInv, Holds, AtWork

\* A run and its row age together, and what was older than Lease remains so.
LEMMA LeaseTick ==
    ASSUME TypeOK, LeaseInv, Tick
    PROVE  LeaseInv'
<1>. USE Constants
<1>1. ASSUME NEW w \in Workers
      PROVE  /\ worker[w].at # "work" => worker'[w] = worker[w]
             /\ worker[w].at = "work" =>
                   /\ worker'[w].at = "work" /\ worker'[w].dataset = worker[w].dataset
                   /\ worker'[w].age = Older(worker[w].age, Horizon(worker[w].dataset))
  <2>1. worker'[w] = IF worker[w].at # "work" THEN worker[w]
                     ELSE [worker[w] EXCEPT !.age = Older(worker[w].age, Horizon(worker[w].dataset))]
    BY DEF Tick
  <2>. QED
    BY <2>1 DEF TypeOK
<1>2. ASSUME NEW d \in Datasets
      PROVE  /\ lease'[d].by = lease[d].by
             /\ lease[d] # NoRow => lease'[d].age = Older(lease[d].age, Horizon(d))
  <2>1. lease'[d] = IF lease[d] = NoRow THEN lease[d]
                    ELSE [lease[d] EXCEPT !.age = Older(lease[d].age, Horizon(d))]
    BY DEF Tick
  <2>. QED
    BY <2>1, RowFields DEF Running
<1>3. ASSUME NEW d \in Datasets, NEW w \in Workers, Holds(d, w)'
      PROVE  AtWork(w, d)' /\ worker'[w].age = lease'[d].age
  <2>1. Holds(d, w) /\ lease[d] # NoRow
    BY <1>2, <1>3, RowFields DEF Holds
  <2>2. AtWork(w, d) /\ worker[w].age = lease[d].age
    BY <2>1 DEF LeaseInv
  <2>. QED
    BY <1>1, <1>2, <2>1, <2>2 DEF AtWork
<1>4. ASSUME NEW d \in Datasets, NEW w \in Workers, AtWork(w, d)'
      PROVE  Holds(d, w)' \/ worker'[w].age > Lease
  <2>1. AtWork(w, d) /\ worker'[w].age = Older(worker[w].age, Horizon(d)) /\ worker[w].age \in Ages
    BY <1>1, <1>4 DEF AtWork, TypeOK
  <2>2. worker'[w].age >= worker[w].age /\ worker'[w].age \in Ages
    BY <2>1, OlderIsOlder
  <2>3. Holds(d, w) \/ worker[w].age > Lease
    BY <2>1 DEF LeaseInv
  <2>4. CASE Holds(d, w)
    BY <1>2, <2>4 DEF Holds
  <2>5. CASE worker[w].age > Lease
    BY <2>1, <2>2, <2>5 DEF Ages
  <2>. QED
    BY <2>3, <2>4, <2>5
<1>. QED
  BY <1>3, <1>4 DEF LeaseInv

LEMMA LeaseInvariance == Spec => [](TypeOK /\ LeaseInv)
<1>1. Init => LeaseInv
  <2>. SUFFICES ASSUME Init PROVE LeaseInv
    OBVIOUS
  <2>1. \A w \in Workers : worker[w].at # "work"
    BY FreeType DEF Init
  <2>2. \A d \in Datasets : lease[d].by = Nobody
    BY DEF Init, NoRow
  <2>. QED
    BY <2>1, <2>2, Constants DEF LeaseInv, Holds, AtWork
<1>2. TypeOK /\ LeaseInv /\ [Next]_vars => LeaseInv'
  <2>. SUFFICES ASSUME TypeOK, LeaseInv, [Next]_vars
                PROVE  LeaseInv'
    OBVIOUS
  <2>1. CASE UNCHANGED vars
    BY <2>1, SameWork DEF vars, rows
  <2>2. ASSUME NEW w \in Workers, Work(w)
        PROVE  LeaseInv'
    BY <2>2, LeaseExpire, LeaseInsert, LeaseFinish, LeaseAbandon DEF Work
  <2>3. CASE Next
    BY <2>2, <2>3, Constants, LeaseSchedule, LeaseCrash, LeaseTick DEF Next, Automation
  <2>. QED
    BY <2>1, <2>3
<1>. QED
  BY <1>1, <1>2, TypeCorrect, PTL DEF Spec

\* A refresh of a dataset is joined by another one only when one of the two is
\* recorded as older than the lease.
THEOREM LeasesExclusive == Spec => []OneAtWork
<1>1. TypeOK /\ LeaseInv => OneAtWork
  <2>. SUFFICES ASSUME TypeOK, LeaseInv, NEW d \in Datasets, NEW v \in Workers, NEW w \in Workers,
                       AtWork(v, d), AtWork(w, d), v # w
                PROVE  worker[v].age > Lease \/ worker[w].age > Lease
    BY DEF OneAtWork
  <2>1. ~(Holds(d, v) /\ Holds(d, w))
    BY DEF Holds
  <2>. QED
    BY <2>1 DEF LeaseInv
<1>. QED
  BY <1>1, LeaseInvariance, PTL

-----------------------------------------------------------------------------
(* The outcomes.                                                            *)

\* A settled row that still names a worker was failed while that worker was at
\* work on it, and is as old as its run; its worker holds no other lease.
LostInv ==
    \A d \in Datasets : \A w \in Workers :
        last[d].by = w =>
            /\ AtWork(w, d) /\ worker[w].age = last[d].age
            /\ last[d].status = "FAILED" /\ lease[d].by # w

LEMMA LostSchedule ==
    ASSUME TypeOK, LostInv,
           Wake \/ Look \/ CycleEnds \/ \E h \in Handlers, d \in Datasets : Post(h, d)
    PROVE  LostInv'
<1>. USE Constants
<1>1. UNCHANGED rows
  BY DEF Wake, Look, CycleEnds, Sleep, Post
<1>2. \A w \in Workers : worker[w].at = "work" => worker'[w] = worker[w]
  BY DEF Wake, Look, CycleEnds, Sleep, Post, Move, TypeOK
<1>. QED
  BY <1>1, <1>2 DEF LostInv, AtWork, rows

LEMMA LostExpire ==
    ASSUME TypeOK, LeaseInv, LostInv, NEW w \in Workers, Expire(w)
    PROVE  LostInv'
<1>. DEFINE d == worker[w].dataset
<1>. USE Constants
<1>1. d \in Datasets /\ \A v \in Workers : worker[v].at = "work" => worker'[v] = worker[v]
  BY DEF TypeOK, Expire, Move
<1>2. CASE UNCHANGED rows
  BY <1>1, <1>2 DEF LostInv, AtWork, rows
<1>3. ASSUME Overdue(d, w)
      PROVE  LostInv'
  <2>. DEFINE row == [lease[d] EXCEPT !.status = "FAILED"]
  <2>1. /\ last' = [last EXCEPT ![d] = LatestSettled(d, row)]
        /\ lease' = [lease EXCEPT ![d] = NoRow]
    BY <1>3 DEF Expire
  <2>2. row.by = lease[d].by /\ row.age = lease[d].age /\ row.status = "FAILED"
    BY <1>1, <1>3, RowFields DEF Overdue, Running
  <2>3. last'[d] \in {last[d], row} /\ lease'[d] = NoRow
    BY <1>1, <2>1 DEF TypeOK, LatestSettled
  <2>4. \A e \in Datasets : e # d => last'[e] = last[e] /\ lease'[e] = lease[e]
    BY <2>1 DEF TypeOK
  <2>5. ASSUME NEW e \in Datasets, NEW v \in Workers, last'[e].by = v
        PROVE  /\ AtWork(v, e)' /\ worker'[v].age = last'[e].age
               /\ last'[e].status = "FAILED" /\ lease'[e].by # v
    <3>. HIDE DEF row
    <3>1. CASE e = d /\ last'[e] = row
      <4>1. AtWork(v, e) /\ worker[v].age = row.age
        BY <2>2, <2>5, <3>1 DEF LeaseInv, Holds
      <4>. QED
        BY <1>1, <2>2, <2>3, <3>1, <4>1, RowFields DEF AtWork
    <3>2. CASE last'[e] = last[e]
      <4>1. AtWork(v, e) /\ worker[v].age = last[e].age /\ last[e].status = "FAILED" /\ lease[e].by # v
        BY <2>5, <3>2 DEF LostInv
      <4>. QED
        BY <1>1, <2>3, <2>4, <3>2, <4>1, RowFields DEF AtWork
    <3>. QED
      BY <2>3, <2>4, <3>1, <3>2
  <2>. QED
    BY <2>5 DEF LostInv
<1>. QED
  BY <1>2, <1>3 DEF Expire

LEMMA LostInsert ==
    ASSUME TypeOK, LostInv, NEW w \in Workers, Insert(w)
    PROVE  LostInv'
<1>. DEFINE d == worker[w].dataset
<1>. USE Constants
<1>1. /\ last' = last /\ worker[w].at = "insert"
      /\ \A v \in Workers : v # w => worker'[v] = worker[v]
  BY DEF Insert, Leave, Move, TypeOK
<1>2. \A e \in Datasets : lease'[e] = lease[e] \/ lease'[e].by = w
  BY DEF Insert, TypeOK
<1>. QED
  BY <1>1, <1>2 DEF LostInv, AtWork

\* What a worker leaves behind names nobody.
LEMMA LostLeft ==
    ASSUME TypeOK, LostInv, NEW w \in Workers, Leave(w),
           \A e \in Datasets : last'[e].by = Nobody \/ (last[e].by # w /\ last'[e] = last[e]),
           \A e \in Datasets : lease'[e].by \in {lease[e].by, Nobody}
    PROVE  LostInv'
<1>. USE Constants
<1>1. \A v \in Workers : v # w => worker'[v] = worker[v]
  BY DEF Leave, TypeOK
<1>2. ASSUME NEW e \in Datasets, NEW v \in Workers, last'[e].by = v
      PROVE  /\ AtWork(v, e)' /\ worker'[v].age = last'[e].age
             /\ last'[e].status = "FAILED" /\ lease'[e].by # v
  <2>1. v # w /\ last'[e] = last[e]
    BY <1>2
  <2>2. AtWork(v, e) /\ worker[v].age = last[e].age /\ last[e].status = "FAILED" /\ lease[e].by # v
    BY <1>2, <2>1 DEF LostInv
  <2>. QED
    BY <1>1, <2>1, <2>2 DEF AtWork
<1>. QED
  BY <1>2 DEF LostInv

LEMMA LostFinish ==
    ASSUME TypeOK, LeaseInv, LostInv, NEW w \in Workers, NEW o \in {"COMPLETE", "FAILED"},
           Finish(w, o)
    PROVE  LostInv'
<1>. DEFINE d == worker[w].dataset
            row == [status |-> o, age |-> worker[w].age, by |-> Nobody]
<1>. USE Constants
<1>1. d \in Datasets /\ Leave(w)
  BY DEF TypeOK, Finish
<1>2. \A e \in Datasets : last[e].by = w => e = d /\ lease[e].by # w
  BY DEF LostInv, AtWork
<1>3. ASSUME NEW e \in Datasets
      PROVE  last'[e].by = Nobody \/ (last[e].by # w /\ last'[e] = last[e])
  <2>1. last' = IF lease[d].by = w THEN [last EXCEPT ![d] = LatestSettled(d, row)]
                ELSE IF last[d].by = w THEN [last EXCEPT ![d] = row]
                ELSE last
    BY DEF Finish
  <2>2. LatestSettled(d, row) \in {row, last[d]} /\ row.by = Nobody
    BY DEF LatestSettled
  <2>. QED
    BY <1>1, <1>2, <2>1, <2>2 DEF TypeOK
<1>4. \A e \in Datasets : lease'[e].by \in {lease[e].by, Nobody}
  BY <1>1, RowFields DEF Finish, TypeOK
<1>. QED
  BY <1>1, <1>3, <1>4, LostLeft

LEMMA OrphanFields ==
    ASSUME TypeOK, NEW W \in SUBSET Workers, Orphan(W), NEW d \in Datasets
    PROVE  /\ lease'[d].by = IF lease[d].by \in W THEN Nobody ELSE lease[d].by
           /\ last[d].by \in W => last'[d].by = Nobody
           /\ last[d].by \notin W => last'[d] = last[d]
           /\ last'[d].age = last[d].age /\ last'[d].status = last[d].status
           /\ last[d] # NoRow <=> last'[d] # NoRow
<1>. USE Constants
<1>1. /\ lease'[d] = IF lease[d].by \in W THEN [lease[d] EXCEPT !.by = Nobody] ELSE lease[d]
      /\ last'[d] = IF last[d].by \in W THEN [last[d] EXCEPT !.by = Nobody] ELSE last[d]
  BY DEF Orphan
<1>2. (lease[d] \in Running \/ lease[d] = NoRow) /\ (last[d] \in Settled \/ last[d] = NoRow)
  BY RowFields
<1>. QED
  BY <1>1, <1>2 DEF Running, Settled, NoRow

LEMMA LostAbandon ==
    ASSUME TypeOK, LostInv, NEW w \in Workers, Abandon(w)
    PROVE  LostInv'
<1>1. Leave(w) /\ Orphan({w}) /\ {w} \in SUBSET Workers
  BY DEF Abandon
<1>2. \A e \in Datasets : last'[e].by = Nobody \/ (last[e].by # w /\ last'[e] = last[e])
  BY <1>1, OrphanFields
<1>3. \A e \in Datasets : lease'[e].by \in {lease[e].by, Nobody}
  BY <1>1, OrphanFields
<1>. QED
  BY <1>1, <1>2, <1>3, LostLeft

LEMMA LostCrash ==
    ASSUME TypeOK, Crash
    PROVE  LostInv'
<1>1. Orphan(Workers) /\ Workers \in SUBSET Workers
  BY DEF Crash
<1>2. \A d \in Datasets : last'[d].by = Nobody
  BY <1>1, OrphanFields, RowFields
<1>. QED
  BY <1>2, Constants DEF LostInv

LEMMA LostTick ==
    ASSUME TypeOK, LostInv, Tick
    PROVE  LostInv'
<1>. USE Constants
<1>. SUFFICES ASSUME NEW d \in Datasets, NEW w \in Workers, last'[d].by = w
              PROVE  /\ AtWork(w, d)' /\ worker'[w].age = last'[d].age
                     /\ last'[d].status = "FAILED" /\ lease'[d].by # w
  BY DEF LostInv
<1>1. /\ last'[d].by = last[d].by /\ last'[d].status = last[d].status
      /\ last[d] # NoRow => last'[d].age = Older(last[d].age, Horizon(d))
  <2>1. last'[d] = IF last[d] = NoRow THEN last[d]
                   ELSE [last[d] EXCEPT !.age = Older(last[d].age, Horizon(d))]
    BY DEF Tick
  <2>. QED
    BY <2>1, RowFields DEF Settled
<1>2. lease'[d].by = lease[d].by
  <2>1. lease'[d] = IF lease[d] = NoRow THEN lease[d]
                    ELSE [lease[d] EXCEPT !.age = Older(lease[d].age, Horizon(d))]
    BY DEF Tick
  <2>. QED
    BY <2>1, RowFields DEF Running
<1>3. /\ AtWork(w, d) /\ worker[w].age = last[d].age /\ last[d].status = "FAILED"
      /\ lease[d].by # w /\ last[d] # NoRow
  BY <1>1, RowFields DEF LostInv
<1>4. AtWork(w, d)' /\ worker'[w].age = Older(worker[w].age, Horizon(d))
  <2>1. worker'[w] = [worker[w] EXCEPT !.age = Older(worker[w].age, Horizon(worker[w].dataset))]
    BY <1>3 DEF Tick, AtWork
  <2>. QED
    BY <1>3, <2>1 DEF AtWork, TypeOK
<1>. QED
  BY <1>1, <1>2, <1>3, <1>4

LEMMA LostInvariance == Spec => []LostInv
<1>1. Init => LostInv
  BY Constants DEF Init, LostInv, NoRow
<1>2. TypeOK /\ LeaseInv /\ LostInv /\ [Next]_vars => LostInv'
  <2>. SUFFICES ASSUME TypeOK, LeaseInv, LostInv, [Next]_vars
                PROVE  LostInv'
    OBVIOUS
  <2>1. CASE UNCHANGED vars
    BY <2>1 DEF vars, rows, LostInv, AtWork
  <2>2. ASSUME NEW w \in Workers, Work(w)
        PROVE  LostInv'
    BY <2>2, LostExpire, LostInsert, LostFinish, LostAbandon DEF Work
  <2>3. CASE Next
    BY <2>2, <2>3, Constants, LostSchedule, LostCrash, LostTick DEF Next, Automation
  <2>. QED
    BY <2>1, <2>3
<1>. QED
  BY <1>1, <1>2, LeaseInvariance, PTL DEF Spec

\* A settled row never takes the place of a later one.
LEMMA LatestSettledIsLatest ==
    ASSUME TypeOK, NEW d \in Datasets, NEW row, row # NoRow,
           last[d] # NoRow, LatestSettled(d, row) # last[d]
    PROVE  LatestSettled(d, row) = row /\ row.age =< last[d].age
  BY DEF LatestSettled

LEMMA StandsStep ==
    ASSUME TypeOK, LeaseInv, LostInv, Next, NEW d \in Datasets
    PROVE  Stands(d)
<1>. USE Constants
<1>. SUFFICES ASSUME last[d] # NoRow, clock' = clock, last'[d] # last[d]
              PROVE  /\ last'[d] # NoRow /\ last'[d].age =< last[d].age
                     /\ last[d].status = "COMPLETE" =>
                           /\ lease[d] # NoRow /\ lease'[d] = NoRow
                           /\ last'[d].age = lease[d].age
  BY DEF Stands
<1>1. last[d].age \in Nat
  BY RowFields DEF Ages
<1>2. ASSUME NEW w \in Workers, Expire(w)
      PROVE  /\ last'[d] # NoRow /\ last'[d].age =< last[d].age
             /\ lease[d] # NoRow /\ lease'[d] = NoRow /\ last'[d].age = lease[d].age
  <2>. DEFINE row == [lease[d] EXCEPT !.status = "FAILED"]
  <2>1. d = worker[w].dataset /\ Overdue(d, w)
    BY <1>2 DEF Expire, TypeOK, rows
  <2>2. last' = [last EXCEPT ![d] = LatestSettled(d, row)] /\ lease' = [lease EXCEPT ![d] = NoRow]
    BY <1>2, <2>1 DEF Expire
  <2>3. last'[d] = LatestSettled(d, row) /\ lease'[d] = NoRow /\ lease[d] # NoRow
    BY <2>1, <2>2 DEF TypeOK, Overdue
  <2>4. row # NoRow /\ row.age = lease[d].age
    BY <2>3, RowFields DEF Running, NoRow
  <2>5. last'[d] = row /\ row.age =< last[d].age
    BY <2>3, <2>4, LatestSettledIsLatest
  <2>. QED
    BY <2>3, <2>4, <2>5
<1>3. ASSUME NEW w \in Workers, NEW o \in {"COMPLETE", "FAILED"}, Finish(w, o)
      PROVE  /\ last'[d] # NoRow /\ last'[d].age =< last[d].age
             /\ last[d].status = "COMPLETE" =>
                   /\ lease[d] # NoRow /\ lease'[d] = NoRow
                   /\ last'[d].age = lease[d].age
  <2>. DEFINE row == [status |-> o, age |-> worker[w].age, by |-> Nobody]
  <2>1. d = worker[w].dataset
    BY <1>3 DEF Finish, TypeOK
  <2>2. /\ lease' = IF lease[d].by = w THEN [lease EXCEPT ![d] = NoRow] ELSE lease
        /\ last' = IF lease[d].by = w THEN [last EXCEPT ![d] = LatestSettled(d, row)]
                   ELSE IF last[d].by = w THEN [last EXCEPT ![d] = row] ELSE last
    BY <1>3, <2>1 DEF Finish
  <2>3. row # NoRow /\ row.age = worker[w].age
    BY DEF NoRow
  <2>4. CASE lease[d].by = w
    <3>1. last'[d] = LatestSettled(d, row) /\ lease'[d] = NoRow /\ lease[d] # NoRow
      BY <2>2, <2>4, RowFields DEF TypeOK
    <3>2. last'[d] = row /\ row.age =< last[d].age
      BY <2>3, <3>1, LatestSettledIsLatest
    <3>3. lease[d].age = worker[w].age
      BY <2>4 DEF LeaseInv, Holds
    <3>. QED
      BY <2>3, <3>1, <3>2, <3>3
  <2>5. CASE lease[d].by # w /\ last[d].by = w
    <3>1. last'[d] = row
      BY <2>2, <2>5 DEF TypeOK
    <3>2. last[d].age = worker[w].age /\ last[d].status = "FAILED"
      BY <2>5 DEF LostInv
    <3>. QED
      BY <1>1, <2>3, <3>1, <3>2
  <2>. QED
    BY <2>2, <2>4, <2>5
<1>4. ASSUME NEW W \in SUBSET Workers, Orphan(W)
      PROVE  last'[d] # NoRow /\ last'[d].age =< last[d].age /\ last[d].status # "COMPLETE"
  <2>1. /\ last'[d].age = last[d].age /\ last'[d] # NoRow
        /\ last[d].by \in W
    BY <1>4, OrphanFields
  <2>. QED
    BY <1>1, <2>1 DEF LostInv
<1>5. ~Tick
  <2>1. Tick => clock' = (clock + 1) % Day
    BY DEF Tick
  <2>2. Day \in Nat /\ Day > 1 /\ clock \in 0 .. Day - 1
    BY Durations DEF TypeOK
  <2>3. (clock + 1) % Day # clock
    <3>1. CASE clock = Day - 1
      BY <2>2, <3>1
    <3>2. CASE clock # Day - 1
      BY <2>2, <3>2
    <3>. QED  BY <3>1, <3>2
  <2>. QED
    BY <2>1, <2>3
<1>6. ASSUME NEW w \in Workers, Insert(w)
      PROVE  FALSE
  BY <1>6 DEF Insert
<1>7. ~(Wake \/ Look \/ CycleEnds \/ \E h \in Handlers, e \in Datasets : Post(h, e))
  BY DEF Wake, Look, CycleEnds, Sleep, Post, rows
<1>8. /\ Crash => Orphan(Workers) /\ Workers \in SUBSET Workers
      /\ \A w \in Workers : Abandon(w) => Orphan({w}) /\ {w} \in SUBSET Workers
  BY DEF Crash, Abandon
<1>9. ASSUME NEW w \in Workers, Work(w)
      PROVE  /\ last'[d] # NoRow /\ last'[d].age =< last[d].age
             /\ last[d].status = "COMPLETE" =>
                   /\ lease[d] # NoRow /\ lease'[d] = NoRow
                   /\ last'[d].age = lease[d].age
  BY <1>2, <1>3, <1>4, <1>6, <1>8, <1>9 DEF Work
<1>. QED
  BY <1>4, <1>5, <1>7, <1>8, <1>9 DEF Next, Automation

\* An outcome is never replaced by that of an older run, and a COMPLETE one only
\* by the run that holds the lease: whatever is written late and by id, a
\* refresh that lost its lease undoes nobody else's outcome.
THEOREM OutcomesStand == Spec => OutcomeStands
<1>1. TypeOK /\ LeaseInv /\ LostInv /\ [Next]_vars => [\A d \in Datasets : Stands(d)]_vars
  BY StandsStep
<1>. QED
  BY <1>1, LeaseInvariance, LostInvariance, PTL DEF Spec, OutcomeStands
=============================================================================
