------------------------- MODULE WebhookOrderProofs -------------------------
(***************************************************************************)
(* What the inbox keeps of the dates of signals: for any packets and       *)
(* bounds, a signal that may have had its effects starts again only by an  *)
(* owner's retry of its own receipt, none starts after a newer one of its  *)
(* source that is recorded as processed, and none a day late.  The first   *)
(* two rest on a week of receipts being longer than the day a signal stays *)
(* valid.                                                                  *)
(***************************************************************************)
EXTENDS WebhookInboxProofs

\* The receipt of a settled signal outlives the signal's own validity, however
\* early the worker read the clock that the receipt's completion is dated with.
KeptLongEnough == Day + MaxLag <= Week

DatedPackets == {p \in Packets : Dated(p)}
PacketOf(i) == inbox[i].packet

\* A clock reading is at most MaxLag old while it is used.
ClockInv ==
    /\ worker.pc \in {"cleaning", "locking"} =>
          worker.at <= now /\ now <= worker.at + MaxLag
    /\ ~Free => job.at <= now /\ now <= job.at + MaxLag

\* Senders date closed bars, so a completion or dismissal is dated after the
\* bar, give or take the age of the clock reading.
DatesInv ==
    \A i \in Ids : Stored(i) /\ Dated(PacketOf(i)) =>
        /\ PacketOf(i).time <= now
        /\ inbox[i].status \in {"PROCESSED", "DISMISSED"} =>
              PacketOf(i).time <= inbox[i].completed + MaxLag

\* The event key of a dated signal admits one receipt at a time.
OneReceipt ==
    \A i, j \in Ids :
        Stored(i) /\ Stored(j) /\ Dated(PacketOf(i)) /\ PacketOf(i) = PacketOf(j) => i = j

\* Every clock that an execution will use from now on is past the day of q.
Past(q) ==
    /\ q.time + Day < now
    /\ worker.pc = "locking" => q.time + Day < worker.at
    /\ ~Free => q.time + Day < job.at

\* The receipts under which a signal came to its processor; each was counted.
TriedAs(q) == tried[q] \cap ReceiptIds
CountedInv == \A p \in Packets : \A i \in tried[p] : started[i] > 0

\* A signal that was ever tried still has the receipt that repetitions and older
\* signals are judged by, or is too old for it to matter.
Remembered ==
    \A q \in DatedPackets : \A j \in TriedAs(q) :
        (Stored(j) /\ PacketOf(j) = q) \/ Past(q)

\* Tried, and by its receipt not known to have been processed.
InDoubt(j, q) == /\ Stored(j) /\ PacketOf(j) = q
                 /\ inbox[j].status \in {"PROCESSING", "FAILED", "DISMISSED"}

\* What the guards of an execution found out is still true at the processor.
FreshInv ==
    job.pc = "invoke" => ~Expired(PacketOf(job.id), inbox[job.id].received, job.at)

AheadInv ==
    job.pc = "invoke" /\ Dated(PacketOf(job.id)) =>
        /\ \A j \in TriedAs(PacketOf(job.id)) : j = job.id
        /\ \A q \in Newer(PacketOf(job.id)) : \A j \in TriedAs(q) : InDoubt(j, q)

TimeInv == ClockInv /\ DatesInv /\ FreshInv
OrderInv == CountedInv /\ OneReceipt /\ Remembered /\ AheadInv

-----------------------------------------------------------------------------
(* What one step can do to a row, to the mutex and to the history          *)

Same(i) == /\ Stored(i) /\ Stored(i)'
           /\ PacketOf(i)' = PacketOf(i)
           /\ inbox'[i].received = inbox[i].received

LEMMA OutcomeSame ==
    ASSUME IInv, NEW i \in Ids, Stored(i), NEW at \in Nat,
           Fail(i) \/ Complete(i, at)
    PROVE  /\ Same(i)
           /\ inbox'[i].status = IF Fail(i) THEN "FAILED" ELSE "PROCESSED"
           /\ ~Fail(i) => inbox'[i].completed = at
           /\ \A j \in Ids \ {i} : inbox'[j] = inbox[j]
<1>1. inbox[i] \in Receipt /\ inbox \in [Ids -> Receipt \cup {NoRow}]
  BY RowFields DEF IInv, TypeOK
<1>2. CASE Fail(i)
  BY <1>1, <1>2 DEF Fail, Same, Stored, PacketOf, Receipt
<1>3. CASE ~Fail(i) /\ Complete(i, at)
  BY <1>1, <1>3 DEF Complete, Same, Stored, PacketOf, Receipt
<1>. QED
  BY <1>2, <1>3

\* A row is stored PENDING, completed by the holder, dismissed by the owner,
\* deleted by the clean-up, or moved between statuses that settle nothing.
LEMMA RowHistory ==
    ASSUME IInv, [Next]_vars, NEW i \in Ids
    PROVE  \/ inbox'[i] = inbox[i]
           \/ /\ i = lastId + 1
              /\ \E p \in Packets :
                    /\ Enqueue(p)
                    /\ inbox'[i] = [status |-> "PENDING", packet |-> p, received |-> now,
                                    completed |-> 0, dead |-> FALSE]
           \/ /\ Same(i)
              /\ inbox'[i].status \notin {"PROCESSED", "DISMISSED"}
           \/ /\ Same(i)
              /\ inbox'[i].status = "DISMISSED" /\ inbox'[i].completed = now
           \/ /\ Same(i) /\ Settle /\ i = job.id
              /\ inbox'[i].status = "PROCESSED" /\ inbox'[i].completed = job.at
           \/ /\ Cleanup /\ Stored(i) /\ inbox'[i] = NoRow
              /\ inbox[i].completed + Week < worker.at
<1>0. TypeOK /\ HolderInv /\ RowInv(i)
  BY DEF IInv
<1>1. CASE UNCHANGED inbox
  BY <1>1
<1>2. CASE Cleanup
  BY <1>2 DEF Cleanup
<1>3. CASE Recover /\ inbox' # inbox
  <2>1. PICK k \in Interrupted : Fail(k)
    BY <1>3, Zenon DEF Recover
  <2>2. k \in Ids /\ inbox[k].status = "PROCESSING" /\ Stored(k)
    BY <2>1 DEF Interrupted, Stored
  <2>. QED
    BY <2>1, <2>2, OutcomeSame DEF IInv, TypeOK
<1>4. CASE Execute
  <2>1. job.pc = "execute" /\ job.id \in Ids
    BY <1>0, <1>4, HolderFields DEF Execute, Free
  <2>2. Stored(job.id) /\ inbox[job.id].status \in {"PENDING", "FAILED"}
    BY <1>0, <2>1 DEF HolderInv, Stored
  <2>3. CASE Refused(job.id, job.at)
    BY <1>0, <1>4, <2>1, <2>2, <2>3, OutcomeSame DEF Execute, TypeOK
  <2>4. CASE ~Refused(job.id, job.at)
    <3>1. inbox' = [inbox EXCEPT ![job.id].status = "PROCESSING"]
      BY <1>4, <2>4 DEF Execute
    <3>2. inbox[job.id] \in Receipt
      BY <1>0, <2>1, <2>2, RowFields
    <3>. QED
      BY <1>0, <2>1, <2>2, <3>1, <3>2 DEF Same, Stored, PacketOf, TypeOK, Receipt
  <2>. QED
    BY <2>3, <2>4
<1>5. CASE Settle
  <2>1. job.pc = "settle" /\ job.id \in Ids /\ job.at \in Nat
    BY <1>0, <1>5, HolderFields DEF Settle, Free
  <2>2. Stored(job.id) /\ inbox[job.id].status = "PROCESSING"
    BY <1>0, <2>1 DEF HolderInv, Stored
  <2>3. Fail(job.id) \/ Complete(job.id, job.at)
    BY <1>5, Zenon DEF Settle
  <2>. QED
    BY <1>5, <2>1, <2>2, <2>3, OutcomeSame
<1>6. ASSUME NEW k \in Ids, Dismiss(k), inbox' # inbox
      PROVE  inbox'[i] = inbox[i] \/ (/\ Same(i) /\ inbox'[i].status = "DISMISSED"
                                      /\ inbox'[i].completed = now)
  <2>1. Stored(k) /\ Unresolved(k)
        /\ inbox' = [inbox EXCEPT ![k].status = "DISMISSED", ![k].completed = now]
    BY <1>6 DEF Dismiss
  <2>2. inbox[k] \in Receipt
    BY <1>0, <2>1, RowFields
  <2>. QED
    BY <1>0, <2>1, <2>2 DEF Same, Stored, PacketOf, TypeOK, Receipt
<1>7. ASSUME NEW p \in Packets, Enqueue(p)
      PROVE  inbox'[i] = inbox[i] \/
             /\ i = lastId + 1
             /\ inbox'[i] = [status |-> "PENDING", packet |-> p, received |-> now,
                             completed |-> 0, dead |-> FALSE]
  <2>1. inbox' = [inbox EXCEPT ![lastId + 1] =
                    [status |-> "PENDING", packet |-> p, received |-> now,
                     completed |-> 0, dead |-> FALSE]]
    BY <1>7 DEF Enqueue
  <2>2. i \in DOMAIN inbox
    BY <1>0 DEF TypeOK
  <2>. QED
    BY <2>1, <2>2
<1>. QED
  BY <1>1, <1>2, <1>3, <1>4, <1>5, <1>6, <1>7
     DEF Next, Worker, Execution, Owner, Sender, Environment, ReadClock, Lock, Select,
         Invoke, SettleLegacy, Retry, RetryLegacy, HolderFails, Crash, Tick, vars

\* A packet comes to a processor under a receipt only from the execution of that
\* receipt: a letter that is replayed directly is older than the inbox.
LEMMA TriedHistory ==
    ASSUME IInv, [Next]_vars, NEW p \in Packets, NEW j \in ReceiptIds,
           j \in tried'[p], j \notin tried[p]
    PROVE  /\ Invoke /\ job.pc = "invoke" /\ j = job.id
           /\ Stored(j) /\ PacketOf(j) = p
<1>0. TypeOK /\ HolderInv /\ j \in Ids /\ j > Len(Legacy)
  BY PacketsAssumption DEF IInv, ReceiptIds, LegacyIds, Ids
<1>1. Invoke
  BY DEF Next, Worker, Execution, Owner, Sender, Environment, ReadClock, Cleanup, Lock,
         Recover, Select, Execute, Settle, SettleLegacy, Retry, RetryLegacy, Dismiss,
         Enqueue, HolderFails, Crash, Tick, vars
<1>2. p = Handed /\ j = job.id
  <2>1. tried' = [tried EXCEPT ![Handed] = @ \cup {job.id}]
    BY <1>1 DEF Invoke
  <2>. QED
    BY <1>0, <2>1 DEF TypeOK
<1>3. job.pc = "invoke"
  BY <1>0, <1>1, <1>2 DEF Invoke, HolderInv, IInv, RowInv
<1>. QED
  BY <1>0, <1>1, <1>2, <1>3 DEF HolderInv, Stored, Handed, PacketOf

\* Runs are counted before anything is made of them, and no count is taken back.
LEMMA StartedHistory ==
    ASSUME IInv, [Next]_vars, NEW i \in Ids
    PROVE  started'[i] >= started[i] /\ (Invoke /\ i = job.id => started'[i] > 0)
<1>0. TypeOK
  BY DEF IInv
<1>1. CASE Invoke
  <2>1. started' = [started EXCEPT ![job.id] = @ + 1]
    BY <1>1 DEF Invoke
  <2>. QED
    BY <1>0, <2>1 DEF TypeOK
<1>2. CASE started' = started /\ ~Invoke
  BY <1>0, <1>2 DEF TypeOK
<1>. QED
  BY <1>1, <1>2
     DEF Next, Worker, Execution, Owner, Sender, Environment, ReadClock, Cleanup, Lock,
         Recover, Select, Execute, Settle, SettleLegacy, Retry, RetryLegacy, Dismiss,
         Enqueue, HolderFails, Crash, Tick, vars

\* A holder keeps the clock reading it began with; the worker took its own
\* before it waited for the mutex, the owner's handler takes one inside.
LEMMA HolderHistory ==
    ASSUME IInv, [Next]_vars, ~Free'
    PROVE  \/ ~Free /\ job'.at = job.at
           \/ Free /\ job'.at = now /\ now' = now
           \/ Lock
<1>1. CASE UNCHANGED job
  BY <1>1 DEF Free
<1>2. CASE Recover \/ Select \/ Execute \/ Invoke
  <2>1. ~Free
    BY <1>2 DEF Recover, Select, Execute, Invoke, Free
  <2>2. CASE Recover
    <3>1. job \in [pc : {"recover", "select"}, at : Nat]
      BY <2>1, <2>2, HolderFields DEF Recover, IInv
    <3>. QED
      BY <2>1, <2>2, <3>1, <1>1 DEF Recover
  <2>3. CASE Select
    <3>1. job' = NoJob \/ \E i \in Pending : job' = [pc |-> "execute", id |-> i, at |-> job.at]
      BY <2>3, Zenon DEF Select
    <3>. QED
      BY <2>1, <3>1 DEF Free, NoJob
  <2>4. CASE Execute
    <3>1. job \in [pc : {"execute", "invoke"}, id : Ids, at : Nat]
      BY <2>1, <2>4, HolderFields DEF Execute, IInv
    <3>. QED
      BY <2>1, <2>4, <3>1 DEF Execute, Free, NoJob
  <2>5. CASE Invoke
    <3>1. \E ok, pc : job' = [pc |-> pc, id |-> job.id, at |-> job.at, ok |-> ok]
      BY <2>5, Zenon DEF Invoke
    <3>. QED
      BY <2>1, <3>1
  <2>. QED
    BY <1>2, <2>2, <2>3, <2>4, <2>5
<1>3. ASSUME NEW i \in Ids, Retry(i) \/ RetryLegacy(i)
      PROVE  Free /\ (job' = job \/ job'.at = now) /\ now' = now
  BY <1>3 DEF Retry, RetryLegacy
<1>4. job' # NoJob
  BY DEF Free, NoJob
<1>. QED
  BY <1>1, <1>2, <1>3, <1>4
     DEF Next, Worker, Execution, Owner, Sender, Environment, ReadClock, Cleanup,
         Settle, SettleLegacy, Dismiss, Enqueue, HolderFails, Crash, Tick, vars, Free

\* Whoever is at the processor came there through the guards with the same
\* receipt, and while it is there nobody touches a receipt.
LEMMA ProcessorHistory ==
    ASSUME IInv, [Next]_vars, job'.pc = "invoke"
    PROVE  \E k \in Ids :
              /\ k = job.id /\ k = job'.id /\ job'.at = job.at /\ Same(k)
              /\ UNCHANGED tried
              /\ \A j \in Ids \ {k} : Stored(j) => inbox'[j] = inbox[j]
              /\ \/ job.pc = "invoke"
                 \/ job.pc = "execute" /\ ~Refused(k, job.at)
<1>0. TypeOK /\ HolderInv
  BY DEF IInv
<1>1. CASE Execute
  <2>1. job \in [pc : {"execute", "invoke"}, id : Ids, at : Nat] /\ job.pc = "execute"
    BY <1>0, <1>1, HolderFields DEF Execute, Free
  <2>2. PICK k \in Ids : k = job.id /\ Stored(k)
    BY <1>0, <2>1 DEF HolderInv, Stored
  <2>3. ~Refused(k, job.at) /\ UNCHANGED tried
        /\ inbox' = [inbox EXCEPT ![k].status = "PROCESSING"]
        /\ job' = [job EXCEPT !.pc = "invoke"]
    BY <1>1, <2>2 DEF Execute, NoJob
  <2>4. inbox[k] \in Receipt
    BY <1>0, <2>2, RowFields
  <2>5. Same(k) /\ \A j \in Ids \ {k} : inbox'[j] = inbox[j]
    BY <1>0, <2>2, <2>3, <2>4 DEF Same, Stored, PacketOf, TypeOK, Receipt
  <2>6. k = job'.id /\ job'.at = job.at
    BY <2>1, <2>2, <2>3
  <2>. QED
    BY <2>1, <2>2, <2>3, <2>5, <2>6
<1>2. CASE ~Execute
  <2>1. ~Lock /\ ~Select /\ ~Recover /\ ~Invoke
    <3>1. CASE Lock
      BY <3>1 DEF Lock
    <3>2. CASE Select
      <4>1. job' = NoJob \/ \E i \in Pending : job' = [pc |-> "execute", id |-> i, at |-> job.at]
        BY <3>2, Zenon DEF Select
      <4>. QED
        BY <4>1 DEF NoJob
    <3>3. CASE Recover
      <4>1. job \in [pc : {"recover", "select"}, at : Nat] /\ job.pc = "recover"
        BY <1>0, <3>3, HolderFields DEF Recover, Free
      <4>. QED
        BY <3>3, <4>1 DEF Recover
    <3>4. CASE Invoke
      <4>1. \E ok \in BOOLEAN, pc \in {"settle", "settle legacy"} :
               job' = [pc |-> pc, id |-> job.id, at |-> job.at, ok |-> ok]
        BY <3>4, Zenon DEF Invoke
      <4>. QED
        BY <4>1
    <3>. QED
      BY <3>1, <3>2, <3>3, <3>4
  <2>2. ~Settle /\ ~SettleLegacy /\ ~HolderFails /\ ~Crash
    <3>1. job' # NoJob
      BY DEF NoJob
    <3>. QED
      BY <3>1 DEF Settle, SettleLegacy, HolderFails, Crash
  <2>3. \A i \in Ids : Retry(i) \/ RetryLegacy(i) => UNCHANGED <<job, inbox, tried>>
    BY DEF Retry, RetryLegacy
  <2>4. job' = job /\ UNCHANGED tried
    BY <1>2, <2>1, <2>2, <2>3
       DEF Next, Worker, Execution, Owner, Sender, Environment, ReadClock, Cleanup,
           Dismiss, Enqueue, Tick, vars
  <2>5. job.pc = "invoke" /\ ~Free
    BY <2>4 DEF Free
  <2>6. PICK k \in Ids : k = job.id /\ Stored(k)
    BY <1>0, <2>5, HolderFields DEF HolderInv, Stored
  <2>7. \A j \in Ids : Stored(j) => inbox'[j] = inbox[j]
    <3>1. ASSUME NEW p \in Packets, Enqueue(p), NEW j \in Ids, Stored(j)
          PROVE  inbox'[j] = inbox[j]
      <4>1. j # lastId + 1
        BY <1>0, <3>1 DEF IInv, RowInv, TypeOK, Ids
      <4>. QED
        BY <1>0, <3>1, <4>1 DEF Enqueue, TypeOK
    <3>. QED
      BY <1>2, <2>1, <2>2, <2>3, <2>5, <3>1
         DEF Next, Worker, Execution, Owner, Sender, Environment, ReadClock, Cleanup,
             Dismiss, Tick, vars
  <2>. QED
    BY <2>4, <2>5, <2>6, <2>7 DEF Same, Stored, PacketOf
<1>. QED
  BY <1>1, <1>2

-----------------------------------------------------------------------------
(* Clocks: nothing is started a day late                                   *)

LEMMA NowHistory ==
    ASSUME TypeOK, [Next]_vars
    PROVE  now' = now \/ (Tick /\ now' = now + 1)
BY DEF Next, Worker, Execution, Owner, Sender, Environment, ReadClock, Cleanup, Lock,
       Recover, Select, Execute, Invoke, Settle, SettleLegacy, Retry, RetryLegacy,
       Dismiss, Enqueue, HolderFails, Crash, Tick, vars

LEMMA WorkerHistory ==
    ASSUME TypeOK, [Next]_vars
    PROVE  \/ worker' = worker
           \/ worker'.pc \in {"idle", "cleaned"}
           \/ worker'.at = now
<1>1. CASE ReadClock
  BY <1>1 DEF ReadClock
<1>2. CASE Cleanup
  BY <1>2 DEF Cleanup
<1>3. CASE Lock \/ Crash
  BY <1>3 DEF Lock, Crash
<1>. QED
  BY <1>1, <1>2, <1>3
     DEF Next, Worker, Execution, Owner, Sender, Environment, Recover, Select, Execute,
         Invoke, Settle, SettleLegacy, Retry, RetryLegacy, Dismiss, Enqueue, HolderFails,
         Tick, vars

LEMMA ClockStep ==
    ASSUME IInv, ClockInv, [Next]_vars
    PROVE  ClockInv'
<1>0. TypeOK /\ TypeOK' /\ MaxLag \in Nat
  BY InvStep, BoundsAssumption DEF IInv
<1>1. worker.at \in Nat /\ now \in Nat /\ (~Free => job.at \in Nat)
  BY <1>0, HolderFields DEF TypeOK
<1>2. CASE Tick
  BY <1>0, <1>1, <1>2 DEF Tick, ClockInv, Free
<1>3. CASE now' = now
  <2>1. ASSUME Lock
        PROVE  job'.at <= now /\ now <= job'.at + MaxLag
    BY <2>1 DEF Lock, ClockInv
  <2>2. worker'.pc \in {"cleaning", "locking"} =>
          worker'.at <= now /\ now <= worker'.at + MaxLag
    BY <1>0, <1>1, WorkerHistory DEF ClockInv
  <2>3. ~Free' => job'.at <= now /\ now <= job'.at + MaxLag
    BY <1>0, <1>1, <2>1, HolderHistory DEF ClockInv
  <2>. QED
    BY <1>3, <2>2, <2>3 DEF ClockInv
<1>. QED
  BY <1>0, <1>2, <1>3, NowHistory

LEMMA DatesStep ==
    ASSUME IInv, ClockInv, DatesInv, [Next]_vars
    PROVE  DatesInv'
<1>0. TypeOK /\ TypeOK' /\ MaxLag \in Nat
  BY InvStep, BoundsAssumption DEF IInv
<1>1. now \in Nat /\ now' \in Nat /\ now <= now'
  BY <1>0, NowHistory DEF TypeOK
<1>. SUFFICES ASSUME NEW i \in Ids, Stored(i)', Dated(PacketOf(i))'
              PROVE  /\ PacketOf(i)'.time <= now'
                     /\ inbox'[i].status \in {"PROCESSED", "DISMISSED"} =>
                           PacketOf(i)'.time <= inbox'[i].completed + MaxLag
  BY DEF DatesInv
<1>2. inbox'[i] \in Receipt /\ PacketOf(i)'.time \in Nat
  BY <1>0, PacketsAssumption DEF TypeOK, Stored, NoRow, Receipt, PacketOf, Dated
<1>3. CASE inbox'[i] = inbox[i]
  BY <1>1, <1>2, <1>3 DEF DatesInv, Stored, PacketOf, Dated
<1>4. CASE \E p \in Packets :
              /\ Enqueue(p)
              /\ inbox'[i] = [status |-> "PENDING", packet |-> p, received |-> now,
                              completed |-> 0, dead |-> FALSE]
  BY <1>1, <1>2, <1>4 DEF Enqueue, PacketOf, Dated
<1>5. CASE Same(i) /\ inbox'[i].status \notin {"PROCESSED", "DISMISSED"}
  BY <1>1, <1>2, <1>5 DEF DatesInv, Same, Dated
<1>6. CASE Same(i) /\ inbox'[i].completed = now
  BY <1>0, <1>1, <1>2, <1>6 DEF DatesInv, Same, Dated
<1>7. CASE Same(i) /\ Settle /\ inbox'[i].completed = job.at
  <2>1. job.pc = "settle" /\ job.at \in Nat
    BY <1>0, <1>7, HolderFields DEF Settle, Free
  <2>2. now <= job.at + MaxLag
    BY <2>1 DEF ClockInv, Free
  <2>. QED
    BY <1>0, <1>1, <1>2, <1>7, <2>1, <2>2 DEF DatesInv, Same, Dated
<1>8. inbox'[i] # NoRow
  BY DEF Stored, NoRow
<1>. QED
  BY <1>3, <1>4, <1>5, <1>6, <1>7, <1>8, RowHistory

LEMMA FreshStep ==
    ASSUME IInv, FreshInv, [Next]_vars
    PROVE  FreshInv'
<1>. SUFFICES ASSUME job'.pc = "invoke"
              PROVE  ~Expired(inbox'[job'.id].packet, inbox'[job'.id].received, job'.at)
  BY DEF FreshInv, PacketOf, Expired
<1>1. PICK k \in Ids :
              /\ k = job.id /\ k = job'.id /\ job'.at = job.at /\ Same(k)
              /\ \/ job.pc = "invoke"
                 \/ job.pc = "execute" /\ ~Refused(k, job.at)
  BY ProcessorHistory
<1>2. ~Expired(inbox[k].packet, inbox[k].received, job.at)
  BY <1>1 DEF FreshInv, Refused, PacketOf
<1>. QED
  BY <1>1, <1>2 DEF Same, PacketOf

LEMMA TimeInit == Init => TimeInv
BY DEF Init, TimeInv, ClockInv, DatesInv, FreshInv, NoJob, Free, Stored, NoRow

LEMMA TimeStep == IInv /\ TimeInv /\ [Next]_vars => TimeInv'
BY ClockStep, DatesStep, FreshStep DEF TimeInv

LEMMA TimeInvariance == Spec => []TimeInv
BY Invariance, TimeInit, TimeStep, PTL DEF Spec

\* No processor starts on a signal that was received, or is dated, more than a
\* day ago, whoever starts it and however long the signal has been waiting.
THEOREM NeverStartedLate == Spec => NoStaleStart
<1>1. ASSUME IInv, TimeInv, [Next]_vars
      PROVE  [\A i \in ReceiptIds :
                started'[i] > started[i] =>
                   /\ now <= inbox[i].received + Day + MaxLag
                   /\ inbox[i].packet.time # NoTime =>
                         now <= inbox[i].packet.time + Day + MaxLag]_vars
  <2>. SUFFICES ASSUME NEW i \in ReceiptIds, started'[i] > started[i]
                PROVE  /\ now <= inbox[i].received + Day + MaxLag
                       /\ inbox[i].packet.time # NoTime =>
                             now <= inbox[i].packet.time + Day + MaxLag
    OBVIOUS
  <2>0. TypeOK /\ i \in Ids /\ i > Len(Legacy)
    BY <1>1, PacketsAssumption DEF IInv, ReceiptIds, LegacyIds, Ids
  <2>. started' # started
    BY <2>0 DEF TypeOK
  <2>1. Invoke
    BY <1>1
       DEF Next, Worker, Execution, Owner, Sender, Environment, ReadClock, Cleanup,
           Lock, Recover, Select, Execute, Settle, SettleLegacy, Retry, RetryLegacy, Dismiss,
           Enqueue, HolderFails, Crash, Tick, vars
  <2>2. i = job.id
    <3>1. started' = [started EXCEPT ![job.id] = @ + 1]
      BY <2>1 DEF Invoke
    <3>. QED
      BY <2>0, <3>1 DEF TypeOK
  <2>3. job.pc = "invoke"
    BY <1>1, <2>0, <2>1, <2>2 DEF Invoke, IInv, HolderInv, RowInv
  <2>4. now <= job.at + MaxLag /\ job.at \in Nat /\ now \in Nat
    BY <1>1, <2>0, <2>3, HolderFields DEF TimeInv, ClockInv, Free, TypeOK
  <2>5. inbox[i] \in Receipt
    BY <1>1, <2>0, <2>2, <2>3, RowFields DEF IInv, HolderInv, Stored
  <2>6. ~Expired(inbox[i].packet, inbox[i].received, job.at)
    BY <1>1, <2>2, <2>3 DEF TimeInv, FreshInv, PacketOf
  <2>7. Day \in Nat /\ MaxLag \in Nat /\ inbox[i].received \in Nat
        /\ inbox[i].packet.time \in Nat \cup {NoTime}
    BY <2>5, BoundsAssumption, PacketsAssumption DEF Receipt
  <2>. QED
    BY <2>4, <2>6, <2>7 DEF Expired
<1>. QED
  BY <1>1, Invariance, TimeInvariance, PTL DEF Spec, NoStaleStart

-----------------------------------------------------------------------------
(* Order: nothing starts after what is newer and done, or again by itself  *)

LEMMA OneReceiptStep ==
    ASSUME IInv, OneReceipt, [Next]_vars
    PROVE  OneReceipt'
<1>1. ASSUME NEW i \in Ids, Stored(i)'
      PROVE  \/ Stored(i) /\ PacketOf(i)' = PacketOf(i)
             \/ /\ i = lastId + 1
                /\ \E p \in Packets : Enqueue(p) /\ PacketOf(i)' = p
  <2>1. inbox'[i] # NoRow
    BY <1>1 DEF Stored, NoRow
  <2>2. CASE inbox'[i] = inbox[i]
    BY <1>1, <2>2 DEF Stored, PacketOf
  <2>3. CASE Same(i)
    BY <2>3 DEF Same
  <2>4. ASSUME NEW p \in Packets,
               inbox'[i] = [status |-> "PENDING", packet |-> p, received |-> now,
                            completed |-> 0, dead |-> FALSE]
        PROVE  PacketOf(i)' = p
    BY <2>4 DEF PacketOf
  <2>. QED
    BY <2>1, <2>2, <2>3, <2>4, RowHistory
<1>2. ASSUME NEW j \in Ids, Stored(j), NEW p \in Packets, Enqueue(p), Dated(p)
      PROVE  PacketOf(j) # p
  <2>1. EventKey(p) # <<>>
    BY <1>2 DEF EventKey, Dated
  <2>2. SameKey(p) = {}
    BY <1>2, <2>1 DEF Enqueue, Twin
  <2>. QED
    BY <1>2, <2>2 DEF SameKey, PacketOf
<1>. SUFFICES ASSUME NEW i \in Ids, NEW j \in Ids, Stored(i)', Stored(j)',
                     Dated(PacketOf(i))', PacketOf(i)' = PacketOf(j)'
              PROVE  i = j
  BY DEF OneReceipt
<1>. QED
  BY <1>1, <1>2 DEF OneReceipt, Dated

LEMMA CountedStep ==
    ASSUME IInv, CountedInv, [Next]_vars
    PROVE  CountedInv'
<1>0. TypeOK
  BY DEF IInv
<1>. SUFFICES ASSUME NEW p \in Packets, NEW i \in tried'[p]
              PROVE  started'[i] > 0
  BY DEF CountedInv
<1>1. i \in Ids
  BY InvStep DEF IInv, TypeOK
<1>2. CASE i \in tried[p]
  <2>1. started[i] > 0 /\ started[i] \in Nat /\ started'[i] \in Nat
    BY <1>0, <1>1, <1>2, InvStep DEF CountedInv, IInv, TypeOK
  <2>. QED
    BY <1>1, <2>1, StartedHistory
<1>3. CASE i \notin tried[p]
  <2>1. Invoke
    BY <1>3
       DEF Next, Worker, Execution, Owner, Sender, Environment, ReadClock, Cleanup, Lock,
           Recover, Select, Execute, Settle, SettleLegacy, Retry, RetryLegacy, Dismiss,
           Enqueue, HolderFails, Crash, Tick, vars
  <2>2. i = job.id
    <3>1. tried' = [tried EXCEPT ![Handed] = @ \cup {job.id}]
      BY <2>1 DEF Invoke
    <3>. QED
      BY <1>0, <1>3, <3>1 DEF TypeOK
  <2>. QED
    BY <1>1, <2>1, <2>2, StartedHistory
<1>. QED
  BY <1>2, <1>3

LEMMA RememberedStep ==
    ASSUME KeptLongEnough, IInv, TimeInv, CountedInv, Remembered, [Next]_vars
    PROVE  Remembered'
<1>0. TypeOK /\ TypeOK' /\ {Day, Week, MaxLag} \subseteq Nat
  BY InvStep, BoundsAssumption DEF IInv
<1>. SUFFICES ASSUME NEW q \in DatedPackets, NEW j \in ReceiptIds, j \in tried'[q]
              PROVE  (Stored(j)' /\ PacketOf(j)' = q) \/ Past(q)'
  BY DEF Remembered, TriedAs
<1>1. q \in Packets /\ q.time \in Nat /\ j \in Ids /\ Dated(q)
  BY PacketsAssumption DEF DatedPackets, Dated, ReceiptIds
<1>2. CASE j \notin tried[q]
  BY <1>1, <1>2, TriedHistory DEF Invoke, Stored, PacketOf
<1>3. CASE j \in tried[q] /\ Stored(j) /\ PacketOf(j) = q
  <2>1. CASE inbox'[j] = inbox[j]
    BY <1>3, <2>1 DEF Stored, PacketOf
  <2>2. CASE Cleanup /\ inbox[j].completed + Week < worker.at /\ inbox'[j] # inbox[j]
    <3>0. inbox[j].status \in {"PROCESSED", "DISMISSED"}
      <4>. DEFINE old == {i \in Ids : /\ Stored(i)
                                      /\ inbox[i].status \in {"PROCESSED", "DISMISSED"}
                                      /\ inbox[i].completed + Week < worker.at}
      <4>1. inbox' = [i \in Ids |-> IF i \in old THEN NoRow ELSE inbox[i]]
        BY <2>2 DEF Cleanup
      <4>. QED
        BY <1>1, <2>2, <4>1
    <3>1. q.time <= inbox[j].completed + MaxLag
      BY <1>1, <1>3, <3>0 DEF TimeInv, DatesInv
    <3>2. worker.at <= now /\ worker.at \in Nat
      BY <1>0, <2>2 DEF TimeInv, ClockInv, Cleanup, TypeOK
    <3>3. inbox[j].completed \in Nat
      BY <1>0, <1>1, <1>3, RowFields DEF Receipt
    <3>4. q.time + Day < now
      BY <1>0, <1>1, <2>2, <3>1, <3>2, <3>3 DEF KeptLongEnough, TypeOK
    <3>5. now' = now /\ worker'.pc = "cleaned" /\ Free'
      BY <2>2 DEF Cleanup, Free
    <3>. QED
      BY <3>4, <3>5 DEF Past
  <2>3. j # lastId + 1
    BY <1>0, <1>1, <1>3 DEF IInv, RowInv, TypeOK, Ids
  <2>4. CASE Same(j)
    BY <1>3, <2>4 DEF Same
  <2>. QED
    BY <1>1, <2>1, <2>2, <2>3, <2>4, RowHistory
<1>4. CASE Past(q)
  <2>1. q.time + Day < now /\ now \in Nat
    BY <1>0, <1>4 DEF Past, TypeOK
  <2>2. q.time + Day < now'
    BY <1>0, <1>1, <2>1, NowHistory
  <2>3. worker'.pc = "locking" => q.time + Day < worker'.at
    BY <1>0, <1>4, <2>1, WorkerHistory DEF Past
  <2>4. Lock => q.time + Day < job'.at
    BY <1>4 DEF Lock, Past
  <2>5. ~Free' => q.time + Day < job'.at
    BY <1>4, <2>1, <2>4, HolderHistory DEF Past
  <2>. QED
    BY <2>2, <2>3, <2>5 DEF Past
<1>. QED
  BY <1>2, <1>3, <1>4 DEF Remembered, TriedAs

\* The guards of an execution: the receipt under which a signal was tried is the
\* one being executed, and that of a newer signal does not say processed.
LEMMA GuardsPassed ==
    ASSUME IInv, CountedInv, OneReceipt, Remembered, job.pc = "execute",
           NEW k \in Ids, k = job.id, Stored(k), Dated(PacketOf(k)),
           ~Refused(k, job.at),
           NEW q \in DatedPackets, q = PacketOf(k) \/ q \in Newer(PacketOf(k)),
           NEW j \in TriedAs(q)
    PROVE  /\ q = PacketOf(k) => j = k
           /\ q # PacketOf(k) => j # k /\ InDoubt(j, q)
<1>0. TypeOK /\ Day \in Nat /\ j \in Ids /\ j \in tried[q] /\ q \in Packets
  BY BoundsAssumption DEF IInv, TriedAs, ReceiptIds, DatedPackets
<1>. DEFINE p == PacketOf(k)
<1>1. p.time \in Nat /\ q.time \in Nat /\ q.time >= p.time
  BY <1>0, RowFields, PacketsAssumption DEF Newer, DatedPackets, Dated, Receipt, PacketOf
<1>2. job.at \in Nat /\ ~Free
  BY <1>0, HolderFields DEF Free
<1>3. ~(job.at > p.time + Day)
  BY DEF Refused, Expired, PacketOf, Dated
<1>4. ~Past(q)
  BY <1>0, <1>1, <1>2, <1>3 DEF Past
<1>5. Stored(j) /\ PacketOf(j) = q
  BY <1>4 DEF Remembered
<1>6. CASE q = p
  BY <1>0, <1>5, <1>6 DEF OneReceipt
<1>7. CASE q # p
  <2>1. j # k
    BY <1>5, <1>7
  <2>2. inbox[j].status # "PENDING"
    <3>1. started[j] > 0 /\ started[j] \in Nat
      BY <1>0 DEF CountedInv, TypeOK
    <3>. QED
      BY <1>0, <1>5, <3>1 DEF IInv, RowInv
  <2>3. inbox[j].status # "PROCESSED"
    <3>1. inbox[j].packet.stream = inbox[k].packet.stream
          /\ inbox[j].packet.time # NoTime /\ inbox[j].packet.time > inbox[k].packet.time
      BY <1>5, <1>7 DEF Newer, PacketOf, Dated
    <3>. QED
      BY <1>0, <1>5, <2>1, <3>1 DEF Refused, Superseded, PacketOf, Dated
  <2>4. inbox[j].status \in Statuses
    BY <1>0, <1>5, RowFields DEF Receipt
  <2>. QED
    BY <1>5, <1>7, <2>1, <2>2, <2>3, <2>4 DEF InDoubt, Statuses
<1>. QED
  BY <1>6, <1>7

LEMMA AheadStep ==
    ASSUME IInv, CountedInv, OneReceipt, Remembered, AheadInv, [Next]_vars
    PROVE  AheadInv'
<1>. SUFFICES ASSUME job'.pc = "invoke", Dated(inbox'[job'.id].packet)
              PROVE  /\ \A j \in tried'[inbox'[job'.id].packet] \cap ReceiptIds : j = job'.id
                     /\ \A q \in Newer(inbox'[job'.id].packet) :
                           \A j \in tried'[q] \cap ReceiptIds : InDoubt(j, q)'
  BY DEF AheadInv, PacketOf, TriedAs, InDoubt, Newer, Dated
<1>1. PICK k \in Ids :
              /\ k = job.id /\ k = job'.id /\ Same(k) /\ UNCHANGED tried
              /\ \A j \in Ids \ {k} : Stored(j) => inbox'[j] = inbox[j]
              /\ \/ job.pc = "invoke"
                 \/ job.pc = "execute" /\ ~Refused(k, job.at)
  BY ProcessorHistory
<1>. DEFINE p == PacketOf(k)
<1>2. inbox'[job'.id].packet = p /\ Stored(k) /\ Dated(p) /\ p \in DatedPackets
  <2>1. p \in Packets
    BY <1>1, RowFields DEF Same, IInv, PacketOf, Receipt
  <2>. QED
    BY <1>1, <2>1 DEF Same, PacketOf, DatedPackets, Dated
<1>3. \A q \in Packets : tried'[q] \cap ReceiptIds = TriedAs(q)
  BY <1>1 DEF TriedAs
<1>4. Newer(p) \subseteq DatedPackets /\ p \notin Newer(p)
  BY <1>2, PacketsAssumption DEF Newer, DatedPackets, Dated
<1>5. /\ \A j \in TriedAs(p) : j = k
      /\ \A q \in Newer(p) : \A j \in TriedAs(q) : j # k /\ InDoubt(j, q)
  <2>1. CASE job.pc = "invoke"
    BY <1>1, <1>2, <1>4, <2>1 DEF AheadInv, InDoubt
  <2>2. CASE job.pc = "execute" /\ ~Refused(k, job.at)
    BY <1>1, <1>2, <1>4, <2>2, GuardsPassed
  <2>. QED
    BY <1>1, <2>1, <2>2
<1>6. ASSUME NEW q \in Newer(p), NEW j \in TriedAs(q)
      PROVE  InDoubt(j, q)'
  BY <1>1, <1>5, <1>6 DEF InDoubt, Stored, PacketOf, TriedAs, ReceiptIds
<1>. QED
  BY <1>1, <1>2, <1>3, <1>4, <1>5, <1>6 DEF DatedPackets

LEMMA OrderInit == Init => OrderInv
<1>. SUFFICES ASSUME Init
              PROVE  OrderInv
  OBVIOUS
<1>1. \A p \in Packets : tried[p] = {}
  BY DEF Init
<1>2. \A i \in Ids : ~Stored(i)
  BY DEF Init, Stored, NoRow
<1>3. job.pc = "free"
  BY DEF Init, NoJob
<1>4. OneReceipt
  BY <1>2 DEF OneReceipt
<1>5. Remembered /\ CountedInv
  BY <1>1 DEF Remembered, CountedInv, TriedAs, DatedPackets
<1>6. AheadInv
  BY <1>3 DEF AheadInv
<1>. QED
  BY <1>4, <1>5, <1>6 DEF OrderInv

LEMMA OrderInvariance ==
    ASSUME KeptLongEnough
    PROVE  Spec => []OrderInv
<1>1. IInv /\ TimeInv /\ OrderInv /\ [Next]_vars => OrderInv'
  BY CountedStep, OneReceiptStep, RememberedStep, AheadStep DEF OrderInv
<1>. QED
  BY <1>1, OrderInit, Invariance, TimeInvariance, PTL DEF Spec

\* What is started is a receipt at the processor, through the guards.
LEMMA StartsAtProcessor ==
    ASSUME IInv, [Next]_vars, NEW i \in ReceiptIds, started'[i] > started[i]
    PROVE  job.pc = "invoke" /\ i = job.id /\ i \in Ids /\ Stored(i)
           /\ inbox[i].status = "PROCESSING"
<1>0. TypeOK /\ i \in Ids /\ i > Len(Legacy)
  BY PacketsAssumption DEF IInv, ReceiptIds, LegacyIds, Ids
<1>. started' # started
  BY <1>0 DEF TypeOK
<1>1. Invoke
  BY DEF Next, Worker, Execution, Owner, Sender, Environment, ReadClock, Cleanup,
         Lock, Recover, Select, Execute, Settle, SettleLegacy, Retry, RetryLegacy,
         Dismiss, Enqueue, HolderFails, Crash, Tick, vars
<1>2. i = job.id
  <2>1. started' = [started EXCEPT ![job.id] = @ + 1]
    BY <1>1 DEF Invoke
  <2>. QED
    BY <1>0, <2>1 DEF TypeOK
<1>3. job.pc = "invoke"
  BY <1>0, <1>1, <1>2 DEF Invoke, IInv, HolderInv, RowInv
<1>. QED
  BY <1>0, <1>2, <1>3 DEF IInv, HolderInv, Stored

\* A dated signal that may have had its effects starts again only when the owner
\* retries its own receipt, although the receipt that its redeliveries are
\* recognised by is deleted after a week.
THEOREM RetriedByOwnerAlone ==
    ASSUME KeptLongEnough
    PROVE  Spec => RepeatedOnlyByRetry
<1>1. ASSUME IInv, OrderInv, [Next]_vars
      PROVE  [\A i \in ReceiptIds :
                LET p == inbox[i].packet IN
                started'[i] > started[i] /\ Dated(p) =>
                   \A j \in tried[p] \cap ReceiptIds :
                      j = i /\ Unresolved(i) /\ letters[i].retries > 0]_vars
  <2>. SUFFICES ASSUME NEW i \in ReceiptIds, started'[i] > started[i],
                       Dated(PacketOf(i)), NEW j \in TriedAs(PacketOf(i))
                PROVE  j = i /\ Unresolved(i) /\ letters[i].retries > 0
    BY DEF PacketOf, TriedAs
  <2>1. job.pc = "invoke" /\ i = job.id /\ i \in Ids /\ Stored(i)
        /\ inbox[i].status = "PROCESSING"
    BY <1>1, StartsAtProcessor
  <2>2. j = i
    BY <1>1, <2>1 DEF OrderInv, AheadInv
  <2>3. PacketOf(i) \in Packets
    BY <1>1, <2>1, RowFields DEF IInv, PacketOf, Receipt
  <2>4. started[i] > 0 /\ started[i] \in Nat
    BY <1>1, <2>1, <2>2, <2>3 DEF OrderInv, CountedInv, TriedAs, IInv, TypeOK
  <2>5. started[i] <= Retries(i)
    BY <1>1, <2>1 DEF IInv, HolderInv
  <2>6. ~NoLetterOf(i)
    BY <2>4, <2>5 DEF Retries
  <2>7. Unresolved(i)
    BY <1>1, <2>1, <2>6 DEF IInv, RowInv
  <2>8. letters[i].retries \in Nat
    BY <1>1, <2>1, <2>6, RowFields DEF IInv, NoLetterOf, Letter
  <2>. QED
    BY <2>2, <2>4, <2>5, <2>6, <2>7, <2>8 DEF Retries
<1>. QED
  BY <1>1, Invariance, OrderInvariance, PTL DEF Spec, RepeatedOnlyByRetry

\* A dated signal starts after a newer one of its source was tried only while
\* the newer one's receipt is there and says that its outcome is in doubt, with
\* retries, crashes and the clean-up of receipts in between.
THEOREM InSourceOrder ==
    ASSUME KeptLongEnough
    PROVE  Spec => OvertakenOnlyInDoubt
<1>1. ASSUME IInv, OrderInv, [Next]_vars
      PROVE  [\A i \in ReceiptIds :
                LET p == inbox[i].packet IN
                started'[i] > started[i] /\ Dated(p) =>
                   \A q \in Newer(p) : \A j \in tried[q] \cap ReceiptIds :
                      /\ Stored(j)
                      /\ inbox[j].packet = q
                      /\ inbox[j].status \in {"PROCESSING", "FAILED", "DISMISSED"}]_vars
  <2>. SUFFICES ASSUME NEW i \in ReceiptIds, started'[i] > started[i],
                       Dated(PacketOf(i)), NEW q \in Newer(PacketOf(i)),
                       NEW j \in TriedAs(q)
                PROVE  InDoubt(j, q)
    BY DEF PacketOf, TriedAs, InDoubt
  <2>1. job.pc = "invoke" /\ i = job.id
    BY <1>1, StartsAtProcessor
  <2>. QED
    BY <1>1, <2>1 DEF OrderInv, AheadInv
<1>. QED
  BY <1>1, Invariance, OrderInvariance, PTL DEF Spec, OvertakenOnlyInDoubt
=============================================================================
