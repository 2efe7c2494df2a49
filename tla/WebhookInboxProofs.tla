------------------------- MODULE WebhookInboxProofs -------------------------
(* Theorems about WebhookInbox, for any packets, bounds and windows. *)
EXTENDS WebhookInbox, TLAPS

\* What every row keeps: a letter exists exactly if the receipt was ever failed,
\* agrees with the receipt's status, and pays for all invocations but the first.
RowInv(i) ==
    /\ Stored(i) =>
          /\ inbox[i].dead <=> ~NoLetterOf(i)
          /\ inbox[i].status = "PENDING" => NoLetterOf(i) /\ started[i] = 0
          /\ inbox[i].status = "PROCESSING" => NoLetterOf(i) \/ Unresolved(i)
          /\ inbox[i].status = "PROCESSED" => letters[i].resolution \in {"NONE", "retried"}
          /\ inbox[i].status = "FAILED" => Unresolved(i)
          /\ inbox[i].status = "DISMISSED" => letters[i].resolution = "dismissed"
          /\ started[i] <= 1 + Retries(i)
          /\ Len(Legacy) < i /\ i <= lastId
    /\ ~Stored(i) /\ i > Len(Legacy) => ~Unresolved(i)
    /\ i > lastId => NoLetterOf(i) /\ started[i] = 0

\* Nobody but the holder of the mutex moves the row it works on, and an
\* execution that has not reached the processor still has an invocation to spend.
HolderInv ==
    /\ job.pc = "execute" => inbox[job.id].status \in {"PENDING", "FAILED"}
    /\ job.pc \in {"invoke", "settle"} => inbox[job.id].status = "PROCESSING"
    /\ job.pc \in {"execute", "invoke"} => started[job.id] <= Retries(job.id)
    /\ job.pc \in {"legacy", "settle legacy"} => Unresolved(job.id) /\ ~Stored(job.id)

IInv == /\ TypeOK
        /\ Len(Legacy) <= lastId
        /\ \A i \in Ids : RowInv(i)
        /\ HolderInv

\* Whoever holds the mutex has read the clock, and knows the id of its receipt.
LEMMA HolderFields ==
    ASSUME TypeOK, ~Free
    PROVE  /\ job.at \in Nat
           /\ job.pc \in {"execute", "invoke", "legacy", "settle", "settle legacy"}
                => job.id \in Ids
           /\ job.pc \in {"settle", "settle legacy"} => job.ok \in BOOLEAN
           /\ job.pc \in {"recover", "select"} => job \in [pc : {"recover", "select"}, at : Nat]
           /\ job.pc \in {"execute", "invoke"}
                => job \in [pc : {"execute", "invoke"}, id : Ids, at : Nat]
<1>1. job \in Holder
  <2>1. NoJob.pc = "free"
    BY DEF NoJob
  <2>. QED
    BY <2>1 DEF TypeOK, Free
<1>2. CASE job \in [pc : {"recover", "select"}, at : Nat]
  BY <1>2
<1>3. CASE job \in [pc : {"execute", "invoke"}, id : Ids, at : Nat]
  BY <1>3
<1>4. CASE job \in [pc : {"settle", "settle legacy"}, id : Ids, at : Nat, ok : BOOLEAN]
  BY <1>4
<1>5. CASE job \in [pc : {"legacy"}, id : Ids, at : Nat]
  BY <1>5
<1>. QED
  BY <1>1, <1>2, <1>3, <1>4, <1>5 DEF Holder

\* A stored row has every column, a letter that exists has every field.
LEMMA RowFields ==
    ASSUME TypeOK, NEW i \in Ids
    PROVE  /\ Stored(i) => inbox[i] \in Receipt
           /\ letters[i].resolution # "NONE" => letters[i] \in Letter
BY DEF TypeOK, Stored, NoRow, NoLetter

\* The two outcomes keep the tables well formed.
LEMMA FailTypes ==
    ASSUME IInv, NEW i \in Ids, Stored(i), Fail(i)
    PROVE  /\ inbox' \in [Ids -> Receipt \cup {NoRow}]
           /\ letters' \in [Ids -> Letter \cup {NoLetter}]
<1>1. inbox[i] \in Receipt
  BY RowFields DEF IInv
<1>2. inbox[i].dead => letters[i] \in Letter
  BY RowFields DEF IInv, RowInv, NoLetterOf
<1>3. inbox' \in [Ids -> Receipt \cup {NoRow}]
  BY <1>1 DEF IInv, TypeOK, Fail, Receipt, Statuses
<1>4. letters' \in [Ids -> Letter \cup {NoLetter}]
  BY <1>1, <1>2 DEF IInv, TypeOK, Fail, Receipt, Letter
<1>. QED
  BY <1>3, <1>4 DEF Fail, IInv, TypeOK

LEMMA CompleteTypes ==
    ASSUME IInv, NEW i \in Ids, Stored(i), NEW at \in Nat, Complete(i, at)
    PROVE  /\ inbox' \in [Ids -> Receipt \cup {NoRow}]
           /\ letters' \in [Ids -> Letter \cup {NoLetter}]
<1>1. inbox[i] \in Receipt
  BY RowFields DEF IInv
<1>2. inbox[i].dead => letters[i] \in Letter
  BY RowFields DEF IInv, RowInv, NoLetterOf
<1>3. inbox' \in [Ids -> Receipt \cup {NoRow}]
  BY <1>1 DEF IInv, TypeOK, Complete, Receipt, Statuses
<1>4. letters' \in [Ids -> Letter \cup {NoLetter}]
  BY <1>1, <1>2 DEF IInv, TypeOK, Complete, Receipt, Letter
<1>. QED
  BY <1>3, <1>4

LEMMA TypeStep ==
    ASSUME IInv, [Next]_vars
    PROVE  TypeOK'
<1>. SUFFICES ASSUME TypeOK, HolderInv
              PROVE  TypeOK'
  BY DEF IInv
<1>1. CASE UNCHANGED vars
  BY <1>1 DEF TypeOK, vars, Holder, Ids, Receipt, Letter
<1>2. CASE ReadClock
  BY <1>2 DEF TypeOK, ReadClock
<1>3. CASE Cleanup
  BY <1>3 DEF TypeOK, Cleanup
<1>4. CASE Lock
  BY <1>4 DEF TypeOK, Lock, Holder
<1>5. CASE Recover
  <2>1. CASE job' = [job EXCEPT !.pc = "select"]
    <3>1. job \in [pc : {"recover", "select"}, at : Nat]
      BY <1>5, HolderFields DEF Recover, Free
    <3>2. job' \in Holder
      BY <2>1, <3>1 DEF Holder
    <3>3. UNCHANGED <<inbox, letters>>
      BY <1>5, <2>1, <3>1, FailTypes DEF Recover
    <3>. QED
      BY <1>5, <3>2, <3>3 DEF TypeOK, Recover
  <2>. QED
    BY <1>5, <2>1, FailTypes DEF Recover, TypeOK, Interrupted, Stored
<1>6. CASE Select
  <2>1. job.at \in Nat
    BY <1>6, HolderFields DEF Select, Free
  <2>2. job' \in Holder \cup {NoJob}
    <3>1. CASE job' = NoJob
      BY <3>1
    <3>2. CASE \E i \in Ids : job' = [pc |-> "execute", id |-> i, at |-> job.at]
      <4>1. \A i \in Ids : [pc |-> "execute", id |-> i, at |-> job.at]
                               \in [pc : {"execute", "invoke"}, id : Ids, at : Nat]
        BY <2>1
      <4>. QED
        BY <3>2, <4>1 DEF Holder
    <3>. QED
      BY <1>6, <3>1, <3>2, Zenon DEF Select, Pending
  <2>. QED
    BY <1>6, <2>2 DEF Select, TypeOK
<1>7. CASE Execute
  <2>. SUFFICES ASSUME job.pc = "execute", job.id \in Ids, job.at \in Nat, Stored(job.id)
                PROVE  TypeOK'
    BY <1>7, HolderFields DEF Execute, Free, HolderInv, Stored
  <2>1. CASE Refused(job.id, job.at)
    BY <1>7, <2>1, FailTypes DEF Execute, TypeOK
  <2>2. CASE ~Refused(job.id, job.at)
    <3>1. inbox' \in [Ids -> Receipt \cup {NoRow}]
      BY <1>7, <2>2, RowFields DEF Execute, TypeOK, Receipt, Statuses
    <3>2. job' \in Holder
      <4>1. job \in [pc : {"execute", "invoke"}, id : Ids, at : Nat]
        BY HolderFields DEF Free
      <4>2. job' = [job EXCEPT !.pc = "invoke"]
        BY <1>7, <2>2 DEF Execute
      <4>. QED
        BY <4>1, <4>2 DEF Holder
    <3>. QED
      BY <1>7, <2>2, <3>1, <3>2 DEF Execute, TypeOK
  <2>. QED
    BY <2>1, <2>2
<1>8. CASE Invoke
  <2>1. job.id \in Ids /\ job.at \in Nat
    BY <1>8, HolderFields DEF Invoke, Free
  <2>2. started' \in [Ids -> Nat]
    <3>1. started' = [started EXCEPT ![job.id] = started[job.id] + 1]
      BY <1>8 DEF Invoke
    <3>. QED
      BY <2>1, <3>1 DEF TypeOK
  <2>3. PICK ok \in BOOLEAN, pc \in {"settle", "settle legacy"} :
              job' = [pc |-> pc, id |-> job.id, at |-> job.at, ok |-> ok]
    BY <1>8, Zenon DEF Invoke
  <2>4. job' \in Holder
    BY <2>1, <2>3 DEF Holder
  <2>5. tried' \in [Packets -> SUBSET Ids]
    BY <1>8, <2>1 DEF Invoke, TypeOK
  <2>. QED
    BY <1>8, <2>2, <2>4, <2>5 DEF Invoke, TypeOK
<1>9. CASE Settle
  <2>. SUFFICES ASSUME job.pc = "settle", job.id \in Ids, job.at \in Nat, Stored(job.id)
                PROVE  TypeOK'
    BY <1>9, HolderFields DEF Settle, Free, HolderInv, Stored
  <2>. QED
    BY <1>9, FailTypes, CompleteTypes DEF Settle, TypeOK
<1>10. CASE SettleLegacy
  <2>1. job.id \in Ids /\ letters[job.id] \in Letter
    BY <1>10, HolderFields, RowFields DEF SettleLegacy, Free, HolderInv, Unresolved
  <2>. DEFINE r == IF job.ok THEN "retried" ELSE letters[job.id].resolution
              t == IF job.ok THEN now ELSE letters[job.id].resolved
  <2>2. r \in {"unresolved", "retried", "dismissed"} /\ t \in Nat
    <3>1. letters[job.id].resolution \in {"unresolved", "retried", "dismissed"}
      BY <2>1 DEF Letter
    <3>2. letters[job.id].resolved \in Nat /\ now \in Nat
      BY <2>1 DEF TypeOK, Letter
    <3>. QED
      BY <3>1, <3>2, Zenon
  <2>3. letters' = [letters EXCEPT ![job.id].retries = @ + 1, ![job.id].resolution = r,
                                   ![job.id].resolved = t]
    BY <1>10, Zenon DEF SettleLegacy
  <2>. HIDE DEF r, t
  <2>4. letters' \in [Ids -> Letter \cup {NoLetter}]
    BY <2>1, <2>2, <2>3 DEF TypeOK, Letter
  <2>. QED
    BY <1>10, <2>4 DEF TypeOK, SettleLegacy
<1>11. ASSUME NEW i \in Ids, Retry(i) \/ RetryLegacy(i) \/ Dismiss(i)
       PROVE  TypeOK'
  <2>1. letters[i] \in Letter
    BY <1>11, RowFields DEF Retry, RetryLegacy, Dismiss, Unresolved
  <2>2. CASE Retry(i)
    <3>1. letters' \in [Ids -> Letter \cup {NoLetter}]
      BY <2>1, <2>2 DEF TypeOK, Retry, Letter
    <3>2. job' \in Holder
      BY <2>2 DEF TypeOK, Retry, Holder
    <3>. QED
      BY <2>2, <3>1, <3>2 DEF TypeOK, Retry
  <2>3. CASE RetryLegacy(i)
    <3>1. letters' \in [Ids -> Letter \cup {NoLetter}]
      BY <2>1, <2>3 DEF TypeOK, RetryLegacy, Letter
    <3>2. job' \in Holder \cup {NoJob}
      <4>1. [pc |-> "legacy", id |-> i, at |-> now] \in Holder
        BY DEF TypeOK, Holder
      <4>. QED
        BY <2>3, <4>1 DEF TypeOK, RetryLegacy
    <3>. QED
      BY <2>3, <3>1, <3>2 DEF TypeOK, RetryLegacy
  <2>4. CASE Dismiss(i)
    <3>1. letters' \in [Ids -> Letter \cup {NoLetter}]
      BY <2>1, <2>4 DEF TypeOK, Dismiss, Letter
    <3>2. inbox' \in [Ids -> Receipt \cup {NoRow}]
      <4>1. CASE Stored(i)
        <5>1. inbox' = [inbox EXCEPT ![i].status = "DISMISSED", ![i].completed = now]
          BY <2>4, <4>1 DEF Dismiss
        <5>2. inbox[i] \in Receipt
          BY <4>1, RowFields
        <5>3. [inbox[i] EXCEPT !.status = "DISMISSED", !.completed = now] \in Receipt
          BY <5>2 DEF TypeOK, Receipt, Statuses
        <5>. QED
          BY <5>1, <5>3 DEF TypeOK
      <4>2. CASE ~Stored(i)
        BY <2>4, <4>2 DEF TypeOK, Dismiss
      <4>. QED
        BY <4>1, <4>2
    <3>. QED
      BY <2>4, <3>1, <3>2 DEF TypeOK, Dismiss
  <2>. QED
    BY <1>11, <2>2, <2>3, <2>4
<1>12. ASSUME NEW p \in Packets, Enqueue(p)
       PROVE  TypeOK'
  <2>1. lastId + 1 \in 1..MaxReceipts
    BY <1>12, BoundsAssumption DEF Enqueue, TypeOK
  <2>. QED
    BY <1>12, <2>1 DEF TypeOK, Enqueue, Receipt, Statuses, Ids
<1>13. CASE Environment
  BY <1>13 DEF TypeOK, Environment, HolderFails, Crash, Tick
<1>. QED
  BY <1>1, <1>2, <1>3, <1>4, <1>5, <1>6, <1>7, <1>8, <1>9, <1>10, <1>11, <1>12, <1>13
     DEF Next, Worker, Execution, Owner, Sender

-----------------------------------------------------------------------------
\* What the two outcomes do to the row they settle, and that they touch no other.
LEMMA FailRow ==
    ASSUME TypeOK, NEW i \in Ids, Stored(i), inbox[i].dead <=> ~NoLetterOf(i), Fail(i)
    PROVE  /\ Stored(i)' /\ Unresolved(i)' /\ ~NoLetterOf(i)' /\ Retries(i)' = Retries(i)
           /\ inbox'[i].status = "FAILED" /\ inbox'[i].dead
           /\ \A j \in Ids \ {i} : inbox'[j] = inbox[j] /\ letters'[j] = letters[j]
<1>1. inbox[i] \in Receipt
  BY RowFields
<1>2. inbox[i].dead => letters[i] \in Letter
  BY RowFields DEF NoLetterOf
<1>3. inbox'[i].status = "FAILED" /\ inbox'[i].dead
  BY <1>1 DEF TypeOK, Fail, Receipt
<1>4. letters'[i].resolution = "unresolved"
  BY <1>1, <1>2 DEF TypeOK, Fail, Receipt, Letter
<1>5. Retries(i)' = Retries(i)
  <2>1. letters'[i].retries = IF inbox[i].dead THEN letters[i].retries ELSE 0
    BY <1>1, <1>2 DEF TypeOK, Fail, Receipt, Letter
  <2>. QED
    BY <1>4, <2>1 DEF Retries, NoLetterOf
<1>6. \A j \in Ids \ {i} : inbox'[j] = inbox[j] /\ letters'[j] = letters[j]
  BY DEF Fail, TypeOK
<1>. QED
  BY <1>3, <1>4, <1>5, <1>6 DEF Stored, Unresolved, NoLetterOf

LEMMA CompleteRow ==
    ASSUME TypeOK, NEW i \in Ids, Stored(i), inbox[i].dead <=> ~NoLetterOf(i),
           NEW at \in Nat, Complete(i, at)
    PROVE  /\ Stored(i)' /\ (NoLetterOf(i)' <=> NoLetterOf(i)) /\ Retries(i)' = Retries(i)
           /\ letters'[i].resolution \in {"NONE", "retried"}
           /\ inbox'[i].status = "PROCESSED" /\ inbox'[i].dead = inbox[i].dead
           /\ \A j \in Ids \ {i} : inbox'[j] = inbox[j] /\ letters'[j] = letters[j]
<1>1. inbox[i] \in Receipt
  BY RowFields
<1>2. inbox[i].dead => letters[i] \in Letter
  BY RowFields DEF NoLetterOf
<1>3. inbox'[i].status = "PROCESSED" /\ inbox'[i].dead = inbox[i].dead
  BY <1>1 DEF TypeOK, Complete, Receipt
<1>4. CASE inbox[i].dead
  <2>1. letters'[i].resolution = "retried" /\ letters'[i].retries = letters[i].retries
    BY <1>2, <1>4 DEF TypeOK, Complete, Letter
  <2>2. \A j \in Ids \ {i} : inbox'[j] = inbox[j] /\ letters'[j] = letters[j]
    BY <1>4 DEF TypeOK, Complete
  <2>. QED
    BY <1>3, <1>4, <2>1, <2>2 DEF Stored, NoLetterOf, Retries
<1>5. CASE ~inbox[i].dead
  <2>1. letters' = letters
    BY <1>5 DEF Complete
  <2>2. \A j \in Ids \ {i} : inbox'[j] = inbox[j]
    BY DEF TypeOK, Complete
  <2>. QED
    BY <1>3, <1>5, <2>1, <2>2 DEF Stored, NoLetterOf, Retries
<1>. QED
  BY <1>1, <1>4, <1>5 DEF Receipt

\* A step that leaves a row, its letter and its count alone keeps its invariant.
LEMMA RowUntouched ==
    ASSUME NEW i \in Ids, RowInv(i), inbox'[i] = inbox[i], letters'[i] = letters[i],
           started'[i] = started[i], lastId' = lastId
    PROVE  RowInv(i)'
BY DEF RowInv, Stored, NoLetterOf, Unresolved, Retries

LEMMA SettledRow ==
    ASSUME TypeOK, NEW i \in Ids, Stored(i), RowInv(i), NEW at \in Nat,
           Fail(i) \/ Complete(i, at), UNCHANGED <<started, lastId>>
    PROVE  RowInv(i)'
<1>0. inbox[i].dead <=> ~NoLetterOf(i)
  BY DEF RowInv
<1>1. CASE Fail(i)
  <2>1. /\ Stored(i)' /\ Unresolved(i)' /\ ~NoLetterOf(i)' /\ Retries(i)' = Retries(i)
        /\ inbox'[i].status = "FAILED" /\ inbox'[i].dead
    BY <1>0, <1>1, FailRow
  <2>2. inbox'[i].dead <=> ~NoLetterOf(i)'
    BY <2>1
  <2>3. started'[i] <= 1 + Retries(i)'
    BY <2>1 DEF RowInv
  <2>4. Len(Legacy) < i /\ i <= lastId' /\ ~(i > lastId')
    BY DEF RowInv, TypeOK, Ids
  <2>5. letters'[i].resolution = "unresolved"
    BY <2>1 DEF Unresolved
  <2>. QED
    BY <2>1, <2>2, <2>3, <2>4, <2>5 DEF RowInv
<1>2. CASE Complete(i, at)
  <2>1. /\ Stored(i)' /\ (NoLetterOf(i)' <=> NoLetterOf(i)) /\ Retries(i)' = Retries(i)
        /\ letters'[i].resolution \in {"NONE", "retried"}
        /\ inbox'[i].status = "PROCESSED" /\ inbox'[i].dead = inbox[i].dead
    BY <1>0, <1>2, CompleteRow
  <2>2. inbox'[i].dead <=> ~NoLetterOf(i)'
    BY <1>0, <2>1
  <2>. QED
    BY <2>1, <2>2 DEF RowInv
<1>. QED
  BY <1>1, <1>2

LEMMA RowStep ==
    ASSUME IInv, [Next]_vars
    PROVE  \A k \in Ids : RowInv(k)'
<1>. SUFFICES ASSUME TypeOK, HolderInv, \A j \in Ids : RowInv(j), Len(Legacy) <= lastId,
                     NEW k \in Ids
              PROVE  RowInv(k)'
  BY DEF IInv
<1>0. \A j \in Ids : Stored(j) => (inbox[j].dead <=> ~NoLetterOf(j))
  BY DEF RowInv
<1>1. CASE UNCHANGED vars
  BY <1>1, RowUntouched DEF vars
<1>2. CASE ReadClock \/ Lock \/ Select \/ Environment
  BY <1>2, RowUntouched DEF ReadClock, Lock, Select, Environment, HolderFails, Crash, Tick
<1>3. CASE Cleanup
  <2>1. CASE inbox'[k] = inbox[k] /\ letters'[k] = letters[k]
    BY <1>3, <2>1, RowUntouched DEF Cleanup
  <2>2. CASE inbox'[k] # inbox[k]
    <3>1. /\ Stored(k) /\ inbox[k].status \in {"PROCESSED", "DISMISSED"}
          /\ inbox'[k] = NoRow
          /\ letters'[k] \in {letters[k], NoLetter}
      BY <1>3, <2>2 DEF Cleanup
    <3>2. lastId' = lastId /\ started' = started
      BY <1>3 DEF Cleanup
    <3>. QED
      BY <3>1, <3>2 DEF RowInv, Stored, NoRow, NoLetter, NoLetterOf, Unresolved
  <2>3. CASE inbox'[k] = inbox[k] /\ letters'[k] = NoLetter /\ ~Stored(k)
    BY <1>3, <2>3 DEF Cleanup, RowInv, Stored, NoLetter, NoLetterOf, Unresolved
  <2>. QED
    <3>1. inbox'[k] = inbox[k] \/ (Stored(k) /\ inbox'[k] = NoRow)
      BY <1>3 DEF Cleanup
    <3>2. letters'[k] # letters[k] => letters'[k] = NoLetter /\ (~Stored(k) \/ inbox'[k] = NoRow)
      BY <1>3 DEF Cleanup
    <3>. QED
      BY <2>1, <2>2, <2>3, <3>1, <3>2 DEF Stored, NoRow
<1>4. CASE Recover
  <2>1. CASE UNCHANGED <<inbox, letters>>
    BY <1>4, <2>1, RowUntouched DEF Recover
  <2>2. ASSUME NEW i \in Interrupted, Fail(i)
        PROVE  RowInv(k)'
    <3>1. i \in Ids /\ Stored(i)
      BY <2>2 DEF Interrupted, Stored
    <3>2. CASE k = i
      BY <1>4, <2>2, <3>1, <3>2, SettledRow DEF Recover, TypeOK
    <3>3. CASE k # i
      BY <1>0, <1>4, <2>2, <3>1, <3>3, FailRow, RowUntouched DEF Recover
    <3>. QED
      BY <3>2, <3>3
  <2>. QED
    BY <1>4, <2>1, <2>2 DEF Recover, Interrupted
<1>5. CASE Execute
  <2>. SUFFICES ASSUME job.pc = "execute", job.id \in Ids, job.at \in Nat, Stored(job.id),
                       inbox[job.id].status \in {"PENDING", "FAILED"},
                       started[job.id] <= Retries(job.id)
                PROVE  RowInv(k)'
    BY <1>5, HolderFields DEF Execute, Free, HolderInv, Stored
  <2>1. CASE Refused(job.id, job.at)
    <3>1. CASE k = job.id
      BY <1>5, <2>1, <3>1, SettledRow DEF Execute
    <3>2. CASE k # job.id
      BY <1>0, <1>5, <2>1, <3>2, FailRow, RowUntouched DEF Execute
    <3>. QED
      BY <3>1, <3>2
  <2>2. CASE ~Refused(job.id, job.at)
    <3>1. UNCHANGED <<letters, started, lastId>>
      BY <1>5, <2>2 DEF Execute
    <3>2. inbox' = [inbox EXCEPT ![job.id].status = "PROCESSING"]
      BY <1>5, <2>2 DEF Execute
    <3>3. CASE k = job.id
      <4>1. inbox'[k].status = "PROCESSING" /\ inbox'[k].dead = inbox[k].dead
        BY <3>2, <3>3, RowFields DEF TypeOK, Receipt
      <4>. QED
        BY <3>1, <3>3, <4>1 DEF RowInv, Stored, NoLetterOf, Unresolved, Retries
    <3>4. CASE k # job.id
      BY <3>1, <3>2, <3>4, RowUntouched DEF TypeOK
    <3>. QED
      BY <3>3, <3>4
  <2>. QED
    BY <2>1, <2>2
<1>6. CASE Invoke
  <2>. SUFFICES ASSUME job.id \in Ids
                PROVE  RowInv(k)'
    BY <1>6, HolderFields DEF Invoke, Free
  <2>1. CASE k # job.id
    BY <1>6, <2>1, RowUntouched DEF Invoke, TypeOK
  <2>2. CASE k = job.id
    <3>1. started'[k] = started[k] + 1 /\ started[k] \in Nat /\ lastId' = lastId
      BY <1>6, <2>2 DEF Invoke, TypeOK
    <3>2. UNCHANGED <<inbox, letters>>
      BY <1>6 DEF Invoke
    <3>3. CASE Stored(k)
      <4>1. inbox[k].status = "PROCESSING" /\ started[k] <= Retries(k)
        BY <1>6, <2>2, <3>3 DEF Invoke, HolderInv
      <4>2. Retries(k) \in Nat
        BY RowFields DEF Retries, NoLetterOf, Letter
      <4>3. /\ Stored(k)' /\ Retries(k)' = Retries(k)
            /\ (NoLetterOf(k)' <=> NoLetterOf(k)) /\ (Unresolved(k)' <=> Unresolved(k))
        BY <3>2, <3>3 DEF Stored, NoLetterOf, Unresolved, Retries
      <4>4. started'[k] <= 1 + Retries(k)'
        BY <3>1, <4>1, <4>2, <4>3
      <4>5. k <= lastId
        BY <3>3 DEF RowInv
      <4>6. ~(k > lastId)
        BY <4>5 DEF TypeOK, Ids
      <4>. QED
        BY <3>1, <3>2, <3>3, <4>1, <4>3, <4>4, <4>5, <4>6 DEF RowInv
    <3>4. CASE ~Stored(k)
      <4>1. Unresolved(k)
        BY <1>6, <2>2, <3>4 DEF Invoke, HolderInv, Stored
      <4>. QED
        BY <3>1, <3>2, <3>4, <4>1 DEF RowInv, Stored, NoLetterOf, Unresolved
    <3>. QED
      BY <3>3, <3>4
  <2>. QED
    BY <2>1, <2>2
<1>7. CASE Settle
  <2>. SUFFICES ASSUME job.pc = "settle", job.id \in Ids, job.at \in Nat, Stored(job.id)
                PROVE  RowInv(k)'
    BY <1>7, HolderFields DEF Settle, Free, HolderInv, Stored
  <2>1. UNCHANGED <<started, lastId>>
    BY <1>7 DEF Settle
  <2>2. Fail(job.id) \/ Complete(job.id, job.at)
    BY <1>7, Zenon DEF Settle
  <2>3. CASE k = job.id
    BY <2>1, <2>2, <2>3, SettledRow
  <2>4. CASE k # job.id
    BY <1>0, <2>1, <2>2, <2>4, FailRow, CompleteRow, RowUntouched
  <2>. QED
    BY <2>3, <2>4
<1>8. CASE SettleLegacy
  <2>. SUFFICES ASSUME job.id \in Ids, Unresolved(job.id), ~Stored(job.id)
                PROVE  RowInv(k)'
    BY <1>8, HolderFields DEF SettleLegacy, Free, HolderInv
  <2>1. UNCHANGED <<inbox, started, lastId>>
    BY <1>8 DEF SettleLegacy
  <2>2. CASE k = job.id
    BY <2>1, <2>2 DEF RowInv, Stored, NoLetterOf, Unresolved
  <2>3. CASE k # job.id
    BY <1>8, <2>1, <2>3, RowUntouched DEF SettleLegacy, TypeOK
  <2>. QED
    BY <2>2, <2>3
<1>9. ASSUME NEW i \in Ids, Retry(i) \/ RetryLegacy(i) \/ Dismiss(i)
      PROVE  RowInv(k)'
  <2>1. letters[i] \in Letter /\ Unresolved(i)
    BY <1>9, RowFields DEF Retry, RetryLegacy, Dismiss, Unresolved
  <2>2. UNCHANGED <<started, lastId>>
    BY <1>9 DEF Retry, RetryLegacy, Dismiss
  <2>3. CASE k # i
    BY <1>9, <2>2, <2>3, RowUntouched DEF Retry, RetryLegacy, Dismiss, TypeOK
  <2>4. CASE k = i /\ (Retry(i) \/ RetryLegacy(i))
    <3>1. CASE letters' = letters
      BY <2>2, <2>4, <3>1, RowUntouched DEF Retry, RetryLegacy
    <3>2. CASE letters' = [letters EXCEPT ![i].retries = @ + 1]
      <4>1. letters'[k].resolution = letters[k].resolution
            /\ letters'[k].retries = letters[k].retries + 1
        BY <2>1, <2>4, <3>2 DEF TypeOK, Letter
      <4>2. inbox' = inbox
        BY <2>4 DEF Retry, RetryLegacy
      <4>3. started[k] \in Nat /\ letters[k].retries \in Nat
        BY <2>1, <2>4 DEF TypeOK, Letter
      <4>. QED
        BY <2>1, <2>2, <2>4, <4>1, <4>2, <4>3 DEF RowInv, Stored, NoLetterOf, Unresolved, Retries
    <3>. QED
      BY <2>4, <3>1, <3>2 DEF Retry, RetryLegacy
  <2>5. CASE k = i /\ Dismiss(i)
    <3>1. letters'[k].resolution = "dismissed" /\ letters'[k].retries = letters[k].retries
      BY <2>1, <2>5 DEF TypeOK, Dismiss, Letter
    <3>2. CASE Stored(k)
      <4>1. inbox'[k].status = "DISMISSED" /\ inbox'[k].dead = inbox[k].dead
        BY <2>5, <3>2, RowFields DEF TypeOK, Dismiss, Receipt
      <4>. QED
        BY <2>1, <2>2, <2>5, <3>1, <3>2, <4>1
           DEF RowInv, Stored, NoLetterOf, Unresolved, Retries
    <3>3. CASE ~Stored(k)
      <4>1. inbox' = inbox
        BY <2>5, <3>3 DEF Dismiss
      <4>. QED
        BY <2>1, <2>2, <2>5, <3>1, <3>3, <4>1 DEF RowInv, Stored, NoLetterOf, Unresolved
    <3>. QED
      BY <3>2, <3>3
  <2>. QED
    BY <1>9, <2>3, <2>4, <2>5
<1>10. ASSUME NEW p \in Packets, Enqueue(p)
       PROVE  RowInv(k)'
  <2>1. UNCHANGED <<letters, started>> /\ lastId' = lastId + 1 /\ lastId \in Nat
    BY <1>10 DEF Enqueue, TypeOK
  <2>2. CASE k = lastId + 1
    <3>1. inbox'[k].status = "PENDING" /\ ~inbox'[k].dead
      BY <1>10, <2>2 DEF Enqueue, TypeOK
    <3>2. k > lastId /\ k \in Nat /\ Len(Legacy) \in Nat
      BY <2>1, <2>2, PacketsAssumption DEF Ids
    <3>3. NoLetterOf(k) /\ started[k] = 0
      BY <3>2 DEF RowInv
    <3>. QED
      BY <2>1, <2>2, <3>1, <3>2, <3>3 DEF RowInv, Stored, NoLetterOf, Unresolved, Retries
  <2>3. CASE k # lastId + 1
    <3>1. inbox'[k] = inbox[k]
      BY <1>10, <2>3 DEF Enqueue, TypeOK
    <3>2. k \in Nat
      BY DEF Ids
    <3>. QED
      BY <2>1, <3>1, <3>2 DEF RowInv, Stored, NoLetterOf, Unresolved, Retries
  <2>. QED
    BY <2>2, <2>3
<1>. QED
  BY <1>1, <1>2, <1>3, <1>4, <1>5, <1>6, <1>7, <1>8, <1>9, <1>10
     DEF Next, Worker, Execution, Owner, Sender

LEMMA HolderStep ==
    ASSUME IInv, [Next]_vars
    PROVE  HolderInv'
<1>. SUFFICES ASSUME TypeOK, HolderInv, \A j \in Ids : RowInv(j)
              PROVE  HolderInv'
  BY DEF IInv
<1>1. CASE UNCHANGED vars
  BY <1>1 DEF vars, HolderInv, Unresolved, Stored, Retries, NoLetterOf
<1>2. CASE job' = NoJob
  BY <1>2 DEF NoJob, HolderInv
<1>3. CASE UNCHANGED <<inbox, letters, job, started>>
  BY <1>3 DEF HolderInv, Unresolved, Stored, Retries, NoLetterOf
<1>4. CASE Free /\ UNCHANGED job
  BY <1>4 DEF Free, HolderInv
<1>5. CASE Lock \/ Recover
  <2>1. job'.pc \in {"recover", "select"}
    <3>1. CASE Lock
      BY <3>1 DEF Lock
    <3>2. CASE Recover
      <4>1. job \in [pc : {"recover", "select"}, at : Nat]
        BY <3>2, HolderFields DEF Recover, Free
      <4>. QED
        BY <3>2, <4>1 DEF Recover
    <3>. QED
      BY <1>5, <3>1, <3>2
  <2>. QED
    BY <2>1 DEF HolderInv
<1>6. ASSUME NEW i \in Pending, job' = [pc |-> "execute", id |-> i, at |-> job.at],
             UNCHANGED <<inbox, letters, started>>
      PROVE  HolderInv'
  <2>1. i \in Ids /\ Stored(i) /\ inbox[i].status = "PENDING"
    BY <1>6 DEF Pending, Stored
  <2>2. started[i] = 0 /\ Retries(i) = 0
    BY <2>1 DEF RowInv, Retries
  <2>3. started'[i] <= Retries(i)'
    BY <1>6, <2>2 DEF Retries, NoLetterOf
  <2>. QED
    BY <1>6, <2>1, <2>3 DEF HolderInv
<1>7. CASE Execute
  <2>1. job.pc = "execute" /\ job.id \in Ids
    BY <1>7, HolderFields DEF Execute, Free
  <2>2. CASE Refused(job.id, job.at)
    BY <1>2, <1>7, <2>2 DEF Execute
  <2>3. CASE ~Refused(job.id, job.at)
    <3>1. job'.pc = "invoke" /\ job'.id = job.id
      <4>1. job \in [pc : {"execute", "invoke"}, id : Ids, at : Nat]
        BY <2>1, HolderFields DEF Free
      <4>. QED
        BY <1>7, <2>3, <4>1 DEF Execute
    <3>2. inbox'[job.id].status = "PROCESSING"
      <4>1. inbox' = [inbox EXCEPT ![job.id].status = "PROCESSING"]
        BY <1>7, <2>3 DEF Execute
      <4>2. inbox[job.id] \in Receipt
        BY <2>1, RowFields DEF HolderInv, Stored
      <4>. QED
        BY <2>1, <4>1, <4>2 DEF TypeOK, Receipt
    <3>3. started'[job.id] <= Retries(job.id)'
      <4>1. UNCHANGED <<letters, started>>
        BY <1>7, <2>3 DEF Execute
      <4>. QED
        BY <2>1, <3>1, <4>1 DEF HolderInv, Retries, NoLetterOf
    <3>. QED
      BY <3>1, <3>2, <3>3 DEF HolderInv
  <2>. QED
    BY <2>2, <2>3
<1>8. CASE Invoke
  <2>1. UNCHANGED <<inbox, letters>>
    BY <1>8 DEF Invoke
  <2>2. CASE job.pc = "invoke"
    <3>1. \E ok : job' = [pc |-> "settle", id |-> job.id, at |-> job.at, ok |-> ok]
      BY <1>8, <2>2, Zenon DEF Invoke
    <3>2. job'.pc = "settle" /\ job'.id = job.id
      BY <3>1
    <3>. QED
      BY <2>1, <2>2, <3>2 DEF HolderInv
  <2>3. CASE job.pc = "legacy"
    <3>0. "legacy" # "invoke"
      OBVIOUS
    <3>1. \E ok : job' = [pc |-> "settle legacy", id |-> job.id, at |-> job.at, ok |-> ok]
      BY <1>8, <2>3, <3>0, Zenon DEF Invoke
    <3>2. job'.pc = "settle legacy" /\ job'.id = job.id
      <4>1. PICK ok : job' = [pc |-> "settle legacy", id |-> job.id, at |-> job.at, ok |-> ok]
        BY <3>1
      <4>. QED
        BY <4>1
    <3>. QED
      BY <2>1, <2>3, <3>2 DEF HolderInv, Unresolved, Stored
  <2>. QED
    BY <1>8, <2>2, <2>3 DEF Invoke
<1>9. ASSUME NEW i \in Ids, Retry(i)
      PROVE  HolderInv'
  <2>1. letters[i] \in Letter /\ Stored(i) /\ inbox[i].status = "FAILED" /\ Unresolved(i)
    BY <1>9, RowFields DEF Retry, Unresolved
  <2>2. job' = [pc |-> "execute", id |-> i, at |-> now] /\ UNCHANGED <<inbox, started>>
    BY <1>9 DEF Retry
  <2>3. Retries(i)' = Retries(i) + 1
    <3>1. letters'[i].resolution = letters[i].resolution
          /\ letters'[i].retries = letters[i].retries + 1
      BY <1>9, <2>1 DEF TypeOK, Retry, Letter
    <3>. QED
      BY <2>1, <3>1 DEF Retries, NoLetterOf, Unresolved
  <2>4. started[i] <= 1 + Retries(i) /\ Retries(i) \in Nat /\ started[i] \in Nat
    BY <2>1 DEF RowInv, Retries, Letter, NoLetterOf, Unresolved, TypeOK
  <2>5. started'[i] <= Retries(i)'
    BY <2>2, <2>3, <2>4
  <2>. QED
    BY <2>1, <2>2, <2>5 DEF HolderInv
<1>10. ASSUME NEW i \in Ids, RetryLegacy(i)
       PROVE  HolderInv'
  <2>1. CASE UNCHANGED job
    BY <1>4, <1>10, <2>1 DEF RetryLegacy
  <2>2. CASE job' = [pc |-> "legacy", id |-> i, at |-> now] /\ UNCHANGED letters
    BY <1>10, <2>2 DEF RetryLegacy, HolderInv, Unresolved, Stored
  <2>. QED
    BY <1>10, <2>1, <2>2 DEF RetryLegacy
<1>11. ASSUME NEW p \in Packets, Enqueue(p)
       PROVE  HolderInv'
  <2>1. UNCHANGED <<letters, job, started>> /\ lastId \in Nat
    BY <1>11 DEF Enqueue, TypeOK
  <2>2. \A i \in Ids : Stored(i) \/ Unresolved(i) => i <= lastId
    BY DEF RowInv, Ids, TypeOK, Unresolved, NoLetterOf
  <2>3. \A i \in Ids : Stored(i) \/ Unresolved(i) => inbox'[i] = inbox[i]
    BY <1>11, <2>1, <2>2 DEF Enqueue, TypeOK, Ids
  <2>4. job.pc \in {"execute", "invoke", "settle", "legacy", "settle legacy"}
          => job.id \in Ids /\ (Stored(job.id) \/ Unresolved(job.id))
    BY HolderFields DEF HolderInv, Stored, Free
  <2>. QED
    BY <2>1, <2>3, <2>4 DEF HolderInv, Stored, Unresolved, Retries, NoLetterOf
<1>. QED
  BY <1>1, <1>2, <1>3, <1>4, <1>5, <1>6, <1>7, <1>8, <1>9, <1>10, <1>11
     DEF Next, Worker, Execution, Owner, Sender, Environment, ReadClock, Cleanup, Select,
         Settle, SettleLegacy, Dismiss, HolderFails, Crash, Tick

-----------------------------------------------------------------------------
LEMMA InvInit == Init => IInv
<1>. SUFFICES ASSUME Init
              PROVE  IInv
  OBVIOUS
<1>0. Len(Legacy) \in Nat /\ LegacyIds \subseteq Ids
  BY PacketsAssumption, BoundsAssumption DEF LegacyIds, Ids
<1>1. \A i \in LegacyIds : Legacy[i] \in Packets
  BY PacketsAssumption DEF LegacyIds
<1>2. letters \in [Ids -> Letter \cup {NoLetter}]
  <2>1. \A i \in Ids : letters[i] \in Letter \cup {NoLetter}
    BY <1>1 DEF Init, Letter
  <2>. QED
    BY <2>1 DEF Init
<1>3. TypeOK
  BY <1>0, <1>2, PacketsAssumption, BoundsAssumption DEF Init, TypeOK
<1>4. ASSUME NEW i \in Ids
      PROVE  RowInv(i)
  <2>1. ~Stored(i) /\ started[i] = 0 /\ lastId = Len(Legacy) /\ i \in Int
    BY DEF Init, Stored, NoRow, Ids
  <2>2. i > Len(Legacy) => letters[i] = NoLetter
    BY <1>0, <2>1 DEF Init, LegacyIds
  <2>. QED
    BY <2>1, <2>2 DEF RowInv, NoLetter, NoLetterOf, Unresolved
<1>5. HolderInv
  BY DEF Init, HolderInv, NoJob
<1>. QED
  BY <1>0, <1>3, <1>4, <1>5 DEF IInv, Init

LEMMA InvStep == IInv /\ [Next]_vars => IInv'
<1>1. ASSUME IInv, [Next]_vars
      PROVE  Len(Legacy) <= lastId'
  <2>1. lastId' = lastId \/ lastId' = lastId + 1
    BY <1>1 DEF Next, Worker, Execution, Owner, Sender, Environment, ReadClock, Cleanup,
                Lock, Recover, Select, Execute, Invoke, Settle, SettleLegacy, Retry,
                RetryLegacy, Dismiss, Enqueue, HolderFails, Crash, Tick, vars
  <2>. QED
    BY <1>1, <2>1, PacketsAssumption DEF IInv, TypeOK
<1>. QED
  BY <1>1, TypeStep, RowStep, HolderStep DEF IInv

LEMMA Invariance == Spec => []IInv
BY InvInit, InvStep, PTL DEF Spec

\* The two tables and the holder of the mutex keep their types.
THEOREM TypeCorrect == Spec => []TypeOK
<1>1. IInv => TypeOK
  BY DEF IInv
<1>. QED
  BY <1>1, Invariance, PTL

\* The worker by itself runs the processor of a receipt at most once, however
\* often it crashes between the mark and the completion of an execution.
THEOREM AtMostOneAutomaticRun == Spec => []AutomaticOnce
<1>1. IInv => AutomaticOnce
  BY DEF IInv, RowInv, AutomaticOnce, ReceiptIds
<1>. QED
  BY <1>1, Invariance, PTL

\* The inbox and the list of failed signals the owner sees never disagree.
THEOREM TablesAgree == Spec => []LetterMatchesReceipt
<1>1. IInv => LetterMatchesReceipt
  <2>. SUFFICES ASSUME IInv, NEW i \in ReceiptIds
                PROVE  /\ Stored(i) => letters[i].resolution \in
                                 CASE inbox[i].status = "PENDING"    -> {"NONE"}
                                   [] inbox[i].status = "PROCESSING" -> {"NONE", "unresolved"}
                                   [] inbox[i].status = "PROCESSED"  -> {"NONE", "retried"}
                                   [] inbox[i].status = "FAILED"     -> {"unresolved"}
                                   [] inbox[i].status = "DISMISSED"  -> {"dismissed"}
                       /\ ~Stored(i) => ~Unresolved(i)
    BY DEF LetterMatchesReceipt
  <2>1. i \in Ids /\ i > Len(Legacy) /\ RowInv(i)
    BY PacketsAssumption DEF ReceiptIds, LegacyIds, Ids, IInv
  <2>2. CASE Stored(i)
    <3>1. inbox[i].status \in Statuses
      BY <2>1, <2>2, RowFields DEF IInv, Receipt
    <3>. QED
      BY <2>1, <2>2, <3>1 DEF RowInv, Statuses, NoLetterOf, Unresolved
  <2>3. CASE ~Stored(i)
    BY <2>1, <2>3 DEF RowInv
  <2>. QED
    BY <2>2, <2>3
<1>. QED
  BY <1>1, Invariance, PTL

-----------------------------------------------------------------------------
(* The refinement of SignalLifecycle                                       *)

\* A processor that has an outcome was started.
SettleInv == job.pc = "settle" => started[job.id] > 0

LEMMA SettleStep ==
    ASSUME IInv, SettleInv, [Next]_vars
    PROVE  SettleInv'
<1>. SUFFICES ASSUME job'.pc = "settle"
              PROVE  started'[job'.id] > 0
  BY DEF SettleInv
<1>1. CASE UNCHANGED <<job, started>>
  BY <1>1 DEF SettleInv
<1>2. CASE Invoke
  <2>1. PICK ok, pc : job' = [pc |-> pc, id |-> job.id, at |-> job.at, ok |-> ok]
    BY <1>2, Zenon DEF Invoke
  <2>2. job'.id = job.id /\ job.id \in Ids
    BY <1>2, <2>1, HolderFields DEF IInv, Invoke, Free
  <2>3. started' = [started EXCEPT ![job.id] = @ + 1]
    BY <1>2 DEF Invoke
  <2>. QED
    BY <2>2, <2>3 DEF IInv, TypeOK
<1>3. job' # NoJob
  BY DEF NoJob
<1>4. ~Lock /\ ~Select
  <2>1. CASE Lock
    BY <2>1 DEF Lock
  <2>2. CASE Select
    <3>1. PICK i \in Pending : job' = [pc |-> "execute", id |-> i, at |-> job.at]
      BY <1>3, <2>2, Zenon DEF Select
    <3>. QED
      BY <3>1
  <2>. QED
    BY <2>1, <2>2
<1>5. CASE Recover /\ ~UNCHANGED job
  <2>1. job \in [pc : {"recover", "select"}, at : Nat]
    BY <1>5, HolderFields DEF Recover, IInv, Free
  <2>. QED
    BY <1>5, <2>1 DEF Recover
<1>6. CASE Execute
  <2>1. job \in [pc : {"execute", "invoke"}, id : Ids, at : Nat]
    BY <1>6, HolderFields DEF Execute, IInv, Free
  <2>. QED
    BY <1>3, <1>6, <2>1 DEF Execute
<1>7. ASSUME NEW i \in Ids, Retry(i) \/ RetryLegacy(i)
      PROVE  UNCHANGED <<job, started>>
  BY <1>7 DEF Retry, RetryLegacy
<1>. QED
  BY <1>1, <1>2, <1>3, <1>4, <1>5, <1>6, <1>7
     DEF Next, Worker, Execution, Owner, Sender, Environment, ReadClock, Cleanup, Recover,
         Settle, SettleLegacy, Dismiss, Enqueue, HolderFails, Crash, Tick, vars

StageMap == [i \in ReceiptIds |-> Stage(i)]
AttemptMap == [i \in ReceiptIds |-> started[i]]

\* The stage of a receipt depends on its row alone.
LEMMA StageOfRow ==
    ASSUME NEW i \in Ids
    PROVE  /\ Stored(i) =>
                /\ inbox[i].status = "PENDING" => Stage(i) = "waiting"
                /\ inbox[i].status = "PROCESSING" => Stage(i) = "attempting"
                /\ inbox[i].status = "PROCESSED" => Stage(i) = "applied"
                /\ inbox[i].status = "FAILED" => Stage(i) = "review"
                /\ inbox[i].status = "DISMISSED" => Stage(i) = "closed"
           /\ ~Stored(i) => Stage(i) = IF i <= lastId THEN "forgotten" ELSE "unknown"
BY DEF Stage

LEMMA StageKept ==
    ASSUME NEW i \in Ids, inbox'[i] = inbox[i], lastId' = lastId
    PROVE  Stage(i)' = Stage(i)
BY DEF Stage, Stored

LEMMA StageMoved ==
    ASSUME NEW s \in ReceiptIds, NEW to, NEW from, Stage(s) \in from, Stage(s)' = to,
           \A i \in ReceiptIds \ {s} : Stage(i)' = Stage(i), started' = started
    PROVE  Lifecycle!Move(s, from, to) /\ UNCHANGED AttemptMap
<1>1. StageMap' = [StageMap EXCEPT ![s] = to]
  BY DEF StageMap
<1>2. StageMap[s] \in from
  BY DEF StageMap
<1>. QED
  BY <1>1, <1>2 DEF Lifecycle!Move, StageMap, AttemptMap

LEMMA StageQuiet ==
    ASSUME \A i \in ReceiptIds : Stage(i)' = Stage(i), started' = started
    PROVE  UNCHANGED <<StageMap, AttemptMap>>
BY DEF StageMap, AttemptMap

\* An execution or recovery that ends badly puts the signal under review.
LEMMA StageFail ==
    ASSUME IInv, NEW s \in Ids, Stored(s), Fail(s), UNCHANGED <<lastId, started>>,
           inbox[s].status \in {"PENDING", "PROCESSING", "FAILED"}
    PROVE  \/ s \in ReceiptIds /\ Lifecycle!Question(s)
           \/ UNCHANGED <<StageMap, AttemptMap>>
<1>1. inbox[s].dead <=> ~NoLetterOf(s)
  BY DEF IInv, RowInv
<1>2. /\ Stored(s)' /\ inbox'[s].status = "FAILED"
      /\ \A j \in Ids \ {s} : inbox'[j] = inbox[j]
  BY <1>1, FailRow DEF IInv
<1>3. Stage(s)' = "review"
  BY <1>2 DEF Stage
<1>4. \A i \in ReceiptIds \ {s} : Stage(i)' = Stage(i)
  BY <1>2, StageKept DEF ReceiptIds
<1>5. s \in ReceiptIds
  BY PacketsAssumption DEF IInv, RowInv, ReceiptIds, LegacyIds, Ids
<1>6. CASE Stage(s) \in {"waiting", "attempting"}
  BY <1>3, <1>4, <1>5, <1>6, StageMoved DEF Lifecycle!Question, AttemptMap
<1>7. CASE Stage(s) = "review"
  BY <1>3, <1>4, <1>7, StageQuiet
<1>. QED
  BY <1>6, <1>7, StageOfRow

LEMMA LifecycleNext ==
    ASSUME IInv, SettleInv, [Next]_vars
    PROVE  Lifecycle!Next \/ UNCHANGED <<StageMap, AttemptMap>>
<1>0. TypeOK /\ ReceiptIds \subseteq Ids /\ lastId \in Nat
  BY DEF IInv, TypeOK, ReceiptIds
<1>1. CASE UNCHANGED <<inbox, lastId, started>>
  BY <1>0, <1>1, StageKept, StageQuiet
<1>2. ASSUME NEW p \in Packets, Enqueue(p)
      PROVE  Lifecycle!Next
  <2>1. lastId < MaxReceipts /\ lastId' = lastId + 1 /\ UNCHANGED started
    BY <1>2 DEF Enqueue
  <2>2. PICK s \in Ids : s = lastId + 1
    BY <1>0, <2>1, BoundsAssumption DEF Ids
  <2>3. s \in ReceiptIds /\ ~Stored(s) /\ ~(s <= lastId)
    BY <1>0, <2>2, PacketsAssumption DEF IInv, RowInv, ReceiptIds, LegacyIds, Ids
  <2>4. Stage(s) = "unknown"
    BY <2>3, StageOfRow
  <2>5. inbox'[s].status = "PENDING" /\ \A i \in Ids \ {s} : inbox'[i] = inbox[i]
    BY <1>0, <1>2, <2>2 DEF Enqueue, TypeOK
  <2>6. Stage(s)' = "waiting"
    BY <2>5 DEF Stage, Stored
  <2>7. ASSUME NEW i \in ReceiptIds \ {s}
        PROVE  Stage(i)' = Stage(i)
    <3>1. inbox'[i] = inbox[i]
      BY <1>0, <2>5
    <3>2. i \in Int /\ i # lastId + 1
      BY <1>0, <2>2 DEF Ids
    <3>3. i <= lastId' <=> i <= lastId
      BY <1>0, <2>1, <3>2
    <3>4. CASE Stored(i)
      <4>1. inbox'[i].status \in Statuses /\ inbox'[i].status = inbox[i].status
        BY <1>0, <3>1, <3>4, RowFields DEF Receipt
      <4>2. Stored(i)'
        BY <3>1, <3>4 DEF Stored
      <4>. QED
        BY <3>4, <4>1, <4>2 DEF Stage, Statuses
    <3>5. CASE ~Stored(i)
      <4>1. Stage(i) = IF i <= lastId THEN "forgotten" ELSE "unknown"
        BY <3>5 DEF Stage
      <4>2. Stage(i)' = IF i <= lastId' THEN "forgotten" ELSE "unknown"
        BY <3>1, <3>5 DEF Stage, Stored
      <4>. QED
        BY <3>3, <4>1, <4>2
    <3>. QED
      BY <3>4, <3>5
  <2>. QED
    BY <2>1, <2>3, <2>4, <2>6, <2>7, StageMoved
       DEF Lifecycle!Next, Lifecycle!Accept, AttemptMap
<1>3. CASE Execute
  <2>1. job.pc = "execute" /\ job.id \in Ids
    BY <1>0, <1>3, HolderFields DEF Execute, Free
  <2>2. PICK s \in Ids : s = job.id /\ Stored(s) /\ inbox[s].status \in {"PENDING", "FAILED"}
    BY <2>1 DEF IInv, HolderInv, Stored
  <2>3. CASE Refused(job.id, job.at)
    BY <1>3, <2>2, <2>3, StageFail DEF Execute, Lifecycle!Next
  <2>4. CASE ~Refused(job.id, job.at)
    <3>1. inbox' = [inbox EXCEPT ![s].status = "PROCESSING"] /\ UNCHANGED <<lastId, started>>
      BY <1>3, <2>2, <2>4 DEF Execute
    <3>2. inbox'[s].status = "PROCESSING" /\ \A i \in Ids \ {s} : inbox'[i] = inbox[i]
      BY <1>0, <2>2, <3>1, RowFields DEF TypeOK, Receipt
    <3>3. s \in ReceiptIds
      BY <2>2, PacketsAssumption DEF IInv, RowInv, ReceiptIds, LegacyIds, Ids
    <3>4. Stage(s) \in {"waiting", "review"} /\ Stage(s)' = "attempting"
      BY <2>2, <3>2, StageOfRow DEF Stage, Stored
    <3>5. \A i \in ReceiptIds \ {s} : Stage(i)' = Stage(i)
      BY <1>0, <3>1, <3>2, StageKept
    <3>. QED
      BY <3>1, <3>3, <3>4, <3>5, StageMoved
         DEF Lifecycle!Next, Lifecycle!Attempt, AttemptMap
  <2>. QED
    BY <2>3, <2>4
<1>4. CASE Invoke
  <2>1. job.id \in Ids /\ UNCHANGED <<inbox, lastId>>
    BY <1>0, <1>4, HolderFields DEF Invoke, Free
  <2>2. started' = [started EXCEPT ![job.id] = @ + 1]
    BY <1>4 DEF Invoke
  <2>3. UNCHANGED StageMap
    BY <1>0, <2>1, StageKept DEF StageMap
  <2>4. CASE job.id \in ReceiptIds
    <3>1. job.pc = "invoke"
      <4>1. ~Stored(job.id) => ~Unresolved(job.id)
        BY <2>1, <2>4, PacketsAssumption DEF IInv, RowInv, ReceiptIds, LegacyIds, Ids
      <4>. QED
        BY <1>4, <4>1 DEF Invoke, IInv, HolderInv
    <3>2. Stage(job.id) = "attempting"
      BY <2>1, <3>1, StageOfRow DEF IInv, HolderInv, Stored
    <3>3. StageMap[job.id] = "attempting"
      BY <2>4, <3>2 DEF StageMap
    <3>4. AttemptMap' = [AttemptMap EXCEPT ![job.id] = @ + 1]
      BY <1>0, <2>2, <2>4 DEF AttemptMap, TypeOK
    <3>. QED
      BY <2>3, <2>4, <3>3, <3>4 DEF Lifecycle!Next, Lifecycle!Start, StageMap, AttemptMap
  <2>5. CASE job.id \notin ReceiptIds
    <3>1. UNCHANGED AttemptMap
      BY <1>0, <2>2, <2>5 DEF AttemptMap, TypeOK
    <3>. QED
      BY <2>3, <3>1
  <2>. QED
    BY <2>4, <2>5
<1>5. CASE Settle
  <2>1. job.pc = "settle" /\ job.id \in Ids /\ job.at \in Nat
    BY <1>0, <1>5, HolderFields DEF Settle, Free
  <2>2. PICK s \in Ids : s = job.id /\ Stored(s) /\ inbox[s].status = "PROCESSING"
    BY <2>1 DEF IInv, HolderInv, Stored
  <2>3. UNCHANGED <<lastId, started>>
    BY <1>5 DEF Settle
  <2>4. CASE Fail(s)
    BY <2>2, <2>3, <2>4, StageFail DEF Lifecycle!Next
  <2>5. CASE Complete(s, job.at)
    <3>1. inbox[s].dead <=> ~NoLetterOf(s)
      BY <2>2 DEF IInv, RowInv
    <3>2. /\ Stored(s)' /\ inbox'[s].status = "PROCESSED"
          /\ \A j \in Ids \ {s} : inbox'[j] = inbox[j]
      BY <1>0, <2>1, <2>2, <2>5, <3>1, CompleteRow
    <3>3. s \in ReceiptIds
      BY <2>2, PacketsAssumption DEF IInv, RowInv, ReceiptIds, LegacyIds, Ids
    <3>4. Stage(s) = "attempting" /\ Stage(s)' = "applied"
      BY <2>2, <3>2, StageOfRow DEF Stage
    <3>5. \A i \in ReceiptIds \ {s} : Stage(i)' = Stage(i)
      BY <1>0, <2>3, <3>2, StageKept
    <3>6. AttemptMap[s] > 0
      BY <2>1, <2>2, <3>3 DEF SettleInv, AttemptMap
    <3>. QED
      BY <2>3, <3>3, <3>4, <3>5, <3>6, StageMoved
         DEF Lifecycle!Next, Lifecycle!Succeed, AttemptMap
  <2>. QED
    BY <1>5, <2>2, <2>4, <2>5 DEF Settle
<1>6. CASE Recover
  <2>1. CASE UNCHANGED inbox
    BY <1>1, <1>6, <2>1 DEF Recover
  <2>2. CASE inbox' # inbox
    <3>1. PICK s \in Interrupted : Fail(s)
      BY <1>6, <2>2, Zenon DEF Recover
    <3>2. s \in Ids /\ inbox[s].status = "PROCESSING" /\ Stored(s)
      BY <3>1 DEF Interrupted, Stored
    <3>. QED
      BY <1>6, <3>1, <3>2, StageFail DEF Recover, Lifecycle!Next
  <2>. QED
    BY <2>1, <2>2
<1>7. ASSUME NEW s \in Ids, Dismiss(s), inbox' # inbox
      PROVE  Lifecycle!Next
  <2>1. /\ Stored(s) /\ Unresolved(s) /\ UNCHANGED <<lastId, started>>
        /\ inbox' = [inbox EXCEPT ![s].status = "DISMISSED", ![s].completed = now]
    BY <1>7 DEF Dismiss
  <2>2. inbox[s] \in Receipt
    BY <1>0, <2>1, RowFields
  <2>3. inbox[s].status \in {"PROCESSING", "FAILED"}
    BY <2>1, <2>2 DEF IInv, RowInv, Unresolved, NoLetterOf, Receipt, Statuses
  <2>4. inbox'[s].status = "DISMISSED" /\ \A i \in Ids \ {s} : inbox'[i] = inbox[i]
    BY <1>0, <2>1, <2>2 DEF TypeOK, Receipt
  <2>5. s \in ReceiptIds
    BY <2>1, PacketsAssumption DEF IInv, RowInv, ReceiptIds, LegacyIds, Ids
  <2>6. Stage(s) \in {"review", "attempting"} /\ Stage(s)' = "closed"
    BY <2>1, <2>3, <2>4, StageOfRow DEF Stage, Stored
  <2>7. \A i \in ReceiptIds \ {s} : Stage(i)' = Stage(i)
    BY <1>0, <2>1, <2>4, StageKept
  <2>. QED
    BY <2>1, <2>5, <2>6, <2>7, StageMoved DEF Lifecycle!Next, Lifecycle!Close, AttemptMap
<1>8. CASE Cleanup
  <2>. DEFINE S == {i \in ReceiptIds : Stored(i) /\ inbox'[i] = NoRow}
  <2>1. UNCHANGED <<lastId, started>>
    BY <1>8 DEF Cleanup
  <2>2. \A i \in Ids : \/ inbox'[i] = inbox[i]
                       \/ /\ Stored(i) /\ inbox'[i] = NoRow
                          /\ inbox[i].status \in {"PROCESSED", "DISMISSED"}
    BY <1>8 DEF Cleanup
  <2>3. \A i \in S : Stage(i)' = "forgotten"
    <3>1. ASSUME NEW i \in S
          PROVE  Stage(i)' = "forgotten"
      <4>1. ~Stored(i)' /\ i <= lastId'
        BY <1>0, <2>1, <3>1 DEF IInv, RowInv, Stored, NoRow
      <4>. QED
        BY <4>1 DEF Stage
    <3>. QED
      BY <3>1
  <2>4. \A i \in ReceiptIds \ S : Stage(i)' = Stage(i)
    BY <1>0, <2>1, <2>2, StageKept
  <2>5. S \in SUBSET {i \in ReceiptIds : StageMap[i] \in {"applied", "closed"}}
    <3>1. ASSUME NEW i \in S
          PROVE  StageMap[i] \in {"applied", "closed"}
      <4>1. Stored(i) /\ inbox[i].status \in {"PROCESSED", "DISMISSED"}
        BY <1>0, <2>2, <3>1 DEF Stored, NoRow
      <4>. QED
        BY <1>0, <4>1, StageOfRow DEF StageMap
    <3>. QED
      BY <3>1
  <2>6. StageMap' = [i \in ReceiptIds |-> IF i \in S THEN "forgotten" ELSE StageMap[i]]
    BY <2>3, <2>4 DEF StageMap
  <2>7. UNCHANGED AttemptMap
    BY <2>1 DEF AttemptMap
  <2>. HIDE DEF S
  <2>. QED
    BY <2>5, <2>6, <2>7 DEF Lifecycle!Next, Lifecycle!Forget, StageMap, AttemptMap
<1>. QED
  BY <1>1, <1>2, <1>3, <1>4, <1>5, <1>6, <1>7, <1>8
     DEF Next, Worker, Execution, Owner, Sender, Environment, ReadClock, Lock, Select,
         SettleLegacy, Retry, RetryLegacy, Dismiss, HolderFails, Crash, Tick, vars

LEMMA LifecycleInit == Init => Lifecycle!Init
<1>. SUFFICES ASSUME Init
              PROVE  Lifecycle!Init
  OBVIOUS
<1>1. \A i \in ReceiptIds : ~Stored(i) /\ ~(i <= lastId) /\ started[i] = 0
  BY PacketsAssumption DEF Init, Stored, NoRow, ReceiptIds, LegacyIds, Ids
<1>2. \A i \in ReceiptIds : Stage(i) = "unknown"
  BY <1>1 DEF Stage
<1>. QED
  BY <1>1, <1>2 DEF Lifecycle!Init

\* The tables implement the promise of the webhook contract: what was accepted
\* is not lost, an attempt in doubt is put before the owner, and only settled
\* signals are forgotten, under any number of crashes and database errors.
THEOREM KeepsLifecycle == Spec => ImplementsLifecycle
<1>1. Init => SettleInv
  BY DEF Init, SettleInv, NoJob
<1>2. IInv /\ SettleInv /\ [Next]_vars => SettleInv'
  BY SettleStep
<1>3. IInv /\ SettleInv /\ [Next]_vars => [Lifecycle!Next]_<<StageMap, AttemptMap>>
  BY LifecycleNext
<1>. QED
  BY <1>1, <1>2, <1>3, LifecycleInit, Invariance, PTL
     DEF Spec, ImplementsLifecycle, Lifecycle!Spec, StageMap, AttemptMap

\* No acknowledged signal is lost or applied without an attempt, whatever
\* crashes, repeats and clean-ups do: whoever keeps the lifecycle guarantees it.
THEOREM SignalsSurvive == Spec => []Lifecycle!Sound /\ Lifecycle!NothingLost
<1>. DEFINE S == [i \in ReceiptIds |-> Stage(i)]
            A == [i \in ReceiptIds |-> started[i]]
            LInv == /\ S \in [ReceiptIds -> Lifecycle!Stages]
                    /\ A \in [ReceiptIds -> Nat]
                    /\ \A i \in ReceiptIds :
                          /\ S[i] \in {"unknown", "waiting"} => A[i] = 0
                          /\ S[i] = "applied" => A[i] > 0
            Kept == \A s \in ReceiptIds : Lifecycle!Carries(s)
<1>1. Lifecycle!Init => LInv
  BY DEF Lifecycle!Init, Lifecycle!Stages
<1>2. ASSUME LInv, Lifecycle!Next
      PROVE  LInv' /\ Kept
  <2>. USE <1>2 DEF Lifecycle!Stages, Lifecycle!Carries
  <2>1. ASSUME NEW i \in ReceiptIds, Lifecycle!Accept(i) \/ Lifecycle!Attempt(i)
        PROVE  LInv' /\ Kept
    BY <2>1 DEF Lifecycle!Accept, Lifecycle!Attempt, Lifecycle!Move
  <2>2. ASSUME NEW i \in ReceiptIds, Lifecycle!Start(i)
        PROVE  LInv' /\ Kept
    <3>1. S[i] = "attempting" /\ A' = [A EXCEPT ![i] = A[i] + 1] /\ S' = S
      BY <2>2 DEF Lifecycle!Start
    <3>2. LInv'
      <4>. HIDE DEF S, A
      <4>. QED  BY <3>1
    <3>3. Kept
      BY <2>2 DEF Lifecycle!Start
    <3>. QED  BY <3>2, <3>3
  <2>3. ASSUME NEW i \in ReceiptIds, Lifecycle!Succeed(i)
        PROVE  LInv' /\ Kept
    BY <2>3 DEF Lifecycle!Succeed, Lifecycle!Move
  <2>4. ASSUME NEW i \in ReceiptIds, Lifecycle!Question(i) \/ Lifecycle!Close(i)
        PROVE  LInv' /\ Kept
    BY <2>4 DEF Lifecycle!Question, Lifecycle!Close, Lifecycle!Move
  <2>5. ASSUME Lifecycle!Forget
        PROVE  LInv' /\ Kept
    BY <2>5 DEF Lifecycle!Forget
  <2>. QED
    BY <2>1, <2>2, <2>3, <2>4, <2>5 DEF Lifecycle!Next
<1>3. LInv /\ [Lifecycle!Next]_<<S, A>> => LInv' /\ [Kept]_<<S, A>>
  <2>1. ASSUME LInv, UNCHANGED <<S, A>> PROVE LInv'
    <3>. HIDE DEF S, A
    <3>. QED  BY <2>1
  <2>. QED  BY <1>2, <2>1
<1>4. LInv => Lifecycle!Sound
  BY DEF Lifecycle!Sound
<1>. HIDE DEF LInv
<1>. QED
  BY <1>1, <1>3, <1>4, KeepsLifecycle, PTL
     DEF ImplementsLifecycle, Lifecycle!Spec, Lifecycle!NothingLost
=============================================================================
