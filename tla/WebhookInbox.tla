---------------------------- MODULE WebhookInbox ----------------------------
(***************************************************************************)
(* The durable inbox between the four webhook routes and their processors  *)
(* (backend/webhook_inbox.go, backend/webhook_dead_letters.go).  A sender  *)
(* is told "accepted" once a receipt is committed; one worker executes     *)
(* receipts in arrival order; every failure becomes a dead letter that the *)
(* owner retries or dismisses.                                             *)
(*                                                                         *)
(* Grain.  One SQL transaction is one step.  webhookProcessingMu is held   *)
(* across the several transactions of one execution, so `job' names its    *)
(* holder and where the holder is; a crash, or a database error that makes *)
(* the holder return, can come between any two of them.                    *)
(*                                                                         *)
(* Abstracted: hashes are injective, so a packet stands for its canonical  *)
(* JSON; the body of a processor is one step that may or may not have had  *)
(* its effects when the answer, an error, a panic or a crash comes.        *)
(***************************************************************************)
EXTENDS Integers, Sequences

CONSTANTS
    Packets,      \* signal bodies: [name, event_id, time, stream, body]
    NoId,         \* event_id of a packet that carries none
    NoTime,       \* time of a packet with no recognised source date
    Processors,   \* keys of webhookProcessors
    Legacy,       \* packets of the dead letters that are older than the inbox
    MaxReceipts,  \* bound: rows ever stored, the legacy letters included
    MaxTime,      \* bound on the clock
    MaxFaults,    \* bound on crashes and database errors
    MaxRetries,   \* bound on owner retries of one letter
    Minute, Day, Week,   \* the three windows, in ticks of the clock
    MaxLag        \* longest wait for the mutex or run of a processor, in ticks

Ids == 1..MaxReceipts
LegacyIds == 1..Len(Legacy)

ASSUME PacketsAssumption ==
    /\ NoTime \notin Nat
    /\ \A p \in Packets : p.time \in Nat \cup {NoTime}
    /\ Legacy \in Seq(Packets)
    /\ Len(Legacy) <= MaxReceipts

ASSUME BoundsAssumption ==
    /\ {MaxReceipts, MaxTime, MaxFaults, MaxRetries} \subseteq Nat
    /\ {Minute, Day, Week, MaxLag} \subseteq Nat

VARIABLES
    inbox,      \* table webhook_inbox
    letters,    \* table webhook_dead_letters, a letter under its receipt's id
    lastId,     \* AUTOINCREMENT sequence of webhook_inbox
    worker,     \* the worker goroutine while it does not hold the mutex
    job,        \* the holder of webhookProcessingMu
    now,        \* wall clock
    faults,     \* crashes and database errors so far (bounded)
    started,    \* history: processor invocations of each id
    tried       \* history: the ids under which each packet came to its processor

vars == <<inbox, letters, lastId, worker, job, now, faults, started, tried>>

Statuses == {"PENDING", "PROCESSING", "PROCESSED", "FAILED", "DISMISSED"}
NoRow == [status |-> "NONE"]
NoLetter == [resolution |-> "NONE"]
NoJob == [pc |-> "free"]

Stored(i) == inbox[i].status # "NONE"
Unresolved(i) == letters[i].resolution = "unresolved"
Free == job.pc = "free"

Receipt == [status : Statuses, packet : Packets, received : Nat,
            completed : Nat, dead : BOOLEAN]
Letter == [resolution : {"unresolved", "retried", "dismissed"},
           packet : Packets, created : Nat, resolved : Nat, retries : Nat]
Holder == [pc : {"recover", "select"}, at : Nat]
            \cup [pc : {"execute", "invoke"}, id : Ids, at : Nat]
            \cup [pc : {"settle", "settle legacy"}, id : Ids, at : Nat, ok : BOOLEAN]
            \cup [pc : {"legacy"}, id : Ids, at : Nat]

TypeOK ==
    /\ inbox \in [Ids -> Receipt \cup {NoRow}]
    /\ letters \in [Ids -> Letter \cup {NoLetter}]
    /\ lastId \in 0..MaxReceipts
    /\ worker \in [pc : {"idle", "cleaning", "cleaned", "locking"}, at : Nat]
    /\ job \in Holder \cup {NoJob}
    /\ now \in Nat
    /\ faults \in Nat
    /\ started \in [Ids -> Nat]
    /\ tried \in [Packets -> SUBSET Ids]

Init ==
    /\ inbox = [i \in Ids |-> NoRow]
    /\ letters = [i \in Ids |->
                    IF i \in LegacyIds
                    THEN [resolution |-> "unresolved", packet |-> Legacy[i],
                          created |-> 0, resolved |-> 0, retries |-> 0]
                    ELSE NoLetter]
    /\ lastId = Len(Legacy)
    /\ worker = [pc |-> "idle", at |-> 0]
    /\ job = NoJob
    /\ now = 0
    /\ faults = 0
    /\ started = [i \in Ids |-> 0]
    /\ tried = [p \in Packets |-> {}]

-----------------------------------------------------------------------------
(* Admission                                                               *)

\* The event key: an explicit id, else the dated body itself, else none.
EventKey(p) ==
    IF p.event_id # NoId THEN <<"id", p.event_id>>
    ELSE IF p.time # NoTime THEN <<"bar", p>>
    ELSE <<>>

\* The receipts admission compares a new packet with: the one holding its key,
\* or for a packet without key the newest of its source within a minute.
SameKey(p) ==
    {i \in Ids : /\ Stored(i)
                 /\ inbox[i].packet.name = p.name
                 /\ EventKey(inbox[i].packet) = EventKey(p)}

LatestOfStream(p) ==
    LET recent == {i \in Ids : /\ Stored(i)
                               /\ inbox[i].packet.stream = p.stream
                               /\ inbox[i].received + Minute >= now}
    IN  {i \in recent : \A j \in recent : j <= i}

Twin(p) == IF EventKey(p) # <<>>
           THEN SameKey(p)
           ELSE {i \in LatestOfStream(p) : inbox[i].packet = p}

\* A new receipt is committed, then acknowledged.  A duplicate (its twin has
\* the same body) and a conflicting reuse of an event id change nothing.
Enqueue(p) ==
    /\ lastId < MaxReceipts
    /\ p.time # NoTime => p.time <= now        \* senders date closed bars
    /\ p.name \in Processors
    /\ Twin(p) = {}
    /\ lastId' = lastId + 1
    /\ inbox' = [inbox EXCEPT ![lastId + 1] =
                    [status |-> "PENDING", packet |-> p, received |-> now,
                     completed |-> 0, dead |-> FALSE]]
    /\ UNCHANGED <<letters, worker, job, now, faults, started, tried>>

-----------------------------------------------------------------------------
(* Outcomes: the two transactions that end an execution                    *)

Fail(i) ==
    /\ letters' = [letters EXCEPT ![i] =
                    IF inbox[i].dead
                    THEN [@ EXCEPT !.resolution = "unresolved", !.resolved = 0]
                    ELSE [resolution |-> "unresolved", packet |-> inbox[i].packet,
                          created |-> now, resolved |-> 0, retries |-> 0]]
    /\ inbox' = [inbox EXCEPT ![i].status = "FAILED", ![i].completed = 0,
                              ![i].dead = TRUE]

\* Mutant: completion leaves the letter of a retried receipt open.
CompleteKeepsLetter(i, at) ==
    /\ inbox' = [inbox EXCEPT ![i].status = "PROCESSED", ![i].completed = at]
    /\ UNCHANGED letters

\* Mutant: completion resolves a letter that was never written.
CompleteAnyLetter(i, at) ==
    /\ inbox' = [inbox EXCEPT ![i].status = "PROCESSED", ![i].completed = at]
    /\ letters' = [letters EXCEPT ![i].resolution = "retried"]

Complete(i, at) ==
    /\ inbox' = [inbox EXCEPT ![i].status = "PROCESSED", ![i].completed = at]
    /\ letters' = IF inbox[i].dead
                  THEN [letters EXCEPT ![i].resolution = "retried", ![i].resolved = now]
                  ELSE letters

-----------------------------------------------------------------------------
(* Execution of one receipt, by the worker or by an owner retry            *)

\* Mutant: the age check looks at the delivery alone.
ExpiredByDelivery(p, received, at) == at > received + Day

Expired(p, received, at) ==
    \/ at > received + Day
    \/ p.time # NoTime /\ at > p.time + Day

\* Mutant: only receipts stored later can supersede one.
SupersededByArrival(i) ==
    /\ inbox[i].packet.time # NoTime
    /\ \E j \in Ids :
          /\ j > i
          /\ Stored(j)
          /\ inbox[j].status = "PROCESSED"
          /\ inbox[j].packet.stream = inbox[i].packet.stream
          /\ inbox[j].packet.time # NoTime
          /\ inbox[j].packet.time > inbox[i].packet.time

Superseded(i) ==
    /\ inbox[i].packet.time # NoTime
    /\ \E j \in Ids \ {i} :
          /\ Stored(j)
          /\ inbox[j].status = "PROCESSED"
          /\ inbox[j].packet.stream = inbox[i].packet.stream
          /\ inbox[j].packet.time # NoTime
          /\ inbox[j].packet.time > inbox[i].packet.time

Refused(i, at) ==
    \/ Expired(inbox[i].packet, inbox[i].received, at)
    \/ Superseded(i)
    \/ inbox[i].packet.name \notin Processors

\* The guards of an execution, then the mark that makes an interruption visible.
Execute ==
    /\ job.pc = "execute"
    /\ \/ /\ Refused(job.id, job.at)
          /\ Fail(job.id)
          /\ job' = NoJob
       \/ /\ ~Refused(job.id, job.at)
          /\ inbox' = [inbox EXCEPT ![job.id].status = "PROCESSING"]
          /\ job' = [job EXCEPT !.pc = "invoke"]
          /\ UNCHANGED letters
    /\ UNCHANGED <<lastId, worker, now, faults, started, tried>>

\* What the holder hands to the processor: a receipt's body or an old letter's.
Handed == IF job.pc = "invoke" THEN inbox[job.id].packet ELSE letters[job.id].packet

\* The processor runs; a status of 400 or more, or a panic, is a failure.  Its
\* effects may be there whatever it answered and whether or not the answer is
\* ever recorded, so the histories count every run as one that had them.
Invoke ==
    /\ job.pc \in {"invoke", "legacy"}
    /\ started' = [started EXCEPT ![job.id] = @ + 1]
    /\ tried' = [tried EXCEPT ![Handed] = @ \cup {job.id}]
    /\ \E ok \in BOOLEAN :
          job' = [pc |-> IF job.pc = "invoke" THEN "settle" ELSE "settle legacy",
                  id |-> job.id, at |-> job.at, ok |-> ok]
    /\ UNCHANGED <<inbox, letters, lastId, worker, now, faults>>

Settle ==
    /\ job.pc = "settle"
    /\ IF job.ok THEN Complete(job.id, job.at) ELSE Fail(job.id)
    /\ job' = NoJob
    /\ UNCHANGED <<lastId, worker, now, faults, started, tried>>

-----------------------------------------------------------------------------
(* The worker goroutine                                                    *)

\* The worker reads the clock before it waits for the mutex: each round is an
\* hourly clean-up when one is due, then the next receipt.
ReadClock ==
    /\ worker.pc \in {"idle", "cleaned"}
    /\ \E pc \in {"cleaning", "locking"} :
          /\ worker.pc = "cleaned" => pc = "locking"
          /\ worker' = [pc |-> pc, at |-> now]
    /\ UNCHANGED <<inbox, letters, lastId, job, now, faults, started, tried>>

\* Resolved receipts and then resolved letters without a receipt, a week old.
Cleanup ==
    /\ worker.pc = "cleaning"
    /\ Free
    /\ LET old == {i \in Ids : /\ Stored(i)
                               /\ inbox[i].status \in {"PROCESSED", "DISMISSED"}
                               /\ inbox[i].completed + Week < worker.at}
       IN /\ inbox' = [i \in Ids |-> IF i \in old THEN NoRow ELSE inbox[i]]
          /\ letters' = [i \in Ids |->
                           IF /\ letters[i].resolution \in {"retried", "dismissed"}
                              /\ letters[i].resolved + Week < worker.at
                              /\ ~Stored(i) \/ i \in old
                           THEN NoLetter ELSE letters[i]]
    /\ worker' = [pc |-> "cleaned", at |-> 0]
    /\ UNCHANGED <<lastId, job, now, faults, started, tried>>

Lock ==
    /\ worker.pc = "locking"
    /\ Free
    /\ job' = [pc |-> "recover", at |-> worker.at]
    /\ worker' = [pc |-> "idle", at |-> 0]
    /\ UNCHANGED <<inbox, letters, lastId, now, faults, started, tried>>

\* A receipt still marked PROCESSING was interrupted: it is failed for review,
\* one transaction each, and never executed again by the worker itself.
Interrupted == {i \in Ids : inbox[i].status = "PROCESSING"}

\* Mutant: an interrupted receipt is queued again.
RecoverRequeues ==
    /\ job.pc = "recover"
    /\ inbox' = [i \in Ids |-> IF i \in Interrupted
                               THEN [inbox[i] EXCEPT !.status = "PENDING"]
                               ELSE inbox[i]]
    /\ job' = [job EXCEPT !.pc = "select"]
    /\ UNCHANGED <<letters, lastId, worker, now, faults, started, tried>>

\* Mutant: the worker goes straight to the pending receipts.
RecoverSkipped ==
    /\ job.pc = "recover"
    /\ job' = [job EXCEPT !.pc = "select"]
    /\ UNCHANGED <<inbox, letters, lastId, worker, now, faults, started, tried>>

Recover ==
    /\ job.pc = "recover"
    /\ \/ \E i \in Interrupted :
            /\ \A j \in Interrupted : i <= j
            /\ Fail(i)
            /\ UNCHANGED job
       \/ /\ Interrupted = {}
          /\ job' = [job EXCEPT !.pc = "select"]
          /\ UNCHANGED <<inbox, letters>>
    /\ UNCHANGED <<lastId, worker, now, faults, started, tried>>

Pending == {i \in Ids : inbox[i].status = "PENDING"}

Select ==
    /\ job.pc = "select"
    /\ \/ \E i \in Pending :
            /\ \A j \in Pending : i <= j
            /\ job' = [pc |-> "execute", id |-> i, at |-> job.at]
       \/ Pending = {} /\ job' = NoJob
    /\ UNCHANGED <<inbox, letters, lastId, worker, now, faults, started, tried>>

-----------------------------------------------------------------------------
(* The owner: retry and dismiss, both under the mutex                      *)

\* Mutant: a retry invokes the processor without the guards of an execution.
RetryPastGuards(i) ==
    /\ Free
    /\ Unresolved(i)
    /\ Stored(i)
    /\ inbox[i].status = "FAILED"
    /\ letters[i].retries < MaxRetries
    /\ letters' = [letters EXCEPT ![i].retries = @ + 1]
    /\ inbox' = [inbox EXCEPT ![i].status = "PROCESSING"]
    /\ job' = [pc |-> "invoke", id |-> i, at |-> now]
    /\ UNCHANGED <<lastId, worker, now, faults, started, tried>>

\* Retry of a letter that has a receipt; a receipt that is not FAILED (it was
\* interrupted and not recovered yet) is refused.
Retry(i) ==
    /\ Free
    /\ Unresolved(i)
    /\ Stored(i)
    /\ inbox[i].status = "FAILED"
    /\ letters[i].retries < MaxRetries
    /\ letters' = [letters EXCEPT ![i].retries = @ + 1]
    /\ job' = [pc |-> "execute", id |-> i, at |-> now]
    /\ UNCHANGED <<inbox, lastId, worker, now, faults, started, tried>>

\* Retry of a letter without a receipt replays its payload directly.
RetryLegacy(i) ==
    /\ Free
    /\ Unresolved(i)
    /\ ~Stored(i)
    /\ letters[i].packet.name \in Processors
    /\ letters[i].retries < MaxRetries
    /\ IF Expired(letters[i].packet, letters[i].created, now)
       THEN /\ letters' = [letters EXCEPT ![i].retries = @ + 1]
            /\ UNCHANGED job
       ELSE /\ job' = [pc |-> "legacy", id |-> i, at |-> now]
            /\ UNCHANGED letters
    /\ UNCHANGED <<inbox, lastId, worker, now, faults, started, tried>>

SettleLegacy ==
    /\ job.pc = "settle legacy"
    /\ letters' = [letters EXCEPT
            ![job.id].retries = @ + 1,
            ![job.id].resolution = IF job.ok THEN "retried" ELSE @,
            ![job.id].resolved = IF job.ok THEN now ELSE @]
    /\ job' = NoJob
    /\ UNCHANGED <<inbox, lastId, worker, now, faults, started, tried>>

Dismiss(i) ==
    /\ Free
    /\ Unresolved(i)
    /\ letters' = [letters EXCEPT ![i].resolution = "dismissed", ![i].resolved = now]
    /\ inbox' = IF Stored(i)
                THEN [inbox EXCEPT ![i].status = "DISMISSED", ![i].completed = now]
                ELSE inbox
    /\ UNCHANGED <<lastId, worker, job, now, faults, started, tried>>

-----------------------------------------------------------------------------
(* The environment                                                         *)

\* A database error makes the holder return; nothing it had not committed is
\* kept, and the mutex is released.
HolderFails ==
    /\ ~Free
    /\ faults < MaxFaults
    /\ faults' = faults + 1
    /\ job' = NoJob
    /\ UNCHANGED <<inbox, letters, lastId, worker, now, started, tried>>

\* A crash also forgets where the worker was.
Crash ==
    /\ faults < MaxFaults
    /\ faults' = faults + 1
    /\ job' = NoJob
    /\ worker' = [pc |-> "idle", at |-> 0]
    /\ UNCHANGED <<inbox, letters, lastId, now, started, tried>>

\* Time passes, but a mutex wait and a processor run are short (MaxLag).
Tick ==
    /\ now < MaxTime
    /\ worker.pc \in {"cleaning", "locking"} => now < worker.at + MaxLag
    /\ ~Free => now < job.at + MaxLag
    /\ now' = now + 1
    /\ UNCHANGED <<inbox, letters, lastId, worker, job, faults, started, tried>>

Worker == ReadClock \/ Cleanup \/ Lock \/ Recover \/ Select
Execution == Execute \/ Invoke \/ Settle \/ SettleLegacy
Owner == \E i \in Ids : Retry(i) \/ RetryLegacy(i) \/ Dismiss(i)
Sender == \E p \in Packets : Enqueue(p)
Environment == HolderFails \/ Crash \/ Tick

Next == Worker \/ Execution \/ Owner \/ Sender \/ Environment

\* The goroutine loops for ever and a handler that has the mutex runs on;
\* senders, the owner, faults and the clock owe nothing.
Spec == Init /\ [][Next]_vars
FairSpec == Spec /\ WF_vars(ReadClock) /\ WF_vars(Cleanup) /\ WF_vars(Lock)
                 /\ WF_vars(Recover) /\ WF_vars(Select) /\ WF_vars(Execution)

-----------------------------------------------------------------------------
(* What the inbox promises (DOCS/api/WEBHOOK_CONTRACT.md, "Recovery,       *)
(* Identity And Retention")                                                *)

ReceiptIds == Ids \ LegacyIds
NoLetterOf(i) == letters[i].resolution = "NONE"
Retries(i) == IF NoLetterOf(i) THEN 0 ELSE letters[i].retries

\* The worker by itself invokes the processor of a receipt at most once,
\* whatever interrupts it; each further invocation was asked for by the owner.
AutomaticOnce ==
    \A i \in ReceiptIds : Stored(i) => started[i] <= 1 + Retries(i)

\* Receipt and letter always tell the same story: a failed receipt is open for
\* review, a settled one is not, and no letter outlives the receipt it is
\* about unresolved (a retry would then replay it past every guard).
LetterMatchesReceipt ==
    \A i \in ReceiptIds :
        /\ Stored(i) =>
              letters[i].resolution \in
                 CASE inbox[i].status = "PENDING"    -> {"NONE"}
                   [] inbox[i].status = "PROCESSING" -> {"NONE", "unresolved"}
                   [] inbox[i].status = "PROCESSED"  -> {"NONE", "retried"}
                   [] inbox[i].status = "FAILED"     -> {"unresolved"}
                   [] inbox[i].status = "DISMISSED"  -> {"dismissed"}
        /\ ~Stored(i) => ~Unresolved(i)

Dated(p) == p.time # NoTime
Newer(p) == {q \in Packets : Dated(q) /\ q.stream = p.stream /\ q.time > p.time}

\* A dated signal that may have had its effects, under whatever outcome, comes
\* to its processor again only when the owner retries the very receipt it was
\* questioned under; a redelivery does not bring it back, not even after its
\* receipt and with it the duplicate check are deleted.
RepeatedOnlyByRetry ==
    [][\A i \in ReceiptIds :
          LET p == inbox[i].packet IN
          started'[i] > started[i] /\ Dated(p) =>
             \A j \in tried[p] \cap ReceiptIds :
                j = i /\ Unresolved(i) /\ letters[i].retries > 0]_vars

\* A dated signal starts after a newer one of its source may have had effects
\* only while the newer one's receipt says that it was interrupted, failed or
\* was dismissed: never once the newer one is recorded as processed, not even
\* after that receipt is deleted.
OvertakenOnlyInDoubt ==
    [][\A i \in ReceiptIds :
          LET p == inbox[i].packet IN
          started'[i] > started[i] /\ Dated(p) =>
             \A q \in Newer(p) : \A j \in tried[q] \cap ReceiptIds :
                /\ Stored(j)
                /\ inbox[j].packet = q
                /\ inbox[j].status \in {"PROCESSING", "FAILED", "DISMISSED"}]_vars

\* No processor, of a retry included, starts on a signal older than a day,
\* save for the time spent waiting since the clock was read.
NoStaleStart ==
    [][\A i \in ReceiptIds :
          started'[i] > started[i] =>
             /\ now <= inbox[i].received + Day + MaxLag
             /\ inbox[i].packet.time # NoTime =>
                   now <= inbox[i].packet.time + Day + MaxLag]_vars

\* Every accepted signal is settled or put before the owner, and no interrupted
\* one stays in doubt: crashes are finitely many, the worker always comes back.
EverySignalDecided ==
    \A i \in Ids :
        (inbox[i].status \in {"PENDING", "PROCESSING"})
            ~> (inbox[i].status \notin {"PENDING", "PROCESSING"})

\* The promise of SignalLifecycle, read off the two tables.
Stage(i) ==
    IF Stored(i)
    THEN CASE inbox[i].status = "PENDING" -> "waiting"
           [] inbox[i].status = "PROCESSING" -> "attempting"
           [] inbox[i].status = "PROCESSED" -> "applied"
           [] inbox[i].status = "FAILED" -> "review"
           [] inbox[i].status = "DISMISSED" -> "closed"
    ELSE IF i <= lastId THEN "forgotten" ELSE "unknown"

Lifecycle == INSTANCE SignalLifecycle WITH
    Signals <- ReceiptIds,
    stage <- [i \in ReceiptIds |-> Stage(i)],
    attempts <- [i \in ReceiptIds |-> started[i]]

\* The inbox implements the promise: pending work survives restarts, an
\* interrupted attempt goes to review, only settled receipts are deleted.
ImplementsLifecycle == Lifecycle!Spec
=============================================================================
