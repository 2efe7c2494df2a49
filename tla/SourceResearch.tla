--------------------------- MODULE SourceResearch ---------------------------
(***************************************************************************)
(* Paid source research: the table source_research_jobs, the single        *)
(* goroutine that submits jobs to the provider and polls them, the owner's *)
(* recovery of an uncertain submission, and the browser panel that asks    *)
(* for a job under a request id of its own (backend/source_research.go,    *)
(* components/source-research-panel.tsx).                                  *)
(*                                                                         *)
(* A job has exactly one request id (a UNIQUE column) and a random id, so  *)
(* the table is a function of the request ids.  Every SQL statement is one *)
(* step, every exchange with the provider two: the call goes out, and the  *)
(* answer, if there is one, is used.  A call that the worker gave up may   *)
(* still reach the provider.                                               *)
(***************************************************************************)
EXTENDS Integers, FiniteSets

CONSTANTS
    Requests,       \* request ids the browsers draw
    Securities,     \* rows of stock_analysis
    Target,         \* the security a request asks about
    Runs,           \* ids the provider gives its runs
    Tabs,           \* browser tabs that show the panel
    Operators,      \* recovery requests the backend handles at a time
    MaxActive,      \* jobs that may be active at once (three)
    MaxRequests,    \* bound: requests ever asked
    MaxFaults,      \* bound: crashes, failed statements and polls
    Absent          \* no request, no run, no answer

ASSUME TargetAssumption == Target \in [Requests -> Securities]
ASSUME BoundAssumption == {MaxActive, MaxRequests, MaxFaults} \subseteq Nat
ASSUME AbsentAssumption == Absent \notin Requests \union Runs \union Tabs

VARIABLES
    status, runOf, overdue,             \* the table
    inTransit, owner, life,             \* the provider
    stage, todo, current, reply, outcome,   \* the worker
    recovery,                           \* recovery handlers
    asked, pending, call, strays, creator,  \* panel and create handler
    faults

table == <<status, runOf, overdue>>
provider == <<inTransit, owner, life>>
worker == <<stage, todo, current, reply, outcome>>
panel == <<asked, pending, call, strays, creator>>
vars == <<table, provider, worker, recovery, panel, faults>>

\* mutant: a submission in doubt frees its security.
ActiveForSure == {"queued", "submitting", "running"}

Active == {"queued", "submitting", "running", "uncertain"}
Settled == {"succeeded", "failed", "review"}
Stages == {"sweep", "list", "next", "send", "await", "poll", "fetch", "save"}

\* What the listing of a cycle remembers of a job.
Snapshot == [job : Requests, status : {"queued", "running"},
             run : Runs \union {Absent}]
Rejected == "rejected"
NoCall == [at |-> "none", request |-> Absent]
Calls == [at : {"sent", "stored", "refused", "error"}, request : Requests]
            \union {NoCall}
NoCreator == [request |-> Absent, tab |-> Absent]
NoRecovery == [at |-> "idle", job |-> Absent, run |-> Absent]
NoJob == [job |-> Absent, status |-> "none", run |-> Absent]
NoOutcome == [status |-> "none", run |-> Absent]
ASSUME RejectedAssumption == Rejected \notin Runs /\ Rejected # Absent

Init ==
    /\ status = [r \in Requests |-> "none"]
    /\ runOf = [r \in Requests |-> Absent]
    /\ overdue = [r \in Requests |-> FALSE]
    /\ inTransit = {}
    /\ owner = [i \in Runs |-> Absent]
    /\ life = [i \in Runs |-> "none"]
    /\ stage = "sweep" /\ todo = {} /\ current = NoJob
    /\ reply = Absent /\ outcome = NoOutcome
    /\ recovery = [h \in Operators |-> NoRecovery]
    /\ asked = {} /\ pending = [t \in Tabs |-> Absent]
    /\ call = [t \in Tabs |-> NoCall] /\ strays = {} /\ creator = NoCreator
    /\ faults = 0

Fault == faults < MaxFaults /\ faults' = faults + 1

-----------------------------------------------------------------------------
(* The panel.  The request id is kept in the session storage before the    *)
(* call and survives a reload of the page.                                 *)

\* Retrieve sources: a fresh request id.
Submit(t, r) ==
    /\ call[t].at = "none" /\ pending[t] = Absent
    /\ r \notin asked /\ Cardinality(asked) < MaxRequests
    /\ asked' = asked \union {r}
    /\ pending' = [pending EXCEPT ![t] = r]
    /\ call' = [call EXCEPT ![t] = [at |-> "sent", request |-> r]]
    /\ UNCHANGED <<table, provider, worker, recovery, strays, creator, faults>>

\* Check submission: the stored request again, not a new one.
CheckSubmission(t) ==
    /\ call[t].at = "none" /\ pending[t] # Absent
    /\ call' = [call EXCEPT ![t] = [at |-> "sent", request |-> pending[t]]]
    /\ UNCHANGED <<table, provider, worker, recovery, asked, pending, strays,
                   creator, faults>>

\* mutant: what may still be handled is taken from the panel, which may have
\* found the job meanwhile, and not from the call.
LoseCallPending(t) ==
    /\ call[t].at # "none"
    /\ call' = [call EXCEPT ![t] = NoCall]
    /\ strays' = IF call[t].at = "sent" /\ creator.tab # t
                 THEN strays \union {pending[t]} ELSE strays
    /\ creator' = IF creator.tab = t THEN [creator EXCEPT !.tab = Absent]
                                     ELSE creator
    /\ UNCHANGED <<table, provider, worker, recovery, asked, pending, faults>>

\* The page is reloaded, or the call times out: what it asked may still be
\* handled, and its answer is lost.
LoseCall(t) ==
    /\ call[t].at # "none"
    /\ call' = [call EXCEPT ![t] = NoCall]
    /\ strays' = IF call[t].at = "sent" /\ creator.tab # t
                 THEN strays \union {call[t].request} ELSE strays
    /\ creator' = IF creator.tab = t THEN [creator EXCEPT !.tab = Absent]
                                     ELSE creator
    /\ UNCHANGED <<table, provider, worker, recovery, asked, pending, faults>>

\* The answer: a job or a 4xx ends the request, a 5xx leaves it unconfirmed.
Learn(t) ==
    /\ call[t].at \in {"stored", "refused", "error"}
    /\ call' = [call EXCEPT ![t] = NoCall]
    /\ pending' = IF call[t].at = "error" THEN pending
                  ELSE [pending EXCEPT ![t] = Absent]
    /\ UNCHANGED <<table, provider, worker, recovery, asked, strays, creator, faults>>

\* The panel's poll finds the job of its request in the saved runs.
SeeJob(t) ==
    /\ pending[t] # Absent /\ status[pending[t]] # "none"
    /\ pending' = [pending EXCEPT ![t] = Absent]
    /\ UNCHANGED <<table, provider, worker, recovery, asked, call, strays,
                   creator, faults>>

-----------------------------------------------------------------------------
(* createSourceResearchJob, under researchSubmitMu.                        *)

Answer(t, at) ==
    call' = IF t = Absent THEN call ELSE [call EXCEPT ![t].at = at]

\* The handler holds the mutex and looks for a job of the same request: one
\* that exists answers the call, whatever became of it.
Lookup(r, t) ==
    /\ creator = NoCreator
    /\ \/ t # Absent /\ call[t] = [at |-> "sent", request |-> r] /\ strays' = strays
       \/ t = Absent /\ r \in strays /\ strays' = strays \ {r}
    /\ IF status[r] # "none"
       THEN Answer(t, "stored") /\ creator' = creator
       ELSE call' = call /\ creator' = [request |-> r, tab |-> t]
    /\ UNCHANGED <<table, provider, worker, recovery, asked, pending, faults>>

ActiveJobs == {r \in Requests : status[r] \in Active}

\* The unique index per security and the count in the INSERT.
Admitted(r) ==
    /\ \A q \in ActiveJobs : Target[q] # Target[r]
    /\ Cardinality(ActiveJobs) < MaxActive

Insert ==
    /\ creator # NoCreator
    /\ IF Admitted(creator.request)
       THEN /\ status' = [status EXCEPT ![creator.request] = "queued"]
            /\ Answer(creator.tab, "stored")
       ELSE status' = status /\ Answer(creator.tab, "refused")
    /\ creator' = NoCreator
    /\ UNCHANGED <<runOf, overdue, provider, worker, recovery, asked, pending,
                   strays, faults>>

\* The template, the price or the security's identity do not hold (4xx), the
\* provider key is missing or the database fails (5xx).
Refuse ==
    /\ creator # NoCreator
    /\ \E at \in {"refused", "error"} : Answer(creator.tab, at)
    /\ creator' = NoCreator
    /\ UNCHANGED <<table, provider, worker, recovery, asked, pending, strays, faults>>

-----------------------------------------------------------------------------
(* The provider.                                                           *)

Waiting(r) == stage = "await" /\ current.job = r

\* The provider takes the POST and starts a run that carries the job's id.
Accept(r, i) ==
    /\ r \in inTransit /\ life[i] = "none"
    /\ inTransit' = inTransit \ {r}
    /\ life' = [life EXCEPT ![i] = "going"]
    /\ owner' = [owner EXCEPT ![i] = r]
    /\ reply' = IF Waiting(r) THEN i ELSE reply
    /\ UNCHANGED <<table, stage, todo, current, outcome, recovery, panel, faults>>

\* The provider refuses the POST with a 4xx other than 408.
Reject(r) ==
    /\ r \in inTransit
    /\ inTransit' = inTransit \ {r}
    /\ reply' = IF Waiting(r) THEN Rejected ELSE reply
    /\ UNCHANGED <<table, owner, life, stage, todo, current, outcome, recovery,
                   panel, faults>>

\* A run completes, fails or is cancelled.
EndRun(i) ==
    /\ life[i] = "going"
    /\ \E end \in {"completed", "failed"} : life' = [life EXCEPT ![i] = end]
    /\ UNCHANGED <<table, inTransit, owner, worker, recovery, panel, faults>>

-----------------------------------------------------------------------------
(* The worker: processSourceResearch every 15 seconds, one job after the   *)
(* other in advanceResearchJob.                                            *)

\* Two minutes pass over a submission.
Age(r) ==
    /\ status[r] = "submitting" /\ ~overdue[r]
    /\ overdue' = [overdue EXCEPT ![r] = TRUE]
    /\ UNCHANGED <<status, runOf, provider, worker, recovery, panel, faults>>

\* mutant: the comparison with the age is turned around.
InterruptedEarly(r) == status[r] = "submitting" /\ ~overdue[r]

Interrupted(r) == status[r] = "submitting" /\ overdue[r]

\* mutant: an interrupted submission is tried again.
SweepRequeues ==
    /\ stage = "sweep"
    /\ status' = [r \in Requests |-> IF Interrupted(r) THEN "queued" ELSE status[r]]
    /\ stage' = "list"
    /\ UNCHANGED <<runOf, overdue, provider, todo, current, reply, outcome,
                   recovery, panel, faults>>

\* Interrupted submissions become uncertain.
Sweep ==
    /\ stage = "sweep"
    /\ status' = [r \in Requests |-> IF Interrupted(r) THEN "uncertain" ELSE status[r]]
    /\ stage' = "list"
    /\ UNCHANGED <<runOf, overdue, provider, todo, current, reply, outcome,
                   recovery, panel, faults>>

List ==
    /\ stage = "list"
    /\ todo' = {[job |-> r, status |-> status[r], run |-> runOf[r]] :
                   r \in {q \in Requests : status[q] \in {"queued", "running"}}}
    /\ stage' = "next"
    /\ UNCHANGED <<table, provider, current, reply, outcome, recovery, panel, faults>>

Sleep ==
    /\ stage = "next" /\ todo = {}
    /\ stage' = "sweep"
    /\ UNCHANGED <<table, provider, todo, current, reply, outcome, recovery,
                   panel, faults>>

\* A queued job is claimed, if it still is queued.
Claim(e) ==
    /\ stage = "next" /\ e \in todo /\ e.status = "queued"
    /\ todo' = todo \ {e}
    /\ IF status[e.job] = "queued"
       THEN /\ status' = [status EXCEPT ![e.job] = "submitting"]
            /\ overdue' = [overdue EXCEPT ![e.job] = FALSE]
            /\ current' = e /\ stage' = "send"
       ELSE UNCHANGED <<status, overdue, current, stage>>
    /\ UNCHANGED <<runOf, provider, reply, outcome, recovery, panel, faults>>

\* The POST goes out.
Send ==
    /\ stage = "send"
    /\ inTransit' = inTransit \union {current.job}
    /\ stage' = "await"
    /\ UNCHANGED <<table, owner, life, todo, current, reply, outcome, recovery,
                   panel, faults>>

\* What the worker will write of the current job: its status and, if the
\* provider has just named it, its run.
Conclude(s, i) ==
    /\ outcome' = [status |-> s, run |-> i]
    /\ reply' = Absent
    /\ stage' = "save"

\* A usable answer names the run.
Started ==
    /\ stage = "await" /\ reply \in Runs
    /\ Conclude("running", reply)
    /\ UNCHANGED <<table, provider, todo, current, recovery, panel, faults>>

Declined ==
    /\ stage = "await" /\ reply = Rejected
    /\ Conclude("failed", Absent)
    /\ UNCHANGED <<table, provider, todo, current, recovery, panel, faults>>

\* No answer in 35 seconds, a 408, a 5xx, a redirect or an answer without a
\* usable run id: nobody knows whether the provider runs the job.
Unanswered ==
    /\ stage = "await"
    /\ Conclude("uncertain", Absent)
    /\ UNCHANGED <<table, provider, todo, current, recovery, panel, faults>>

\* A running job, of which the listing gave the run, is asked for.
Resume(e) ==
    /\ stage = "next" /\ e \in todo /\ e.status = "running"
    /\ todo' = todo \ {e}
    /\ current' = e
    /\ IF e.run \in Runs THEN stage' = "poll" /\ UNCHANGED <<reply, outcome>>
                         ELSE Conclude("uncertain", Absent)
    /\ UNCHANGED <<table, provider, recovery, panel, faults>>

Poll ==
    /\ stage = "poll"
    /\ CASE life[current.run] = "failed" -> Conclude("failed", Absent)
         [] life[current.run] = "completed" -> stage' = "fetch" /\ UNCHANGED <<reply, outcome>>
         [] OTHER -> Conclude("running", Absent)
    /\ UNCHANGED <<table, provider, todo, current, recovery, panel, faults>>

\* The result is downloaded and validated.
Fetch ==
    /\ stage = "fetch"
    /\ \E s \in {"succeeded", "review"} : Conclude(s, Absent)
    /\ UNCHANGED <<table, provider, todo, current, recovery, panel, faults>>

\* The provider cannot be reached, or its answer cannot be read.
Unreachable ==
    /\ stage \in {"poll", "fetch"}
    /\ Conclude("running", Absent)
    /\ Fault
    /\ UNCHANGED <<table, provider, todo, current, recovery, panel>>

\* The conclusion is written by id alone.
Save ==
    /\ stage = "save"
    /\ status' = [status EXCEPT ![current.job] = outcome.status]
    /\ runOf' = IF outcome.run = Absent THEN runOf
                ELSE [runOf EXCEPT ![current.job] = outcome.run]
    /\ stage' = "next" /\ current' = NoJob /\ outcome' = NoOutcome
    /\ UNCHANGED <<overdue, provider, todo, reply, recovery, panel, faults>>

\* A statement fails and ends the cycle.
CycleFails ==
    /\ stage \in {"list", "next", "save"}
    /\ stage' = "sweep" /\ todo' = {} /\ current' = NoJob /\ outcome' = NoOutcome
    /\ Fault
    /\ UNCHANGED <<table, provider, reply, recovery, panel>>

-----------------------------------------------------------------------------
(* recoverSourceResearchJob: load, ask the provider, attach.               *)

RecoverLoad(h, r, i) ==
    /\ recovery[h].at = "idle"
    /\ status[r] = "uncertain"
    /\ recovery' = [recovery EXCEPT ![h] = [at |-> "verify", job |-> r, run |-> i]]
    /\ UNCHANGED <<table, provider, worker, panel, faults>>

\* mutant: the run exists, but its metadata is not compared.
VerifiedRun(i, r) == life[i] # "none"

Verified(i, r) == life[i] # "none" /\ owner[i] = r

RecoverVerify(h) ==
    /\ recovery[h].at = "verify"
    /\ IF Verified(recovery[h].run, recovery[h].job)
       THEN recovery' = [recovery EXCEPT ![h].at = "attach"]
       ELSE recovery' = [recovery EXCEPT ![h] = NoRecovery]
    /\ UNCHANGED <<table, provider, worker, panel, faults>>

\* mutant: the update is by id alone.
AttachableAny(r, i) == \A q \in Requests \ {r} : runOf[q] # i

\* The update names the status again and the unique index keeps a run to one job.
Attachable(r, i) ==
    /\ status[r] = "uncertain"
    /\ \A q \in Requests \ {r} : runOf[q] # i

RecoverAttach(h) ==
    /\ recovery[h].at = "attach"
    /\ LET r == recovery[h].job  i == recovery[h].run IN
       IF Attachable(r, i)
       THEN /\ status' = [status EXCEPT ![r] = "running"]
            /\ runOf' = [runOf EXCEPT ![r] = i]
       ELSE UNCHANGED <<status, runOf>>
    /\ recovery' = [recovery EXCEPT ![h] = NoRecovery]
    /\ UNCHANGED <<overdue, provider, worker, panel, faults>>

-----------------------------------------------------------------------------
\* The process dies and starts again: the table, the provider, the browsers
\* and the messages between them remain.
Crash ==
    /\ stage' = "sweep" /\ todo' = {} /\ current' = NoJob
    /\ reply' = Absent /\ outcome' = NoOutcome
    /\ recovery' = [h \in Operators |-> NoRecovery]
    /\ call' = IF creator.tab = Absent THEN call
               ELSE [call EXCEPT ![creator.tab].at = "error"]
    /\ creator' = NoCreator
    /\ Fault
    /\ UNCHANGED <<table, provider, asked, pending, strays>>

Panel ==
    \/ \E t \in Tabs : \/ \E r \in Requests : Submit(t, r)
                       \/ CheckSubmission(t) \/ LoseCall(t) \/ Learn(t) \/ SeeJob(t)
    \/ \E r \in Requests, t \in Tabs \union {Absent} : Lookup(r, t)
    \/ Insert \/ Refuse

Provider ==
    \/ \E r \in Requests : Reject(r) \/ (\E i \in Runs : Accept(r, i))
    \/ \E i \in Runs : EndRun(i)

Worker ==
    \/ Sweep \/ List \/ Sleep
    \/ \E e \in todo : Claim(e) \/ Resume(e)
    \/ Send \/ Started \/ Declined \/ Unanswered \/ Poll \/ Fetch \/ Save

Trouble == Unreachable \/ CycleFails \/ Crash

Recovering ==
    \E h \in Operators :
        \/ \E r \in Requests, i \in Runs : RecoverLoad(h, r, i)
        \/ RecoverVerify(h) \/ RecoverAttach(h)

Next == Panel \/ Provider \/ (\E r \in Requests : Age(r)) \/ Worker \/ Trouble \/ Recovering

Spec == Init /\ [][Next]_vars

-----------------------------------------------------------------------------
(* Properties.                                                             *)

TypeOK ==
    /\ status \in [Requests -> Active \union Settled \union {"none"}]
    /\ runOf \in [Requests -> Runs \union {Absent}]
    /\ overdue \in [Requests -> BOOLEAN]
    /\ inTransit \subseteq Requests
    /\ owner \in [Runs -> Requests \union {Absent}]
    /\ life \in [Runs -> {"none", "going", "completed", "failed"}]
    /\ stage \in Stages
    /\ todo \subseteq Snapshot
    /\ current \in Snapshot \union {NoJob}
    /\ reply \in Runs \union {Absent, Rejected}
    /\ outcome \in [status : {"running", "failed", "uncertain", "succeeded", "review"},
                     run : Runs \union {Absent}] \union {NoOutcome}
    /\ recovery \in [Operators -> [at : {"verify", "attach"}, job : Requests, run : Runs]
                                      \union {NoRecovery}]
    /\ asked \subseteq Requests
    /\ pending \in [Tabs -> Requests \union {Absent}]
    /\ call \in [Tabs -> Calls]
    /\ strays \subseteq Requests
    /\ creator \in [request : Requests, tab : Tabs \union {Absent}] \union {NoCreator}
    /\ faults \in 0 .. MaxFaults

RunsOf(r) == {i \in Runs : owner[i] = r}

\* "A lost HTTP response must not create a second paid run, even after
\* completion": however often the browser repeats a request, the process
\* dies, writes fail or a submission is recovered, the provider never runs
\* a request twice.
AtMostOnePaidRun == \A i, j \in Runs : owner[i] = owner[j] /\ owner[i] # Absent => i = j

\* A job is never credited with the run of another one.
OwnRunOnly == \A r \in Requests : runOf[r] # Absent => owner[runOf[r]] = r

\* The table never loses a run the provider is still working on: it counts
\* against the security and the limit until it has ended, so at most
\* MaxActive runs cost money at a time and at most one per security.
SpendingBounded ==
    LET going == {i \in Runs : life[i] = "going"} IN
    /\ Cardinality(going) =< MaxActive
    /\ \A i, j \in going : Target[owner[i]] = Target[owner[j]] => i = j

\* The job as its owner may count on it (PaidResearch): submitted at most
\* once, run at most once, and settled for good by what its own run came to.
PhaseOf(r) ==
    CASE status[r] = "none" -> "none"
      [] status[r] = "queued" -> "waiting"
      [] status[r] \in {"submitting", "running", "uncertain"} -> "submitted"
      [] status[r] \in {"succeeded", "review"} -> "delivered"
      [] status[r] = "failed" -> "failed"

RunOf(r) == IF RunsOf(r) = {} THEN "none" ELSE life[CHOOSE i \in RunsOf(r) : TRUE]

Promise == INSTANCE PaidResearch WITH phase <- [r \in Requests |-> PhaseOf(r)],
                                      run <- [r \in Requests |-> RunOf(r)]

\* Every step of the table, the worker, the provider and the recoveries is a
\* step of that promise or changes nothing in it.
ImplementsPromise == Promise!Spec

\* The one worker goes on (it turns over every 15 seconds and its calls time
\* out), the provider ends its runs and two minutes pass.
Fairness ==
    /\ WF_vars(Worker)
    /\ \A r \in Requests : WF_vars(Age(r))
    /\ \A i \in Runs : WF_vars(EndRun(i))

FairSpec == Spec /\ Fairness

\* A stored job does not hang: it settles, or it is shown as uncertain.
EveryJobDecided ==
    \A r \in Requests :
        status[r] \in {"queued", "submitting", "running"} ~>
            status[r] \in Settled \union {"uncertain"}
=============================================================================
