------------------------ MODULE SourceResearchProofs ------------------------
(***************************************************************************)
(* Proofs about SourceResearch, for any number of requests, securities,    *)
(* provider runs, tabs and recovery handlers, and any bound on faults.     *)
(***************************************************************************)
EXTENDS SourceResearch, FiniteSetTheorems, TLAPS

-----------------------------------------------------------------------------
(* The inductive invariant.                                                *)

\* The provider knows nothing of a request and nothing is on its way to it.
Unknown(r) == r \notin inTransit /\ \A i \in Runs : owner[i] # r

\* The provider.
ProviderOK ==
    /\ \A i \in Runs : owner[i] = Absent <=> life[i] = "none"
    /\ \A r \in inTransit : \A i \in Runs : owner[i] # r

\* What the status of a row says about the provider.
RowOK(r) ==
    /\ status[r] \in {"none", "queued"} => Unknown(r)
    /\ r \in inTransit => status[r] \in {"submitting", "uncertain"}
    /\ status[r] \in {"running", "succeeded", "review"} => runOf[r] # Absent
    /\ status[r] \in {"succeeded", "review"} => life[runOf[r]] = "completed"
    /\ status[r] = "failed" => \A i \in Runs : owner[i] = r => life[i] = "failed"

\* A job listed as running stays so until the worker has come to it.
ListedOK(e) ==
    e.status = "running" =>
        status[e.job] = "running" /\ runOf[e.job] = e.run /\ e.run # Absent

ListOK ==
    /\ stage \in {"sweep", "list"} => todo = {}
    /\ \A e \in todo : ListedOK(e) /\ e.job # current.job
    /\ \A e, f \in todo : e.job = f.job => e = f

\* What the worker is about to do to the current job.
SaveOK ==
    CASE outcome.status = "running" ->
           IF outcome.run = Absent
           THEN status[current.job] = "running"
           ELSE status[current.job] = "submitting" /\ owner[outcome.run] = current.job
      [] outcome.status = "failed" ->
           /\ outcome.run = Absent
           /\ \/ status[current.job] = "submitting" /\ Unknown(current.job)
              \/ status[current.job] = "running" /\ life[runOf[current.job]] = "failed"
      [] outcome.status = "uncertain" ->
           outcome.run = Absent /\ status[current.job] = "submitting"
      [] outcome.status \in {"succeeded", "review"} ->
           /\ outcome.run = Absent
           /\ status[current.job] = "running" /\ life[runOf[current.job]] = "completed"
      [] OTHER -> FALSE

WorkerOK ==
    /\ stage \in {"send", "await", "poll", "fetch", "save"} <=> current # NoJob
    /\ stage \in {"send", "await"} =>
           /\ status[current.job] = "submitting"
    /\ stage = "send" => Unknown(current.job) /\ reply = Absent
    /\ stage \in {"poll", "fetch"} => ListedOK(current) /\ current.status = "running"
    /\ stage = "fetch" => life[current.run] = "completed"
    /\ stage = "save" => SaveOK
    /\ reply # Absent => stage = "await"
    /\ reply \in Runs => owner[reply] = current.job
    /\ reply = Rejected => Unknown(current.job)

HandlersOK ==
    /\ \A h \in Operators : recovery[h].at = "attach" =>
           owner[recovery[h].run] = recovery[h].job
    /\ creator # NoCreator => status[creator.request] = "none"
    /\ creator.tab # Absent => call[creator.tab].at = "sent"

IInv ==
    /\ TypeOK /\ AtMostOnePaidRun /\ OwnRunOnly
    /\ ProviderOK /\ (\A r \in Requests : RowOK(r))
    /\ ListOK /\ WorkerOK /\ HandlersOK

-----------------------------------------------------------------------------
(* Types.                                                                  *)

Statuses == Active \union Settled \union {"none"}
Outcomes == [status : {"running", "failed", "uncertain", "succeeded", "review"},
             run : Runs \union {Absent}] \union {NoOutcome}
Recoveries == [at : {"verify", "attach"}, job : Requests, run : Runs] \union {NoRecovery}
Creators == [request : Requests, tab : Tabs \union {Absent}] \union {NoCreator}

\* The parts of the type invariant the actions disturb separately.
TableType == /\ status \in [Requests -> Statuses]
             /\ runOf \in [Requests -> Runs \union {Absent}]
             /\ overdue \in [Requests -> BOOLEAN]
ProviderType == /\ inTransit \subseteq Requests
                /\ owner \in [Runs -> Requests \union {Absent}]
                /\ life \in [Runs -> {"none", "going", "completed", "failed"}]
WorkerType == /\ stage \in Stages /\ todo \subseteq Snapshot
              /\ current \in Snapshot \union {NoJob}
              /\ reply \in Runs \union {Absent, Rejected}
              /\ outcome \in Outcomes
RecoveryType == recovery \in [Operators -> Recoveries]
PanelType == /\ asked \subseteq Requests /\ pending \in [Tabs -> Requests \union {Absent}]
             /\ call \in [Tabs -> Calls] /\ strays \subseteq Requests
             /\ creator \in Creators

LEMMA TypeParts ==
    TypeOK <=> /\ TableType /\ ProviderType /\ WorkerType /\ RecoveryType /\ PanelType
               /\ faults \in 0 .. MaxFaults
BY DEF TypeOK, TableType, ProviderType, WorkerType, RecoveryType, PanelType, Statuses,
       Outcomes, Recoveries, Creators

LEMMA TypePartsNext ==
    TableType' /\ ProviderType' /\ WorkerType' /\ RecoveryType' /\ PanelType'
    /\ faults' \in 0 .. MaxFaults => TypeOK'
BY DEF TypeOK, TableType, ProviderType, WorkerType, RecoveryType, PanelType, Statuses,
       Outcomes, Recoveries, Creators

LEMMA FaultType == ASSUME faults \in 0 .. MaxFaults, Fault PROVE faults' \in 0 .. MaxFaults
BY BoundAssumption DEF Fault

\* An answer to a call keeps the calls' type.
LEMMA AnswerType ==
    ASSUME PanelType, NEW t \in Tabs \union {Absent},
           NEW at \in {"stored", "refused", "error"}, Answer(t, at),
           t # Absent => call[t] # NoCall
    PROVE  call' \in [Tabs -> Calls]
<1>1. CASE t = Absent
  BY <1>1 DEF PanelType, Answer
<1>2. CASE t # Absent
  <2>1. t \in Tabs /\ call[t] \in Calls /\ call[t] # NoCall
    BY <1>2 DEF PanelType
  <2>2. PICK c \in Calls : c = call[t]
    BY <2>1
  <2>3. [c EXCEPT !.at = at] \in Calls
    <3>1. c.request \in Requests /\ [c EXCEPT !.at = at] = [at |-> at, request |-> c.request]
      BY <2>1, <2>2 DEF Calls
    <3>. QED
      BY <3>1 DEF Calls
  <2>4. call' = [call EXCEPT ![t] = [call[t] EXCEPT !.at = at]]
    BY <1>2 DEF Answer
  <2>. QED
    BY <2>1, <2>2, <2>3, <2>4 DEF PanelType
<1>. QED
  BY <1>1, <1>2

LEMMA PanelTypeStep == ASSUME TypeOK, HandlersOK, Panel PROVE PanelType'
<1>. USE TypeParts
<1>1. ASSUME NEW t \in Tabs, NEW r \in Requests, Submit(t, r) PROVE PanelType'
  BY <1>1 DEF Submit, PanelType, Calls
<1>2. ASSUME NEW t \in Tabs, CheckSubmission(t) PROVE PanelType'
  BY <1>2 DEF CheckSubmission, PanelType, Calls
<1>3. ASSUME NEW t \in Tabs, LoseCall(t) PROVE PanelType'
  <2>1. call' \in [Tabs -> Calls]
    BY <1>3 DEF LoseCall, PanelType, Calls, NoCall
  <2>2. strays' \subseteq Requests
    <3>1. call[t].at = "sent" => call[t] \in Calls /\ call[t] # NoCall
      BY DEF PanelType, NoCall
    <3>2. call[t].at = "sent" => call[t].request \in Requests
      BY <3>1 DEF Calls
    <3>. QED
      BY <1>3, <3>2 DEF LoseCall, PanelType
  <2>3. creator' \in Creators
    <3>1. CASE creator.tab = t
      <4>1. creator \in [request : Requests, tab : Tabs \union {Absent}]
        BY <1>3, <3>1, AbsentAssumption DEF PanelType, Creators, NoCreator
      <4>2. creator' = [creator EXCEPT !.tab = Absent]
        BY <1>3, <3>1 DEF LoseCall
      <4>. QED  BY <4>1, <4>2 DEF Creators
    <3>2. CASE creator.tab # t
      BY <1>3, <3>2 DEF LoseCall, PanelType
    <3>. QED  BY <3>1, <3>2
  <2>. QED  BY <1>3, <2>1, <2>2, <2>3 DEF LoseCall, PanelType
<1>4. ASSUME NEW t \in Tabs, Learn(t) PROVE PanelType'
  <2>1. call' \in [Tabs -> Calls]
    BY <1>4 DEF Learn, PanelType, Calls, NoCall
  <2>. QED  BY <1>4, <2>1 DEF Learn, PanelType
<1>5. ASSUME NEW t \in Tabs, SeeJob(t) PROVE PanelType'
  BY <1>5 DEF SeeJob, PanelType
<1>6. ASSUME NEW r \in Requests, NEW t \in Tabs \union {Absent}, Lookup(r, t)
      PROVE  PanelType'
  <2>1. strays' \subseteq Requests /\ asked' = asked /\ pending' = pending
        /\ (t # Absent => call[t] # NoCall)
    BY <1>6 DEF Lookup, PanelType, NoCall
  <2>2. CASE status[r] # "none"
    BY <1>6, <2>1, <2>2, AnswerType DEF Lookup, PanelType
  <2>3. CASE status[r] = "none"
    BY <1>6, <2>1, <2>3 DEF Lookup, PanelType, Creators
  <2>. QED  BY <2>2, <2>3
<1>7. ASSUME Insert PROVE PanelType'
  <2>1. creator \in [request : Requests, tab : Tabs \union {Absent}]
    BY <1>7 DEF Insert, PanelType, Creators
  <2>2. creator.tab # Absent => call[creator.tab] # NoCall
    BY DEF HandlersOK, NoCall
  <2>3. call' \in [Tabs -> Calls]
    BY <1>7, <2>1, <2>2, AnswerType DEF Insert
  <2>. QED  BY <1>7, <2>3 DEF Insert, PanelType, Creators
<1>8. ASSUME Refuse PROVE PanelType'
  <2>1. creator \in [request : Requests, tab : Tabs \union {Absent}]
    BY <1>8 DEF Refuse, PanelType, Creators
  <2>2. creator.tab # Absent => call[creator.tab] # NoCall
    BY DEF HandlersOK, NoCall
  <2>3. call' \in [Tabs -> Calls]
    BY <1>8, <2>1, <2>2, AnswerType DEF Refuse
  <2>. QED  BY <1>8, <2>3 DEF Refuse, PanelType, Creators
<1>. QED
  BY <1>1, <1>2, <1>3, <1>4, <1>5, <1>6, <1>7, <1>8 DEF Panel


LEMMA ProviderTypeStep == ASSUME TypeOK, Provider PROVE ProviderType' /\ WorkerType'
<1>. USE TypeParts
<1>1. ASSUME NEW r \in Requests, Reject(r) PROVE ProviderType' /\ WorkerType'
  BY <1>1 DEF Reject, ProviderType, WorkerType
<1>2. ASSUME NEW r \in Requests, NEW i \in Runs, Accept(r, i)
      PROVE  ProviderType' /\ WorkerType'
  BY <1>2 DEF Accept, ProviderType, WorkerType
<1>3. ASSUME NEW i \in Runs, EndRun(i) PROVE ProviderType' /\ WorkerType'
  BY <1>3 DEF EndRun, ProviderType, WorkerType, worker
<1>. QED
  BY <1>1, <1>2, <1>3 DEF Provider

LEMMA ConcludeType ==
    ASSUME WorkerType, NEW i \in Runs \union {Absent},
           NEW s \in {"running", "failed", "uncertain", "succeeded", "review"},
           Conclude(s, i)
    PROVE  outcome' \in Outcomes /\ reply' \in Runs \union {Absent, Rejected}
           /\ stage' \in Stages
BY DEF Conclude, Outcomes, Stages

LEMMA WorkerTypeStep ==
    ASSUME TypeOK, WorkerOK, Worker PROVE TableType' /\ ProviderType' /\ WorkerType'
<1>. USE TypeParts
<1>1. CASE Sweep
  BY <1>1 DEF Sweep, TableType, ProviderType, provider, WorkerType, Stages, Statuses, Active
<1>2. CASE List
  <2>1. todo' \subseteq Snapshot
    BY <1>2 DEF List, Snapshot, TableType
  <2>. QED
    BY <1>2, <2>1 DEF List, TableType, table, ProviderType, provider, WorkerType, Stages
<1>3. CASE Sleep
  BY <1>3 DEF Sleep, TableType, table, ProviderType, provider, WorkerType, Stages
<1>4. ASSUME NEW e \in todo, Claim(e) PROVE TableType' /\ ProviderType' /\ WorkerType'
  <2>1. e \in Snapshot /\ e.job \in Requests
    BY <1>4 DEF WorkerType, Snapshot
  <2>2. TableType'
    BY <1>4, <2>1 DEF Claim, TableType, Statuses, Active
  <2>. QED
    BY <1>4, <2>1, <2>2 DEF Claim, ProviderType, provider, WorkerType, Stages
<1>5. ASSUME NEW e \in todo, Resume(e) PROVE TableType' /\ ProviderType' /\ WorkerType'
  <2>1. e \in Snapshot
    BY <1>5 DEF WorkerType
  <2>2. outcome' \in Outcomes /\ reply' \in Runs \union {Absent, Rejected} /\ stage' \in Stages
    <3>1. CASE e.run \in Runs
      BY <1>5, <3>1 DEF Resume, WorkerType, Stages
    <3>2. CASE e.run \notin Runs
      BY <1>5, <3>2, ConcludeType DEF Resume
    <3>. QED  BY <3>1, <3>2
  <2>. QED
    BY <1>5, <2>1, <2>2 DEF Resume, TableType, table, ProviderType, provider, WorkerType
<1>6. CASE Send
  <2>1. current.job \in Requests
    BY <1>6 DEF WorkerType, WorkerOK, Send, Snapshot
  <2>. QED
    BY <1>6, <2>1 DEF Send, TableType, table, ProviderType, WorkerType, Stages
<1>7. CASE Started
  BY <1>7, ConcludeType DEF Started, TableType, table, ProviderType, provider, WorkerType
<1>8. CASE Declined
  BY <1>8, ConcludeType DEF Declined, TableType, table, ProviderType, provider, WorkerType
<1>9. CASE Unanswered
  BY <1>9, ConcludeType DEF Unanswered, TableType, table, ProviderType, provider, WorkerType
<1>10. CASE Poll
  BY <1>10, ConcludeType DEF Poll, TableType, table, ProviderType, provider, WorkerType, Stages
<1>11. CASE Fetch
  BY <1>11, ConcludeType DEF Fetch, TableType, table, ProviderType, provider, WorkerType
<1>12. CASE Save
  <2>1. current.job \in Requests
    BY <1>12 DEF WorkerType, WorkerOK, Save, Snapshot
  <2>2. outcome.status \in Statuses /\ outcome.run \in Runs \union {Absent}
    <3>1. outcome # NoOutcome
      BY <1>12 DEF WorkerOK, SaveOK, Save, NoOutcome
    <3>. QED
      BY <3>1 DEF WorkerType, Outcomes, Statuses, Active, Settled
  <2>3. TableType'
    BY <1>12, <2>1, <2>2 DEF Save, TableType
  <2>. QED
    BY <1>12, <2>3 DEF Save, ProviderType, provider, WorkerType, Stages, Outcomes
<1>. QED
  BY <1>1, <1>2, <1>3, <1>4, <1>5, <1>6, <1>7, <1>8, <1>9, <1>10, <1>11, <1>12 DEF Worker


LEMMA RecoveringTypeStep == ASSUME TypeOK, Recovering PROVE TableType' /\ RecoveryType'
<1>. USE TypeParts
<1>1. ASSUME NEW h \in Operators, NEW r \in Requests, NEW i \in Runs, RecoverLoad(h, r, i)
      PROVE  TableType' /\ RecoveryType'
  BY <1>1 DEF RecoverLoad, TableType, table, RecoveryType, Recoveries
<1>2. ASSUME NEW h \in Operators, RecoverVerify(h) PROVE TableType' /\ RecoveryType'
  <2>1. recovery[h] \in [at : {"verify", "attach"}, job : Requests, run : Runs]
    BY <1>2 DEF RecoverVerify, RecoveryType, Recoveries, NoRecovery
  <2>2. [recovery[h] EXCEPT !.at = "attach"] \in Recoveries
    BY <2>1 DEF Recoveries
  <2>3. recovery' = [recovery EXCEPT ![h] = [recovery[h] EXCEPT !.at = "attach"]]
        \/ recovery' = [recovery EXCEPT ![h] = NoRecovery]
    BY <1>2 DEF RecoverVerify
  <2>4. RecoveryType'
    BY <2>2, <2>3 DEF RecoveryType, Recoveries
  <2>. QED
    BY <1>2, <2>4 DEF RecoverVerify, TableType, table
<1>3. ASSUME NEW h \in Operators, RecoverAttach(h) PROVE TableType' /\ RecoveryType'
  <2>1. recovery[h].job \in Requests /\ recovery[h].run \in Runs
    BY <1>3 DEF RecoverAttach, RecoveryType, Recoveries, NoRecovery
  <2>2. TableType'
    BY <1>3, <2>1 DEF RecoverAttach, TableType, Statuses, Active
  <2>. QED
    BY <1>3, <2>2 DEF RecoverAttach, RecoveryType, Recoveries
<1>. QED
  BY <1>1, <1>2, <1>3 DEF Recovering

\* What a crash leaves in the calls of the browsers.
LEMMA CrashPanelType == ASSUME TypeOK, HandlersOK, Crash PROVE PanelType'
<1>. USE TypeParts
<1>1. call' \in [Tabs -> Calls]
  <2>1. CASE creator.tab = Absent
    BY <2>1 DEF Crash, PanelType
  <2>2. CASE creator.tab # Absent
    <3>1. creator.tab \in Tabs
      BY <2>2 DEF PanelType, Creators, NoCreator
    <3>2. PICK t \in Tabs : t = creator.tab
      BY <3>1
    <3>3. call[t] \in Calls /\ call[t] # NoCall
      BY <2>2, <3>2 DEF PanelType, HandlersOK, NoCall
    <3>5. call[t].request \in Requests /\ DOMAIN call[t] = {"at", "request"}
      BY <3>3 DEF Calls
    <3>6. [call[t] EXCEPT !.at = "error"] \in Calls
      BY <3>3, <3>5 DEF Calls
    <3>4. call' = [call EXCEPT ![t] = [call[t] EXCEPT !.at = "error"]]
      BY <2>2, <3>2 DEF Crash
    <3>. QED
      BY <3>6, <3>4 DEF PanelType
  <2>. QED  BY <2>1, <2>2
<1>. QED
  BY <1>1 DEF Crash, PanelType, Creators

LEMMA TypeStep == ASSUME TypeOK, WorkerOK, HandlersOK, [Next]_vars PROVE TypeOK'
<1>. USE TypeParts, TypePartsNext
<1>1. CASE Panel
  <2>1. TableType'
    <3>1. ASSUME Insert PROVE TableType'
      <4>1. creator.request \in Requests
        BY <3>1 DEF Insert, PanelType, Creators
      <4>. QED
        BY <3>1, <4>1 DEF Insert, TableType, Statuses, Active
    <3>. QED
      BY <1>1, <3>1 DEF Panel, Submit, CheckSubmission, LoseCall, Learn, SeeJob, Lookup,
                        Refuse, TableType, table
  <2>2. UNCHANGED <<provider, worker, recovery, faults>>
    BY <1>1 DEF Panel, Submit, CheckSubmission, LoseCall, Learn, SeeJob, Lookup, Insert, Refuse
  <2>. QED
    BY <1>1, <2>1, <2>2, PanelTypeStep DEF ProviderType, provider, WorkerType, worker,
       RecoveryType
<1>2. CASE Provider
  <2>1. UNCHANGED <<table, recovery, panel, faults>>
    BY <1>2 DEF Provider, Reject, Accept, EndRun
  <2>. QED
    BY <1>2, <2>1, ProviderTypeStep DEF TableType, table, RecoveryType, PanelType, panel
<1>3. ASSUME NEW r \in Requests, Age(r) PROVE TypeOK'
  BY <1>3 DEF Age, TableType, ProviderType, provider, WorkerType, worker, RecoveryType,
     PanelType, panel
<1>4. CASE Worker
  <2>1. UNCHANGED <<recovery, panel, faults>>
    BY <1>4 DEF Worker, Sweep, List, Sleep, Claim, Resume, Send, Started, Declined,
       Unanswered, Poll, Fetch, Save
  <2>. QED
    BY <1>4, <2>1, WorkerTypeStep DEF RecoveryType, PanelType, panel
<1>5. CASE Unreachable
  BY <1>5, ConcludeType, FaultType DEF Unreachable, TableType, table, ProviderType, provider,
     WorkerType, RecoveryType, PanelType, panel
<1>6. CASE CycleFails
  BY <1>6, FaultType DEF CycleFails, TableType, table, ProviderType, provider,
     WorkerType, Stages, Outcomes, RecoveryType, PanelType, panel
<1>7. CASE Crash
  BY <1>7, FaultType, CrashPanelType DEF Crash, TableType, table, ProviderType, provider,
     WorkerType, Stages, Outcomes, RecoveryType, Recoveries
<1>8. CASE Recovering
  <2>1. UNCHANGED <<provider, worker, panel, faults>>
    BY <1>8 DEF Recovering, RecoverLoad, RecoverVerify, RecoverAttach
  <2>. QED
    BY <1>8, <2>1, RecoveringTypeStep DEF ProviderType, provider, WorkerType, worker,
       PanelType, panel
<1>9. CASE UNCHANGED vars
  BY <1>9 DEF vars, TableType, table, ProviderType, provider, WorkerType, worker,
     RecoveryType, PanelType, panel
<1>. QED
  BY <1>1, <1>2, <1>3, <1>4, <1>5, <1>6, <1>7, <1>8, <1>9 DEF Next, Trouble


-----------------------------------------------------------------------------
(* The invariant, step by step.                                            *)

\* What the invariant says of the provider and the table, and of the worker.
Settling == AtMostOnePaidRun /\ OwnRunOnly /\ ProviderOK /\ \A r \in Requests : RowOK(r)
Working == ListOK /\ WorkerOK

LEMMA IInvParts == IInv <=> TypeOK /\ Settling /\ Working /\ HandlersOK
BY DEF IInv, Settling, Working

LEMMA IInvPartsNext == TypeOK' /\ Settling' /\ Working' /\ HandlersOK' => IInv'
BY DEF IInv, Settling, Working

LEMMA SettlingFrame ==
    ASSUME Settling, UNCHANGED <<status, runOf, provider>> PROVE Settling'
BY DEF Settling, AtMostOnePaidRun, OwnRunOnly, ProviderOK, RowOK, Unknown, provider

LEMMA WorkingFrame ==
    ASSUME Working, UNCHANGED <<status, runOf, provider, worker>> PROVE Working'
BY DEF Working, ListOK, ListedOK, WorkerOK, SaveOK, Unknown, provider, worker

\* The handlers' part holds on while nobody takes a run from its job.
LEMMA HandlersFrame ==
    ASSUME TypeOK, HandlersOK, UNCHANGED <<recovery, panel>>,
           \A i \in Runs : owner[i] # Absent => owner'[i] = owner[i],
           \A r \in Requests : status[r] = "none" => status'[r] = "none"
    PROVE  HandlersOK'
<1>1. ASSUME NEW h \in Operators, recovery[h].at = "attach"
      PROVE  owner'[recovery[h].run] = recovery[h].job
  <2>1. recovery[h] \in Recoveries /\ recovery[h] # NoRecovery
    BY <1>1 DEF TypeOK, Recoveries, NoRecovery
  <2>2. recovery[h].run \in Runs /\ recovery[h].job \in Requests
    BY <2>1 DEF Recoveries
  <2>3. owner[recovery[h].run] = recovery[h].job
    BY <1>1 DEF HandlersOK
  <2>. QED  BY <2>2, <2>3, AbsentAssumption
<1>2. creator # NoCreator => creator.request \in Requests
  BY DEF TypeOK, NoCreator
<1>. QED
  BY <1>1, <1>2 DEF HandlersOK, panel

LEMMA InsertStep == ASSUME IInv, Insert PROVE Settling' /\ Working'
<1>. DEFINE r == creator.request
<1>1. r \in Requests /\ status[r] = "none" /\ status \in [Requests -> Statuses]
  BY DEF Insert, IInv, TypeOK, HandlersOK, NoCreator, Statuses
<1>2. status' = status \/ status' = [status EXCEPT ![r] = "queued"]
  BY DEF Insert
<1>3. UNCHANGED <<runOf, provider, worker>>
  BY DEF Insert
<1>4. CASE status' = status
  BY <1>3, <1>4, IInvParts, SettlingFrame, WorkingFrame
<1>5. CASE status' = [status EXCEPT ![r] = "queued"]
  <2>1. \A q \in Requests : status'[q] = (IF q = r THEN "queued" ELSE status[q])
    BY <1>1, <1>5
  <2>2. AtMostOnePaidRun' /\ OwnRunOnly' /\ ProviderOK'
    BY <1>3 DEF IInv, AtMostOnePaidRun, OwnRunOnly, ProviderOK, provider
  <2>3. \A q \in Requests : RowOK(q)'
    BY <1>1, <1>3, <2>1 DEF IInv, RowOK, Unknown, provider
  <2>4. ListOK'
    <3>1. \A e \in todo : e.job \in Requests
      BY DEF IInv, TypeOK, Snapshot
    <3>. QED
      BY <1>1, <1>3, <2>1, <3>1 DEF IInv, ListOK, ListedOK, worker
  <2>5. WorkerOK'
    <3>1. current # NoJob => current.job \in Requests
      BY DEF IInv, TypeOK, Snapshot
    <3>2. current # NoJob /\ stage # "save" => status[current.job] \in {"submitting", "running"}
      BY DEF IInv, WorkerOK, ListedOK, TypeOK, Stages
    <3>3. stage = "save" => current # NoJob /\ status[current.job] \in {"submitting", "running"}
      BY DEF IInv, WorkerOK, SaveOK
    <3>4. current # NoJob => status'[current.job] = status[current.job]
      BY <1>1, <2>1, <3>1, <3>2, <3>3
    <3>5. UNCHANGED <<runOf, inTransit, owner, life, stage, current, reply, outcome>>
      BY <1>3 DEF provider, worker
    <3>6. stage = "save" => SaveOK'
      BY <3>3, <3>4, <3>5 DEF IInv, WorkerOK, SaveOK, Unknown
    <3>. QED
      BY <3>4, <3>5, <3>6 DEF IInv, WorkerOK, ListedOK, Unknown
  <2>. QED
    BY <2>2, <2>3, <2>4, <2>5 DEF Settling, Working
<1>. QED
  BY <1>2, <1>4, <1>5

LEMMA AcceptStep ==
    ASSUME IInv, NEW r \in Requests, NEW i \in Runs, Accept(r, i)
    PROVE  Settling' /\ Working' /\ HandlersOK'
<1>1. /\ r \in inTransit /\ life[i] = "none" /\ owner[i] = Absent /\ i # Absent
      /\ status[r] \in {"submitting", "uncertain"}
      /\ \A j \in Runs : owner[j] # r
  BY AbsentAssumption DEF Accept, IInv, ProviderOK, RowOK
<1>2. /\ inTransit' = inTransit \ {r}
      /\ \A j \in Runs : life'[j] = (IF j = i THEN "going" ELSE life[j])
      /\ \A j \in Runs : owner'[j] = (IF j = i THEN r ELSE owner[j])
      /\ UNCHANGED <<status, runOf, stage, todo, current, outcome, recovery, panel>>
  BY DEF Accept, IInv, TypeOK, table
<1>3. r # Absent
  BY AbsentAssumption
<1>4. AtMostOnePaidRun'
  BY <1>1, <1>2 DEF IInv, AtMostOnePaidRun
<1>5. \A q \in Requests : runOf[q] # Absent => runOf[q] \in Runs /\ runOf[q] # i
  BY <1>1, AbsentAssumption DEF IInv, TypeOK, OwnRunOnly
<1>6. OwnRunOnly'
  BY <1>2, <1>5 DEF IInv, OwnRunOnly
<1>7. ProviderOK'
  BY <1>1, <1>2, <1>3 DEF IInv, ProviderOK
<1>8. \A q \in Requests : RowOK(q)'
  BY <1>1, <1>2, <1>5 DEF IInv, RowOK, Unknown
<1>9. ListOK'
  BY <1>2 DEF IInv, ListOK, ListedOK
<1>10. WorkerOK'
  <2>1. current # NoJob => current.job \in Requests
    BY DEF IInv, TypeOK, Snapshot
  <2>2. reply' = IF Waiting(r) THEN i ELSE reply
    BY DEF Accept
  <2>3. Unknown(current.job) => Unknown(current.job)'
    BY <1>1, <1>2 DEF Unknown
  <2>4. stage = "save" => SaveOK'
    <3>1. stage = "save" => SaveOK /\ current.job \in Requests /\ outcome.run \in Runs \union {Absent}
      BY <2>1 DEF IInv, WorkerOK, TypeOK, NoOutcome
    <3>2. stage = "save" /\ outcome.run # Absent => owner[outcome.run] # Absent
      BY <3>1, AbsentAssumption DEF SaveOK
    <3>3. stage = "save" /\ status[current.job] = "running" =>
              runOf[current.job] \in Runs /\ runOf[current.job] # i
      BY <1>5, <3>1 DEF IInv, RowOK
    <3>. QED
      BY <1>1, <1>2, <2>3, <3>1, <3>2, <3>3 DEF SaveOK
  <2>5. stage = "fetch" => life'[current.run] = "completed"
    <3>1. stage = "fetch" => current.run \in Runs
      BY DEF IInv, WorkerOK, ListedOK, TypeOK, Snapshot, NoJob
    <3>. QED
      BY <1>1, <1>2, <3>1 DEF IInv, WorkerOK
  <2>6. reply' # Absent => stage' = "await"
    BY <1>2, <2>2 DEF Waiting, IInv, WorkerOK
  <2>7. reply' \in Runs => owner'[reply'] = current'.job
    <3>1. CASE Waiting(r)
      BY <1>2, <2>2, <3>1 DEF Waiting
    <3>2. CASE ~Waiting(r)
      <4>1. reply \in Runs => current # NoJob /\ owner[reply] = current.job
        BY AbsentAssumption DEF IInv, WorkerOK
      <4>. QED
        BY <1>1, <1>2, <2>1, <2>2, <3>2, <4>1, AbsentAssumption
    <3>. QED  BY <3>1, <3>2
  <2>8. reply' = Rejected => Unknown(current.job)'
    BY <1>2, <2>2, <2>3, RejectedAssumption DEF IInv, WorkerOK
  <2>9. stage = "send" => Unknown(current.job)' /\ reply' = Absent
    BY <2>2, <2>3 DEF IInv, WorkerOK, Waiting
  <2>10. stage \in {"poll", "fetch"} => ListedOK(current)'
    BY <1>2 DEF IInv, WorkerOK, ListedOK
  <2>. QED
    BY <1>2, <2>4, <2>5, <2>6, <2>7, <2>8, <2>9, <2>10 DEF IInv, WorkerOK
<1>11. HandlersOK'
  BY <1>1, <1>2, HandlersFrame DEF IInv
<1>. QED
  BY <1>4, <1>6, <1>7, <1>8, <1>9, <1>10, <1>11 DEF Settling, Working


LEMMA RejectStep ==
    ASSUME IInv, NEW r \in Requests, Reject(r) PROVE Settling' /\ Working' /\ HandlersOK'
<1>1. /\ r \in inTransit /\ status[r] \in {"submitting", "uncertain"}
      /\ \A j \in Runs : owner[j] # r
  BY DEF Reject, IInv, ProviderOK, RowOK
<1>2. /\ inTransit' = inTransit \ {r}
      /\ UNCHANGED <<status, runOf, owner, life, stage, todo, current, outcome, recovery, panel>>
      /\ reply' = IF Waiting(r) THEN Rejected ELSE reply
  BY DEF Reject, table
<1>3. Settling'
  BY <1>1, <1>2 DEF IInv, Settling, AtMostOnePaidRun, OwnRunOnly, ProviderOK, RowOK, Unknown
<1>4. ListOK'
  BY <1>2 DEF IInv, ListOK, ListedOK
<1>5. Unknown(current.job) => Unknown(current.job)'
  BY <1>2 DEF Unknown
<1>6. stage = "save" => SaveOK'
  BY <1>2, <1>5 DEF IInv, WorkerOK, SaveOK
<1>7. reply' = Rejected => Unknown(current.job)'
  BY <1>1, <1>2, <1>5 DEF Waiting, Unknown, IInv, WorkerOK
<1>8. WorkerOK'
  BY <1>2, <1>5, <1>6, <1>7, RejectedAssumption DEF IInv, WorkerOK, Waiting, ListedOK
<1>9. HandlersOK'
  BY <1>2, HandlersFrame DEF IInv
<1>. QED
  BY <1>3, <1>4, <1>8, <1>9 DEF Working

LEMMA EndRunStep ==
    ASSUME IInv, NEW i \in Runs, EndRun(i) PROVE Settling' /\ Working' /\ HandlersOK'
<1>1. /\ life[i] = "going"
      /\ UNCHANGED <<status, runOf, overdue, inTransit, owner, worker, recovery, panel>>
      /\ \A j \in Runs : j # i => life'[j] = life[j]
      /\ life'[i] \in {"completed", "failed"}
  BY DEF EndRun, IInv, TypeOK, table
<1>2. \A q \in Requests : status[q] \in {"running", "succeeded", "review"} =>
          runOf[q] \in Runs
  BY DEF IInv, TypeOK, RowOK
<1>3. Settling'
  <2>1. AtMostOnePaidRun' /\ OwnRunOnly' /\ ProviderOK'
    BY <1>1 DEF IInv, AtMostOnePaidRun, OwnRunOnly, ProviderOK
  <2>2. \A q \in Requests : RowOK(q)'
    BY <1>1, <1>2 DEF IInv, RowOK, Unknown
  <2>. QED  BY <2>1, <2>2 DEF Settling
<1>4. ListOK'
  BY <1>1 DEF IInv, ListOK, ListedOK, worker
<1>5. current # NoJob => current.job \in Requests
  BY DEF IInv, TypeOK, Snapshot
<1>6. stage = "save" => SaveOK'
  BY <1>1, <1>2, <1>5 DEF IInv, WorkerOK, SaveOK, Unknown, worker
<1>7. stage = "fetch" => life'[current.run] = "completed"
  <2>1. stage = "fetch" => current.run \in Runs
    BY DEF IInv, WorkerOK, ListedOK, TypeOK, Snapshot, NoJob
  <2>. QED  BY <1>1, <2>1 DEF IInv, WorkerOK
<1>8. WorkerOK'
  BY <1>1, <1>6, <1>7 DEF IInv, WorkerOK, ListedOK, Unknown, worker
<1>9. HandlersOK'
  BY <1>1, HandlersFrame DEF IInv
<1>. QED
  BY <1>3, <1>4, <1>8, <1>9 DEF Working

LEMMA SweepStep == ASSUME IInv, Sweep PROVE Settling' /\ Working' /\ HandlersOK'
<1>1. /\ \A q \in Requests : status'[q] =
             (IF status[q] = "submitting" /\ overdue[q] THEN "uncertain" ELSE status[q])
      /\ UNCHANGED <<runOf, inTransit, owner, life, todo, current, reply, outcome,
                     recovery, panel>>
      /\ stage = "sweep" /\ stage' = "list"
  BY DEF Sweep, Interrupted, provider
<1>2. Settling'
  BY <1>1 DEF IInv, Settling, AtMostOnePaidRun, OwnRunOnly, ProviderOK, RowOK, Unknown
<1>3. current = NoJob /\ reply = Absent /\ todo = {}
  BY <1>1 DEF IInv, WorkerOK, ListOK
<1>4. Working'
  BY <1>1, <1>3, RejectedAssumption, AbsentAssumption DEF Working, ListOK, WorkerOK
<1>5. HandlersOK'
  BY <1>1, HandlersFrame DEF IInv
<1>. QED
  BY <1>2, <1>4, <1>5

LEMMA ListStep == ASSUME IInv, List PROVE Settling' /\ Working' /\ HandlersOK'
<1>1. UNCHANGED <<status, runOf, provider, owner, current, reply, outcome, recovery, panel>>
      /\ stage = "list" /\ stage' = "next"
  BY DEF List, table, provider
<1>2. current = NoJob /\ reply = Absent
  BY <1>1 DEF IInv, WorkerOK
<1>3. ListOK'
  <2>1. ASSUME NEW e \in todo'
        PROVE  /\ e.job \in Requests /\ e.status = status[e.job] /\ e.run = runOf[e.job]
               /\ e = [job |-> e.job, status |-> status[e.job], run |-> runOf[e.job]]
               /\ e.status \in {"queued", "running"}
    BY DEF List
  <2>2. \A e \in todo' : ListedOK(e)'
    BY <1>1, <2>1 DEF ListedOK, IInv, RowOK
  <2>3. \A e \in todo' : e.job # current'.job
    BY <1>1, <1>2, <2>1, AbsentAssumption DEF NoJob
  <2>. QED
    BY <1>1, <2>1, <2>2, <2>3 DEF ListOK
<1>4. WorkerOK'
  BY <1>1, <1>2, RejectedAssumption, AbsentAssumption DEF WorkerOK
<1>. QED
  BY <1>1, <1>3, <1>4, SettlingFrame, HandlersFrame DEF IInv, Settling, Working

LEMMA SleepStep == ASSUME IInv, Sleep PROVE Settling' /\ Working' /\ HandlersOK'
<1>1. UNCHANGED <<status, runOf, provider, owner, todo, current, reply, outcome, recovery, panel>>
      /\ stage = "next" /\ stage' = "sweep" /\ todo = {}
  BY DEF Sleep, table, provider
<1>2. Working'
  BY <1>1, RejectedAssumption, AbsentAssumption DEF IInv, Working, ListOK, WorkerOK
<1>. QED
  BY <1>1, <1>2, SettlingFrame, HandlersFrame DEF IInv, Settling

LEMMA ClaimStep ==
    ASSUME IInv, NEW e \in todo, Claim(e) PROVE Settling' /\ Working' /\ HandlersOK'
<1>1. e \in Snapshot /\ e.job \in Requests /\ e # NoJob
  BY AbsentAssumption DEF IInv, TypeOK, Snapshot, NoJob
<1>2. /\ stage = "next" /\ todo' = todo \ {e} /\ e.status = "queued"
      /\ UNCHANGED <<runOf, inTransit, owner, life, reply, outcome, recovery, panel>>
      /\ current = NoJob /\ reply = Absent
  BY DEF Claim, IInv, WorkerOK, provider
<1>3. \A f \in todo : f.job \in Requests
  BY DEF IInv, TypeOK, Snapshot
<1>4. CASE status[e.job] = "queued"
  <2>1. /\ \A q \in Requests : status'[q] = (IF q = e.job THEN "submitting" ELSE status[q])
        /\ current' = e /\ stage' = "send"
    BY <1>1, <1>4 DEF Claim, IInv, TypeOK
  <2>2. AtMostOnePaidRun' /\ OwnRunOnly' /\ ProviderOK'
    BY <1>2 DEF IInv, AtMostOnePaidRun, OwnRunOnly, ProviderOK
  <2>3. \A q \in Requests : RowOK(q)'
    BY <1>1, <1>2, <1>4, <2>1 DEF IInv, RowOK, Unknown
  <2>4. ListOK'
    BY <1>1, <1>2, <1>3, <1>4, <2>1 DEF IInv, ListOK, ListedOK
  <2>5. Unknown(e.job)'
    BY <1>1, <1>2, <1>4 DEF IInv, RowOK, Unknown
  <2>6. WorkerOK'
    BY <1>1, <1>2, <2>1, <2>5, AbsentAssumption, RejectedAssumption DEF WorkerOK
  <2>7. HandlersOK'
    BY <1>2, <1>4, <2>1, HandlersFrame DEF IInv
  <2>. QED  BY <2>2, <2>3, <2>4, <2>6, <2>7 DEF Settling, Working
<1>5. CASE status[e.job] # "queued"
  <2>1. UNCHANGED <<status, current, stage, provider>>
    BY <1>5, <1>2 DEF Claim, provider
  <2>2. Working'
    BY <1>2, <2>1, AbsentAssumption, RejectedAssumption
       DEF IInv, Working, ListOK, ListedOK, WorkerOK
  <2>. QED
    BY <1>2, <2>1, <2>2, SettlingFrame, HandlersFrame DEF IInv, Settling
<1>. QED
  BY <1>4, <1>5

LEMMA SendStep == ASSUME IInv, Send PROVE Settling' /\ Working' /\ HandlersOK'
<1>1. /\ stage = "send" /\ stage' = "await" /\ inTransit' = inTransit \union {current.job}
      /\ UNCHANGED <<status, runOf, owner, life, todo, current, reply, outcome, recovery, panel>>
      /\ current # NoJob /\ status[current.job] = "submitting" /\ Unknown(current.job)
      /\ reply = Absent
  BY DEF Send, IInv, WorkerOK, table
<1>2. current.job \in Requests
  BY <1>1 DEF IInv, TypeOK, Snapshot
<1>3. Settling'
  BY <1>1, <1>2 DEF IInv, Settling, AtMostOnePaidRun, OwnRunOnly, ProviderOK, RowOK, Unknown
<1>4. Working'
  BY <1>1, AbsentAssumption, RejectedAssumption DEF IInv, Working, ListOK, ListedOK, WorkerOK
<1>5. HandlersOK'
  BY <1>1, HandlersFrame DEF IInv
<1>. QED
  BY <1>3, <1>4, <1>5


\* A conclusion about the current job, fitting what the table and the
\* provider say of it, leaves everything else as it was.
LEMMA ConcludeStep ==
    ASSUME IInv, NEW s, NEW i, Conclude(s, i),
           UNCHANGED <<status, runOf, provider, recovery, panel>>,
           ListOK', current' # NoJob, SaveOK'
    PROVE  Settling' /\ Working' /\ HandlersOK'
<1>1. stage' = "save" /\ reply' = Absent
  BY DEF Conclude
<1>2. WorkerOK'
  BY <1>1, AbsentAssumption, RejectedAssumption DEF WorkerOK
<1>. QED
  BY <1>2, SettlingFrame, HandlersFrame DEF IInv, Settling, Working, provider

LEMMA AwaitStep ==
    ASSUME IInv, Started \/ Declined \/ Unanswered
    PROVE  Settling' /\ Working' /\ HandlersOK'
<1>1. /\ stage = "await" /\ current # NoJob /\ status[current.job] = "submitting"
      /\ UNCHANGED <<status, runOf, provider, owner, life, inTransit, todo, current,
                     recovery, panel>>
  BY DEF Started, Declined, Unanswered, IInv, WorkerOK, table, provider
<1>2. PICK s, i : /\ Conclude(s, i)
                  /\ \/ s = "running" /\ i \in Runs /\ owner[i] = current.job
                     \/ s = "failed" /\ i = Absent /\ Unknown(current.job)
                     \/ s = "uncertain" /\ i = Absent
  <2>1. CASE Started
    BY <2>1 DEF Started, IInv, WorkerOK
  <2>2. CASE Declined
    BY <2>2 DEF Declined, IInv, WorkerOK
  <2>3. CASE Unanswered
    BY <2>3 DEF Unanswered
  <2>. QED  BY <2>1, <2>2, <2>3
<1>3. outcome' = [status |-> s, run |-> i] /\ stage' = "save"
  BY <1>2 DEF Conclude
<1>4. SaveOK'
  BY <1>1, <1>2, <1>3, AbsentAssumption DEF SaveOK, Unknown
<1>5. ListOK'
  BY <1>1, <1>3 DEF IInv, ListOK, ListedOK
<1>. QED
  BY <1>1, <1>2, <1>4, <1>5, ConcludeStep

LEMMA ResumeStep ==
    ASSUME IInv, NEW e \in todo, Resume(e) PROVE Settling' /\ Working' /\ HandlersOK'
<1>1. e \in Snapshot /\ e # NoJob /\ e.status = "running" /\ e.run \in Runs
  BY AbsentAssumption DEF Resume, IInv, TypeOK, Snapshot, NoJob, ListOK, ListedOK
<1>2. /\ stage = "next" /\ stage' = "poll" /\ todo' = todo \ {e} /\ current' = e
      /\ UNCHANGED <<status, runOf, provider, owner, life, inTransit, reply, outcome,
                     recovery, panel>>
  BY <1>1 DEF Resume, table, provider
<1>3. reply = Absent
  BY <1>2 DEF IInv, WorkerOK
<1>4. ListOK'
  BY <1>2 DEF IInv, ListOK, ListedOK
<1>5. ListedOK(e)'
  BY <1>2 DEF IInv, ListOK, ListedOK
<1>6. WorkerOK'
  BY <1>1, <1>2, <1>3, <1>5, AbsentAssumption, RejectedAssumption DEF WorkerOK
<1>. QED
  BY <1>2, <1>4, <1>6, SettlingFrame, HandlersFrame DEF IInv, Settling, Working

LEMMA PollStep ==
    ASSUME IInv, Poll \/ Fetch \/ Unreachable PROVE Settling' /\ Working' /\ HandlersOK'
<1>1. /\ stage \in {"poll", "fetch"} /\ current # NoJob /\ current.status = "running"
      /\ status[current.job] = "running" /\ runOf[current.job] = current.run
      /\ stage = "fetch" => life[current.run] = "completed"
      /\ reply = Absent
      /\ UNCHANGED <<status, runOf, provider, owner, life, inTransit, todo, current,
                     recovery, panel>>
  BY DEF Poll, Fetch, Unreachable, IInv, WorkerOK, ListedOK, table, provider
<1>2. CASE stage' = "fetch"
  <2>1. life[current.run] = "completed" /\ UNCHANGED <<reply, outcome>>
    BY <1>2 DEF Poll, Fetch, Unreachable, Conclude
  <2>2. ListOK'
    BY <1>1, <1>2 DEF IInv, ListOK, ListedOK
  <2>3. ListedOK(current)'
    BY <1>1 DEF IInv, WorkerOK, ListedOK
  <2>4. WorkerOK'
    BY <1>1, <1>2, <2>1, <2>3, AbsentAssumption, RejectedAssumption DEF WorkerOK
  <2>. QED
    BY <1>1, <2>2, <2>4, SettlingFrame, HandlersFrame DEF IInv, Settling, Working
<1>3. CASE stage' # "fetch"
  <2>1. PICK s : /\ Conclude(s, Absent)
                 /\ \/ s = "running"
                    \/ s = "failed" /\ life[current.run] = "failed"
                    \/ s \in {"succeeded", "review"} /\ life[current.run] = "completed"
    <3>1. CASE Poll
      BY <1>3, <3>1 DEF Poll
    <3>2. CASE Fetch
      BY <1>1, <3>2 DEF Fetch
    <3>3. CASE Unreachable
      BY <3>3 DEF Unreachable
    <3>. QED  BY <3>1, <3>2, <3>3
  <2>2. outcome' = [status |-> s, run |-> Absent] /\ stage' = "save"
    BY <2>1 DEF Conclude
  <2>3. SaveOK'
    BY <1>1, <2>1, <2>2 DEF SaveOK
  <2>4. ListOK'
    BY <1>1, <2>2 DEF IInv, ListOK, ListedOK
  <2>. QED
    BY <1>1, <2>1, <2>3, <2>4, ConcludeStep
<1>. QED
  BY <1>2, <1>3

LEMMA SaveStep == ASSUME IInv, Save PROVE Settling' /\ Working' /\ HandlersOK'
<1>. DEFINE r == current.job
<1>1. /\ stage = "save" /\ stage' = "next" /\ current' = NoJob /\ reply = Absent /\ SaveOK
      /\ UNCHANGED <<inTransit, owner, life, todo, reply, recovery, panel>>
  BY DEF Save, IInv, WorkerOK, provider
<1>2. r \in Requests /\ outcome.run \in Runs \union {Absent}
  BY <1>1 DEF IInv, WorkerOK, TypeOK, Snapshot, NoOutcome
<1>3. /\ \A q \in Requests : status'[q] = (IF q = r THEN outcome.status ELSE status[q])
      /\ \A q \in Requests :
            runOf'[q] = (IF q = r /\ outcome.run # Absent THEN outcome.run ELSE runOf[q])
  BY <1>2 DEF Save, IInv, TypeOK
<1>4. status[r] \in {"submitting", "running"}
  BY <1>1 DEF SaveOK
<1>5. AtMostOnePaidRun' /\ ProviderOK'
  BY <1>1 DEF IInv, AtMostOnePaidRun, ProviderOK
<1>6. OwnRunOnly'
  BY <1>1, <1>3 DEF IInv, OwnRunOnly, SaveOK
<1>7. ASSUME NEW q \in Requests PROVE RowOK(q)'
  <2>1. CASE q # r
    BY <1>1, <1>3, <2>1 DEF IInv, RowOK, Unknown
  <2>2. CASE q = r
    <3>1. runOf[r] # Absent => runOf[r] \in Runs /\ owner[runOf[r]] = r
      BY <1>2 DEF IInv, OwnRunOnly, TypeOK
    <3>2. \A i, j \in Runs : owner[i] = r /\ owner[j] = r => i = j
      BY <1>2, AbsentAssumption DEF IInv, AtMostOnePaidRun
    <3>3. status[r] = "running" => runOf[r] # Absent /\ r \notin inTransit
      BY <1>2 DEF IInv, RowOK
    <3>4. outcome.status = "running" => r \notin inTransit
      <4>1. outcome.status = "running" /\ outcome.run # Absent =>
                outcome.run \in Runs /\ owner[outcome.run] = r
        BY <1>1, <1>2 DEF SaveOK
      <4>2. outcome.status = "running" /\ outcome.run = Absent => status[r] = "running"
        BY <1>1 DEF SaveOK
      <4>. QED
        BY <3>3, <4>1, <4>2 DEF IInv, ProviderOK
    <3>5. CASE outcome.status = "running"
      BY <1>1, <1>2, <1>3, <2>2, <3>3, <3>4, <3>5 DEF RowOK, SaveOK
    <3>6. CASE outcome.status = "failed"
      <4>1. r \notin inTransit /\ (\A i \in Runs : owner[i] = r => life[i] = "failed")
        BY <1>1, <3>1, <3>2, <3>3, <3>6 DEF SaveOK, Unknown
      <4>. QED
        BY <1>1, <1>2, <1>3, <2>2, <3>6, <4>1 DEF RowOK
    <3>7. CASE outcome.status = "uncertain"
      BY <1>1, <1>2, <1>3, <2>2, <3>7 DEF RowOK
    <3>8. CASE outcome.status \in {"succeeded", "review"}
      BY <1>1, <1>2, <1>3, <2>2, <3>3, <3>8 DEF RowOK, SaveOK
    <3>. QED
      BY <1>1, <3>5, <3>6, <3>7, <3>8 DEF SaveOK
  <2>. QED  BY <2>1, <2>2
<1>8. ListOK'
  <2>1. \A e \in todo : e.job \in Requests /\ e.job # r
    BY DEF IInv, TypeOK, Snapshot, ListOK
  <2>. QED
    BY <1>1, <1>3, <2>1, AbsentAssumption DEF IInv, ListOK, ListedOK, NoJob
<1>9. WorkerOK'
  BY <1>1, AbsentAssumption, RejectedAssumption DEF WorkerOK
<1>10. HandlersOK'
  <2>1. \A q \in Requests : status[q] = "none" => status'[q] = "none"
    BY <1>3, <1>4
  <2>. QED
    BY <1>1, <2>1, HandlersFrame DEF IInv
<1>. QED
  BY <1>5, <1>6, <1>7, <1>8, <1>9, <1>10 DEF Settling, Working


LEMMA RestartStep ==
    ASSUME IInv, CycleFails \/ Crash PROVE Settling' /\ Working' /\ HandlersOK'
<1>1. UNCHANGED <<status, runOf, provider, owner>>
  BY DEF CycleFails, Crash, table, provider
<1>2. stage' = "sweep" /\ todo' = {} /\ current' = NoJob /\ reply' = Absent
  BY DEF CycleFails, Crash, IInv, WorkerOK
<1>3. Working'
  BY <1>2, AbsentAssumption, RejectedAssumption DEF Working, ListOK, WorkerOK
<1>4. ASSUME CycleFails PROVE HandlersOK'
  <2>1. UNCHANGED <<owner, status, recovery, panel>>
    BY <1>1, <1>4 DEF CycleFails
  <2>. QED
    BY <2>1, HandlersFrame DEF IInv
<1>5. ASSUME Crash PROVE HandlersOK'
  <2>1. recovery' = [h \in Operators |-> NoRecovery] /\ creator' = NoCreator
    BY <1>5 DEF Crash
  <2>2. \A h \in Operators : recovery'[h].at # "attach"
    BY <2>1 DEF NoRecovery
  <2>3. creator'.tab = Absent
    BY <2>1 DEF NoCreator
  <2>. QED
    BY <2>1, <2>2, <2>3 DEF HandlersOK
<1>6. HandlersOK'
  BY <1>4, <1>5
<1>. QED
  BY <1>1, <1>3, <1>6, SettlingFrame DEF IInv, Settling

LEMMA RecoverStep == ASSUME IInv, Recovering PROVE Settling' /\ Working' /\ HandlersOK'
<1>1. UNCHANGED <<provider, owner, life, inTransit, worker, panel, creator, call>>
  BY DEF Recovering, RecoverLoad, RecoverVerify, RecoverAttach, provider, panel
<1>2. ASSUME NEW h \in Operators, NEW r \in Requests, NEW i \in Runs, RecoverLoad(h, r, i)
      PROVE  Settling' /\ Working' /\ HandlersOK'
  <2>1. UNCHANGED <<status, runOf>>
        /\ recovery' = [recovery EXCEPT ![h] = [at |-> "verify", job |-> r, run |-> i]]
    BY <1>2 DEF RecoverLoad, table
  <2>2. \A k \in Operators : recovery'[k].at = "attach" => recovery'[k] = recovery[k]
    BY <2>1 DEF IInv, TypeOK
  <2>3. HandlersOK'
    BY <1>1, <2>1, <2>2 DEF IInv, HandlersOK
  <2>. QED
    BY <1>1, <2>1, <2>3, SettlingFrame, WorkingFrame DEF IInv, Settling, Working
<1>3. ASSUME NEW h \in Operators, RecoverVerify(h)
      PROVE  Settling' /\ Working' /\ HandlersOK'
  <2>1. UNCHANGED <<status, runOf>>
    BY <1>3 DEF RecoverVerify, table
  <2>2. recovery[h] \in [at : {"verify", "attach"}, job : Requests, run : Runs]
    BY <1>3 DEF RecoverVerify, IInv, TypeOK, NoRecovery
  <2>3. \A k \in Operators : k # h => recovery'[k] = recovery[k]
    BY <1>3 DEF RecoverVerify, IInv, TypeOK
  <2>4. recovery'[h].at = "attach" => owner[recovery'[h].run] = recovery'[h].job
    <3>1. CASE Verified(recovery[h].run, recovery[h].job)
      <4>1. recovery'[h] = [recovery[h] EXCEPT !.at = "attach"]
        BY <1>3, <3>1 DEF RecoverVerify, IInv, TypeOK
      <4>2. recovery'[h].run = recovery[h].run /\ recovery'[h].job = recovery[h].job
        BY <4>1, <2>2
      <4>. QED
        BY <3>1, <4>2 DEF Verified
    <3>2. CASE ~Verified(recovery[h].run, recovery[h].job)
      BY <1>3, <3>2 DEF RecoverVerify, IInv, TypeOK, NoRecovery
    <3>. QED  BY <3>1, <3>2
  <2>5. HandlersOK'
    BY <1>1, <2>1, <2>3, <2>4 DEF IInv, HandlersOK
  <2>. QED
    BY <1>1, <2>1, <2>5, SettlingFrame, WorkingFrame DEF IInv, Settling, Working
<1>4. ASSUME NEW h \in Operators, RecoverAttach(h)
      PROVE  Settling' /\ Working' /\ HandlersOK'
  <2>. DEFINE r == recovery[h].job
              i == recovery[h].run
  <2>1. r \in Requests /\ i \in Runs /\ owner[i] = r /\ i # Absent /\ r # Absent
    BY <1>4, AbsentAssumption DEF RecoverAttach, IInv, TypeOK, NoRecovery, HandlersOK
  <2>2. recovery' = [recovery EXCEPT ![h] = NoRecovery]
    BY <1>4 DEF RecoverAttach
  <2>3. \A k \in Operators : recovery'[k].at = "attach" => recovery'[k] = recovery[k]
    BY <2>2 DEF IInv, TypeOK, NoRecovery
  <2>4. CASE ~Attachable(r, i)
    <3>1. UNCHANGED <<status, runOf>>
      BY <1>4, <2>4 DEF RecoverAttach
    <3>2. HandlersOK'
      BY <1>1, <2>3, <3>1 DEF IInv, HandlersOK
    <3>. QED
      BY <1>1, <3>1, <3>2, SettlingFrame, WorkingFrame DEF IInv, Settling, Working
  <2>5. CASE Attachable(r, i)
    <3>1. /\ status[r] = "uncertain"
          /\ \A q \in Requests : status'[q] = (IF q = r THEN "running" ELSE status[q])
          /\ \A q \in Requests : runOf'[q] = (IF q = r THEN i ELSE runOf[q])
      BY <1>4, <2>1, <2>5 DEF RecoverAttach, Attachable, IInv, TypeOK
    <3>2. r \notin inTransit
      BY <2>1 DEF IInv, ProviderOK
    <3>3. AtMostOnePaidRun' /\ OwnRunOnly' /\ ProviderOK'
      BY <1>1, <2>1, <3>1 DEF IInv, AtMostOnePaidRun, OwnRunOnly, ProviderOK
    <3>4. \A q \in Requests : RowOK(q)'
      BY <1>1, <2>1, <3>1, <3>2 DEF IInv, RowOK, Unknown
    <3>5. ListOK'
      <4>1. \A e \in todo : e.job \in Requests
        BY DEF IInv, TypeOK, Snapshot
      <4>. QED
        BY <1>1, <3>1, <4>1 DEF IInv, ListOK, ListedOK, worker
    <3>6. WorkerOK'
      <4>1. current # NoJob => current.job \in Requests
        BY DEF IInv, TypeOK, Snapshot
      <4>2. current # NoJob /\ stage # "save" => status[current.job] \in {"submitting", "running"}
        BY DEF IInv, WorkerOK, ListedOK, TypeOK, Stages
      <4>3. stage = "save" => current # NoJob /\ status[current.job] \in {"submitting", "running"}
        BY DEF IInv, WorkerOK, SaveOK
      <4>4. current # NoJob =>
              status'[current.job] = status[current.job] /\ runOf'[current.job] = runOf[current.job]
        BY <3>1, <4>1, <4>2, <4>3
      <4>5. UNCHANGED <<inTransit, owner, life, stage, current, reply, outcome>>
        BY <1>1 DEF worker
      <4>6. stage = "save" => SaveOK'
        BY <4>3, <4>4, <4>5 DEF IInv, WorkerOK, SaveOK, Unknown
      <4>. QED
        BY <4>4, <4>5, <4>6 DEF IInv, WorkerOK, ListedOK, Unknown
    <3>7. HandlersOK'
      <4>1. creator # NoCreator => creator.request \in Requests
        BY DEF IInv, TypeOK, NoCreator
      <4>. QED
        BY <1>1, <2>3, <3>1, <4>1 DEF IInv, HandlersOK
    <3>. QED
      BY <3>3, <3>4, <3>5, <3>6, <3>7 DEF Settling, Working
  <2>. QED  BY <2>4, <2>5
<1>. QED
  BY <1>2, <1>3, <1>4 DEF Recovering


LEMMA PanelStep == ASSUME IInv, Panel PROVE Settling' /\ Working' /\ HandlersOK'
<1>1. CASE Insert
  <2>1. UNCHANGED <<recovery, owner>> /\ creator' = NoCreator
    BY <1>1 DEF Insert, provider
  <2>. QED
    BY <1>1, <2>1, InsertStep DEF IInv, HandlersOK, NoCreator
<1>2. CASE ~Insert
  <2>1. UNCHANGED <<status, runOf, provider, owner, worker, recovery>>
    BY <1>2 DEF Panel, Submit, CheckSubmission, LoseCall, Learn, SeeJob, Lookup, Refuse,
                table, provider
  <2>2. /\ creator' # NoCreator => status[creator'.request] = "none"
        /\ creator'.tab # Absent => call'[creator'.tab].at = "sent"
    <3>. DEFINE Goal == /\ creator' # NoCreator => status[creator'.request] = "none"
                        /\ creator'.tab # Absent => call'[creator'.tab].at = "sent"
    <3>0. creator.tab # Absent => creator.tab \in Tabs
      BY DEF IInv, TypeOK, NoCreator
    <3>1. ASSUME NEW t \in Tabs, NEW r \in Requests, Submit(t, r) PROVE Goal
      BY <3>0, <3>1 DEF Submit, IInv, TypeOK, HandlersOK
    <3>2. ASSUME NEW t \in Tabs, CheckSubmission(t) PROVE Goal
      BY <3>0, <3>2 DEF CheckSubmission, IInv, TypeOK, HandlersOK
    <3>3. ASSUME NEW t \in Tabs, LoseCall(t) PROVE Goal
      <4>1. CASE creator.tab = t
        <5>1. creator \in [request : Requests, tab : Tabs \union {Absent}]
          BY <4>1, AbsentAssumption DEF IInv, TypeOK, NoCreator
        <5>2. creator' = [creator EXCEPT !.tab = Absent]
          BY <3>3, <4>1 DEF LoseCall
        <5>3. creator'.tab = Absent /\ creator'.request = creator.request /\ creator # NoCreator
          BY <5>1, <5>2, AbsentAssumption DEF NoCreator
        <5>. QED
          BY <5>3 DEF IInv, HandlersOK
      <4>2. CASE creator.tab # t
        BY <3>0, <3>3, <4>2 DEF LoseCall, IInv, TypeOK, HandlersOK
      <4>. QED  BY <4>1, <4>2
    <3>4. ASSUME NEW t \in Tabs, Learn(t) PROVE Goal
      BY <3>0, <3>4 DEF Learn, IInv, TypeOK, HandlersOK
    <3>5. ASSUME NEW t \in Tabs, SeeJob(t) PROVE Goal
      BY <3>5 DEF SeeJob, IInv, HandlersOK
    <3>6. ASSUME NEW r \in Requests, NEW t \in Tabs \union {Absent}, Lookup(r, t) PROVE Goal
      <4>1. CASE status[r] # "none"
        BY <3>6, <4>1 DEF Lookup, NoCreator
      <4>2. CASE status[r] = "none"
        BY <3>6, <4>2 DEF Lookup
      <4>. QED  BY <4>1, <4>2
    <3>7. ASSUME Refuse PROVE Goal
      BY <3>7 DEF Refuse, NoCreator
    <3>. QED
      BY <1>2, <3>1, <3>2, <3>3, <3>4, <3>5, <3>6, <3>7 DEF Panel
  <2>3. HandlersOK'
    BY <2>1, <2>2 DEF IInv, HandlersOK
  <2>. QED
    BY <2>1, <2>3, SettlingFrame, WorkingFrame DEF IInv, Settling, Working
<1>. QED
  BY <1>1, <1>2

LEMMA AgeStep ==
    ASSUME IInv, NEW r \in Requests, Age(r) PROVE Settling' /\ Working' /\ HandlersOK'
BY SettlingFrame, WorkingFrame, HandlersFrame DEF Age, IInv, Settling, Working, provider

LEMMA InitIInv == ASSUME Init PROVE IInv
<1>1. TypeOK
  BY BoundAssumption DEF Init, TypeOK, Stages, NoOutcome, Calls
<1>2. Settling
  BY AbsentAssumption
     DEF Init, Settling, AtMostOnePaidRun, OwnRunOnly, ProviderOK, RowOK, Unknown
<1>3. Working
  BY AbsentAssumption, RejectedAssumption DEF Init, Working, ListOK, WorkerOK
<1>4. HandlersOK
  BY DEF Init, HandlersOK, NoRecovery, NoCreator
<1>. QED
  BY <1>1, <1>2, <1>3, <1>4, IInvParts

LEMMA Inductive == ASSUME IInv, [Next]_vars PROVE IInv'
<1>1. TypeOK'
  BY TypeStep DEF IInv
<1>2. Settling' /\ Working' /\ HandlersOK'
  <2>1. CASE Panel
    BY <2>1, PanelStep
  <2>2. CASE Provider
    BY <2>2, AcceptStep, RejectStep, EndRunStep DEF Provider
  <2>3. ASSUME NEW r \in Requests, Age(r) PROVE Settling' /\ Working' /\ HandlersOK'
    BY <2>3, AgeStep
  <2>4. CASE Worker
    BY <2>4, SweepStep, ListStep, SleepStep, ClaimStep, ResumeStep, SendStep, AwaitStep,
       PollStep, SaveStep DEF Worker
  <2>5. CASE Trouble
    BY <2>5, PollStep, RestartStep DEF Trouble
  <2>6. CASE Recovering
    BY <2>6, RecoverStep
  <2>7. CASE UNCHANGED vars
    BY <2>7, SettlingFrame, WorkingFrame, HandlersFrame DEF IInv, Settling, Working, vars,
       table, provider
  <2>. QED
    BY <2>1, <2>2, <2>3, <2>4, <2>5, <2>6, <2>7 DEF Next
<1>. QED
  BY <1>1, <1>2, IInvPartsNext

-----------------------------------------------------------------------------
(* The theorems.                                                           *)

LEMMA Invariance == Spec => []IInv
<1>. QED
  BY InitIInv, Inductive, PTL DEF Spec

\* Every reachable state of the research worker, the provider and the panel is
\* well typed (backend/source_research.go).
THEOREM TypeCorrect == Spec => []TypeOK
<1>1. IInv => TypeOK
  BY DEF IInv
<1>. QED
  BY <1>1, Invariance, PTL

\* "A lost HTTP response must not create a second paid run": whatever the
\* browsers repeat, and whenever the process dies or a statement fails, no
\* request is ever run twice by the provider.
THEOREM OnePaidRun == Spec => []AtMostOnePaidRun
<1>1. IInv => AtMostOnePaidRun
  BY DEF IInv
<1>. QED
  BY <1>1, Invariance, PTL

\* The run a job names, whether the worker or a recovery wrote it there, is
\* the run the provider made of that very job.
THEOREM OwnRun == Spec => []OwnRunOnly
<1>1. IInv => OwnRunOnly
  BY DEF IInv
<1>. QED
  BY <1>1, Invariance, PTL


-----------------------------------------------------------------------------
(* The promise: every step of the model is one of PaidResearch or leaves   *)
(* what it speaks of unchanged.                                            *)

Phases == [r \in Requests |-> PhaseOf(r)]
RunStates == [r \in Requests |-> RunOf(r)]

\* The request's run, which the definition chooses, is the only one.
LEMMA TheRun ==
    ASSUME AtMostOnePaidRun, NEW r \in Requests, NEW i \in Runs, owner[i] = r
    PROVE  RunOf(r) = life[i]
<1>1. i \in RunsOf(r) /\ r # Absent
  BY AbsentAssumption DEF RunsOf
<1>2. (CHOOSE j \in RunsOf(r) : TRUE) \in RunsOf(r)
  BY <1>1
<1>3. (CHOOSE j \in RunsOf(r) : TRUE) = i
  BY <1>1, <1>2 DEF RunsOf, AtMostOnePaidRun
<1>. QED
  BY <1>1, <1>3 DEF RunOf

LEMMA TheRunNext ==
    ASSUME AtMostOnePaidRun', NEW r \in Requests, NEW i \in Runs, owner'[i] = r
    PROVE  RunOf(r)' = life'[i]
<1>1. i \in RunsOf(r)' /\ r # Absent
  BY AbsentAssumption DEF RunsOf
<1>2. (CHOOSE j \in RunsOf(r)' : TRUE) \in RunsOf(r)'
  BY <1>1
<1>3. (CHOOSE j \in RunsOf(r)' : TRUE) = i
  BY <1>1, <1>2 DEF RunsOf, AtMostOnePaidRun
<1>. QED
  BY <1>1, <1>3 DEF RunOf

LEMMA NoRun ==
    ASSUME NEW r \in Requests, \A i \in Runs : owner[i] # r PROVE RunOf(r) = "none"
BY DEF RunOf, RunsOf

\* Nothing the promise speaks of has changed.
LEMMA Quiet ==
    ASSUME \A r \in Requests : PhaseOf(r)' = PhaseOf(r), UNCHANGED <<owner, life>>
    PROVE  UNCHANGED <<Phases, RunStates>>
<1>1. \A r \in Requests : RunOf(r)' = RunOf(r)
  BY DEF RunOf, RunsOf
<1>. QED
  BY <1>1 DEF Phases, RunStates

LEMMA Still ==
    ASSUME UNCHANGED <<status, owner, life>> PROVE UNCHANGED <<Phases, RunStates>>
BY Quiet DEF PhaseOf

\* One row has changed.
LEMMA Moved ==
    ASSUME NEW r \in Requests, NEW from, NEW to, UNCHANGED <<owner, life>>,
           \A q \in Requests \ {r} : status'[q] = status[q],
           PhaseOf(r) = from, PhaseOf(r)' = to
    PROVE  Promise!Move(r, from, to) /\ RunStates' = RunStates
<1>1. \A q \in Requests : RunOf(q)' = RunOf(q)
  BY DEF RunOf, RunsOf
<1>2. \A q \in Requests \ {r} : PhaseOf(q)' = PhaseOf(q)
  BY DEF PhaseOf
<1>3. [q \in Requests |-> PhaseOf(q)]' = [[q \in Requests |-> PhaseOf(q)] EXCEPT ![r] = to]
  BY <1>2
<1>. QED
  BY <1>1, <1>3 DEF Promise!Move, RunStates

LEMMA PromiseInit == ASSUME Init PROVE Promise!Init
<1>1. \A r \in Requests : PhaseOf(r) = "none"
  BY DEF Init, PhaseOf
<1>2. \A r \in Requests : RunOf(r) = "none"
  BY NoRun, AbsentAssumption DEF Init
<1>. QED
  BY <1>1, <1>2 DEF Promise!Init


LEMMA PromiseAccept ==
    ASSUME IInv, AtMostOnePaidRun', NEW r \in Requests, NEW i \in Runs, Accept(r, i)
    PROVE  Promise!Start(r)
<1>1. /\ owner[i] = Absent /\ status[r] \in {"submitting", "uncertain"}
      /\ \A j \in Runs : owner[j] # r
  BY DEF Accept, IInv, ProviderOK, RowOK
<1>2. /\ \A j \in Runs : life'[j] = (IF j = i THEN "going" ELSE life[j])
      /\ \A j \in Runs : owner'[j] = (IF j = i THEN r ELSE owner[j])
      /\ UNCHANGED status
  BY DEF Accept, IInv, TypeOK, table
<1>3. PhaseOf(r) = "submitted" /\ RunOf(r) = "none"
  BY <1>1, NoRun DEF PhaseOf
<1>4. \A q \in Requests : PhaseOf(q)' = PhaseOf(q)
  BY <1>2 DEF PhaseOf
<1>5. RunOf(r)' = "going"
  BY <1>2, TheRunNext
<1>6. ASSUME NEW q \in Requests, q # r PROVE RunOf(q)' = RunOf(q)
  <2>1. \A j \in Runs : owner[j] = q => j # i /\ owner'[j] = q
    BY <1>1, <1>2, AbsentAssumption
  <2>2. \A j \in Runs : owner'[j] = q => owner[j] = q
    BY <1>2, <1>6
  <2>3. CASE \A j \in Runs : owner[j] # q
    <3>1. RunsOf(q) = {} /\ RunsOf(q)' = {}
      BY <2>2, <2>3 DEF RunsOf
    <3>. QED  BY <3>1 DEF RunOf
  <2>4. ASSUME NEW j \in Runs, owner[j] = q PROVE RunOf(q)' = RunOf(q)
    <3>1. RunOf(q) = life[j]
      BY <2>4, TheRun DEF IInv
    <3>2. RunOf(q)' = life'[j]
      BY <2>1, <2>4, TheRunNext
    <3>. QED  BY <1>2, <2>1, <2>4, <3>1, <3>2
  <2>. QED  BY <2>3, <2>4
<1>. QED
  BY <1>3, <1>4, <1>5, <1>6 DEF Promise!Start

LEMMA PromiseEnd ==
    ASSUME IInv, AtMostOnePaidRun', NEW i \in Runs, EndRun(i)
    PROVE  \E r \in Requests : Promise!End(r)
<1>1. /\ life[i] = "going" /\ owner[i] # Absent /\ UNCHANGED <<status, owner>>
      /\ \A j \in Runs : j # i => life'[j] = life[j]
      /\ life'[i] \in {"completed", "failed"}
  BY DEF EndRun, IInv, ProviderOK, TypeOK, table
<1>2. PICK r \in Requests : r = owner[i]
  BY <1>1 DEF IInv, TypeOK
<1>3. RunOf(r) = "going" /\ RunOf(r)' = life'[i]
  BY <1>1, <1>2, TheRun, TheRunNext DEF IInv
<1>4. \A q \in Requests : PhaseOf(q)' = PhaseOf(q)
  BY <1>1 DEF PhaseOf
<1>5. ASSUME NEW q \in Requests, q # r PROVE RunOf(q)' = RunOf(q)
  <2>1. RunsOf(q)' = RunsOf(q) /\ \A j \in RunsOf(q) : life'[j] = life[j]
    BY <1>1, <1>2, <1>5 DEF RunsOf
  <2>2. RunsOf(q) # {} => (CHOOSE j \in RunsOf(q) : TRUE) \in RunsOf(q)
    OBVIOUS
  <2>. QED
    BY <2>1, <2>2 DEF RunOf
<1>6. [q \in Requests |-> RunOf(q)]' = [[q \in Requests |-> RunOf(q)] EXCEPT ![r] = life'[i]]
  BY <1>3, <1>5
<1>7. [q \in Requests |-> PhaseOf(q)]' = [q \in Requests |-> PhaseOf(q)]
  BY <1>4
<1>. QED
  BY <1>1, <1>3, <1>6, <1>7 DEF Promise!End

LEMMA PromiseSave ==
    ASSUME IInv, Save
    PROVE  \/ UNCHANGED <<Phases, RunStates>>
           \/ \E r \in Requests : Promise!Deliver(r) \/ Promise!GiveUp(r)
<1>1. /\ SaveOK /\ UNCHANGED <<owner, life>> /\ current.job \in Requests
  BY DEF Save, IInv, WorkerOK, TypeOK, Snapshot, provider
<1>2. PICK r \in Requests : r = current.job
  BY <1>1
<1>3. /\ status'[r] = outcome.status
      /\ \A q \in Requests \ {r} : status'[q] = status[q]
      /\ status[r] \in {"submitting", "running"}
  BY <1>1, <1>2 DEF Save, IInv, TypeOK, SaveOK
<1>4. PhaseOf(r) = "submitted"
  BY <1>3 DEF PhaseOf
<1>5. CASE outcome.status \in {"running", "uncertain"}
  <2>1. \A q \in Requests : PhaseOf(q)' = PhaseOf(q)
    BY <1>3, <1>4, <1>5 DEF PhaseOf
  <2>. QED  BY <1>1, <2>1, Quiet
<1>6. CASE outcome.status \in {"failed", "succeeded", "review"}
  <2>1. status[r] = "running" =>
          runOf[r] \in Runs /\ owner[runOf[r]] = r /\ RunOf(r) = life[runOf[r]]
    BY TheRun DEF IInv, RowOK, OwnRunOnly, TypeOK
  <2>2. CASE outcome.status = "failed"
    <3>1. RunOf(r) \in {"none", "failed"}
      BY <1>1, <1>2, <2>1, <2>2, NoRun DEF SaveOK, Unknown
    <3>2. PhaseOf(r)' = "failed"
      BY <1>3, <2>2 DEF PhaseOf
    <3>3. Promise!Move(r, "submitted", "failed") /\ RunStates' = RunStates
      BY <1>1, <1>3, <1>4, <3>2, Moved
    <3>. QED
      BY <3>1, <3>3 DEF Promise!GiveUp, RunStates
  <2>3. CASE outcome.status \in {"succeeded", "review"}
    <3>1. RunOf(r) = "completed"
      BY <1>1, <1>2, <2>1, <2>3 DEF SaveOK
    <3>2. PhaseOf(r)' = "delivered"
      BY <1>3, <2>3 DEF PhaseOf
    <3>3. Promise!Move(r, "submitted", "delivered") /\ RunStates' = RunStates
      BY <1>1, <1>3, <1>4, <3>2, Moved
    <3>. QED
      BY <3>1, <3>3 DEF Promise!Deliver, RunStates
  <2>. QED  BY <1>6, <2>2, <2>3
<1>. QED
  BY <1>1, <1>5, <1>6 DEF SaveOK

LEMMA PromiseNext ==
    ASSUME IInv, AtMostOnePaidRun', [Next]_vars
    PROVE  Promise!Next \/ UNCHANGED <<Phases, RunStates>>
<1>1. CASE Insert
  <2>1. PICK r \in Requests : r = creator.request
    BY <1>1 DEF Insert, IInv, TypeOK, NoCreator
  <2>2. status[r] = "none" /\ UNCHANGED <<owner, life>>
    BY <1>1, <2>1 DEF Insert, IInv, HandlersOK, provider
  <2>3. CASE status' = [status EXCEPT ![r] = "queued"]
    <3>1. PhaseOf(r) = "none" /\ PhaseOf(r)' = "waiting"
      BY <2>2, <2>3 DEF PhaseOf, IInv, TypeOK
    <3>2. \A q \in Requests \ {r} : status'[q] = status[q]
      BY <2>3 DEF IInv, TypeOK
    <3>. QED
      BY <2>2, <3>1, <3>2, Moved DEF Promise!Next, Promise!Store, RunStates
  <2>4. CASE status' = status
    BY <2>2, <2>4, Still
  <2>. QED  BY <1>1, <2>1, <2>3, <2>4 DEF Insert
<1>2. CASE Panel /\ ~Insert
  <2>1. UNCHANGED <<status, owner, life>>
    BY <1>2 DEF Panel, Submit, CheckSubmission, LoseCall, Learn, SeeJob, Lookup, Refuse,
                table, provider
  <2>. QED  BY <2>1, Still
<1>3. CASE Provider
  <2>1. ASSUME NEW r \in Requests, Reject(r) PROVE UNCHANGED <<Phases, RunStates>>
    BY <2>1, Still DEF Reject, table
  <2>. QED
    BY <1>3, <2>1, PromiseAccept, PromiseEnd DEF Provider, Promise!Next
<1>4. ASSUME NEW r \in Requests, Age(r) PROVE UNCHANGED <<Phases, RunStates>>
  BY <1>4, Still DEF Age, provider
<1>5. CASE Sweep
  <2>1. \A r \in Requests : PhaseOf(r)' = PhaseOf(r)
    BY <1>5 DEF Sweep, Interrupted, PhaseOf
  <2>. QED  BY <1>5, <2>1, Quiet DEF Sweep, provider
<1>6. ASSUME NEW e \in todo, Claim(e) PROVE Promise!Next \/ UNCHANGED <<Phases, RunStates>>
  <2>1. e.job \in Requests /\ UNCHANGED <<owner, life>>
    BY <1>6 DEF Claim, IInv, TypeOK, Snapshot, provider
  <2>2. PICK r \in Requests : r = e.job
    BY <2>1
  <2>3. CASE status[r] = "queued"
    <3>1. status' = [status EXCEPT ![r] = "submitting"]
      BY <1>6, <2>2, <2>3 DEF Claim
    <3>2. PhaseOf(r) = "waiting" /\ PhaseOf(r)' = "submitted"
      BY <2>3, <3>1 DEF PhaseOf, IInv, TypeOK
    <3>3. \A q \in Requests \ {r} : status'[q] = status[q]
      BY <3>1 DEF IInv, TypeOK
    <3>. QED
      BY <2>1, <3>2, <3>3, Moved DEF Promise!Next, Promise!Submit, RunStates
  <2>4. CASE status[r] # "queued"
    BY <1>6, <2>1, <2>2, <2>4, Still DEF Claim
  <2>. QED  BY <2>3, <2>4
<1>7. CASE Save
  BY <1>7, PromiseSave DEF Promise!Next
<1>8. CASE Worker /\ ~Sweep /\ ~Save /\ ~(\E e \in todo : Claim(e))
  <2>1. UNCHANGED <<status, owner, life>>
    BY <1>8 DEF Worker, List, Sleep, Resume, Send, Started, Declined, Unanswered, Poll,
                Fetch, table, provider
  <2>. QED  BY <2>1, Still
<1>9. CASE Trouble
  BY <1>9, Still DEF Trouble, Unreachable, CycleFails, Crash, table, provider
<1>10. CASE Recovering
  <2>1. UNCHANGED <<owner, life>>
    BY <1>10 DEF Recovering, RecoverLoad, RecoverVerify, RecoverAttach, provider
  <2>2. CASE UNCHANGED status
    BY <2>1, <2>2, Still
  <2>3. ASSUME NEW h \in Operators, RecoverAttach(h), ~UNCHANGED status
        PROVE  \A r \in Requests : PhaseOf(r)' = PhaseOf(r)
    <3>1. recovery[h].job \in Requests
      BY <2>3 DEF RecoverAttach, IInv, TypeOK, NoRecovery
    <3>2. /\ status[recovery[h].job] = "uncertain"
          /\ \A q \in Requests : status'[q] = IF q = recovery[h].job THEN "running" ELSE status[q]
      BY <2>3, <3>1 DEF RecoverAttach, Attachable, IInv, TypeOK
    <3>. QED  BY <3>2 DEF PhaseOf
  <2>. QED
    BY <1>10, <2>1, <2>2, <2>3, Quiet DEF Recovering, RecoverLoad, RecoverVerify, table
<1>11. CASE UNCHANGED vars
  BY <1>11, Still DEF vars, table, provider
<1>. QED
  BY <1>1, <1>2, <1>3, <1>4, <1>5, <1>6, <1>7, <1>8, <1>9, <1>10, <1>11 DEF Next, Worker

\* Paid research keeps its promise: a request is submitted at most once, run
\* at most once and only while it is submitted, and settled for good by what
\* its own run came to, whoever repeats, loses, interrupts or recovers it.
THEOREM KeepsPromise == Spec => ImplementsPromise
<1>1. Init => Promise!Init
  BY PromiseInit
<1>2. IInv /\ IInv' /\ [Next]_vars => [Promise!Next]_<<Phases, RunStates>>
  BY PromiseNext DEF IInv
<1>. QED
  BY <1>1, <1>2, Invariance, PTL DEF Spec, ImplementsPromise, Promise!Spec, Phases, RunStates

\* A settled job stays settled and no run follows it, a failed one has no run
\* that could still be charged: whoever keeps the promise guarantees it, through
\* every interruption, repetition and recovery.
THEOREM SettledForGood == Spec => []Promise!Charged /\ Promise!Settled
<1>. DEFINE P == [r \in Requests |-> PhaseOf(r)]
            Q == [r \in Requests |-> RunOf(r)]
            Typed == /\ P \in [Requests -> {"none", "waiting", "submitted", "delivered", "failed"}]
                     /\ Q \in [Requests -> {"none", "going", "completed", "failed"}]
            Charged == \A r \in Requests :
                          /\ P[r] \in {"none", "waiting"} => Q[r] = "none"
                          /\ P[r] = "delivered" => Q[r] = "completed"
                          /\ P[r] = "failed" => Q[r] \in {"none", "failed"}
            CInv == Typed /\ Charged
            Stays == \A r \in Requests :
                        P[r] \in {"delivered", "failed"} => P'[r] = P[r] /\ Q'[r] = Q[r]
<1>1. Promise!Init => CInv
  BY DEF Promise!Init
<1>2. ASSUME CInv, Promise!Next
      PROVE  CInv' /\ Stays
  <2>1. PICK r \in Requests :
             \/ Promise!Store(r) \/ Promise!Submit(r) \/ Promise!Start(r)
             \/ Promise!End(r) \/ Promise!Deliver(r) \/ Promise!GiveUp(r)
    BY <1>2 DEF Promise!Next
  <2>. USE <1>2
  <2>2. CASE Promise!Store(r)
    BY <2>2 DEF Promise!Store, Promise!Move
  <2>3. CASE Promise!Submit(r)
    BY <2>3 DEF Promise!Submit, Promise!Move
  <2>4. CASE Promise!Start(r)
    BY <2>4 DEF Promise!Start
  <2>5. CASE Promise!End(r)
    BY <2>5 DEF Promise!End
  <2>6. CASE Promise!Deliver(r)
    BY <2>6 DEF Promise!Deliver, Promise!Move
  <2>7. CASE Promise!GiveUp(r)
    BY <2>7 DEF Promise!GiveUp, Promise!Move
  <2>. QED
    BY <2>1, <2>2, <2>3, <2>4, <2>5, <2>6, <2>7
<1>3. CInv /\ [Promise!Next]_<<P, Q>> => CInv' /\ [Stays]_<<P, Q>>
  <2>1. ASSUME CInv, UNCHANGED <<P, Q>> PROVE CInv'
    <3>. HIDE DEF P, Q
    <3>. QED  BY <2>1
  <2>. QED  BY <1>2, <2>1
<1>4. CInv => Promise!Charged
  BY DEF Promise!Charged
<1>. HIDE DEF CInv
<1>. QED
  BY <1>1, <1>3, <1>4, KeepsPromise, PTL
     DEF ImplementsPromise, Promise!Spec, Promise!Settled


-----------------------------------------------------------------------------
(* Spending.                                                               *)

\* The rows that count against the limit and against their security.
ActiveOK ==
    /\ IsFiniteSet(ActiveJobs) /\ Cardinality(ActiveJobs) =< MaxActive
    /\ \A q, r \in ActiveJobs : Target[q] = Target[r] => q = r

\* Only an admitted request enters them.
LEMMA ActiveStep ==
    ASSUME IInv, [Next]_vars
    PROVE  \/ ActiveJobs' \subseteq ActiveJobs
           \/ \E r \in Requests : Admitted(r) /\ ActiveJobs' = ActiveJobs \union {r}
<1>1. CASE Insert
  <2>1. PICK r \in Requests : r = creator.request
    BY <1>1 DEF Insert, IInv, TypeOK, NoCreator
  <2>2. CASE status' = status
    BY <2>2 DEF ActiveJobs
  <2>3. CASE Admitted(r) /\ status' = [status EXCEPT ![r] = "queued"]
    <3>1. ActiveJobs' = ActiveJobs \union {r}
      BY <2>3 DEF ActiveJobs, Active, IInv, TypeOK
    <3>. QED  BY <2>3, <3>1
  <2>. QED  BY <1>1, <2>1, <2>2, <2>3 DEF Insert
<1>2. ASSUME \A r \in Requests : status'[r] \in Active => status[r] \in Active
      PROVE  ActiveJobs' \subseteq ActiveJobs
  BY <1>2 DEF ActiveJobs
<1>3. CASE UNCHANGED status
  BY <1>2, <1>3
<1>4. ASSUME ~Insert, ~UNCHANGED status
      PROVE  \A r \in Requests : status'[r] \in Active => status[r] \in Active
  <2>1. CASE Sweep
    BY <2>1 DEF Sweep, Interrupted, Active
  <2>2. ASSUME NEW e \in todo, Claim(e)
        PROVE  \A r \in Requests : status'[r] \in Active => status[r] \in Active
    BY <2>2 DEF Claim, Active, IInv, TypeOK
  <2>3. CASE Save
    <3>1. status[current.job] \in {"submitting", "running"}
      BY <2>3 DEF Save, IInv, WorkerOK, SaveOK
    <3>. QED  BY <2>3, <3>1 DEF Save, Active, IInv, TypeOK
  <2>4. ASSUME NEW h \in Operators, RecoverAttach(h)
        PROVE  \A r \in Requests : status'[r] \in Active => status[r] \in Active
    BY <2>4 DEF RecoverAttach, Attachable, Active, IInv, TypeOK
  <2>. QED
    BY <1>4, <2>1, <2>2, <2>3, <2>4
       DEF Next, Panel, Submit, CheckSubmission, LoseCall, Learn, SeeJob, Lookup, Refuse,
           Provider, Accept, Reject, EndRun, Age, Worker, List, Sleep, Resume, Send, Started,
           Declined, Unanswered, Poll, Fetch, Trouble, Unreachable, CycleFails, Crash,
           Recovering, RecoverLoad, RecoverVerify, vars, table
<1>. QED
  BY <1>1, <1>2, <1>3, <1>4

LEMMA ActiveInit == ASSUME Init PROVE ActiveOK
<1>1. ActiveJobs = {}
  BY DEF Init, ActiveJobs, Active
<1>. QED
  BY <1>1, FS_EmptySet, BoundAssumption DEF ActiveOK

LEMMA ActiveInductive == ASSUME IInv, ActiveOK, [Next]_vars PROVE ActiveOK'
<1>1. CASE ActiveJobs' \subseteq ActiveJobs
  <2>1. IsFiniteSet(ActiveJobs') /\ Cardinality(ActiveJobs') =< Cardinality(ActiveJobs)
    BY <1>1, FS_Subset DEF ActiveOK
  <2>2. Cardinality(ActiveJobs') \in Nat /\ Cardinality(ActiveJobs) \in Nat
    BY <2>1, FS_CardinalityType DEF ActiveOK
  <2>. QED
    BY <1>1, <2>1, <2>2, BoundAssumption DEF ActiveOK
<1>2. ASSUME NEW r \in Requests, Admitted(r), ActiveJobs' = ActiveJobs \union {r}
      PROVE  ActiveOK'
  <2>1. IsFiniteSet(ActiveJobs') /\ Cardinality(ActiveJobs') =< Cardinality(ActiveJobs) + 1
    BY <1>2, FS_AddElement, FS_CardinalityType DEF ActiveOK
  <2>2. Cardinality(ActiveJobs') \in Nat /\ Cardinality(ActiveJobs) \in Nat
    BY <2>1, FS_CardinalityType DEF ActiveOK
  <2>3. Cardinality(ActiveJobs') =< MaxActive
    BY <1>2, <2>1, <2>2, BoundAssumption DEF Admitted
  <2>4. \A q, p \in ActiveJobs' : Target[q] = Target[p] => q = p
    BY <1>2 DEF Admitted, ActiveOK
  <2>. QED
    BY <2>1, <2>3, <2>4 DEF ActiveOK
<1>. QED
  BY <1>1, <1>2, ActiveStep

\* A run that is going on belongs to an active row.
LEMMA GoingIsActive ==
    ASSUME IInv, NEW i \in Runs, life[i] = "going" PROVE owner[i] \in ActiveJobs
<1>1. owner[i] \in Requests
  BY DEF IInv, TypeOK, ProviderOK
<1>2. PICK r \in Requests : r = owner[i]
  BY <1>1
<1>3. status[r] \notin {"none", "queued", "failed"}
  BY <1>2 DEF IInv, RowOK, Unknown
<1>4. status[r] \notin {"succeeded", "review"}
  <2>1. ASSUME status[r] \in {"succeeded", "review"} PROVE FALSE
    <3>1. runOf[r] \in Runs /\ owner[runOf[r]] = r /\ life[runOf[r]] = "completed"
      BY <2>1 DEF IInv, RowOK, TypeOK, OwnRunOnly
    <3>2. runOf[r] = i
      BY <1>2, <3>1, AbsentAssumption DEF IInv, AtMostOnePaidRun
    <3>. QED  BY <3>1, <3>2
  <2>. QED  BY <2>1
<1>. QED
  BY <1>2, <1>3, <1>4 DEF ActiveJobs, Active, Settled, IInv, TypeOK

\* However many requests the browsers make, at most MaxActive runs cost money
\* at a time, and at most one of a security.
THEOREM Bounded == Spec => []SpendingBounded
<1>1. ASSUME IInv, ActiveOK PROVE SpendingBounded
  <2>. DEFINE going == {i \in Runs : life[i] = "going"}
              f == [i \in going |-> owner[i]]
  <2>1. \A i \in going : owner[i] \in ActiveJobs
    BY <1>1, GoingIsActive
  <2>2. \A i, j \in going : owner[i] = owner[j] => i = j
    <3>1. \A i \in going : owner[i] # Absent
      BY <1>1 DEF IInv, ProviderOK
    <3>. QED  BY <1>1, <3>1 DEF IInv, AtMostOnePaidRun
  <2>3. f \in Injection(going, ActiveJobs)
    BY <2>1, <2>2 DEF Injection, IsInjective
  <2>4. IsFiniteSet(going) /\ Cardinality(going) =< Cardinality(ActiveJobs)
    BY <1>1, <2>3, FS_Injection DEF ActiveOK
  <2>5. Cardinality(going) \in Nat /\ Cardinality(ActiveJobs) \in Nat
    BY <1>1, <2>4, FS_CardinalityType DEF ActiveOK
  <2>6. Cardinality(going) =< MaxActive
    BY <1>1, <2>4, <2>5, BoundAssumption DEF ActiveOK
  <2>7. \A i, j \in going : Target[owner[i]] = Target[owner[j]] => i = j
    BY <1>1, <2>1, <2>2 DEF ActiveOK
  <2>. QED
    BY <2>6, <2>7 DEF SpendingBounded
<1>. QED
  BY <1>1, Invariance, ActiveInit, ActiveInductive, PTL DEF Spec
=============================================================================
