------------------------- MODULE CouncilJobsProofs -------------------------
(* Theorems about CouncilJobs, for any stocks, ids and error limits.       *)
EXTENDS CouncilJobs, TLAPS

LEMMA Constants ==
    /\ Memo \notin Stocks /\ Memo \in Keys /\ Stocks \subseteq Keys
    /\ None \notin Ids
    /\ StockErrors \in Nat /\ StockErrors >= 1 /\ 0 \in 0 .. StockErrors - 1
    /\ MemoErrors \in Nat /\ MemoErrors >= 1 /\ 0 \in 0 .. MemoErrors - 1
    /\ MaxFaults \in Nat /\ 0 \in 0 .. MaxFaults
  BY CouncilAssumption DEF Keys

-----------------------------------------------------------------------------
(* Types. The parts of the state change apart from each other.             *)

Memos == [status : JobStates \cup {"uncertain"}, job : Ids \cup {None},
          sub : Ids \cup {None}, summary : BOOLEAN]
Tasks == [at : Steps, id : Ids \cup {None}, errors : 0 .. StockErrors - 1]

LEMMA MemoValues ==
    /\ NoMemo \in Memos /\ Failed \in Memos
    /\ \A i \in Ids : Uncertain(i) \in Memos
    /\ \A i \in Ids, s \in JobStates : Following(i, s) \in Memos
    /\ \A i \in Ids, s \in JobStates :
          [Following(i, s) EXCEPT !.sub = i] \in Memos
    /\ \A i \in Ids, s \in JobStates :
          [Following(i, s) EXCEPT !.summary = TRUE] \in Memos
  BY DEF NoMemo, Failed, Uncertain, Following, Memos, JobStates

LEMMA MemoJobs ==
    ASSUME NEW i \in Ids, NEW s
    PROVE  /\ Following(i, s).job = i
           /\ [Following(i, s) EXCEPT !.sub = i].job = i
           /\ [Following(i, s) EXCEPT !.summary = TRUE].job = i
  BY DEF NoMemo, Following

LEMMA PollerValues == \A i \in Ids, o \in {"mount", "run"} : Poller(o, i) \in Pollers
  BY Constants DEF Poller, Pollers

LEMMA TaskValues ==
    ASSUME task \in [Keys -> Tasks], NEW k \in Keys
    PROVE  /\ End(k) => task' \in [Keys -> Tasks]
           /\ \A at \in Steps, i \in Ids \cup {None} : Set(k, at, i) => task' \in [Keys -> Tasks]
<1>1. NoTask \in Tasks
  BY Constants DEF NoTask, Tasks, Steps
<1>2. \A at \in Steps, i \in Ids \cup {None} : [NoTask EXCEPT !.at = at, !.id = i] \in Tasks
  BY Constants DEF NoTask, Tasks, Steps
<1>. QED
  BY <1>1, <1>2 DEF End, Set

LEMMA SetEffect ==
    ASSUME task \in [Keys -> Tasks], NEW k \in Keys, NEW at \in Steps, NEW i \in Ids \cup {None},
           Set(k, at, i)
    PROVE  /\ task' \in [Keys -> Tasks]
           /\ task'[k].at = at /\ task'[k].id = i
           /\ \A q \in Keys \ {k} : task'[q] = task[q]
  BY TaskValues DEF Set, NoTask

LEMMA TypeInit == Init => TypeOK
<1>. SUFFICES ASSUME Init PROVE TypeOK
  OBVIOUS
<1>1. task \in [Keys -> Tasks]
  BY Constants DEF Init, NoTask, Tasks, Steps
<1>2. memo \in Memos
  BY MemoValues DEF Init
<1>. QED
  BY <1>1, <1>2, Constants DEF Init, TypeOK, Tasks, Memos, JobStates

LEMMA Types ==
    TypeOK <=> /\ pending \in [Keys -> Ids \cup {None}]
               /\ memo \in Memos
               /\ task \in [Keys -> Tasks]
               /\ mount \in Ids \cup {None}
               /\ polls \subseteq Pollers
               /\ key \in [Ids -> Keys]
               /\ post \in [Ids -> {"none", "handler", "upstream", "done"}]
               /\ answer \in [Ids -> {"none", "job", "refused", "uncertain"}]
               /\ job \in [Ids -> JobStates]
               /\ paid \in [Ids -> Nat]
               /\ told \in [Ids -> {"unused", "sent", "job", "refused", "forgotten"}]
               /\ faults \in 0 .. MaxFaults
  BY DEF TypeOK, Memos, Tasks

-----------------------------------------------------------------------------
(* The inductive invariant.                                                *)

\* A task that submits, looks up or follows has the id it is about.
HasId == \A k \in Keys : task[k].at \notin {"idle", "prepare"} => task[k].id \in Ids

\* What is polled or shown as running is a job the Council has made.
JobKnown ==
    /\ \A k \in Keys : task[k].at \in {"poll", "result", "latest"} => job[task[k].id] # "none"
    /\ \A p \in polls : job[p.job] # "none"
    /\ memo.status = "running" => memo.job \in Ids /\ job[memo.job] # "none"

\* Where a request can be after what has been said about it.
Route ==
    \A i \in Ids :
        /\ told[i] = "unused" <=> post[i] = "none"
        /\ post[i] \in {"none", "handler"} => answer[i] = "none"
        /\ post[i] # "done" => paid[i] = 0 /\ job[i] = "none" /\ answer[i] \notin {"job", "refused"}
        /\ answer[i] = "job" => job[i] # "none"
        /\ answer[i] = "refused" \/ told[i] = "refused" => paid[i] = 0 /\ post[i] = "done"
        /\ paid[i] =< 1

\* The submission of a stock whose answer is not known is the one stored.
Kept ==
    /\ \A i \in Ids : told[i] = "sent" /\ key[i] \in Stocks => pending[key[i]] = i
    /\ \A k \in Stocks : task[k].at \in {"lookup", "post", "recheck"} => pending[k] = task[k].id

IInv == TypeOK /\ HasId /\ JobKnown /\ Route /\ Kept

LEMMA InvInit == Init => IInv
<1>. SUFFICES ASSUME Init PROVE IInv
  OBVIOUS
<1>1. TypeOK
  BY TypeInit
<1>. QED
  BY <1>1, Constants DEF Init, IInv, HasId, JobKnown, Route, Kept, NoTask, NoMemo, Keys

LEMMA AnswerValue ==
    ASSUME TypeOK, NEW i \in Ids,
           NEW u \in {"job", "preflight", "credentials", "rejected", "error", "timeout", "blank"},
           Answer(i, u)
    PROVE  /\ answer' \in [Ids -> {"none", "job", "refused", "uncertain"}]
           /\ \A j \in Ids \ {i} : answer'[j] = answer[j]
           /\ answer'[i] = IF answer[i] = "none" THEN ProxyAnswer(u) ELSE answer[i]
           /\ ProxyAnswer(u) = "refused" <=> u \in {"preflight", "credentials", "rejected"}
           /\ ProxyAnswer(u) = "job" <=> u = "job"
  BY DEF TypeOK, Answer, ProxyAnswer

LEMMA InvService ==
    ASSUME IInv, NEW i \in Ids, Service(i)
    PROVE  IInv'
<1>. USE DEF IInv
<1>1. UNCHANGED <<storage, page, key, told, faults>>
  BY DEF Service, Deny, Forward, LoseRequest, ProxyTimeout, Accept, Refuse, EndJob
<1>2. /\ post' \in [Ids -> {"none", "handler", "upstream", "done"}]
      /\ answer' \in [Ids -> {"none", "job", "refused", "uncertain"}]
      /\ job' \in [Ids -> JobStates]
      /\ paid' \in [Ids -> Nat]
      /\ Route'
      /\ \A j \in Ids : job[j] # "none" => job'[j] # "none"
  <2>. USE Types
  <2>0. UNCHANGED <<pending, memo, task, mount, polls, key, told, faults>>
    BY <1>1 DEF storage, page
  <2>1. CASE Deny(i)
    BY <2>0, <2>1 DEF Deny, Move, Route
  <2>2. CASE Forward(i)
    BY <2>0, <2>2 DEF Forward, Move, Route
  <2>3. CASE LoseRequest(i)
    BY <2>0, <2>3, AnswerValue DEF LoseRequest, Answered, Move, Route
  <2>4. CASE ProxyTimeout(i)
    BY <2>0, <2>4, AnswerValue DEF ProxyTimeout, Route
  <2>5. CASE Accept(i)
    BY <2>0, <2>5, AnswerValue DEF Accept, Answered, Move, Route, JobStates
  <2>6. CASE Refuse(i)
    BY <2>0, <2>6, AnswerValue DEF Refuse, Answered, Move, Route
  <2>7. CASE EndJob(i)
    BY <2>0, <2>7 DEF EndJob, Route, JobStates
  <2>. QED
    BY <2>1, <2>2, <2>3, <2>4, <2>5, <2>6, <2>7 DEF Service
<1>3. HasId' /\ JobKnown' /\ Kept'
  BY <1>1, <1>2, Types DEF HasId, JobKnown, Kept, storage, page, Pollers, Keys
<1>4. TypeOK'
  BY <1>1, <1>2 DEF TypeOK, storage, page
<1>. QED
  BY <1>2, <1>3, <1>4

\* What Follow does to the page, for a job the Council has made.
LEMMA FollowEffect ==
    ASSUME IInv, NEW k \in Keys, NEW i \in Ids, NEW s \in {"running", "succeeded", "failed"},
           Follow(k, i, s), job[i] # "none"
    PROVE  /\ memo' \in Memos /\ polls' \subseteq Pollers /\ task' \in [Keys -> Tasks]
           /\ task'[k].at \in {"idle", "poll", "result"}
           /\ task'[k].at # "idle" => task'[k].id = i
           /\ \A q \in Keys \ {k} : task'[q] = task[q]
           /\ \A p \in polls' : p.job = i \/ p \in polls
           /\ memo' = memo \/ memo'.job = i
<1>. USE DEF IInv
<1>1. task \in [Keys -> Tasks] /\ memo \in Memos /\ polls \subseteq Pollers
  BY Types
<1>2. CASE k = Memo
  <2>1. memo' = Following(i, s) /\ polls' = polls \cup {Poller("run", i)} /\ End(k)
    BY <1>2 DEF Follow
  <2>2. memo' \in Memos /\ memo'.job = i
    BY <2>1, MemoValues, MemoJobs DEF JobStates
  <2>3. polls' \subseteq Pollers /\ \A p \in polls' : p.job = i \/ p \in polls
    <3>1. Poller("run", i) \in Pollers
      BY PollerValues
    <3>2. Poller("run", i).job = i
      BY DEF Poller
    <3>. QED
      BY <1>1, <2>1, <3>1, <3>2
  <2>4. /\ task' \in [Keys -> Tasks] /\ task'[k].at = "idle"
        /\ \A q \in Keys \ {k} : task'[q] = task[q]
    BY <1>1, <2>1, TaskValues DEF End, NoTask
  <2>. QED
    BY <2>2, <2>3, <2>4
<1>3. CASE k # Memo
  <2>1. UNCHANGED <<memo, polls>> /\ (End(k) \/ Set(k, "poll", i) \/ Set(k, "result", i))
    BY <1>3 DEF Follow
  <2>2. CASE End(k)
    BY <1>1, <2>1, <2>2, TaskValues DEF End, NoTask
  <2>3. ASSUME NEW at \in {"poll", "result"}, Set(k, at, i)
        PROVE  /\ task' \in [Keys -> Tasks] /\ task'[k].at = at /\ task'[k].id = i
               /\ \A q \in Keys \ {k} : task'[q] = task[q]
    BY <1>1, <2>3, SetEffect DEF Steps
  <2>. QED
    BY <1>1, <2>1, <2>2, <2>3
<1>. QED
  BY <1>2, <1>3

LEMMA GiveUpEffect ==
    ASSUME IInv, NEW k \in Keys, NEW m \in Memos, m.status # "running", GiveUp(k, m)
    PROVE  /\ memo' \in Memos /\ polls' = polls /\ task' \in [Keys -> Tasks]
           /\ task'[k].at = "idle"
           /\ \A q \in Keys \ {k} : task'[q] = task[q]
           /\ memo' = memo \/ memo'.status # "running"
<1>1. task \in [Keys -> Tasks] /\ memo \in Memos
  BY Types DEF IInv
<1>. QED
  BY <1>1, TaskValues DEF GiveUp, End, NoTask

\* The browser learns of the job of a submission: of the one the key stores.
LEMMA InvLearn ==
    ASSUME IInv, NEW k \in Keys, NEW s \in {"running", "succeeded", "failed"},
           task[k].at \in {"lookup", "post", "recheck"}, job[task[k].id] # "none",
           ClearPending(k), Tell(task[k].id, "job"), Follow(k, task[k].id, s),
           UNCHANGED <<mount, council, key, faults>>
    PROVE  IInv'
<1>. DEFINE i == task[k].id
<1>. USE DEF IInv
<1>0. i \in Ids /\ UNCHANGED <<mount, post, answer, job, paid, key, faults>>
  BY DEF HasId, council
<1>1. /\ memo' \in Memos /\ polls' \subseteq Pollers /\ task' \in [Keys -> Tasks]
      /\ task'[k].at \in {"idle", "poll", "result"}
      /\ task'[k].at # "idle" => task'[k].id = i
      /\ \A q \in Keys \ {k} : task'[q] = task[q]
      /\ \A p \in polls' : p.job = i \/ p \in polls
      /\ memo' = memo \/ memo'.job = i
  BY <1>0, FollowEffect
<1>2. /\ pending' \in [Keys -> Ids \cup {None}] /\ pending'[k] = None
      /\ \A q \in Keys \ {k} : pending'[q] = pending[q]
      /\ told' \in [Ids -> {"unused", "sent", "job", "refused", "forgotten"}]
      /\ told'[i] = "job" /\ \A j \in Ids \ {i} : told'[j] = told[j]
  BY <1>0, Types DEF ClearPending, Tell
<1>3. TypeOK'
  BY <1>0, <1>1, <1>2, Types DEF TypeOK, Memos, Tasks
<1>4. HasId' /\ JobKnown'
  BY <1>0, <1>1 DEF HasId, JobKnown
<1>5. Route'
  BY <1>0, <1>2 DEF Route
<1>6. Kept'
  BY <1>0, <1>1, <1>2, Constants, Types DEF Kept
<1>. QED
  BY <1>3, <1>4, <1>5, <1>6

LEMMA InvSubmission ==
    ASSUME IInv, NEW k \in Keys, Submission(k)
    PROVE  IInv'
<1>. USE DEF IInv
<1>. DEFINE i == task[k].id
<1>1. CASE LookUp(k)
  <2>1. /\ task' \in [Keys -> Tasks] /\ task'[k].at = "lookup" /\ task'[k].id = pending[k]
        /\ pending[k] \in Ids
        /\ \A q \in Keys \ {k} : task'[q] = task[q]
        /\ UNCHANGED <<storage, mount, polls, council, key, told, faults>>
    BY <1>1, Types, TaskValues DEF LookUp, Set, NoTask, Steps
  <2>2. UNCHANGED <<pending, memo, mount, polls, post, answer, job, paid, key, told, faults>>
    BY <2>1 DEF storage, council
  <2>3. TypeOK'
    BY <2>1, <2>2, Types DEF TypeOK, Memos, Tasks
  <2>4. HasId' /\ JobKnown'
    BY <2>1, <2>2, Types DEF HasId, JobKnown
  <2>5. Route'
    BY <2>2 DEF Route
  <2>6. Kept'
    BY <2>1, <2>2, Types, Constants DEF Kept
  <2>. QED
    BY <2>3, <2>4, <2>5, <2>6
<1>2. ASSUME NEW n \in Ids, Submit(k, n) PROVE IInv'
  <2>1. /\ task' \in [Keys -> Tasks] /\ task'[k].at = "post" /\ task'[k].id = n
        /\ \A q \in Keys \ {k} : task'[q] = task[q]
    BY <1>2, Types, TaskValues DEF Submit, Set, NoTask, Steps
  <2>2. /\ pending' \in [Keys -> Ids \cup {None}] /\ pending[k] = None /\ pending'[k] = n
        /\ \A q \in Keys \ {k} : pending'[q] = pending[q]
        /\ told' \in [Ids -> {"unused", "sent", "job", "refused", "forgotten"}]
        /\ told[n] = "unused" /\ told'[n] = "sent" /\ \A j \in Ids \ {n} : told'[j] = told[j]
        /\ key' \in [Ids -> Keys] /\ key'[n] = k /\ \A j \in Ids \ {n} : key'[j] = key[j]
        /\ post' \in [Ids -> {"none", "handler", "upstream", "done"}]
        /\ post'[n] = "handler" /\ \A j \in Ids \ {n} : post'[j] = post[j]
        /\ UNCHANGED <<memo, mount, polls, answer, job, paid, faults>>
    BY <1>2, Types DEF Submit, Tell, Move
  <2>3. TypeOK'
    BY <2>1, <2>2, Types DEF TypeOK, Memos, Tasks
  <2>4. HasId' /\ JobKnown'
    BY <2>1, <2>2 DEF HasId, JobKnown
  <2>5. Route'
    BY <2>2 DEF Route
  <2>6. Kept'
    BY <2>1, <2>2, Constants, Types DEF Kept
  <2>. QED
    BY <2>3, <2>4, <2>5, <2>6
<1>3. CASE Accepted(k)
  <2>1. job[i] # "none"
    BY <1>3 DEF Accepted, HasId, Route
  <2>. QED
    BY <1>3, <2>1, InvLearn DEF Accepted
<1>4. CASE Refused(k)
  <2>0. i \in Ids /\ UNCHANGED <<mount, post, answer, job, paid, key, faults>>
    BY <1>4 DEF Refused, HasId, council
  <2>1. /\ memo' \in Memos /\ polls' = polls /\ task' \in [Keys -> Tasks]
        /\ task'[k].at = "idle"
        /\ \A q \in Keys \ {k} : task'[q] = task[q]
        /\ memo' = memo \/ memo'.status # "running"
    <3>1. Failed \in Memos /\ Failed.status # "running"
      BY MemoValues DEF Failed, NoMemo
    <3>. QED
      BY <1>4, <3>1, GiveUpEffect DEF Refused
  <2>2. /\ pending' \in [Keys -> Ids \cup {None}]
        /\ \A q \in Keys \ {k} : pending'[q] = pending[q]
        /\ told' \in [Ids -> {"unused", "sent", "job", "refused", "forgotten"}]
        /\ told'[i] = "refused" /\ \A j \in Ids \ {i} : told'[j] = told[j]
        /\ answer[i] = "refused" /\ task[k].at = "post"
    BY <1>4, <2>0, Types DEF Refused, ClearPending, Tell
  <2>3. TypeOK'
    BY <2>0, <2>1, <2>2, Types DEF TypeOK, Memos, Tasks
  <2>4. HasId' /\ JobKnown'
    BY <2>0, <2>1 DEF HasId, JobKnown
  <2>5. Route'
    BY <2>0, <2>2 DEF Route
  <2>6. Kept'
    BY <2>0, <2>1, <2>2, Constants, Types DEF Kept
  <2>. QED
    BY <2>3, <2>4, <2>5, <2>6
<1>5. CASE LoseReply(k)
  <2>1. /\ task' \in [Keys -> Tasks] /\ task'[k].at = "recheck" /\ task'[k].id = task[k].id
        /\ task[k].at = "post"
        /\ \A q \in Keys \ {k} : task'[q] = task[q]
        /\ UNCHANGED <<storage, mount, polls, council, key, told, faults>>
    BY <1>5, Types, TaskValues DEF LoseReply, Set, NoTask, Steps, Tasks
  <2>2. UNCHANGED <<pending, memo, mount, polls, post, answer, job, paid, key, told, faults>>
    BY <2>1 DEF storage, council
  <2>3. TypeOK'
    BY <2>1, <2>2, Types DEF TypeOK, Memos, Tasks
  <2>4. HasId' /\ JobKnown'
    BY <2>1, <2>2, Types DEF HasId, JobKnown
  <2>5. Route'
    BY <2>2 DEF Route
  <2>6. Kept'
    BY <2>1, <2>2, Types, Constants DEF Kept
  <2>. QED
    BY <2>3, <2>4, <2>5, <2>6
<1>6. CASE Recovered(k)
  <2>1. job[i] \in {"running", "succeeded", "failed"}
    BY <1>6, Types DEF Recovered, HasId, JobStates
  <2>. QED
    BY <1>6, <2>1, InvLearn DEF Recovered
<1>7. CASE NotRecovered(k)
  <2>0. i \in Ids /\ Uncertain(i) \in Memos /\ Uncertain(i).status # "running"
    BY <1>7, MemoValues DEF NotRecovered, HasId, Uncertain, NoMemo
  <2>1. /\ memo' \in Memos /\ polls' = polls /\ task' \in [Keys -> Tasks]
        /\ task'[k].at = "idle"
        /\ \A q \in Keys \ {k} : task'[q] = task[q]
        /\ memo' = memo \/ memo'.status # "running"
    BY <1>7, <2>0, GiveUpEffect DEF NotRecovered
  <2>2. UNCHANGED <<pending, mount, post, answer, job, paid, key, told, faults>>
    BY <1>7 DEF NotRecovered, council
  <2>3. TypeOK'
    BY <2>1, <2>2, Types DEF TypeOK, Memos, Tasks
  <2>4. HasId' /\ JobKnown'
    BY <2>1, <2>2 DEF HasId, JobKnown
  <2>5. Route'
    BY <2>2 DEF Route
  <2>6. Kept'
    BY <2>1, <2>2, Constants DEF Kept
  <2>. QED
    BY <2>3, <2>4, <2>5, <2>6
<1>. QED
  BY <1>1, <1>2, <1>3, <1>4, <1>5, <1>6, <1>7 DEF Submission

LEMMA InvPrepare ==
    ASSUME IInv, Prepare \/ PrepareFails
    PROVE  IInv'
<1>. USE DEF IInv
<1>1. task \in [Keys -> Tasks] /\ memo \in Memos
  BY Types
<1>2. /\ task' \in [Keys -> Tasks] /\ task'[Memo].at \in {"idle", "prepare"}
      /\ \A q \in Keys \ {Memo} : task'[q] = task[q]
  <2>1. CASE Prepare
    BY <1>1, <2>1, SetEffect, Constants DEF Prepare, Steps
  <2>2. CASE PrepareFails
    BY <1>1, <2>2, TaskValues, Constants DEF PrepareFails, End, NoTask
  <2>. QED
    BY <2>1, <2>2
<1>3. /\ memo' \in Memos
      /\ memo' = memo \/ memo'.status # "running"
      /\ UNCHANGED <<pending, mount, polls, post, answer, job, paid, key, told, faults>>
  BY <1>1, MemoValues DEF Prepare, PrepareFails, Failed, NoMemo, storage, council
<1>4. TypeOK'
  <2>1. UNCHANGED <<pending, mount, polls, post, answer, job, paid, key, told, faults>>
    BY <1>3
  <2>. QED
    BY <1>2, <1>3, <2>1, Types DEF TypeOK, Memos, Tasks
<1>5. HasId' /\ JobKnown'
  BY <1>2, <1>3 DEF HasId, JobKnown
<1>6. Route'
  BY <1>3 DEF Route
<1>7. Kept'
  BY <1>2, <1>3, Constants DEF Kept
<1>. QED
  BY <1>4, <1>5, <1>6, <1>7

\* A stock's run keeps following the job it has, or is over.
LEMMA RunEffect ==
    ASSUME IInv, NEW k \in Stocks, Run(k)
    PROVE  /\ UNCHANGED <<pending, memo, mount, polls, post, answer, job, paid, key, told, faults>>
           /\ task[k].id \in Ids /\ job[task[k].id] # "none"
           /\ task' \in [Keys -> Tasks]
           /\ task'[k].at \in {"idle", "poll", "result", "latest"}
           /\ task'[k].at # "idle" => task'[k].id = task[k].id
           /\ \A q \in Keys \ {k} : task'[q] = task[q]
<1>. USE DEF IInv
<1>1. k \in Keys /\ task \in [Keys -> Tasks]
  BY Types, Constants
<1>2. task[k].at \in {"poll", "result", "latest"} /\ task[k].id \in Ids /\ job[task[k].id] # "none"
  BY <1>1 DEF Run, Poll, PollFails, Finish, HasId, JobKnown
<1>3. UNCHANGED <<pending, memo, mount, polls, post, answer, job, paid, key, told, faults>>
  BY DEF Run, Poll, PollFails, Finish, storage, council
<1>. SUFFICES /\ task' \in [Keys -> Tasks]
              /\ task'[k].at \in {"idle", "poll", "result", "latest"}
              /\ task'[k].at # "idle" => task'[k].id = task[k].id
              /\ \A q \in Keys \ {k} : task'[q] = task[q]
  BY <1>2, <1>3
<1>4. CASE End(k)
  BY <1>1, <1>4, TaskValues DEF End, NoTask
<1>5. ASSUME NEW at \in {"poll", "result", "latest"}, Set(k, at, task[k].id)
      PROVE  /\ task' \in [Keys -> Tasks] /\ task'[k].at = at /\ task'[k].id = task[k].id
             /\ \A q \in Keys \ {k} : task'[q] = task[q]
  BY <1>1, <1>2, <1>5, SetEffect DEF Steps
<1>6. CASE Poll(k)
  <2>1. job[task[k].id] \in {"running", "succeeded", "failed"}
    BY <1>2, Types DEF JobStates
  <2>. QED
    BY <1>4, <1>5, <1>6, <2>1 DEF Poll
<1>7. CASE PollFails(k)
  <2>1. CASE task[k].errors + 1 < StockErrors
    BY <1>1, <1>7, <2>1, Constants DEF PollFails, Tasks
  <2>2. CASE ~(task[k].errors + 1 < StockErrors)
    BY <1>5, <1>7, <2>2 DEF PollFails
  <2>. QED
    BY <2>1, <2>2
<1>8. CASE Finish(k)
  BY <1>4, <1>8 DEF Finish
<1>. QED
  BY <1>6, <1>7, <1>8 DEF Run

LEMMA InvRun ==
    ASSUME IInv, NEW k \in Stocks, Run(k)
    PROVE  IInv'
<1>. USE DEF IInv
<1>1. k \in Keys /\ task \in [Keys -> Tasks]
  BY Types, Constants
<1>2. UNCHANGED <<pending, memo, mount, polls, post, answer, job, paid, key, told, faults>>
  BY RunEffect
<1>3. task[k].id \in Ids /\ job[task[k].id] # "none"
  BY RunEffect
<1>4. /\ task' \in [Keys -> Tasks]
      /\ task'[k].at \in {"idle", "poll", "result", "latest"}
      /\ task'[k].at # "idle" => task'[k].id = task[k].id
      /\ \A q \in Keys \ {k} : task'[q] = task[q]
  BY RunEffect
<1>5. TypeOK'
  BY <1>2, <1>4, Types DEF TypeOK, Memos, Tasks
<1>6. HasId' /\ JobKnown'
  BY <1>1, <1>2, <1>3, <1>4 DEF HasId, JobKnown
<1>7. Route'
  BY <1>2 DEF Route
<1>8. Kept'
  BY <1>1, <1>2, <1>4, Constants DEF Kept
<1>. QED
  BY <1>5, <1>6, <1>7, <1>8

\* A poll loop only writes about the job it polls.
LEMMA InvMemoLoop ==
    ASSUME IInv, NEW p \in polls, MemoPoll(p) \/ MemoResult(p) \/ MemoPollFails(p)
    PROVE  IInv'
<1>. USE DEF IInv
<1>1. /\ p \in Pollers /\ p.job \in Ids /\ job[p.job] \in {"running", "succeeded", "failed"}
      /\ polls \subseteq Pollers /\ memo \in Memos
  BY Types DEF JobKnown, Pollers, JobStates
<1>2. UNCHANGED <<pending, task, mount, post, answer, job, paid, key, told, faults>>
  BY DEF MemoPoll, MemoResult, MemoPollFails, council
<1>3. memo' \in Memos /\ (memo' = memo \/ memo'.job = p.job)
  <2>1. memo' = memo \/ memo' = Following(p.job, job[p.job]) \/ memo' = Following(p.job, "failed")
        \/ memo' = [Following(p.job, "succeeded") EXCEPT !.summary = TRUE]
    <3>1. CASE MemoPoll(p)
      BY <3>1 DEF MemoPoll
    <3>2. CASE MemoResult(p)
      BY <3>2 DEF MemoResult
    <3>3. CASE MemoPollFails(p)
      BY <3>3 DEF MemoPollFails
    <3>. QED
      BY <3>1, <3>2, <3>3
  <2>2. ASSUME NEW s \in {job[p.job], "failed"}, memo' = Following(p.job, s)
        PROVE  memo' \in Memos /\ memo'.job = p.job
    <3>1. s \in JobStates
      BY <1>1 DEF JobStates
    <3>2. Following(p.job, s) \in Memos
      BY <1>1, <3>1, MemoValues
    <3>3. Following(p.job, s).job = p.job
      BY <1>1, MemoJobs
    <3>. QED
      BY <2>2, <3>2, <3>3
  <2>3. CASE memo' = [Following(p.job, "succeeded") EXCEPT !.summary = TRUE]
    <3>1. [Following(p.job, "succeeded") EXCEPT !.summary = TRUE] \in Memos
      BY <1>1, MemoValues DEF JobStates
    <3>2. [Following(p.job, "succeeded") EXCEPT !.summary = TRUE].job = p.job
      BY <1>1, MemoJobs
    <3>. QED
      BY <2>3, <3>1, <3>2
  <2>. QED
    BY <1>1, <2>1, <2>2, <2>3
<1>4. polls' \subseteq Pollers /\ \A q \in polls' : q \in polls \/ q.job = p.job
  <2>0. Replace(p, {}) => polls' \subseteq Pollers /\ \A q \in polls' : q \in polls \/ q.job = p.job
    BY <1>1 DEF Replace
  <2>1. ASSUME NEW r \in Pollers, Replace(p, {r}), r.job = p.job
        PROVE  polls' \subseteq Pollers /\ \A q \in polls' : q \in polls \/ q.job = p.job
    BY <1>1, <2>1 DEF Replace
  <2>2. CASE MemoPoll(p)
    <3>1. \A q \in {[p EXCEPT !.errors = 0], [p EXCEPT !.errors = 0, !.at = "result"]} :
             q \in Pollers /\ q.job = p.job
      BY <1>1, Constants DEF Pollers
    <3>2. \/ Replace(p, {[p EXCEPT !.errors = 0]})
          \/ Replace(p, {[p EXCEPT !.errors = 0, !.at = "result"]})
          \/ Replace(p, {})
      BY <1>1, <2>2 DEF MemoPoll
    <3>. QED
      BY <2>0, <2>1, <3>1, <3>2
  <2>3. CASE MemoResult(p)
    BY <2>0, <2>3 DEF MemoResult
  <2>4. CASE MemoPollFails(p)
    <3>1. CASE p.errors + 1 < MemoErrors
      <4>1. /\ [p EXCEPT !.at = "job", !.errors = @ + 1] \in Pollers
            /\ [p EXCEPT !.at = "job", !.errors = @ + 1].job = p.job
        <5>1. p.errors \in 0 .. MemoErrors - 1
          BY <1>1 DEF Pollers
        <5>2. p.errors + 1 \in 0 .. MemoErrors - 1
          BY <3>1, <5>1, Constants
        <5>. QED
          BY <1>1, <5>2 DEF Pollers
      <4>2. Replace(p, {[p EXCEPT !.at = "job", !.errors = @ + 1]})
        BY <2>4, <3>1 DEF MemoPollFails
      <4>. QED
        BY <2>1, <4>1, <4>2
    <3>2. CASE ~(p.errors + 1 < MemoErrors)
      BY <2>0, <2>4, <3>2 DEF MemoPollFails
    <3>. QED
      BY <3>1, <3>2
  <2>. QED
    BY <2>2, <2>3, <2>4
<1>5. TypeOK'
  BY <1>2, <1>3, <1>4, Types DEF TypeOK, Memos, Tasks
<1>6. HasId' /\ JobKnown'
  BY <1>1, <1>2, <1>3, <1>4 DEF HasId, JobKnown
<1>7. Route' /\ Kept'
  BY <1>2 DEF Route, Kept
<1>. QED
  BY <1>5, <1>6, <1>7

LEMMA InvMounted ==
    ASSUME IInv, Mounted
    PROVE  IInv'
<1>. USE DEF IInv
<1>1. CASE MountRecovered
  <2>1. /\ mount \in Ids /\ job[mount] \in {"running", "succeeded", "failed"}
        /\ UNCHANGED <<task, post, answer, job, paid, key, faults>> /\ mount' = None
    BY <1>1, Types DEF MountRecovered, JobStates, council
  <2>2. memo' \in Memos /\ memo'.job = mount
    BY <1>1, <2>1, MemoValues, MemoJobs DEF MountRecovered, JobStates
  <2>3. polls' \subseteq Pollers /\ \A q \in polls' : q \in polls \/ q.job = mount
    <3>1. Poller("mount", mount) \in Pollers
      BY <2>1, PollerValues
    <3>2. Poller("mount", mount).job = mount
      BY DEF Poller
    <3>. QED
      BY <1>1, <3>1, <3>2, Types DEF MountRecovered
  <2>4. /\ pending' \in [Keys -> Ids \cup {None}]
        /\ \A q \in Keys \ {Memo} : pending'[q] = pending[q]
        /\ told' \in [Ids -> {"unused", "sent", "job", "refused", "forgotten"}]
        /\ told'[mount] = "job" /\ \A j \in Ids \ {mount} : told'[j] = told[j]
    BY <1>1, <2>1, Types DEF MountRecovered, ClearPending, Tell
  <2>5. TypeOK'
    BY <2>1, <2>2, <2>3, <2>4, Types DEF TypeOK, Memos, Tasks
  <2>6. HasId' /\ JobKnown'
    BY <2>1, <2>2, <2>3 DEF HasId, JobKnown
  <2>7. Route'
    BY <2>1, <2>4 DEF Route
  <2>8. Kept'
    BY <2>1, <2>4, Constants, Types DEF Kept
  <2>. QED
    BY <2>5, <2>6, <2>7, <2>8
<1>2. CASE MountNotRecovered
  <2>1. /\ memo' \in Memos /\ memo'.status # "running" /\ mount' = None
        /\ UNCHANGED <<pending, task, polls, post, answer, job, paid, key, told, faults>>
    BY <1>2, MemoValues, Types DEF MountNotRecovered, Uncertain, NoMemo, council
  <2>2. TypeOK'
    BY <2>1, Types DEF TypeOK, Memos, Tasks
  <2>. QED
    BY <2>1, <2>2 DEF HasId, JobKnown, Route, Kept
<1>. QED
  BY <1>1, <1>2 DEF Mounted

LEMMA InvReload ==
    ASSUME IInv, Reload
    PROVE  IInv'
<1>. USE DEF IInv
<1>1. /\ UNCHANGED <<pending, post, answer, job, paid, key, told>> /\ faults' \in 0 .. MaxFaults
  BY Types, Constants DEF Reload, council
<1>2. task' \in [Keys -> Tasks] /\ \A k \in Keys : task'[k].at = "idle"
  BY Constants DEF Reload, NoTask, Tasks, Steps
<1>3. mount' \in Ids \cup {None}
  BY Types, Constants DEF Reload, Mount, Memos
<1>4. memo' \in Memos /\ (memo' = memo \/ memo'.status # "running")
  <2>1. /\ memo' \in {memo, NoMemo} \cup {Uncertain(i) : i \in Ids}
    BY <1>3, Types DEF Reload, Mount
  <2>2. NoMemo.status # "running" /\ \A i \in Ids : Uncertain(i).status # "running"
    BY DEF NoMemo, Uncertain
  <2>. QED
    BY <2>1, <2>2, MemoValues, Types
<1>5. polls' \subseteq Pollers /\ \A p \in polls' : job[p.job] # "none"
  <2>1. CASE polls' = {}
    BY <2>1
  <2>2. CASE memo.status = "running" /\ polls' = {Poller("mount", memo.job)}
    <3>1. memo.job \in Ids /\ job[memo.job] # "none"
      BY <2>2 DEF JobKnown
    <3>2. Poller("mount", memo.job) \in Pollers
      BY <3>1, PollerValues
    <3>3. Poller("mount", memo.job).job = memo.job
      BY DEF Poller
    <3>. QED
      BY <2>2, <3>1, <3>2, <3>3
  <2>. QED
    BY <2>1, <2>2 DEF Reload, Mount
<1>6. TypeOK'
  BY <1>1, <1>2, <1>3, <1>4, <1>5, Types DEF TypeOK, Memos, Tasks
<1>7. HasId' /\ JobKnown'
  BY <1>1, <1>2, <1>4, <1>5 DEF HasId, JobKnown
<1>8. Route'
  BY <1>1 DEF Route
<1>9. Kept'
  BY <1>1, <1>2, Constants DEF Kept
<1>. QED
  BY <1>6, <1>7, <1>8, <1>9

LEMMA InvSignOut ==
    ASSUME IInv, SignOut
    PROVE  IInv'
<1>. USE DEF IInv
<1>1. /\ UNCHANGED <<post, answer, job, paid, key>> /\ faults' \in 0 .. MaxFaults
      /\ mount' = None /\ polls' = {} /\ memo' = NoMemo
      /\ pending' \in [Keys -> Ids \cup {None}]
  BY Types, Constants DEF SignOut, council
<1>2. task' \in [Keys -> Tasks] /\ \A k \in Keys : task'[k].at = "idle"
  BY Constants DEF SignOut, NoTask, Tasks, Steps
<1>3. /\ told' \in [Ids -> {"unused", "sent", "job", "refused", "forgotten"}]
      /\ \A i \in Ids : told'[i] # "sent"
      /\ \A i \in Ids : told'[i] = told[i] \/ (told[i] = "sent" /\ told'[i] = "forgotten")
  BY Types DEF SignOut
<1>4. TypeOK'
  BY <1>1, <1>2, <1>3, MemoValues, Types DEF TypeOK, Memos, Tasks
<1>5. HasId' /\ JobKnown'
  BY <1>1, <1>2 DEF HasId, JobKnown, NoMemo
<1>6. Route'
  BY <1>1, <1>3 DEF Route
<1>7. Kept'
  BY <1>2, <1>3, Constants DEF Kept
<1>. QED
  BY <1>4, <1>5, <1>6, <1>7

LEMMA InvStutter == IInv /\ UNCHANGED vars => IInv'
  BY DEF IInv, TypeOK, HasId, JobKnown, Route, Kept, vars, storage, page, council

LEMMA InvNext == IInv /\ [Next]_vars => IInv'
  BY InvPrepare, InvSubmission, InvRun, InvMemoLoop, InvMounted, InvService, InvReload,
     InvSignOut, InvStutter DEF Next, MemoLoop

-----------------------------------------------------------------------------
(* Theorems.                                                               *)

LEMMA Inductive == Spec => []IInv
  BY InvInit, InvNext, PTL DEF Spec

\* Every variable keeps its type.
THEOREM TypeCorrect == Spec => []TypeOK
  BY Inductive, PTL DEF IInv

\* A submission becomes one paid job at most, whatever the network does.
THEOREM PaidOnce == Spec => []OneJobPerSubmission
<1>1. IInv => OneJobPerSubmission
  BY DEF IInv, Route, OneJobPerSubmission
<1>. QED
  BY <1>1, Inductive, PTL

\* What was shown as refused was not taken and will not be.
THEOREM RefusalHolds == Spec => []NoFalseRefusal
<1>1. IInv => NoFalseRefusal
  BY DEF IInv, Route, NoFalseRefusal
<1>. QED
  BY <1>1, Inductive, PTL

-----------------------------------------------------------------------------
(* What a step tells, charges and submits.                                 *)

\* Most steps of the page leave the service and what it told alone.
LEMMA StepGroups ==
    ASSUME Next
    PROVE  \/ \E k \in Keys : Submission(k)
           \/ MountRecovered
           \/ \E i \in Ids : Service(i) /\ UNCHANGED <<key, told>>
           \/ SignOut
           \/ UNCHANGED <<council, key, told>>
<1>1. ASSUME NEW k \in Stocks, Run(k)
      PROVE  UNCHANGED <<council, key, told>>
  BY <1>1 DEF Run, Poll, PollFails, Finish
<1>2. CASE MemoLoop
  BY <1>2 DEF MemoLoop, MemoPoll, MemoResult, MemoPollFails
<1>3. CASE Prepare \/ PrepareFails \/ MountNotRecovered \/ Reload
  BY <1>3 DEF Prepare, PrepareFails, MountNotRecovered, Reload
<1>4. ASSUME NEW i \in Ids, Service(i)
      PROVE  UNCHANGED <<key, told>>
  BY <1>4 DEF Service, Deny, Forward, LoseRequest, ProxyTimeout, Accept, Refuse, EndJob
<1>. QED
  BY <1>1, <1>2, <1>3, <1>4 DEF Next, Mounted

\* The submissions the page may still ask about.
Asks(i) == \/ \E k \in Keys : \/ pending[k] = i
                              \/ task[k].at \in {"lookup", "post", "recheck"} /\ task[k].id = i
           \/ mount = i
           \/ memo.sub = i

\* What the browser is told by each step.
LEMMA ToldHistory ==
    ASSUME IInv, Next
    PROVE  \/ UNCHANGED told
           \/ \E k \in Keys, n \in Ids : Submit(k, n)
           \/ \E i \in Ids : /\ Asks(i) /\ job[i] # "none" /\ Tell(i, "job")
                             /\ UNCHANGED <<council, key>>
           \/ \E i \in Ids : /\ Asks(i) /\ answer[i] = "refused" /\ Tell(i, "refused")
                             /\ UNCHANGED <<council, key>>
           \/ SignOut
<1>. USE DEF IInv
<1>1. ASSUME NEW k \in Keys, Submission(k)
      PROVE  \/ UNCHANGED told
             \/ \E n \in Ids : Submit(k, n)
             \/ \E i \in Ids : /\ Asks(i) /\ job[i] # "none" /\ Tell(i, "job")
                               /\ UNCHANGED <<council, key>>
             \/ \E i \in Ids : /\ Asks(i) /\ answer[i] = "refused" /\ Tell(i, "refused")
                               /\ UNCHANGED <<council, key>>
  <2>1. CASE Accepted(k) \/ Recovered(k)
    <3>1. task[k].id \in Ids /\ task[k].at \in {"lookup", "post", "recheck"}
      BY <2>1 DEF Accepted, Recovered, HasId
    <3>2. Asks(task[k].id)
      BY <3>1 DEF Asks
    <3>3. job[task[k].id] # "none"
      BY <2>1, <3>1 DEF Accepted, Recovered, Route
    <3>. QED
      BY <2>1, <3>1, <3>2, <3>3 DEF Accepted, Recovered
  <2>2. CASE Refused(k)
    <3>1. task[k].id \in Ids /\ task[k].at = "post"
      BY <2>2 DEF Refused, HasId
    <3>2. Asks(task[k].id)
      BY <3>1 DEF Asks
    <3>3. answer[task[k].id] = "refused"
      BY <2>2 DEF Refused
    <3>. QED
      BY <2>2, <3>1, <3>2, <3>3 DEF Refused
  <2>. QED
    BY <1>1, <2>1, <2>2 DEF Submission, LookUp, LoseReply, NotRecovered
<1>2. ASSUME MountRecovered
      PROVE  \E i \in Ids : /\ Asks(i) /\ job[i] # "none" /\ Tell(i, "job")
                            /\ UNCHANGED <<council, key>>
  <2>1. mount \in Ids /\ Asks(mount)
    BY <1>2, Types DEF MountRecovered, Asks
  <2>. QED
    BY <1>2, <2>1 DEF MountRecovered
<1>. QED
  BY <1>1, <1>2, StepGroups

\* What the service makes of a request.
LEMMA PaidHistory ==
    ASSUME Next
    PROVE  \/ UNCHANGED <<paid, job>>
           \/ \E i \in Ids : (Accept(i) \/ EndJob(i)) /\ UNCHANGED <<key, told>>
<1>1. ASSUME NEW i \in Ids, Service(i)
      PROVE  UNCHANGED <<paid, job>> \/ Accept(i) \/ EndJob(i)
  BY <1>1 DEF Service, Deny, Forward, LoseRequest, ProxyTimeout, Refuse
<1>2. ASSUME NEW k \in Keys, Submission(k)
      PROVE  UNCHANGED <<paid, job>>
  BY <1>2 DEF Submission, LookUp, Submit, Accepted, Refused, LoseReply, Recovered, NotRecovered,
     council
<1>. QED
  BY <1>1, <1>2, StepGroups DEF MountRecovered, SignOut, council

\* The key of a submission is set when it is sent.
LEMMA KeyHistory ==
    ASSUME Next
    PROVE  UNCHANGED key \/ \E k \in Keys, n \in Ids : Submit(k, n)
<1>1. ASSUME NEW k \in Keys, Submission(k)
      PROVE  UNCHANGED key \/ \E n \in Ids : Submit(k, n)
  BY <1>1 DEF Submission, LookUp, Accepted, Refused, LoseReply, Recovered, NotRecovered
<1>. QED
  BY <1>1, StepGroups DEF MountRecovered, SignOut

\* A stock's next submission waits until the answer to the last is known.
THEOREM WaitsForAnswer == Spec => NoBlindRepeat
<1>. DEFINE Step == \A i, j \in Ids :
          /\ told[i] = "unused" /\ told'[i] = "sent" /\ key'[i] \in Stocks
          /\ i # j /\ key[j] = key'[i]
          => told[j] # "sent"
<1>1. ASSUME IInv, Next PROVE Step
  <2>1. CASE \E k \in Keys, n \in Ids : Submit(k, n)
    <3>. PICK k \in Keys, n \in Ids : Submit(k, n)
      BY <2>1
    <3>1. \A j \in Ids \ {n} : told'[j] = told[j]
      BY <1>1 DEF Submit, Tell, IInv, TypeOK
    <3>2. key'[n] = k /\ pending[k] = None
      BY <1>1 DEF Submit, IInv, TypeOK
    <3>. QED
      BY <1>1, <3>1, <3>2, Constants DEF IInv, Kept
  <2>2. CASE ~\E k \in Keys, n \in Ids : Submit(k, n)
    <3>1. \A i \in Ids : told'[i] = told[i] \/ told'[i] # "sent"
      <4>1. ASSUME NEW i \in Ids, NEW what \in {"job", "refused"}, Tell(i, what)
            PROVE  \A n \in Ids : told'[n] = told[n] \/ told'[n] # "sent"
        BY <1>1, <4>1, Types DEF IInv, Tell
      <4>2. CASE SignOut
        BY <4>2 DEF SignOut
      <4>. QED
        BY <1>1, <2>2, <4>1, <4>2, ToldHistory
    <3>. QED
      BY <3>1
  <2>. QED
    BY <2>1, <2>2
<1>2. IInv /\ [Next]_vars => [Step]_vars
  BY <1>1
<1>. QED
  BY <1>2, Inductive, PTL DEF Spec, NoBlindRepeat

-----------------------------------------------------------------------------
(* The promise of PaidSubmission.                                          *)

\* A job is a paid job, and one the owner was told of.
Truth == \A i \in Ids : /\ job[i] = "none" <=> paid[i] = 0
                        /\ told[i] = "job" => paid[i] # 0

\* What the page may still ask about was not forgotten.
Held == \A i \in Ids : Asks(i) => told[i] # "forgotten"

\* A task that is not sent on, and what it then asks about.
LEMMA TaskAsks ==
    ASSUME IInv, NEW k \in Keys, NEW at \in Steps, NEW i \in Ids \cup {None},
           Set(k, at, i) \/ (at = "idle" /\ End(k))
    PROVE  /\ task'[k].at = at /\ (at # "idle" => task'[k].id = i)
           /\ \A q \in Keys \ {k} : task'[q] = task[q]
<1>1. task \in [Keys -> Tasks]
  BY Types DEF IInv
<1>2. CASE Set(k, at, i)
  BY <1>1, <1>2, SetEffect
<1>3. CASE at = "idle" /\ End(k)
  BY <1>1, <1>3 DEF End, NoTask
<1>. QED
  BY <1>2, <1>3

LEMMA Subs ==
    /\ \A i, s : Following(i, s).sub = None
    /\ \A i, s : [Following(i, s) EXCEPT !.summary = TRUE].sub = None
    /\ \A i, j, s : [Following(i, s) EXCEPT !.sub = j].sub = j
    /\ \A i : Uncertain(i).sub = i
    /\ Failed.sub = None /\ NoMemo.sub = None
BY DEF Following, Uncertain, Failed, NoMemo

\* The page asks about what it asked about before, or has just sent.
LEMMA AskedBefore ==
    ASSUME IInv, Next, ~SignOut, NEW i \in Ids, Asks(i)'
    PROVE  Asks(i) \/ told'[i] = "sent"
<1>. USE DEF IInv
<1>0. i # None
  BY Constants
<1>1. ASSUME UNCHANGED <<pending, mount>>, memo'.sub \in {memo.sub, None},
             \A k \in Keys : task'[k] = task[k] \/ task'[k].at \notin {"lookup", "post", "recheck"}
      PROVE  Asks(i)
  BY <1>0, <1>1 DEF Asks
<1>2. ASSUME NEW k \in Keys, Submission(k)
      PROVE  Asks(i) \/ told'[i] = "sent"
  <2>0. UNCHANGED mount
    BY <1>2 DEF Submission, LookUp, Submit, Accepted, Refused, LoseReply, Recovered, NotRecovered
  <2>1. CASE LookUp(k) \/ LoseReply(k)
    <3>1. PICK at \in {"lookup", "recheck"}, j \in Ids : Set(k, at, j) /\ Asks(j)
      BY <2>1, Types DEF LookUp, LoseReply, HasId, Asks
    <3>2. task'[k].id = j /\ \A q \in Keys \ {k} : task'[q] = task[q]
      BY <3>1, TaskAsks DEF Steps
    <3>3. UNCHANGED <<pending, memo>>
      BY <2>1 DEF LookUp, LoseReply, storage
    <3>. QED
      BY <2>0, <3>1, <3>2, <3>3 DEF Asks
  <2>2. ASSUME NEW n \in Ids, Submit(k, n)
        PROVE  Asks(i) \/ told'[i] = "sent"
    <3>1. /\ pending'[k] = n /\ \A q \in Keys \ {k} : pending'[q] = pending[q]
          /\ told'[n] = "sent" /\ UNCHANGED memo
      BY <2>2, Types DEF Submit, Tell
    <3>2. task'[k].id = n /\ \A q \in Keys \ {k} : task'[q] = task[q]
      BY <2>2, TaskAsks DEF Submit, Steps
    <3>. QED
      BY <2>0, <3>1, <3>2 DEF Asks
  <2>3. CASE Accepted(k) \/ Recovered(k)
    <3>1. PICK s \in {"running", "succeeded", "failed"} : Follow(k, task[k].id, s)
      BY <2>3, Types DEF Accepted, Recovered, HasId, JobStates
    <3>2. task[k].id \in Ids
      BY <2>3 DEF Accepted, Recovered, HasId
    <3>3. /\ pending'[k] = None /\ \A q \in Keys \ {k} : pending'[q] = pending[q]
      BY <2>3, Types DEF Accepted, Recovered, ClearPending
    <3>4. memo' = memo \/ memo'.sub = None
      <4>1. Following(task[k].id, s).sub = None
        BY Subs
      <4>. QED
        BY <3>1, <4>1 DEF Follow
    <3>5. /\ task'[k].at \in {"idle", "poll", "result"}
          /\ \A q \in Keys \ {k} : task'[q] = task[q]
      <4>1. PICK at \in {"idle", "poll", "result"} :
               Set(k, at, task[k].id) \/ (at = "idle" /\ End(k))
        BY <3>1 DEF Follow
      <4>. QED
        BY <3>2, <4>1, TaskAsks DEF Steps
    <3>. QED
      BY <1>0, <2>0, <3>3, <3>4, <3>5 DEF Asks
  <2>4. CASE Refused(k) \/ NotRecovered(k)
    <3>1. PICK m \in {Failed, Uncertain(task[k].id)} : GiveUp(k, m)
      BY <2>4 DEF Refused, NotRecovered
    <3>2. task[k].id \in Ids /\ Asks(task[k].id)
      BY <2>4 DEF Refused, NotRecovered, HasId, Asks
    <3>3. \A q \in Keys : pending'[q] \in {pending[q], None}
      BY <2>4, Types DEF Refused, NotRecovered, ClearPending
    <3>4. memo' = memo \/ memo'.sub \in {None, task[k].id}
      BY <3>1, Subs DEF GiveUp
    <3>5. task'[k].at = "idle" /\ \A q \in Keys \ {k} : task'[q] = task[q]
      BY <3>1, <3>2, TaskAsks DEF GiveUp, Steps
    <3>. QED
      BY <1>0, <2>0, <3>2, <3>3, <3>4, <3>5 DEF Asks
  <2>. QED
    BY <1>2, <2>1, <2>2, <2>3, <2>4 DEF Submission
<1>3. ASSUME NEW k \in Stocks, Run(k)
      PROVE  Asks(i)
  <2>1. /\ UNCHANGED <<pending, mount, memo>>
        /\ task'[k].at \notin {"lookup", "post", "recheck"}
        /\ \A q \in Keys \ {k} : task'[q] = task[q]
    BY <1>3, RunEffect
  <2>. QED
    BY <1>1, <2>1
<1>4. CASE Prepare \/ PrepareFails
  <2>1. UNCHANGED <<pending, mount>> /\ memo'.sub \in {memo.sub, None}
    BY <1>4, Subs DEF Prepare, PrepareFails, storage
  <2>2. /\ task'[Memo].at \in {"prepare", "idle"}
        /\ \A q \in Keys \ {Memo} : task'[q] = task[q]
    BY <1>4, Constants, TaskAsks DEF Prepare, PrepareFails, Steps
  <2>. QED
    BY <1>1, <2>1, <2>2
<1>5. CASE MemoLoop
  <2>1. UNCHANGED <<pending, mount, task>> /\ memo'.sub \in {memo.sub, None}
    <3>1. PICK p \in polls : MemoPoll(p) \/ MemoResult(p) \/ MemoPollFails(p)
      BY <1>5 DEF MemoLoop
    <3>2. /\ \A s : Following(p.job, s).sub = None
          /\ [Following(p.job, "succeeded") EXCEPT !.summary = TRUE].sub = None
      BY Subs
    <3>. QED
      BY <3>1, <3>2 DEF MemoPoll, MemoResult, MemoPollFails
  <2>. QED
    BY <1>1, <2>1
<1>6. CASE Mounted
  <2>1. /\ \A q \in Keys : pending'[q] \in {pending[q], None}
        /\ UNCHANGED task /\ mount' = None /\ memo'.sub = mount
    <3>1. [Following(mount, job[mount]) EXCEPT !.sub = mount].sub = mount
          /\ Uncertain(mount).sub = mount
      BY Subs
    <3>2. CASE MountRecovered
      BY <3>1, <3>2, Types DEF MountRecovered, ClearPending
    <3>3. CASE MountNotRecovered
      BY <3>1, <3>3 DEF MountNotRecovered
    <3>. QED
      BY <1>6, <3>2, <3>3 DEF Mounted
  <2>. QED
    BY <1>0, <2>1 DEF Asks
<1>7. ASSUME NEW n \in Ids, Service(n)
      PROVE  Asks(i)
  <2>1. UNCHANGED <<pending, memo, task, mount>>
    BY <1>7 DEF Service, Deny, Forward, LoseRequest, ProxyTimeout, Accept, Refuse, EndJob,
       storage, page
  <2>. QED
    BY <1>1, <2>1
<1>8. CASE Reload
  <2>1. UNCHANGED pending /\ \A k \in Keys : task'[k].at = "idle"
    BY <1>8 DEF Reload, NoTask
  <2>2. /\ mount' \in {None, memo.sub, pending[Memo]}
        /\ memo'.sub \in {None, memo.sub, mount'}
    BY <1>8, Subs DEF Reload, Mount
  <2>. QED
    BY <1>0, <2>1, <2>2, Constants DEF Asks
<1>. QED
  BY <1>2, <1>3, <1>4, <1>5, <1>6, <1>7, <1>8 DEF Next

PInv == IInv /\ Truth /\ Held

LEMMA TruthStep ==
    ASSUME PInv, Next
    PROVE  Truth'
<1>. USE DEF PInv, IInv
<1>1. paid \in [Ids -> Nat] /\ job \in [Ids -> JobStates]
      /\ told \in [Ids -> {"unused", "sent", "job", "refused", "forgotten"}]
  BY Types
<1>2. \A i \in Ids : /\ job'[i] = "none" <=> paid'[i] = 0
                     /\ paid[i] # 0 => paid'[i] # 0
  <2>1. ASSUME NEW n \in Ids, Accept(n) \/ EndJob(n), NEW i \in Ids
        PROVE  /\ job'[i] = "none" <=> paid'[i] = 0
               /\ paid[i] # 0 => paid'[i] # 0
    BY <1>1, <2>1 DEF Accept, EndJob, Truth
  <2>. QED
    BY <2>1, PaidHistory DEF Truth
<1>3. \A i \in Ids : told'[i] = "job" => told[i] = "job" \/ job[i] # "none"
  <2>1. ASSUME NEW n \in Ids, NEW what \in {"sent", "job", "refused"}, Tell(n, what), NEW i \in Ids
        PROVE  told'[i] = IF i = n THEN what ELSE told[i]
    BY <1>1, <2>1 DEF Tell
  <2>. QED
    BY <1>1, <2>1, ToldHistory DEF Submit, SignOut
<1>. QED
  BY <1>2, <1>3 DEF Truth

LEMMA HeldStep ==
    ASSUME PInv, Next
    PROVE  Held'
<1>. USE DEF PInv
<1>1. told \in [Ids -> {"unused", "sent", "job", "refused", "forgotten"}]
  BY Types DEF IInv
<1>2. CASE SignOut
  <2>1. /\ \A k \in Keys : pending'[k] = None /\ task'[k].at = "idle"
        /\ mount' = None /\ memo'.sub = None
    BY <1>2, Subs DEF SignOut, NoTask
  <2>. QED
    BY <2>1, Constants DEF Held, Asks
<1>3. CASE ~SignOut
  <2>. SUFFICES ASSUME NEW i \in Ids, Asks(i)'
                PROVE  told'[i] # "forgotten"
    BY DEF Held
  <2>1. CASE Asks(i)
    <3>1. ASSUME NEW n \in Ids, NEW what \in {"sent", "job", "refused"}, Tell(n, what)
          PROVE  told'[i] \in {told[i], what}
      BY <1>1, <3>1 DEF Tell
    <3>. QED
      BY <1>3, <2>1, <3>1, ToldHistory DEF Held, Submit
  <2>. QED
    BY <1>3, <2>1, AskedBefore
<1>. QED
  BY <1>2, <1>3

LEMMA PromiseInvariance == Spec => []PInv
<1>1. Init => Truth /\ Held
  BY Constants DEF Init, Truth, Held, Asks, NoTask, NoMemo
<1>2. PInv /\ [Next]_vars => Truth' /\ Held'
  <2>. SUFFICES ASSUME PInv, [Next]_vars
                PROVE  Truth' /\ Held'
    OBVIOUS
  <2>1. CASE Next
    BY <2>1, TruthStep, HeldStep
  <2>2. CASE UNCHANGED vars
    BY <2>2 DEF vars, storage, page, council, PInv, Truth, Held, Asks
  <2>. QED
    BY <2>1, <2>2
<1>. QED
  BY <1>1, <1>2, Inductive, PTL DEF Spec, PInv

LEMMA PromiseInit == Init => Promise!Init
<1>. SUFFICES ASSUME Init PROVE Promise!Init
  OBVIOUS
<1>1. key \in [Ids -> Keys]
  BY Constants DEF Init
<1>. QED
  BY <1>1 DEF Init, Promise!Init

LEMMA PromiseStep ==
    ASSUME PInv, Next
    PROVE  Promise!Next \/ UNCHANGED <<key, told, paid, job>>
<1>. USE DEF PInv, IInv
<1>1. /\ told \in [Ids -> {"unused", "sent", "job", "refused", "forgotten"}]
      /\ paid \in [Ids -> Nat] /\ job \in [Ids -> JobStates] /\ key \in [Ids -> Keys]
  BY Types
<1>2. ASSUME NEW k \in Keys, NEW n \in Ids, Submit(k, n)
      PROVE  Promise!Send(k, n)
  <2>1. UNCHANGED <<paid, job>> /\ told[n] = "unused" /\ pending[k] = None
    BY <1>2 DEF Submit
  <2>2. k \in Stocks => \A j \in Ids : key[j] = k => told[j] # "sent"
    BY <2>1, Constants DEF Kept
  <2>. QED
    BY <1>2, <2>1, <2>2 DEF Submit, Tell, Promise!Send
<1>3. ASSUME NEW i \in Ids, Asks(i), job[i] # "none", Tell(i, "job"), UNCHANGED <<council, key>>
      PROVE  Promise!Learn(i) \/ UNCHANGED <<key, told, paid, job>>
  <2>1. UNCHANGED <<paid, job>> /\ paid[i] = 1
    BY <1>1, <1>3 DEF council, Truth, Route
  <2>2. told[i] \in {"sent", "job"}
    BY <1>1, <1>3, <2>1 DEF Held, Route
  <2>3. told[i] = "job" => told' = told
    BY <1>1, <1>3 DEF Tell
  <2>. QED
    BY <1>3, <2>1, <2>2, <2>3 DEF Tell, Promise!Learn
<1>4. ASSUME NEW i \in Ids, Asks(i), answer[i] = "refused", Tell(i, "refused"),
             UNCHANGED <<council, key>>
      PROVE  Promise!Refuse(i) \/ UNCHANGED <<key, told, paid, job>>
  <2>1. UNCHANGED <<paid, job>> /\ paid[i] = 0 /\ told[i] \in {"sent", "refused"}
    <3>1. UNCHANGED <<paid, job>> /\ paid[i] = 0 /\ post[i] = "done"
      BY <1>4 DEF council, Route
    <3>. QED
      BY <1>1, <1>4, <3>1 DEF Truth, Held, Route
  <2>2. told[i] = "refused" => told' = told
    BY <1>1, <1>4 DEF Tell
  <2>. QED
    BY <1>4, <2>1, <2>2 DEF Tell, Promise!Refuse
<1>5. ASSUME SignOut
      PROVE  Promise!SignOut
  BY <1>5 DEF SignOut, council, Promise!SignOut
<1>6. ASSUME NEW i \in Ids, Accept(i), UNCHANGED <<key, told>>
      PROVE  Promise!Charge(i)
  <2>1. paid[i] = 0 /\ told[i] \in {"sent", "forgotten"}
    BY <1>1, <1>6 DEF Accept, Route, Truth
  <2>2. paid' = [paid EXCEPT ![i] = 1]
    BY <1>1, <1>6, <2>1 DEF Accept
  <2>. QED
    BY <1>6, <2>1, <2>2 DEF Accept, Promise!Charge
<1>7. ASSUME NEW i \in Ids, EndJob(i), UNCHANGED <<key, told>>
      PROVE  Promise!End(i)
  BY <1>7 DEF EndJob, Promise!End
<1>. QED
  BY <1>2, <1>3, <1>4, <1>5, <1>6, <1>7, ToldHistory, PaidHistory, KeyHistory
     DEF Promise!Next, council

\* The page, the proxy and the service keep the promise of PaidSubmission: every
\* step is one of its steps or changes nothing the owner pays for or is told.
THEOREM Implements == Spec => KeepsPromise
<1>1. PInv /\ [Next]_vars => [Promise!Next]_<<key, told, paid, job>>
  <2>1. UNCHANGED vars => UNCHANGED <<key, told, paid, job>>
    BY DEF vars, council
  <2>. QED
    BY <2>1, PromiseStep
<1>. QED
  BY <1>1, PromiseInit, PromiseInvariance, PTL DEF Spec, KeepsPromise, Promise!Spec

\* The owner is told the truth for good: whoever keeps the promise does, so no
\* request that is refused, lost, late or forgotten is paid behind his back.
THEOREM Truthful == Spec => []Promise!Honest /\ Promise!Final
<1>. DEFINE Told == {"unused", "sent", "job", "refused", "forgotten"}
            HInv == /\ told \in [Ids -> Told] /\ paid \in [Ids -> Nat]
                    /\ Promise!Honest
<1>1. Promise!Init => HInv
  BY DEF Promise!Init, Promise!Honest
<1>2. ASSUME HInv, Promise!Next
      PROVE  /\ HInv'
             /\ \A i \in Ids : told[i] \in {"job", "refused"} => told'[i] = told[i]
  <2>1. ASSUME NEW i \in Ids, NEW k \in Keys, Promise!Send(k, i)
        PROVE  /\ HInv'
               /\ \A n \in Ids : told[n] \in {"job", "refused"} => told'[n] = told[n]
    BY <1>2, <2>1 DEF Promise!Send, Promise!Honest
  <2>2. ASSUME NEW i \in Ids, Promise!Charge(i)
        PROVE  HInv' /\ told' = told
    BY <1>2, <2>2 DEF Promise!Charge, Promise!Honest
  <2>3. ASSUME NEW i \in Ids, Promise!End(i)
        PROVE  HInv' /\ told' = told
    BY <1>2, <2>3 DEF Promise!End, Promise!Honest
  <2>4. ASSUME NEW i \in Ids, Promise!Learn(i) \/ Promise!Refuse(i)
        PROVE  /\ HInv'
               /\ \A n \in Ids : told[n] \in {"job", "refused"} => told'[n] = told[n]
    BY <1>2, <2>4 DEF Promise!Learn, Promise!Refuse, Promise!Honest
  <2>5. ASSUME Promise!SignOut
        PROVE  /\ HInv'
               /\ \A n \in Ids : told[n] \in {"job", "refused"} => told'[n] = told[n]
    BY <1>2, <2>5 DEF Promise!SignOut, Promise!Honest
  <2>. QED
    BY <1>2, <2>1, <2>2, <2>3, <2>4, <2>5 DEF Promise!Next
<1>3. HInv /\ UNCHANGED <<key, told, paid, job>> => HInv'
  BY DEF Promise!Honest
<1>4. HInv /\ [Promise!Next]_<<key, told, paid, job>>
      => HInv' /\ [\A i \in Ids : told[i] \in {"job", "refused"} => told'[i] = told[i]]_<<key, told, paid, job>>
  BY <1>2, <1>3
<1>. HIDE DEF HInv
<1>5. Promise!Spec => []HInv /\ Promise!Final
  BY <1>1, <1>4, PTL DEF Promise!Spec, Promise!Final
<1>6. HInv => Promise!Honest
  BY DEF HInv
<1>. QED
  BY <1>5, <1>6, Implements, PTL DEF KeepsPromise
=============================================================================
