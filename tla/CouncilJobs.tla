---------------------------- MODULE CouncilJobs ----------------------------
(* Paid Council jobs as one tab of the terminal submits and follows them:  *)
(* lib/council-submission.ts, the proxy of app/api/council, the runner of  *)
(* a stock's analysis and the portfolio memo, over one browser's storage.  *)
(* The Council service itself is external: it may take a request late and  *)
(* its answer may be lost, but it takes a request it has received once.    *)
EXTENDS Naturals, FiniteSets

CONSTANTS
    Stocks,       \* keys of stock analyses
    Memo,         \* the key of the portfolio memo
    Ids,          \* submission ids; the id also names the job made of it
    None,
    StockErrors,  \* consecutive poll errors a stock's run survives, plus one
    MemoErrors,   \* the same for the memo
    MaxFaults     \* bound on reloads and sign-outs

ASSUME CouncilAssumption ==
    /\ Memo \notin Stocks
    /\ None \notin Ids
    /\ StockErrors \in Nat \ {0}
    /\ MemoErrors \in Nat \ {0}
    /\ MaxFaults \in Nat

Keys == Stocks \cup {Memo}

VARIABLES
    pending,  \* localStorage: the submission of a key whose answer is not known
    memo,     \* localStorage: the saved memo, also what the panel shows
    task,     \* the click being worked on, one per key
    mount,    \* the submission the panel looks up since it was mounted
    polls,    \* the memo's running poll loops
    key,      \* the key a submission was made for
    post,     \* where the POST of a submission is
    answer,   \* the proxy's answer to it
    job,      \* the job the Council made of it
    paid,     \* how many jobs the Council made of it
    told,     \* what this browser was told of it
    faults

storage == <<pending, memo>>
page == <<task, mount, polls>>
council == <<post, answer, job, paid>>
vars == <<storage, page, council, key, told, faults>>

NoTask == [at |-> "idle", id |-> None, errors |-> 0]
NoMemo == [status |-> "none", job |-> None, sub |-> None, summary |-> FALSE]
Uncertain(i) == [NoMemo EXCEPT !.status = "uncertain", !.sub = i]
Following(i, s) == [NoMemo EXCEPT !.status = s, !.job = i]
Failed == [NoMemo EXCEPT !.status = "failed"]
Poller(origin, i) == [from |-> origin, job |-> i, at |-> "job", errors |-> 0]

Init ==
    /\ pending = [k \in Keys |-> None]
    /\ memo = NoMemo
    /\ task = [k \in Keys |-> NoTask]
    /\ mount = None
    /\ polls = {}
    /\ key = [i \in Ids |-> Memo]
    /\ post = [i \in Ids |-> "none"]
    /\ answer = [i \in Ids |-> "none"]
    /\ job = [i \in Ids |-> "none"]
    /\ paid = [i \in Ids |-> 0]
    /\ told = [i \in Ids |-> "unused"]
    /\ faults = 0

-----------------------------------------------------------------------------
(* The proxy and the Council                                               *)

Move(i, s) == post' = [post EXCEPT ![i] = s]

\* mutant: 408 is handed on like every other status below 500.
ProxyAnswerStatus(u) ==
    CASE u = "job" -> "job"
      [] u \in {"preflight", "credentials", "rejected", "timeout"} -> "refused"
      [] u \in {"error", "blank"} -> "uncertain"

\* What fetchCouncilJson makes of the Council's answer to a POST, as the browser
\* reads it: a job, a refusal ("not_submitted" or a status below 500), or no
\* knowledge (a status from 500, 408, a success without a job).
ProxyAnswer(u) ==
    CASE u = "job" -> "job"
      [] u \in {"preflight", "credentials", "rejected"} -> "refused"
      [] u \in {"error", "timeout", "blank"} -> "uncertain"

\* The proxy waits for one answer; what comes later reaches nobody.
Answer(i, u) ==
    answer' = [answer EXCEPT ![i] = IF @ = "none" THEN ProxyAnswer(u) ELSE @]

\* mutant: an error is retried for a POST as it is for a GET.
AnsweredRetried(i, u) ==
    IF u = "error" /\ answer[i] = "none"
    THEN Move(i, "upstream") /\ UNCHANGED answer
    ELSE Move(i, "done") /\ Answer(i, u)

Answered(i, u) == Move(i, "done") /\ Answer(i, u)

\* authorizeCouncilRequest and the checks before the upstream request.
Deny(i) ==
    /\ post[i] = "handler"
    /\ Move(i, "done")
    /\ answer' = [answer EXCEPT ![i] = "refused"]
    /\ UNCHANGED <<storage, page, job, paid, key, told, faults>>

Forward(i) ==
    /\ post[i] = "handler"
    /\ Move(i, "upstream")
    /\ UNCHANGED <<storage, page, answer, job, paid, key, told, faults>>

\* The request is lost on its way, or the connection fails.
LoseRequest(i) ==
    /\ post[i] \in {"handler", "upstream"}
    /\ Answered(i, "timeout")
    /\ UNCHANGED <<storage, page, job, paid, key, told, faults>>

\* The proxy stops waiting after 35 seconds; the Council may still work on it.
ProxyTimeout(i) ==
    /\ post[i] = "upstream" /\ answer[i] = "none"
    /\ Answer(i, "timeout")
    /\ UNCHANGED <<storage, page, post, job, paid, key, told, faults>>

\* External: the Council takes the job, whatever its answer then looks like.
Accept(i) ==
    /\ post[i] = "upstream"
    /\ \E u \in {"job", "blank", "error", "timeout"} : Answered(i, u)
    /\ job' = [job EXCEPT ![i] = "running"]
    /\ paid' = [paid EXCEPT ![i] = @ + 1]
    /\ UNCHANGED <<storage, page, key, told, faults>>

\* External: the Council does not take it.
Refuse(i) ==
    /\ post[i] = "upstream"
    /\ \E u \in {"preflight", "credentials", "rejected", "error", "timeout"} :
          Answered(i, u)
    /\ UNCHANGED <<storage, page, job, paid, key, told, faults>>

\* External: a job ends.
EndJob(i) ==
    /\ job[i] = "running"
    /\ \E s \in {"succeeded", "failed"} : job' = [job EXCEPT ![i] = s]
    /\ UNCHANGED <<storage, page, post, answer, paid, key, told, faults>>

-----------------------------------------------------------------------------
(* Submission (lib/council-submission.ts)                                  *)

Set(k, at, i) == task' = [task EXCEPT ![k] = [NoTask EXCEPT !.at = at, !.id = i]]
End(k) == task' = [task EXCEPT ![k] = NoTask]
ClearPending(k) == pending' = [pending EXCEPT ![k] = None]
Tell(i, what) == told' = [told EXCEPT ![i] = what]

\* The memo's button; the payload is loaded before anything is submitted.
Prepare ==
    /\ task[Memo].at = "idle" /\ memo.status # "running"
    /\ Set(Memo, "prepare", None)
    /\ UNCHANGED <<storage, mount, polls, council, key, told, faults>>

PrepareFails ==
    /\ task[Memo].at = "prepare"
    /\ End(Memo)
    /\ memo' = Failed
    /\ UNCHANGED <<pending, mount, polls, council, key, told, faults>>

\* What lets a click submit.  For a stock it is the dialog: councilRunning
\* disables its Run, Confirm, Load latest and saved-run buttons alike, so neither
\* a second run nor a load, whose end clears that flag, begins beside a run.
Ready(k) == IF k = Memo THEN task[k].at = "prepare" ELSE task[k].at = "idle"

\* A known id is looked up first; a new one is stored before it is sent.
LookUp(k) ==
    /\ Ready(k) /\ pending[k] # None
    /\ Set(k, "lookup", pending[k])
    /\ UNCHANGED <<storage, mount, polls, council, key, told, faults>>

\* mutant: the id is kept only once the answer is uncertain.
SubmitUnsaved(k, i) ==
    /\ Ready(k) /\ pending[k] = None /\ told[i] = "unused"
    /\ Set(k, "post", i)
    /\ Move(i, "handler")
    /\ Tell(i, "sent")
    /\ key' = [key EXCEPT ![i] = k]
    /\ UNCHANGED <<storage, mount, polls, answer, job, paid, faults>>

Submit(k, i) ==
    /\ Ready(k) /\ pending[k] = None /\ told[i] = "unused"
    /\ pending' = [pending EXCEPT ![k] = i]
    /\ Set(k, "post", i)
    /\ Move(i, "handler")
    /\ Tell(i, "sent")
    /\ key' = [key EXCEPT ![i] = k]
    /\ UNCHANGED <<memo, mount, polls, answer, job, paid, faults>>

\* What the caller does with the job of its submission, given with status s:
\* the memo saves it and polls on its own, a stock's run goes on to its end.
Follow(k, i, s) ==
    IF k = Memo
    THEN /\ memo' = Following(i, s)
         /\ polls' = polls \cup {Poller("run", i)}
         /\ End(k)
    ELSE /\ CASE s = "running" -> Set(k, "poll", i)
              [] s = "succeeded" -> Set(k, "result", i)
              [] s = "failed" -> End(k)
         /\ UNCHANGED <<memo, polls>>

\* The caller's catch: only the memo keeps what happened.
GiveUp(k, m) ==
    /\ End(k)
    /\ memo' = IF k = Memo THEN m ELSE memo
    /\ UNCHANGED polls

\* The answer arrives in time: a job, a refusal, or no knowledge.
Accepted(k) ==
    LET i == task[k].id IN
    /\ task[k].at = "post" /\ answer[i] = "job"
    /\ ClearPending(k)
    /\ Tell(i, "job")
    /\ Follow(k, i, "running")
    /\ UNCHANGED <<mount, council, key, faults>>

Refused(k) ==
    LET i == task[k].id IN
    /\ task[k].at = "post" /\ answer[i] = "refused"
    /\ ClearPending(k)
    /\ Tell(i, "refused")
    /\ GiveUp(k, Failed)
    /\ UNCHANGED <<mount, council, key, faults>>

\* mutant: the browser's own timer is missing.
LoseReplyAnswered(k) ==
    /\ task[k].at = "post" /\ answer[task[k].id] # "none"
    /\ Set(k, "recheck", task[k].id)
    /\ UNCHANGED <<storage, mount, polls, council, key, told, faults>>

\* The answer is uncertain, unreadable, lost, or late (45 seconds).
LoseReply(k) ==
    /\ task[k].at = "post"
    /\ Set(k, "recheck", task[k].id)
    /\ UNCHANGED <<storage, mount, polls, council, key, told, faults>>

\* recoverCouncilSubmission finds the job of a submission.
Recovered(k) ==
    LET i == task[k].id IN
    /\ task[k].at \in {"lookup", "recheck"} /\ job[i] # "none"
    /\ ClearPending(k)
    /\ Tell(i, "job")
    /\ Follow(k, i, job[i])
    /\ UNCHANGED <<mount, council, key, faults>>

\* It finds none yet, fails or takes too long: the id stays stored.
NotRecovered(k) ==
    /\ task[k].at \in {"lookup", "recheck"}
    /\ GiveUp(k, Uncertain(task[k].id))
    /\ UNCHANGED <<pending, mount, council, key, told, faults>>

-----------------------------------------------------------------------------
(* A stock's run (use-council-runner.ts)                                   *)

Poll(k) ==
    LET i == task[k].id IN
    /\ task[k].at = "poll"
    /\ CASE job[i] = "running" -> Set(k, "poll", i)
         [] job[i] = "succeeded" -> Set(k, "result", i)
         [] job[i] = "failed" -> End(k)
    /\ UNCHANGED <<storage, mount, polls, council, key, told, faults>>

PollFails(k) ==
    /\ task[k].at = "poll"
    /\ IF task[k].errors + 1 < StockErrors
       THEN task' = [task EXCEPT ![k].errors = @ + 1]
       ELSE Set(k, "latest", task[k].id)
    /\ UNCHANGED <<storage, mount, polls, council, key, told, faults>>

\* The result, or after too many errors the latest run the Council has for the
\* stock, is applied or the attempt is shown as failed.
Finish(k) ==
    /\ task[k].at \in {"result", "latest"}
    /\ End(k)
    /\ UNCHANGED <<storage, mount, polls, council, key, told, faults>>

-----------------------------------------------------------------------------
(* The memo's poll loops and its mount effect (use-portfolio-memo.ts)      *)

Replace(p, new) == polls' = (polls \ {p}) \cup new

\* The state is saved before the result is fetched.
MemoPoll(p) ==
    /\ p \in polls /\ p.at = "job"
    /\ memo' = Following(p.job, job[p.job])
    /\ Replace(p, CASE job[p.job] = "running" -> {[p EXCEPT !.errors = 0]}
                    [] job[p.job] = "succeeded" -> {[p EXCEPT !.errors = 0, !.at = "result"]}
                    [] job[p.job] = "failed" -> {})
    /\ UNCHANGED <<pending, task, mount, council, key, told, faults>>

MemoResult(p) ==
    /\ p \in polls /\ p.at = "result"
    /\ memo' = [Following(p.job, "succeeded") EXCEPT !.summary = TRUE]
    /\ Replace(p, {})
    /\ UNCHANGED <<pending, task, mount, council, key, told, faults>>

\* mutant: one error too many is counted.
MemoPollFailsLate(p) ==
    /\ p \in polls
    /\ IF p.errors < MemoErrors
       THEN Replace(p, {[p EXCEPT !.at = "job", !.errors = @ + 1]}) /\ UNCHANGED memo
       ELSE Replace(p, {}) /\ memo' = Following(p.job, "failed")
    /\ UNCHANGED <<pending, task, mount, council, key, told, faults>>

MemoPollFails(p) ==
    /\ p \in polls
    /\ IF p.errors + 1 < MemoErrors
       THEN Replace(p, {[p EXCEPT !.at = "job", !.errors = @ + 1]}) /\ UNCHANGED memo
       ELSE Replace(p, {}) /\ memo' = Following(p.job, "failed")
    /\ UNCHANGED <<pending, task, mount, council, key, told, faults>>

\* mutant: the loop of a saved job is not taken up again.
MountIdle ==
    LET sub == IF pending[Memo] # None THEN pending[Memo]
               ELSE IF memo.job = None THEN memo.sub ELSE None
    IN
    /\ mount' = sub
    /\ polls' = {}
    /\ memo' = IF sub # None THEN Uncertain(sub)
               ELSE IF memo.status = "succeeded" /\ ~memo.summary THEN NoMemo
               ELSE memo

\* The mount effect: an unknown submission is looked up, a running job polled,
\* and a finished job without its result dropped.
Mount ==
    LET sub == IF pending[Memo] # None THEN pending[Memo]
               ELSE IF memo.job = None THEN memo.sub ELSE None
    IN
    /\ mount' = sub
    /\ polls' = IF sub = None /\ memo.status = "running"
                THEN {Poller("mount", memo.job)} ELSE {}
    /\ memo' = IF sub # None THEN Uncertain(sub)
               ELSE IF memo.status = "succeeded" /\ ~memo.summary THEN NoMemo
               ELSE memo

MountRecovered ==
    /\ mount # None /\ job[mount] # "none"
    /\ ClearPending(Memo)
    /\ Tell(mount, "job")
    /\ memo' = [Following(mount, job[mount]) EXCEPT !.sub = mount]
    /\ polls' = polls \cup {Poller("mount", mount)}
    /\ mount' = None
    /\ UNCHANGED <<task, council, key, faults>>

MountNotRecovered ==
    /\ mount # None
    /\ memo' = Uncertain(mount)
    /\ mount' = None
    /\ UNCHANGED <<pending, task, polls, council, key, told, faults>>

\* The page is loaded again: everything it was doing is gone.
Reload ==
    /\ faults < MaxFaults /\ faults' = faults + 1
    /\ task' = [k \in Keys |-> NoTask]
    /\ Mount
    /\ UNCHANGED <<pending, council, key, told>>

\* Signing out clears the private keys of the storage and loads the page.
SignOut ==
    /\ faults < MaxFaults /\ faults' = faults + 1
    /\ pending' = [k \in Keys |-> None]
    /\ memo' = NoMemo
    /\ task' = [k \in Keys |-> NoTask]
    /\ mount' = None
    /\ polls' = {}
    /\ told' = [i \in Ids |-> IF told[i] = "sent" THEN "forgotten" ELSE told[i]]
    /\ UNCHANGED <<council, key>>

-----------------------------------------------------------------------------

Submission(k) ==
    \/ LookUp(k)
    \/ \E i \in Ids : Submit(k, i)
    \/ Accepted(k)
    \/ Refused(k)
    \/ LoseReply(k)
    \/ Recovered(k)
    \/ NotRecovered(k)
Run(k) ==
    \/ Poll(k)
    \/ PollFails(k)
    \/ Finish(k)
MemoLoop ==
    \E p \in polls : MemoPoll(p) \/ MemoResult(p) \/ MemoPollFails(p)
Mounted == MountRecovered \/ MountNotRecovered
Service(i) ==
    \/ Deny(i)
    \/ Forward(i)
    \/ LoseRequest(i)
    \/ ProxyTimeout(i)
    \/ Accept(i)
    \/ Refuse(i)
    \/ EndJob(i)

Next ==
    \/ Prepare
    \/ PrepareFails
    \/ \E k \in Keys : Submission(k)
    \/ \E k \in Stocks : Run(k)
    \/ MemoLoop
    \/ Mounted
    \/ \E i \in Ids : Service(i)
    \/ Reload
    \/ SignOut

Spec == Init /\ [][Next]_vars

\* Every wait of the page has a timer or a poll behind it, a loop goes on while
\* the page is open, and the Council's jobs end.
Fairness ==
    /\ \A k \in Keys : WF_vars(task[k].at # "idle" /\ (Submission(k) \/ (k = Memo /\ PrepareFails)))
    /\ \A k \in Stocks : WF_vars(Run(k) /\ task'[k] # task[k])
    /\ \A i \in Ids : WF_vars(EndJob(i))
    /\ \A i \in Ids, o \in {"mount", "run"} :
          WF_vars(\E p \in polls : p.job = i /\ p.from = o /\ (MemoPoll(p) \/ MemoPollFails(p)))
    /\ WF_vars(Mounted)

FairSpec == Spec /\ Fairness

-----------------------------------------------------------------------------
(* Properties                                                              *)

Steps == {"idle", "prepare", "lookup", "post", "recheck", "poll", "result", "latest"}
JobStates == {"none", "running", "succeeded", "failed"}
Pollers ==
    [from : {"mount", "run"}, job : Ids, at : {"job", "result"}, errors : 0 .. MemoErrors - 1]

TypeOK ==
    /\ pending \in [Keys -> Ids \cup {None}]
    /\ memo \in [status : JobStates \cup {"uncertain"}, job : Ids \cup {None},
                sub : Ids \cup {None}, summary : BOOLEAN]
    /\ task \in [Keys -> [at : Steps, id : Ids \cup {None}, errors : 0 .. StockErrors - 1]]
    /\ mount \in Ids \cup {None}
    /\ polls \subseteq Pollers
    /\ key \in [Ids -> Keys]
    /\ post \in [Ids -> {"none", "handler", "upstream", "done"}]
    /\ answer \in [Ids -> {"none", "job", "refused", "uncertain"}]
    /\ job \in [Ids -> JobStates]
    /\ paid \in [Ids -> Nat]
    /\ told \in [Ids -> {"unused", "sent", "job", "refused", "forgotten"}]
    /\ faults \in 0 .. MaxFaults

\* However requests and answers are lost, late or unreadable, one submission
\* reaches the Council once: neither the browser nor the proxy repeats it.
OneJobPerSubmission == \A i \in Ids : paid[i] =< 1

\* What the page shows as failed at submission was not taken by the Council and
\* will not be: an uncertain answer is never turned into a refusal.
NoFalseRefusal == \A i \in Ids : told[i] = "refused" => paid[i] = 0 /\ post[i] = "done"

\* A new analysis of a stock is submitted only when this tab has learnt what
\* became of every earlier one, across reloads, unless the owner signed out.
NoBlindRepeat ==
    [][\A i, j \in Ids :
          /\ told[i] = "unused" /\ told'[i] = "sent" /\ key'[i] \in Stocks
          /\ i # j /\ key[j] = key'[i]
          => told[j] # "sent"]_vars

\* What the owner pays for and what this browser tells him of it (PaidSubmission):
\* every step of the page, the proxy and the service is a step of that promise,
\* or leaves it alone.
Promise == INSTANCE PaidSubmission WITH Careful <- Stocks
KeepsPromise == Promise!Spec

\* A click is over in the end: its button never stays busy.
ClickEnds == \A k \in Keys : task[k].at # "idle" ~> task[k].at = "idle"

\* A memo shown as running is settled, although only the page polls it and the
\* page may be loaded again at any moment.
MemoSettles == memo.status = "running" ~> memo.status # "running"
=============================================================================
