--------------------------- MODULE SignalLifecycle --------------------------
(***************************************************************************)
(* What the webhook inbox promises of each signal it acknowledged, without *)
(* tables, clocks, mutexes or crashes: nothing acknowledged is lost, an    *)
(* attempt whose outcome is in doubt is put before the owner instead of    *)
(* being repeated, and only the owner's consent starts another attempt.    *)
(***************************************************************************)
EXTENDS Naturals

CONSTANT Signals

VARIABLES stage,     \* where each signal is
          attempts   \* how often its processor may have been started

Stages == {"unknown", "waiting", "attempting", "applied", "review", "closed", "forgotten"}

Init == /\ stage = [s \in Signals |-> "unknown"]
        /\ attempts = [s \in Signals |-> 0]

Move(s, from, to) == stage[s] \in from /\ stage' = [stage EXCEPT ![s] = to]

Accept(s) == Move(s, {"unknown"}, "waiting") /\ UNCHANGED attempts

\* The first attempt, or one the owner asked for.
Attempt(s) == Move(s, {"waiting", "review"}, "attempting") /\ UNCHANGED attempts

Start(s) ==
    /\ stage[s] = "attempting"
    /\ attempts' = [attempts EXCEPT ![s] = @ + 1]
    /\ UNCHANGED stage

Succeed(s) ==
    /\ attempts[s] > 0
    /\ Move(s, {"attempting"}, "applied")
    /\ UNCHANGED attempts

\* Refused, failed, or interrupted.
Question(s) == Move(s, {"waiting", "attempting"}, "review") /\ UNCHANGED attempts

Close(s) == Move(s, {"review", "attempting"}, "closed") /\ UNCHANGED attempts

\* Housekeeping forgets any number of settled signals, and no others.
Forget ==
    /\ \E S \in SUBSET {s \in Signals : stage[s] \in {"applied", "closed"}} :
          stage' = [s \in Signals |-> IF s \in S THEN "forgotten" ELSE stage[s]]
    /\ UNCHANGED attempts

Next == \/ \E s \in Signals : \/ Accept(s) \/ Attempt(s) \/ Start(s)
                              \/ Succeed(s) \/ Question(s) \/ Close(s)
        \/ Forget

Spec == Init /\ [][Next]_<<stage, attempts>>

\* What the promise comes to: a signal is applied by an attempt, and one that
\* still waits for its first attempt has had none.
Sound ==
    \A s \in Signals :
        /\ stage[s] \in {"unknown", "waiting"} => attempts[s] = 0
        /\ stage[s] = "applied" => attempts[s] > 0

\* An acknowledged signal does not disappear before it is settled, what is
\* settled is not taken up again, and nothing is tried while it is in question.
Carries(s) ==
    /\ stage[s] \in {"waiting", "attempting", "review"} => stage'[s] \notin {"unknown", "forgotten"}
    /\ stage[s] \in {"applied", "closed"} => stage'[s] \in {stage[s], "forgotten"}
    /\ attempts'[s] # attempts[s] => stage[s] = "attempting"

NothingLost == [][\A s \in Signals : Carries(s)]_<<stage, attempts>>
=============================================================================
