----------------------------- MODULE PaidResearch -----------------------------
(***************************************************************************)
(* What paid research promises of a request: it is stored, submitted once, *)
(* run by the provider at most once and only while it is submitted, and    *)
(* settled for good.  A failed request has no run that could still be      *)
(* charged, a delivered one carries the result of its own run.             *)
(***************************************************************************)
CONSTANT Requests
VARIABLES phase, run

Init ==
    /\ phase = [r \in Requests |-> "none"]
    /\ run = [r \in Requests |-> "none"]

Move(r, from, to) == phase[r] = from /\ phase' = [phase EXCEPT ![r] = to]

Store(r) == Move(r, "none", "waiting") /\ UNCHANGED run

Submit(r) == Move(r, "waiting", "submitted") /\ UNCHANGED run

Start(r) ==
    /\ phase[r] = "submitted" /\ run[r] = "none"
    /\ run' = [run EXCEPT ![r] = "going"]
    /\ UNCHANGED phase

End(r) ==
    /\ run[r] = "going"
    /\ \E end \in {"completed", "failed"} : run' = [run EXCEPT ![r] = end]
    /\ UNCHANGED phase

Deliver(r) == run[r] = "completed" /\ Move(r, "submitted", "delivered") /\ UNCHANGED run

GiveUp(r) == run[r] \in {"none", "failed"} /\ Move(r, "submitted", "failed") /\ UNCHANGED run

Next == \E r \in Requests :
    Store(r) \/ Submit(r) \/ Start(r) \/ End(r) \/ Deliver(r) \/ GiveUp(r)

Spec == Init /\ [][Next]_<<phase, run>>

\* What the promise comes to: nothing runs for a request that is not submitted
\* yet, a delivered request had a completed run, and no run that could still
\* come to something stands behind a failed one.
Charged ==
    \A r \in Requests :
        /\ phase[r] \in {"none", "waiting"} => run[r] = "none"
        /\ phase[r] = "delivered" => run[r] = "completed"
        /\ phase[r] = "failed" => run[r] \in {"none", "failed"}

\* A settled request is never settled differently, and never run (again).
Settled ==
    [][\A r \in Requests :
          phase[r] \in {"delivered", "failed"} =>
              phase'[r] = phase[r] /\ run'[r] = run[r]]_<<phase, run>>
=============================================================================
