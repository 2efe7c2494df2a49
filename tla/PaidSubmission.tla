---------------------------- MODULE PaidSubmission ----------------------------
(***************************************************************************)
(* What buying an analysis promises the owner of the browser.  A submission *)
(* is made for one key and becomes one paid job at most.  What he is told   *)
(* of it is true and final: a job he was told of was paid, a refused        *)
(* submission costs nothing, then or later.  For the careful keys the next  *)
(* submission waits until he was told of the last.  After he signs out      *)
(* nothing more is told of what was open.                                   *)
(***************************************************************************)
EXTENDS Naturals

CONSTANTS Keys, Careful, Ids
VARIABLES key, told, paid, job

Init ==
    /\ key \in [Ids -> Keys]
    /\ told = [i \in Ids |-> "unused"]
    /\ paid = [i \in Ids |-> 0]
    /\ job = [i \in Ids |-> "none"]

Send(k, i) ==
    /\ told[i] = "unused"
    /\ k \in Careful => \A j \in Ids : key[j] = k => told[j] # "sent"
    /\ key' = [key EXCEPT ![i] = k]
    /\ told' = [told EXCEPT ![i] = "sent"]
    /\ UNCHANGED <<paid, job>>

\* The request may be taken after the owner has signed out.
Charge(i) ==
    /\ told[i] \in {"sent", "forgotten"} /\ paid[i] = 0
    /\ paid' = [paid EXCEPT ![i] = 1]
    /\ job' = [job EXCEPT ![i] = "running"]
    /\ UNCHANGED <<key, told>>

End(i) ==
    /\ job[i] = "running"
    /\ \E s \in {"succeeded", "failed"} : job' = [job EXCEPT ![i] = s]
    /\ UNCHANGED <<key, told, paid>>

Learn(i) ==
    /\ told[i] = "sent" /\ paid[i] = 1
    /\ told' = [told EXCEPT ![i] = "job"]
    /\ UNCHANGED <<key, paid, job>>

Refuse(i) ==
    /\ told[i] = "sent" /\ paid[i] = 0
    /\ told' = [told EXCEPT ![i] = "refused"]
    /\ UNCHANGED <<key, paid, job>>

SignOut ==
    /\ told' = [i \in Ids |-> IF told[i] = "sent" THEN "forgotten" ELSE told[i]]
    /\ UNCHANGED <<key, paid, job>>

Next ==
    \/ \E i \in Ids : (\E k \in Keys : Send(k, i)) \/ Charge(i) \/ End(i) \/ Learn(i) \/ Refuse(i)
    \/ SignOut

Spec == Init /\ [][Next]_<<key, told, paid, job>>

\* What the promise comes to: a job he was told of is the one paid job of its
\* submission, and nothing is paid for what was refused or never sent.
Honest ==
    \A i \in Ids :
        /\ paid[i] =< 1
        /\ told[i] = "job" => paid[i] = 1
        /\ told[i] \in {"refused", "unused"} => paid[i] = 0

\* What he was told is never taken back.
Final ==
    [][\A i \in Ids : told[i] \in {"job", "refused"} => told'[i] = told[i]]_<<key, told, paid, job>>
=============================================================================
