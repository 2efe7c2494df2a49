-------------------------- MODULE MCSecurityActions --------------------------
(* Signals and requests for the model checking of SecurityActions. *)
EXTENDS SecurityActions, TLC

CONSTANTS t1, t2

exit == [ticker |-> "x", intent |-> "EXIT", weight |-> FALSE, external |-> FALSE,
         expires |-> TRUE]
buy == [exit EXCEPT !.intent = "DEPLOY"]
overweight == [exit EXCEPT !.intent = "REDUCE", !.weight = TRUE, !.expires = FALSE]

Pair == {t1, t2}
Swap == Permutations(Pair)
Page == {t1}
Funds == {"x"}

ExitAndBuy == {exit, buy}
Weights == {overweight, buy}
\* Its expiry date is nothing to an Exit, so it is left out here.
Exits == {[exit EXCEPT !.expires = FALSE]}
Buys == {buy}

Answers == {"create", "read", "record", "ignore", "override"}
Decisions == {"create", "read", "execute", "skip", "dismiss"}
Settling == {"create", "record", "except", "import"}
=============================================================================
