------------------------- MODULE MCPortfolioPlans -------------------------
(* A short year for the model checking of PortfolioPlans.                  *)
EXTENDS PortfolioPlans, TLC

CONSTANTS t1, t2

Pair == {t1, t2}
Swap == Permutations(Pair)

\* The first and the last month have a second day, the ones between do not.
Lengths == [m \in 0 .. 12 |-> IF m \in {0, 8} THEN 2 ELSE 1]
Months == 8

OneLegacy == <<[month |-> 0, day |-> 2]>>
=============================================================================
