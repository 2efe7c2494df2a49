--------------------------- MODULE MCCouncilJobs ---------------------------
(* Instances of CouncilJobs for TLC.                                       *)
EXTENDS CouncilJobs, TLC
=============================================================================
