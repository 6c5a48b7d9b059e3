---------------------------- MODULE MCJobPoller ----------------------------
(***************************************************************************)
(* Small instances of JobPoller for TLC.                                   *)
(***************************************************************************)
EXTENDS JobPoller

CONSTANTS j1, j2

\* The platform lists j1 before j2.
MCRank == [j \in Jobs |-> IF j = j1 THEN 1 ELSE 2]

============================================================================
