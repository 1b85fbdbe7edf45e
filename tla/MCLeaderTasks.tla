--------------------------- MODULE MCLeaderTasks ---------------------------
(***************************************************************************)
(* Model values for checking LeaderTasks with TLC.                         *)
(***************************************************************************)
EXTENDS LeaderTasks, TLC

CONSTANTS c1, c2, c3

Interchangeable == Permutations(Calls)
=============================================================================
