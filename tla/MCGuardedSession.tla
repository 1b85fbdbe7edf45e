-------------------------- MODULE MCGuardedSession --------------------------
(***************************************************************************)
(* Model values for checking GuardedSession with TLC.                      *)
(***************************************************************************)
EXTENDS GuardedSession

CONSTANTS g1, w1
=============================================================================
