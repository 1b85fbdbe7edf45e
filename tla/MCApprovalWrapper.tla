------------------------- MODULE MCApprovalWrapper -------------------------
(***************************************************************************)
(* Model values for checking ApprovalWrapper with TLC.                     *)
(***************************************************************************)
EXTENDS ApprovalWrapper, TLC

CONSTANTS r1, r2, alice, bob, mallory, n1, w1, w2

Interchangeable == Permutations(Workers)
=============================================================================
