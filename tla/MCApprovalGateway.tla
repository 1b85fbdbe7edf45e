------------------------- MODULE MCApprovalGateway -------------------------
(***************************************************************************)
(* Model values and symmetry for checking ApprovalGateway with TLC.        *)
(***************************************************************************)
EXTENDS ApprovalGateway, TLC

CONSTANTS r1, r2, alice, bob, mallory, n1, n2, w1, w2

\* Handler threads are interchangeable, so are the nonces, and the approvers as
\* long as no allowlist tells them apart.
Interchangeable ==
  Permutations(Workers) \cup Permutations(Nonces)
    \cup (IF Allowlist = {} THEN Permutations(Approvers) ELSE {})
=============================================================================
