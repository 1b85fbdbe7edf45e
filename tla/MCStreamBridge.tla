--------------------------- MODULE MCStreamBridge ---------------------------
(***************************************************************************)
(* Model values for checking StreamBridge with TLC.                        *)
(***************************************************************************)
EXTENDS StreamBridge, TLC

CONSTANTS t1, a1, chat, r1, r2

OneChat == [m \in Tasks \cup Commands |-> chat]

\* Nothing tells what the rest of a snapshot may show apart but that it differs.
RestsAlike == Permutations(Rests)
=============================================================================
