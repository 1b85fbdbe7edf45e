--------------------------- MODULE MCChatDispatch ---------------------------
(***************************************************************************)
(* Model values and route tables for checking ChatDispatch with TLC.       *)
(***************************************************************************)
EXTENDS ChatDispatch

CONSTANTS h1, h2, leader, collab, other, s1, s2, home, ack

Route(session, at, shared, ref, enabled) ==
  [session |-> session, home |-> at, shared |-> shared, ack |-> ref,
   enabled |-> enabled]

\* Each has a session of its own.
Apart ==
  [i \in Identities |-> Route(IF i = Leader THEN s1 ELSE s2, None, FALSE, None, TRUE)]

\* The collaborator and a third one conflict over a session, and the leader and they
\* over a home.
Entangled ==
  [i \in Identities \cup {other} |->
     Route(IF i = Leader THEN None ELSE s2, home, i = Leader, None, TRUE)]

\* A home is shared by consent, and the third one is disabled.
Agreed ==
  [i \in Identities \cup {other} |->
     Route(None, home, i # other, IF i = Leader THEN ack ELSE None, i # other)]

\* Only one of them consents.
Unagreed ==
  [i \in Identities |-> Route(s1, None, i = Leader, ack, TRUE)]

OneTable == {Apart}
SomeTables == {Apart, Entangled, Agreed, Unagreed}
=============================================================================
