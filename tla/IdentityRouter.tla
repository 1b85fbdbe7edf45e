--------------------------- MODULE IdentityRouter ---------------------------
(***************************************************************************)
(* The route table of the gateway (src/feiqiao_guard/identity_router.py):  *)
(* which session and which CODEX_HOME an identity is sent to, read from a  *)
(* file that others edit, and cached by the file's time stamp.             *)
(*                                                                         *)
(* A definition marked "Fault" is no part of the specification: it is the  *)
(* definition after it as a plausible mistake would have it, kept to show  *)
(* that the properties tell the two apart.                                 *)
(***************************************************************************)
EXTENDS Naturals

CONSTANTS
  Tables,   \* what the file may hold: functions from identities to routes
  None,     \* an absent session, home or reference; no time stamp
  Missing,  \* there is no file
  Broken,   \* the file is no valid table
  MaxEdits  \* bound: how often the file is changed

ASSUME RouterAssumption ==
  /\ MaxEdits \in Nat
  /\ None \notin Nat

VARIABLES
  file,  \* its content
  stamp, \* its time stamp
  cache  \* the gateway's copy: time stamp and table

routerVars == <<file, stamp, cache>>
-----------------------------------------------------------------------------
(***************************************************************************)
(* A route has an identity's session, home, enabled, allow_shared_session  *)
(* (shared) and switch_ack_ref (ack).                                      *)
(***************************************************************************)
Enabled(t) == {i \in DOMAIN t : t[i].enabled}

\* The enabled routes that have one value of a field in common with i.
SessionHolders(t, i) == {j \in Enabled(t) : t[j].session = t[i].session}
HomeHolders(t, i) == {j \in Enabled(t) : t[j].home = t[i].home}

Several(S) == \E i, j \in S : i # j

\* Fault: one route that allows sharing speaks for all.
AllShareAny(t, group) == \E i \in group : t[i].shared

AllShare(t, group) == \A i \in group : t[i].shared

\* The references that are there; an absent one is not asked for.
Acks(t, group) == {t[i].ack : i \in group} \ {None}

\* Holders of one session or home are in conflict unless all of them allow to
\* share it and name one reference.
InConflict(t, group) ==
  /\ Several(group)
  /\ AllShare(t, group) => ~\E ack \in Acks(t, group) : Acks(t, group) = {ack}

SessionIssue(t, i) ==
  /\ i \in Enabled(t)
  /\ t[i].session # None
  /\ InConflict(t, SessionHolders(t, i))

\* Conflicts over a home are sought among those without one over a session.
HomeIssue(t, i) ==
  /\ i \in Enabled(t)
  /\ t[i].home # None
  /\ ~SessionIssue(t, i)
  /\ InConflict(t, {j \in HomeHolders(t, i) : ~SessionIssue(t, j)})

\* _compute_route_issues.
RouteIssue(t, i) == SessionIssue(t, i) \/ HomeIssue(t, i)

\* What two routes to the same place owe each other, without regard to the order
\* in which conflicts are found.
Share(t, i, j) ==
  \/ t[i].session # None /\ t[i].session = t[j].session
  \/ t[i].home # None /\ t[i].home = t[j].home

Consent(t, i, j) ==
  /\ t[i].shared
  /\ t[j].shared
  /\ t[i].ack = t[j].ack \/ t[i].ack = None \/ t[j].ack = None
-----------------------------------------------------------------------------
NoTable == [i \in {} |-> None]

\* Fault: a file that cannot be read leaves the stamp of the new version behind.
ReloadedStampFirst ==
  IF file = Missing THEN [stamp |-> None, table |-> NoTable]
  ELSE [stamp |-> stamp, table |-> IF file = Broken THEN cache.table ELSE file]

\* _reload_if_needed, which holds the lock.  A broken file raises an error and leaves
\* the cache as it was.
Reloaded ==
  IF file = Missing THEN [stamp |-> None, table |-> NoTable]
  ELSE IF cache.stamp = stamp \/ file = Broken THEN cache
  ELSE [stamp |-> stamp, table |-> file]

ReloadFails == file = Broken /\ cache.stamp # stamp

\* The file is replaced, or removed.
Edit ==
  /\ stamp < MaxEdits
  /\ stamp' = stamp + 1
  /\ file' \in Tables \cup {Missing, Broken}
  /\ UNCHANGED cache

RouterInit ==
  /\ file \in Tables
  /\ stamp = 0
  /\ cache = [stamp |-> None, table |-> NoTable]
=============================================================================
