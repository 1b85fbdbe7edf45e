---------------------------- MODULE ChatDispatch ----------------------------
(***************************************************************************)
(* How the gateway dispatches a chat message (src/feiqiao_guard/main.py,   *)
(* _dispatch_chat and what calls it): the identity's route is looked up    *)
(* and checked, the message goes into the identity's memory and then to    *)
(* the control script, and the outcome into the memory.  A leader command  *)
(* retries a queued message once and may do the same for a collaborator.   *)
(*                                                                         *)
(* Handlers run concurrently; each lookup, each run of the script and each *)
(* access to a memory is a step.  The script and its session are those of  *)
(* GuardedSession; here its outcome is a free choice.                      *)
(*                                                                         *)
(* A definition marked "Fault" is no part of the specification: it is the  *)
(* definition after it as a plausible mistake would have it, kept to show  *)
(* that the properties tell the two apart.                                 *)
(***************************************************************************)
EXTENDS IdentityRouter, IdentityMemory

CONSTANTS
  Handlers,   \* requests, each with a handler thread of its own
  Commands,   \* those to the leader-command endpoint; others are inbound messages
  WithCollab, \* those with auto_collab
  Override,   \* those that name a session besides the identity
  Leader, Collab, \* chat_leader_identity_id, chat_collab_identity_id
  Captures,   \* identity_memory_capture_snapshot_reply
  Unreliable  \* identities whose memory file may be unreadable, or not written

ASSUME DispatchAssumption ==
  /\ WithCollab \subseteq Commands
  /\ Commands \subseteq Handlers
  /\ Override \subseteq Handlers \ Commands
  /\ Leader # Collab
  /\ Captures \in BOOLEAN
  /\ Unreliable \subseteq {Leader, Collab}

VARIABLES
  handler, \* where each handler stands
  memory,  \* the memory files
  ran      \* history: the outcomes of each handler's runs, for each identity

vars == <<routerVars, handler, memory, ran>>
-----------------------------------------------------------------------------
Identities == {Leader, Collab}
Outcomes == {"confirmed", "queued", "failed"}

Labels == {"idle", "resolve", "check", "record", "run", "snapshot", "snapcheck",
           "reply", "result", "answered"}

\* An answer: HTTP status, accepted, and the delivery states of both identities.
NoStates == [i \in Identities |-> "none"]

Idle == [pc |-> "idle", who |-> Leader, try |-> 1, table |-> NoTable, checked |-> NoTable,
         outcome |-> "none", status |-> 0, accepted |-> FALSE, states |-> NoStates]

Stand(h, pc) == handler' = [handler EXCEPT ![h].pc = pc]

\* What the first run for an identity sends, and what a retry sends.
Message(h) == IF handler[h].try = 1 THEN <<"message", h, handler[h].who>> ELSE <<"go on">>

Answer(status, accepted, states) ==
  [Idle EXCEPT !.pc = "answered", !.status = status, !.accepted = accepted,
               !.states = states]

\* A message that could not be dispatched ends its request, unless it is the
\* collaborator's and the error is one that the command answers for.
Refused(h, status, http) ==
  handler' = [handler EXCEPT ![h] =
    Answer(IF http /\ @.who = Collab THEN 200 ELSE status, FALSE, @.states)]
-----------------------------------------------------------------------------
Receive(h) ==
  /\ handler[h].pc = "idle"
  /\ Stand(h, "resolve")
  /\ UNCHANGED <<routerVars, memory, ran>>

\* resolve: the table is reloaded and the route looked up.
Resolve(h) ==
  /\ handler[h].pc = "resolve"
  /\ cache' = Reloaded
  /\ IF ReloadFails THEN Refused(h, 500, TRUE)
     ELSE IF handler[h].who \notin Enabled(cache'.table) /\ h \notin Override
     THEN Refused(h, 404, TRUE)
     ELSE handler' = [handler EXCEPT
            ![h].pc = IF handler[h].who \in Enabled(cache'.table) THEN "check" ELSE "record",
            ![h].table = cache'.table]
  /\ UNCHANGED <<file, stamp, memory, ran>>

Issue(table, i) == RouteIssue(table, i)

\* route_issue: the table is reloaded once more, and the conflicts are those of what
\* it is by now.  This time an invalid file is an error nobody expects.
Check(h) ==
  /\ handler[h].pc = "check"
  /\ cache' = Reloaded
  /\ IF ReloadFails THEN Refused(h, 500, FALSE)
     ELSE IF Issue(cache'.table, handler[h].who) THEN Refused(h, 409, TRUE)
     ELSE handler' = [handler EXCEPT ![h].pc = "record", ![h].checked = cache'.table]
  /\ UNCHANGED <<file, stamp, memory, ran>>
-----------------------------------------------------------------------------
\* A memory that cannot be read is begun anew, and one that cannot be written stays as
\* it is; the request goes on either way.
Note(i, role, text, tag) ==
  \E old \in {memory[i]} \cup (IF i \in Unreliable THEN {EmptyMemory} ELSE {}) :
    memory' \in {[memory EXCEPT ![i] = Remember(old, role, text, tag)]}
                \cup (IF i \in Unreliable THEN {memory} ELSE {})

Tag(h) == IF h \in Commands THEN <<h>> ELSE NoTag

Record(h) ==
  /\ handler[h].pc = "record"
  /\ Note(handler[h].who, "user", Message(h), Tag(h))
  /\ Stand(h, "run")
  /\ UNCHANGED <<routerVars, ran>>

\* The script runs and ends; _infer_chat_delivery_state reads its outcome.
Run(h) ==
  /\ handler[h].pc = "run"
  /\ \E outcome \in Outcomes :
       /\ ran' = [ran EXCEPT ![h][handler[h].who] = Append(@, outcome)]
       /\ handler' = [handler EXCEPT
            ![h].pc = IF outcome # "failed" /\ Captures THEN "snapshot" ELSE "result",
            ![h].table = NoTable,
            ![h].checked = NoTable,
            ![h].outcome = outcome]
  /\ UNCHANGED <<routerVars, memory>>

\* The script is killed; what it may have typed stays.
TimeOut(h) ==
  /\ handler[h].pc = "run"
  /\ ran' = [ran EXCEPT ![h][handler[h].who] = Append(@, "killed")]
  /\ Refused(h, 504, TRUE)
  /\ UNCHANGED <<routerVars, memory>>

\* _build_identity_snapshot_item: the route is looked up again ...
Snapshot(h) ==
  /\ handler[h].pc = "snapshot"
  /\ cache' = Reloaded
  /\ Stand(h, IF ~ReloadFails /\ handler[h].who \in Enabled(cache'.table)
              THEN "snapcheck" ELSE "result")
  /\ UNCHANGED <<file, stamp, memory, ran>>

\* ... and its conflicts; the session's last reply is read if there are none.
SnapshotCheck(h) ==
  /\ handler[h].pc = "snapcheck"
  /\ cache' = Reloaded
  /\ \/ ReloadFails /\ Refused(h, 500, FALSE)
     \/ ~ReloadFails /\ Stand(h, "result")
     \/ /\ ~ReloadFails
        /\ ~Issue(cache'.table, handler[h].who)
        /\ Stand(h, "reply")
  /\ UNCHANGED <<file, stamp, memory, ran>>

\* The last reply need not be one to this message.
Reply(h) ==
  /\ handler[h].pc = "reply"
  /\ Note(handler[h].who, "assistant", <<"reply">>, Tag(h))
  /\ Stand(h, "result")
  /\ UNCHANGED <<routerVars, ran>>
-----------------------------------------------------------------------------
\* Fault: a retry that is queued again is taken at its word.
SettledQueued(h, outcome) == outcome

\* The state reported for an identity: a retry that is queued again counts as failed.
Settled(h, outcome) ==
  IF handler[h].try = 2 /\ outcome = "queued" THEN "failed" ELSE outcome

\* Fault: the number of the retry is not looked at.
RetriesAlways(h) == h \in Commands /\ handler[h].outcome = "queued"

\* _dispatch_chat_with_queued_retry: one retry, of a queued message only.
Retries(h) ==
  /\ h \in Commands
  /\ handler[h].outcome = "queued"
  /\ handler[h].try = 1

\* Accepted is what was not failed, for all that was addressed.
Accepted(states, h) == \A i \in Identities : states[i] # "failed"

\* The outcome goes into the memory; then follow the retry, the collaborator, or the
\* answer.
Result(h) ==
  /\ handler[h].pc = "result"
  /\ Note(handler[h].who, "system", <<handler[h].outcome>>, Tag(h))
  /\ LET who == handler[h].who
         states == [handler[h].states EXCEPT ![who] = Settled(h, handler[h].outcome)]
         next == [Idle EXCEPT !.pc = "resolve", !.who = who, !.states = handler[h].states]
     IN handler' = [handler EXCEPT ![h] =
          IF Retries(h) THEN [next EXCEPT !.try = 2]
          ELSE IF h \in WithCollab /\ who = Leader
          THEN [next EXCEPT !.who = Collab, !.states = states]
          ELSE Answer(200, Accepted(states, h), states)]
  /\ UNCHANGED <<routerVars, ran>>
-----------------------------------------------------------------------------
Init ==
  /\ RouterInit
  /\ handler = [h \in Handlers |-> Idle]
  /\ memory = [i \in Identities |-> EmptyMemory]
  /\ ran = [h \in Handlers |-> [i \in Identities |-> <<>>]]

\* The steps of a request once it has arrived.
Serve(h) ==
  \/ Resolve(h) \/ Check(h) \/ Record(h) \/ Run(h) \/ TimeOut(h) \/ Snapshot(h)
  \/ SnapshotCheck(h) \/ Reply(h) \/ Result(h)

EditRoutes == Edit /\ UNCHANGED <<handler, memory, ran>>

Next == (\E h \in Handlers : Receive(h) \/ Serve(h)) \/ EditRoutes

Spec == Init /\ [][Next]_vars
-----------------------------------------------------------------------------
Handler ==
  [pc: Labels, who: Identities, try: {1, 2},
   table: Tables \cup {NoTable}, checked: Tables \cup {NoTable},
   outcome: Outcomes \cup {"none"}, status: {0, 200, 404, 409, 500, 504},
   accepted: BOOLEAN, states: [Identities -> Outcomes \cup {"none"}]]

TypeOK ==
  /\ file \in Tables \cup {Missing, Broken}
  /\ stamp \in 0 .. MaxEdits
  /\ cache \in [stamp: (0 .. MaxEdits) \cup {None}, table: Tables \cup {NoTable}]
  /\ handler \in [Handlers -> Handler]
  /\ \A i \in Identities : memory[i].seq \in Nat
  /\ \A h \in Handlers : \A i \in Identities :
       ran[h][i] \in Seq(Outcomes \cup {"killed"})

\* The message of an identity goes to a session or home that others have, too, only
\* if both consent to it, or the others are refused: whatever conflicts there are
\* among any number of routes, unless the file changes between the two lookups.
SharedByConsent ==
  \A h \in Handlers :
    handler[h].pc = "run" /\ handler[h].table = handler[h].checked =>
      LET t == handler[h].table
          i == handler[h].who
      IN i \in Enabled(t) =>
           \A j \in Enabled(t) \ {i} :
             Share(t, i, j) => Consent(t, i, j) \/ RouteIssue(t, j)

Addressed(h) == IF h \in WithCollab THEN Identities ELSE {Leader}

\* An answer says of each identity what its runs of the script have shown: confirmed
\* if the last one was, failed only if none was, and accepted only if all that were
\* addressed were handed their message.
AnswerHonest ==
  \A h \in Handlers :
    handler[h].pc = "answered" /\ handler[h].status = 200 =>
      \A i \in Identities :
        LET outcomes == ran[h][i]
        IN /\ handler[h].states[i] = "confirmed" =>
                outcomes # <<>> /\ outcomes[Len(outcomes)] = "confirmed"
           /\ handler[h].states[i] = "failed" =>
                \A n \in 1 .. Len(outcomes) : outcomes[n] # "confirmed"
           /\ handler[h].states[i] = "queued" => h \notin Commands
           /\ handler[h].accepted /\ i \in Addressed(h) =>
                /\ outcomes # <<>>
                /\ outcomes[Len(outcomes)] \in {"confirmed", "queued"}

\* The script runs at most twice for an identity, and again only if it has queued the
\* message: never after a success, a failure or a timeout.
RetriedOnce ==
  \A h \in Handlers : \A i \in Identities :
    /\ Len(ran[h][i]) <= 2
    /\ Len(ran[h][i]) = 2 => ran[h][i][1] = "queued" /\ h \in Commands

\* Whatever handlers append in between, and whatever is lost, a memory holds a window
\* of consecutive turns that ends with the latest, and the tiers divide it.
MemoryInv ==
  \A i \in Identities :
    LET turns == memory[i].turns
    IN /\ Len(turns) <= Window
       /\ Len(turns) <= memory[i].seq
       /\ \A n \in 1 .. Len(turns) : turns[n].id = memory[i].seq - Len(turns) + n
       /\ ArchiveTurns(turns) \o StableTurns(turns) \o FreshTurns(turns) = turns

\* What the gateway holds of the file is what the file held: a time stamp is never kept
\* without the table that goes with it, so that an invalid file is noticed each time.
CacheTrue == cache.stamp = stamp => cache.table = file

\* What the runs of an identity have shown before the one under way.
Before(h) == IF handler[h].try = 1 THEN <<>> ELSE <<"queued">>

\* An identity is done with: its state is that of its last run.
Done(h, i) ==
  LET state == handler[h].states[i]
  IN \/ ran[h][i] \in {<<"confirmed">>, <<"queued", "confirmed">>} /\ state = "confirmed"
     \/ /\ ran[h][i] \in {<<"failed">>, <<"queued", "failed">>, <<"queued", "queued">>}
        /\ state = "failed"
     \/ ran[h][i] = <<"queued">> /\ state = "queued" /\ h \notin Commands

Untouched(h, i) == ran[h][i] = <<>> /\ handler[h].states[i] = "none"

\* Its last run was killed, or it was refused before or after one.
GivenUp(h, i) ==
  /\ handler[h].states[i] = "none"
  /\ \E outcomes \in {<<>>} \cup {<<o>> : o \in Outcomes \cup {"killed"}} :
       \/ ran[h][i] = outcomes
       \/ ran[h][i] = <<"queued">> \o outcomes /\ h \in Commands

Working == Labels \ {"idle", "answered"}

\* Where a handler stands, what its runs have shown and the states it has to report
\* agree; the collaborator's turn comes when the leader's is over.
Consistent(h) ==
  LET s == handler[h]
  IN /\ s.pc \in {"idle"} => s = Idle
     /\ s.try = 2 => h \in Commands
     /\ s.who = Collab => h \in WithCollab
     /\ s.pc \in {"idle", "resolve", "check", "record", "run"} =>
          ran[h][s.who] = Before(h)
     /\ s.pc \in {"snapshot", "snapcheck", "reply", "result"} =>
          s.outcome \in Outcomes /\ ran[h][s.who] = Append(Before(h), s.outcome)
     /\ s.pc # "answered" =>
          /\ s.states[s.who] = "none"
          /\ s.who = Leader => Untouched(h, Collab)
          /\ s.who = Collab => Done(h, Leader)
     /\ s.pc = "answered" =>
          \/ s.status # 200 /\ \A i \in Identities : Done(h, i) \/ GivenUp(h, i)
          \/ /\ s.status = 200
             /\ Done(h, Leader)
             /\ \/ Done(h, Collab) /\ h \in WithCollab
                \/ Untouched(h, Collab) /\ h \notin WithCollab
                \/ GivenUp(h, Collab) /\ ~s.accepted
             /\ s.accepted => \A i \in Identities : s.states[i] # "failed"

\* A message on its way has passed the check.
Checked(h) ==
  handler[h].pc \in {"record", "run"} /\ handler[h].who \in Enabled(handler[h].table) =>
    ~RouteIssue(handler[h].checked, handler[h].who)

\* The inductive invariant.
DispatchInv ==
  /\ TypeOK
  /\ CacheTrue
  /\ MemoryInv
  /\ \A h \in Handlers : Consistent(h) /\ Checked(h)
=============================================================================
