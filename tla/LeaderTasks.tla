----------------------------- MODULE LeaderTasks -----------------------------
(***************************************************************************)
(* The leader task interface: the in-memory task table of the gateway, the *)
(* threads that execute its tasks, and the client of the chat bridge that  *)
(* submits a command, polls its task and falls back to the synchronous     *)
(* endpoint (leader_task_runtime.py, main.py, chat_bridge.py).             *)
(*                                                                         *)
(* Each call of the client submits at most one task, so calls serve as     *)
(* task ids.  Client, gateway handler and task thread run concurrently;    *)
(* the table's lock serialises single operations, but submit and the       *)
(* transitions read the clock before they take it.                         *)
(*                                                                         *)
(* A definition marked "Fault" is no part of the specification: it is the  *)
(* definition after it as a plausible mistake would have it, kept to show  *)
(* that the properties tell the two apart.                                 *)
(***************************************************************************)
EXTENDS Naturals, FiniteSets

CONSTANTS
  Calls,        \* the commands the bridge dispatches
  MaxItems,     \* chat_task_max_items
  Retention,    \* chat_task_retention_seconds, in ticks
  PollTimeout,  \* timeout_seconds of the client, in ticks
  MaxTime,      \* bound: the clock stops here
  MaxFaults     \* bound: gateway restarts and failing connections

ASSUME LeaderAssumption ==
  /\ IsFiniteSet(Calls)
  /\ MaxItems \in Nat \ {0}
  /\ Retention \in Nat
  /\ PollTimeout \in Nat \ {0}
  /\ MaxTime \in Nat
  /\ MaxFaults \in Nat

VARIABLES
  table,     \* the task table, one entry per call
  submit,    \* the POST of a call and the handler that serves it
  thread,    \* the thread that executes a task
  direct,    \* the synchronous request of a call and its handler
  client,    \* the client of each call
  runs,      \* history: how often the command of a call was executed
  outcomes,  \* history: what its finished executions returned
  lost,      \* history: calls whose task or connection was lost
  now, restarts, faults

histories == <<runs, outcomes, lost>>
bounded   == <<restarts, faults>>
vars == <<table, submit, thread, direct, client, histories, now, bounded>>
-----------------------------------------------------------------------------
\* A dispatch is accepted, not accepted, or raises.
Outcomes == {"accepted", "refused", "raised"}
Finished == {"final", "failed"}
States   == {"none", "accepted", "running"} \cup Finished

Task == [state: States, updated: Nat, finished: Nat]
NoTask == [state |-> "none", updated |-> 0, finished |-> 0]

Submission == [pc: {"none", "sent", "stamped", "stored", "gone"}, stamp: Nat]

Thread == [pc: {"none", "ready", "marking", "run", "finishing", "over"},
           stamp: Nat, outcome: Outcomes \cup {"none"}]
NoThread == [pc |-> "none", stamp |-> 0, outcome |-> "none"]

Client == [pc: {"idle", "post", "poll", "get", "legacy", "over"},
           knowsTask: BOOLEAN, deadline: Nat,
           answer: {"none", "accepted", "refused", "timeout", "error"}]

Present(t) == {c \in Calls : t[c].state # "none"}

\* A deadline of the client; the end of the clock is past every deadline.
Deadline == IF now + PollTimeout < MaxTime THEN now + PollTimeout ELSE MaxTime

\* The client hands back an answer.
Ended(c, answer) ==
  client' = [client EXCEPT ![c].pc = "over", ![c].answer = answer]

\* The client gives up on the task interface and dispatches the command again,
\* synchronously.
FallBack(c) ==
  /\ client' = [client EXCEPT ![c].pc = "legacy", ![c].deadline = Deadline]
  /\ direct' = [direct EXCEPT ![c] = "sent"]
-----------------------------------------------------------------------------
(***************************************************************************)
(* The task table.                                                         *)
(***************************************************************************)

\* Fault: tasks are pruned by age whether or not they have finished.
PrunedByAge(t, at) ==
  [c \in Calls |-> IF at > t[c].updated + Retention THEN NoTask ELSE t[c]]

\* Finished tasks beyond their retention go.
Pruned(t, at) ==
  [c \in Calls |-> IF t[c].state \in Finished /\ at > t[c].finished + Retention
                   THEN NoTask ELSE t[c]]

\* Over the limit the most recently updated tasks stay, running or not; ties
\* are broken by the random task ids, so any choice among them is possible.
Survivors(t) ==
  IF Cardinality(Present(t)) <= MaxItems THEN {Present(t)}
  ELSE {K \in SUBSET Present(t) :
          /\ Cardinality(K) = MaxItems
          /\ \A c \in K, d \in Present(t) \ K : t[d].updated <= t[c].updated}

\* Fault: a transition puts a record that has been evicted back.
TransitionReviving(c, state, at) ==
  [table EXCEPT ![c] =
     [state |-> state, updated |-> at,
      finished |-> IF state \in Finished THEN at ELSE @.finished]]

\* A transition of a task that is no longer in the table is ignored.
Transition(c, state, at) ==
  IF table[c].state = "none" THEN table
  ELSE [table EXCEPT ![c] =
          [state |-> state, updated |-> at,
           finished |-> IF state \in Finished THEN at ELSE @.finished]]

\* Fault: every dispatch that returns counts as completed.
StateForReturned(outcome) == IF outcome = "raised" THEN "failed" ELSE "final"

StateFor(outcome) == IF outcome = "accepted" THEN "final" ELSE "failed"
-----------------------------------------------------------------------------
(***************************************************************************)
(* Submitting a task.                                                      *)
(***************************************************************************)
Send(c) ==
  /\ client[c].pc = "idle"
  /\ client' = [client EXCEPT ![c].pc = "post", ![c].deadline = Deadline]
  /\ submit' = [submit EXCEPT ![c].pc = "sent"]
  /\ UNCHANGED <<table, thread, direct, histories, now, bounded>>

\* submit reads the clock first and takes the lock afterwards.
StampTask(c) ==
  /\ submit[c].pc = "sent"
  /\ submit' = [submit EXCEPT ![c] = [pc |-> "stamped", stamp |-> now]]
  /\ UNCHANGED <<table, thread, direct, client, histories, now, bounded>>

\* Under the lock: prune, insert, evict.  The new task may itself be evicted,
\* yet its thread is started all the same.
StoreTask(c) ==
  /\ submit[c].pc = "stamped"
  /\ LET at    == submit[c].stamp
         added == [Pruned(table, at) EXCEPT ![c] =
                     [state |-> "accepted", updated |-> at, finished |-> 0]]
     IN \E kept \in Survivors(added) :
          /\ table' = [d \in Calls |-> IF d \in kept THEN added[d] ELSE NoTask]
          /\ lost' = lost \cup ((Present(table) \cup {c}) \ kept)
  /\ submit' = [submit EXCEPT ![c].pc = "stored"]
  /\ thread' = [thread EXCEPT ![c].pc = "ready"]
  /\ UNCHANGED <<direct, client, runs, outcomes, now, bounded>>

\* The client learns its task id and starts to poll.
AnswerSubmit(c) ==
  /\ client[c].pc = "post" /\ submit[c].pc = "stored"
  /\ client' = [client EXCEPT ![c].pc = "poll", ![c].deadline = Deadline,
                              ![c].knowsTask = TRUE]
  /\ UNCHANGED <<table, submit, thread, direct, histories, now, bounded>>
-----------------------------------------------------------------------------
(***************************************************************************)
(* Executing a task.                                                       *)
(***************************************************************************)
StampRunning(c) ==
  /\ thread[c].pc = "ready"
  /\ thread' = [thread EXCEPT ![c].pc = "marking", ![c].stamp = now]
  /\ UNCHANGED <<table, submit, direct, client, histories, now, bounded>>

BeginRun(c) ==
  /\ thread[c].pc = "marking"
  /\ table' = Transition(c, "running", thread[c].stamp)
  /\ thread' = [thread EXCEPT ![c].pc = "run"]
  /\ runs' = [runs EXCEPT ![c] = @ + 1]
  /\ UNCHANGED <<submit, direct, client, outcomes, lost, now, bounded>>

EndRun(c) ==
  /\ thread[c].pc = "run"
  /\ \E outcome \in Outcomes :
       /\ thread' = [thread EXCEPT ![c] = [pc |-> "finishing", stamp |-> now,
                                           outcome |-> outcome]]
       /\ outcomes' = [outcomes EXCEPT ![c] = @ \cup {outcome}]
  /\ UNCHANGED <<table, submit, direct, client, runs, lost, now, bounded>>

RecordResult(c) ==
  /\ thread[c].pc = "finishing"
  /\ table' = Transition(c, StateFor(thread[c].outcome), thread[c].stamp)
  /\ thread' = [thread EXCEPT ![c].pc = "over"]
  /\ UNCHANGED <<submit, direct, client, histories, now, bounded>>
-----------------------------------------------------------------------------
(***************************************************************************)
(* Polling a task.                                                         *)
(***************************************************************************)
Poll(c) ==
  /\ client[c].pc = "poll" /\ now < client[c].deadline
  /\ client' = [client EXCEPT ![c].pc = "get"]
  /\ UNCHANGED <<table, submit, thread, direct, histories, now, bounded>>

\* get prunes the table before it looks; a task that is not there is a 404,
\* which the client takes for a missing interface.
AnswerGet(c) ==
  /\ client[c].pc = "get"
  /\ table' = Pruned(table, now)
  /\ lost' = lost \cup (Present(table) \ Present(table'))
  /\ \/ /\ table'[c].state = "none"
        /\ FallBack(c)
     \/ /\ table'[c].state \in Finished
        /\ Ended(c, IF table'[c].state = "final" THEN "accepted" ELSE "refused")
        /\ UNCHANGED direct
     \/ /\ table'[c].state \in {"accepted", "running"}
        /\ client' = [client EXCEPT ![c].pc = "poll"]
        /\ UNCHANGED direct
  /\ UNCHANGED <<submit, thread, runs, outcomes, now, bounded>>
-----------------------------------------------------------------------------
(***************************************************************************)
(* The synchronous endpoint.                                               *)
(***************************************************************************)
BeginDirect(c) ==
  /\ direct[c] = "sent"
  /\ direct' = [direct EXCEPT ![c] = "run"]
  /\ runs' = [runs EXCEPT ![c] = @ + 1]
  /\ UNCHANGED <<table, submit, thread, client, outcomes, lost, now, bounded>>

EndDirect(c) ==
  /\ direct[c] = "run"
  /\ \E outcome \in Outcomes :
       /\ direct' = [direct EXCEPT ![c] = outcome]
       /\ outcomes' = [outcomes EXCEPT ![c] = @ \cup {outcome}]
  /\ UNCHANGED <<table, submit, thread, client, runs, lost, now, bounded>>

\* A dispatch that raised is an HTTP error, which the client passes on.
AnswerDirect(c) ==
  /\ client[c].pc = "legacy" /\ direct[c] \in Outcomes
  /\ Ended(c, IF direct[c] = "raised" THEN "error" ELSE direct[c])
  /\ UNCHANGED <<table, submit, thread, direct, histories, now, bounded>>
-----------------------------------------------------------------------------
(***************************************************************************)
(* Timeouts, failing connections, restarts.                                *)
(***************************************************************************)

\* Fault: a timed-out poll falls back like any other failure.
TimesOutFallingBack(c) ==
  /\ client[c].pc \in {"post", "poll", "get", "legacy"}
  /\ now >= client[c].deadline
  /\ IF client[c].pc = "legacy"
     THEN Ended(c, "timeout") /\ UNCHANGED direct
     ELSE FallBack(c)
  /\ UNCHANGED <<table, submit, thread, histories, now, bounded>>

\* A request or the polling loop runs into its deadline: the call ends without
\* a fallback, whatever the gateway is still doing for it.
TimesOut(c) ==
  /\ client[c].pc \in {"post", "poll", "get", "legacy"}
  /\ now >= client[c].deadline
  /\ Ended(c, "timeout")
  /\ UNCHANGED <<table, submit, thread, direct, histories, now, bounded>>

\* A connection fails before the gateway has read the request, or after.  Most
\* errors make the client fall back, some end the call.
ConnectionFails(c) ==
  /\ restarts + faults < MaxFaults
  /\ faults' = faults + 1
  /\ client[c].pc \in {"post", "get", "legacy"}
  /\ lost' = lost \cup {c}
  /\ \E undelivered \in BOOLEAN :
       submit' = IF undelivered /\ client[c].pc = "post" /\ submit[c].pc = "sent"
                 THEN [submit EXCEPT ![c].pc = "gone"] ELSE submit
  /\ \/ client[c].pc # "legacy" /\ FallBack(c)
     \/ Ended(c, "error") /\ UNCHANGED direct
  /\ UNCHANGED <<table, thread, runs, outcomes, now, restarts>>

\* The table lives in memory, and so do the threads.
Restart ==
  /\ restarts + faults < MaxFaults
  /\ restarts' = restarts + 1
  /\ table' = [c \in Calls |-> NoTask]
  /\ thread' = [c \in Calls |->
       IF thread[c].pc = "none" THEN thread[c] ELSE [thread[c] EXCEPT !.pc = "over"]]
  /\ submit' = [c \in Calls |->
       IF submit[c].pc \in {"sent", "stamped"}
       THEN [submit[c] EXCEPT !.pc = "gone"] ELSE submit[c]]
  /\ direct' = [c \in Calls |-> IF direct[c] = "none" THEN "none" ELSE "gone"]
  /\ lost' = lost \cup {c \in Calls : client[c].pc # "idle"}
  /\ UNCHANGED <<client, runs, outcomes, now, faults>>

Tick ==
  /\ now < MaxTime
  /\ now' = now + 1
  /\ UNCHANGED <<table, submit, thread, direct, client, histories, bounded>>
-----------------------------------------------------------------------------
Init ==
  /\ table = [c \in Calls |-> NoTask]
  /\ submit = [c \in Calls |-> [pc |-> "none", stamp |-> 0]]
  /\ thread = [c \in Calls |-> NoThread]
  /\ direct = [c \in Calls |-> "none"]
  /\ client = [c \in Calls |-> [pc |-> "idle", knowsTask |-> FALSE,
                                deadline |-> 0, answer |-> "none"]]
  /\ runs = [c \in Calls |-> 0]
  /\ outcomes = [c \in Calls |-> {}]
  /\ lost = {}
  /\ now = 0
  /\ restarts = 0
  /\ faults = 0

CallStep(c) ==
  \/ Send(c) \/ StampTask(c) \/ StoreTask(c) \/ AnswerSubmit(c)
  \/ StampRunning(c) \/ BeginRun(c) \/ EndRun(c) \/ RecordResult(c)
  \/ Poll(c) \/ AnswerGet(c)
  \/ BeginDirect(c) \/ EndDirect(c) \/ AnswerDirect(c)
  \/ TimesOut(c) \/ ConnectionFails(c)

Next == (\E c \in Calls : CallStep(c)) \/ Restart \/ Tick

Spec == Init /\ [][Next]_vars
-----------------------------------------------------------------------------
(***************************************************************************)
(* Properties.                                                             *)
(***************************************************************************)
\* The table, the requests, the threads and the clients keep their shape.
TypeOK ==
  /\ table \in [Calls -> Task]
  /\ submit \in [Calls -> Submission]
  /\ thread \in [Calls -> Thread]
  /\ direct \in [Calls -> {"none", "sent", "run", "gone"} \cup Outcomes]
  /\ client \in [Calls -> Client]
  /\ runs \in [Calls -> Nat]
  /\ outcomes \in [Calls -> SUBSET Outcomes]
  /\ lost \subseteq Calls
  /\ now \in 0..MaxTime
  /\ restarts \in 0..MaxFaults
  /\ faults \in 0..MaxFaults

\* However submissions, polls and transitions interleave, the table never holds
\* more than its limit (leader_task_runtime.py:150-164).
TableBounded == Cardinality(Present(table)) <= MaxItems

\* A command is executed again only if its task was evicted, pruned or wiped by
\* a restart, or its connection failed, and then only once more: a timeout
\* alone never repeats it (chat_bridge.py:190-211).
RerunOnlyAfterLoss ==
  \A c \in Calls : runs[c] <= IF c \in lost THEN 2 ELSE 1

\* An answer the client hands back is that of a finished execution of the same
\* call: it never says accepted when no execution was, nor the reverse
\* (leader_task_runtime.py:76-108, chat_bridge.py:268-298).
AnswerTruthful ==
  \A c \in Calls :
    /\ client[c].answer = "accepted" => "accepted" \in outcomes[c]
    /\ client[c].answer = "refused" => outcomes[c] \cap {"refused", "raised"} # {}

Successors(state) ==
  CASE state = "accepted" -> {"running"}
    [] state = "running"  -> Finished
    [] OTHER              -> {}

\* The task of a call goes on to its next state, begins or leaves the table.
LifeStep(c) ==
  table'[c].state # table[c].state =>
    \/ table'[c].state \in Successors(table[c].state)
    \/ table'[c].state = "accepted" /\ thread[c].pc = "none"
    \/ /\ table'[c].state = "none"
       /\ \/ table[c].state \in Finished \/ restarts' # restarts
          \/ Cardinality(Present(table')) = MaxItems

\* accepted -> running -> final | failed: a task never skips or repeats a
\* state, an unfinished one leaves the table only when it is full or the gateway
\* restarts, and once out of the table a task never comes back
\* (resource/ops/leader-task-api-runbook-2026-03-09.md:12).
TaskLifecycle == [][\A c \in Calls : LifeStep(c)]_vars

\* "If the target service is not upgraded yet (404 or old version), fall back
\* to the old interface" (resource/ops/leader-task-api-runbook-2026-03-09.md:69):
\* a client that has been given a task does not fall back.
FallbackOnlyWithoutTask ==
  \A c \in Calls : client[c].pc = "legacy" => ~client[c].knowsTask

(***************************************************************************)
(* The inductive invariant behind RerunOnlyAfterLoss and AnswerTruthful.   *)
(***************************************************************************)

\* A thread or a handler here has begun to execute the command.
Begun(c)    == thread[c].pc \in {"run", "finishing", "over"}
BegunAnew(c) == direct[c] \notin {"none", "sent"}

\* One execution for the thread, one for the synchronous handler; the latter is
\* asked only once and only for calls that lost their task.
RunsOK(c) ==
  /\ runs[c] <= (IF Begun(c) THEN 1 ELSE 0) + (IF BegunAnew(c) THEN 1 ELSE 0)
  /\ direct[c] # "none" => c \in lost /\ client[c].pc \in {"legacy", "over"}

\* A stored task is in the table or lost, and only a stored one is polled.
StoredOK(c) ==
  /\ submit[c].pc = "stored" => table[c].state # "none" \/ c \in lost
  /\ client[c].pc \in {"poll", "get"} => submit[c].pc = "stored"
  /\ client[c].pc = "idle" => submit[c].pc = "none"
  /\ submit[c].pc \in {"none", "sent", "stamped"} =>
       table[c].state = "none" /\ thread[c].pc = "none"

\* What is said of an outcome was returned by an execution.
OutcomeOK(c) ==
  /\ table[c].state = "final" => "accepted" \in outcomes[c]
  /\ table[c].state = "failed" => outcomes[c] \cap {"refused", "raised"} # {}
  /\ thread[c].pc = "finishing" => thread[c].outcome \in outcomes[c]
  /\ direct[c] \in Outcomes => direct[c] \in outcomes[c]
  /\ client[c].answer = "accepted" => "accepted" \in outcomes[c]
  /\ client[c].answer = "refused" => outcomes[c] \cap {"refused", "raised"} # {}

LeaderInv ==
  /\ TypeOK
  /\ \A c \in Calls : RunsOK(c) /\ StoredOK(c) /\ OutcomeOK(c)
=============================================================================
