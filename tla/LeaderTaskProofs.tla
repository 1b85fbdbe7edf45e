-------------------------- MODULE LeaderTaskProofs --------------------------
(***************************************************************************)
(* Proofs about LeaderTasks, for any number of calls, any size of the      *)
(* table, any retention and timeout, and any number of restarts and        *)
(* failing connections.                                                    *)
(***************************************************************************)
EXTENDS LeaderTasks, FiniteSetTheorems, TLAPS

CallOK(c) == RunsOK(c) /\ StoredOK(c) /\ OutcomeOK(c)

\* A step leaves the task of a call alone or, if there is one, loses it.
TaskKeptOrLost(c) ==
  \/ table'[c] = table[c]
  \/ table'[c] = NoTask /\ (table[c].state = "none" \/ c \in lost')

LEMMA InitLeaderInv == Init => LeaderInv
<1> SUFFICES ASSUME Init PROVE LeaderInv
  OBVIOUS
<1>1. TypeOK
  BY LeaderAssumption
     DEF Init, TypeOK, Task, NoTask, States, Submission, Thread, NoThread, Client
<1>2. ASSUME NEW c \in Calls PROVE RunsOK(c) /\ StoredOK(c) /\ OutcomeOK(c)
  BY DEF Init, RunsOK, StoredOK, OutcomeOK, Begun, BegunAnew, NoTask, NoThread,
         Outcomes
<1> QED BY <1>1, <1>2 DEF LeaderInv

-----------------------------------------------------------------------------
(***************************************************************************)
(* The operators of the table.                                             *)
(***************************************************************************)
LEMMA NoTaskType == NoTask \in Task /\ NoTask.state = "none"
BY DEF NoTask, Task, States

\* Pruning only takes tasks away.
LEMMA PrunedLess ==
  ASSUME table \in [Calls -> Task], NEW at \in Nat
  PROVE  /\ Pruned(table, at) \in [Calls -> Task]
         /\ \A c \in Calls : \/ Pruned(table, at)[c] = table[c]
                             \/ Pruned(table, at)[c] = NoTask
BY NoTaskType DEF Pruned

\* A transition touches its own task, and that only if it is in the table.
LEMMA TransitionOne ==
  ASSUME table \in [Calls -> Task], NEW c \in Calls, NEW at \in Nat,
         NEW state \in States \ {"none"}, table' = Transition(c, state, at)
  PROVE  /\ table' \in [Calls -> Task]
         /\ table[c].state = "none" => table'[c] = table[c]
         /\ table[c].state # "none" => table'[c].state = state
         /\ \A d \in Calls : d # c => table'[d] = table[d]
<1>1. CASE table[c].state = "none"
  BY <1>1 DEF Transition
<1>2. CASE table[c].state # "none"
  BY <1>2 DEF Transition, Task
<1> QED BY <1>1, <1>2

\* What of the table survives an insertion is a choice among what is there.
LEMMA SurvivorsThere ==
  ASSUME NEW t \in [Calls -> Task], NEW K \in Survivors(t)
  PROVE  K \subseteq Present(t) /\ Present(t) \subseteq Calls
BY DEF Survivors, Present

-----------------------------------------------------------------------------
(***************************************************************************)
(* Step by step.                                                           *)
(***************************************************************************)

\* A call of which nothing changes, but that its task may be lost, stays sound.
LEMMA OtherCallKept ==
  ASSUME LeaderInv, NEW d \in Calls,
         submit'[d] = submit[d], thread'[d] = thread[d],
         direct'[d] = direct[d], client'[d] = client[d],
         runs'[d] = runs[d], outcomes'[d] = outcomes[d], lost \subseteq lost',
         TaskKeptOrLost(d)
  PROVE  CallOK(d)'
<1>1. RunsOK(d) /\ StoredOK(d) /\ OutcomeOK(d)
  BY DEF LeaderInv
<1>2. RunsOK(d)'
  BY <1>1 DEF RunsOK, Begun, BegunAnew
<1>3. StoredOK(d)'
  BY <1>1, NoTaskType DEF StoredOK, TaskKeptOrLost
<1>4. OutcomeOK(d)'
  BY <1>1, NoTaskType DEF OutcomeOK, TaskKeptOrLost
<1> QED BY <1>2, <1>3, <1>4 DEF CallOK

\* A client that ends its call, or falls back, changes nothing else of itself.
LEMMA EndedStep ==
  ASSUME client \in [Calls -> Client], NEW c \in Calls,
         NEW answer \in {"accepted", "refused", "timeout", "error"},
         Ended(c, answer)
  PROVE  /\ client' \in [Calls -> Client]
         /\ client'[c].pc = "over" /\ client'[c].answer = answer
         /\ \A d \in Calls : d # c => client'[d] = client[d]
BY DEF Ended, Client

LEMMA FallBackStep ==
  ASSUME client \in [Calls -> Client], NEW c \in Calls, Deadline \in Nat,
         direct \in [Calls -> {"none", "sent", "run", "gone"} \cup Outcomes],
         FallBack(c)
  PROVE  /\ client' \in [Calls -> Client]
         /\ client'[c].pc = "legacy" /\ client'[c].answer = client[c].answer
         /\ \A d \in Calls : d # c => client'[d] = client[d] /\ direct'[d] = direct[d]
         /\ direct' \in [Calls -> {"none", "sent", "run", "gone"} \cup Outcomes]
         /\ direct'[c] = "sent"
<1>1. /\ client' \in [Calls -> Client]
      /\ client'[c].pc = "legacy" /\ client'[c].answer = client[c].answer
      /\ \A d \in Calls : d # c => client'[d] = client[d]
  BY DEF FallBack, Client
<1> QED BY <1>1 DEF FallBack

LEMMA AnswerSubmitStep ==
  ASSUME client \in [Calls -> Client], NEW c \in Calls, Deadline \in Nat,
         AnswerSubmit(c)
  PROVE  /\ client' \in [Calls -> Client]
         /\ client'[c].pc = "poll" /\ client'[c].answer = client[c].answer
         /\ \A d \in Calls : d # c => client'[d] = client[d]
<1> DEFINE at == Deadline
<1>1. client' = [client EXCEPT ![c] =
                   [[[client[c] EXCEPT !.pc = "poll"] EXCEPT !.deadline = at]
                      EXCEPT !.knowsTask = TRUE]]
  BY DEF AnswerSubmit, Client
<1>2. at \in Nat
  OBVIOUS
<1> HIDE DEF at
<1> QED BY <1>1, <1>2 DEF Client

LEMMA StampRunningStep ==
  ASSUME thread \in [Calls -> Thread], NEW c \in Calls, now \in Nat,
         StampRunning(c)
  PROVE  /\ thread' \in [Calls -> Thread]
         /\ thread[c].pc = "ready" /\ thread'[c].pc = "marking"
         /\ \A d \in Calls : d # c => thread'[d] = thread[d]
BY DEF StampRunning, Thread

\* A request that never arrives was still under way.
LEMMA ConnectionFailsStep ==
  ASSUME submit \in [Calls -> Submission], NEW c \in Calls, ConnectionFails(c)
  PROVE  /\ submit' \in [Calls -> Submission]
         /\ \/ submit'[c].pc = submit[c].pc
            \/ client[c].pc = "post" /\ submit[c].pc = "sent" /\ submit'[c].pc = "gone"
         /\ \A d \in Calls : d # c => submit'[d] = submit[d]
BY DEF ConnectionFails, Submission

\* The steps of a call that leave the table alone.
LEMMA QuietStepKeepsInv ==
  ASSUME LeaderInv, NEW c \in Calls,
         \/ Send(c) \/ StampTask(c) \/ AnswerSubmit(c) \/ StampRunning(c)
         \/ EndRun(c) \/ Poll(c) \/ BeginDirect(c) \/ EndDirect(c)
         \/ AnswerDirect(c) \/ TimesOut(c) \/ ConnectionFails(c)
  PROVE  LeaderInv'
<1>1. TypeOK /\ RunsOK(c) /\ StoredOK(c) /\ OutcomeOK(c)
  BY DEF LeaderInv
<1>2. UNCHANGED <<table, now, restarts>>
  BY DEF Send, StampTask, AnswerSubmit, StampRunning, EndRun, Poll, BeginDirect,
         EndDirect, AnswerDirect, TimesOut, ConnectionFails, bounded
<1>3. Deadline \in Nat
  BY <1>1, LeaderAssumption DEF TypeOK, Deadline
<1> DEFINE Good ==
      /\ TypeOK'
      /\ CallOK(c)'
      /\ \A d \in Calls : d # c =>
           /\ submit'[d] = submit[d] /\ thread'[d] = thread[d]
           /\ direct'[d] = direct[d] /\ client'[d] = client[d]
           /\ runs'[d] = runs[d] /\ outcomes'[d] = outcomes[d]
      /\ lost \subseteq lost'
<1> USE <1>1, <1>2, <1>3 DEF TypeOK, CallOK, RunsOK, StoredOK, OutcomeOK, Begun,
        BegunAnew, histories, bounded
<1>4. ASSUME Send(c) PROVE Good
  <2>1. /\ client' \in [Calls -> Client]
        /\ client'[c].pc = "post" /\ client'[c].answer = client[c].answer
        /\ \A d \in Calls : d # c => client'[d] = client[d]
    BY <1>4 DEF Send, Client
  <2>2. /\ submit' \in [Calls -> Submission] /\ submit'[c].pc = "sent"
        /\ \A d \in Calls : d # c => submit'[d] = submit[d]
    BY <1>4 DEF Send, Submission
  <2> QED BY <1>4, <2>1, <2>2 DEF Send
<1>5. ASSUME StampTask(c) PROVE Good
  <2>1. /\ submit' \in [Calls -> Submission] /\ submit'[c].pc = "stamped"
        /\ \A d \in Calls : d # c => submit'[d] = submit[d]
    BY <1>5 DEF StampTask, Submission
  <2> QED BY <1>5, <2>1 DEF StampTask
<1>6. ASSUME AnswerSubmit(c) PROVE Good
  <2>1. /\ client' \in [Calls -> Client]
        /\ client'[c].pc = "poll" /\ client'[c].answer = client[c].answer
        /\ \A d \in Calls : d # c => client'[d] = client[d]
    BY <1>6, AnswerSubmitStep
  <2> QED BY <1>6, <2>1 DEF AnswerSubmit
<1>7. ASSUME StampRunning(c) PROVE Good
  <2>1. /\ thread' \in [Calls -> Thread]
        /\ thread[c].pc = "ready" /\ thread'[c].pc = "marking"
        /\ \A d \in Calls : d # c => thread'[d] = thread[d]
    BY <1>7, StampRunningStep
  <2> QED BY <1>7, <2>1 DEF StampRunning
<1>8. ASSUME EndRun(c) PROVE Good
  BY <1>8 DEF EndRun, Thread, Outcomes
<1>9. ASSUME Poll(c) PROVE Good
  BY <1>9 DEF Poll, Client
<1>10. ASSUME BeginDirect(c) PROVE Good
  BY <1>10 DEF BeginDirect, Outcomes
<1>11. ASSUME EndDirect(c) PROVE Good
  BY <1>11 DEF EndDirect, Outcomes
<1>12. ASSUME AnswerDirect(c) PROVE Good
  <2>1. PICK answer \in {"accepted", "refused", "error"} :
          /\ Ended(c, answer)
          /\ answer # "error" => answer = direct[c]
    BY <1>12 DEF AnswerDirect, Outcomes
  <2>2. /\ client' \in [Calls -> Client]
        /\ client'[c].pc = "over" /\ client'[c].answer = answer
        /\ \A d \in Calls : d # c => client'[d] = client[d]
    BY <2>1, EndedStep
  <2> QED BY <1>12, <2>1, <2>2 DEF AnswerDirect
<1>13. ASSUME TimesOut(c) PROVE Good
  <2>1. /\ client' \in [Calls -> Client]
        /\ client'[c].pc = "over" /\ client'[c].answer = "timeout"
        /\ \A d \in Calls : d # c => client'[d] = client[d]
    BY <1>13, EndedStep DEF TimesOut
  <2> QED BY <1>13, <2>1 DEF TimesOut
<1>14. ASSUME ConnectionFails(c) PROVE Good
  <2>1. /\ submit' \in [Calls -> Submission]
        /\ \/ submit'[c].pc = submit[c].pc
           \/ client[c].pc = "post" /\ submit[c].pc = "sent" /\ submit'[c].pc = "gone"
        /\ \A d \in Calls : d # c => submit'[d] = submit[d]
    BY <1>14, ConnectionFailsStep
  <2>2. /\ UNCHANGED <<thread, runs, outcomes>> /\ lost' = lost \cup {c}
        /\ client[c].pc \in {"post", "get", "legacy"}
        /\ faults' \in 0..MaxFaults
    BY <1>14, LeaderAssumption DEF ConnectionFails
  <2>3. CASE client[c].pc # "legacy" /\ FallBack(c)
    <3>1. /\ client' \in [Calls -> Client]
          /\ client'[c].pc = "legacy" /\ client'[c].answer = client[c].answer
          /\ \A d \in Calls : d # c => client'[d] = client[d] /\ direct'[d] = direct[d]
          /\ direct' \in [Calls -> {"none", "sent", "run", "gone"} \cup Outcomes]
          /\ direct'[c] = "sent"
      BY <2>3, FallBackStep
    <3>2. TypeOK'
      BY <2>1, <2>2, <3>1
    <3>3. RunsOK(c)'
      BY <2>2, <2>3, <3>1
    <3>4. StoredOK(c)'
      BY <2>1, <2>2, <3>1
    <3>5. OutcomeOK(c)'
      BY <2>2, <3>1 DEF Outcomes
    <3> QED BY <2>1, <2>2, <3>1, <3>2, <3>3, <3>4, <3>5
  <2>4. CASE Ended(c, "error") /\ UNCHANGED direct
    <3>1. /\ client' \in [Calls -> Client]
          /\ client'[c].pc = "over" /\ client'[c].answer = "error"
          /\ \A d \in Calls : d # c => client'[d] = client[d]
      BY <2>4, EndedStep
    <3> QED BY <2>1, <2>2, <2>4, <3>1
  <2> QED BY <1>14, <2>3, <2>4 DEF ConnectionFails
<1>15. Good
  BY <1>4, <1>5, <1>6, <1>7, <1>8, <1>9, <1>10, <1>11, <1>12, <1>13, <1>14
<1>16. ASSUME NEW d \in Calls PROVE CallOK(d)'
  BY <1>15, <1>2, OtherCallKept DEF TaskKeptOrLost
<1> QED BY <1>15, <1>16 DEF LeaderInv, CallOK

\* Marking and recording write one task, if it is still there.
LEMMA TransitionKeepsInv ==
  ASSUME LeaderInv, NEW c \in Calls, BeginRun(c) \/ RecordResult(c)
  PROVE  LeaderInv'
<1>1. TypeOK /\ RunsOK(c) /\ StoredOK(c) /\ OutcomeOK(c)
  BY DEF LeaderInv
<1>2. thread[c].stamp \in Nat /\ StateFor(thread[c].outcome) \in Finished
  BY <1>1 DEF TypeOK, Thread, StateFor, Finished
<1>3. UNCHANGED <<submit, direct, client, outcomes, lost, now, bounded>>
  BY DEF BeginRun, RecordResult, histories
<1> DEFINE Good ==
      /\ table' \in [Calls -> Task] /\ thread' \in [Calls -> Thread]
      /\ runs' \in [Calls -> Nat]
      /\ CallOK(c)'
      /\ \A d \in Calls : d # c =>
           table'[d] = table[d] /\ thread'[d] = thread[d] /\ runs'[d] = runs[d]
<1>4. ASSUME BeginRun(c) PROVE Good
  <2>1. /\ table' \in [Calls -> Task]
        /\ table[c].state = "none" => table'[c] = table[c]
        /\ table[c].state # "none" => table'[c].state = "running"
        /\ \A d \in Calls : d # c => table'[d] = table[d]
    BY <1>1, <1>2, <1>4, TransitionOne DEF BeginRun, States, TypeOK
  <2>2. /\ thread' \in [Calls -> Thread] /\ thread[c].pc = "marking"
        /\ thread'[c].pc = "run"
        /\ \A d \in Calls : d # c => thread'[d] = thread[d]
    BY <1>1, <1>4 DEF BeginRun, Thread, TypeOK
  <2>3. /\ runs' \in [Calls -> Nat] /\ runs'[c] = runs[c] + 1 /\ runs[c] \in Nat
        /\ \A d \in Calls : d # c => runs'[d] = runs[d]
    BY <1>1, <1>4 DEF BeginRun, TypeOK
  <2>4. RunsOK(c)'
    BY <1>1, <1>3, <2>2, <2>3 DEF RunsOK, Begun, BegunAnew
  <2>5. StoredOK(c)'
    BY <1>1, <1>3, <2>1, <2>2 DEF StoredOK, bounded
  <2>6. OutcomeOK(c)'
    BY <1>1, <1>3, <2>1, <2>2 DEF OutcomeOK
  <2> QED BY <2>1, <2>2, <2>3, <2>4, <2>5, <2>6 DEF CallOK
<1>5. ASSUME RecordResult(c) PROVE Good
  <2> DEFINE state == StateFor(thread[c].outcome)
  <2>1. /\ table' \in [Calls -> Task]
        /\ table[c].state = "none" => table'[c] = table[c]
        /\ table[c].state # "none" => table'[c].state = state
        /\ \A d \in Calls : d # c => table'[d] = table[d]
    BY <1>1, <1>2, <1>5, TransitionOne DEF RecordResult, States, Finished, TypeOK
  <2>2. /\ thread' \in [Calls -> Thread] /\ thread[c].pc = "finishing"
        /\ thread'[c].pc = "over" /\ thread[c].outcome \in Outcomes \cup {"none"}
        /\ \A d \in Calls : d # c => thread'[d] = thread[d]
    BY <1>1, <1>5 DEF RecordResult, Thread, TypeOK
  <2>3. UNCHANGED runs
    BY <1>5 DEF RecordResult, histories
  <2>4. RunsOK(c)'
    BY <1>1, <1>3, <2>2, <2>3 DEF RunsOK, Begun, BegunAnew
  <2>5. StoredOK(c)'
    BY <1>1, <1>2, <1>3, <2>1, <2>2 DEF StoredOK, Finished
  <2>6. /\ state = "final" => "accepted" \in outcomes[c]
        /\ state = "failed" => outcomes[c] \cap {"refused", "raised"} # {}
    BY <1>1, <2>2 DEF OutcomeOK, StateFor, Outcomes, TypeOK
  <2>7. OutcomeOK(c)'
    BY <1>1, <1>2, <1>3, <2>1, <2>2, <2>6 DEF OutcomeOK
  <2> QED BY <1>1, <2>1, <2>2, <2>3, <2>4, <2>5, <2>7 DEF CallOK, TypeOK
<1>6. Good
  BY <1>4, <1>5
<1>7. TypeOK'
  BY <1>1, <1>3, <1>6 DEF TypeOK, bounded
<1>8. ASSUME NEW d \in Calls PROVE CallOK(d)'
  BY <1>3, <1>6, OtherCallKept DEF TaskKeptOrLost
<1> QED BY <1>7, <1>8 DEF LeaderInv, CallOK

\* A submission takes tasks away and adds its own; what it takes is lost.
LEMMA StoreKeepsInv ==
  ASSUME LeaderInv, NEW c \in Calls, StoreTask(c)
  PROVE  LeaderInv'
<1>1. TypeOK /\ RunsOK(c) /\ StoredOK(c) /\ OutcomeOK(c)
  BY DEF LeaderInv
<1> DEFINE at == submit[c].stamp
           new == [state |-> "accepted", updated |-> at, finished |-> 0]
           added == [Pruned(table, at) EXCEPT ![c] = new]
<1>2. /\ submit[c].pc = "stamped"
      /\ submit' = [submit EXCEPT ![c].pc = "stored"]
      /\ thread' = [thread EXCEPT ![c].pc = "ready"]
      /\ UNCHANGED <<direct, client, runs, outcomes, now, bounded>>
      /\ \E kept \in Survivors(added) :
          /\ table' = [d \in Calls |-> IF d \in kept THEN added[d] ELSE NoTask]
          /\ lost' = lost \cup ((Present(table) \cup {c}) \ kept)
  BY DEF StoreTask
<1>3. PICK kept \in Survivors(added) :
        /\ table' = [d \in Calls |-> IF d \in kept THEN added[d] ELSE NoTask]
        /\ lost' = lost \cup ((Present(table) \cup {c}) \ kept)
  BY <1>2
<1>4. at \in Nat /\ new \in Task /\ new.state = "accepted"
  BY <1>1 DEF TypeOK, Submission, Task, States
<1>5. /\ added \in [Calls -> Task] /\ added[c] = new
      /\ \A d \in Calls : d # c => added[d] = table[d] \/ added[d] = NoTask
  BY <1>1, <1>4, PrunedLess DEF TypeOK
<1>6. kept \subseteq Present(added) /\ Present(table) \subseteq Calls
  BY <1>5, SurvivorsThere DEF Present
<1> HIDE DEF at, new, added
<1>7. /\ table' \in [Calls -> Task] /\ lost \subseteq lost' /\ lost' \subseteq Calls
      /\ \/ table'[c] = new
         \/ table'[c] = NoTask /\ c \in lost'
      /\ \A d \in Calls : d # c => TaskKeptOrLost(d)
  <2>1. table' \in [Calls -> Task]
    BY <1>3, <1>5, NoTaskType
  <2>2. lost \subseteq lost' /\ lost' \subseteq Calls
    BY <1>1, <1>3, <1>6 DEF TypeOK
  <2>3. table'[c] = new \/ (table'[c] = NoTask /\ c \in lost')
    BY <1>3, <1>5
  <2>4. ASSUME NEW d \in Calls, d # c PROVE TaskKeptOrLost(d)
    <3>1. CASE d \in kept
      <4>1. table'[d] = added[d] /\ added[d].state # "none"
        BY <1>3, <1>6, <3>1 DEF Present
      <4> QED BY <1>5, <2>4, <4>1, NoTaskType DEF TaskKeptOrLost
    <3>2. CASE d \notin kept
      BY <1>3, <3>2 DEF Present, TaskKeptOrLost
    <3> QED BY <3>1, <3>2
  <2> QED BY <2>1, <2>2, <2>3, <2>4
<1>8. /\ submit' \in [Calls -> Submission] /\ submit'[c].pc = "stored"
      /\ \A d \in Calls : d # c => submit'[d] = submit[d]
  BY <1>1, <1>2 DEF TypeOK, Submission
<1>9. /\ thread' \in [Calls -> Thread] /\ thread[c].pc = "none"
      /\ thread'[c].pc = "ready"
      /\ \A d \in Calls : d # c => thread'[d] = thread[d]
  BY <1>1, <1>2 DEF TypeOK, StoredOK, Thread
<1>10. TypeOK'
  BY <1>1, <1>2, <1>7, <1>8, <1>9 DEF TypeOK, bounded
<1>11. CallOK(c)'
  <2>1. RunsOK(c)'
    BY <1>1, <1>2, <1>7, <1>9 DEF RunsOK, Begun, BegunAnew
  <2>2. StoredOK(c)'
    BY <1>1, <1>2, <1>4, <1>7, <1>8 DEF StoredOK
  <2>3. OutcomeOK(c)'
    BY <1>1, <1>2, <1>4, <1>7, <1>9, NoTaskType DEF OutcomeOK
  <2> QED BY <2>1, <2>2, <2>3 DEF CallOK
<1>12. ASSUME NEW d \in Calls, d # c PROVE CallOK(d)'
  BY <1>2, <1>7, <1>8, <1>9, <1>12, OtherCallKept
<1> QED BY <1>10, <1>11, <1>12 DEF LeaderInv, CallOK

\* A poll prunes the table; a task that is gone then is lost, and only then does
\* the client fall back.
LEMMA AnswerGetKeepsInv ==
  ASSUME LeaderInv, NEW c \in Calls, AnswerGet(c)
  PROVE  LeaderInv'
<1>1. TypeOK /\ RunsOK(c) /\ StoredOK(c) /\ OutcomeOK(c)
  BY DEF LeaderInv
<1>2. /\ client[c].pc = "get" /\ table' = Pruned(table, now)
      /\ lost' = lost \cup (Present(table) \ Present(table'))
      /\ UNCHANGED <<submit, thread, runs, outcomes, now, bounded>>
  BY DEF AnswerGet
<1>3. table' \in [Calls -> Task]
      /\ \A d \in Calls : table'[d] = table[d] \/ table'[d] = NoTask
  BY <1>1, <1>2, PrunedLess DEF TypeOK
<1>4. lost \subseteq lost' /\ lost' \subseteq Calls
      /\ \A d \in Calls : TaskKeptOrLost(d)
  BY <1>1, <1>2, <1>3, NoTaskType DEF TypeOK, Present, TaskKeptOrLost
<1>5. submit[c].pc = "stored" /\ direct[c] = "none"
  BY <1>1, <1>2 DEF StoredOK, RunsOK
<1>6. Deadline \in Nat
  BY <1>1, LeaderAssumption DEF TypeOK, Deadline
<1>7. table'[c].state # "none" \/ c \in lost'
  BY <1>1, <1>4, <1>5, NoTaskType DEF StoredOK, TaskKeptOrLost
<1>8. client'[c].pc # "idle" => StoredOK(c)'
  BY <1>2, <1>5, <1>7 DEF StoredOK
<1>9. /\ table'[c].state = "final" => "accepted" \in outcomes[c]
      /\ table'[c].state = "failed" => outcomes[c] \cap {"refused", "raised"} # {}
  BY <1>1, <1>3, NoTaskType DEF OutcomeOK
<1> DEFINE Good ==
      /\ client' \in [Calls -> Client]
      /\ direct' \in [Calls -> {"none", "sent", "run", "gone"} \cup Outcomes]
      /\ CallOK(c)'
      /\ \A d \in Calls : d # c => client'[d] = client[d] /\ direct'[d] = direct[d]
<1>10. ASSUME table'[c].state = "none", FallBack(c) PROVE Good
  <2>1. /\ client' \in [Calls -> Client]
        /\ client'[c].pc = "legacy" /\ client'[c].answer = client[c].answer
        /\ \A d \in Calls : d # c => client'[d] = client[d] /\ direct'[d] = direct[d]
        /\ direct' \in [Calls -> {"none", "sent", "run", "gone"} \cup Outcomes]
        /\ direct'[c] = "sent"
    BY <1>1, <1>6, <1>10, FallBackStep DEF TypeOK
  <2>2. RunsOK(c)'
    BY <1>1, <1>2, <1>5, <1>7, <1>10, <2>1 DEF RunsOK, Begun, BegunAnew
  <2>3. StoredOK(c)'
    BY <1>8, <2>1
  <2>4. OutcomeOK(c)'
    BY <1>1, <1>2, <1>9, <2>1 DEF OutcomeOK, Outcomes
  <2> QED BY <2>1, <2>2, <2>3, <2>4 DEF CallOK
<1>11. ASSUME table'[c].state \in Finished, UNCHANGED direct,
              Ended(c, IF table'[c].state = "final" THEN "accepted" ELSE "refused")
       PROVE  Good
  <2>1. PICK answer \in {"accepted", "refused"} :
          /\ Ended(c, answer)
          /\ answer = "accepted" => table'[c].state = "final"
          /\ answer = "refused" => table'[c].state = "failed"
    BY <1>11 DEF Finished
  <2>2. /\ client' \in [Calls -> Client]
        /\ client'[c].pc = "over" /\ client'[c].answer = answer
        /\ \A d \in Calls : d # c => client'[d] = client[d]
    BY <1>1, <2>1, EndedStep DEF TypeOK
  <2>3. RunsOK(c)'
    BY <1>1, <1>2, <1>4, <1>5, <1>11, <2>2 DEF RunsOK, Begun, BegunAnew
  <2>4. StoredOK(c)'
    BY <1>8, <2>2
  <2>5. OutcomeOK(c)'
    BY <1>1, <1>2, <1>9, <1>11, <2>1, <2>2 DEF OutcomeOK
  <2> QED BY <1>1, <1>11, <2>2, <2>3, <2>4, <2>5 DEF CallOK, TypeOK
<1>12. ASSUME UNCHANGED direct, client' = [client EXCEPT ![c].pc = "poll"] PROVE Good
  <2>1. /\ client' \in [Calls -> Client]
        /\ client'[c].pc = "poll" /\ client'[c].answer = client[c].answer
        /\ \A d \in Calls : d # c => client'[d] = client[d]
    BY <1>1, <1>12 DEF TypeOK, Client
  <2>2. RunsOK(c)'
    BY <1>1, <1>2, <1>4, <1>5, <1>12, <2>1 DEF RunsOK, Begun, BegunAnew
  <2>3. StoredOK(c)'
    BY <1>8, <2>1
  <2>4. OutcomeOK(c)'
    BY <1>1, <1>2, <1>9, <1>12, <2>1 DEF OutcomeOK
  <2> QED BY <1>1, <1>12, <2>1, <2>2, <2>3, <2>4 DEF CallOK, TypeOK
<1>13. Good
  BY <1>10, <1>11, <1>12 DEF AnswerGet
<1>14. TypeOK'
  BY <1>1, <1>2, <1>3, <1>4, <1>13 DEF TypeOK, bounded
<1>15. ASSUME NEW d \in Calls, d # c PROVE CallOK(d)'
  BY <1>2, <1>4, <1>13, <1>15, OtherCallKept
<1> QED BY <1>13, <1>14, <1>15 DEF LeaderInv, CallOK

\* A restart wipes what is in memory; what was under way is lost.
LEMMA RestartKeepsInv ==
  ASSUME LeaderInv, Restart
  PROVE  LeaderInv'
<1>1. TypeOK /\ \A c \in Calls : RunsOK(c) /\ StoredOK(c) /\ OutcomeOK(c)
  BY DEF LeaderInv
<1>2. UNCHANGED <<client, runs, outcomes, now, faults>>
  BY DEF Restart
<1>3. /\ table' \in [Calls -> Task]
      /\ \A c \in Calls : table'[c].state = "none"
  BY NoTaskType DEF Restart
<1>4. /\ thread' \in [Calls -> Thread]
      /\ \A c \in Calls : thread'[c].pc = IF thread[c].pc = "none" THEN "none" ELSE "over"
  BY <1>1 DEF Restart, TypeOK, Thread
<1>5. /\ submit' \in [Calls -> Submission]
      /\ \A c \in Calls : submit'[c].pc = IF submit[c].pc \in {"sent", "stamped"}
                                          THEN "gone" ELSE submit[c].pc
  BY <1>1 DEF Restart, TypeOK, Submission
<1>6. /\ direct' \in [Calls -> {"none", "sent", "run", "gone"} \cup Outcomes]
      /\ \A c \in Calls : direct'[c] = IF direct[c] = "none" THEN "none" ELSE "gone"
  BY DEF Restart
<1>0. restarts' \in 0..MaxFaults
  BY <1>1, LeaderAssumption DEF Restart, TypeOK
<1>7. /\ lost' \subseteq Calls
      /\ \A c \in Calls : c \in lost \/ client[c].pc # "idle" => c \in lost'
  BY <1>1, LeaderAssumption DEF Restart, TypeOK
<1>8. TypeOK'
  BY <1>0, <1>1, <1>2, <1>3, <1>4, <1>5, <1>6, <1>7 DEF TypeOK
<1>9. ASSUME NEW c \in Calls PROVE RunsOK(c)' /\ StoredOK(c)' /\ OutcomeOK(c)'
  <2>1. RunsOK(c)'
    BY <1>1, <1>2, <1>4, <1>6, <1>7 DEF RunsOK, Begun, BegunAnew, Outcomes, TypeOK
  <2>2. StoredOK(c)'
    BY <1>1, <1>2, <1>3, <1>4, <1>5, <1>7 DEF StoredOK
  <2>3. OutcomeOK(c)'
    BY <1>1, <1>2, <1>3, <1>4, <1>6 DEF OutcomeOK, Outcomes
  <2> QED BY <2>1, <2>2, <2>3
<1> QED BY <1>8, <1>9 DEF LeaderInv

LEMMA NextKeepsLeaderInv == LeaderInv /\ [Next]_vars => LeaderInv'
<1> SUFFICES ASSUME LeaderInv, [Next]_vars PROVE LeaderInv'
  OBVIOUS
<1>1. ASSUME NEW c \in Calls, CallStep(c) PROVE LeaderInv'
  BY <1>1, QuietStepKeepsInv, TransitionKeepsInv, StoreKeepsInv, AnswerGetKeepsInv
     DEF CallStep
<1>2. CASE Tick \/ UNCHANGED vars
  <2>1. /\ UNCHANGED <<table, submit, thread, direct, client, runs, outcomes,
                       lost, restarts, faults>>
        /\ now' \in 0..MaxTime
    BY <1>2, LeaderAssumption DEF Tick, vars, histories, bounded, LeaderInv, TypeOK
  <2>2. ASSUME NEW c \in Calls PROVE CallOK(c)'
    BY <2>1, OtherCallKept DEF TaskKeptOrLost
  <2>3. TypeOK'
    BY <2>1 DEF LeaderInv, TypeOK
  <2> QED BY <2>2, <2>3 DEF LeaderInv, CallOK
<1> QED BY <1>1, <1>2, RestartKeepsInv DEF Next

-----------------------------------------------------------------------------
(***************************************************************************)
(* Safety, for every behaviour of client and gateway.                      *)
(***************************************************************************)

\* What client, table, thread and histories say of a call agree throughout.
THEOREM LeaderInvariant == Spec => []LeaderInv
BY InitLeaderInv, NextKeepsLeaderInv, PTL DEF Spec

\* No command is executed more than twice, and a second time only after its
\* task or its connection was lost.
THEOREM NoRerunWithoutLoss == Spec => []RerunOnlyAfterLoss
<1>1. LeaderInv => RerunOnlyAfterLoss
  <2> SUFFICES ASSUME LeaderInv, NEW c \in Calls
               PROVE  runs[c] <= IF c \in lost THEN 2 ELSE 1
    BY DEF RerunOnlyAfterLoss
  <2>1. RunsOK(c) /\ runs[c] \in Nat
    BY DEF LeaderInv, TypeOK
  <2> QED BY <2>1 DEF RunsOK, BegunAnew
<1> QED BY <1>1, LeaderInvariant, PTL

\* The client never reports an outcome that no execution of its command had.
THEOREM AnswersAreTruthful == Spec => []AnswerTruthful
<1>1. LeaderInv => AnswerTruthful
  BY DEF LeaderInv, OutcomeOK, AnswerTruthful
<1> QED BY <1>1, LeaderInvariant, PTL

\* The table never exceeds its limit: only a submission adds to it, and that
\* evicts what is too much.
THEOREM TableStaysBounded == Spec => []TableBounded
<1> DEFINE Bounded == IsFiniteSet(Present(table)) /\ TableBounded
<1>1. Init => Bounded
  <2> SUFFICES ASSUME Init PROVE Bounded
    OBVIOUS
  <2>1. Present(table) = {}
    BY DEF Init, Present, NoTask
  <2> QED BY <2>1, FS_EmptySet, LeaderAssumption DEF TableBounded
<1>2. ASSUME Bounded, Present(table') \subseteq Present(table)
      PROVE  Bounded'
  BY <1>2, FS_Subset, FS_CardinalityType, LeaderAssumption DEF TableBounded, Present
<1>3. ASSUME LeaderInv, Bounded, NEW c \in Calls, StoreTask(c)
      PROVE  Bounded'
  <2> DEFINE at == submit[c].stamp
             t == [Pruned(table, at) EXCEPT ![c] =
                     [state |-> "accepted", updated |-> at, finished |-> 0]]
  <2>1. \E kept \in Survivors(t) :
          table' = [d \in Calls |-> IF d \in kept THEN t[d] ELSE NoTask]
    BY <1>3 DEF StoreTask
  <2> HIDE DEF t
  <2>2. Present(t) \subseteq Calls /\ IsFiniteSet(Present(t))
    BY LeaderAssumption, FS_Subset DEF Present
  <2>3. PICK kept \in Survivors(t) :
          table' = [d \in Calls |-> IF d \in kept THEN t[d] ELSE NoTask]
    BY <2>1
  <2>4. kept \subseteq Present(t) /\ IsFiniteSet(kept)
    BY <2>2, <2>3, FS_Subset DEF Survivors
  <2>5. Cardinality(kept) <= MaxItems
    BY <2>3, LeaderAssumption DEF Survivors
  <2>6. Present(table') \subseteq kept
    BY <2>3, NoTaskType DEF Present
  <2>7. /\ IsFiniteSet(Present(table'))
        /\ Cardinality(Present(table')) <= Cardinality(kept)
        /\ Cardinality(Present(table')) \in Nat /\ Cardinality(kept) \in Nat
    BY <2>6, <2>4, FS_Subset, FS_CardinalityType
  <2> QED BY <2>5, <2>7, LeaderAssumption DEF TableBounded, Present
<1>4. ASSUME LeaderInv, Bounded, [Next]_vars PROVE Bounded'
  <2>1. CASE \E c \in Calls : StoreTask(c)
    BY <1>3, <1>4, <2>1
  <2>2. CASE ~\E c \in Calls : StoreTask(c)
    <3>1. table \in [Calls -> Task] /\ now \in Nat /\ thread \in [Calls -> Thread]
      BY <1>4 DEF LeaderInv, TypeOK
    <3>2. Present(table') \subseteq Present(table)
      <4>1. CASE UNCHANGED table
        BY <4>1 DEF Present
      <4>2. CASE table' = Pruned(table, now)
        BY <3>1, <4>2, PrunedLess, NoTaskType DEF Present
      <4>3. CASE \E c \in Calls : BeginRun(c) \/ RecordResult(c)
        <5>1. PICK c \in Calls, state \in States \ {"none"} :
                table' = Transition(c, state, thread[c].stamp)
          BY <4>3 DEF BeginRun, RecordResult, StateFor, States, Finished
        <5>2. thread[c].stamp \in Nat
          BY <3>1 DEF Thread
        <5> QED
          BY <3>1, <5>1, <5>2, TransitionOne DEF Present
      <4>4. CASE Restart
        BY <4>4, NoTaskType DEF Restart, Present
      <4> QED
        BY <1>4, <2>2, <4>1, <4>2, <4>3, <4>4
           DEF Next, CallStep, Send, StampTask, AnswerSubmit, StampRunning,
               EndRun, Poll, AnswerGet, BeginDirect, EndDirect, AnswerDirect,
               TimesOut, ConnectionFails, Tick, vars
    <3> QED BY <1>2, <1>4, <3>2
  <2> QED BY <2>1, <2>2
<1>5. Bounded => TableBounded
  OBVIOUS
<1> HIDE DEF Bounded
<1> QED BY <1>1, <1>4, <1>5, LeaderInvariant, PTL DEF Spec
-----------------------------------------------------------------------------
(***************************************************************************)
(* The states of a task: it goes from one to the next because the thread   *)
(* that executes it is never ahead of its record.                          *)
(***************************************************************************)
StageOK(c) ==
  /\ thread[c].pc \in {"none", "ready", "marking"} => table[c].state \in {"none", "accepted"}
  /\ thread[c].pc \in {"run", "finishing"} => table[c].state \in {"none", "running"}

\* What makes TaskLifecycle inductive.
StageInv == \A c \in Calls : StageOK(c)

\* Where the table stays, the threads that move do so within a stage.
LEMMA ThreadsMoveWithinStage ==
  ASSUME LeaderInv, StageInv, UNCHANGED table,
         UNCHANGED thread \/ \E c \in Calls : StampRunning(c) \/ EndRun(c)
  PROVE  \A d \in Calls : StageOK(d)' /\ LifeStep(d)
<1>1. thread \in [Calls -> Thread] /\ now \in Nat
  BY DEF LeaderInv, TypeOK
<1>2. ASSUME NEW d \in Calls
      PROVE  \/ thread'[d] = thread[d]
             \/ thread[d].pc = "ready" /\ thread'[d].pc = "marking"
             \/ thread[d].pc = "run" /\ thread'[d].pc = "finishing"
  <2>1. ASSUME NEW c \in Calls, StampRunning(c)
        PROVE  \/ thread'[d] = thread[d]
               \/ thread[d].pc = "ready" /\ thread'[d].pc = "marking"
    BY <1>1, <2>1, StampRunningStep
  <2>2. ASSUME NEW c \in Calls, EndRun(c)
        PROVE  \/ thread'[d] = thread[d]
               \/ thread[d].pc = "run" /\ thread'[d].pc = "finishing"
    BY <1>1, <2>2 DEF EndRun
  <2> QED BY <2>1, <2>2
<1> QED BY <1>2 DEF StageInv, StageOK, LifeStep

\* Marking and recording take the task to its next state.
LEMMA TransitionsInOrder ==
  ASSUME LeaderInv, StageInv, NEW c \in Calls, BeginRun(c) \/ RecordResult(c)
  PROVE  \A d \in Calls : StageOK(d)' /\ LifeStep(d)
<1>1. /\ TypeOK /\ StageOK(c) /\ thread[c].stamp \in Nat
      /\ StateFor(thread[c].outcome) \in Finished
  BY DEF LeaderInv, StageInv, TypeOK, Thread, StateFor, Finished
<1>2. PICK state \in {"running"} \cup Finished :
        /\ table' = Transition(c, state, thread[c].stamp)
        /\ \/ thread[c].pc = "marking" /\ state = "running" /\ thread'[c].pc = "run"
           \/ thread[c].pc = "finishing" /\ state \in Finished /\ thread'[c].pc = "over"
        /\ \A d \in Calls : d # c => thread'[d] = thread[d]
  <2>1. CASE BeginRun(c)
    <3>1. thread'[c].pc = "run" /\ \A d \in Calls : d # c => thread'[d] = thread[d]
      BY <1>1, <2>1 DEF BeginRun, TypeOK, Thread
    <3> QED BY <2>1, <3>1 DEF BeginRun
  <2>2. CASE RecordResult(c)
    <3>1. thread'[c].pc = "over" /\ \A d \in Calls : d # c => thread'[d] = thread[d]
      BY <1>1, <2>2 DEF RecordResult, TypeOK, Thread
    <3> QED BY <1>1, <2>2, <3>1 DEF RecordResult
  <2> QED BY <2>1, <2>2
<1>3. /\ table[c].state = "none" => table'[c] = table[c]
      /\ table[c].state # "none" => table'[c].state = state
      /\ \A d \in Calls : d # c => table'[d] = table[d]
  <2>1. state \in States \ {"none"} /\ table \in [Calls -> Task]
    BY <1>1, <1>2 DEF States, Finished, TypeOK
  <2> QED BY <1>1, <1>2, <2>1, TransitionOne
<1>4. StageOK(c)' /\ LifeStep(c)
  <2>1. CASE table[c].state = "none"
    BY <1>2, <1>3, <2>1 DEF StageOK, LifeStep
  <2>2. CASE table[c].state # "none"
    BY <1>1, <1>2, <1>3, <2>2 DEF StageOK, LifeStep, Successors, Finished
  <2> QED BY <2>1, <2>2
<1>5. ASSUME NEW d \in Calls, d # c PROVE StageOK(d)' /\ LifeStep(d)
  BY <1>2, <1>3, <1>5 DEF StageInv, StageOK, LifeStep
<1> QED BY <1>4, <1>5

\* A submission adds its own task as the first state of it; others it takes away because they
\* are over or the table is full.
LEMMA StoringInOrder ==
  ASSUME LeaderInv, StageInv, NEW c \in Calls, StoreTask(c)
  PROVE  \A d \in Calls : StageOK(d)' /\ LifeStep(d)
<1> DEFINE at == submit[c].stamp
           new == [state |-> "accepted", updated |-> at, finished |-> 0]
           added == [Pruned(table, at) EXCEPT ![c] = new]
<1>1. /\ table \in [Calls -> Task] /\ at \in Nat /\ thread \in [Calls -> Thread]
      /\ table[c].state = "none" /\ thread[c].pc = "none"
  BY DEF LeaderInv, TypeOK, Submission, StoredOK, StoreTask
<1>2. /\ added[c].state = "accepted"
      /\ \A d \in Calls : d # c =>
           \/ added[d] = table[d]
           \/ added[d].state = "none" /\ table[d].state \in Finished
  BY <1>1, NoTaskType DEF Pruned
<1>3. PICK kept \in Survivors(added) :
        table' = [d \in Calls |-> IF d \in kept THEN added[d] ELSE NoTask]
  BY DEF StoreTask
<1> HIDE DEF added
<1>4. kept \subseteq Present(added) /\ Present(added) \subseteq Calls
  BY <1>3 DEF Survivors, Present
<1>5. Present(table') = kept
  BY <1>3, <1>4, NoTaskType DEF Present
<1>6. kept = Present(added) \/ Cardinality(Present(table')) = MaxItems
  BY <1>3, <1>5 DEF Survivors
<1>7. thread'[c].pc = "ready" /\ \A d \in Calls : d # c => thread'[d] = thread[d]
  BY <1>1 DEF StoreTask, Thread
<1>8. ASSUME NEW d \in Calls PROVE StageOK(d)' /\ LifeStep(d)
  <2>1. CASE d \in kept
    BY <1>1, <1>2, <1>3, <1>7, <2>1 DEF StageInv, StageOK, LifeStep
  <2>2. CASE d \notin kept
    <3>1. table'[d].state = "none"
      BY <1>3, <2>2, NoTaskType
    <3>2. \/ added[d].state = "none"
          \/ Cardinality(Present(table')) = MaxItems
      BY <1>6, <2>2 DEF Present
    <3> QED BY <1>1, <1>2, <1>7, <3>1, <3>2 DEF StageOK, LifeStep
  <2> QED BY <2>1, <2>2
<1> QED BY <1>8

\* Asking for a task takes away only such as are over; a restart clears the table.
LEMMA LeavingInOrder ==
  ASSUME LeaderInv, StageInv, Restart \/ \E c \in Calls : AnswerGet(c)
  PROVE  \A d \in Calls : StageOK(d)' /\ LifeStep(d)
<1>1. CASE Restart
  <2>1. restarts' # restarts
    BY <1>1 DEF Restart, LeaderInv, TypeOK
  <2>2. \A d \in Calls : table'[d].state = "none"
    BY <1>1, NoTaskType DEF Restart
  <2> QED BY <2>1, <2>2 DEF StageOK, LifeStep
<1>2. CASE \E c \in Calls : AnswerGet(c)
  <2>1. table' = Pruned(table, now) /\ UNCHANGED thread
    BY <1>2 DEF AnswerGet
  <2>2. \A d \in Calls :
          table'[d] = table[d] \/ (table'[d].state = "none" /\ table[d].state \in Finished)
    BY <2>1, NoTaskType DEF Pruned
  <2> QED BY <2>1, <2>2 DEF StageInv, StageOK, LifeStep
<1> QED BY <1>1, <1>2

LEMMA NextInOrder ==
  LeaderInv /\ StageInv /\ [Next]_vars => StageInv' /\ \A c \in Calls : LifeStep(c)
<1> SUFFICES ASSUME LeaderInv, StageInv, [Next]_vars
             PROVE  \A d \in Calls : StageOK(d)' /\ LifeStep(d)
  BY DEF StageInv
<1>1. CASE \E c \in Calls :
             \/ Send(c) \/ StampTask(c) \/ AnswerSubmit(c) \/ StampRunning(c)
             \/ EndRun(c) \/ Poll(c) \/ BeginDirect(c) \/ EndDirect(c)
             \/ AnswerDirect(c) \/ TimesOut(c) \/ ConnectionFails(c)
  BY <1>1, ThreadsMoveWithinStage
     DEF Send, StampTask, AnswerSubmit, EndRun, StampRunning, Poll, BeginDirect, EndDirect,
         AnswerDirect, TimesOut, ConnectionFails
<1>2. CASE Tick \/ UNCHANGED vars
  BY <1>2, ThreadsMoveWithinStage DEF Tick, vars
<1>3. CASE \E c \in Calls : BeginRun(c) \/ RecordResult(c) \/ StoreTask(c) \/ AnswerGet(c)
  BY <1>3, TransitionsInOrder, StoringInOrder, LeavingInOrder
<1> QED BY <1>1, <1>2, <1>3, LeavingInOrder DEF Next, CallStep

\* LeaderTasks!TaskLifecycle: accepted, running, final or failed, in this order and never
\* again; an unfinished task leaves only a full table or a restarted gateway, however the
\* stamps of submissions, threads and polls are mixed up.
THEOREM TasksLiveInOrder == Spec => TaskLifecycle
<1>1. Init => StageInv
  BY NoTaskType DEF Init, StageInv, StageOK
<1>2. LeaderInv /\ StageInv /\ [Next]_vars =>
        StageInv' /\ [\A c \in Calls : LifeStep(c)]_vars
  BY NextInOrder
<1> QED BY <1>1, <1>2, LeaderInvariant, PTL DEF Spec, TaskLifecycle
-----------------------------------------------------------------------------
(***************************************************************************)
(* A table with room for every call.                                       *)
(***************************************************************************)

\* The table holds as many tasks as there are calls and keeps them as long as the clock
\* runs; the gateway does not restart and no connection fails.
Roomy ==
  /\ Cardinality(Calls) <= MaxItems
  /\ MaxTime <= Retention
  /\ MaxFaults = 0

\* What makes FallbackOnlyWithoutTask inductive then.
RoomyInv ==
  /\ lost = {}
  /\ \A c \in Calls : client[c].pc # "legacy" /\ submit[c].stamp <= now

LEMMA NothingPruned ==
  ASSUME Roomy, TypeOK, NEW at \in 0 .. MaxTime
  PROVE  Pruned(table, at) = table
<1>1. ASSUME NEW c \in Calls PROVE ~(at > table[c].finished + Retention)
  BY LeaderAssumption DEF Roomy, TypeOK, Task
<1> QED BY <1>1 DEF Pruned, TypeOK

LEMMA AllSurvive ==
  ASSUME Roomy, NEW t
  PROVE  Survivors(t) = {Present(t)}
<1>1. Present(t) \subseteq Calls
  BY DEF Present
<1>2. /\ Cardinality(Present(t)) <= Cardinality(Calls)
      /\ Cardinality(Present(t)) \in Nat /\ Cardinality(Calls) \in Nat
  BY <1>1, FS_Subset, FS_CardinalityType, LeaderAssumption
<1>3. Cardinality(Present(t)) <= MaxItems
  BY <1>2, LeaderAssumption DEF Roomy
<1> QED BY <1>3 DEF Survivors

LEMMA NextKeepsRoomy == Roomy /\ LeaderInv /\ RoomyInv /\ [Next]_vars => RoomyInv'
<1> SUFFICES ASSUME Roomy, LeaderInv, RoomyInv, [Next]_vars PROVE RoomyInv'
  OBVIOUS
<1>0. /\ TypeOK /\ lost = {} /\ MaxFaults = 0 /\ restarts = 0 /\ faults = 0
      /\ now \in Nat
      /\ \A c \in Calls : StoredOK(c) /\ submit[c] \in Submission /\ client[c] \in Client
  BY DEF Roomy, LeaderInv, RoomyInv, TypeOK
<1>1. ASSUME NEW c \in Calls, StampTask(c) PROVE RoomyInv'
  BY <1>0, <1>1 DEF StampTask, RoomyInv, TypeOK, histories
<1>2. ASSUME NEW c \in Calls, StoreTask(c) PROVE RoomyInv'
  <2> DEFINE at == submit[c].stamp
             added == [Pruned(table, at) EXCEPT ![c] =
                         [state |-> "accepted", updated |-> at, finished |-> 0]]
  <2>1. at \in 0 .. MaxTime /\ Pruned(table, at) = table
    BY <1>0, NothingPruned, LeaderAssumption DEF RoomyInv, Submission, TypeOK
  <2>2. Present(table) \cup {c} \subseteq Present(added)
    BY <1>0, <2>1 DEF Present, TypeOK
  <2> HIDE DEF added
  <2>3. lost' = lost \cup ((Present(table) \cup {c}) \ Present(added))
    <3>1. \E kept \in Survivors(added) : lost' = lost \cup ((Present(table) \cup {c}) \ kept)
      BY <1>2 DEF StoreTask, added
    <3> QED BY <3>1, AllSurvive
  <2>4. submit' = [submit EXCEPT ![c].pc = "stored"] /\ UNCHANGED <<client, now>>
    BY <1>2 DEF StoreTask
  <2> QED BY <1>0, <2>2, <2>3, <2>4 DEF RoomyInv, TypeOK
<1>3. ASSUME NEW c \in Calls, AnswerGet(c) PROVE RoomyInv'
  <2>1. Pruned(table, now) = table
    BY <1>0, NothingPruned DEF TypeOK
  <2>2. table' = table /\ lost' = lost /\ UNCHANGED <<submit, now>>
    BY <1>3, <2>1 DEF AnswerGet
  <2>3. table[c].state # "none"
    BY <1>0, <1>3 DEF AnswerGet, StoredOK
  <2>4. \E pc \in {"over", "poll"} : \E answer :
          client' = [client EXCEPT ![c].pc = pc, ![c].answer = answer]
    <3>1. CASE client' = [client EXCEPT ![c].pc = "poll"]
      <4>1. client' = [client EXCEPT ![c].pc = "poll", ![c].answer = client[c].answer]
        BY <1>0, <3>1 DEF TypeOK, Client
      <4> QED BY <4>1
    <3>2. CASE \E answer : Ended(c, answer)
      BY <3>2 DEF Ended
    <3> QED BY <1>3, <2>2, <2>3, <3>1, <3>2 DEF AnswerGet
  <2> QED BY <1>0, <2>2, <2>4 DEF RoomyInv, TypeOK, Client
<1>4. ASSUME NEW c \in Calls,
             Send(c) \/ AnswerSubmit(c) \/ Poll(c) \/ AnswerDirect(c) \/ TimesOut(c)
      PROVE  RoomyInv'
  <2>1. PICK pc \in {"post", "poll", "get", "over"} : \E deadline, knows, answer :
          client' = [client EXCEPT ![c] = [pc |-> pc, knowsTask |-> knows,
                                           deadline |-> deadline, answer |-> answer]]
    BY <1>0, <1>4 DEF Send, AnswerSubmit, Poll, AnswerDirect, TimesOut, Ended, TypeOK, Client
  <2>2. UNCHANGED <<lost, now>>
    BY <1>4 DEF Send, AnswerSubmit, Poll, AnswerDirect, TimesOut, histories
  <2>3. \A d \in Calls : submit'[d].stamp = submit[d].stamp
    BY <1>0, <1>4 DEF Send, AnswerSubmit, Poll, AnswerDirect, TimesOut, TypeOK, Submission
  <2> QED BY <1>0, <2>1, <2>2, <2>3 DEF RoomyInv, TypeOK
<1>5. ASSUME NEW c \in Calls,
             \/ StampRunning(c) \/ BeginRun(c) \/ EndRun(c) \/ RecordResult(c)
             \/ BeginDirect(c) \/ EndDirect(c)
      PROVE  RoomyInv'
  BY <1>5 DEF RoomyInv, StampRunning, BeginRun, EndRun, RecordResult, BeginDirect, EndDirect,
              histories
<1>6. ASSUME NEW c \in Calls, ConnectionFails(c) PROVE RoomyInv'
  BY <1>0, <1>6 DEF ConnectionFails
<1>7. CASE Restart
  BY <1>0, <1>7 DEF Restart
<1>8. CASE Tick
  <2>1. now' = now + 1 /\ UNCHANGED <<submit, client, lost>>
    BY <1>8 DEF Tick, histories
  <2>2. \A c \in Calls : submit[c].stamp \in Nat /\ submit[c].stamp <= now
    BY <1>0 DEF RoomyInv, Submission
  <2> QED BY <1>0, <2>1, <2>2 DEF RoomyInv
<1>9. CASE UNCHANGED vars
  BY <1>9 DEF RoomyInv, vars, histories
<1> QED BY <1>1, <1>2, <1>3, <1>4, <1>5, <1>6, <1>7, <1>8, <1>9 DEF Next, CallStep

\* resource/ops/leader-task-api-runbook-2026-03-09.md:69: with such a table a client that was
\* given a task does not fall back, and no command is executed twice - not even one whose
\* client gave up waiting.  What the run leader_fallback shows needs an eviction, a task kept
\* too short, a restart or a failing connection.
THEOREM RoomForAllRunsOnce ==
  Roomy => (Spec => [](FallbackOnlyWithoutTask /\ \A c \in Calls : runs[c] <= 1))
<1> SUFFICES ASSUME Roomy
             PROVE  Spec => [](FallbackOnlyWithoutTask /\ \A c \in Calls : runs[c] <= 1)
  OBVIOUS
<1>1. Init => RoomyInv
  BY DEF Init, RoomyInv
<1>2. LeaderInv /\ RoomyInv => FallbackOnlyWithoutTask /\ \A c \in Calls : runs[c] <= 1
  <2> SUFFICES ASSUME LeaderInv, RoomyInv, NEW c \in Calls
               PROVE  /\ client[c].pc = "legacy" => ~client[c].knowsTask
                      /\ runs[c] <= 1
    BY DEF FallbackOnlyWithoutTask
  <2>1. direct[c] = "none" /\ runs[c] \in Nat /\ RunsOK(c)
    BY DEF LeaderInv, RunsOK, RoomyInv, TypeOK
  <2> QED BY <2>1 DEF RoomyInv, RunsOK, BegunAnew
<1>3. LeaderInv /\ RoomyInv /\ [Next]_vars => RoomyInv'
  BY NextKeepsRoomy
<1> QED BY <1>1, <1>2, <1>3, LeaderInvariant, PTL DEF Spec
=============================================================================
