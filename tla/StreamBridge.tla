----------------------------- MODULE StreamBridge -----------------------------
(***************************************************************************)
(* The stream bridge: chat messages come in, each task is dispatched to    *)
(* the leader session by a thread of its own, and that thread, or a late   *)
(* watcher it leaves behind, reports what becomes of it                    *)
(* (run_dingtalk_stream_bridge.py, class _BridgeHandler).                  *)
(*                                                                         *)
(* The threads share one thing in memory, the newest message of each chat, *)
(* which makes older replies stale.  They learn of the leader only by      *)
(* polling a snapshot, whose signature covers the sessions of the leader   *)
(* and of its collaborator, while the result is read off the leader's.     *)
(*                                                                         *)
(* A definition marked "Fault" is no part of the specification: it is the  *)
(* definition after it as a plausible mistake would have it, kept to show  *)
(* that the properties tell the two apart.                                 *)
(***************************************************************************)
EXTENDS Naturals

CONSTANTS
  Tasks,           \* messages that are dispatched to the leader
  Commands,        \* approval commands and route queries
  Chats,
  ChatOf,          \* the chat of each message
  Images,          \* tasks with an image
  Retry,           \* what to do when the session waits for input:
                   \* "reason", "continue" (one command each) or "none"
  MaxRetries,      \* reasoning_max_attempts, or that of auto-continue
  Escalates,       \* reasoning_require_next_action
  Pushes,          \* the greatest progress_push_count a bridge is started with
  LateWatch,       \* post_timeout_final_wait_seconds > 0
  CommandsFail,    \* TRUE: commands sent to the leader may fail
  SnapshotErrors,  \* the parts of a snapshot, "leader" and "rest", that may
                   \* report SNAPSHOT_ERROR
  Silent,          \* what a snapshot may show anew while the leader's reply
                   \* stays: the "state" of its session, the "rest"
  Rests,           \* what the rest of a snapshot may show
  MaxReplies,      \* bound: replies of the leader
  MaxRestarts,     \* bound: restarts of the bridge
  Null,            \* no message
  Unknown,         \* the signature before any snapshot
  Broken           \* the rest of a snapshot that reports SNAPSHOT_ERROR

ASSUME BridgeAssumption ==
  /\ ChatOf \in [Tasks \cup Commands -> Chats]
  /\ Images \subseteq Tasks
  /\ Retry \in {"reason", "continue", "none"}
  /\ MaxRetries \in Nat
  /\ {Escalates, LateWatch, CommandsFail} \subseteq BOOLEAN
  /\ SnapshotErrors \subseteq {"leader", "rest"}
  /\ Pushes \in Nat
  /\ Silent \subseteq {"state", "rest"}
  /\ MaxReplies \in Nat \ {0}
  /\ MaxRestarts \in Nat
  /\ Null \notin Tasks \cup Commands
  /\ Broken \notin Rests

VARIABLES
  seen,       \* the message ids the dedupe file holds
  active,     \* the newest message of each chat
  thread,     \* the main thread and the late watcher of each task
  session,    \* what a snapshot shows
  sent,       \* history: commands sent for each task
  concluded,  \* history: tasks whose conclusion reached the chat
  after,      \* history: kinds of replies that reached it after that
  restarts

histories == <<sent, concluded, after>>
vars == <<seen, active, thread, session, histories, restarts>>
-----------------------------------------------------------------------------
Messages == Tasks \cup Commands
Threads  == Tasks \X {"main", "late"}

\* The leader's item of a snapshot: whether its session runs, waits for input or has
\* failed or stopped; its last reply, by number; and whether that is but the echo of
\* the message ("quiet"), unfinished ("open"), or marked as final, and a refusal.
LeaderStates == {"busy", "input", "failed"}
Texts        == {"quiet", "open", "refusal", "final", "final refusal"}
Leader       == [state: LeaderStates, reply: 1..MaxReplies, text: Texts]

\* An item whose session cannot be read shows no reply.
BrokenLeader == [state |-> "failed", reply |-> 0, text |-> "quiet"]

\* The rest of a snapshot: the collaborator's item, and the leader's last event.  The
\* signature covers all of it.
Session    == [leader: Leader, rest: Rests]
Signatures ==
  [leader: Leader \cup {BrokenLeader}, rest: Rests \cup {Broken}] \cup {Unknown}

\* What reading a snapshot may return, if the request itself does not fail: the
\* sessions are read one by one.
Snapshots ==
  [leader: {session.leader} \cup {l \in {BrokenLeader} : "leader" \in SnapshotErrors},
   rest: {session.rest} \cup {r \in {Broken} : "rest" \in SnapshotErrors}]

\* _is_terminal_snapshot_state, which with _is_final_reply_ready makes a result, the
\* states that are met with a retry, and the test for a refusal.
Terminal(s) == s.leader.state # "busy"
Finished(s) ==
  \/ s.leader.state = "failed"
  \/ s.leader.state = "input" /\ s.leader.text \in {"final", "final refusal"}
Waiting(s) == s.leader.state = "input" /\ s.leader.text \in {"open", "refusal"}
Refusal(s) == s.leader.text \in {"refusal", "final refusal"}

\* Replies: those that only inform, and those that end a task.
Conclusions == {"final", "settled"}
Replies == {"progress", "failure", "wait", "handover", "media"} \cup Conclusions

Resting == {"idle", "over"}
Labels  == Resting \cup
           {"say", "send", "baseline", "dispatch", "pane", "follow", "loop",
            "look", "settle", "stuck", "again", "describe", "resume", "report",
            "media", "handover"}

Thread == [pc: Labels, reply: Replies, then: Labels,
           baseline: Signatures, still: BOOLEAN, latest: Signatures,
           answer: 0..MaxReplies,
           pushes: 0..Pushes, overdue: BOOLEAN,
           attempts: 0..MaxRetries, cooling: BOOLEAN, escalated: BOOLEAN,
           described: BOOLEAN, overtaken: Nat]

NoThread == [pc |-> "idle", reply |-> "progress", then |-> "over",
             baseline |-> Unknown, still |-> FALSE, latest |-> Unknown,
             answer |-> 0,
             pushes |-> Pushes, overdue |-> FALSE,
             attempts |-> 0, cooling |-> FALSE, escalated |-> FALSE,
             described |-> FALSE, overtaken |-> 0]

At(t, l)   == thread[t].pc = l
Is(t, h)   == thread' = [thread EXCEPT ![t] = h]
Goto(t, l) == Is(t, [thread[t] EXCEPT !.pc = l])

\* The thread, about to reply and then to go on.
Saying(h, reply, next) ==
  [h EXCEPT !.pc = "say", !.reply = reply, !.then = next]

\* What is left of a thread that ends: what it has sent, and said too late.
Ended(h) == [NoThread EXCEPT !.pc = "over",
               !.attempts = h.attempts, !.escalated = h.escalated,
               !.described = h.described, !.overtaken = h.overtaken]

\* The thread, going on after the reply.
Said(h) ==
  IF h.then = "over" THEN Ended(h)
  ELSE [h EXCEPT !.pc = h.then, !.reply = NoThread.reply, !.then = NoThread.then]

Say(t, reply, next) == Is(t, Saying(thread[t], reply, next))

CountCommand(t) == sent' = [sent EXCEPT ![t[1]] = @ + 1]
-----------------------------------------------------------------------------
(***************************************************************************)
(* Messages come in.  A message that the policy refuses, or that was seen  *)
(* before, only gets a notice and changes nothing here.                    *)
(***************************************************************************)

\* The dedupe file, the newest message of the chat, and a thread for a task.
Mark(m)    == seen' = seen \cup {m}
Promote(m) == active' = [active EXCEPT ![ChatOf[m]] = m]
Begin(m)   == [thread EXCEPT ![<<m, "main">>] = Saying(NoThread, "progress", "baseline")]

\* process(): mark the message, make it the newest of its chat, and start a
\* thread for it, which first acknowledges it.  Approval commands and route
\* queries get a thread that only replies, but are the newest message too.
Receive(m) ==
  /\ m \notin seen
  /\ Mark(m) /\ Promote(m)
  /\ thread' = IF m \in Tasks THEN Begin(m) ELSE thread
  /\ UNCHANGED <<session, histories, restarts>>
-----------------------------------------------------------------------------
(***************************************************************************)
(* Replies.  A reply is checked once and then sent with retries: it gets   *)
(* through in the end or is given up.                                      *)
(***************************************************************************)
Stale(t) == active[ChatOf[t[1]]] \notin {Null, t[1]}

\* Fault: replies are never stale.
CheckNothing(t) ==
  /\ At(t, "say")
  /\ Goto(t, "send")
  /\ UNCHANGED <<seen, active, session, histories, restarts>>

CheckReply(t) ==
  /\ At(t, "say")
  /\ Is(t, IF Stale(t) THEN Said(thread[t]) ELSE [thread[t] EXCEPT !.pc = "send"])
  /\ UNCHANGED <<seen, active, session, histories, restarts>>

ReplyArrives(t) ==
  /\ At(t, "send")
  /\ Is(t, [Said(thread[t]) EXCEPT !.overtaken = IF Stale(t) THEN @ + 1 ELSE @])
  /\ IF t[1] \in concluded
     THEN /\ after' = [after EXCEPT ![t[1]] = @ \cup {thread[t].reply}]
          /\ UNCHANGED concluded
     ELSE /\ concluded' = IF thread[t].reply \in Conclusions
                          THEN concluded \cup {t[1]} ELSE concluded
          /\ UNCHANGED after
  /\ UNCHANGED <<seen, active, session, sent, restarts>>

GiveUpReply(t) ==
  /\ At(t, "send")
  /\ Is(t, Said(thread[t]))
  /\ UNCHANGED <<seen, active, session, histories, restarts>>
-----------------------------------------------------------------------------
(***************************************************************************)
(* Dispatching a task.  The thread looks at nothing shared while it waits   *)
(* for a command to return, so sending and returning are one step.         *)
(***************************************************************************)

\* The snapshot before the dispatch; it stays unknown if it cannot be read.
ReadBaseline(t) ==
  /\ At(t, "baseline")
  /\ \E s \in Snapshots \cup {Unknown} :
       Is(t, [thread[t] EXCEPT !.pc = "dispatch", !.baseline = s, !.latest = s,
                               !.still = s = session])
  /\ UNCHANGED <<seen, active, session, histories, restarts>>

\* The command is sent; the call returns, times out or fails.  Without progress
\* pushes, which is a setting, what the terminal echoed may be the answer already.
Dispatch(t) ==
  /\ At(t, "dispatch")
  /\ \E count \in 0..Pushes :
       LET h == [thread[t] EXCEPT !.pushes = count] IN
       \/ Is(t, Saying(h, "progress", "follow"))
       \/ count = 0 /\ Is(t, Saying(h, "progress", "pane"))
       \/ CommandsFail /\ Is(t, Saying(h, "failure", "over"))
  /\ CountCommand(t)
  /\ UNCHANGED <<seen, active, session, concluded, after, restarts>>

ReportPane(t) ==
  /\ At(t, "pane")
  /\ Say(t, "final", "media")
  /\ UNCHANGED <<seen, active, session, histories, restarts>>

\* Progress pushes: a snapshot that has changed is passed on.
Follow(t) ==
  /\ At(t, "follow") /\ thread[t].pushes > 0
  /\ LET h == [thread[t] EXCEPT !.pushes = @ - 1] IN
     \/ Is(t, h)
     \/ \E s \in Snapshots :
          /\ s # h.latest
          /\ Is(t, Saying([h EXCEPT !.latest = s], "progress", "follow"))
  /\ UNCHANGED <<seen, active, session, histories, restarts>>

EndFollow(t) ==
  /\ At(t, "follow") /\ thread[t].pushes = 0
  /\ Goto(t, "loop")
  /\ UNCHANGED <<seen, active, session, histories, restarts>>
-----------------------------------------------------------------------------
(***************************************************************************)
(* Waiting for the result.                                                 *)
(***************************************************************************)

\* A round begins; the main thread may announce that it is still waiting, or
\* that an approval is.
Look(t) ==
  /\ At(t, "loop") /\ ~thread[t].overdue
  /\ \/ Goto(t, "look")
     \/ t[2] = "main" /\ Say(t, "progress", "look")
  /\ UNCHANGED <<seen, active, session, histories, restarts>>

\* Fault: the main thread announces that it waits no longer, and goes on.
WaitOn(t) ==
  /\ At(t, "loop") /\ thread[t].overdue /\ t[2] = "main"
  /\ Is(t, Saying([thread[t] EXCEPT !.overdue = FALSE], "wait", "loop"))
  /\ UNCHANGED <<seen, active, session, histories, restarts>>

\* The hard deadline of the main thread has passed.
WaitNoLonger(t) ==
  /\ At(t, "loop") /\ thread[t].overdue /\ t[2] = "main"
  /\ Say(t, "wait", "handover")
  /\ UNCHANGED <<seen, active, session, histories, restarts>>

\* The late watcher starts before the reply that announces it.
HandOver(t) ==
  /\ At(t, "handover")
  /\ LET h == thread[t] IN
     IF LateWatch
     THEN thread' = [thread EXCEPT
            ![t] = Saying(Ended(h), "handover", "over"),
            ![<<t[1], "late">>] = [NoThread EXCEPT !.pc = "loop",
                                     !.baseline = h.baseline, !.still = h.still,
                                     !.latest = h.latest]]
     ELSE Is(t, Ended(h))
  /\ UNCHANGED <<seen, active, session, histories, restarts>>

WatchExpires(t) ==
  /\ At(t, "loop") /\ thread[t].overdue /\ t[2] = "late"
  /\ Is(t, Ended(thread[t]))
  /\ UNCHANGED <<seen, active, session, histories, restarts>>

\* The snapshot is not what it was before the dispatch.
Changed(h, s) == h.baseline # Unknown /\ s # h.baseline

\* The snapshot is one this thread has not dealt with.  The late watcher also
\* passes over a finished one that is still the baseline.
Fresh(t, s) ==
  /\ s # thread[t].latest
  /\ t[2] = "late" /\ Terminal(s) => thread[t].baseline = Unknown \/ Changed(thread[t], s)

SeeProgress(t) ==
  /\ At(t, "look")
  /\ \E s \in Snapshots :
       /\ ~Finished(s) /\ ~Waiting(s) /\ Fresh(t, s)
       /\ LET h == [thread[t] EXCEPT !.latest = s] IN
          \/ Is(t, [h EXCEPT !.pc = "loop"])
          \/ Is(t, Saying(h, "progress", "loop"))
  /\ UNCHANGED <<seen, active, session, histories, restarts>>

SeeWaiting(t) ==
  /\ At(t, "look")
  /\ \E s \in Snapshots :
       /\ Waiting(s) /\ Fresh(t, s)
       /\ Is(t, [thread[t] EXCEPT !.pc = "settle", !.latest = s])
  /\ UNCHANGED <<seen, active, session, histories, restarts>>

\* Fault: what the session showed before the dispatch counts as well.
AnswersAnyTime(t, s) ==
  \/ Fresh(t, s)
  \/ t[2] = "main"

\* A finished snapshot is the result if it is new, or, for the main thread, if
\* it was passed on as progress before but is not the baseline.
Answers(t, s) ==
  \/ Fresh(t, s)
  \/ t[2] = "main" /\ Changed(thread[t], s)

\* The snapshot cannot be read or tells nothing new.
LookInVain(t) ==
  /\ At(t, "look")
  /\ \/ Goto(t, "loop")
     \/ \E s \in Snapshots :
          /\ ~Fresh(t, s)
          /\ Finished(s) => ~Answers(t, s)
          /\ Is(t, [thread[t] EXCEPT !.pc = "loop", !.latest = s])
  /\ UNCHANGED <<seen, active, session, histories, restarts>>

\* What is reported is the leader's reply.
SeeResult(t) ==
  /\ At(t, "look")
  /\ \E s \in Snapshots :
       /\ Finished(s) /\ Answers(t, s)
       /\ LET h == [thread[t] EXCEPT !.latest = s, !.answer = s.leader.reply] IN
          IF Refusal(s) /\ t[2] = "main" /\ Fresh(t, s)
             /\ t[1] \in Images /\ ~h.described
          THEN Is(t, Saying([h EXCEPT !.described = TRUE], "progress", "describe"))
          ELSE Is(t, [h EXCEPT !.pc = "report"])
  /\ UNCHANGED <<seen, active, session, histories, restarts>>

\* Fault: having reported, the thread goes on polling.
ReportAndGoOn(t) ==
  /\ At(t, "report")
  /\ Say(t, "final", "loop")
  /\ UNCHANGED <<seen, active, session, histories, restarts>>

Report(t) ==
  /\ At(t, "report")
  /\ Say(t, "final", "media")
  /\ UNCHANGED <<seen, active, session, histories, restarts>>

\* Attachments follow a final reply, if it names any.
SendMedia(t) ==
  /\ At(t, "media")
  /\ Say(t, "media", "over") \/ Is(t, Ended(thread[t]))
  /\ UNCHANGED <<seen, active, session, histories, restarts>>
-----------------------------------------------------------------------------
(***************************************************************************)
(* The session waits for input with an unfinished reply: send it on, up to *)
(* a limit, escalate once, or declare the task settled.                    *)
(***************************************************************************)

\* Fault: only escalations are counted.
MayRetryAgain(h) == Retry # "none" /\ MaxRetries > 0 /\ ~h.cooling

MayRetry(h) == Retry # "none" /\ h.attempts < MaxRetries /\ ~h.cooling

MayEscalate(h) ==
  Retry = "reason" /\ Escalates /\ h.attempts >= MaxRetries /\ ~h.escalated

RetryTask(t) ==
  /\ At(t, "settle") /\ MayRetry(thread[t])
  /\ LET h == [thread[t] EXCEPT !.cooling = TRUE, !.attempts = @ + 1] IN
     \/ Is(t, Saying(h, "progress", "again"))
     \/ CommandsFail /\ Is(t, [h EXCEPT !.pc = "stuck"])
  /\ CountCommand(t)
  /\ UNCHANGED <<seen, active, session, concluded, after, restarts>>

RetryNoMore(t) ==
  /\ At(t, "settle") /\ ~MayRetry(thread[t])
  /\ Goto(t, "stuck")
  /\ UNCHANGED <<seen, active, session, histories, restarts>>

Escalate(t) ==
  /\ At(t, "stuck") /\ MayEscalate(thread[t])
  /\ LET h == [thread[t] EXCEPT !.escalated = TRUE] IN
     \/ Is(t, Saying(h, "progress", "again"))
     \/ CommandsFail /\ Is(t, h)
  /\ CountCommand(t)
  /\ UNCHANGED <<seen, active, session, concluded, after, restarts>>

DeclareSettled(t) ==
  /\ At(t, "stuck") /\ ~MayEscalate(thread[t])
  /\ Say(t, "settled", "over")
  /\ UNCHANGED <<seen, active, session, histories, restarts>>

\* After a retry the main thread waits all over again, the late watcher for the
\* rest of its time; both look at the session afresh.
StartAgain(t) ==
  /\ At(t, "again")
  /\ Is(t, [thread[t] EXCEPT !.pc = "loop", !.latest = Unknown,
              !.overdue = IF t[2] = "main" THEN FALSE ELSE @])
  /\ UNCHANGED <<seen, active, session, histories, restarts>>

\* A refusal to identify a person is met with a request to describe the image.
Describe(t) ==
  /\ At(t, "describe")
  /\ \/ Say(t, "progress", "resume")
     \/ CommandsFail /\ Say(t, "progress", "report")
  /\ CountCommand(t)
  /\ UNCHANGED <<seen, active, session, concluded, after, restarts>>

Resume(t) ==
  /\ At(t, "resume")
  /\ Is(t, [thread[t] EXCEPT !.pc = "loop", !.overdue = FALSE])
  /\ UNCHANGED <<seen, active, session, histories, restarts>>
-----------------------------------------------------------------------------
(***************************************************************************)
(* Time, the leader session and restarts.                                  *)
(***************************************************************************)

\* The deadline of a thread passes; it looks at the clock once a round.
DeadlinePasses(t) ==
  /\ At(t, "loop") /\ ~thread[t].overdue
  /\ Is(t, [thread[t] EXCEPT !.overdue = TRUE])
  /\ UNCHANGED <<seen, active, session, histories, restarts>>

\* The minimum time between two retries has passed.
CoolsDown(t) ==
  /\ At(t, "loop") /\ thread[t].cooling
  /\ Is(t, [thread[t] EXCEPT !.cooling = FALSE])
  /\ UNCHANGED <<seen, active, session, histories, restarts>>

\* The leader gives its next reply, or the snapshot changes while its reply stays:
\* its session stops, or nothing has happened in it for a while; it is at work; its
\* collaborator is.  What it showed may come back.
NextReply(s) == s.leader.reply = session.leader.reply + 1

SameReply(s) ==
  /\ s.leader.reply = session.leader.reply /\ s.leader.text = session.leader.text
  /\ s.leader.state # session.leader.state => "state" \in Silent
  /\ s.rest # session.rest => "rest" \in Silent

SessionMoves ==
  /\ session' \in Session \ {session}
  /\ NextReply(session') \/ SameReply(session')
  /\ thread' = [t \in Threads |-> [thread[t] EXCEPT !.still = FALSE]]
  /\ UNCHANGED <<seen, active, histories, restarts>>

\* The threads and the newest messages are lost, the dedupe file is not.
Restart ==
  /\ restarts < MaxRestarts
  /\ restarts' = restarts + 1
  /\ active' = [c \in Chats |-> Null]
  /\ thread' = [t \in Threads |->
       IF thread[t].pc \in Resting THEN thread[t] ELSE Ended(thread[t])]
  /\ UNCHANGED <<seen, session, histories>>
-----------------------------------------------------------------------------
Init ==
  /\ seen = {}
  /\ active = [c \in Chats |-> Null]
  /\ thread = [t \in Threads |-> NoThread]
  /\ session \in Session /\ session.leader.reply = 1
  /\ sent = [m \in Tasks |-> 0]
  /\ concluded = {}
  /\ after = [m \in Tasks |-> {}]
  /\ restarts = 0

ThreadStep(t) ==
  \/ CheckReply(t) \/ ReplyArrives(t) \/ GiveUpReply(t)
  \/ ReadBaseline(t) \/ Dispatch(t) \/ ReportPane(t)
  \/ Follow(t) \/ EndFollow(t)
  \/ Look(t) \/ WaitNoLonger(t) \/ HandOver(t) \/ WatchExpires(t)
  \/ LookInVain(t) \/ SeeProgress(t) \/ SeeWaiting(t) \/ SeeResult(t)
  \/ Report(t) \/ SendMedia(t)
  \/ RetryTask(t) \/ RetryNoMore(t) \/ Escalate(t) \/ DeclareSettled(t)
  \/ StartAgain(t) \/ Describe(t) \/ Resume(t)

Next ==
  \/ \E m \in Messages : Receive(m)
  \/ \E t \in Threads : ThreadStep(t) \/ DeadlinePasses(t) \/ CoolsDown(t)
  \/ SessionMoves
  \/ Restart

\* Threads run and calls come back; a thread that looks at the clock again and
\* again finds its deadline passed.  The session need not move.
Fairness ==
  \A t \in Threads : WF_vars(ThreadStep(t)) /\ SF_vars(DeadlinePasses(t))

Spec == Init /\ [][Next]_vars
FairSpec == Spec /\ Fairness
-----------------------------------------------------------------------------
(***************************************************************************)
(* Properties.                                                             *)
(***************************************************************************)

\* Every thread, history and file keeps the shape the code gives it.
TypeOK ==
  /\ seen \subseteq Messages
  /\ active \in [Chats -> Messages \cup {Null}]
  /\ thread \in [Threads -> Thread]
  /\ session \in Session
  /\ sent \in [Tasks -> Nat]
  /\ concluded \subseteq Tasks
  /\ after \in [Tasks -> SUBSET Replies]
  /\ restarts \in 0..MaxRestarts

\* The bridge sends a bounded number of commands for a message, although every
\* retry starts its waiting all over again, its late watcher counts anew, the
\* message may be delivered again and the bridge restarted: one dispatch, one
\* retry for an image, and the retries and the escalation of two threads.
CommandsBounded == \A m \in Tasks : sent[m] <= 2 * MaxRetries + 4

\* Once its conclusion has reached the chat nothing more is said of a task but
\* its attachments, and the announcement of the late watcher that may have
\* overtaken it (run_dingtalk_stream_bridge.py:3092-3150).
QuietAfterConclusion == \A m \in Tasks : after[m] \subseteq {"media", "handover"}

\* A message that a newer one has replaced says no more than what its threads
\* had begun to say, one reply each (run_dingtalk_stream_bridge.py:2030).
OvertakenAtMostOnce == \A t \in Threads : thread[t].overtaken <= 1

\* The leader's reply that a snapshot showed is about to be reported.
Reporting(t) ==
  /\ \/ thread[t].pc = "report"
     \/ thread[t].reply = "final" /\ thread[t].pc \in {"say", "send"}
  /\ thread[t].answer # 0

\* Unless snapshots fail, nothing is reported as the result while all sessions show
\* what they showed before the dispatch, and have shown nothing else in between: not
\* after progress pushes, not when time is up, not in the late watcher.
ResultsFollowChange ==
  SnapshotErrors = {} => \A t \in Threads : thread[t].still => ~Reporting(t)

\* "Seed with previous snapshot signature so old/stale terminal replies are not
\* reported as the result of this newly accepted task"
\* (run_dingtalk_stream_bridge.py:3104): a reported reply is not the one the leader
\* had given before the dispatch.
OldRepliesNotReported ==
  \A t \in Threads :
    Reporting(t) /\ thread[t].baseline # Unknown =>
      thread[t].answer # thread[t].baseline.leader.reply

\* "After an approval it goes on waiting and returns the final result"
\* (resource/ops/mission_lock_guixianren_e2e.md:132): a conclusion is withheld
\* only in favour of another task.
ApprovalsKeepTasks ==
  \A t \in Threads :
    thread[t].pc = "say" /\ thread[t].reply \in Conclusions /\ Stale(t) =>
      \E m \in Tasks : m # t[1] /\ m \in seen /\ ChatOf[m] = ChatOf[t[1]]

\* Every thread ends, although each retry grants it its whole time again
\* (run_dingtalk_stream_bridge.py:3324-3327).
ThreadsEnd ==
  \A t \in Threads : thread[t].pc \notin Resting ~> thread[t].pc \in Resting
(***************************************************************************)
(* The inductive invariant behind the safety properties.                   *)
(***************************************************************************)

\* Where a thread goes once it has replied.
Heading(h) == IF h.pc \in {"say", "send"} THEN h.then ELSE h.pc

\* A thread that says no more than its attachments or that it hands over.
Leaving(h) ==
  \/ h.pc \in Resting \cup {"media"}
  \/ h.pc \in {"say", "send"} /\ h.reply \in {"media", "handover"} /\ h.then = "over"

\* The commands a thread has sent at most, read off its own record.
Count(b) == IF b THEN 1 ELSE 0
Paid(t, h) ==
  h.attempts + Count(h.escalated) + Count(h.described /\ Heading(h) # "describe")
    + Count(t[2] = "main" /\ Heading(h) \notin {"idle", "baseline", "dispatch"})

\* What a thread knows while no snapshot fails: as long as its baseline is still what
\* the session shows, there is nothing it could take for a result; and if the leader's
\* reply is new whenever something is, the baseline's is left behind for good.
ResultOK(h) ==
  /\ Heading(h) = "baseline" => h.answer = 0
  /\ SnapshotErrors = {} =>
       /\ h.still =>
            /\ h.baseline = session /\ h.latest = session /\ h.answer = 0
            /\ Heading(h) \notin {"settle", "stuck", "again"}
       /\ Silent = {} /\ h.baseline # Unknown /\ ~h.still =>
            /\ h.baseline.leader.reply < session.leader.reply
            /\ h.answer = 0 \/ h.baseline.leader.reply < h.answer

\* A thread exists only for a message that was marked, moves from label to label
\* as the code does, and the late watcher never dispatches.
ThreadOK(t, h) ==
  /\ h.then \notin {"idle", "say", "send"}
  /\ IF h.pc = "idle" THEN h = NoThread ELSE t[1] \in seen
  /\ h.pc \in {"say", "send"} /\ h.reply \in Conclusions => h.then \in {"over", "media"}
  /\ Heading(h) = "describe" => h.described
  /\ t[2] = "late" =>
       /\ Heading(h) \notin {"baseline", "dispatch", "handover", "describe"}
       /\ ~h.described
  /\ ResultOK(h)

\* Once a reply has overtaken a newer message no other is on its way.
OvertakenOK(t) ==
  /\ thread[t].overtaken <= 1
  /\ thread[t].overtaken = 1 /\ thread[t].pc \notin Resting =>
       thread[t].pc # "send" /\ Stale(t)

\* What the threads of a message agree on with the histories.
MessageOK(m) ==
  LET main == thread[<<m, "main">>]
      late == thread[<<m, "late">>]
  IN /\ late.pc # "idle" => Leaving(main)
     /\ m \in concluded => m \in seen /\ Leaving(main) /\ Leaving(late)
     /\ after[m] \subseteq {"media", "handover"}
     /\ sent[m] <= Paid(<<m, "main">>, main) + Paid(<<m, "late">>, late)

BridgeInv ==
  /\ TypeOK
  /\ \A t \in Threads : ThreadOK(t, thread[t]) /\ OvertakenOK(t)
  /\ \A m \in Tasks : MessageOK(m)
=============================================================================
