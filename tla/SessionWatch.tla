---------------------------- MODULE SessionWatch ----------------------------
(***************************************************************************)
(* The watchdog of a guarded session (scripts/watch_guarded_session.py).   *)
(* It samples the session's log and processes, and has a stalled session   *)
(* continued by the control script, at most once per cooldown.  A file     *)
(* with the time of the last attempt survives a crash.                     *)
(*                                                                         *)
(* The session and the scripts at work on it are those of GuardedSession,  *)
(* reduced to what the watchdog can see of them: whether there are         *)
(* processes, and the age and kind of the last entry of the log.  Time is  *)
(* kept as ages: how long ago something was, up to the longest that        *)
(* matters.                                                                *)
(*                                                                         *)
(* A definition marked "Fault" is no part of the specification: it is the  *)
(* definition after it as a plausible mistake would have it, kept to show  *)
(* that the properties tell the two apart.                                 *)
(***************************************************************************)
EXTENDS Naturals

CONSTANTS
  Threshold,      \* waiting_threshold_seconds, in ticks
  MinIdle,        \* auto_continue_min_idle_seconds, in ticks
  Cooldown,       \* auto_continue_cooldown_seconds, in ticks
  Triggers,       \* auto_continue_trigger_states
  MaxWatchCrashes \* bound: how often the watchdog is killed and started again

States == {"STOPPED", "DONE_WAITING_INPUT", "UNKNOWN", "WAITING_OR_STOPPED",
           "RUNNING_UNKNOWN", "RUNNING", "WAITING_INPUT"}

ASSUME WatchAssumption ==
  /\ {Threshold, MinIdle, Cooldown, MaxWatchCrashes} \subseteq Nat
  /\ Cooldown > 0
  /\ Triggers \subseteq States

VARIABLES
  agent,   \* is the agent's process there?
  scripts, \* control scripts at work: the watchdog's own, and others
  logged,  \* has the log an entry with a time?
  idle,    \* age of the last one
  done,    \* is it the end of a task?
  watch,   \* the watchdog: where it stands, its snapshot, its last attempt
  saved,   \* file: age of the last attempt it records
  tried,   \* history: age of the last attempt the watchdog may know of
  watchCrashes

watched == <<agent, scripts, logged, idle, done>>
watchVars == <<watched, watch, saved, tried, watchCrashes>>
-----------------------------------------------------------------------------
LongAgo == IF Threshold > MinIdle THEN Threshold ELSE MinIdle
Older(age, most) == IF age < most THEN age + 1 ELSE age

\* Of a snapshot the state counts, and whether the session is known to have been
\* idle long enough; last_attempt_epoch is kept as an age.
Watch == [pc: {"look", "decide", "running", "save"}, state: States \cup {"none"},
          ripe: BOOLEAN, last: 0 .. Cooldown]

Looking(last) == [pc |-> "look", state |-> "none", ripe |-> FALSE, last |-> last]

\* The process list is searched for the session's id: it finds the agent, and any
\* control script at work on the session.
ProcessesAlive == agent \/ scripts # {}

\* Without an entry the idle time is unknown.
IdleFor(time) == logged /\ idle >= time

\* _state_from_snapshot; probe: could the process list be read?
StateOf(probe) ==
  CASE probe /\ ~ProcessesAlive -> "STOPPED"
    [] done /\ ~(probe /\ ~ProcessesAlive) -> "DONE_WAITING_INPUT"
    [] ~probe /\ ~done ->
         IF ~logged THEN "UNKNOWN"
         ELSE IF IdleFor(Threshold) THEN "WAITING_OR_STOPPED" ELSE "RUNNING_UNKNOWN"
    [] OTHER -> IF IdleFor(Threshold) THEN "WAITING_INPUT" ELSE "RUNNING"
-----------------------------------------------------------------------------
\* One iteration of the loop starts with a snapshot; everything up to the next one
\* is decided by it.
Sample ==
  /\ watch.pc = "look"
  /\ \E probe \in BOOLEAN :
       watch' = [watch EXCEPT !.pc = "decide", !.state = StateOf(probe),
                              !.ripe = IdleFor(MinIdle)]
  /\ UNCHANGED <<watched, saved, tried, watchCrashes>>

\* Fault: the cooldown is not asked.
ShouldContinueAlways == watch.state \in Triggers /\ watch.ripe

\* _should_trigger_auto_continue.
ShouldContinue == watch.state \in Triggers /\ watch.ripe /\ watch.last >= Cooldown

\* The attempt is dated before the script is started.  The script may fail to start,
\* which is an outcome like others.
Attempt ==
  /\ watch.pc = "decide"
  /\ ShouldContinue
  /\ watch' = [Looking(0) EXCEPT !.pc = "running"]
  /\ scripts' \in {scripts, scripts \cup {"own"}}
  /\ tried' = 0
  /\ UNCHANGED <<agent, logged, idle, done, saved, watchCrashes>>

\* Fault: an iteration that does nothing is dated like an attempt.
LastAttemptDated == 0

LastAttempt == watch.last

Pass ==
  /\ watch.pc = "decide"
  /\ ~ShouldContinue
  /\ watch' = Looking(LastAttempt)
  /\ UNCHANGED <<watched, saved, tried, watchCrashes>>

\* The script is waited for without a timeout.
Return ==
  /\ watch.pc = "running"
  /\ "own" \notin scripts
  /\ watch' = [Looking(watch.last) EXCEPT !.pc = "save"]
  /\ UNCHANGED <<watched, saved, tried, watchCrashes>>

\* The attempt is saved with the time it was dated.
SaveAttempt ==
  /\ watch.pc = "save"
  /\ watch' = Looking(watch.last)
  /\ saved' = watch.last
  /\ UNCHANGED <<watched, tried, watchCrashes>>

\* The watchdog is killed and started again; the script it has started goes on.
\* The file is written in place: it may be lost while it is being written, and
\* counts as none then.  An attempt that was not saved is forgotten.
WatchCrash ==
  /\ watchCrashes < MaxWatchCrashes
  /\ watchCrashes' = watchCrashes + 1
  /\ saved' \in {saved} \cup (IF watch.pc = "save" THEN {Cooldown} ELSE {})
  /\ watch' = Looking(saved')
  /\ tried' = IF watch.pc \in {"running", "save"} THEN Cooldown ELSE tried
  /\ scripts' = IF "own" \in scripts THEN {"other"} ELSE scripts
  /\ UNCHANGED <<agent, logged, idle, done>>

\* Fault: a run of the one-shot mode knows of no earlier attempt.
LoadAttemptNone == Cooldown

LoadAttempt == saved

\* One-shot mode: the script ends after an iteration and is started again, by hand
\* or by cron.
Rerun ==
  /\ watch.pc = "look"
  /\ watch' = Looking(LoadAttempt)
  /\ UNCHANGED <<watched, saved, tried, watchCrashes>>
-----------------------------------------------------------------------------
(***************************************************************************)
(* The session, the scripts and time.                                      *)
(***************************************************************************)
AgentLogs ==
  /\ agent
  /\ logged' = TRUE
  /\ idle' = 0
  /\ done' \in BOOLEAN
  /\ UNCHANGED <<agent, scripts, watch, saved, tried, watchCrashes>>

AgentEnds ==
  /\ agent
  /\ agent' = FALSE
  /\ UNCHANGED <<scripts, logged, idle, done, watch, saved, tried, watchCrashes>>

OtherBegins ==
  /\ scripts' = scripts \cup {"other"}
  /\ UNCHANGED <<agent, logged, idle, done, watch, saved, tried, watchCrashes>>

\* A script starts the agent, or kills it to start it anew.
ScriptActs ==
  /\ scripts # {}
  /\ agent' = ~agent
  /\ UNCHANGED <<scripts, logged, idle, done, watch, saved, tried, watchCrashes>>

ScriptEnds(s) ==
  /\ s \in scripts
  /\ scripts' = scripts \ {s}
  /\ UNCHANGED <<agent, logged, idle, done, watch, saved, tried, watchCrashes>>

WatchTick ==
  /\ idle' = Older(idle, LongAgo)
  /\ saved' = Older(saved, Cooldown)
  /\ tried' = Older(tried, Cooldown)
  /\ watch' = [watch EXCEPT !.last = Older(@, Cooldown)]
  /\ UNCHANGED <<agent, scripts, logged, done, watchCrashes>>

WatchInit ==
  /\ agent \in BOOLEAN
  /\ scripts = {}
  /\ logged = FALSE
  /\ idle = 0
  /\ done = FALSE
  /\ watch = Looking(Cooldown)
  /\ saved = Cooldown
  /\ tried = Cooldown
  /\ watchCrashes = 0

WatchStep == Sample \/ Attempt \/ Pass \/ Return \/ SaveAttempt

SessionStep ==
  AgentLogs \/ AgentEnds \/ OtherBegins \/ ScriptActs \/ (\E s \in scripts : ScriptEnds(s))

WatchNext == WatchStep \/ WatchCrash \/ Rerun \/ SessionStep \/ WatchTick

\* The watchdog's loop runs, time passes, and its script ends: each of the script's
\* waits has a deadline.  The agent owes nothing.
WatchFairness ==
  /\ WF_watchVars(WatchStep)
  /\ WF_watchVars(WatchTick)
  /\ WF_watchVars(ScriptEnds("own"))

WatchSpec == WatchInit /\ [][WatchNext]_watchVars /\ WatchFairness
-----------------------------------------------------------------------------
WatchTypeOK ==
  /\ agent \in BOOLEAN
  /\ scripts \subseteq {"own", "other"}
  /\ logged \in BOOLEAN
  /\ idle \in 0 .. LongAgo
  /\ done \in BOOLEAN
  /\ watch \in Watch
  /\ saved \in 0 .. Cooldown
  /\ tried \in 0 .. Cooldown
  /\ watchCrashes \in 0 .. MaxWatchCrashes

\* What the watchdog and its file know of the last attempt is never older than it was,
\* unless the watchdog was killed before it was saved; only it starts its script.
WatchInv ==
  /\ WatchTypeOK
  /\ watch.last <= tried
  /\ watch.pc \notin {"running", "save"} => saved <= tried
  /\ "own" \in scripts => watch.pc = "running"

\* watch_guarded_session.py:538, "Cooldown between auto-continue attempts": two are a
\* cooldown apart, also over restarts of the watchdog, unless it was killed between
\* starting the script and having saved the attempt.
CooldownKept ==
  [][watch.pc = "decide" /\ watch'.pc = "running" => tried >= Cooldown]_watchVars

\* The agent stopped in the middle of a task, and nothing was logged for long.
Stalled == logged /\ ~done /\ idle = LongAgo

\* A stall that lasts is answered, whatever the process list says, even if it cannot be
\* read: an attempt that fails or a crash does not stop the watchdog for good.
StallAnswered == Stalled ~> (~Stalled \/ watch.pc = "running")
=============================================================================
