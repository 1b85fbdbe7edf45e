--------------------------- MODULE GuardedSession ---------------------------
(***************************************************************************)
(* The control script that continues a guarded session                     *)
(* (scripts/guarded_session_control.py): it types a text into the tmux     *)
(* session of the agent, or starts one, and takes any change of the        *)
(* session's log as a sign that the text arrived.                          *)
(*                                                                         *)
(* Every call of the script is a process of its own.  Gateway handlers,    *)
(* leader tasks and the watchdog start them for the same session, and      *)
(* nothing serialises them: each call of tmux is a step, and the steps of  *)
(* several calls interleave with each other and with the agent.            *)
(*                                                                         *)
(* A definition marked "Fault" is no part of the specification: it is the  *)
(* definition after it as a plausible mistake would have it, kept to show  *)
(* that the properties tell the two apart.                                 *)
(***************************************************************************)
EXTENDS Naturals, FiniteSets

CONSTANTS
  Calls,      \* calls of the script; each has one text to deliver
  TimedCalls, \* those whose caller kills them after a timeout
  WarmCalls,  \* those with warmup_seconds > 0: a prompt goes ahead of the text
  FailClose,  \* warmup_fail_close
  TmuxFails,  \* may tmux fail although the session is there?
  Null,       \* no text
  WarmText,   \* the warmup prompt
  MaxLog      \* bound: entries the agent writes to its log

ASSUME SessionAssumption ==
  /\ TimedCalls \subseteq Calls
  /\ WarmCalls \subseteq Calls
  /\ {FailClose, TmuxFails} \subseteq BOOLEAN
  /\ Null \notin Calls
  /\ WarmText \notin Calls
  /\ WarmText # Null
  /\ MaxLog \in Nat

VARIABLES
  tmux,  \* the tmux session: none, booting (the agent is starting or asks
         \* whether to trust the directory), or ready
  arg,   \* the text the agent was started with and has not yet run
  line,  \* the texts on the input line
  busy,  \* is the agent working?
  log,   \* length of the rollout file
  call,  \* where each call of the script stands
  handed, \* history: how often each call has handed its text to a session
  runs   \* history: how often the text of each call was run

terminal == <<tmux, arg, line, busy, log>>
vars == <<terminal, call, handed, runs>>
-----------------------------------------------------------------------------
Labels == {"idle", "probe", "type", "enter", "kill", "start", "warmtype",
           "warmenter", "marker", "sendtype", "sendenter", "wait", "commit",
           "boot", "retype", "reenter", "lastenter", "wait2", "pane", "over"}

\* What the gateway makes of the script's exit code and its JSON.
Results == {"none", "confirmed", "queued", "failed", "killed"}

Call == [pc: Labels, how: {"none", "keys", "new", "restart"}, before: Nat,
         result: Results]

NoCall == [pc |-> "idle", how |-> "none", before |-> 0, result |-> "none"]

Alive == tmux # "none"
Active(c) == call[c].pc \notin {"idle", "over"}

\* The text a call types where it stands.
Text(c) == IF call[c].pc \in {"warmtype", "warmenter"} THEN WarmText ELSE c

Goto(c, pc) == call' = [call EXCEPT ![c].pc = pc]

\* The caller's reading of the outcome: an action tmux_... with a return code of
\* zero counts as queued even if the script says that it failed.
End(c, result) ==
  call' = [call EXCEPT ![c].pc = "over", ![c].before = 0, ![c].result = result]

\* A prompt that is run: one more execution of every text in it.
Ran(texts) == runs' = [c \in Calls |-> IF c \in texts THEN runs[c] + 1 ELSE runs[c]]

\* A call has handed in what is not the warmup prompt.
HandIn(text) ==
  handed' = [c \in Calls |-> IF c = text THEN handed[c] + 1 ELSE handed[c]]
-----------------------------------------------------------------------------
(***************************************************************************)
(* What tmux and the agent do with keys.                                   *)
(***************************************************************************)

\* A tmux command fails without a session, and may fail with one.
Fails == ~Alive \/ TmuxFails

\* Typed text stays on the input line; an agent that is starting may lose it.
Typed(text) ==
  /\ Alive
  /\ line' \in {line \cup {text}} \cup (IF tmux = "boot" THEN {line} ELSE {})
  /\ HandIn(text)
  /\ UNCHANGED <<tmux, arg, busy, log, runs>>

\* Start-up is over: the text the agent was started with is run.
BootEnds ==
  /\ tmux = "boot"
  /\ tmux' = "ready"
  /\ arg' = Null
  /\ busy' = (busy \/ arg # Null)
  /\ Ran({arg})
  /\ log' \in {log, log + 1}
  /\ log' <= MaxLog
  /\ UNCHANGED <<line, handed>>

\* Enter runs what is on the line, or answers the question at start-up, or is
\* taken for something else and leaves the text where it is.
Pressed ==
  /\ Alive
  /\ \/ /\ tmux = "ready"
        /\ line # {}
        /\ Ran(line)
        /\ line' = {}
        /\ busy' = TRUE
        /\ UNCHANGED <<tmux, arg, log, handed>>
     \/ BootEnds
     \/ UNCHANGED <<terminal, handed, runs>>
-----------------------------------------------------------------------------
(***************************************************************************)
(* _continue_once.                                                         *)
(***************************************************************************)

\* No tmux, no such directory, or an invalid session id: nothing is touched.
Refuse(c) ==
  /\ call[c].pc = "idle"
  /\ End(c, "failed")
  /\ UNCHANGED <<terminal, handed, runs>>

\* The size and age of the log are read before anything is sent.
Begin(c) ==
  /\ call[c].pc = "idle"
  /\ call' = [call EXCEPT ![c].pc = "probe", ![c].before = log]
  /\ UNCHANGED <<terminal, handed, runs>>

FindSession(c) ==
  /\ call[c].pc = "probe"
  /\ call' = IF Alive THEN [call EXCEPT ![c].pc = "type", ![c].how = "keys"]
             ELSE [call EXCEPT ![c].pc = "start", ![c].how = "new"]
  /\ UNCHANGED <<terminal, handed, runs>>

\* send-keys -l, the first of the two commands of _tmux_send_keys.
Type(c) ==
  /\ call[c].pc \in {"type", "warmtype", "sendtype", "retype"}
  /\ Typed(Text(c))
  /\ Goto(c, CASE call[c].pc = "type" -> "enter"
               [] call[c].pc = "warmtype" -> "warmenter"
               [] call[c].pc = "sendtype" -> "sendenter"
               [] call[c].pc = "retype" -> "reenter")

\* send-keys Enter: the second one, and the nudges of a text that does not move
\* the session.
Enter(c) ==
  /\ call[c].pc \in {"enter", "warmenter", "sendenter", "commit", "boot", "reenter",
                     "lastenter"}
  /\ Pressed
  /\ Goto(c, CASE call[c].pc \in {"enter", "sendenter"} -> "wait"
               [] call[c].pc = "warmenter" -> "marker"
               [] call[c].pc \in {"commit", "lastenter"} -> "wait2"
               [] call[c].pc = "boot" -> "retype"
               [] call[c].pc = "reenter" -> "lastenter")

\* Fault: the text is not sent without the marker, whatever the settings say.
UnreadyAlways(c, result) == End(c, result)

\* Without the marker the text is not sent, if the settings say so; otherwise it
\* is, and the log is read anew.
Unready(c, result) ==
  IF FailClose THEN End(c, result)
  ELSE call' = [call EXCEPT ![c].pc = "sendtype", ![c].before = log]

\* A tmux command failed.  For a session that was there before the text, it is
\* replaced; the result of the last Enter is not looked at.
SendFails(c) ==
  /\ Fails
  /\ \/ call[c].pc \in {"type", "enter"} /\ Goto(c, "kill")
     \/ call[c].pc \in {"warmtype", "warmenter"} /\ Unready(c, "failed")
     \/ call[c].pc \in {"sendtype", "sendenter"} /\ End(c, "failed")
     \/ call[c].pc \in {"commit", "boot", "retype", "reenter"} /\ Goto(c, "pane")
     \/ call[c].pc = "lastenter" /\ Goto(c, "wait2")
  /\ UNCHANGED <<terminal, handed, runs>>

\* kill-session takes the input line with it, and whatever the agent was doing.
\* Its result is not looked at.
Kill(c) ==
  /\ call[c].pc = "kill"
  /\ call' = [call EXCEPT ![c].pc = "start", ![c].how = "restart"]
  /\ \/ tmux' = "none" /\ arg' = Null /\ line' = {} /\ busy' = FALSE
     \/ Fails /\ UNCHANGED <<tmux, arg, line, busy>>
  /\ UNCHANGED <<log, handed, runs>>

\* Fault: the text goes along although it is to follow the warmup prompt.
StartTextAlways(c) == c

\* The text goes along with new-session unless a warmup prompt goes first.
StartText(c) == IF c \in WarmCalls THEN Null ELSE c

Start(c) ==
  /\ call[c].pc = "start"
  /\ ~Alive
  /\ tmux' = "boot"
  /\ arg' = StartText(c)
  /\ HandIn(arg')
  /\ Goto(c, IF c \in WarmCalls THEN "warmtype" ELSE "wait")
  /\ UNCHANGED <<line, busy, log, runs>>

\* Another call has started the session since, or tmux fails.
StartFails(c) ==
  /\ call[c].pc = "start"
  /\ Alive \/ TmuxFails
  /\ End(c, "failed")
  /\ UNCHANGED <<terminal, handed, runs>>

\* The marker is looked for in the whole pane, which also shows the prompt that
\* asks for it.
SeeMarker(c) ==
  /\ call[c].pc = "marker"
  /\ Alive
  /\ call' = [call EXCEPT ![c].pc = "sendtype", ![c].before = log]
  /\ UNCHANGED <<terminal, handed, runs>>

\* The Enter of the warmup prompt returned zero, which is what the caller sees.
MissMarker(c) ==
  /\ call[c].pc = "marker"
  /\ Unready(c, "queued")
  /\ UNCHANGED <<terminal, handed, runs>>

\* Any change of the log counts, whoever caused it.
SeeAdvance(c) ==
  /\ call[c].pc \in {"wait", "wait2"}
  /\ log # call[c].before
  /\ End(c, "confirmed")
  /\ UNCHANGED <<terminal, handed, runs>>

\* Fault: an existing session gets the whole text again, like a new one.
AfterWaitRetyping(c) == "boot"

\* Where a call goes when the log did not change in time.
AfterWait(c) == IF call[c].how = "keys" THEN "commit" ELSE "boot"

\* Fault: Enter is pressed until the log changes.
SeeNoAdvanceForever(c) ==
  /\ call[c].pc \in {"wait", "wait2"}
  /\ Goto(c, AfterWait(c))
  /\ UNCHANGED <<terminal, handed, runs>>

SeeNoAdvance(c) ==
  /\ \/ call[c].pc = "wait" /\ Goto(c, AfterWait(c))
     \/ call[c].pc = "wait2" /\ Goto(c, "pane")
  /\ UNCHANGED <<terminal, handed, runs>>

\* What the pane shows beyond what it showed before is searched for an answer of
\* the agent, or for the markers the text asks for, which are in the text too.
\* An empty pane has none.
LookAtPane(c) ==
  /\ call[c].pc = "pane"
  /\ \/ Alive /\ End(c, "confirmed")
     \/ End(c, "queued")
  /\ UNCHANGED <<terminal, handed, runs>>

\* The caller's timeout kills the script; what it has typed stays.
Abandon(c) ==
  /\ c \in TimedCalls
  /\ Active(c)
  /\ End(c, "killed")
  /\ UNCHANGED <<terminal, handed, runs>>
-----------------------------------------------------------------------------
(***************************************************************************)
(* The agent.                                                              *)
(***************************************************************************)

\* Its log grows while it works, and with the end of its work.
AgentWorks ==
  /\ Alive
  /\ busy
  /\ log < MaxLog
  /\ log' = log + 1
  /\ busy' \in BOOLEAN
  /\ UNCHANGED <<tmux, arg, line, call, handed, runs>>

AgentBoots == BootEnds /\ UNCHANGED call

\* The agent quits, and the tmux session with it.
AgentQuits ==
  /\ Alive
  /\ tmux' = "none"
  /\ arg' = Null
  /\ line' = {}
  /\ busy' = FALSE
  /\ UNCHANGED <<log, call, handed, runs>>

\* The supervisor warms the session (local_dingtalk_tmux_stack.sh): one whose pane
\* still shows the shell that starts it is killed, with the text it was started for;
\* where there is none, one is started without a text.
PrewarmKills ==
  /\ tmux = "boot"
  /\ tmux' = "none"
  /\ arg' = Null
  /\ line' = {}
  /\ busy' = FALSE
  /\ UNCHANGED <<log, call, handed, runs>>

PrewarmStarts ==
  /\ tmux = "none"
  /\ tmux' = "boot"
  /\ UNCHANGED <<arg, line, busy, log, call, handed, runs>>
-----------------------------------------------------------------------------
Init ==
  /\ tmux \in {"none", "ready"}
  /\ arg = Null
  /\ line = {}
  /\ busy \in {FALSE, tmux = "ready"}
  /\ log = 0
  /\ call = [c \in Calls |-> NoCall]
  /\ handed = [c \in Calls |-> 0]
  /\ runs = [c \in Calls |-> 0]

\* The steps of a call once it has begun, except being killed.
Proceed(c) ==
  \/ FindSession(c) \/ Type(c) \/ Enter(c) \/ SendFails(c) \/ Kill(c)
  \/ Start(c) \/ StartFails(c) \/ SeeMarker(c) \/ MissMarker(c)
  \/ SeeAdvance(c) \/ SeeNoAdvance(c) \/ LookAtPane(c)

Control(c) == Refuse(c) \/ Begin(c) \/ Proceed(c) \/ Abandon(c)

Agent == AgentWorks \/ AgentBoots \/ AgentQuits \/ PrewarmKills \/ PrewarmStarts

Next == (\E c \in Calls : Control(c)) \/ Agent

Spec == Init /\ [][Next]_vars

\* A script that was started goes on: each of its commands returns and each of
\* its waits has a deadline.  Nobody has to start one, and the agent owes nothing.
FairSpec == Spec /\ \A c \in Calls : WF_vars(Proceed(c))
-----------------------------------------------------------------------------
TypeOK ==
  /\ tmux \in {"none", "boot", "ready"}
  /\ arg \in Calls \cup {Null}
  /\ line \subseteq Calls \cup {WarmText}
  /\ busy \in BOOLEAN
  /\ log \in 0 .. MaxLog
  /\ call \in [Calls -> Call]
  /\ handed \in [Calls -> Nat]
  /\ runs \in [Calls -> Nat]

\* How often a call may have handed in its text where it stands: typed it into a
\* session that was there, given it to or typed it into one it started, and typed
\* it again into the latter when its log did not move.
HandedAtMost(c) ==
  CASE call[c].how = "none" -> 0
    [] call[c].how = "keys" -> IF call[c].pc = "type" THEN 0 ELSE 1
    [] OTHER ->
         (IF call[c].how = "restart" THEN 1 ELSE 0)
         + (IF call[c].pc \in {"start", "warmtype", "warmenter", "marker", "sendtype"}
            THEN 0 ELSE 1)
         + (IF call[c].pc \in {"reenter", "lastenter", "wait2", "pane", "over"}
            THEN 1 ELSE 0)

\* A text is run at most once in a session that was there before, twice in one that
\* was started for it, three times in one that replaced another; other calls may
\* press Enter on it, kill the session, or start one first.
RunsBounded ==
  \A c \in Calls :
    /\ runs[c] <= 3
    /\ call[c].how = "new" => runs[c] <= 2
    /\ call[c].how = "keys" => runs[c] <= 1
    /\ call[c].how = "none" => runs[c] = 0

Unrun(c) == (IF c \in line THEN 1 ELSE 0) + (IF arg = c THEN 1 ELSE 0)

\* What stands on the input line, or was given to the agent at its start, is
\* accounted for by what its call has handed in.
SessionInv ==
  /\ TypeOK
  /\ ~Alive => arg = Null /\ line = {} /\ ~busy
  /\ tmux = "ready" => arg = Null
  /\ \A c \in Calls :
       /\ handed[c] <= HandedAtMost(c)
       /\ runs[c] + Unrun(c) <= handed[c]
       /\ call[c].before <= log

\* README.md:227: "queued" means that tmux delivered the text.  Unless a warmup that
\* fails ends the call, which is reported as queued too, that is so: the call has handed
\* its text to a session.
QueuedWasSent ==
  ~FailClose => \A c \in Calls : call[c].result = "queued" => handed[c] > 0

\* Every script that was started ends, whatever tmux, the agent and other scripts
\* do: calls are finitely many, so in the end none is left at work.
CallsEnd == <>[](\A c \in Calls : ~Active(c))
=============================================================================
