----------------------------- MODULE LocalStack -----------------------------
(***************************************************************************)
(* The local stack and the supervisor that keeps it up                     *)
(* (scripts/local_stack_supervisor.sh, local_dingtalk_tmux_stack.sh, and   *)
(* the watchdog of scripts/run_dingtalk_stream_bridge.py).                 *)
(*                                                                         *)
(* The gateway and the bridge each run in a tmux session whose shell       *)
(* starts the process again whenever it exits.  The supervisor probes      *)
(* both, restarts the whole stack after several failed probes in a row,    *)
(* and keeps the leader's guard session warm.  It runs one command at a    *)
(* time; everything else goes on while it waits.                           *)
(*                                                                         *)
(* What may go wrong is a fault, and there are at most MaxFaults of them.  *)
(* A wait of the scripts ends without success when what it waits for       *)
(* cannot come, or comes too late, which is a fault, too.                  *)
(*                                                                         *)
(* A definition marked "Fault" is no part of the specification: it is the  *)
(* definition after it as a plausible mistake would have it, kept to show  *)
(* that the properties tell the two apart.                                 *)
(***************************************************************************)
EXTENDS Naturals

CONSTANTS
  FailureStreak, \* FAILURE_STREAK_FOR_RESTART
  GuardStreak,   \* GUARD_FAILURE_STREAK_FOR_RESTART
  Retries,       \* RESTART_RETRIES
  MaxFaults      \* bound: faults of the environment

ASSUME StackAssumption ==
  /\ {FailureStreak, GuardStreak, Retries} \subseteq Nat \ {0}
  /\ MaxFaults \in Nat

VARIABLES
  api,    \* the gateway: no tmux session, a session without process, or up
  bridge, \* the bridge, likewise
  beat,   \* is the bridge's heartbeat file fresh?
  deaf,   \* has the bridge lost its stream without noticing?
  old,    \* has the bridge reached its maximal uptime?
  guard,  \* the leader's guard session: none, a shell that boots it, or up
  routes, \* is the route file valid?
  sup,    \* the supervisor: where it stands and its counters
  failed, \* history: failed probes of the loop since the last success
  faults  \* number of faults so far

processes == <<api, bridge, beat, deaf, old, guard>>
stackVars == <<processes, routes, sup, failed, faults>>
-----------------------------------------------------------------------------
Places == {"none", "down", "up"}

\* job: what the guard is being warmed for: once at boot, in the loop, again in the
\* loop, or as part of a restart.
Sup == [pc: {"boot", "warm", "kill", "new", "await", "probe", "stop", "start",
             "healthz", "reset", "ready", "grace"},
        job: {"boot", "loop", "again", "restart"}, booted: BOOLEAN,
        streak: 0 .. FailureStreak + 1, guardStreak: 0 .. GuardStreak + 1,
        tries: 0 .. Retries]

SupStarts == [pc |-> "boot", job |-> "boot", booted |-> FALSE, streak |-> 0,
              guardStreak |-> 0, tries |-> 0]

\* stack_probe.  A bridge that has lost its stream still writes its heartbeat.
Healthy == api = "up" /\ bridge # "none" /\ beat

SupAt(pc) == sup.pc = pc

\* The counters are kept up to one more than what they are compared with.
OneMore(n, most) == IF n <= most THEN n + 1 ELSE n

\* A fault happens, or it is not needed for what happens.
Faulty == faults < MaxFaults /\ faults' = faults + 1
FaultUnless(excuse) == IF excuse THEN UNCHANGED faults ELSE Faulty

WarmFor(job) == [sup EXCEPT !.pc = "warm", !.job = job]
-----------------------------------------------------------------------------
(***************************************************************************)
(* prewarm_guard_session.                                                  *)
(***************************************************************************)

\* restart_stack: an attempt has failed.
AttemptFailed ==
  IF sup.tries < Retries THEN [sup EXCEPT !.pc = "stop", !.tries = @ + 1]
  ELSE [sup EXCEPT !.pc = "grace"]

WarmSucceeded ==
  CASE sup.job = "boot" -> WarmFor("loop")
    [] sup.job = "restart" -> [sup EXCEPT !.pc = "ready"]
    [] OTHER -> [sup EXCEPT !.pc = "probe", !.guardStreak = 0]

\* In the loop it is tried once more when it has failed often enough.
WarmFailed ==
  CASE sup.job = "boot" -> WarmFor("loop")
    [] sup.job = "restart" -> AttemptFailed
    [] sup.job = "again" -> [sup EXCEPT !.pc = "probe"]
    [] sup.job = "loop" ->
         LET streak == OneMore(sup.guardStreak, GuardStreak)
         IN  IF streak >= GuardStreak
             THEN [WarmFor("again") EXCEPT !.guardStreak = streak]
             ELSE [sup EXCEPT !.pc = "probe", !.guardStreak = streak]

\* The guard is taken for healthy once its pane runs no shell any more.
Warm ==
  /\ SupAt("warm")
  /\ sup' = IF ~routes THEN WarmFailed
            ELSE [sup EXCEPT !.pc = IF guard = "boot" THEN "kill" ELSE "new"]
  /\ UNCHANGED <<processes, routes, failed, faults>>

\* Whatever it has become since, and whoever started it.
KillGuard ==
  /\ SupAt("kill")
  /\ guard' = "none"
  /\ sup' = [sup EXCEPT !.pc = "new"]
  /\ UNCHANGED <<api, bridge, beat, deaf, old, routes, failed, faults>>

NewGuard ==
  /\ SupAt("new")
  /\ guard' = IF guard = "none" THEN "boot" ELSE guard
  /\ sup' = [sup EXCEPT !.pc = "await"]
  /\ UNCHANGED <<api, bridge, beat, deaf, old, routes, failed, faults>>

AwaitGuard ==
  /\ SupAt("await")
  /\ \/ guard = "up" /\ sup' = WarmSucceeded /\ UNCHANGED faults
     \/ guard # "up" /\ sup' = WarmFailed /\ FaultUnless(guard = "none")
  /\ UNCHANGED <<processes, routes, failed>>
-----------------------------------------------------------------------------
(***************************************************************************)
(* restart_stack: stop_stack and start_stack, and wait_for_healthy.        *)
(***************************************************************************)
StopStack ==
  /\ SupAt("stop")
  /\ bridge' = "none"
  /\ api' = "none"
  /\ sup' = [sup EXCEPT !.pc = "start"]
  /\ UNCHANGED <<beat, deaf, old, guard, routes, failed, faults>>

\* The route file is looked at when the stack is gone already.
StartStack ==
  /\ SupAt("start")
  /\ \/ ~routes /\ sup' = AttemptFailed /\ UNCHANGED <<api, bridge>>
     \/ /\ routes
        /\ api' = "down"
        /\ bridge' = "down"
        /\ sup' = [sup EXCEPT !.pc = "healthz"]
  /\ UNCHANGED <<beat, deaf, old, guard, routes, failed, faults>>

\* wait_healthz.
AwaitApi ==
  /\ SupAt("healthz")
  /\ \/ api = "up" /\ sup' = [sup EXCEPT !.pc = "reset"] /\ UNCHANGED faults
     \/ api # "up" /\ sup' = AttemptFailed /\ FaultUnless(api = "none")
  /\ UNCHANGED <<processes, routes, failed>>

\* The guard's whole tmux server is killed before it is warmed; without a valid
\* route file nothing is known of it.
ResetGuard ==
  /\ SupAt("reset")
  /\ guard' = IF routes THEN "none" ELSE guard
  /\ sup' = WarmFor("restart")
  /\ UNCHANGED <<api, bridge, beat, deaf, old, routes, failed, faults>>

\* wait_bridge_ready.
AwaitBridge ==
  /\ SupAt("ready")
  /\ \/ bridge = "up" /\ sup' = [sup EXCEPT !.pc = "grace"] /\ UNCHANGED faults
     \/ bridge # "up" /\ sup' = AttemptFailed /\ FaultUnless(bridge = "none")
  /\ UNCHANGED <<processes, routes, failed>>

\* The loop goes on, or begins.
LoopOn(streak) ==
  [WarmFor(IF sup.booted THEN "loop" ELSE "boot")
     EXCEPT !.booted = TRUE, !.streak = streak, !.tries = 0]

\* A stack that does not recover keeps its streak: it is restarted in every loop.
Grace ==
  /\ SupAt("grace")
  /\ \/ Healthy /\ sup' = LoopOn(0) /\ failed' = 0 /\ UNCHANGED faults
     \/ /\ ~Healthy
        /\ sup' = LoopOn(sup.streak)
        /\ FaultUnless(api = "none" \/ bridge = "none")
        /\ UNCHANGED failed
  /\ UNCHANGED <<processes, routes>>
-----------------------------------------------------------------------------
(***************************************************************************)
(* The supervisor's probes.                                                *)
(***************************************************************************)
RestartStack == [sup EXCEPT !.pc = "stop", !.tries = 1]

BootStack ==
  /\ SupAt("boot")
  /\ \/ Healthy /\ sup' = LoopOn(0) /\ UNCHANGED faults
     \/ sup' = RestartStack /\ FaultUnless(~Healthy)
  /\ UNCHANGED <<processes, routes, failed>>

\* Fault: the streak has to meet the threshold exactly.
EnoughOnce(streak) == streak = FailureStreak

\* Fault: one failed probe too few is enough.
EnoughEarly(streak) == streak + 1 >= FailureStreak

Enough(streak) == streak >= FailureStreak

\* The gateway may be up and too slow to answer.
Probe ==
  /\ SupAt("probe")
  /\ \/ Healthy /\ sup' = LoopOn(0) /\ failed' = 0 /\ UNCHANGED faults
     \/ LET streak == OneMore(sup.streak, FailureStreak)
        IN  /\ sup' = IF Enough(streak) THEN [RestartStack EXCEPT !.streak = streak]
                      ELSE LoopOn(streak)
            /\ failed' = OneMore(failed, FailureStreak)
            /\ FaultUnless(~Healthy)
  /\ UNCHANGED <<processes, routes>>

Supervise ==
  \/ BootStack \/ Warm \/ KillGuard \/ NewGuard \/ AwaitGuard \/ StopStack \/ StartStack
  \/ AwaitApi \/ ResetGuard \/ AwaitBridge \/ Grace \/ Probe
-----------------------------------------------------------------------------
(***************************************************************************)
(* The processes.                                                          *)
(***************************************************************************)
ApiComesUp ==
  /\ api = "down"
  /\ api' = "up"
  /\ UNCHANGED <<bridge, beat, deaf, old, guard, routes, sup, failed, faults>>

\* It writes a heartbeat as soon as it has started.
BridgeComesUp ==
  /\ bridge = "down"
  /\ bridge' = "up"
  /\ beat' = TRUE
  /\ deaf' = FALSE
  /\ old' = FALSE
  /\ UNCHANGED <<api, guard, routes, sup, failed, faults>>

BridgeBeats ==
  /\ bridge = "up"
  /\ beat' = TRUE
  /\ UNCHANGED <<api, bridge, deaf, old, guard, routes, sup, failed, faults>>

\* The heartbeat of a bridge whose session is gone runs out; one that is only being
\* started again lasts, unless the start takes too long or the file is not written.
BeatRunsOut ==
  /\ beat
  /\ beat' = FALSE
  /\ FaultUnless(bridge = "none")
  /\ UNCHANGED <<api, bridge, deaf, old, guard, routes, sup, failed>>

BridgeAges ==
  /\ bridge = "up"
  /\ ~old
  /\ old' = TRUE
  /\ UNCHANGED <<api, bridge, beat, deaf, guard, routes, sup, failed, faults>>

\* Fault: the uptime counts only together with the idle time.
ExpiredWhenActive == old /\ ~deaf

Expired == old

\* _watchdog_loop: the bridge exits at its maximal uptime (70), or when it was active
\* once and has been idle for long (71); what its threads are doing is not asked.
Recycle ==
  /\ bridge = "up"
  /\ Expired
  /\ bridge' = "down"
  /\ UNCHANGED <<api, beat, deaf, old, guard, routes, sup, failed, faults>>

IdleExit ==
  /\ bridge = "up"
  /\ bridge' = "down"
  /\ UNCHANGED <<api, beat, deaf, old, guard, routes, sup, failed, faults>>

GuardComesUp ==
  /\ guard = "boot"
  /\ guard' = "up"
  /\ UNCHANGED <<api, bridge, beat, deaf, old, routes, sup, failed, faults>>

\* A message makes the control script start the guard.
GuardStarted ==
  /\ guard = "none"
  /\ guard' = "boot"
  /\ UNCHANGED <<api, bridge, beat, deaf, old, routes, sup, failed, faults>>

RoutesRepaired ==
  /\ ~routes
  /\ routes' = TRUE
  /\ UNCHANGED <<processes, sup, failed, faults>>
-----------------------------------------------------------------------------
(***************************************************************************)
(* Faults: processes that die, sessions that vanish, a stream that is lost *)
(* without notice, a route file that is damaged, and a supervisor that is  *)
(* killed and started anew by launchd, with its counters lost.             *)
(***************************************************************************)
ProcessDies ==
  /\ Faulty
  /\ \/ api = "up" /\ api' \in {"down", "none"} /\ UNCHANGED <<bridge, guard>>
     \/ bridge = "up" /\ bridge' \in {"down", "none"} /\ UNCHANGED <<api, guard>>
     \/ guard = "up" /\ guard' \in {"boot", "none"} /\ UNCHANGED <<api, bridge>>
  /\ UNCHANGED <<beat, deaf, old, routes, sup, failed>>

StreamDies ==
  /\ Faulty
  /\ bridge = "up"
  /\ deaf' = TRUE
  /\ UNCHANGED <<api, bridge, beat, old, guard, routes, sup, failed>>

RoutesDamaged ==
  /\ Faulty
  /\ routes
  /\ routes' = FALSE
  /\ UNCHANGED <<processes, sup, failed>>

SupervisorDies ==
  /\ Faulty
  /\ sup' = SupStarts
  /\ failed' = 0
  /\ UNCHANGED <<processes, routes>>
-----------------------------------------------------------------------------
StackInit ==
  /\ api = "none"
  /\ bridge = "none"
  /\ beat = FALSE
  /\ deaf = FALSE
  /\ old = FALSE
  /\ guard \in {"none", "up"}
  /\ routes \in BOOLEAN
  /\ sup = SupStarts
  /\ failed = 0
  /\ faults = 0

Process ==
  \/ ApiComesUp \/ BridgeComesUp \/ BridgeBeats \/ BeatRunsOut \/ BridgeAges
  \/ Recycle \/ IdleExit \/ GuardComesUp \/ GuardStarted \/ RoutesRepaired

FaultStep == ProcessDies \/ StreamDies \/ RoutesDamaged \/ SupervisorDies

StackNext == Supervise \/ Process \/ FaultStep

\* The supervisor goes on, each process comes up that is started, time passes for
\* the bridge and its watchdog, and somebody repairs the route file in the end.
\* A bridge exits no sooner than its watchdog's grace after it has come up, and the
\* supervisor looks for it every second: it finds one that comes up again and again.
StackFairness ==
  /\ SF_stackVars(Supervise)
  /\ WF_stackVars(ApiComesUp)
  /\ WF_stackVars(BridgeComesUp)
  /\ WF_stackVars(BridgeBeats)
  /\ WF_stackVars(BridgeAges)
  /\ WF_stackVars(Recycle)
  /\ WF_stackVars(GuardComesUp)
  /\ WF_stackVars(RoutesRepaired)

StackSpec == StackInit /\ [][StackNext]_stackVars /\ StackFairness
-----------------------------------------------------------------------------
StackTypeOK ==
  /\ {api, bridge} \subseteq Places
  /\ {beat, deaf, old, routes} \subseteq BOOLEAN
  /\ guard \in {"none", "boot", "up"}
  /\ sup \in Sup
  /\ failed \in 0 .. FailureStreak + 1
  /\ faults \in 0 .. MaxFaults

\* The supervisor's streak counts no more than the probes that failed in a row.
StackInv == StackTypeOK /\ sup.streak <= failed

\* The loop of the supervisor takes the stack down, healthy or not, only when so many
\* probes have failed since the last one that succeeded; at boot, one is enough.
TakenDownForReason ==
  sup.pc = "stop" /\ sup.booted => failed >= FailureStreak

\* When faults stop and the route file is valid in the end, the stack gets healthy and
\* stays so, whatever state the faults, a restart that failed half-way or the loss of
\* the supervisor's counters left it in.
StackRecovers == <>[]Healthy

\* A bridge that has lost its stream is replaced, although it looks healthy to the
\* supervisor: by its maximal uptime at the latest.
StreamReplaced == deaf ~> ~deaf
=============================================================================
