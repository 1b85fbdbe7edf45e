---------------------------- MODULE UpkeepProofs ----------------------------
(***************************************************************************)
(* Proofs about the watchdog of a session (SessionWatch) and the local     *)
(* stack (LocalStack), by themselves and beside the bridge (MCUpkeep), for *)
(* any thresholds and streaks and any number of crashes and faults.        *)
(***************************************************************************)
EXTENDS MCUpkeep, TLAPS

(***************************************************************************)
(* The watchdog: what it knows of its last attempt.                        *)
(***************************************************************************)
LEMMA AgesStay ==
  ASSUME NEW most \in Nat, NEW age \in 0 .. most, NEW other \in 0 .. most
  PROVE  /\ Older(age, most) \in 0 .. most
         /\ age <= other => Older(age, most) <= Older(other, most)
         /\ age <= Older(age, most)
BY DEF Older

LEMMA LongAgoNat == LongAgo \in Nat
BY WatchAssumption DEF LongAgo

LEMMA LookingType ==
  ASSUME NEW last \in 0 .. Cooldown
  PROVE  /\ Looking(last) \in Watch
         /\ Looking(last).pc = "look"
         /\ Looking(last).last = last
BY DEF Looking, Watch

LEMMA InitWatchInv == WatchInit => WatchInv
<1> SUFFICES ASSUME WatchInit PROVE WatchInv
  OBVIOUS
<1>1. Cooldown \in 0 .. Cooldown
  BY WatchAssumption
<1>2. WatchTypeOK
  <2>1. watch \in Watch /\ watchCrashes \in 0 .. MaxWatchCrashes /\ idle \in 0 .. LongAgo
    BY <1>1, LookingType, LongAgoNat, WatchAssumption DEF WatchInit
  <2> QED BY <1>1, <2>1 DEF WatchInit, WatchTypeOK
<1> QED
  BY <1>1, <1>2, LookingType DEF WatchInit, WatchInv

\* A snapshot has one of the states.
LEMMA StateOfType == \A probe \in BOOLEAN : StateOf(probe) \in States
BY DEF StateOf, States

LEMMA WatchStepKeeps ==
  ASSUME WatchInv, WatchStep
  PROVE  WatchInv'
<1> USE DEF WatchInv, WatchTypeOK
<1>0. Cooldown \in Nat /\ 0 \in 0 .. Cooldown
  BY WatchAssumption
<1>1. CASE Sample
  <2>1. watch' \in Watch /\ watch'.pc = "decide" /\ watch'.last = watch.last
    <3>1. PICK probe \in BOOLEAN :
            watch' = [watch EXCEPT !.pc = "decide", !.state = StateOf(probe),
                                   !.ripe = IdleFor(MinIdle)]
      BY <1>1 DEF Sample
    <3>2. StateOf(probe) \in States /\ IdleFor(MinIdle) \in BOOLEAN
      BY StateOfType DEF IdleFor
    <3> QED BY <3>1, <3>2 DEF Watch
  <2> QED BY <1>1, <2>1 DEF Sample, watched
<1>2. CASE Attempt
  <2>1. watch' \in Watch /\ watch'.pc = "running" /\ watch'.last = 0
    BY <1>0, <1>2, LookingType DEF Attempt, Watch
  <2> QED BY <1>0, <1>2, <2>1 DEF Attempt
<1>3. CASE Pass
  <2>1. watch' \in Watch /\ watch'.pc = "look" /\ watch'.last = watch.last
    BY <1>3, LookingType DEF Pass, LastAttempt, Watch
  <2> QED BY <1>3, <2>1 DEF Pass, watched
<1>4. CASE Return
  <2>1. watch' \in Watch /\ watch'.pc = "save" /\ watch'.last = watch.last
    BY <1>4, LookingType DEF Return, Watch
  <2> QED BY <1>4, <2>1 DEF Return, watched
<1>5. CASE SaveAttempt
  <2>1. watch' \in Watch /\ watch'.pc = "look" /\ watch'.last = watch.last
        /\ watch.last \in 0 .. Cooldown
    BY <1>5, LookingType DEF SaveAttempt, Watch
  <2> QED BY <1>5, <2>1 DEF SaveAttempt, watched
<1> QED BY <1>1, <1>2, <1>3, <1>4, <1>5 DEF WatchStep

LEMMA WatchCrashKeeps ==
  ASSUME WatchInv, WatchCrash
  PROVE  WatchInv'
<1> USE DEF WatchInv, WatchTypeOK
<1>0. Cooldown \in 0 .. Cooldown
  BY WatchAssumption
<1>1. saved' \in 0 .. Cooldown
  BY <1>0 DEF WatchCrash
<1>2. watch' \in Watch /\ watch'.pc = "look" /\ watch'.last = saved'
  BY <1>1, LookingType DEF WatchCrash
<1>3. saved' <= tried' /\ tried' \in 0 .. Cooldown
  BY <1>0, <1>1 DEF WatchCrash
<1>4. watchCrashes' \in 0 .. MaxWatchCrashes
  BY WatchAssumption DEF WatchCrash
<1>5. scripts' \subseteq {"own", "other"} /\ "own" \notin scripts'
  BY DEF WatchCrash
<1> QED BY <1>1, <1>2, <1>3, <1>4, <1>5 DEF WatchCrash

LEMMA RerunKeeps ==
  ASSUME WatchInv, Rerun
  PROVE  WatchInv'
<1> USE DEF WatchInv, WatchTypeOK
<1>1. watch' \in Watch /\ watch'.pc = "look" /\ watch'.last = saved
  BY LookingType DEF Rerun, LoadAttempt
<1> QED BY <1>1 DEF Rerun, watched

LEMMA SessionStepKeeps ==
  ASSUME WatchInv, SessionStep
  PROVE  WatchInv'
<1> USE DEF WatchInv, WatchTypeOK
<1>1. CASE AgentLogs
  BY <1>1, LongAgoNat DEF AgentLogs
<1>2. CASE AgentEnds \/ OtherBegins \/ ScriptActs
  BY <1>2 DEF AgentEnds, OtherBegins, ScriptActs
<1>3. CASE \E s \in scripts : ScriptEnds(s)
  BY <1>3 DEF ScriptEnds
<1> QED BY <1>1, <1>2, <1>3 DEF SessionStep

LEMMA WatchTickKeeps ==
  ASSUME WatchInv, WatchTick
  PROVE  WatchInv'
<1> USE DEF WatchInv, WatchTypeOK
<1>0. Cooldown \in Nat /\ watch.last \in 0 .. Cooldown
  BY WatchAssumption DEF Watch
<1>1. /\ Older(watch.last, Cooldown) \in 0 .. Cooldown
      /\ Older(watch.last, Cooldown) <= Older(tried, Cooldown)
      /\ Older(saved, Cooldown) \in 0 .. Cooldown
      /\ Older(tried, Cooldown) \in 0 .. Cooldown
      /\ saved <= tried => Older(saved, Cooldown) <= Older(tried, Cooldown)
  BY <1>0, AgesStay
<1>2. /\ watch' \in Watch
      /\ watch'.pc = watch.pc
      /\ watch'.last = Older(watch.last, Cooldown)
  BY <1>1 DEF WatchTick, Watch
<1>3. idle' \in 0 .. LongAgo
  BY LongAgoNat, AgesStay DEF WatchTick
<1> QED BY <1>1, <1>2, <1>3 DEF WatchTick

LEMMA WatchStutterKeeps ==
  ASSUME WatchInv, UNCHANGED watchVars
  PROVE  WatchInv'
BY DEF WatchInv, WatchTypeOK, watchVars, watched

LEMMA WatchNextKeeps == WatchInv /\ [WatchNext]_watchVars => WatchInv'
BY WatchStepKeeps, WatchCrashKeeps, RerunKeeps, SessionStepKeeps, WatchTickKeeps,
   WatchStutterKeeps DEF WatchNext

\* SessionWatch!WatchInv: what the watchdog and its file know of the last attempt is
\* never older than it was, unless a crash came before it was saved.
THEOREM WatchInvariant == WatchSpec => []WatchInv
BY InitWatchInv, WatchNextKeeps, PTL DEF WatchSpec

\* SessionWatch!CooldownKept: two attempts are a cooldown apart, also over restarts of
\* the watchdog, unless it is killed between an attempt and its being saved.
THEOREM CooldownAlwaysKept == WatchSpec => CooldownKept
<1>1. WatchInv /\ [WatchNext]_watchVars
      => [watch.pc = "decide" /\ watch'.pc = "running" => tried >= Cooldown]_watchVars
  <2> SUFFICES ASSUME WatchInv, WatchNext, watch.pc = "decide", watch'.pc = "running"
               PROVE  tried >= Cooldown
    OBVIOUS
  <2>1. watch.last \in 0 .. Cooldown /\ watch.last <= tried /\ tried \in 0 .. Cooldown
        /\ Cooldown \in Nat
    BY WatchAssumption DEF WatchInv, WatchTypeOK, Watch
  <2>2. CASE WatchStep
    <3>1. CASE Attempt
      BY <2>1, <3>1 DEF Attempt, ShouldContinue
    <3>2. CASE Sample \/ Return \/ SaveAttempt
      BY <3>2 DEF Sample, Return, SaveAttempt
    <3>3. CASE Pass
      BY <3>3 DEF Pass, Looking
    <3> QED BY <2>2, <3>1, <3>2, <3>3 DEF WatchStep
  <2>3. CASE WatchCrash \/ Rerun
    BY <2>3 DEF WatchCrash, Rerun, Looking
  <2>4. CASE SessionStep
    BY <2>4 DEF SessionStep, AgentLogs, AgentEnds, OtherBegins, ScriptActs, ScriptEnds
  <2>5. CASE WatchTick
    BY <2>5 DEF WatchTick, WatchInv, WatchTypeOK, Watch
  <2> QED BY <2>2, <2>3, <2>4, <2>5 DEF WatchNext
<1> QED BY WatchInvariant, <1>1, PTL DEF WatchSpec, CooldownKept
-----------------------------------------------------------------------------
(***************************************************************************)
(* The supervisor: why the stack is taken down.                            *)
(***************************************************************************)

\* A restart is under way.
Restarting ==
  \/ sup.pc \in {"stop", "start", "healthz", "reset", "ready"}
  \/ sup.pc \in {"warm", "kill", "new", "await"} /\ sup.job = "restart"

\* The failures that were the reason for a restart are counted until it is over; at
\* boot there need be none.
ReasonInv ==
  /\ StackInv
  /\ sup.pc = "boot" => ~sup.booted
  /\ Restarting /\ sup.booted => failed >= FailureStreak

LEMMA OneMoreGrows ==
  ASSUME NEW most \in Nat, NEW n \in 0 .. most + 1, NEW m \in 0 .. most + 1, n <= m
  PROVE  /\ OneMore(n, most) \in 0 .. most + 1
         /\ OneMore(n, most) <= OneMore(m, most)
         /\ n <= OneMore(n, most)
BY DEF OneMore

LEMMA FaultCount ==
  ASSUME faults \in 0 .. MaxFaults, Faulty
  PROVE  faults' \in 0 .. MaxFaults
BY StackAssumption DEF Faulty

LEMMA FaultUnlessCount ==
  ASSUME faults \in 0 .. MaxFaults, NEW excuse, FaultUnless(excuse)
  PROVE  faults' \in 0 .. MaxFaults
BY FaultCount DEF FaultUnless

LEMMA SupStartsFacts == SupStarts \in Sup /\ SupStarts.streak = 0 /\ ~SupStarts.booted
BY StackAssumption DEF SupStarts, Sup

LEMMA InitReason == StackInit => ReasonInv
<1> SUFFICES ASSUME StackInit PROVE ReasonInv
  OBVIOUS
<1>1. faults \in 0 .. MaxFaults /\ failed \in 0 .. FailureStreak + 1
  BY StackAssumption DEF StackInit
<1>2. StackTypeOK
  BY <1>1, SupStartsFacts DEF StackInit, StackTypeOK, Places
<1> QED BY <1>2, SupStartsFacts DEF StackInit, ReasonInv, StackInv

\* Where the record goes when an attempt to restart failed.
LEMMA AttemptFailedFacts ==
  ASSUME sup \in Sup
  PROVE  /\ AttemptFailed \in Sup
         /\ AttemptFailed.streak = sup.streak
         /\ AttemptFailed.booted = sup.booted
         /\ AttemptFailed.pc # "boot"
<1>1. CASE sup.tries < Retries
  <2>1. sup.tries + 1 \in 0 .. Retries
    BY <1>1, StackAssumption DEF Sup
  <2>2. AttemptFailed = [sup EXCEPT !.pc = "stop", !.tries = sup.tries + 1]
    BY <1>1 DEF AttemptFailed
  <2> QED BY <2>1, <2>2 DEF Sup
<1>2. CASE ~(sup.tries < Retries)
  BY <1>2 DEF AttemptFailed, Sup
<1> QED BY <1>1, <1>2

\* After warming, a restart goes on only if it was under way.
LEMMA WarmSucceededFacts ==
  ASSUME sup \in Sup
  PROVE  /\ WarmSucceeded \in Sup
         /\ WarmSucceeded.streak = sup.streak
         /\ WarmSucceeded.booted = sup.booted
         /\ WarmSucceeded.pc # "boot"
         /\ sup.job # "restart" =>
              \/ WarmSucceeded.pc = "probe"
              \/ WarmSucceeded.pc = "warm" /\ WarmSucceeded.job = "loop"
<1>1. 0 \in 0 .. GuardStreak + 1
  BY StackAssumption
<1>2. CASE sup.job = "boot"
  BY <1>2 DEF WarmSucceeded, WarmFor, Sup
<1>3. CASE sup.job = "restart"
  BY <1>3 DEF WarmSucceeded, Sup
<1>4. CASE sup.job \in {"loop", "again"}
  BY <1>1, <1>4 DEF WarmSucceeded, Sup
<1> QED BY <1>2, <1>3, <1>4 DEF Sup

LEMMA WarmFailedFacts ==
  ASSUME sup \in Sup
  PROVE  /\ WarmFailed \in Sup
         /\ WarmFailed.streak = sup.streak
         /\ WarmFailed.booted = sup.booted
         /\ WarmFailed.pc # "boot"
         /\ sup.job # "restart" =>
              \/ WarmFailed.pc = "probe"
              \/ WarmFailed.pc = "warm" /\ WarmFailed.job \in {"loop", "again"}
<1>0. GuardStreak \in Nat /\ sup.guardStreak \in 0 .. GuardStreak + 1
  BY StackAssumption DEF Sup
<1>1. OneMore(sup.guardStreak, GuardStreak) \in 0 .. GuardStreak + 1
  BY <1>0, OneMoreGrows
<1>2. CASE sup.job \in {"boot", "again"}
  BY <1>2 DEF WarmFailed, WarmFor, Sup
<1>3. CASE sup.job = "restart"
  BY <1>3, AttemptFailedFacts DEF WarmFailed
<1>4. CASE sup.job = "loop"
  <2> DEFINE n == OneMore(sup.guardStreak, GuardStreak)
  <2>1. n \in 0 .. GuardStreak + 1
    BY <1>1
  <2>2. WarmFailed = IF n >= GuardStreak
                     THEN [WarmFor("again") EXCEPT !.guardStreak = n]
                     ELSE [sup EXCEPT !.pc = "probe", !.guardStreak = n]
    BY <1>4 DEF WarmFailed
  <2> HIDE DEF n
  <2>3. CASE n >= GuardStreak
    BY <2>1, <2>2, <2>3, <1>4 DEF WarmFor, Sup
  <2>4. CASE ~(n >= GuardStreak)
    BY <2>1, <2>2, <2>4, <1>4 DEF Sup
  <2> QED BY <2>3, <2>4
<1> QED BY <1>2, <1>3, <1>4 DEF Sup

LEMMA LoopOnFacts ==
  ASSUME sup \in Sup, NEW streak \in 0 .. FailureStreak + 1
  PROVE  /\ LoopOn(streak) \in Sup
         /\ LoopOn(streak).streak = streak
         /\ LoopOn(streak).pc = "warm"
         /\ LoopOn(streak).job \in {"boot", "loop"}
<1>1. 0 \in 0 .. Retries
  BY StackAssumption
<1>2. CASE sup.booted
  BY <1>1, <1>2 DEF LoopOn, WarmFor, Sup
<1>3. CASE ~sup.booted
  BY <1>1, <1>3 DEF LoopOn, WarmFor, Sup
<1> QED BY <1>2, <1>3

-----------------------------------------------------------------------------
\* A step that leaves the supervisor alone.
LEMMA ProcessKeeps ==
  ASSUME ReasonInv, Process
  PROVE  ReasonInv'
<1> USE DEF ReasonInv, StackInv, StackTypeOK, Restarting
<1>1. CASE BeatRunsOut
  BY <1>1, FaultUnlessCount DEF BeatRunsOut
<1>2. CASE ApiComesUp \/ BridgeComesUp \/ BridgeBeats \/ BridgeAges
  BY <1>2 DEF ApiComesUp, BridgeComesUp, BridgeBeats, BridgeAges, Places
<1>3. CASE Recycle \/ IdleExit \/ GuardComesUp \/ GuardStarted
  BY <1>3 DEF Recycle, IdleExit, GuardComesUp, GuardStarted, Places
<1>4. CASE RoutesRepaired
  BY <1>4 DEF RoutesRepaired, processes
<1> QED BY <1>1, <1>2, <1>3, <1>4 DEF Process

LEMMA FaultStepKeeps ==
  ASSUME ReasonInv, FaultStep
  PROVE  ReasonInv'
<1> USE DEF ReasonInv, StackInv, StackTypeOK, Restarting
<1>1. CASE ProcessDies
  <2>1. faults' \in 0 .. MaxFaults
    BY <1>1, FaultCount DEF ProcessDies
  <2> QED BY <1>1, <2>1 DEF ProcessDies, Places
<1>2. CASE StreamDies
  BY <1>2, FaultCount DEF StreamDies
<1>3. CASE RoutesDamaged
  BY <1>3, FaultCount DEF RoutesDamaged, processes
<1>4. CASE SupervisorDies
  <2>1. faults' \in 0 .. MaxFaults /\ 0 \in 0 .. FailureStreak + 1
    BY <1>4, FaultCount, StackAssumption DEF SupervisorDies
  <2> QED BY <1>4, <2>1, SupStartsFacts DEF SupervisorDies, processes
<1> QED BY <1>1, <1>2, <1>3, <1>4 DEF FaultStep

\* A step of the supervisor within a phase: it counts no probe, and a restart is under
\* way after it only if one was before.
LEMMA PhaseKeeps ==
  ASSUME ReasonInv, UNCHANGED failed, sup' \in Sup,
         {api', bridge'} \subseteq Places, UNCHANGED <<beat, deaf, old, routes>>,
         guard' \in {"none", "boot", "up"}, faults' \in 0 .. MaxFaults,
         sup'.streak = sup.streak, sup'.booted = sup.booted, sup'.pc # "boot",
         Restarting' => Restarting
  PROVE  ReasonInv'
BY DEF ReasonInv, StackInv, StackTypeOK

\* The supervisor goes to another place and changes nothing else of its record.
LEMMA MoveFacts ==
  ASSUME sup \in Sup, NEW pc \in {"kill", "new", "await", "start", "healthz", "reset",
                                  "ready", "grace"}
  PROVE  /\ [sup EXCEPT !.pc = pc] \in Sup
         /\ [sup EXCEPT !.pc = pc].pc = pc
         /\ [sup EXCEPT !.pc = pc].job = sup.job
         /\ [sup EXCEPT !.pc = pc].streak = sup.streak
         /\ [sup EXCEPT !.pc = pc].booted = sup.booted
BY DEF Sup

LEMMA WarmingKeeps ==
  ASSUME ReasonInv, Warm \/ KillGuard \/ NewGuard \/ AwaitGuard
  PROVE  ReasonInv'
<1>0. /\ sup \in Sup /\ {api, bridge} \subseteq Places /\ faults \in 0 .. MaxFaults
      /\ guard \in {"none", "boot", "up"}
  BY DEF ReasonInv, StackInv, StackTypeOK
<1>1. CASE Warm
  <2>1. CASE ~routes
    <3>1. sup' = WarmFailed /\ sup.pc = "warm"
      BY <1>1, <2>1 DEF Warm, SupAt
    <3> QED BY <1>0, <1>1, <3>1, WarmFailedFacts, PhaseKeeps DEF Warm, processes, Restarting
  <2>2. CASE routes
    <3>1. PICK pc \in {"kill", "new"} : sup' = [sup EXCEPT !.pc = pc]
      BY <1>1, <2>2 DEF Warm
    <3>2. /\ sup' \in Sup /\ sup'.pc = pc /\ sup'.job = sup.job
          /\ sup'.streak = sup.streak /\ sup'.booted = sup.booted
      BY <1>0, <3>1, MoveFacts
    <3> QED BY <1>0, <1>1, <3>2, PhaseKeeps DEF Warm, SupAt, processes, Restarting
  <2> QED BY <2>1, <2>2
<1>2. CASE KillGuard
  BY <1>0, <1>2, MoveFacts, PhaseKeeps DEF KillGuard, SupAt, Restarting
<1>3. CASE NewGuard
  BY <1>0, <1>3, MoveFacts, PhaseKeeps DEF NewGuard, SupAt, Restarting
<1>4. CASE AwaitGuard
  <2>1. CASE guard = "up" /\ sup' = WarmSucceeded /\ UNCHANGED faults
    BY <1>0, <1>4, <2>1, WarmSucceededFacts, PhaseKeeps
       DEF AwaitGuard, SupAt, processes, Restarting
  <2>2. CASE sup' = WarmFailed /\ FaultUnless(guard = "none")
    BY <1>0, <1>4, <2>2, WarmFailedFacts, FaultUnlessCount, PhaseKeeps
       DEF AwaitGuard, SupAt, processes, Restarting
  <2> QED BY <1>4, <2>1, <2>2 DEF AwaitGuard
<1> QED BY <1>1, <1>2, <1>3, <1>4

LEMMA RestartKeeps ==
  ASSUME ReasonInv, StopStack \/ StartStack \/ AwaitApi \/ ResetGuard \/ AwaitBridge
  PROVE  ReasonInv'
<1>0. /\ sup \in Sup /\ {api, bridge} \subseteq Places /\ faults \in 0 .. MaxFaults
      /\ guard \in {"none", "boot", "up"} /\ {"none", "down"} \subseteq Places
  BY DEF ReasonInv, StackInv, StackTypeOK, Places
<1>1. CASE StopStack
  BY <1>0, <1>1, MoveFacts, PhaseKeeps DEF StopStack, SupAt, Restarting
<1>2. CASE StartStack
  <2>1. CASE sup' = AttemptFailed /\ UNCHANGED <<api, bridge>>
    BY <1>0, <1>2, <2>1, AttemptFailedFacts, PhaseKeeps DEF StartStack, SupAt, Restarting
  <2>2. CASE api' = "down" /\ bridge' = "down" /\ sup' = [sup EXCEPT !.pc = "healthz"]
    BY <1>0, <1>2, <2>2, MoveFacts, PhaseKeeps DEF StartStack, SupAt, Restarting
  <2> QED BY <1>2, <2>1, <2>2 DEF StartStack
<1>3. CASE AwaitApi
  <2>1. CASE sup' = [sup EXCEPT !.pc = "reset"] /\ UNCHANGED faults
    BY <1>0, <1>3, <2>1, MoveFacts, PhaseKeeps DEF AwaitApi, SupAt, processes, Restarting
  <2>2. CASE sup' = AttemptFailed /\ FaultUnless(api = "none")
    BY <1>0, <1>3, <2>2, AttemptFailedFacts, FaultUnlessCount, PhaseKeeps
       DEF AwaitApi, SupAt, processes, Restarting
  <2> QED BY <1>3, <2>1, <2>2 DEF AwaitApi
<1>4. CASE ResetGuard
  <2>1. /\ WarmFor("restart") \in Sup
        /\ WarmFor("restart").pc = "warm"
        /\ WarmFor("restart").streak = sup.streak
        /\ WarmFor("restart").booted = sup.booted
    BY <1>0 DEF WarmFor, Sup
  <2> QED BY <1>0, <1>4, <2>1, PhaseKeeps DEF ResetGuard, SupAt, Restarting
<1>5. CASE AwaitBridge
  <2>1. CASE sup' = [sup EXCEPT !.pc = "grace"] /\ UNCHANGED faults
    BY <1>0, <1>5, <2>1, MoveFacts, PhaseKeeps DEF AwaitBridge, SupAt, processes, Restarting
  <2>2. CASE sup' = AttemptFailed /\ FaultUnless(bridge = "none")
    BY <1>0, <1>5, <2>2, AttemptFailedFacts, FaultUnlessCount, PhaseKeeps
       DEF AwaitBridge, SupAt, processes, Restarting
  <2> QED BY <1>5, <2>1, <2>2 DEF AwaitBridge
<1> QED BY <1>1, <1>2, <1>3, <1>4, <1>5

\* A step after which the loop goes on, or begins.
LEMMA LoopKeeps ==
  ASSUME ReasonInv, NEW streak \in 0 .. FailureStreak + 1, sup' = LoopOn(streak),
         failed' \in 0 .. FailureStreak + 1, streak <= failed',
         faults' \in 0 .. MaxFaults, UNCHANGED <<processes, routes>>
  PROVE  ReasonInv'
BY LoopOnFacts DEF ReasonInv, StackInv, StackTypeOK, Restarting, processes

LEMMA ProbesKeep ==
  ASSUME ReasonInv, BootStack \/ Grace \/ Probe
  PROVE  ReasonInv'
<1>0. /\ sup \in Sup /\ {api, bridge} \subseteq Places /\ faults \in 0 .. MaxFaults
      /\ guard \in {"none", "boot", "up"} /\ failed \in 0 .. FailureStreak + 1
      /\ sup.streak \in 0 .. FailureStreak + 1 /\ sup.streak <= failed
      /\ FailureStreak \in Nat /\ 0 \in 0 .. FailureStreak + 1 /\ 1 \in 0 .. Retries
  BY StackAssumption DEF ReasonInv, StackInv, StackTypeOK, Sup
<1>1. ASSUME NEW streak \in 0 .. FailureStreak + 1
      PROVE  /\ [RestartStack EXCEPT !.streak = streak] \in Sup
             /\ [RestartStack EXCEPT !.streak = streak].streak = streak
             /\ [RestartStack EXCEPT !.streak = streak].pc = "stop"
  BY <1>0 DEF RestartStack, Sup
<1>2. CASE BootStack
  <2>1. CASE sup' = LoopOn(0) /\ UNCHANGED faults
    BY <1>0, <1>2, <2>1, LoopKeeps DEF BootStack
  <2>2. CASE sup' = RestartStack /\ FaultUnless(~Healthy)
    <3>1. RestartStack \in Sup /\ RestartStack.streak = sup.streak
          /\ RestartStack.booted = sup.booted /\ RestartStack.pc # "boot"
      BY <1>0 DEF RestartStack, Sup
    <3>2. sup.pc = "boot" /\ ~sup.booted
      BY <1>2 DEF BootStack, SupAt, ReasonInv
    <3> QED
      BY <1>0, <1>2, <2>2, <3>1, <3>2, FaultUnlessCount
         DEF BootStack, ReasonInv, StackInv, StackTypeOK, processes
  <2> QED BY <1>2, <2>1, <2>2 DEF BootStack
<1>3. CASE Grace
  <2>1. CASE sup' = LoopOn(0) /\ failed' = 0 /\ UNCHANGED faults
    BY <1>0, <1>3, <2>1, LoopKeeps DEF Grace
  <2>2. CASE sup' = LoopOn(sup.streak) /\ FaultUnless(api = "none" \/ bridge = "none")
             /\ UNCHANGED failed
    BY <1>0, <1>3, <2>2, FaultUnlessCount, LoopKeeps DEF Grace
  <2> QED BY <1>3, <2>1, <2>2 DEF Grace
<1>4. CASE Probe
  <2> DEFINE streak == OneMore(sup.streak, FailureStreak)
  <2>1. /\ streak \in 0 .. FailureStreak + 1
        /\ OneMore(failed, FailureStreak) \in 0 .. FailureStreak + 1
        /\ streak <= OneMore(failed, FailureStreak)
    <3>1. \A n, m \in 0 .. FailureStreak + 1 :
            n <= m => /\ OneMore(n, FailureStreak) \in 0 .. FailureStreak + 1
                      /\ OneMore(n, FailureStreak) <= OneMore(m, FailureStreak)
      BY <1>0, OneMoreGrows
    <3> QED BY <1>0, <3>1
  <2>2. CASE sup' = LoopOn(0) /\ failed' = 0 /\ UNCHANGED faults
    BY <1>0, <1>4, <2>2, LoopKeeps DEF Probe
  <2>3. CASE /\ sup' = IF Enough(streak) THEN [RestartStack EXCEPT !.streak = streak]
                       ELSE LoopOn(streak)
             /\ failed' = OneMore(failed, FailureStreak)
             /\ FaultUnless(~Healthy)
    <3> HIDE DEF streak
    <3>1. faults' \in 0 .. MaxFaults
      BY <1>0, <2>3, FaultUnlessCount
    <3>2. CASE ~Enough(streak)
      BY <1>0, <1>4, <2>1, <2>3, <3>1, <3>2, LoopKeeps DEF Probe
    <3>3. CASE Enough(streak)
      <4>1. failed' >= FailureStreak
        BY <1>0, <2>1, <2>3, <3>3 DEF Enough
      <4> QED
        BY <1>0, <1>1, <1>4, <2>1, <2>3, <3>1, <3>3, <4>1
           DEF Probe, ReasonInv, StackInv, StackTypeOK, processes
    <3> QED BY <3>2, <3>3
  <2> QED BY <1>4, <2>2, <2>3 DEF Probe
<1> QED BY <1>2, <1>3, <1>4

LEMMA StackStutterKeeps ==
  ASSUME ReasonInv, UNCHANGED stackVars
  PROVE  ReasonInv'
BY DEF ReasonInv, StackInv, StackTypeOK, Restarting, stackVars, processes

LEMMA StackNextKeeps == ReasonInv /\ [StackNext]_stackVars => ReasonInv'
BY ProcessKeeps, FaultStepKeeps, WarmingKeeps, RestartKeeps, ProbesKeep, StackStutterKeeps
   DEF StackNext, Supervise

\* What makes LocalStack!TakenDownForReason inductive: the reason for a restart outlasts
\* every attempt of it.
THEOREM ReasonInvariant == StackSpec => []ReasonInv
BY InitReason, StackNextKeeps, PTL DEF StackSpec

\* LocalStack!StackInv: the supervisor's streak counts no more than the probes that failed
\* in a row, over boots, restarts that fail and lost counters.
THEOREM StreakCounts == StackSpec => []StackInv
BY ReasonInvariant, PTL DEF ReasonInv

\* LocalStack!TakenDownForReason: the loop takes the stack down only when enough probes
\* have failed since the last one that succeeded.
THEOREM TakenDownAlwaysForReason == StackSpec => []TakenDownForReason
<1>1. ReasonInv => TakenDownForReason
  BY DEF ReasonInv, Restarting, TakenDownForReason
<1> QED BY ReasonInvariant, <1>1, PTL
-----------------------------------------------------------------------------
(***************************************************************************)
(* Both beside the bridge: in a behaviour of MCUpkeep one component moves  *)
(* at a time, and the invariant of each is only about its own state.       *)
(***************************************************************************)
\* MCUpkeep!UpkeepInv: what the watchdog and the supervisor remember is right in every
\* behaviour in which the bridge's threads, its intake, the watchdog and the stack run
\* beside each other.
THEOREM UpkeepInvariant == UpkeepSpec => []UpkeepInv
<1>1. UpkeepInit => WatchInv /\ ReasonInv
  BY InitWatchInv, InitReason DEF UpkeepInit
<1>2. [UpkeepNext]_allVars => [WatchNext]_watchVars /\ [StackNext]_stackVars
  BY DEF UpkeepNext, allVars
<1>3. WatchInv /\ ReasonInv => UpkeepInv
  BY DEF UpkeepInv, ReasonInv
<1> QED BY <1>1, <1>2, <1>3, WatchNextKeeps, StackNextKeeps, PTL DEF UpkeepSpec
=============================================================================
