------------------------------ MODULE MCUpkeep ------------------------------
(***************************************************************************)
(* What runs beside the gateway and shares no state in the models, checked *)
(* in one run: the bridge's threads, its intake, the watchdog of a session *)
(* and the local stack.  In each behaviour one of them moves and the       *)
(* others rest in an initial state.                                        *)
(***************************************************************************)
EXTENDS StreamBridge, BridgeInbound, SessionWatch, LocalStack

CONSTANTS t1, chat, r1, a1, m1, q1

VARIABLE focus \* the component that moves

OneChat == [m \in Tasks \cup Commands |-> chat]

\* The approvals in the chat name no request.
NoNames == [m \in Approvals |-> 0]

allVars == <<vars, inboundVars, watchVars, stackVars, focus>>

UpkeepInit ==
  /\ focus \in {"threads", "inbound", "watch", "stack"}
  /\ Init /\ InboundInit /\ WatchInit /\ StackInit
  /\ focus # "threads" => session.leader.state = "busy" /\ session.leader.text = "quiet"
  /\ focus # "watch" => ~agent
  /\ focus # "stack" => guard = "none" /\ routes

UpkeepNext ==
  /\ UNCHANGED focus
  /\ \/ focus = "threads" /\ Next /\ UNCHANGED <<inboundVars, watchVars, stackVars>>
     \/ focus = "inbound" /\ InboundNext /\ UNCHANGED <<vars, watchVars, stackVars>>
     \/ focus = "watch" /\ WatchNext /\ UNCHANGED <<vars, inboundVars, stackVars>>
     \/ focus = "stack" /\ StackNext /\ UNCHANGED <<vars, inboundVars, watchVars>>

\* Fairness, WatchFairness and StackFairness, each for the
\* behaviours in which its component moves.
UpkeepFairness ==
  /\ \A t \in Threads : /\ WF_vars(focus = "threads" /\ ThreadStep(t))
                        /\ SF_vars(focus = "threads" /\ DeadlinePasses(t))
  /\ WF_watchVars(focus = "watch" /\ WatchStep)
  /\ WF_watchVars(focus = "watch" /\ WatchTick)
  /\ WF_watchVars(focus = "watch" /\ ScriptEnds("own"))
  /\ SF_stackVars(focus = "stack" /\ Supervise)
  /\ WF_stackVars(focus = "stack" /\ ApiComesUp)
  /\ WF_stackVars(focus = "stack" /\ BridgeComesUp)
  /\ WF_stackVars(focus = "stack" /\ BridgeBeats)
  /\ WF_stackVars(focus = "stack" /\ BridgeAges)
  /\ WF_stackVars(focus = "stack" /\ Recycle)
  /\ WF_stackVars(focus = "stack" /\ GuardComesUp)
  /\ WF_stackVars(focus = "stack" /\ RoutesRepaired)

UpkeepSpec == UpkeepInit /\ [][UpkeepNext]_allVars /\ UpkeepFairness

\* What the watchdog and the supervisor remember: SessionWatch!WatchInv says that an
\* attempt is forgotten only by a crash, LocalStack!StackInv that the streak counts
\* failures in a row.
UpkeepInv == WatchInv /\ StackInv

\* LocalStack!StackRecovers, for the behaviours in which the stack moves.
StackRecoversInFocus == focus = "stack" => StackRecovers
=============================================================================
