----------------------- MODULE ApprovalWrapperProofs -----------------------
(***************************************************************************)
(* Proofs about the wrapper and the gateway together.  The gateway's       *)
(* invariant carries over, since every step of the system is a step of the *)
(* gateway or leaves it alone; Frame says that what the wrapper has read   *)
(* of a row remains safe to act on.                                        *)
(***************************************************************************)
EXTENDS ApprovalWrapper, ApprovalGatewayProofs

\* Every step of the system is one the gateway could take, or none of its own.
LEMMA SystemStepIsGatewayStep ==
  SystemNext \/ UNCHANGED allVars => [Next]_vars
<1> SUFFICES ASSUME SystemNext \/ UNCHANGED allVars PROVE [Next]_vars
  OBVIOUS
<1>1. CASE UNCHANGED allVars
  BY <1>1 DEF allVars
<1>2. CASE \E w \in Workers, r \in Requests : CreateApproval(w, r)
  BY <1>2 DEF CreateApproval, Next, Begin
<1>3. CASE \E w \in Workers : ReceiveAnswer(w)
  BY <1>3 DEF ReceiveAnswer, Next, Continue
<1>4. CASE \/ DetectPrompt \/ PostFails \/ PollAgain \/ PollAnswered \/ PollFails
           \/ PollTimesOut \/ ConnectionDrops \/ PressInTerminal
  BY <1>4 DEF DetectPrompt, PostFails, PollAgain, PollAnswered, PollFails,
              PollTimesOut, ConnectionDrops, PressInTerminal, gateway
<1>5. CASE GatewayStep
  BY <1>5 DEF GatewayStep, Next, Begin
<1> QED
  BY <1>1, <1>2, <1>3, <1>4, <1>5 DEF SystemNext, WrapperStep

\* No answer to a POST says APPROVED: only the handlers that decide a request
\* do, and they never turn into one that creates it.
LEMMA CreatorStep ==
  ASSUME IInv, NEW w \in Workers, CreatorOK(proc[w]), Continue(w)
  PROVE  /\ CreatorOK(proc'[w])
         /\ \A v \in Workers : v # w => proc'[v] = proc[v]
<1>1. proc \in [Workers -> Handler] /\ proc[w] \in Handler
  BY DEF IInv, TypeOK
<1> USE DEF CreatorOK, Creating, At
<1>2. CASE \/ RecordBlock(w) \/ AuditCreated(w) \/ Notify(w) \/ RecordVote(w)
           \/ CountVotes(w) \/ AuditOutcome(w)
  BY <1>1, <1>2 DEF RecordBlock, AuditCreated, Notify, RecordVote, CountVotes,
                    AuditOutcome, Goto, Handler
<1>3. CASE ReadUndelivered(w)
  <2>1. CASE Goto(w, "discard")
    BY <1>1, <1>3, <2>1 DEF ReadUndelivered, Goto, Handler
  <2>2. CASE ~Open(db[proc[w].req])
    BY <1>1, <1>3, <2>2 DEF ReadUndelivered, Idle
  <2> QED BY <1>3, <2>1, <2>2 DEF ReadUndelivered
<1>4. CASE \/ RejectUndelivered(w) \/ ExpireOverdue(w) \/ AwaitSecond(w)
           \/ Finalize(w)
  <2>1. \E outcome \in {"REJECTED", "EXPIRED", "WAIT", "APPROVED"}, key \in Keys \cup {Null} :
          /\ Decided(w, outcome, key)
          /\ outcome = "APPROVED" => proc[w].via # "create"
    BY <1>4 DEF RejectUndelivered, ExpireOverdue, AwaitSecond, Finalize, Keys
  <2> QED BY <1>1, <2>1 DEF Decided, Idle
<1>5. CASE Reply(w) \/ RefuseReplay(w)
  BY <1>1, <1>5 DEF Reply, RefuseReplay, Done, Idle
<1>6. CASE CheckCallback(w)
  BY <1>1, <1>6 DEF CheckCallback, AfterChecks, Goto, Done, Idle, Handler
<1>7. CASE Reread(w)
  BY <1>1, <1>7 DEF Reread, Handler
<1>8. CASE ApplyKey(w)
  BY <1>1, <1>8 DEF ApplyKey, Goto, Done, Idle, Handler
<1> QED
  BY <1>2, <1>3, <1>4, <1>5, <1>6, <1>7, <1>8 DEF Continue

LEMMA CreatorBegins ==
  ASSUME IInv, NEW w \in Workers, NEW r \in Requests, Begin(w, r)
  PROVE  /\ CreatorOK(proc'[w])
         /\ \A v \in Workers : v # w => proc'[v] = proc[v]
<1>1. proc \in [Workers -> Handler]
  BY DEF IInv, TypeOK
<1> USE DEF CreatorOK, Creating
<1>2. CASE Insert(w, r)
  BY <1>1, <1>2 DEF Insert, Idle
<1>3. CASE AnswerFinalized(w, r)
  BY <1>1, <1>3, ConstantsAssumption DEF AnswerFinalized, Idle
<1>4. CASE FindOverdue(w, r)
  BY <1>1, <1>4, ConstantsAssumption DEF FindOverdue, Idle
<1>5. CASE BeginCallback(w, r)
  BY <1>1, <1>5 DEF BeginCallback, Call, Idle
<1>6. CASE BeginUnsigned(w, r)
  BY <1>1, <1>6, ConstantsAssumption DEF BeginUnsigned, Call, AfterChecks, Idle
<1> QED
  BY <1>2, <1>3, <1>4, <1>5, <1>6 DEF Begin

LEMMA CreatorsKept ==
  ASSUME IInv, \A w \in Workers : CreatorOK(proc[w]), [Next]_vars
  PROVE  \A w \in Workers : CreatorOK(proc'[w])
<1>1. CASE \E w \in Workers : Continue(w) \/ \E r \in Requests : Begin(w, r)
  BY <1>1, CreatorStep, CreatorBegins
<1>2. CASE Restart
  BY <1>2 DEF Restart, CreatorOK, Creating, Idle
<1>3. CASE \/ ExpireLoop \/ Tick \/ UNCHANGED vars
           \/ \E r \in Requests : Register(r) \/ Unregister(r)
  <2>1. proc' = proc
    BY <1>3 DEF ExpireLoop, ExpireDue, AuditExpired, ReadExpired, ApplyExpired,
                Tick, vars, Register, Unregister
  <2> QED BY <2>1
<1> QED BY <1>1, <1>2, <1>3 DEF Next

LEMMA SystemInitInv == SystemInit => SystemInv
<1> SUFFICES ASSUME SystemInit PROVE SystemInv
  OBVIOUS
<1>1. IInv
  BY InitIInv DEF SystemInit
<1>2. SystemTypeOK
  BY <1>1 DEF SystemInit, SystemTypeOK, IInv, Prompt, Relaying, Keys
<1>3. PromptOK
  BY ConstantsAssumption DEF SystemInit, PromptOK, Relaying
<1>4. ScreenOK
  BY ConstantsAssumption DEF SystemInit, ScreenOK
<1>5. \A w \in Workers : CreatorOK(proc[w])
  BY DEF SystemInit, Init, Idle, CreatorOK, Creating
<1> QED BY <1>1, <1>2, <1>3, <1>4, <1>5 DEF SystemInv

\* What the wrapper knows survives a step of the gateway.
LEMMA KnowledgeKept ==
  ASSUME SystemInv, IInv', Frame
  PROVE  /\ \A r \in Requests :
              db[r].status # "ABSENT" => db'[r].status # "ABSENT"
         /\ \A r \in Requests :
              db[r].status # "ABSENT" /\ Backed(r) => Backed(r)'
         /\ ScreenOK /\ PromptOK /\ SystemTypeOK
BY BackedKept DEF SystemInv, Frame

\* The wrapper presses what it chose or forgets about it; the screen stays.
LEMMA ChoiceKeepsInv ==
  ASSUME SystemInv, IInv', Frame, UNCHANGED screen, NEW key \in Keys,
         \A w \in Workers : CreatorOK(proc'[w]), Choose(key),
         \A r \in Requests : prompt.req = r /\ key = "ENTER" => Backed(r)'
  PROVE  SystemInv'
<1>1. /\ \A r \in Requests :
           db[r].status # "ABSENT" => db'[r].status # "ABSENT"
      /\ \A r \in Requests :
           db[r].status # "ABSENT" /\ Backed(r) => Backed(r)'
      /\ ScreenOK /\ PromptOK /\ SystemTypeOK
  BY KnowledgeKept
<1>2. /\ prompt' \in Prompt /\ prompt'.pc = "press"
      /\ prompt'.req = prompt.req /\ prompt'.key = key
  BY <1>1 DEF Choose, SystemTypeOK, Prompt
<1>3. PromptOK'
  BY <1>1, <1>2 DEF PromptOK
<1>4. ScreenOK'
  BY <1>1 DEF ScreenOK
<1>5. SystemTypeOK'
  BY <1>1, <1>2 DEF SystemTypeOK, IInv
<1> QED BY <1>3, <1>4, <1>5 DEF SystemInv, CreatorOK

\* The wrapper goes round its polling loop once more.
LEMMA ReturnKeepsInv ==
  ASSUME SystemInv, IInv', Frame, UNCHANGED screen,
         \A w \in Workers : CreatorOK(proc'[w]),
         NEW pc \in {"poll", "get"}, prompt' = [prompt EXCEPT !.pc = pc],
         prompt.pc \in {"poll", "get"}
  PROVE  SystemInv'
<1>1. /\ \A r \in Requests :
           db[r].status # "ABSENT" => db'[r].status # "ABSENT"
      /\ \A r \in Requests :
           db[r].status # "ABSENT" /\ Backed(r) => Backed(r)'
      /\ ScreenOK /\ PromptOK /\ SystemTypeOK
  BY KnowledgeKept
<1>2. /\ prompt' \in Prompt /\ prompt'.pc = pc
      /\ prompt'.req = prompt.req /\ prompt'.key = prompt.key
  BY <1>1 DEF SystemTypeOK, Prompt
<1>3. PromptOK'
  BY <1>1, <1>2 DEF PromptOK
<1>4. ScreenOK'
  BY <1>1 DEF ScreenOK
<1>5. SystemTypeOK'
  BY <1>1, <1>2 DEF SystemTypeOK, IInv
<1> QED BY <1>3, <1>4, <1>5 DEF SystemInv, CreatorOK

LEMMA SystemNextKeepsInv ==
  SystemInv /\ [SystemNext]_allVars => SystemInv'
<1> SUFFICES ASSUME SystemInv, [SystemNext]_allVars PROVE SystemInv'
  OBVIOUS
<1>1. /\ IInv /\ IInv' /\ Frame
      /\ \A w \in Workers : CreatorOK(proc'[w])
      /\ \A w \in Workers : CreatorOK(proc[w])
  BY SystemStepIsGatewayStep, NextKeepsIInv, CreatorsKept DEF SystemInv
<1>2. /\ \A r \in Requests :
           db[r].status # "ABSENT" => db'[r].status # "ABSENT"
      /\ \A r \in Requests :
           db[r].status # "ABSENT" /\ Backed(r) => Backed(r)'
      /\ ScreenOK /\ PromptOK /\ SystemTypeOK
  BY <1>1, KnowledgeKept
<1>3. CASE GatewayStep \/ UNCHANGED allVars
  <2>1. UNCHANGED <<prompt, screen>>
    BY <1>3 DEF GatewayStep, wrapper, allVars
  <2>2. PromptOK'
    BY <1>2, <2>1 DEF PromptOK
  <2>3. ScreenOK'
    BY <1>2, <2>1 DEF ScreenOK
  <2>4. SystemTypeOK'
    BY <1>1, <1>2, <2>1 DEF SystemTypeOK, IInv
  <2> QED BY <1>1, <2>2, <2>3, <2>4 DEF SystemInv, CreatorOK
<1>4. CASE DetectPrompt
  <2>1. /\ prompt' \in Prompt /\ prompt'.req = Null
        /\ prompt'.pc \in {"create", "press"}
        /\ prompt'.pc = "create" => prompt'.key = "ESC"
        /\ UNCHANGED screen
    <3>1. CASE prompt' = [Relaying EXCEPT !.pc = "create"]
      BY <1>4, <3>1 DEF DetectPrompt, Prompt, Relaying, Keys
    <3>2. CASE /\ FallbackAction \in {"ENTER", "ESC"}
               /\ prompt' = [Relaying EXCEPT !.pc = "press", !.key = FallbackAction]
      BY <1>4, <3>2 DEF DetectPrompt, Prompt, Relaying, Keys
    <3> QED BY <1>4, <3>1, <3>2 DEF DetectPrompt
  <2>2. PromptOK'
    BY <2>1, ConstantsAssumption DEF PromptOK
  <2>3. ScreenOK'
    BY <1>2, <2>1 DEF ScreenOK
  <2>4. SystemTypeOK'
    BY <1>1, <1>2, <2>1 DEF SystemTypeOK, IInv
  <2> QED BY <1>1, <2>2, <2>3, <2>4 DEF SystemInv, CreatorOK
<1>5. ASSUME NEW w \in Workers, NEW r \in Requests, CreateApproval(w, r)
      PROVE  SystemInv'
  <2>1. /\ prompt.pc = "create" /\ UNCHANGED screen
        /\ prompt' = [prompt EXCEPT !.pc = "posted", !.req = r]
        /\ Insert(w, r)
    BY <1>5 DEF CreateApproval
  <2>2. /\ prompt' \in Prompt /\ prompt'.req = r /\ prompt'.key = "ESC"
        /\ prompt'.pc = "posted"
    BY <1>2, <2>1 DEF SystemTypeOK, PromptOK, Prompt
  <2>3. db'[r].status # "ABSENT"
    BY <1>1, <2>1 DEF Insert, IInv, TypeOK
  <2>4. SystemTypeOK'
    BY <1>1, <1>2, <2>1, <2>2 DEF SystemTypeOK, IInv
  <2>5. ScreenOK'
    BY <1>2, <2>1 DEF ScreenOK
  <2> QED BY <1>1, <2>2, <2>3, <2>4, <2>5 DEF SystemInv, PromptOK, CreatorOK
<1>6. ASSUME NEW w \in Workers, ReceiveAnswer(w)
      PROVE  SystemInv'
  <2>1. prompt.pc = "posted" /\ UNCHANGED screen /\ prompt.req \in Requests
    BY <1>2, <1>6 DEF ReceiveAnswer, PromptOK
  <2>2. CASE proc[w].outcome = "PENDING"
    <3>1. prompt' = [prompt EXCEPT !.pc = "poll", !.deadline = now + PollTimeout]
      BY <1>6, <2>2 DEF ReceiveAnswer
    <3>2. now + PollTimeout \in Nat
      BY <1>1, WrapperAssumption DEF IInv, TypeOK
    <3>3. /\ prompt' \in Prompt /\ prompt'.req = prompt.req
          /\ prompt'.key = "ESC" /\ prompt'.pc = "poll"
      BY <1>2, <2>1, <3>1, <3>2 DEF SystemTypeOK, PromptOK, Prompt
    <3>4. PromptOK'
      BY <1>2, <2>1, <3>3 DEF PromptOK
    <3>5. SystemTypeOK' /\ ScreenOK'
      BY <1>1, <1>2, <2>1, <3>3 DEF SystemTypeOK, ScreenOK, IInv
    <3> QED BY <1>1, <3>4, <3>5 DEF SystemInv, CreatorOK
  <2>3. CASE proc[w].outcome # "PENDING"
    <3>1. proc[w].outcome # "APPROVED"
      BY <1>1, <1>6 DEF ReceiveAnswer, Reply, At, CreatorOK, Creating
    <3>2. Choose("ESC")
      BY <1>6, <2>3, <3>1 DEF ReceiveAnswer
    <3> QED
      BY <1>1, <2>1, <3>2, ChoiceKeepsInv DEF Keys
  <2> QED BY <2>2, <2>3
<1>7. CASE PostFails \/ PollFails \/ PollTimesOut
  <2>1. Choose("ESC") /\ UNCHANGED screen
    BY <1>7 DEF PostFails, PollFails, PollTimesOut
  <2> QED
    BY <1>1, <2>1, ChoiceKeepsInv DEF Keys
<1>8. CASE PollAnswered
  <2>1. /\ prompt.pc = "get" /\ UNCHANGED <<db, grants, screen>>
        /\ prompt.req \in Requests
    BY <1>2, <1>8 DEF PollAnswered, PromptOK, gateway, vars
  <2>2. CASE Open(db[prompt.req])
    BY <1>1, <1>2, <1>8, <2>1, <2>2, ReturnKeepsInv DEF PollAnswered
  <2>3. CASE ~Open(db[prompt.req])
    <3>1. Choose(AnswerOf(db[prompt.req]))
      BY <1>8, <2>3 DEF PollAnswered
    <3>2. PICK r \in Requests : prompt.req = r
      BY <2>1
    <3>3. AnswerOf(db[r]) \in Keys
      BY DEF AnswerOf, KeyFor, Keys
    <3>4. AnswerOf(db[r]) = "ENTER" => Backed(r)
      BY <1>1 DEF IInv, RowOK, AnswerOf, KeyFor
    <3>5. db[r].status # "ABSENT"
      BY <1>2, <3>2 DEF PromptOK
    <3>6. AnswerOf(db[r]) = "ENTER" => Backed(r)'
      BY <1>2, <3>4, <3>5
    <3>7. Choose(AnswerOf(db[r]))
      BY <3>1, <3>2
    <3> HIDE DEF AnswerOf, Choose
    <3>8. \A q \in Requests :
            prompt.req = q /\ AnswerOf(db[r]) = "ENTER" => Backed(q)'
      BY <3>2, <3>6
    <3> QED
      BY <1>1, <2>1, <3>3, <3>7, <3>8, ChoiceKeepsInv
  <2> QED BY <2>2, <2>3
<1>10. CASE PollAgain
  <2>1. prompt.pc = "poll" /\ UNCHANGED screen
    BY <1>10 DEF PollAgain
  <2> QED
    BY <1>1, <1>2, <1>10, <2>1, ReturnKeepsInv DEF PollAgain
<1>11. CASE ConnectionDrops
  <2>1. prompt' = [Relaying EXCEPT !.pc = "gone"] /\ UNCHANGED screen
    BY <1>11 DEF ConnectionDrops
  <2>2. prompt' \in Prompt /\ PromptOK'
    BY <2>1, ConstantsAssumption DEF Prompt, PromptOK, Relaying, Keys
  <2>3. SystemTypeOK' /\ ScreenOK'
    BY <1>1, <1>2, <2>1, <2>2 DEF SystemTypeOK, ScreenOK, IInv
  <2> QED BY <1>1, <2>2, <2>3 DEF SystemInv, CreatorOK
<1>9. CASE PressInTerminal
  <2>1. /\ prompt' = Relaying /\ UNCHANGED <<db, grants>>
        /\ screen' = IF prompt.req = Null THEN screen
                     ELSE [screen EXCEPT ![prompt.req] = prompt.key]
    BY <1>9 DEF PressInTerminal, gateway, vars
  <2>2. prompt' \in Prompt /\ PromptOK'
    BY <2>1, ConstantsAssumption DEF Prompt, PromptOK, Relaying, Keys
  <2>3. /\ screen' \in [Requests -> Keys \cup {Null}]
        /\ \A r \in Requests :
             screen'[r] = screen[r] \/ (prompt.req = r /\ screen'[r] = prompt.key)
    BY <1>2, <2>1 DEF SystemTypeOK, Prompt
  <2>4. ScreenOK'
    BY <1>2, <2>3 DEF ScreenOK, PromptOK
  <2>5. SystemTypeOK'
    BY <1>1, <2>2, <2>3 DEF SystemTypeOK, IInv
  <2> QED BY <1>1, <2>2, <2>4, <2>5 DEF SystemInv, CreatorOK
<1> QED
  BY <1>3, <1>4, <1>5, <1>6, <1>7, <1>8, <1>9, <1>10, <1>11
     DEF SystemNext, WrapperStep

\* The gateway's invariant, and what the wrapper holds of its request, hold in
\* every behaviour of wrapper, gateway and chat together.
THEOREM SystemInvariant == SystemSpec => []SystemInv
BY SystemInitInv, SystemNextKeepsInv, PTL DEF SystemSpec

\* The wrapper never presses ENTER for a request without the approvals it
\* needs, however handlers, sweeps, restarts, timeouts and lost connections
\* interleave.
THEOREM ScreenNeverUnbacked == SystemSpec => []ScreenAuthority
<1>1. SystemInv => ScreenAuthority
  BY DEF SystemInv, ScreenOK, ScreenAuthority
<1> QED BY <1>1, SystemInvariant, PTL
-----------------------------------------------------------------------------
(***************************************************************************)
(* Where handlers run one at a time: what the wrapper and its terminal     *)
(* hold is what the gateway has decided for good.                          *)
(***************************************************************************)

\* What the system shows of the gateway's own behaviour is a behaviour of the gateway.
LEMMA SystemIsGateway == SystemSpec => Spec
<1>1. SystemInit => Init
  BY DEF SystemInit
<1> QED BY <1>1, SystemStepIsGatewayStep, PTL DEF SystemSpec, Spec

\* The wrapper, its terminal, the handlers and the sweeps together implement the contract.
THEOREM SystemImplementsContract == Serialized => (SystemSpec => KeepsContract)
BY SystemIsGateway, ImplementsContract

\* An ENTER the wrapper has chosen or pressed rests on a row that is approved: with SerialInv,
\* what makes EnterMeansApproved inductive.
ApprovedKeys ==
  /\ prompt.req \in Requests /\ prompt.key = "ENTER" => db[prompt.req].status = "APPROVED"
  /\ EnterMeansApproved

LEMMA SystemNextKeepsApprovedKeys ==
  ASSUME Serialized, SystemInv, SerialInv, ApprovedKeys, [SystemNext]_allVars
  PROVE  ApprovedKeys'
<1>1. \A r \in Requests : db[r].status = "APPROVED" => db'[r].status = "APPROVED"
  BY SystemStepIsGatewayStep, NextKeepsSerial DEF SystemInv, Bound, Final
<1>2. SystemTypeOK /\ PromptOK /\ \A w \in Workers : CreatorOK(proc[w])
  BY DEF SystemInv
\* It is enough to know where the keys come from.
<1>3. /\ \A r \in Requests :
           prompt'.req = r /\ prompt'.key = "ENTER" =>
             \/ prompt.req = r /\ prompt.key = "ENTER"
             \/ db[r].status = "APPROVED"
      /\ \A r \in Requests :
           screen'[r] = "ENTER" =>
             \/ screen[r] = "ENTER"
             \/ prompt.req = r /\ prompt.key = "ENTER"
  <2>1. CASE GatewayStep \/ UNCHANGED allVars
    BY <2>1 DEF GatewayStep, wrapper, allVars
  <2>2. CASE DetectPrompt
    <3>1. prompt'.req = Null /\ screen' = screen
      BY <2>2 DEF DetectPrompt, Relaying
    <3> QED BY <3>1, ConstantsAssumption
  <2>3. ASSUME NEW w \in Workers, NEW r \in Requests, CreateApproval(w, r)
        PROVE  prompt'.key = "ESC" /\ screen' = screen
    BY <1>2, <2>3 DEF CreateApproval, SystemTypeOK, PromptOK, Prompt
  <2>4. ASSUME NEW w \in Workers, ReceiveAnswer(w)
        PROVE  prompt'.key = "ESC" /\ screen' = screen
    <3>1. prompt.key = "ESC" /\ prompt \in Prompt
      BY <1>2, <2>4 DEF ReceiveAnswer, PromptOK, SystemTypeOK
    <3>2. proc[w].outcome # "APPROVED"
      BY <1>2, <2>4 DEF ReceiveAnswer, Reply, At, CreatorOK, Creating
    <3> QED BY <2>4, <3>1, <3>2 DEF ReceiveAnswer, Choose, Prompt
  <2>5. CASE PostFails \/ PollFails \/ PollTimesOut
    <3>1. Choose("ESC") /\ screen' = screen
      BY <2>5 DEF PostFails, PollFails, PollTimesOut
    <3> QED BY <1>2, <3>1 DEF Choose, SystemTypeOK, Prompt
  <2>6. CASE PollAgain \/ ConnectionDrops
    BY <1>2, <2>6 DEF PollAgain, ConnectionDrops, Relaying, SystemTypeOK, Prompt
  <2>7. CASE PollAnswered
    <3>1. PICK r \in Requests : prompt.req = r
      BY <1>2, <2>7 DEF PollAnswered, PromptOK
    <3>2. AnswerOf(db[r]) = "ENTER" => db[r].status = "APPROVED"
      BY DEF AnswerOf, KeyFor, SerialInv, Agrees
    <3>3. screen' = screen /\ (prompt' = [prompt EXCEPT !.pc = "poll"] \/ Choose(AnswerOf(db[r])))
      BY <2>7, <3>1 DEF PollAnswered
    <3> HIDE DEF AnswerOf
    <3> QED BY <1>2, <3>1, <3>2, <3>3 DEF Choose, SystemTypeOK, Prompt
  <2>8. CASE PressInTerminal
    <3>1. prompt'.key = "ESC"
      BY <2>8 DEF PressInTerminal, Relaying
    <3>2. screen' = IF prompt.req = Null THEN screen
                    ELSE [screen EXCEPT ![prompt.req] = prompt.key]
      BY <2>8 DEF PressInTerminal
    <3> QED BY <1>2, <3>1, <3>2 DEF SystemTypeOK
  <2> QED BY <2>1, <2>2, <2>3, <2>4, <2>5, <2>6, <2>7, <2>8 DEF SystemNext, WrapperStep
<1> QED BY <1>1, <1>3 DEF ApprovedKeys, EnterMeansApproved

\* Where handlers run one at a time, an ENTER in the terminal means that the gateway has
\* approved the request and stays so, whatever the wrapper lost, retried or gave up on.
THEOREM EnterIsApproval == Serialized => (SystemSpec => []EnterMeansApproved)
<1> SUFFICES ASSUME Serialized PROVE SystemSpec => []EnterMeansApproved
  OBVIOUS
<1>1. SystemInit => ApprovedKeys
  BY ConstantsAssumption DEF SystemInit, ApprovedKeys, EnterMeansApproved, Relaying
<1>2. SystemInv /\ SerialInv /\ ApprovedKeys /\ [SystemNext]_allVars => ApprovedKeys'
  BY SystemNextKeepsApprovedKeys
<1>3. ApprovedKeys => EnterMeansApproved
  BY DEF ApprovedKeys
<1>4. SystemSpec => []SerialInv
  BY SystemIsGateway, SerialHandlersAgree
<1> QED BY <1>1, <1>2, <1>3, <1>4, SystemInvariant, PTL DEF SystemSpec
=============================================================================
