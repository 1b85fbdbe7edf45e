--------------------------- MODULE ApprovalWrapper ---------------------------
(***************************************************************************)
(* The terminal wrapper against the approval gateway.                      *)
(*                                                                         *)
(* The wrapper relays an agent's terminal.  When the agent asks for a      *)
(* permission, the wrapper creates an approval, polls its row until it is  *)
(* no longer pending or its own timeout has passed, and presses one key.   *)
(* While it does so it relays nothing, so it works on one prompt at a      *)
(* time.  Other programs go on creating requests at the same gateway.      *)
(*                                                                         *)
(* HTTP is where the two meet: the wrapper sees a row only through the     *)
(* answer to its POST and through its GETs, and either may fail.           *)
(***************************************************************************)
EXTENDS ApprovalGateway

CONSTANTS
  PollTimeout,     \* timeout_seconds of the wrapper, in ticks
  FallbackAction   \* FQG_UNPARSED_COMMAND_FALLBACK_ACTION

ASSUME WrapperAssumption ==
  /\ PollTimeout \in Nat
  /\ FallbackAction \in {"APPROVAL", "ENTER", "ESC"}

VARIABLES
  prompt,   \* the prompt the wrapper is busy with
  screen    \* history: the key the wrapper pressed for each of its requests

wrapper == <<prompt, screen>>
gateway == vars
allVars == <<vars, prompt, screen>>

Prompt == [pc: {"relay", "create", "posted", "poll", "get", "press", "gone"},
           req: Requests \cup {Null}, deadline: Nat, key: Keys]

Relaying == [pc |-> "relay", req |-> Null, deadline |-> 0, key |-> "ESC"]

\* Any answer but ENTER ends in ESC.
KeyFor(action) == IF action = "ENTER" THEN "ENTER" ELSE "ESC"

\* Fault: everything that is not a rejection counts as an approval.
AnswerUnlessRejected(row) == IF row.status = "REJECTED" THEN "ESC" ELSE "ENTER"

\* Fault: a row that names its approver counts as approved.
AnswerByApprover(row) == IF row.approver # Null THEN "ENTER" ELSE "ESC"

\* What the wrapper makes of a row that is no longer pending.
AnswerOf(row) == KeyFor(row.action)

\* The wrapper has made up its mind.
Choose(key) == prompt' = [prompt EXCEPT !.pc = "press", !.key = key]
-----------------------------------------------------------------------------
\* A prompt shows up.  If its command cannot be parsed the configured fallback
\* may answer without any approval.
DetectPrompt ==
  /\ prompt.pc = "relay"
  /\ \/ prompt' = [Relaying EXCEPT !.pc = "create"]
     \/ /\ FallbackAction \in {"ENTER", "ESC"}
        /\ prompt' = [Relaying EXCEPT !.pc = "press", !.key = FallbackAction]
  /\ UNCHANGED <<gateway, screen>>

\* The gateway takes up the POST of the wrapper.
CreateApproval(w, r) ==
  /\ prompt.pc = "create"
  /\ Insert(w, r) /\ db'[r].wrapped
  /\ prompt' = [prompt EXCEPT !.pc = "posted", !.req = r]
  /\ UNCHANGED screen

\* The gateway answers the POST: a pending request is polled, any other answer
\* decides at once.
ReceiveAnswer(w) ==
  /\ prompt.pc = "posted" /\ proc[w].req = prompt.req
  /\ Reply(w)
  /\ IF proc[w].outcome = "PENDING"
     THEN prompt' = [prompt EXCEPT !.pc = "poll", !.deadline = now + PollTimeout]
     ELSE Choose(IF proc[w].outcome = "APPROVED" THEN "ENTER" ELSE "ESC")
  /\ UNCHANGED screen

\* Fault: once sent, the POST is waited for without a timeout.
PostFailsUnsent ==
  /\ prompt.pc = "create"
  /\ Choose("ESC")
  /\ UNCHANGED <<gateway, screen>>

\* The POST is refused, times out or is answered with rubbish.
PostFails ==
  /\ prompt.pc \in {"create", "posted"}
  /\ Choose("ESC")
  /\ UNCHANGED <<gateway, screen>>

\* Before its deadline the wrapper sends another GET.
PollAgain ==
  /\ prompt.pc = "poll" /\ now < prompt.deadline
  /\ prompt' = [prompt EXCEPT !.pc = "get"]
  /\ UNCHANGED <<gateway, screen>>

\* The GET is answered, perhaps after the deadline, with the row as it is then.
PollAnswered ==
  /\ prompt.pc = "get"
  /\ IF Open(db[prompt.req])
     THEN prompt' = [prompt EXCEPT !.pc = "poll"]
     ELSE Choose(AnswerOf(db[prompt.req]))
  /\ UNCHANGED <<gateway, screen>>

\* A GET that fails ends the polling at once.
PollFails ==
  /\ prompt.pc = "get"
  /\ Choose("ESC")
  /\ UNCHANGED <<gateway, screen>>

\* The wrapper gives up without telling the gateway.
PollTimesOut ==
  /\ prompt.pc = "poll" /\ now >= prompt.deadline
  /\ Choose("ESC")
  /\ UNCHANGED <<gateway, screen>>

\* A connection the gateway drops before it answers raises an error that is
\* not among those caught: the wrapper ends, and its terminal with it.
ConnectionDrops ==
  /\ prompt.pc \in {"posted", "get"}
  /\ prompt' = [Relaying EXCEPT !.pc = "gone"]
  /\ UNCHANGED <<gateway, screen>>

PressInTerminal ==
  /\ prompt.pc = "press"
  /\ screen' = IF prompt.req = Null THEN screen
               ELSE [screen EXCEPT ![prompt.req] = prompt.key]
  /\ prompt' = Relaying
  /\ UNCHANGED gateway

\* The gateway goes on by itself, creating only requests of other programs and
\* answering no POST the wrapper is still waiting for.
GatewayStep ==
  /\ \/ \E w \in Workers, r \in Requests :
          \/ Insert(w, r) /\ ~db'[r].wrapped
          \/ AnswerFinalized(w, r) \/ FindOverdue(w, r)
          \/ BeginCallback(w, r) \/ BeginUnsigned(w, r)
     \/ \E w \in Workers :
          /\ Continue(w)
          /\ ~(prompt.pc = "posted" /\ proc[w].req = prompt.req /\ At(w, "reply"))
     \/ ExpireLoop
     \/ \E r \in Requests : Register(r) \/ Unregister(r)
     \/ Tick
     \/ Restart
  /\ UNCHANGED wrapper

SystemInit ==
  /\ Init
  /\ prompt = Relaying
  /\ screen = [r \in Requests |-> Null]

WrapperStep ==
  \/ \E w \in Workers, r \in Requests : CreateApproval(w, r)
  \/ \E w \in Workers : ReceiveAnswer(w)
  \/ PostFails
  \/ PollAgain
  \/ PollAnswered
  \/ PollFails
  \/ PollTimesOut
  \/ ConnectionDrops
  \/ PressInTerminal

SystemNext == DetectPrompt \/ WrapperStep \/ GatewayStep

\* The POST has a timeout, so it is answered or fails; the polling goes on
\* until it finds the row decided or its deadline has passed; the gateway is as
\* fair as it is by itself.  No GET has to fail and no connection to drop.
SystemFairness ==
  /\ WF_allVars(PostFails)
  /\ WF_allVars(PollAgain \/ PollAnswered \/ PollTimesOut)
  /\ WF_allVars(PressInTerminal)
  /\ Fairness

SystemSpec == SystemInit /\ [][SystemNext]_allVars
FairSystemSpec == SystemSpec /\ SystemFairness
-----------------------------------------------------------------------------
(***************************************************************************)
(* Properties.                                                             *)
(***************************************************************************)
SystemTypeOK ==
  /\ TypeOK
  /\ prompt \in Prompt
  /\ screen \in [Requests -> Keys \cup {Null}]

\* The wrapper presses ENTER for a request only with the approvals the request
\* needs behind it, whatever it read, lost or gave up on meanwhile
\* (wrapper.py:618-666).
ScreenAuthority ==
  \A r \in Requests : screen[r] = "ENTER" => Backed(r)

\* A prompt about to be answered with ENTER is backed, the request it is about
\* exists: what makes ScreenAuthority inductive.
PromptOK ==
  /\ prompt.pc \in {"posted", "poll", "get"} => prompt.req \in Requests
  /\ prompt.pc # "press" => prompt.key = "ESC"
  /\ prompt.req \in Requests => db[prompt.req].status # "ABSENT"
  /\ prompt.req \in Requests /\ prompt.key = "ENTER" => Backed(prompt.req)

ScreenOK ==
  \A r \in Requests :
    screen[r] = "ENTER" => db[r].status # "ABSENT" /\ Backed(r)

\* A handler here is creating a request.
Creating == {"block", "created", "notify", "undelivered", "discard", "reply"}

\* The handler that creates a request never answers that it is approved, so
\* the wrapper never presses ENTER on the strength of its POST.
CreatorOK(h) ==
  /\ h.pc \in {"nonce", "vote", "count", "finalize"} => h.via # "create"
  /\ h.pc \in Creating => h.via = "create"
  /\ h.via = "create" => h.outcome # "APPROVED"

SystemInv ==
  /\ IInv /\ SystemTypeOK /\ PromptOK /\ ScreenOK
  /\ \A w \in Workers : CreatorOK(proc[w])

\* Where handlers run one at a time, ENTER in the terminal agrees with the
\* gateway for good.  An ESC says nothing of the kind: the wrapper may have
\* given up before the approval came.
EnterMeansApproved ==
  \A r \in Requests : screen[r] = "ENTER" => db[r].status = "APPROVED"

\* A prompt never hangs: the agent gets its key, or loses its wrapper, even if
\* the gateway loses the request, restarts or never decides
\* (wrapper.py:446-459, 662-667).
PromptAnswered ==
  prompt.pc \notin {"relay", "gone"} ~> prompt.pc \in {"relay", "gone"}
=============================================================================
