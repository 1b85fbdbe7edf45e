------------------------ MODULE GuardedSessionProofs ------------------------
(***************************************************************************)
(* Proofs about GuardedSession, for any number of calls of the script, any *)
(* mixture of warmups and timeouts, and any length of the log.             *)
(***************************************************************************)
EXTENDS GuardedSession, TLAPS

(***************************************************************************)
(* How a call delivers its text is known where it stands, and once it      *)
(* waits, it has handed it in.                                             *)
(***************************************************************************)
Waiting == {"wait", "commit", "boot", "retype", "reenter", "lastenter", "wait2", "pane"}

\* In a session that was there, or in one it started.
InOld == {"type", "enter", "kill", "commit"}
InNew == {"start", "warmtype", "warmenter", "marker", "sendtype", "sendenter", "boot",
          "retype", "reenter", "lastenter"}

HowOK(s) ==
  /\ s.pc \in {"idle", "probe"} => s.how = "none"
  /\ s.pc \in InOld => s.how = "keys"
  /\ s.pc \in InNew => s.how \in {"new", "restart"}
  /\ s.pc \in {"wait", "wait2", "pane"} => s.how # "none"

\* HandedAtMost and the like of a record.
Limit(s) ==
  CASE s.how = "none" -> 0
    [] s.how = "keys" -> IF s.pc = "type" THEN 0 ELSE 1
    [] OTHER ->
         (IF s.how = "restart" THEN 1 ELSE 0)
         + (IF s.pc \in {"start", "warmtype", "warmenter", "marker", "sendtype"}
            THEN 0 ELSE 1)
         + (IF s.pc \in {"reenter", "lastenter", "wait2", "pane", "over"}
            THEN 1 ELSE 0)

\* A call that waits, or has waited long enough to report the text as queued, has
\* handed it in.
HandedOK(s, n) ==
  /\ s.pc \in Waiting \cup {"enter", "sendenter"} => n > 0
  /\ s.result = "queued" /\ ~FailClose => n > 0

CallOK(s, n) ==
  /\ HowOK(s)
  /\ HandedOK(s, n)
  /\ n <= Limit(s)
  /\ s.before <= log

\* The session: without it nothing is typed, and what it was started with is run when
\* it is ready.
TerminalOK ==
  /\ ~Alive => arg = Null /\ line = {} /\ ~busy
  /\ tmux = "ready" => arg = Null

TextOK(c) == runs[c] + Unrun(c) <= handed[c]

DeliveryInv ==
  /\ TypeOK
  /\ TerminalOK
  /\ \A c \in Calls : CallOK(call[c], handed[c]) /\ TextOK(c)

LEMMA LimitIsHandedAtMost ==
  ASSUME NEW c \in Calls
  PROVE  HandedAtMost(c) = Limit(call[c])
BY DEF HandedAtMost, Limit

LEMMA DeliveryImpliesSession == DeliveryInv => SessionInv
BY LimitIsHandedAtMost DEF DeliveryInv, SessionInv, TerminalOK, CallOK, TextOK

LEMMA NoCallFacts ==
  /\ NoCall \in Call
  /\ HowOK(NoCall) /\ HandedOK(NoCall, 0) /\ Limit(NoCall) = 0
BY DEF NoCall, Call, Labels, Results, HowOK, HandedOK, Limit, InOld, InNew, Waiting

LEMMA InitDelivery == Init => DeliveryInv
<1> SUFFICES ASSUME Init PROVE DeliveryInv
  OBVIOUS
<1>1. TypeOK
  <2>1. tmux \in {"none", "boot", "ready"} /\ 0 \in 0 .. MaxLog
    BY SessionAssumption DEF Init
  <2>2. busy \in BOOLEAN
    BY Zenon DEF Init
  <2>3. call \in [Calls -> Call] /\ handed \in [Calls -> Nat] /\ runs \in [Calls -> Nat]
    BY NoCallFacts DEF Init
  <2> QED BY <2>1, <2>2, <2>3 DEF Init, TypeOK
<1>2. TerminalOK
  BY DEF Init, TerminalOK, Alive
<1>3. ASSUME NEW c \in Calls PROVE CallOK(call[c], handed[c]) /\ TextOK(c)
  <2>1. CallOK(call[c], handed[c])
    BY NoCallFacts DEF Init, CallOK, NoCall
  <2>2. TextOK(c)
    BY SessionAssumption DEF Init, TextOK, Unrun
  <2> QED BY <2>1, <2>2
<1> QED BY <1>1, <1>2, <1>3 DEF DeliveryInv
-----------------------------------------------------------------------------
(***************************************************************************)
(* What each call of tmux does to the session and to what is accounted for.*)
(***************************************************************************)

\* A step of the session that is no handing in: texts only move from the line, or from
\* the start, to what was run, or vanish.
SessionMoves ==
  /\ tmux' \in {"none", "boot", "ready"}
  /\ arg' \in Calls \cup {Null}
  /\ line' \subseteq Calls \cup {WarmText}
  /\ busy' \in BOOLEAN
  /\ log' \in 0 .. MaxLog
  /\ log <= log'
  /\ runs' \in [Calls -> Nat]
  /\ TerminalOK'
  /\ \A c \in Calls : runs'[c] + Unrun(c)' <= runs[c] + Unrun(c)

LEMMA UnrunRange == \A c \in Calls : Unrun(c) \in 0 .. 2
BY DEF Unrun

LEMMA BootEndsMoves ==
  ASSUME TypeOK, TerminalOK, BootEnds
  PROVE  SessionMoves
<1>1. log' \in 0 .. MaxLog /\ log <= log'
  BY SessionAssumption DEF TypeOK, BootEnds
<1>2. runs' \in [Calls -> Nat]
  BY DEF TypeOK, BootEnds, Ran
<1>3. TerminalOK'
  BY DEF BootEnds, TerminalOK, Alive
<1>4. ASSUME NEW c \in Calls PROVE runs'[c] + Unrun(c)' <= runs[c] + Unrun(c)
  <2>1. runs[c] \in Nat /\ c # Null
    BY SessionAssumption DEF TypeOK
  <2>2. CASE arg = c
    BY <2>1, <2>2 DEF BootEnds, Ran, Unrun
  <2>3. CASE arg # c
    BY <2>1, <2>3 DEF BootEnds, Ran, Unrun
  <2> QED BY <2>2, <2>3
<1>5. busy' \in BOOLEAN
  BY DEF BootEnds, TypeOK
<1> QED BY <1>1, <1>2, <1>3, <1>4, <1>5 DEF SessionMoves, BootEnds, TypeOK

LEMMA StayMoves ==
  ASSUME TypeOK, TerminalOK, UNCHANGED <<terminal, runs>>
  PROVE  SessionMoves
<1>1. \A c \in Calls : Unrun(c)' = Unrun(c) /\ Unrun(c) \in 0 .. 2 /\ runs[c] \in Nat
  BY UnrunRange DEF Unrun, terminal, TypeOK
<1> QED BY <1>1 DEF SessionMoves, TypeOK, TerminalOK, Alive, terminal

LEMMA PressedMoves ==
  ASSUME TypeOK, TerminalOK, Pressed
  PROVE  SessionMoves /\ UNCHANGED handed
<1>1. CASE /\ tmux = "ready"
           /\ Ran(line)
           /\ line' = {}
           /\ busy' = TRUE
           /\ UNCHANGED <<tmux, arg, log, handed>>
  <2>1. runs' \in [Calls -> Nat]
    BY <1>1 DEF TypeOK, Ran
  <2>2. ASSUME NEW c \in Calls PROVE runs'[c] + Unrun(c)' <= runs[c] + Unrun(c)
    <3>1. runs[c] \in Nat
      BY DEF TypeOK
    <3>2. CASE c \in line
      BY <1>1, <3>1, <3>2 DEF Ran, Unrun
    <3>3. CASE c \notin line
      BY <1>1, <3>1, <3>3 DEF Ran, Unrun
    <3> QED BY <3>2, <3>3
  <2>3. log \in Nat /\ TerminalOK'
    BY <1>1 DEF TypeOK, TerminalOK, Alive
  <2> QED BY <1>1, <2>1, <2>2, <2>3 DEF SessionMoves, TypeOK
<1>2. CASE BootEnds
  BY <1>2, BootEndsMoves DEF BootEnds
<1>3. CASE UNCHANGED <<terminal, handed, runs>>
  BY <1>3, StayMoves
<1> QED BY <1>1, <1>2, <1>3 DEF Pressed

\* The session ends, with all that stands on its line.
LEMMA GoneMoves ==
  ASSUME TypeOK, tmux' = "none", arg' = Null, line' = {}, busy' = FALSE,
         UNCHANGED <<log, runs>>
  PROVE  SessionMoves
<1>1. ASSUME NEW c \in Calls PROVE runs'[c] + Unrun(c)' <= runs[c] + Unrun(c)
  <2>1. runs[c] \in Nat /\ Unrun(c) \in 0 .. 2 /\ Unrun(c)' = 0
    BY UnrunRange, SessionAssumption DEF TypeOK, Unrun
  <2> QED BY <2>1
<1>2. log \in Nat /\ TerminalOK'
  BY DEF TypeOK, TerminalOK, Alive
<1>3. runs' \in [Calls -> Nat] /\ log' \in 0 .. MaxLog /\ log <= log'
  BY <1>2 DEF TypeOK
<1> QED BY <1>1, <1>2, <1>3 DEF SessionMoves

\* A text is handed in: the session may hold one more of it, and the call has handed in
\* one more.
LEMMA HandedInCounts ==
  ASSUME TypeOK, NEW text, HandIn(text)
  PROVE  /\ handed' \in [Calls -> Nat]
         /\ \A c \in Calls : handed'[c] = IF c = text THEN handed[c] + 1 ELSE handed[c]
BY DEF TypeOK, HandIn
-----------------------------------------------------------------------------
(***************************************************************************)
(* Steps.                                                                  *)
(***************************************************************************)

\* A step of the session alone.
LEMMA SessionKeeps ==
  ASSUME DeliveryInv, SessionMoves, UNCHANGED <<call, handed>>
  PROVE  DeliveryInv'
<1>1. TypeOK'
  BY DEF DeliveryInv, TypeOK, SessionMoves
<1>2. ASSUME NEW c \in Calls PROVE CallOK(call[c], handed[c])' /\ TextOK(c)'
  <2>1. CallOK(call[c], handed[c]) /\ TextOK(c)
    BY DEF DeliveryInv
  <2>2. /\ call[c].before \in Nat /\ log \in Nat /\ log' \in Nat
        /\ handed[c] \in Nat /\ runs[c] \in Nat /\ runs'[c] \in Nat
    BY DEF DeliveryInv, TypeOK, SessionMoves, Call
  <2>3. Unrun(c) \in Nat /\ Unrun(c)' \in Nat
    BY DEF Unrun
  <2>4. CallOK(call[c], handed[c])'
    BY <2>1, <2>2 DEF CallOK, SessionMoves
  <2>5. TextOK(c)'
    BY <2>1, <2>2, <2>3 DEF TextOK, SessionMoves
  <2> QED BY <2>4, <2>5
<1> QED BY <1>1, <1>2 DEF DeliveryInv, SessionMoves

\* One call goes on to a record that fits it, and the session may move.
LEMMA CallKeeps ==
  ASSUME DeliveryInv, SessionMoves, UNCHANGED handed, NEW c \in Calls, NEW s \in Call,
         call' = [call EXCEPT ![c] = s],
         HowOK(s), HandedOK(s, handed[c]), handed[c] <= Limit(s), s.before <= log
  PROVE  DeliveryInv'
<1>1. TypeOK'
  BY DEF DeliveryInv, TypeOK, SessionMoves
<1>2. ASSUME NEW d \in Calls PROVE CallOK(call[d], handed[d])' /\ TextOK(d)'
  <2>1. CallOK(call[d], handed[d]) /\ TextOK(d)
    BY DEF DeliveryInv
  <2>2. /\ call[d].before \in Nat /\ s.before \in Nat /\ log \in Nat /\ log' \in Nat
        /\ handed[d] \in Nat /\ runs[d] \in Nat /\ runs'[d] \in Nat
    BY DEF DeliveryInv, TypeOK, SessionMoves, Call
  <2>3. Unrun(d) \in Nat /\ Unrun(d)' \in Nat
    BY DEF Unrun
  <2>4. CallOK(call[d], handed[d])'
    <3>1. CASE d = c
      <4>1. call'[d] = s
        BY <3>1 DEF DeliveryInv, TypeOK
      <4> QED BY <2>2, <3>1, <4>1 DEF CallOK, SessionMoves
    <3>2. CASE d # c
      <4>1. call'[d] = call[d]
        BY <3>2 DEF DeliveryInv, TypeOK
      <4> QED BY <2>1, <2>2, <3>2, <4>1 DEF CallOK, SessionMoves
    <3> QED BY <3>1, <3>2
  <2>5. TextOK(d)'
    BY <2>1, <2>2, <2>3 DEF TextOK, SessionMoves
  <2> QED BY <2>4, <2>5
<1> QED BY <1>1, <1>2 DEF DeliveryInv, SessionMoves

\* A call hands in a text, its own or the warmup prompt, and goes on to a record that
\* fits what it has handed in then.
LEMMA HandInKeeps ==
  ASSUME DeliveryInv, NEW c \in Calls, NEW s \in Call,
         call' = [call EXCEPT ![c] = s],
         NEW text \in {c, WarmText, Null}, HandIn(text),
         tmux' \in {"boot", "ready"}, arg' \in Calls \cup {Null}, arg' # Null => tmux' = "boot",
         line' \subseteq Calls \cup {WarmText}, UNCHANGED <<busy, log, runs>>,
         \A d \in Calls : Unrun(d)' <= Unrun(d) + IF d = text THEN 1 ELSE 0,
         HowOK(s), HandedOK(s, handed'[c]), handed'[c] <= Limit(s), s.before <= log
  PROVE  DeliveryInv'
<1>0. c # Null /\ c # WarmText /\ \A d \in Calls : d # Null /\ d # WarmText
  BY SessionAssumption
<1>1. /\ handed' \in [Calls -> Nat]
      /\ \A d \in Calls : handed'[d] = IF d = text THEN handed[d] + 1 ELSE handed[d]
  BY HandedInCounts DEF DeliveryInv
<1>2. TypeOK'
  BY <1>1 DEF DeliveryInv, TypeOK
<1>3. TerminalOK'
  BY DEF TerminalOK, Alive
<1>4. ASSUME NEW d \in Calls PROVE CallOK(call[d], handed[d])' /\ TextOK(d)'
  <2>1. CallOK(call[d], handed[d]) /\ TextOK(d)
    BY DEF DeliveryInv
  <2>2. handed[d] \in Nat /\ runs[d] \in Nat /\ Unrun(d) \in Nat /\ Unrun(d)' \in Nat
    BY DEF DeliveryInv, TypeOK, Unrun
  <2>3. CallOK(call[d], handed[d])'
    <3>1. CASE d = c
      <4>1. call'[d] = s
        BY <3>1 DEF DeliveryInv, TypeOK
      <4> QED BY <3>1, <4>1 DEF CallOK
    <3>2. CASE d # c
      <4>1. call'[d] = call[d] /\ handed'[d] = handed[d]
        BY <1>0, <1>1, <3>2 DEF DeliveryInv, TypeOK
      <4> QED BY <2>1, <4>1 DEF CallOK
    <3> QED BY <3>1, <3>2
  <2>4. TextOK(d)'
    <3>1. CASE d = text
      BY <1>1, <2>1, <2>2, <3>1 DEF TextOK
    <3>2. CASE d # text
      BY <1>1, <2>1, <2>2, <3>2 DEF TextOK
    <3> QED BY <3>1, <3>2
  <2> QED BY <2>3, <2>4
<1> QED BY <1>2, <1>3, <1>4 DEF DeliveryInv

\* What is known of a call's record, and of those a step makes of it.
LEMMA CallFacts ==
  ASSUME DeliveryInv, NEW c \in Calls
  PROVE  /\ TypeOK /\ TerminalOK
         /\ call[c] \in Call /\ CallOK(call[c], handed[c]) /\ handed[c] \in Nat
         /\ log \in Nat
BY DEF DeliveryInv, TypeOK

LEMMA GoFacts ==
  ASSUME NEW s \in Call, NEW pc \in Labels
  PROVE  LET t == [s EXCEPT !.pc = pc]
         IN /\ t \in Call
            /\ t.pc = pc /\ t.how = s.how /\ t.before = s.before /\ t.result = s.result
BY DEF Call

LEMMA GotoIs ==
  ASSUME TypeOK, NEW c \in Calls, NEW pc, Goto(c, pc)
  PROVE  call' = [call EXCEPT ![c] = [call[c] EXCEPT !.pc = pc]]
BY DEF Goto, TypeOK

LEMMA EndIs ==
  ASSUME TypeOK, NEW c \in Calls, NEW result \in Results, End(c, result)
  PROVE  LET t == [call[c] EXCEPT !.pc = "over", !.before = 0, !.result = result]
         IN /\ call' = [call EXCEPT ![c] = t]
            /\ t \in Call
            /\ t.pc = "over" /\ t.how = call[c].how /\ t.before = 0 /\ t.result = result
BY DEF End, TypeOK, Call, Labels

LEMMA LabelsExist ==
  /\ Waiting \cup InOld \cup InNew \cup {"idle", "probe", "over"} \subseteq Labels
  /\ Results = {"none", "confirmed", "queued", "failed", "killed"}
BY DEF Waiting, InOld, InNew, Labels, Results

\* A call may end anywhere, and may say "queued" of a text it has handed in.
LEMMA EndKeeps ==
  ASSUME DeliveryInv, NEW c \in Calls, NEW result \in Results, End(c, result),
         UNCHANGED <<terminal, handed, runs>>,
         result = "queued" /\ ~FailClose => handed[c] > 0
  PROVE  DeliveryInv'
<1> DEFINE t == [call[c] EXCEPT !.pc = "over", !.before = 0, !.result = result]
<1>1. /\ call' = [call EXCEPT ![c] = t]
      /\ t \in Call
      /\ t.pc = "over" /\ t.how = call[c].how /\ t.before = 0 /\ t.result = result
  BY CallFacts, EndIs
<1> HIDE DEF t
<1>2. HowOK(t) /\ HandedOK(t, handed[c])
  BY <1>1 DEF HowOK, HandedOK, InOld, InNew, Waiting
<1>3. handed[c] <= Limit(t)
  <2>1. handed[c] <= Limit(call[c]) /\ handed[c] \in Nat /\ call[c].how = t.how
    BY <1>1, CallFacts DEF CallOK
  <2>2. Limit(call[c]) <= Limit(t) /\ Limit(call[c]) \in Nat /\ Limit(t) \in Nat
    BY <1>1, <2>1, CallFacts DEF Limit, Call
  <2> QED BY <2>1, <2>2
<1>4. t.before <= log
  BY <1>1, CallFacts
<1> QED BY <1>1, <1>2, <1>3, <1>4, StayMoves, CallFacts, CallKeeps

\* A call goes on from one place to another, and the session may move.
LEMMA GoKeeps ==
  ASSUME DeliveryInv, SessionMoves, UNCHANGED handed, NEW c \in Calls, NEW pc \in Labels,
         Goto(c, pc),
         LET t == [call[c] EXCEPT !.pc = pc]
         IN HowOK(t) /\ HandedOK(t, handed[c]) /\ handed[c] <= Limit(t)
  PROVE  DeliveryInv'
<1> DEFINE t == [call[c] EXCEPT !.pc = pc]
<1>1. t \in Call /\ t.before = call[c].before /\ call[c].before <= log
  BY CallFacts, GoFacts DEF CallOK
<1>2. call' = [call EXCEPT ![c] = t]
  BY CallFacts, GotoIs
<1> HIDE DEF t
<1> QED BY <1>1, <1>2, CallKeeps DEF t

\* What a place asks of the way in which a call delivers and of what it has handed in.
PlaceOK(pc, how, n) ==
  /\ pc \in {"idle", "probe"} => how = "none"
  /\ pc \in InOld => how = "keys"
  /\ pc \in InNew => how \in {"new", "restart"}
  /\ pc \in {"wait", "wait2", "pane"} => how # "none"
  /\ pc \in Waiting \cup {"enter", "sendenter"} => n > 0
  /\ n <= Limit([pc |-> pc, how |-> how])

LEMMA PlaceSuffices ==
  ASSUME NEW s \in Call, NEW n \in Nat, PlaceOK(s.pc, s.how, n),
         s.result = "queued" /\ ~FailClose => n > 0
  PROVE  HowOK(s) /\ HandedOK(s, n) /\ n <= Limit(s)
BY DEF PlaceOK, HowOK, HandedOK, Limit

LEMMA PlaceKnown ==
  ASSUME DeliveryInv, NEW c \in Calls
  PROVE  /\ PlaceOK(call[c].pc, call[c].how, handed[c])
         /\ call[c].result = "queued" /\ ~FailClose => handed[c] > 0
         /\ handed[c] \in Nat
         /\ call[c].how \in {"none", "keys", "new", "restart"}
BY CallFacts DEF PlaceOK, CallOK, HowOK, HandedOK, Limit, Call

\* A call goes on to a place that fits.
LEMMA StepKeeps ==
  ASSUME DeliveryInv, SessionMoves, UNCHANGED handed, NEW c \in Calls, NEW pc \in Labels,
         Goto(c, pc), PlaceOK(pc, call[c].how, handed[c])
  PROVE  DeliveryInv'
<1> DEFINE t == [call[c] EXCEPT !.pc = pc]
<1>1. t \in Call /\ t.pc = pc /\ t.how = call[c].how /\ t.result = call[c].result
  BY CallFacts, GoFacts
<1> HIDE DEF t
<1>2. HowOK(t) /\ HandedOK(t, handed[c]) /\ handed[c] <= Limit(t)
  BY <1>1, PlaceKnown, PlaceSuffices
<1> QED BY <1>2, GoKeeps DEF t
-----------------------------------------------------------------------------
(***************************************************************************)
(* The steps of a call.                                                    *)
(***************************************************************************)
LEMMA RefuseKeeps ==
  ASSUME DeliveryInv, NEW c \in Calls, Refuse(c)
  PROVE  DeliveryInv'
BY EndKeeps, LabelsExist DEF Refuse

LEMMA BeginKeeps ==
  ASSUME DeliveryInv, NEW c \in Calls, Begin(c)
  PROVE  DeliveryInv'
<1> DEFINE t == [call[c] EXCEPT !.pc = "probe", !.before = log]
<1>1. call' = [call EXCEPT ![c] = t]
  BY CallFacts DEF Begin, TypeOK
<1>2. /\ t \in Call /\ t.pc = "probe" /\ t.how = call[c].how /\ t.before = log
      /\ t.result = call[c].result
  BY CallFacts, LabelsExist DEF Call
<1> HIDE DEF t
<1>3. PlaceOK("probe", call[c].how, handed[c])
  BY PlaceKnown DEF Begin, PlaceOK, InOld, InNew, Waiting, Limit
<1>4. HowOK(t) /\ HandedOK(t, handed[c]) /\ handed[c] <= Limit(t)
  BY <1>2, <1>3, PlaceKnown, PlaceSuffices
<1>5. SessionMoves /\ UNCHANGED handed /\ t.before <= log
  BY <1>2, CallFacts, StayMoves DEF Begin
<1> QED BY <1>1, <1>2, <1>4, <1>5, CallKeeps

\* A call finds out how it delivers its text.
LEMMA WayKeeps ==
  ASSUME DeliveryInv, SessionMoves, UNCHANGED handed, NEW c \in Calls, NEW pc \in Labels,
         NEW how \in {"keys", "new", "restart"},
         call' = [call EXCEPT ![c].pc = pc, ![c].how = how], PlaceOK(pc, how, handed[c])
  PROVE  DeliveryInv'
<1> DEFINE t == [call[c] EXCEPT !.pc = pc, !.how = how]
<1>1. call' = [call EXCEPT ![c] = t]
  BY CallFacts DEF TypeOK
<1>2. /\ t \in Call /\ t.pc = pc /\ t.how = how /\ t.before = call[c].before
      /\ t.result = call[c].result
  BY CallFacts DEF Call
<1> HIDE DEF t
<1>3. HowOK(t) /\ HandedOK(t, handed[c]) /\ handed[c] <= Limit(t)
  BY <1>2, PlaceKnown, PlaceSuffices
<1>4. t.before <= log
  BY <1>2, CallFacts DEF CallOK
<1> QED BY <1>1, <1>2, <1>3, <1>4, CallKeeps

LEMMA FindSessionKeeps ==
  ASSUME DeliveryInv, NEW c \in Calls, FindSession(c)
  PROVE  DeliveryInv'
<1>1. SessionMoves /\ UNCHANGED handed
  BY CallFacts, StayMoves DEF FindSession
<1>2. handed[c] = 0
  BY PlaceKnown DEF FindSession, PlaceOK, Limit
<1>3. PlaceOK("type", "keys", handed[c]) /\ PlaceOK("start", "new", handed[c])
  BY <1>2 DEF PlaceOK, InOld, InNew, Waiting, Limit
<1> QED BY <1>1, <1>3, LabelsExist, WayKeeps DEF FindSession, InOld, InNew

LEMMA KillKeeps ==
  ASSUME DeliveryInv, NEW c \in Calls, Kill(c)
  PROVE  DeliveryInv'
<1>1. UNCHANGED handed
  BY DEF Kill
<1>2. SessionMoves
  <2>1. CASE tmux' = "none" /\ arg' = Null /\ line' = {} /\ busy' = FALSE
    BY <2>1, CallFacts, GoneMoves DEF Kill
  <2>2. CASE UNCHANGED <<tmux, arg, line, busy>>
    BY <2>2, CallFacts, StayMoves DEF Kill, terminal
  <2> QED BY <2>1, <2>2 DEF Kill
<1>3. handed[c] <= 1
  BY PlaceKnown DEF Kill, PlaceOK, InOld, Limit
<1>4. PlaceOK("start", "restart", handed[c])
  BY <1>3, PlaceKnown DEF PlaceOK, InOld, InNew, Waiting, Limit
<1> QED BY <1>1, <1>2, <1>4, LabelsExist, WayKeeps DEF Kill, InNew

\* Pressing Enter.
LEMMA EnterKeeps ==
  ASSUME DeliveryInv, NEW c \in Calls, Enter(c)
  PROVE  DeliveryInv'
<1>1. SessionMoves /\ UNCHANGED handed
  BY CallFacts, PressedMoves DEF Enter
<1>2. PICK pc \in {"wait", "marker", "wait2", "retype", "lastenter"} :
        /\ Goto(c, pc)
        /\ \/ pc = "wait" /\ call[c].pc \in {"enter", "sendenter"}
           \/ pc = "marker" /\ call[c].pc = "warmenter"
           \/ pc = "wait2" /\ call[c].pc \in {"commit", "lastenter"}
           \/ pc = "retype" /\ call[c].pc = "boot"
           \/ pc = "lastenter" /\ call[c].pc = "reenter"
  BY DEF Enter
<1>3. PlaceOK(pc, call[c].how, handed[c])
  BY <1>2, PlaceKnown DEF PlaceOK, InOld, InNew, Waiting, Limit
<1>4. pc \in Labels
  BY LabelsExist DEF Waiting, InNew
<1> QED BY <1>1, <1>2, <1>3, <1>4, StepKeeps

\* Typing.
LEMMA TypeKeeps ==
  ASSUME DeliveryInv, NEW c \in Calls, Type(c)
  PROVE  DeliveryInv'
<1>1. PICK pc \in {"enter", "warmenter", "sendenter", "reenter"} :
        /\ Goto(c, pc)
        /\ \/ pc = "enter" /\ call[c].pc = "type"
           \/ pc = "warmenter" /\ call[c].pc = "warmtype"
           \/ pc = "sendenter" /\ call[c].pc = "sendtype"
           \/ pc = "reenter" /\ call[c].pc = "retype"
  BY DEF Type
<1> DEFINE t == [call[c] EXCEPT !.pc = pc]
           text == Text(c)
<1>2. pc \in Labels
  BY LabelsExist DEF Waiting, InOld, InNew
<1>3. call' = [call EXCEPT ![c] = t]
  BY <1>1, CallFacts, GotoIs
<1>4. /\ t \in Call /\ t.pc = pc /\ t.how = call[c].how /\ t.before = call[c].before
      /\ t.result = call[c].result
  BY <1>2, CallFacts, GoFacts
<1>5. text = (IF pc = "warmenter" THEN WarmText ELSE c) /\ text \in {c, WarmText}
  BY <1>1 DEF Text
<1>6. Typed(text)
  BY DEF Type
<1> HIDE DEF t, text
<1>7. handed'[c] = IF pc = "warmenter" THEN handed[c] ELSE handed[c] + 1
  BY <1>5, <1>6, CallFacts, HandedInCounts, SessionAssumption DEF Typed
<1>8. PlaceOK(pc, call[c].how, handed'[c])
  BY <1>1, <1>7, PlaceKnown DEF PlaceOK, InOld, InNew, Waiting, Limit
<1>9. HowOK(t) /\ HandedOK(t, handed'[c]) /\ handed'[c] <= Limit(t)
  BY <1>4, <1>7, <1>8, PlaceKnown, PlaceSuffices
<1>10. ASSUME NEW d \in Calls
       PROVE  Unrun(d)' <= Unrun(d) + IF d = text THEN 1 ELSE 0
  BY <1>6 DEF Typed, Unrun
<1>11. /\ tmux' \in {"boot", "ready"} /\ arg' \in Calls \cup {Null}
       /\ arg' # Null => tmux' = "boot"
       /\ line' \subseteq Calls \cup {WarmText} /\ UNCHANGED <<busy, log, runs>>
       /\ HandIn(text)
  BY <1>5, <1>6, CallFacts DEF Typed, TypeOK, TerminalOK, Alive
<1>12. t.before <= log
  BY <1>4, CallFacts DEF CallOK
<1> QED BY <1>3, <1>4, <1>5, <1>9, <1>10, <1>11, <1>12, HandInKeeps

LEMMA StartKeeps ==
  ASSUME DeliveryInv, NEW c \in Calls, Start(c)
  PROVE  DeliveryInv'
<1> DEFINE pc == IF c \in WarmCalls THEN "warmtype" ELSE "wait"
           text == StartText(c)
           t == [call[c] EXCEPT !.pc = pc]
<1>1. text = (IF c \in WarmCalls THEN Null ELSE c) /\ text \in {c, Null}
  BY DEF StartText
<1>2. Goto(c, pc) /\ call[c].pc = "start" /\ arg' = text /\ HandIn(text)
  BY DEF Start
<1>3. pc \in Labels
  BY LabelsExist DEF Waiting, InNew
<1>4. call' = [call EXCEPT ![c] = t]
  BY <1>2, CallFacts, GotoIs
<1>5. /\ t \in Call /\ t.pc = pc /\ t.how = call[c].how /\ t.before = call[c].before
      /\ t.result = call[c].result
  BY <1>3, CallFacts, GoFacts
<1> HIDE DEF t, text
<1>6. handed'[c] = IF c \in WarmCalls THEN handed[c] ELSE handed[c] + 1
  BY <1>1, <1>2, CallFacts, HandedInCounts, SessionAssumption
<1>7. PlaceOK(pc, call[c].how, handed'[c])
  BY <1>2, <1>6, PlaceKnown DEF PlaceOK, InOld, InNew, Waiting, Limit
<1>8. HowOK(t) /\ HandedOK(t, handed'[c]) /\ handed'[c] <= Limit(t)
  BY <1>5, <1>6, <1>7, PlaceKnown, PlaceSuffices
<1>9. ASSUME NEW d \in Calls
      PROVE  Unrun(d)' <= Unrun(d) + IF d = text THEN 1 ELSE 0
  <2>1. Unrun(d) = 0
    BY CallFacts, SessionAssumption DEF Start, TerminalOK, Unrun
  <2>2. line' = {} /\ arg' = text
    BY <1>2, CallFacts DEF Start, TerminalOK
  <2> QED BY <2>1, <2>2 DEF Unrun
<1>10. /\ tmux' = "boot" /\ arg' \in Calls \cup {Null}
       /\ line' \subseteq Calls \cup {WarmText} /\ UNCHANGED <<busy, log, runs>>
  BY <1>1, <1>2, CallFacts DEF Start, TypeOK
<1>11. t.before <= log
  BY <1>5, CallFacts DEF CallOK
<1> QED BY <1>1, <1>2, <1>4, <1>5, <1>8, <1>9, <1>10, <1>11, HandInKeeps

\* Whether the warmup fails or not, the text is sent, or the call ends.
LEMMA SendNextKeeps ==
  ASSUME DeliveryInv, NEW c \in Calls, UNCHANGED <<terminal, handed, runs>>,
         call[c].pc \in {"warmtype", "warmenter", "marker"},
         call' = [call EXCEPT ![c].pc = "sendtype", ![c].before = log]
  PROVE  DeliveryInv'
<1> DEFINE t == [call[c] EXCEPT !.pc = "sendtype", !.before = log]
<1>1. call' = [call EXCEPT ![c] = t]
  BY CallFacts DEF TypeOK
<1>2. /\ t \in Call /\ t.pc = "sendtype" /\ t.how = call[c].how /\ t.before = log
      /\ t.result = call[c].result
  BY CallFacts, LabelsExist DEF Call, InNew
<1> HIDE DEF t
<1>3. PlaceOK("sendtype", call[c].how, handed[c])
  BY PlaceKnown DEF PlaceOK, InOld, InNew, Waiting, Limit
<1>4. HowOK(t) /\ HandedOK(t, handed[c]) /\ handed[c] <= Limit(t)
  BY <1>2, <1>3, PlaceKnown, PlaceSuffices
<1>5. SessionMoves /\ UNCHANGED handed /\ t.before <= log
  BY <1>2, CallFacts, StayMoves
<1> QED BY <1>1, <1>2, <1>4, <1>5, CallKeeps

LEMMA UnreadyKeeps ==
  ASSUME DeliveryInv, NEW c \in Calls, UNCHANGED <<terminal, handed, runs>>,
         call[c].pc \in {"warmtype", "warmenter", "marker"},
         NEW result \in {"failed", "queued"}, Unready(c, result)
  PROVE  DeliveryInv'
<1>1. CASE FailClose
  BY <1>1, EndKeeps, LabelsExist, Zenon DEF Unready
<1>2. CASE ~FailClose
  BY <1>2, SendNextKeeps DEF Unready
<1> QED BY <1>1, <1>2

LEMMA SendFailsKeeps ==
  ASSUME DeliveryInv, NEW c \in Calls, SendFails(c)
  PROVE  DeliveryInv'
<1>1. SessionMoves /\ UNCHANGED handed /\ UNCHANGED <<terminal, handed, runs>>
  BY CallFacts, StayMoves DEF SendFails
<1>2. CASE call[c].pc \in {"warmtype", "warmenter"} /\ Unready(c, "failed")
  BY <1>1, <1>2, UnreadyKeeps
<1>3. CASE call[c].pc \in {"sendtype", "sendenter"} /\ End(c, "failed")
  BY <1>1, <1>3, EndKeeps, LabelsExist
<1>4. ASSUME NEW pc \in {"kill", "pane", "wait2"}, Goto(c, pc),
             \/ pc = "kill" /\ call[c].pc \in {"type", "enter"}
             \/ pc = "pane" /\ call[c].pc \in {"commit", "boot", "retype", "reenter"}
             \/ pc = "wait2" /\ call[c].pc = "lastenter"
      PROVE  DeliveryInv'
  <2>1. PlaceOK(pc, call[c].how, handed[c])
    BY <1>4, PlaceKnown DEF PlaceOK, InOld, InNew, Waiting, Limit
  <2>2. pc \in Labels
    BY LabelsExist DEF Waiting, InOld
  <2> QED BY <1>1, <1>4, <2>1, <2>2, StepKeeps
<1> QED BY <1>2, <1>3, <1>4 DEF SendFails

LEMMA MarkerKeeps ==
  ASSUME DeliveryInv, NEW c \in Calls, SeeMarker(c) \/ MissMarker(c)
  PROVE  DeliveryInv'
BY SendNextKeeps, UnreadyKeeps DEF SeeMarker, MissMarker

LEMMA StartFailsKeeps ==
  ASSUME DeliveryInv, NEW c \in Calls, StartFails(c)
  PROVE  DeliveryInv'
BY EndKeeps, LabelsExist DEF StartFails

LEMMA AbandonKeeps ==
  ASSUME DeliveryInv, NEW c \in Calls, Abandon(c)
  PROVE  DeliveryInv'
BY EndKeeps, LabelsExist DEF Abandon

LEMMA SeeAdvanceKeeps ==
  ASSUME DeliveryInv, NEW c \in Calls, SeeAdvance(c)
  PROVE  DeliveryInv'
BY EndKeeps, LabelsExist DEF SeeAdvance

LEMMA LookAtPaneKeeps ==
  ASSUME DeliveryInv, NEW c \in Calls, LookAtPane(c)
  PROVE  DeliveryInv'
<1>1. handed[c] > 0
  BY PlaceKnown DEF LookAtPane, PlaceOK, Waiting
<1> QED BY <1>1, EndKeeps, LabelsExist DEF LookAtPane

LEMMA SeeNoAdvanceKeeps ==
  ASSUME DeliveryInv, NEW c \in Calls, SeeNoAdvance(c)
  PROVE  DeliveryInv'
<1>1. SessionMoves /\ UNCHANGED handed
  BY CallFacts, StayMoves DEF SeeNoAdvance
<1>2. PICK pc \in {"commit", "boot", "pane"} :
        /\ Goto(c, pc)
        /\ \/ pc = "commit" /\ call[c].pc = "wait" /\ call[c].how = "keys"
           \/ pc = "boot" /\ call[c].pc = "wait" /\ call[c].how # "keys"
           \/ pc = "pane" /\ call[c].pc = "wait2"
  BY DEF SeeNoAdvance, AfterWait
<1>3. PlaceOK(pc, call[c].how, handed[c])
  BY <1>2, PlaceKnown DEF PlaceOK, InOld, InNew, Waiting, Limit
<1>4. pc \in Labels
  BY LabelsExist DEF Waiting
<1> QED BY <1>1, <1>2, <1>3, <1>4, StepKeeps

LEMMA ControlKeeps ==
  ASSUME DeliveryInv, NEW c \in Calls, Control(c)
  PROVE  DeliveryInv'
BY RefuseKeeps, BeginKeeps, FindSessionKeeps, TypeKeeps, EnterKeeps, SendFailsKeeps,
   KillKeeps, StartKeeps, StartFailsKeeps, MarkerKeeps, SeeAdvanceKeeps,
   SeeNoAdvanceKeeps, LookAtPaneKeeps, AbandonKeeps
   DEF Control, Proceed
-----------------------------------------------------------------------------
(***************************************************************************)
(* The agent's steps, and the theorems.                                    *)
(***************************************************************************)
LEMMA AgentKeeps ==
  ASSUME DeliveryInv, Agent
  PROVE  DeliveryInv'
<1>0. TypeOK /\ TerminalOK
  BY DEF DeliveryInv
<1>1. CASE AgentWorks
  <2>1. log' \in 0 .. MaxLog /\ log <= log'
    BY <1>0, <1>1, SessionAssumption DEF AgentWorks, TypeOK
  <2>2. \A c \in Calls : runs[c] + Unrun(c)' <= runs[c] + Unrun(c)
    BY <1>0, <1>1 DEF AgentWorks, Unrun, TypeOK
  <2>3. TerminalOK'
    BY <1>0, <1>1 DEF AgentWorks, TerminalOK, Alive
  <2>4. SessionMoves
    BY <1>0, <1>1, <2>1, <2>2, <2>3 DEF AgentWorks, SessionMoves, TypeOK
  <2> QED BY <1>1, <2>4, SessionKeeps DEF AgentWorks
<1>2. CASE AgentBoots
  BY <1>0, <1>2, BootEndsMoves, SessionKeeps DEF AgentBoots, BootEnds
<1>3. CASE AgentQuits \/ PrewarmKills
  BY <1>0, <1>3, GoneMoves, SessionKeeps DEF AgentQuits, PrewarmKills
<1>4. CASE PrewarmStarts
  <2>1. \A c \in Calls : runs[c] + Unrun(c)' <= runs[c] + Unrun(c)
    BY <1>0, <1>4 DEF PrewarmStarts, Unrun, TypeOK
  <2>2. TerminalOK' /\ log <= log
    BY <1>0, <1>4 DEF PrewarmStarts, TerminalOK, Alive, TypeOK
  <2>3. SessionMoves
    BY <1>0, <1>4, <2>1, <2>2 DEF PrewarmStarts, SessionMoves, TypeOK
  <2> QED BY <1>4, <2>3, SessionKeeps DEF PrewarmStarts
<1> QED BY <1>1, <1>2, <1>3, <1>4 DEF Agent

LEMMA StutterKeeps ==
  ASSUME DeliveryInv, UNCHANGED vars
  PROVE  DeliveryInv'
<1>1. SessionMoves /\ UNCHANGED <<call, handed>>
  BY StayMoves DEF DeliveryInv, vars, terminal
<1> QED BY <1>1, SessionKeeps

\* What makes the theorems below inductive: where a call stands tells how often it may
\* have handed in its text.
THEOREM DeliveryInvariant == Spec => []DeliveryInv
<1>1. DeliveryInv /\ [Next]_vars => DeliveryInv'
  BY ControlKeeps, AgentKeeps, StutterKeeps DEF Next
<1> QED BY InitDelivery, <1>1, PTL DEF Spec

\* GuardedSession!SessionInv: what stands on the input line, or was given to the agent,
\* is accounted for by what its call has handed in, however calls interleave.
THEOREM SessionAccounted == Spec => []SessionInv
BY DeliveryInvariant, DeliveryImpliesSession, PTL

\* GuardedSession!RunsBounded: a text is run once, twice or three times at most, as its
\* call found the session.
THEOREM RunsAlwaysBounded == Spec => []RunsBounded
<1>1. DeliveryInv => RunsBounded
  <2> SUFFICES ASSUME DeliveryInv, NEW c \in Calls
               PROVE  /\ runs[c] <= 3
                      /\ call[c].how = "new" => runs[c] <= 2
                      /\ call[c].how = "keys" => runs[c] <= 1
                      /\ call[c].how = "none" => runs[c] = 0
    BY DEF RunsBounded
  <2>1. /\ handed[c] <= Limit(call[c]) /\ runs[c] + Unrun(c) <= handed[c]
        /\ runs[c] \in Nat /\ handed[c] \in Nat /\ Unrun(c) \in Nat
    BY CallFacts, UnrunRange DEF DeliveryInv, CallOK, TextOK, TypeOK
  <2>2. call[c].how \in {"none", "keys", "new", "restart"}
    BY PlaceKnown
  <2> QED BY <2>1, <2>2 DEF Limit
<1> QED BY DeliveryInvariant, <1>1, PTL

\* GuardedSession!QueuedWasSent: a text that is reported as queued was handed to a session,
\* unless a warmup that fails ends the call.
THEOREM QueuedAlwaysSent == Spec => []QueuedWasSent
<1>1. DeliveryInv => QueuedWasSent
  BY PlaceKnown DEF QueuedWasSent
<1> QED BY DeliveryInvariant, <1>1, PTL
-----------------------------------------------------------------------------
(***************************************************************************)
(* Calls come to an end.                                                   *)
(***************************************************************************)

\* The order in which a call goes through its places; "over" is the last.
Order(pc) ==
  CASE pc = "idle" -> 0 [] pc = "probe" -> 1 [] pc = "type" -> 2 [] pc = "enter" -> 3
    [] pc = "kill" -> 4 [] pc = "start" -> 5 [] pc = "warmtype" -> 6
    [] pc = "warmenter" -> 7 [] pc = "marker" -> 8 [] pc = "sendtype" -> 9
    [] pc = "sendenter" -> 10 [] pc = "wait" -> 11 [] pc = "commit" -> 12
    [] pc = "boot" -> 13 [] pc = "retype" -> 14 [] pc = "reenter" -> 15
    [] pc = "lastenter" -> 16 [] pc = "wait2" -> 17 [] pc = "pane" -> 18
    [] OTHER -> 19

GoesOn(c) == Order(call[c].pc) < Order(call'[c].pc)

Advances(c) == call'[c] = call[c] \/ GoesOn(c)

LEMMA BecomesAdvances ==
  ASSUME TypeOK, NEW c \in Calls, NEW s, call' = [call EXCEPT ![c] = s],
         Order(call[c].pc) < Order(s.pc)
  PROVE  GoesOn(c) /\ \A d \in Calls : Advances(d)
BY DEF TypeOK, Advances, GoesOn

LEMMA GotoAdvances ==
  ASSUME TypeOK, NEW c \in Calls, NEW pc, Goto(c, pc), Order(call[c].pc) < Order(pc)
  PROVE  GoesOn(c) /\ \A d \in Calls : Advances(d)
BY DEF Goto, TypeOK, Call, Advances, GoesOn

LEMMA EndAdvances ==
  ASSUME TypeOK, NEW c \in Calls, NEW result, End(c, result), call[c].pc # "over"
  PROVE  GoesOn(c) /\ \A d \in Calls : Advances(d)
<1> DEFINE s == [call[c] EXCEPT !.pc = "over", !.before = 0, !.result = result]
<1>1. call' = [call EXCEPT ![c] = s] /\ s.pc = "over"
  BY DEF End, TypeOK, Call
<1>2. call[c].pc \in Labels
  BY DEF TypeOK, Call
<1> HIDE DEF s
<1>3. Order(call[c].pc) < Order(s.pc)
  BY <1>1, <1>2 DEF Order, Labels
<1> QED BY <1>1, <1>3, BecomesAdvances

LEMMA UnreadyAdvances ==
  ASSUME TypeOK, NEW c \in Calls, NEW result, Unready(c, result),
         call[c].pc \in {"warmtype", "warmenter", "marker"}
  PROVE  GoesOn(c) /\ \A d \in Calls : Advances(d)
<1>1. CASE End(c, result)
  BY <1>1, EndAdvances
<1>2. CASE ~End(c, result)
  <2> DEFINE s == [call[c] EXCEPT !.pc = "sendtype", !.before = log]
  <2>0. call' = [call EXCEPT ![c].pc = "sendtype", ![c].before = log]
    BY <1>2 DEF Unready
  <2>1. call' = [call EXCEPT ![c] = s] /\ s.pc = "sendtype"
    BY <2>0 DEF TypeOK, Call
  <2> HIDE DEF s
  <2>2. Order(call[c].pc) < Order(s.pc)
    BY <2>1 DEF Order
  <2> QED BY <2>1, <2>2, BecomesAdvances
<1> QED BY <1>1, <1>2

LEMMA ControlAdvances ==
  ASSUME TypeOK, NEW c \in Calls, Control(c)
  PROVE  GoesOn(c) /\ \A d \in Calls : Advances(d)
<1>1. CASE Refuse(c) \/ Abandon(c) \/ StartFails(c) \/ SeeAdvance(c) \/ LookAtPane(c)
  <2>1. call[c].pc # "over" /\ \E result : End(c, result)
    BY <1>1 DEF Refuse, Abandon, Active, StartFails, SeeAdvance, LookAtPane
  <2> QED BY <2>1, EndAdvances
<1>2. CASE Begin(c) \/ FindSession(c) \/ Kill(c) \/ SeeMarker(c)
  <2>1. PICK s : /\ call' = [call EXCEPT ![c] = s]
                 /\ \/ call[c].pc = "idle" /\ s.pc = "probe"
                    \/ call[c].pc = "probe" /\ s.pc \in {"type", "start"}
                    \/ call[c].pc = "kill" /\ s.pc = "start"
                    \/ call[c].pc = "marker" /\ s.pc = "sendtype"
    <3>1. CASE Begin(c)
      <4> DEFINE s == [call[c] EXCEPT !.pc = "probe", !.before = log]
      <4>1. call' = [call EXCEPT ![c] = s] /\ call[c].pc = "idle" /\ s.pc = "probe"
        BY <3>1 DEF Begin, TypeOK, Call
      <4> QED BY <4>1
    <3>2. CASE FindSession(c)
      <4>1. PICK pc \in {"type", "start"}, how \in {"keys", "new"} :
              call' = [call EXCEPT ![c].pc = pc, ![c].how = how]
        BY <3>2 DEF FindSession
      <4> DEFINE s == [call[c] EXCEPT !.pc = pc, !.how = how]
      <4>2. call' = [call EXCEPT ![c] = s] /\ call[c].pc = "probe" /\ s.pc = pc
        <5>1. call[c].pc = "probe"
          BY <3>2 DEF FindSession
        <5> QED BY <4>1, <5>1 DEF TypeOK, Call
      <4> QED BY <4>2
    <3>3. CASE Kill(c)
      <4> DEFINE s == [call[c] EXCEPT !.pc = "start", !.how = "restart"]
      <4>1. call' = [call EXCEPT ![c] = s] /\ call[c].pc = "kill" /\ s.pc = "start"
        BY <3>3 DEF Kill, TypeOK, Call
      <4> QED BY <4>1
    <3>4. CASE SeeMarker(c)
      <4> DEFINE s == [call[c] EXCEPT !.pc = "sendtype", !.before = log]
      <4>1. call' = [call EXCEPT ![c] = s] /\ call[c].pc = "marker" /\ s.pc = "sendtype"
        BY <3>4 DEF SeeMarker, TypeOK, Call
      <4> QED BY <4>1
    <3> QED BY <1>2, <3>1, <3>2, <3>3, <3>4
  <2>2. Order(call[c].pc) < Order(s.pc)
    BY <2>1 DEF Order
  <2> QED BY <2>1, <2>2, BecomesAdvances
<1>3. CASE Type(c) \/ Enter(c) \/ Start(c) \/ SeeNoAdvance(c)
  <2>1. PICK pc \in {"enter", "warmenter", "sendenter", "reenter", "wait", "marker", "wait2",
                     "retype", "lastenter", "warmtype", "commit", "boot", "pane"} :
          /\ Goto(c, pc)
          /\ \/ call[c].pc = "type" /\ pc = "enter"
             \/ call[c].pc = "warmtype" /\ pc = "warmenter"
             \/ call[c].pc = "sendtype" /\ pc = "sendenter"
             \/ call[c].pc = "retype" /\ pc = "reenter"
             \/ call[c].pc \in {"enter", "sendenter"} /\ pc = "wait"
             \/ call[c].pc = "warmenter" /\ pc = "marker"
             \/ call[c].pc \in {"commit", "lastenter"} /\ pc = "wait2"
             \/ call[c].pc = "boot" /\ pc = "retype"
             \/ call[c].pc = "reenter" /\ pc = "lastenter"
             \/ call[c].pc = "start" /\ pc \in {"warmtype", "wait"}
             \/ call[c].pc = "wait" /\ pc \in {"commit", "boot"}
             \/ call[c].pc = "wait2" /\ pc = "pane"
    BY <1>3 DEF Type, Enter, Start, SeeNoAdvance, AfterWait
  <2>2. Order(call[c].pc) < Order(pc)
    BY <2>1 DEF Order
  <2> QED BY <2>1, <2>2, GotoAdvances
<1>4. CASE SendFails(c)
  <2>1. CASE call[c].pc \in {"warmtype", "warmenter"} /\ Unready(c, "failed")
    BY <2>1, UnreadyAdvances
  <2>2. CASE call[c].pc \in {"sendtype", "sendenter"} /\ End(c, "failed")
    BY <2>2, EndAdvances
  <2>3. CASE \E pc \in {"kill", "pane", "wait2"} :
               /\ Goto(c, pc)
               /\ \/ call[c].pc \in {"type", "enter"} /\ pc = "kill"
                  \/ call[c].pc \in {"commit", "boot", "retype", "reenter"} /\ pc = "pane"
                  \/ call[c].pc = "lastenter" /\ pc = "wait2"
    <3>1. PICK pc \in {"kill", "pane", "wait2"} :
            Goto(c, pc) /\ Order(call[c].pc) < Order(pc)
      BY <2>3 DEF Order
    <3> QED BY <3>1, GotoAdvances
  <2> QED BY <1>4, <2>1, <2>2, <2>3 DEF SendFails
<1>5. CASE MissMarker(c)
  BY <1>5, UnreadyAdvances DEF MissMarker
<1> QED BY <1>1, <1>2, <1>3, <1>4, <1>5 DEF Control, Proceed

\* Whatever tmux, the agent, the supervisor and other calls do, a call never returns to where
\* it has been, and each of its own steps takes it further: it takes at most nineteen.  With
\* the fairness of FairSpec, which keeps a call moving, this is why CallsEnd holds.
THEOREM CallsAdvance ==
  Spec => [][\A c \in Calls : Advances(c) /\ (Control(c) => GoesOn(c))]_vars
<1>1. DeliveryInv /\ [Next]_vars
      => [\A c \in Calls : Advances(c) /\ (Control(c) => GoesOn(c))]_vars
  <2> SUFFICES ASSUME TypeOK, Next, NEW c \in Calls
               PROVE  Advances(c) /\ (Control(c) => GoesOn(c))
    BY DEF DeliveryInv
  <2>1. CASE Agent
    <3>1. UNCHANGED call
      BY <2>1 DEF Agent, AgentWorks, AgentBoots, AgentQuits, PrewarmKills, PrewarmStarts
    <3>2. Advances(c)
      BY <3>1 DEF Advances
    <3> QED BY <3>2, ControlAdvances
  <2>2. CASE \E d \in Calls : Control(d)
    BY <2>2, ControlAdvances
  <2> QED BY <2>1, <2>2 DEF Next
<1> QED BY <1>1, DeliveryInvariant, PTL DEF Spec
=============================================================================
