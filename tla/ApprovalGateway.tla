--------------------------- MODULE ApprovalGateway ---------------------------
(***************************************************************************)
(* The approval gateway: the HTTP handlers of main.py that create and      *)
(* decide approval requests, the ApprovalService they call, the SQLite     *)
(* store behind it, the expiry loop and the registry of terminal writers.  *)
(*                                                                         *)
(* FastAPI runs every handler in a thread of its own and the expiry loop   *)
(* runs beside them, so a handler is a sequence of steps, one for each     *)
(* call into the store, the audit log, the notifier or a terminal.  The    *)
(* store serialises single calls, never a whole handler.                   *)
(*                                                                         *)
(* A definition marked "Fault" is no part of the specification: it is the  *)
(* definition after it as a plausible mistake would have it, kept to show  *)
(* that the properties tell the two apart.                                 *)
(***************************************************************************)
EXTENDS Naturals

CONSTANTS
  Requests,       \* the request ids the program may create
  Approvers,      \* everyone who may present a decision
  Allowlist,      \* approvers the settings accept
  Nonces,         \* nonces of signed callbacks
  Workers,        \* handler threads
  Channels,       \* the decision endpoints in use
  Sources,        \* whether requests come from the wrapper (TRUE) or elsewhere
  Risks,          \* risk levels the policy may return for an allowed command
  DualApproval,   \* enable_high_risk_dual_approval
  Serialized,     \* TRUE: handlers and sweeps run one at a time (see Quiet)
  Timeout,        \* timeout_seconds, in ticks
  MaxTime,        \* bound: the clock stops here
  MaxCrashes,     \* bound: gateway restarts
  Null            \* an absent value

ASSUME ConstantsAssumption ==
  /\ Allowlist \subseteq Approvers
  /\ Channels \subseteq {"callback", "link", "trusted"}
  /\ Sources \subseteq BOOLEAN
  /\ Risks \subseteq {"L1", "L2", "L3"}
  /\ DualApproval \in BOOLEAN
  /\ Serialized \in BOOLEAN
  /\ Timeout \in Nat
  /\ MaxTime \in Nat
  /\ MaxCrashes \in Nat
  /\ Null \notin Requests \cup {"ENTER", "ESC"}

VARIABLES
  db,        \* approvals table, one row per request
  votes,     \* approval_votes table: who approved, per request
  nonces,    \* used_nonces table
  audit,     \* the audit log, as the set of <<request, final status>> it holds
  proc,      \* handler threads
  sweeper,   \* the expiry loop
  writers,   \* requests whose terminal session has a registered writer
  keys,      \* history: keys pressed in the terminal for each request
  grants,    \* history: approvers whose approval of a request was legitimate
  now,       \* the clock
  crashes    \* gateway restarts so far

tables == <<votes, nonces>>
ghosts == <<keys, grants>>
vars == <<db, votes, nonces, audit, proc, sweeper, writers, keys,
          grants, now, crashes>>
-----------------------------------------------------------------------------
Keys    == {"ENTER", "ESC"}
Final   == {"APPROVED", "REJECTED", "EXPIRED"}
Status  == {"ABSENT", "PENDING"} \cup Final
Reasons == {"none", "policy", "blocked_high_risk_command",
            "awaiting_first_approval_high_risk",
            "awaiting_second_approval_high_risk", "timeout_auto_reject",
            "approved", "rejected", "notification_failed"}
Deciders == Approvers \cup {Null, "policy-engine", "system-notifier"}

Row == [status: Status, risk: Risks \cup {"L3"}, reason: Reasons,
        wrapped: BOOLEAN, approver: Deciders, action: Keys \cup {Null},
        expires: Nat]

AbsentRow == [status |-> "ABSENT", risk |-> "L3", reason |-> "none",
              wrapped |-> FALSE, approver |-> Null, action |-> Null,
              expires |-> 0]

Labels == {"idle", "nonce", "vote", "count", "await", "finalize", "expire",
           "audit", "reread", "apply", "block", "created", "notify",
           "undelivered", "discard", "reply"}

\* A handler thread: where it stands, and the locals that outlive a step.
Handler == [pc: Labels, via: Channels \cup {"create"},
            req: Requests \cup {Null}, approve: BOOLEAN, dual: BOOLEAN,
            who: Approvers \cup {Null}, outcome: Status \cup {"WAIT"},
            key: Keys \cup {Null}]

Idle == [pc |-> "idle", via |-> "create", req |-> Null, approve |-> FALSE,
         dual |-> FALSE, who |-> Null, outcome |-> "ABSENT", key |-> Null]

Resting == [pc |-> "wait", toAudit |-> {}, toApply |-> {}, req |-> Null,
            key |-> Null]

At(w, l) == proc[w].pc = l
Goto(w, l) == proc' = [proc EXCEPT ![w].pc = l]
Done(w)  == proc' = [proc EXCEPT ![w] = Idle]

\* The row is written: what is left is to audit the outcome and act on it.
Decided(w, outcome, key) ==
  proc' = [proc EXCEPT ![w] =
             [Idle EXCEPT !.pc = "audit", !.via = proc[w].via,
                          !.req = proc[w].req, !.outcome = outcome, !.key = key]]

\* Nothing is in progress: where Serialized, the only states in which a
\* handler or a sweep may begin and the clock may move.
Quiet == sweeper.pc = "wait" /\ \A w \in Workers : At(w, "idle")
MayBegin == Serialized => Quiet

AtLeastTwo(S) == \E a, b \in S : a # b
-----------------------------------------------------------------------------
(***************************************************************************)
(* The store.                                                              *)
(***************************************************************************)

\* Fault: the approver is written only where there is none yet.
SetDecisionKeepingApprover(r, status, reason, who, key) ==
  db' = [db EXCEPT ![r] =
           [@ EXCEPT !.status = status, !.reason = reason, !.action = key,
                     !.approver = IF @ = Null THEN who ELSE @]]

\* set_decision: an UPDATE keyed by the request id alone.
SetDecision(r, status, reason, who, key) ==
  db' = [db EXCEPT ![r] = [@ EXCEPT !.status = status, !.reason = reason,
                                    !.approver = who, !.action = key]]

\* Fault: the row still to be decided is told by its missing terminal action.
OpenByAction(row) == row.status # "ABSENT" /\ row.action = Null

\* The test every decision path makes on the row it has read.
Open(row) == row.status = "PENDING"

\* Fault: rows that already have a first vote are left alone.
DueUntouched == {r \in Requests : /\ db[r].status = "PENDING" /\ db[r].expires < now
                                  /\ db[r].approver = Null}

\* The rows expire_due selects; the comparison is strict.
Due == {r \in Requests : db[r].status = "PENDING" /\ db[r].expires < now}

\* Fault: the update leaves the terminal action out.
SweptStatusOnly(row) == [row EXCEPT !.status = "EXPIRED", !.reason = "timeout_auto_reject"]

\* What expire_due makes of such a row.
Swept(row) == [row EXCEPT !.status = "EXPIRED", !.reason = "timeout_auto_reject",
                          !.action = "ESC"]

\* A row the decision handlers treat as expired; not strict.
PastDeadline(row) == row.expires <= now

\* An audit event: those of requests still pending (created, first vote) and
\* of keys no writer took change no property and are left out.
Log(r, outcome) ==
  audit' = IF outcome \in Final THEN audit \cup {<<r, outcome>>} ELSE audit

\* apply_terminal_action: the key goes to the session's writer, if there is one.
Press(r, key) ==
  keys' = IF key # Null /\ r \in writers
          THEN [keys EXCEPT ![r] = @ \cup {key}] ELSE keys

\* Fault: told by the reason the row was created with, which the first vote
\* replaces.
IsDualTargetByReason(row) ==
  DualApproval /\ row.reason = "awaiting_first_approval_high_risk"

\* A decision on this row needs two approvers.
IsDualTarget(row) ==
  /\ DualApproval
  /\ row.reason # "blocked_high_risk_command"
  /\ row.risk = "L3"
-----------------------------------------------------------------------------
(***************************************************************************)
(* Creating a request.                                                     *)
(***************************************************************************)

\* What the policy may say of a command: forbidden, which is always high risk,
\* or of some risk level and to be approved remotely.
Verdicts == [blocked: {FALSE}, risk: Risks] \cup [blocked: {TRUE}, risk: {"L3"}]

Insert(w, r) ==
  /\ At(w, "idle") /\ MayBegin
  /\ db[r].status = "ABSENT"
  /\ now + Timeout < MaxTime
  /\ \E wrapped \in Sources, verdict \in Verdicts :
       /\ db' = [db EXCEPT ![r] =
            [status   |-> IF verdict.blocked THEN "REJECTED" ELSE "PENDING",
             risk     |-> verdict.risk,
             reason   |-> IF verdict.blocked THEN "blocked_high_risk_command"
                          ELSE IF DualApproval /\ verdict.risk = "L3"
                               THEN "awaiting_first_approval_high_risk"
                               ELSE "policy",
             wrapped  |-> wrapped,
             approver |-> Null,
             action   |-> Null,
             expires  |-> now + Timeout]]
       /\ proc' = [proc EXCEPT ![w] = [Idle EXCEPT
            !.req = r,
            !.pc = IF verdict.blocked THEN "block" ELSE "created",
            !.outcome = IF verdict.blocked THEN "REJECTED" ELSE "PENDING"]]
  /\ UNCHANGED <<tables, audit, sweeper, writers, ghosts, now, crashes>>

\* A blocked command is inserted REJECTED without a terminal action; a second
\* call records the decision of the policy engine.
RecordBlock(w) ==
  /\ At(w, "block")
  /\ SetDecision(proc[w].req, "REJECTED", "blocked_high_risk_command",
                 "policy-engine", "ESC")
  /\ Goto(w, "created")
  /\ UNCHANGED <<tables, audit, sweeper, writers, ghosts, now, crashes>>

AuditCreated(w) ==
  /\ At(w, "created")
  /\ Log(proc[w].req, proc[w].outcome)
  /\ Goto(w, IF proc[w].outcome = "PENDING" THEN "notify" ELSE "reply")
  /\ UNCHANGED <<db, tables, sweeper, writers, ghosts, now, crashes>>

\* The card is sent, refused, or there is no channel to send it over.
Notify(w) ==
  /\ At(w, "notify")
  /\ \E delivered \in BOOLEAN :
       Goto(w, IF db[proc[w].req].wrapped /\ ~delivered
               THEN "undelivered" ELSE "reply")
  /\ UNCHANGED <<db, tables, audit, sweeper, writers, ghosts, now, crashes>>

\* reject_pending reads the row and gives up on a row that is not pending;
\* the caller ignores the result and answers REJECTED either way.
ReadUndelivered(w) ==
  /\ At(w, "undelivered")
  /\ IF Open(db[proc[w].req])
     THEN Goto(w, "discard")
     ELSE proc' = [proc EXCEPT ![w] =
                     [Idle EXCEPT !.pc = "apply", !.req = proc[w].req,
                                  !.outcome = "REJECTED", !.key = "ESC"]]
  /\ UNCHANGED <<db, tables, audit, sweeper, writers, ghosts, now, crashes>>

RejectUndelivered(w) ==
  /\ At(w, "discard")
  /\ SetDecision(proc[w].req, "REJECTED", "notification_failed",
                 "system-notifier", "ESC")
  /\ Decided(w, "REJECTED", "ESC")
  /\ UNCHANGED <<tables, audit, sweeper, writers, ghosts, now, crashes>>

\* The last statement of the create handler presses ESC for every answer that
\* is REJECTED, a second time on the undelivered path.
Reply(w) ==
  /\ At(w, "reply")
  /\ Press(proc[w].req, IF proc[w].outcome = "REJECTED" THEN "ESC" ELSE Null)
  /\ Done(w)
  /\ UNCHANGED <<db, tables, audit, sweeper, writers, grants, now, crashes>>
-----------------------------------------------------------------------------
(***************************************************************************)
(* Deciding a request: callback (signed, single-use nonce), decision link   *)
(* and trusted bridge.                                                      *)
(***************************************************************************)

\* What a decision presents.  The trusted endpoint refuses a wrong bridge
\* token before it reads anything, so a refused call takes no step there.
Credentials(via) ==
  CASE via = "callback" -> {"valid", "bad_token", "bad_signature"}
    [] via = "link"     -> {"valid", "bad_token"}
    [] OTHER            -> {"valid"}

AllowedApprover(who) == Allowlist = {} \/ who \in Allowlist

Accepts(cred, who) == cred = "valid" /\ AllowedApprover(who)

\* A checked decision goes to the vote table if it approves a row that needs
\* two approvers, else straight to the final update.
AfterChecks(call) ==
  IF call.approve /\ call.dual THEN "vote" ELSE "finalize"

\* History: an approval whose presenter was entitled to give it.
Entitled(cred, who) == cred = "valid" /\ (Allowlist # {} => who \in Allowlist)

RememberGrant(r, approve, cred, who) ==
  grants' = IF approve /\ Entitled(cred, who)
            THEN [grants EXCEPT ![r] = @ \cup {who}] ELSE grants

\* The read every decision handler begins with, kept while it runs.
Call(via, r, approve, who) ==
  [Idle EXCEPT !.via = via, !.req = r, !.approve = approve, !.who = who,
               !.dual = IsDualTarget(db[r])]

AnswerFinalized(w, r) ==
  /\ At(w, "idle") /\ MayBegin
  /\ db[r].status \in Final
  /\ \E via \in Channels :
       proc' = [proc EXCEPT ![w] =
                  [Idle EXCEPT
                     !.pc = IF via = "callback" THEN "reread" ELSE "apply",
                     !.via = via, !.req = r, !.key = db[r].action]]
  /\ UNCHANGED <<db, tables, audit, sweeper, writers, ghosts, now, crashes>>

FindOverdue(w, r) ==
  /\ At(w, "idle") /\ MayBegin
  /\ Open(db[r]) /\ PastDeadline(db[r])
  /\ \E via \in Channels, who \in Approvers :
       proc' = [proc EXCEPT ![w] =
                  [Idle EXCEPT !.pc = "expire", !.via = via, !.req = r, !.who = who]]
  /\ UNCHANGED <<db, tables, audit, sweeper, writers, ghosts, now, crashes>>

\* A callback burns its nonce before its credentials are looked at.
BeginCallback(w, r) ==
  /\ At(w, "idle") /\ MayBegin
  /\ "callback" \in Channels
  /\ Open(db[r]) /\ ~PastDeadline(db[r])
  /\ \E approve \in BOOLEAN, who \in Approvers :
       proc' = [proc EXCEPT ![w] =
                  [Call("callback", r, approve, who) EXCEPT !.pc = "nonce"]]
  /\ UNCHANGED <<db, tables, audit, sweeper, writers, ghosts, now, crashes>>

CheckCallback(w) ==
  /\ At(w, "nonce")
  /\ \E nonce \in Nonces \ nonces, cred \in Credentials("callback") :
       /\ nonces' = nonces \cup {nonce}
       /\ RememberGrant(proc[w].req, proc[w].approve, cred, proc[w].who)
       /\ IF Accepts(cred, proc[w].who)
          THEN Goto(w, AfterChecks(proc[w])) ELSE Done(w)
  /\ UNCHANGED <<db, votes, audit, sweeper, writers, keys, now, crashes>>

\* The nonce was seen before: the call fails with nonce_replayed.
RefuseReplay(w) ==
  /\ At(w, "nonce") /\ nonces # {}
  /\ Done(w)
  /\ UNCHANGED <<db, tables, audit, sweeper, writers, ghosts, now, crashes>>

\* Link and trusted decisions run all their checks on the row just read.
BeginUnsigned(w, r) ==
  /\ At(w, "idle") /\ MayBegin
  /\ Open(db[r]) /\ ~PastDeadline(db[r])
  /\ \E via \in Channels \ {"callback"}, approve \in BOOLEAN, who \in Approvers :
     \E cred \in Credentials(via) :
       /\ Accepts(cred, who)
       /\ RememberGrant(r, approve, cred, who)
       /\ LET call == Call(via, r, approve, who) IN
            proc' = [proc EXCEPT ![w] = [call EXCEPT !.pc = AfterChecks(call)]]
  /\ UNCHANGED <<db, tables, audit, sweeper, writers, keys, now, crashes>>

\* Fault: the row is expired without an audit event.
ExpireOverdueUnaudited(w) ==
  /\ At(w, "expire")
  /\ SetDecision(proc[w].req, "EXPIRED", "timeout_auto_reject", proc[w].who, "ESC")
  /\ proc' = [proc EXCEPT ![w].pc = "apply", ![w].key = "ESC"]
  /\ UNCHANGED <<tables, audit, sweeper, writers, ghosts, now, crashes>>

ExpireOverdue(w) ==
  /\ At(w, "expire")
  /\ SetDecision(proc[w].req, "EXPIRED", "timeout_auto_reject", proc[w].who, "ESC")
  /\ Decided(w, "EXPIRED", "ESC")
  /\ UNCHANGED <<tables, audit, sweeper, writers, ghosts, now, crashes>>

\* One vote per approver: a second vote of the same approver changes nothing.
RecordVote(w) ==
  /\ At(w, "vote")
  /\ votes' = [votes EXCEPT ![proc[w].req] = @ \cup {proc[w].who}]
  /\ Goto(w, "count")
  /\ UNCHANGED <<db, nonces, audit, sweeper, writers, ghosts, now, crashes>>

\* Fault: one vote is enough.
CountAnyVote(w) ==
  /\ At(w, "count")
  /\ Goto(w, IF votes[proc[w].req] # {} THEN "finalize" ELSE "await")
  /\ UNCHANGED <<db, tables, audit, sweeper, writers, ghosts, now, crashes>>

CountVotes(w) ==
  /\ At(w, "count")
  /\ Goto(w, IF AtLeastTwo(votes[proc[w].req]) THEN "finalize" ELSE "await")
  /\ UNCHANGED <<db, tables, audit, sweeper, writers, ghosts, now, crashes>>

\* Fault: the first vote already records the key the second will press.
AwaitSecondEager(w) ==
  /\ At(w, "await")
  /\ SetDecision(proc[w].req, "PENDING", "awaiting_second_approval_high_risk",
                 proc[w].who, "ENTER")
  /\ Decided(w, "WAIT", Null)
  /\ UNCHANGED <<tables, audit, sweeper, writers, ghosts, now, crashes>>

\* The first vote puts the row back to PENDING, whatever it has become since
\* it was read.  The only vote counted is the caller's own.
AwaitSecond(w) ==
  /\ At(w, "await")
  /\ SetDecision(proc[w].req, "PENDING", "awaiting_second_approval_high_risk",
                 proc[w].who, Null)
  /\ Decided(w, "WAIT", Null)
  /\ UNCHANGED <<tables, audit, sweeper, writers, ghosts, now, crashes>>

Finalize(w) ==
  /\ At(w, "finalize")
  /\ IF proc[w].approve
     THEN /\ SetDecision(proc[w].req, "APPROVED", "approved", proc[w].who, "ENTER")
          /\ Decided(w, "APPROVED", "ENTER")
     ELSE /\ SetDecision(proc[w].req, "REJECTED", "rejected", proc[w].who, "ESC")
          /\ Decided(w, "REJECTED", "ESC")
  /\ UNCHANGED <<tables, audit, sweeper, writers, ghosts, now, crashes>>

AuditOutcome(w) ==
  /\ At(w, "audit")
  /\ Log(proc[w].req, proc[w].outcome)
  /\ Goto(w, IF proc[w].via = "callback" THEN "reread" ELSE "apply")
  /\ UNCHANGED <<db, tables, sweeper, writers, ghosts, now, crashes>>

\* The callback endpoint forgets the result and applies what the row says now.
Reread(w) ==
  /\ At(w, "reread")
  /\ proc' = [proc EXCEPT ![w].pc = "apply", ![w].key = db[proc[w].req].action]
  /\ UNCHANGED <<db, tables, audit, sweeper, writers, ghosts, now, crashes>>

ApplyKey(w) ==
  /\ At(w, "apply")
  /\ Press(proc[w].req, proc[w].key)
  /\ IF proc[w].via = "create" THEN Goto(w, "reply") ELSE Done(w)
  /\ UNCHANGED <<db, tables, audit, sweeper, writers, grants, now, crashes>>
-----------------------------------------------------------------------------
(***************************************************************************)
(* The expiry loop.                                                        *)
(***************************************************************************)
ExpireDue ==
  /\ sweeper.pc = "wait" /\ MayBegin
  /\ Due # {}
  /\ db' = [r \in Requests |->
              IF r \in Due THEN Swept(db[r]) ELSE db[r]]
  /\ sweeper' = [Resting EXCEPT !.pc = "audit", !.toAudit = Due, !.toApply = Due]
  /\ UNCHANGED <<tables, audit, proc, writers, ghosts, now, crashes>>

AuditExpired ==
  /\ sweeper.pc = "audit"
  /\ \E r \in sweeper.toAudit :
       /\ Log(r, "EXPIRED")
       /\ sweeper' = [sweeper EXCEPT
            !.toAudit = @ \ {r},
            !.pc = IF sweeper.toAudit = {r} THEN "read" ELSE "audit"]
  /\ UNCHANGED <<db, tables, proc, writers, ghosts, now, crashes>>

\* The loop reads each expired row again before it touches the terminal.
ReadExpired ==
  /\ sweeper.pc = "read"
  /\ \E r \in sweeper.toApply :
       sweeper' = [sweeper EXCEPT !.toApply = @ \ {r}, !.pc = "apply",
                                  !.req = r, !.key = db[r].action]
  /\ UNCHANGED <<db, tables, audit, proc, writers, ghosts, now, crashes>>

ApplyExpired ==
  /\ sweeper.pc = "apply"
  /\ Press(sweeper.req, sweeper.key)
  /\ sweeper' = IF sweeper.toApply = {} THEN Resting
                ELSE [sweeper EXCEPT !.pc = "read"]
  /\ UNCHANGED <<db, tables, audit, proc, writers, grants, now, crashes>>
-----------------------------------------------------------------------------
(***************************************************************************)
(* The surroundings: terminals come and go, time passes, the gateway       *)
(* restarts.  The tables and the audit log outlive a restart.              *)
(***************************************************************************)
Register(r) ==
  /\ r \notin writers
  /\ writers' = writers \cup {r}
  /\ UNCHANGED <<db, tables, audit, proc, sweeper, ghosts, now, crashes>>

Unregister(r) ==
  /\ r \in writers
  /\ writers' = writers \ {r}
  /\ UNCHANGED <<db, tables, audit, proc, sweeper, ghosts, now, crashes>>

Tick ==
  /\ now < MaxTime /\ MayBegin
  /\ now' = now + 1
  /\ UNCHANGED <<db, tables, audit, proc, sweeper, writers, ghosts, crashes>>

Restart ==
  /\ crashes < MaxCrashes
  /\ crashes' = crashes + 1
  /\ proc' = [w \in Workers |-> Idle]
  /\ sweeper' = Resting
  /\ writers' = {}
  /\ UNCHANGED <<db, tables, audit, ghosts, now>>
-----------------------------------------------------------------------------
Init ==
  /\ db = [r \in Requests |-> AbsentRow]
  /\ votes = [r \in Requests |-> {}]
  /\ nonces = {}
  /\ audit = {}
  /\ proc = [w \in Workers |-> Idle]
  /\ sweeper = Resting
  /\ writers = {}
  /\ keys = [r \in Requests |-> {}]
  /\ grants = [r \in Requests |-> {}]
  /\ now = 0
  /\ crashes = 0

Begin(w, r) ==
  \/ Insert(w, r)
  \/ AnswerFinalized(w, r)
  \/ FindOverdue(w, r)
  \/ BeginCallback(w, r)
  \/ BeginUnsigned(w, r)

Continue(w) ==
  \/ RecordBlock(w) \/ AuditCreated(w) \/ Notify(w) \/ ReadUndelivered(w)
  \/ RejectUndelivered(w) \/ Reply(w)
  \/ CheckCallback(w) \/ RefuseReplay(w) \/ ExpireOverdue(w)
  \/ RecordVote(w) \/ CountVotes(w) \/ AwaitSecond(w) \/ Finalize(w)
  \/ AuditOutcome(w) \/ Reread(w) \/ ApplyKey(w)

ExpireLoop == ExpireDue \/ AuditExpired \/ ReadExpired \/ ApplyExpired

Next ==
  \/ \E w \in Workers, r \in Requests : Begin(w, r)
  \/ \E w \in Workers : Continue(w)
  \/ ExpireLoop
  \/ \E r \in Requests : Register(r) \/ Unregister(r)
  \/ Tick
  \/ Restart

\* A started handler finishes, the loop keeps polling and the clock moves.
\* Nobody has to create a request, decide one or attach a terminal.
Fairness ==
  /\ \A w \in Workers : WF_vars(Continue(w))
  /\ WF_vars(ExpireLoop)
  /\ WF_vars(Tick)

Spec == Init /\ [][Next]_vars
FairSpec == Spec /\ Fairness
-----------------------------------------------------------------------------
(***************************************************************************)
(* Properties.                                                             *)
(***************************************************************************)
SweeperState ==
  [pc: {"wait", "audit", "read", "apply"}, toAudit: SUBSET Requests,
   toApply: SUBSET Requests, req: Requests \cup {Null}, key: Keys \cup {Null}]

\* Every table, log and local variable keeps the shape the code gives it.
TypeOK ==
  /\ db \in [Requests -> Row]
  /\ votes \in [Requests -> SUBSET Approvers]
  /\ nonces \subseteq Nonces
  /\ audit \subseteq Requests \X Final
  /\ proc \in [Workers -> Handler]
  /\ sweeper \in SweeperState
  /\ writers \subseteq Requests
  /\ keys \in [Requests -> SUBSET Keys]
  /\ grants \in [Requests -> SUBSET Approvers]
  /\ now \in 0..MaxTime
  /\ crashes \in 0..MaxCrashes

NeedsTwo(r) == DualApproval /\ db[r].risk = "L3"

\* Enough entitled approvers stand behind the request.
Backed(r) == grants[r] # {} /\ (NeedsTwo(r) => AtLeastTwo(grants[r]))

\* Whatever the interleaving of handlers, sweeps and restarts, a row orders
\* ENTER, and ENTER reaches a terminal, only when the request has the approval
\* of an entitled approver, or of two different ones if it is a high-risk
\* request under dual approval (approval_service.py:598-665).
DualAuthority ==
  \A r \in Requests :
    db[r].action = "ENTER" \/ "ENTER" \in keys[r] => Backed(r)

\* A blocked command is refused for good: no decision, late write or restart
\* between its two store calls revives its row or presses ENTER for it
\* (approval_service.py:60-101).
BlockedIsFinal ==
  [][\A r \in Requests :
       db[r].reason = "blocked_high_risk_command" =>
         /\ db'[r].reason = "blocked_high_risk_command"
         /\ db'[r].status = "REJECTED"
         /\ "ENTER" \notin keys'[r]]_vars

\* A handler or the loop still has the audit record of this outcome to write.
AuditPending(r, status) ==
  \/ \E w \in Workers :
       /\ proc[w].req = r /\ proc[w].outcome = status
       /\ proc[w].pc \in {"audit", "created", "block"}
  \/ status = "EXPIRED" /\ r \in sweeper.toAudit

\* Unless the gateway was restarted in between, a status that can be read from
\* the table is in the audit log, or its writer is about to put it there:
\* every path that decides a row is audited (approval_service.py:103, 158,
\* 280, 503, 570).
AuditTrailComplete ==
  crashes = 0 =>
    \A r \in Requests :
      db[r].status \in Final =>
        <<r, db[r].status>> \in audit \/ AuditPending(r, db[r].status)

\* Every request is eventually decided or expired and stays so, even though a
\* late first vote can put a decided row back to PENDING: the loop finds it
\* again (storage.py:311-335, main.py:844-864).
EventuallySettled ==
  <>[](\A r \in Requests : db[r].status # "PENDING")

\* A pending request whose terminal stays attached gets a key pressed in the
\* end: every path that closes a request goes on to apply its terminal action.
TerminalReleased ==
  \A r \in Requests :
    (db[r].status = "PENDING" /\ r \in writers) ~>
      (keys[r] # {} \/ r \notin writers)

\* The approver a row names for its approval is one of those entitled to give
\* it, even when several handlers write the row.
ApprovalAttributed ==
  \A r \in Requests :
    db[r].status = "APPROVED" => db[r].approver \in grants[r]

\* "Reject short-circuits" (README.md:263, tests/test_approval_flow.py:385): a
\* dual-approval request that an approver rejected is not open for votes again.
RejectShortCircuits ==
  [][\A r \in Requests :
       db[r].status = "REJECTED" /\ db[r].reason = "rejected" =>
         db'[r].status # "PENDING"]_vars

(***************************************************************************)
(* The inductive invariant behind DualAuthority, ApprovalAttributed and    *)
(* BlockedIsFinal.                                                         *)
(***************************************************************************)
Blocked(r) == db[r].reason = "blocked_high_risk_command"

\* A handler here has read a pending row and may still vote on it or write it.
Deciding == {"nonce", "vote", "count", "await", "finalize", "expire", "discard"}

\* What the tables, the log of keys and the entitled approvals agree on.
RowOK(r) ==
  /\ db[r].status = "ABSENT" =>
       db[r].reason = "none" /\ db[r].action = Null /\ grants[r] = {} /\ keys[r] = {}
  /\ Blocked(r) => db[r].status = "REJECTED" /\ grants[r] = {}
  /\ votes[r] \subseteq grants[r]
  /\ db[r].action = "ENTER" \/ "ENTER" \in keys[r] => Backed(r)
  /\ db[r].status = "APPROVED" => db[r].approver \in grants[r]

\* What a handler holds is still true of the tables when it acts on it: the
\* row exists and is not a blocked one, the approver has been accepted, the
\* votes it counted are still there, and an ENTER in hand is backed.
HandlerOK(h) ==
  h.pc # "idle" =>
    /\ h.req \in Requests /\ db[h.req].status # "ABSENT"
    /\ h.pc \in Deciding => ~Blocked(h.req)
    /\ h.pc \in Deciding \ {"discard"} => h.who \in Approvers
    /\ h.pc \in {"nonce", "vote", "count", "finalize"} => (h.dual <=> NeedsTwo(h.req))
    /\ h.pc \in {"vote", "count"} => h.approve
    /\ h.pc \in {"vote", "count", "finalize"} /\ h.approve => h.who \in grants[h.req]
    /\ h.pc = "finalize" /\ h.approve /\ h.dual => AtLeastTwo(votes[h.req])
    /\ h.pc = "block" => Blocked(h.req)
    /\ h.key = "ENTER" => Backed(h.req)

\* The loop only holds rows that exist, and an ENTER it re-read is backed.
SweeperOK ==
  /\ \A r \in sweeper.toAudit \cup sweeper.toApply : db[r].status # "ABSENT"
  /\ sweeper.pc = "apply" =>
       sweeper.req \in Requests /\ db[sweeper.req].status # "ABSENT"
  /\ sweeper.pc = "apply" /\ sweeper.key = "ENTER" => Backed(sweeper.req)

\* Holds initially, is preserved by every step, and implies the safety
\* properties above; proved so in ApprovalGatewayProofs.
IInv ==
  /\ TypeOK
  /\ \A r \in Requests : RowOK(r)
  /\ \A w \in Workers : HandlerOK(proc[w])
  /\ SweeperOK

(***************************************************************************)
(* The contract: what a row means to those who wait for it.                *)
(***************************************************************************)
VerdictOf(status) ==
  CASE status = "ABSENT"   -> "none"
    [] status = "PENDING"  -> "open"
    [] status = "APPROVED" -> "approved"
    [] status = "REJECTED" -> "rejected"
    [] status = "EXPIRED"  -> "expired"

Contract == INSTANCE ApprovalContract WITH
  verdict <- [r \in Requests |-> VerdictOf(db[r].status)],
  strict  <- [r \in Requests |-> NeedsTwo(r)],
  backers <- grants,
  pressed <- keys

\* With handlers, sweeps and restarts interleaved in any order the gateway
\* never approves or presses ENTER without enough approvers.
KeepsAuthority == Contract!AuthoritySpec

\* With one handler or sweep at a time it also never goes back on a verdict
\* and never presses a key the verdict does not call for.
KeepsContract == Contract!Spec
=============================================================================
