----------------------- MODULE ApprovalGatewayProofs -----------------------
(***************************************************************************)
(* Proofs about ApprovalGateway, for any number of requests, approvers,    *)
(* nonces, handler threads and restarts, every schedule, and every value   *)
(* of the settings.                                                        *)
(***************************************************************************)
EXTENDS ApprovalGateway, TLAPS

-----------------------------------------------------------------------------
(***************************************************************************)
(* The operators that steps are built from.                                *)
(***************************************************************************)

\* set_decision touches one row, and of that row neither the risk level nor
\* whether it exists.
LEMMA SetDecisionRow ==
  ASSUME db \in [Requests -> Row], NEW r \in Requests,
         NEW status \in Status, NEW reason \in Reasons, NEW who \in Deciders,
         NEW key \in Keys \cup {Null},
         SetDecision(r, status, reason, who, key)
  PROVE  /\ db' \in [Requests -> Row]
         /\ db'[r].status = status /\ db'[r].reason = reason
         /\ db'[r].approver = who /\ db'[r].action = key
         /\ \A q \in Requests : db'[q].risk = db[q].risk
         /\ \A q \in Requests : q # r => db'[q] = db[q]
BY DEF SetDecision, Row

LEMMA AbsentRowType == AbsentRow \in Row
BY DEF AbsentRow, Row, Status, Final, Reasons, Deciders

LEMMA IdleType == Idle \in Handler /\ Idle.pc = "idle"
BY DEF Idle, Handler, Labels, Status

\* A step of one thread leaves the others where they are.
LEMMA GotoStep ==
  ASSUME proc \in [Workers -> Handler], NEW w \in Workers, NEW l \in Labels,
         Goto(w, l)
  PROVE  /\ proc' \in [Workers -> Handler]
         /\ proc'[w] = [proc[w] EXCEPT !.pc = l]
         /\ \A v \in Workers : v # w => proc'[v] = proc[v]
BY DEF Goto, Handler

LEMMA DoneStep ==
  ASSUME proc \in [Workers -> Handler], NEW w \in Workers, Done(w)
  PROVE  /\ proc' \in [Workers -> Handler]
         /\ proc'[w].pc = "idle"
         /\ \A v \in Workers : v # w => proc'[v] = proc[v]
BY IdleType DEF Done

LEMMA DecidedStep ==
  ASSUME proc \in [Workers -> Handler], NEW w \in Workers,
         NEW outcome \in Status \cup {"WAIT"}, NEW key \in Keys \cup {Null},
         Decided(w, outcome, key)
  PROVE  /\ proc' \in [Workers -> Handler]
         /\ proc'[w].pc = "audit" /\ proc'[w].req = proc[w].req
         /\ proc'[w].key = key
         /\ \A v \in Workers : v # w => proc'[v] = proc[v]
BY IdleType DEF Decided, Handler, Labels

-----------------------------------------------------------------------------
(***************************************************************************)
(* What one thread may do to the tables without disturbing the others.     *)
(***************************************************************************)

\* Existing rows stay, keep their risk level and remain blocked or not;
\* votes and entitled approvals are only added.
Frame ==
  /\ \A r \in Requests :
       db[r].status # "ABSENT" =>
         /\ db'[r].status # "ABSENT"
         /\ db'[r].risk = db[r].risk
         /\ Blocked(r)' <=> Blocked(r)
  /\ \A r \in Requests :
       grants[r] \subseteq grants'[r] /\ votes[r] \subseteq votes'[r]

\* Enough approvers stay enough.
LEMMA BackedKept ==
  ASSUME Frame, NEW r \in Requests, db[r].status # "ABSENT", Backed(r)
  PROVE  Backed(r)'
BY DEF Frame, Backed, NeedsTwo, AtLeastTwo

\* A handler that stands still keeps its invariant.
LEMMA HandlerKept ==
  ASSUME Frame, NEW h \in Handler, HandlerOK(h)
  PROVE  HandlerOK(h)'
<1> SUFFICES ASSUME h.pc # "idle" PROVE HandlerOK(h)'
  BY DEF HandlerOK
<1>1. h.req \in Requests /\ db[h.req].status # "ABSENT"
  BY DEF HandlerOK
<1>2. NeedsTwo(h.req)' <=> NeedsTwo(h.req)
  BY <1>1 DEF Frame, NeedsTwo
<1>3. h.key = "ENTER" => Backed(h.req)'
  BY <1>1, BackedKept DEF HandlerOK
<1>4. AtLeastTwo(votes[h.req]) => AtLeastTwo(votes[h.req])'
  BY <1>1 DEF Frame, AtLeastTwo
<1> QED
  BY <1>1, <1>2, <1>3, <1>4 DEF HandlerOK, Frame

LEMMA OthersKept ==
  ASSUME IInv, Frame, NEW w \in Workers,
         proc' \in [Workers -> Handler],
         \A v \in Workers : v # w => proc'[v] = proc[v],
         HandlerOK(proc[w])'
  PROVE  \A v \in Workers : HandlerOK(proc[v])'
<1> SUFFICES ASSUME NEW v \in Workers, v # w PROVE HandlerOK(proc[v])'
  OBVIOUS
<1>1. proc[v] \in Handler /\ HandlerOK(proc[v])
  BY DEF IInv, TypeOK
<1>2. proc'[v] = proc[v]
  OBVIOUS
<1> QED
  BY <1>1, <1>2, HandlerKept DEF HandlerOK, Backed, NeedsTwo, Blocked

\* Nothing that the invariant speaks of has changed.
LEMMA TablesKept ==
  ASSUME IInv, UNCHANGED <<db, votes, grants, keys>>
  PROVE  Frame /\ \A r \in Requests : RowOK(r)'
BY DEF IInv, Frame, RowOK, Blocked, Backed, NeedsTwo

LEMMA SweeperKept ==
  ASSUME IInv, Frame, UNCHANGED sweeper
  PROVE  SweeperOK'
<1> USE DEF IInv, TypeOK, SweeperState
<1>1. \A r \in sweeper.toAudit \cup sweeper.toApply : db'[r].status # "ABSENT"
  BY DEF SweeperOK, Frame
<1>2. sweeper.pc = "apply" =>
        /\ sweeper.req \in Requests /\ db'[sweeper.req].status # "ABSENT"
        /\ sweeper.key = "ENTER" => Backed(sweeper.req)'
  BY BackedKept DEF SweeperOK, Frame
<1> QED
  BY <1>1, <1>2 DEF SweeperOK, Backed, NeedsTwo

\* A write to an existing row keeps the invariant if it does not approve or
\* order ENTER without backing, and neither blocks nor unblocks the row.
LEMMA WriteKept ==
  ASSUME IInv, NEW r \in Requests, db[r].status # "ABSENT",
         NEW status \in Final \cup {"PENDING"}, NEW reason \in Reasons,
         NEW who \in Deciders, NEW key \in Keys \cup {Null},
         SetDecision(r, status, reason, who, key),
         UNCHANGED <<votes, grants, keys>>,
         Blocked(r) <=> reason = "blocked_high_risk_command",
         Blocked(r) => status = "REJECTED",
         key = "ENTER" => Backed(r),
         status = "APPROVED" => who \in grants[r]
  PROVE  /\ db' \in [Requests -> Row]
         /\ Frame
         /\ \A q \in Requests : RowOK(q)'
<1>1. /\ db' \in [Requests -> Row]
      /\ db'[r].status = status /\ db'[r].reason = reason
      /\ db'[r].approver = who /\ db'[r].action = key
      /\ \A q \in Requests : db'[q].risk = db[q].risk
      /\ \A q \in Requests : q # r => db'[q] = db[q]
  BY SetDecisionRow DEF IInv, TypeOK, Status
<1>2. Frame
  BY <1>1 DEF Frame, Blocked, Final
<1>3. ASSUME NEW q \in Requests PROVE RowOK(q)'
  <2>1. RowOK(q)
    BY DEF IInv
  <2>2. Backed(q)' <=> Backed(q)
    BY <1>1 DEF Backed, NeedsTwo
  <2>3. CASE q # r
    BY <1>1, <2>1, <2>2, <2>3 DEF RowOK, Blocked
  <2>4. CASE q = r
    BY <1>1, <2>1, <2>2, <2>4 DEF RowOK, Blocked, Final
  <2> QED BY <2>3, <2>4
<1> QED BY <1>1, <1>2, <1>3

\* A key pressed for an existing request keeps the invariant if an ENTER is
\* backed.
LEMMA PressKept ==
  ASSUME IInv, NEW r \in Requests, db[r].status # "ABSENT",
         NEW key \in Keys \cup {Null}, Press(r, key),
         UNCHANGED <<db, votes, grants>>,
         key = "ENTER" => Backed(r)
  PROVE  /\ keys' \in [Requests -> SUBSET Keys]
         /\ Frame
         /\ \A q \in Requests : RowOK(q)'
<1>1. /\ keys' \in [Requests -> SUBSET Keys]
      /\ keys'[r] \subseteq keys[r] \cup {key}
      /\ \A q \in Requests : q # r => keys'[q] = keys[q]
  BY DEF Press, IInv, TypeOK
<1>2. Frame
  BY DEF Frame, Blocked
<1>3. ASSUME NEW q \in Requests PROVE RowOK(q)'
  <2>1. RowOK(q) /\ (Backed(q)' <=> Backed(q))
    BY DEF IInv, Backed, NeedsTwo
  <2>2. "ENTER" \in keys'[q] => "ENTER" \in keys[q] \/ (q = r /\ key = "ENTER")
    BY <1>1
  <2> QED BY <1>1, <2>1, <2>2 DEF RowOK, Blocked
<1> QED BY <1>1, <1>2, <1>3

\* An entitled approval of an existing, unblocked request is only an addition.
LEMMA GrantKept ==
  ASSUME IInv, NEW r \in Requests, db[r].status # "ABSENT", ~Blocked(r),
         NEW approve \in BOOLEAN, NEW cred, NEW who \in Approvers,
         RememberGrant(r, approve, cred, who),
         UNCHANGED <<db, votes, keys>>
  PROVE  /\ grants' \in [Requests -> SUBSET Approvers]
         /\ approve /\ Accepts(cred, who) => who \in grants'[r]
         /\ Frame
         /\ \A q \in Requests : RowOK(q)'
<1>1. /\ grants' \in [Requests -> SUBSET Approvers]
      /\ \A q \in Requests : grants[q] \subseteq grants'[q]
      /\ \A q \in Requests : q # r => grants'[q] = grants[q]
      /\ approve /\ Accepts(cred, who) => who \in grants'[r]
  BY DEF RememberGrant, Accepts, Entitled, AllowedApprover, IInv, TypeOK
<1>2. Frame
  BY <1>1 DEF Frame, Blocked
<1>3. ASSUME NEW q \in Requests PROVE RowOK(q)'
  <2>1. RowOK(q)
    BY DEF IInv
  <2>2. db[q].status # "ABSENT" /\ Backed(q) => Backed(q)'
    BY <1>2, BackedKept
  <2>3. db[q].action = "ENTER" => db[q].status # "ABSENT"
    BY <2>1, ConstantsAssumption DEF RowOK
  <2>4. "ENTER" \in keys[q] => db[q].status # "ABSENT"
    BY <2>1 DEF RowOK
  <2> QED BY <1>1, <2>1, <2>2, <2>3, <2>4 DEF RowOK, Blocked
<1> QED BY <1>1, <1>2, <1>3

-----------------------------------------------------------------------------
(***************************************************************************)
(* The invariant: initially, and step by step.                             *)
(***************************************************************************)
LEMMA InitIInv == Init => IInv
<1> SUFFICES ASSUME Init PROVE IInv
  OBVIOUS
<1>1. TypeOK
  BY ConstantsAssumption, AbsentRowType, IdleType
     DEF Init, TypeOK, Resting, SweeperState
<1>2. \A r \in Requests : RowOK(r)
  BY ConstantsAssumption DEF Init, RowOK, AbsentRow, Blocked
<1>3. \A w \in Workers : HandlerOK(proc[w])
  BY IdleType DEF Init, HandlerOK
<1>4. SweeperOK
  BY DEF Init, SweeperOK, Resting
<1> QED BY <1>1, <1>2, <1>3, <1>4 DEF IInv

\* What remains to show of a step of thread w that leaves the loop alone.
LEMMA ThreadStep ==
  ASSUME IInv, NEW w \in Workers, Frame,
         db' \in [Requests -> Row], votes' \in [Requests -> SUBSET Approvers],
         nonces' \subseteq Nonces, audit' \subseteq Requests \X Final,
         keys' \in [Requests -> SUBSET Keys],
         grants' \in [Requests -> SUBSET Approvers],
         UNCHANGED <<sweeper, writers, now, crashes>>,
         \A r \in Requests : RowOK(r)',
         proc' \in [Workers -> Handler],
         \A v \in Workers : v # w => proc'[v] = proc[v],
         HandlerOK(proc[w])'
  PROVE  IInv' /\ Frame
<1>1. TypeOK'
  BY DEF IInv, TypeOK
<1>2. \A v \in Workers : HandlerOK(proc[v])'
  BY OthersKept
<1>3. SweeperOK'
  BY SweeperKept
<1> QED BY <1>1, <1>2, <1>3 DEF IInv

LEMMA LogType ==
  ASSUME TypeOK, NEW r \in Requests, NEW outcome, Log(r, outcome)
  PROVE  audit' \subseteq Requests \X Final
BY DEF TypeOK, Log

LEMMA BeginKeepsIInv ==
  ASSUME IInv, NEW w \in Workers, NEW r \in Requests, Begin(w, r)
  PROVE  IInv' /\ Frame
<1>1. TypeOK /\ RowOK(r) /\ \A q \in Requests : RowOK(q)
  BY DEF IInv
<1>2. CASE Insert(w, r)
  <2>1. PICK wrapped \in Sources, verdict \in Verdicts :
          /\ db' = [db EXCEPT ![r] =
               [status   |-> IF verdict.blocked THEN "REJECTED" ELSE "PENDING",
                risk     |-> verdict.risk,
                reason   |-> IF verdict.blocked THEN "blocked_high_risk_command"
                             ELSE IF DualApproval /\ verdict.risk = "L3"
                                  THEN "awaiting_first_approval_high_risk"
                                  ELSE "policy",
                wrapped  |-> wrapped,
                approver |-> Null,
                action   |-> Null,
                expires  |-> now + Timeout]]
          /\ proc' = [proc EXCEPT ![w] = [Idle EXCEPT
               !.req = r,
               !.pc = IF verdict.blocked THEN "block" ELSE "created",
               !.outcome = IF verdict.blocked THEN "REJECTED" ELSE "PENDING"]]
    BY <1>2 DEF Insert
  <2> DEFINE blocked == verdict.blocked
  <2>0. blocked \in BOOLEAN /\ verdict.risk \in Risks \cup {"L3"}
    BY DEF Verdicts
  <2>2. /\ db[r].status = "ABSENT"
        /\ UNCHANGED <<votes, nonces, audit, sweeper, writers, keys, grants,
                       now, crashes>>
    BY <1>2 DEF Insert, tables, ghosts
  <2>3. now + Timeout \in Nat
    BY <1>1, ConstantsAssumption DEF TypeOK
  <2>4. db' \in [Requests -> Row]
    BY <1>1, <2>0, <2>1, <2>3, ConstantsAssumption
    DEF TypeOK, Row, Status, Final, Reasons, Deciders
  <2>5. /\ db'[r].status = IF blocked THEN "REJECTED" ELSE "PENDING"
        /\ db'[r].action = Null
        /\ Blocked(r)' <=> blocked
        /\ \A q \in Requests : q # r => db'[q] = db[q]
    BY <1>1, <2>1 DEF TypeOK, Blocked
  <2>6. Frame
    BY <2>2, <2>5 DEF Frame, Blocked
  <2>7. ASSUME NEW q \in Requests PROVE RowOK(q)'
    <3>1. CASE q = r
      BY <1>1, <2>2, <2>5, <3>1, ConstantsAssumption DEF RowOK
    <3>2. CASE q # r
      BY <1>1, <2>2, <2>5, <3>2 DEF RowOK, Blocked, Backed, NeedsTwo
    <3> QED BY <3>1, <3>2
  <2>8. /\ proc' \in [Workers -> Handler]
        /\ proc'[w].req = r /\ proc'[w].key = Null
        /\ proc'[w].pc = IF blocked THEN "block" ELSE "created"
        /\ \A v \in Workers : v # w => proc'[v] = proc[v]
    BY <1>1, <2>1 DEF TypeOK, Handler, Labels, Idle, Status, Final
  <2>9. HandlerOK(proc[w])'
    BY <2>5, <2>8, ConstantsAssumption DEF HandlerOK, Deciding
  <2> QED
    BY <1>1, <2>2, <2>4, <2>6, <2>7, <2>8, <2>9, ThreadStep DEF TypeOK
<1>3. CASE AnswerFinalized(w, r)
  <2>1. PICK via \in Channels :
          proc' = [proc EXCEPT ![w] =
            [Idle EXCEPT
               !.pc = IF via = "callback" THEN "reread" ELSE "apply",
               !.via = via, !.req = r, !.key = db[r].action]]
    BY <1>3 DEF AnswerFinalized
  <2>2. /\ db[r].status # "ABSENT"
        /\ UNCHANGED <<db, votes, nonces, audit, sweeper, writers, keys,
                       grants, now, crashes>>
    BY <1>3 DEF AnswerFinalized, tables, ghosts, Final
  <2>3. Frame /\ \A q \in Requests : RowOK(q)'
    BY <2>2, TablesKept
  <2>4. /\ proc' \in [Workers -> Handler]
        /\ proc'[w].req = r /\ proc'[w].key = db[r].action
        /\ proc'[w].pc \in {"reread", "apply"}
        /\ \A v \in Workers : v # w => proc'[v] = proc[v]
    BY <1>1, <2>1, IdleType DEF TypeOK, Handler, Labels, Idle, Row
  <2>5. HandlerOK(proc[w])'
    BY <1>1, <2>2, <2>3, <2>4 DEF HandlerOK, Deciding, RowOK, Backed, NeedsTwo
  <2> QED
    BY <1>1, <2>2, <2>3, <2>4, <2>5, ThreadStep DEF TypeOK
<1>4. CASE FindOverdue(w, r)
  <2>1. PICK via \in Channels, who \in Approvers :
          proc' = [proc EXCEPT ![w] =
            [Idle EXCEPT !.pc = "expire", !.via = via, !.req = r, !.who = who]]
    BY <1>4 DEF FindOverdue
  <2>2. /\ db[r].status = "PENDING"
        /\ UNCHANGED <<db, votes, nonces, audit, sweeper, writers, keys,
                       grants, now, crashes>>
    BY <1>4 DEF FindOverdue, Open, tables, ghosts
  <2>3. Frame /\ \A q \in Requests : RowOK(q)'
    BY <2>2, TablesKept
  <2>4. /\ proc' \in [Workers -> Handler]
        /\ proc'[w].req = r /\ proc'[w].key = Null /\ proc'[w].who \in Approvers
        /\ proc'[w].pc = "expire"
        /\ \A v \in Workers : v # w => proc'[v] = proc[v]
    BY <1>1, <2>1, IdleType DEF TypeOK, Handler, Labels, Idle
  <2>5. HandlerOK(proc[w])'
    BY <1>1, <2>2, <2>4, ConstantsAssumption
       DEF HandlerOK, Deciding, RowOK, Blocked
  <2> QED
    BY <1>1, <2>2, <2>3, <2>4, <2>5, ThreadStep DEF TypeOK
<1>5. CASE BeginCallback(w, r)
  <2>1. PICK approve \in BOOLEAN, who \in Approvers :
          proc' = [proc EXCEPT ![w] =
                     [Call("callback", r, approve, who) EXCEPT !.pc = "nonce"]]
    BY <1>5 DEF BeginCallback
  <2>2. /\ db[r].status = "PENDING" /\ "callback" \in Channels
        /\ UNCHANGED <<db, votes, nonces, audit, sweeper, writers, keys,
                       grants, now, crashes>>
    BY <1>5 DEF BeginCallback, Open, tables, ghosts
  <2>3. Frame /\ \A q \in Requests : RowOK(q)'
    BY <2>2, TablesKept
  <2>4. /\ proc' \in [Workers -> Handler]
        /\ proc'[w].req = r /\ proc'[w].key = Null /\ proc'[w].who \in Approvers
        /\ proc'[w].dual = IsDualTarget(db[r])
        /\ proc'[w].pc = "nonce"
        /\ \A v \in Workers : v # w => proc'[v] = proc[v]
    <3> DEFINE h == [Call("callback", r, approve, who) EXCEPT !.pc = "nonce"]
    <3>1. IsDualTarget(db[r]) \in BOOLEAN /\ "nonce" \in Labels
      BY ConstantsAssumption DEF IsDualTarget, Labels
    <3>2. /\ h \in Handler
          /\ h.req = r /\ h.key = Null /\ h.who \in Approvers
          /\ h.dual = IsDualTarget(db[r]) /\ h.pc = "nonce"
      BY <2>2, <3>1, IdleType DEF Handler, Idle, Call
    <3> HIDE DEF h
    <3>3. proc' = [proc EXCEPT ![w] = h]
      BY <2>1 DEF h
    <3>4. QED
      BY <1>1, <3>2, <3>3 DEF TypeOK
  <2>5. ~Blocked(r) /\ (IsDualTarget(db[r]) <=> NeedsTwo(r))
    BY <1>1, <2>2 DEF RowOK, Blocked, IsDualTarget, NeedsTwo
  <2>6. HandlerOK(proc[w])'
    BY <2>2, <2>4, <2>5, ConstantsAssumption
       DEF HandlerOK, Deciding, Blocked, NeedsTwo
  <2> QED
    BY <1>1, <2>2, <2>3, <2>4, <2>6, ThreadStep DEF TypeOK
<1>6. CASE BeginUnsigned(w, r)
  <2>0. PICK via \in Channels \ {"callback"}, approve \in BOOLEAN,
             who \in Approvers :
          \E cred \in Credentials(via) :
            /\ Accepts(cred, who)
            /\ RememberGrant(r, approve, cred, who)
            /\ proc' = [proc EXCEPT ![w] =
                 [Call(via, r, approve, who) EXCEPT
                    !.pc = AfterChecks(Call(via, r, approve, who))]]
    BY <1>6 DEF BeginUnsigned
  <2>1. PICK cred \in Credentials(via) :
          /\ Accepts(cred, who)
          /\ RememberGrant(r, approve, cred, who)
          /\ proc' = [proc EXCEPT ![w] =
               [Call(via, r, approve, who) EXCEPT
                  !.pc = AfterChecks(Call(via, r, approve, who))]]
    BY <2>0
  <2>2. /\ db[r].status = "PENDING"
        /\ UNCHANGED <<db, votes, nonces, audit, sweeper, writers, keys, now,
                       crashes>>
    BY <1>6 DEF BeginUnsigned, Open, tables, ghosts
  <2>3. ~Blocked(r) /\ (IsDualTarget(db[r]) <=> NeedsTwo(r))
    BY <1>1, <2>2 DEF RowOK, Blocked, IsDualTarget, NeedsTwo
  <2>4. /\ grants' \in [Requests -> SUBSET Approvers]
        /\ approve => who \in grants'[r]
        /\ Frame
        /\ \A q \in Requests : RowOK(q)'
    BY <2>1, <2>2, <2>3, GrantKept
  <2>5. /\ proc' \in [Workers -> Handler]
        /\ proc'[w].req = r /\ proc'[w].key = Null /\ proc'[w].who = who
        /\ proc'[w].approve = approve
        /\ proc'[w].dual = IsDualTarget(db[r])
        /\ proc'[w].pc = IF approve /\ IsDualTarget(db[r])
                         THEN "vote" ELSE "finalize"
        /\ \A v \in Workers : v # w => proc'[v] = proc[v]
    BY <1>1, <2>1, IdleType
       DEF TypeOK, Handler, Labels, Idle, Call, IsDualTarget, AfterChecks
  <2>6. HandlerOK(proc[w])'
    BY <2>2, <2>3, <2>4, <2>5, ConstantsAssumption
       DEF HandlerOK, Deciding, Blocked, NeedsTwo
  <2> QED
    BY <1>1, <2>2, <2>4, <2>5, <2>6, ThreadStep DEF TypeOK
<1> QED
  BY <1>2, <1>3, <1>4, <1>5, <1>6 DEF Begin

\* The facts about the acting thread that every step below starts from.
LEMMA Acting ==
  ASSUME IInv, NEW w \in Workers, proc[w].pc # "idle"
  PROVE  /\ TypeOK /\ proc[w] \in Handler /\ HandlerOK(proc[w])
         /\ proc[w].req \in Requests /\ db[proc[w].req].status # "ABSENT"
         /\ RowOK(proc[w].req)
BY DEF IInv, TypeOK, HandlerOK

\* A step that moves the thread to another label, and the thread alone.
LEMMA MoveKeepsIInv ==
  ASSUME IInv, NEW w \in Workers, proc[w].pc # "idle",
         NEW l \in Labels, Goto(w, l),
         UNCHANGED <<db, votes, nonces, keys, grants, sweeper, writers, now,
                     crashes>>,
         audit' \subseteq Requests \X Final,
         HandlerOK([proc[w] EXCEPT !.pc = l])
  PROVE  IInv' /\ Frame
<1>1. Frame /\ \A r \in Requests : RowOK(r)'
  BY TablesKept
<1>2. /\ proc' \in [Workers -> Handler]
      /\ proc'[w] = [proc[w] EXCEPT !.pc = l]
      /\ \A v \in Workers : v # w => proc'[v] = proc[v]
  BY GotoStep DEF IInv, TypeOK
<1>3. HandlerOK(proc[w])'
  BY <1>1, <1>2 DEF HandlerOK, Blocked, Backed, NeedsTwo
<1> QED
  BY <1>1, <1>2, <1>3, ThreadStep DEF IInv, TypeOK

\* A step that writes the row of the thread and leaves it to audit the outcome.
LEMMA WriteKeepsIInv ==
  ASSUME IInv, NEW w \in Workers, proc[w].pc \in Deciding,
         NEW status \in Final \cup {"PENDING"}, NEW reason \in Reasons,
         reason # "blocked_high_risk_command",
         NEW who \in Deciders, NEW key \in Keys \cup {Null},
         SetDecision(proc[w].req, status, reason, who, key),
         NEW outcome \in Status \cup {"WAIT"}, Decided(w, outcome, key),
         UNCHANGED <<votes, nonces, audit, keys, grants, sweeper, writers, now,
                     crashes>>,
         key = "ENTER" => Backed(proc[w].req),
         status = "APPROVED" => who \in grants[proc[w].req]
  PROVE  IInv' /\ Frame
<1>1. /\ TypeOK /\ HandlerOK(proc[w])
      /\ proc[w].req \in Requests /\ db[proc[w].req].status # "ABSENT"
      /\ ~Blocked(proc[w].req)
  BY Acting DEF HandlerOK, Deciding
<1>2. /\ db' \in [Requests -> Row]
      /\ Frame
      /\ \A q \in Requests : RowOK(q)'
  BY <1>1, WriteKept
<1>3. /\ proc' \in [Workers -> Handler]
      /\ proc'[w].pc = "audit" /\ proc'[w].req = proc[w].req
      /\ proc'[w].key = key
      /\ \A v \in Workers : v # w => proc'[v] = proc[v]
  BY <1>1, DecidedStep DEF TypeOK
<1>4. key = "ENTER" => Backed(proc[w].req)'
  BY <1>1, <1>2, <1>3 DEF Frame, Backed, NeedsTwo
<1>5. HandlerOK(proc[w])'
  BY <1>1, <1>2, <1>3, <1>4 DEF HandlerOK, Deciding, Frame, Backed, NeedsTwo
<1> QED
  BY <1>1, <1>2, <1>3, <1>5, ThreadStep DEF TypeOK

LEMMA CreatingKeepsIInv ==
  ASSUME IInv, NEW w \in Workers,
         \/ RecordBlock(w) \/ AuditCreated(w) \/ Notify(w)
         \/ ReadUndelivered(w) \/ RejectUndelivered(w) \/ Reply(w)
  PROVE  IInv' /\ Frame
<1> DEFINE r == proc[w].req
<1>1. /\ TypeOK /\ proc[w] \in Handler /\ HandlerOK(proc[w])
      /\ r \in Requests /\ db[r].status # "ABSENT" /\ RowOK(r)
  BY Acting DEF At, RecordBlock, AuditCreated, Notify, ReadUndelivered,
                RejectUndelivered, Reply
<1>2. CASE RecordBlock(w)
  <2>1. /\ proc[w].pc = "block"
        /\ SetDecision(r, "REJECTED", "blocked_high_risk_command",
                       "policy-engine", "ESC")
        /\ Goto(w, "created")
        /\ UNCHANGED <<votes, nonces, audit, keys, grants, sweeper, writers,
                       now, crashes>>
    BY <1>2 DEF RecordBlock, At, tables, ghosts
  <2>2. Blocked(r)
    BY <1>1, <2>1 DEF HandlerOK
  <2>3. /\ db' \in [Requests -> Row]
        /\ Frame
        /\ \A q \in Requests : RowOK(q)'
    BY <1>1, <2>1, <2>2, WriteKept DEF Final, Reasons, Deciders, Keys
  <2>4. /\ proc' \in [Workers -> Handler]
        /\ proc'[w] = [proc[w] EXCEPT !.pc = "created"]
        /\ \A v \in Workers : v # w => proc'[v] = proc[v]
    BY <1>1, <2>1, GotoStep DEF TypeOK, Labels
  <2>5. proc[w].key = "ENTER" => Backed(r)'
    BY <1>1, <2>1, <2>3, <2>4 DEF HandlerOK, Frame, Backed, NeedsTwo, Handler
  <2> QED
    BY <1>1, <2>1, <2>3, <2>4, <2>5, ThreadStep
       DEF TypeOK, HandlerOK, Deciding, Frame, Handler, Backed, NeedsTwo
<1>3. CASE AuditCreated(w)
  BY <1>1, <1>3, LogType, MoveKeepsIInv
     DEF AuditCreated, At, tables, ghosts, HandlerOK, Deciding, Labels, Handler
<1>4. CASE Notify(w)
  BY <1>1, <1>4, MoveKeepsIInv
     DEF Notify, At, tables, ghosts, HandlerOK, Deciding, Labels, Handler, TypeOK
<1>5. CASE ReadUndelivered(w)
  <2>1. /\ proc[w].pc = "undelivered"
        /\ UNCHANGED <<db, votes, nonces, audit, keys, grants, sweeper, writers,
                       now, crashes>>
    BY <1>5 DEF ReadUndelivered, At, tables, ghosts
  <2>2. CASE Open(db[r])
    BY <1>1, <1>5, <2>1, <2>2, MoveKeepsIInv
       DEF ReadUndelivered, HandlerOK, Deciding, Labels, Handler, TypeOK, RowOK,
           Open, Blocked
  <2>3. CASE ~Open(db[r])
    <3>1. Frame /\ \A q \in Requests : RowOK(q)'
      BY <2>1, TablesKept
    <3>2. /\ proc' \in [Workers -> Handler]
          /\ proc'[w].pc = "apply" /\ proc'[w].req = r /\ proc'[w].key = "ESC"
          /\ \A v \in Workers : v # w => proc'[v] = proc[v]
      <4> DEFINE h == [Idle EXCEPT !.pc = "apply", !.req = r,
                                   !.outcome = "REJECTED", !.key = "ESC"]
      <4>1. proc' = [proc EXCEPT ![w] = h]
        BY <1>5, <2>3 DEF ReadUndelivered
      <4>2. h \in Handler /\ h.pc = "apply" /\ h.req = r /\ h.key = "ESC"
        BY <1>1 DEF Idle, Handler, Labels, Status, Final, Keys
      <4> HIDE DEF h
      <4> QED
        BY <1>1, <4>1, <4>2 DEF TypeOK
    <3>3. HandlerOK(proc[w])'
      BY <1>1, <2>1, <3>2 DEF HandlerOK, Deciding
    <3> QED
      BY <1>1, <2>1, <3>1, <3>2, <3>3, ThreadStep DEF TypeOK
  <2> QED BY <2>2, <2>3
<1>6. CASE RejectUndelivered(w)
  BY <1>1, <1>6, WriteKeepsIInv
     DEF RejectUndelivered, At, tables, ghosts, Deciding, Reasons, Deciders,
         Final, Status, Keys
<1>7. CASE Reply(w)
  <2>1. PICK key \in {"ESC", Null} : Press(r, key)
    BY <1>7 DEF Reply
  <2>2. /\ Done(w)
        /\ UNCHANGED <<db, votes, nonces, audit, grants, sweeper, writers, now,
                       crashes>>
    BY <1>7 DEF Reply, tables
  <2>3. /\ keys' \in [Requests -> SUBSET Keys]
        /\ Frame
        /\ \A q \in Requests : RowOK(q)'
    BY <1>1, <2>1, <2>2, PressKept, ConstantsAssumption DEF Keys
  <2>4. /\ proc' \in [Workers -> Handler]
        /\ proc'[w].pc = "idle"
        /\ \A v \in Workers : v # w => proc'[v] = proc[v]
    BY <1>1, <2>2, DoneStep DEF TypeOK
  <2> QED
    BY <1>1, <2>2, <2>3, <2>4, ThreadStep DEF TypeOK, HandlerOK
<1> QED
  BY <1>2, <1>3, <1>4, <1>5, <1>6, <1>7

LEMMA DecidingKeepsIInv ==
  ASSUME IInv, NEW w \in Workers,
         \/ CheckCallback(w) \/ RefuseReplay(w) \/ ExpireOverdue(w)
         \/ RecordVote(w) \/ CountVotes(w) \/ AwaitSecond(w) \/ Finalize(w)
  PROVE  IInv' /\ Frame
<1> DEFINE r == proc[w].req
<1>1. /\ TypeOK /\ proc[w] \in Handler /\ HandlerOK(proc[w])
      /\ r \in Requests /\ db[r].status # "ABSENT" /\ RowOK(r)
  BY Acting DEF At, CheckCallback, RefuseReplay, ExpireOverdue, RecordVote,
                CountVotes, AwaitSecond, Finalize
<1>2. CASE CheckCallback(w)
  <2>1. /\ proc[w].pc = "nonce"
        /\ UNCHANGED <<db, votes, audit, keys, sweeper, writers, now, crashes>>
    BY <1>2 DEF CheckCallback, At
  <2>2. PICK nonce \in Nonces \ nonces, cred \in Credentials("callback") :
          /\ nonces' = nonces \cup {nonce}
          /\ RememberGrant(r, proc[w].approve, cred, proc[w].who)
          /\ IF Accepts(cred, proc[w].who)
             THEN Goto(w, AfterChecks(proc[w])) ELSE Done(w)
    BY <1>2 DEF CheckCallback
  <2>3. ~Blocked(r) /\ proc[w].who \in Approvers /\ proc[w].approve \in BOOLEAN
    BY <1>1, <2>1 DEF HandlerOK, Deciding, Handler
  <2>4. /\ grants' \in [Requests -> SUBSET Approvers]
        /\ proc[w].approve /\ Accepts(cred, proc[w].who) => proc[w].who \in grants'[r]
        /\ Frame
        /\ \A q \in Requests : RowOK(q)'
    BY <1>1, <2>1, <2>2, <2>3, GrantKept
  <2>5. CASE Accepts(cred, proc[w].who)
    <3>1. /\ AfterChecks(proc[w]) \in Labels
          /\ AfterChecks(proc[w]) = IF proc[w].approve /\ proc[w].dual
                                    THEN "vote" ELSE "finalize"
      BY DEF AfterChecks, Labels
    <3>2. /\ proc' \in [Workers -> Handler]
          /\ proc'[w] = [proc[w] EXCEPT !.pc = AfterChecks(proc[w])]
          /\ \A v \in Workers : v # w => proc'[v] = proc[v]
      BY <1>1, <2>2, <2>5, <3>1, GotoStep DEF TypeOK
    <3>3. HandlerOK(proc[w])'
      <4>1. proc[w].key = "ENTER" => Backed(r)'
        BY <1>1, <2>1, <2>4, <3>2 DEF HandlerOK, Handler, Frame, Backed, NeedsTwo, AtLeastTwo
      <4>2. NeedsTwo(r)' <=> NeedsTwo(r)
        BY <1>1, <2>1, <3>2 DEF NeedsTwo, Handler
      <4> QED
        BY <1>1, <2>1, <2>3, <2>4, <2>5, <3>1, <3>2, <4>1, <4>2
           DEF HandlerOK, Deciding, Handler, Frame, Backed, NeedsTwo
    <3> QED
      BY <1>1, <2>1, <2>2, <2>4, <3>2, <3>3, ThreadStep DEF TypeOK
  <2>6. CASE ~Accepts(cred, proc[w].who)
    <3>1. /\ proc' \in [Workers -> Handler]
          /\ proc'[w].pc = "idle"
          /\ \A v \in Workers : v # w => proc'[v] = proc[v]
      BY <1>1, <2>2, <2>6, DoneStep DEF TypeOK
    <3> QED
      BY <1>1, <2>1, <2>2, <2>4, <3>1, ThreadStep DEF TypeOK, HandlerOK
  <2> QED BY <2>5, <2>6
<1>3. CASE RefuseReplay(w)
  <2>1. /\ Done(w)
        /\ UNCHANGED <<db, votes, nonces, audit, keys, grants, sweeper, writers,
                       now, crashes>>
    BY <1>3 DEF RefuseReplay, tables, ghosts
  <2>2. Frame /\ \A q \in Requests : RowOK(q)'
    BY <2>1, TablesKept
  <2>3. /\ proc' \in [Workers -> Handler]
        /\ proc'[w].pc = "idle"
        /\ \A v \in Workers : v # w => proc'[v] = proc[v]
    BY <1>1, <2>1, DoneStep DEF TypeOK
  <2> QED
    BY <1>1, <2>1, <2>2, <2>3, ThreadStep DEF TypeOK, HandlerOK
<1>4. CASE ExpireOverdue(w)
  BY <1>1, <1>4, WriteKeepsIInv
     DEF ExpireOverdue, At, tables, ghosts, HandlerOK, Deciding, Reasons,
         Deciders, Final, Status, Keys
<1>5. CASE RecordVote(w)
  <2>1. /\ proc[w].pc = "vote"
        /\ votes' = [votes EXCEPT ![r] = @ \cup {proc[w].who}]
        /\ Goto(w, "count")
        /\ UNCHANGED <<db, nonces, audit, keys, grants, sweeper, writers, now,
                       crashes>>
    BY <1>5 DEF RecordVote, At, ghosts
  <2>2. proc[w].who \in Approvers /\ proc[w].who \in grants[r]
    BY <1>1, <2>1 DEF HandlerOK, Deciding
  <2>3. /\ votes' \in [Requests -> SUBSET Approvers]
        /\ \A q \in Requests : votes[q] \subseteq votes'[q]
        /\ \A q \in Requests : votes[q] \subseteq grants[q] => votes'[q] \subseteq grants[q]
    BY <1>1, <2>1, <2>2 DEF TypeOK
  <2>4. Frame
    BY <2>1, <2>3 DEF Frame, Blocked
  <2>5. \A q \in Requests : RowOK(q)'
    BY <2>1, <2>3 DEF IInv, RowOK, Blocked, Backed, NeedsTwo
  <2>6. /\ proc' \in [Workers -> Handler]
        /\ proc'[w] = [proc[w] EXCEPT !.pc = "count"]
        /\ \A v \in Workers : v # w => proc'[v] = proc[v]
    BY <1>1, <2>1, GotoStep DEF TypeOK, Labels
  <2>7. HandlerOK(proc[w])'
    BY <1>1, <2>1, <2>6 DEF HandlerOK, Deciding, Handler, Blocked, Backed, NeedsTwo
  <2> QED
    BY <1>1, <2>1, <2>3, <2>4, <2>5, <2>6, <2>7, ThreadStep DEF TypeOK
<1>6. CASE CountVotes(w)
  <2>1. /\ proc[w].pc = "count"
        /\ UNCHANGED <<db, votes, nonces, audit, keys, grants, sweeper, writers,
                       now, crashes>>
    BY <1>6 DEF CountVotes, At, tables, ghosts
  <2>2. CASE AtLeastTwo(votes[r])
    <3>1. Goto(w, "finalize")
      BY <1>6, <2>2 DEF CountVotes
    <3> QED
      BY <1>1, <2>1, <2>2, <3>1, MoveKeepsIInv
         DEF HandlerOK, Deciding, Labels, Handler, TypeOK
  <2>3. CASE ~AtLeastTwo(votes[r])
    <3>1. Goto(w, "await")
      BY <1>6, <2>3 DEF CountVotes
    <3> QED
      BY <1>1, <2>1, <3>1, MoveKeepsIInv
         DEF HandlerOK, Deciding, Labels, Handler, TypeOK
  <2> QED BY <2>2, <2>3
<1>7. CASE AwaitSecond(w)
  BY <1>1, <1>7, WriteKeepsIInv, ConstantsAssumption
     DEF AwaitSecond, At, tables, ghosts, HandlerOK, Deciding, Reasons,
         Deciders, Final, Status, Keys
<1>8. CASE Finalize(w)
  <2>1. /\ proc[w].pc = "finalize"
        /\ UNCHANGED <<votes, nonces, audit, keys, grants, sweeper, writers,
                       now, crashes>>
    BY <1>8 DEF Finalize, At, tables, ghosts
  <2>2. proc[w].who \in Approvers
    BY <1>1, <2>1 DEF HandlerOK, Deciding
  <2>3. CASE proc[w].approve
    <3>1. /\ SetDecision(r, "APPROVED", "approved", proc[w].who, "ENTER")
          /\ Decided(w, "APPROVED", "ENTER")
      BY <1>8, <2>3 DEF Finalize
    <3>2. proc[w].who \in grants[r] /\ Backed(r)
      BY <1>1, <2>1, <2>3 DEF HandlerOK, Backed, AtLeastTwo, RowOK
    <3> QED
      BY <1>1, <2>1, <2>2, <3>1, <3>2, WriteKeepsIInv
         DEF Deciding, Reasons, Deciders, Final, Status, Keys
  <2>4. CASE ~proc[w].approve
    <3>1. /\ SetDecision(r, "REJECTED", "rejected", proc[w].who, "ESC")
          /\ Decided(w, "REJECTED", "ESC")
      BY <1>8, <2>4 DEF Finalize
    <3> QED
      BY <1>1, <2>1, <2>2, <3>1, WriteKeepsIInv
         DEF Deciding, Reasons, Deciders, Final, Status, Keys
  <2> QED BY <2>3, <2>4
<1> QED
  BY <1>2, <1>3, <1>4, <1>5, <1>6, <1>7, <1>8

LEMMA AnsweringKeepsIInv ==
  ASSUME IInv, NEW w \in Workers,
         AuditOutcome(w) \/ Reread(w) \/ ApplyKey(w)
  PROVE  IInv' /\ Frame
<1> DEFINE r == proc[w].req
<1>1. /\ TypeOK /\ proc[w] \in Handler /\ HandlerOK(proc[w])
      /\ r \in Requests /\ db[r].status # "ABSENT" /\ RowOK(r)
  BY Acting DEF At, AuditOutcome, Reread, ApplyKey
<1>2. CASE AuditOutcome(w)
  BY <1>1, <1>2, LogType, MoveKeepsIInv
     DEF AuditOutcome, At, tables, ghosts, HandlerOK, Deciding, Labels, Handler
<1>3. CASE Reread(w)
  <2>1. /\ proc[w].pc = "reread"
        /\ proc' = [proc EXCEPT ![w].pc = "apply", ![w].key = db[r].action]
        /\ UNCHANGED <<db, votes, nonces, audit, keys, grants, sweeper, writers,
                       now, crashes>>
    BY <1>3 DEF Reread, At, tables, ghosts
  <2>2. Frame /\ \A q \in Requests : RowOK(q)'
    BY <2>1, TablesKept
  <2>3. db[r].action \in Keys \cup {Null}
    BY <1>1 DEF TypeOK, Row
  <2>4. /\ proc' \in [Workers -> Handler]
        /\ proc'[w] = [proc[w] EXCEPT !.pc = "apply", !.key = db[r].action]
        /\ \A v \in Workers : v # w => proc'[v] = proc[v]
    BY <1>1, <2>1, <2>3 DEF TypeOK, Handler, Labels
  <2>5. HandlerOK(proc[w])'
    BY <1>1, <2>1, <2>4 DEF HandlerOK, Deciding, Handler, RowOK, Backed, NeedsTwo
  <2> QED
    BY <1>1, <2>1, <2>2, <2>4, <2>5, ThreadStep DEF TypeOK
<1>4. CASE ApplyKey(w)
  <2>1. /\ proc[w].pc = "apply"
        /\ Press(r, proc[w].key)
        /\ UNCHANGED <<db, votes, nonces, audit, grants, sweeper, writers, now,
                       crashes>>
    BY <1>4 DEF ApplyKey, At, tables
  <2>2. /\ keys' \in [Requests -> SUBSET Keys]
        /\ Frame
        /\ \A q \in Requests : RowOK(q)'
    BY <1>1, <2>1, PressKept DEF HandlerOK, Handler
  <2>3. CASE Goto(w, "reply")
    <3>1. /\ proc' \in [Workers -> Handler]
          /\ proc'[w] = [proc[w] EXCEPT !.pc = "reply"]
          /\ \A v \in Workers : v # w => proc'[v] = proc[v]
      BY <1>1, <2>3, GotoStep DEF TypeOK, Labels
    <3>2. HandlerOK(proc[w])'
      BY <1>1, <2>1, <3>1 DEF HandlerOK, Deciding, Handler, Backed, NeedsTwo
    <3> QED
      BY <1>1, <2>1, <2>2, <3>1, <3>2, ThreadStep DEF TypeOK
  <2>4. CASE Done(w)
    <3>1. /\ proc' \in [Workers -> Handler]
          /\ proc'[w].pc = "idle"
          /\ \A v \in Workers : v # w => proc'[v] = proc[v]
      BY <1>1, <2>4, DoneStep DEF TypeOK
    <3> QED
      BY <1>1, <2>1, <2>2, <3>1, ThreadStep DEF TypeOK, HandlerOK
  <2> QED
    BY <1>4, <2>3, <2>4 DEF ApplyKey
<1> QED
  BY <1>2, <1>3, <1>4

\* What remains to show of a step of the expiry loop.
LEMMA LoopStep ==
  ASSUME IInv, Frame,
         db' \in [Requests -> Row], audit' \subseteq Requests \X Final,
         keys' \in [Requests -> SUBSET Keys],
         UNCHANGED <<votes, nonces, grants, proc, writers, now, crashes>>,
         \A r \in Requests : RowOK(r)',
         sweeper' \in SweeperState, SweeperOK'
  PROVE  IInv' /\ Frame
<1>1. TypeOK'
  BY DEF IInv, TypeOK
<1>2. ASSUME NEW w \in Workers PROVE HandlerOK(proc[w])'
  <2>1. proc[w] \in Handler /\ HandlerOK(proc[w]) /\ proc'[w] = proc[w]
    BY DEF IInv, TypeOK
  <2> QED
    BY <2>1, HandlerKept DEF HandlerOK, Backed, NeedsTwo, Blocked
<1> QED BY <1>1, <1>2 DEF IInv

LEMMA ExpireLoopKeepsIInv ==
  ASSUME IInv, ExpireLoop
  PROVE  IInv' /\ Frame
<1>1. /\ TypeOK /\ sweeper \in SweeperState /\ SweeperOK
      /\ \A r \in Requests : RowOK(r)
  BY DEF IInv, TypeOK
<1>2. CASE ExpireDue
  <2>1. /\ Due \subseteq Requests
        /\ \A r \in Due : db[r].status = "PENDING"
    BY DEF Due
  <2>2. /\ sweeper' = [Resting EXCEPT !.pc = "audit", !.toAudit = Due, !.toApply = Due]
        /\ UNCHANGED <<votes, nonces, audit, keys, grants, proc, writers, now,
                       crashes>>
    BY <1>2 DEF ExpireDue, tables, ghosts
  <2>a. ASSUME NEW r \in Requests
        PROVE  /\ Swept(db[r]) \in Row
               /\ Swept(db[r]).status = "EXPIRED" /\ Swept(db[r]).action = "ESC"
               /\ Swept(db[r]).reason = "timeout_auto_reject"
               /\ Swept(db[r]).risk = db[r].risk
    <3>1. db[r] \in Row
      BY <1>1 DEF TypeOK
    <3> QED BY <3>1 DEF Swept, Row, Status, Final, Reasons, Keys
  <2>3. /\ \A r \in Requests \ Due : db'[r] = db[r]
        /\ \A r \in Due : db'[r] = Swept(db[r])
        /\ db' \in [Requests -> Row]
    BY <1>1, <1>2, <2>1, <2>a DEF ExpireDue, TypeOK
  <2>4. \A r \in Due : /\ db'[r].status = "EXPIRED" /\ db'[r].action = "ESC"
                       /\ db'[r].reason = "timeout_auto_reject"
                       /\ db'[r].risk = db[r].risk
    BY <2>1, <2>3, <2>a
  <2>5. \A r \in Due : ~Blocked(r)
    BY <1>1, <2>1 DEF RowOK
  <2>6. Frame
    BY <2>1, <2>2, <2>3, <2>4, <2>5 DEF Frame, Blocked
  <2>7. ASSUME NEW r \in Requests PROVE RowOK(r)'
    <3>1. RowOK(r)
      BY <1>1
    <3>2. Backed(r)' <=> Backed(r)
      BY <2>2, <2>3, <2>4 DEF Backed, NeedsTwo
    <3>3. CASE r \in Due
      BY <2>2, <2>4, <2>5, <3>1, <3>2, <3>3, ConstantsAssumption
         DEF RowOK, Blocked
    <3>4. CASE r \notin Due
      BY <2>2, <2>3, <3>1, <3>2, <3>4 DEF RowOK, Blocked
    <3> QED BY <3>3, <3>4
  <2>8. /\ sweeper' \in SweeperState
        /\ sweeper'.toAudit = Due /\ sweeper'.toApply = Due /\ sweeper'.pc = "audit"
    BY <2>1, <2>2 DEF Resting, SweeperState
  <2>9. SweeperOK'
    BY <2>1, <2>4, <2>8 DEF SweeperOK
  <2> QED
    BY <1>1, <2>2, <2>3, <2>6, <2>7, <2>8, <2>9, LoopStep DEF TypeOK
<1>3. CASE AuditExpired
  <2>1. PICK r \in sweeper.toAudit :
          /\ Log(r, "EXPIRED")
          /\ sweeper' = [sweeper EXCEPT
               !.toAudit = @ \ {r},
               !.pc = IF sweeper.toAudit = {r} THEN "read" ELSE "audit"]
    BY <1>3 DEF AuditExpired
  <2>2. UNCHANGED <<db, votes, nonces, keys, grants, proc, writers, now, crashes>>
    BY <1>3 DEF AuditExpired, tables, ghosts
  <2>3. audit' \subseteq Requests \X Final
    BY <1>1, <2>1, LogType DEF SweeperState
  <2>4. Frame /\ \A q \in Requests : RowOK(q)'
    BY <2>2, TablesKept
  <2>5. /\ sweeper' \in SweeperState /\ sweeper'.pc # "apply"
        /\ sweeper'.toAudit \subseteq sweeper.toAudit
        /\ sweeper'.toApply = sweeper.toApply
    BY <1>1, <2>1 DEF SweeperState
  <2>6. SweeperOK'
    BY <1>1, <2>2, <2>5 DEF SweeperOK
  <2> QED
    BY <1>1, <2>2, <2>3, <2>4, <2>5, <2>6, LoopStep DEF TypeOK
<1>4. CASE ReadExpired
  <2>1. PICK r \in sweeper.toApply :
          sweeper' = [sweeper EXCEPT !.toApply = @ \ {r}, !.pc = "apply",
                                     !.req = r, !.key = db[r].action]
    BY <1>4 DEF ReadExpired
  <2>2. UNCHANGED <<db, votes, nonces, audit, keys, grants, proc, writers, now,
                    crashes>>
    BY <1>4 DEF ReadExpired, tables, ghosts
  <2>3. Frame /\ \A q \in Requests : RowOK(q)'
    BY <2>2, TablesKept
  <2>4. /\ r \in Requests /\ db[r].status # "ABSENT"
        /\ db[r].action \in Keys \cup {Null} /\ RowOK(r)
    BY <1>1 DEF SweeperState, SweeperOK, TypeOK, Row
  <2>5. /\ sweeper' \in SweeperState
        /\ sweeper'.toAudit = sweeper.toAudit
        /\ sweeper'.toApply \subseteq sweeper.toApply
        /\ sweeper'.req = r /\ sweeper'.key = db[r].action
    BY <1>1, <2>1, <2>4 DEF SweeperState
  <2>6. SweeperOK'
    BY <1>1, <2>2, <2>4, <2>5 DEF SweeperOK, RowOK, Backed, NeedsTwo
  <2> QED
    BY <1>1, <2>2, <2>3, <2>5, <2>6, LoopStep DEF TypeOK
<1>5. CASE ApplyExpired
  <2>1. /\ sweeper.pc = "apply"
        /\ Press(sweeper.req, sweeper.key)
        /\ sweeper' = IF sweeper.toApply = {} THEN Resting
                      ELSE [sweeper EXCEPT !.pc = "read"]
        /\ UNCHANGED <<db, votes, nonces, audit, grants, proc, writers, now,
                       crashes>>
    BY <1>5 DEF ApplyExpired, tables
  <2>2. /\ keys' \in [Requests -> SUBSET Keys]
        /\ Frame
        /\ \A q \in Requests : RowOK(q)'
    BY <1>1, <2>1, PressKept DEF SweeperOK, SweeperState
  <2>3. /\ sweeper' \in SweeperState /\ sweeper'.pc # "apply"
        /\ sweeper'.toAudit \cup sweeper'.toApply
             \subseteq sweeper.toAudit \cup sweeper.toApply
    BY <1>1, <2>1 DEF SweeperState, Resting
  <2>4. SweeperOK'
    BY <1>1, <2>1, <2>3 DEF SweeperOK
  <2> QED
    BY <1>1, <2>1, <2>2, <2>3, <2>4, LoopStep DEF TypeOK
<1> QED
  BY <1>2, <1>3, <1>4, <1>5 DEF ExpireLoop

LEMMA SurroundingsKeepIInv ==
  ASSUME IInv,
         \/ \E r \in Requests : Register(r) \/ Unregister(r)
         \/ Tick \/ Restart
         \/ UNCHANGED vars
  PROVE  IInv' /\ Frame
<1>1. /\ TypeOK /\ SweeperOK
      /\ \A w \in Workers : proc[w] \in Handler /\ HandlerOK(proc[w])
  BY DEF IInv, TypeOK
<1>2. UNCHANGED <<db, votes, nonces, audit, keys, grants>>
  BY DEF Register, Unregister, Tick, Restart, vars, tables, ghosts
<1>3. Frame /\ \A r \in Requests : RowOK(r)'
  BY <1>2, TablesKept
<1>4. CASE Restart
  <2>1. /\ proc' = [w \in Workers |-> Idle] /\ sweeper' = Resting
        /\ writers' = {} /\ now' = now /\ crashes' \in 0..MaxCrashes
    BY <1>1, <1>4, ConstantsAssumption DEF Restart, TypeOK
  <2>2. TypeOK'
    BY <1>1, <1>2, <2>1, IdleType DEF TypeOK, Resting, SweeperState
  <2>3. \A w \in Workers : HandlerOK(proc[w])'
    BY <2>1, IdleType DEF HandlerOK
  <2>4. SweeperOK'
    BY <2>1 DEF SweeperOK, Resting
  <2> QED BY <1>3, <2>2, <2>3, <2>4 DEF IInv
<1>5. CASE ~Restart
  <2>1. UNCHANGED <<proc, sweeper, crashes>>
    BY <1>5 DEF Register, Unregister, Tick, vars
  <2>2. writers' \subseteq Requests /\ now' \in 0..MaxTime
    BY <1>1, <1>5, ConstantsAssumption DEF Register, Unregister, Tick, vars, TypeOK
  <2>3. TypeOK'
    BY <1>1, <1>2, <2>1, <2>2 DEF TypeOK
  <2>4. ASSUME NEW w \in Workers PROVE HandlerOK(proc[w])'
    BY <1>1, <1>2, <2>1 DEF HandlerOK, Blocked, Backed, NeedsTwo
  <2>5. SweeperOK'
    BY <1>3, <2>1, SweeperKept
  <2> QED BY <1>3, <2>3, <2>4, <2>5 DEF IInv
<1> QED BY <1>4, <1>5

LEMMA NextKeepsIInv == IInv /\ [Next]_vars => IInv' /\ Frame
<1> SUFFICES ASSUME IInv, [Next]_vars PROVE IInv' /\ Frame
  OBVIOUS
<1>1. ASSUME NEW w \in Workers, Continue(w) PROVE IInv' /\ Frame
  BY <1>1, CreatingKeepsIInv, DecidingKeepsIInv, AnsweringKeepsIInv DEF Continue
<1> QED
  BY <1>1, BeginKeepsIInv, ExpireLoopKeepsIInv, SurroundingsKeepIInv DEF Next

-----------------------------------------------------------------------------
(***************************************************************************)
(* Safety, for every behaviour of the gateway.                             *)
(***************************************************************************)

\* The inductive invariant holds throughout: what a handler read stays true
\* enough, until it acts on it, for its late write to do no harm.
THEOREM InductiveInvariant == Spec => []IInv
BY InitIInv, NextKeepsIInv, PTL DEF Spec

\* The tables, the log and every local variable keep their shape.
THEOREM TypeCorrect == Spec => []TypeOK
<1>1. IInv => TypeOK
  BY DEF IInv
<1> QED BY <1>1, InductiveInvariant, PTL

\* No interleaving of decisions, sweeps and restarts lets a row order ENTER,
\* or ENTER reach a terminal, without the approvals the request needs.
THEOREM NeverUnbacked == Spec => []DualAuthority
<1>1. IInv => DualAuthority
  BY DEF IInv, RowOK, DualAuthority
<1> QED BY <1>1, InductiveInvariant, PTL

\* The approver recorded for an approval was entitled to give it.
THEOREM RightfullyAttributed == Spec => []ApprovalAttributed
<1>1. IInv => ApprovalAttributed
  BY DEF IInv, RowOK, ApprovalAttributed
<1> QED BY <1>1, InductiveInvariant, PTL

\* A command the policy blocked stays refused, whatever is decided later.
THEOREM BlockedStaysRefused == Spec => BlockedIsFinal
<1>1. ASSUME IInv, [Next]_vars
      PROVE  [\A r \in Requests :
                db[r].reason = "blocked_high_risk_command" =>
                  /\ db'[r].reason = "blocked_high_risk_command"
                  /\ db'[r].status = "REJECTED"
                  /\ "ENTER" \notin keys'[r]]_vars
  <2>1. IInv' /\ Frame
    BY <1>1, NextKeepsIInv
  <2>2. SUFFICES ASSUME NEW r \in Requests, Blocked(r)
                 PROVE  /\ Blocked(r)' /\ db'[r].status = "REJECTED"
                        /\ "ENTER" \notin keys'[r]
    BY DEF Blocked
  <2>3. db[r].status = "REJECTED"
    BY <1>1, <2>2 DEF IInv, RowOK
  <2>4. Blocked(r)'
    BY <2>1, <2>2, <2>3 DEF Frame
  <2> QED
    BY <2>1, <2>4 DEF IInv, RowOK, Blocked, Backed
<1> QED BY <1>1, InductiveInvariant, PTL DEF Spec, BlockedIsFinal

-----------------------------------------------------------------------------
(***************************************************************************)
(* The audit log is complete while the gateway is not restarted: who       *)
(* changes the status of a row owes its entry until it is written.         *)
(***************************************************************************)
\* A thread that has something to log.
Owes(h, r, status) ==
  h.req = r /\ h.outcome = status /\ h.pc \in {"audit", "created", "block"}

\* What makes AuditTrailComplete inductive: the sweep owes entries only while it logs, and
\* who blocks a terminal owes the entry of a rejection.
AuditInv ==
  /\ AuditTrailComplete
  /\ sweeper.pc # "audit" => sweeper.toAudit = {}
  /\ \A w \in Workers : proc[w].pc = "block" => proc[w].outcome = "REJECTED"

\* One thread moves: what it owed it has logged or owes still, and a status that is new it
\* owes.
LEMMA ThreadKeepsAudit ==
  ASSUME IInv, AuditInv, NEW w \in Workers,
         UNCHANGED <<sweeper, crashes>>, audit \subseteq audit',
         \A v \in Workers : v # w => proc'[v] = proc[v],
         proc'[w].pc = "block" => proc'[w].outcome = "REJECTED",
         \A r \in Requests, status \in Final :
           Owes(proc[w], r, status) => <<r, status>> \in audit' \/ Owes(proc'[w], r, status),
         \A r \in Requests :
           db'[r].status \in Final =>
             db'[r].status = db[r].status \/ Owes(proc'[w], r, db'[r].status)
  PROVE  AuditInv'
<1>1. ASSUME crashes' = 0, NEW r \in Requests, NEW status \in Final, status = db'[r].status
      PROVE  <<r, status>> \in audit' \/ AuditPending(r, status)'
  <2>1. CASE Owes(proc'[w], r, status)
    BY <2>1 DEF Owes, AuditPending
  <2>2. CASE status = db[r].status
    <3>1. <<r, status>> \in audit \/ AuditPending(r, status)
      BY <1>1, <2>2 DEF AuditInv, AuditTrailComplete
    <3>2. CASE <<r, status>> \in audit
      BY <3>2
    <3>3. CASE status = "EXPIRED" /\ r \in sweeper.toAudit
      BY <3>3 DEF AuditPending
    <3>4. ASSUME NEW v \in Workers, Owes(proc[v], r, status)
          PROVE  <<r, status>> \in audit' \/ AuditPending(r, status)'
      <4>1. CASE v = w
        <5>1. <<r, status>> \in audit' \/ Owes(proc'[w], r, status)
          BY <3>4, <4>1
        <5> QED BY <2>1, <5>1
      <4>2. CASE v # w
        <5>1. Owes(proc'[v], r, status)
          BY <3>4, <4>2
        <5> QED BY <5>1 DEF Owes, AuditPending
      <4> QED BY <4>1, <4>2
    <3> QED BY <3>1, <3>2, <3>3, <3>4 DEF AuditPending, Owes
  <2> QED BY <1>1, <2>1, <2>2
<1>2. AuditTrailComplete'
  BY <1>1 DEF AuditTrailComplete
<1>3. \A v \in Workers : proc'[v].pc = "block" => proc'[v].outcome = "REJECTED"
  BY DEF AuditInv
<1> QED BY <1>2, <1>3 DEF AuditInv

LEMMA BeginKeepsAudit ==
  ASSUME IInv, AuditInv, NEW w \in Workers, NEW r \in Requests, Begin(w, r)
  PROVE  AuditInv'
<1>1. /\ proc \in [Workers -> Handler] /\ db \in [Requests -> Row]
      /\ proc[w].pc = "idle"
  BY DEF IInv, TypeOK, Begin, Insert, AnswerFinalized, FindOverdue, BeginCallback,
         BeginUnsigned, At
<1>2. UNCHANGED <<sweeper, crashes, audit>>
  BY DEF Begin, Insert, AnswerFinalized, FindOverdue, BeginCallback, BeginUnsigned
<1>3. \A v \in Workers : v # w => proc'[v] = proc[v]
  BY <1>1 DEF Begin, Insert, AnswerFinalized, FindOverdue, BeginCallback, BeginUnsigned
<1>4. \A q \in Requests, status \in Final : ~Owes(proc[w], q, status)
  BY <1>1 DEF Owes
<1>5. CASE Insert(w, r)
  <2>1. /\ \A q \in Requests : q # r => db'[q] = db[q]
        /\ db'[r].status \in Final => Owes(proc'[w], r, db'[r].status)
        /\ proc'[w].pc = "block" => proc'[w].outcome = "REJECTED"
    BY <1>1, <1>5 DEF Insert, Owes, Idle, Final
  <2> QED BY <1>2, <1>3, <1>4, <2>1, ThreadKeepsAudit
<1>6. CASE UNCHANGED db
  <2>1. proc'[w].pc # "block"
    <3>1. CASE Insert(w, r)
      BY <1>1, <1>6, <3>1 DEF Insert, Final
    <3>2. CASE AnswerFinalized(w, r) \/ FindOverdue(w, r) \/ BeginCallback(w, r)
      BY <1>1, <3>2 DEF AnswerFinalized, FindOverdue, BeginCallback, Idle, Call
    <3>3. CASE BeginUnsigned(w, r)
      BY <1>1, <3>3 DEF BeginUnsigned, AfterChecks, Idle, Call
    <3> QED BY <3>1, <3>2, <3>3 DEF Begin
  <2> QED BY <1>2, <1>3, <1>4, <1>6, <2>1, ThreadKeepsAudit
<1> QED BY <1>5, <1>6 DEF Begin, AnswerFinalized, FindOverdue, BeginCallback, BeginUnsigned

\* The thread writes an outcome that it goes on to log.
LEMMA DecidedKeepsAudit ==
  ASSUME IInv, AuditInv, NEW w \in Workers,
         proc[w].pc \in {"discard", "expire", "await", "finalize"},
         NEW status \in Status, NEW outcome \in Status \cup {"WAIT"}, NEW key \in Keys \cup {Null},
         NEW reason \in Reasons, NEW who \in Deciders,
         SetDecision(proc[w].req, status, reason, who, key), Decided(w, outcome, key),
         status \in Final => outcome = status,
         UNCHANGED <<sweeper, crashes, audit>>
  PROVE  AuditInv'
<1>1. /\ TypeOK /\ proc[w] \in Handler /\ proc[w].req \in Requests
      /\ proc \in [Workers -> Handler]
  BY Acting DEF TypeOK
<1>2. /\ proc'[w].pc = "audit" /\ proc'[w].req = proc[w].req
      /\ \A v \in Workers : v # w => proc'[v] = proc[v]
  BY <1>1, DecidedStep
<1>3. proc'[w].outcome = outcome
  BY <1>1 DEF Decided, Idle
<1>4. /\ db'[proc[w].req].status = status
      /\ \A q \in Requests : q # proc[w].req => db'[q] = db[q]
  BY <1>1, SetDecisionRow DEF TypeOK
<1>5. \A q \in Requests, s \in Final : ~Owes(proc[w], q, s)
  BY DEF Owes
<1>6. \A q \in Requests :
        db'[q].status \in Final =>
          db'[q].status = db[q].status \/ Owes(proc'[w], q, db'[q].status)
  BY <1>2, <1>3, <1>4 DEF Owes
<1> QED BY <1>2, <1>5, <1>6, ThreadKeepsAudit

\* The thread moves and leaves the tables alone.
LEMMA MoveKeepsAudit ==
  ASSUME IInv, AuditInv, NEW w \in Workers, UNCHANGED <<db, sweeper, crashes>>,
         audit \subseteq audit', proc'[w].pc # "block",
         \A v \in Workers : v # w => proc'[v] = proc[v],
         \A r \in Requests, status \in Final :
           Owes(proc[w], r, status) => <<r, status>> \in audit'
  PROVE  AuditInv'
BY ThreadKeepsAudit

LEMMA ContinueKeepsAudit ==
  ASSUME IInv, AuditInv, NEW w \in Workers, Continue(w)
  PROVE  AuditInv'
<1> DEFINE r == proc[w].req
<1>0. proc[w].pc # "idle"
  BY DEF Continue, At, RecordBlock, AuditCreated, Notify, ReadUndelivered,
         RejectUndelivered, Reply, CheckCallback, RefuseReplay, ExpireOverdue, RecordVote,
         CountVotes, AwaitSecond, Finalize, AuditOutcome, Reread, ApplyKey
<1>1. /\ TypeOK /\ proc[w] \in Handler /\ HandlerOK(proc[w]) /\ r \in Requests
      /\ proc \in [Workers -> Handler]
  BY <1>0, Acting DEF TypeOK
<1>2. CASE RecordBlock(w)
  <2>1. /\ proc[w].pc = "block" /\ proc[w].outcome = "REJECTED"
        /\ SetDecision(r, "REJECTED", "blocked_high_risk_command", "policy-engine", "ESC")
        /\ Goto(w, "created") /\ UNCHANGED <<sweeper, crashes, audit>>
    BY <1>2 DEF RecordBlock, At, AuditInv
  <2>2. /\ proc'[w] = [proc[w] EXCEPT !.pc = "created"]
        /\ \A v \in Workers : v # w => proc'[v] = proc[v]
    BY <1>1, <2>1, GotoStep DEF Labels
  <2>3. /\ db'[r].status = "REJECTED"
        /\ \A q \in Requests : q # r => db'[q] = db[q]
    BY <1>1, <2>1, SetDecisionRow DEF TypeOK, Status, Final, Reasons, Deciders, Keys
  <2>4. /\ proc'[w].pc = "created" /\ proc'[w].req = r /\ proc'[w].outcome = "REJECTED"
    BY <1>1, <2>1, <2>2 DEF Handler
  <2>5. \A q \in Requests, s \in Final : Owes(proc[w], q, s) => Owes(proc'[w], q, s)
    BY <2>1, <2>4 DEF Owes
  <2>6. \A q \in Requests :
          db'[q].status \in Final =>
            db'[q].status = db[q].status \/ Owes(proc'[w], q, db'[q].status)
    BY <2>3, <2>4 DEF Owes
  <2> QED BY <2>1, <2>2, <2>4, <2>5, <2>6, ThreadKeepsAudit
<1>3. CASE AuditCreated(w) \/ AuditOutcome(w)
  <2>1. PICK l \in {"notify", "reply", "reread", "apply"} :
          Log(r, proc[w].outcome) /\ Goto(w, l) /\ UNCHANGED <<db, sweeper, crashes>>
    BY <1>3 DEF AuditCreated, AuditOutcome
  <2>2. proc'[w].pc # "block" /\ \A v \in Workers : v # w => proc'[v] = proc[v]
    BY <1>1, <2>1 DEF Goto, Handler
  <2>3. /\ audit \subseteq audit'
        /\ \A q \in Requests, s \in Final : Owes(proc[w], q, s) => <<q, s>> \in audit'
    BY <2>1 DEF Log, Owes
  <2> QED BY <2>1, <2>2, <2>3, MoveKeepsAudit
<1>4. CASE \/ Notify(w) \/ ReadUndelivered(w) \/ Reply(w) \/ CheckCallback(w)
           \/ RefuseReplay(w) \/ RecordVote(w) \/ CountVotes(w) \/ Reread(w) \/ ApplyKey(w)
  <2>1. /\ UNCHANGED <<db, sweeper, crashes, audit>>
        /\ proc[w].pc \notin {"audit", "created", "block"}
    BY <1>4 DEF Notify, ReadUndelivered, Reply, CheckCallback, RefuseReplay, RecordVote,
                CountVotes, Reread, ApplyKey, At
  <2>4. ASSUME NEW l \in {"undelivered", "discard", "reply", "vote", "finalize", "count",
                          "await", "apply"}, Goto(w, l)
        PROVE  proc'[w].pc # "block" /\ \A v \in Workers : v # w => proc'[v] = proc[v]
    BY <1>1, <2>4 DEF Goto, Handler
  <2>5. ASSUME Done(w)
        PROVE  proc'[w].pc # "block" /\ \A v \in Workers : v # w => proc'[v] = proc[v]
    BY <1>1, <2>5, DoneStep
  <2>2. proc'[w].pc # "block" /\ \A v \in Workers : v # w => proc'[v] = proc[v]
    <3>1. CASE ReadUndelivered(w)
      BY <1>1, <2>4, <3>1 DEF ReadUndelivered, Idle
    <3>2. CASE Reread(w)
      BY <1>1, <3>2 DEF Reread, Handler
    <3>3. CASE Notify(w) \/ RecordVote(w) \/ CountVotes(w)
      BY <2>4, <3>3 DEF Notify, RecordVote, CountVotes
    <3>4. CASE Reply(w) \/ RefuseReplay(w) \/ ApplyKey(w)
      BY <2>4, <2>5, <3>4 DEF Reply, RefuseReplay, ApplyKey
    <3>5. CASE CheckCallback(w)
      BY <2>4, <2>5, <3>5 DEF CheckCallback, AfterChecks
    <3> QED BY <1>4, <3>1, <3>2, <3>3, <3>4, <3>5
  <2>3. \A q \in Requests, s \in Final : ~Owes(proc[w], q, s)
    BY <2>1 DEF Owes
  <2> QED BY <2>1, <2>2, <2>3, MoveKeepsAudit
<1>5. CASE RejectUndelivered(w)
  BY <1>5, DecidedKeepsAudit
     DEF RejectUndelivered, At, Status, Final, Reasons, Deciders, Keys
<1>6. CASE ExpireOverdue(w) \/ AwaitSecond(w) \/ Finalize(w)
  <2>1. proc[w].who \in Deciders /\ proc[w].pc \in {"expire", "await", "finalize"}
    BY <1>1, <1>6 DEF ExpireOverdue, AwaitSecond, Finalize, At, Handler, Deciders
  <2>2. UNCHANGED <<sweeper, crashes, audit>>
    BY <1>6 DEF ExpireOverdue, AwaitSecond, Finalize
  <2>3. CASE ExpireOverdue(w)
    BY <2>1, <2>2, <2>3, DecidedKeepsAudit DEF ExpireOverdue, Status, Final, Reasons, Keys
  <2>4. CASE AwaitSecond(w)
    BY <2>1, <2>2, <2>4, DecidedKeepsAudit DEF AwaitSecond, Status, Final, Reasons, Keys
  <2>5. CASE Finalize(w) /\ proc[w].approve
    BY <2>1, <2>2, <2>5, DecidedKeepsAudit DEF Finalize, Status, Final, Reasons, Keys
  <2>6. CASE Finalize(w) /\ ~proc[w].approve
    BY <2>1, <2>2, <2>6, DecidedKeepsAudit DEF Finalize, Status, Final, Reasons, Keys
  <2> QED BY <1>6, <2>3, <2>4, <2>5, <2>6
<1> QED BY <1>2, <1>3, <1>4, <1>5, <1>6 DEF Continue

LEMMA LoopKeepsAudit ==
  ASSUME IInv, AuditInv, ExpireLoop
  PROVE  AuditInv'
<1>1. TypeOK /\ sweeper \in SweeperState /\ UNCHANGED <<proc, crashes>>
  BY DEF IInv, TypeOK, ExpireLoop, ExpireDue, AuditExpired, ReadExpired, ApplyExpired
<1>2. \A w \in Workers : proc'[w].pc = "block" => proc'[w].outcome = "REJECTED"
  BY <1>1 DEF AuditInv
<1>3. CASE ExpireDue
  <2>1. /\ sweeper'.pc = "audit" /\ sweeper'.toAudit = Due /\ UNCHANGED audit
        /\ \A r \in Requests :
             db'[r].status = IF r \in Due THEN "EXPIRED" ELSE db[r].status
    BY <1>1, <1>3 DEF ExpireDue, Resting, Swept, TypeOK, Row
  <2>2. sweeper.toAudit = {}
    BY <1>3 DEF ExpireDue, AuditInv
  <2>3. ASSUME crashes' = 0, NEW r \in Requests, NEW status \in Final, status = db'[r].status
        PROVE  <<r, status>> \in audit' \/ AuditPending(r, status)'
    <3>1. CASE r \in Due
      BY <2>1, <2>3, <3>1 DEF AuditPending
    <3>2. CASE r \notin Due
      BY <1>1, <2>1, <2>2, <2>3, <3>2 DEF AuditInv, AuditTrailComplete, AuditPending
    <3> QED BY <3>1, <3>2
  <2> QED BY <1>2, <2>1, <2>3 DEF AuditInv, AuditTrailComplete
<1>4. CASE AuditExpired
  <2>1. PICK q \in sweeper.toAudit :
          /\ Log(q, "EXPIRED") /\ UNCHANGED db
          /\ sweeper' = [sweeper EXCEPT
               !.toAudit = @ \ {q},
               !.pc = IF sweeper.toAudit = {q} THEN "read" ELSE "audit"]
    BY <1>4 DEF AuditExpired
  <2>2. /\ sweeper'.toAudit = sweeper.toAudit \ {q}
        /\ sweeper'.pc # "audit" => sweeper'.toAudit = {}
        /\ audit' = audit \cup {<<q, "EXPIRED">>}
    BY <1>1, <2>1 DEF SweeperState, Log, Final
  <2>3. ASSUME crashes' = 0, NEW r \in Requests, NEW status \in Final, status = db'[r].status
        PROVE  <<r, status>> \in audit' \/ AuditPending(r, status)'
    <3>1. <<r, status>> \in audit \/ AuditPending(r, status)
      BY <1>1, <2>1, <2>3 DEF AuditInv, AuditTrailComplete
    <3> QED BY <1>1, <2>2, <3>1 DEF AuditPending
  <2> QED BY <1>2, <2>2, <2>3 DEF AuditInv, AuditTrailComplete
<1>5. CASE ReadExpired \/ ApplyExpired
  <2>1. UNCHANGED <<db, audit>> /\ sweeper.pc # "audit"
    BY <1>5 DEF ReadExpired, ApplyExpired
  <2>2. sweeper.toAudit = {}
    BY <2>1 DEF AuditInv
  <2>3. ASSUME ReadExpired PROVE sweeper'.toAudit = {}
    <3>1. PICK r \in sweeper.toApply :
            sweeper' = [sweeper EXCEPT !.toApply = @ \ {r}, !.pc = "apply",
                                       !.req = r, !.key = db[r].action]
      BY <2>3 DEF ReadExpired
    <3>2. sweeper'.toAudit = sweeper.toAudit
      BY <1>1, <3>1 DEF SweeperState
    <3> QED BY <2>2, <3>2
  <2>4. ASSUME ApplyExpired PROVE sweeper'.toAudit = {}
    <3>1. sweeper' = IF sweeper.toApply = {} THEN Resting
                     ELSE [sweeper EXCEPT !.pc = "read"]
      BY <2>4 DEF ApplyExpired
    <3>2. sweeper'.toAudit = {}
      BY <1>1, <2>2, <3>1 DEF SweeperState, Resting
    <3> QED BY <3>2
  <2>5. sweeper'.toAudit = {}
    BY <1>5, <2>3, <2>4
  <2> QED BY <1>1, <1>2, <2>1, <2>2, <2>5 DEF AuditInv, AuditTrailComplete, AuditPending
<1> QED BY <1>3, <1>4, <1>5 DEF ExpireLoop

LEMMA SurroundingsKeepAudit ==
  ASSUME IInv, AuditInv,
         \/ \E r \in Requests : Register(r) \/ Unregister(r)
         \/ Tick \/ Restart \/ UNCHANGED vars
  PROVE  AuditInv'
<1>1. CASE UNCHANGED <<db, audit, proc, sweeper, crashes>>
  BY <1>1 DEF AuditInv, AuditTrailComplete, AuditPending
<1>2. CASE Restart
  <2>1. crashes' # 0
    BY <1>2, ConstantsAssumption DEF Restart, IInv, TypeOK
  <2>2. sweeper'.toAudit = {} /\ \A w \in Workers : proc'[w].pc = "idle"
    BY <1>2 DEF Restart, Resting, Idle
  <2> QED BY <2>1, <2>2 DEF AuditInv, AuditTrailComplete
<1> QED BY <1>1, <1>2 DEF Register, Unregister, Tick, vars

\* As long as the gateway is not restarted every final status of a row is in the audit log,
\* or its writer is about to put it there, however decisions and sweeps overwrite each other.
THEOREM EveryOutcomeAudited == Spec => []AuditTrailComplete
<1>1. Init => AuditInv
  BY DEF Init, AuditInv, AuditTrailComplete, AbsentRow, Resting, Idle, Final
<1>2. IInv /\ AuditInv /\ [Next]_vars => AuditInv'
  <2> SUFFICES ASSUME IInv, AuditInv, [Next]_vars PROVE AuditInv'
    OBVIOUS
  <2> QED BY BeginKeepsAudit, ContinueKeepsAudit, LoopKeepsAudit, SurroundingsKeepAudit DEF Next
<1>3. AuditInv => AuditTrailComplete
  BY DEF AuditInv
<1> QED BY <1>1, <1>2, <1>3, InductiveInvariant, PTL DEF Spec
-----------------------------------------------------------------------------
(***************************************************************************)
(* The gateway implements the weak contract: every step is a step of       *)
(* Contract!AuthorityNext or changes nothing the contract speaks of.       *)
(***************************************************************************)

\* What the contract sees of a step.
ContractStep == [Contract!AuthorityNext]_(Contract!contract)

\* A step that changes no row, approval or key is invisible.
LEMMA Invisible ==
  ASSUME UNCHANGED <<db, grants, keys>>
  PROVE  ContractStep
BY DEF ContractStep, Contract!contract, NeedsTwo

\* Enough approvers in the gateway are enough for the contract.
LEMMA EnoughIsBacked ==
  ASSUME NEW r \in Requests
  PROVE  Contract!Enough(r) <=> Backed(r)
BY DEF Contract!Enough, Backed, AtLeastTwo

LEMMA WriteIsDecide ==
  ASSUME IInv, NEW r \in Requests, db[r].status # "ABSENT",
         NEW status \in Final \cup {"PENDING"}, NEW reason \in Reasons,
         NEW who \in Deciders, NEW key \in Keys \cup {Null},
         SetDecision(r, status, reason, who, key),
         UNCHANGED <<grants, keys>>,
         status = "APPROVED" => Backed(r)
  PROVE  ContractStep
<1>1. /\ db'[r].status = status
      /\ \A q \in Requests : db'[q].risk = db[q].risk
      /\ \A q \in Requests : q # r => db'[q] = db[q]
  BY SetDecisionRow DEF IInv, TypeOK, Status
<1>2. \A q \in Requests : NeedsTwo(q)' <=> NeedsTwo(q)
  BY <1>1 DEF NeedsTwo
<1>3. Contract!Decide(r)
  <2>1. VerdictOf(status) \in {"open"} \cup Contract!Closed
    BY DEF VerdictOf, Final, Contract!Closed
  <2>2. VerdictOf(status) = "approved" => Contract!Enough(r)
    BY EnoughIsBacked DEF VerdictOf, Final
  <2>3. VerdictOf(db[r].status) # "none"
    BY DEF IInv, TypeOK, Row, Status, Final, VerdictOf
  <2>4. [q \in Requests |-> VerdictOf(db[q].status)]'
          = [[q \in Requests |-> VerdictOf(db[q].status)]
               EXCEPT ![r] = VerdictOf(status)]
    BY <1>1
  <2>5. [q \in Requests |-> NeedsTwo(q)]' = [q \in Requests |-> NeedsTwo(q)]
    BY <1>2 DEF NeedsTwo
  <2> QED
    BY <2>1, <2>2, <2>3, <2>4, <2>5 DEF Contract!Decide
<1> QED
  BY <1>3 DEF ContractStep, Contract!AuthorityNext

LEMMA PressIsPressKey ==
  ASSUME IInv, NEW r \in Requests, db[r].status # "ABSENT",
         NEW key \in Keys \cup {Null}, Press(r, key),
         UNCHANGED <<db, grants>>,
         key = "ENTER" => Backed(r)
  PROVE  ContractStep
<1>1. CASE keys' = keys
  BY <1>1, Invisible
<1>2. CASE keys' # keys
  <2>1. key \in {"ENTER", "ESC"} /\ keys' = [keys EXCEPT ![r] = @ \cup {key}]
    BY <1>2 DEF Press, Keys
  <2>2. VerdictOf(db[r].status) # "none"
    BY DEF IInv, TypeOK, Row, Status, Final, VerdictOf
  <2>3. key = "ENTER" => Contract!Enough(r)
    BY EnoughIsBacked
  <2>4. Contract!PressKey(r)
    BY <2>1, <2>2, <2>3 DEF Contract!PressKey, NeedsTwo
  <2> QED
    BY <2>4 DEF ContractStep, Contract!AuthorityNext
<1> QED BY <1>1, <1>2

LEMMA GrantIsBack ==
  ASSUME IInv, NEW r \in Requests, db[r].status # "ABSENT",
         NEW approve, NEW cred, NEW who \in Approvers,
         RememberGrant(r, approve, cred, who),
         UNCHANGED <<db, keys>>
  PROVE  ContractStep
<1>1. CASE grants' = grants
  BY <1>1, Invisible
<1>2. CASE grants' # grants
  <2>1. grants' = [grants EXCEPT ![r] = @ \cup {who}]
    BY <1>2 DEF RememberGrant
  <2>2. VerdictOf(db[r].status) # "none"
    BY DEF IInv, TypeOK, Row, Status, Final, VerdictOf
  <2>3. Contract!Back(r, who)
    BY <2>1, <2>2 DEF Contract!Back, NeedsTwo
  <2> QED
    BY <2>3 DEF ContractStep, Contract!AuthorityNext
<1> QED BY <1>1, <1>2

LEMMA InsertIsSubmit ==
  ASSUME IInv, NEW w \in Workers, NEW r \in Requests, Insert(w, r)
  PROVE  ContractStep
<1>1. PICK new \in {"PENDING", "REJECTED"} :
        /\ \A q \in Requests : q # r => db'[q] = db[q]
        /\ db'[r].status = new
  BY DEF Insert, IInv, TypeOK
<1>2. db[r].status = "ABSENT" /\ UNCHANGED <<grants, keys>>
  BY DEF Insert, ghosts
<1>3. VerdictOf(new) \in {"open", "rejected"} /\ VerdictOf("ABSENT") = "none"
  BY DEF VerdictOf
<1>4. [q \in Requests |-> VerdictOf(db[q].status)]'
        = [[q \in Requests |-> VerdictOf(db[q].status)]
             EXCEPT ![r] = VerdictOf(new)]
  BY <1>1
<1>5. /\ [q \in Requests |-> NeedsTwo(q)]'
           = [[q \in Requests |-> NeedsTwo(q)] EXCEPT ![r] = NeedsTwo(r)']
      /\ NeedsTwo(r)' \in BOOLEAN
  BY <1>1, ConstantsAssumption DEF NeedsTwo
<1>6. Contract!Submit(r)
  BY <1>2, <1>3, <1>4, <1>5 DEF Contract!Submit
<1> QED BY <1>6 DEF ContractStep, Contract!AuthorityNext

LEMMA SweepIsExpire ==
  ASSUME IInv, ExpireDue
  PROVE  ContractStep
<1>1. /\ Due \subseteq Requests
      /\ \A r \in Due : db[r].status = "PENDING"
  BY DEF Due
<1>2. \A r \in Requests :
        /\ db'[r].status = IF r \in Due THEN "EXPIRED" ELSE db[r].status
        /\ db'[r].risk = db[r].risk
  <2> SUFFICES ASSUME NEW r \in Requests
               PROVE  /\ db'[r].status = IF r \in Due THEN "EXPIRED" ELSE db[r].status
                      /\ db'[r].risk = db[r].risk
    OBVIOUS
  <2>1. db[r] \in Row
    BY DEF IInv, TypeOK
  <2>2. db'[r] = IF r \in Due THEN Swept(db[r]) ELSE db[r]
    BY DEF ExpireDue
  <2> QED BY <2>1, <2>2 DEF Swept, Row
<1>3. [r \in Requests |-> VerdictOf(db[r].status)]'
        = [r \in Requests |-> IF r \in Due THEN "expired"
                              ELSE [q \in Requests |-> VerdictOf(db[q].status)][r]]
  <2>1. VerdictOf("EXPIRED") = "expired"
    BY DEF VerdictOf
  <2> QED BY <1>2, <2>1
<1>4. Due \in SUBSET {r \in Requests :
                        [q \in Requests |-> VerdictOf(db[q].status)][r] = "open"}
  BY <1>1 DEF VerdictOf
<1>5. [r \in Requests |-> NeedsTwo(r)]' = [r \in Requests |-> NeedsTwo(r)]
  BY <1>2 DEF NeedsTwo
<1>6. UNCHANGED <<grants, keys>>
  BY DEF ExpireDue, ghosts
<1>7. Contract!Expire
  BY <1>3, <1>4, <1>5, <1>6 DEF Contract!Expire
<1> QED BY <1>7 DEF ContractStep, Contract!AuthorityNext

LEMMA NextIsContractStep == IInv /\ [Next]_vars => ContractStep
<1> SUFFICES ASSUME IInv, [Next]_vars PROVE ContractStep
  OBVIOUS
<1>1. ASSUME NEW w \in Workers, NEW r \in Requests, Begin(w, r)
      PROVE  ContractStep
  <2>1. CASE Insert(w, r)
    BY <2>1, InsertIsSubmit
  <2>2. CASE AnswerFinalized(w, r) \/ FindOverdue(w, r) \/ BeginCallback(w, r)
    BY <2>2, Invisible DEF AnswerFinalized, FindOverdue, BeginCallback, ghosts
  <2>3. CASE BeginUnsigned(w, r)
    <3>1. \E approve, cred : \E who \in Approvers : RememberGrant(r, approve, cred, who)
      BY <2>3 DEF BeginUnsigned
    <3>2. db[r].status # "ABSENT" /\ UNCHANGED <<db, keys>>
      BY <2>3 DEF BeginUnsigned, Open
    <3> QED BY <3>1, <3>2, GrantIsBack
  <2> QED BY <1>1, <2>1, <2>2, <2>3 DEF Begin
<1>2. ASSUME NEW w \in Workers, Continue(w)
      PROVE  ContractStep
  <2> DEFINE r == proc[w].req
  <2>1. /\ proc[w] \in Handler /\ HandlerOK(proc[w])
        /\ r \in Requests /\ db[r].status # "ABSENT" /\ RowOK(r)
    BY <1>2, Acting
       DEF Continue, At, RecordBlock, AuditCreated, Notify, ReadUndelivered,
           RejectUndelivered, Reply, CheckCallback, RefuseReplay, ExpireOverdue,
           RecordVote, CountVotes, AwaitSecond, Finalize, AuditOutcome, Reread,
           ApplyKey
  <2>2. CASE \/ AuditCreated(w) \/ Notify(w) \/ ReadUndelivered(w)
             \/ RefuseReplay(w) \/ RecordVote(w) \/ CountVotes(w)
             \/ AuditOutcome(w) \/ Reread(w)
    BY <2>2, Invisible
       DEF AuditCreated, Notify, ReadUndelivered, RefuseReplay, RecordVote,
           CountVotes, AuditOutcome, Reread, ghosts
  <2>3. CASE RecordBlock(w)
    BY <2>1, <2>3, WriteIsDecide
       DEF RecordBlock, ghosts, Final, Reasons, Deciders, Keys
  <2>4. CASE RejectUndelivered(w)
    BY <2>1, <2>4, WriteIsDecide
       DEF RejectUndelivered, ghosts, Final, Reasons, Deciders, Keys
  <2>5. CASE ExpireOverdue(w)
    BY <2>1, <2>5, WriteIsDecide
       DEF ExpireOverdue, At, HandlerOK, Deciding, ghosts, Final, Reasons,
           Deciders, Keys
  <2>6. CASE AwaitSecond(w)
    BY <2>1, <2>6, WriteIsDecide
       DEF AwaitSecond, At, HandlerOK, Deciding, ghosts, Reasons, Deciders, Final
  <2>7. CASE Finalize(w)
    <3>1. /\ proc[w].who \in Approvers /\ UNCHANGED <<grants, keys>>
          /\ proc[w].approve => Backed(r)
      BY <2>1, <2>7
         DEF Finalize, At, HandlerOK, Deciding, ghosts, RowOK, Backed, AtLeastTwo
    <3>2. CASE proc[w].approve
      <4>1. SetDecision(r, "APPROVED", "approved", proc[w].who, "ENTER")
        BY <2>7, <3>2 DEF Finalize
      <4> QED
        BY <2>1, <3>1, <3>2, <4>1, WriteIsDecide DEF Final, Reasons, Deciders, Keys
    <3>3. CASE ~proc[w].approve
      <4>1. SetDecision(r, "REJECTED", "rejected", proc[w].who, "ESC")
        BY <2>7, <3>3 DEF Finalize
      <4> QED
        BY <2>1, <3>1, <4>1, WriteIsDecide DEF Final, Reasons, Deciders, Keys
    <3> QED BY <3>2, <3>3
  <2>8. CASE CheckCallback(w)
    <3>1. \E approve, cred : RememberGrant(r, approve, cred, proc[w].who)
      BY <2>8 DEF CheckCallback
    <3>2. proc[w].who \in Approvers /\ UNCHANGED <<db, keys>>
      BY <2>1, <2>8 DEF CheckCallback, At, HandlerOK, Deciding
    <3> QED BY <2>1, <3>1, <3>2, GrantIsBack
  <2>9. CASE Reply(w)
    <3>1. PICK key \in {"ESC", Null} : Press(r, key)
      BY <2>9 DEF Reply
    <3>2. UNCHANGED <<db, grants>>
      BY <2>9 DEF Reply
    <3> QED
      BY <2>1, <3>1, <3>2, PressIsPressKey, ConstantsAssumption DEF Keys
  <2>10. CASE ApplyKey(w)
    <3>1. Press(r, proc[w].key) /\ UNCHANGED <<db, grants>>
      BY <2>10 DEF ApplyKey
    <3>2. /\ proc[w].key \in Keys \cup {Null}
          /\ proc[w].key = "ENTER" => Backed(r)
      BY <2>1, <2>10 DEF ApplyKey, At, HandlerOK, Handler
    <3> QED BY <2>1, <3>1, <3>2, PressIsPressKey
  <2> QED
    BY <1>2, <2>2, <2>3, <2>4, <2>5, <2>6, <2>7, <2>8, <2>9, <2>10 DEF Continue
<1>3. ASSUME ExpireLoop PROVE ContractStep
  <2>1. CASE ExpireDue
    BY <2>1, SweepIsExpire
  <2>2. CASE AuditExpired \/ ReadExpired
    BY <2>2, Invisible DEF AuditExpired, ReadExpired, ghosts
  <2>3. CASE ApplyExpired
    <3>1. /\ sweeper.pc = "apply" /\ Press(sweeper.req, sweeper.key)
          /\ UNCHANGED <<db, grants>>
      BY <2>3 DEF ApplyExpired
    <3>2. /\ sweeper.req \in Requests /\ db[sweeper.req].status # "ABSENT"
          /\ sweeper.key \in Keys \cup {Null}
          /\ sweeper.key = "ENTER" => Backed(sweeper.req)
      BY <3>1 DEF IInv, TypeOK, SweeperOK, SweeperState
    <3> QED BY <3>1, <3>2, PressIsPressKey
  <2> QED BY <1>3, <2>1, <2>2, <2>3 DEF ExpireLoop
<1>4. CASE \/ \E r \in Requests : Register(r) \/ Unregister(r)
           \/ Tick \/ Restart \/ UNCHANGED vars
  BY <1>4, Invisible DEF Register, Unregister, Tick, Restart, vars, ghosts
<1> QED
  BY <1>1, <1>2, <1>3, <1>4 DEF Next

LEMMA InitIsContractInit == Init => Contract!Init
<1> SUFFICES ASSUME Init PROVE Contract!Init
  OBVIOUS
<1>1. \A r \in Requests : db[r].status = "ABSENT" /\ NeedsTwo(r) \in BOOLEAN
  BY ConstantsAssumption DEF Init, AbsentRow, NeedsTwo
<1>2. VerdictOf("ABSENT") = "none"
  BY DEF VerdictOf
<1> QED
  BY <1>1, <1>2 DEF Init, Contract!Init

\* The gateway, with its handlers, sweeps and restarts in any order, implements
\* the weak contract: approvals and ENTER keys only ever rest on enough
\* entitled approvers.
THEOREM ImplementsAuthority == Spec => KeepsAuthority
BY InitIsContractInit, NextIsContractStep, InductiveInvariant, PTL
   DEF Spec, KeepsAuthority, ContractStep, Contract!AuthoritySpec
-----------------------------------------------------------------------------
(***************************************************************************)
(* Where handlers and sweeps run one at a time the gateway implements the  *)
(* whole contract.  What makes that inductive: whatever is under way is    *)
(* alone, so what it has read is what the row says still.                  *)
(***************************************************************************)

\* A key says what the row says.
Agrees(key, status) ==
  /\ key = "ENTER" => status = "APPROVED"
  /\ key = "ESC" => status \in {"REJECTED", "EXPIRED"}

\* At most one handler is under way, and none beside the sweep.
Alone ==
  /\ \A v, w \in Workers : proc[v].pc # "idle" /\ proc[w].pc # "idle" => v = w
  /\ sweeper.pc # "wait" => \A w \in Workers : proc[w].pc = "idle"

\* What a handler has read, written or chosen is what the row says still.
Fresh(h) ==
  h.pc # "idle" =>
    /\ h.outcome = "PENDING" \/ h.pc \in Deciding \cup {"notify", "undelivered"} =>
         db[h.req].status = "PENDING"
    /\ h.outcome = "REJECTED" => db[h.req].status = "REJECTED"
    /\ Agrees(h.key, db[h.req].status)

\* What makes KeepsContract inductive where Serialized.
SerialInv ==
  /\ Alone
  /\ \A r \in Requests : Agrees(db[r].action, db[r].status)
  /\ \A w \in Workers : Fresh(proc[w])
  /\ sweeper.pc = "apply" => Agrees(sweeper.key, db[sweeper.req].status)

\* The contract's Binding, in terms of the tables.
Bound ==
  \A r \in Requests :
    /\ db[r].status \in Final => db'[r].status = db[r].status
    /\ grants'[r] # grants[r] => db[r].status = "PENDING"
    /\ "ENTER" \in keys'[r] \ keys[r] => db[r].status = "APPROVED"
    /\ "ESC" \in keys'[r] \ keys[r] => db[r].status \in {"REJECTED", "EXPIRED"}

\* Thread w moves.  It is the only one that may, so nothing else has to be looked at.
LEMMA SerialThread ==
  ASSUME SerialInv, NEW w \in Workers, proc[w].pc # "idle" \/ Quiet,
         UNCHANGED sweeper, \A v \in Workers : v # w => proc'[v] = proc[v],
         \A r \in Requests : Agrees(db[r].action, db[r].status)',
         Fresh(proc[w])'
  PROVE  SerialInv'
<1>1. sweeper.pc = "wait" /\ \A v \in Workers : v # w => proc[v].pc = "idle"
  BY DEF SerialInv, Alone, Quiet, At
<1>2. Alone'
  BY <1>1 DEF Alone
<1>3. \A v \in Workers : Fresh(proc[v])'
  BY <1>1 DEF Fresh
<1> QED BY <1>1, <1>2, <1>3 DEF SerialInv

\* It leaves the rows alone.
LEMMA SerialMove ==
  ASSUME SerialInv, NEW w \in Workers, proc[w].pc # "idle" \/ Quiet,
         UNCHANGED <<db, sweeper>>, \A v \in Workers : v # w => proc'[v] = proc[v],
         Fresh(proc'[w])
  PROVE  SerialInv'
<1>1. \A r \in Requests : Agrees(db[r].action, db[r].status)'
  BY DEF SerialInv, Agrees
<1>2. Fresh(proc[w])'
  BY DEF Fresh, Agrees
<1> QED BY <1>1, <1>2, SerialThread

\* It writes an outcome to its pending row.
LEMMA SerialDecided ==
  ASSUME IInv, SerialInv, NEW w \in Workers, proc[w].pc \in Deciding,
         NEW status \in Final \cup {"PENDING"}, NEW outcome \in Final \cup {"WAIT"},
         NEW reason \in Reasons, NEW who \in Deciders, NEW key \in Keys \cup {Null},
         SetDecision(proc[w].req, status, reason, who, key),
         Decided(w, outcome, key), Agrees(key, status),
         outcome = "REJECTED" => status = "REJECTED",
         UNCHANGED <<sweeper, grants, keys>>
  PROVE  SerialInv' /\ Bound
<1>1. /\ proc[w].pc # "idle" /\ TypeOK /\ proc[w].req \in Requests
      /\ db[proc[w].req].status = "PENDING"
  BY Acting DEF Deciding, SerialInv, Fresh
<1>2. /\ db'[proc[w].req].status = status /\ db'[proc[w].req].action = key
      /\ \A q \in Requests : q # proc[w].req => db'[q] = db[q]
  <2>1. status \in Status /\ db \in [Requests -> Row]
    BY <1>1 DEF TypeOK, Status
  <2> QED BY <1>1, <2>1, SetDecisionRow
<1>3. /\ proc'[w].pc = "audit" /\ proc'[w].req = proc[w].req /\ proc'[w].key = key
      /\ \A v \in Workers : v # w => proc'[v] = proc[v]
  BY <1>1, DecidedStep DEF TypeOK, Status
<1>4. proc'[w].outcome = outcome
  BY <1>1 DEF Decided, Idle, TypeOK
<1>5. \A r \in Requests : Agrees(db[r].action, db[r].status)'
  BY <1>2 DEF SerialInv, Agrees
<1>6. Fresh(proc[w])'
  BY <1>2, <1>3, <1>4 DEF Fresh, Deciding, Agrees, Final
<1>7. SerialInv'
  BY <1>1, <1>3, <1>5, <1>6, SerialThread
<1>8. Bound
  BY <1>1, <1>2 DEF Bound, Final
<1> QED BY <1>7, <1>8

\* A key that agrees with the row may be pressed.
LEMMA PressIsBound ==
  ASSUME IInv, NEW r \in Requests, NEW key, Press(r, key), Agrees(key, db[r].status),
         UNCHANGED <<db, grants>>
  PROVE  Bound
<1>1. \A q \in Requests : keys'[q] # keys[q] => q = r /\ keys'[q] = keys[q] \cup {key}
  BY DEF Press, IInv, TypeOK
<1> QED BY <1>1 DEF Bound, Agrees

\* An approval is remembered of a pending request.
LEMMA GrantIsBound ==
  ASSUME IInv, NEW r \in Requests, db[r].status = "PENDING", NEW approve, NEW cred, NEW who,
         RememberGrant(r, approve, cred, who), UNCHANGED <<db, keys>>
  PROVE  Bound
<1>1. \A q \in Requests : grants'[q] # grants[q] => q = r
  BY DEF RememberGrant, IInv, TypeOK
<1> QED BY <1>1 DEF Bound

LEMMA SerialBegin ==
  ASSUME Serialized, IInv, SerialInv, NEW w \in Workers, NEW r \in Requests, Begin(w, r)
  PROVE  SerialInv' /\ Bound
<1>1. /\ TypeOK /\ proc \in [Workers -> Handler] /\ Quiet /\ UNCHANGED sweeper
  BY DEF IInv, TypeOK, MayBegin, Begin, Insert, AnswerFinalized, FindOverdue, BeginCallback,
         BeginUnsigned
<1>2. CASE Insert(w, r)
  <2>1. /\ db[r].status = "ABSENT" /\ UNCHANGED <<grants, keys>>
        /\ \A q \in Requests : q # r => db'[q] = db[q]
        /\ db'[r].action = Null
        /\ \A v \in Workers : v # w => proc'[v] = proc[v]
    BY <1>1, <1>2 DEF Insert, TypeOK, ghosts
  <2>2. /\ proc'[w].req = r /\ proc'[w].key = Null
        /\ proc'[w].pc \in {"block", "created"}
        /\ proc'[w].outcome = db'[r].status
    BY <1>1, <1>2 DEF Insert, TypeOK, Idle
  <2>3. Fresh(proc[w])'
    BY <2>2, ConstantsAssumption DEF Fresh, Agrees, Deciding
  <2>4. \A q \in Requests : Agrees(db[q].action, db[q].status)'
    BY <2>1, ConstantsAssumption DEF SerialInv, Agrees
  <2>5. Bound
    BY <2>1 DEF Bound, Final
  <2> QED BY <1>1, <2>1, <2>3, <2>4, <2>5, SerialThread
<1>3. CASE AnswerFinalized(w, r)
  <2>1. /\ proc'[w].pc \in {"reread", "apply"} /\ proc'[w].req = r
        /\ proc'[w].key = db[r].action /\ proc'[w].outcome = "ABSENT"
        /\ \A v \in Workers : v # w => proc'[v] = proc[v]
        /\ UNCHANGED <<db, grants, keys>>
    BY <1>1, <1>3 DEF AnswerFinalized, Idle, ghosts
  <2>2. Fresh(proc'[w])
    BY <2>1 DEF Fresh, Deciding, SerialInv
  <2> QED BY <1>1, <2>1, <2>2, SerialMove DEF Bound
<1>4. CASE FindOverdue(w, r) \/ BeginCallback(w, r)
  <2>1. /\ proc'[w].pc \in {"expire", "nonce"} /\ proc'[w].req = r
        /\ proc'[w].key = Null /\ proc'[w].outcome = "ABSENT"
        /\ \A v \in Workers : v # w => proc'[v] = proc[v]
        /\ UNCHANGED <<db, grants, keys>> /\ db[r].status = "PENDING"
    BY <1>1, <1>4 DEF FindOverdue, BeginCallback, Idle, Call, Open, ghosts
  <2>2. Fresh(proc'[w])
    BY <2>1, ConstantsAssumption DEF Fresh, Agrees
  <2> QED BY <1>1, <2>1, <2>2, SerialMove DEF Bound
<1>5. CASE BeginUnsigned(w, r)
  <2>1. /\ proc'[w].pc \in {"vote", "finalize"} /\ proc'[w].req = r
        /\ proc'[w].key = Null /\ proc'[w].outcome = "ABSENT"
        /\ \A v \in Workers : v # w => proc'[v] = proc[v]
        /\ UNCHANGED <<db, keys>> /\ db[r].status = "PENDING"
        /\ \E approve, cred, who : RememberGrant(r, approve, cred, who)
    BY <1>1, <1>5 DEF BeginUnsigned, Idle, Call, AfterChecks, Open
  <2>2. Fresh(proc'[w])
    BY <2>1, ConstantsAssumption DEF Fresh, Agrees
  <2>3. Bound
    BY <2>1, GrantIsBound
  <2> QED BY <1>1, <2>1, <2>2, <2>3, SerialMove
<1> QED BY <1>2, <1>3, <1>4, <1>5 DEF Begin

\* It moves to another label.
LEMMA SerialGoto ==
  ASSUME IInv, SerialInv, NEW w \in Workers, proc[w].pc # "idle", NEW l \in Labels,
         Goto(w, l), UNCHANGED <<db, keys, grants, sweeper>>,
         Fresh([proc[w] EXCEPT !.pc = l])
  PROVE  SerialInv' /\ Bound
<1>1. /\ proc'[w] = [proc[w] EXCEPT !.pc = l]
      /\ \A v \in Workers : v # w => proc'[v] = proc[v]
  BY GotoStep DEF IInv, TypeOK
<1> QED BY <1>1, SerialMove DEF Bound

\* It stops.
LEMMA SerialDone ==
  ASSUME IInv, SerialInv, NEW w \in Workers, proc[w].pc # "idle", Done(w),
         UNCHANGED <<db, sweeper>>
  PROVE  SerialInv'
<1>1. proc'[w].pc = "idle" /\ \A v \in Workers : v # w => proc'[v] = proc[v]
  BY DoneStep DEF IInv, TypeOK
<1>2. Fresh(proc'[w])
  BY <1>1 DEF Fresh
<1> QED BY <1>1, <1>2, SerialMove

LEMMA SerialCreating ==
  ASSUME IInv, SerialInv, NEW w \in Workers,
         \/ RecordBlock(w) \/ AuditCreated(w) \/ Notify(w)
         \/ ReadUndelivered(w) \/ RejectUndelivered(w) \/ Reply(w)
  PROVE  SerialInv' /\ Bound
<1> DEFINE r == proc[w].req
<1>1. /\ proc[w].pc # "idle" /\ TypeOK /\ proc[w] \in Handler /\ HandlerOK(proc[w])
      /\ r \in Requests /\ RowOK(r) /\ Fresh(proc[w]) /\ db[r].status \in Status
  <2>1. proc[w].pc # "idle"
    BY DEF At, RecordBlock, AuditCreated, Notify, ReadUndelivered, RejectUndelivered, Reply
  <2>2. TypeOK /\ proc[w] \in Handler /\ HandlerOK(proc[w]) /\ r \in Requests /\ RowOK(r)
    BY <2>1, Acting
  <2> QED BY <2>1, <2>2 DEF SerialInv, TypeOK, Row
<1>2. CASE RecordBlock(w)
  <2>1. db[r].status = "REJECTED"
    BY <1>1, <1>2 DEF RecordBlock, At, HandlerOK, RowOK
  <2>2. /\ db'[r].status = "REJECTED" /\ db'[r].action = "ESC"
        /\ \A q \in Requests : q # r => db'[q] = db[q]
    <3>1. SetDecision(r, "REJECTED", "blocked_high_risk_command", "policy-engine", "ESC")
      BY <1>2 DEF RecordBlock
    <3> QED BY <1>1, <3>1, SetDecisionRow
            DEF TypeOK, Status, Final, Reasons, Deciders, Keys
  <2>3. /\ proc'[w] = [proc[w] EXCEPT !.pc = "created"]
        /\ \A v \in Workers : v # w => proc'[v] = proc[v]
    BY <1>1, <1>2, GotoStep DEF RecordBlock, TypeOK, Labels
  <2>4. UNCHANGED <<sweeper, grants, keys>>
    BY <1>2 DEF RecordBlock, ghosts
  <2>5. \A q \in Requests : Agrees(db[q].action, db[q].status)'
    BY <2>2 DEF SerialInv, Agrees
  <2>6. Fresh(proc[w])'
    BY <1>1, <1>2, <2>1, <2>2, <2>3 DEF RecordBlock, At, Fresh, Agrees, Deciding, Handler
  <2>7. SerialInv'
    BY <1>1, <2>3, <2>4, <2>5, <2>6, SerialThread
  <2>8. Bound
    BY <2>1, <2>2, <2>4 DEF Bound
  <2> QED BY <2>7, <2>8
<1>3. CASE AuditCreated(w)
  <2> DEFINE l == IF proc[w].outcome = "PENDING" THEN "notify" ELSE "reply"
  <2>1. Fresh([proc[w] EXCEPT !.pc = l])
    BY <1>1, <1>3 DEF AuditCreated, At, Fresh, Deciding, Handler
  <2>2. Goto(w, l) /\ l \in Labels /\ UNCHANGED <<db, keys, grants, sweeper>>
    BY <1>3 DEF AuditCreated, ghosts, Labels
  <2> QED BY <1>1, <2>1, <2>2, SerialGoto
<1>4. CASE Notify(w)
  <2>1. PICK l \in {"undelivered", "reply"} : Goto(w, l)
    BY <1>4 DEF Notify
  <2>2. Fresh([proc[w] EXCEPT !.pc = l])
    BY <1>1, <1>4 DEF Notify, At, Fresh, Deciding, Handler
  <2>3. l \in Labels /\ UNCHANGED <<db, keys, grants, sweeper>>
    BY <1>4 DEF Notify, ghosts, Labels
  <2> QED BY <1>1, <2>1, <2>2, <2>3, SerialGoto
<1>5. CASE ReadUndelivered(w)
  <2>1. db[r].status = "PENDING" /\ At(w, "undelivered")
    BY <1>1, <1>5 DEF ReadUndelivered, At, Fresh
  <2>2. Fresh([proc[w] EXCEPT !.pc = "discard"])
    BY <1>1, <2>1 DEF At, Fresh, Deciding, Handler
  <2>3. Goto(w, "discard") /\ UNCHANGED <<db, keys, grants, sweeper>>
    BY <1>5, <2>1 DEF ReadUndelivered, ghosts, Open
  <2>4. "discard" \in Labels
    BY DEF Labels
  <2> QED BY <1>1, <2>2, <2>3, <2>4, SerialGoto
<1>6. CASE RejectUndelivered(w)
  <2>1. /\ SetDecision(r, "REJECTED", "notification_failed", "system-notifier", "ESC")
        /\ Decided(w, "REJECTED", "ESC") /\ proc[w].pc \in Deciding
        /\ UNCHANGED <<sweeper, grants, keys>>
    BY <1>6 DEF RejectUndelivered, At, Deciding, ghosts
  <2>2. Agrees("ESC", "REJECTED")
    BY DEF Agrees
  <2> QED BY <2>1, <2>2, SerialDecided DEF Final, Reasons, Deciders, Keys
<1>7. CASE Reply(w)
  <2> DEFINE key == IF proc[w].outcome = "REJECTED" THEN "ESC" ELSE Null
  <2>1. Press(r, key) /\ Done(w) /\ UNCHANGED <<db, sweeper, grants>>
    BY <1>7 DEF Reply
  <2>2. Agrees(key, db[r].status)
    BY <1>1, ConstantsAssumption DEF Agrees, Fresh
  <2>3. Bound
    BY <1>1, <2>1, <2>2, PressIsBound
  <2> QED BY <1>1, <2>1, <2>3, SerialDone
<1> QED BY <1>2, <1>3, <1>4, <1>5, <1>6, <1>7

LEMMA SerialDeciding ==
  ASSUME IInv, SerialInv, NEW w \in Workers,
         \/ CheckCallback(w) \/ RefuseReplay(w) \/ ExpireOverdue(w)
         \/ RecordVote(w) \/ CountVotes(w) \/ AwaitSecond(w) \/ Finalize(w)
         \/ AuditOutcome(w) \/ Reread(w) \/ ApplyKey(w)
  PROVE  SerialInv' /\ Bound
<1> DEFINE r == proc[w].req
<1>1. /\ proc[w].pc # "idle" /\ TypeOK /\ proc[w] \in Handler /\ HandlerOK(proc[w])
      /\ r \in Requests /\ Fresh(proc[w]) /\ Agrees(db[r].action, db[r].status)
  <2>1. proc[w].pc # "idle"
    BY DEF At, CheckCallback, RefuseReplay, ExpireOverdue, RecordVote, CountVotes, AwaitSecond,
           Finalize, AuditOutcome, Reread, ApplyKey
  <2>2. TypeOK /\ proc[w] \in Handler /\ HandlerOK(proc[w]) /\ r \in Requests
    BY <2>1, Acting
  <2> QED BY <2>1, <2>2 DEF SerialInv
<1>2. CASE CheckCallback(w)
  <2>1. /\ \E approve, cred : RememberGrant(r, approve, cred, proc[w].who)
        /\ db[r].status = "PENDING" /\ At(w, "nonce") /\ UNCHANGED <<db, keys, sweeper>>
    BY <1>1, <1>2 DEF CheckCallback, At, Fresh, Deciding
  <2>2. Bound
    BY <1>1, <2>1, GrantIsBound
  <2>3. CASE Done(w)
    BY <1>1, <2>1, <2>2, <2>3, SerialDone
  <2>4. CASE Goto(w, AfterChecks(proc[w]))
    <3> DEFINE l == AfterChecks(proc[w])
    <3>1. l \in {"vote", "finalize"} /\ l \in Labels
      BY DEF AfterChecks, Labels
    <3>2. /\ proc'[w] = [proc[w] EXCEPT !.pc = l]
          /\ \A v \in Workers : v # w => proc'[v] = proc[v]
      BY <1>1, <2>4, <3>1, GotoStep DEF TypeOK
    <3>3. Fresh([proc[w] EXCEPT !.pc = l])
      BY <1>1, <2>1, <3>1 DEF At, Fresh, Deciding, Handler
    <3> QED BY <1>1, <2>1, <2>2, <3>2, <3>3, SerialMove
  <2> QED BY <1>2, <2>3, <2>4 DEF CheckCallback
<1>3. CASE RefuseReplay(w)
  <2>1. Done(w) /\ UNCHANGED <<db, keys, grants, sweeper>>
    BY <1>3 DEF RefuseReplay, ghosts
  <2> QED BY <1>1, <2>1, SerialDone DEF Bound
<1>4. CASE ExpireOverdue(w)
  <2>1. /\ SetDecision(r, "EXPIRED", "timeout_auto_reject", proc[w].who, "ESC")
        /\ Decided(w, "EXPIRED", "ESC") /\ proc[w].pc \in Deciding
        /\ UNCHANGED <<sweeper, grants, keys>>
    BY <1>4 DEF ExpireOverdue, At, Deciding, ghosts
  <2>2. Agrees("ESC", "EXPIRED") /\ proc[w].who \in Deciders
    BY <1>1 DEF Agrees, Handler, Deciders
  <2> QED BY <2>1, <2>2, SerialDecided DEF Final, Reasons, Keys
<1>5. CASE RecordVote(w)
  <2>1. Goto(w, "count") /\ "count" \in Labels /\ UNCHANGED <<db, keys, grants, sweeper>>
    BY <1>5 DEF RecordVote, ghosts, Labels
  <2>2. Fresh([proc[w] EXCEPT !.pc = "count"])
    BY <1>1, <1>5 DEF RecordVote, At, Fresh, Deciding, Handler
  <2> QED BY <1>1, <2>1, <2>2, SerialGoto
<1>6. CASE CountVotes(w)
  <2>1. PICK l \in {"finalize", "await"} : Goto(w, l)
    BY <1>6 DEF CountVotes
  <2>2. l \in Labels /\ UNCHANGED <<db, keys, grants, sweeper>>
    BY <1>6 DEF CountVotes, ghosts, tables, Labels
  <2>3. Fresh([proc[w] EXCEPT !.pc = l])
    BY <1>1, <1>6 DEF CountVotes, At, Fresh, Deciding, Handler
  <2> QED BY <1>1, <2>1, <2>2, <2>3, SerialGoto
<1>7. CASE AwaitSecond(w)
  <2>1. /\ SetDecision(r, "PENDING", "awaiting_second_approval_high_risk", proc[w].who, Null)
        /\ Decided(w, "WAIT", Null) /\ proc[w].pc \in Deciding
        /\ UNCHANGED <<sweeper, grants, keys>>
    BY <1>7 DEF AwaitSecond, At, Deciding, ghosts
  <2>2. Agrees(Null, "PENDING") /\ proc[w].who \in Deciders
    BY <1>1, ConstantsAssumption DEF Agrees, Handler, Deciders
  <2> QED BY <2>1, <2>2, SerialDecided DEF Reasons
<1>8. CASE Finalize(w)
  <2>1. /\ proc[w].pc \in Deciding /\ UNCHANGED <<sweeper, grants, keys>>
        /\ proc[w].who \in Deciders
    BY <1>1, <1>8 DEF Finalize, At, Deciding, ghosts, Handler, Deciders
  <2>2. CASE proc[w].approve
    <3>1. /\ SetDecision(r, "APPROVED", "approved", proc[w].who, "ENTER")
          /\ Decided(w, "APPROVED", "ENTER")
      BY <1>8, <2>2 DEF Finalize
    <3>2. Agrees("ENTER", "APPROVED")
      BY DEF Agrees
    <3> QED BY <2>1, <3>1, <3>2, SerialDecided DEF Final, Reasons, Keys
  <2>3. CASE ~proc[w].approve
    <3>1. /\ SetDecision(r, "REJECTED", "rejected", proc[w].who, "ESC")
          /\ Decided(w, "REJECTED", "ESC")
      BY <1>8, <2>3 DEF Finalize
    <3>2. Agrees("ESC", "REJECTED")
      BY DEF Agrees
    <3> QED BY <2>1, <3>1, <3>2, SerialDecided DEF Final, Reasons, Keys
  <2> QED BY <2>2, <2>3
<1>9. CASE AuditOutcome(w)
  <2>1. PICK l \in {"reread", "apply"} : Goto(w, l)
    BY <1>9 DEF AuditOutcome
  <2>2. l \in Labels /\ UNCHANGED <<db, keys, grants, sweeper>>
    BY <1>9 DEF AuditOutcome, ghosts, Labels
  <2>3. Fresh([proc[w] EXCEPT !.pc = l])
    BY <1>1, <1>9 DEF AuditOutcome, At, Fresh, Deciding, Handler
  <2> QED BY <1>1, <2>1, <2>2, <2>3, SerialGoto
<1>10. CASE Reread(w)
  <2>1. /\ proc'[w] = [proc[w] EXCEPT !.pc = "apply", !.key = db[r].action]
        /\ \A v \in Workers : v # w => proc'[v] = proc[v]
        /\ UNCHANGED <<db, keys, grants, sweeper>>
    BY <1>1, <1>10 DEF Reread, TypeOK, Handler, ghosts
  <2>2. /\ proc'[w].pc = "apply" /\ proc'[w].req = r /\ proc'[w].key = db[r].action
        /\ proc'[w].outcome = proc[w].outcome
    BY <1>1, <2>1 DEF Handler
  <2>3. Fresh(proc'[w])
    BY <1>1, <2>2 DEF Fresh, Deciding
  <2> QED BY <1>1, <2>1, <2>3, SerialMove DEF Bound
<1>11. CASE ApplyKey(w)
  <2>1. Press(r, proc[w].key) /\ UNCHANGED <<db, sweeper, grants>>
    BY <1>11 DEF ApplyKey
  <2>2. Bound
    BY <1>1, <2>1, PressIsBound DEF Fresh
  <2>3. CASE Done(w)
    BY <1>1, <2>1, <2>2, <2>3, SerialDone
  <2>4. CASE Goto(w, "reply")
    <3>1. /\ proc'[w] = [proc[w] EXCEPT !.pc = "reply"]
          /\ \A v \in Workers : v # w => proc'[v] = proc[v]
      BY <1>1, <2>4, GotoStep DEF TypeOK, Labels
    <3>2. Fresh([proc[w] EXCEPT !.pc = "reply"])
      BY <1>1, <1>11 DEF ApplyKey, At, Fresh, Deciding, Handler
    <3> QED BY <1>1, <2>1, <2>2, <3>1, <3>2, SerialMove
  <2> QED BY <1>11, <2>3, <2>4 DEF ApplyKey
<1> QED BY <1>2, <1>3, <1>4, <1>5, <1>6, <1>7, <1>8, <1>9, <1>10, <1>11

LEMMA SerialLoop ==
  ASSUME Serialized, IInv, SerialInv, ExpireLoop
  PROVE  SerialInv' /\ Bound
<1>1. /\ TypeOK /\ UNCHANGED <<proc, grants>>
      /\ \A r \in Requests : Agrees(db[r].action, db[r].status)
  BY DEF IInv, SerialInv, ExpireLoop, ExpireDue, AuditExpired, ReadExpired, ApplyExpired, ghosts
<1>2. ASSUME ExpireDue PROVE \A w \in Workers : proc'[w].pc = "idle"
  BY <1>1, <1>2 DEF ExpireDue, MayBegin, Quiet, At
<1>3. ASSUME ~ExpireDue PROVE \A w \in Workers : proc'[w].pc = "idle"
  <2>1. sweeper.pc # "wait"
    BY <1>3 DEF ExpireLoop, AuditExpired, ReadExpired, ApplyExpired
  <2> QED BY <1>1, <2>1 DEF SerialInv, Alone
<1>4. Alone' /\ \A w \in Workers : Fresh(proc[w])'
  BY <1>2, <1>3 DEF Alone, Fresh
<1>5. CASE ExpireDue
  <2>1. ASSUME NEW r \in Requests
        PROVE  \/ db'[r] = db[r]
               \/ db[r].status = "PENDING" /\ db'[r].status = "EXPIRED" /\ db'[r].action = "ESC"
    <3>1. db[r] \in Row /\ db'[r] = IF r \in Due THEN Swept(db[r]) ELSE db[r]
      BY <1>1, <1>5 DEF TypeOK, ExpireDue
    <3> QED BY <3>1 DEF Swept, Row, Due
  <2>2. \A r \in Requests : Agrees(db[r].action, db[r].status)'
    BY <1>1, <2>1 DEF Agrees
  <2>3. sweeper'.pc = "audit" /\ keys' = keys
    BY <1>5 DEF ExpireDue, Resting, ghosts
  <2>4. SerialInv'
    BY <1>4, <2>2, <2>3 DEF SerialInv
  <2>5. Bound
    BY <1>1, <2>1, <2>3 DEF Bound, Final
  <2> QED BY <2>4, <2>5
<1>6. CASE AuditExpired
  <2>1. sweeper'.pc \in {"read", "audit"} /\ UNCHANGED <<db, keys>>
    BY <1>1, <1>6 DEF AuditExpired, TypeOK, SweeperState, ghosts
  <2>2. SerialInv'
    BY <1>1, <1>4, <2>1 DEF SerialInv, Agrees
  <2> QED BY <1>1, <2>1, <2>2 DEF Bound
<1>7. CASE ReadExpired
  <2>1. PICK r \in sweeper.toApply :
          sweeper' = [sweeper EXCEPT !.toApply = @ \ {r}, !.pc = "apply",
                                     !.req = r, !.key = db[r].action]
    BY <1>7 DEF ReadExpired
  <2>2. /\ sweeper'.req = r /\ sweeper'.key = db[r].action /\ r \in Requests
        /\ UNCHANGED <<db, keys>>
    BY <1>1, <1>7, <2>1 DEF ReadExpired, TypeOK, SweeperState, ghosts
  <2>3. SerialInv'
    BY <1>1, <1>4, <2>2 DEF SerialInv, Agrees
  <2> QED BY <1>1, <2>2, <2>3 DEF Bound
<1>8. CASE ApplyExpired
  <2>1. /\ sweeper'.pc \in {"wait", "read"} /\ UNCHANGED db
        /\ Press(sweeper.req, sweeper.key)
    BY <1>1, <1>8 DEF ApplyExpired, Resting, TypeOK, SweeperState
  <2>2. SerialInv'
    BY <1>1, <1>4, <2>1 DEF SerialInv, Agrees
  <2>3. sweeper.req \in Requests /\ Agrees(sweeper.key, db[sweeper.req].status)
    BY <1>8 DEF ApplyExpired, SerialInv, IInv, SweeperOK
  <2> QED BY <1>1, <2>1, <2>2, <2>3, PressIsBound
<1> QED BY <1>5, <1>6, <1>7, <1>8 DEF ExpireLoop

LEMMA SerialSurroundings ==
  ASSUME IInv, SerialInv,
         \/ \E r \in Requests : Register(r) \/ Unregister(r)
         \/ Tick \/ Restart \/ UNCHANGED vars
  PROVE  SerialInv' /\ Bound
<1>1. UNCHANGED <<db, keys, grants>>
  BY DEF Register, Unregister, Tick, Restart, vars, ghosts
<1>2. CASE UNCHANGED <<proc, sweeper>>
  BY <1>1, <1>2 DEF SerialInv, Alone, Fresh, Agrees, Bound
<1>3. CASE Restart
  <2>1. sweeper'.pc = "wait" /\ \A w \in Workers : proc'[w].pc = "idle"
    BY <1>3 DEF Restart, Resting, Idle
  <2> QED BY <1>1, <2>1 DEF SerialInv, Alone, Fresh, Agrees, Bound
<1> QED BY <1>2, <1>3 DEF Register, Unregister, Tick, vars

LEMMA NextKeepsSerial ==
  Serialized => (IInv /\ SerialInv /\ [Next]_vars => SerialInv' /\ Bound)
<1> SUFFICES ASSUME Serialized, IInv, SerialInv, [Next]_vars PROVE SerialInv' /\ Bound
  OBVIOUS
<1>1. ASSUME NEW w \in Workers, Continue(w) PROVE SerialInv' /\ Bound
  BY <1>1, SerialCreating, SerialDeciding DEF Continue
<1> QED BY <1>1, SerialBegin, SerialLoop, SerialSurroundings DEF Next

LEMMA InitSerial == Init => SerialInv
<1> SUFFICES ASSUME Init PROVE SerialInv
  OBVIOUS
<1> QED BY ConstantsAssumption
        DEF Init, SerialInv, Alone, Fresh, Agrees, AbsentRow, Idle, Resting

\* Handlers that run one at a time act on what the rows say: what they have read stays true
\* until they have acted on it, and a row never orders a key its own status does not call for.
THEOREM SerialHandlersAgree == Serialized => (Spec => []SerialInv)
<1> SUFFICES ASSUME Serialized PROVE Spec => []SerialInv
  OBVIOUS
<1>1. IInv /\ SerialInv /\ [Next]_vars => SerialInv'
  BY NextKeepsSerial
<1> QED BY <1>1, InitSerial, InductiveInvariant, PTL DEF Spec

\* The tables' Bound is the contract's Binding.
LEMMA BoundIsBinding == TypeOK /\ TypeOK' /\ Bound => Contract!Binding
<1> SUFFICES ASSUME TypeOK, TypeOK', Bound, NEW r \in Requests
             PROVE  /\ VerdictOf(db[r].status) \in Contract!Closed =>
                         VerdictOf(db'[r].status) = VerdictOf(db[r].status)
                    /\ grants'[r] # grants[r] => VerdictOf(db[r].status) = "open"
                    /\ "ENTER" \in keys'[r] \ keys[r] =>
                         VerdictOf(db[r].status) = "approved"
                    /\ "ESC" \in keys'[r] \ keys[r] =>
                         VerdictOf(db[r].status) \in {"rejected", "expired"}
  BY DEF Contract!Binding
<1>1. db[r].status \in Status
  BY DEF TypeOK, Row
<1> QED BY <1>1 DEF Bound, Status, Final, VerdictOf, Contract!Closed

\* Where handlers and sweeps run one at a time the gateway implements the whole contract: a
\* verdict stays, nobody joins a closed request, and the keys that reach a terminal agree with
\* the verdict - for any number of requests, approvers, threads and restarts.
THEOREM ImplementsContract == Serialized => (Spec => KeepsContract)
<1> SUFFICES ASSUME Serialized PROVE Spec => KeepsContract
  OBVIOUS
<1>1. IInv /\ IInv' /\ SerialInv /\ [Next]_vars =>
        [Contract!AuthorityNext /\ Contract!Binding]_(Contract!contract)
  BY NextIsContractStep, NextKeepsSerial, BoundIsBinding DEF ContractStep, IInv
<1>2. Spec => []SerialInv
  BY SerialHandlersAgree
<1> QED
  BY <1>1, <1>2, InitIsContractInit, InductiveInvariant, PTL
     DEF Spec, KeepsContract, Contract!Spec

\* README.md:263, tests/test_approval_flow.py:441: where handlers run one at a time, as in the
\* tests, what an approver rejected is never open for votes again.  What the run
\* gateway_reject shows needs two handlers that overlap.
THEOREM RejectionsStick == Serialized => (Spec => RejectShortCircuits)
<1> SUFFICES ASSUME Serialized PROVE Spec => RejectShortCircuits
  OBVIOUS
<1>1. IInv /\ SerialInv /\ [Next]_vars =>
        [\A r \in Requests :
           db[r].status = "REJECTED" /\ db[r].reason = "rejected" =>
             db'[r].status # "PENDING"]_vars
  BY NextKeepsSerial DEF Bound, Final
<1>2. Spec => []SerialInv
  BY SerialHandlersAgree
<1> QED BY <1>1, <1>2, InductiveInvariant, PTL DEF Spec, RejectShortCircuits
-----------------------------------------------------------------------------
(***************************************************************************)
(* Handlers come to an end.                                                *)
(***************************************************************************)

\* The order in which a handler goes through its steps.
Rank(pc) ==
  CASE pc = "block" -> 1 [] pc = "created" -> 2 [] pc = "notify" -> 3
    [] pc = "undelivered" -> 4 [] pc = "discard" -> 5 [] pc = "nonce" -> 6
    [] pc = "vote" -> 7 [] pc = "count" -> 8 [] pc = "await" -> 9
    [] pc = "finalize" -> 10 [] pc = "expire" -> 11 [] pc = "audit" -> 12
    [] pc = "reread" -> 13 [] pc = "apply" -> 14 [] pc = "reply" -> 15
    [] OTHER -> 0

GoesOn(w) == proc'[w].pc = "idle" \/ Rank(proc[w].pc) < Rank(proc'[w].pc)

Advances(w) == proc'[w] = proc[w] \/ proc[w].pc = "idle" \/ GoesOn(w)

LEMMA GotoAdvances ==
  ASSUME TypeOK, NEW w \in Workers, NEW pc, Goto(w, pc),
         pc = "idle" \/ Rank(proc[w].pc) < Rank(pc)
  PROVE  GoesOn(w) /\ \A v \in Workers : Advances(v)
BY DEF Goto, TypeOK, Handler, Advances, GoesOn

LEMMA BecomesAdvances ==
  ASSUME TypeOK, NEW w \in Workers, NEW h, proc' = [proc EXCEPT ![w] = h],
         h.pc = "idle" \/ Rank(proc[w].pc) < Rank(h.pc)
  PROVE  GoesOn(w) /\ \A v \in Workers : Advances(v)
BY DEF TypeOK, Advances, GoesOn

LEMMA ContinueAdvances ==
  ASSUME TypeOK, NEW w \in Workers, Continue(w)
  PROVE  GoesOn(w) /\ \A v \in Workers : Advances(v)
<1>1. CASE RecordBlock(w) \/ AuditCreated(w) \/ Notify(w)
  <2>1. PICK pc \in {"created", "notify", "reply", "undelivered"} :
          Goto(w, pc) /\ Rank(proc[w].pc) < Rank(pc)
    BY <1>1 DEF RecordBlock, AuditCreated, Notify, At, Rank
  <2> QED BY <2>1, GotoAdvances
<1>2. CASE ReadUndelivered(w)
  <2>1. CASE Goto(w, "discard")
    BY <1>2, <2>1, GotoAdvances DEF ReadUndelivered, At, Rank
  <2>2. CASE ~Goto(w, "discard")
    <3> DEFINE h == [Idle EXCEPT !.pc = "apply", !.req = proc[w].req,
                                 !.outcome = "REJECTED", !.key = "ESC"]
    <3>1. proc' = [proc EXCEPT ![w] = h] /\ proc[w].pc = "undelivered"
      BY <1>2, <2>2 DEF ReadUndelivered, At
    <3>2. h.pc = "apply"
      BY DEF Idle
    <3> HIDE DEF h
    <3>3. Rank(proc[w].pc) < Rank(h.pc)
      BY <3>1, <3>2 DEF Rank
    <3> QED BY <3>1, <3>3, BecomesAdvances
  <2> QED BY <2>1, <2>2
<1>3. CASE RejectUndelivered(w) \/ ExpireOverdue(w) \/ AwaitSecond(w) \/ Finalize(w)
  <2>1. PICK outcome, key : Decided(w, outcome, key)
    BY <1>3 DEF RejectUndelivered, ExpireOverdue, AwaitSecond, Finalize
  <2> DEFINE h == [Idle EXCEPT !.pc = "audit", !.via = proc[w].via, !.req = proc[w].req,
                               !.outcome = outcome, !.key = key]
  <2>2. proc' = [proc EXCEPT ![w] = h] /\ h.pc = "audit"
    BY <2>1 DEF Decided, Idle
  <2>3. proc[w].pc \in {"discard", "expire", "await", "finalize"}
    BY <1>3 DEF RejectUndelivered, ExpireOverdue, AwaitSecond, Finalize, At
  <2> HIDE DEF h
  <2>4. Rank(proc[w].pc) < Rank(h.pc)
    BY <2>2, <2>3 DEF Rank
  <2> QED BY <2>2, <2>4, BecomesAdvances
<1>4. CASE RecordVote(w) \/ CountVotes(w) \/ AuditOutcome(w)
  <2>1. PICK pc \in {"count", "finalize", "await", "reread", "apply"} :
          Goto(w, pc) /\ Rank(proc[w].pc) < Rank(pc)
    BY <1>4 DEF RecordVote, CountVotes, AuditOutcome, At, Rank
  <2> QED BY <2>1, GotoAdvances
<1>5. CASE Done(w)
  BY <1>5, BecomesAdvances DEF Done, Idle
<1>6. CASE CheckCallback(w) /\ ~Done(w)
  <2>1. PICK pc \in {"vote", "finalize"} : Goto(w, pc)
    BY <1>6 DEF CheckCallback, AfterChecks
  <2>2. proc[w].pc = "nonce"
    BY <1>6 DEF CheckCallback, At
  <2> QED BY <2>1, <2>2, GotoAdvances DEF Rank
<1>7. CASE Reread(w)
  <2> DEFINE h == [proc[w] EXCEPT !.pc = "apply", !.key = db[proc[w].req].action]
  <2>1. proc' = [proc EXCEPT ![w] = h] /\ proc[w].pc = "reread" /\ h.pc = "apply"
    BY <1>7 DEF Reread, At, TypeOK, Handler
  <2> HIDE DEF h
  <2>2. Rank(proc[w].pc) < Rank(h.pc)
    BY <2>1 DEF Rank
  <2> QED BY <2>1, <2>2, BecomesAdvances
<1>8. CASE ApplyKey(w) /\ ~Done(w)
  BY <1>8, GotoAdvances DEF ApplyKey, At, Rank
<1> QED BY <1>1, <1>2, <1>3, <1>4, <1>5, <1>6, <1>7, <1>8
     DEF Continue, Reply, RefuseReplay

\* A handler never takes a step twice, whatever the tables have become meanwhile: each of its
\* own steps takes it further, so once it has begun it takes at most fifteen, and then it has
\* answered.  With the fairness of FairSpec, which keeps it moving, this is what lets handlers
\* end.
THEOREM HandlersAdvance ==
  Spec => [][\A w \in Workers : Advances(w) /\ (Continue(w) => GoesOn(w))]_vars
<1>1. TypeOK /\ [Next]_vars
      => [\A w \in Workers : Advances(w) /\ (Continue(w) => GoesOn(w))]_vars
  <2> SUFFICES ASSUME TypeOK, Next, NEW w \in Workers
               PROVE  Advances(w) /\ (Continue(w) => GoesOn(w))
    OBVIOUS
  <2>1. ASSUME NEW v \in Workers, NEW r \in Requests, Begin(v, r) PROVE Advances(w)
    <3>1. proc[v].pc = "idle" /\ \E h : proc' = [proc EXCEPT ![v] = h]
      BY <2>1 DEF Begin, Insert, AnswerFinalized, FindOverdue, BeginCallback, BeginUnsigned, At
    <3> QED BY <3>1 DEF TypeOK, Advances
  <2>2. ASSUME UNCHANGED proc PROVE Advances(w)
    BY <2>2 DEF Advances
  <2>3. ASSUME Restart PROVE Advances(w)
    BY <2>3 DEF Restart, Advances, GoesOn, Idle
  <2>4. Advances(w)
    BY <2>1, <2>2, <2>3, ContinueAdvances
       DEF Next, ExpireLoop, ExpireDue, AuditExpired, ReadExpired, ApplyExpired, Register,
           Unregister, Tick
  <2>5. ASSUME Continue(w) PROVE GoesOn(w)
    BY <2>5, ContinueAdvances
  <2> QED BY <2>4, <2>5, Zenon
<1> QED BY <1>1, TypeCorrect, PTL DEF Spec
=============================================================================
