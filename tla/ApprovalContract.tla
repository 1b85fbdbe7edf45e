-------------------------- MODULE ApprovalContract --------------------------
(***************************************************************************)
(* What an approval gateway promises, without handlers, tables or threads. *)
(* A request is open until a verdict is reached; approvers put themselves  *)
(* behind it while it is open; keys reach the terminal on the strength of  *)
(* that.  There are two promises:                                          *)
(*   - AuthoritySpec: an approval, and an ENTER, always has enough         *)
(*     approvers behind it, but a verdict may be replaced by another;      *)
(*   - Spec: in addition a verdict is binding, and a key agrees with it.   *)
(***************************************************************************)
CONSTANTS Requests, Approvers

VARIABLES
  verdict,   \* "none" before the request exists, "open", then the verdict
  strict,    \* does the request need two approvers?
  backers,   \* approvers behind the request
  pressed    \* keys that reached the terminal

contract == <<verdict, strict, backers, pressed>>

Closed   == {"approved", "rejected", "expired"}
Verdicts == {"none", "open"} \cup Closed

Enough(r) ==
  /\ backers[r] # {}
  /\ strict[r] => \E a, b \in backers[r] : a # b

Init ==
  /\ verdict = [r \in Requests |-> "none"]
  /\ strict \in [Requests -> BOOLEAN]
  /\ backers = [r \in Requests |-> {}]
  /\ pressed = [r \in Requests |-> {}]

\* A request arrives; a forbidden one is rejected on the spot.
Submit(r) ==
  /\ verdict[r] = "none"
  /\ \E v \in {"open", "rejected"} : verdict' = [verdict EXCEPT ![r] = v]
  /\ \E s \in BOOLEAN : strict' = [strict EXCEPT ![r] = s]
  /\ UNCHANGED <<backers, pressed>>

Back(r, a) ==
  /\ verdict[r] # "none"
  /\ backers' = [backers EXCEPT ![r] = @ \cup {a}]
  /\ UNCHANGED <<verdict, strict, pressed>>

\* Verdicts are reached one request at a time, except that several requests
\* may expire together.
Decide(r) ==
  /\ verdict[r] # "none"
  /\ \E v \in {"open"} \cup Closed :
       /\ v = "approved" => Enough(r)
       /\ verdict' = [verdict EXCEPT ![r] = v]
  /\ UNCHANGED <<strict, backers, pressed>>

Expire ==
  /\ \E S \in SUBSET {r \in Requests : verdict[r] = "open"} :
       verdict' = [r \in Requests |-> IF r \in S THEN "expired" ELSE verdict[r]]
  /\ UNCHANGED <<strict, backers, pressed>>

PressKey(r) ==
  /\ verdict[r] # "none"
  /\ \E key \in {"ENTER", "ESC"} :
       /\ key = "ENTER" => Enough(r)
       /\ pressed' = [pressed EXCEPT ![r] = @ \cup {key}]
  /\ UNCHANGED <<verdict, strict, backers>>

AuthorityNext ==
  \/ \E r \in Requests : Submit(r) \/ Decide(r) \/ PressKey(r)
  \/ \E r \in Requests, a \in Approvers : Back(r, a)
  \/ Expire

\* A closed verdict stays, approvers join only an open request, and a key
\* agrees with the verdict.
Binding ==
  \A r \in Requests :
    /\ verdict[r] \in Closed => verdict'[r] = verdict[r]
    /\ backers'[r] # backers[r] => verdict[r] = "open"
    /\ "ENTER" \in pressed'[r] \ pressed[r] => verdict[r] = "approved"
    /\ "ESC" \in pressed'[r] \ pressed[r] => verdict[r] \in {"rejected", "expired"}

AuthoritySpec == Init /\ [][AuthorityNext]_contract
Spec == Init /\ [][AuthorityNext /\ Binding]_contract
=============================================================================
