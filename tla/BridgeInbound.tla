---------------------------- MODULE BridgeInbound ----------------------------
(***************************************************************************)
(* How the bridge takes chat messages in, and what it makes of approval    *)
(* commands (chat_bridge.py: BridgePolicy, MessageDedupeStore,             *)
(* parse_approval_command; scripts/run_dingtalk_stream_bridge.py: process  *)
(* and the workers it starts).  What becomes of a task is StreamBridge.    *)
(*                                                                         *)
(* The chat service may deliver a message again.  A file remembers the     *)
(* messages that were taken in, for a time and up to a number of them.     *)
(* Deliveries are handled one after the other; their workers run at once.  *)
(* The gateway is reduced to its queue of pending requests, the newest of  *)
(* which has the greatest number.                                          *)
(*                                                                         *)
(* A definition marked "Fault" is no part of the specification: it is the  *)
(* definition after it as a plausible mistake would have it, kept to show  *)
(* that the properties tell the two apart.                                 *)
(***************************************************************************)
EXTENDS Naturals, FiniteSets

CONSTANTS
  MessageIds,      \* message ids
  NoMessage,       \* none of them
  Refused,         \* those the policy refuses
  Questions,       \* those that ask for the approval queue or the routes
  Approvals,       \* those that approve or reject; the others are tasks
  Named,           \* the request an approval names, or 0
  Ttl,             \* ttl_seconds, in ticks
  MaxItems,        \* max_items
  MaxWorkers,      \* bound: workers at the same time
  MaxTaken,        \* bound: messages taken in
  MaxRequests,     \* bound: requests created at the gateway
  MaxLosses,       \* bound: how often the file cannot be read
  MaxExits         \* bound: how often the bridge exits and is started again

Requests == 1 .. MaxRequests

ASSUME InboundAssumption ==
  /\ NoMessage \notin MessageIds
  /\ {Refused, Questions, Approvals} \subseteq SUBSET MessageIds
  /\ Questions \cap Approvals = {}
  /\ Named \in [Approvals -> {0} \cup Requests]
  /\ {Ttl, MaxItems, MaxWorkers, MaxTaken, MaxRequests, MaxLosses, MaxExits} \subseteq Nat
  /\ MaxItems > 0

VARIABLES
  store,    \* the dedupe file: message ids with their age and the order they came in
  delivery, \* each delivery being handled, and the worker that was started for it
  created,  \* requests the gateway has seen
  pending,  \* those that wait for a decision
  voted,    \* those the bridge's approver has decided on or voted for
  since,    \* history: age of the last time a message was taken in
  others,   \* history: messages taken in after it
  acted,    \* history: how often a message was carried out
  openings, \* history: how often it was taken in while it need not be remembered
  taken, losses, exits

gateway == <<created, pending, voted>>
memory == <<since, others, acted, openings>>
bounds == <<taken, losses, exits>>
inboundVars == <<store, delivery, gateway, memory, bounds>>
-----------------------------------------------------------------------------
Deliveries == 1 .. MaxWorkers

\* What the chat is told of a question or an approval; "silent" is nothing.
Told == {"silent", "answer", "none", "handled", "failed"}

Delivery == [pc: {"idle", "marked", "ask", "pick", "decide", "list", "reply"},
             msg: MessageIds \cup {NoMessage}, req: {0} \cup Requests, told: Told]

NoDelivery == [pc |-> "idle", msg |-> NoMessage, req |-> 0, told |-> "silent"]

Stands(d, pc) == delivery[d].pc = pc

Becomes(d, new) == delivery' = [delivery EXCEPT ![d] = new]

GoOn(d, pc) == Becomes(d, [delivery[d] EXCEPT !.pc = pc])

Tell(d, what) == Becomes(d, [delivery[d] EXCEPT !.pc = "reply", !.told = what])

LastAge == Ttl + 1
-----------------------------------------------------------------------------
(***************************************************************************)
(* MessageDedupeStore.check_and_mark.                                      *)
(***************************************************************************)
Holds(items, m) == \E x \in items : x.msg = m

\* Fault: a message is forgotten when its time is just up.
RecentStrictly(item) == item.age < Ttl

Recent(item) == item.age <= Ttl

Pruned(items) == {x \in items : Recent(x)}

\* Fault: the oldest are kept, not the newest.
KeptOldest(items) ==
  {x \in items : Cardinality({y \in items : y.at < x.at}) < MaxItems}

\* _prune_max_items: the newest stay.  The times of two messages always differ, though
\* not by a tick.
Kept(items) ==
  {x \in items : Cardinality({y \in items : x.at < y.at}) < MaxItems}

\* Until then the file has to remember a message.
Protected(m) == since[m] <= Ttl /\ Cardinality(others[m]) < MaxItems

\* The file as it is read: one that cannot be read counts as empty, which the next
\* message makes final.
Read(items) ==
  \/ items = store /\ UNCHANGED losses
  \/ items = {} /\ losses < MaxLosses /\ losses' = losses + 1

\* process() runs from beginning to end before the next delivery is looked at.
CallbackFree == \A d \in Deliveries : ~Stands(d, "marked")

First(d) == Stands(d, "idle") /\ \A e \in 1 .. d - 1 : ~Stands(e, "idle")

\* BridgePolicy.evaluate.  A message that is refused only gets a notice.
Accepts(m) == m \notin Refused

\* A duplicate is neither refreshed nor moved.
Ignore(m) ==
  /\ CallbackFree
  /\ Accepts(m)
  /\ Holds(Pruned(store), m)
  /\ store' = Pruned(store)
  /\ UNCHANGED <<delivery, gateway, memory, bounds>>

\* If the file cannot be written the exception ends process(): the message is not taken
\* in, and the chat service is told that all is well.
\* When the file is lost, so is the protection of all messages.
TakeIn(d, m) ==
  /\ First(d) /\ CallbackFree
  /\ Accepts(m)
  /\ taken < MaxTaken
  /\ taken' = taken + 1
  /\ \E items \in {store, {}} :
       /\ Read(items)
       /\ ~Holds(Pruned(items), m)
       /\ store' = Kept(Pruned(items) \cup {[msg |-> m, age |-> 0, at |-> taken']})
       /\ openings' = IF Protected(m) /\ losses' = losses THEN openings
                      ELSE [openings EXCEPT ![m] = @ + 1]
       /\ since' = [x \in MessageIds |-> CASE x = m -> 0
                                         [] x # m /\ losses' = losses -> since[x]
                                         [] OTHER -> LastAge]
  /\ others' = [x \in MessageIds |-> IF x = m THEN {} ELSE others[x] \cup {m}]
  /\ Becomes(d, [NoDelivery EXCEPT !.pc = "marked", !.msg = m])
  /\ UNCHANGED <<gateway, acted, exits>>

\* A worker is started for the message; StreamBridge goes on with a task.
Spawn(d) ==
  /\ Stands(d, "marked")
  /\ LET m == delivery[d].msg
     IN  CASE m \in Questions -> GoOn(d, "ask") /\ UNCHANGED acted
           [] m \in Approvals ->
                /\ Becomes(d, [delivery[d] EXCEPT
                                 !.pc = IF Named[m] = 0 THEN "pick" ELSE "decide",
                                 !.req = Named[m]])
                /\ UNCHANGED acted
           [] OTHER -> Becomes(d, NoDelivery) /\ acted' = [acted EXCEPT ![m] = @ + 1]
  /\ UNCHANGED <<store, gateway, since, others, openings, bounds>>
-----------------------------------------------------------------------------
(***************************************************************************)
(* The workers of questions and approval commands.                         *)
(***************************************************************************)

\* The queue, or the snapshot and failing that the routes; the reply says so if
\* nothing can be read.
Ask(d) ==
  /\ Stands(d, "ask")
  /\ Tell(d, "answer") \/ Tell(d, "failed")
  /\ UNCHANGED <<store, gateway, memory, bounds>>

Greatest(rs) == CHOOSE r \in rs : \A q \in rs : q <= r

\* An approval that names no request is meant for the newest one that is pending now.
Pick(d) ==
  /\ Stands(d, "pick")
  /\ \/ pending = {} /\ Tell(d, "none")
     \/ /\ pending # {}
        /\ Becomes(d, [delivery[d] EXCEPT !.pc = "decide", !.req = Greatest(pending)])
     \/ Tell(d, "failed")
  /\ UNCHANGED <<store, gateway, memory, bounds>>

\* Fault: an answer of the gateway is taken for granted.
AfterFailure(d) == GoOn(d, "list")

AfterError(d) == Tell(d, "failed")

\* The decision is posted.  A request that awaits two approvals stays pending, one
\* that is settled already is answered with what it is; the answer may be lost.
Decide(d) ==
  /\ Stands(d, "decide")
  /\ \/ /\ delivery[d].req <= created
        /\ voted' = voted \cup ({delivery[d].req} \cap pending)
        /\ pending' \in {pending, pending \ {delivery[d].req}}
        /\ acted' = [acted EXCEPT ![delivery[d].msg] = @ + 1]
        /\ GoOn(d, "list") \/ AfterError(d)
     \/ UNCHANGED <<pending, voted, acted>> /\ AfterError(d)
  /\ UNCHANGED <<store, created, since, others, openings, bounds>>

\* The queue is read again for the reply; a failure makes a failure of the whole.
List(d) ==
  /\ Stands(d, "list")
  /\ Tell(d, "handled") \/ Tell(d, "failed")
  /\ UNCHANGED <<store, gateway, memory, bounds>>

\* The reply is sent, given up, or dropped for a newer message (StreamBridge!Stale).
Reply(d) ==
  /\ Stands(d, "reply")
  /\ Becomes(d, NoDelivery)
  /\ UNCHANGED <<store, gateway, memory, bounds>>
-----------------------------------------------------------------------------
(***************************************************************************)
(* The gateway, time, and the bridge's process.                            *)
(***************************************************************************)
NewRequest ==
  /\ created < MaxRequests
  /\ created' = created + 1
  /\ pending' = pending \cup {created'}
  /\ UNCHANGED <<store, delivery, voted, memory, bounds>>

SettledElsewhere(r) ==
  /\ r \in pending
  /\ pending' = pending \ {r}
  /\ UNCHANGED <<store, delivery, created, voted, memory, bounds>>

Aged(age) == IF age < LastAge THEN age + 1 ELSE age

InboundTick ==
  /\ store' = {[x EXCEPT !.age = Aged(@)] : x \in store}
  /\ since' = [m \in MessageIds |-> Aged(since[m])]
  /\ UNCHANGED <<delivery, gateway, others, acted, openings, bounds>>

\* The watchdog recycles the process, whatever its workers are doing; a message that
\* was marked stays so.
Exit ==
  /\ exits < MaxExits
  /\ exits' = exits + 1
  /\ delivery' = [d \in Deliveries |-> NoDelivery]
  /\ UNCHANGED <<store, gateway, memory, taken, losses>>
-----------------------------------------------------------------------------
InboundInit ==
  /\ store = {}
  /\ delivery = [d \in Deliveries |-> NoDelivery]
  /\ created = 0
  /\ pending = {}
  /\ voted = {}
  /\ since = [m \in MessageIds |-> LastAge]
  /\ others = [m \in MessageIds |-> {}]
  /\ acted = [m \in MessageIds |-> 0]
  /\ openings = [m \in MessageIds |-> 0]
  /\ taken = 0
  /\ losses = 0
  /\ exits = 0

Work(d) == Spawn(d) \/ Ask(d) \/ Pick(d) \/ Decide(d) \/ List(d) \/ Reply(d)

InboundNext ==
  \/ \E d \in Deliveries : Work(d) \/ \E m \in MessageIds : TakeIn(d, m)
  \/ \E m \in MessageIds : Ignore(m)
  \/ NewRequest
  \/ \E r \in Requests : SettledElsewhere(r)
  \/ InboundTick
  \/ Exit

InboundSpec == InboundInit /\ [][InboundNext]_inboundVars
-----------------------------------------------------------------------------
InboundTypeOK ==
  /\ store \subseteq [msg: MessageIds, age: 0 .. LastAge, at: 1 .. taken]
  /\ delivery \in [Deliveries -> Delivery]
  /\ created \in 0 .. MaxRequests
  /\ pending \subseteq 1 .. created
  /\ voted \subseteq 1 .. created
  /\ since \in [MessageIds -> 0 .. LastAge]
  /\ others \in [MessageIds -> SUBSET MessageIds]
  /\ {acted, openings} \subseteq [MessageIds -> Nat]
  /\ taken \in 0 .. MaxTaken
  /\ losses \in 0 .. MaxLosses
  /\ exits \in 0 .. MaxExits

\* The file holds each message once and no more than it may, and it holds every message
\* it has to remember: deliveries of a duplicate do not push others out or refresh it.
InboundInv ==
  /\ InboundTypeOK
  /\ Cardinality(store) <= MaxItems
  /\ \A x, y \in store : x.msg = y.msg => x = y
  /\ \A m \in MessageIds : Protected(m) => Holds(store, m)

\* A message is carried out once, however often it is delivered, while the file has to
\* remember it: an approval that names no request would decide on the next one.
ActedOnce == \A m \in MessageIds : acted[m] <= openings[m]

\* The chat is told that an approval was handled only if the request is settled or has
\* the bridge's vote.
HandledMeansDecided ==
  \A d \in Deliveries :
    delivery[d].told = "handled" =>
      delivery[d].req \in voted \/ delivery[d].req \in 1 .. created \ pending
=============================================================================
