------------------------- MODULE BridgeInboundProofs -------------------------
(***************************************************************************)
(* Proofs about what the chat is told of an approval (BridgeInbound), for  *)
(* any messages, requests, losses and restarts.                            *)
(***************************************************************************)
EXTENDS BridgeInbound, FiniteSetTheorems, WellFoundedInduction, TLAPS

\* The request is settled or has the bridge's vote.
CarriedOut(r) == r \in voted \/ r \in 1 .. created \ pending

\* Nothing is told before the reply, and the queue is read again for a request that is
\* carried out only.
DeliveryOK(v) ==
  /\ v.pc # "reply" => v.told = "silent"
  /\ v.pc = "decide" => v.req # 0
  /\ v.pc = "list" \/ v.told = "handled" => CarriedOut(v.req)

\* What makes HandledMeansDecided inductive.
RepliesInv ==
  /\ created \in 0 .. MaxRequests
  /\ pending \subseteq 1 .. created
  /\ delivery \in [Deliveries -> Delivery]
  /\ \A d \in Deliveries : DeliveryOK(delivery[d])

\* A set of numbers with a bound has a greatest member: the one that is least far below
\* the bound.
LEMMA GreatestOfPending ==
  ASSUME NEW most \in Nat, NEW rs \in SUBSET (1 .. most), rs # {}
  PROVE  Greatest(rs) \in rs
<1> DEFINE Far == {n \in Nat : \E r \in rs : r + n = most}
<1>1. Far # {}
  <2>1. PICK r \in rs : TRUE
    OBVIOUS
  <2>2. most - r \in Nat /\ r + (most - r) = most
    BY <2>1
  <2> QED BY <2>2
<1>2. PICK n \in Far : \A k \in Far : <<k, n>> \notin OpToRel(<, Nat)
  BY <1>1, WFMin, NatLessThanWellFounded, Zenon
<1>3. \A k \in Far : ~(k < n)
  BY <1>2, Zenon DEF OpToRel
<1>4. PICK r \in rs : r + n = most
  OBVIOUS
<1>5. ASSUME NEW q \in rs PROVE q <= r
  <2>1. most - q \in Nat /\ q + (most - q) = most
    OBVIOUS
  <2>2. ~(most - q < n)
    BY <1>3, <2>1
  <2> QED BY <1>4, <2>2
<1> QED BY <1>5 DEF Greatest

\* What is carried out stays so while no request becomes pending again.
LEMMA CarriedOutStays ==
  ASSUME NEW r, CarriedOut(r), created' \in Nat, created \in 0 .. created',
         pending' \cap (1 .. created) \subseteq pending, voted \subseteq voted'
  PROVE  CarriedOut(r)'
BY DEF CarriedOut

\* One delivery moves on while the gateway stays as it is or settles more.
LEMMA OneDeliveryMoves ==
  ASSUME RepliesInv, NEW d \in Deliveries, NEW new \in Delivery,
         Becomes(d, new), UNCHANGED created, pending' \subseteq pending,
         voted \subseteq voted', DeliveryOK(new)'
  PROVE  RepliesInv'
<1>1. \A r : CarriedOut(r) => CarriedOut(r)'
  BY CarriedOutStays DEF RepliesInv
<1>2. ASSUME NEW e \in Deliveries PROVE DeliveryOK(delivery[e])'
  <2>1. CASE e = d
    BY <2>1 DEF RepliesInv, Becomes
  <2>2. CASE e # d
    BY <1>1, <2>2 DEF RepliesInv, Becomes, DeliveryOK
  <2> QED BY <2>1, <2>2
<1> QED BY <1>2 DEF RepliesInv, Becomes

LEMMA InitReplies == InboundInit => RepliesInv
BY InboundAssumption DEF InboundInit, RepliesInv, NoDelivery, Delivery, Told, DeliveryOK,
                         Requests

LEMMA IntakeKeepsReplies ==
  ASSUME RepliesInv, NEW d \in Deliveries, NEW m \in MessageIds, TakeIn(d, m)
  PROVE  RepliesInv'
<1> DEFINE new == [NoDelivery EXCEPT !.pc = "marked", !.msg = m]
<1>1. new \in Delivery /\ DeliveryOK(new)'
  BY DEF NoDelivery, Delivery, Told, DeliveryOK
<1>2. Becomes(d, new) /\ UNCHANGED gateway
  BY DEF TakeIn
<1> QED BY <1>1, <1>2, OneDeliveryMoves DEF gateway

LEMMA WorkKeepsReplies ==
  ASSUME RepliesInv, NEW d \in Deliveries, Work(d)
  PROVE  RepliesInv'
<1>1. PICK old \in Delivery : old = delivery[d] /\ DeliveryOK(old)
  BY DEF RepliesInv
<1>2. ASSUME NEW new \in Delivery, Becomes(d, new), UNCHANGED gateway, DeliveryOK(new)'
      PROVE  RepliesInv'
  BY <1>2, OneDeliveryMoves DEF gateway
<1>3. UNCHANGED gateway => (CarriedOut(old.req) => CarriedOut(old.req)')
  BY DEF gateway, CarriedOut
<1>4. CASE Spawn(d)
  <2>1. old.pc = "marked" /\ old.told = "silent" /\ UNCHANGED gateway
    BY <1>1, <1>4 DEF Spawn, Stands, DeliveryOK
  <2>2. PICK new : /\ Becomes(d, new)
                   /\ \/ new = [old EXCEPT !.pc = "ask"]
                      \/ /\ old.msg \in Approvals
                         /\ new = [old EXCEPT
                                     !.pc = IF Named[old.msg] = 0 THEN "pick" ELSE "decide",
                                     !.req = Named[old.msg]]
                      \/ new = NoDelivery
    BY <1>1, <1>4 DEF Spawn, GoOn
  <2>3. new \in Delivery /\ DeliveryOK(new)'
    <3>1. CASE new = NoDelivery
      BY <3>1 DEF Delivery, DeliveryOK, NoDelivery, Told
    <3>2. CASE new = [old EXCEPT !.pc = "ask"]
      BY <1>1, <2>1, <3>2 DEF Delivery, DeliveryOK
    <3>3. ASSUME old.msg \in Approvals,
                 new = [old EXCEPT !.pc = IF Named[old.msg] = 0 THEN "pick" ELSE "decide",
                                   !.req = Named[old.msg]]
          PROVE  new \in Delivery /\ DeliveryOK(new)'
      <4>1. Named[old.msg] \in {0} \cup Requests
        BY <3>3, InboundAssumption
      <4>2. /\ new.pc = IF Named[old.msg] = 0 THEN "pick" ELSE "decide"
            /\ new.req = Named[old.msg] /\ new.told = "silent" /\ new \in Delivery
        BY <1>1, <2>1, <3>3, <4>1 DEF Delivery
      <4> QED BY <4>2 DEF DeliveryOK
    <3> QED BY <2>2, <3>1, <3>2, <3>3
  <2> QED BY <1>2, <2>1, <2>2, <2>3
<1>5. CASE Ask(d)
  <2>1. UNCHANGED gateway
    BY <1>5 DEF Ask
  <2>2. PICK what \in {"answer", "failed"} : Becomes(d, [old EXCEPT !.pc = "reply", !.told = what])
    BY <1>1, <1>5 DEF Ask, Tell
  <2>3. [old EXCEPT !.pc = "reply", !.told = what] \in Delivery
    BY <1>1 DEF Delivery, Told
  <2>4. DeliveryOK([old EXCEPT !.pc = "reply", !.told = what])'
    BY <1>1, <2>1 DEF Delivery, DeliveryOK
  <2> QED BY <1>2, <2>1, <2>2, <2>3, <2>4
<1>6. CASE Pick(d)
  <2>1. old.pc = "pick" /\ old.told = "silent" /\ UNCHANGED gateway
    BY <1>1, <1>6 DEF Pick, Stands, DeliveryOK
  <2>2. CASE \E what \in {"none", "failed"} : Tell(d, what)
    <3>1. PICK what \in {"none", "failed"} :
            Becomes(d, [old EXCEPT !.pc = "reply", !.told = what])
      BY <1>1, <2>2 DEF Tell
    <3>2. [old EXCEPT !.pc = "reply", !.told = what] \in Delivery
      BY <1>1 DEF Delivery, Told
    <3>3. DeliveryOK([old EXCEPT !.pc = "reply", !.told = what])'
      BY <1>1 DEF Delivery, DeliveryOK
    <3> QED BY <1>2, <2>1, <3>1, <3>2, <3>3
  <2>3. CASE /\ pending # {}
             /\ Becomes(d, [old EXCEPT !.pc = "decide", !.req = Greatest(pending)])
    <3>1. PICK r \in Requests : r = Greatest(pending) /\ r # 0
      <4>1. created \in Nat /\ pending \in SUBSET (1 .. created)
        BY DEF RepliesInv
      <4>2. Greatest(pending) \in pending
        BY <2>3, <4>1, GreatestOfPending
      <4>3. Greatest(pending) \in Requests /\ Greatest(pending) # 0
        <5> DEFINE r == Greatest(pending)
        <5> HIDE DEF r
        <5>1. r \in 1 .. created
          BY <4>1, <4>2 DEF r
        <5>2. r \in Requests /\ r # 0
          BY <5>1, InboundAssumption DEF RepliesInv, Requests
        <5> QED BY <5>2 DEF r
      <4> QED BY <4>3
    <3> DEFINE new == [old EXCEPT !.pc = "decide", !.req = r]
    <3>2. new \in Delivery /\ DeliveryOK(new)'
      BY <1>1, <2>1, <3>1 DEF Delivery, DeliveryOK
    <3>3. Becomes(d, new)
      BY <1>1, <2>3, <3>1
    <3> HIDE DEF new
    <3> QED BY <1>2, <2>1, <3>2, <3>3
  <2> QED BY <1>1, <1>6, <2>2, <2>3 DEF Pick
<1>7. CASE Decide(d)
  <2> DEFINE failed == [old EXCEPT !.pc = "reply", !.told = "failed"]
  <2>1. /\ old.pc = "decide" /\ old.told = "silent" /\ old.req # 0
        /\ UNCHANGED created /\ pending' \subseteq pending /\ voted \subseteq voted'
    BY <1>1, <1>7 DEF Decide, Stands, DeliveryOK
  <2>2. failed \in Delivery /\ DeliveryOK(failed)'
    BY <1>1, <2>1 DEF Delivery, DeliveryOK, Told
  <2>3. CASE AfterError(d)
    <3>1. Becomes(d, failed)
      BY <1>1, <2>3 DEF AfterError, Tell
    <3> HIDE DEF failed
    <3> QED BY <2>1, <2>2, <3>1, OneDeliveryMoves
  <2>4. CASE GoOn(d, "list")
    <3>1. ~AfterError(d)
      <4>1. delivery'[d].pc = "list"
        BY <1>1, <2>4 DEF GoOn, Becomes, RepliesInv, Delivery
      <4>2. AfterError(d) => delivery'[d].pc = "reply"
        BY <1>1 DEF AfterError, Tell, Becomes, RepliesInv, Delivery
      <4> QED BY <4>1, <4>2
    <3>2. /\ old.req <= created
          /\ voted' = voted \cup ({old.req} \cap pending)
      BY <1>1, <1>7, <3>1 DEF Decide
    <3>3. CarriedOut(old.req)'
      BY <1>1, <2>1, <3>2, InboundAssumption DEF CarriedOut, RepliesInv, Delivery, Requests
    <3> DEFINE new == [old EXCEPT !.pc = "list"]
    <3>4. new \in Delivery /\ DeliveryOK(new)'
      BY <1>1, <2>1, <3>3 DEF Delivery, DeliveryOK
    <3>5. Becomes(d, new)
      BY <1>1, <2>4 DEF GoOn
    <3> HIDE DEF new
    <3> QED BY <2>1, <3>4, <3>5, OneDeliveryMoves
  <2> QED BY <1>7, <2>3, <2>4 DEF Decide
<1>8. CASE List(d)
  <2>1. old.pc = "list" /\ CarriedOut(old.req) /\ UNCHANGED gateway
    BY <1>1, <1>8 DEF List, Stands, DeliveryOK
  <2>2. PICK what \in {"handled", "failed"} :
          Becomes(d, [old EXCEPT !.pc = "reply", !.told = what])
    BY <1>1, <1>8 DEF List, Tell
  <2>3. [old EXCEPT !.pc = "reply", !.told = what] \in Delivery
    BY <1>1 DEF Delivery, Told
  <2>4. DeliveryOK([old EXCEPT !.pc = "reply", !.told = what])'
    BY <1>1, <1>3, <2>1 DEF Delivery, DeliveryOK
  <2> QED BY <1>2, <2>1, <2>2, <2>3, <2>4
<1>9. CASE Reply(d)
  <2>1. NoDelivery \in Delivery /\ DeliveryOK(NoDelivery)'
    BY DEF NoDelivery, Delivery, Told, DeliveryOK
  <2> QED BY <1>2, <1>9, <2>1 DEF Reply
<1> QED BY <1>4, <1>5, <1>6, <1>7, <1>8, <1>9 DEF Work

LEMMA SurroundingsKeepReplies ==
  ASSUME RepliesInv,
         \/ \E m \in MessageIds : Ignore(m)
         \/ NewRequest \/ InboundTick \/ Exit \/ UNCHANGED inboundVars
         \/ \E r \in Requests : SettledElsewhere(r)
  PROVE  RepliesInv'
<1>1. CASE UNCHANGED <<delivery, gateway>>
  BY <1>1 DEF RepliesInv, DeliveryOK, CarriedOut, gateway
<1>2. CASE Exit
  BY <1>2 DEF Exit, RepliesInv, NoDelivery, Delivery, Told, DeliveryOK, gateway
<1>3. CASE NewRequest \/ \E r \in Requests : SettledElsewhere(r)
  <2>1. /\ created' \in 0 .. MaxRequests /\ created \in 0 .. created'
        /\ pending' \subseteq 1 .. created'
        /\ pending' \cap (1 .. created) \subseteq pending
        /\ UNCHANGED <<delivery, voted>>
    <3>1. CASE NewRequest
      BY <3>1, InboundAssumption DEF NewRequest, RepliesInv
    <3>2. CASE \E r \in Requests : SettledElsewhere(r)
      BY <3>2, InboundAssumption DEF SettledElsewhere, RepliesInv
    <3> QED BY <1>3, <3>1, <3>2
  <2>2. \A r : CarriedOut(r) => CarriedOut(r)'
    BY <2>1, CarriedOutStays
  <2> QED BY <2>1, <2>2 DEF RepliesInv, DeliveryOK
<1> QED BY <1>1, <1>2, <1>3 DEF Ignore, InboundTick, inboundVars

LEMMA NextKeepsReplies == RepliesInv /\ [InboundNext]_inboundVars => RepliesInv'
BY IntakeKeepsReplies, WorkKeepsReplies, SurroundingsKeepReplies DEF InboundNext

\* BridgeInbound!HandledMeansDecided: whatever is lost, taken in twice or settled by others
\* meanwhile, the chat is told that an approval was handled only of a request that is
\* settled or has the bridge's vote.
THEOREM HandledAlwaysDecided == InboundSpec => []HandledMeansDecided
<1>1. RepliesInv => HandledMeansDecided
  BY DEF RepliesInv, DeliveryOK, CarriedOut, HandledMeansDecided
<1> QED BY InitReplies, NextKeepsReplies, <1>1, PTL DEF InboundSpec
-----------------------------------------------------------------------------
(***************************************************************************)
(* The file of messages that were taken in.                                *)
(***************************************************************************)

\* The number of those that are kept.
LEMMA KeptBound ==
  ASSUME NEW items, IsFiniteSet(items), \A x \in items : x.at \in Nat,
         \A x, y \in items : x.at = y.at => x = y
  PROVE  IsFiniteSet(Kept(items)) /\ Cardinality(Kept(items)) <= MaxItems
<1> DEFINE S == Kept(items)
<1>1. S \subseteq items /\ IsFiniteSet(S) /\ Cardinality(S) \in Nat /\ MaxItems \in Nat \ {0}
  <2>1. S \subseteq items
    BY DEF Kept
  <2> HIDE DEF S
  <2> QED BY <2>1, FS_Subset, FS_CardinalityType, InboundAssumption
<1>2. CASE S = {}
  BY <1>1, <1>2, FS_EmptySet
<1>3. CASE S # {}
  <2> DEFINE Times == {x.at : x \in S}
  <2>1. Times # {} /\ Times \subseteq Nat
    BY <1>1, <1>3
  <2>2. PICK first \in Times : \A t \in Times : <<t, first>> \notin OpToRel(<, Nat)
    BY <2>1, WFMin, NatLessThanWellFounded, Zenon
  <2>3. \A t \in Times : ~(t < first)
    BY <2>1, <2>2, Zenon DEF OpToRel
  <2>4. PICK x \in S : x.at = first
    OBVIOUS
  <2> DEFINE Newer == {y \in items : x.at < y.at}
  <2>5. S \ {x} \subseteq Newer
    <3> SUFFICES ASSUME NEW y \in S, y # x PROVE x.at < y.at
      BY <1>1
    <3>1. ~(y.at < x.at) /\ y.at # x.at /\ x.at \in Nat /\ y.at \in Nat
      BY <1>1, <2>3, <2>4
    <3> QED BY <3>1
  <2>6. IsFiniteSet(Newer) /\ Cardinality(Newer) \in Nat
    BY FS_Subset, FS_CardinalityType
  <2>7. Cardinality(Newer) < MaxItems
    BY <2>4 DEF Kept
  <2>8. Cardinality(S \ {x}) = Cardinality(S) - 1
    BY <1>1, <2>4, FS_RemoveElement
  <2>9. Cardinality(S \ {x}) <= Cardinality(Newer)
    BY <2>5, <2>6, FS_Subset
  <2> HIDE DEF S, Newer
  <2> QED BY <1>1, <2>6, <2>7, <2>8, <2>9 DEF S
<1> QED BY <1>2, <1>3

\* An entry stays while fewer messages than there is room for came after it.
LEMMA KeptHolds ==
  ASSUME NEW items, NEW x \in items, NEW later, IsFiniteSet(later),
         Cardinality(later) < MaxItems, \A y \in items : x.at < y.at => y.msg \in later,
         \A y, z \in items : y.msg = z.msg => y = z
  PROVE  x \in Kept(items)
<1> DEFINE Newer == {y \in items : x.at < y.at}
           f == [y \in Newer |-> y.msg]
<1>1. f \in Injection(Newer, later)
  BY DEF Injection, IsInjective
<1>2. IsFiniteSet(Newer) /\ Cardinality(Newer) <= Cardinality(later)
  BY <1>1, FS_Injection
<1>3. Cardinality(Newer) \in Nat /\ Cardinality(later) \in Nat /\ MaxItems \in Nat
  BY <1>2, FS_CardinalityType, InboundAssumption
<1>4. Cardinality(Newer) < MaxItems
  BY <1>2, <1>3
<1> QED BY <1>4 DEF Kept

\* The file and what is remembered of each message besides: an entry is as old as the last
\* time its message was taken in, and those after it are among the others since.
EntriesOK ==
  /\ IsFiniteSet(store)
  /\ \A x \in store : x.age = since[x.msg]
  /\ \A x, y \in store : x.msg = y.msg \/ x.at = y.at => x = y
  /\ \A x, y \in store : x.at < y.at => y.msg \in others[x.msg]
  /\ \A m \in MessageIds : IsFiniteSet(others[m])

\* What makes InboundInv inductive.
StoreInv == InboundInv /\ EntriesOK

LEMMA InitStore == InboundInit => StoreInv
<1> SUFFICES ASSUME InboundInit PROVE StoreInv
  OBVIOUS
<1>1. InboundTypeOK
  BY InitReplies, InboundAssumption DEF RepliesInv, InboundInit, InboundTypeOK, LastAge
<1>2. EntriesOK
  BY FS_EmptySet DEF InboundInit, EntriesOK
<1>3. Cardinality(store) <= MaxItems
  BY FS_EmptySet, InboundAssumption DEF InboundInit
<1>4. \A m \in MessageIds : ~Protected(m)
  BY InboundAssumption DEF InboundInit, Protected, LastAge
<1> QED BY <1>1, <1>2, <1>3, <1>4 DEF StoreInv, InboundInv, InboundInit

\* A message that has to be remembered is in the file, and young enough to stay there.
LEMMA ProtectedIsRecent ==
  ASSUME StoreInv, NEW m \in MessageIds, Protected(m)
  PROVE  \E x \in Pruned(store) : x.msg = m
<1>1. PICK x \in store : x.msg = m
  BY DEF StoreInv, InboundInv, Holds
<1> QED BY <1>1 DEF StoreInv, EntriesOK, Pruned, Recent, Protected

\* One that had to be is not taken in again, unless the file is lost.
LEMMA TakenInUnprotected ==
  ASSUME StoreInv, NEW d \in Deliveries, NEW m \in MessageIds, TakeIn(d, m)
  PROVE  openings' = [openings EXCEPT ![m] = @ + 1]
<1>1. PICK items \in {store, {}} :
        /\ Read(items) /\ ~Holds(Pruned(items), m)
        /\ openings' = IF Protected(m) /\ losses' = losses THEN openings
                       ELSE [openings EXCEPT ![m] = @ + 1]
  BY DEF TakeIn
<1>2. losses' = losses => items = store
  BY <1>1 DEF Read, StoreInv, InboundInv, InboundTypeOK
<1>3. ~(Protected(m) /\ losses' = losses)
  BY <1>1, <1>2, ProtectedIsRecent DEF Holds
<1> QED BY <1>1, <1>3

\* Taking in: the file as it is read, without what is too old, is added to and cut.
LEMMA TakeInKeepsStore ==
  ASSUME StoreInv, RepliesInv', NEW d \in Deliveries, NEW m \in MessageIds, TakeIn(d, m)
  PROVE  StoreInv'
<1>1. /\ InboundTypeOK /\ EntriesOK
      /\ {Ttl, MaxItems, MaxTaken, MaxLosses} \subseteq Nat
  BY InboundAssumption DEF StoreInv, InboundInv
<1>2. PICK items \in {store, {}} :
        /\ Read(items) /\ ~Holds(Pruned(items), m)
        /\ store' = Kept(Pruned(items) \cup {[msg |-> m, age |-> 0, at |-> taken']})
        /\ since' = [x \in MessageIds |-> CASE x = m -> 0
                                           [] x # m /\ losses' = losses -> since[x]
                                           [] OTHER -> LastAge]
  BY DEF TakeIn
<1>3. /\ taken' = taken + 1 /\ taken \in Nat /\ taken' \in 0 .. MaxTaken
      /\ others' = [x \in MessageIds |-> IF x = m THEN {} ELSE others[x] \cup {m}]
      /\ UNCHANGED <<gateway, acted, exits>>
  BY <1>1 DEF TakeIn, InboundTypeOK
<1> DEFINE entry == [msg |-> m, age |-> 0, at |-> taken + 1]
           old == Pruned(items)
           all == old \cup {entry}
<1>4. /\ old \subseteq store /\ old \subseteq items /\ \A x \in old : x.msg # m
      /\ store' = Kept(all) /\ Kept(all) \subseteq all
  BY <1>2, <1>3 DEF Pruned, Holds, Kept
<1>5. losses' \in 0 .. MaxLosses /\ (losses' = losses => items = store)
      /\ (old # {} => losses' = losses)
  BY <1>1, <1>2, <1>4 DEF Read, InboundTypeOK, Pruned
<1> HIDE DEF old
\* What EntriesOK says of the file holds of all that might stay.
<1>6. /\ IsFiniteSet(all)
      /\ \A x \in all : /\ x \in [msg: MessageIds, age: 0 .. LastAge, at: 1 .. taken']
                        /\ x.age = since'[x.msg]
      /\ \A x, y \in all : x.msg = y.msg \/ x.at = y.at => x = y
      /\ \A x, y \in all : x.at < y.at => y.msg \in others'[x.msg]
  <2>1. IsFiniteSet(all)
    BY <1>1, <1>4, FS_Subset, FS_AddElement DEF EntriesOK
  <2>2. ASSUME NEW x \in old
        PROVE  /\ x \in [msg: MessageIds, age: 0 .. LastAge, at: 1 .. taken]
               /\ x.age = since[x.msg] /\ x.msg # m
               /\ since'[x.msg] = since[x.msg]
               /\ others'[x.msg] = others[x.msg] \cup {m}
    <3>1. x \in [msg: MessageIds, age: 0 .. LastAge, at: 1 .. taken]
      BY <1>1, <1>4 DEF InboundTypeOK
    <3> QED BY <1>1, <1>2, <1>3, <1>4, <1>5, <3>1 DEF EntriesOK
  <2>3. entry \in [msg: MessageIds, age: 0 .. LastAge, at: 1 .. taken']
    BY <1>1, <1>3 DEF LastAge
  <2>4. since'[m] = 0
    BY <1>2
  <2>5. ASSUME NEW x \in all
        PROVE  /\ x \in [msg: MessageIds, age: 0 .. LastAge, at: 1 .. taken']
               /\ x.age = since'[x.msg]
    <3>1. CASE x = entry
      BY <2>3, <2>4, <3>1
    <3>2. CASE x \in old
      BY <1>3, <2>2, <3>2
    <3> QED BY <3>1, <3>2
  <2>6. ASSUME NEW x \in all, NEW y \in all
        PROVE  /\ x.msg = y.msg \/ x.at = y.at => x = y
               /\ x.at < y.at => y.msg \in others'[x.msg]
    <3>1. CASE x \in old /\ y \in old
      BY <1>1, <1>4, <2>2, <3>1 DEF EntriesOK
    <3>2. CASE x = entry /\ y = entry
      BY <1>3, <3>2
    <3>3. CASE x \in old /\ y = entry
      BY <1>3, <2>2, <3>3
    <3>4. CASE x = entry /\ y \in old
      BY <1>3, <2>2, <3>4
    <3> QED BY <3>1, <3>2, <3>3, <3>4
  <2> QED BY <2>1, <2>5, <2>6
<1> HIDE DEF all
<1>7. Cardinality(store') <= MaxItems /\ IsFiniteSet(store')
  <2>1. \A x \in all : x.at \in Nat
    BY <1>6
  <2> QED BY <1>4, <1>6, <2>1, KeptBound
<1>8. EntriesOK'
  <2>1. \A q \in MessageIds : IsFiniteSet(others'[q])
    BY <1>1, <1>3, FS_EmptySet, FS_AddElement DEF EntriesOK
  <2> QED BY <1>4, <1>6, <1>7, <2>1 DEF EntriesOK
<1>9. InboundTypeOK'
  <2>1. store' \subseteq [msg: MessageIds, age: 0 .. LastAge, at: 1 .. taken']
    BY <1>4, <1>6
  <2>2. since' \in [MessageIds -> 0 .. LastAge] /\ others' \in [MessageIds -> SUBSET MessageIds]
    BY <1>1, <1>2, <1>3 DEF InboundTypeOK, LastAge
  <2>3. openings' \in [MessageIds -> Nat]
    BY <1>1, TakenInUnprotected DEF InboundTypeOK
  <2> QED BY <1>1, <1>3, <1>5, <2>1, <2>2, <2>3 DEF InboundTypeOK, RepliesInv, gateway
<1>10. ASSUME NEW q \in MessageIds, Protected(q)' PROVE Holds(store, q)'
  <2>1. PICK x \in all : x.msg = q
    <3>1. CASE q = m
      <4>1. entry \in all /\ entry.msg = m
        BY DEF all
      <4> QED BY <3>1, <4>1
    <3>2. CASE q # m
      <4>1. /\ since'[q] <= Ttl /\ Cardinality(others'[q]) < MaxItems
            /\ others'[q] = others[q] \cup {m}
        BY <1>3, <1>10, <3>2 DEF Protected
      <4>2. losses' = losses /\ since'[q] = since[q]
        BY <1>1, <1>2, <3>2, <4>1 DEF LastAge
      <4>3. /\ Cardinality(others[q]) \in Nat
            /\ Cardinality(others'[q]) \in {Cardinality(others[q]), Cardinality(others[q]) + 1}
        BY <1>1, <4>1, FS_AddElement, FS_CardinalityType DEF EntriesOK
      <4>4. Protected(q)
        BY <1>1, <4>1, <4>2, <4>3 DEF Protected
      <4>5. \E x \in old : x.msg = q
        BY <1>5, <4>2, <4>4, ProtectedIsRecent DEF old
      <4> QED BY <4>5 DEF all
    <3> QED BY <3>1, <3>2
  <2>2. x \in Kept(all)
    <3>1. Cardinality(others'[q]) < MaxItems /\ IsFiniteSet(others'[q])
      BY <1>8, <1>10 DEF Protected, EntriesOK
    <3>2. /\ \A y \in all : x.at < y.at => y.msg \in others'[q]
          /\ \A y, z \in all : y.msg = z.msg => y = z
      BY <1>6, <2>1
    <3> QED BY <3>1, <3>2, KeptHolds
  <2> QED BY <1>4, <2>1, <2>2 DEF Holds
<1> QED BY <1>7, <1>8, <1>9, <1>10 DEF StoreInv, InboundInv, EntriesOK

\* A duplicate only makes the file forget what is too old.
LEMMA IgnoreKeepsStore ==
  ASSUME StoreInv, NEW m \in MessageIds, Ignore(m)
  PROVE  StoreInv'
<1>1. /\ store' = Pruned(store) /\ store' \subseteq store
      /\ UNCHANGED <<delivery, gateway, memory, bounds>>
  BY DEF Ignore, Pruned
<1>2. /\ IsFiniteSet(store') /\ Cardinality(store') <= Cardinality(store)
      /\ Cardinality(store') \in Nat /\ Cardinality(store) \in Nat
  BY <1>1, FS_Subset, FS_CardinalityType DEF StoreInv, EntriesOK
<1>3. Cardinality(store') <= MaxItems
  BY <1>2, InboundAssumption DEF StoreInv, InboundInv
<1>4. \A q \in MessageIds : Protected(q)' => Holds(store, q)'
  BY <1>1, ProtectedIsRecent DEF Protected, Holds, memory
<1>5. EntriesOK'
  BY <1>1, <1>2 DEF StoreInv, EntriesOK, memory
<1>6. InboundTypeOK'
  BY <1>1 DEF StoreInv, InboundInv, InboundTypeOK, memory, gateway, bounds
<1> QED BY <1>1, <1>3, <1>4, <1>5, <1>6 DEF StoreInv, InboundInv

\* Time passes for the file and for the record of what it has to remember alike.
LEMMA TickKeepsStore ==
  ASSUME StoreInv, InboundTick
  PROVE  StoreInv'
<1>1. /\ store' = {[x EXCEPT !.age = Aged(@)] : x \in store}
      /\ since' = [m \in MessageIds |-> Aged(since[m])]
      /\ UNCHANGED <<delivery, gateway, others, acted, openings, bounds>>
      /\ store \subseteq [msg: MessageIds, age: 0 .. LastAge, at: 1 .. taken]
      /\ InboundTypeOK /\ EntriesOK /\ Ttl \in Nat /\ MaxItems \in Nat
  BY InboundAssumption DEF InboundTick, StoreInv, InboundInv, InboundTypeOK
<1> DEFINE f == [x \in store |-> [x EXCEPT !.age = Aged(@)]]
<1>2. ASSUME NEW age \in 0 .. LastAge
      PROVE  Aged(age) \in 0 .. LastAge /\ (Aged(age) <= Ttl => age <= Ttl)
  BY <1>1 DEF Aged, LastAge
<1>3. ASSUME NEW x \in store
      PROVE  /\ f[x] \in [msg: MessageIds, age: 0 .. LastAge, at: 1 .. taken]
             /\ f[x].msg = x.msg /\ f[x].at = x.at /\ f[x].age = Aged(x.age)
  <2>1. x \in [msg: MessageIds, age: 0 .. LastAge, at: 1 .. taken] /\ Aged(x.age) \in 0 .. LastAge
    BY <1>1, <1>2
  <2> QED BY <2>1
<1>4. store' = {f[x] : x \in store}
  BY <1>1
<1>5. f \in Surjection(store, store')
  BY <1>4 DEF Surjection
<1> HIDE DEF f
<1>6. /\ IsFiniteSet(store') /\ Cardinality(store') <= Cardinality(store)
      /\ Cardinality(store') \in Nat /\ Cardinality(store) \in Nat
  BY <1>1, <1>5, FS_Surjection, FS_CardinalityType DEF EntriesOK
<1>7. Cardinality(store') <= MaxItems
  BY <1>1, <1>6 DEF StoreInv, InboundInv
<1>8. EntriesOK'
  <2>1. \A y \in store' : \E x \in store : y = f[x]
    BY <1>4
  <2>2. \A y \in store' : y.age = since'[y.msg]
    BY <1>1, <1>3, <2>1 DEF EntriesOK
  <2>3. \A y, z \in store' :
          /\ y.msg = z.msg \/ y.at = z.at => y = z
          /\ y.at < z.at => z.msg \in others[y.msg]
    BY <1>1, <1>3, <2>1 DEF EntriesOK
  <2> QED BY <1>1, <1>6, <2>2, <2>3 DEF EntriesOK
<1>9. InboundTypeOK'
  <2>1. store' \subseteq [msg: MessageIds, age: 0 .. LastAge, at: 1 .. taken]
    BY <1>3, <1>4
  <2>2. since' \in [MessageIds -> 0 .. LastAge]
    BY <1>1, <1>2 DEF InboundTypeOK
  <2> QED BY <1>1, <2>1, <2>2 DEF InboundTypeOK, gateway, bounds
<1>10. ASSUME NEW q \in MessageIds, Protected(q)' PROVE Holds(store, q)'
  <2>1. Protected(q)
    BY <1>1, <1>2, <1>10 DEF Protected, InboundTypeOK
  <2>2. PICK x \in store : x.msg = q
    BY <2>1 DEF StoreInv, InboundInv, Holds
  <2> QED BY <1>3, <1>4, <2>2 DEF Holds
<1> QED BY <1>7, <1>8, <1>9, <1>10 DEF StoreInv, InboundInv, EntriesOK

\* Everything else leaves the file alone.
LEMMA OthersKeepStore ==
  ASSUME StoreInv, RepliesInv',
         \/ \E d \in Deliveries : Work(d)
         \/ NewRequest \/ Exit \/ UNCHANGED inboundVars
         \/ \E r \in Requests : SettledElsewhere(r)
  PROVE  StoreInv'
<1>1. UNCHANGED <<store, since, others, openings, taken, losses>>
  BY DEF Work, Spawn, Ask, Pick, Decide, List, Reply, NewRequest, Exit, SettledElsewhere,
         inboundVars, memory, bounds
<1>2. InboundTypeOK
  BY DEF StoreInv, InboundInv
<1>3. exits' \in 0 .. MaxExits
  <2>1. CASE Exit
    BY <1>2, <2>1, InboundAssumption DEF InboundTypeOK, Exit
  <2>2. CASE UNCHANGED exits
    BY <1>2, <2>2 DEF InboundTypeOK
  <2> QED BY <2>1, <2>2 DEF Work, Spawn, Ask, Pick, Decide, List, Reply, NewRequest,
                            SettledElsewhere, inboundVars, bounds
<1>4. acted' \in [MessageIds -> Nat]
  <2>1. ASSUME NEW m, acted' = [acted EXCEPT ![m] = @ + 1] PROVE acted' \in [MessageIds -> Nat]
    <3>1. acted \in [MessageIds -> Nat]
      BY <1>2 DEF InboundTypeOK
    <3>2. CASE m \in MessageIds
      BY <2>1, <3>1, <3>2
    <3>3. CASE m \notin MessageIds
      BY <2>1, <3>1, <3>3
    <3> QED BY <3>2, <3>3
  <2>2. CASE \E d \in Deliveries : Spawn(d) \/ Decide(d)
    <3>1. PICK d \in Deliveries : Spawn(d) \/ Decide(d)
      BY <2>2
    <3>2. UNCHANGED acted \/ acted' = [acted EXCEPT ![delivery[d].msg] = @ + 1]
      BY <3>1 DEF Spawn, Decide
    <3> QED BY <1>2, <2>1, <3>2 DEF InboundTypeOK
  <2>3. CASE ~\E d \in Deliveries : Spawn(d) \/ Decide(d)
    <3>1. UNCHANGED acted
      BY <2>3 DEF Work, Ask, Pick, List, Reply, NewRequest, Exit, SettledElsewhere,
                  inboundVars, memory
    <3> QED BY <1>2, <3>1 DEF InboundTypeOK
  <2> QED BY <2>2, <2>3
<1>5. voted' \subseteq 1 .. created'
  <2>1. CASE \E d \in Deliveries : Decide(d)
    BY <1>2, <2>1 DEF Decide, InboundTypeOK
  <2>2. CASE UNCHANGED <<created, voted>>
    BY <1>2, <2>2 DEF InboundTypeOK
  <2>3. CASE NewRequest
    BY <1>2, <2>3, InboundAssumption DEF NewRequest, InboundTypeOK
  <2> QED BY <2>1, <2>2, <2>3 DEF Work, Spawn, Ask, Pick, List, Reply, Exit,
         SettledElsewhere, inboundVars, gateway
<1>6. InboundTypeOK'
  BY <1>1, <1>2, <1>3, <1>4, <1>5 DEF InboundTypeOK, RepliesInv
<1> QED BY <1>1, <1>6 DEF StoreInv, InboundInv, EntriesOK, Protected, Holds

LEMMA NextKeepsStore ==
  RepliesInv' /\ StoreInv /\ [InboundNext]_inboundVars => StoreInv'
BY TakeInKeepsStore, IgnoreKeepsStore, TickKeepsStore, OthersKeepStore DEF InboundNext

\* Replies and file together.
IntakeInv == RepliesInv /\ StoreInv

LEMMA IntakeInvariant == InboundSpec => []IntakeInv
<1>1. InboundInit => IntakeInv
  BY InitReplies, InitStore DEF IntakeInv
<1>2. IntakeInv /\ [InboundNext]_inboundVars => IntakeInv'
  BY NextKeepsReplies, NextKeepsStore DEF IntakeInv
<1> QED BY <1>1, <1>2, PTL DEF InboundSpec

\* BridgeInbound!InboundInv: the file never grows beyond its limit, holds a message once, and
\* holds every message it has to remember, through duplicates, expiry and losses of the file.
THEOREM FileRemembers == InboundSpec => []InboundInv
<1>1. IntakeInv => InboundInv
  BY DEF IntakeInv, StoreInv
<1> QED BY <1>1, IntakeInvariant, PTL
-----------------------------------------------------------------------------
(***************************************************************************)
(* How often a message is carried out.                                     *)
(***************************************************************************)

\* A delivery of the message that may still be carried out, and those there are.
Waits(v, m) == v.msg = m /\ v.pc \in {"marked", "pick", "decide"}

ToDo(m) == {d \in Deliveries : Waits(delivery[d], m)}

\* What makes ActedOnce inductive: each time the message was rightly taken in allows for one
\* delivery that waits, or for one that was carried out.
OpeningsInv == \A m \in MessageIds : acted[m] + Cardinality(ToDo(m)) <= openings[m]

Weight(v, m) == IF Waits(v, m) THEN 1 ELSE 0

\* A delivery that moves changes the number that wait by no more than itself.
LEMMA ToDoMoves ==
  ASSUME RepliesInv, NEW d \in Deliveries, NEW new, Becomes(d, new), NEW m
  PROVE  /\ Cardinality(ToDo(m)) \in Nat /\ Cardinality(ToDo(m)') \in Nat
         /\ Cardinality(ToDo(m)') + Weight(delivery[d], m)
              = Cardinality(ToDo(m)) + Weight(new, m)
<1> DEFINE Old == ToDo(m)
           New == {e \in Deliveries : Waits(delivery'[e], m)}
<1>1. New = ToDo(m)'
  BY DEF ToDo, Waits
<1>2. IsFiniteSet(Deliveries)
  BY FS_Interval, InboundAssumption DEF Deliveries
<1>3. IsFiniteSet(Old) /\ IsFiniteSet(New)
  BY <1>2, FS_Subset DEF ToDo
<1>4. Cardinality(Old) \in Nat /\ Cardinality(New) \in Nat
  BY <1>3, FS_CardinalityType
<1>5. /\ delivery'[d] = new
      /\ \A e \in Deliveries \ {d} : delivery'[e] = delivery[e]
  BY DEF Becomes, RepliesInv
<1>6. /\ d \in Old <=> Waits(delivery[d], m)
      /\ d \in New <=> Waits(new, m)
      /\ Old \ {d} = New \ {d}
  BY <1>5 DEF ToDo
<1> HIDE DEF New, Old
<1>7. Cardinality(Old) = Cardinality(Old \ {d}) + Weight(delivery[d], m)
  <2>1. CASE d \in Old
    <3>1. Weight(delivery[d], m) = 1
      BY <1>6, <2>1 DEF Weight
    <3>2. Cardinality(Old \ {d}) = Cardinality(Old) - 1
      BY <1>3, <2>1, FS_RemoveElement
    <3> QED BY <1>4, <3>1, <3>2
  <2>2. CASE d \notin Old
    <3>1. Weight(delivery[d], m) = 0
      BY <1>6, <2>2 DEF Weight
    <3>2. Old \ {d} = Old
      BY <2>2
    <3> QED BY <1>4, <3>1, <3>2
  <2> QED BY <2>1, <2>2
<1>8. Cardinality(New) = Cardinality(New \ {d}) + Weight(new, m)
  <2>1. CASE d \in New
    <3>1. Weight(new, m) = 1
      BY <1>6, <2>1 DEF Weight
    <3>2. Cardinality(New \ {d}) = Cardinality(New) - 1
      BY <1>3, <2>1, FS_RemoveElement
    <3> QED BY <1>4, <3>1, <3>2
  <2>2. CASE d \notin New
    <3>1. Weight(new, m) = 0
      BY <1>6, <2>2 DEF Weight
    <3>2. New \ {d} = New
      BY <2>2
    <3> QED BY <1>4, <3>1, <3>2
  <2> QED BY <2>1, <2>2
<1>9. Cardinality(Old \ {d}) \in Nat
  BY <1>3, FS_RemoveElement, FS_CardinalityType
<1>10. Cardinality(New) + Weight(delivery[d], m) = Cardinality(Old) + Weight(new, m)
  BY <1>4, <1>6, <1>7, <1>8, <1>9 DEF Weight
<1> QED BY <1>1, <1>4, <1>10 DEF Old

LEMMA InitOpenings == InboundInit => OpeningsInv
<1> SUFFICES ASSUME InboundInit PROVE OpeningsInv
  OBVIOUS
<1>1. \A m : ToDo(m) = {}
  BY DEF InboundInit, ToDo, Waits, NoDelivery
<1> QED BY <1>1, FS_EmptySet DEF InboundInit, OpeningsInv

\* Taking in what need not be remembered allows for one more.
LEMMA TakeInKeepsOpenings ==
  ASSUME IntakeInv, OpeningsInv, NEW d \in Deliveries, NEW m \in MessageIds, TakeIn(d, m)
  PROVE  OpeningsInv'
<1> SUFFICES ASSUME NEW q \in MessageIds
             PROVE  acted'[q] + Cardinality(ToDo(q)') <= openings'[q]
  BY DEF OpeningsInv
<1> DEFINE new == [NoDelivery EXCEPT !.pc = "marked", !.msg = m]
<1>1. Becomes(d, new) /\ acted' = acted /\ delivery[d].pc = "idle"
  BY DEF TakeIn, First, Stands
<1>2. openings' = [openings EXCEPT ![m] = @ + 1]
  BY TakenInUnprotected DEF IntakeInv
<1>3. acted[q] \in Nat /\ openings \in [MessageIds -> Nat]
  BY DEF IntakeInv, StoreInv, InboundInv, InboundTypeOK
<1>4. Weight(delivery[d], q) = 0 /\ Weight(new, q) = IF q = m THEN 1 ELSE 0
  BY <1>1 DEF Weight, Waits, NoDelivery
<1>5. /\ Cardinality(ToDo(q)) \in Nat /\ Cardinality(ToDo(q)') \in Nat
      /\ Cardinality(ToDo(q)') + Weight(delivery[d], q) = Cardinality(ToDo(q)) + Weight(new, q)
  BY <1>1, ToDoMoves DEF IntakeInv
<1>6. openings'[q] = openings[q] + Weight(new, q) /\ openings[q] \in Nat
  BY <1>2, <1>3, <1>4
<1>7. acted[q] + Cardinality(ToDo(q)) <= openings[q]
  BY DEF OpeningsInv
<1> HIDE DEF new
<1> QED BY <1>1, <1>3, <1>4, <1>5, <1>6, <1>7

\* A worker that carries a message out waits no longer, and none begins to wait again.
LEMMA WorkMovesOn ==
  ASSUME IntakeInv, NEW d \in Deliveries, Work(d), NEW q \in MessageIds
  PROVE  \E new : /\ Becomes(d, new)
                  /\ acted'[q] \in Nat
                  /\ acted'[q] + Weight(new, q) <= acted[q] + Weight(delivery[d], q)
<1> DEFINE Done(new) == /\ Becomes(d, new)
                        /\ acted'[q] \in Nat
                        /\ acted'[q] + Weight(new, q) <= acted[q] + Weight(delivery[d], q)
<1>1. acted \in [MessageIds -> Nat] /\ NoMessage \notin MessageIds
  BY InboundAssumption DEF IntakeInv, StoreInv, InboundInv, InboundTypeOK
<1>2. delivery[d] \in Delivery
  BY DEF IntakeInv, RepliesInv
<1> DEFINE v == delivery[d]
<1>3. ASSUME NEW new, Becomes(d, new), UNCHANGED acted, Weight(new, q) <= Weight(v, q)
      PROVE  Done(new)
  BY <1>1, <1>3 DEF Weight
<1>4. ASSUME NEW new, Becomes(d, new), ~Waits(new, q)
      PROVE  Weight(new, q) <= Weight(v, q) /\ Weight(new, q) = 0
  BY <1>4 DEF Weight
<1>5. ASSUME NEW new, Becomes(d, new), acted' = [acted EXCEPT ![v.msg] = @ + 1],
             ~Waits(new, q), v.pc \in {"marked", "decide"}
      PROVE  Done(new)
  <2>1. CASE v.msg = q
    BY <1>1, <1>5, <2>1 DEF Weight, Waits
  <2>2. CASE v.msg # q
    BY <1>1, <1>5, <2>2 DEF Weight
  <2> QED BY <2>1, <2>2
<1> SUFFICES \E new : Done(new)
  OBVIOUS
<1> HIDE DEF Done
<1>6. ASSUME NEW new, Becomes(d, new), UNCHANGED acted, ~Waits(new, q)
      PROVE  \E n : Done(n)
  BY <1>3, <1>4, <1>6
<1>7. ASSUME NEW what, Tell(d, what), UNCHANGED acted PROVE \E n : Done(n)
  <2> DEFINE new == [v EXCEPT !.pc = "reply", !.told = what]
  <2>1. ~Waits(new, q)
    BY <1>2 DEF Waits, Delivery
  <2> QED BY <1>6, <1>7, <2>1 DEF Tell
<1>8. CASE Spawn(d)
  <2> DEFINE turned == [v EXCEPT !.pc = IF Named[v.msg] = 0 THEN "pick" ELSE "decide",
                                 !.req = Named[v.msg]]
  <2>1. v.pc = "marked"
    BY <1>8 DEF Spawn, Stands
  <2>2. \/ Becomes(d, [v EXCEPT !.pc = "ask"]) /\ UNCHANGED acted
        \/ Becomes(d, turned) /\ UNCHANGED acted
        \/ Becomes(d, NoDelivery) /\ acted' = [acted EXCEPT ![v.msg] = @ + 1]
    BY <1>8, Zenon DEF Spawn, GoOn
  <2>3. ~Waits([v EXCEPT !.pc = "ask"], q)
    BY <1>2 DEF Waits, Delivery
  <2>4. ~Waits(NoDelivery, q)
    BY DEF Waits, NoDelivery
  <2>5. Weight(turned, q) <= Weight(v, q)
    <3>1. turned.msg = v.msg
      BY <1>2 DEF Delivery
    <3> QED BY <2>1, <3>1 DEF Weight, Waits
  <2> HIDE DEF turned
  <2>6. CASE Becomes(d, [v EXCEPT !.pc = "ask"]) /\ UNCHANGED acted
    BY <1>6, <2>3, <2>6
  <2>7. CASE Becomes(d, turned) /\ UNCHANGED acted
    BY <1>3, <2>5, <2>7
  <2>8. CASE Becomes(d, NoDelivery) /\ acted' = [acted EXCEPT ![v.msg] = @ + 1]
    BY <1>5, <2>1, <2>4, <2>8
  <2> QED BY <2>2, <2>6, <2>7, <2>8
<1>9. CASE Pick(d)
  <2>1. UNCHANGED acted /\ v.pc = "pick"
    BY <1>9 DEF Pick, Stands, memory
  <2>2. CASE Tell(d, "none") \/ Tell(d, "failed")
    BY <1>7, <2>1, <2>2
  <2>3. CASE Becomes(d, [v EXCEPT !.pc = "decide", !.req = Greatest(pending)])
    <3> DEFINE new == [v EXCEPT !.pc = "decide", !.req = Greatest(pending)]
    <3>1. new.msg = v.msg
      BY <1>2 DEF Delivery
    <3>2. Weight(new, q) <= Weight(v, q)
      BY <2>1, <3>1 DEF Weight, Waits
    <3> QED BY <1>3, <2>1, <2>3, <3>2
  <2> QED BY <1>9, <2>2, <2>3 DEF Pick
<1>10. CASE Decide(d)
  <2>1. CASE UNCHANGED acted /\ AfterError(d)
    BY <1>7, <2>1 DEF AfterError
  <2>2. CASE acted' = [acted EXCEPT ![v.msg] = @ + 1] /\ (GoOn(d, "list") \/ AfterError(d))
    <3>1. v.pc = "decide"
      BY <1>10 DEF Decide, Stands
    <3>2. PICK new : Becomes(d, new) /\ ~Waits(new, q)
      <4>1. /\ ~Waits([v EXCEPT !.pc = "list"], q)
            /\ ~Waits([v EXCEPT !.pc = "reply", !.told = "failed"], q)
        BY <1>2 DEF Waits, Delivery
      <4> QED BY <2>2, <4>1 DEF GoOn, AfterError, Tell
    <3> QED BY <1>5, <2>2, <3>1, <3>2
  <2> QED BY <1>10, <2>1, <2>2 DEF Decide
<1>11. CASE Ask(d) \/ List(d)
  <2>1. UNCHANGED acted /\ \E what : Tell(d, what)
    BY <1>11 DEF Ask, List, memory
  <2> QED BY <1>7, <2>1
<1>12. CASE Reply(d)
  <2>1. Becomes(d, NoDelivery) /\ UNCHANGED acted
    BY <1>12 DEF Reply, memory
  <2>2. ~Waits(NoDelivery, q)
    BY DEF Waits, NoDelivery
  <2> QED BY <1>6, <2>1, <2>2
<1> QED BY <1>8, <1>9, <1>10, <1>11, <1>12 DEF Work

LEMMA WorkKeepsOpenings ==
  ASSUME IntakeInv, OpeningsInv, NEW d \in Deliveries, Work(d)
  PROVE  OpeningsInv'
<1> SUFFICES ASSUME NEW q \in MessageIds
             PROVE  acted'[q] + Cardinality(ToDo(q)') <= openings'[q]
  BY DEF OpeningsInv
<1>1. UNCHANGED openings
  BY DEF Work, Spawn, Ask, Pick, Decide, List, Reply, memory
<1>2. PICK new : /\ Becomes(d, new)
                 /\ acted'[q] \in Nat
                 /\ acted'[q] + Weight(new, q) <= acted[q] + Weight(delivery[d], q)
  BY WorkMovesOn
<1>3. /\ Cardinality(ToDo(q)) \in Nat /\ Cardinality(ToDo(q)') \in Nat
      /\ Cardinality(ToDo(q)') + Weight(delivery[d], q) = Cardinality(ToDo(q)) + Weight(new, q)
  BY <1>2, ToDoMoves DEF IntakeInv
<1>4. acted[q] \in Nat /\ openings[q] \in Nat
  BY DEF IntakeInv, StoreInv, InboundInv, InboundTypeOK
<1>5. acted[q] + Cardinality(ToDo(q)) <= openings[q]
  BY DEF OpeningsInv
<1>6. Weight(new, q) \in {0, 1} /\ Weight(delivery[d], q) \in {0, 1}
  BY DEF Weight
<1> QED BY <1>1, <1>2, <1>3, <1>4, <1>5, <1>6

\* When the process is started again nothing waits; all else leaves the deliveries alone.
LEMMA OthersKeepOpenings ==
  ASSUME IntakeInv, OpeningsInv,
         \/ \E m \in MessageIds : Ignore(m)
         \/ NewRequest \/ InboundTick \/ Exit \/ UNCHANGED inboundVars
         \/ \E r \in Requests : SettledElsewhere(r)
  PROVE  OpeningsInv'
<1> SUFFICES ASSUME NEW q \in MessageIds
             PROVE  acted'[q] + Cardinality(ToDo(q)') <= openings'[q]
  BY DEF OpeningsInv
<1>1. UNCHANGED <<acted, openings>>
  BY DEF Ignore, NewRequest, InboundTick, Exit, SettledElsewhere, inboundVars, memory
<1>2. acted[q] \in Nat /\ openings[q] \in Nat
  BY DEF IntakeInv, StoreInv, InboundInv, InboundTypeOK
<1>3. Cardinality(ToDo(q)) \in Nat
  <2>1. IsFiniteSet(Deliveries)
    BY FS_Interval, InboundAssumption DEF Deliveries
  <2>2. IsFiniteSet(ToDo(q))
    BY <2>1, FS_Subset DEF ToDo
  <2> QED BY <2>2, FS_CardinalityType
<1>4. acted[q] + Cardinality(ToDo(q)) <= openings[q]
  BY DEF OpeningsInv
<1>5. CASE Exit
  <2>1. ToDo(q)' = {}
    BY <1>5 DEF Exit, ToDo, Waits, NoDelivery
  <2> QED BY <1>1, <1>2, <1>3, <1>4, <2>1, FS_EmptySet
<1>6. CASE UNCHANGED delivery
  <2>1. ToDo(q)' = ToDo(q)
    BY <1>6 DEF ToDo, Waits
  <2> QED BY <1>1, <1>4, <2>1
<1> QED BY <1>5, <1>6 DEF Ignore, NewRequest, InboundTick, SettledElsewhere, inboundVars

\* BridgeInbound!ActedOnce: however often the chat service delivers a message, and whatever
\* is restarted meanwhile, it is carried out at most once for each time it was taken in while
\* the file did not have to remember it.
THEOREM MessagesActOnce == InboundSpec => []ActedOnce
<1>1. IntakeInv /\ OpeningsInv /\ [InboundNext]_inboundVars => OpeningsInv'
  BY TakeInKeepsOpenings, WorkKeepsOpenings, OthersKeepOpenings DEF InboundNext
<1>2. IntakeInv /\ OpeningsInv => ActedOnce
  <2> SUFFICES ASSUME IntakeInv, OpeningsInv, NEW m \in MessageIds
               PROVE  acted[m] <= openings[m]
    BY DEF ActedOnce
  <2>1. acted[m] \in Nat /\ openings[m] \in Nat
    BY DEF IntakeInv, StoreInv, InboundInv, InboundTypeOK
  <2>2. IsFiniteSet(Deliveries)
    BY FS_Interval, InboundAssumption DEF Deliveries
  <2>3. IsFiniteSet(ToDo(m))
    BY <2>2, FS_Subset DEF ToDo
  <2>4. Cardinality(ToDo(m)) \in Nat
    BY <2>3, FS_CardinalityType
  <2>5. acted[m] + Cardinality(ToDo(m)) <= openings[m]
    BY DEF OpeningsInv
  <2> QED BY <2>1, <2>4, <2>5
<1> QED BY IntakeInvariant, InitOpenings, <1>1, <1>2, PTL DEF InboundSpec
=============================================================================
