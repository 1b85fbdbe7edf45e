------------------------- MODULE ChatDispatchProofs -------------------------
(***************************************************************************)
(* Proofs about ChatDispatch and the router it uses, for any number of     *)
(* requests and any route tables.                                          *)
(***************************************************************************)
EXTENDS ChatDispatch, SequenceTheorems, TLAPS

Runs == [Identities -> Seq(Outcomes \cup {"killed"})]

TablesOK ==
  /\ file \in Tables \cup {Missing, Broken}
  /\ stamp \in 0 .. MaxEdits
  /\ cache \in [stamp: (0 .. MaxEdits) \cup {None}, table: Tables \cup {NoTable}]
  /\ cache.stamp # None => cache.stamp <= stamp
  /\ CacheTrue

\* Where a handler stands, what it has shown and what it reports agree (Consistent), and
\* a message on its way has passed the check; said of a record and of runs.
DoneBy(h, i, s, r) ==
  \/ \E o \in {"confirmed", "failed"} :
       /\ s.states[i] = o
       /\ r[i] = <<o>> \/ (r[i] = <<"queued", o>> /\ h \in Commands)
  \/ r[i] = <<"queued", "queued">> /\ s.states[i] = "failed" /\ h \in Commands
  \/ r[i] = <<"queued">> /\ s.states[i] = "queued" /\ h \notin Commands

UntouchedBy(i, s, r) == r[i] = <<>> /\ s.states[i] = "none"

GivenUpBy(h, i, s, r) ==
  /\ s.states[i] = "none"
  /\ \E outcomes \in {<<>>} \cup {<<o>> : o \in Outcomes \cup {"killed"}} :
       \/ r[i] = outcomes
       \/ r[i] = <<"queued">> \o outcomes /\ h \in Commands

BeforeOf(s) == IF s.try = 1 THEN <<>> ELSE <<"queued">>

Early == {"idle", "resolve", "check", "record", "run"}
Late == {"snapshot", "snapcheck", "reply", "result"}

\* A handler that has not answered yet.
Underway(h, s, r) ==
  /\ s.pc \in Early => r[s.who] = BeforeOf(s)
  /\ s.pc \in Late => s.outcome \in Outcomes /\ r[s.who] = Append(BeforeOf(s), s.outcome)
  /\ s.states[s.who] = "none"
  /\ s.who = Leader => UntouchedBy(Collab, s, r)
  /\ s.who = Collab => DoneBy(h, Leader, s, r)

\* One that has.
Answered(h, s, r) ==
  \/ s.status # 200 /\ \A i \in Identities : DoneBy(h, i, s, r) \/ GivenUpBy(h, i, s, r)
  \/ /\ s.status = 200
     /\ DoneBy(h, Leader, s, r)
     /\ \/ DoneBy(h, Collab, s, r) /\ h \in WithCollab
        \/ UntouchedBy(Collab, s, r) /\ h \notin WithCollab
        \/ GivenUpBy(h, Collab, s, r) /\ ~s.accepted
     /\ s.accepted => \A i \in Identities : s.states[i] # "failed"

CheckedIn(s) ==
  s.pc \in {"record", "run"} /\ s.who \in Enabled(s.table) => ~RouteIssue(s.checked, s.who)

RequestOK(h, s, r) ==
  /\ s.pc = "idle" => s = Idle
  /\ s.try = 2 => h \in Commands
  /\ s.who = Collab => h \in WithCollab
  /\ s.pc # "answered" => Underway(h, s, r)
  /\ s.pc = "answered" => Answered(h, s, r)
  /\ CheckedIn(s)

RequestsInv ==
  /\ TablesOK
  /\ handler \in [Handlers -> Handler]
  /\ ran \in [Handlers -> Runs]
  /\ \A h \in Handlers : RequestOK(h, handler[h], ran[h])
-----------------------------------------------------------------------------
(***************************************************************************)
(* The router.                                                             *)
(***************************************************************************)
LEMMA ReloadedFacts ==
  ASSUME TablesOK
  PROVE  /\ Reloaded.table \in Tables \cup {NoTable}
         /\ Reloaded \in [stamp: (0 .. MaxEdits) \cup {None}, table: Tables \cup {NoTable}]
         /\ Reloaded.stamp # None => Reloaded.stamp <= stamp
         /\ Reloaded.stamp = stamp => Reloaded.table = file
<1>0. stamp # None /\ stamp \in Nat
  BY RouterAssumption DEF TablesOK
<1>1. CASE file = Missing
  BY <1>0, <1>1 DEF Reloaded
<1>2. CASE file # Missing /\ (cache.stamp = stamp \/ file = Broken)
  BY <1>2 DEF Reloaded, TablesOK, CacheTrue
<1>3. CASE file # Missing /\ ~(cache.stamp = stamp \/ file = Broken)
  BY <1>0, <1>3 DEF Reloaded, TablesOK
<1> QED BY <1>1, <1>2, <1>3

LEMMA ReloadKeepsTables ==
  ASSUME TablesOK, cache' = Reloaded, UNCHANGED <<file, stamp>>
  PROVE  TablesOK'
BY ReloadedFacts DEF TablesOK, CacheTrue

LEMMA EditKeepsTables ==
  ASSUME TablesOK, Edit
  PROVE  TablesOK'
<1>1. stamp' \in 0 .. MaxEdits /\ stamp' = stamp + 1 /\ stamp \in Nat
  BY RouterAssumption DEF TablesOK, Edit
<1>2. cache.stamp = None \/ (cache.stamp \in Nat /\ cache.stamp <= stamp)
  BY DEF TablesOK
<1>3. cache.stamp # stamp'
  BY <1>1, <1>2, RouterAssumption
<1>4. cache.stamp # None => cache.stamp <= stamp'
  BY <1>1, <1>2
<1> QED BY <1>1, <1>3, <1>4 DEF TablesOK, CacheTrue, Edit

\* A route without an issue shares its session or its home only by consent, whatever other
\* routes conflict, and over whatever.
LEMMA NoIssueMeansConsent ==
  ASSUME NEW t, NEW i \in Enabled(t), ~RouteIssue(t, i),
         NEW j \in Enabled(t) \ {i}, Share(t, i, j)
  PROVE  Consent(t, i, j) \/ RouteIssue(t, j)
<1>1. ASSUME NEW group, i \in group, j \in group, ~InConflict(t, group)
      PROVE  Consent(t, i, j)
  <2>1. Several(group)
    BY <1>1 DEF Several
  <2>2. AllShare(t, group)
    BY <1>1, <2>1 DEF InConflict
  <2>3. PICK ack \in Acks(t, group) : Acks(t, group) = {ack}
    BY <1>1, <2>1, <2>2 DEF InConflict
  <2>4. \A k \in group : t[k].ack = None \/ t[k].ack = ack
    BY <2>3 DEF Acks
  <2> QED BY <1>1, <2>2, <2>4 DEF Consent, AllShare
<1>2. CASE t[i].session # None /\ t[i].session = t[j].session
  <2>1. i \in SessionHolders(t, i) /\ j \in SessionHolders(t, i)
    BY <1>2 DEF SessionHolders
  <2>2. ~InConflict(t, SessionHolders(t, i))
    BY <1>2 DEF RouteIssue, SessionIssue
  <2> QED BY <1>1, <2>1, <2>2
<1>3. CASE t[i].home # None /\ t[i].home = t[j].home
  <2> DEFINE group == {k \in HomeHolders(t, i) : ~SessionIssue(t, k)}
  <2>1. CASE SessionIssue(t, j)
    BY <2>1 DEF RouteIssue
  <2>2. CASE ~SessionIssue(t, j)
    <3>1. ~SessionIssue(t, i)
      BY DEF RouteIssue
    <3>2. i \in group /\ j \in group
      BY <1>3, <2>2, <3>1 DEF HomeHolders
    <3>3. ~InConflict(t, group)
      BY <1>3, <3>1 DEF RouteIssue, HomeIssue
    <3> HIDE DEF group
    <3> QED BY <1>1, <3>2, <3>3
  <2> QED BY <2>1, <2>2
<1> QED BY <1>2, <1>3 DEF Share
-----------------------------------------------------------------------------
(***************************************************************************)
(* The runs of an identity.                                                *)
(***************************************************************************)
LEMMA TwoIdentities ==
  /\ Leader \in Identities /\ Collab \in Identities /\ Leader # Collab
  /\ \A i \in Identities : i = Leader \/ i = Collab
BY DispatchAssumption DEF Identities

LEMMA IdleFacts ==
  /\ Idle \in Handler
  /\ Idle.pc = "idle" /\ Idle.who = Leader /\ Idle.try = 1 /\ Idle.outcome = "none"
  /\ Idle.states = NoStates
  /\ NoStates \in [Identities -> Outcomes \cup {"none"}]
  /\ \A i \in Identities : NoStates[i] = "none"
BY TwoIdentities DEF Idle, Handler, Labels, NoStates

LEMMA Pair ==
  ASSUME NEW S, NEW a \in S, NEW b \in S
  PROVE  Append(<<a>>, b) = <<a, b>> /\ <<a>> \o <<b>> = <<a, b>>
<1> DEFINE x == Append(<<a>>, b)
<1>1. <<a>> \in Seq(S) /\ Len(<<a>>) = 1
  OBVIOUS
<1>2. x \in Seq(S) /\ Len(x) = 2 /\ x[1] = a /\ x[2] = b
  BY <1>1, AppendProperties
<1>3. <<a, b>> \in Seq(S) /\ Len(<<a, b>>) = 2
  OBVIOUS
<1>4. x = <<a>> \o <<b>>
  BY <1>1, AppendIsConcat
<1> HIDE DEF x
<1>5. \A i \in 1 .. Len(x) : x[i] = <<a, b>>[i]
  BY <1>2
<1>6. x = <<a, b>>
  BY <1>2, <1>3, <1>5, SeqEqual
<1> QED BY <1>4, <1>6 DEF x

\* What one more run makes of those before it.
LEMMA OneMoreRun ==
  ASSUME NEW s \in Handler, NEW o \in Outcomes \cup {"killed"}
  PROVE  /\ BeforeOf(s) \in Seq(Outcomes \cup {"killed"})
         /\ Append(BeforeOf(s), o) \in Seq(Outcomes \cup {"killed"})
         /\ s.try = 1 => Append(BeforeOf(s), o) = <<o>>
         /\ s.try = 2 => /\ Append(BeforeOf(s), o) = <<"queued", o>>
                         /\ Append(BeforeOf(s), o) = <<"queued">> \o <<o>>
<1>1. "queued" \in Outcomes
  BY DEF Outcomes
<1>2. CASE s.try = 1
  BY <1>1, <1>2 DEF BeforeOf
<1>3. CASE s.try = 2
  <2>1. BeforeOf(s) = <<"queued">> /\ BeforeOf(s) \in Seq(Outcomes \cup {"killed"})
    BY <1>1, <1>3 DEF BeforeOf
  <2>2. Append(<<"queued">>, o) = <<"queued", o>>
    BY <1>1, Pair
  <2>3. <<"queued">> \o <<o>> = <<"queued", o>>
    BY <1>1, Pair
  <2>4. <<"queued", o>> \in Seq(Outcomes \cup {"killed"})
    BY <1>1
  <2> QED BY <1>3, <2>1, <2>2, <2>3, <2>4
<1> QED BY <1>2, <1>3 DEF Handler

\* An identity whose message was refused before or after a run, or whose run was killed,
\* is given up.
LEMMA GivingUp ==
  ASSUME NEW h \in Handlers, NEW s \in Handler, NEW r \in Runs, NEW t \in Handler,
         s.try = 2 => h \in Commands, t.states[s.who] = "none",
         \/ r[s.who] = BeforeOf(s)
         \/ \E o \in Outcomes \cup {"killed"} : r[s.who] = Append(BeforeOf(s), o)
  PROVE  GivenUpBy(h, s.who, t, r)
<1> DEFINE Few == {<<>>} \cup {<<o>> : o \in Outcomes \cup {"killed"}}
<1>1. s.try \in {1, 2}
  BY DEF Handler
<1>2. CASE r[s.who] = BeforeOf(s)
  <2>1. CASE s.try = 1
    BY <1>2, <2>1 DEF BeforeOf, GivenUpBy
  <2>2. CASE s.try = 2
    <3>1. r[s.who] = <<"queued">> \o <<>> /\ <<>> \in Few
      BY <1>2, <2>2 DEF BeforeOf
    <3> QED BY <2>2, <3>1 DEF GivenUpBy
  <2> QED BY <1>1, <2>1, <2>2
<1>3. CASE \E o \in Outcomes \cup {"killed"} : r[s.who] = Append(BeforeOf(s), o)
  <2>1. PICK o \in Outcomes \cup {"killed"} : r[s.who] = Append(BeforeOf(s), o)
    BY <1>3
  <2>2. <<o>> \in Few
    OBVIOUS
  <2>3. CASE s.try = 1
    <3>1. r[s.who] = <<o>>
      BY <2>1, <2>3, OneMoreRun
    <3> QED BY <2>2, <3>1 DEF GivenUpBy
  <2>4. CASE s.try = 2
    <3>1. r[s.who] = <<"queued">> \o <<o>>
      BY <2>1, <2>4, OneMoreRun
    <3> QED BY <2>2, <2>4, <3>1 DEF GivenUpBy
  <2> QED BY <1>1, <2>3, <2>4
<1> QED BY <1>2, <1>3

\* The state reported is that of the last run, if no retry follows.
LEMMA SettledIsDone ==
  ASSUME NEW h \in Handlers, NEW s \in Handler, s = handler[h], NEW r \in Runs,
         NEW t \in Handler,
         s.try = 2 => h \in Commands, ~Retries(h), s.outcome \in Outcomes,
         r[s.who] = Append(BeforeOf(s), s.outcome),
         t.states[s.who] = Settled(h, s.outcome)
  PROVE  DoneBy(h, s.who, t, r)
<1>1. s.outcome \in Outcomes \cup {"killed"} /\ s.outcome \in {"confirmed", "queued", "failed"}
  BY DEF Outcomes
<1>2. CASE s.try = 1
  <2>1. r[s.who] = <<s.outcome>>
    BY <1>1, <1>2, OneMoreRun
  <2>3. t.states[s.who] = s.outcome
    BY <1>2 DEF Settled
  <2>2. s.outcome = "queued" => h \notin Commands
    BY <1>2 DEF Retries
  <2> QED BY <1>1, <2>1, <2>2, <2>3 DEF DoneBy
<1>3. CASE s.try = 2
  <2>1. r[s.who] = <<"queued", s.outcome>>
    BY <1>1, <1>3, OneMoreRun
  <2>2. t.states[s.who] = IF s.outcome = "queued" THEN "failed" ELSE s.outcome
    BY <1>3 DEF Settled
  <2>3. h \in Commands
    BY <1>3
  <2>4. CASE s.outcome = "queued"
    BY <2>1, <2>2, <2>3, <2>4 DEF DoneBy
  <2>5. CASE s.outcome # "queued"
    <3> DEFINE o == s.outcome
    <3>1. o \in {"confirmed", "failed"} /\ t.states[s.who] = o /\ r[s.who] = <<"queued", o>>
      BY <1>1, <2>1, <2>2, <2>5
    <3> HIDE DEF o
    <3> QED BY <2>3, <3>1 DEF DoneBy
  <2> QED BY <2>4, <2>5
<1> QED BY <1>2, <1>3 DEF Handler
-----------------------------------------------------------------------------
(***************************************************************************)
(* The memory of an identity.                                              *)
(***************************************************************************)

\* A window of consecutive turns that ends with the latest.
MemoryOK(m) ==
  /\ m.seq \in Nat
  /\ \E S : m.turns \in Seq(S)
  /\ Len(m.turns) <= Window
  /\ Len(m.turns) <= m.seq
  /\ \A n \in 1 .. Len(m.turns) : m.turns[n].id = m.seq - Len(m.turns) + n

LEMMA TierSizes ==
  /\ Window \in Nat /\ Window >= 1
  /\ Fresh \in Nat /\ Stable \in Nat /\ Archive \in Nat
  /\ Fresh + Stable + Archive = Window
<1>1. Window \in Nat /\ Window >= 1
  BY MemoryAssumption DEF Window, AtLeast
<1>2. Fresh \in Nat /\ Fresh <= Window
  BY <1>1, MemoryAssumption DEF Fresh, AtMost, AtLeast, Configured
<1>3. Stable \in Nat /\ Stable <= Window - Fresh
  BY <1>1, <1>2, MemoryAssumption DEF Stable, AtMost, AtLeast, Configured
<1> QED BY <1>1, <1>2, <1>3 DEF Archive

\* The tiers divide what the window holds, whatever sizes are configured.
LEMMA TiersDivide ==
  ASSUME NEW S, NEW turns \in Seq(S), Len(turns) <= Window
  PROVE  ArchiveTurns(turns) \o StableTurns(turns) \o FreshTurns(turns) = turns
<1> DEFINE a == StableStart(turns)
           b == FreshStart(turns)
           l == Len(turns)
<1>1. l \in Nat
  OBVIOUS
<1>2. b \in 0 .. l /\ b <= AtLeast(0, l - Fresh)
  BY <1>1, TierSizes DEF FreshStart, AtLeast
<1>3. a \in 0 .. b
  BY <1>1, <1>2, TierSizes DEF StableStart, AtLeast
<1>4. ArchiveStart(turns) = 0
  BY <1>1, TierSizes DEF ArchiveStart, StableStart, FreshStart, AtLeast
<1>5. /\ ArchiveTurns(turns) = SubSeq(turns, 1, a)
      /\ StableTurns(turns) = SubSeq(turns, a + 1, b)
      /\ FreshTurns(turns) = SubSeq(turns, b + 1, l)
  BY <1>4 DEF ArchiveTurns, StableTurns, FreshTurns
<1> HIDE DEF a, b
<1>6. SubSeq(turns, 1, a) \o SubSeq(turns, a + 1, b) = SubSeq(turns, 1, b)
  BY <1>1, <1>2, <1>3, ConcatAdjacentSubSeq
<1>7. SubSeq(turns, 1, b) \o SubSeq(turns, b + 1, l) = SubSeq(turns, 1, l)
  <2>1. b \in 1 - 1 .. Len(turns) /\ Len(turns) \in b .. Len(turns) /\ 1 \in 1 .. Len(turns) + 1
    BY <1>1, <1>2
  <2>2. SubSeq(turns, 1, b) \o SubSeq(turns, b + 1, Len(turns)) = SubSeq(turns, 1, Len(turns))
    BY <2>1, ConcatAdjacentSubSeq
  <2> QED BY <2>2
<1> QED BY <1>5, <1>6, <1>7, SubSeqFull

LEMMA RememberKeeps ==
  ASSUME NEW m, MemoryOK(m), NEW role, NEW text, NEW tag
  PROVE  MemoryOK(Remember(m, role, text, tag))
<1> DEFINE turn == Turn(m.seq + 1, role, text, tag)
           l == Len(m.turns)
           u == Append(m.turns, turn)
           v == Rolled(u)
<1>1. PICK S : m.turns \in Seq(S)
  BY DEF MemoryOK
<1> DEFINE T == S \cup {turn}
<1>2. turn.id = m.seq + 1
  BY DEF Turn
<1>3. m.seq \in Nat /\ l \in Nat /\ l <= Window /\ l <= m.seq
  BY <1>1 DEF MemoryOK
<1>4. \A n \in 1 .. l : m.turns[n].id = m.seq - l + n
  BY DEF MemoryOK
<1>5. m.turns \in Seq(T) /\ turn \in T
  BY <1>1, SeqMonotonic
<1> HIDE DEF turn, T
<1>6. /\ u \in Seq(T) /\ Len(u) = l + 1
      /\ \A n \in 1 .. l : u[n] = m.turns[n]
      /\ u[l + 1] = turn
  BY <1>5, AppendProperties
<1> HIDE DEF u
<1>7. \A n \in 1 .. l + 1 : u[n].id = m.seq - l + n
  <2> TAKE n \in 1 .. l + 1
  <2>1. CASE n = l + 1
    BY <1>2, <1>3, <1>6, <2>1
  <2>2. CASE n # l + 1
    <3>1. n \in 1 .. l
      BY <1>3, <2>2
    <3>2. u[n] = m.turns[n] /\ m.turns[n].id = m.seq - l + n
      BY <1>4, <1>6, <3>1
    <3> QED BY <3>2
  <2> QED BY <2>1, <2>2
<1>8. /\ v \in Seq(T) /\ Len(v) <= Window /\ Len(v) <= m.seq + 1
      /\ \A n \in 1 .. Len(v) : v[n].id = m.seq + 1 - Len(v) + n
  <2>1. CASE l + 1 <= Window
    <3>1. v = u
      <4>1. ~(Len(u) > Window)
        BY <1>3, <1>6, <2>1, TierSizes
      <4> QED BY <4>1 DEF Rolled
    <3> HIDE DEF v
    <3> QED BY <1>3, <1>6, <1>7, <2>1, <3>1
  <2>2. CASE l = Window
    <3>1. v = SubSeq(u, 2, l + 1)
      BY <1>3, <1>6, <2>2, TierSizes DEF Rolled
    <3> HIDE DEF v
    <3>2. \A i \in 2 .. l + 1 : u[i] \in T
      BY <1>3, <1>6, ElementOfSeq
    <3>3. /\ v \in Seq(T) /\ Len(v) = l
          /\ \A n \in 1 .. l : v[n] = u[n + 1]
      <4>1. 2 \in Int /\ l + 1 \in Int /\ l >= 1
        BY <1>3, <2>2, TierSizes
      <4>2. /\ v \in Seq(T) /\ Len(v) = IF 2 <= l + 1 THEN l + 1 - 2 + 1 ELSE 0
            /\ \A n \in 1 .. l + 1 - 2 + 1 : v[n] = u[2 + n - 1]
        BY <3>1, <3>2, <4>1, SubSeqProperties
      <4> QED BY <1>3, <4>1, <4>2
    <3>4. \A n \in 1 .. l : v[n].id = m.seq + 1 - l + n
      <4> TAKE n \in 1 .. l
      <4>1. n + 1 \in 1 .. l + 1
        BY <1>3
      <4>2. v[n] = u[n + 1] /\ u[n + 1].id = m.seq - l + (n + 1)
        BY <1>7, <3>3, <4>1
      <4> QED BY <1>3, <4>2
    <3> QED BY <1>3, <2>2, <3>3, <3>4
  <2> QED BY <1>3, <2>1, <2>2, TierSizes
<1> HIDE DEF v
<1>9. CASE Remember(m, role, text, tag) = m
  BY <1>9
<1>10. CASE Remember(m, role, text, tag) = [seq |-> m.seq + 1, turns |-> v]
  BY <1>3, <1>8, <1>10 DEF MemoryOK
<1>11. \/ Remember(m, role, text, tag) = m
       \/ Remember(m, role, text, tag) = [seq |-> m.seq + 1, turns |-> v]
  BY DEF Remember, v, u, turn
<1> QED BY <1>9, <1>10, <1>11

\* The memories of all identities.
MemoriesOK ==
  /\ DOMAIN memory = Identities
  /\ \A i \in Identities : MemoryOK(memory[i])

LEMMA EmptyMemoryOK == MemoryOK(EmptyMemory)
<1>1. EmptyMemory.turns \in Seq({}) /\ Len(EmptyMemory.turns) = 0 /\ EmptyMemory.seq = 0
  BY DEF EmptyMemory
<1> QED BY <1>1, TierSizes DEF MemoryOK

LEMMA NoteKeeps ==
  ASSUME MemoriesOK, NEW i \in Identities, NEW role, NEW text, NEW tag,
         Note(i, role, text, tag)
  PROVE  MemoriesOK'
<1>1. PICK old \in {memory[i], EmptyMemory} :
        \/ memory' = [memory EXCEPT ![i] = Remember(old, role, text, tag)]
        \/ memory' = memory
  BY DEF Note
<1>2. MemoryOK(Remember(old, role, text, tag))
  BY EmptyMemoryOK, RememberKeeps DEF MemoriesOK
<1> QED BY <1>1, <1>2 DEF MemoriesOK
-----------------------------------------------------------------------------
(***************************************************************************)
(* Steps.                                                                  *)
(***************************************************************************)

\* One handler goes on to a record, and its runs to others; the rest stays.
LEMMA HandlerKeeps ==
  ASSUME RequestsInv, TablesOK', NEW h \in Handlers, NEW s \in Handler, NEW r \in Runs,
         handler' = [handler EXCEPT ![h] = s], ran' = [ran EXCEPT ![h] = r],
         RequestOK(h, s, r)
  PROVE  RequestsInv'
<1>1. handler' \in [Handlers -> Handler] /\ ran' \in [Handlers -> Runs]
  BY DEF RequestsInv
<1>2. ASSUME NEW g \in Handlers PROVE RequestOK(g, handler'[g], ran'[g])
  <2>1. CASE g = h
    BY <2>1 DEF RequestsInv
  <2>2. CASE g # h
    BY <2>2 DEF RequestsInv
  <2> QED BY <2>1, <2>2
<1> QED BY <1>1, <1>2 DEF RequestsInv

LEMMA HandlerMoves ==
  ASSUME RequestsInv, TablesOK', NEW h \in Handlers, NEW s \in Handler,
         handler' = [handler EXCEPT ![h] = s], UNCHANGED ran,
         RequestOK(h, s, ran[h])
  PROVE  RequestsInv'
<1>1. ran' = [ran EXCEPT ![h] = ran[h]] /\ ran[h] \in Runs
  BY DEF RequestsInv
<1> QED BY <1>1, HandlerKeeps

LEMMA HandlerFacts ==
  ASSUME RequestsInv, NEW h \in Handlers
  PROVE  /\ TablesOK
         /\ handler[h] \in Handler /\ ran[h] \in Runs
         /\ RequestOK(h, handler[h], ran[h])
         /\ handler[h].who \in Identities
BY DEF RequestsInv, Handler

Statuses == {0, 200, 404, 409, 500, 504}

LEMMA AnswerFacts ==
  ASSUME NEW status \in Statuses, NEW flag \in BOOLEAN,
         NEW states \in [Identities -> Outcomes \cup {"none"}],
         NEW t, t = Answer(status, flag, states)
  PROVE  /\ t \in Handler
         /\ t.pc = "answered" /\ t.try = 1 /\ t.who = Leader
         /\ t.status = status /\ t.accepted = flag /\ t.states = states
<1> DEFINE t1 == [Idle EXCEPT !.pc = "answered"]
           t2 == [t1 EXCEPT !.status = status]
           t3 == [t2 EXCEPT !.accepted = flag]
           t4 == [t3 EXCEPT !.states = states]
<1>1. t1 \in Handler /\ t1.pc = "answered" /\ t1.try = 1 /\ t1.who = Leader
  BY IdleFacts DEF Handler, Labels
<1>2. t = t4
  BY DEF Answer
<1> HIDE DEF t1
<1>3. t2 \in Handler /\ t2.status = status
      /\ t2.pc = "answered" /\ t2.try = 1 /\ t2.who = Leader
  BY <1>1 DEF Handler, Statuses
<1> HIDE DEF t2
<1>4. t3 \in Handler /\ t3.accepted = flag /\ t3.status = status
      /\ t3.pc = "answered" /\ t3.try = 1 /\ t3.who = Leader
  BY <1>3 DEF Handler
<1> HIDE DEF t3
<1>5. t4 \in Handler /\ t4.states = states /\ t4.accepted = flag /\ t4.status = status
      /\ t4.pc = "answered" /\ t4.try = 1 /\ t4.who = Leader
  BY <1>4 DEF Handler
<1> HIDE DEF t4
<1> QED BY <1>2, <1>5, Zenon

\* A request ends with an error; the one that is answered for is the collaborator's.
Ends(h, code) ==
  /\ handler[h].pc # "answered"
  /\ code \in Statuses
  /\ code = 200 => handler[h].who = Collab
  /\ handler' = [handler EXCEPT ![h] = Answer(code, FALSE, handler[h].states)]

\* The runs of a handler up to its end, with the one under way or without.
LastRuns(h, r) ==
  /\ \A i \in Identities : i # handler[h].who => r[i] = ran[h][i]
  /\ \/ r[handler[h].who] = BeforeOf(handler[h])
     \/ \E o \in Outcomes \cup {"killed"} :
          r[handler[h].who] = Append(BeforeOf(handler[h]), o)

LEMMA RefusedKeeps ==
  ASSUME RequestsInv, TablesOK', NEW h \in Handlers, NEW code, Ends(h, code),
         NEW r \in Runs, ran' = [ran EXCEPT ![h] = r], LastRuns(h, r)
  PROVE  RequestsInv'
<1>0. PICK no \in BOOLEAN : no = FALSE
  OBVIOUS
<1> DEFINE s == handler[h]
           t == Answer(code, no, s.states)
<1>1. /\ s \in Handler /\ s.who \in Identities /\ Underway(h, s, ran[h])
      /\ s.try = 2 => h \in Commands
      /\ s.who = Collab => h \in WithCollab
  BY HandlerFacts DEF RequestOK, Ends
<1>2. s.states \in [Identities -> Outcomes \cup {"none"}]
  BY <1>1 DEF Handler
<1>3. code \in Statuses
  BY DEF Ends
<1>4. handler' = [handler EXCEPT ![h] = t]
  BY <1>0 DEF Ends, Answer
<1>5. /\ t \in Handler /\ t.pc = "answered" /\ t.try = 1 /\ t.who = Leader
      /\ t.status = code /\ t.accepted = no /\ t.states = s.states
  <2>1. t = Answer(code, no, s.states)
    OBVIOUS
  <2> HIDE DEF s, t
  <2> QED BY <1>0, <1>2, <1>3, <2>1, AnswerFacts
<1>6. code # 200 \/ s.who = Collab
  BY DEF Ends
<1> HIDE DEF t
<1>7. GivenUpBy(h, s.who, t, r)
  <2>1. t.states[s.who] = "none"
    BY <1>1, <1>5 DEF Underway
  <2> HIDE DEF s
  <2> QED BY <1>1, <1>5, <2>1, GivingUp DEF s, LastRuns
<1>8. Answered(h, t, r)
  <2>1. CASE s.who = Collab
    <3>1. DoneBy(h, Leader, t, r)
      BY <1>1, <1>5, <2>1, TwoIdentities DEF Underway, DoneBy, LastRuns
    <3>2. GivenUpBy(h, Collab, t, r)
      BY <1>7, <2>1
    <3> QED BY <1>0, <1>5, <3>1, <3>2, TwoIdentities DEF Answered
  <2>2. CASE s.who = Leader
    <3>1. UntouchedBy(Collab, t, r)
      BY <1>1, <1>5, <2>2, TwoIdentities DEF Underway, UntouchedBy, LastRuns
    <3>2. GivenUpBy(h, Collab, t, r)
      BY <3>1 DEF UntouchedBy, GivenUpBy
    <3>3. code # 200
      BY <1>6, <2>2, TwoIdentities
    <3> QED BY <1>5, <1>7, <2>2, <3>2, <3>3, TwoIdentities DEF Answered
  <2> QED BY <1>1, <2>1, <2>2, TwoIdentities
<1>9. RequestOK(h, t, r)
  BY <1>5, <1>8, TwoIdentities DEF RequestOK, CheckedIn
<1> QED BY <1>4, <1>5, <1>9, HandlerKeeps

\* A step within the part before a run, or after it, keeps what is known of the handler.
LEMMA StandKeeps ==
  ASSUME RequestsInv, TablesOK', NEW h \in Handlers, NEW pc \in Labels,
         pc # "idle", Stand(h, pc), UNCHANGED ran,
         \/ handler[h].pc \in Early /\ pc \in Early
         \/ handler[h].pc \in Late /\ pc \in Late,
         pc \in {"record", "run"} => handler[h].pc \in {"record", "run"}
  PROVE  RequestsInv'
<1> DEFINE s == handler[h]
           t == [s EXCEPT !.pc = pc]
           r == ran[h]
<1>1. s \in Handler /\ RequestOK(h, s, r)
  BY HandlerFacts
<1>2. handler' = [handler EXCEPT ![h] = t]
  BY DEF Stand
<1> HIDE DEF s, r
<1>3. /\ t \in Handler
      /\ t.pc = pc /\ t.who = s.who /\ t.try = s.try /\ t.outcome = s.outcome
      /\ t.states = s.states /\ t.table = s.table /\ t.checked = s.checked
  BY <1>1 DEF Handler
<1> HIDE DEF t
<1>4. s.pc \in Early \/ s.pc \in Late
  BY DEF s
<1>5. s.pc # "answered" /\ pc # "answered"
  BY <1>4 DEF Early, Late, s
<1>6. Underway(h, s, r)
  BY <1>1, <1>5 DEF RequestOK
<1>7. Underway(h, t, r)
  <2>1. BeforeOf(t) = BeforeOf(s)
    BY <1>3 DEF BeforeOf
  <2>2. pc \in Early => r[t.who] = BeforeOf(t)
    BY <1>3, <1>6, <2>1 DEF Underway, Early, Late, s
  <2>3. pc \in Late => t.outcome \in Outcomes /\ r[t.who] = Append(BeforeOf(t), t.outcome)
    BY <1>3, <1>6, <2>1 DEF Underway, Early, Late, s
  <2>4. /\ t.states[t.who] = "none"
        /\ t.who = Leader => UntouchedBy(Collab, t, r)
        /\ t.who = Collab => DoneBy(h, Leader, t, r)
    BY <1>3, <1>6 DEF Underway, UntouchedBy, DoneBy
  <2> QED BY <1>3, <2>2, <2>3, <2>4 DEF Underway
<1>8. CheckedIn(t)
  BY <1>1, <1>3 DEF RequestOK, CheckedIn, s
<1>9. RequestOK(h, t, r)
  BY <1>1, <1>3, <1>5, <1>7, <1>8 DEF RequestOK
<1> QED BY <1>2, <1>3, <1>9, HandlerMoves DEF r

\* A request ends with an error and no further run.
LEMMA RefusedAsIs ==
  ASSUME RequestsInv, TablesOK', NEW h \in Handlers,
         NEW code, Ends(h, code), UNCHANGED ran
  PROVE  RequestsInv'
<1> DEFINE r == ran[h]
<1>1. r \in Runs /\ ran' = [ran EXCEPT ![h] = r]
  BY HandlerFacts DEF RequestsInv
<1>2. Underway(h, handler[h], r) /\ handler[h] \in Handler /\ handler[h].pc # "answered"
  BY HandlerFacts DEF RequestOK, Ends
<1>3. handler[h].pc \in Early \/ handler[h].pc \in Late
  BY <1>2 DEF Handler, Labels, Early, Late
<1>4. LastRuns(h, r)
  BY <1>2, <1>3 DEF Underway, LastRuns
<1> HIDE DEF r
<1> QED BY <1>1, <1>4, RefusedKeeps

LEMMA ReceiveKeeps ==
  ASSUME RequestsInv, NEW h \in Handlers, Receive(h)
  PROVE  RequestsInv'
<1>1. TablesOK'
  BY DEF RequestsInv, TablesOK, CacheTrue, Receive, routerVars
<1> QED BY <1>1, StandKeeps DEF Receive, Early, Labels

LEMMA RecordKeeps ==
  ASSUME RequestsInv, NEW h \in Handlers, Record(h)
  PROVE  RequestsInv'
<1>1. TablesOK'
  BY DEF RequestsInv, TablesOK, CacheTrue, Record, routerVars
<1> QED BY <1>1, StandKeeps DEF Record, Early, Labels

LEMMA ReplyKeeps ==
  ASSUME RequestsInv, NEW h \in Handlers, Reply(h)
  PROVE  RequestsInv'
<1>1. TablesOK'
  BY DEF RequestsInv, TablesOK, CacheTrue, Reply, routerVars
<1> QED BY <1>1, StandKeeps DEF Reply, Late, Labels

LEMMA SnapshotKeeps ==
  ASSUME RequestsInv, NEW h \in Handlers, Snapshot(h)
  PROVE  RequestsInv'
<1>1. TablesOK'
  BY ReloadKeepsTables DEF RequestsInv, Snapshot
<1>2. CASE Stand(h, "snapcheck")
  BY <1>1, <1>2, StandKeeps DEF Snapshot, Late, Labels
<1>3. CASE Stand(h, "result")
  BY <1>1, <1>3, StandKeeps DEF Snapshot, Late, Labels
<1> QED BY <1>2, <1>3 DEF Snapshot

LEMMA SnapshotCheckKeeps ==
  ASSUME RequestsInv, NEW h \in Handlers, SnapshotCheck(h)
  PROVE  RequestsInv'
<1>1. TablesOK'
  BY ReloadKeepsTables DEF RequestsInv, SnapshotCheck
<1>2. CASE Refused(h, 500, FALSE)
  <2>1. Ends(h, 500)
    BY <1>2 DEF SnapshotCheck, Refused, Ends, RequestsInv, Statuses
  <2> QED BY <1>1, <2>1, RefusedAsIs DEF SnapshotCheck
<1>3. CASE Stand(h, "result")
  BY <1>1, <1>3, StandKeeps DEF SnapshotCheck, Late, Labels
<1>4. CASE Stand(h, "reply")
  BY <1>1, <1>4, StandKeeps DEF SnapshotCheck, Late, Labels
<1> QED BY <1>2, <1>3, <1>4 DEF SnapshotCheck

LEMMA ResolveKeeps ==
  ASSUME RequestsInv, NEW h \in Handlers, Resolve(h)
  PROVE  RequestsInv'
<1> DEFINE s == handler[h]
           r == ran[h]
           pc == IF s.who \in Enabled(cache'.table) THEN "check" ELSE "record"
           t1 == [s EXCEPT !.pc = pc]
           t == [t1 EXCEPT !.table = cache'.table]
<1>1. TablesOK' /\ UNCHANGED ran
  BY ReloadKeepsTables DEF RequestsInv, Resolve
<1>2. CASE Refused(h, 500, TRUE)
  <2>1. Ends(h, IF handler[h].who = Collab THEN 200 ELSE 500)
    BY <1>2 DEF Resolve, Refused, Ends, RequestsInv, Statuses
  <2> QED BY <1>1, <2>1, RefusedAsIs
<1>4. CASE Refused(h, 404, TRUE)
  <2>1. Ends(h, IF handler[h].who = Collab THEN 200 ELSE 404)
    BY <1>4 DEF Resolve, Refused, Ends, RequestsInv, Statuses
  <2> QED BY <1>1, <2>1, RefusedAsIs
<1>3. CASE handler' = [handler EXCEPT ![h].pc = pc, ![h].table = cache'.table]
  <2>1. s \in Handler /\ RequestOK(h, s, r) /\ s.pc = "resolve" /\ Underway(h, s, r)
    BY HandlerFacts DEF Resolve, RequestOK
  <2>2. handler' = [handler EXCEPT ![h] = t]
    BY <1>3 DEF RequestsInv
  <2>3. cache'.table \in Tables \cup {NoTable}
    BY <1>1 DEF TablesOK
  <2>4. pc \in {"check", "record"} /\ (pc = "record" => s.who \notin Enabled(cache'.table))
    OBVIOUS
  <2> HIDE DEF s, r, pc
  <2>a. t1 \in Handler /\ t1.pc = pc /\ t1.who = s.who /\ t1.try = s.try /\ t1.states = s.states
    BY <2>1, <2>4 DEF Handler, Labels
  <2> HIDE DEF t1
  <2>5. /\ t \in Handler /\ t.pc = pc /\ t.who = s.who /\ t.try = s.try
        /\ t.states = s.states /\ t.table = cache'.table
    BY <2>3, <2>a DEF Handler
  <2> HIDE DEF t
  <2>6. Underway(h, t, r)
    BY <2>1, <2>4, <2>5 DEF Underway, BeforeOf, UntouchedBy, DoneBy, Early, Late
  <2>7. CheckedIn(t)
    BY <2>4, <2>5 DEF CheckedIn
  <2>8. RequestOK(h, t, r)
    BY <2>1, <2>4, <2>5, <2>6, <2>7 DEF RequestOK
  <2> QED BY <1>1, <2>2, <2>5, <2>8, HandlerMoves DEF r
<1> QED BY <1>2, <1>3, <1>4 DEF Resolve

LEMMA CheckKeeps ==
  ASSUME RequestsInv, NEW h \in Handlers, Check(h)
  PROVE  RequestsInv'
<1> DEFINE s == handler[h]
           r == ran[h]
           t1 == [s EXCEPT !.pc = "record"]
           t == [t1 EXCEPT !.checked = cache'.table]
<1>1. TablesOK' /\ UNCHANGED ran
  BY ReloadKeepsTables DEF RequestsInv, Check
<1>2. CASE Refused(h, 500, FALSE)
  <2>1. Ends(h, 500)
    BY <1>2 DEF Check, Refused, Ends, RequestsInv, Statuses
  <2> QED BY <1>1, <2>1, RefusedAsIs
<1>4. CASE Refused(h, 409, TRUE)
  <2>1. Ends(h, IF handler[h].who = Collab THEN 200 ELSE 409)
    BY <1>4 DEF Check, Refused, Ends, RequestsInv, Statuses
  <2> QED BY <1>1, <2>1, RefusedAsIs
<1>3. CASE /\ ~Issue(cache'.table, s.who)
           /\ handler' = [handler EXCEPT ![h].pc = "record", ![h].checked = cache'.table]
  <2>1. s \in Handler /\ RequestOK(h, s, r) /\ s.pc = "check" /\ Underway(h, s, r)
    BY HandlerFacts DEF Check, RequestOK
  <2>2. handler' = [handler EXCEPT ![h] = t]
    BY <1>3 DEF RequestsInv
  <2>3. cache'.table \in Tables \cup {NoTable}
    BY <1>1 DEF TablesOK
  <2>4. ~RouteIssue(cache'.table, s.who)
    BY <1>3 DEF Issue
  <2> HIDE DEF s, r
  <2>a. /\ t1 \in Handler /\ t1.pc = "record" /\ t1.who = s.who /\ t1.try = s.try
        /\ t1.states = s.states
    BY <2>1 DEF Handler, Labels
  <2> HIDE DEF t1
  <2>5. /\ t \in Handler /\ t.pc = "record" /\ t.who = s.who /\ t.try = s.try
        /\ t.states = s.states /\ t.checked = cache'.table
    BY <2>3, <2>a DEF Handler
  <2> HIDE DEF t
  <2>6. Underway(h, t, r)
    BY <2>1, <2>5 DEF Underway, BeforeOf, UntouchedBy, DoneBy, Early, Late
  <2>7. CheckedIn(t)
    BY <2>4, <2>5 DEF CheckedIn
  <2>8. RequestOK(h, t, r)
    BY <2>1, <2>5, <2>6, <2>7 DEF RequestOK
  <2> QED BY <1>1, <2>2, <2>5, <2>8, HandlerMoves DEF r
<1> QED BY <1>2, <1>3, <1>4 DEF Check

\* A run adds its outcome to those of the identity addressed.
WithRun(h, o) == [ran[h] EXCEPT ![handler[h].who] = Append(@, o)]

LEMMA RunFacts ==
  ASSUME RequestsInv, NEW h \in Handlers, NEW o \in Outcomes \cup {"killed"}, NEW r,
         handler[h].pc = "run", r = WithRun(h, o)
  PROVE  /\ r \in Runs
         /\ r[handler[h].who] = Append(BeforeOf(handler[h]), o)
         /\ \A i \in Identities : i # handler[h].who => r[i] = ran[h][i]
<1>1. /\ handler[h] \in Handler /\ handler[h].who \in Identities /\ ran[h] \in Runs
      /\ ran[h][handler[h].who] = BeforeOf(handler[h])
  BY HandlerFacts DEF RequestOK, Underway, Early
<1>2. Append(BeforeOf(handler[h]), o) \in Seq(Outcomes \cup {"killed"})
  BY <1>1, OneMoreRun
<1> QED BY <1>1, <1>2 DEF Runs, WithRun

LEMMA TimeOutKeeps ==
  ASSUME RequestsInv, NEW h \in Handlers, TimeOut(h)
  PROVE  RequestsInv'
<1> DEFINE r == [ran[h] EXCEPT ![handler[h].who] = Append(@, "killed")]
<1>1. TablesOK'
  BY DEF RequestsInv, TablesOK, CacheTrue, TimeOut, routerVars
<1>2. Ends(h, IF handler[h].who = Collab THEN 200 ELSE 504)
  BY DEF TimeOut, Refused, Ends, RequestsInv, Statuses
<1>3. ran' = [ran EXCEPT ![h] = r]
  BY DEF TimeOut, RequestsInv
<1>4. r \in Runs /\ LastRuns(h, r)
  <2>1. handler[h].pc = "run" /\ "killed" \in Outcomes \cup {"killed"}
    BY DEF TimeOut
  <2>2. r = WithRun(h, "killed")
    BY DEF WithRun
  <2> HIDE DEF r
  <2> QED BY <2>1, <2>2, RunFacts DEF LastRuns
<1> HIDE DEF r
<1> QED BY <1>1, <1>2, <1>3, <1>4, RefusedKeeps

LEMMA RunKeeps ==
  ASSUME RequestsInv, NEW h \in Handlers, Run(h)
  PROVE  RequestsInv'
<1>1. PICK o \in Outcomes :
        /\ ran' = [ran EXCEPT ![h][handler[h].who] = Append(@, o)]
        /\ handler' = [handler EXCEPT
             ![h].pc = IF o # "failed" /\ Captures THEN "snapshot" ELSE "result",
             ![h].table = NoTable, ![h].checked = NoTable, ![h].outcome = o]
  BY DEF Run
<1> DEFINE s == handler[h]
           r == [ran[h] EXCEPT ![s.who] = Append(@, o)]
           pc == IF o # "failed" /\ Captures THEN "snapshot" ELSE "result"
           t1 == [s EXCEPT !.pc = pc]
           t2 == [t1 EXCEPT !.table = NoTable]
           t3 == [t2 EXCEPT !.checked = NoTable]
           t == [t3 EXCEPT !.outcome = o]
<1>2. TablesOK'
  BY DEF RequestsInv, TablesOK, CacheTrue, Run, routerVars
<1>3. ran' = [ran EXCEPT ![h] = r]
  BY <1>1 DEF RequestsInv
<1>4. handler' = [handler EXCEPT ![h] = t]
  BY <1>1 DEF RequestsInv
<1>5. /\ s \in Handler /\ s.who \in Identities /\ s.pc = "run"
      /\ RequestOK(h, s, ran[h]) /\ Underway(h, s, ran[h])
  BY HandlerFacts DEF Run, RequestOK
<1>6. /\ r \in Runs /\ r[s.who] = Append(BeforeOf(s), o)
      /\ \A i \in Identities : i # s.who => r[i] = ran[h][i]
  <2>1. r = WithRun(h, o) /\ handler[h].pc = "run"
    BY <1>5 DEF WithRun
  <2>2. o \in Outcomes \cup {"killed"}
    OBVIOUS
  <2> HIDE DEF r
  <2> QED BY <2>1, <2>2, RunFacts
<1>7. pc \in Late /\ pc \in Labels /\ pc \notin Early /\ pc \notin {"idle", "record", "run", "answered"}
  BY DEF Late, Early, Labels
<1> HIDE DEF s, r, pc
<1>8. /\ t \in Handler /\ t.pc = pc /\ t.who = s.who /\ t.try = s.try
      /\ t.states = s.states /\ t.outcome = o
  <2>1. t1 \in Handler /\ t1.pc = pc /\ t1.who = s.who /\ t1.try = s.try /\ t1.states = s.states
    BY <1>5, <1>7 DEF Handler
  <2> HIDE DEF t1
  <2>2. t2 \in Handler /\ t2.pc = pc /\ t2.who = s.who /\ t2.try = s.try /\ t2.states = s.states
    BY <2>1 DEF Handler
  <2> HIDE DEF t2
  <2>3. t3 \in Handler /\ t3.pc = pc /\ t3.who = s.who /\ t3.try = s.try /\ t3.states = s.states
    BY <2>2 DEF Handler
  <2> HIDE DEF t3
  <2> QED BY <2>3 DEF Handler
<1> HIDE DEF t
<1>9. Underway(h, t, r)
  <2>1. t.states[t.who] = "none" /\ BeforeOf(t) = BeforeOf(s)
    BY <1>5, <1>8 DEF Underway, BeforeOf
  <2>2. t.who = Leader => UntouchedBy(Collab, t, r)
    BY <1>5, <1>6, <1>8, TwoIdentities DEF Underway, UntouchedBy
  <2>3. t.who = Collab => DoneBy(h, Leader, t, r)
    BY <1>5, <1>6, <1>8, TwoIdentities DEF Underway, DoneBy
  <2> QED BY <1>6, <1>7, <1>8, <2>1, <2>2, <2>3 DEF Underway
<1>10. RequestOK(h, t, r)
  BY <1>5, <1>7, <1>8, <1>9 DEF RequestOK, CheckedIn
<1> QED BY <1>2, <1>3, <1>4, <1>6, <1>8, <1>10, HandlerKeeps

\* A request goes on with the next run.
Resumed(who, states) == [Idle EXCEPT !.pc = "resolve", !.who = who, !.states = states]

LEMMA NextFacts ==
  ASSUME NEW who \in Identities, NEW states \in [Identities -> Outcomes \cup {"none"}],
         NEW t, t = Resumed(who, states)
  PROVE  /\ t \in Handler
         /\ t.pc = "resolve" /\ t.who = who /\ t.try = 1 /\ t.states = states
<1> DEFINE t1 == [Idle EXCEPT !.pc = "resolve"]
           t2 == [t1 EXCEPT !.who = who]
           t3 == [t2 EXCEPT !.states = states]
<1>1. t1 \in Handler /\ t1.pc = "resolve" /\ t1.try = 1
  BY IdleFacts DEF Handler, Labels
<1>2. t = t3
  BY DEF Resumed
<1> HIDE DEF t1
<1>3. t2 \in Handler /\ t2.pc = "resolve" /\ t2.who = who /\ t2.try = 1
  BY <1>1 DEF Handler
<1> HIDE DEF t2
<1>4. /\ t3 \in Handler
      /\ t3.pc = "resolve" /\ t3.who = who /\ t3.try = 1 /\ t3.states = states
  BY <1>3 DEF Handler
<1> HIDE DEF t3
<1> QED BY <1>2, <1>4

LEMMA ResultKeeps ==
  ASSUME RequestsInv, NEW h \in Handlers, Result(h)
  PROVE  RequestsInv'
<1> DEFINE s == handler[h]
           r == ran[h]
           states == [s.states EXCEPT ![s.who] = Settled(h, s.outcome)]
<1>1. TablesOK' /\ UNCHANGED ran
  BY DEF RequestsInv, TablesOK, CacheTrue, Result, routerVars
<1>2. /\ s \in Handler /\ r \in Runs /\ s.who \in Identities /\ s.try \in {1, 2}
      /\ s.states \in [Identities -> Outcomes \cup {"none"}]
      /\ RequestOK(h, s, r) /\ s.pc = "result" /\ Underway(h, s, r)
      /\ s.try = 2 => h \in Commands
  BY HandlerFacts DEF Result, RequestOK, Handler
<1>3. s.outcome \in Outcomes /\ r[s.who] = Append(BeforeOf(s), s.outcome)
  BY <1>2 DEF Underway, Late
<1>4. Settled(h, s.outcome) \in Outcomes
  BY <1>3 DEF Settled, Outcomes
<1>5. /\ states \in [Identities -> Outcomes \cup {"none"}]
      /\ states[s.who] = Settled(h, s.outcome)
      /\ \A i \in Identities : i # s.who => states[i] = s.states[i]
  BY <1>2, <1>4
<1>6. ASSUME NEW t \in Handler, t.states = states, ~Retries(h)
      PROVE  DoneBy(h, s.who, t, r)
  <2>1. t.states[s.who] = Settled(h, s.outcome)
    BY <1>5, <1>6
  <2> HIDE DEF states, r
  <2> QED BY <1>2, <1>3, <1>6, <2>1, SettledIsDone
<1>7. CASE Retries(h)
  <2> DEFINE u == Resumed(s.who, s.states)
             t == [u EXCEPT !.try = 2]
  <2>1. handler' = [handler EXCEPT ![h] = t]
    BY <1>7 DEF Result, RequestsInv, Resumed
  <2>2. /\ t \in Handler
        /\ t.pc = "resolve" /\ t.who = s.who /\ t.try = 2 /\ t.states = s.states
    <3>1. u = Resumed(s.who, s.states)
      OBVIOUS
    <3> HIDE DEF s, u
    <3>2. u \in Handler /\ u.pc = "resolve" /\ u.who = s.who /\ u.states = s.states
      BY <1>2, <3>1, NextFacts
    <3> QED BY <3>2 DEF Handler
  <2>3. s.outcome = "queued" /\ s.try = 1 /\ h \in Commands
    BY <1>7 DEF Retries
  <2>4. r[s.who] = <<"queued">>
    BY <1>2, <1>3, <2>3, OneMoreRun DEF Outcomes
  <2> HIDE DEF t
  <2>5. Underway(h, t, r)
    <3>1. r[t.who] = BeforeOf(t)
      BY <2>2, <2>4 DEF BeforeOf
    <3>2. t.pc \in Early /\ t.pc \notin Late
      BY <2>2 DEF Early, Late
    <3> QED BY <1>2, <2>2, <3>1, <3>2 DEF Underway, UntouchedBy, DoneBy
  <2>6. RequestOK(h, t, r)
    BY <1>2, <2>2, <2>3, <2>5 DEF RequestOK, CheckedIn
  <2> QED BY <1>1, <2>1, <2>2, <2>6, HandlerMoves
<1>8. CASE ~Retries(h) /\ h \in WithCollab /\ s.who = Leader
  <2> DEFINE t == Resumed(Collab, states)
  <2>1. handler' = [handler EXCEPT ![h] = t]
    BY <1>8 DEF Result, RequestsInv, Resumed
  <2>2. /\ t \in Handler
        /\ t.pc = "resolve" /\ t.who = Collab /\ t.try = 1 /\ t.states = states
    <3>1. t = Resumed(Collab, states)
      OBVIOUS
    <3> HIDE DEF states, t
    <3> QED BY <1>5, <3>1, NextFacts, TwoIdentities
  <2> HIDE DEF t
  <2>3. UntouchedBy(Collab, s, r)
    BY <1>2, <1>8 DEF Underway
  <2>4. r[Collab] = <<>> /\ states[Collab] = "none"
    BY <1>5, <1>8, <2>3, TwoIdentities DEF UntouchedBy
  <2>5. DoneBy(h, Leader, t, r)
    BY <1>6, <1>8, <2>2
  <2>6. Underway(h, t, r)
    BY <2>2, <2>4, <2>5, TwoIdentities DEF Underway, BeforeOf, Early, Late
  <2>7. RequestOK(h, t, r)
    BY <1>8, <2>2, <2>6 DEF RequestOK, CheckedIn
  <2> QED BY <1>1, <2>1, <2>2, <2>7, HandlerMoves
<1>9. CASE ~Retries(h) /\ ~(h \in WithCollab /\ s.who = Leader)
  <2>1. PICK flag \in BOOLEAN : flag = Accepted(states, h)
    <3>1. Accepted(states, h) \in BOOLEAN
      BY DEF Accepted
    <3> QED BY <3>1, Zenon
  <2> DEFINE t == Answer(200, flag, states)
  <2>2. handler' = [handler EXCEPT ![h] = t]
    BY <1>9, <2>1 DEF Result, RequestsInv, Answer
  <2>3. /\ t \in Handler /\ t.pc = "answered" /\ t.try = 1 /\ t.who = Leader
        /\ t.status = 200 /\ t.accepted = flag /\ t.states = states
    <3>1. t = Answer(200, flag, states) /\ 200 \in Statuses
      BY DEF Statuses
    <3> HIDE DEF t, states
    <3> QED BY <1>5, <2>1, <3>1, AnswerFacts
  <2> HIDE DEF t
  <2>4. DoneBy(h, s.who, t, r)
    BY <1>6, <1>9, <2>3
  <2>5. t.accepted => \A i \in Identities : t.states[i] # "failed"
    <3>1. t.accepted = Accepted(states, h) /\ t.states = states
      BY <2>1, <2>3, Zenon
    <3> HIDE DEF states
    <3> QED BY <3>1, Zenon DEF Accepted
  <2>6. ASSUME s.who = Leader PROVE Answered(h, t, r)
    <3>1. UntouchedBy(Collab, t, r)
      BY <1>2, <1>5, <2>3, <2>6, TwoIdentities DEF Underway, UntouchedBy
    <3>2. h \notin WithCollab
      BY <1>9, <2>6
    <3> QED BY <2>3, <2>4, <2>5, <2>6, <3>1, <3>2 DEF Answered
  <2>7. ASSUME s.who = Collab PROVE Answered(h, t, r)
    <3>1. DoneBy(h, Leader, t, r)
      BY <1>2, <1>5, <2>3, <2>7, TwoIdentities DEF Underway, DoneBy
    <3>2. h \in WithCollab
      BY <1>2, <2>7 DEF RequestOK
    <3> QED BY <2>3, <2>4, <2>5, <2>7, <3>1, <3>2 DEF Answered
  <2>8. Answered(h, t, r)
    BY <1>2, <2>6, <2>7, TwoIdentities
  <2>9. RequestOK(h, t, r)
    BY <2>3, <2>8, TwoIdentities DEF RequestOK, CheckedIn
  <2> QED BY <1>1, <2>2, <2>3, <2>9, HandlerMoves
<1> QED BY <1>7, <1>8, <1>9
-----------------------------------------------------------------------------
(***************************************************************************)
(* What follows from the invariant.                                        *)
(***************************************************************************)
\* The runs of an identity: none, one, or one that queued the message and another.
Few(h, outcomes) ==
  \/ outcomes = <<>>
  \/ \E o \in Outcomes \cup {"killed"} :
       outcomes = <<o>> \/ (outcomes = <<"queued", o>> /\ h \in Commands)

LEMMA FewRuns ==
  ASSUME RequestsInv, NEW h \in Handlers, NEW i \in Identities
  PROVE  Few(h, ran[h][i])
<1> DEFINE s == handler[h]
           r == ran[h]
           All == Outcomes \cup {"killed"}
<1>1. s \in Handler /\ RequestOK(h, s, r) /\ s.who \in Identities /\ s.try \in {1, 2}
  BY HandlerFacts DEF Handler
<1>2. "queued" \in All /\ "confirmed" \in All /\ "failed" \in All
  BY DEF Outcomes
<1> HIDE DEF s, r
<1>3. ASSUME NEW j \in Identities, DoneBy(h, j, s, r) PROVE Few(h, r[j])
  BY <1>2, <1>3 DEF DoneBy, Few
<1>4. ASSUME NEW j \in Identities, UntouchedBy(j, s, r) PROVE Few(h, r[j])
  BY <1>4 DEF UntouchedBy, Few
<1>5. ASSUME NEW j \in Identities, GivenUpBy(h, j, s, r) PROVE Few(h, r[j])
  <2>1. PICK outcomes \in {<<>>} \cup {<<o>> : o \in All} :
          r[j] = outcomes \/ (r[j] = <<"queued">> \o outcomes /\ h \in Commands)
    BY <1>5 DEF GivenUpBy
  <2>2. CASE outcomes = <<>>
    <3>1. <<"queued">> \o <<>> = <<"queued">>
      OBVIOUS
    <3> QED BY <1>2, <2>1, <2>2, <3>1 DEF Few
  <2>3. CASE \E o \in All : outcomes = <<o>>
    <3>1. PICK o \in All : outcomes = <<o>>
      BY <2>3
    <3>2. <<"queued">> \o <<o>> = <<"queued", o>>
      BY <1>2, Pair
    <3> QED BY <2>1, <3>1, <3>2 DEF Few
  <2> QED BY <2>2, <2>3
<1>6. CASE s.pc = "answered"
  <2>1. DoneBy(h, i, s, r) \/ UntouchedBy(i, s, r) \/ GivenUpBy(h, i, s, r)
    BY <1>1, <1>6, TwoIdentities DEF RequestOK, Answered
  <2> QED BY <1>3, <1>4, <1>5, <2>1 DEF r
<1>7. CASE s.pc # "answered"
  <2>1. Underway(h, s, r) /\ (s.try = 2 => h \in Commands)
    BY <1>1, <1>7 DEF RequestOK
  <2>2. CASE i # s.who
    <3>1. DoneBy(h, i, s, r) \/ UntouchedBy(i, s, r)
      BY <1>1, <2>1, <2>2, TwoIdentities DEF Underway
    <3> QED BY <1>3, <1>4, <3>1 DEF r
  <2>3. CASE i = s.who
    <3>1. r[i] = BeforeOf(s) \/ \E o \in Outcomes : r[i] = Append(BeforeOf(s), o)
      BY <1>1, <1>7, <2>1, <2>3 DEF Underway, Handler, Labels, Early, Late
    <3>2. CASE r[i] = BeforeOf(s)
      BY <1>1, <1>2, <2>1, <3>2 DEF BeforeOf, Few, r
    <3>3. ASSUME NEW o \in Outcomes, r[i] = Append(BeforeOf(s), o) PROVE Few(h, r[i])
      BY <1>1, <2>1, <3>3, OneMoreRun DEF Few
    <3> QED BY <3>1, <3>2, <3>3 DEF r
  <2> QED BY <2>2, <2>3
<1> QED BY <1>6, <1>7

\* What an answer reports of an identity that is done with.
LEMMA DoneFacts ==
  ASSUME NEW h, NEW i, NEW s, NEW r, DoneBy(h, i, s, r)
  PROVE  /\ r[i] # <<>> /\ Len(r[i]) \in {1, 2}
         /\ s.states[i] \in {"confirmed", "queued", "failed"}
         /\ s.states[i] # "failed" => r[i][Len(r[i])] = s.states[i]
         /\ s.states[i] = "failed" => \A n \in 1 .. Len(r[i]) : r[i][n] # "confirmed"
         /\ s.states[i] = "queued" => h \notin Commands
<1>1. CASE \E o \in {"confirmed", "failed"} : s.states[i] = o /\ r[i] = <<o>>
  BY <1>1
<1>2. CASE \E o \in {"confirmed", "failed"} : s.states[i] = o /\ r[i] = <<"queued", o>>
  BY <1>2
<1>3. CASE r[i] = <<"queued", "queued">> /\ s.states[i] = "failed"
  BY <1>3
<1>4. CASE r[i] = <<"queued">> /\ s.states[i] = "queued" /\ h \notin Commands
  BY <1>4
<1> QED BY <1>1, <1>2, <1>3, <1>4 DEF DoneBy
-----------------------------------------------------------------------------
(***************************************************************************)
(* The invariant of the runs, from the two above.                          *)
(***************************************************************************)
LEMMA RequestIsConsistent ==
  ASSUME RequestsInv, NEW h \in Handlers
  PROVE  Consistent(h) /\ Checked(h)
<1> DEFINE s == handler[h]
           r == ran[h]
<1>1. RequestOK(h, s, r) /\ s \in Handler
  BY HandlerFacts
<1>2. /\ Before(h) = BeforeOf(s)
      /\ \A i : Untouched(h, i) <=> UntouchedBy(i, s, r)
      /\ \A i : GivenUp(h, i) <=> GivenUpBy(h, i, s, r)
  BY DEF Before, BeforeOf, Untouched, UntouchedBy, GivenUp, GivenUpBy
<1>3. ASSUME NEW i, DoneBy(h, i, s, r) PROVE Done(h, i)
  BY <1>3 DEF DoneBy, Done
<1>4. CASE s.pc # "answered"
  <2>1. Underway(h, s, r)
    BY <1>1, <1>4 DEF RequestOK
  <2> HIDE DEF r
  <2>2. /\ s.pc \in {"idle", "resolve", "check", "record", "run"} => r[s.who] = Before(h)
        /\ s.pc \in {"snapshot", "snapcheck", "reply", "result"} =>
             s.outcome \in Outcomes /\ r[s.who] = Append(Before(h), s.outcome)
    BY <1>2, <2>1 DEF Underway, Early, Late
  <2>3. /\ s.states[s.who] = "none"
        /\ s.who = Leader => Untouched(h, Collab)
        /\ s.who = Collab => Done(h, Leader)
    BY <1>2, <1>3, <2>1 DEF Underway
  <2>4. /\ s.pc \in {"idle"} => s = Idle
        /\ s.try = 2 => h \in Commands
        /\ s.who = Collab => h \in WithCollab
    BY <1>1 DEF RequestOK
  <2> QED BY <1>1, <1>4, <2>2, <2>3, <2>4 DEF Consistent, RequestOK, CheckedIn, Checked, r
<1>5. CASE s.pc = "answered"
  <2>1. Answered(h, s, r)
    BY <1>1, <1>5 DEF RequestOK
  <2>2. \/ s.status # 200 /\ \A i \in Identities : Done(h, i) \/ GivenUp(h, i)
        \/ /\ s.status = 200
           /\ Done(h, Leader)
           /\ \/ Done(h, Collab) /\ h \in WithCollab
              \/ Untouched(h, Collab) /\ h \notin WithCollab
              \/ GivenUp(h, Collab) /\ ~s.accepted
           /\ s.accepted => \A i \in Identities : s.states[i] # "failed"
    BY <1>2, <1>3, <2>1 DEF Answered
  <2> QED BY <1>1, <1>5, <2>2 DEF Consistent, RequestOK, CheckedIn, Checked
<1> QED BY <1>4, <1>5

LEMMA NextKeepsMemories ==
  ASSUME RequestsInv, MemoriesOK, [Next]_vars
  PROVE  MemoriesOK'
<1>1. ASSUME NEW h \in Handlers, Record(h) PROVE MemoriesOK'
  BY <1>1, HandlerFacts, NoteKeeps DEF Record
<1>2. ASSUME NEW h \in Handlers, Reply(h) PROVE MemoriesOK'
  BY <1>2, HandlerFacts, NoteKeeps DEF Reply
<1>3. ASSUME NEW h \in Handlers, Result(h) PROVE MemoriesOK'
  BY <1>3, HandlerFacts, NoteKeeps DEF Result
<1>4. CASE UNCHANGED memory
  BY <1>4 DEF MemoriesOK
<1> QED BY <1>1, <1>2, <1>3, <1>4
        DEF Next, Serve, Receive, Resolve, Check, Run, TimeOut, Snapshot, SnapshotCheck,
            EditRoutes, vars
-----------------------------------------------------------------------------
(***************************************************************************)
(* Theorems.                                                               *)
(***************************************************************************)
LEMMA InitRequests ==
  ASSUME Init
  PROVE  RequestsInv
<1>1. TablesOK
  BY RouterAssumption DEF Init, RouterInit, TablesOK, CacheTrue
<1>2. handler \in [Handlers -> Handler] /\ ran \in [Handlers -> Runs]
  BY IdleFacts DEF Init, Runs
<1>3. ASSUME NEW h \in Handlers PROVE RequestOK(h, handler[h], ran[h])
  <2>1. handler[h] = Idle /\ \A i \in Identities : ran[h][i] = <<>>
    BY DEF Init
  <2> QED BY <2>1, IdleFacts, TwoIdentities
          DEF RequestOK, Underway, UntouchedBy, BeforeOf, CheckedIn, Early, Late
<1> QED BY <1>1, <1>2, <1>3 DEF RequestsInv

LEMMA NextKeeps ==
  ASSUME RequestsInv, [Next]_vars
  PROVE  RequestsInv'
<1>1. ASSUME NEW h \in Handlers, Receive(h) \/ Serve(h) PROVE RequestsInv'
  BY <1>1, ReceiveKeeps, ResolveKeeps, CheckKeeps, RecordKeeps, RunKeeps, TimeOutKeeps,
     SnapshotKeeps, SnapshotCheckKeeps, ReplyKeeps, ResultKeeps DEF Serve
<1>2. CASE EditRoutes
  BY <1>2, EditKeepsTables DEF EditRoutes, RequestsInv
<1>3. CASE UNCHANGED vars
  BY <1>3 DEF vars, routerVars, RequestsInv, TablesOK, CacheTrue
<1> QED BY <1>1, <1>2, <1>3 DEF Next

\* Where a handler stands, what the script has shown it and what it reports agree, and the
\* router's cache is what the file held at its time stamp (_dispatch_chat, leader_command,
\* _reload_if_needed), whatever the requests, the edits of the file and the failures.
THEOREM RequestsInvariant == Spec => []RequestsInv
<1>1. Init => RequestsInv
  BY InitRequests
<1>2. RequestsInv /\ [Next]_vars => RequestsInv'
  BY NextKeeps
<1> QED BY <1>1, <1>2, PTL DEF Spec

\* A message goes to a session or home that others have, too, only with the consent of
\* both or if the others are refused, unless the file changes between the two lookups
\* (_compute_route_issues), in any table of routes.
THEOREM SharedAlwaysByConsent == Spec => []SharedByConsent
<1>1. RequestsInv => SharedByConsent
  <2> SUFFICES ASSUME RequestsInv, NEW h \in Handlers, handler[h].pc = "run",
                      handler[h].table = handler[h].checked,
                      handler[h].who \in Enabled(handler[h].table),
                      NEW j \in Enabled(handler[h].table) \ {handler[h].who},
                      Share(handler[h].table, handler[h].who, j)
               PROVE  \/ Consent(handler[h].table, handler[h].who, j)
                      \/ RouteIssue(handler[h].table, j)
    BY DEF SharedByConsent
  <2>1. ~RouteIssue(handler[h].table, handler[h].who)
    BY HandlerFacts DEF RequestOK, CheckedIn
  <2> QED BY <2>1, NoIssueMeansConsent
<1> QED BY <1>1, RequestsInvariant, PTL

\* The script runs at most twice for an identity, and again only for a leader command
\* whose message it has queued (_dispatch_chat_with_queued_retry).
THEOREM RetriesAlwaysOnce == Spec => []RetriedOnce
<1>1. RequestsInv => RetriedOnce
  <2> SUFFICES ASSUME RequestsInv, NEW h \in Handlers, NEW i \in Identities
               PROVE  /\ Len(ran[h][i]) <= 2
                      /\ Len(ran[h][i]) = 2 => ran[h][i][1] = "queued" /\ h \in Commands
    BY DEF RetriedOnce
  <2> DEFINE outcomes == ran[h][i]
  <2>1. Few(h, outcomes)
    BY FewRuns
  <2> HIDE DEF outcomes
  <2>2. CASE outcomes = <<>>
    BY <2>2 DEF outcomes
  <2>3. CASE \E o \in Outcomes \cup {"killed"} : outcomes = <<o>>
    BY <2>3 DEF outcomes
  <2>4. CASE /\ \E o \in Outcomes \cup {"killed"} : outcomes = <<"queued", o>>
             /\ h \in Commands
    BY <2>4 DEF outcomes
  <2> QED BY <2>1, <2>2, <2>3, <2>4 DEF Few
<1> QED BY <1>1, RequestsInvariant, PTL

\* A success reports of each identity what its last run has shown, and accepts only what
\* all who were addressed were handed (leader_command, _dispatch_chat).
THEOREM AnswersAlwaysHonest == Spec => []AnswerHonest
<1>1. RequestsInv => AnswerHonest
  <2> SUFFICES ASSUME RequestsInv, NEW h \in Handlers, handler[h].pc = "answered",
                      handler[h].status = 200, NEW i \in Identities
               PROVE  LET s == handler[h]
                          outcomes == ran[h][i]
                      IN /\ s.states[i] = "confirmed" =>
                              outcomes # <<>> /\ outcomes[Len(outcomes)] = "confirmed"
                         /\ s.states[i] = "failed" =>
                              \A n \in 1 .. Len(outcomes) : outcomes[n] # "confirmed"
                         /\ s.states[i] = "queued" => h \notin Commands
                         /\ s.accepted /\ i \in Addressed(h) =>
                              /\ outcomes # <<>>
                              /\ outcomes[Len(outcomes)] \in {"confirmed", "queued"}
    BY DEF AnswerHonest
  <2> DEFINE s == handler[h]
             r == ran[h]
  <2>1. Answered(h, s, r) /\ s.status = 200
    BY HandlerFacts DEF RequestOK
  <2> HIDE DEF s, r
  <2>2. CASE DoneBy(h, i, s, r)
    <3>1. s.accepted => s.states[i] # "failed"
      BY <2>1 DEF Answered
    <3> QED BY <2>2, <3>1, DoneFacts DEF s, r
  <2>3. CASE ~DoneBy(h, i, s, r)
    <3>1. s.states[i] = "none" /\ (s.accepted => i \notin Addressed(h))
      BY <2>1, <2>3, TwoIdentities DEF Answered, UntouchedBy, GivenUpBy, Addressed
    <3> QED BY <3>1 DEF s, r
  <2> QED BY <2>2, <2>3
<1> QED BY <1>1, RequestsInvariant, PTL

\* A memory holds a window of consecutive turns that ends with the latest, and the tiers
\* divide it (append_turn, _split_tiers), for any configured sizes, any number of handlers
\* and files that cannot be read or written.
THEOREM MemoryAlwaysKept == Spec => []MemoryInv
<1>1. Init => RequestsInv /\ MemoriesOK
  BY InitRequests, EmptyMemoryOK DEF Init, MemoriesOK
<1>2. RequestsInv /\ MemoriesOK /\ [Next]_vars => RequestsInv' /\ MemoriesOK'
  BY NextKeeps, NextKeepsMemories
<1>3. MemoriesOK => MemoryInv
  <2> SUFFICES ASSUME MemoriesOK, NEW i \in Identities
               PROVE  LET turns == memory[i].turns
                      IN /\ Len(turns) <= Window
                         /\ Len(turns) <= memory[i].seq
                         /\ \A n \in 1 .. Len(turns) :
                              turns[n].id = memory[i].seq - Len(turns) + n
                         /\ ArchiveTurns(turns) \o StableTurns(turns) \o FreshTurns(turns)
                              = turns
    BY DEF MemoryInv
  <2>1. MemoryOK(memory[i])
    BY DEF MemoriesOK
  <2>2. PICK S : memory[i].turns \in Seq(S)
    BY <2>1 DEF MemoryOK
  <2> QED BY <2>1, <2>2, TiersDivide DEF MemoryOK
<1> QED BY <1>1, <1>2, <1>3, PTL DEF Spec

\* All that the runs check at once: types, cache, memories, and the agreement of handlers,
\* runs and reports.
THEOREM DispatchInvariant == Spec => []DispatchInv
<1>1. Init => MemoriesOK
  BY EmptyMemoryOK DEF Init, MemoriesOK
<1>2. RequestsInv /\ MemoriesOK /\ [Next]_vars => MemoriesOK'
  BY NextKeepsMemories
<1>3. RequestsInv /\ MemoriesOK /\ MemoryInv => DispatchInv
  <2> SUFFICES ASSUME RequestsInv, MemoriesOK, MemoryInv PROVE DispatchInv
    OBVIOUS
  <2>1. \A i \in Identities : memory[i].seq \in Nat
    BY DEF MemoriesOK, MemoryOK
  <2>2. \A h \in Handlers : \A i \in Identities : ran[h][i] \in Seq(Outcomes \cup {"killed"})
    BY DEF RequestsInv, Runs
  <2>3. TypeOK /\ CacheTrue
    BY <2>1, <2>2 DEF RequestsInv, TablesOK, TypeOK
  <2> QED BY <2>3, RequestIsConsistent DEF DispatchInv
<1> QED BY <1>1, <1>2, <1>3, RequestsInvariant, MemoryAlwaysKept, PTL DEF Spec
=============================================================================
