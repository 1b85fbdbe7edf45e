-------------------------- MODULE StreamBridgeProofs --------------------------
(***************************************************************************)
(* Theorems about StreamBridge: the invariant BridgeInv and the safety     *)
(* properties it implies, for any number of messages, retries and          *)
(* restarts.                                                               *)
(*                                                                         *)
(* Nearly every step of a thread changes its own record only.  Fits says   *)
(* when a record may follow another one, MoveKeeps that such a step keeps  *)
(* the invariant; the proof has then one short step for each action.       *)
(***************************************************************************)
EXTENDS StreamBridge, TLAPS

\* The record h may follow that of thread t, which then has sent n commands more.
Fits(t, h, n) ==
  /\ h \in Thread
  /\ h.pc # "idle"
  /\ ThreadOK(t, h)
  /\ h.overtaken = thread[t].overtaken
  /\ h.pc = "send" => ~Stale(t)
  /\ Leaving(thread[t]) => Leaving(h)
  /\ Paid(t, h) >= Paid(t, thread[t]) + n

LEMMA ThreadsArePairs ==
  ASSUME NEW t \in Threads
  PROVE  /\ t[1] \in Tasks
         /\ t = <<t[1], "main">> \/ t = <<t[1], "late">>
         /\ t[2] = "main" <=> t = <<t[1], "main">>
         /\ t[2] = "late" <=> t = <<t[1], "late">>
  BY DEF Threads

LEMMA PaidIsNat ==
  ASSUME NEW t \in Threads, NEW h \in Thread
  PROVE  Paid(t, h) \in Nat
  BY BridgeAssumption DEF Paid, Count, Thread

\* A step that moves one thread to a record that fits keeps the invariant.
LEMMA MoveKeeps ==
  ASSUME BridgeInv, NEW t \in Threads, NEW h, NEW n \in {0, 1},
         thread[t].pc \notin Resting,
         Fits(t, h, n), Is(t, h),
         sent' = [sent EXCEPT ![t[1]] = @ + n],
         UNCHANGED <<seen, active, session, concluded, after, restarts>>
  PROVE  BridgeInv'
<1>1. TypeOK'
  BY ThreadsArePairs DEF BridgeInv, TypeOK, Fits, Is
<1>2. thread'[t] = h /\ \A u \in Threads \ {t} : thread'[u] = thread[u]
  BY DEF BridgeInv, TypeOK, Is
<1>3. ASSUME NEW u \in Threads
      PROVE  ThreadOK(u, thread[u])' /\ OvertakenOK(u)'
  <2>1. ThreadOK(u, thread[u]) /\ OvertakenOK(u)
    BY DEF BridgeInv
  <2>2. CASE u = t
    BY <1>2, <2>1, <2>2 DEF Fits, ThreadOK, ResultOK, Heading, OvertakenOK, Stale
  <2>3. CASE u # t
    BY <1>2, <2>1, <2>3 DEF ThreadOK, ResultOK, Heading, OvertakenOK, Stale
  <2>4. QED BY <2>2, <2>3
<1>4. ASSUME NEW m \in Tasks PROVE MessageOK(m)'
  <2> DEFINE main == <<m, "main">>
             late == <<m, "late">>
  <2>1. main \in Threads /\ late \in Threads /\ main # late
    BY DEF Threads
  <2>2. /\ thread[late].pc # "idle" => Leaving(thread[main])
        /\ m \in concluded =>
             m \in seen /\ Leaving(thread[main]) /\ Leaving(thread[late])
        /\ after[m] \subseteq {"media", "handover"}
        /\ sent[m] <= Paid(main, thread[main]) + Paid(late, thread[late])
    BY DEF BridgeInv, MessageOK
  <2>3. sent[m] \in Nat /\ thread[main] \in Thread /\ thread[late] \in Thread
    BY <2>1 DEF BridgeInv, TypeOK
  <2>4. Paid(main, thread[main]) \in Nat /\ Paid(late, thread[late]) \in Nat
    BY <2>1, <2>3, PaidIsNat
  <2>5. CASE t[1] # m
    <3>1. thread'[main] = thread[main] /\ thread'[late] = thread[late] /\ sent'[m] = sent[m]
      BY <1>2, <2>1, <2>5, ThreadsArePairs DEF BridgeInv, TypeOK
    <3>2. QED
      BY <2>2, <3>1 DEF MessageOK, Leaving, Paid, Heading
  <2>6. CASE t = main
    <3>1. thread'[main] = h /\ thread'[late] = thread[late] /\ sent'[m] = sent[m] + n
      BY <1>2, <2>1, <2>6 DEF BridgeInv, TypeOK
    <3>2. Paid(main, h) \in Nat /\ Paid(main, h) >= Paid(main, thread[main]) + n
      BY <2>1, <2>6, PaidIsNat DEF Fits
    <3>3. sent'[m] <= Paid(main, h) + Paid(late, thread[late])
      BY <2>2, <2>3, <2>4, <3>1, <3>2
    <3>4. Leaving(thread[main]) => Leaving(h)
      BY <2>6 DEF Fits
    <3>5. QED
      BY <2>2, <3>1, <3>3, <3>4 DEF MessageOK, Leaving, Paid, Heading
  <2>7. CASE t = late
    <3>1. thread'[late] = h /\ thread'[main] = thread[main] /\ sent'[m] = sent[m] + n
      BY <1>2, <2>1, <2>7 DEF BridgeInv, TypeOK
    <3>2. Paid(late, h) \in Nat /\ Paid(late, h) >= Paid(late, thread[late]) + n
      BY <2>1, <2>7, PaidIsNat DEF Fits
    <3>3. sent'[m] <= Paid(main, thread[main]) + Paid(late, h)
      BY <2>2, <2>3, <2>4, <3>1, <3>2
    <3>4. Leaving(thread[late]) => Leaving(h)
      BY <2>7 DEF Fits
    <3>5. thread[late].pc # "idle"
      BY <2>7 DEF Resting
    <3>6. QED
      BY <2>2, <3>1, <3>3, <3>4, <3>5 DEF MessageOK, Leaving, Paid, Heading
  <2>8. QED BY <2>5, <2>6, <2>7, ThreadsArePairs
<1>5. QED BY <1>1, <1>3, <1>4 DEF BridgeInv

\* The two forms MoveKeeps is used in: a step that sends nothing, and one that
\* sends a command.
LEMMA QuietKeeps ==
  ASSUME BridgeInv, NEW t \in Threads, NEW h,
         thread[t].pc \notin Resting, Fits(t, h, 0), Is(t, h),
         UNCHANGED <<seen, active, session, histories, restarts>>
  PROVE  BridgeInv'
<1>1. sent' = [sent EXCEPT ![t[1]] = @ + 0]
  BY ThreadsArePairs DEF BridgeInv, TypeOK, histories
<1>2. QED BY <1>1, MoveKeeps DEF histories

LEMMA CommandKeeps ==
  ASSUME BridgeInv, NEW t \in Threads, NEW h,
         thread[t].pc \notin Resting, Fits(t, h, 1), Is(t, h), CountCommand(t),
         UNCHANGED <<seen, active, session, concluded, after, restarts>>
  PROVE  BridgeInv'
BY MoveKeeps DEF CountCommand

\* What a step may take for granted of the thread that takes it.
LEMMA ThreadFacts ==
  ASSUME BridgeInv, NEW t \in Threads
  PROVE  /\ thread[t] \in Thread
         /\ ThreadOK(t, thread[t]) /\ ResultOK(thread[t])
         /\ t[2] \in {"main", "late"}
         /\ session \in Session /\ session \in Signatures
BY DEF BridgeInv, TypeOK, Threads, ThreadOK, Session, Signatures

LEMMA SnapshotFacts ==
  ASSUME BridgeInv, NEW s \in Snapshots
  PROVE  /\ s \in Signatures /\ s.leader.reply \in 0..MaxReplies
         /\ SnapshotErrors = {} => s = session
<1>1. session \in [leader: Leader, rest: Rests]
  BY DEF BridgeInv, TypeOK, Session
<1>2. s \in [leader: Leader \cup {BrokenLeader}, rest: Rests \cup {Broken}]
  BY <1>1 DEF Snapshots
<1>3. \A l \in Leader \cup {BrokenLeader} : l.reply \in 0..MaxReplies
  BY BridgeAssumption DEF Leader, BrokenLeader
<1>4. SnapshotErrors = {} => s = session
  BY <1>1 DEF Snapshots
<1>5. QED BY <1>2, <1>3, <1>4 DEF Signatures

LEMMA LabelsExist ==
  /\ {"say", "send", "baseline", "dispatch", "pane", "follow", "loop", "look", "settle",
      "stuck", "again", "describe", "resume", "report", "media", "handover"} \subseteq Labels
  /\ Resting \subseteq Labels
  /\ {"progress", "failure", "wait", "handover", "media", "final", "settled"} \subseteq Replies
  /\ Unknown \in Signatures
BY DEF Labels, Resting, Replies, Conclusions, Signatures

LEMMA SayingFacts ==
  ASSUME NEW g \in Thread, NEW what \in Replies, NEW next \in Labels
  PROVE  LET h == Saying(g, what, next)
         IN /\ h \in Thread
            /\ h.pc = "say" /\ h.reply = what /\ h.then = next
            /\ h.baseline = g.baseline /\ h.still = g.still
            /\ h.latest = g.latest /\ h.answer = g.answer
            /\ h.attempts = g.attempts /\ h.escalated = g.escalated
            /\ h.described = g.described /\ h.overtaken = g.overtaken
<1>1. Saying(g, what, next) \in Thread
  BY LabelsExist DEF Saying, Thread
<1>2. QED BY <1>1 DEF Saying, Thread

\* Replying first and then going on fits if going on at once does.
LEMMA SayingFits ==
  ASSUME BridgeInv, NEW t \in Threads, NEW g \in Thread,
         NEW what \in Replies, NEW next \in Labels \ {"idle", "say", "send"}, NEW n \in {0, 1},
         Fits(t, [g EXCEPT !.pc = next], n),
         what \in Conclusions => next \in {"over", "media"},
         Leaving(thread[t]) => what = "media" /\ next = "over"
  PROVE  Fits(t, Saying(g, what, next), n)
<1> DEFINE h == Saying(g, what, next)
           k == [g EXCEPT !.pc = next]
<1>1. /\ h \in Thread
      /\ h.pc = "say" /\ h.reply = what /\ h.then = next
      /\ h.baseline = g.baseline /\ h.latest = g.latest
      /\ h.still = g.still /\ h.answer = g.answer
      /\ h.attempts = g.attempts /\ h.escalated = g.escalated
      /\ h.described = g.described /\ h.overtaken = g.overtaken
  BY SayingFacts
<1>2. /\ k.pc = next
      /\ k.baseline = g.baseline /\ k.latest = g.latest
      /\ k.still = g.still /\ k.answer = g.answer
      /\ k.attempts = g.attempts /\ k.escalated = g.escalated
      /\ k.described = g.described /\ k.overtaken = g.overtaken
  BY DEF Thread
<1>3. Fits(t, k, n)
  OBVIOUS
<1> HIDE DEF h, k
<1>4. Heading(h) = Heading(k)
  BY <1>1, <1>2 DEF Heading
<1>5. ThreadOK(t, h)
  BY <1>1, <1>2, <1>3, <1>4 DEF Fits, ThreadOK, ResultOK
<1>6. Paid(t, h) = Paid(t, k)
  BY <1>1, <1>2, <1>4 DEF Paid
<1>7. Leaving(thread[t]) => Leaving(h)
  BY <1>1 DEF Leaving
<1>8. Fits(t, h, n)
  BY <1>1, <1>2, <1>3, <1>5, <1>6, <1>7 DEF Fits
<1>9. QED BY <1>8 DEF h

\* In the middle of waiting a thread may go on to any record that knows what it must
\* of the session and counts what it sends.
LEMMA AdvanceFits ==
  ASSUME BridgeInv, NEW t \in Threads, NEW h \in Thread, NEW n \in {0, 1},
         thread[t].pc \notin Resting \cup {"say", "send", "media", "baseline", "dispatch",
                                          "describe"},
         h.pc \notin {"idle", "say", "send", "baseline", "dispatch", "describe"},
         h.pc = "handover" => t[2] = "main",
         h.then = thread[t].then,
         h.described = thread[t].described, h.overtaken = thread[t].overtaken,
         h.attempts + Count(h.escalated)
           >= thread[t].attempts + Count(thread[t].escalated) + n,
         ResultOK(h)
  PROVE  Fits(t, h, n)
<1> DEFINE g == thread[t]
<1>1. g \in Thread /\ ThreadOK(t, g)
  BY ThreadFacts
<1>2. Heading(h) = h.pc /\ Heading(g) = g.pc
  BY DEF Heading
<1>3. ThreadOK(t, h)
  BY <1>1, <1>2 DEF ThreadOK, Resting
<1>4. ~Leaving(g)
  BY DEF Leaving
<1>5. /\ h.attempts \in Nat /\ g.attempts \in Nat
      /\ Count(h.escalated) \in Nat /\ Count(g.escalated) \in Nat
  BY <1>1, BridgeAssumption DEF Thread, Count
<1>6. /\ Count(h.described /\ Heading(h) # "describe")
           = Count(g.described /\ Heading(g) # "describe")
      /\ Count(t[2] = "main" /\ Heading(h) \notin {"idle", "baseline", "dispatch"})
           = Count(t[2] = "main" /\ Heading(g) \notin {"idle", "baseline", "dispatch"})
  BY <1>2 DEF Resting
<1>7. /\ Count(g.described /\ Heading(g) # "describe") \in Nat
      /\ Count(t[2] = "main" /\ Heading(g) \notin {"idle", "baseline", "dispatch"}) \in Nat
  BY DEF Count
<1>8. Paid(t, h) >= Paid(t, g) + n
  BY <1>5, <1>6, <1>7 DEF Paid
<1>9. QED BY <1>3, <1>4, <1>8 DEF Fits

\* As long as its baseline is still what the session shows, a thread sees nothing else.
LEMMA StillFacts ==
  ASSUME BridgeInv, NEW t \in Threads, thread[t].pc \notin {"say", "send"},
         NEW s \in Snapshots, SnapshotErrors = {}, thread[t].still
  PROVE  /\ s = thread[t].latest /\ s = thread[t].baseline
         /\ thread[t].answer = 0
         /\ thread[t].pc \notin {"settle", "stuck", "again"}
<1>1. s = session /\ ResultOK(thread[t])
  BY SnapshotFacts, ThreadFacts
<1>2. Heading(thread[t]) = thread[t].pc
  BY DEF Heading
<1>3. QED BY <1>1, <1>2 DEF ResultOK

\* Going from label to label, in the middle of waiting.
LEMMA GotoFits ==
  ASSUME BridgeInv, NEW t \in Threads,
         NEW l \in Labels \ {"idle", "say", "send", "baseline", "dispatch", "describe"},
         thread[t].pc \notin Resting \cup {"say", "send", "media", "baseline", "dispatch",
                                          "describe"},
         l = "handover" => t[2] = "main",
         l \in {"settle", "stuck", "again"} => thread[t].pc \in {"settle", "stuck", "again"}
  PROVE  Fits(t, [thread[t] EXCEPT !.pc = l], 0)
<1> DEFINE h == [thread[t] EXCEPT !.pc = l]
<1>1. thread[t] \in Thread
  BY ThreadFacts
<1>2. h \in Thread
  BY <1>1 DEF Thread
<1>3. /\ h.pc = l /\ h.then = thread[t].then /\ h.baseline = thread[t].baseline
      /\ h.latest = thread[t].latest
      /\ h.still = thread[t].still /\ h.answer = thread[t].answer
      /\ h.attempts = thread[t].attempts /\ h.escalated = thread[t].escalated
      /\ h.described = thread[t].described /\ h.overtaken = thread[t].overtaken
  BY <1>1 DEF Thread
<1>4. h.attempts \in Nat /\ Count(h.escalated) \in Nat
  BY <1>2, BridgeAssumption DEF Thread, Count
<1>5. ResultOK(h)
  <2>1. Heading(h) = l /\ Heading(thread[t]) = thread[t].pc
    BY <1>3 DEF Heading
  <2>2. QED BY <1>3, <2>1, ThreadFacts DEF ResultOK
<1> HIDE DEF h
<1>6. h.attempts + Count(h.escalated)
        >= thread[t].attempts + Count(thread[t].escalated) + 0
  BY <1>3, <1>4
<1>7. Fits(t, h, 0)
  BY <1>2, <1>3, <1>5, <1>6, AdvanceFits
<1>8. QED BY <1>7 DEF h

\* Going from label to label, or replying first.
LEMMA GotoKeeps ==
  ASSUME BridgeInv, NEW t \in Threads,
         NEW l \in Labels \ {"idle", "say", "send", "baseline", "dispatch", "describe"},
         thread[t].pc \notin Resting \cup {"say", "send", "media", "baseline", "dispatch",
                                          "describe"},
         l = "handover" => t[2] = "main",
         l \in {"settle", "stuck", "again"} => thread[t].pc \in {"settle", "stuck", "again"},
         NEW what \in Replies,
         what \in Conclusions => l \in {"over", "media"},
         Goto(t, l) \/ Say(t, what, l),
         UNCHANGED <<seen, active, session, histories, restarts>>
  PROVE  BridgeInv'
<1>1. thread[t] \in Thread /\ ~Leaving(thread[t])
  BY ThreadFacts DEF Leaving
<1>2. Fits(t, [thread[t] EXCEPT !.pc = l], 0)
  BY GotoFits
<1>3. Fits(t, Saying(thread[t], what, l), 0)
  BY <1>1, <1>2, SayingFits
<1>4. QED BY <1>2, <1>3, QuietKeeps DEF Goto, Say

\* The same with other fields of the record set besides.
LEMMA UpdateKeeps ==
  ASSUME BridgeInv, NEW t \in Threads, NEW g \in Thread, NEW n \in {0, 1},
         NEW l \in Labels \ {"idle", "say", "send", "baseline", "dispatch", "describe",
                             "handover"},
         NEW what \in Replies \ Conclusions,
         thread[t].pc \notin Resting \cup {"say", "send", "media", "baseline", "dispatch",
                                          "describe"},
         g.then = thread[t].then,
         g.described = thread[t].described, g.overtaken = thread[t].overtaken,
         g.attempts + Count(g.escalated)
           >= thread[t].attempts + Count(thread[t].escalated) + n,
         ResultOK([g EXCEPT !.pc = l]),
         Is(t, [g EXCEPT !.pc = l]) \/ Is(t, Saying(g, what, l)),
         sent' = IF n = 1 THEN [sent EXCEPT ![t[1]] = @ + 1] ELSE sent,
         UNCHANGED <<seen, active, session, concluded, after, restarts>>
  PROVE  BridgeInv'
<1> DEFINE h == [g EXCEPT !.pc = l]
<1>1. thread[t] \in Thread /\ ~Leaving(thread[t])
  BY ThreadFacts DEF Leaving
<1>2. h \in Thread
  BY DEF Thread
<1>3. /\ h.pc = l /\ h.then = g.then
      /\ h.attempts = g.attempts /\ h.escalated = g.escalated
      /\ h.described = g.described /\ h.overtaken = g.overtaken
  BY DEF Thread
<1>4. ResultOK(h)
  OBVIOUS
<1> HIDE DEF h
<1>5. Fits(t, h, n)
  BY <1>2, <1>3, <1>4, AdvanceFits
<1>6. Fits(t, Saying(g, what, l), n)
  BY <1>1, <1>5, SayingFits DEF h
<1>7. sent' = [sent EXCEPT ![t[1]] = @ + n]
  <2>1. sent \in [Tasks -> Nat] /\ t[1] \in Tasks
    BY ThreadsArePairs DEF BridgeInv, TypeOK
  <2>2. CASE n = 0
    BY <2>1, <2>2
  <2>3. CASE n = 1
    BY <2>3
  <2>4. QED BY <2>2, <2>3
<1>8. QED BY <1>5, <1>6, <1>7, MoveKeeps DEF h

\* And for steps that leave what is sent and counted alone.
LEMMA SeeKeeps ==
  ASSUME BridgeInv, NEW t \in Threads, NEW g \in Thread,
         NEW l \in Labels \ {"idle", "say", "send", "baseline", "dispatch", "describe",
                             "handover"},
         thread[t].pc \notin Resting \cup {"say", "send", "media", "baseline", "dispatch",
                                          "describe"},
         g.then = thread[t].then,
         g.described = thread[t].described, g.overtaken = thread[t].overtaken,
         g.attempts = thread[t].attempts, g.escalated = thread[t].escalated,
         ResultOK([g EXCEPT !.pc = l]),
         Is(t, [g EXCEPT !.pc = l]) \/ Is(t, Saying(g, "progress", l)),
         UNCHANGED <<seen, active, session, histories, restarts>>
  PROVE  BridgeInv'
<1>1. g.attempts \in Nat /\ Count(g.escalated) \in Nat
  BY BridgeAssumption DEF Thread, Count
<1>2. g.attempts + Count(g.escalated)
        >= thread[t].attempts + Count(thread[t].escalated) + 0
  BY <1>1
<1>3. "progress" \in Replies \ Conclusions
  BY DEF Replies, Conclusions
<1>4. QED BY <1>2, <1>3, UpdateKeeps DEF histories

-----------------------------------------------------------------------------
(***************************************************************************)
(* The ends of threads, and replies.                                       *)
(***************************************************************************)
LEMMA NoThreadFacts ==
  /\ NoThread \in Thread
  /\ Saying(NoThread, "progress", "baseline") \in Thread
  /\ \A t \in Threads : Paid(t, NoThread) = 0
<1>1. NoThread \in Thread
  <2>1. Pushes \in 0..Pushes /\ 0 \in 0..MaxRetries /\ 0 \in 0..MaxReplies
    BY BridgeAssumption
  <2>2. QED BY <2>1, LabelsExist DEF Thread, NoThread, Resting
<1>2. Saying(NoThread, "progress", "baseline") \in Thread
  <2>1. "progress" \in Replies /\ "baseline" \in Labels
    BY LabelsExist
  <2>2. QED BY <1>1, <2>1, SayingFacts
<1>3. \A t \in Threads : Paid(t, NoThread) = 0
  BY DEF Paid, NoThread, Heading, Count
<1>4. QED BY <1>1, <1>2, <1>3

LEMMA EndedFacts ==
  ASSUME NEW g \in Thread
  PROVE  LET h == Ended(g)
         IN /\ h \in Thread /\ h.pc = "over" /\ h.then = "over" /\ h.reply = "progress"
            /\ h.baseline = Unknown /\ ~h.still /\ h.answer = 0
            /\ h.attempts = g.attempts /\ h.escalated = g.escalated
            /\ h.described = g.described /\ h.overtaken = g.overtaken
<1>1. Ended(g) \in Thread
  BY NoThreadFacts, LabelsExist DEF Ended, Thread, NoThread, Resting
<1>2. QED BY <1>1 DEF Ended, Thread, NoThread

\* A thread may end wherever it is: what it has sent stays on its record.
LEMMA EndedFits ==
  ASSUME BridgeInv, NEW t \in Threads, thread[t].pc \notin Resting
  PROVE  Fits(t, Ended(thread[t]), 0)
<1> DEFINE g == thread[t]
           h == Ended(g)
<1>1. g \in Thread /\ ThreadOK(t, g) /\ t[2] \in {"main", "late"}
  BY ThreadFacts
<1>2. /\ h \in Thread /\ h.pc = "over" /\ h.then = "over"
      /\ h.baseline = Unknown /\ ~h.still /\ h.answer = 0
      /\ h.attempts = g.attempts /\ h.escalated = g.escalated
      /\ h.described = g.described /\ h.overtaken = g.overtaken
  BY <1>1, EndedFacts
<1> HIDE DEF h
<1>3. Heading(h) = "over" /\ Leaving(h)
  BY <1>2 DEF Heading, Leaving, Resting
<1>4. ThreadOK(t, h)
  <2>1. ResultOK(h)
    BY <1>2, <1>3 DEF ResultOK
  <2>2. t[1] \in seen /\ (t[2] = "late" => ~h.described)
    BY <1>1, <1>2 DEF ThreadOK, Resting
  <2>3. QED BY <1>2, <1>3, <2>1, <2>2 DEF ThreadOK
<1>5. Paid(t, h) >= Paid(t, g) + 0
  <2>1. /\ g.attempts \in Nat /\ Count(g.escalated) \in Nat
    BY <1>1, BridgeAssumption DEF Thread, Count
  <2>2. Count(h.described /\ Heading(h) # "describe")
          >= Count(g.described /\ Heading(g) # "describe")
    BY <1>2, <1>3 DEF Count
  <2>3. Count(t[2] = "main" /\ Heading(h) \notin {"idle", "baseline", "dispatch"})
          >= Count(t[2] = "main" /\ Heading(g) \notin {"idle", "baseline", "dispatch"})
    BY <1>3 DEF Count
  <2>4. /\ Count(h.described /\ Heading(h) # "describe") \in Nat
        /\ Count(g.described /\ Heading(g) # "describe") \in Nat
        /\ Count(t[2] = "main" /\ Heading(h) \notin {"idle", "baseline", "dispatch"}) \in Nat
        /\ Count(t[2] = "main" /\ Heading(g) \notin {"idle", "baseline", "dispatch"}) \in Nat
    BY DEF Count
  <2>5. QED BY <1>2, <2>1, <2>2, <2>3, <2>4 DEF Paid
<1>6. Fits(t, h, 0)
  BY <1>2, <1>3, <1>4, <1>5 DEF Fits
<1>7. QED BY <1>6 DEF h

\* A thread that has replied, or need not, goes on as it was about to.
LEMMA SaidFits ==
  ASSUME BridgeInv, NEW t \in Threads, thread[t].pc \in {"say", "send"}
  PROVE  /\ Fits(t, Said(thread[t]), 0)
         /\ Said(thread[t]).pc = thread[t].then
<1> DEFINE g == thread[t]
           h == Said(g)
<1>1. g \in Thread /\ ThreadOK(t, g) /\ ResultOK(g)
  BY ThreadFacts
<1>2. CASE g.then = "over"
  <2>1. h = Ended(g)
    BY <1>2 DEF Said
  <2>2. h.pc = "over"
    BY <1>1, <2>1, EndedFacts
  <2>3. QED BY <1>2, <2>1, <2>2, EndedFits DEF Resting
<1>3. CASE g.then # "over"
  <2>1. h = [g EXCEPT !.pc = g.then, !.reply = NoThread.reply, !.then = NoThread.then]
    BY <1>3 DEF Said
  <2>2. g.then \in Labels /\ NoThread.reply \in Replies /\ NoThread.then = "over"
    BY <1>1, LabelsExist DEF Thread, NoThread
  <2>3. /\ h \in Thread /\ h.pc = g.then /\ h.then = "over"
        /\ h.baseline = g.baseline /\ h.latest = g.latest
        /\ h.still = g.still /\ h.answer = g.answer
        /\ h.attempts = g.attempts /\ h.escalated = g.escalated
        /\ h.described = g.described /\ h.overtaken = g.overtaken
    BY <1>1, <2>1, <2>2, LabelsExist DEF Thread, Resting
  <2> HIDE DEF h
  <2>4. g.then \notin {"idle", "say", "send"} /\ Heading(h) = g.then /\ Heading(g) = g.then
    BY <1>1, <2>3 DEF ThreadOK, Heading
  <2>5. ThreadOK(t, h)
    <3>1. ResultOK(h)
      BY <1>1, <2>3, <2>4 DEF ResultOK
    <3>2. QED BY <1>1, <2>3, <2>4, <3>1 DEF ThreadOK
  <2>6. Paid(t, h) = Paid(t, g) /\ Paid(t, h) \in Nat
    BY <2>3, <2>4, PaidIsNat DEF Paid
  <2>7. ~Leaving(g)
    BY <1>3 DEF Leaving, Resting
  <2>8. Fits(t, h, 0)
    BY <2>3, <2>4, <2>5, <2>6, <2>7 DEF Fits
  <2>9. QED BY <2>3, <2>8 DEF h
<1>4. QED BY <1>2, <1>3

LEMMA CheckReplyKeeps ==
  ASSUME BridgeInv, NEW t \in Threads, CheckReply(t)
  PROVE  BridgeInv'
<1>1. thread[t].pc = "say"
  BY DEF CheckReply, At
<1>2. CASE Stale(t)
  BY <1>1, <1>2, SaidFits, QuietKeeps DEF CheckReply, Resting
<1>3. CASE ~Stale(t)
  <2> DEFINE h == [thread[t] EXCEPT !.pc = "send"]
  <2>1. Fits(t, h, 0)
    BY <1>1, <1>3, ThreadFacts, BridgeAssumption
    DEF Fits, Thread, ThreadOK, ResultOK, Heading, Leaving, Paid, Count,
        Resting, Labels, Conclusions
  <2>2. QED BY <1>1, <1>3, <2>1, QuietKeeps DEF CheckReply, Resting
<1>4. QED BY <1>2, <1>3

LEMMA GiveUpReplyKeeps ==
  ASSUME BridgeInv, NEW t \in Threads, GiveUpReply(t)
  PROVE  BridgeInv'
BY SaidFits, QuietKeeps DEF GiveUpReply, At, Resting

-----------------------------------------------------------------------------
(***************************************************************************)
(* Dispatching.                                                            *)
(***************************************************************************)
LEMMA ReadBaselineKeeps ==
  ASSUME BridgeInv, NEW t \in Threads, ReadBaseline(t)
  PROVE  BridgeInv'
<1>1. PICK s \in Snapshots \cup {Unknown} :
        Is(t, [thread[t] EXCEPT !.pc = "dispatch", !.baseline = s, !.latest = s,
                                !.still = s = session])
  BY DEF ReadBaseline
<1> DEFINE h == [thread[t] EXCEPT !.pc = "dispatch", !.baseline = s, !.latest = s,
                                  !.still = s = session]
<1>2. s \in Signatures /\ (SnapshotErrors = {} => s \in {session, Unknown})
  BY <1>1, SnapshotFacts, LabelsExist
<1>3. thread[t] \in Thread /\ ThreadOK(t, thread[t]) /\ thread[t].pc = "baseline"
  BY ThreadFacts DEF ReadBaseline, At
<1>4. h \in Thread
  BY <1>2, <1>3, LabelsExist DEF Thread
<1>5. /\ h.pc = "dispatch" /\ h.then = thread[t].then
      /\ h.baseline = s /\ h.latest = s /\ h.still = (s = session)
      /\ h.answer = thread[t].answer
      /\ h.attempts = thread[t].attempts /\ h.escalated = thread[t].escalated
      /\ h.described = thread[t].described /\ h.overtaken = thread[t].overtaken
  BY <1>3 DEF Thread
<1> HIDE DEF h
<1>6. Heading(h) = "dispatch" /\ Heading(thread[t]) = "baseline"
  BY <1>3, <1>5 DEF Heading
<1>7. ThreadOK(t, h)
  <2>1. ResultOK(h)
    BY <1>2, <1>5, <1>6, ThreadFacts DEF ResultOK
  <2>2. QED BY <1>3, <1>5, <1>6, <2>1 DEF ThreadOK
<1>8. Paid(t, h) = Paid(t, thread[t]) /\ Paid(t, h) \in Nat
  BY <1>4, <1>5, <1>6, PaidIsNat DEF Paid
<1>9. Fits(t, h, 0)
  BY <1>3, <1>4, <1>5, <1>7, <1>8 DEF Fits, Leaving, Resting
<1>10. QED BY <1>1, <1>3, <1>9, QuietKeeps DEF ReadBaseline, Resting, h

LEMMA DispatchKeeps ==
  ASSUME BridgeInv, NEW t \in Threads, Dispatch(t)
  PROVE  BridgeInv'
<1>1. PICK count \in 0..Pushes, what \in {"progress", "failure"},
           next \in {"follow", "pane", "over"} :
        Is(t, Saying([thread[t] EXCEPT !.pushes = count], what, next))
  BY DEF Dispatch
<1> DEFINE g == [thread[t] EXCEPT !.pushes = count]
           h == Saying(g, what, next)
<1>2. /\ what \in Replies \ Conclusions
      /\ next \in Labels \ {"idle", "say", "send", "baseline", "dispatch", "describe"}
  BY <1>1, LabelsExist DEF Resting, Conclusions
<1>3. thread[t] \in Thread /\ ThreadOK(t, thread[t]) /\ thread[t].pc = "dispatch"
  BY ThreadFacts DEF Dispatch, At
<1>4. /\ h \in Thread
      /\ h.pc = "say" /\ h.reply = what /\ h.then = next
      /\ h.attempts = thread[t].attempts /\ h.escalated = thread[t].escalated
      /\ h.described = thread[t].described /\ h.overtaken = thread[t].overtaken
      /\ h.baseline = thread[t].baseline /\ h.latest = thread[t].latest
      /\ h.still = thread[t].still /\ h.answer = thread[t].answer
  <2>1. g \in Thread
    BY <1>3 DEF Thread
  <2>2. /\ g.attempts = thread[t].attempts /\ g.escalated = thread[t].escalated
        /\ g.described = thread[t].described /\ g.overtaken = thread[t].overtaken
        /\ g.baseline = thread[t].baseline /\ g.latest = thread[t].latest
        /\ g.still = thread[t].still /\ g.answer = thread[t].answer
    BY <1>3 DEF Thread
  <2> HIDE DEF g
  <2> QED BY <1>2, <2>1, <2>2, SayingFacts
<1> HIDE DEF h
<1>5. Heading(h) = next /\ Heading(thread[t]) = "dispatch"
  BY <1>3, <1>4 DEF Heading
<1>6. t[2] = "main"
  BY <1>3, <1>5, ThreadFacts DEF ThreadOK
<1>7. ThreadOK(t, h)
  BY <1>1, <1>2, <1>3, <1>4, <1>5, <1>6, ThreadFacts DEF ThreadOK, ResultOK
<1>8. Paid(t, h) >= Paid(t, thread[t]) + 1
  BY <1>1, <1>3, <1>4, <1>5, <1>6, BridgeAssumption DEF Paid, Count, Thread
<1>9. Fits(t, h, 1)
  BY <1>3, <1>4, <1>7, <1>8 DEF Fits, Leaving, Resting
<1>10. QED BY <1>1, <1>3, <1>9, CommandKeeps DEF Dispatch, Resting, g, h

LEMMA DescribeKeeps ==
  ASSUME BridgeInv, NEW t \in Threads, Describe(t)
  PROVE  BridgeInv'
<1>1. PICK next \in {"resume", "report"} : Say(t, "progress", next)
  BY DEF Describe
<1> DEFINE h == Saying(thread[t], "progress", next)
<1>2. /\ "progress" \in Replies \ Conclusions
      /\ next \in Labels \ {"idle", "say", "send", "baseline", "dispatch", "describe"}
  BY <1>1, LabelsExist DEF Conclusions
<1>3. thread[t] \in Thread /\ ThreadOK(t, thread[t]) /\ thread[t].pc = "describe"
  BY ThreadFacts DEF Describe, At
<1>4. /\ h \in Thread
      /\ h.pc = "say" /\ h.reply = "progress" /\ h.then = next
      /\ h.attempts = thread[t].attempts /\ h.escalated = thread[t].escalated
      /\ h.described = thread[t].described /\ h.overtaken = thread[t].overtaken
      /\ h.baseline = thread[t].baseline /\ h.latest = thread[t].latest
      /\ h.still = thread[t].still /\ h.answer = thread[t].answer
  BY <1>2, <1>3, SayingFacts
<1> HIDE DEF h
<1>5. Heading(h) = next /\ Heading(thread[t]) = "describe"
  BY <1>3, <1>4 DEF Heading
<1>6. t[2] = "main" /\ thread[t].described
  BY <1>3, <1>5, ThreadFacts DEF ThreadOK
<1>7. ThreadOK(t, h)
  BY <1>1, <1>2, <1>3, <1>4, <1>5, <1>6, ThreadFacts DEF ThreadOK, ResultOK
<1>8. Paid(t, h) >= Paid(t, thread[t]) + 1
  BY <1>1, <1>3, <1>4, <1>5, <1>6, BridgeAssumption DEF Paid, Count, Thread
<1>9. Fits(t, h, 1)
  BY <1>3, <1>4, <1>7, <1>8 DEF Fits, Leaving, Resting
<1>10. QED BY <1>1, <1>3, <1>9, CommandKeeps DEF Describe, Say, Resting, h

LEMMA FollowKeeps ==
  ASSUME BridgeInv, NEW t \in Threads, Follow(t)
  PROVE  BridgeInv'
<1> DEFINE g == [thread[t] EXCEPT !.pushes = @ - 1]
<1>1. thread[t] \in Thread /\ thread[t].pc = "follow" /\ thread[t].pushes > 0
  BY ThreadFacts DEF Follow, At
<1>2. g \in Thread /\ "follow" \in Labels
  BY <1>1, BridgeAssumption, LabelsExist DEF Thread
<1>3. /\ g.pc = "follow" /\ g.then = thread[t].then
      /\ g.attempts = thread[t].attempts /\ g.escalated = thread[t].escalated
      /\ g.described = thread[t].described /\ g.overtaken = thread[t].overtaken
      /\ g.baseline = thread[t].baseline /\ g.latest = thread[t].latest
      /\ g.still = thread[t].still /\ g.answer = thread[t].answer
  BY <1>1 DEF Thread
<1>4. CASE Is(t, g)
  <2>1. [g EXCEPT !.pc = "follow"] = g
    BY <1>2, <1>3 DEF Thread
  <2>2. ResultOK(g)
    BY <1>1, <1>3, ThreadFacts DEF ResultOK, Heading
  <2>3. QED
    BY <1>1, <1>2, <1>3, <1>4, <2>1, <2>2, SeeKeeps DEF Follow, Resting
<1>5. CASE \E s \in Snapshots :
             /\ s # g.latest
             /\ Is(t, Saying([g EXCEPT !.latest = s], "progress", "follow"))
  <2>1. PICK s \in Snapshots :
          /\ s # g.latest
          /\ Is(t, Saying([g EXCEPT !.latest = s], "progress", "follow"))
    BY <1>5
  <2> DEFINE k == [g EXCEPT !.latest = s]
  <2>2. k \in Thread
    BY <1>2, SnapshotFacts DEF Thread
  <2>3. /\ k.then = thread[t].then
        /\ k.attempts = thread[t].attempts /\ k.escalated = thread[t].escalated
        /\ k.described = thread[t].described /\ k.overtaken = thread[t].overtaken
        /\ k.baseline = thread[t].baseline /\ k.latest = s
        /\ k.still = thread[t].still /\ k.answer = thread[t].answer
    BY <1>2, <1>3 DEF Thread
  <2>4. ResultOK([k EXCEPT !.pc = "follow"])
    <3>1. SnapshotErrors = {} => ~thread[t].still
      BY <1>1, <1>3, <2>1, StillFacts
    <3>2. QED BY <1>1, <2>2, <2>3, <3>1, ThreadFacts DEF ResultOK, Heading, Thread
  <2> HIDE DEF k, g
  <2>5. Is(t, Saying(k, "progress", "follow"))
    BY <2>1 DEF k
  <2>6. QED
    BY <1>1, <1>2, <2>2, <2>3, <2>4, <2>5, SeeKeeps DEF Follow, Resting
<1>6. QED BY <1>4, <1>5 DEF Follow

-----------------------------------------------------------------------------
(***************************************************************************)
(* Looking at the session.                                                 *)
(***************************************************************************)

\* The record of a thread that has seen snapshot s, whatever else it notes.
LEMMA SeenFacts ==
  ASSUME BridgeInv, NEW t \in Threads, NEW s \in Snapshots
  PROVE  LET k == [thread[t] EXCEPT !.latest = s]
         IN /\ k \in Thread
            /\ k.latest = s
            /\ k.pc = thread[t].pc /\ k.then = thread[t].then
            /\ k.attempts = thread[t].attempts /\ k.escalated = thread[t].escalated
            /\ k.described = thread[t].described /\ k.overtaken = thread[t].overtaken
            /\ k.baseline = thread[t].baseline
            /\ k.still = thread[t].still /\ k.answer = thread[t].answer
<1>1. thread[t] \in Thread /\ s \in Signatures
  BY ThreadFacts, SnapshotFacts
<1>2. QED BY <1>1 DEF Thread

\* Having seen s, a thread knows what it must wherever it goes on waiting, and
\* before a retry if s was new to it.
LEMMA SeeingKnows ==
  ASSUME BridgeInv, NEW t \in Threads, NEW s \in Snapshots,
         thread[t].pc \notin {"say", "send"},
         NEW l \in Labels \ {"say", "send", "baseline"},
         l \in {"settle", "stuck", "again"} => s # thread[t].latest
  PROVE  ResultOK([[thread[t] EXCEPT !.latest = s] EXCEPT !.pc = l])
<1> DEFINE k == [thread[t] EXCEPT !.latest = s]
           h == [k EXCEPT !.pc = l]
<1>1. /\ k \in Thread /\ k.latest = s
      /\ k.baseline = thread[t].baseline
      /\ k.still = thread[t].still /\ k.answer = thread[t].answer
  BY SeenFacts
<1> HIDE DEF k
<1>2. /\ h.pc = l /\ h.latest = s
      /\ h.baseline = thread[t].baseline
      /\ h.still = thread[t].still /\ h.answer = thread[t].answer
  BY <1>1 DEF Thread
<1> HIDE DEF h
<1>3. Heading(h) = l
  BY <1>2 DEF Heading
<1>4. SnapshotErrors = {} => s = session
  BY SnapshotFacts
<1>5. SnapshotErrors = {} /\ thread[t].still =>
        /\ s = thread[t].baseline /\ thread[t].answer = 0
        /\ l \notin {"settle", "stuck", "again"}
  BY StillFacts
<1>6. ResultOK(h)
  BY <1>2, <1>3, <1>4, <1>5, ThreadFacts DEF ResultOK
<1>7. QED BY <1>6 DEF h, k

LEMMA LookInVainKeeps ==
  ASSUME BridgeInv, NEW t \in Threads, LookInVain(t)
  PROVE  BridgeInv'
<1>1. thread[t].pc = "look" /\ {"loop"} \subseteq Labels
  BY LabelsExist DEF LookInVain, At
<1>2. CASE Goto(t, "loop")
  BY <1>1, <1>2, GotoKeeps, LabelsExist DEF LookInVain, Resting, Conclusions
<1>3. CASE \E s \in Snapshots : Is(t, [thread[t] EXCEPT !.pc = "loop", !.latest = s])
  <2>1. PICK s \in Snapshots : Is(t, [thread[t] EXCEPT !.pc = "loop", !.latest = s])
    BY <1>3
  <2> DEFINE k == [thread[t] EXCEPT !.latest = s]
  <2>2. [thread[t] EXCEPT !.pc = "loop", !.latest = s] = [k EXCEPT !.pc = "loop"]
    BY ThreadFacts DEF Thread
  <2>3. ResultOK([k EXCEPT !.pc = "loop"])
    BY <1>1, SeeingKnows
  <2>4. /\ k \in Thread
        /\ k.then = thread[t].then
        /\ k.attempts = thread[t].attempts /\ k.escalated = thread[t].escalated
        /\ k.described = thread[t].described /\ k.overtaken = thread[t].overtaken
    BY SeenFacts
  <2> HIDE DEF k
  <2>5. QED
    BY <1>1, <2>1, <2>2, <2>3, <2>4, SeeKeeps DEF LookInVain, Resting
<1>4. QED BY <1>2, <1>3 DEF LookInVain

LEMMA SeeProgressKeeps ==
  ASSUME BridgeInv, NEW t \in Threads, SeeProgress(t)
  PROVE  BridgeInv'
<1>1. thread[t].pc = "look" /\ {"loop"} \subseteq Labels
  BY LabelsExist DEF SeeProgress, At
<1>2. PICK s \in Snapshots :
        LET h == [thread[t] EXCEPT !.latest = s]
        IN Is(t, [h EXCEPT !.pc = "loop"]) \/ Is(t, Saying(h, "progress", "loop"))
  BY DEF SeeProgress
<1> DEFINE k == [thread[t] EXCEPT !.latest = s]
<1>3. ResultOK([k EXCEPT !.pc = "loop"])
  BY <1>1, SeeingKnows
<1>4. /\ k \in Thread
      /\ k.then = thread[t].then
      /\ k.attempts = thread[t].attempts /\ k.escalated = thread[t].escalated
      /\ k.described = thread[t].described /\ k.overtaken = thread[t].overtaken
  BY SeenFacts
<1>5. Is(t, [k EXCEPT !.pc = "loop"]) \/ Is(t, Saying(k, "progress", "loop"))
  BY <1>2
<1> HIDE DEF k
<1>6. QED
  BY <1>1, <1>3, <1>4, <1>5, SeeKeeps DEF SeeProgress, Resting

LEMMA SeeWaitingKeeps ==
  ASSUME BridgeInv, NEW t \in Threads, SeeWaiting(t)
  PROVE  BridgeInv'
<1>1. thread[t].pc = "look" /\ {"settle"} \subseteq Labels
  BY LabelsExist DEF SeeWaiting, At
<1>2. PICK s \in Snapshots :
        /\ s # thread[t].latest
        /\ Is(t, [thread[t] EXCEPT !.pc = "settle", !.latest = s])
  BY DEF SeeWaiting, Fresh
<1> DEFINE k == [thread[t] EXCEPT !.latest = s]
<1>3. ResultOK([k EXCEPT !.pc = "settle"])
  BY <1>1, <1>2, SeeingKnows
<1>4. /\ k \in Thread
      /\ k.then = thread[t].then
      /\ k.attempts = thread[t].attempts /\ k.escalated = thread[t].escalated
      /\ k.described = thread[t].described /\ k.overtaken = thread[t].overtaken
  BY SeenFacts
<1>5. Is(t, [k EXCEPT !.pc = "settle"])
  BY <1>2, ThreadFacts DEF Thread
<1> HIDE DEF k
<1>6. QED
  BY <1>1, <1>3, <1>4, <1>5, SeeKeeps DEF SeeWaiting, Resting

LEMMA SeeResultKeeps ==
  ASSUME BridgeInv, NEW t \in Threads, SeeResult(t)
  PROVE  BridgeInv'
<1> DEFINE g(s) == [thread[t] EXCEPT !.latest = s, !.answer = s.leader.reply]
<1>1. thread[t].pc = "look" /\ thread[t] \in Thread /\ ThreadOK(t, thread[t])
  BY ThreadFacts DEF SeeResult, At
<1>2. PICK s \in Snapshots :
        /\ Answers(t, s)
        /\ \/ /\ t[2] = "main" /\ ~thread[t].described
              /\ Is(t, Saying([g(s) EXCEPT !.described = TRUE], "progress", "describe"))
           \/ Is(t, [g(s) EXCEPT !.pc = "report"])
  <2>1. PICK s \in Snapshots :
          /\ Answers(t, s)
          /\ IF Refusal(s) /\ t[2] = "main" /\ Fresh(t, s)
                /\ t[1] \in Images /\ ~g(s).described
             THEN Is(t, Saying([g(s) EXCEPT !.described = TRUE], "progress", "describe"))
             ELSE Is(t, [g(s) EXCEPT !.pc = "report"])
    BY DEF SeeResult
  <2>2. g(s).described = thread[t].described
    BY <1>1 DEF Thread
  <2> HIDE DEF g
  <2>3. QED BY <2>1, <2>2
<1> DEFINE k == g(s)
<1>3. /\ k \in Thread
      /\ k.then = thread[t].then
      /\ k.attempts = thread[t].attempts /\ k.escalated = thread[t].escalated
      /\ k.described = thread[t].described /\ k.overtaken = thread[t].overtaken
      /\ k.baseline = thread[t].baseline /\ k.still = thread[t].still
      /\ k.answer = s.leader.reply
  BY <1>1, SnapshotFacts DEF Thread
<1>4. SnapshotErrors = {} => s = session /\ ~thread[t].still
  BY <1>1, <1>2, SnapshotFacts, StillFacts DEF Answers, Fresh, Changed
<1>5. CASE Is(t, [k EXCEPT !.pc = "report"])
  <2> HIDE DEF k
  <2>1. ResultOK([k EXCEPT !.pc = "report"])
    BY <1>1, <1>3, <1>4, ThreadFacts DEF ResultOK, Heading, Thread
  <2>2. QED
    BY <1>1, <1>3, <1>5, <2>1, SeeKeeps, LabelsExist DEF SeeResult, Resting
<1>6. CASE /\ t[2] = "main" /\ ~thread[t].described
           /\ Is(t, Saying([k EXCEPT !.described = TRUE], "progress", "describe"))
  <2> DEFINE d == [k EXCEPT !.described = TRUE]
             h == [d EXCEPT !.pc = "describe"]
  <2> HIDE DEF k
  <2>1. /\ d \in Thread /\ d.described = TRUE
        /\ d.then = k.then /\ d.attempts = k.attempts /\ d.escalated = k.escalated
        /\ d.overtaken = k.overtaken /\ d.baseline = k.baseline
        /\ d.still = k.still /\ d.answer = k.answer
    BY <1>3 DEF Thread
  <2> HIDE DEF d
  <2>2. /\ h \in Thread /\ h.pc = "describe" /\ h.described = TRUE
        /\ h.then = k.then /\ h.attempts = k.attempts /\ h.escalated = k.escalated
        /\ h.overtaken = k.overtaken /\ h.baseline = k.baseline
        /\ h.still = k.still /\ h.answer = k.answer
    BY <2>1, LabelsExist DEF Thread
  <2> HIDE DEF h
  <2>3. Heading(h) = "describe" /\ Heading(thread[t]) = "look"
    BY <1>1, <2>2 DEF Heading
  <2>4. ThreadOK(t, h)
    <3>1. ResultOK(h)
      BY <1>3, <1>4, <2>2, <2>3, ThreadFacts DEF ResultOK
    <3>2. QED BY <1>1, <1>3, <1>6, <2>2, <2>3, <3>1 DEF ThreadOK
  <2>5. Paid(t, h) = Paid(t, thread[t]) /\ Paid(t, h) \in Nat
    BY <1>3, <1>6, <2>2, <2>3, PaidIsNat DEF Paid
  <2>6. Fits(t, h, 0)
    BY <1>1, <1>3, <2>2, <2>4, <2>5 DEF Fits, Leaving, Resting
  <2>7. ~Leaving(thread[t])
    BY <1>1 DEF Leaving, Resting
  <2>8. Fits(t, Saying(d, "progress", "describe"), 0)
    BY <2>1, <2>6, <2>7, SayingFits, LabelsExist DEF h, Conclusions
  <2>9. QED
    BY <1>1, <1>6, <2>8, QuietKeeps DEF SeeResult, Resting, d
<1>7. QED BY <1>2, <1>5, <1>6

-----------------------------------------------------------------------------
(***************************************************************************)
(* Retries, deadlines and the end of a thread.                             *)
(***************************************************************************)
LEMMA RetryTaskKeeps ==
  ASSUME BridgeInv, NEW t \in Threads, RetryTask(t)
  PROVE  BridgeInv'
<1> DEFINE g == [thread[t] EXCEPT !.cooling = TRUE, !.attempts = @ + 1]
<1>1. /\ thread[t].pc = "settle" /\ thread[t] \in Thread
      /\ thread[t].attempts < MaxRetries
  BY ThreadFacts DEF RetryTask, At, MayRetry
<1>a. thread[t].attempts + 1 \in 0..MaxRetries
  BY <1>1, BridgeAssumption DEF Thread
<1>2. /\ g \in Thread /\ g.attempts = thread[t].attempts + 1
      /\ g.then = thread[t].then /\ g.escalated = thread[t].escalated
      /\ g.described = thread[t].described /\ g.overtaken = thread[t].overtaken
      /\ g.baseline = thread[t].baseline /\ g.latest = thread[t].latest
      /\ g.still = thread[t].still /\ g.answer = thread[t].answer
  BY <1>1, <1>a DEF Thread
<1>3. Is(t, Saying(g, "progress", "again")) \/ Is(t, [g EXCEPT !.pc = "stuck"])
  BY DEF RetryTask
<1> HIDE DEF g
<1>4. ResultOK([g EXCEPT !.pc = "again"]) /\ ResultOK([g EXCEPT !.pc = "stuck"])
  BY <1>1, <1>2, ThreadFacts DEF ResultOK, Heading, Thread
<1>5. Count(g.escalated) \in Nat /\ g.attempts \in Nat /\ thread[t].attempts \in Nat
  BY <1>1, <1>2, BridgeAssumption DEF Count, Thread
<1>6. g.attempts + Count(g.escalated)
        >= thread[t].attempts + Count(thread[t].escalated) + 1
  BY <1>2, <1>5
<1>7. sent' = [sent EXCEPT ![t[1]] = @ + 1]
  BY DEF RetryTask, CountCommand
<1>8. "progress" \in Replies \ Conclusions
  BY DEF Replies, Conclusions
<1>9. CASE Is(t, Saying(g, "progress", "again"))
  BY <1>1, <1>2, <1>4, <1>6, <1>7, <1>8, <1>9, UpdateKeeps, LabelsExist
  DEF RetryTask, Resting
<1>10. CASE Is(t, [g EXCEPT !.pc = "stuck"])
  BY <1>1, <1>2, <1>4, <1>6, <1>7, <1>8, <1>10, UpdateKeeps, LabelsExist
  DEF RetryTask, Resting
<1>11. QED BY <1>3, <1>9, <1>10

LEMMA EscalateKeeps ==
  ASSUME BridgeInv, NEW t \in Threads, Escalate(t)
  PROVE  BridgeInv'
<1> DEFINE g == [thread[t] EXCEPT !.escalated = TRUE]
<1>1. /\ thread[t].pc = "stuck" /\ thread[t] \in Thread
      /\ ~thread[t].escalated
  BY ThreadFacts DEF Escalate, At, MayEscalate
<1>2. /\ g \in Thread /\ g.attempts = thread[t].attempts
      /\ g.pc = "stuck" /\ g.then = thread[t].then /\ g.escalated = TRUE
      /\ g.described = thread[t].described /\ g.overtaken = thread[t].overtaken
      /\ g.baseline = thread[t].baseline /\ g.latest = thread[t].latest
      /\ g.still = thread[t].still /\ g.answer = thread[t].answer
  BY <1>1 DEF Thread
<1>3. g = [g EXCEPT !.pc = "stuck"]
  BY <1>2 DEF Thread
<1>4. Is(t, Saying(g, "progress", "again")) \/ Is(t, [g EXCEPT !.pc = "stuck"])
  BY <1>3 DEF Escalate
<1> HIDE DEF g
<1>5. ResultOK([g EXCEPT !.pc = "again"]) /\ ResultOK([g EXCEPT !.pc = "stuck"])
  BY <1>1, <1>2, ThreadFacts DEF ResultOK, Heading, Thread
<1>6. Count(g.escalated) = 1 /\ Count(thread[t].escalated) = 0 /\ g.attempts \in Nat
  BY <1>1, <1>2, BridgeAssumption DEF Count, Thread
<1>7. g.attempts + Count(g.escalated)
        >= thread[t].attempts + Count(thread[t].escalated) + 1
  BY <1>2, <1>6
<1>8. sent' = [sent EXCEPT ![t[1]] = @ + 1]
  BY DEF Escalate, CountCommand
<1>9. "progress" \in Replies \ Conclusions
  BY DEF Replies, Conclusions
<1>10. CASE Is(t, Saying(g, "progress", "again"))
  BY <1>1, <1>2, <1>5, <1>7, <1>8, <1>9, <1>10, UpdateKeeps, LabelsExist
  DEF Escalate, Resting
<1>11. CASE Is(t, [g EXCEPT !.pc = "stuck"])
  BY <1>1, <1>2, <1>5, <1>7, <1>8, <1>9, <1>11, UpdateKeeps, LabelsExist
  DEF Escalate, Resting
<1>12. QED BY <1>4, <1>10, <1>11

LEMMA StartAgainKeeps ==
  ASSUME BridgeInv, NEW t \in Threads, StartAgain(t)
  PROVE  BridgeInv'
<1> DEFINE late == IF t[2] = "main" THEN FALSE ELSE thread[t].overdue
           g == [thread[t] EXCEPT !.latest = Unknown, !.overdue = late]
<1>1. thread[t].pc = "again" /\ thread[t] \in Thread
  BY ThreadFacts DEF StartAgain, At
<1>2. late \in BOOLEAN
  BY <1>1 DEF Thread
<1> HIDE DEF late
<1>3. /\ g \in Thread /\ g.attempts = thread[t].attempts
      /\ g.then = thread[t].then /\ g.escalated = thread[t].escalated
      /\ g.described = thread[t].described /\ g.overtaken = thread[t].overtaken
      /\ g.baseline = thread[t].baseline
      /\ g.still = thread[t].still /\ g.answer = thread[t].answer
  BY <1>1, <1>2, LabelsExist DEF Thread
<1>4. Is(t, [g EXCEPT !.pc = "loop"])
  BY <1>1 DEF StartAgain, late, Thread
<1> HIDE DEF g
<1>5. ResultOK([g EXCEPT !.pc = "loop"])
  BY <1>1, <1>3, ThreadFacts DEF ResultOK, Heading, Thread
<1>6. QED
  BY <1>1, <1>3, <1>4, <1>5, SeeKeeps, LabelsExist DEF StartAgain, Resting

\* Steps that only set flags of a thread and leave the rest of its record alone.
LEMMA FlagKeeps ==
  ASSUME BridgeInv, NEW t \in Threads,
         NEW overdue \in BOOLEAN, NEW cooling \in BOOLEAN,
         thread[t].pc \in {"loop", "resume"},
         Is(t, [thread[t] EXCEPT !.pc = "loop", !.overdue = overdue, !.cooling = cooling]),
         UNCHANGED <<seen, active, session, histories, restarts>>
  PROVE  BridgeInv'
<1> DEFINE g == [thread[t] EXCEPT !.overdue = overdue, !.cooling = cooling]
<1>1. thread[t] \in Thread
  BY ThreadFacts
<1>2. /\ g \in Thread /\ g.attempts = thread[t].attempts
      /\ g.then = thread[t].then /\ g.escalated = thread[t].escalated
      /\ g.described = thread[t].described /\ g.overtaken = thread[t].overtaken
      /\ g.baseline = thread[t].baseline /\ g.latest = thread[t].latest
      /\ g.still = thread[t].still /\ g.answer = thread[t].answer
  BY <1>1 DEF Thread
<1>3. Is(t, [g EXCEPT !.pc = "loop"])
  BY <1>1 DEF Thread
<1> HIDE DEF g
<1>4. ResultOK([g EXCEPT !.pc = "loop"])
  BY <1>2, ThreadFacts DEF ResultOK, Heading, Thread
<1>5. QED
  BY <1>2, <1>3, <1>4, SeeKeeps, LabelsExist DEF Resting

LEMMA ClockKeeps ==
  ASSUME BridgeInv, NEW t \in Threads, Resume(t) \/ DeadlinePasses(t) \/ CoolsDown(t)
  PROVE  BridgeInv'
<1>1. thread[t] \in Thread
  BY ThreadFacts
<1>2. CASE Resume(t)
  <2>1. [thread[t] EXCEPT !.pc = "loop", !.overdue = FALSE]
          = [thread[t] EXCEPT !.pc = "loop", !.overdue = FALSE, !.cooling = thread[t].cooling]
    BY <1>1 DEF Thread
  <2>2. thread[t].cooling \in BOOLEAN
    BY <1>1 DEF Thread
  <2>3. QED BY <1>2, <2>1, <2>2, FlagKeeps DEF Resume, At
<1>3. CASE DeadlinePasses(t)
  <2>1. [thread[t] EXCEPT !.overdue = TRUE]
          = [thread[t] EXCEPT !.pc = "loop", !.overdue = TRUE, !.cooling = thread[t].cooling]
    BY <1>1, <1>3 DEF Thread, DeadlinePasses, At
  <2>2. thread[t].cooling \in BOOLEAN
    BY <1>1 DEF Thread
  <2>3. QED BY <1>3, <2>1, <2>2, FlagKeeps DEF DeadlinePasses, At
<1>4. CASE CoolsDown(t)
  <2>1. [thread[t] EXCEPT !.cooling = FALSE]
          = [thread[t] EXCEPT !.pc = "loop", !.overdue = thread[t].overdue, !.cooling = FALSE]
    BY <1>1, <1>4 DEF Thread, CoolsDown, At
  <2>2. thread[t].overdue \in BOOLEAN
    BY <1>1 DEF Thread
  <2>3. QED BY <1>4, <2>1, <2>2, FlagKeeps DEF CoolsDown, At
<1>5. QED BY <1>2, <1>3, <1>4

\* The steps that only go from label to label, some of them after a reply.
LEMMA LabelStepsKeep ==
  ASSUME BridgeInv, NEW t \in Threads,
         \/ ReportPane(t) \/ EndFollow(t) \/ Look(t) \/ WaitNoLonger(t)
         \/ Report(t) \/ RetryNoMore(t) \/ DeclareSettled(t)
  PROVE  BridgeInv'
<1> USE LabelsExist DEF Resting, Conclusions, At
<1>1. CASE ReportPane(t)     BY <1>1, GotoKeeps DEF ReportPane
<1>2. CASE EndFollow(t)      BY <1>2, GotoKeeps DEF EndFollow
<1>3. CASE Look(t)           BY <1>3, GotoKeeps DEF Look
<1>4. CASE WaitNoLonger(t)   BY <1>4, GotoKeeps DEF WaitNoLonger
<1>5. CASE Report(t)         BY <1>5, GotoKeeps DEF Report
<1>6. CASE RetryNoMore(t)    BY <1>6, GotoKeeps DEF RetryNoMore
<1>7. CASE DeclareSettled(t) BY <1>7, GotoKeeps DEF DeclareSettled
<1>8. QED
  BY <1>1, <1>2, <1>3, <1>4, <1>5, <1>6, <1>7

\* The late watcher's time is up.
LEMMA WatchExpiresKeeps ==
  ASSUME BridgeInv, NEW t \in Threads, WatchExpires(t)
  PROVE  BridgeInv'
BY EndedFits, QuietKeeps DEF WatchExpires, At, Resting

LEMMA SendMediaKeeps ==
  ASSUME BridgeInv, NEW t \in Threads, SendMedia(t)
  PROVE  BridgeInv'
<1> DEFINE h == [thread[t] EXCEPT !.pc = "over"]
<1>1. thread[t].pc = "media" /\ thread[t] \in Thread /\ ThreadOK(t, thread[t])
  BY ThreadFacts DEF SendMedia, At
<1>2. /\ h \in Thread /\ h.pc = "over" /\ h.then = thread[t].then
      /\ h.attempts = thread[t].attempts /\ h.escalated = thread[t].escalated
      /\ h.described = thread[t].described /\ h.overtaken = thread[t].overtaken
      /\ h.baseline = thread[t].baseline /\ h.latest = thread[t].latest
      /\ h.still = thread[t].still /\ h.answer = thread[t].answer
  BY <1>1, LabelsExist DEF Thread, Resting
<1> HIDE DEF h
<1>3. Heading(h) = "over" /\ Heading(thread[t]) = "media"
  BY <1>1, <1>2 DEF Heading
<1>4. ThreadOK(t, h)
  BY <1>1, <1>2, <1>3 DEF ThreadOK, ResultOK
<1>5. Paid(t, h) = Paid(t, thread[t]) /\ Paid(t, h) \in Nat
  BY <1>2, <1>3, PaidIsNat DEF Paid
<1>6. Fits(t, h, 0)
  BY <1>2, <1>4, <1>5 DEF Fits, Leaving, Resting
<1>7. Fits(t, Saying(thread[t], "media", "over"), 0)
  BY <1>1, <1>6, SayingFits, LabelsExist DEF h, Resting, Conclusions
<1>8. Fits(t, Ended(thread[t]), 0)
  BY <1>1, EndedFits DEF Resting
<1>9. QED
  BY <1>1, <1>7, <1>8, QuietKeeps DEF SendMedia, Say, Resting

-----------------------------------------------------------------------------
(***************************************************************************)
(* Steps that touch more than one thread, or the histories.                *)
(***************************************************************************)

\* A reply that arrives: it may conclude the task, and it may be the one reply
\* that a newer message has overtaken.
LEMMA ReplyArrivesKeeps ==
  ASSUME BridgeInv, NEW t \in Threads, ReplyArrives(t)
  PROVE  BridgeInv'
<1> DEFINE g == thread[t]
           m == t[1]
           count == IF Stale(t) THEN g.overtaken + 1 ELSE g.overtaken
           k == Said(g)
           h == [k EXCEPT !.overtaken = count]
<1>1. /\ g.pc = "send" /\ g \in Thread /\ ThreadOK(t, g) /\ OvertakenOK(t)
      /\ Fits(t, k, 0) /\ k.pc = g.then
  BY ThreadFacts, SaidFits DEF ReplyArrives, At, BridgeInv
<1>2. g.overtaken = 0 /\ count \in {0, 1} /\ (count = 1 => Stale(t))
  <2>1. g.overtaken \in Nat
    BY <1>1 DEF Thread
  <2>2. g.overtaken # 1 /\ g.overtaken <= 1
    BY <1>1 DEF OvertakenOK, Resting
  <2>3. g.overtaken = 0
    BY <2>1, <2>2
  <2>4. QED BY <2>3
<1>3. Is(t, h) /\ UNCHANGED <<seen, active, session, sent, restarts>>
  BY <1>1 DEF ReplyArrives, Fits
<1> HIDE DEF count
<1> HIDE DEF k
<1>4. /\ h \in Thread /\ h.pc = g.then /\ h.then = k.then
      /\ h.reply = k.reply /\ h.overtaken = count
      /\ h.attempts = k.attempts /\ h.escalated = k.escalated /\ h.described = k.described
      /\ h.baseline = k.baseline /\ h.latest = k.latest
      /\ h.still = k.still /\ h.answer = k.answer
  BY <1>1, <1>2 DEF Fits, Thread
<1>5. h.pc \notin {"idle", "say", "send"} /\ Heading(h) = g.then /\ Heading(k) = g.then
  BY <1>1, <1>4 DEF ThreadOK, Heading
<1> HIDE DEF h
<1>6. ThreadOK(t, h)
  <2>1. ThreadOK(t, k) /\ ResultOK(k) /\ t[1] \in seen
    BY <1>1 DEF Fits, ThreadOK
  <2>2. ResultOK(h)
    BY <1>4, <1>5, <2>1 DEF ResultOK
  <2>3. QED BY <1>4, <1>5, <2>1, <2>2 DEF ThreadOK
<1>7. Paid(t, h) >= Paid(t, g) /\ Paid(t, h) \in Nat /\ Paid(t, g) \in Nat
  <2>1. Paid(t, h) = Paid(t, k)
    BY <1>4, <1>5 DEF Paid
  <2>2. Paid(t, k) >= Paid(t, g) + 0
    BY <1>1 DEF Fits
  <2>3. Paid(t, g) \in Nat /\ Paid(t, h) \in Nat
    BY <1>1, <1>4, PaidIsNat
  <2>4. QED BY <2>1, <2>2, <2>3
<1>8. /\ Leaving(g) => Leaving(h) /\ g.reply \in {"media", "handover"}
      /\ g.reply \in Conclusions => Leaving(h) /\ ~Leaving(g)
  BY <1>1, <1>4, <1>5 DEF Leaving, ThreadOK, Resting, Conclusions
<1>9. m \in Tasks /\ (t = <<m, "main">> \/ t = <<m, "late">>) /\ m \in seen
  BY <1>1, ThreadsArePairs DEF ThreadOK
<1>10. thread'[t] = h /\ \A u \in Threads \ {t} : thread'[u] = thread[u]
  BY <1>3 DEF BridgeInv, TypeOK, Is
<1>11. TypeOK'
  <2>1. thread' \in [Threads -> Thread]
    BY <1>3, <1>4 DEF BridgeInv, TypeOK, Is
  <2>2. concluded' \subseteq Tasks /\ after' \in [Tasks -> SUBSET Replies]
    <3>1. g.reply \in Replies
      BY <1>1 DEF Thread
    <3>2. QED BY <1>9, <3>1 DEF BridgeInv, TypeOK, ReplyArrives
  <2>3. QED BY <1>3, <2>1, <2>2 DEF BridgeInv, TypeOK
<1>12. ASSUME NEW u \in Threads
       PROVE  ThreadOK(u, thread[u])' /\ OvertakenOK(u)'
  <2>1. ThreadOK(u, thread[u]) /\ OvertakenOK(u)
    BY DEF BridgeInv
  <2>2. CASE u = t
    BY <1>2, <1>3, <1>4, <1>5, <1>6, <1>10, <2>2
    DEF ThreadOK, ResultOK, Heading, OvertakenOK, Stale
  <2>3. CASE u # t
    BY <1>3, <1>10, <2>1, <2>3 DEF ThreadOK, ResultOK, Heading, OvertakenOK, Stale
  <2>4. QED BY <2>2, <2>3
<1>13. ASSUME NEW n \in Tasks PROVE MessageOK(n)'
  <2> DEFINE main == <<n, "main">>
             late == <<n, "late">>
  <2>1. main \in Threads /\ late \in Threads /\ main # late
    BY DEF Threads
  <2>2. /\ thread[late].pc # "idle" => Leaving(thread[main])
        /\ n \in concluded =>
             n \in seen /\ Leaving(thread[main]) /\ Leaving(thread[late])
        /\ after[n] \subseteq {"media", "handover"}
        /\ sent[n] <= Paid(main, thread[main]) + Paid(late, thread[late])
    BY DEF BridgeInv, MessageOK
  <2>a. sent[n] \in Nat /\ Paid(main, thread[main]) \in Nat /\ Paid(late, thread[late]) \in Nat
    BY <2>1, PaidIsNat DEF BridgeInv, TypeOK
  <2>3. CASE n # m
    <3>1. /\ thread'[main] = thread[main] /\ thread'[late] = thread[late]
          /\ sent'[n] = sent[n] /\ after'[n] = after[n]
          /\ n \in concluded' <=> n \in concluded
      BY <1>3, <1>9, <1>10, <2>1, <2>3 DEF ReplyArrives, BridgeInv, TypeOK
    <3>2. QED BY <1>3, <2>2, <3>1 DEF MessageOK, Leaving, Paid, Heading
  <2>4. CASE n = m
    <3>1. /\ after'[m] = IF m \in concluded THEN after[m] \cup {g.reply} ELSE after[m]
          /\ m \in concluded' <=> m \in concluded \/ g.reply \in Conclusions
      BY <1>9 DEF ReplyArrives, BridgeInv, TypeOK
    <3>2. CASE t = main
      <4>1. thread'[main] = h /\ thread'[late] = thread[late]
        BY <1>10, <2>1, <3>2
      <4>2. g.reply \in Conclusions => Leaving(thread[late])
        BY <1>8, <2>2, <3>2 DEF Leaving, Resting
      <4>3. m \in concluded => g.reply \in {"media", "handover"}
        BY <1>8, <2>2, <2>4, <3>2
      <4>4. sent'[m] <= Paid(main, h) + Paid(late, thread[late])
        BY <1>3, <1>7, <2>2, <2>a, <2>4, <3>2
      <4>5. thread[late].pc # "idle" => Leaving(h)
        BY <1>8, <2>2, <3>2
      <4>6. m \in concluded' => m \in seen /\ Leaving(h) /\ Leaving(thread[late])
        BY <1>8, <1>9, <2>2, <2>4, <3>1, <3>2, <4>2
      <4>7. after'[m] \subseteq {"media", "handover"}
        BY <2>2, <2>4, <3>1, <4>3
      <4>8. QED
        BY <1>3, <2>4, <4>1, <4>4, <4>5, <4>6, <4>7 DEF MessageOK, Leaving, Paid, Heading
    <3>3. CASE t = late
      <4>1. thread'[late] = h /\ thread'[main] = thread[main]
        BY <1>10, <2>1, <3>3
      <4>2. Leaving(thread[main])
        BY <1>1, <2>2, <3>3
      <4>3. m \in concluded => g.reply \in {"media", "handover"}
        BY <1>8, <2>2, <2>4, <3>3
      <4>4. sent'[m] <= Paid(main, thread[main]) + Paid(late, h)
        BY <1>3, <1>7, <2>2, <2>a, <2>4, <3>3
      <4>5. m \in concluded' => m \in seen /\ Leaving(thread[main]) /\ Leaving(h)
        BY <1>8, <1>9, <2>2, <2>4, <3>1, <3>3, <4>2
      <4>6. after'[m] \subseteq {"media", "handover"}
        BY <2>2, <2>4, <3>1, <4>3
      <4>7. QED
        BY <1>3, <2>4, <4>1, <4>2, <4>4, <4>5, <4>6 DEF MessageOK, Leaving, Paid, Heading
    <3>4. QED BY <1>9, <2>4, <3>2, <3>3
  <2>5. QED BY <2>3, <2>4
<1>14. QED BY <1>11, <1>12, <1>13 DEF BridgeInv


\* The main thread leaves a late watcher behind, which there was none of before.
LEMMA HandOverKeeps ==
  ASSUME BridgeInv, NEW t \in Threads, HandOver(t)
  PROVE  BridgeInv'
<1> DEFINE g == thread[t]
           m == t[1]
           late == <<m, "late">>
           e == Ended(g)
           h == Saying(e, "handover", "over")
           k == [NoThread EXCEPT !.pc = "loop", !.baseline = g.baseline, !.still = g.still,
                                 !.latest = g.latest]
<1>1. /\ g.pc = "handover" /\ g \in Thread /\ ThreadOK(t, g) /\ OvertakenOK(t)
      /\ UNCHANGED <<seen, active, session, sent, concluded, after, restarts>>
  BY ThreadFacts DEF HandOver, At, BridgeInv, histories
<1>2. Heading(g) = "handover" /\ ~Leaving(g)
  BY <1>1 DEF Heading, Leaving, Resting
<1>3. m \in Tasks /\ t = <<m, "main">> /\ late \in Threads /\ late # t /\ m \in seen
      /\ t[2] = "main" /\ late[2] = "late" /\ late[1] = m
  <2>1. t[2] # "late"
    BY <1>1, <1>2 DEF ThreadOK
  <2>2. m \in seen
    BY <1>1 DEF ThreadOK
  <2>3. QED BY <2>1, <2>2, ThreadsArePairs DEF Threads
<1>4. thread[late] = NoThread /\ m \notin concluded
      /\ after[m] \subseteq {"media", "handover"}
      /\ sent[m] <= Paid(t, g) + Paid(late, thread[late])
  <2>1. MessageOK(m)
    BY <1>3 DEF BridgeInv
  <2>2. thread[late].pc = "idle" /\ m \notin concluded
    BY <1>2, <1>3, <2>1 DEF MessageOK
  <2>3. ThreadOK(late, thread[late])
    BY <1>3 DEF BridgeInv
  <2>4. QED BY <1>3, <2>1, <2>2, <2>3 DEF MessageOK, ThreadOK
<1>5. CASE ~LateWatch
  BY <1>1, <1>5, EndedFits, QuietKeeps DEF HandOver, Resting
<1>6. CASE LateWatch
  <2>1. thread' = [thread EXCEPT ![t] = h, ![late] = k]
    BY <1>6 DEF HandOver
  <2>2. /\ h \in Thread /\ h.pc = "say" /\ h.reply = "handover" /\ h.then = "over"
        /\ h.baseline = Unknown /\ ~h.still /\ h.answer = 0
        /\ h.attempts = g.attempts /\ h.escalated = g.escalated
        /\ h.described = g.described /\ h.overtaken = g.overtaken
    <3>1. "handover" \in Replies /\ "over" \in Labels
      BY LabelsExist DEF Resting
    <3>2. /\ e \in Thread
          /\ e.baseline = Unknown /\ ~e.still /\ e.answer = 0
          /\ e.attempts = g.attempts /\ e.escalated = g.escalated
          /\ e.described = g.described /\ e.overtaken = g.overtaken
      BY <1>1, EndedFacts
    <3> HIDE DEF e
    <3>3. QED BY <3>1, <3>2, SayingFacts
  <2>3. /\ k.pc = "loop" /\ k.then = "over" /\ k.overtaken = 0
        /\ k.baseline = g.baseline /\ k.still = g.still /\ k.latest = g.latest
        /\ k.answer = 0
        /\ k.attempts = 0 /\ k.escalated = FALSE /\ k.described = FALSE
    BY DEF NoThread
  <2>4. k \in Thread
    <3>1. g.baseline \in Signatures /\ g.latest \in Signatures /\ g.still \in BOOLEAN
      BY <1>1 DEF Thread
    <3>2. QED BY <3>1, NoThreadFacts, LabelsExist DEF Thread
  <2> HIDE DEF h, k
  <2>5. /\ Heading(h) = "over" /\ Heading(k) = "loop"
        /\ Leaving(h)
    BY <2>2, <2>3 DEF Heading, Leaving
  <2>6. thread'[t] = h /\ thread'[late] = k
        /\ \A u \in Threads \ {t, late} : thread'[u] = thread[u]
    BY <1>3, <2>1 DEF BridgeInv, TypeOK
  <2>7. TypeOK'
    BY <1>1, <2>1, <2>2, <2>4 DEF BridgeInv, TypeOK
  <2>8. ThreadOK(t, h)
    <3>1. ResultOK(h)
      BY <2>2, <2>5 DEF ResultOK
    <3>2. QED BY <1>1, <1>3, <2>2, <2>5, <3>1 DEF ThreadOK, Conclusions
  <2>9. ThreadOK(late, k)
    <3>1. ResultOK(k)
      BY <1>1, <1>2, <2>3, <2>5 DEF ThreadOK, ResultOK
    <3>2. QED BY <1>3, <2>3, <2>5, <3>1 DEF ThreadOK
  <2>10. ASSUME NEW u \in Threads
         PROVE  ThreadOK(u, thread[u])' /\ OvertakenOK(u)'
    <3>1. ThreadOK(u, thread[u]) /\ OvertakenOK(u)
      BY DEF BridgeInv
    <3>2. CASE u = t
      BY <1>1, <2>2, <2>6, <2>8, <3>2
      DEF ThreadOK, ResultOK, Heading, OvertakenOK, Stale, Resting
    <3>3. CASE u = late
      BY <1>1, <2>3, <2>6, <2>9, <3>3 DEF ThreadOK, ResultOK, Heading, OvertakenOK
    <3>4. CASE u \notin {t, late}
      BY <1>1, <2>6, <3>1, <3>4 DEF ThreadOK, ResultOK, Heading, OvertakenOK, Stale
    <3>5. QED BY <3>2, <3>3, <3>4
  <2>11. Paid(t, h) = Paid(t, g) /\ Paid(late, k) = Paid(late, thread[late])
    <3>1. Paid(t, h) = Paid(t, g)
      BY <1>2, <2>2, <2>5 DEF Paid
    <3>2. Paid(late, k) = Paid(late, thread[late])
      BY <1>3, <1>4, <2>3, <2>5 DEF Paid, NoThread, Heading, Count
    <3>3. QED BY <3>1, <3>2
  <2>12. ASSUME NEW n \in Tasks PROVE MessageOK(n)'
    <3>1. MessageOK(n) /\ <<n, "main">> \in Threads /\ <<n, "late">> \in Threads
      BY DEF BridgeInv, Threads
    <3>2. CASE n = m
      BY <1>1, <1>3, <1>4, <2>5, <2>6, <2>11, <3>2
      DEF MessageOK, Leaving, Paid, Heading
    <3>3. CASE n # m
      <4>1. thread'[<<n, "main">>] = thread[<<n, "main">>]
            /\ thread'[<<n, "late">>] = thread[<<n, "late">>]
        BY <1>3, <2>6, <3>1, <3>3
      <4>2. QED BY <1>1, <3>1, <4>1 DEF MessageOK, Leaving, Paid, Heading
    <3>4. QED BY <3>2, <3>3
  <2>13. QED BY <2>7, <2>10, <2>12 DEF BridgeInv
<1>7. QED BY <1>5, <1>6

\* A new message: it has no thread yet, and replies to the others stay stale.
LEMMA ReceiveKeeps ==
  ASSUME BridgeInv, NEW m \in Messages, Receive(m)
  PROVE  BridgeInv'
<1> DEFINE b == Saying(NoThread, "progress", "baseline")
           main == <<m, "main">>
<1>1. /\ m \notin seen /\ seen' = seen \cup {m}
      /\ active' = [active EXCEPT ![ChatOf[m]] = m]
      /\ thread' = IF m \in Tasks THEN [thread EXCEPT ![main] = b] ELSE thread
      /\ UNCHANGED <<session, sent, concluded, after, restarts>>
  BY DEF Receive, Mark, Promote, Begin, histories
<1>2. m # Null /\ ChatOf[m] \in Chats
  BY BridgeAssumption DEF Messages
<1>3. b \in Thread /\ NoThread \in Thread
  BY NoThreadFacts
<1>4. /\ b.pc = "say" /\ b.reply = "progress" /\ b.then = "baseline"
      /\ b.baseline = Unknown /\ ~b.still /\ b.answer = 0
      /\ b.described = FALSE /\ b.overtaken = 0
  BY DEF Saying, NoThread
<1> HIDE DEF b
<1>5. Heading(b) = "baseline"
  BY <1>4 DEF Heading
<1>6. TypeOK'
  <2>1. seen' \subseteq Messages /\ active' \in [Chats -> Messages \cup {Null}]
    BY <1>1, <1>2 DEF BridgeInv, TypeOK
  <2>2. thread' \in [Threads -> Thread]
    BY <1>1, <1>3 DEF BridgeInv, TypeOK
  <2>3. QED BY <1>1, <2>1, <2>2 DEF BridgeInv, TypeOK
<1>7. ASSUME NEW u \in Threads
      PROVE  thread[u].pc # "idle" => u[1] # m
  BY <1>1 DEF BridgeInv, ThreadOK
<1>8. ASSUME NEW u \in Threads, ~(m \in Tasks /\ u = main)
      PROVE  thread'[u] = thread[u]
  BY <1>1, <1>8 DEF BridgeInv, TypeOK
<1>9. m \in Tasks => main \in Threads /\ thread'[main] = b
  BY <1>1 DEF BridgeInv, TypeOK, Threads
<1>10. ASSUME NEW u \in Threads
       PROVE  ThreadOK(u, thread[u])' /\ OvertakenOK(u)'
  <2>1. ThreadOK(u, thread[u]) /\ OvertakenOK(u)
    BY DEF BridgeInv
  <2>2. CASE m \in Tasks /\ u = main
    <3>1. thread'[u] = b /\ u[1] \in seen' /\ u[2] = "main"
      BY <1>1, <1>9, <2>2
    <3>2. ResultOK(thread[u])'
      BY <1>4, <3>1 DEF ResultOK, Heading
    <3>3. ThreadOK(u, thread[u])'
      BY <1>4, <3>1, <3>2 DEF ThreadOK, Heading, Conclusions
    <3>4. QED BY <1>4, <3>1, <3>3 DEF OvertakenOK
  <2>3. CASE ~(m \in Tasks /\ u = main)
    <3>1. thread'[u] = thread[u]
      BY <1>8, <2>3
    <3>2. ThreadOK(u, thread[u])'
      BY <1>1, <2>1, <3>1 DEF ThreadOK, ResultOK, Heading
    <3>3. thread[u].pc # "idle" /\ Stale(u) => Stale(u)'
      BY <1>1, <1>2, <1>7 DEF Stale, BridgeInv, TypeOK
    <3>4. OvertakenOK(u)'
      BY <2>1, <3>1, <3>3 DEF OvertakenOK, Resting
    <3>5. QED BY <3>2, <3>4
  <2>4. QED BY <2>2, <2>3
<1>11. ASSUME NEW n \in Tasks PROVE MessageOK(n)'
  <2>1. MessageOK(n) /\ <<n, "main">> \in Threads /\ <<n, "late">> \in Threads
        /\ <<n, "late">> # main
    BY DEF BridgeInv, Threads
  <2>2. thread'[<<n, "late">>] = thread[<<n, "late">>]
    BY <1>8, <2>1
  <2>3. CASE n # m
    <3>1. thread'[<<n, "main">>] = thread[<<n, "main">>]
      BY <1>8, <2>1, <2>3
    <3>2. QED BY <1>1, <2>1, <2>2, <3>1 DEF MessageOK, Leaving, Paid, Heading
  <2>4. CASE n = m
    <3>1. /\ thread[<<n, "main">>].pc = "idle" /\ thread[<<n, "late">>].pc = "idle"
          /\ n \notin concluded
      BY <1>1, <1>7, <2>1, <2>4 DEF MessageOK
    <3>2. thread[<<n, "main">>] = NoThread /\ thread[<<n, "late">>] = NoThread
      BY <2>1, <3>1 DEF BridgeInv, ThreadOK
    <3>3. sent[n] <= 0 + 0
      BY <2>1, <3>2, NoThreadFacts DEF MessageOK
    <3>4. sent[n] \in Nat /\ Paid(<<n, "main">>, b) \in Nat
          /\ Paid(<<n, "late">>, thread[<<n, "late">>]) = 0
      BY <1>3, <2>1, <3>2, PaidIsNat, NoThreadFacts DEF BridgeInv, TypeOK
    <3>5. sent'[n] <= Paid(<<n, "main">>, b) + Paid(<<n, "late">>, thread[<<n, "late">>])
      BY <1>1, <3>3, <3>4
    <3>6. thread'[<<n, "main">>] = b
      BY <1>9, <2>4
    <3>7. after[n] \subseteq {"media", "handover"}
      BY <2>1 DEF MessageOK
    <3>8. QED
      BY <1>1, <2>2, <3>1, <3>5, <3>6, <3>7 DEF MessageOK, Leaving, Paid, Heading
  <2>5. QED BY <2>3, <2>4
<1>12. QED BY <1>6, <1>10, <1>11 DEF BridgeInv

\* What a snapshot shows changes, and every thread has left its baseline.
LEMMA SessionMovesKeeps ==
  ASSUME BridgeInv, SessionMoves
  PROVE  BridgeInv'
<1> DEFINE h(u) == [thread[u] EXCEPT !.still = FALSE]
<1>1. /\ session' \in Session /\ session' # session
      /\ NextReply(session') \/ SameReply(session')
      /\ thread' = [u \in Threads |-> h(u)]
      /\ UNCHANGED <<seen, active, sent, concluded, after, restarts>>
  BY DEF SessionMoves, histories
<1>2. ASSUME NEW u \in Threads
      PROVE  /\ thread'[u] = h(u) /\ h(u) \in Thread /\ ~h(u).still
             /\ h(u).pc = thread[u].pc /\ h(u).reply = thread[u].reply
             /\ h(u).then = thread[u].then
             /\ h(u).baseline = thread[u].baseline /\ h(u).answer = thread[u].answer
             /\ h(u).attempts = thread[u].attempts /\ h(u).escalated = thread[u].escalated
             /\ h(u).described = thread[u].described /\ h(u).overtaken = thread[u].overtaken
  BY <1>1, ThreadFacts DEF Thread
<1>3. ASSUME NEW u \in Threads, thread[u] = NoThread PROVE h(u) = NoThread
  <2>1. NoThread.still = FALSE
    BY DEF NoThread
  <2>2. QED BY <1>3, <2>1, NoThreadFacts DEF Thread
<1> HIDE DEF h
<1>4. TypeOK'
  <2>1. thread' \in [Threads -> Thread]
    BY <1>1, <1>2
  <2>2. QED BY <1>1, <2>1 DEF BridgeInv, TypeOK
<1>5. ASSUME NEW u \in Threads
      PROVE  /\ Heading(thread'[u]) = Heading(thread[u])
             /\ Leaving(thread'[u]) <=> Leaving(thread[u])
             /\ Paid(u, thread'[u]) = Paid(u, thread[u])
  <2>1. Heading(thread'[u]) = Heading(thread[u])
    BY <1>2 DEF Heading
  <2>2. QED BY <1>2, <2>1 DEF Leaving, Paid
<1>6. /\ session \in Session /\ session.leader.reply \in Nat
      /\ session'.leader.reply \in Nat
  BY <1>1, BridgeAssumption DEF BridgeInv, TypeOK, Session, Leader
<1>7. Silent = {} => session'.leader.reply = session.leader.reply + 1
  <2> SUFFICES ASSUME Silent = {}, SameReply(session') PROVE FALSE
    BY <1>1 DEF NextReply
  <2>1. /\ session'.rest = session.rest
        /\ session'.leader.state = session.leader.state
        /\ session'.leader.reply = session.leader.reply
        /\ session'.leader.text = session.leader.text
    BY DEF SameReply
  <2>2. session'.leader = session.leader
    BY <1>1, <1>6, <2>1 DEF Session, Leader
  <2>3. session' = session
    BY <1>1, <1>6, <2>1, <2>2 DEF Session
  <2>4. QED BY <1>1, <2>3
<1>8. ASSUME NEW u \in Threads
      PROVE  ThreadOK(u, thread[u])' /\ OvertakenOK(u)'
  <2>1. /\ ThreadOK(u, thread[u]) /\ ResultOK(thread[u]) /\ OvertakenOK(u)
        /\ thread[u].baseline \in Signatures /\ thread[u].answer \in 0..MaxReplies
    BY ThreadFacts DEF BridgeInv, Thread
  <2>2. thread[u].baseline # Unknown => thread[u].baseline.leader.reply \in Nat
    <3>1. \A l \in Leader \cup {BrokenLeader} : l.reply \in Nat
      BY DEF Leader, BrokenLeader
    <3>2. QED BY <2>1, <3>1 DEF Signatures
  <2>3. ResultOK(thread[u])'
    <3>1. Heading(thread'[u]) = "baseline" => thread'[u].answer = 0
      BY <1>2, <1>5, <2>1 DEF ResultOK
    <3>2. ASSUME SnapshotErrors = {}, Silent = {}, thread[u].baseline # Unknown
          PROVE  /\ thread[u].baseline.leader.reply < session'.leader.reply
                 /\ \/ thread[u].answer = 0
                    \/ thread[u].baseline.leader.reply < thread[u].answer
      <4>1. CASE thread[u].still
        BY <1>6, <1>7, <2>1, <3>2, <4>1 DEF ResultOK
      <4>2. CASE ~thread[u].still
        BY <1>6, <1>7, <2>1, <2>2, <3>2, <4>2 DEF ResultOK
      <4>3. QED BY <4>1, <4>2
    <3>3. QED BY <1>2, <3>1, <3>2 DEF ResultOK, Heading
  <2>4. ThreadOK(u, thread[u])'
    <3>1. IF thread'[u].pc = "idle" THEN thread'[u] = NoThread ELSE u[1] \in seen'
      BY <1>1, <1>2, <1>3, <2>1 DEF ThreadOK
    <3>2. QED BY <1>2, <2>1, <2>3, <3>1 DEF ThreadOK, Heading
  <2>5. OvertakenOK(u)'
    BY <1>1, <1>2, <2>1 DEF OvertakenOK, Stale
  <2>6. QED BY <2>4, <2>5
<1>9. ASSUME NEW n \in Tasks PROVE MessageOK(n)'
  <2> DEFINE main == <<n, "main">>
             late == <<n, "late">>
  <2>1. MessageOK(n) /\ main \in Threads /\ late \in Threads
    BY DEF BridgeInv, Threads
  <2>2. /\ Leaving(thread'[main]) <=> Leaving(thread[main])
        /\ Leaving(thread'[late]) <=> Leaving(thread[late])
        /\ Paid(main, thread'[main]) = Paid(main, thread[main])
        /\ Paid(late, thread'[late]) = Paid(late, thread[late])
        /\ thread'[late].pc = thread[late].pc
    BY <1>2, <1>5, <2>1
  <2>3. QED BY <1>1, <2>1, <2>2 DEF MessageOK, Leaving, Paid, Heading
<1>10. QED BY <1>4, <1>8, <1>9 DEF BridgeInv

\* A restart: the threads that had not ended are gone, and with them what they
\* would have said and sent.
LEMMA RestartKeeps ==
  ASSUME BridgeInv, Restart
  PROVE  BridgeInv'
<1>1. /\ active' = [c \in Chats |-> Null]
      /\ thread' = [t \in Threads |->
           IF thread[t].pc \in Resting THEN thread[t] ELSE Ended(thread[t])]
      /\ UNCHANGED <<seen, session, sent, concluded, after>>
  BY DEF Restart, histories
<1>2. restarts' \in 0..MaxRestarts
  BY BridgeAssumption DEF Restart, BridgeInv, TypeOK
<1>3. ASSUME NEW t \in Threads
      PROVE  /\ thread'[t] \in Thread /\ thread'[t].pc \in Resting
             /\ thread[t].pc = "idle" <=> thread'[t].pc = "idle"
             /\ ThreadOK(t, thread[t])' /\ OvertakenOK(t)'
             /\ Paid(t, thread'[t]) >= Paid(t, thread[t])
  <2> DEFINE g == thread[t]
             h == Ended(g)
  <2>1. g \in Thread /\ ThreadOK(t, g) /\ OvertakenOK(t)
    BY ThreadFacts DEF BridgeInv
  <2>2. Paid(t, g) \in Nat
    BY <2>1, PaidIsNat
  <2>3. CASE g.pc \in Resting
    <3>1. thread'[t] = g
      BY <1>1, <2>3
    <3>2. QED
      BY <1>1, <2>1, <2>2, <2>3, <3>1 DEF ThreadOK, ResultOK, Heading, OvertakenOK
  <2>4. CASE g.pc \notin Resting
    <3>1. thread'[t] = h
      BY <1>1, <2>4
    <3>2. h \in Thread /\ h.pc = "over" /\ h.overtaken = g.overtaken
      BY <2>1, EndedFacts
    <3>3. ThreadOK(t, h) /\ Paid(t, h) >= Paid(t, g) + 0
      BY <2>4, EndedFits DEF Fits
    <3> HIDE DEF h
    <3>4. Paid(t, h) >= Paid(t, g)
      BY <2>2, <3>2, <3>3, PaidIsNat
    <3>5. ThreadOK(t, thread[t])'
      BY <1>1, <3>1, <3>3 DEF ThreadOK, ResultOK, Heading
    <3>6. OvertakenOK(t)'
      BY <2>1, <3>1, <3>2 DEF OvertakenOK, Resting
    <3>7. QED BY <2>4, <3>1, <3>2, <3>4, <3>5, <3>6 DEF Resting
  <2>5. QED BY <2>3, <2>4
<1>4. TypeOK'
  <2>1. thread' \in [Threads -> Thread]
    BY <1>1, <1>3
  <2>2. QED BY <1>1, <1>2, <2>1 DEF BridgeInv, TypeOK
<1>5. ASSUME NEW n \in Tasks PROVE MessageOK(n)'
  <2> DEFINE main == <<n, "main">>
             late == <<n, "late">>
  <2>1. MessageOK(n) /\ main \in Threads /\ late \in Threads
    BY DEF BridgeInv, Threads
  <2>2. Leaving(thread'[main]) /\ Leaving(thread'[late])
    BY <1>3, <2>1 DEF Leaving
  <2>3. /\ sent[n] \in Nat
        /\ Paid(main, thread[main]) \in Nat /\ Paid(late, thread[late]) \in Nat
        /\ Paid(main, thread'[main]) \in Nat /\ Paid(late, thread'[late]) \in Nat
    BY <1>3, <2>1, PaidIsNat, ThreadFacts DEF BridgeInv, TypeOK
  <2>4. sent[n] <= Paid(main, thread[main]) + Paid(late, thread[late])
    BY <2>1 DEF MessageOK
  <2>5. sent[n] <= Paid(main, thread'[main]) + Paid(late, thread'[late])
    <3>1. /\ Paid(main, thread'[main]) >= Paid(main, thread[main])
          /\ Paid(late, thread'[late]) >= Paid(late, thread[late])
      BY <1>3, <2>1
    <3>2. QED BY <2>3, <2>4, <3>1
  <2>6. n \in concluded => n \in seen
    BY <2>1 DEF MessageOK
  <2>7. after[n] \subseteq {"media", "handover"}
    BY <2>1 DEF MessageOK
  <2>8. QED
    BY <1>1, <2>2, <2>5, <2>6, <2>7 DEF MessageOK, Leaving, Paid, Heading
<1>6. QED BY <1>3, <1>4, <1>5 DEF BridgeInv

LEMMA InitOK == Init => BridgeInv
<1> SUFFICES ASSUME Init PROVE BridgeInv
  OBVIOUS
<1>1. \A t \in Threads : thread[t] = NoThread
  BY DEF Init
<1>2. TypeOK
  <2>1. session \in Session /\ restarts \in 0..MaxRestarts
    BY BridgeAssumption DEF Init
  <2>2. thread \in [Threads -> Thread]
    BY NoThreadFacts DEF Init
  <2>3. QED BY <2>1, <2>2 DEF Init, TypeOK
<1>3. ASSUME NEW t \in Threads PROVE ThreadOK(t, thread[t]) /\ OvertakenOK(t)
  <2>1. /\ NoThread.pc = "idle" /\ NoThread.then = "over" /\ ~NoThread.described
        /\ NoThread.baseline = Unknown /\ ~NoThread.still /\ NoThread.answer = 0
        /\ NoThread.overtaken = 0
    BY DEF NoThread
  <2>2. Heading(NoThread) = "idle"
    BY <2>1 DEF Heading
  <2>3. ResultOK(NoThread)
    BY <2>1, <2>2 DEF ResultOK
  <2>4. ThreadOK(t, NoThread)
    BY <2>1, <2>2, <2>3 DEF ThreadOK
  <2>5. QED BY <1>1, <2>1, <2>4 DEF OvertakenOK
<1>4. ASSUME NEW m \in Tasks PROVE MessageOK(m)
  <2>1. <<m, "main">> \in Threads /\ <<m, "late">> \in Threads
    BY DEF Threads
  <2>2. /\ thread[<<m, "main">>] = NoThread /\ thread[<<m, "late">>] = NoThread
        /\ Paid(<<m, "main">>, NoThread) = 0 /\ Paid(<<m, "late">>, NoThread) = 0
        /\ sent[m] = 0 /\ after[m] = {} /\ concluded = {}
    BY <1>1, <2>1, NoThreadFacts DEF Init
  <2>3. Leaving(NoThread) /\ NoThread.pc = "idle"
    BY DEF Leaving, NoThread, Resting
  <2>4. sent[m] <= Paid(<<m, "main">>, thread[<<m, "main">>])
                    + Paid(<<m, "late">>, thread[<<m, "late">>])
    BY <2>2
  <2>5. QED BY <2>2, <2>3, <2>4 DEF MessageOK
<1>5. QED BY <1>2, <1>3, <1>4 DEF BridgeInv

-----------------------------------------------------------------------------
(***************************************************************************)
(* The theorems.                                                           *)
(***************************************************************************)
LEMMA ThreadStepKeeps ==
  ASSUME BridgeInv, NEW t \in Threads, ThreadStep(t)
  PROVE  BridgeInv'
<1>1. CASE CheckReply(t) \/ ReplyArrives(t) \/ GiveUpReply(t)
  BY <1>1, CheckReplyKeeps, ReplyArrivesKeeps, GiveUpReplyKeeps
<1>2. CASE ReadBaseline(t) \/ Dispatch(t) \/ Describe(t) \/ Follow(t)
  BY <1>2, ReadBaselineKeeps, DispatchKeeps, DescribeKeeps, FollowKeeps
<1>3. CASE LookInVain(t) \/ SeeProgress(t) \/ SeeWaiting(t) \/ SeeResult(t)
  BY <1>3, LookInVainKeeps, SeeProgressKeeps, SeeWaitingKeeps, SeeResultKeeps
<1>4. CASE RetryTask(t) \/ Escalate(t) \/ StartAgain(t) \/ Resume(t)
  BY <1>4, RetryTaskKeeps, EscalateKeeps, StartAgainKeeps, ClockKeeps
<1>5. CASE \/ ReportPane(t) \/ EndFollow(t) \/ Look(t) \/ WaitNoLonger(t)
           \/ Report(t) \/ RetryNoMore(t) \/ DeclareSettled(t)
  BY <1>5, LabelStepsKeep
<1>6. CASE HandOver(t) \/ WatchExpires(t) \/ SendMedia(t)
  BY <1>6, HandOverKeeps, WatchExpiresKeeps, SendMediaKeeps
<1>7. QED BY <1>1, <1>2, <1>3, <1>4, <1>5, <1>6 DEF ThreadStep

LEMMA NextKeeps == BridgeInv /\ [Next]_vars => BridgeInv'
<1> SUFFICES ASSUME BridgeInv, [Next]_vars PROVE BridgeInv'
  OBVIOUS
<1>1. CASE \E m \in Messages : Receive(m)
  BY <1>1, ReceiveKeeps
<1>2. CASE \E t \in Threads : ThreadStep(t) \/ DeadlinePasses(t) \/ CoolsDown(t)
  BY <1>2, ThreadStepKeeps, ClockKeeps
<1>3. CASE SessionMoves
  BY <1>3, SessionMovesKeeps
<1>4. CASE Restart
  BY <1>4, RestartKeeps
<1>5. CASE UNCHANGED vars
  <2>1. UNCHANGED <<seen, active, thread, session, sent, concluded, after, restarts>>
    BY <1>5 DEF vars, histories
  <2>2. TypeOK'
    BY <2>1 DEF BridgeInv, TypeOK
  <2>3. ASSUME NEW t \in Threads PROVE ThreadOK(t, thread[t])' /\ OvertakenOK(t)'
    BY <2>1 DEF BridgeInv, ThreadOK, ResultOK, Heading, OvertakenOK, Stale
  <2>4. ASSUME NEW m \in Tasks PROVE MessageOK(m)'
    BY <2>1 DEF BridgeInv, MessageOK, Leaving, Paid, Heading
  <2>5. QED BY <2>2, <2>3, <2>4 DEF BridgeInv
<1>6. QED BY <1>1, <1>2, <1>3, <1>4, <1>5 DEF Next

\* What the threads of a message, the newest message of its chat and the
\* histories agree on, always: who may still speak, what each thread knows of the
\* session, and what it has sent.
THEOREM BridgeInvariant == Spec => []BridgeInv
  BY InitOK, NextKeeps, PTL DEF Spec

\* However many messages come in, retries start waiting anew and the bridge
\* restarts, no task is sent to the leader more often than its limits allow
\* (run_dingtalk_stream_bridge.py:3249-3470).
THEOREM CommandsStayBounded == Spec => []CommandsBounded
<1>1. BridgeInv => CommandsBounded
  <2> SUFFICES ASSUME BridgeInv, NEW m \in Tasks
               PROVE  sent[m] <= 2 * MaxRetries + 4
    BY DEF CommandsBounded
  <2> DEFINE main == <<m, "main">>
             late == <<m, "late">>
  <2>1. /\ main \in Threads /\ late \in Threads
        /\ main[2] = "main" /\ late[2] = "late"
    BY DEF Threads
  <2>2. /\ sent[m] \in Nat /\ thread[main] \in Thread /\ thread[late] \in Thread
        /\ sent[m] <= Paid(main, thread[main]) + Paid(late, thread[late])
        /\ ThreadOK(late, thread[late])
    BY <2>1 DEF BridgeInv, TypeOK, MessageOK
  <2>3. /\ Paid(main, thread[main]) \in Nat /\ Paid(late, thread[late]) \in Nat
    BY <2>1, <2>2, PaidIsNat
  <2>4. Paid(main, thread[main]) <= MaxRetries + 3
    BY <2>2, BridgeAssumption DEF Paid, Count, Thread
  <2>5. Paid(late, thread[late]) <= MaxRetries + 1
    BY <2>1, <2>2, BridgeAssumption DEF Paid, Count, Thread, ThreadOK
  <2>6. MaxRetries \in Nat
    BY BridgeAssumption
  <2>7. QED BY <2>2, <2>3, <2>4, <2>5, <2>6
<1>2. QED BY <1>1, BridgeInvariant, PTL

\* A conclusion is the last that is said of a task, its attachments and the
\* announcement of the late watcher apart: neither thread outlives the report of
\* the other with something to say (run_dingtalk_stream_bridge.py:3092-3150).
THEOREM ConclusionsAreLast == Spec => []QuietAfterConclusion
<1>1. BridgeInv => QuietAfterConclusion
  BY DEF BridgeInv, MessageOK, QuietAfterConclusion
<1>2. QED BY <1>1, BridgeInvariant, PTL

\* A newer message silences each thread of an older one, but for the reply that
\* was being sent already (run_dingtalk_stream_bridge.py:2030).
THEOREM OvertakenOnce == Spec => []OvertakenAtMostOnce
<1>1. BridgeInv => OvertakenAtMostOnce
  BY DEF BridgeInv, OvertakenOK, OvertakenAtMostOnce
<1>2. QED BY <1>1, BridgeInvariant, PTL

\* While no snapshot fails, a thread reports nothing for as long as its sessions show
\* what they showed before the dispatch: neither the snapshot that progress pushes passed
\* on, nor the last look when time is up, nor a late watcher that starts from what the main
\* thread knew makes a result of it (run_dingtalk_stream_bridge.py:3104-3110, 3277-3282).
THEOREM ReportsFollowChange == Spec => []ResultsFollowChange
<1>1. BridgeInv => ResultsFollowChange
  <2> SUFFICES ASSUME BridgeInv, SnapshotErrors = {}, NEW t \in Threads, thread[t].still
               PROVE  ~Reporting(t)
    BY DEF ResultsFollowChange
  <2>1. thread[t].answer = 0
    BY ThreadFacts DEF ResultOK
  <2>2. QED BY <2>1 DEF Reporting
<1>2. QED BY <1>1, BridgeInvariant, PTL

\* "... so old/stale terminal replies are not reported as the result of this newly accepted
\* task" (run_dingtalk_stream_bridge.py:3104): true where no snapshot fails and a snapshot
\* changes only when the leader replies.  What the run bridge_old_reply shows is due to a
\* signature that covers more than the reply, not to pushes, retries or the late watcher.
THEOREM ChangesAreReplies ==
  SnapshotErrors = {} /\ Silent = {} => (Spec => []OldRepliesNotReported)
<1> SUFFICES ASSUME SnapshotErrors = {}, Silent = {}
             PROVE  Spec => []OldRepliesNotReported
  OBVIOUS
<1>1. BridgeInv => OldRepliesNotReported
  <2> SUFFICES ASSUME BridgeInv, NEW t \in Threads, Reporting(t), thread[t].baseline # Unknown
               PROVE  thread[t].answer # thread[t].baseline.leader.reply
    BY DEF OldRepliesNotReported
  <2>1. thread[t].answer # 0
    BY DEF Reporting
  <2>2. thread[t] \in Thread /\ ResultOK(thread[t])
    BY ThreadFacts
  <2>3. thread[t].baseline.leader.reply < thread[t].answer
    BY <2>1, <2>2 DEF ResultOK
  <2>4. thread[t].answer \in Nat /\ thread[t].baseline.leader.reply \in Nat
    <3>1. \A l \in Leader \cup {BrokenLeader} : l.reply \in Nat
      BY DEF Leader, BrokenLeader
    <3>2. QED BY <2>2, <3>1, BridgeAssumption DEF Thread, Signatures
  <2>5. QED BY <2>3, <2>4
<1>2. QED BY <1>1, BridgeInvariant, PTL

-----------------------------------------------------------------------------
(***************************************************************************)
(* Who may silence a task.                                                 *)
(***************************************************************************)

\* What counts as the newest message of a chat came in, and in that chat.
NewestOK ==
  \A c \in Chats : active[c] # Null =>
    active[c] \in Messages /\ active[c] \in seen /\ ChatOf[active[c]] = c

LEMMA NextKeepsNewest == TypeOK /\ NewestOK /\ [Next]_vars => NewestOK'
<1> SUFFICES ASSUME TypeOK, NewestOK, [Next]_vars PROVE NewestOK'
  OBVIOUS
<1>1. CASE \E m \in Messages : Receive(m)
  <2>1. PICK m \in Messages : Receive(m)
    BY <1>1
  <2>2. seen' = seen \cup {m} /\ active' = [active EXCEPT ![ChatOf[m]] = m]
    BY <2>1 DEF Receive, Mark, Promote
  <2>3. ChatOf[m] \in Chats
    BY BridgeAssumption DEF Messages
  <2> QED BY <2>2, <2>3 DEF NewestOK, TypeOK
<1>2. CASE Restart
  BY <1>2 DEF Restart, NewestOK
<1>3. CASE UNCHANGED <<seen, active>>
  BY <1>3 DEF NewestOK
<1>4. ASSUME NEW t \in Threads, ThreadStep(t) \/ DeadlinePasses(t) \/ CoolsDown(t)
      PROVE  UNCHANGED <<seen, active>>
  BY <1>4 DEF ThreadStep, DeadlinePasses, CoolsDown, CheckReply, ReplyArrives, GiveUpReply,
              ReadBaseline, Dispatch, ReportPane, Follow, EndFollow, Look, WaitNoLonger,
              HandOver, WatchExpires, LookInVain, SeeProgress, SeeWaiting, SeeResult, Report,
              SendMedia, RetryTask, RetryNoMore, Escalate, DeclareSettled, StartAgain,
              Describe, Resume
<1> QED BY <1>1, <1>2, <1>3, <1>4 DEF Next, SessionMoves, vars

\* resource/ops/mission_lock_guixianren_e2e.md:132: where nobody sends approval commands or
\* route queries, a conclusion is withheld only in favour of another task.  What the run
\* bridge_approval shows is due to those commands alone, not to restarts or retries.
THEOREM OnlyCommandsSilence == Commands = {} => (Spec => []ApprovalsKeepTasks)
<1> SUFFICES ASSUME Commands = {} PROVE Spec => []ApprovalsKeepTasks
  OBVIOUS
<1>1. Init => NewestOK
  BY DEF Init, NewestOK
<1>2. TypeOK /\ NewestOK => ApprovalsKeepTasks
  <2> SUFFICES ASSUME TypeOK, NewestOK, NEW t \in Threads, Stale(t)
               PROVE  \E m \in Tasks : m # t[1] /\ m \in seen /\ ChatOf[m] = ChatOf[t[1]]
    BY DEF ApprovalsKeepTasks
  <2>1. t[1] \in Tasks /\ ChatOf[t[1]] \in Chats
    BY BridgeAssumption DEF Threads
  <2>2. active[ChatOf[t[1]]] \in Messages /\ active[ChatOf[t[1]]] \in seen
        /\ ChatOf[active[ChatOf[t[1]]]] = ChatOf[t[1]] /\ active[ChatOf[t[1]]] # t[1]
    BY <2>1 DEF NewestOK, Stale
  <2> QED BY <2>2 DEF Messages
<1>3. BridgeInv => TypeOK
  BY DEF BridgeInv
<1> QED BY <1>1, <1>2, <1>3, NextKeepsNewest, BridgeInvariant, PTL DEF Spec
=============================================================================
