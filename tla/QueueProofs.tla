---------------------------- MODULE QueueProofs ----------------------------
EXTENDS QueueProperties, FiniteSetTheorems, SequenceTheorems, TLAPS

LEMMA CountType ==
    ASSUME NEW S, NEW s \in Seq(S), NEW m
    PROVE  Count(m, s) \in Nat
PROOF
<1> DEFINE I == {i \in DOMAIN s : s[i] = m}
<1>1. I \subseteq 1 .. Len(s)
    OBVIOUS
<1>2. IsFiniteSet(1 .. Len(s))
    BY FS_Interval
<1>3. IsFiniteSet(I)
    BY <1>1, <1>2, FS_Subset
<1> QED
    BY <1>3, FS_CardinalityType DEF Count

LEMMA DeliverType ==
    ASSUME NEW p \in Page, NEW s \in Seq(Message \cup {Null}),
           SharedOK, HistoryOK, Deliver(p, s), UNCHANGED destination
    PROVE  SharedOK' /\ HistoryOK'
PROOF
<1>1. \A m \in Message : Count(m, s) \in Nat
    BY CountType
<1>2. copies' \in [Message -> Nat]
    BY <1>1 DEF Deliver, HistoryOK
<1>3. channel' \in [Page -> Channels] /\ idle' \in [Page -> BOOLEAN]
    BY DEF Deliver, Answered, SharedOK, Channels
<1> QED
    BY <1>2, <1>3 DEF Deliver, SharedOK, HistoryOK, destination

LEMMA TypeOKStep ==
    ASSUME TypeOK, Control, [Next]_vars
    PROVE  TypeOK'
PROOF
<1> USE QueueAssumption DEF TypeOK, SharedOK, ThreadOK, HistoryOK,
      Control, Controlled, Channels, Ops, Steps,
      InPublish, InDrain, InExpiry, OnPage, Goto, Move, Return, Begin, End,
      vars, destination, web, control, draining, history
<1>1. ASSUME NEW t \in Thread, CheckPages(t)
     PROVE  TypeOK'
    BY <1>1, SMTT(30) DEF CheckPages
<1>2. ASSUME NEW t \in Thread, PagesExhausted(t)
     PROVE  TypeOK'
    BY <1>2, SMTT(30) DEF PagesExhausted
<1>3. ASSUME NEW t \in Thread, NEW p \in Page, PageTakes(t, p)
     PROVE  TypeOK'
  <2>1. <<msg[t]>> \in Seq(Message \cup {Null})
      OBVIOUS
  <2>2. SharedOK' /\ HistoryOK'
      BY <1>3, <2>1, DeliverType DEF PageTakes, AtPage
  <2>3. ThreadOK'
      BY <1>3 DEF PageTakes
  <2> QED
      BY <2>2, <2>3
<1>4. ASSUME NEW t \in Thread, NEW p \in Page, PageDeclines(t, p)
     PROVE  TypeOK'
    BY <1>4, SMTT(30) DEF PageDeclines, AtPage, Visited
<1>5. ASSUME NEW t \in Thread, NEW p \in Page, PageExpired(t, p)
     PROVE  TypeOK'
    BY <1>5, SMTT(30) DEF PageExpired, AtPage, Visited
<1>6. ASSUME NEW t \in Thread, NEW p \in Page, SkipRemoved(t, p)
     PROVE  TypeOK'
    BY <1>6, SMTT(30) DEF SkipRemoved, AtPage, Visited
<1>7. ASSUME NEW t \in Thread, Refuse(t)
     PROVE  TypeOK'
    BY <1>7, SMTT(30) DEF Refuse
<1>8. ASSUME NEW t \in Thread, FindRoom(t)
     PROVE  TypeOK'
    BY <1>8, SMTT(30) DEF FindRoom
<1>9. ASSUME NEW t \in Thread, Offer(t)
     PROVE  TypeOK'
    BY <1>9, SMTT(30) DEF Offer
<1>10. ASSUME NEW t \in Thread, NothingBuffered(t)
      PROVE  TypeOK'
    BY <1>10, SMTT(30) DEF NothingBuffered
<1>11. ASSUME NEW t \in Thread, Measure(t)
      PROVE  TypeOK'
  <2>1. ArrayLength \in Nat
      BY DEF ArrayLength
  <2> QED
      BY <1>11, <2>1 DEF Measure
<1>12. ASSUME NEW t \in Thread, PollItem(t)
      PROVE  TypeOK'
  <2>1. Head0(buffered) \in Message \cup {Null} /\ Tail0(buffered) \in Seq(Message)
      BY HeadTailProperties DEF Head0, Tail0
  <2>2. batch' \in [Thread -> Seq(Message \cup {Null})]
      BY <1>12, <2>1 DEF PollItem
  <2>3. pc' \in [Thread -> Steps]
      BY <1>12 DEF PollItem
  <2> QED
      BY <1>12, <2>1, <2>2, <2>3 DEF PollItem
<1>13. ASSUME NEW t \in Thread, BatchTaken(t)
      PROVE  TypeOK'
  <2>1. batch[t] \in Seq(Message \cup {Null}) /\ page[t] \in Page
      BY <1>13 DEF BatchTaken
  <2>2. SharedOK' /\ HistoryOK'
    <3>1. Deliver(page[t], batch[t]) /\ UNCHANGED destination
        BY <1>13 DEF BatchTaken
    <3>2. SharedOK /\ HistoryOK
        OBVIOUS
    <3> QED
        BY ONLY <2>1, <3>1, <3>2, DeliverType
  <2>3. rounds' \in [Thread -> Nat] /\ batch' \in [Thread -> Seq(Message \cup {Null})]
      BY <1>13 DEF BatchTaken, EndRound
  <2>4. ThreadOK'
      BY <1>13, <2>3 DEF BatchTaken, EndRound
  <2> QED
      BY <2>2, <2>4
<1>14. ASSUME NEW t \in Thread, BatchDeclined(t)
      PROVE  TypeOK'
    BY <1>14, SMTT(30) DEF BatchDeclined
<1>15. ASSUME NEW t \in Thread, BatchExpired(t)
      PROVE  TypeOK'
    BY <1>15, SMTT(30) DEF BatchExpired
<1>16. ASSUME NEW t \in Thread, Reoffer(t)
      PROVE  TypeOK'
  <2>1. batch[t] \in Seq(Message \cup {Null}) /\ batch[t] # << >>
      BY <1>16 DEF Reoffer
  <2>2. Head(batch[t]) \in Message /\ Tail(batch[t]) \in Seq(Message \cup {Null})
      BY <1>16, <2>1, HeadTailProperties DEF Reoffer
  <2>3. buffered' \in Seq(Message)
      BY <1>16, <2>2 DEF Reoffer
  <2>4. batch' \in [Thread -> Seq(Message \cup {Null})]
      BY <1>16, <2>2 DEF Reoffer
  <2> QED
      BY <1>16, <2>3, <2>4 DEF Reoffer
<1>17. ASSUME NEW t \in Thread, ReofferNull(t)
      PROVE  TypeOK'
    BY <1>17, SMTT(30) DEF ReofferNull, Messages
<1>18. ASSUME NEW t \in Thread, Reoffered(t)
      PROVE  TypeOK'
    BY <1>18, SMTT(30) DEF Reoffered, EndRound
<1>19. ASSUME NEW t \in Thread, Connect(t)
      PROVE  TypeOK'
  <2>1. channel' \in [Page -> Channels]
      BY <1>19, SMTT(20) DEF Connect, PollRounds
  <2>2. idle' \in [Page -> BOOLEAN]
      BY <1>19, SMTT(20) DEF Connect, PollRounds
  <2>3. PollRounds(page[t]) \in Nat
      BY <1>19, SMTT(20) DEF Connect, PollRounds
  <2>4. rounds' \in [Thread -> Nat]
      BY <1>19, SMTT(20) DEF Connect, PollRounds
  <2> QED
      BY <1>19, <2>1, <2>2, <2>3, <2>4, SMTT(20) DEF Connect, PollRounds
<1>20. ASSUME NEW t \in Thread, PollDone(t)
      PROVE  TypeOK'
    BY <1>20, SMTT(30) DEF PollDone
<1>21. ASSUME NEW t \in Thread, SubscribeDrained(t)
      PROVE  TypeOK'
    BY <1>21, SMTT(30) DEF SubscribeDrained
<1>22. ASSUME NEW t \in Thread, Put(t)
      PROVE  TypeOK'
  <2>1. todo' \in [Thread -> SUBSET Page]
      BY <1>22, SMTT(20) DEF Put
  <2> QED
      BY <1>22, <2>1, SMTT(20) DEF Put
<1>23. ASSUME NEW t \in Thread, AlreadyPut(t)
      PROVE  TypeOK'
    BY <1>23, SMTT(30) DEF AlreadyPut
<1>24. ASSUME NEW t \in Thread, Link(t)
      PROVE  TypeOK'
  <2>1. links' \in [Page -> Nat]
      BY <1>24, SMTT(20) DEF Link
  <2>2. idle' \in [Page -> BOOLEAN]
      BY <1>24, SMTT(20) DEF Link
  <2> QED
      BY <1>24, <2>1, <2>2, SMTT(20) DEF Link
<1>25. ASSUME NEW t \in Thread, CloseChannel(t)
      PROVE  TypeOK'
  <2>1. channel' \in [Page -> Channels]
      BY <1>25, SMTT(20) DEF CloseChannel
  <2> QED
      BY <1>25, <2>1, SMTT(20) DEF CloseChannel
<1>26. ASSUME NEW t \in Thread, LeaveSession(t)
      PROVE  TypeOK'
  <2>1. live' \in [Page -> BOOLEAN]
      BY <1>26, SMTT(20) DEF LeaveSession
  <2>2. entries' \in [Thread -> Nat]
      BY <1>26, SMTT(20) DEF LeaveSession
  <2> QED
      BY <1>26, <2>1, <2>2, SMTT(20) DEF LeaveSession
<1>27. ASSUME NEW t \in Thread, Unlink(t)
      PROVE  TypeOK'
  <2>1. links' \in [Page -> Nat]
      BY <1>27, SMTT(20) DEF Unlink, OneLess
  <2> QED
      BY <1>27, <2>1, SMTT(20) DEF Unlink, OneLess
<1>28. ASSUME NEW t \in Thread, Remove(t)
      PROVE  TypeOK'
    BY <1>28, SMTT(30) DEF Remove
<1>29. ASSUME NEW t \in Thread, Unsubscribed(t)
      PROVE  TypeOK'
    BY <1>29, SMTT(30) DEF Unsubscribed
<1>30. ASSUME NEW t \in Thread, Invalidated(t)
      PROVE  TypeOK'
  <2>1. links' \in [Page -> Nat]
      BY <1>30, SMTT(20) DEF Invalidated, ClearLinks
  <2> QED
      BY <1>30, <2>1, SMTT(20) DEF Invalidated, ClearLinks
<1>31. ASSUME NEW t \in Thread, BackToPublish(t)
      PROVE  TypeOK'
  <2>1. links' \in [Page -> Nat]
      BY <1>31, SMTT(20) DEF BackToPublish, ClearLinks
  <2> QED
      BY <1>31, <2>1, SMTT(20) DEF BackToPublish, ClearLinks
<1>32. ASSUME NEW t \in Thread, BackToDrain(t)
      PROVE  TypeOK'
  <2>1. links' \in [Page -> Nat]
      BY <1>32, SMTT(20) DEF BackToDrain, ClearLinks
  <2> QED
      BY <1>32, <2>1, SMTT(20) DEF BackToDrain, ClearLinks
<1>33. ASSUME NEW t \in Thread, NEW m \in Message, Publish(t, m)
      PROVE  TypeOK'
    BY <1>33, SMTT(30) DEF Publish
<1>34. ASSUME NEW t \in Thread, NEW p \in Page, Poll(t, p)
      PROVE  TypeOK'
    BY <1>34, SMTT(30) DEF Poll
<1>35. ASSUME NEW t \in Thread, NEW p \in Page, Subscribe(t, p)
      PROVE  TypeOK'
    BY <1>35, SMTT(30) DEF Subscribe
<1>36. ASSUME NEW t \in Thread, NEW p \in Page, Unsubscribe(t, p)
      PROVE  TypeOK'
    BY <1>36, SMTT(30) DEF Unsubscribe
<1>37. ASSUME NEW t \in Thread, NEW p \in Page, Invalidate(t, p)
      PROVE  TypeOK'
    BY <1>37, SMTT(30) DEF Invalidate
<1>38. ASSUME NEW p \in Page, Disconnect(p)
      PROVE  TypeOK'
    BY <1>38, SMTT(30) DEF Disconnect
<1>39. ASSUME NEW p \in Page, BecomeIdle(p)
      PROVE  TypeOK'
    BY <1>39, SMTT(30) DEF BecomeIdle
<1>40. ASSUME NEW p \in Page, Heartbeat(p)
      PROVE  TypeOK'
    BY <1>40, SMTT(30) DEF Heartbeat
<1>41. ASSUME NEW t \in Thread, Step(t) PROVE TypeOK'
      BY <1>41, <1>1, <1>2, <1>3, <1>4, <1>5, <1>6, <1>7, <1>8,
         <1>9, <1>10, <1>11, <1>12, <1>13, <1>14, <1>15, <1>16,
         <1>17, <1>18, <1>19, <1>20, <1>21, <1>22, <1>23, <1>24,
         <1>25, <1>26, <1>27, <1>28, <1>29, <1>30, <1>31, <1>32
      DEF Step, PublishStep, DrainStep, RegistryStep
<1>42. ASSUME NEW t \in Thread, Request(t) PROVE TypeOK'
      BY <1>42, <1>33, <1>34, <1>35, <1>36, <1>37 DEF Request
<1>43. ASSUME NEW p \in Page, Environment(p) PROVE TypeOK'
      BY <1>43, <1>38, <1>39, <1>40 DEF Environment
<1>44. CASE UNCHANGED vars
      BY <1>44
<1> QED
      BY <1>41, <1>42, <1>43, <1>44 DEF Next

LEMMA ControlStep ==
    ASSUME ThreadOK, Control, [Next]_vars
    PROVE  Control'
PROOF
<1> USE QueueAssumption DEF ThreadOK, Control, Controlled, Channels, Ops, Steps,
      InPublish, InDrain, InExpiry, OnPage, Goto, Move, Return, Begin, End,
      vars, destination, web, control, draining, history
<1>1. ASSUME NEW t \in Thread, CheckPages(t)
     PROVE  Control'
    BY <1>1, SMTT(30) DEF CheckPages
<1>2. ASSUME NEW t \in Thread, PagesExhausted(t)
     PROVE  Control'
    BY <1>2, SMTT(30) DEF PagesExhausted
<1>3. ASSUME NEW t \in Thread, NEW p \in Page, PageTakes(t, p)
     PROVE  Control'
    BY <1>3, SMTT(30) DEF PageTakes, AtPage
<1>4. ASSUME NEW t \in Thread, NEW p \in Page, PageDeclines(t, p)
     PROVE  Control'
    BY <1>4, SMTT(30) DEF PageDeclines, AtPage, Visited
<1>5. ASSUME NEW t \in Thread, NEW p \in Page, PageExpired(t, p)
     PROVE  Control'
    BY <1>5, SMTT(30) DEF PageExpired, AtPage, Visited
<1>6. ASSUME NEW t \in Thread, NEW p \in Page, SkipRemoved(t, p)
     PROVE  Control'
    BY <1>6, SMTT(30) DEF SkipRemoved, AtPage, Visited
<1>7. ASSUME NEW t \in Thread, Refuse(t)
     PROVE  Control'
    BY <1>7, SMTT(30) DEF Refuse
<1>8. ASSUME NEW t \in Thread, FindRoom(t)
     PROVE  Control'
    BY <1>8, SMTT(30) DEF FindRoom
<1>9. ASSUME NEW t \in Thread, Offer(t)
     PROVE  Control'
    BY <1>9, SMTT(30) DEF Offer
<1>10. ASSUME NEW t \in Thread, NothingBuffered(t)
      PROVE  Control'
    BY <1>10, SMTT(30) DEF NothingBuffered
<1>11. ASSUME NEW t \in Thread, Measure(t)
      PROVE  Control'
    BY <1>11, SMTT(30) DEF Measure
<1>12. ASSUME NEW t \in Thread, PollItem(t)
      PROVE  Control'
    BY <1>12, SMTT(30) DEF PollItem
<1>13. ASSUME NEW t \in Thread, BatchTaken(t)
      PROVE  Control'
    BY <1>13, SMTT(30) DEF BatchTaken, EndRound
<1>14. ASSUME NEW t \in Thread, BatchDeclined(t)
      PROVE  Control'
    BY <1>14, SMTT(30) DEF BatchDeclined
<1>15. ASSUME NEW t \in Thread, BatchExpired(t)
      PROVE  Control'
    BY <1>15, SMTT(30) DEF BatchExpired
<1>16. ASSUME NEW t \in Thread, Reoffer(t)
      PROVE  Control'
    BY <1>16, SMTT(30) DEF Reoffer
<1>17. ASSUME NEW t \in Thread, ReofferNull(t)
      PROVE  Control'
    BY <1>17, SMTT(30) DEF ReofferNull, Messages
<1>18. ASSUME NEW t \in Thread, Reoffered(t)
      PROVE  Control'
    BY <1>18, SMTT(30) DEF Reoffered, EndRound
<1>19. ASSUME NEW t \in Thread, Connect(t)
      PROVE  Control'
    BY <1>19, SMTT(30) DEF Connect, PollRounds
<1>20. ASSUME NEW t \in Thread, PollDone(t)
      PROVE  Control'
    BY <1>20, SMTT(30) DEF PollDone
<1>21. ASSUME NEW t \in Thread, SubscribeDrained(t)
      PROVE  Control'
    BY <1>21, SMTT(30) DEF SubscribeDrained
<1>22. ASSUME NEW t \in Thread, Put(t)
      PROVE  Control'
    BY <1>22, SMTT(30) DEF Put
<1>23. ASSUME NEW t \in Thread, AlreadyPut(t)
      PROVE  Control'
    BY <1>23, SMTT(30) DEF AlreadyPut
<1>24. ASSUME NEW t \in Thread, Link(t)
      PROVE  Control'
    BY <1>24, SMTT(30) DEF Link
<1>25. ASSUME NEW t \in Thread, CloseChannel(t)
      PROVE  Control'
    BY <1>25, SMTT(30) DEF CloseChannel
<1>26. ASSUME NEW t \in Thread, LeaveSession(t)
      PROVE  Control'
    BY <1>26, SMTT(30) DEF LeaveSession
<1>27. ASSUME NEW t \in Thread, Unlink(t)
      PROVE  Control'
    BY <1>27, SMTT(30) DEF Unlink, OneLess
<1>28. ASSUME NEW t \in Thread, Remove(t)
      PROVE  Control'
    BY <1>28, SMTT(30) DEF Remove
<1>29. ASSUME NEW t \in Thread, Unsubscribed(t)
      PROVE  Control'
    BY <1>29, SMTT(30) DEF Unsubscribed
<1>30. ASSUME NEW t \in Thread, Invalidated(t)
      PROVE  Control'
    BY <1>30, SMTT(30) DEF Invalidated, ClearLinks
<1>31. ASSUME NEW t \in Thread, BackToPublish(t)
      PROVE  Control'
    BY <1>31, SMTT(30) DEF BackToPublish, ClearLinks
<1>32. ASSUME NEW t \in Thread, BackToDrain(t)
      PROVE  Control'
    BY <1>32, SMTT(30) DEF BackToDrain, ClearLinks
<1>33. ASSUME NEW t \in Thread, NEW m \in Message, Publish(t, m)
      PROVE  Control'
    BY <1>33, SMTT(30) DEF Publish
<1>34. ASSUME NEW t \in Thread, NEW p \in Page, Poll(t, p)
      PROVE  Control'
    BY <1>34, SMTT(30) DEF Poll
<1>35. ASSUME NEW t \in Thread, NEW p \in Page, Subscribe(t, p)
      PROVE  Control'
    BY <1>35, SMTT(30) DEF Subscribe
<1>36. ASSUME NEW t \in Thread, NEW p \in Page, Unsubscribe(t, p)
      PROVE  Control'
    BY <1>36, SMTT(30) DEF Unsubscribe
<1>37. ASSUME NEW t \in Thread, NEW p \in Page, Invalidate(t, p)
      PROVE  Control'
    BY <1>37, SMTT(30) DEF Invalidate
<1>38. ASSUME NEW p \in Page, Disconnect(p)
      PROVE  Control'
    BY <1>38, SMTT(30) DEF Disconnect
<1>39. ASSUME NEW p \in Page, BecomeIdle(p)
      PROVE  Control'
    BY <1>39, SMTT(30) DEF BecomeIdle
<1>40. ASSUME NEW p \in Page, Heartbeat(p)
      PROVE  Control'
    BY <1>40, SMTT(30) DEF Heartbeat
<1>41. ASSUME NEW t \in Thread, Step(t) PROVE Control'
      BY <1>41, <1>1, <1>2, <1>3, <1>4, <1>5, <1>6, <1>7, <1>8,
         <1>9, <1>10, <1>11, <1>12, <1>13, <1>14, <1>15, <1>16,
         <1>17, <1>18, <1>19, <1>20, <1>21, <1>22, <1>23, <1>24,
         <1>25, <1>26, <1>27, <1>28, <1>29, <1>30, <1>31, <1>32
      DEF Step, PublishStep, DrainStep, RegistryStep
<1>42. ASSUME NEW t \in Thread, Request(t) PROVE Control'
      BY <1>42, <1>33, <1>34, <1>35, <1>36, <1>37 DEF Request
<1>43. ASSUME NEW p \in Page, Environment(p) PROVE Control'
      BY <1>43, <1>38, <1>39, <1>40 DEF Environment
<1>44. CASE UNCHANGED vars
      BY <1>44
<1> QED
      BY <1>41, <1>42, <1>43, <1>44 DEF Next

-----------------------------------------------------------------------------
(* Sequences of messages: what Append, Tail and Count do to their members. *)

LEMMA AppendMessages ==
    ASSUME NEW s \in Seq(Message \cup {Null}), NEW x \in Message \cup {Null}
    PROVE  Messages(Append(s, x)) = Messages(s) \cup ({x} \ {Null})
PROOF
<1> DEFINE a == Append(s, x)
<1>1. /\ DOMAIN a = 1 .. Len(s) + 1
      /\ DOMAIN s = 1 .. Len(s)
      /\ Len(s) \in Nat
      /\ \A i \in 1 .. Len(s) : a[i] = s[i]
      /\ a[Len(s) + 1] = x
    OBVIOUS
<1> HIDE DEF a
<1>2. {a[i] : i \in DOMAIN a} = {s[i] : i \in DOMAIN s} \cup {x}
    BY <1>1
<1> QED
    BY <1>2 DEF Messages, a

LEMMA TailMessages ==
    ASSUME NEW s \in Seq(Message \cup {Null}), s # << >>,
           \A i, j \in DOMAIN s : s[i] = s[j] /\ s[i] # Null => i = j
    PROVE  /\ Messages(Tail(s)) = Messages(s) \ {Head(s)}
           /\ \A i \in DOMAIN Tail(s) : i + 1 \in DOMAIN s /\ Tail(s)[i] = s[i + 1]
           /\ Head(s) = s[1] /\ 1 \in DOMAIN s
PROOF
<1> DEFINE r == Tail(s)
<1>1. /\ DOMAIN s = 1 .. Len(s)
      /\ DOMAIN r = 1 .. Len(s) - 1
      /\ Len(s) \in Nat \ {0}
      /\ \A i \in 1 .. Len(s) - 1 : r[i] = s[i + 1]
      /\ Head(s) = s[1]
    BY HeadTailProperties, LenProperties, EmptySeq
<1> HIDE DEF r
<1>2. \A i \in DOMAIN r : i + 1 \in DOMAIN s /\ r[i] = s[i + 1]
    BY <1>1
<1>3. \A i \in DOMAIN s : i = 1 \/ (i - 1 \in DOMAIN r /\ r[i - 1] = s[i])
    BY <1>1
<1>4. Messages(r) = Messages(s) \ {Head(s)}
  <2>1. \A x \in Messages(r) : x \in Messages(s) /\ x # Head(s)
      BY <1>1, <1>2 DEF Messages
  <2>2. \A x \in Messages(s) : x # Head(s) => x \in Messages(r)
      BY <1>1, <1>3 DEF Messages
  <2> QED
      BY <2>1, <2>2
<1> QED
    BY <1>1, <1>2, <1>4 DEF r

LEMMA CountOnce ==
    ASSUME NEW s \in Seq(Message \cup {Null}), NEW m \in Message,
           \A i, j \in DOMAIN s : s[i] = s[j] /\ s[i] # Null => i = j
    PROVE  Count(m, s) = IF m \in Messages(s) THEN 1 ELSE 0
PROOF
<1> DEFINE I == {i \in DOMAIN s : s[i] = m}
<1>0. m # Null
    BY QueueAssumption
<1>1. CASE m \in Messages(s)
  <2>1. PICK k \in DOMAIN s : s[k] = m
      BY <1>1 DEF Messages
  <2>2. I = {k}
      BY <1>0, <2>1
  <2> QED
      BY <1>1, <2>2, FS_Singleton DEF Count
<1>2. CASE m \notin Messages(s)
  <2>1. I = {}
      BY <1>0, <1>2 DEF Messages
  <2> QED
      BY <1>2, <2>1, FS_EmptySet DEF Count
<1> QED
    BY <1>1, <1>2

-----------------------------------------------------------------------------
(* The ledger: each step moves messages from one place to the next.        *)

ledger == <<buffered, msg, batch, published, refused, lost, copies>>

LEMMA LedgerFrame ==
    ASSUME Ledger, UNCHANGED ledger
    PROVE  Ledger'
PROOF
<1>1. /\ Carried' = Carried /\ Queued' = Queued /\ Drained' = Drained
      /\ Written' = Written
    BY DEF ledger, Carried, Queued, Drained, Written, Messages
<1>2. BufferedOnce' /\ CarriedOnce' /\ DrainedOnce' /\ AtMostOnce'
    BY DEF ledger, Ledger, BufferedOnce, CarriedOnce, DrainedOnce, AtMostOnce
<1>3. Apart' /\ Accounted'
    BY <1>1 DEF ledger, Ledger, Apart, Accounted, Pending, Settled
<1> QED
    BY <1>2, <1>3 DEF Ledger

\* A publisher lets go of its message.
LEMMA Uncarried ==
    ASSUME ThreadOK, CarriedOnce, NEW t \in Thread, msg[t] # Null,
           msg' = [msg EXCEPT ![t] = Null]
    PROVE  /\ CarriedOnce'
           /\ msg[t] \in Carried
           /\ Carried' = Carried \ {msg[t]}
PROOF
<1>1. CarriedOnce'
    BY DEF ThreadOK, CarriedOnce
<1>2. msg[t] \in Carried
    BY DEF Carried
<1>3. Carried' = Carried \ {msg[t]}
  <2>1. \A x \in Carried' : x \in Carried /\ x # msg[t]
      BY DEF Carried, CarriedOnce, ThreadOK
  <2>2. \A x \in Carried : x # msg[t] => x \in Carried'
      BY DEF Carried, ThreadOK
  <2> QED
      BY <2>1, <2>2
<1> QED
    BY <1>1, <1>2, <1>3

\* A page is written commands that were written to no page before.
LEMMA DeliverOnce ==
    ASSUME TypeOK, AtMostOnce, NEW p \in Page,
           NEW s \in Seq(Message \cup {Null}),
           \A i, j \in DOMAIN s : s[i] = s[j] /\ s[i] # Null => i = j,
           Messages(s) \cap Written = {},
           Deliver(p, s)
    PROVE  /\ AtMostOnce'
           /\ Written' = Written \cup Messages(s)
PROOF
<1>1. \A m \in Message : Count(m, s) = IF m \in Messages(s) THEN 1 ELSE 0
    BY CountOnce
<1>2. \A m \in Message :
          copies'[m] = copies[m] + (IF m \in Messages(s) THEN 1 ELSE 0)
    BY <1>1 DEF Deliver
<1>3. \A m \in Messages(s) : m \in Message /\ copies[m] = 0
  <2>1. Messages(s) \subseteq Message
      BY DEF Messages
  <2> QED
      BY <2>1 DEF Written, TypeOK, HistoryOK
<1>4. AtMostOnce'
    BY <1>2, <1>3 DEF AtMostOnce, TypeOK, HistoryOK
<1>5. Written' = Written \cup Messages(s)
    BY <1>2, <1>3 DEF Written, TypeOK, HistoryOK
<1> QED
    BY <1>4, <1>5

\* An array is given up.
LEMMA Undrained ==
    ASSUME ThreadOK, DrainedOnce, NEW t \in Thread,
           batch' = [batch EXCEPT ![t] = << >>]
    PROVE  /\ DrainedOnce'
           /\ Messages(batch[t]) \subseteq Drained
           /\ Drained' = Drained \ Messages(batch[t])
PROOF
<1>1. batch'[t] = << >> /\ \A u \in Thread \ {t} : batch'[u] = batch[u]
    BY DEF ThreadOK
<1>2. DrainedOnce'
    BY <1>1 DEF DrainedOnce
<1>3. Messages(batch'[t]) = {}
    BY <1>1 DEF Messages
<1>4. \A u \in Thread \ {t} :
          /\ Messages(batch'[u]) = Messages(batch[u])
          /\ Messages(batch[u]) \cap Messages(batch[t]) = {}
    BY <1>1 DEF Messages, DrainedOnce
<1>5. Drained' = UNION {Messages(batch'[u]) : u \in Thread}
    BY DEF Drained, Messages
<1> QED
    BY <1>2, <1>3, <1>4, <1>5 DEF Drained

\* An array gets a null, gets a message, gives its first message back.
LEMMA NullDrained ==
    ASSUME ThreadOK, DrainedOnce, NEW t \in Thread,
           batch' = [batch EXCEPT ![t] = Append(@, Null)]
    PROVE  Drained' = Drained /\ DrainedOnce'
PROOF
<1> DEFINE b == Append(batch[t], Null)
<1>1. batch[t] \in Seq(Message \cup {Null})
    BY DEF ThreadOK
<1>2. /\ DOMAIN b = DOMAIN batch[t] \cup {Len(batch[t]) + 1}
      /\ \A i \in DOMAIN batch[t] : b[i] = batch[t][i]
      /\ b[Len(batch[t]) + 1] = Null
    BY <1>1
<1>3. Messages(b) = Messages(batch[t])
    BY <1>1, AppendMessages
<1> HIDE DEF b
<1>4. batch'[t] = b /\ \A u \in Thread \ {t} : batch'[u] = batch[u]
    BY DEF ThreadOK, b
<1>5. DrainedOnce'
    BY <1>2, <1>4 DEF DrainedOnce
<1>6. \A u \in Thread : Messages(batch'[u]) = Messages(batch[u])
    BY <1>3, <1>4
<1>7. Drained' = UNION {Messages(batch'[u]) : u \in Thread}
    BY DEF Drained, Messages
<1> QED
    BY <1>5, <1>6, <1>7 DEF Drained

LEMMA MessageDrained ==
    ASSUME ThreadOK, DrainedOnce, NEW t \in Thread, NEW m \in Message,
           m # Null, m \notin Drained,
           batch' = [batch EXCEPT ![t] = Append(@, m)]
    PROVE  Drained' = Drained \cup {m} /\ DrainedOnce'
PROOF
<1> DEFINE b == Append(batch[t], m)
<1>1. batch[t] \in Seq(Message \cup {Null})
    BY DEF ThreadOK
<1>2. /\ DOMAIN b = DOMAIN batch[t] \cup {Len(batch[t]) + 1}
      /\ \A i \in DOMAIN batch[t] : b[i] = batch[t][i]
      /\ b[Len(batch[t]) + 1] = m
    BY <1>1
<1>3. Messages(b) = Messages(batch[t]) \cup {m}
    BY <1>1, AppendMessages
<1> HIDE DEF b
<1>4. batch'[t] = b /\ \A u \in Thread \ {t} : batch'[u] = batch[u]
    BY DEF ThreadOK, b
<1>5. \A u \in Thread : \A i \in DOMAIN batch[u] : batch[u][i] # m
    BY DEF Drained, Messages
<1>6. DrainedOnce'
    BY <1>2, <1>4, <1>5 DEF DrainedOnce
<1>7. \A u \in Thread \ {t} : Messages(batch'[u]) = Messages(batch[u])
    BY <1>4
<1>8. Drained' = UNION {Messages(batch'[u]) : u \in Thread}
    BY DEF Drained, Messages
<1>9. Messages(batch'[t]) = Messages(batch[t]) \cup {m}
    BY <1>3, <1>4
<1>10. Drained' = Drained \cup {m}
  <2>1. \A x : x \in Drained' <=>
            \/ x \in Messages(batch'[t])
            \/ \E u \in Thread \ {t} : x \in Messages(batch'[u])
      BY ONLY <1>8, t \in Thread
  <2>2. \A x : x \in Drained <=>
            \/ x \in Messages(batch[t])
            \/ \E u \in Thread \ {t} : x \in Messages(batch[u])
      BY ONLY t \in Thread DEF Drained
  <2> QED
      BY ONLY <1>7, <1>9, <2>1, <2>2
<1> QED
    BY <1>6, <1>10

LEMMA HeadUndrained ==
    ASSUME ThreadOK, DrainedOnce, NEW t \in Thread,
           batch[t] # << >>, Head(batch[t]) # Null,
           batch' = [batch EXCEPT ![t] = Tail(@)]
    PROVE  /\ DrainedOnce' /\ Head(batch[t]) \in Drained
           /\ Drained' = Drained \ {Head(batch[t])}
PROOF
<1> DEFINE b == Tail(batch[t])
           m == Head(batch[t])
<1>1. batch[t] \in Seq(Message \cup {Null})
    BY DEF ThreadOK
<1>2. /\ Messages(b) = Messages(batch[t]) \ {m}
      /\ \A i \in DOMAIN b : i + 1 \in DOMAIN batch[t] /\ b[i] = batch[t][i + 1]
      /\ m = batch[t][1] /\ 1 \in DOMAIN batch[t]
    BY <1>1, TailMessages DEF DrainedOnce
<1>3. DOMAIN b \subseteq Nat \ {0}
    BY <1>1, HeadTailProperties, LenProperties
<1>4. m # Null
    OBVIOUS
<1> HIDE DEF b, m
<1>5. batch'[t] = b /\ \A u \in Thread \ {t} : batch'[u] = batch[u]
    BY DEF ThreadOK, b
<1>6. \A u \in Thread : DOMAIN batch[u] \subseteq Nat
    BY LenProperties DEF ThreadOK
<1>7. DrainedOnce'
  <2> SUFFICES ASSUME NEW u \in Thread, NEW v \in Thread,
                      NEW i \in DOMAIN batch'[u], NEW j \in DOMAIN batch'[v],
                      batch'[u][i] = batch'[v][j], batch'[u][i] # Null
               PROVE  u = v /\ i = j
      BY DEF DrainedOnce
  <2>1. CASE u = t /\ v = t
    <3>1. i + 1 = j + 1
        BY <1>2, <1>5, <2>1 DEF DrainedOnce
    <3> QED
        BY <1>3, <1>5, <2>1, <3>1
  <2>2. CASE u = t /\ v # t
      BY <1>2, <1>5, <2>2 DEF DrainedOnce
  <2>3. CASE u # t /\ v = t
      BY <1>2, <1>5, <2>3 DEF DrainedOnce
  <2>4. CASE u # t /\ v # t
      BY <1>5, <2>4 DEF DrainedOnce
  <2> QED
      BY <2>1, <2>2, <2>3, <2>4
<1>8. m \in Messages(batch[t]) /\ m \in Drained
    BY <1>2, <1>4 DEF Messages, Drained
<1>9. \A u \in Thread \ {t} :
          Messages(batch'[u]) = Messages(batch[u]) /\ m \notin Messages(batch[u])
    BY <1>2, <1>4, <1>5 DEF Messages, DrainedOnce
<1>10. \A x : x \in Drained <=> \E u \in Thread : x \in Messages(batch[u])
    BY DEF Drained
<1>11. \A x : x \in Drained' <=> \E u \in Thread : x \in Messages(batch'[u])
    BY DEF Drained, Messages
<1>12. Messages(batch'[t]) = Messages(batch[t]) \ {m}
    BY <1>2, <1>5
<1>13. \A x : x \in Drained' <=> x \in Drained /\ x # m
    BY <1>9, <1>10, <1>11, <1>12
<1> QED
    BY <1>7, <1>8, <1>13 DEF m

\* The queue gets a message it does not hold.
LEMMA AppendOnce ==
    ASSUME buffered \in Seq(Message), BufferedOnce, NEW m \in Message,
           \A i \in DOMAIN buffered : buffered[i] # m,
           buffered' = Append(buffered, m)
    PROVE  BufferedOnce'
PROOF
<1>1. /\ DOMAIN buffered' = DOMAIN buffered \cup {Len(buffered) + 1}
      /\ \A i \in DOMAIN buffered : buffered'[i] = buffered[i]
      /\ buffered'[Len(buffered) + 1] = m
    OBVIOUS
<1> QED
    BY <1>1 DEF BufferedOnce

LEMMA LedgerStep ==
    ASSUME TypeOK, Control, Ledger, [Next]_vars
    PROVE  Ledger'
PROOF
<1> USE QueueAssumption DEF TypeOK, SharedOK, ThreadOK, HistoryOK, Ledger

<1>1. ASSUME NEW t \in Thread, NEW m \in Message, Publish(t, m)
      PROVE  Ledger'
  <2>1. msg[t] = Null /\ m \notin published
      BY <1>1 DEF Publish, Begin, Control, Controlled
  <2>2. Carried' = Carried \cup {m}
    <3>1. msg'[t] = m /\ \A u \in Thread \ {t} : msg'[u] = msg[u]
        BY <1>1 DEF Publish
    <3>2. \A x \in Carried' : x \in Carried \cup {m}
        BY <3>1 DEF Carried
    <3>3. \A x \in Carried : x \in Carried'
      <4> SUFFICES ASSUME NEW x \in Carried PROVE x \in Carried'
          OBVIOUS
      <4>1. PICK u \in Thread : msg[u] = x /\ x # Null
          BY DEF Carried
      <4>2. u # t /\ msg'[u] = x
          BY <2>1, <3>1, <4>1
      <4> QED
          BY <4>1, <4>2 DEF Carried
    <3>4. m \in Carried'
        BY <3>1 DEF Carried
    <3> QED
        BY <3>2, <3>3, <3>4
  <2>3. UNCHANGED <<Queued, Drained, Written, refused, lost>>
      BY <1>1 DEF Publish, Queued, Drained, Written, Messages, destination,
             draining
  <2>4. m \notin Pending /\ m \notin Settled
      BY <2>1 DEF Accounted
  <2>5. CarriedOnce'
    <3>1. msg'[t] = m /\ \A u \in Thread \ {t} : msg'[u] = msg[u]
        BY <1>1 DEF Publish
    <3>2. \A u \in Thread : msg[u] # m \/ m = Null
        BY <2>4 DEF Pending, Carried
    <3>3. CarriedOnce
        BY DEF Ledger
    <3> QED
        BY ONLY <3>1, <3>2, <3>3 DEF CarriedOnce
  <2>6. BufferedOnce' /\ DrainedOnce' /\ AtMostOnce'
    <3>1. UNCHANGED <<buffered, batch, copies>>
        BY <1>1 DEF Publish, destination, draining
    <3>2. BufferedOnce /\ DrainedOnce /\ AtMostOnce
        BY DEF Ledger
    <3> QED
        BY ONLY <3>1, <3>2 DEF BufferedOnce, DrainedOnce, AtMostOnce
  <2>7. Apart'
      BY <2>2, <2>3, <2>4 DEF Apart, Pending
  <2>8. Accounted'
      BY <1>1, <2>2, <2>3, <2>4 DEF Publish, Accounted, Pending, Settled
  <2> QED
      BY <2>5, <2>6, <2>7, <2>8

<1>2. ASSUME NEW t \in Thread, NEW p \in Page, PageTakes(t, p)
      PROVE  Ledger'
  <2>1. msg[t] # Null /\ msg[t] \in Message
      BY <1>2 DEF PageTakes, AtPage, Control, Controlled, InPublish
  <2>2. /\ CarriedOnce' /\ msg[t] \in Carried
        /\ Carried' = Carried \ {msg[t]}
      BY <1>2, <2>1, Uncarried DEF PageTakes
  <2>3. UNCHANGED <<Queued, Drained, published, refused, lost>>
      BY <1>2 DEF PageTakes, Deliver, Queued, Drained, Messages, destination,
             draining
  <2>4. Messages(<<msg[t]>>) = {msg[t]}
      BY <2>1 DEF Messages
  <2>5. msg[t] \notin Queued \cup Drained /\ msg[t] \notin Settled
      BY <2>2 DEF Apart, Accounted, Pending
  <2>6. AtMostOnce' /\ Written' = Written \cup {msg[t]}
    <3>1. <<msg[t]>> \in Seq(Message \cup {Null})
        BY <2>1
    <3>2. \A i, j \in DOMAIN <<msg[t]>> : i = j
        OBVIOUS
    <3>3. Messages(<<msg[t]>>) \cap Written = {}
        BY <2>4, <2>5 DEF Settled
    <3> QED
        BY <1>2, <2>4, <3>1, <3>2, <3>3, DeliverOnce DEF PageTakes
  <2>7. BufferedOnce' /\ DrainedOnce'
      BY <1>2 DEF PageTakes, BufferedOnce, DrainedOnce, destination, draining
  <2>8. Apart'
      BY <2>2, <2>3 DEF Apart
  <2>9. Accounted'
      BY <2>2, <2>3, <2>5, <2>6 DEF Accounted, Pending, Settled
  <2> QED
      BY <2>2, <2>6, <2>7, <2>8, <2>9

<1>3. ASSUME NEW t \in Thread, Refuse(t)
      PROVE  Ledger'
  <2>1. msg[t] # Null
      BY <1>3 DEF Refuse, Control, Controlled, InPublish
  <2>2. /\ CarriedOnce' /\ msg[t] \in Carried
        /\ Carried' = Carried \ {msg[t]}
      BY <1>3, <2>1, Uncarried DEF Refuse
  <2>3. UNCHANGED <<Queued, Drained, Written, published, lost>>
      BY <1>3 DEF Refuse, Queued, Drained, Written, Messages, destination,
             draining
  <2>4. BufferedOnce' /\ DrainedOnce' /\ AtMostOnce'
      BY <1>3 DEF Refuse, BufferedOnce, DrainedOnce, AtMostOnce, destination,
             draining
  <2>5. Apart'
      BY <2>2, <2>3 DEF Apart
  <2>6. msg[t] \notin Queued \cup Drained
      BY <2>2 DEF Apart
  <2>7. Accounted'
      BY <1>3, <2>2, <2>3, <2>6 DEF Refuse, Accounted, Pending, Settled
  <2> QED
      BY <2>2, <2>4, <2>5, <2>7

<1>4. ASSUME NEW t \in Thread, Offer(t)
      PROVE  Ledger'
  <2>1. msg[t] # Null /\ msg[t] \in Message
      BY <1>4 DEF Offer, Control, Controlled, InPublish
  <2>2. /\ CarriedOnce' /\ msg[t] \in Carried
        /\ Carried' = Carried \ {msg[t]}
      BY <1>4, <2>1, Uncarried DEF Offer
  <2>3. UNCHANGED <<Drained, Written, published, refused, lost>>
      BY <1>4 DEF Offer, Drained, Written, Messages, draining, history
  <2>4. Queued' = Queued \cup {msg[t]}
    <3>1. buffered \in Seq(Message \cup {Null})
        OBVIOUS
    <3>2. buffered' = Append(buffered, msg[t])
        BY <1>4 DEF Offer
    <3>3. Messages(buffered') = Messages(buffered) \cup {msg[t]}
        BY <2>1, <3>1, <3>2, AppendMessages
    <3> QED
        BY <3>3 DEF Queued
  <2>5. msg[t] \notin Queued \cup Drained
      BY <2>2 DEF Apart
  <2>6. BufferedOnce'
    <3>1. buffered' = Append(buffered, msg[t])
        BY <1>4 DEF Offer
    <3>2. \A i \in DOMAIN buffered : buffered[i] # msg[t]
        BY <2>1, <2>5 DEF Queued, Messages
    <3> QED
        BY <2>1, <3>1, <3>2, AppendOnce
  <2>7. DrainedOnce' /\ AtMostOnce'
    <3>1. UNCHANGED <<batch, copies>>
        BY <1>4 DEF Offer, history, draining
    <3>2. DrainedOnce /\ AtMostOnce
        BY DEF Ledger
    <3> QED
        BY ONLY <3>1, <3>2 DEF DrainedOnce, AtMostOnce
  <2>8. Apart'
      BY <2>2, <2>3, <2>4, <2>5 DEF Apart
  <2>9. Accounted'
      BY <2>2, <2>3, <2>4 DEF Accounted, Pending, Settled
  <2> QED
      BY <2>2, <2>6, <2>7, <2>8, <2>9

<1>5. ASSUME NEW t \in Thread, PollItem(t)
      PROVE  Ledger'
  <2>1. UNCHANGED <<msg, published, refused, lost, copies>>
      BY <1>5 DEF PollItem, history
  <2>2. UNCHANGED <<Carried, Written>> /\ CarriedOnce' /\ AtMostOnce'
      BY <2>1 DEF Carried, Written, CarriedOnce, AtMostOnce
  <2>3. batch' = [batch EXCEPT ![t] = Append(@, Head0(buffered))]
      BY <1>5 DEF PollItem
  <2>4. CASE buffered = << >>
    <3>1. UNCHANGED <<buffered, Queued>> /\ BufferedOnce'
        BY <1>5, <2>4 DEF PollItem, Tail0, Queued, Messages, BufferedOnce
    <3>2. Drained' = Drained /\ DrainedOnce'
        BY <2>3, <2>4, NullDrained DEF Head0
    <3> QED
        BY <2>1, <2>2, <3>1, <3>2 DEF Apart, Accounted, Pending, Settled
  <2>5. CASE buffered # << >>
    <3> DEFINE m == Head(buffered)
    <3>1. /\ m = buffered[1] /\ 1 \in DOMAIN buffered
          /\ Messages(Tail(buffered)) = Messages(buffered) \ {m}
          /\ \A i \in DOMAIN Tail(buffered) :
                i + 1 \in DOMAIN buffered /\ Tail(buffered)[i] = buffered[i + 1]
      <4>1. buffered \in Seq(Message \cup {Null})
          OBVIOUS
      <4> QED
          BY <2>5, <4>1, TailMessages DEF BufferedOnce
    <3>2. m \in Message /\ m # Null
        BY <3>1
    <3>3. buffered' = Tail(buffered) /\ Head0(buffered) = m
        BY <1>5, <2>5 DEF PollItem, Tail0, Head0
    <3>4. m \in Queued /\ Queued' = Queued \ {m}
      <4>1. m \in Messages(buffered)
          BY <3>1, <3>2 DEF Messages
      <4>2. Messages(buffered') = Messages(buffered) \ {m}
          BY <3>1, <3>3
      <4> QED
          BY <4>1, <4>2 DEF Queued
    <3>5. BufferedOnce'
      <4>1. DOMAIN Tail(buffered) \subseteq Nat
          BY <2>5, HeadTailProperties, LenProperties
      <4> QED
          BY <3>1, <3>3, <4>1 DEF BufferedOnce
    <3>6. m \notin Drained
        BY <3>4 DEF Apart
    <3>7. Drained' = Drained \cup {m} /\ DrainedOnce'
        BY <2>3, <3>2, <3>3, <3>6, MessageDrained
    <3>8. Apart'
        BY <2>2, <3>4, <3>7 DEF Apart
    <3>9. Accounted'
        BY <2>1, <2>2, <3>4, <3>7 DEF Accounted, Pending, Settled
    <3> QED
        BY <2>2, <3>5, <3>7, <3>8, <3>9
  <2> QED
      BY <2>4, <2>5

<1>6. ASSUME NEW t \in Thread, BatchTaken(t)
      PROVE  Ledger'
  <2>1. page[t] \in Page /\ Deliver(page[t], batch[t])
      BY <1>6 DEF BatchTaken, Control, Controlled, InDrain, OnPage
  <2>2. UNCHANGED <<buffered, msg, published, refused, lost>>
      BY <1>6 DEF BatchTaken, Deliver, destination
  <2>3. UNCHANGED <<Carried, Queued>> /\ BufferedOnce' /\ CarriedOnce'
      BY <2>2 DEF Carried, Queued, Messages, BufferedOnce, CarriedOnce
  <2>4. /\ DrainedOnce' /\ Messages(batch[t]) \subseteq Drained
        /\ Drained' = Drained \ Messages(batch[t])
      BY <1>6, Undrained DEF BatchTaken, EndRound
  <2>5. AtMostOnce' /\ Written' = Written \cup Messages(batch[t])
    <3>1. batch[t] \in Seq(Message \cup {Null})
        OBVIOUS
    <3>2. Messages(batch[t]) \cap Written = {}
        BY <2>4 DEF Accounted, Pending, Settled
    <3> QED
        BY <2>1, <3>1, <3>2, DeliverOnce DEF DrainedOnce
  <2>6. Apart'
      BY <2>3, <2>4 DEF Apart
  <2>7. Accounted'
      BY <2>2, <2>3, <2>4, <2>5 DEF Accounted, Pending, Settled, Apart
  <2> QED
      BY <2>3, <2>4, <2>5, <2>6, <2>7

<1>7. ASSUME NEW t \in Thread, Reoffer(t)
      PROVE  Ledger'
  <2> DEFINE m == Head(batch[t])
  <2>1. UNCHANGED <<msg, published, refused, lost, copies>>
      BY <1>7 DEF Reoffer
  <2>2. UNCHANGED <<Carried, Written>> /\ CarriedOnce' /\ AtMostOnce'
      BY <2>1 DEF Carried, Written, CarriedOnce, AtMostOnce
  <2>3. /\ batch[t] \in Seq(Message \cup {Null}) /\ batch[t] # << >>
        /\ m # Null /\ buffered' = Append(buffered, m)
        /\ batch' = [batch EXCEPT ![t] = Tail(@)]
      BY <1>7 DEF Reoffer
  <2>4. m \in Message
      BY <2>3, HeadTailProperties
  <2>5. /\ DrainedOnce' /\ m \in Drained
        /\ Drained' = Drained \ {m}
      BY <2>3, HeadUndrained
  <2>6. m \notin Queued
      BY <2>5 DEF Apart
  <2>7. Queued' = Queued \cup {m}
    <3>1. buffered \in Seq(Message \cup {Null})
        OBVIOUS
    <3>2. Messages(buffered') = Messages(buffered) \cup {m}
        BY <2>3, <2>4, <3>1, AppendMessages
    <3> QED
        BY <3>2 DEF Queued
  <2>8. BufferedOnce'
    <3>1. \A i \in DOMAIN buffered : buffered[i] # m
        BY <2>3, <2>6 DEF Queued, Messages
    <3> QED
        BY <2>3, <2>4, <3>1, AppendOnce
  <2>9. Apart'
      BY <2>2, <2>5, <2>7 DEF Apart
  <2>10. Accounted'
      BY <2>1, <2>2, <2>5, <2>7 DEF Accounted, Pending, Settled
  <2> QED
      BY <2>2, <2>5, <2>8, <2>9, <2>10

<1>8. ASSUME NEW t \in Thread, ReofferNull(t)
      PROVE  Ledger'
  <2>1. UNCHANGED <<buffered, msg, published, refused, copies>>
      BY <1>8 DEF ReofferNull, destination
  <2>2. /\ UNCHANGED <<Carried, Queued, Written>>
        /\ BufferedOnce' /\ CarriedOnce' /\ AtMostOnce'
      BY <2>1 DEF Carried, Queued, Written, Messages, BufferedOnce,
             CarriedOnce, AtMostOnce
  <2>3. lost' = lost \cup Messages(batch[t])
      BY <1>8 DEF ReofferNull
  <2>4. /\ DrainedOnce' /\ Messages(batch[t]) \subseteq Drained
        /\ Drained' = Drained \ Messages(batch[t])
      BY <1>8, Undrained DEF ReofferNull
  <2>5. Apart'
      BY <2>2, <2>4 DEF Apart
  <2>6. Accounted'
      BY <2>1, <2>2, <2>3, <2>4 DEF Accounted, Pending, Settled, Apart
  <2> QED
      BY <2>2, <2>4, <2>5, <2>6

<1>9. ASSUME NEW t \in Thread, Reoffered(t)
      PROVE  Ledger'
  <2>1. batch' = batch
      BY <1>9 DEF Reoffered, EndRound
  <2> QED
      BY <1>9, <2>1, LedgerFrame DEF Reoffered, ledger, destination, history
<1>10. ASSUME NEW t \in Thread, CheckPages(t)
      PROVE  Ledger'
    BY <1>10, LedgerFrame DEF CheckPages, Move, Return, ledger,
       destination, draining, history
<1>11. ASSUME NEW t \in Thread, PagesExhausted(t)
      PROVE  Ledger'
    BY <1>11, LedgerFrame DEF PagesExhausted, Move, Return, ledger,
       destination, draining, history
<1>12. ASSUME NEW t \in Thread, NEW p \in Page, PageDeclines(t, p)
      PROVE  Ledger'
    BY <1>12, LedgerFrame DEF PageDeclines, AtPage, Move, Return, ledger,
       destination, draining, history
<1>13. ASSUME NEW t \in Thread, NEW p \in Page, PageExpired(t, p)
      PROVE  Ledger'
    BY <1>13, LedgerFrame DEF PageExpired, Move, Return, ledger,
       destination, draining, history
<1>14. ASSUME NEW t \in Thread, NEW p \in Page, SkipRemoved(t, p)
      PROVE  Ledger'
    BY <1>14, LedgerFrame DEF SkipRemoved, Move, Return, ledger,
       destination, draining, history
<1>15. ASSUME NEW t \in Thread, FindRoom(t)
      PROVE  Ledger'
    BY <1>15, LedgerFrame DEF FindRoom, Move, Return, ledger,
       destination, draining, history
<1>16. ASSUME NEW t \in Thread, NothingBuffered(t)
      PROVE  Ledger'
    BY <1>16, LedgerFrame DEF NothingBuffered, Move, Return, ledger,
       destination, draining, history
<1>17. ASSUME NEW t \in Thread, Measure(t)
      PROVE  Ledger'
    BY <1>17, LedgerFrame DEF Measure, Move, Return, ledger,
       destination, draining, history
<1>18. ASSUME NEW t \in Thread, BatchDeclined(t)
      PROVE  Ledger'
    BY <1>18, LedgerFrame DEF BatchDeclined, Move, Return, ledger,
       destination, draining, history
<1>19. ASSUME NEW t \in Thread, BatchExpired(t)
      PROVE  Ledger'
    BY <1>19, LedgerFrame DEF BatchExpired, Move, Return, ledger,
       destination, draining, history
<1>20. ASSUME NEW t \in Thread, Connect(t)
      PROVE  Ledger'
    BY <1>20, LedgerFrame DEF Connect, Move, Return, ledger,
       destination, draining, history
<1>21. ASSUME NEW t \in Thread, PollDone(t)
      PROVE  Ledger'
    BY <1>21, LedgerFrame DEF PollDone, Move, Return, ledger,
       destination, draining, history
<1>22. ASSUME NEW t \in Thread, SubscribeDrained(t)
      PROVE  Ledger'
    BY <1>22, LedgerFrame DEF SubscribeDrained, Move, Return, ledger,
       destination, draining, history
<1>23. ASSUME NEW t \in Thread, Put(t)
      PROVE  Ledger'
    BY <1>23, LedgerFrame DEF Put, Move, Return, ledger,
       destination, draining, history
<1>24. ASSUME NEW t \in Thread, AlreadyPut(t)
      PROVE  Ledger'
    BY <1>24, LedgerFrame DEF AlreadyPut, Move, Return, ledger,
       destination, draining, history
<1>25. ASSUME NEW t \in Thread, Link(t)
      PROVE  Ledger'
    BY <1>25, LedgerFrame DEF Link, Move, Return, ledger,
       destination, draining, history
<1>26. ASSUME NEW t \in Thread, CloseChannel(t)
      PROVE  Ledger'
    BY <1>26, LedgerFrame DEF CloseChannel, Move, Return, ledger,
       destination, draining, history
<1>27. ASSUME NEW t \in Thread, LeaveSession(t)
      PROVE  Ledger'
    BY <1>27, LedgerFrame DEF LeaveSession, Move, Return, ledger,
       destination, draining, history
<1>28. ASSUME NEW t \in Thread, Unlink(t)
      PROVE  Ledger'
    BY <1>28, LedgerFrame DEF Unlink, Move, Return, ledger,
       destination, draining, history
<1>29. ASSUME NEW t \in Thread, Remove(t)
      PROVE  Ledger'
    BY <1>29, LedgerFrame DEF Remove, Move, Return, ledger,
       destination, draining, history
<1>30. ASSUME NEW t \in Thread, Unsubscribed(t)
      PROVE  Ledger'
    BY <1>30, LedgerFrame DEF Unsubscribed, Move, Return, ledger,
       destination, draining, history
<1>31. ASSUME NEW t \in Thread, Invalidated(t)
      PROVE  Ledger'
    BY <1>31, LedgerFrame DEF Invalidated, ClearLinks, Move, Return, ledger,
       destination, draining, history
<1>32. ASSUME NEW t \in Thread, BackToPublish(t)
      PROVE  Ledger'
    BY <1>32, LedgerFrame DEF BackToPublish, ClearLinks, Move, Return, ledger,
       destination, draining, history
<1>33. ASSUME NEW t \in Thread, BackToDrain(t)
      PROVE  Ledger'
    BY <1>33, LedgerFrame DEF BackToDrain, ClearLinks, Move, Return, ledger,
       destination, draining, history
<1>34. ASSUME NEW t \in Thread, NEW p \in Page, Poll(t, p)
      PROVE  Ledger'
    BY <1>34, LedgerFrame DEF Poll, Move, Return, ledger,
       destination, draining, history
<1>35. ASSUME NEW t \in Thread, NEW p \in Page, Subscribe(t, p)
      PROVE  Ledger'
    BY <1>35, LedgerFrame DEF Subscribe, Move, Return, ledger,
       destination, draining, history
<1>36. ASSUME NEW t \in Thread, NEW p \in Page, Unsubscribe(t, p)
      PROVE  Ledger'
    BY <1>36, LedgerFrame DEF Unsubscribe, Move, Return, ledger,
       destination, draining, history
<1>37. ASSUME NEW t \in Thread, NEW p \in Page, Invalidate(t, p)
      PROVE  Ledger'
    BY <1>37, LedgerFrame DEF Invalidate, Move, Return, ledger,
       destination, draining, history
<1>38. ASSUME NEW p \in Page, Disconnect(p)
      PROVE  Ledger'
    BY <1>38, LedgerFrame DEF Disconnect, Move, Return, ledger,
       destination, draining, history
<1>39. ASSUME NEW p \in Page, BecomeIdle(p)
      PROVE  Ledger'
    BY <1>39, LedgerFrame DEF BecomeIdle, Move, Return, ledger,
       destination, draining, history
<1>40. ASSUME NEW p \in Page, Heartbeat(p)
      PROVE  Ledger'
    BY <1>40, LedgerFrame DEF Heartbeat, Move, Return, ledger,
       destination, draining, history
<1>41. ASSUME NEW t \in Thread, Step(t) PROVE Ledger'
      BY <1>41, <1>2, <1>3, <1>4, <1>5, <1>6, <1>7, <1>8, <1>9, <1>10, <1>11,
         <1>12, <1>13, <1>14, <1>15, <1>16, <1>17, <1>18, <1>19, <1>20,
         <1>21, <1>22, <1>23, <1>24, <1>25, <1>26, <1>27, <1>28, <1>29,
         <1>30, <1>31, <1>32, <1>33
      DEF Step, PublishStep, DrainStep, RegistryStep
<1>42. ASSUME NEW t \in Thread, Request(t) PROVE Ledger'
      BY <1>42, <1>1, <1>34, <1>35, <1>36, <1>37 DEF Request
<1>43. ASSUME NEW p \in Page, Environment(p) PROVE Ledger'
      BY <1>43, <1>38, <1>39, <1>40 DEF Environment
<1>44. CASE UNCHANGED vars
      BY <1>44, LedgerFrame DEF vars, ledger, destination, draining, history
<1> QED
      BY <1>41, <1>42, <1>43, <1>44 DEF Next

-----------------------------------------------------------------------------

LEMMA InitIInv ==
    ASSUME Init
    PROVE  IInv
PROOF
<1> USE QueueAssumption DEF Init
<1>1. TypeOK
  <2>1. SharedOK
      BY DEF SharedOK, Channels
  <2>2. ThreadOK
    <3>1. << >> \in Seq(Message \cup {Null})
        OBVIOUS
    <3>2. batch \in [Thread -> Seq(Message \cup {Null})]
        BY <3>1
    <3> QED
        BY <3>2 DEF ThreadOK, Ops, Steps
  <2>3. HistoryOK
      BY DEF HistoryOK
  <2> QED
      BY <2>1, <2>2, <2>3 DEF TypeOK
<1>2. Control
    BY DEF Control, Controlled, InPublish, InDrain, InExpiry, OnPage
<1>3. Carried = {} /\ Queued = {} /\ Drained = {} /\ Written = {}
    BY DEF Carried, Queued, Drained, Written, Messages
<1>4. Apart /\ Accounted
    BY <1>3 DEF Apart, Accounted, Pending, Settled
<1>5. BufferedOnce /\ CarriedOnce /\ DrainedOnce /\ AtMostOnce
    BY DEF BufferedOnce, CarriedOnce, DrainedOnce, AtMostOnce
<1> QED
    BY <1>1, <1>2, <1>4, <1>5 DEF IInv, Ledger

LEMMA IInvStep ==
    ASSUME IInv, [Next]_vars
    PROVE  IInv'
PROOF
<1>1. TypeOK'
    BY TypeOKStep DEF IInv
<1>2. Control'
    BY ControlStep DEF IInv, TypeOK
<1>3. Ledger'
    BY LedgerStep DEF IInv
<1> QED
    BY <1>1, <1>2, <1>3 DEF IInv

\* The inductive invariant holds in every state of the queue.
THEOREM Invariance == Spec => []IInv
PROOF
<1>1. Init => IInv
    BY InitIInv
<1>2. IInv /\ [Next]_vars => IInv'
    BY IInvStep
<1> QED
    BY <1>1, <1>2, PTL DEF Spec

\* Type correctness, for any number of threads, pages and messages.
THEOREM Typing == Spec => []TypeOK
PROOF
<1>1. IInv => TypeOK
    BY DEF IInv
<1> QED
    BY <1>1, Invariance, PTL

\* However publishers, drains, polls and expiries interleave, no message is
\* written to two channels or twice to one.
THEOREM NeverTwice == Spec => []AtMostOnce
PROOF
<1>1. IInv => AtMostOnce
    BY DEF IInv, Ledger
<1> QED
    BY <1>1, Invariance, PTL

\* Between its publication and its end each message is somewhere in the server.
THEOREM NothingUnaccounted == Spec => []Accounted
PROOF
<1>1. IInv => Accounted
    BY DEF IInv, Ledger
<1> QED
    BY <1>1, Invariance, PTL

-----------------------------------------------------------------------------
(***************************************************************************)
(* Further theorems: how far the queue exceeds its bound, that a single    *)
(* listening thread loses nothing, and that the queue implements the       *)
(* point-to-point promise.                                                 *)
(***************************************************************************)
LEMMA FewerOffering ==
    ASSUME TypeOK, Crowd, Offering' \subseteq Offering,
           Len(buffered') <= Len(buffered), Len(buffered') \in Nat,
           reoffered' = reoffered
    PROVE  Crowd'
PROOF
<1>1. Offering \in SUBSET Thread /\ IsFiniteSet(Thread)
    BY QueueAssumption DEF Offering
<1>2. IsFiniteSet(Offering) /\ Cardinality(Thread) \in Nat
    BY <1>1, FS_Subset, FS_CardinalityType
<1>3. /\ IsFiniteSet(Offering')
      /\ Cardinality(Offering') <= Cardinality(Offering)
    BY <1>2, FS_Subset
<1>4. Cardinality(Offering) \in Nat /\ Cardinality(Offering') \in Nat
    BY <1>2, <1>3, FS_CardinalityType
<1>5. Len(buffered) \in Nat
    BY DEF TypeOK, SharedOK
<1> QED
    BY <1>2, <1>3, <1>4, <1>5, QueueAssumption DEF Crowd

LEMMA CrowdStep ==
    ASSUME TypeOK, Crowd, [Next]_vars
    PROVE  Crowd'
PROOF
<1> DEFINE Quiet == /\ Offering' \subseteq Offering
                   /\ Len(buffered') <= Len(buffered)
                   /\ Len(buffered') \in Nat
                   /\ reoffered' = reoffered
<1>0. Quiet => Crowd'
    BY FewerOffering
<1> USE DEF TypeOK, SharedOK, ThreadOK, HistoryOK, Offering,
      Goto, Move, Return, Begin, End,
      vars, destination, web, control, draining, history
<1>1. ASSUME NEW t \in Thread, CheckPages(t)
     PROVE  Crowd'
    BY <1>1, <1>0 DEF CheckPages
<1>2. ASSUME NEW t \in Thread, PagesExhausted(t)
     PROVE  Crowd'
    BY <1>2, <1>0 DEF PagesExhausted
<1>3. ASSUME NEW t \in Thread, NEW p \in Page, PageTakes(t, p)
     PROVE  Crowd'
    BY <1>0, <1>3 DEF PageTakes, AtPage, Deliver
<1>4. ASSUME NEW t \in Thread, NEW p \in Page, PageDeclines(t, p)
     PROVE  Crowd'
    BY <1>4, <1>0 DEF PageDeclines, AtPage, Visited
<1>5. ASSUME NEW t \in Thread, NEW p \in Page, PageExpired(t, p)
     PROVE  Crowd'
    BY <1>5, <1>0 DEF PageExpired, AtPage, Visited
<1>6. ASSUME NEW t \in Thread, NEW p \in Page, SkipRemoved(t, p)
     PROVE  Crowd'
    BY <1>6, <1>0 DEF SkipRemoved, AtPage, Visited
<1>7. ASSUME NEW t \in Thread, Refuse(t)
     PROVE  Crowd'
    BY <1>7, <1>0 DEF Refuse
<1>8. ASSUME NEW t \in Thread, FindRoom(t)
     PROVE  Crowd'
  <2>1. Len(buffered) <= MaxPending /\ buffered' = buffered
      BY <1>8 DEF FindRoom, HasRoom
  <2>2. Offering' \in SUBSET Thread /\ IsFiniteSet(Thread)
      BY QueueAssumption
  <2> HIDE DEF Offering
  <2>3. Cardinality(Offering') <= Cardinality(Thread)
      BY <2>2, FS_Subset
  <2>4. Cardinality(Offering') \in Nat /\ Cardinality(Thread) \in Nat
      BY <2>2, FS_Subset, FS_CardinalityType
  <2>5. Len(buffered) \in Nat
      OBVIOUS
  <2> QED
      BY <2>1, <2>3, <2>4, <2>5, QueueAssumption DEF Crowd
<1>9. ASSUME NEW t \in Thread, Offer(t)
     PROVE  Crowd'
  <2>1. Offering' = Offering \ {t} /\ t \in Offering
      BY <1>9 DEF Offer
  <2>2. Offering \in SUBSET Thread /\ IsFiniteSet(Thread)
      BY QueueAssumption
  <2> HIDE DEF Offering
  <2>3. Cardinality(Offering') = Cardinality(Offering) - 1
      BY <2>1, <2>2, FS_Subset, FS_RemoveElement
  <2>4. Cardinality(Offering) \in Nat /\ Cardinality(Thread) \in Nat
      BY <2>2, FS_Subset, FS_CardinalityType
  <2>5. msg[t] \in Message \cup {Null} /\ buffered' = Append(buffered, msg[t])
      BY <1>9 DEF Offer
  <2>6. Len(buffered') = Len(buffered) + 1 /\ Len(buffered) \in Nat
      BY <2>5
  <2>7. reoffered' = reoffered
      BY <1>9 DEF Offer
  <2> QED
      BY <2>3, <2>4, <2>6, <2>7, QueueAssumption DEF Crowd
<1>10. ASSUME NEW t \in Thread, NothingBuffered(t)
     PROVE  Crowd'
    BY <1>10, <1>0 DEF NothingBuffered
<1>11. ASSUME NEW t \in Thread, Measure(t)
     PROVE  Crowd'
    BY <1>11, <1>0 DEF Measure
<1>12. ASSUME NEW t \in Thread, PollItem(t)
     PROVE  Crowd'
  <2>1. Len(Tail0(buffered)) \in Nat /\ Len(Tail0(buffered)) <= Len(buffered)
      BY HeadTailProperties DEF Tail0
  <2>2. buffered' = Tail0(buffered) /\ reoffered' = reoffered
      BY <1>12 DEF PollItem
  <2>3. Offering' \subseteq Offering
      BY <1>12 DEF PollItem
  <2> HIDE DEF Offering
  <2> QED
      BY <1>0, <2>1, <2>2, <2>3
<1>13. ASSUME NEW t \in Thread, BatchTaken(t)
     PROVE  Crowd'
    BY <1>0, <1>13 DEF BatchTaken, EndRound, Deliver
<1>14. ASSUME NEW t \in Thread, BatchDeclined(t)
     PROVE  Crowd'
    BY <1>14, <1>0 DEF BatchDeclined
<1>15. ASSUME NEW t \in Thread, BatchExpired(t)
     PROVE  Crowd'
    BY <1>15, <1>0 DEF BatchExpired
<1>16. ASSUME NEW t \in Thread, Reoffer(t)
     PROVE  Crowd'
    BY <1>16 DEF Reoffer, Crowd
<1>17. ASSUME NEW t \in Thread, ReofferNull(t)
     PROVE  Crowd'
    BY <1>17, <1>0 DEF ReofferNull
<1>18. ASSUME NEW t \in Thread, Reoffered(t)
     PROVE  Crowd'
    BY <1>18, <1>0 DEF Reoffered, EndRound
<1>19. ASSUME NEW t \in Thread, Connect(t)
     PROVE  Crowd'
    BY <1>19, <1>0 DEF Connect
<1>20. ASSUME NEW t \in Thread, PollDone(t)
     PROVE  Crowd'
    BY <1>20, <1>0 DEF PollDone
<1>21. ASSUME NEW t \in Thread, SubscribeDrained(t)
     PROVE  Crowd'
    BY <1>21, <1>0 DEF SubscribeDrained
<1>22. ASSUME NEW t \in Thread, Put(t)
     PROVE  Crowd'
    BY <1>22, <1>0 DEF Put
<1>23. ASSUME NEW t \in Thread, AlreadyPut(t)
     PROVE  Crowd'
    BY <1>23, <1>0 DEF AlreadyPut
<1>24. ASSUME NEW t \in Thread, Link(t)
     PROVE  Crowd'
    BY <1>24, <1>0 DEF Link
<1>25. ASSUME NEW t \in Thread, CloseChannel(t)
     PROVE  Crowd'
    BY <1>25, <1>0 DEF CloseChannel
<1>26. ASSUME NEW t \in Thread, LeaveSession(t)
     PROVE  Crowd'
    BY <1>26, <1>0 DEF LeaveSession
<1>27. ASSUME NEW t \in Thread, Unlink(t)
     PROVE  Crowd'
    BY <1>27, <1>0 DEF Unlink
<1>28. ASSUME NEW t \in Thread, Remove(t)
     PROVE  Crowd'
    BY <1>28, <1>0 DEF Remove
<1>29. ASSUME NEW t \in Thread, Unsubscribed(t)
     PROVE  Crowd'
    BY <1>29, <1>0 DEF Unsubscribed
<1>30. ASSUME NEW t \in Thread, Invalidated(t)
     PROVE  Crowd'
    BY <1>30, <1>0 DEF Invalidated, ClearLinks
<1>31. ASSUME NEW t \in Thread, BackToPublish(t)
     PROVE  Crowd'
    BY <1>31, <1>0 DEF BackToPublish, ClearLinks
<1>32. ASSUME NEW t \in Thread, BackToDrain(t)
     PROVE  Crowd'
    BY <1>32, <1>0 DEF BackToDrain, ClearLinks
<1>33. ASSUME NEW t \in Thread, NEW m \in Message, Publish(t, m)
     PROVE  Crowd'
    BY <1>33, <1>0 DEF Publish
<1>34. ASSUME NEW t \in Thread, NEW p \in Page, Poll(t, p)
     PROVE  Crowd'
    BY <1>34, <1>0 DEF Poll
<1>35. ASSUME NEW t \in Thread, NEW p \in Page, Subscribe(t, p)
     PROVE  Crowd'
    BY <1>35, <1>0 DEF Subscribe
<1>36. ASSUME NEW t \in Thread, NEW p \in Page, Unsubscribe(t, p)
     PROVE  Crowd'
    BY <1>36, <1>0 DEF Unsubscribe
<1>37. ASSUME NEW t \in Thread, NEW p \in Page, Invalidate(t, p)
     PROVE  Crowd'
    BY <1>37, <1>0 DEF Invalidate
<1>38. ASSUME NEW p \in Page, Disconnect(p)
     PROVE  Crowd'
    BY <1>38, <1>0 DEF Disconnect
<1>39. ASSUME NEW p \in Page, BecomeIdle(p)
     PROVE  Crowd'
    BY <1>39, <1>0 DEF BecomeIdle
<1>40. ASSUME NEW p \in Page, Heartbeat(p)
     PROVE  Crowd'
    BY <1>40, <1>0 DEF Heartbeat
<1>41. ASSUME NEW t \in Thread, PublishStep(t) PROVE Crowd'
    BY <1>41, <1>1, <1>2, <1>3, <1>4, <1>5, <1>6, <1>7, <1>8,
       <1>9
       DEF PublishStep
<1>42. ASSUME NEW t \in Thread, DrainStep(t) PROVE Crowd'
    BY <1>42, <1>10, <1>11, <1>12, <1>13, <1>14, <1>15, <1>16, <1>17,
       <1>18, <1>19, <1>20, <1>21
       DEF DrainStep
<1>43. ASSUME NEW t \in Thread, RegistryStep(t) PROVE Crowd'
    BY <1>43, <1>22, <1>23, <1>24, <1>25, <1>26, <1>27, <1>28, <1>29,
       <1>30, <1>31, <1>32
       DEF RegistryStep
<1>44. ASSUME NEW t \in Thread, Request(t) PROVE Crowd'
    BY <1>44, <1>33, <1>34, <1>35, <1>36, <1>37
       DEF Request
<1>45. ASSUME NEW p \in Page, Environment(p) PROVE Crowd'
    BY <1>45, <1>38, <1>39, <1>40 DEF Environment
<1>46. CASE UNCHANGED vars
    BY <1>0, <1>46
<1> QED
    BY <1>41, <1>42, <1>43, <1>44, <1>45, <1>46 DEF Next, Step

\* Publishers that pass storeItem's test together exceed the bound by one
\* message each at most, as long as no declined batch went back.
THEOREM BoundKept == Spec => []OvershootBound
PROOF
<1>1. Init => Crowd
  <2> SUFFICES ASSUME Init PROVE Crowd
      OBVIOUS
  <2>1. Offering = {} /\ buffered = << >>
      BY DEF Init, Offering
  <2>2. Cardinality(Thread) \in Nat
      BY QueueAssumption, FS_CardinalityType
  <2>3. Cardinality(Offering) = 0 /\ Len(buffered) = 0
      BY <2>1, FS_EmptySet
  <2> QED
      BY <2>2, <2>3, QueueAssumption DEF Crowd
<1>2. TypeOK /\ Crowd /\ [Next]_vars => Crowd'
    BY CrowdStep
<1>3. TypeOK /\ Crowd => OvershootBound
  <2> SUFFICES ASSUME TypeOK, Crowd PROVE OvershootBound
      OBVIOUS
  <2>1. Offering \in SUBSET Thread /\ IsFiniteSet(Thread)
      BY QueueAssumption DEF Offering
  <2>2. Cardinality(Offering) \in Nat /\ Cardinality(Thread) \in Nat
      BY <2>1, FS_Subset, FS_CardinalityType
  <2>3. Len(buffered) \in Nat
      BY DEF TypeOK, SharedOK
  <2> QED
      BY <2>2, <2>3, QueueAssumption DEF Crowd, OvershootBound
<1> QED
    BY <1>1, <1>2, <1>3, Typing, PTL DEF Spec

-----------------------------------------------------------------------------

LEMMA DrainsHereStep ==
    ASSUME TypeOK, Control, DrainsHere, [Next]_vars
    PROVE  DrainsHere'
PROOF
<1> USE QueueAssumption DEF TypeOK, SharedOK, ThreadOK, HistoryOK,
      Control, Controlled, DrainsHere, InPublish, InDrain, InExpiry, OnPage,
      Goto, Move, Return, Begin, End,
      vars, destination, web, control, draining, history
<1>1. ASSUME NEW t \in Thread, CheckPages(t)
     PROVE  DrainsHere'
    BY <1>1, SMTT(30) DEF CheckPages
<1>2. ASSUME NEW t \in Thread, PagesExhausted(t)
     PROVE  DrainsHere'
    BY <1>2, SMTT(30) DEF PagesExhausted
<1>3. ASSUME NEW t \in Thread, NEW p \in Page, PageTakes(t, p)
     PROVE  DrainsHere'
    BY <1>3 DEF PageTakes, AtPage, Deliver
<1>4. ASSUME NEW t \in Thread, NEW p \in Page, PageDeclines(t, p)
     PROVE  DrainsHere'
    BY <1>4, SMTT(30) DEF PageDeclines, AtPage, Visited
<1>5. ASSUME NEW t \in Thread, NEW p \in Page, PageExpired(t, p)
     PROVE  DrainsHere'
    BY <1>5, SMTT(30) DEF PageExpired, AtPage, Visited
<1>6. ASSUME NEW t \in Thread, NEW p \in Page, SkipRemoved(t, p)
     PROVE  DrainsHere'
    BY <1>6, SMTT(30) DEF SkipRemoved, AtPage, Visited
<1>7. ASSUME NEW t \in Thread, Refuse(t)
     PROVE  DrainsHere'
    BY <1>7, SMTT(30) DEF Refuse
<1>8. ASSUME NEW t \in Thread, FindRoom(t)
     PROVE  DrainsHere'
    BY <1>8, SMTT(30) DEF FindRoom
<1>9. ASSUME NEW t \in Thread, Offer(t)
     PROVE  DrainsHere'
    BY <1>9, SMTT(30) DEF Offer
<1>10. ASSUME NEW t \in Thread, NothingBuffered(t)
     PROVE  DrainsHere'
    BY <1>10, SMTT(30) DEF NothingBuffered
<1>11. ASSUME NEW t \in Thread, Measure(t)
     PROVE  DrainsHere'
    BY <1>11, SMTT(30) DEF Measure
<1>12. ASSUME NEW t \in Thread, PollItem(t)
     PROVE  DrainsHere'
    BY <1>12, SMTT(30) DEF PollItem
<1>13. ASSUME NEW t \in Thread, BatchTaken(t)
     PROVE  DrainsHere'
    BY <1>13 DEF BatchTaken, EndRound, Deliver
<1>14. ASSUME NEW t \in Thread, BatchDeclined(t)
     PROVE  DrainsHere'
    BY <1>14, SMTT(30) DEF BatchDeclined
<1>15. ASSUME NEW t \in Thread, BatchExpired(t)
     PROVE  DrainsHere'
    BY <1>15, SMTT(30) DEF BatchExpired
<1>16. ASSUME NEW t \in Thread, Reoffer(t)
     PROVE  DrainsHere'
    BY <1>16, SMTT(30) DEF Reoffer
<1>17. ASSUME NEW t \in Thread, ReofferNull(t)
     PROVE  DrainsHere'
    BY <1>17, SMTT(30) DEF ReofferNull
<1>18. ASSUME NEW t \in Thread, Reoffered(t)
     PROVE  DrainsHere'
    BY <1>18, SMTT(30) DEF Reoffered, EndRound
<1>19. ASSUME NEW t \in Thread, Connect(t)
     PROVE  DrainsHere'
    BY <1>19, SMTT(30) DEF Connect
<1>20. ASSUME NEW t \in Thread, PollDone(t)
     PROVE  DrainsHere'
    BY <1>20, SMTT(30) DEF PollDone
<1>21. ASSUME NEW t \in Thread, SubscribeDrained(t)
     PROVE  DrainsHere'
    BY <1>21, SMTT(30) DEF SubscribeDrained
<1>22. ASSUME NEW t \in Thread, Put(t)
     PROVE  DrainsHere'
    BY <1>22, SMTT(30) DEF Put
<1>23. ASSUME NEW t \in Thread, AlreadyPut(t)
     PROVE  DrainsHere'
    BY <1>23, SMTT(30) DEF AlreadyPut
<1>24. ASSUME NEW t \in Thread, Link(t)
     PROVE  DrainsHere'
    BY <1>24, SMTT(30) DEF Link
<1>25. ASSUME NEW t \in Thread, CloseChannel(t)
     PROVE  DrainsHere'
    BY <1>25, SMTT(30) DEF CloseChannel
<1>26. ASSUME NEW t \in Thread, LeaveSession(t)
     PROVE  DrainsHere'
    BY <1>26, SMTT(30) DEF LeaveSession
<1>27. ASSUME NEW t \in Thread, Unlink(t)
     PROVE  DrainsHere'
    BY <1>27, SMTT(30) DEF Unlink
<1>28. ASSUME NEW t \in Thread, Remove(t)
     PROVE  DrainsHere'
    BY <1>28, SMTT(30) DEF Remove
<1>29. ASSUME NEW t \in Thread, Unsubscribed(t)
     PROVE  DrainsHere'
    BY <1>29, SMTT(30) DEF Unsubscribed
<1>30. ASSUME NEW t \in Thread, Invalidated(t)
     PROVE  DrainsHere'
    BY <1>30, SMTT(30) DEF Invalidated, ClearLinks
<1>31. ASSUME NEW t \in Thread, BackToPublish(t)
     PROVE  DrainsHere'
    BY <1>31, SMTT(30) DEF BackToPublish, ClearLinks
<1>32. ASSUME NEW t \in Thread, BackToDrain(t)
     PROVE  DrainsHere'
    BY <1>32, SMTT(30) DEF BackToDrain, ClearLinks
<1>33. ASSUME NEW t \in Thread, NEW m \in Message, Publish(t, m)
     PROVE  DrainsHere'
    BY <1>33, SMTT(30) DEF Publish
<1>34. ASSUME NEW t \in Thread, NEW p \in Page, Poll(t, p)
     PROVE  DrainsHere'
    BY <1>34, SMTT(30) DEF Poll
<1>35. ASSUME NEW t \in Thread, NEW p \in Page, Subscribe(t, p)
     PROVE  DrainsHere'
    BY <1>35, SMTT(30) DEF Subscribe
<1>36. ASSUME NEW t \in Thread, NEW p \in Page, Unsubscribe(t, p)
     PROVE  DrainsHere'
    BY <1>36, SMTT(30) DEF Unsubscribe
<1>37. ASSUME NEW t \in Thread, NEW p \in Page, Invalidate(t, p)
     PROVE  DrainsHere'
    BY <1>37, SMTT(30) DEF Invalidate
<1>38. ASSUME NEW p \in Page, Disconnect(p)
     PROVE  DrainsHere'
    BY <1>38, SMTT(30) DEF Disconnect
<1>39. ASSUME NEW p \in Page, BecomeIdle(p)
     PROVE  DrainsHere'
    BY <1>39, SMTT(30) DEF BecomeIdle
<1>40. ASSUME NEW p \in Page, Heartbeat(p)
     PROVE  DrainsHere'
    BY <1>40, SMTT(30) DEF Heartbeat
<1>41. ASSUME NEW t \in Thread, PublishStep(t) PROVE DrainsHere'
    BY <1>41, <1>1, <1>2, <1>3, <1>4, <1>5, <1>6, <1>7, <1>8,
       <1>9
       DEF PublishStep
<1>42. ASSUME NEW t \in Thread, DrainStep(t) PROVE DrainsHere'
    BY <1>42, <1>10, <1>11, <1>12, <1>13, <1>14, <1>15, <1>16, <1>17,
       <1>18, <1>19, <1>20, <1>21
       DEF DrainStep
<1>43. ASSUME NEW t \in Thread, RegistryStep(t) PROVE DrainsHere'
    BY <1>43, <1>22, <1>23, <1>24, <1>25, <1>26, <1>27, <1>28, <1>29,
       <1>30, <1>31, <1>32
       DEF RegistryStep
<1>44. ASSUME NEW t \in Thread, Request(t) PROVE DrainsHere'
    BY <1>44, <1>33, <1>34, <1>35, <1>36, <1>37
       DEF Request
<1>45. ASSUME NEW p \in Page, Environment(p) PROVE DrainsHere'
    BY <1>45, <1>38, <1>39, <1>40 DEF Environment
<1>46. CASE UNCHANGED vars
    BY <1>46
<1> QED
    BY <1>41, <1>42, <1>43, <1>44, <1>45, <1>46 DEF Next, Step

LEMMA AloneStep ==
    ASSUME TypeOK, Control, DrainsHere, OneListener,
           lost = {}, \A u \in Thread : Filling(u) /\ NoNull(u), [Next]_vars
    PROVE  lost' = {} /\ \A u \in Thread : (Filling(u))' /\ (NoNull(u))'
PROOF
<1> DEFINE Goal == lost' = {} /\ \A u \in Thread : (Filling(u))' /\ (NoNull(u))'
<1> USE QueueAssumption DEF TypeOK, SharedOK, ThreadOK, HistoryOK,
      Control, Controlled, Filling, NoNull,
      InPublish, InDrain, InExpiry, OnPage, Goto, Move, Return, Begin, End,
      vars, destination, web, control, draining, history
<1>1. ASSUME NEW t \in Thread, CheckPages(t)
     PROVE  Goal
    BY <1>1, SMTT(30) DEF CheckPages
<1>2. ASSUME NEW t \in Thread, PagesExhausted(t)
     PROVE  Goal
    BY <1>2, SMTT(30) DEF PagesExhausted
<1>3. ASSUME NEW t \in Thread, NEW p \in Page, PageTakes(t, p)
     PROVE  Goal
    BY <1>3 DEF PageTakes, AtPage, Deliver
<1>4. ASSUME NEW t \in Thread, NEW p \in Page, PageDeclines(t, p)
     PROVE  Goal
    BY <1>4, SMTT(30) DEF PageDeclines, AtPage, Visited
<1>5. ASSUME NEW t \in Thread, NEW p \in Page, PageExpired(t, p)
     PROVE  Goal
    BY <1>5, SMTT(30) DEF PageExpired, AtPage, Visited
<1>6. ASSUME NEW t \in Thread, NEW p \in Page, SkipRemoved(t, p)
     PROVE  Goal
    BY <1>6, SMTT(30) DEF SkipRemoved, AtPage, Visited
<1>7. ASSUME NEW t \in Thread, Refuse(t)
     PROVE  Goal
    BY <1>7, SMTT(30) DEF Refuse
<1>8. ASSUME NEW t \in Thread, FindRoom(t)
     PROVE  Goal
    BY <1>8, SMTT(30) DEF FindRoom
<1>9. ASSUME NEW t \in Thread, Offer(t)
     PROVE  Goal
  <2>1. msg[t] \in Message \cup {Null} /\ buffered' = Append(buffered, msg[t])
      BY <1>9 DEF Offer
  <2>2. Len(buffered') = Len(buffered) + 1
      BY <2>1
  <2>3. UNCHANGED <<lost, batch, room>>
      BY <1>9 DEF Offer
  <2>4. ASSUME NEW u \in Thread PROVE (Filling(u))' /\ (NoNull(u))'
    <3>1. pc'[u] = "fill" => pc[u] = "fill"
        BY <1>9 DEF Offer
    <3>2. Len(batch[u]) \in Nat /\ room[u] \in Nat /\ Len(buffered) \in Nat
        OBVIOUS
    <3>3. Filling(u) /\ NoNull(u)
        OBVIOUS
    <3> QED
        BY ONLY <2>2, <2>3, <3>1, <3>2, <3>3 DEF Filling, NoNull
  <2> QED
      BY <2>3, <2>4
<1>10. ASSUME NEW t \in Thread, NothingBuffered(t)
     PROVE  Goal
    BY <1>10, SMTT(30) DEF NothingBuffered
<1>11. ASSUME NEW t \in Thread, Measure(t)
     PROVE  Goal
  <2>1. batch[t] = << >> /\ buffered # << >>
      BY <1>11 DEF Measure, DrainsHere
  <2>2. /\ room' = [room EXCEPT ![t] = Len(buffered)]
        /\ UNCHANGED <<batch, buffered, lost>>
      BY <1>11 DEF Measure, ArrayLength
  <2>3. Len(buffered) > 0 /\ Len(batch[t]) = 0
      BY <2>1
  <2>4. ASSUME NEW u \in Thread \ {t} PROVE (Filling(u))' /\ (NoNull(u))'
      BY <1>11, <2>2 DEF Measure
  <2> QED
      BY <2>2, <2>3, <2>4
<1>12. ASSUME NEW t \in Thread, PollItem(t)
     PROVE  Goal
  <2>1. /\ pc[t] = "fill"
        /\ buffered' = Tail0(buffered)
        /\ batch' = [batch EXCEPT ![t] = Append(@, Head0(buffered))]
        /\ pc' = [pc EXCEPT ![t] =
                     IF Len(batch[t]) + 1 < room[t] THEN "fill" ELSE "hand"]
        /\ UNCHANGED <<room, lost>>
      BY <1>12 DEF PollItem
  <2>2. /\ Len(buffered) > 0 /\ buffered # << >>
        /\ room[t] - Len(batch[t]) <= Len(buffered)
      BY <2>1
  <2>3. /\ Head0(buffered) \in Message
        /\ Len(Tail0(buffered)) = Len(buffered) - 1
      BY <2>2, HeadTailProperties DEF Head0, Tail0
  <2>4. (Filling(t))' /\ (NoNull(t))'
    <3>1. batch'[t] = Append(batch[t], Head0(buffered))
        BY <2>1
    <3>2. /\ Len(batch'[t]) = Len(batch[t]) + 1
          /\ \A i \in DOMAIN batch'[t] :
                \/ i \in DOMAIN batch[t] /\ batch'[t][i] = batch[t][i]
                \/ batch'[t][i] = Head0(buffered)
        BY <3>1, <2>3
    <3>3. (NoNull(t))'
      <4>1. NoNull(t) /\ Head0(buffered) # Null
          BY <2>3
      <4> QED
          BY ONLY <3>2, <4>1 DEF NoNull
    <3>4. SUFFICES ASSUME pc'[t] = "fill" PROVE (Filling(t))'
        BY <3>3
    <3>5. Len(batch[t]) + 1 < room[t] /\ room'[t] = room[t]
        BY <3>4, <2>1
    <3>6. /\ Len(batch'[t]) < room'[t]
          /\ room'[t] - Len(batch'[t]) <= Len(buffered')
        BY <3>2, <3>5, <2>1, <2>2, <2>3
    <3> QED
        BY <3>6
  <2>5. ASSUME NEW u \in Thread \ {t} PROVE (Filling(u))' /\ (NoNull(u))'
    <3>1. pc[u] # "fill"
        BY <2>1 DEF DrainsHere, OneListener
    <3> QED
        BY <2>1, <3>1
  <2> QED
      BY <2>1, <2>4, <2>5
<1>13. ASSUME NEW t \in Thread, BatchTaken(t)
     PROVE  Goal
    BY <1>13 DEF BatchTaken, EndRound, Deliver
<1>14. ASSUME NEW t \in Thread, BatchDeclined(t)
     PROVE  Goal
    BY <1>14, SMTT(30) DEF BatchDeclined
<1>15. ASSUME NEW t \in Thread, BatchExpired(t)
     PROVE  Goal
    BY <1>15, SMTT(30) DEF BatchExpired
<1>16. ASSUME NEW t \in Thread, Reoffer(t)
     PROVE  Goal
  <2>1. /\ pc[t] = "reoffer" /\ batch[t] # << >>
        /\ buffered' = Append(buffered, Head(batch[t]))
        /\ batch' = [batch EXCEPT ![t] = Tail(@)]
        /\ UNCHANGED <<pc, room, lost>>
      BY <1>16 DEF Reoffer
  <2>2. Len(buffered') = Len(buffered) + 1
      BY <2>1
  <2>3. \A i \in DOMAIN Tail(batch[t]) : Tail(batch[t])[i] # Null
      BY <2>1
  <2>4. ASSUME NEW u \in Thread PROVE (Filling(u))' /\ (NoNull(u))'
    <3>1. pc'[u] = "fill" => u # t
        BY <2>1
    <3>2. CASE u = t
        BY <2>1, <2>3, <3>1, <3>2
    <3>3. CASE u # t
      <4>1. batch'[u] = batch[u] /\ Filling(u) /\ NoNull(u)
          BY <2>1, <3>3
      <4>2. Len(batch[u]) \in Nat /\ room[u] \in Nat /\ Len(buffered) \in Nat
          OBVIOUS
      <4> QED
          BY ONLY <2>1, <2>2, <4>1, <4>2 DEF Filling, NoNull
    <3> QED
        BY <3>2, <3>3
  <2> QED
      BY <2>1, <2>4
<1>17. ASSUME NEW t \in Thread, ReofferNull(t)
     PROVE  Goal
  <2>1. Head(batch[t]) = Null /\ batch[t] # << >>
      BY <1>17 DEF ReofferNull
  <2>2. 1 \in DOMAIN batch[t] /\ Head(batch[t]) = batch[t][1]
      BY <2>1
  <2> QED
      BY <2>1, <2>2
<1>18. ASSUME NEW t \in Thread, Reoffered(t)
     PROVE  Goal
    BY <1>18, SMTT(30) DEF Reoffered, EndRound
<1>19. ASSUME NEW t \in Thread, Connect(t)
     PROVE  Goal
    BY <1>19, SMTT(30) DEF Connect
<1>20. ASSUME NEW t \in Thread, PollDone(t)
     PROVE  Goal
    BY <1>20, SMTT(30) DEF PollDone
<1>21. ASSUME NEW t \in Thread, SubscribeDrained(t)
     PROVE  Goal
    BY <1>21, SMTT(30) DEF SubscribeDrained
<1>22. ASSUME NEW t \in Thread, Put(t)
     PROVE  Goal
    BY <1>22, SMTT(30) DEF Put
<1>23. ASSUME NEW t \in Thread, AlreadyPut(t)
     PROVE  Goal
    BY <1>23, SMTT(30) DEF AlreadyPut
<1>24. ASSUME NEW t \in Thread, Link(t)
     PROVE  Goal
    BY <1>24, SMTT(30) DEF Link
<1>25. ASSUME NEW t \in Thread, CloseChannel(t)
     PROVE  Goal
    BY <1>25, SMTT(30) DEF CloseChannel
<1>26. ASSUME NEW t \in Thread, LeaveSession(t)
     PROVE  Goal
    BY <1>26, SMTT(30) DEF LeaveSession
<1>27. ASSUME NEW t \in Thread, Unlink(t)
     PROVE  Goal
    BY <1>27, SMTT(30) DEF Unlink
<1>28. ASSUME NEW t \in Thread, Remove(t)
     PROVE  Goal
    BY <1>28, SMTT(30) DEF Remove
<1>29. ASSUME NEW t \in Thread, Unsubscribed(t)
     PROVE  Goal
    BY <1>29, SMTT(30) DEF Unsubscribed
<1>30. ASSUME NEW t \in Thread, Invalidated(t)
     PROVE  Goal
    BY <1>30, SMTT(30) DEF Invalidated, ClearLinks
<1>31. ASSUME NEW t \in Thread, BackToPublish(t)
     PROVE  Goal
    BY <1>31, SMTT(30) DEF BackToPublish, ClearLinks
<1>32. ASSUME NEW t \in Thread, BackToDrain(t)
     PROVE  Goal
    BY <1>32, SMTT(30) DEF BackToDrain, ClearLinks
<1>33. ASSUME NEW t \in Thread, NEW m \in Message, Publish(t, m)
     PROVE  Goal
    BY <1>33, SMTT(30) DEF Publish
<1>34. ASSUME NEW t \in Thread, NEW p \in Page, Poll(t, p)
     PROVE  Goal
    BY <1>34, SMTT(30) DEF Poll
<1>35. ASSUME NEW t \in Thread, NEW p \in Page, Subscribe(t, p)
     PROVE  Goal
    BY <1>35, SMTT(30) DEF Subscribe
<1>36. ASSUME NEW t \in Thread, NEW p \in Page, Unsubscribe(t, p)
     PROVE  Goal
    BY <1>36, SMTT(30) DEF Unsubscribe
<1>37. ASSUME NEW t \in Thread, NEW p \in Page, Invalidate(t, p)
     PROVE  Goal
    BY <1>37, SMTT(30) DEF Invalidate
<1>38. ASSUME NEW p \in Page, Disconnect(p)
     PROVE  Goal
    BY <1>38, SMTT(30) DEF Disconnect
<1>39. ASSUME NEW p \in Page, BecomeIdle(p)
     PROVE  Goal
    BY <1>39, SMTT(30) DEF BecomeIdle
<1>40. ASSUME NEW p \in Page, Heartbeat(p)
     PROVE  Goal
    BY <1>40, SMTT(30) DEF Heartbeat
<1>41. ASSUME NEW t \in Thread, PublishStep(t) PROVE Goal
    BY <1>41, <1>1, <1>2, <1>3, <1>4, <1>5, <1>6, <1>7, <1>8,
       <1>9
       DEF PublishStep
<1>42. ASSUME NEW t \in Thread, DrainStep(t) PROVE Goal
    BY <1>42, <1>10, <1>11, <1>12, <1>13, <1>14, <1>15, <1>16, <1>17,
       <1>18, <1>19, <1>20, <1>21
       DEF DrainStep
<1>43. ASSUME NEW t \in Thread, RegistryStep(t) PROVE Goal
    BY <1>43, <1>22, <1>23, <1>24, <1>25, <1>26, <1>27, <1>28, <1>29,
       <1>30, <1>31, <1>32
       DEF RegistryStep
<1>44. ASSUME NEW t \in Thread, Request(t) PROVE Goal
    BY <1>44, <1>33, <1>34, <1>35, <1>36, <1>37
       DEF Request
<1>45. ASSUME NEW p \in Page, Environment(p) PROVE Goal
    BY <1>45, <1>38, <1>39, <1>40 DEF Environment
<1>46. CASE UNCHANGED vars
    BY <1>46
<1> QED
    BY <1>41, <1>42, <1>43, <1>44, <1>45, <1>46 DEF Next, Step

LEMMA SingleListener ==
    ASSUME Cardinality(Listeners) <= 1
    PROVE  OneListener
PROOF
<1> SUFFICES ASSUME NEW t \in Listeners, NEW u \in Listeners, t # u
             PROVE  FALSE
    BY DEF OneListener
<1>1. IsFiniteSet(Listeners)
    BY QueueAssumption, FS_Subset
<1>2. /\ IsFiniteSet(Listeners \ {t})
      /\ Cardinality(Listeners \ {t}) = Cardinality(Listeners) - 1
    BY <1>1, FS_RemoveElement
<1>3. Cardinality(Listeners \ {t}) = 0
    BY <1>1, <1>2, FS_CardinalityType
<1>4. Listeners \ {t} = {}
    BY <1>2, <1>3, FS_EmptySet
<1> QED
    BY <1>4

\* Where one thread serves all subscriptions and polls, no drained array holds
\* a null, and offering a declined batch back loses no message.
THEOREM SingleListenerLosesNothing == Spec => []NothingLost
PROOF
<1>1. Init => Alone
    BY DEF Init, Alone, DrainsHere, Filling, NoNull
<1>2. IInv /\ Alone /\ [Next]_vars => Alone'
  <2> SUFFICES ASSUME IInv, Alone, [Next]_vars PROVE Alone'
      OBVIOUS
  <2>1. TypeOK /\ Control
      BY DEF IInv
  <2>2. DrainsHere'
      BY <2>1, DrainsHereStep DEF Alone
  <2>3. OneListener =>
           lost' = {} /\ \A u \in Thread : (Filling(u))' /\ (NoNull(u))'
      BY <2>1, AloneStep DEF Alone
  <2> QED
      BY <2>2, <2>3 DEF Alone, OneListener
<1>3. Alone => NothingLost
    BY SingleListener DEF Alone, NothingLost
<1> QED
    BY <1>1, <1>2, <1>3, Invariance, PTL DEF Spec

-----------------------------------------------------------------------------
(* The queue implements PointToPoint.                                      *)

\* What the statuses of messages are made of.
fates == <<published, refused, lost, copies>>

\* The steps that change a status.
Fateful(t) ==
    \/ \E m \in Message : Publish(t, m)
    \/ \E p \in Page : PageTakes(t, p)
    \/ BatchTaken(t) \/ Refuse(t) \/ ReofferNull(t)

LEMMA OtherSteps ==
    ASSUME [Next]_vars
    PROVE  (\E t \in Thread : Fateful(t)) \/ UNCHANGED fates
PROOF
<1> DEFINE Goal == (\E t \in Thread : Fateful(t)) \/ UNCHANGED fates
<1> USE DEF fates, Goto, Move, Return, Begin, End,
      vars, destination, web, control, draining, history
<1>1. ASSUME NEW t \in Thread, CheckPages(t)
     PROVE  Goal
    BY <1>1 DEF CheckPages
<1>2. ASSUME NEW t \in Thread, PagesExhausted(t)
     PROVE  Goal
    BY <1>2 DEF PagesExhausted
<1>3. ASSUME NEW t \in Thread, NEW p \in Page, PageTakes(t, p)
     PROVE  Goal
    BY <1>3 DEF Fateful
<1>4. ASSUME NEW t \in Thread, NEW p \in Page, PageDeclines(t, p)
     PROVE  Goal
    BY <1>4 DEF PageDeclines, AtPage, Visited
<1>5. ASSUME NEW t \in Thread, NEW p \in Page, PageExpired(t, p)
     PROVE  Goal
    BY <1>5 DEF PageExpired, AtPage, Visited
<1>6. ASSUME NEW t \in Thread, NEW p \in Page, SkipRemoved(t, p)
     PROVE  Goal
    BY <1>6 DEF SkipRemoved, AtPage, Visited
<1>7. ASSUME NEW t \in Thread, Refuse(t)
     PROVE  Goal
    BY <1>7 DEF Fateful
<1>8. ASSUME NEW t \in Thread, FindRoom(t)
     PROVE  Goal
    BY <1>8 DEF FindRoom
<1>9. ASSUME NEW t \in Thread, Offer(t)
     PROVE  Goal
    BY <1>9 DEF Offer
<1>10. ASSUME NEW t \in Thread, NothingBuffered(t)
     PROVE  Goal
    BY <1>10 DEF NothingBuffered
<1>11. ASSUME NEW t \in Thread, Measure(t)
     PROVE  Goal
    BY <1>11 DEF Measure
<1>12. ASSUME NEW t \in Thread, PollItem(t)
     PROVE  Goal
    BY <1>12 DEF PollItem
<1>13. ASSUME NEW t \in Thread, BatchTaken(t)
     PROVE  Goal
    BY <1>13 DEF Fateful
<1>14. ASSUME NEW t \in Thread, BatchDeclined(t)
     PROVE  Goal
    BY <1>14 DEF BatchDeclined
<1>15. ASSUME NEW t \in Thread, BatchExpired(t)
     PROVE  Goal
    BY <1>15 DEF BatchExpired
<1>16. ASSUME NEW t \in Thread, Reoffer(t)
     PROVE  Goal
    BY <1>16 DEF Reoffer
<1>17. ASSUME NEW t \in Thread, ReofferNull(t)
     PROVE  Goal
    BY <1>17 DEF Fateful
<1>18. ASSUME NEW t \in Thread, Reoffered(t)
     PROVE  Goal
    BY <1>18 DEF Reoffered, EndRound
<1>19. ASSUME NEW t \in Thread, Connect(t)
     PROVE  Goal
    BY <1>19 DEF Connect
<1>20. ASSUME NEW t \in Thread, PollDone(t)
     PROVE  Goal
    BY <1>20 DEF PollDone
<1>21. ASSUME NEW t \in Thread, SubscribeDrained(t)
     PROVE  Goal
    BY <1>21 DEF SubscribeDrained
<1>22. ASSUME NEW t \in Thread, Put(t)
     PROVE  Goal
    BY <1>22 DEF Put
<1>23. ASSUME NEW t \in Thread, AlreadyPut(t)
     PROVE  Goal
    BY <1>23 DEF AlreadyPut
<1>24. ASSUME NEW t \in Thread, Link(t)
     PROVE  Goal
    BY <1>24 DEF Link
<1>25. ASSUME NEW t \in Thread, CloseChannel(t)
     PROVE  Goal
    BY <1>25 DEF CloseChannel
<1>26. ASSUME NEW t \in Thread, LeaveSession(t)
     PROVE  Goal
    BY <1>26 DEF LeaveSession
<1>27. ASSUME NEW t \in Thread, Unlink(t)
     PROVE  Goal
    BY <1>27 DEF Unlink
<1>28. ASSUME NEW t \in Thread, Remove(t)
     PROVE  Goal
    BY <1>28 DEF Remove
<1>29. ASSUME NEW t \in Thread, Unsubscribed(t)
     PROVE  Goal
    BY <1>29 DEF Unsubscribed
<1>30. ASSUME NEW t \in Thread, Invalidated(t)
     PROVE  Goal
    BY <1>30 DEF Invalidated, ClearLinks
<1>31. ASSUME NEW t \in Thread, BackToPublish(t)
     PROVE  Goal
    BY <1>31 DEF BackToPublish, ClearLinks
<1>32. ASSUME NEW t \in Thread, BackToDrain(t)
     PROVE  Goal
    BY <1>32 DEF BackToDrain, ClearLinks
<1>33. ASSUME NEW t \in Thread, NEW m \in Message, Publish(t, m)
     PROVE  Goal
    BY <1>33 DEF Fateful
<1>34. ASSUME NEW t \in Thread, NEW p \in Page, Poll(t, p)
     PROVE  Goal
    BY <1>34 DEF Poll
<1>35. ASSUME NEW t \in Thread, NEW p \in Page, Subscribe(t, p)
     PROVE  Goal
    BY <1>35 DEF Subscribe
<1>36. ASSUME NEW t \in Thread, NEW p \in Page, Unsubscribe(t, p)
     PROVE  Goal
    BY <1>36 DEF Unsubscribe
<1>37. ASSUME NEW t \in Thread, NEW p \in Page, Invalidate(t, p)
     PROVE  Goal
    BY <1>37 DEF Invalidate
<1>38. ASSUME NEW p \in Page, Disconnect(p)
     PROVE  Goal
    BY <1>38 DEF Disconnect
<1>39. ASSUME NEW p \in Page, BecomeIdle(p)
     PROVE  Goal
    BY <1>39 DEF BecomeIdle
<1>40. ASSUME NEW p \in Page, Heartbeat(p)
     PROVE  Goal
    BY <1>40 DEF Heartbeat
<1>41. ASSUME NEW t \in Thread, PublishStep(t) PROVE Goal
    BY <1>41, <1>1, <1>2, <1>3, <1>4, <1>5, <1>6, <1>7, <1>8,
       <1>9
       DEF PublishStep
<1>42. ASSUME NEW t \in Thread, DrainStep(t) PROVE Goal
    BY <1>42, <1>10, <1>11, <1>12, <1>13, <1>14, <1>15, <1>16, <1>17,
       <1>18, <1>19, <1>20, <1>21
       DEF DrainStep
<1>43. ASSUME NEW t \in Thread, RegistryStep(t) PROVE Goal
    BY <1>43, <1>22, <1>23, <1>24, <1>25, <1>26, <1>27, <1>28, <1>29,
       <1>30, <1>31, <1>32
       DEF RegistryStep
<1>44. ASSUME NEW t \in Thread, Request(t) PROVE Goal
    BY <1>44, <1>33, <1>34, <1>35, <1>36, <1>37
       DEF Request
<1>45. ASSUME NEW p \in Page, Environment(p) PROVE Goal
    BY <1>45, <1>38, <1>39, <1>40 DEF Environment
<1>46. CASE UNCHANGED vars
    BY <1>46
<1> QED
    BY <1>41, <1>42, <1>43, <1>44, <1>45, <1>46 DEF Next, Step

LEMMA PendingOnly ==
    ASSUME TypeOK, Ledger, NEW m \in Message, m \in Pending
    PROVE  /\ m \in published /\ m \notin refused /\ m \notin lost
           /\ copies[m] = 0
PROOF
<1>1. /\ m \in published /\ m \notin refused /\ m \notin lost
      /\ m \notin Written
    BY DEF Ledger, Accounted, Settled
<1>2. copies[m] \in Nat
    BY DEF TypeOK, HistoryOK
<1> QED
    BY <1>1, <1>2 DEF Written

LEMMA StatusOf ==
    ASSUME TypeOK, Ledger, NEW m \in Message
    PROVE  /\ Status(m) = "new" <=> m \notin published
           /\ m \in Pending => Status(m) = "pending"
PROOF
<1>1. copies[m] \in Nat /\ copies[m] <= 1
    BY DEF TypeOK, HistoryOK, Ledger, AtMostOnce
<1>5. Pending \subseteq published
    BY DEF Ledger, Accounted
<1>2. CASE m \notin published
  <2>1. m \notin Settled /\ m \notin Pending
      BY <1>2, <1>5 DEF Ledger, Accounted
  <2>2. m \notin refused /\ m \notin lost /\ copies[m] = 0
      BY <1>1, <2>1 DEF Settled, Written
  <2> QED
      BY <1>2, <2>1, <2>2 DEF Status
<1>3. CASE m \in published /\ m \notin Pending
    BY <1>3 DEF Status
<1>4. CASE m \in published /\ m \in Pending
    BY <1>4, PendingOnly DEF Status
<1> QED
    BY <1>2, <1>3, <1>4, <1>5

Statuses == [m \in Message |-> Status(m)]

\* A step that gives the pending messages S one end, and no other message a
\* change, settles them in the abstract specification.
LEMMA SettleStep ==
    ASSUME TypeOK, Ledger, NEW S \in SUBSET Message, S \subseteq Pending,
           NEW end, \A m \in S : Status(m)' = end,
           \A m \in Message \ S : Status(m)' = Status(m)
    PROVE  Promise!Settle(S, end)
PROOF
<1>1. \A m \in S : Statuses[m] = "pending"
    BY StatusOf DEF Statuses
<1>2. Statuses' = [m \in Message |-> IF m \in S THEN end ELSE Statuses[m]]
    BY DEF Statuses
<1> QED
    BY <1>1, <1>2 DEF Promise!Settle, Statuses

\* Messages written out of Pending are delivered.
LEMMA DeliverStep ==
    ASSUME TypeOK, Ledger, NEW p \in Page,
           NEW s \in Seq(Message \cup {Null}), Messages(s) \subseteq Pending,
           \A i, j \in DOMAIN s : s[i] = s[j] /\ s[i] # Null => i = j,
           Deliver(p, s)
    PROVE  Promise!Deliver(Messages(s))
PROOF
<1>1. UNCHANGED <<published, refused, lost>>
    BY DEF Deliver
<1>2. copies' = [m \in Message |->
                    copies[m] + IF m \in Messages(s) THEN 1 ELSE 0]
    BY CountOnce DEF Deliver
<1>3. \A m \in Message : copies[m] \in Nat /\ copies'[m] =
          IF m \in Messages(s) THEN copies[m] + 1 ELSE copies[m]
    BY <1>2 DEF TypeOK, HistoryOK
<1>4. Messages(s) \in SUBSET Message
    BY DEF Messages
<1>5. ASSUME NEW m \in Messages(s) PROVE Status(m)' = "delivered"
  <2>1. m \in Message /\ m \in published /\ m \notin refused /\ m \notin lost
      BY <1>4, <1>5, PendingOnly
  <2>2. copies[m] = 0
      BY <1>4, <1>5, PendingOnly
  <2>3. copies'[m] = 1
      BY <2>1, <2>2, <1>3, <1>5
  <2> QED
      BY <1>1, <2>1, <2>3 DEF Status
<1>6. ASSUME NEW m \in Message \ Messages(s) PROVE Status(m)' = Status(m)
    BY <1>1, <1>3, <1>6 DEF Status
<1> QED
    BY <1>4, <1>5, <1>6, SettleStep DEF Promise!Deliver

LEMMA PromiseStep ==
    ASSUME IInv, [Next]_vars
    PROVE  Promise!Next \/ UNCHANGED Statuses
PROOF
<1>0. TypeOK /\ Control /\ Ledger
    BY DEF IInv
<1>1. CASE UNCHANGED fates
    BY <1>1 DEF fates, Statuses, Status
<1>2. ASSUME NEW t \in Thread, NEW m \in Message, Publish(t, m)
      PROVE  Promise!Next
  <2>1. /\ m \notin published /\ published' = published \cup {m}
        /\ UNCHANGED <<refused, lost, copies>>
      BY <1>2 DEF Publish
  <2>2. Status(m) = "new"
      BY <1>0, <2>1, StatusOf
  <2>3. Status(m)' = "pending"
    <3>1. m \notin refused /\ m \notin lost /\ m \notin Written
        BY <1>0, <2>1 DEF Ledger, Accounted, Settled
    <3>2. copies[m] = 0
        BY <1>0, <3>1 DEF Written, TypeOK, HistoryOK
    <3> QED
        BY <2>1, <3>1, <3>2 DEF Status
  <2>4. \A n \in Message \ {m} : Status(n)' = Status(n)
      BY <2>1 DEF Status
  <2>5. Statuses[m] = "new" /\ Statuses' = [Statuses EXCEPT ![m] = "pending"]
      BY <2>2, <2>3, <2>4 DEF Statuses
  <2> QED
      BY <2>5 DEF Promise!Next, Promise!Publish, Statuses
<1>3. ASSUME NEW t \in Thread, NEW p \in Page, PageTakes(t, p)
      PROVE  Promise!Next
  <2>1. msg[t] \in Message /\ msg[t] # Null
      BY <1>0, <1>3, QueueAssumption
      DEF PageTakes, AtPage, Control, Controlled, InPublish, TypeOK, ThreadOK
  <2>2. <<msg[t]>> \in Seq(Message \cup {Null})
      BY <2>1
  <2>3. Messages(<<msg[t]>>) = {msg[t]}
      BY <2>1 DEF Messages
  <2>4. msg[t] \in Pending
      BY <2>1 DEF Carried, Pending
  <2>5. \A i, j \in DOMAIN <<msg[t]>> : i = j
      OBVIOUS
  <2>6. Deliver(p, <<msg[t]>>)
      BY <1>3 DEF PageTakes
  <2>7. Promise!Deliver({msg[t]})
      BY <1>0, <2>2, <2>3, <2>4, <2>5, <2>6, DeliverStep
  <2> QED
      BY <2>1, <2>7 DEF Promise!Next
<1>4. ASSUME NEW t \in Thread, BatchTaken(t)
      PROVE  Promise!Next
  <2>1. /\ page[t] \in Page
        /\ batch[t] \in Seq(Message \cup {Null})
        /\ Deliver(page[t], batch[t])
      BY <1>0, <1>4
      DEF BatchTaken, Control, Controlled, OnPage, InDrain, TypeOK, ThreadOK
  <2>2. /\ Messages(batch[t]) \in SUBSET Message
        /\ Messages(batch[t]) \subseteq Pending
      BY <2>1 DEF Messages, Drained, Pending
  <2>3. \A i, j \in DOMAIN batch[t] :
           batch[t][i] = batch[t][j] /\ batch[t][i] # Null => i = j
      BY <1>0 DEF Ledger, DrainedOnce
  <2> QED
      BY <1>0, <2>1, <2>2, <2>3, DeliverStep DEF Promise!Next
<1>5. ASSUME NEW t \in Thread, Refuse(t)
      PROVE  Promise!Next
  <2>1. msg[t] \in Message /\ msg[t] # Null
      BY <1>0, <1>5, QueueAssumption
      DEF Refuse, Control, Controlled, InPublish, TypeOK, ThreadOK
  <2>2. PICK m \in Message : m = msg[t]
      BY <2>1
  <2>3. m \in Pending
      BY <2>1, <2>2 DEF Carried, Pending
  <2>4. refused' = refused \cup {m} /\ UNCHANGED <<published, lost, copies>>
      BY <1>5, <2>2 DEF Refuse
  <2>5. Status(m)' = "refused"
      BY <1>0, <2>3, <2>4, PendingOnly DEF Status
  <2>6. \A n \in Message \ {m} : Status(n)' = Status(n)
      BY <2>4 DEF Status
  <2>7. Promise!Settle({m}, "refused")
      BY <1>0, <2>3, <2>5, <2>6, SettleStep
  <2> QED
      BY <2>7 DEF Promise!Next, Promise!Refuse
<1>6. ASSUME NEW t \in Thread, ReofferNull(t)
      PROVE  Promise!Next
  <2> DEFINE S == Messages(batch[t])
  <2>1. batch[t] \in Seq(Message \cup {Null})
      BY <1>0 DEF TypeOK, ThreadOK
  <2>2. S \in SUBSET Message /\ S \subseteq Pending
      BY <2>1 DEF Messages, Drained, Pending
  <2>3. lost' = lost \cup S /\ UNCHANGED <<published, refused, copies>>
      BY <1>6 DEF ReofferNull
  <2>4. ASSUME NEW m \in S PROVE Status(m)' = "lost"
      BY <1>0, <2>2, <2>3, <2>4, PendingOnly DEF Status
  <2>5. \A n \in Message \ S : Status(n)' = Status(n)
      BY <2>3 DEF Status
  <2> QED
      BY <1>0, <2>2, <2>4, <2>5, SettleStep DEF Promise!Next, Promise!Lose
<1> QED
    BY <1>1, <1>2, <1>3, <1>4, <1>5, <1>6, OtherSteps DEF Fateful

\* The queue implements the point-to-point promise: each of its steps settles
\* pending messages once and for all, publishes one, or changes no status.
THEOREM Implementation == Spec => KeepsPromise
PROOF
<1>1. Init => Promise!Init
    BY DEF Init, Promise!Init, Status
<1>2. IInv /\ [Next]_vars => [Promise!Next]_Statuses
    BY PromiseStep
<1> QED
    BY <1>1, <1>2, Invariance, PTL
    DEF Spec, KeepsPromise, Promise!Spec, Statuses

=============================================================================
