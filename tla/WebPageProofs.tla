--------------------------- MODULE WebPageProofs ---------------------------
(***************************************************************************)
(* Theorems about one web page: that no message is doubled or mislaid      *)
(* between the threads' hands, the page's buffer and the wire, that a long *)
(* poll gets one body, and by how much the buffer can exceed its bound.    *)
(***************************************************************************)
EXTENDS WebPageProperties, FiniteSetTheorems, SequenceTheorems, TLAPS

-----------------------------------------------------------------------------
(* The inductive invariant.                                                *)

InListen == {"header", "enter", "swap", "drain"}

\* Where a thread is determines what it has in its hands: nothing before it
\* drains and when it closes, the heartbeat of the timer, or messages.
Controlled(t) ==
    /\ pc[t] = "idle" <=> op[t] = "none"
    /\ pc[t] \in InListen \cup {"fill"} => op[t] = "listen" /\ conn[t] \in Channel
    /\ pc[t] = "offer" => op[t] \in {"topic", "listen"}
    /\ pc[t] = "pulse" => op[t] = "heartbeat"
    /\ op[t] \in {"none", "close"} \/ pc[t] \in InListen => batch[t] = << >>
    /\ op[t] = "heartbeat" => batch[t] = <<HB>>
    /\ op[t] # "heartbeat" => batch[t] \in Seq(Message \cup {Null})

Control == \A t \in Thread : Controlled(t)

\* A message is in one place only, and once.
BufferedOnce ==
    \A i, j \in DOMAIN buffered : buffered[i] = buffered[j] => i = j

CarriedOnce ==
    \A t, u \in Thread : \A i \in DOMAIN batch[t], j \in DOMAIN batch[u] :
        batch[t][i] = batch[u][j] /\ batch[t][i] \in Message => t = u /\ i = j

Ledger == BufferedOnce /\ CarriedOnce /\ AtMostOnce /\ Located

\* A channel that may be written has had no body since its last request.
OneBody ==
    LongPolling =>
        \A c \in Channel : bodies[c] <= 1 /\ (writable[c] => bodies[c] = 0)

\* What the threads that have passed the test of the size may still offer.
Offered ==
    {p \in Thread \X (1..MaxPending) :
        pc[p[1]] = "offer" /\ p[2] <= Len(batch[p[1]])}

\* They passed it one by one: each finds at most MaxPending in the buffer
\* and in its hands together, whatever the others have in theirs.
Room ==
    /\ \A t \in Thread : pc[t] = "offer" => Len(batch[t]) <= MaxPending
    /\ Len(buffered) + Cardinality(Offered) <= Cardinality(Thread) * MaxPending

IInv == TypeOK /\ Control /\ Ledger /\ OneBody /\ Room

-----------------------------------------------------------------------------
(* Types                                                                   *)

LEMMA CountType ==
    ASSUME NEW S, NEW s \in Seq(S), NEW m
    PROVE  Count(m, s) \in Nat
PROOF
<1> DEFINE I == {i \in DOMAIN s : s[i] = m}
<1>1. I \subseteq 1 .. Len(s) /\ IsFiniteSet(1 .. Len(s))
    BY FS_Interval
<1>2. IsFiniteSet(I)
    BY <1>1, FS_Subset
<1> QED
    BY <1>2, FS_CardinalityType DEF Count

LEMMA TypeOKStep ==
    ASSUME TypeOK, Control, [Next]_vars
    PROVE  TypeOK'
PROOF
<1> USE WebPageAssumption DEF TypeOK, Ops, Steps, page, wire, local, ends, vars,
      At, Goto, Move, Begin, End, Fail, Messages
<1>1. ASSUME NEW t \in Thread, GetChannel(t)
      PROVE  TypeOK'
    BY <1>1, SMTT(30) DEF GetChannel
<1>2. ASSUME NEW t \in Thread, Valid(t)
      PROVE  TypeOK'
    BY <1>2, SMTT(30) DEF Valid
<1>3. ASSUME NEW t \in Thread, Expired(t)
      PROVE  TypeOK'
    BY <1>3, SMTT(30) DEF Expired
<1>4. ASSUME NEW t \in Thread, Online(t)
      PROVE  TypeOK'
    BY <1>4, SMTT(30) DEF Online
<1>5. ASSUME NEW t \in Thread, Offline(t)
      PROVE  TypeOK'
    BY <1>5, SMTT(30) DEF Offline
<1>6. ASSUME NEW t \in Thread, ProbeFails(t)
      PROVE  TypeOK'
    BY <1>6, SMTT(30) DEF ProbeFails
<1>7. ASSUME NEW t \in Thread, ProbeSucceeds(t)
      PROVE  TypeOK'
    BY <1>7, SMTT(30) DEF ProbeSucceeds
<1>8. ASSUME NEW t \in Thread, NothingToWrite(t)
      PROVE  TypeOK'
  <2>1. idle' \in BOOLEAN
      BY ONLY <1>8, Zenon DEF NothingToWrite
  <2> QED
      BY <1>8, <2>1, SMTT(30) DEF NothingToWrite
<1>9. ASSUME NEW t \in Thread, ClaimFails(t)
      PROVE  TypeOK'
    BY <1>9, SMTT(30) DEF ClaimFails
<1>10. ASSUME NEW t \in Thread, Write(t)
       PROVE  TypeOK'
  <2>1. \A m \in Message : Count(m, batch[t]) \in Nat
      BY CountType
  <2>2. copies' \in [Message -> Nat]
      BY <1>10, <2>1 DEF Write
  <2>3. bodies' \in [Channel -> Nat]
    <3>1. \/ bodies' = bodies
          \/ bodies' = [bodies EXCEPT ![target[t]] = @ + 1]
        BY ONLY <1>10 DEF Write
    <3> QED
        BY ONLY <3>1, bodies \in [Channel -> Nat]
  <2>4. idle' \in BOOLEAN
    <3>1. idle' = (op[t] = "heartbeat" /\ idle)
        BY ONLY <1>10 DEF Write
    <3> QED
        BY ONLY <3>1, Zenon
  <2>5. writable' \in [Channel -> BOOLEAN]
    <3> DEFINE b == ~LongPolling
    <3>1. b \in BOOLEAN
        OBVIOUS
    <3>2. writable' = [writable EXCEPT ![target[t]] = b]
        BY ONLY <1>10 DEF Write
    <3> HIDE DEF b
    <3> QED
        BY <3>1, <3>2
  <2> QED
      BY <1>10, <2>2, <2>3, <2>4, <2>5, SMTT(20) DEF Write
<1>11. ASSUME NEW t \in Thread, Unbuffered(t)
       PROVE  TypeOK'
    BY <1>11, SMTT(30) DEF Unbuffered
<1>12. ASSUME NEW t \in Thread, NoRoom(t)
       PROVE  TypeOK'
    BY <1>12, SMTT(30) DEF NoRoom
<1>13. ASSUME NEW t \in Thread, FindRoom(t)
       PROVE  TypeOK'
    BY <1>13, SMTT(30) DEF FindRoom
<1>14. ASSUME NEW t \in Thread, OfferItem(t)
       PROVE  TypeOK'
  <2>1. batch[t] \in Seq(Message \cup {Null}) /\ batch[t] # << >>
      BY <1>14 DEF OfferItem, Control, Controlled
  <2>2. Head(batch[t]) \in Message /\ Tail(batch[t]) \in Seq(Message \cup {Null})
      BY <1>14, <2>1, HeadTailProperties DEF OfferItem
  <2>3. Tail(batch[t]) \in Seq(Message \cup {Null, HB})
      BY <2>1, HeadTailProperties
  <2>4. buffered' \in Seq(Message)
      BY <1>14, <2>2 DEF OfferItem
  <2>5. batch' \in [Thread -> Seq(Message \cup {Null, HB})]
      BY <1>14, <2>3 DEF OfferItem
  <2> QED
      BY <1>14, <2>4, <2>5 DEF OfferItem
<1>15. ASSUME NEW t \in Thread, OfferNull(t)
       PROVE  TypeOK'
    BY <1>15, SMTT(30) DEF OfferNull
<1>16. ASSUME NEW t \in Thread, OfferDone(t)
       PROVE  TypeOK'
    BY <1>16, SMTT(30) DEF OfferDone
<1>17. ASSUME NEW t \in Thread, WriteHeader(t)
       PROVE  TypeOK'
  <2>1. conn[t] \in Channel
      BY <1>17, SMTT(30) DEF WriteHeader, Control, Controlled, InListen
  <2> QED
      BY <1>17, <2>1, SMTT(30) DEF WriteHeader
<1>18. ASSUME NEW t \in Thread, RegisterChannel(t)
       PROVE  TypeOK'
  <2>1. idle' \in BOOLEAN
      BY ONLY <1>18, Zenon DEF RegisterChannel
  <2> QED
      BY <1>18, <2>1, SMTT(30) DEF RegisterChannel
<1>19. ASSUME NEW t \in Thread, Swap(t)
       PROVE  TypeOK'
  <2>1. conn[t] \in Channel
      BY <1>19, SMTT(30) DEF Swap, Control, Controlled, InListen
  <2> QED
      BY <1>19, <2>1 DEF Swap
<1>20. ASSUME NEW t \in Thread, NothingBuffered(t)
       PROVE  TypeOK'
    BY <1>20, SMTT(30) DEF NothingBuffered
<1>21. ASSUME NEW t \in Thread, Measure(t)
       PROVE  TypeOK'
    BY <1>21, SMTT(30) DEF Measure
<1>22. ASSUME NEW t \in Thread, PollItem(t)
       PROVE  TypeOK'
  <2>1. /\ Head0(buffered) \in Message \cup {Null}
        /\ Tail0(buffered) \in Seq(Message)
      BY HeadTailProperties DEF Head0, Tail0
  <2>2. batch' \in [Thread -> Seq(Message \cup {Null, HB})]
      BY <1>22, <2>1 DEF PollItem
  <2>3. pc' \in [Thread -> Steps]
      BY <1>22 DEF PollItem
  <2> QED
      BY <1>22, <2>1, <2>2, <2>3 DEF PollItem
<1>23. ASSUME NEW t \in Thread, Pulse(t)
       PROVE  TypeOK'
    BY <1>23, SMTT(30) DEF Pulse
<1>24. ASSUME NEW t \in Thread, NoPulse(t)
       PROVE  TypeOK'
    BY <1>24, SMTT(30) DEF NoPulse
<1>25. ASSUME NEW t \in Thread, CloseChannel(t)
       PROVE  TypeOK'
    BY <1>25, SMTT(30) DEF CloseChannel
<1>26. ASSUME NEW t \in Thread, Leave(t)
       PROVE  TypeOK'
  <2>1. live' \in BOOLEAN
      BY ONLY <1>26, Zenon DEF Leave
  <2> QED
      BY <1>26, <2>1, SMTT(30) DEF Leave
<1>27. ASSUME NEW t \in Thread, ClearItem(t)
       PROVE  TypeOK'
  <2>1. Head(buffered) \in Message /\ Tail(buffered) \in Seq(Message)
      BY <1>27, HeadTailProperties DEF ClearItem
  <2> QED
      BY <1>27, <2>1 DEF ClearItem
<1>28. ASSUME NEW t \in Thread, Cleared(t)
       PROVE  TypeOK'
    BY <1>28, SMTT(30) DEF Cleared
<1>29. ASSUME NEW t \in Thread, NEW m \in Message,
             NEW kind \in {"topic", "queue"}, Publish(t, m, kind)
       PROVE  TypeOK'
    BY <1>29, SMTT(30) DEF Publish
<1>30. ASSUME NEW t \in Thread, NEW c \in Channel, Request(t, c)
       PROVE  TypeOK'
    BY <1>30, SMTT(30) DEF Request
<1>31. ASSUME NEW t \in Thread, Heartbeat(t)
       PROVE  TypeOK'
    BY <1>31, SMTT(30) DEF Heartbeat
<1>32. ASSUME NEW t \in Thread, CloseCommand(t)
       PROVE  TypeOK'
    BY <1>32, SMTT(30) DEF CloseCommand
<1>33. ASSUME NEW c \in Channel, Disconnect(c)
       PROVE  TypeOK'
    BY <1>33, SMTT(30) DEF Disconnect
<1>34. ASSUME BecomeIdle
       PROVE  TypeOK'
    BY <1>34, SMTT(30) DEF BecomeIdle
<1>40. ASSUME NEW t \in Thread, Receive(t)
       PROVE  TypeOK'
    BY <1>40, <1>1, <1>2, <1>3, <1>4, <1>5, <1>6, <1>7, <1>8, <1>9, <1>10,
       <1>11, <1>12, <1>13, <1>14, <1>15, <1>16 DEF Receive
<1>41. ASSUME NEW t \in Thread, Listen(t)
       PROVE  TypeOK'
    BY <1>41, <1>17, <1>18, <1>19, <1>20, <1>21, <1>22 DEF Listen
<1>42. ASSUME NEW t \in Thread, Keep(t)
       PROVE  TypeOK'
    BY <1>42, <1>23, <1>24, <1>25, <1>26, <1>27, <1>28 DEF Keep
<1>43. ASSUME NEW t \in Thread, Start(t)
       PROVE  TypeOK'
    BY ONLY <1>43, <1>29, <1>30, <1>31, <1>32 DEF Start
<1>44. CASE UNCHANGED vars
    BY <1>44
<1> QED
    BY <1>40, <1>41, <1>42, <1>43, <1>44, <1>33, <1>34 DEF Next, Step

LEMMA ControlStep ==
    ASSUME TypeOK, Control, [Next]_vars
    PROVE  Control'
PROOF
<1> USE WebPageAssumption DEF TypeOK, Control, Controlled, InListen, Ops, Steps,
      page, wire, local, vars, At, Goto, Move, Begin, End, Fail
<1>1. ASSUME NEW t \in Thread, GetChannel(t)
      PROVE  Control'
    BY <1>1, SMTT(30) DEF GetChannel
<1>2. ASSUME NEW t \in Thread, Valid(t)
      PROVE  Control'
    BY <1>2, SMTT(30) DEF Valid
<1>3. ASSUME NEW t \in Thread, Expired(t)
      PROVE  Control'
    BY <1>3, SMTT(30) DEF Expired
<1>4. ASSUME NEW t \in Thread, Online(t)
      PROVE  Control'
    BY <1>4, SMTT(30) DEF Online
<1>5. ASSUME NEW t \in Thread, Offline(t)
      PROVE  Control'
    BY <1>5, SMTT(30) DEF Offline
<1>6. ASSUME NEW t \in Thread, ProbeFails(t)
      PROVE  Control'
    BY <1>6, SMTT(30) DEF ProbeFails
<1>7. ASSUME NEW t \in Thread, ProbeSucceeds(t)
      PROVE  Control'
    BY <1>7, SMTT(30) DEF ProbeSucceeds
<1>8. ASSUME NEW t \in Thread, NothingToWrite(t)
      PROVE  Control'
    BY <1>8, SMTT(30) DEF NothingToWrite
<1>9. ASSUME NEW t \in Thread, ClaimFails(t)
      PROVE  Control'
    BY <1>9, SMTT(30) DEF ClaimFails
<1>10. ASSUME NEW t \in Thread, Write(t)
       PROVE  Control'
    BY <1>10, SMTT(30) DEF Write
<1>11. ASSUME NEW t \in Thread, Unbuffered(t)
       PROVE  Control'
    BY <1>11, SMTT(30) DEF Unbuffered
<1>12. ASSUME NEW t \in Thread, NoRoom(t)
       PROVE  Control'
    BY <1>12, SMTT(30) DEF NoRoom
<1>13. ASSUME NEW t \in Thread, FindRoom(t)
       PROVE  Control'
    BY <1>13, SMTT(30) DEF FindRoom
<1>14. ASSUME NEW t \in Thread, OfferItem(t)
       PROVE  Control'
  <2>1. Tail(batch[t]) \in Seq(Message \cup {Null})
      BY <1>14, HeadTailProperties DEF OfferItem
  <2> QED
      BY <1>14, <2>1, SMTT(30) DEF OfferItem
<1>15. ASSUME NEW t \in Thread, OfferNull(t)
       PROVE  Control'
    BY <1>15, SMTT(30) DEF OfferNull
<1>16. ASSUME NEW t \in Thread, OfferDone(t)
       PROVE  Control'
    BY <1>16, SMTT(30) DEF OfferDone
<1>17. ASSUME NEW t \in Thread, WriteHeader(t)
       PROVE  Control'
    BY <1>17, SMTT(30) DEF WriteHeader
<1>18. ASSUME NEW t \in Thread, RegisterChannel(t)
       PROVE  Control'
    BY <1>18, SMTT(30) DEF RegisterChannel
<1>19. ASSUME NEW t \in Thread, Swap(t)
       PROVE  Control'
    BY <1>19, SMTT(30) DEF Swap
<1>20. ASSUME NEW t \in Thread, NothingBuffered(t)
       PROVE  Control'
    BY <1>20, SMTT(30) DEF NothingBuffered
<1>21. ASSUME NEW t \in Thread, Measure(t)
       PROVE  Control'
    BY <1>21, SMTT(30) DEF Measure
<1>22. ASSUME NEW t \in Thread, PollItem(t)
       PROVE  Control'
  <2>1. Head0(buffered) \in Message \cup {Null}
      BY HeadTailProperties DEF Head0
  <2>2. Append(batch[t], Head0(buffered)) \in Seq(Message \cup {Null})
    <3>1. batch[t] \in Seq(Message \cup {Null})
        BY ONLY Control, t \in Thread, <1>22 DEF PollItem
    <3> QED
        BY ONLY <2>1, <3>1
  <2> QED
      BY <1>22, <2>2, SMTT(30) DEF PollItem
<1>23. ASSUME NEW t \in Thread, Pulse(t)
       PROVE  Control'
    BY <1>23, SMTT(30) DEF Pulse
<1>24. ASSUME NEW t \in Thread, NoPulse(t)
       PROVE  Control'
    BY <1>24, SMTT(30) DEF NoPulse
<1>25. ASSUME NEW t \in Thread, CloseChannel(t)
       PROVE  Control'
    BY <1>25, SMTT(30) DEF CloseChannel
<1>26. ASSUME NEW t \in Thread, Leave(t)
       PROVE  Control'
    BY <1>26, SMTT(30) DEF Leave
<1>27. ASSUME NEW t \in Thread, ClearItem(t)
       PROVE  Control'
    BY <1>27, SMTT(30) DEF ClearItem
<1>28. ASSUME NEW t \in Thread, Cleared(t)
       PROVE  Control'
    BY <1>28, SMTT(30) DEF Cleared
<1>29. ASSUME NEW t \in Thread, NEW m \in Message,
             NEW kind \in {"topic", "queue"}, Publish(t, m, kind)
       PROVE  Control'
  <2>1. <<m>> \in Seq(Message \cup {Null})
      OBVIOUS
  <2> QED
    <3>1. \A u \in Thread \ {t} : Controlled(u)'
        BY <1>29, SMTT(30) DEF Publish
    <3>2. pc'[t] = "get" /\ op'[t] = kind /\ batch'[t] = <<m>>
        BY <1>29, SMTT(30) DEF Publish
    <3>3. Controlled(t)'
        BY ONLY <2>1, <3>2, kind \in {"topic", "queue"}
    <3> QED
        BY ONLY <3>1, <3>3 DEF Control
<1>30. ASSUME NEW t \in Thread, NEW c \in Channel, Request(t, c)
       PROVE  Control'
    BY <1>30, SMTT(30) DEF Request
<1>31. ASSUME NEW t \in Thread, Heartbeat(t)
       PROVE  Control'
    BY <1>31, SMTT(30) DEF Heartbeat
<1>32. ASSUME NEW t \in Thread, CloseCommand(t)
       PROVE  Control'
    BY <1>32, SMTT(30) DEF CloseCommand
<1>33. ASSUME NEW c \in Channel, Disconnect(c)
       PROVE  Control'
    BY <1>33, SMTT(30) DEF Disconnect
<1>34. ASSUME BecomeIdle
       PROVE  Control'
    BY <1>34, SMTT(30) DEF BecomeIdle
<1>40. ASSUME NEW t \in Thread, Receive(t)
       PROVE  Control'
    BY <1>40, <1>1, <1>2, <1>3, <1>4, <1>5, <1>6, <1>7, <1>8, <1>9, <1>10,
       <1>11, <1>12, <1>13, <1>14, <1>15, <1>16 DEF Receive
<1>41. ASSUME NEW t \in Thread, Listen(t)
       PROVE  Control'
    BY <1>41, <1>17, <1>18, <1>19, <1>20, <1>21, <1>22 DEF Listen
<1>42. ASSUME NEW t \in Thread, Keep(t)
       PROVE  Control'
    BY <1>42, <1>23, <1>24, <1>25, <1>26, <1>27, <1>28 DEF Keep
<1>43. ASSUME NEW t \in Thread, Start(t)
       PROVE  Control'
    BY ONLY <1>43, <1>29, <1>30, <1>31, <1>32 DEF Start
<1>44. CASE UNCHANGED vars
    BY <1>44
<1> QED
    BY <1>40, <1>41, <1>42, <1>43, <1>44, <1>33, <1>34 DEF Next, Step

-----------------------------------------------------------------------------
(* Sequences of commands: what Append, Tail and Count do to their messages *)

Command == Message \cup {Null, HB}

LEMMA AppendMessages ==
    ASSUME NEW s \in Seq(Command), NEW x \in Command
    PROVE  Messages(Append(s, x)) = Messages(s) \cup ({x} \cap Message)
PROOF
<1> DEFINE a == Append(s, x)
<1>1. /\ DOMAIN a = 1 .. Len(s) + 1
      /\ DOMAIN s = 1 .. Len(s)
      /\ Len(s) \in Nat
      /\ \A i \in 1 .. Len(s) : a[i] = s[i]
      /\ a[Len(s) + 1] = x
    OBVIOUS
<1> HIDE DEF a
<1>2. {a[i] : i \in DOMAIN a} = {s[i] : i \in DOMAIN s} \cup {x}
    BY <1>1
<1> QED
    BY <1>2 DEF Messages, a

\* The messages of a sequence that holds each only once
Once(s) == \A i, j \in DOMAIN s : s[i] = s[j] /\ s[i] \in Message => i = j

LEMMA TailMessages ==
    ASSUME NEW s \in Seq(Command), s # << >>, Once(s)
    PROVE  /\ Messages(Tail(s)) = Messages(s) \ {Head(s)}
           /\ \A i \in DOMAIN Tail(s) : i + 1 \in DOMAIN s /\ Tail(s)[i] = s[i + 1]
           /\ Head(s) = s[1] /\ 1 \in DOMAIN s
           /\ DOMAIN Tail(s) \subseteq Nat
PROOF
<1> DEFINE r == Tail(s)
<1>1. /\ DOMAIN s = 1 .. Len(s)
      /\ DOMAIN r = 1 .. Len(s) - 1
      /\ Len(s) \in Nat \ {0}
      /\ \A i \in 1 .. Len(s) - 1 : r[i] = s[i + 1]
      /\ Head(s) = s[1]
    BY HeadTailProperties, LenProperties, EmptySeq
<1> HIDE DEF r
<1>2. \A i \in DOMAIN r : i + 1 \in DOMAIN s /\ r[i] = s[i + 1]
    BY <1>1
<1>3. \A i \in DOMAIN s : i = 1 \/ (i - 1 \in DOMAIN r /\ r[i - 1] = s[i])
    BY <1>1
<1>4. Messages(r) = Messages(s) \ {Head(s)}
  <2>1. \A x \in Messages(r) : x \in Messages(s) /\ x # Head(s)
      BY <1>1, <1>2 DEF Messages, Once
  <2>2. \A x \in Messages(s) : x # Head(s) => x \in Messages(r)
      BY <1>1, <1>3 DEF Messages
  <2> QED
      BY <2>1, <2>2
<1> QED
    BY <1>1, <1>2, <1>4 DEF r

LEMMA CountOnce ==
    ASSUME NEW s \in Seq(Command), NEW m \in Message, Once(s)
    PROVE  Count(m, s) = IF m \in Messages(s) THEN 1 ELSE 0
PROOF
<1> DEFINE I == {i \in DOMAIN s : s[i] = m}
<1>1. CASE m \in Messages(s)
  <2>1. PICK k \in DOMAIN s : s[k] = m
      BY <1>1 DEF Messages
  <2>2. I = {k}
      BY <2>1 DEF Once
  <2> QED
      BY <1>1, <2>2, FS_Singleton DEF Count
<1>2. CASE m \notin Messages(s)
  <2>1. I = {}
      BY <1>2 DEF Messages
  <2> QED
      BY <1>2, <2>1, FS_EmptySet DEF Count
<1> QED
    BY <1>1, <1>2

-----------------------------------------------------------------------------
(* The ledger: each step moves messages from one place to the next.        *)

Handed == batch \in [Thread -> Seq(Command)]

ledger == <<buffered, batch, published, copies, ends>>

LEMMA LedgerFrame ==
    ASSUME Ledger, UNCHANGED ledger
    PROVE  Ledger'
PROOF
<1>1. /\ Carried' = Carried /\ Buffered' = Buffered /\ Settled' = Settled
    BY DEF ledger, ends, Carried, Buffered, Settled, Written, Messages
<1>2. BufferedOnce' /\ CarriedOnce' /\ AtMostOnce'
    BY DEF ledger, Ledger, BufferedOnce, CarriedOnce, AtMostOnce
<1>3. Located'
    BY <1>1 DEF ledger, Ledger, Located
<1> QED
    BY <1>2, <1>3 DEF Ledger

\* What is carried, before and after a step in which one thread's hands change.
LEMMA OneHand ==
    ASSUME Handed, NEW t \in Thread, NEW b, batch' = [batch EXCEPT ![t] = b]
    PROVE  /\ batch'[t] = b
           /\ \A u \in Thread \ {t} : batch'[u] = batch[u]
           /\ \A x : x \in Carried <=>
                 \/ x \in Messages(batch[t])
                 \/ \E u \in Thread \ {t} : x \in Messages(batch[u])
           /\ \A x : x \in Carried' <=>
                 \/ x \in Messages(b)
                 \/ \E u \in Thread \ {t} : x \in Messages(batch[u])
PROOF
<1>1. batch'[t] = b /\ \A u \in Thread \ {t} : batch'[u] = batch[u]
    BY DEF Handed
<1>2. \A x : x \in Carried <=> \E u \in Thread : x \in Messages(batch[u])
    BY DEF Carried
<1>3. \A x : x \in Carried' <=> \E u \in Thread : x \in Messages(batch'[u])
    BY DEF Carried, Messages
<1> QED
    BY ONLY <1>1, <1>2, <1>3, t \in Thread

\* A thread lets go of all it has.
LEMMA LetGo ==
    ASSUME Handed, CarriedOnce, NEW t \in Thread,
           batch' = [batch EXCEPT ![t] = << >>]
    PROVE  /\ CarriedOnce'
           /\ Messages(batch[t]) \subseteq Carried
           /\ Carried' = Carried \ Messages(batch[t])
PROOF
<1>1. batch'[t] = << >> /\ \A u \in Thread \ {t} : batch'[u] = batch[u]
    BY DEF Handed
<1>2. CarriedOnce'
    BY <1>1 DEF CarriedOnce
<1>3. \A u \in Thread \ {t} : Messages(batch[u]) \cap Messages(batch[t]) = {}
    BY DEF Messages, CarriedOnce
<1>4. Messages(<< >>) = {}
    BY DEF Messages
<1>5. /\ \A x : x \in Carried <=>
            \/ x \in Messages(batch[t])
            \/ \E u \in Thread \ {t} : x \in Messages(batch[u])
      /\ \A x : x \in Carried' <=>
            \/ x \in Messages(<< >>)
            \/ \E u \in Thread \ {t} : x \in Messages(batch[u])
    BY OneHand
<1>6. Messages(batch[t]) \subseteq Carried
    BY ONLY <1>5
<1>7. Carried' = Carried \ Messages(batch[t])
    BY ONLY <1>3, <1>4, <1>5
<1> QED
    BY ONLY <1>2, <1>6, <1>7

\* A thread gets a null, or a message that nobody carries.
LEMMA TakeNull ==
    ASSUME Handed, CarriedOnce, NEW t \in Thread, Null \notin Message,
           batch' = [batch EXCEPT ![t] = Append(@, Null)]
    PROVE  Carried' = Carried /\ CarriedOnce'
PROOF
<1> DEFINE b == Append(batch[t], Null)
<1>1. batch[t] \in Seq(Command) /\ Null \in Command
    BY DEF Handed, Command
<1>2. /\ DOMAIN b = DOMAIN batch[t] \cup {Len(batch[t]) + 1}
      /\ \A i \in DOMAIN batch[t] : b[i] = batch[t][i]
      /\ b[Len(batch[t]) + 1] = Null
    BY <1>1
<1>3. Messages(b) = Messages(batch[t])
  <2>1. Messages(b) = Messages(batch[t]) \cup ({Null} \cap Message)
      BY <1>1, AppendMessages
  <2> QED
      BY ONLY <2>1, Null \notin Message
<1>4. batch' = [batch EXCEPT ![t] = b]
    OBVIOUS
<1> HIDE DEF b
<1>5. batch'[t] = b /\ \A u \in Thread \ {t} : batch'[u] = batch[u]
    BY <1>4 DEF Handed
<1>6. CarriedOnce'
    BY <1>2, <1>5 DEF CarriedOnce
<1>7. Carried' = Carried
  <2>1. /\ \A x : x \in Carried <=>
              \/ x \in Messages(batch[t])
              \/ \E u \in Thread \ {t} : x \in Messages(batch[u])
        /\ \A x : x \in Carried' <=>
              \/ x \in Messages(b)
              \/ \E u \in Thread \ {t} : x \in Messages(batch[u])
      BY <1>4, OneHand
  <2> QED
      BY ONLY <1>3, <2>1
<1> QED
    BY <1>6, <1>7

LEMMA TakeMessage ==
    ASSUME Handed, CarriedOnce, NEW t \in Thread, NEW m \in Message,
           m \notin Carried,
           batch' = [batch EXCEPT ![t] = Append(@, m)]
    PROVE  Carried' = Carried \cup {m} /\ CarriedOnce'
PROOF
<1> DEFINE b == Append(batch[t], m)
<1>1. batch[t] \in Seq(Command) /\ m \in Command
    BY DEF Handed, Command
<1>2. /\ DOMAIN b = DOMAIN batch[t] \cup {Len(batch[t]) + 1}
      /\ \A i \in DOMAIN batch[t] : b[i] = batch[t][i]
      /\ b[Len(batch[t]) + 1] = m
    BY <1>1
<1>3. Messages(b) = Messages(batch[t]) \cup {m}
    BY <1>1, AppendMessages
<1>4. batch' = [batch EXCEPT ![t] = b]
    OBVIOUS
<1> HIDE DEF b
<1>5. batch'[t] = b /\ \A u \in Thread \ {t} : batch'[u] = batch[u]
    BY <1>4 DEF Handed
<1>6. \A u \in Thread : \A i \in DOMAIN batch[u] : batch[u][i] # m
    BY DEF Carried, Messages
<1>7. CarriedOnce'
    BY <1>2, <1>5, <1>6 DEF CarriedOnce
<1>8. /\ \A x : x \in Carried <=>
            \/ x \in Messages(batch[t])
            \/ \E u \in Thread \ {t} : x \in Messages(batch[u])
      /\ \A x : x \in Carried' <=>
            \/ x \in Messages(b)
            \/ \E u \in Thread \ {t} : x \in Messages(batch[u])
    BY <1>4, OneHand
<1>9. Carried' = Carried \cup {m}
    BY ONLY <1>3, <1>8
<1> QED
    BY <1>7, <1>9

\* A thread gives the first of its messages back.
LEMMA GiveHead ==
    ASSUME Handed, CarriedOnce, NEW t \in Thread,
           batch[t] # << >>, Head(batch[t]) \in Message,
           batch' = [batch EXCEPT ![t] = Tail(@)]
    PROVE  /\ CarriedOnce'
           /\ Head(batch[t]) \in Carried
           /\ Carried' = Carried \ {Head(batch[t])}
PROOF
<1> DEFINE b == Tail(batch[t])
           m == Head(batch[t])
<1>1. batch[t] \in Seq(Command) /\ Once(batch[t])
    BY DEF Handed, CarriedOnce, Once
<1>2. /\ Messages(b) = Messages(batch[t]) \ {m}
      /\ \A i \in DOMAIN b : i + 1 \in DOMAIN batch[t] /\ b[i] = batch[t][i + 1]
      /\ m = batch[t][1] /\ 1 \in DOMAIN batch[t]
      /\ DOMAIN b \subseteq Nat
    BY <1>1, TailMessages
<1>3. m \in Message
    OBVIOUS
<1>4. batch' = [batch EXCEPT ![t] = b]
    OBVIOUS
<1> HIDE DEF b, m
<1>5. batch'[t] = b /\ \A u \in Thread \ {t} : batch'[u] = batch[u]
    BY <1>4 DEF Handed
<1>6. CarriedOnce'
  <2> SUFFICES ASSUME NEW u \in Thread, NEW v \in Thread,
                      NEW i \in DOMAIN batch'[u], NEW j \in DOMAIN batch'[v],
                      batch'[u][i] = batch'[v][j], batch'[u][i] \in Message
               PROVE  u = v /\ i = j
      BY DEF CarriedOnce
  <2>1. CASE u = t /\ v = t
    <3>1. i + 1 = j + 1
        BY <1>2, <1>5, <2>1 DEF CarriedOnce
    <3> QED
        BY <1>2, <1>5, <2>1, <3>1
  <2>2. CASE u = t /\ v # t
      BY <1>2, <1>5, <2>2 DEF CarriedOnce
  <2>3. CASE u # t /\ v = t
    <3>1. /\ i \in DOMAIN batch[u] /\ j + 1 \in DOMAIN batch[t]
          /\ batch[u][i] = batch[t][j + 1] /\ batch[u][i] \in Message
        BY <1>2, <1>5, <2>3
    <3> QED
        BY <2>3, <3>1 DEF CarriedOnce
  <2>4. CASE u # t /\ v # t
      BY <1>5, <2>4 DEF CarriedOnce
  <2> QED
      BY <2>1, <2>2, <2>3, <2>4
<1>7. m \in Messages(batch[t])
    BY <1>2, <1>3 DEF Messages
<1>8. \A u \in Thread \ {t} : m \notin Messages(batch[u])
    BY <1>2, <1>3 DEF Messages, CarriedOnce
<1>9. /\ \A x : x \in Carried <=>
            \/ x \in Messages(batch[t])
            \/ \E u \in Thread \ {t} : x \in Messages(batch[u])
      /\ \A x : x \in Carried' <=>
            \/ x \in Messages(b)
            \/ \E u \in Thread \ {t} : x \in Messages(batch[u])
    BY <1>4, OneHand
<1>10. m \in Carried /\ Carried' = Carried \ {m}
    BY ONLY <1>2, <1>7, <1>8, <1>9
<1> QED
    BY <1>6, <1>10 DEF m

\* The buffer gets a message it does not hold.
LEMMA Buffer ==
    ASSUME buffered \in Seq(Message), BufferedOnce, NEW m \in Message,
           m \notin Buffered, buffered' = Append(buffered, m)
    PROVE  BufferedOnce' /\ Buffered' = Buffered \cup {m}
PROOF
<1>1. /\ DOMAIN buffered' = DOMAIN buffered \cup {Len(buffered) + 1}
      /\ \A i \in DOMAIN buffered : buffered'[i] = buffered[i]
      /\ buffered'[Len(buffered) + 1] = m
    OBVIOUS
<1>2. \A i \in DOMAIN buffered : buffered[i] # m
    BY DEF Buffered, Messages
<1>3. BufferedOnce'
    BY <1>1, <1>2 DEF BufferedOnce
<1>4. buffered \in Seq(Command) /\ m \in Command
    BY DEF Command
<1>5. Buffered' = Buffered \cup {m}
    BY <1>4, AppendMessages DEF Buffered
<1> QED
    BY <1>3, <1>5

\* The buffer loses its first message.
LEMMA Unbuffer ==
    ASSUME buffered \in Seq(Message), BufferedOnce, buffered # << >>,
           buffered' = Tail(buffered)
    PROVE  /\ BufferedOnce'
           /\ Head(buffered) \in Buffered
           /\ Buffered' = Buffered \ {Head(buffered)}
PROOF
<1>1. buffered \in Seq(Command) /\ Once(buffered)
    BY DEF Command, BufferedOnce, Once
<1>2. /\ Messages(Tail(buffered)) = Messages(buffered) \ {Head(buffered)}
      /\ \A i \in DOMAIN Tail(buffered) :
            i + 1 \in DOMAIN buffered /\ Tail(buffered)[i] = buffered[i + 1]
      /\ Head(buffered) = buffered[1] /\ 1 \in DOMAIN buffered
      /\ DOMAIN Tail(buffered) \subseteq Nat
    BY <1>1, TailMessages
<1>3. BufferedOnce'
    BY <1>2 DEF BufferedOnce
<1>4. Head(buffered) \in Messages(buffered)
    BY <1>2 DEF Messages
<1> QED
    BY <1>2, <1>3, <1>4 DEF Buffered

\* A channel is written commands that were written to none before.
LEMMA WriteOnce ==
    ASSUME TypeOK, AtMostOnce, NEW s \in Seq(Command), Once(s),
           Messages(s) \cap Written = {},
           copies' = [m \in Message |-> copies[m] + Count(m, s)]
    PROVE  /\ AtMostOnce'
           /\ Written' = Written \cup Messages(s)
PROOF
<1>1. \A m \in Message :
          copies'[m] = copies[m] + (IF m \in Messages(s) THEN 1 ELSE 0)
    BY CountOnce
<1>2. copies \in [Message -> Nat] /\ Messages(s) \subseteq Message
    BY DEF TypeOK, Messages
<1>3. \A m \in Messages(s) : copies[m] = 0
    BY <1>2 DEF Written
<1>4. AtMostOnce'
    BY <1>1, <1>2, <1>3 DEF AtMostOnce
<1>5. Written' = Written \cup Messages(s)
    BY <1>1, <1>2, <1>3 DEF Written
<1> QED
    BY <1>4, <1>5

\* A failed delivery is the end of what the thread had.
LEMMA FailKeepsLedger ==
    ASSUME Handed, Ledger, NEW t \in Thread, NEW reason \in {"missed", "dropped"},
           Fail(t, reason), UNCHANGED <<page, published, copies>>
    PROVE  Ledger'
PROOF
<1>1. batch' = [batch EXCEPT ![t] = << >>] /\ buffered' = buffered
    BY DEF Fail, End, page
<1>2. /\ CarriedOnce' /\ Messages(batch[t]) \subseteq Carried
      /\ Carried' = Carried \ Messages(batch[t])
    BY <1>1, LetGo DEF Ledger
<1>3. /\ BufferedOnce' /\ AtMostOnce'
      /\ UNCHANGED <<Buffered, Written, published>>
    BY <1>1 DEF Ledger, BufferedOnce, AtMostOnce, Buffered, Written, Messages
<1>4. returned' \cup missed' \cup dropped' \cup lost' =
         returned \cup missed \cup dropped \cup lost \cup Messages(batch[t])
  <2>1. CASE op[t] = "queue"
      BY <2>1 DEF Fail
  <2>2. CASE op[t] # "queue" /\ reason = "missed"
      BY <2>2 DEF Fail
  <2>3. CASE op[t] # "queue" /\ reason = "dropped"
      BY <2>3 DEF Fail
  <2> QED
      BY <2>1, <2>2, <2>3
<1>5. Settled' = Settled \cup Messages(batch[t])
    BY <1>3, <1>4 DEF Settled
<1>6. Located'
    BY <1>2, <1>3, <1>5 DEF Ledger, Located
<1> QED
    BY <1>2, <1>3, <1>6 DEF Ledger

\* A thread ends with nothing in its hands.
LEMMA EndKeepsLedger ==
    ASSUME Handed, Ledger, NEW t \in Thread, Messages(batch[t]) = {},
           End(t), UNCHANGED <<buffered, published, copies, ends>>
    PROVE  Ledger'
PROOF
<1>1. CarriedOnce' /\ Carried' = Carried
    BY LetGo DEF End, Ledger
<1>2. /\ BufferedOnce' /\ AtMostOnce'
      /\ UNCHANGED <<Buffered, Written, Settled, published>>
    BY DEF Ledger, BufferedOnce, AtMostOnce, Buffered, Written, Settled,
           Messages, ends
<1>3. Located'
    BY <1>1, <1>2 DEF Ledger, Located
<1> QED
    BY <1>1, <1>2, <1>3 DEF Ledger

LEMMA LedgerStep ==
    ASSUME TypeOK, Control, Ledger, [Next]_vars
    PROVE  Ledger'
PROOF
<1>0. Handed
    BY DEF TypeOK, Handed, Command
<1>1. ASSUME NEW t \in Thread, GetChannel(t)
      PROVE  Ledger'
    BY <1>1, LedgerFrame DEF GetChannel, Move, ledger, page, local, ends
<1>2. ASSUME NEW t \in Thread, Valid(t)
      PROVE  Ledger'
    BY <1>2, LedgerFrame DEF Valid, Move, ledger, page, local, ends
<1>3. ASSUME NEW t \in Thread, Expired(t)
      PROVE  Ledger'
    BY <1>3, LedgerFrame DEF Expired, Move, ledger, page, local, ends
<1>4. ASSUME NEW t \in Thread, Online(t)
      PROVE  Ledger'
    BY <1>4, LedgerFrame DEF Online, Move, ledger, page, local, ends
<1>5. ASSUME NEW t \in Thread, Offline(t)
      PROVE  Ledger'
    BY <1>5, <1>0, FailKeepsLedger DEF Offline
<1>6. ASSUME NEW t \in Thread, ProbeFails(t)
      PROVE  Ledger'
    BY <1>6, LedgerFrame DEF ProbeFails, Move, ledger, page, local, ends
<1>7. ASSUME NEW t \in Thread, ProbeSucceeds(t)
      PROVE  Ledger'
    BY <1>7, LedgerFrame DEF ProbeSucceeds, Move, ledger, page, local, ends
<1>8. ASSUME NEW t \in Thread, NothingToWrite(t)
      PROVE  Ledger'
  <2>1. Messages(batch[t]) = {}
      BY <1>8, WebPageAssumption DEF NothingToWrite, Blank, Messages
  <2> QED
      BY <1>8, <1>0, <2>1, EndKeepsLedger DEF NothingToWrite, page
<1>9. ASSUME NEW t \in Thread, ClaimFails(t)
      PROVE  Ledger'
    BY <1>9, LedgerFrame DEF ClaimFails, Move, ledger, page, local, ends
<1>10. ASSUME NEW t \in Thread, Write(t)
       PROVE  Ledger'
  <2>1. /\ batch' = [batch EXCEPT ![t] = << >>]
        /\ copies' = [m \in Message |-> copies[m] + Count(m, batch[t])]
        /\ UNCHANGED <<buffered, published, returned, missed, dropped, lost>>
      BY <1>10 DEF Write, End, ends
  <2>2. /\ CarriedOnce' /\ Messages(batch[t]) \subseteq Carried
        /\ Carried' = Carried \ Messages(batch[t])
      BY <1>0, <2>1, LetGo DEF Ledger
  <2>3. AtMostOnce' /\ Written' = Written \cup Messages(batch[t])
    <3>1. batch[t] \in Seq(Command) /\ Once(batch[t])
        BY <1>0 DEF Handed, Ledger, CarriedOnce, Once
    <3>2. Messages(batch[t]) \cap Written = {}
        BY <2>2 DEF Ledger, Located, Settled
    <3> QED
        BY <2>1, <3>1, <3>2, WriteOnce DEF Ledger
  <2>4. BufferedOnce' /\ Buffered' = Buffered
      BY <2>1 DEF Ledger, BufferedOnce, Buffered, Messages
  <2>5. Settled' = Settled \cup Messages(batch[t])
      BY <2>1, <2>3 DEF Settled
  <2>6. Located'
      BY <2>1, <2>2, <2>4, <2>5 DEF Ledger, Located
  <2> QED
      BY <2>2, <2>3, <2>4, <2>6 DEF Ledger
<1>11. ASSUME NEW t \in Thread, Unbuffered(t)
       PROVE  Ledger'
    BY <1>11, <1>0, FailKeepsLedger DEF Unbuffered
<1>12. ASSUME NEW t \in Thread, NoRoom(t)
       PROVE  Ledger'
    BY <1>12, <1>0, FailKeepsLedger DEF NoRoom
<1>13. ASSUME NEW t \in Thread, FindRoom(t)
       PROVE  Ledger'
    BY <1>13, LedgerFrame DEF FindRoom, Move, ledger, page, local, ends
<1>14. ASSUME NEW t \in Thread, OfferItem(t)
       PROVE  Ledger'
  <2> DEFINE m == Head(batch[t])
  <2>1. /\ batch[t] # << >> /\ m # Null
        /\ buffered' = Append(buffered, m)
        /\ batch' = [batch EXCEPT ![t] = Tail(@)]
        /\ UNCHANGED <<published, copies, returned, missed, dropped, lost>>
      BY <1>14 DEF OfferItem, ends
  <2>2. m \in Message
    <3>1. batch[t] \in Seq(Message \cup {Null})
        BY <1>14 DEF OfferItem, Control, Controlled, At
    <3> QED
        BY <2>1, <3>1, HeadTailProperties
  <2>3. CarriedOnce' /\ m \in Carried /\ Carried' = Carried \ {m}
      BY <1>0, <2>1, <2>2, GiveHead DEF Ledger
  <2>4. m \notin Buffered
      BY <2>3 DEF Ledger, Located
  <2>5. BufferedOnce' /\ Buffered' = Buffered \cup {m}
      BY <2>1, <2>2, <2>4, Buffer DEF TypeOK, Ledger
  <2>6. AtMostOnce' /\ Settled' = Settled
      BY <2>1 DEF Ledger, AtMostOnce, Settled, Written
  <2>7. Located'
      BY <2>1, <2>3, <2>5, <2>6 DEF Ledger, Located
  <2> QED
      BY <2>3, <2>5, <2>6, <2>7 DEF Ledger
<1>15. ASSUME NEW t \in Thread, OfferNull(t)
       PROVE  Ledger'
  <2>1. /\ batch' = [batch EXCEPT ![t] = << >>]
        /\ lost' = lost \cup Messages(batch[t])
        /\ UNCHANGED <<buffered, published, copies, returned, missed, dropped>>
      BY <1>15 DEF OfferNull, End, page
  <2>2. /\ CarriedOnce' /\ Messages(batch[t]) \subseteq Carried
        /\ Carried' = Carried \ Messages(batch[t])
      BY <1>0, <2>1, LetGo DEF Ledger
  <2>3. /\ BufferedOnce' /\ AtMostOnce'
        /\ Buffered' = Buffered /\ Written' = Written
      BY <2>1 DEF Ledger, BufferedOnce, AtMostOnce, Buffered, Written, Messages
  <2>4. Settled' = Settled \cup Messages(batch[t])
      BY <2>1, <2>3 DEF Settled
  <2>5. Located'
      BY <2>1, <2>2, <2>3, <2>4 DEF Ledger, Located
  <2> QED
      BY <2>2, <2>3, <2>5 DEF Ledger
<1>16. ASSUME NEW t \in Thread, OfferDone(t)
       PROVE  Ledger'
  <2>1. batch[t] = << >>
      BY <1>16, SMTT(20) DEF OfferDone, Control, Controlled, InListen, At
  <2>2. Messages(batch[t]) = {}
      BY <2>1 DEF Messages
  <2> QED
      BY <1>16, <1>0, <2>2, EndKeepsLedger DEF OfferDone, page
<1>17. ASSUME NEW t \in Thread, WriteHeader(t)
       PROVE  Ledger'
    BY <1>17, LedgerFrame DEF WriteHeader, Move, ledger, page, local, ends
<1>18. ASSUME NEW t \in Thread, RegisterChannel(t)
       PROVE  Ledger'
    BY <1>18, LedgerFrame DEF RegisterChannel, Move, ledger, page, local, ends
<1>19. ASSUME NEW t \in Thread, Swap(t)
       PROVE  Ledger'
    BY <1>19, LedgerFrame DEF Swap, Move, ledger, page, local, ends
<1>20. ASSUME NEW t \in Thread, NothingBuffered(t)
       PROVE  Ledger'
  <2>1. batch[t] = << >>
      BY <1>20, SMTT(20) DEF NothingBuffered, Control, Controlled, InListen, At
  <2>2. Messages(batch[t]) = {}
      BY <2>1 DEF Messages
  <2> QED
      BY <1>20, <1>0, <2>2, EndKeepsLedger DEF NothingBuffered, page
<1>21. ASSUME NEW t \in Thread, Measure(t)
       PROVE  Ledger'
    BY <1>21, LedgerFrame DEF Measure, Move, ledger, page, local, ends
<1>22. ASSUME NEW t \in Thread, PollItem(t)
       PROVE  Ledger'
  <2>1. /\ batch' = [batch EXCEPT ![t] = Append(@, Head0(buffered))]
        /\ buffered' = Tail0(buffered)
        /\ UNCHANGED <<published, copies, returned, missed, dropped, lost>>
      BY <1>22 DEF PollItem, ends
  <2>2. AtMostOnce' /\ Settled' = Settled
      BY <2>1 DEF Ledger, AtMostOnce, Settled, Written
  <2>3. CASE buffered = << >>
    <3>1. CarriedOnce' /\ Carried' = Carried
        BY <1>0, <2>1, <2>3, TakeNull, WebPageAssumption DEF Ledger, Head0
    <3>2. BufferedOnce' /\ Buffered' = Buffered
        BY <2>1, <2>3 DEF Tail0, Ledger, BufferedOnce, Buffered, Messages
    <3>3. Located'
        BY <2>1, <2>2, <3>1, <3>2 DEF Ledger, Located
    <3> QED
        BY <2>2, <3>1, <3>2, <3>3 DEF Ledger
  <2>4. CASE buffered # << >>
    <3> DEFINE m == Head(buffered)
    <3>1. /\ buffered' = Tail(buffered)
          /\ batch' = [batch EXCEPT ![t] = Append(@, m)]
        BY <2>1, <2>4 DEF Head0, Tail0
    <3>2. BufferedOnce' /\ m \in Buffered /\ Buffered' = Buffered \ {m}
        BY <2>4, <3>1, Unbuffer DEF TypeOK, Ledger
    <3>3. m \in Message /\ m \notin Carried
        BY <3>2 DEF Ledger, Located, Buffered, Messages
    <3>4. CarriedOnce' /\ Carried' = Carried \cup {m}
        BY <1>0, <3>1, <3>3, TakeMessage DEF Ledger
    <3>5. Located'
        BY <2>1, <2>2, <3>2, <3>4 DEF Ledger, Located
    <3> QED
        BY <2>2, <3>2, <3>4, <3>5 DEF Ledger
  <2> QED
      BY <2>3, <2>4
<1>23. ASSUME NEW t \in Thread, Pulse(t)
       PROVE  Ledger'
    BY <1>23, LedgerFrame DEF Pulse, Move, ledger, page, local, ends
<1>24. ASSUME NEW t \in Thread, NoPulse(t)
       PROVE  Ledger'
  <2>1. batch[t] = <<HB>>
      BY <1>24, SMTT(20) DEF NoPulse, Control, Controlled, At
  <2>2. Messages(batch[t]) = {}
      BY <2>1, WebPageAssumption DEF Messages
  <2> QED
      BY <1>24, <1>0, <2>2, EndKeepsLedger DEF NoPulse, page
<1>25. ASSUME NEW t \in Thread, CloseChannel(t)
       PROVE  Ledger'
    BY <1>25, LedgerFrame DEF CloseChannel, Move, ledger, page, local, ends
<1>26. ASSUME NEW t \in Thread, Leave(t)
       PROVE  Ledger'
    BY <1>26, LedgerFrame DEF Leave, Move, ledger, page, local, ends
<1>27. ASSUME NEW t \in Thread, ClearItem(t)
       PROVE  Ledger'
  <2>1. /\ buffered # << >> /\ buffered' = Tail(buffered)
        /\ dropped' = dropped \cup {Head(buffered)}
        /\ UNCHANGED <<batch, published, copies, returned, missed, lost>>
      BY <1>27 DEF ClearItem, local
  <2>2. /\ BufferedOnce' /\ Head(buffered) \in Buffered
        /\ Buffered' = Buffered \ {Head(buffered)}
      BY <2>1, Unbuffer DEF TypeOK, Ledger
  <2>3. CarriedOnce' /\ AtMostOnce' /\ Carried' = Carried /\ Written' = Written
      BY <2>1 DEF Ledger, CarriedOnce, AtMostOnce, Carried, Written, Messages
  <2>4. Settled' = Settled \cup {Head(buffered)}
      BY <2>1, <2>3 DEF Settled
  <2>5. Located'
      BY <2>1, <2>2, <2>3, <2>4 DEF Ledger, Located
  <2> QED
      BY <2>2, <2>3, <2>5 DEF Ledger
<1>28. ASSUME NEW t \in Thread, Cleared(t)
       PROVE  Ledger'
    BY <1>28, <1>0, FailKeepsLedger DEF Cleared
<1>29. ASSUME NEW t \in Thread, NEW m \in Message,
             NEW kind \in {"topic", "queue"}, Publish(t, m, kind)
       PROVE  Ledger'
  <2>1. /\ batch' = [batch EXCEPT ![t] = <<m>>] /\ m \notin published
        /\ published' = published \cup {m}
        /\ UNCHANGED <<buffered, copies, returned, missed, dropped, lost>>
      BY <1>29 DEF Publish, Begin, page, ends
  <2>2. batch[t] = << >>
      BY <1>29 DEF Publish, Begin, At, Control, Controlled
  <2>3. Append(batch[t], m) = <<m>>
      BY <2>2
  <2>4. m \notin Carried \cup Buffered \cup Settled
      BY <2>1 DEF Ledger, Located
  <2>5. CarriedOnce' /\ Carried' = Carried \cup {m}
      BY <1>0, <2>1, <2>3, <2>4, TakeMessage DEF Ledger
  <2>6. /\ BufferedOnce' /\ AtMostOnce'
        /\ Buffered' = Buffered /\ Settled' = Settled
      BY <2>1 DEF Ledger, BufferedOnce, AtMostOnce, Buffered, Settled,
         Written, Messages
  <2>7. Located'
      BY <2>1, <2>4, <2>5, <2>6 DEF Ledger, Located
  <2> QED
      BY <2>5, <2>6, <2>7 DEF Ledger
<1>30. ASSUME NEW t \in Thread, NEW c \in Channel, Request(t, c)
       PROVE  Ledger'
  <2>1. /\ batch' = [batch EXCEPT ![t] = << >>] /\ batch[t] = << >>
        /\ UNCHANGED <<buffered, published, copies, ends>>
      BY <1>30 DEF Request, Begin, At, Control, Controlled, page
  <2>2. batch' = batch
      BY <1>0, <2>1 DEF Handed
  <2> QED
      BY <2>1, <2>2, LedgerFrame DEF ledger
<1>31. ASSUME NEW t \in Thread, Heartbeat(t)
       PROVE  Ledger'
  <2>1. /\ batch' = [batch EXCEPT ![t] = <<HB>>] /\ batch[t] = << >>
        /\ UNCHANGED <<buffered, published, copies, ends>>
      BY <1>31 DEF Heartbeat, Begin, At, Control, Controlled, page
  <2>2. CarriedOnce' /\ Carried' = Carried
    <3>1. HB \notin Message
        BY WebPageAssumption
    <3>2. batch'[t] = <<HB>> /\ \A u \in Thread \ {t} : batch'[u] = batch[u]
        BY <1>0, <2>1 DEF Handed
    <3>3. CarriedOnce'
        BY <2>1, <3>1, <3>2 DEF Ledger, CarriedOnce
    <3>4. Messages(<<HB>>) = {} /\ Messages(batch[t]) = {}
        BY <2>1, <3>1 DEF Messages
    <3>5. Carried' = Carried
        BY <1>0, <2>1, <3>4, OneHand
    <3> QED
        BY <3>3, <3>5
  <2>3. /\ BufferedOnce' /\ AtMostOnce'
        /\ Buffered' = Buffered /\ Settled' = Settled
      BY <2>1 DEF Ledger, BufferedOnce, AtMostOnce, Buffered, Settled,
         Written, Messages, ends
  <2>4. Located'
      BY <2>1, <2>2, <2>3 DEF Ledger, Located
  <2> QED
      BY <2>2, <2>3, <2>4 DEF Ledger
<1>32. ASSUME NEW t \in Thread, CloseCommand(t)
       PROVE  Ledger'
  <2>1. /\ batch' = [batch EXCEPT ![t] = << >>] /\ batch[t] = << >>
        /\ UNCHANGED <<buffered, published, copies, ends>>
      BY <1>32 DEF CloseCommand, Begin, At, Control, Controlled, page
  <2>2. batch' = batch
      BY <1>0, <2>1 DEF Handed
  <2> QED
      BY <2>1, <2>2, LedgerFrame DEF ledger
<1>33. ASSUME NEW c \in Channel, Disconnect(c)
       PROVE  Ledger'
    BY <1>33, LedgerFrame DEF Disconnect, Move, ledger, page, local, ends
<1>34. ASSUME BecomeIdle
       PROVE  Ledger'
    BY <1>34, LedgerFrame DEF BecomeIdle, Move, ledger, page, local, ends
<1>40. ASSUME NEW t \in Thread, Receive(t)
       PROVE  Ledger'
    BY <1>40, <1>1, <1>2, <1>3, <1>4, <1>5, <1>6, <1>7, <1>8, <1>9, <1>10,
       <1>11, <1>12, <1>13, <1>14, <1>15, <1>16 DEF Receive
<1>41. ASSUME NEW t \in Thread, Listen(t)
       PROVE  Ledger'
    BY <1>41, <1>17, <1>18, <1>19, <1>20, <1>21, <1>22 DEF Listen
<1>42. ASSUME NEW t \in Thread, Keep(t)
       PROVE  Ledger'
    BY <1>42, <1>23, <1>24, <1>25, <1>26, <1>27, <1>28 DEF Keep
<1>43. ASSUME NEW t \in Thread, Start(t)
       PROVE  Ledger'
    BY ONLY <1>43, <1>29, <1>30, <1>31, <1>32 DEF Start
<1>44. CASE UNCHANGED vars
    BY <1>44, LedgerFrame DEF vars, ledger, page, local, ends
<1> QED
    BY <1>40, <1>41, <1>42, <1>43, <1>44, <1>33, <1>34 DEF Next, Step

-----------------------------------------------------------------------------
(* One body                                                                *)

LEMMA OneBodyStep ==
    ASSUME TypeOK, OneBody, [Next]_vars
    PROVE  OneBody'
PROOF
<1>0. ASSUME UNCHANGED <<writable, bodies>>
      PROVE  OneBody'
    BY <1>0 DEF OneBody
<1>1. ASSUME NEW t \in Thread, GetChannel(t)
      PROVE  OneBody'
    BY <1>1, <1>0 DEF GetChannel, Move, wire
<1>2. ASSUME NEW t \in Thread, Valid(t)
      PROVE  OneBody'
    BY <1>2, <1>0 DEF Valid, Move, wire
<1>3. ASSUME NEW t \in Thread, Expired(t)
      PROVE  OneBody'
    BY <1>3, <1>0 DEF Expired, Move, wire
<1>4. ASSUME NEW t \in Thread, Online(t)
      PROVE  OneBody'
    BY <1>4, <1>0 DEF Online, Move, wire
<1>5. ASSUME NEW t \in Thread, Offline(t)
      PROVE  OneBody'
    BY <1>5, <1>0 DEF Offline, Move, wire
<1>6. ASSUME NEW t \in Thread, ProbeFails(t)
      PROVE  OneBody'
    BY <1>6, <1>0 DEF ProbeFails, Move, wire
<1>7. ASSUME NEW t \in Thread, ProbeSucceeds(t)
      PROVE  OneBody'
    BY <1>7, <1>0 DEF ProbeSucceeds, Move, wire
<1>8. ASSUME NEW t \in Thread, NothingToWrite(t)
      PROVE  OneBody'
    BY <1>8, <1>0 DEF NothingToWrite, Move, wire
<1>9. ASSUME NEW t \in Thread, ClaimFails(t)
      PROVE  OneBody'
    BY <1>9, <1>0 DEF ClaimFails, Move, wire
<1>10. ASSUME NEW t \in Thread, Write(t)
       PROVE  OneBody'
  <2> SUFFICES ASSUME LongPolling
               PROVE  \A c \in Channel : bodies'[c] <= 1 /\ (writable'[c] => bodies'[c] = 0)
      BY DEF OneBody
  <2> DEFINE d == target[t]
  <2>1. /\ writable[d]
        /\ writable' = [writable EXCEPT ![d] = FALSE]
        /\ bodies' = [bodies EXCEPT ![d] = @ + 1]
      BY <1>10 DEF Write, Claimed, CanWrite
  <2> HIDE DEF d
  <2>2. \A c \in Channel \ {d} : bodies'[c] = bodies[c] /\ writable'[c] = writable[c]
      BY <2>1 DEF TypeOK
  <2>3. d \in Channel => bodies'[d] = 1 /\ ~writable'[d]
      BY <2>1 DEF TypeOK, OneBody
  <2> QED
      BY <2>2, <2>3 DEF OneBody
<1>11. ASSUME NEW t \in Thread, Unbuffered(t)
       PROVE  OneBody'
    BY <1>11, <1>0 DEF Unbuffered, Move, wire
<1>12. ASSUME NEW t \in Thread, NoRoom(t)
       PROVE  OneBody'
    BY <1>12, <1>0 DEF NoRoom, Move, wire
<1>13. ASSUME NEW t \in Thread, FindRoom(t)
       PROVE  OneBody'
    BY <1>13, <1>0 DEF FindRoom, Move, wire
<1>14. ASSUME NEW t \in Thread, OfferItem(t)
       PROVE  OneBody'
    BY <1>14, <1>0 DEF OfferItem, Move, wire
<1>15. ASSUME NEW t \in Thread, OfferNull(t)
       PROVE  OneBody'
    BY <1>15, <1>0 DEF OfferNull, Move, wire
<1>16. ASSUME NEW t \in Thread, OfferDone(t)
       PROVE  OneBody'
    BY <1>16, <1>0 DEF OfferDone, Move, wire
<1>17. ASSUME NEW t \in Thread, WriteHeader(t)
       PROVE  OneBody'
    BY <1>17, <1>0 DEF WriteHeader, Move, wire
<1>18. ASSUME NEW t \in Thread, RegisterChannel(t)
       PROVE  OneBody'
    BY <1>18, <1>0 DEF RegisterChannel, Move, wire
<1>19. ASSUME NEW t \in Thread, Swap(t)
       PROVE  OneBody'
    BY <1>19, <1>0 DEF Swap, Move, wire
<1>20. ASSUME NEW t \in Thread, NothingBuffered(t)
       PROVE  OneBody'
    BY <1>20, <1>0 DEF NothingBuffered, Move, wire
<1>21. ASSUME NEW t \in Thread, Measure(t)
       PROVE  OneBody'
    BY <1>21, <1>0 DEF Measure, Move, wire
<1>22. ASSUME NEW t \in Thread, PollItem(t)
       PROVE  OneBody'
    BY <1>22, <1>0 DEF PollItem, Move, wire
<1>23. ASSUME NEW t \in Thread, Pulse(t)
       PROVE  OneBody'
    BY <1>23, <1>0 DEF Pulse, Move, wire
<1>24. ASSUME NEW t \in Thread, NoPulse(t)
       PROVE  OneBody'
    BY <1>24, <1>0 DEF NoPulse, Move, wire
<1>25. ASSUME NEW t \in Thread, CloseChannel(t)
       PROVE  OneBody'
    BY <1>25, <1>0 DEF CloseChannel, Move, wire
<1>26. ASSUME NEW t \in Thread, Leave(t)
       PROVE  OneBody'
    BY <1>26, <1>0 DEF Leave, Move, wire
<1>27. ASSUME NEW t \in Thread, ClearItem(t)
       PROVE  OneBody'
    BY <1>27, <1>0 DEF ClearItem, Move, wire
<1>28. ASSUME NEW t \in Thread, Cleared(t)
       PROVE  OneBody'
    BY <1>28, <1>0 DEF Cleared, Move, wire
<1>29. ASSUME NEW t \in Thread, NEW m \in Message,
             NEW kind \in {"topic", "queue"}, Publish(t, m, kind)
       PROVE  OneBody'
    BY <1>29, <1>0 DEF Publish, Move, wire
<1>30. ASSUME NEW t \in Thread, NEW c \in Channel, Request(t, c)
       PROVE  OneBody'
  <2>1. /\ writable' = [writable EXCEPT ![c] = TRUE]
        /\ bodies' = [bodies EXCEPT ![c] = 0]
      BY <1>30 DEF Request
  <2> QED
      BY <2>1 DEF OneBody, TypeOK
<1>31. ASSUME NEW t \in Thread, Heartbeat(t)
       PROVE  OneBody'
    BY <1>31, <1>0 DEF Heartbeat, Move, wire
<1>32. ASSUME NEW t \in Thread, CloseCommand(t)
       PROVE  OneBody'
    BY <1>32, <1>0 DEF CloseCommand, Move, wire
<1>33. ASSUME NEW c \in Channel, Disconnect(c)
       PROVE  OneBody'
    BY <1>33, <1>0 DEF Disconnect, Move, wire
<1>34. ASSUME BecomeIdle
       PROVE  OneBody'
    BY <1>34, <1>0 DEF BecomeIdle, Move, wire
<1>40. ASSUME NEW t \in Thread, Receive(t)
       PROVE  OneBody'
    BY <1>40, <1>1, <1>2, <1>3, <1>4, <1>5, <1>6, <1>7, <1>8, <1>9, <1>10,
       <1>11, <1>12, <1>13, <1>14, <1>15, <1>16 DEF Receive
<1>41. ASSUME NEW t \in Thread, Listen(t)
       PROVE  OneBody'
    BY <1>41, <1>17, <1>18, <1>19, <1>20, <1>21, <1>22 DEF Listen
<1>42. ASSUME NEW t \in Thread, Keep(t)
       PROVE  OneBody'
    BY <1>42, <1>23, <1>24, <1>25, <1>26, <1>27, <1>28 DEF Keep
<1>43. ASSUME NEW t \in Thread, Start(t)
       PROVE  OneBody'
    BY ONLY <1>43, <1>29, <1>30, <1>31, <1>32 DEF Start
<1>44. CASE UNCHANGED vars
    BY <1>44, <1>0 DEF vars, wire
<1> QED
    BY <1>40, <1>41, <1>42, <1>43, <1>44, <1>33, <1>34 DEF Next, Step

-----------------------------------------------------------------------------
(* Room in the buffer                                                      *)

LEMMA OfferedFinite ==
    /\ IsFiniteSet(Thread \X (1..MaxPending))
    /\ Cardinality(Thread \X (1..MaxPending)) = Cardinality(Thread) * MaxPending
    /\ Cardinality(Thread) \in Nat
PROOF
<1>1. IsFiniteSet(Thread) /\ Cardinality(Thread) \in Nat
    BY WebPageAssumption, FS_CardinalityType
<1>2. IsFiniteSet(1..MaxPending) /\ Cardinality(1..MaxPending) = MaxPending
    BY WebPageAssumption, FS_Interval
<1> QED
    BY <1>1, <1>2, FS_Product

\* Where no thread starts to offer and the buffer does not grow, there is room.
LEMMA RoomKept ==
    ASSUME Room, Len(buffered) \in Nat, Len(buffered') \in Nat,
           Len(buffered') <= Len(buffered),
           \A u \in Thread : pc'[u] = "offer" => pc[u] = "offer" /\ batch'[u] = batch[u]
    PROVE  Room'
PROOF
<1>1. Offered' \subseteq Offered
    BY DEF Offered
<1>2. IsFiniteSet(Offered)
  <2>1. Offered \subseteq Thread \X (1..MaxPending)
      BY DEF Offered
  <2> QED
      BY <2>1, OfferedFinite, FS_Subset
<1>3. /\ Cardinality(Offered') \in Nat /\ Cardinality(Offered) \in Nat
      /\ Cardinality(Offered') <= Cardinality(Offered)
  <2>1. IsFiniteSet(Offered') /\ Cardinality(Offered') <= Cardinality(Offered)
      BY <1>1, <1>2, FS_Subset
  <2> QED
      BY <1>2, <2>1, FS_CardinalityType
<1>4. Cardinality(Thread) * MaxPending \in Nat
    BY OfferedFinite, WebPageAssumption
<1>5. Len(buffered') + Cardinality(Offered') <= Cardinality(Thread) * MaxPending
    BY <1>3, <1>4 DEF Room
<1> QED
    BY <1>5 DEF Room

\* A thread passes the test: with what it cannot offer any more, what it may
\* offer now is a full buffer, and the others' shares are theirs.
LEMMA RoomFound ==
    ASSUME TypeOK, Room, NEW t \in Thread, FindRoom(t)
    PROVE  Room'
PROOF
<1> DEFINE n == Len(batch[t])
           rest == {t} \X ((n + 1)..MaxPending)
           all == Thread \X (1..MaxPending)
<1>1. /\ n \in Nat /\ Len(buffered) \in Nat /\ MaxPending \in Nat
      /\ Len(buffered) + n <= MaxPending
    BY WebPageAssumption, LenProperties DEF FindRoom, Fits, TypeOK
<1>2. /\ UNCHANGED <<buffered, batch>>
      /\ pc' = [pc EXCEPT ![t] = "offer"]
    BY DEF FindRoom, Move, Goto, page
<1>3. \A u \in Thread : pc'[u] = "offer" => Len(batch'[u]) <= MaxPending
    BY <1>1, <1>2 DEF Room, TypeOK
<1>4. IsFiniteSet(rest) /\ Cardinality(rest) = MaxPending - n
  <2>1. /\ IsFiniteSet((n + 1)..MaxPending)
        /\ Cardinality((n + 1)..MaxPending) = MaxPending - n
    <3>1. /\ IsFiniteSet((n + 1)..MaxPending)
          /\ Cardinality((n + 1)..MaxPending) =
                IF n + 1 > MaxPending THEN 0 ELSE MaxPending - (n + 1) + 1
      <4> DEFINE k == n + 1
      <4>1. k \in Int /\ MaxPending \in Int
          BY <1>1
      <4> HIDE DEF k
      <4>2. /\ IsFiniteSet(k..MaxPending)
            /\ Cardinality(k..MaxPending) = IF k > MaxPending THEN 0 ELSE MaxPending - k + 1
          BY ONLY <4>1, FS_Interval
      <4> QED
          BY ONLY <4>2 DEF k
    <3> QED
        BY <1>1, <3>1
  <2>2. IsFiniteSet({t}) /\ Cardinality({t}) = 1
      BY FS_Singleton
  <2>3. /\ IsFiniteSet(rest)
        /\ Cardinality(rest) = 1 * Cardinality((n + 1)..MaxPending)
      BY <2>1, <2>2, FS_Product
  <2> QED
      BY <1>1, <2>1, <2>3
<1>5. Offered' \subseteq all /\ rest \subseteq all
    BY <1>1 DEF Offered
<1>6. Offered' \cap rest = {}
  <2> SUFFICES ASSUME NEW p \in Offered', p \in rest
               PROVE  FALSE
      OBVIOUS
  <2>1. p[1] = t /\ p[2] \in (n + 1)..MaxPending
      BY DEF rest
  <2>2. p[2] <= Len(batch[t])
      BY <1>2, <2>1 DEF Offered
  <2> QED
      BY <1>1, <2>1, <2>2
<1>7. IsFiniteSet(Offered') /\ IsFiniteSet(all)
    BY <1>5, OfferedFinite, FS_Subset
<1>8. Cardinality(Offered' \cup rest) =
         Cardinality(Offered') + Cardinality(rest) - Cardinality(Offered' \cap rest)
    BY <1>4, <1>7, FS_Union
<1>9. Cardinality(Offered' \cup rest) <= Cardinality(all)
  <2>1. Offered' \cup rest \subseteq all
      BY <1>5
  <2> QED
      BY <1>7, <2>1, FS_Subset
<1>10. Cardinality({}) = 0 /\ Cardinality(Offered') \in Nat
    BY <1>7, FS_EmptySet, FS_CardinalityType
<1>11. /\ Cardinality(all) = Cardinality(Thread) * MaxPending
       /\ Cardinality(all) \in Nat
    BY <1>7, OfferedFinite, FS_CardinalityType
<1> HIDE DEF n, rest, all
<1>12. Len(buffered) + Cardinality(Offered') <= Cardinality(all)
  <2>1. Cardinality(Offered' \cup rest) = Cardinality(Offered') + (MaxPending - n)
    <3>1. Cardinality(Offered' \cap rest) = 0
        BY ONLY <1>6, <1>10
    <3>2. Cardinality(rest) = MaxPending - n
        BY ONLY <1>4
    <3>3. MaxPending - n \in Nat /\ Cardinality(Offered') \in Nat
        BY ONLY <1>1, <1>10
    <3> QED
        BY ONLY <1>8, <3>1, <3>2, <3>3
  <2> QED
      BY ONLY <1>1, <1>9, <1>10, <1>11, <2>1
<1> QED
    BY <1>2, <1>3, <1>11, <1>12 DEF Room

\* A thread offers one element of those it may.
LEMMA RoomUsed ==
    ASSUME TypeOK, TypeOK', Room, NEW t \in Thread, OfferItem(t)
    PROVE  Room'
PROOF
<1> DEFINE n == Len(batch[t])
<1>1. /\ pc[t] = "offer" /\ batch[t] # << >> /\ UNCHANGED pc
      /\ batch' = [batch EXCEPT ![t] = Tail(@)]
      /\ buffered' = Append(buffered, Head(batch[t]))
    BY DEF OfferItem, At
<1>2. batch[t] \in Seq(Message \cup {Null, HB}) /\ batch'[t] = Tail(batch[t])
    BY <1>1 DEF TypeOK
<1>3. n \in Nat \ {0} /\ Len(batch'[t]) = n - 1 /\ n <= MaxPending
    BY <1>1, <1>2, LenProperties, EmptySeq, HeadTailProperties DEF Room
<1>4. \A u \in Thread \ {t} : batch'[u] = batch[u]
    BY <1>1 DEF TypeOK
<1>5. \A u \in Thread : pc'[u] = "offer" => Len(batch'[u]) <= MaxPending
    BY <1>1, <1>3, <1>4, WebPageAssumption DEF Room
<1>6. Len(buffered) \in Nat /\ Len(buffered') = Len(buffered) + 1
  <2>1. buffered \in Seq(Message \cup {Null, HB})
      BY DEF TypeOK
  <2>2. Head(batch[t]) \in Message \cup {Null, HB}
      BY <1>1, <1>2, HeadTailProperties
  <2> QED
      BY <1>1, <2>1, <2>2, AppendProperties, LenProperties
<1>7. <<t, n>> \in Offered
    BY <1>1, <1>3, WebPageAssumption DEF Offered
<1>8. Offered' = Offered \ {<<t, n>>}
  <2>1. \A p \in Thread \X (1..MaxPending) :
            p[1] = t /\ p[2] <= n /\ p # <<t, n>> => p[2] <= n - 1
      BY <1>3, WebPageAssumption
  <2> QED
      BY <1>1, <1>3, <1>4, <2>1, WebPageAssumption DEF Offered
<1>9. IsFiniteSet(Offered)
  <2>1. Offered \subseteq Thread \X (1..MaxPending)
      BY DEF Offered
  <2> QED
      BY <2>1, OfferedFinite, FS_Subset
<1>10. /\ Cardinality(Offered) \in Nat
       /\ Cardinality(Offered') = Cardinality(Offered) - 1
    BY <1>7, <1>8, <1>9, FS_RemoveElement, FS_CardinalityType
<1>11. Len(buffered') + Cardinality(Offered') <= Cardinality(Thread) * MaxPending
    BY <1>6, <1>10 DEF Room
<1> QED
    BY <1>5, <1>11 DEF Room

LEMMA RoomStep ==
    ASSUME TypeOK, TypeOK', Room, [Next]_vars
    PROVE  Room'
PROOF
<1>0. Len(buffered) \in Nat /\ Len(buffered') \in Nat
    BY LenProperties DEF TypeOK
<1> USE DEF TypeOK, At, Goto, Move, Begin, End, Fail, page, local
<1>1. ASSUME NEW t \in Thread, GetChannel(t)
      PROVE  Room'
    BY <1>1, <1>0, RoomKept DEF GetChannel
<1>2. ASSUME NEW t \in Thread, Valid(t)
      PROVE  Room'
    BY <1>2, <1>0, RoomKept DEF Valid
<1>3. ASSUME NEW t \in Thread, Expired(t)
      PROVE  Room'
    BY <1>3, <1>0, RoomKept DEF Expired
<1>4. ASSUME NEW t \in Thread, Online(t)
      PROVE  Room'
    BY <1>4, <1>0, RoomKept DEF Online
<1>5. ASSUME NEW t \in Thread, Offline(t)
      PROVE  Room'
    BY <1>5, <1>0, RoomKept DEF Offline
<1>6. ASSUME NEW t \in Thread, ProbeFails(t)
      PROVE  Room'
    BY <1>6, <1>0, RoomKept DEF ProbeFails
<1>7. ASSUME NEW t \in Thread, ProbeSucceeds(t)
      PROVE  Room'
    BY <1>7, <1>0, RoomKept DEF ProbeSucceeds
<1>8. ASSUME NEW t \in Thread, NothingToWrite(t)
      PROVE  Room'
    BY <1>8, <1>0, RoomKept DEF NothingToWrite
<1>9. ASSUME NEW t \in Thread, ClaimFails(t)
      PROVE  Room'
    BY <1>9, <1>0, RoomKept DEF ClaimFails
<1>10. ASSUME NEW t \in Thread, Write(t)
       PROVE  Room'
    BY <1>10, <1>0, RoomKept DEF Write
<1>11. ASSUME NEW t \in Thread, Unbuffered(t)
       PROVE  Room'
    BY <1>11, <1>0, RoomKept DEF Unbuffered
<1>12. ASSUME NEW t \in Thread, NoRoom(t)
       PROVE  Room'
    BY <1>12, <1>0, RoomKept DEF NoRoom
<1>13. ASSUME NEW t \in Thread, FindRoom(t)
       PROVE  Room'
    BY <1>13, RoomFound
<1>14. ASSUME NEW t \in Thread, OfferItem(t)
       PROVE  Room'
    BY <1>14, RoomUsed
<1>15. ASSUME NEW t \in Thread, OfferNull(t)
       PROVE  Room'
    BY <1>15, <1>0, RoomKept DEF OfferNull
<1>16. ASSUME NEW t \in Thread, OfferDone(t)
       PROVE  Room'
    BY <1>16, <1>0, RoomKept DEF OfferDone
<1>17. ASSUME NEW t \in Thread, WriteHeader(t)
       PROVE  Room'
    BY <1>17, <1>0, RoomKept DEF WriteHeader
<1>18. ASSUME NEW t \in Thread, RegisterChannel(t)
       PROVE  Room'
    BY <1>18, <1>0, RoomKept DEF RegisterChannel
<1>19. ASSUME NEW t \in Thread, Swap(t)
       PROVE  Room'
    BY <1>19, <1>0, RoomKept DEF Swap
<1>20. ASSUME NEW t \in Thread, NothingBuffered(t)
       PROVE  Room'
    BY <1>20, <1>0, RoomKept DEF NothingBuffered
<1>21. ASSUME NEW t \in Thread, Measure(t)
       PROVE  Room'
    BY <1>21, <1>0, RoomKept DEF Measure
<1>22. ASSUME NEW t \in Thread, PollItem(t)
       PROVE  Room'
  <2>1. Len(buffered') <= Len(buffered)
      BY <1>22, <1>0, HeadTailProperties DEF PollItem, Tail0
  <2> QED
      BY <1>22, <1>0, <2>1, RoomKept DEF PollItem
<1>23. ASSUME NEW t \in Thread, Pulse(t)
       PROVE  Room'
    BY <1>23, <1>0, RoomKept DEF Pulse
<1>24. ASSUME NEW t \in Thread, NoPulse(t)
       PROVE  Room'
    BY <1>24, <1>0, RoomKept DEF NoPulse
<1>25. ASSUME NEW t \in Thread, CloseChannel(t)
       PROVE  Room'
    BY <1>25, <1>0, RoomKept DEF CloseChannel
<1>26. ASSUME NEW t \in Thread, Leave(t)
       PROVE  Room'
    BY <1>26, <1>0, RoomKept DEF Leave
<1>27. ASSUME NEW t \in Thread, ClearItem(t)
       PROVE  Room'
  <2>1. Len(buffered') <= Len(buffered)
      BY <1>27, <1>0, HeadTailProperties DEF ClearItem
  <2> QED
      BY <1>27, <1>0, <2>1, RoomKept DEF ClearItem
<1>28. ASSUME NEW t \in Thread, Cleared(t)
       PROVE  Room'
    BY <1>28, <1>0, RoomKept DEF Cleared
<1>29. ASSUME NEW t \in Thread, NEW m \in Message,
             NEW kind \in {"topic", "queue"}, Publish(t, m, kind)
       PROVE  Room'
    BY <1>29, <1>0, RoomKept DEF Publish
<1>30. ASSUME NEW t \in Thread, NEW c \in Channel, Request(t, c)
       PROVE  Room'
    BY <1>30, <1>0, RoomKept DEF Request
<1>31. ASSUME NEW t \in Thread, Heartbeat(t)
       PROVE  Room'
    BY <1>31, <1>0, RoomKept DEF Heartbeat
<1>32. ASSUME NEW t \in Thread, CloseCommand(t)
       PROVE  Room'
    BY <1>32, <1>0, RoomKept DEF CloseCommand
<1>33. ASSUME NEW c \in Channel, Disconnect(c)
       PROVE  Room'
    BY <1>33, <1>0, RoomKept DEF Disconnect
<1>34. ASSUME BecomeIdle
       PROVE  Room'
    BY <1>34, <1>0, RoomKept DEF BecomeIdle
<1>40. ASSUME NEW t \in Thread, Receive(t)
       PROVE  Room'
    BY <1>40, <1>1, <1>2, <1>3, <1>4, <1>5, <1>6, <1>7, <1>8, <1>9, <1>10,
       <1>11, <1>12, <1>13, <1>14, <1>15, <1>16 DEF Receive
<1>41. ASSUME NEW t \in Thread, Listen(t)
       PROVE  Room'
    BY <1>41, <1>17, <1>18, <1>19, <1>20, <1>21, <1>22 DEF Listen
<1>42. ASSUME NEW t \in Thread, Keep(t)
       PROVE  Room'
    BY <1>42, <1>23, <1>24, <1>25, <1>26, <1>27, <1>28 DEF Keep
<1>43. ASSUME NEW t \in Thread, Start(t)
       PROVE  Room'
    BY ONLY <1>43, <1>29, <1>30, <1>31, <1>32 DEF Start
<1>44. CASE UNCHANGED vars
    BY <1>44, <1>0, RoomKept DEF vars
<1> QED
    BY <1>40, <1>41, <1>42, <1>43, <1>44, <1>33, <1>34 DEF Next, Step

-----------------------------------------------------------------------------

LEMMA InitIInv ==
    ASSUME Init
    PROVE  IInv
PROOF
<1> USE DEF Init
<1>1. TypeOK
  <2>1. << >> \in Seq(Message \cup {Null, HB}) /\ << >> \in Seq(Message)
      OBVIOUS
  <2>2. batch \in [Thread -> Seq(Message \cup {Null, HB})]
      BY <2>1
  <2>3. /\ idle \in BOOLEAN /\ live \in BOOLEAN
      BY Zenon
  <2>4. /\ connected \in [Channel -> BOOLEAN]
        /\ header \in [Channel -> BOOLEAN]
        /\ writable \in [Channel -> BOOLEAN]
      BY Zenon
  <2> QED
      BY <2>1, <2>2, <2>3, <2>4 DEF TypeOK, Ops, Steps
<1>2. Control
  <2>1. << >> \in Seq(Message \cup {Null})
      OBVIOUS
  <2> QED
      BY <2>1 DEF Control, Controlled, InListen
<1>3. Carried = {} /\ Buffered = {} /\ Settled = {}
  <2>1. Messages(<< >>) = {}
      BY DEF Messages
  <2> QED
      BY <2>1 DEF Carried, Buffered, Settled, Written
<1>4. BufferedOnce /\ CarriedOnce /\ AtMostOnce
    BY DEF BufferedOnce, CarriedOnce, AtMostOnce
<1>5. Ledger
    BY <1>3, <1>4 DEF Ledger, Located
<1>6. OneBody
    BY DEF OneBody
<1>7. Room
  <2>1. Offered = {} /\ Cardinality(Offered) = 0
      BY FS_EmptySet DEF Offered
  <2>2. Cardinality(Thread) \in Nat /\ MaxPending \in Nat
      BY OfferedFinite, WebPageAssumption
  <2>3. Cardinality(Thread) * MaxPending >= 0
      BY ONLY <2>2
  <2>4. Len(buffered) = 0
      OBVIOUS
  <2>5. \A t \in Thread : pc[t] # "offer"
      OBVIOUS
  <2> QED
      BY ONLY <2>1, <2>2, <2>3, <2>4, <2>5 DEF Room
<1> QED
    BY <1>1, <1>2, <1>5, <1>6, <1>7 DEF IInv

LEMMA IInvStep ==
    ASSUME IInv, [Next]_vars
    PROVE  IInv'
PROOF
<1> USE DEF IInv
<1>1. TypeOK'
    BY TypeOKStep
<1>2. Control'
    BY ControlStep
<1>3. Ledger'
    BY LedgerStep
<1>4. OneBody'
    BY OneBodyStep
<1>5. Room'
    BY <1>1, RoomStep
<1> QED
    BY <1>1, <1>2, <1>3, <1>4, <1>5

\* The inductive invariant holds in every state of the page.
THEOREM Invariance == Spec => []IInv
PROOF
<1>1. Init => IInv
    BY InitIInv
<1>2. IInv /\ [Next]_vars => IInv'
    BY IInvStep
<1> QED
    BY <1>1, <1>2, PTL DEF Spec

\* Type correctness, for any number of threads, messages and channels.
THEOREM Typing == Spec => []TypeOK
PROOF
<1>1. IInv => TypeOK
    BY DEF IInv
<1> QED
    BY <1>1, Invariance, PTL

\* However deliveries, polls, heartbeats and closes of one page interleave, no
\* message for it is doubled or mislaid (messageReceived, registerChannel,
\* offerToBuffered, invalidate of WebPage).
THEOREM NothingMislaid == Spec => []Accounted
PROOF
<1>1. IInv => Accounted
    BY DEF IInv, Ledger, Accounted
<1> QED
    BY <1>1, Invariance, PTL

\* A long poll gets one body at most, whoever finds its channel writable at the
\* same time (onMessage of LongPollingMessageListener).
THEOREM OneBodyOnly == Spec => []OneBodyPerRequest
PROOF
<1>1. IInv => OneBodyPerRequest
    BY DEF IInv, OneBody, OneBodyPerRequest
<1> QED
    BY <1>1, Invariance, PTL

\* The buffer exceeds its bound by a full buffer for each thread at most, though
\* offerToBuffered tests the size for a whole array and offers element by element.
THEOREM OvershootBounded == Spec => []OvershootBound
PROOF
<1>1. ASSUME IInv PROVE OvershootBound
  <2>1. Len(buffered) \in Nat /\ IsFiniteSet(Offered)
    <3>1. Offered \subseteq Thread \X (1..MaxPending)
        BY DEF Offered
    <3> QED
        BY <1>1, <3>1, OfferedFinite, FS_Subset, LenProperties DEF IInv, TypeOK
  <2>2. Cardinality(Offered) \in Nat /\ Cardinality(Thread) * MaxPending \in Nat
      BY <2>1, FS_CardinalityType, OfferedFinite, WebPageAssumption
  <2>3. Len(buffered) + Cardinality(Offered) <= Cardinality(Thread) * MaxPending
      BY <1>1 DEF IInv, Room
  <2> QED
      BY ONLY <2>1, <2>2, <2>3 DEF OvershootBound
<1>2. IInv => OvershootBound
    BY <1>1
<1> QED
    BY <1>2, Invariance, PTL

=============================================================================
