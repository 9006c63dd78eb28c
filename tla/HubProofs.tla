------------------------------ MODULE HubProofs ------------------------------
(***************************************************************************)
(* Theorems about StreamHub.  Without WebSockets, for every browser, list  *)
(* of servers, limit and back-off: its queue does not come to a stop but   *)
(* for two known reasons, the list of servers is tried to its end, and     *)
(* limits are kept.  On WebSockets, for any messages and sockets: what the *)
(* page sends is sent once and in order.                                   *)
(***************************************************************************)
EXTENDS CometHub, SocketHub, SequenceTheorems, FiniteSetTheorems, TLAPS

-----------------------------------------------------------------------------
(* The hub without WebSockets: its inductive invariant.                    *)

\* How many attempts ago server s was the next, if there have been so many
Age(s) == IF s <= index THEN index - s ELSE index - s + Servers

\* The servers of the latest attempts have been tried: the list goes round,
\* from wherever the loss found it.
Recent ==
    Algorithm # "random" =>
        \A s \in 0..(Servers - 1) : Age(s) < attempts => s \in tried

\* A hub whose container loads has no response yet.
Unmade ==
    /\ container = "loading" => ~connected /\ response \in {"none", "ended"}
    /\ ~InContainer => container = "none"

\* A hub that polls from the start does so to the end, and has no response.
Polls == Type = "POLL" => type = "POLL" /\ response = "none"

IInv ==
    /\ TypeOK /\ RequestsMove /\ Unmade /\ Polls
    /\ Recent /\ Limits

-----------------------------------------------------------------------------
(* Lemmas about the operators                                              *)

\* The delay grows, but not beyond its limit.
LEMMA BackOffLimits ==
    ASSUME CometHubAssumption, NEW n \in Nat, NEW d \in Nat
    PROVE  /\ BackOff(n, d) \in Nat
           /\ MaxDelay # Unlimited /\ d \in InitialDelay..MaxDelay
                => BackOff(n, d) \in InitialDelay..MaxDelay
PROOF
<1>1. /\ Multiplier \in Nat \ {0} /\ InitialDelay \in Nat \ {0}
      /\ MaxDelay \in Nat \cup {Unlimited}
      /\ MaxDelay # Unlimited => MaxDelay >= InitialDelay
    BY DEF CometHubAssumption
<1>2. d * Multiplier \in Nat /\ d * Multiplier >= d
    BY <1>1
<1>3. MaxDelay # Unlimited => MaxDelay \in Nat
    BY <1>1
<1>4. \/ BackOff(n, d) = d
      \/ BackOff(n, d) = MaxDelay /\ MaxDelay # Unlimited
      \/ /\ BackOff(n, d) = d * Multiplier
         /\ MaxDelay # Unlimited => ~(d * Multiplier > MaxDelay)
    BY DEF BackOff
<1>5. CASE BackOff(n, d) = d
    BY <1>5
<1>6. CASE BackOff(n, d) = MaxDelay /\ MaxDelay # Unlimited
    BY <1>1, <1>3, <1>6
<1>7. CASE /\ BackOff(n, d) = d * Multiplier
           /\ MaxDelay # Unlimited => ~(d * Multiplier > MaxDelay)
  <2> DEFINE z == d * Multiplier
  <2>1. /\ z \in Nat /\ z >= d /\ BackOff(n, d) = z
        /\ MaxDelay # Unlimited => ~(z > MaxDelay)
      BY <1>2, <1>7
  <2> HIDE DEF z
  <2> QED
      BY <1>1, <1>3, <2>1
<1> QED
    BY <1>4, <1>5, <1>6, <1>7

\* Attempts are counted within their limit, one by one.
LEMMA CountedLimits ==
    ASSUME CometHubAssumption, NEW n \in Nat
    PROVE  /\ Counted(n) \in Nat /\ Counted(n) <= n + 1
           /\ MaxAttempts # Unlimited /\ Within(n) => Counted(n) <= MaxAttempts
    BY DEF CometHubAssumption, Counted, Within

\* The next server of the list is the one after the last one, or the first.
LEMMA NextServerOnce ==
    ASSUME CometHubAssumption, index \in -1..(Servers - 1), NEW s \in NextServer
    PROVE  /\ s \in 0..(Servers - 1)
           /\ Algorithm # "random" =>
                s = IF index + 1 = Servers THEN 0 ELSE index + 1
PROOF
<1>1. Servers \in Nat \ {0}
    BY DEF CometHubAssumption
<1>2. CASE Algorithm = "random"
    BY <1>1, <1>2 DEF NextServer
<1>3. CASE Algorithm # "random"
  <2>1. s = (index + 1) % Servers
      BY <1>3 DEF NextServer
  <2>2. CASE index + 1 = Servers
    <3>1. Servers % Servers = 0
        BY <1>1
    <3> QED
        BY <1>1, <2>1, <2>2, <3>1
  <2>3. CASE index + 1 # Servers
    <3>1. index + 1 \in 0..(Servers - 1)
        BY <1>1, <2>3
    <3>2. \A k \in 0..(Servers - 1) : k % Servers = k
        BY <1>1
    <3> QED
        BY <2>1, <2>3, <3>1, <3>2
  <2> QED
      BY <2>2, <2>3
<1> QED
    BY <1>2, <1>3

(***************************************************************************)
(* What processRequestQueue does to a queue q of a hub that is busy or     *)
(* not, b: something has begun, unless the hub was stuck before.           *)
(***************************************************************************)
LEMMA ProcessBegins ==
    ASSUME NEW q \in Seq(Request), NEW b \in BOOLEAN, NEW box,
           retry \in BOOLEAN, {loading, wedged} \subseteq BOOLEAN,
           wedged <=> b /\ (loading => q = << >>),
           Process(q, b, box)
    PROVE  /\ queue' = q /\ retry' \in BOOLEAN
           /\ {busy', loading', wedged'} \subseteq BOOLEAN
           /\ loading' => busy' /\ q # << >>
           /\ (wedged' <=> busy' /\ ~loading')
           /\ q # << >> => loading' \/ retry' \/ wedged'
           /\ wedged => wedged'
PROOF
<1>1. CASE q = << >> \/ b
  <2>1. /\ queue' = q /\ busy' = b /\ retry' = retry /\ wedged' = wedged
        /\ loading' = IF q # << >> /\ b THEN loading ELSE FALSE
      BY <1>1 DEF Process
  <2>2. CASE q # << >> /\ b
      BY <2>1, <2>2
  <2>3. CASE q = << >>
      BY <2>1, <2>3
  <2> QED
      BY <1>1, <2>2, <2>3
<1>2. CASE q # << >> /\ ~b /\ Throws(q, b, box)
  <2>1. /\ queue' = q /\ busy' = TRUE /\ loading' = FALSE
        /\ retry' = retry /\ wedged' = TRUE
      BY <1>2 DEF Process
  <2> QED
      BY <2>1
<1>3. CASE q # << >> /\ ~b /\ ~Throws(q, b, box) /\ (~InContainer \/ box = "loaded")
  <2>1. /\ queue' = q /\ busy' = TRUE /\ loading' = TRUE
        /\ retry' = retry /\ wedged' = wedged
      BY <1>3 DEF Process
  <2> QED
      BY <1>3, <2>1
<1>4. CASE q # << >> /\ ~b /\ ~Throws(q, b, box) /\ ~(~InContainer \/ box = "loaded")
  <2>1. /\ queue' = q /\ busy' = FALSE /\ loading' = FALSE
        /\ retry' = TRUE /\ wedged' = wedged
      BY <1>4 DEF Process
  <2> QED
      BY <1>4, <2>1
<1> QED
    BY <1>1, <1>2, <1>3, <1>4

\* The queue with one more request is a queue, and not empty.
LEMMA Appended ==
    ASSUME TypeOK, NEW r \in Request
    PROVE  Append(queue, r) \in Seq(Request) /\ Append(queue, r) # << >>
    BY DEF TypeOK

\* What a request does, whether or not it can begin.
LEMMA AskBegins ==
    ASSUME TypeOK, OnlyWedged, NEW r \in Request, Ask(r)
    PROVE  /\ queue' \in Seq(Request) /\ queue' # << >> /\ retry' \in BOOLEAN
           /\ {busy', loading', wedged'} \subseteq BOOLEAN
           /\ loading' => busy'
           /\ (wedged' <=> busy' /\ ~loading')
           /\ IsConnected(type, connected) => loading' \/ retry' \/ wedged'
PROOF
<1> DEFINE q == Append(queue, r)
<1>1. q \in Seq(Request) /\ q # << >>
    BY Appended
<1>2. /\ retry \in BOOLEAN /\ {busy, loading, wedged} \subseteq BOOLEAN
      /\ (loading => busy) /\ (wedged <=> busy /\ ~loading)
    BY DEF TypeOK, OnlyWedged
<1> HIDE DEF q
<1>3. CASE IsConnected(type, connected)
  <2>1. Process(q, busy, container)
      BY <1>3 DEF Ask, q
  <2>2. busy \in BOOLEAN /\ (wedged <=> busy /\ (loading => q = << >>))
      BY <1>1, <1>2
  <2> QED
      BY <1>1, <1>2, <2>1, <2>2, ProcessBegins
<1>4. CASE ~IsConnected(type, connected)
  <2>1. queue' = q /\ UNCHANGED <<busy, loading, retry, wedged>>
      BY <1>4 DEF Ask, q
  <2> QED
      BY <1>1, <1>2, <1>4, <2>1
<1> QED
    BY <1>3, <1>4

-----------------------------------------------------------------------------
(* The queue                                                               *)

\* The types of what the queue is about, and of the rest
RequestTypes ==
    /\ queue \in Seq(Request) /\ retry \in BOOLEAN
    /\ busy \in BOOLEAN /\ loading \in BOOLEAN /\ wedged \in BOOLEAN
    /\ loading => busy
    /\ loading => queue # << >>
HubTypes ==
    /\ type \in {"STREAM", "POLL"}
    /\ connected \in BOOLEAN /\ answered \in BOOLEAN /\ deliberate \in BOOLEAN
    /\ index \in -1..(Servers - 1) /\ server \in 0..(Servers - 1)
    /\ attempts \in Nat /\ delay \in Nat
    /\ reconnector \in BOOLEAN /\ polling \in BOOLEAN /\ watched \in BOOLEAN
    /\ monitors \in BOOLEAN
    /\ container \in {"none", "loading", "loaded"}
    /\ response \in {"none", "loading", "open", "ended"}
    /\ tried \subseteq 0..(Servers - 1)

LEMMA TypesSplit == TypeOK <=> RequestTypes /\ HubTypes
    BY DEF TypeOK, RequestTypes, HubTypes

\* All that is invariant about the queue
QueueInv ==
    /\ RequestTypes /\ OnlyWedged
    /\ queue # << >> =>
        /\ connected => Begun
        /\ type = "POLL" => Begun \/ (polling /\ response # "none")

\* It is the part of the invariant that is about the queue.
LEMMA QueueSplit ==
    QueueInv <=> RequestTypes /\ RequestsMove
    BY DEF QueueInv, RequestsMove

LEMMA QueueStep ==
    ASSUME TypeOK, QueueInv, Unmade, [Next]_vars
    PROVE  QueueInv'
PROOF
<1>0. /\ RequestTypes /\ OnlyWedged
      /\ type \in {"STREAM", "POLL"} /\ connected \in BOOLEAN /\ polling \in BOOLEAN
    BY DEF TypeOK, QueueInv
\* Requests that rest, of a hub that is not connected anew
<1>1. ASSUME UNCHANGED requests,
             type' = type, connected' => connected, polling' = polling,
             response' = "none" => response = "none"
      PROVE  QueueInv'
    BY <1>1 DEF QueueInv, RequestTypes, OnlyWedged, Begun, requests
\* A queue that something has begun to empty
<1>2. ASSUME RequestTypes', OnlyWedged', type' = type,
             queue' # << >> => Begun'
      PROVE  QueueInv'
    BY <1>0, <1>2 DEF QueueInv
<1>3. ASSUME NEW q \in Seq(Request), NEW box, Process(q, busy, box),
             loading => q # << >>, type' = type
      PROVE  QueueInv'
  <2>1. wedged <=> busy /\ (loading => q = << >>)
      BY <1>0, <1>3 DEF OnlyWedged, RequestTypes
  <2>2. /\ queue' = q /\ retry' \in BOOLEAN
        /\ {busy', loading', wedged'} \subseteq BOOLEAN
        /\ loading' => busy' /\ q # << >>
        /\ (wedged' <=> busy' /\ ~loading')
        /\ q # << >> => loading' \/ retry' \/ wedged'
      BY <1>0, <1>3, <2>1, ProcessBegins DEF RequestTypes
  <2> QED
      BY <1>2, <1>3, <2>2 DEF RequestTypes, OnlyWedged, Begun
<1>4. ASSUME NEW q \in Seq(Request), NEW box, Process(q, FALSE, box), ~wedged, type' = type
      PROVE  QueueInv'
  <2>1. /\ queue' = q /\ retry' \in BOOLEAN
        /\ {busy', loading', wedged'} \subseteq BOOLEAN
        /\ loading' => busy' /\ q # << >>
        /\ (wedged' <=> busy' /\ ~loading')
        /\ q # << >> => loading' \/ retry' \/ wedged'
    <3>1. PICK b \in BOOLEAN : ~b /\ b = FALSE
        OBVIOUS
    <3>2. Process(q, b, box)
        BY <1>4, <3>1
    <3>3. wedged <=> b /\ (loading => q = << >>)
        BY <1>4, <3>1
    <3>4. retry \in BOOLEAN /\ {loading, wedged} \subseteq BOOLEAN
        BY <1>0 DEF RequestTypes
    <3> QED
        BY <3>2, <3>3, <3>4, ProcessBegins
  <2> QED
      BY <1>2, <1>4, <2>1 DEF RequestTypes, OnlyWedged, Begun
\* A request that waits for the connection
<1>5. ASSUME NEW r \in Request, queue' = Append(queue, r),
             UNCHANGED <<busy, loading, retry, wedged>>,
             type' = type, type # "POLL", ~connected'
      PROVE  QueueInv'
  <2>1. queue' \in Seq(Request) /\ queue' # << >>
      BY <1>5, Appended
  <2> QED
      BY <1>0, <1>5, <2>1 DEF QueueInv, RequestTypes, OnlyWedged
<1>6. ASSUME NEW r \in Request, Ask(r), type' = type, connected' = connected
      PROVE  QueueInv'
  <2>1. Append(queue, r) \in Seq(Request) /\ Append(queue, r) # << >>
      BY Appended
  <2>2. CASE IsConnected(type, connected)
      BY <1>3, <1>6, <2>1, <2>2 DEF Ask
  <2>3. CASE ~IsConnected(type, connected)
      BY <1>5, <1>6, <2>3 DEF Ask, IsConnected
  <2> QED
      BY <2>2, <2>3
<1>7. queue \in Seq(Request) /\ (loading => queue # << >>)
    BY <1>0 DEF RequestTypes
<1>8. "connect" \in Request /\ "poll" \in Request /\ "disconnect" \in Request
      /\ "other" \in Request
    BY DEF Request
<1>a. CASE Connect
  <2>1. ~connected /\ connected' = connected /\ type' = type
      BY <1>a DEF Connect, Unmade
  <2>2. Append(queue, "connect") \in Seq(Request) /\ Append(queue, "connect") # << >>
      BY <1>8, Appended
  <2>3. CASE IsConnected(type, connected)
    <3>1. Process(Append(queue, "connect"), busy, "loaded")
        BY <1>a, <2>3 DEF Connect
    <3> QED
        BY <1>3, <2>1, <2>2, <3>1
  <2>4. CASE ~IsConnected(type, connected)
      BY <1>5, <1>8, <1>a, <2>1, <2>4 DEF Connect, IsConnected
  <2> QED
      BY <2>3, <2>4
<1>b. CASE ConnectFails
    BY <1>5, <1>8, <1>b DEF ConnectFails, Unmade
<1>c. CASE ResponseOK
    BY <1>3, <1>7, <1>c DEF ResponseOK
<1>d. CASE ResponseEnds
    BY <1>1, <1>d DEF ResponseEnds
<1>e. CASE ResponseLost
    BY <1>1, <1>e DEF ResponseLost
<1>f. CASE ConnectionLost
    BY <1>1, <1>f DEF ConnectionLost
<1>g. CASE Reconnector
  <2>1. connected' = connected /\ type' = type /\ polling' = polling
      BY <1>g DEF Reconnector
  <2>2. CASE Within(attempts) /\ ~IsConnected(type, connected)
    <3>1. PICK s \in NextServer : DoConnect(s)
        BY <1>g, <2>2 DEF Reconnector
    <3>2. /\ retry' = retry /\ busy' = busy /\ loading' = FALSE
          /\ wedged' = (wedged \/ busy)
          /\ queue' = << >> \/ queue' = <<"connect">>
        BY <3>1 DEF DoConnect
    <3>3. queue' \in Seq(Request)
      <4>1. << >> \in Seq(Request) /\ <<"connect">> \in Seq(Request)
          BY <1>8
      <4> QED
          BY <3>2, <4>1
    <3>4. RequestTypes' /\ OnlyWedged'
        BY <1>0, <3>2, <3>3 DEF RequestTypes, OnlyWedged
    <3> QED
        BY <1>0, <2>1, <2>2, <3>4 DEF QueueInv, IsConnected
  <2>3. CASE ~(Within(attempts) /\ ~IsConnected(type, connected))
      BY <1>1, <1>g, <2>1, <2>3 DEF Reconnector, frames
  <2> QED
      BY <2>2, <2>3
<1>h. CASE InitialConnectMonitor
  <2>1. UNCHANGED requests /\ connected' = connected
      BY <1>h DEF InitialConnectMonitor
  <2>2. CASE type' = type /\ polling' = polling /\ (response' = "none" => response = "none")
      BY <1>1, <2>1, <2>2
  <2>3. CASE /\ ~IsConnected(type, connected) /\ type' = "POLL" /\ polling'
             /\ response' = "ended"
    <3>1. ~connected'
        BY <2>1, <2>3 DEF IsConnected
    <3>2. RequestTypes' /\ OnlyWedged'
        BY <1>0, <2>1 DEF RequestTypes, OnlyWedged, requests
    <3> QED
        BY <2>3, <3>1, <3>2 DEF QueueInv
  <2> QED
      BY <1>h, <2>2, <2>3 DEF InitialConnectMonitor, frames
<1>i. CASE User
    BY <1>6, <1>8, <1>i DEF User
<1>j. CASE Poll
  <2>1. CASE Ask("poll")
      BY <1>6, <1>8, <1>j, <2>1 DEF Poll
  <2>2. CASE Process(queue, busy, container)
      BY <1>3, <1>7, <1>j, <2>2 DEF Poll
  <2> QED
      BY <1>j, <2>1, <2>2 DEF Poll
<1>k. CASE Retry
  <2>1. /\ connected' = connected /\ type' = type /\ polling' = polling
        /\ response' = response /\ retry
      BY <1>k DEF Retry, frames
  <2>2. CASE queue = << >> \/ busy \/ container = "loaded"
    <3>1. /\ retry' \in BOOLEAN /\ queue' = queue /\ wedged' = wedged
          /\ busy' = (busy \/ queue # << >>)
          /\ loading' = (loading \/ (queue # << >> /\ ~busy))
        BY <1>k, <2>2 DEF Retry
    <3>2. retry' \in BOOLEAN
        BY <1>0, <2>1, <3>1 DEF RequestTypes
    <3>3. RequestTypes' /\ OnlyWedged'
        BY <1>0, <3>1, <3>2 DEF RequestTypes, OnlyWedged
    <3>4. queue' # << >> => Begun'
        BY <1>0, <3>1 DEF RequestTypes, OnlyWedged, Begun
    <3> QED
        BY <1>2, <2>1, <3>3, <3>4
  <2>3. CASE ~(queue = << >> \/ busy \/ container = "loaded")
      BY <1>1, <1>k, <2>1, <2>3 DEF Retry
  <2> QED
      BY <2>2, <2>3
<1>l. CASE RequestComplete
  <2>1. type' = type /\ loading /\ ~wedged
      BY <1>0, <1>l DEF RequestComplete, OnlyWedged
  <2>2. queue # << >> /\ Tail(queue) \in Seq(Request)
      BY <1>7, <2>1
  <2>3. CASE Process(Tail(queue), FALSE, container)
      BY <1>4, <2>1, <2>2, <2>3
  <2>4. CASE Process(queue, FALSE, container)
      BY <1>4, <1>7, <2>1, <2>4
  <2> QED
      BY <1>l, <2>3, <2>4 DEF RequestComplete
<1>m. CASE Disconnect
    BY <1>6, <1>8, <1>m DEF Disconnect
<1>n. CASE UNCHANGED vars
    BY <1>1, <1>n DEF vars, frames
<1> QED
    BY <1>a, <1>b, <1>c, <1>d, <1>e, <1>f, <1>g, <1>h, <1>i, <1>j, <1>k, <1>l,
       <1>m, <1>n DEF Next

-----------------------------------------------------------------------------
(* The connection                                                          *)

LEMMA UnmadeStep ==
    ASSUME TypeOK, Unmade, [Next]_vars
    PROVE  Unmade'
PROOF
<1>1. CASE Connect
    BY <1>1 DEF Connect, Unmade
<1>2. CASE ConnectFails
    BY <1>2 DEF ConnectFails, Unmade
<1>3. CASE ResponseOK
    BY <1>3 DEF ResponseOK, Unmade
<1>4. CASE ResponseLost \/ ConnectionLost
    BY <1>4 DEF ResponseLost, ConnectionLost, Unmade
<1>5. CASE Reconnector
    BY <1>5 DEF Reconnector, DoConnect, IsConnected, Unmade, frames, InContainer
<1>6. CASE InitialConnectMonitor
    BY <1>6 DEF InitialConnectMonitor, Unmade, frames
<1>7. CASE ResponseEnds
    BY <1>7 DEF ResponseEnds, Unmade
<1>8. CASE User \/ Poll \/ Retry \/ RequestComplete \/ Disconnect \/ UNCHANGED vars
  <2>1. connected' = connected /\ UNCHANGED frames
      BY <1>8 DEF User, Poll, Retry, RequestComplete, Disconnect, vars
  <2> QED
      BY <2>1 DEF Unmade, frames
<1> QED
    BY <1>1, <1>2, <1>3, <1>4, <1>5, <1>6, <1>7, <1>8 DEF Next

LEMMA PollsStep ==
    ASSUME TypeOK, Polls, [Next]_vars
    PROVE  Polls'
PROOF
<1>1. SUFFICES ASSUME Type = "POLL" PROVE type' = "POLL" /\ response' = "none"
    BY DEF Polls
<1>2. type = "POLL" /\ response = "none"
    BY <1>1 DEF Polls
<1>3. CASE Connect \/ ConnectFails
    BY <1>2, <1>3 DEF Connect, ConnectFails
<1>4. CASE ResponseOK \/ ResponseEnds \/ ResponseLost \/ ConnectionLost
    BY <1>2, <1>4 DEF ResponseOK, ResponseEnds, ResponseLost, ConnectionLost
<1>5. CASE Reconnector \/ InitialConnectMonitor
    BY <1>2, <1>5 DEF Reconnector, InitialConnectMonitor, IsConnected, frames
<1>6. CASE User \/ Poll \/ Retry \/ RequestComplete \/ Disconnect \/ UNCHANGED vars
    BY <1>2, <1>6 DEF User, Poll, Retry, RequestComplete, Disconnect, vars, frames
<1> QED
    BY <1>3, <1>4, <1>5, <1>6 DEF Next

-----------------------------------------------------------------------------
(* Reconnecting                                                            *)

\* The types of what reconnecting is about
RetryTypes ==
    /\ index \in -1..(Servers - 1) /\ server \in 0..(Servers - 1)
    /\ attempts \in Nat /\ delay \in Nat /\ reconnector \in BOOLEAN
    /\ tried \subseteq 0..(Servers - 1)

RetryInv == RetryTypes /\ Recent /\ Limits

\* One more server that is tried is the youngest, the others are older by one.
LEMMA RecentStep ==
    ASSUME CometHubAssumption, RetryTypes, Recent,
           NEW s \in NextServer, index' = s, tried' = tried \cup {s},
           attempts' = Counted(attempts)
    PROVE  Recent'
PROOF
<1>1. SUFFICES ASSUME Algorithm # "random", NEW x \in 0..(Servers - 1),
                      (Age(x) < attempts)'
               PROVE  x \in tried'
    BY DEF Recent, Age
<1>2. /\ Servers \in Nat \ {0} /\ attempts \in Nat /\ index \in -1..(Servers - 1)
    BY DEF CometHubAssumption, RetryTypes
<1>3. /\ s \in 0..(Servers - 1)
      /\ s = IF index + 1 = Servers THEN 0 ELSE index + 1
    BY <1>1, <1>2, NextServerOnce
<1>4. attempts' \in Nat /\ attempts' <= attempts + 1
    BY <1>2, CountedLimits
<1>5. CASE x = s
    BY <1>5
<1>6. CASE x # s
  <2>1. Age(x)' = Age(x) + 1 /\ Age(x) \in Int
    <3>1. Age(x)' = IF x <= s THEN s - x ELSE s - x + Servers
        BY DEF Age
    <3> QED
        BY <1>2, <1>3, <1>6, <3>1 DEF Age
  <2>2. Age(x)' < attempts'
      BY <1>1
  <2>3. Age(x) < attempts
      BY <1>2, <1>4, <2>1, <2>2
  <2> QED
      BY <1>1, <2>3 DEF Recent
<1> QED
    BY <1>5, <1>6

LEMMA RetryStep ==
    ASSUME CometHubAssumption, RetryInv, [Next]_vars
    PROVE  RetryInv'
PROOF
<1>0. /\ Servers \in Nat \ {0} /\ InitialDelay \in Nat \ {0}
      /\ MaxAttempts \in Nat \cup {Unlimited}
      /\ MaxDelay # Unlimited => MaxDelay \in Nat /\ MaxDelay >= InitialDelay
    BY DEF CometHubAssumption
<1>1. ASSUME UNCHANGED retries
      PROVE  RetryInv'
    BY <1>1 DEF RetryInv, RetryTypes, Recent, Age, Limits, retries
\* A loss, told once or twice
<1>2. ASSUME NEW c, Reconnect(c, attempts),
             UNCHANGED <<index, server, attempts, tried>>
      PROVE  RetryInv'
  <2>1. RetryTypes /\ Recent /\ Limits
      BY DEF RetryInv
  <2>2. /\ delay' = delay \/ delay' = BackOff(attempts, delay)
        /\ reconnector' = reconnector \/ reconnector' = TRUE
      BY <1>2 DEF Reconnect
  <2>3. delay' \in Nat /\ reconnector' \in BOOLEAN
      BY <2>1, <2>2, BackOffLimits DEF RetryTypes
  <2>4. MaxDelay # Unlimited => delay' \in InitialDelay..MaxDelay
      BY <2>1, <2>2, BackOffLimits DEF RetryTypes, Limits
  <2> QED
      BY <1>2, <2>1, <2>3, <2>4 DEF RetryInv, RetryTypes, Recent, Age, Limits
<1>3. ASSUME Reconnected
      PROVE  RetryInv'
  <2>1. RetryTypes'
    <3>1. index' = -1 \/ index' = index
        BY <1>3 DEF Reconnected
    <3>2. index \in -1..(Servers - 1) /\ server \in 0..(Servers - 1)
        BY DEF RetryInv, RetryTypes
    <3>3. index' \in -1..(Servers - 1)
        BY <1>0, <3>1, <3>2
    <3>4. /\ server' = server /\ attempts' = 0 /\ delay' = InitialDelay
          /\ reconnector' = FALSE /\ tried' = {}
        BY <1>3 DEF Reconnected
    <3> QED
        BY <1>0, <3>2, <3>3, <3>4 DEF RetryTypes
  <2>2. \A x \in 0..(Servers - 1) : ~ (Age(x) < attempts)'
    <3>1. attempts' = 0 /\ index' \in -1..(Servers - 1)
        BY <1>3, <2>1 DEF Reconnected, RetryTypes
    <3>2. SUFFICES ASSUME NEW x \in 0..(Servers - 1) PROVE ~ (Age(x) < attempts)'
        OBVIOUS
    <3>3. Age(x)' = IF x <= index' THEN index' - x ELSE index' - x + Servers
        BY DEF Age
    <3>4. \A i \in -1..(Servers - 1) : \A a :
             a = (IF x <= i THEN i - x ELSE i - x + Servers) => a \in Nat
        BY <1>0
    <3>5. Age(x)' \in Nat
        BY <3>1, <3>3, <3>4
    <3> QED
        BY <3>1, <3>5
  <2>3. Limits'
      BY <1>0, <1>3 DEF Limits, Reconnected, Unlimited
  <2> QED
      BY <2>1, <2>2, <2>3 DEF RetryInv, Recent
<1>4. ASSUME Within(attempts),
             NEW s \in NextServer, index' = s, server' = s, tried' = tried \cup {s},
             attempts' = Counted(attempts),
             \/ reconnector' = TRUE /\ delay' = BackOff(Counted(attempts), delay)
             \/ reconnector' = FALSE /\ delay' = delay
      PROVE  RetryInv'
  <2>1. RetryTypes /\ Recent /\ Limits
      BY DEF RetryInv
  <2>2. s \in 0..(Servers - 1) /\ Counted(attempts) \in Nat
      BY <2>1, NextServerOnce, CountedLimits DEF RetryTypes
  <2>3. /\ delay' \in Nat
        /\ MaxDelay # Unlimited => delay' \in InitialDelay..MaxDelay
      BY <1>4, <2>1, <2>2, BackOffLimits DEF RetryTypes, Limits
  <2>4. MaxAttempts # Unlimited => attempts' <= MaxAttempts
      BY <1>4, <2>1, CountedLimits DEF RetryTypes
  <2>5. RetryTypes'
    <3>1. index' \in -1..(Servers - 1) /\ server' \in 0..(Servers - 1)
        BY <1>0, <1>4, <2>2
    <3>2. tried' \subseteq 0..(Servers - 1)
        BY <1>4, <2>1, <2>2 DEF RetryTypes
    <3>3. reconnector' \in BOOLEAN
        BY <1>4
    <3> QED
        BY <1>4, <2>2, <2>3, <3>1, <3>2, <3>3 DEF RetryTypes
  <2>6. Recent'
      BY <1>4, <2>1, RecentStep
  <2> QED
      BY <2>3, <2>4, <2>5, <2>6 DEF RetryInv, Limits
<1>a. CASE ConnectFails
    BY <1>2, <1>a DEF ConnectFails
<1>b. CASE ResponseOK
    BY <1>3, <1>b DEF ResponseOK
<1>c. CASE ResponseLost \/ ConnectionLost
    BY <1>2, <1>c DEF ResponseLost, ConnectionLost
<1>d. CASE Reconnector
  <2>1. CASE Within(attempts) /\ ~IsConnected(type, connected)
    <3>1. PICK s \in NextServer :
             /\ index' = s /\ tried' = tried \cup {s}
             /\ attempts' = Counted(attempts) /\ DoConnect(s)
             /\ IF ~deliberate /\ Within(Counted(attempts))
                THEN reconnector' = TRUE /\ delay' = BackOff(Counted(attempts), delay)
                ELSE reconnector' = FALSE /\ UNCHANGED delay
        BY <1>d, <2>1 DEF Reconnector
    <3>2. server' = s
        BY <3>1 DEF DoConnect
    <3> QED
        BY <1>4, <2>1, <3>1, <3>2
  <2>2. CASE ~(Within(attempts) /\ ~IsConnected(type, connected))
    <3>1. /\ reconnector' = FALSE
          /\ UNCHANGED <<index, server, attempts, delay, tried>>
        BY <1>d, <2>2 DEF Reconnector
    <3> QED
        BY <3>1 DEF RetryInv, RetryTypes, Recent, Age, Limits
  <2> QED
      BY <2>1, <2>2
<1>e. CASE \/ Connect \/ ResponseEnds \/ InitialConnectMonitor \/ User \/ Poll \/ Retry
           \/ RequestComplete \/ Disconnect \/ UNCHANGED vars
  <2>1. UNCHANGED retries
      BY <1>e DEF Connect, ResponseEnds, InitialConnectMonitor, User, Poll, Retry,
                  RequestComplete, Disconnect, vars
  <2> QED
      BY <1>1, <2>1
<1> QED
    BY <1>a, <1>b, <1>c, <1>d, <1>e DEF Next

-----------------------------------------------------------------------------
(* The other variables                                                     *)

\* The types of the connection and its frames
FrameTypes ==
    /\ type \in {"STREAM", "POLL"}
    /\ connected \in BOOLEAN /\ answered \in BOOLEAN /\ deliberate \in BOOLEAN
    /\ polling \in BOOLEAN /\ watched \in BOOLEAN /\ monitors \in BOOLEAN
    /\ container \in {"none", "loading", "loaded"}
    /\ response \in {"none", "loading", "open", "ended"}

LEMMA HubSplit == HubTypes <=> FrameTypes /\ RetryTypes
    BY DEF HubTypes, FrameTypes, RetryTypes

LEMMA FramesStep ==
    ASSUME FrameTypes, [Next]_vars
    PROVE  FrameTypes'
PROOF
<1> USE DEF FrameTypes
<1>1. ASSUME UNCHANGED <<type, answered, deliberate, polling, monitors, container>>,
             connected' \in BOOLEAN, watched' \in BOOLEAN,
             response' \in {"none", "loading", "open", "ended"}
      PROVE  FrameTypes'
    BY <1>1
<1>a. CASE Connect
    BY <1>a DEF Connect
<1>b. CASE ConnectFails
    BY <1>b DEF ConnectFails
<1>c. CASE ResponseOK
    BY <1>1, <1>c DEF ResponseOK
<1>d. CASE ResponseEnds
    BY <1>1, <1>d DEF ResponseEnds
<1>e. CASE ResponseLost
    BY <1>1, <1>e DEF ResponseLost
<1>f. CASE ConnectionLost
    BY <1>1, <1>f DEF ConnectionLost
<1>g. CASE Reconnector
  <2>1. UNCHANGED <<type, connected, answered, deliberate, polling>>
      BY <1>g DEF Reconnector
  <2>2. \/ UNCHANGED <<monitors, frames>> \/ \E s \in NextServer : DoConnect(s)
      BY <1>g DEF Reconnector
  <2>3. /\ monitors' \in BOOLEAN /\ watched' \in BOOLEAN
        /\ container' \in {"none", "loading", "loaded"}
        /\ response' \in {"none", "loading", "open", "ended"}
    <3>1. CASE UNCHANGED <<monitors, frames>>
        BY <3>1 DEF frames
    <3>2. ASSUME NEW s \in NextServer, DoConnect(s)
          PROVE  /\ monitors' \in BOOLEAN /\ watched' \in BOOLEAN
                 /\ container' \in {"none", "loading", "loaded"}
                 /\ response' \in {"none", "loading", "open", "ended"}
        BY <3>2 DEF DoConnect
    <3> QED
        BY <2>2, <3>1, <3>2
  <2> QED
      BY <2>1, <2>3
<1>h. CASE InitialConnectMonitor
    BY <1>h DEF InitialConnectMonitor, frames
<1>i. CASE User \/ Poll \/ Retry
  <2>1. UNCHANGED <<type, connected, answered, deliberate, monitors, polling, frames>>
      BY <1>i DEF User, Poll, Retry
  <2> QED
      BY <1>1, <2>1 DEF frames
<1>j. CASE RequestComplete
  <2>1. UNCHANGED <<type, connected, deliberate, monitors, frames>>
      BY <1>j DEF RequestComplete
  <2>2. answered' \in BOOLEAN /\ polling' \in BOOLEAN
      BY <1>j DEF RequestComplete
  <2> QED
      BY <2>1, <2>2 DEF frames
<1>k. CASE Disconnect
    BY <1>k DEF Disconnect, frames
<1>l. CASE UNCHANGED vars
    BY <1>1, <1>l DEF vars, frames
<1> QED
    BY <1>a, <1>b, <1>c, <1>d, <1>e, <1>f, <1>g, <1>h, <1>i, <1>j, <1>k, <1>l DEF Next

-----------------------------------------------------------------------------
(* The theorems                                                            *)

LEMMA Initially ==
    ASSUME CometHubAssumption, Init
    PROVE  IInv
PROOF
<1>1. /\ Servers \in Nat \ {0} /\ InitialDelay \in Nat \ {0}
      /\ Type \in {"STREAM", "POLL"}
      /\ MaxAttempts \in Nat \cup {Unlimited}
      /\ MaxDelay # Unlimited => MaxDelay \in Nat /\ MaxDelay >= InitialDelay
    BY DEF CometHubAssumption
<1>2. << >> \in Seq(Request) /\ <<"connect">> \in Seq(Request)
    BY DEF Request
<1>3. FrameTypes /\ Unmade /\ Polls
    BY <1>1 DEF Init, FrameTypes, Unmade, Polls
<1>4. RetryInv
  <2>1. RetryTypes /\ Limits
    <3>1. index \in -1..(Servers - 1)
        BY <1>1 DEF Init
    <3>2. RetryTypes
      <4>1. 0 \in 0..(Servers - 1) /\ InitialDelay \in Nat
          BY <1>1
      <4>2. /\ server = 0 /\ attempts = 0 /\ delay = InitialDelay
            /\ reconnector = FALSE /\ tried = {}
          BY DEF Init
      <4> QED
          BY <3>1, <4>1, <4>2 DEF RetryTypes
    <3>3. Limits
        BY <1>1 DEF Init, Limits, Unlimited
    <3> QED
        BY <3>2, <3>3
  <2>2. \A x \in 0..(Servers - 1) : ~ (Age(x) < attempts)
      BY <1>1 DEF Init, Age
  <2> QED
      BY <2>1, <2>2 DEF RetryInv, Recent
<1>5. QueueInv
  <2>1. /\ queue = << >> \/ queue = <<"connect">>
        /\ busy = loading /\ loading = (~InContainer /\ Type = "POLL")
        /\ queue # << >> <=> ~InContainer
        /\ retry = FALSE /\ wedged = FALSE /\ connected = FALSE /\ type = Type
    BY <1>1 DEF Init
  <2>2. RequestTypes /\ OnlyWedged
      BY <1>2, <2>1 DEF RequestTypes, OnlyWedged
  <2> QED
      BY <2>1, <2>2 DEF QueueInv, Begun
<1> QED
    BY <1>3, <1>4, <1>5, TypesSplit, HubSplit, QueueSplit DEF IInv, RetryInv

LEMMA Step ==
    ASSUME CometHubAssumption, IInv, [Next]_vars
    PROVE  IInv'
PROOF
<1>1. TypeOK /\ QueueInv /\ Unmade /\ RetryInv /\ FrameTypes
    BY TypesSplit, HubSplit, QueueSplit DEF IInv, RetryInv
<1>2. QueueInv' /\ Unmade' /\ Polls' /\ RetryInv' /\ FrameTypes'
    BY <1>1, QueueStep, UnmadeStep, PollsStep, RetryStep, FramesStep DEF IInv
<1>3. TypeOK' /\ RequestsMove'
  <2>1. (TypeOK <=> RequestTypes /\ HubTypes)' /\ (HubTypes <=> FrameTypes /\ RetryTypes)'
        /\ (QueueInv <=> RequestTypes /\ RequestsMove)'
      BY TypesSplit, HubSplit, QueueSplit, PTL
  <2> QED
      BY <1>2, <2>1 DEF RetryInv
<1> QED
    BY <1>2, <1>3 DEF IInv, RetryInv

\* The inductive invariant holds of every hub.
THEOREM Invariance ==
    ASSUME CometHubAssumption
    PROVE  Spec => []IInv
PROOF
<1>1. Init => IInv
    BY Initially
<1>2. IInv /\ [Next]_vars => IInv'
    BY Step
<1> QED
    BY <1>1, <1>2, PTL DEF Spec

\* The variables of every hub keep their types; a request that is being
\* loaded is at the head of the queue.
THEOREM Typing ==
    ASSUME CometHubAssumption
    PROVE  Spec => []TypeOK
PROOF
<1>1. IInv => TypeOK
    BY DEF IInv
<1> QED
    BY <1>1, Invariance, PTL

\* A hub that waits for an answer loads a request, unless one was cut off by a
\* reconnection or begun before there was any request iframe: nothing else leaves
\* bIsRequestInProgress set, and a hub that tries again begins its queue
\* (processRequestQueue, buildOnRequestComplete).
THEOREM NothingElseBlocks ==
    ASSUME CometHubAssumption
    PROVE  Spec => []RequestsMove
PROOF
<1>1. IInv => RequestsMove
    BY DEF IInv
<1> QED
    BY <1>1, Invariance, PTL

\* A hub that polls from the start does not wait for its next poll to begin
\* what is queued (request, processRequestQueue).
THEOREM PollingMoves ==
    ASSUME CometHubAssumption, Type = "POLL"
    PROVE  Spec => [](queue # << >> => Begun)
PROOF
<1>1. IInv => (queue # << >> => Begun)
    BY DEF IInv, Polls, RequestsMove
<1> QED
    BY <1>1, Invariance, PTL

\* However long the list of servers, and wherever a loss finds it, as many
\* attempts as it has servers reach every one; attempts and delays keep their
\* limits for every back-off (reconnect, doReconnection, onReconnect).
THEOREM EveryServerIsTried ==
    ASSUME CometHubAssumption
    PROVE  Spec => []TriesAll
PROOF
<1>1. IInv => TriesAll
  <2>1. SUFFICES ASSUME IInv, Algorithm # "random", attempts >= Servers
                 PROVE  tried = 0..(Servers - 1)
      BY DEF IInv, TriesAll, EachServer
  <2>2. /\ Servers \in Nat \ {0} /\ attempts \in Nat
        /\ index \in -1..(Servers - 1) /\ tried \subseteq 0..(Servers - 1)
      BY <2>1 DEF IInv, TypeOK, CometHubAssumption
  <2>3. \A x \in 0..(Servers - 1) : Age(x) < attempts
    <3>1. SUFFICES ASSUME NEW x \in 0..(Servers - 1)
                   PROVE  Age(x) < attempts
        OBVIOUS
    <3>2. Age(x) \in Int /\ Age(x) < Servers
        BY <2>2 DEF Age
    <3> QED
        BY <2>1, <2>2, <3>2
  <2> QED
      BY <2>1, <2>2, <2>3 DEF IInv, Recent
<1> QED
    BY <1>1, Invariance, PTL

\* A hub that has been disconnected starts no more attempts than the one whose
\* timeout was running (disconnect, reconnect, isDeliberateDisconnect).
THEOREM OneMoreAttempt == Spec => NoMoreAttempts
PROOF
<1>1. [Next]_vars => [LastAttempt]_vars
  <2> SUFFICES ASSUME [Next]_vars, deliberate, reconnector'
               PROVE  reconnector /\ attempts' = attempts
      BY DEF LastAttempt
  <2>1. ASSUME NEW c, Reconnect(c, attempts), attempts' = attempts
        PROVE  reconnector /\ attempts' = attempts
      BY <2>1 DEF Reconnect
  <2>2. CASE ConnectFails \/ ResponseLost \/ ConnectionLost
      BY <2>1, <2>2 DEF ConnectFails, ResponseLost, ConnectionLost
  <2>3. ~ ResponseOK /\ ~ Reconnector
      BY DEF ResponseOK, Reconnected, Reconnector
  <2>4. CASE \/ Connect \/ ResponseEnds \/ InitialConnectMonitor \/ User \/ Poll
             \/ Retry \/ RequestComplete \/ Disconnect \/ UNCHANGED vars
    <3>1. UNCHANGED retries
        BY <2>4 DEF Connect, ResponseEnds, InitialConnectMonitor, User, Poll, Retry,
                    RequestComplete, Disconnect, vars
    <3> QED
        BY <3>1 DEF retries
  <2> QED
      BY <2>2, <2>3, <2>4 DEF Next
<1> QED
    BY <1>1, PTL DEF Spec, NoMoreAttempts

-----------------------------------------------------------------------------
(* The hub on WebSockets: its inductive invariant.                         *)

\* x comes before y in a sequence
Before(seq, x, y) == \E a, b \in DOMAIN seq : a < b /\ seq[a] = x /\ seq[b] = y

\* m is on one of the wires
OnWire(wires, m) == \E i \in DOMAIN wires : \E k \in DOMAIN wires[i] : wires[i][k] = m

Connecting == sockets # << >> /\ sockets[Ws] = "connecting"

\* The flag is set from onopen to onclose, and the uid is sent when it is set.
Following ==
    /\ open <=> sockets # << >> /\ sockets[Ws] \in {"open", "closing"}
    /\ open => wire[Ws] # << >>
    /\ Connecting => wire[Ws] = << >>

\* Nothing goes to the server, or waits, but what the page sent, and the uid.
FromPage ==
    /\ \A i \in DOMAIN wire : \A k \in DOMAIN wire[i] : wire[i][k] \in ToSet(asked) \cup {Uid}
    /\ ToSet(unsent) \subseteq ToSet(asked)
    /\ early \cup dropped \subseteq ToSet(asked)

\* The page sends each message once, and so what is on the wires is there once.
SentOnce ==
    /\ IsInjective(asked)
    /\ \A i, j \in DOMAIN wire : \A k \in DOMAIN wire[i], l \in DOMAIN wire[j] :
           wire[i][k] = wire[j][l] /\ wire[i][k] # Uid => i = j /\ k = l

\* The queue is in order, and what is in it is not sent before the socket opens,
\* although it stays in the queue afterwards.
Queued ==
    /\ \A a, b \in DOMAIN unsent : a < b => Before(asked, unsent[a], unsent[b])
    /\ Connecting => \A a \in DOMAIN unsent : ~OnWire(wire, unsent[a])

\* What a socket carries, but its uid and what listeners sent, is in order.
Ordered ==
    \A i \in DOMAIN wire : \A j, k \in DOMAIN wire[i] :
        j < k /\ wire[i][j] \notin early \cup {Uid} /\ wire[i][k] \notin early \cup {Uid}
            => Before(asked, wire[i][j], wire[i][k])

\* A message is sent, or waits, or was dropped.
NoneMissing == \A m \in ToSet(asked) : OnWire(wire, m) \/ m \in ToSet(unsent) \/ m \in dropped

SocketInv ==
    /\ SocketTypeOK /\ Following /\ FromPage /\ SentOnce /\ Queued
    /\ UidFirst /\ Ordered /\ NoneMissing

-----------------------------------------------------------------------------
(* Lemmas about the wires and what the page asked                          *)

\* What is unsent comes in the order asked, and so but once.
LEMMA UnsentIsApart ==
    ASSUME SocketInv
    PROVE  \A a, b \in DOMAIN unsent : unsent[a] = unsent[b] => a = b
PROOF
<1> SUFFICES ASSUME NEW a \in DOMAIN unsent, NEW b \in DOMAIN unsent,
                    a < b, unsent[a] = unsent[b]
             PROVE  FALSE
    BY LenProperties, Z3 DEF SocketInv, SocketTypeOK
<1>1. PICK i \in DOMAIN asked, j \in DOMAIN asked :
          i < j /\ asked[i] = unsent[a] /\ asked[j] = unsent[b]
    BY DEF SocketInv, Queued, Before
<1>2. i = j
    BY <1>1 DEF SocketInv, SentOnce, IsInjective
<1> QED
    BY <1>1, <1>2, LenProperties DEF SocketInv, SocketTypeOK

\* Only the wire of the newest socket is written to.
LEMMA Written ==
    ASSUME SocketTypeOK, sockets # << >>, NEW q \in Seq(Message \cup {Uid}),
           wire' = [wire EXCEPT ![Ws] = q]
    PROVE  /\ wire' \in Seq(Seq(Message \cup {Uid})) /\ Len(wire') = Len(wire)
           /\ DOMAIN wire' = DOMAIN wire /\ Ws \in DOMAIN wire
           /\ wire'[Ws] = q /\ \A i \in DOMAIN wire : i # Ws => wire'[i] = wire[i]
PROOF
<1>1. Ws \in 1..Len(wire) /\ DOMAIN wire = 1..Len(wire)
    BY EmptySeq, LenProperties DEF SocketTypeOK, Ws
<1> QED
    BY <1>1, ExceptSeq, LenProperties DEF SocketTypeOK

\* A message that the page sends now is new, and comes last.
LEMMA Asking ==
    ASSUME SocketTypeOK, IsInjective(asked), NEW m \in Fresh, asked' = Append(asked, m)
    PROVE  /\ asked' \in Seq(Message) /\ IsInjective(asked')
           /\ ToSet(asked') = ToSet(asked) \cup {m}
           /\ \A x, y : Before(asked, x, y) => Before(asked', x, y)
           /\ \A x \in ToSet(asked) : Before(asked', x, m)
PROOF
<1>1. /\ asked' \in Seq(Message) /\ DOMAIN asked = 1..Len(asked) /\ Len(asked) \in Nat
      /\ DOMAIN asked' = 1..(Len(asked) + 1) /\ asked'[Len(asked) + 1] = m
      /\ \A i \in 1..Len(asked) : asked'[i] = asked[i]
    BY AppendProperties, LenProperties DEF SocketTypeOK, Fresh
<1>2. m \notin ToSet(asked)
    BY DEF Fresh
<1>3. IsInjective(asked')
    BY <1>1, <1>2 DEF IsInjective, ToSet
<1>4. ToSet(asked') = ToSet(asked) \cup {m}
    BY <1>1 DEF ToSet
<1>5. ASSUME NEW x, NEW y, Before(asked, x, y) PROVE Before(asked', x, y)
    BY <1>1, <1>5 DEF Before
<1>6. ASSUME NEW x \in ToSet(asked) PROVE Before(asked', x, m)
    BY <1>1 DEF Before, ToSet
<1> QED
    BY <1>1, <1>3, <1>4, <1>5, <1>6

\* What is fresh is nowhere yet.
LEMMA FreshIsNowhere ==
    ASSUME SocketHubAssumption, SocketInv, NEW m \in Fresh
    PROVE  m # Uid /\ ~OnWire(wire, m) /\ m \notin ToSet(unsent)
PROOF
    BY DEF SocketHubAssumption, SocketInv, FromPage, Fresh, OnWire

-----------------------------------------------------------------------------
(* Every step keeps the invariant                                          *)

LEMMA SocketInitially == SocketHubAssumption /\ SocketInit => SocketInv
PROOF
<1> SUFFICES ASSUME SocketHubAssumption, SocketInit PROVE SocketInv
    OBVIOUS
<1>1. DOMAIN sockets = {} /\ DOMAIN wire = {} /\ DOMAIN unsent = {} /\ DOMAIN asked = {}
    BY DEF SocketInit
<1>0. ToSet(asked) = {} /\ ToSet(unsent) = {}
    BY <1>1 DEF ToSet
<1>2. SocketTypeOK
  <2>1. sockets \in Seq(State) /\ Len(sockets) = 0
      BY EmptySeq, Zenon DEF SocketInit
  <2>2. wire \in Seq(Seq(Message \cup {Uid})) /\ Len(wire) = 0
      BY EmptySeq, Zenon DEF SocketInit
  <2>3. unsent \in Seq(Message) /\ asked \in Seq(Message)
      BY EmptySeq, Zenon DEF SocketInit
  <2>4. open \in BOOLEAN /\ early \cup dropped \subseteq ToSet(asked)
      BY DEF SocketInit
  <2> QED
      BY <2>1, <2>2, <2>3, <2>4 DEF SocketHubAssumption, SocketTypeOK
<1> QED
    BY <1>0, <1>1, <1>2 DEF SocketInit, SocketInv, Following, FromPage, SentOnce, IsInjective, Queued,
        Connecting, UidFirst, Ordered, NoneMissing

LEMMA ConnectKeeps ==
    ASSUME SocketHubAssumption, SocketInv, SocketConnect PROVE SocketInv'
PROOF
<1>1. /\ sockets' = Append(sockets, "connecting") /\ wire' = Append(wire, << >>)
      /\ unsent' = << >> /\ dropped' = dropped \cup ToSet(unsent)
      /\ open' = open /\ asked' = asked /\ early' = early
      /\ Len(sockets) < MaxSockets /\ (sockets # << >> => sockets[Ws] = "closed")
    BY DEF SocketConnect
<1>2. /\ wire \in Seq(Seq(Message \cup {Uid})) /\ << >> \in Seq(Message \cup {Uid})
      /\ sockets \in Seq(State) /\ "connecting" \in State
    BY EmptySeq DEF SocketInv, SocketTypeOK, State
<1>3. /\ sockets' \in Seq(State) /\ Len(sockets') = Len(sockets) + 1
      /\ sockets'[Len(sockets) + 1] = "connecting" /\ sockets' # << >>
  <2>1. \A s \in Seq(State), e \in State :
            /\ Append(s, e) \in Seq(State) /\ Append(s, e) # << >>
            /\ Len(Append(s, e)) = Len(s) + 1 /\ Append(s, e)[Len(s) + 1] = e
      BY AppendProperties
  <2> QED
      BY <1>1, <1>2, <2>1
<1>4. /\ wire' \in Seq(Seq(Message \cup {Uid})) /\ Len(wire') = Len(wire) + 1
      /\ Len(wire) \in Nat /\ DOMAIN wire = 1..Len(wire)
      /\ DOMAIN wire' = 1..(Len(wire) + 1)
      /\ wire'[Len(wire) + 1] = << >> /\ \A i \in DOMAIN wire : wire'[i] = wire[i]
    BY <1>1, <1>2, AppendProperties, LenProperties, SMTT(30)
<1>5. \A i \in DOMAIN wire' : \A k \in DOMAIN wire'[i] :
          i \in DOMAIN wire /\ wire'[i] = wire[i]
    BY <1>4, EmptySeq
<1>6. unsent' \in Seq(Message) /\ DOMAIN unsent' = {} /\ ToSet(unsent') = {}
    BY <1>1, EmptySeq DEF ToSet
<1>7. SocketTypeOK'
    BY <1>1, <1>3, <1>4, <1>6 DEF SocketHubAssumption, SocketInv, SocketTypeOK, FromPage
<1>8. Following'
    BY <1>1, <1>3, <1>4 DEF SocketInv, SocketTypeOK, Following, Ws, Connecting
<1>9. FromPage' /\ SentOnce' /\ Queued'
    BY <1>1, <1>5, <1>6 DEF SocketInv, FromPage, SentOnce, Queued
<1>10. UidFirst'
  <2>1. ASSUME NEW i \in DOMAIN wire', wire'[i] # << >>
        PROVE  i \in DOMAIN wire /\ wire'[i] = wire[i]
      BY <1>4, <2>1
  <2>2. early' = early
      BY <1>1
  <2> QED
      BY <2>1, <2>2 DEF SocketInv, UidFirst
<1>11. Ordered'
  <2>1. \A x, y : Before(asked', x, y) = Before(asked, x, y)
      BY <1>1 DEF Before
  <2>2. DOMAIN wire' = 1..(Len(wire) + 1) /\ wire'[Len(wire) + 1] = << >>
      BY <1>4
  <2> QED
      BY <1>1, <1>5, <2>1 DEF SocketInv, Ordered
<1>12. NoneMissing'
  <2>1. ASSUME NEW m, OnWire(wire, m) PROVE OnWire(wire', m)
      BY <1>4, <2>1 DEF OnWire
  <2> QED
      BY <1>1, <2>1 DEF SocketInv, NoneMissing
<1> QED
    BY <1>7, <1>8, <1>9, <1>10, <1>11, <1>12 DEF SocketInv

LEMMA EndKeeps ==
    ASSUME SocketHubAssumption, SocketInv, Closing \/ Closed PROVE SocketInv'
PROOF
<1>1. PICK s \in {"closing", "closed"} :
          /\ sockets # << >> /\ sockets' = [sockets EXCEPT ![Ws] = s]
          /\ open' = (s = "closing") /\ (s = "closing" => sockets[Ws] = "open")
    BY DEF Closing, Closed, SocketInv, Following
<1>2. UNCHANGED <<wire, unsent, asked, early, dropped>>
    BY DEF Closing, Closed
<1>3. /\ sockets' \in Seq(State) /\ Len(sockets') = Len(sockets)
      /\ sockets'[Ws] = s /\ sockets' # << >>
    BY <1>1, ExceptSeq, EmptySeq DEF SocketInv, SocketTypeOK, State, Ws
<1>4. SocketTypeOK' /\ FromPage' /\ SentOnce'
    BY <1>1, <1>2, <1>3 DEF SocketInv, SocketTypeOK, FromPage, SentOnce
<1>5. Following' /\ ~Connecting'
    BY <1>1, <1>2, <1>3 DEF SocketInv, Following, Connecting, Ws
<1>6. Queued' /\ UidFirst' /\ Ordered' /\ NoneMissing'
    BY <1>2, <1>5 DEF SocketInv, Queued, UidFirst, Ordered, NoneMissing
<1> QED
    BY <1>4, <1>5, <1>6 DEF SocketInv

LEMMA OpenKeeps ==
    ASSUME SocketHubAssumption, SocketInv,
           NEW sent \in {<< >>} \cup {<<m>> : m \in Fresh}, Open(sent)
    PROVE  SocketInv'
PROOF
<1> DEFINE q == sent \o <<Uid>> \o unsent
           n == Len(sent)
<1>1. /\ sockets # << >> /\ sockets[Ws] = "connecting" /\ open' = TRUE
      /\ sockets' = [sockets EXCEPT ![Ws] = "open"] /\ wire' = [wire EXCEPT ![Ws] = q]
      /\ asked' = asked \o sent /\ early' = early \cup ToSet(sent)
      /\ UNCHANGED <<unsent, dropped>>
    BY DEF Open
<1>2. /\ sockets' \in Seq(State) /\ Len(sockets') = Len(sockets)
      /\ sockets'[Ws] = "open" /\ sockets' # << >>
    BY <1>1, ExceptSeq, EmptySeq DEF SocketInv, SocketTypeOK, State, Ws
<1>3. /\ asked' \in Seq(Message) /\ IsInjective(asked')
      /\ ToSet(asked') = ToSet(asked) \cup ToSet(sent)
      /\ \A x, y : Before(asked, x, y) => Before(asked', x, y)
      /\ sent \in Seq(Message \cup {Uid}) /\ n \in {0, 1}
      /\ n = 1 => sent[1] \in Fresh /\ ToSet(sent) = {sent[1]}
  <2>1. CASE sent = << >>
    <3>1. asked' = asked
        BY <1>1, <2>1, ConcatEmptySeq DEF SocketInv, SocketTypeOK
    <3>2. ToSet(sent) = {} /\ n = 0 /\ sent \in Seq(Message \cup {Uid})
        BY <2>1, EmptySeq DEF ToSet
    <3> QED
        BY <3>1, <3>2 DEF SocketInv, SocketTypeOK, SentOnce
  <2>2. CASE sent # << >>
    <3>0. PICK m \in Fresh : sent = <<m>>
        BY <2>2
    <3>1. asked' = Append(asked, m)
        BY <1>1, <3>0, AppendIsConcat DEF SocketInv, SocketTypeOK, Fresh
    <3>2. ToSet(sent) = {m} /\ n = 1 /\ sent[1] = m /\ sent \in Seq(Message \cup {Uid})
        BY <3>0 DEF ToSet, Fresh
    <3> QED
        BY <3>1, <3>2, Asking DEF SocketInv, SentOnce
  <2> QED
      BY <2>1, <2>2
<1>4. /\ q \in Seq(Message \cup {Uid}) /\ DOMAIN q = 1..(n + 1 + Len(unsent))
      /\ DOMAIN unsent = 1..Len(unsent) /\ Len(unsent) \in Nat
      /\ \A k \in DOMAIN q :
            q[k] = IF k <= n THEN sent[1] ELSE IF k = n + 1 THEN Uid ELSE unsent[k - n - 1]
  <2>1. /\ sent \o <<Uid>> \in Seq(Message \cup {Uid}) /\ Len(sent \o <<Uid>>) = n + 1
        /\ \A k \in 1..(n + 1) : (sent \o <<Uid>>)[k] = IF k <= n THEN sent[1] ELSE Uid
      BY <1>3, ConcatProperties
  <2>2. unsent \in Seq(Message \cup {Uid}) /\ DOMAIN unsent = 1..Len(unsent) /\ Len(unsent) \in Nat
      BY LenProperties DEF SocketInv, SocketTypeOK
  <2>3. /\ q \in Seq(Message \cup {Uid}) /\ Len(q) = n + 1 + Len(unsent)
        /\ \A k \in 1..(n + 1 + Len(unsent)) :
              q[k] = IF k <= n + 1 THEN (sent \o <<Uid>>)[k] ELSE unsent[k - (n + 1)]
      BY <2>1, <2>2, ConcatProperties
  <2>4. DOMAIN q = 1..(n + 1 + Len(unsent))
      BY <2>3, LenProperties
  <2>5. n \in {0, 1}
      BY <1>3
  <2> HIDE DEF q, n
  <2>6. ASSUME NEW k \in DOMAIN q
        PROVE  q[k] = IF k <= n THEN sent[1] ELSE IF k = n + 1 THEN Uid ELSE unsent[k - n - 1]
      BY <2>1, <2>2, <2>3, <2>4, <2>5
  <2> QED
      BY <2>2, <2>3, <2>4, <2>6
<1> HIDE DEF q, n
<1>15. n \in {0, 1} /\ (n = 1 => sent[1] \in Fresh /\ ToSet(sent) = {sent[1]})
    BY <1>3 DEF n
<1>5. /\ wire' \in Seq(Seq(Message \cup {Uid})) /\ Len(wire') = Len(wire)
      /\ DOMAIN wire' = DOMAIN wire /\ Ws \in DOMAIN wire
      /\ wire'[Ws] = q /\ \A i \in DOMAIN wire : i # Ws => wire'[i] = wire[i]
    BY <1>1, <1>4, Written DEF SocketInv
<1>6. wire[Ws] = << >>
    BY <1>1 DEF SocketInv, Following, Connecting
<1>7. /\ n = 1 => sent[1] # Uid /\ ~OnWire(wire, sent[1]) /\ sent[1] \notin ToSet(unsent)
      /\ \A a \in DOMAIN unsent : unsent[a] \in ToSet(unsent) /\ unsent[a] # Uid /\ ~OnWire(wire, unsent[a])
  <2>1. n = 1 => sent[1] # Uid /\ ~OnWire(wire, sent[1]) /\ sent[1] \notin ToSet(unsent)
      BY <1>15, FreshIsNowhere
  <2>2. \A a \in DOMAIN unsent : unsent[a] \in ToSet(unsent) /\ unsent[a] # Uid
      BY <1>4 DEF ToSet, SocketInv, SocketTypeOK, SocketHubAssumption
  <2>3. \A a \in DOMAIN unsent : ~OnWire(wire, unsent[a])
      BY <1>1 DEF SocketInv, Queued, Connecting
  <2> QED
      BY <2>1, <2>2, <2>3
<1>8. SocketTypeOK' /\ FromPage'
  <2>1. early' \cup dropped' \subseteq ToSet(asked')
      BY <1>1, <1>3 DEF SocketInv, FromPage
  <2>2. \A k \in DOMAIN q : q[k] \in ToSet(asked') \cup {Uid}
      BY <1>3, <1>4, <1>7, SMTT(30) DEF SocketInv, FromPage
  <2> QED
    <3>1. \A i \in DOMAIN wire : \A k \in DOMAIN wire'[i] : wire'[i][k] \in ToSet(asked') \cup {Uid}
      <4>1. \A i \in DOMAIN wire : i # Ws => wire'[i] = wire[i]
          BY <1>5
      <4>2. \A i \in DOMAIN wire : \A k \in DOMAIN wire[i] : wire[i][k] \in ToSet(asked') \cup {Uid}
          BY <1>3 DEF SocketInv, FromPage
      <4> QED
          BY <1>5, <2>2, <4>1, <4>2
    <3>2. ToSet(unsent') \subseteq ToSet(asked')
        BY <1>1, <1>3 DEF SocketInv, FromPage
    <3>3. SocketTypeOK'
        BY <1>1, <1>2, <1>3, <1>5, <2>1 DEF SocketInv, SocketTypeOK
    <3> QED
        BY <1>5, <2>1, <3>1, <3>2, <3>3 DEF FromPage
<1>9. Following' /\ ~Connecting'
  <2>1. q # << >>
      BY <1>3, <1>4, EmptySeq
  <2> QED
      BY <1>1, <1>2, <1>5, <2>1 DEF Following, Connecting, Ws
<1>10. SentOnce'
  <2>1. \A k, l \in DOMAIN q : q[k] = q[l] /\ q[k] # Uid => k = l
    <3>1. \A a, b \in DOMAIN unsent : unsent[a] = unsent[b] => a = b
        BY UnsentIsApart
    <3> SUFFICES ASSUME NEW k \in DOMAIN q, NEW l \in DOMAIN q, q[k] = q[l], q[k] # Uid
                 PROVE  k = l
        OBVIOUS
    <3>2. k # n + 1 /\ l # n + 1
        BY <1>15, <1>4
    <3>3. CASE k > n + 1 /\ l > n + 1
      <4>1. k - n - 1 \in DOMAIN unsent /\ l - n - 1 \in DOMAIN unsent
          BY <1>15, <1>4, <3>3
      <4>2. q[k] = unsent[k - n - 1] /\ q[l] = unsent[l - n - 1]
          BY <1>15, <1>4, <3>3
      <4>3. k - n - 1 = l - n - 1
          BY <3>1, <4>1, <4>2
      <4> QED
          BY <1>15, <1>4, <4>3
    <3>4. ASSUME NEW i \in DOMAIN q, i <= n, NEW j \in DOMAIN q, j > n + 1
          PROVE  q[i] # q[j]
      <4>1. j - n - 1 \in DOMAIN unsent /\ q[j] = unsent[j - n - 1]
          BY <1>15, <1>4, <3>4
      <4>2. n = 1 /\ q[i] = sent[1]
          BY <1>15, <1>4, <3>4
      <4> QED
          BY <1>7, <4>1, <4>2
    <3>5. CASE k <= n /\ l <= n
        BY <1>15, <1>4, <3>5
    <3> QED
        BY <1>15, <1>4, <3>2, <3>3, <3>4, <3>5
  <2>2. \A k \in DOMAIN q : q[k] # Uid => ~OnWire(wire, q[k])
      BY <1>15, <1>4, <1>7
  <2>3. \A i, j \in DOMAIN wire : \A k \in DOMAIN wire'[i], l \in DOMAIN wire'[j] :
            wire'[i][k] = wire'[j][l] /\ wire'[i][k] # Uid => i = j /\ k = l
    <3>1. ASSUME NEW i \in DOMAIN wire, i # Ws, NEW k \in DOMAIN wire'[i]
          PROVE  k \in DOMAIN wire[i] /\ wire'[i][k] = wire[i][k] /\ OnWire(wire, wire[i][k])
        BY <1>5, <3>1 DEF OnWire
    <3>2. ASSUME NEW k \in DOMAIN wire'[Ws]
          PROVE  k \in DOMAIN q /\ wire'[Ws][k] = q[k]
        BY <1>5
    <3>3. ASSUME NEW i \in DOMAIN wire, i # Ws, NEW k \in DOMAIN wire'[i],
                 NEW l \in DOMAIN wire'[Ws], wire'[i][k] = wire'[Ws][l], wire'[i][k] # Uid
          PROVE  FALSE
        BY <2>2, <3>1, <3>2, <3>3
    <3>4. ASSUME NEW i \in DOMAIN wire, i # Ws, NEW k \in DOMAIN wire'[i],
                 NEW j \in DOMAIN wire, j # Ws, NEW l \in DOMAIN wire'[j],
                 wire'[i][k] = wire'[j][l], wire'[i][k] # Uid
          PROVE  i = j /\ k = l
        BY <3>1, <3>4 DEF SocketInv, SentOnce
    <3> QED
        BY <2>1, <3>2, <3>3, <3>4
  <2> QED
      BY <1>3, <1>5, <2>3 DEF SentOnce
<1>11. Queued'
    BY <1>1, <1>3, <1>9 DEF SocketInv, Queued
<1>12. UidFirst'
  <2>1. n + 1 \in DOMAIN q /\ q[n + 1] = Uid
      BY <1>15, <1>4
  <2>2. \A k \in DOMAIN q \ {n + 1} : q[k] # Uid
      BY <1>15, <1>4, <1>7
  <2>3. \A k \in 1..n : q[k] \in early'
      BY <1>1, <1>15, <1>4
  <2>4. \A i \in DOMAIN wire : i # Ws => wire'[i] = wire[i]
      BY <1>5
  <2>5. ASSUME NEW i \in DOMAIN wire, i # Ws, wire'[i] # << >>
        PROVE  \E u \in DOMAIN wire'[i] :
                   /\ wire'[i][u] = Uid
                   /\ \A k \in DOMAIN wire'[i] \ {u} : wire'[i][k] # Uid
                   /\ \A k \in 1..(u - 1) : wire'[i][k] \in early'
    <3>1. wire'[i] = wire[i]
        BY <2>4, <2>5
    <3>2. PICK u \in DOMAIN wire[i] :
                   /\ wire[i][u] = Uid
                   /\ \A k \in DOMAIN wire[i] \ {u} : wire[i][k] # Uid
                   /\ \A k \in 1..(u - 1) : wire[i][k] \in early
        BY <2>5, <3>1 DEF SocketInv, UidFirst
    <3> QED
        BY <1>1, <3>1, <3>2
  <2> QED
    <3>1. \E u \in DOMAIN q : /\ q[u] = Uid /\ \A k \in DOMAIN q \ {u} : q[k] # Uid
                              /\ \A k \in 1..(u - 1) : q[k] \in early'
      <4>1. PICK u : u = n + 1
          OBVIOUS
      <4>2. u \in DOMAIN q /\ q[u] = Uid
          BY <2>1, <4>1
      <4>3. \A k \in DOMAIN q \ {u} : q[k] # Uid
          BY <2>2, <4>1
      <4>4. u - 1 = n
          BY <1>15, <4>1
      <4>5. \A k \in 1..(u - 1) : q[k] \in early'
          BY <2>3, <4>4
      <4> QED
          BY <4>2, <4>3, <4>5
    <3> QED
        BY <1>5, <2>5, <3>1 DEF UidFirst
<1>13. Ordered'
  <2>1. ASSUME NEW j \in DOMAIN q, NEW k \in DOMAIN q, j < k,
               q[j] \notin early' \cup {Uid}, q[k] \notin early' \cup {Uid}
        PROVE  Before(asked', q[j], q[k])
    <3>1. j > n + 1 /\ k > n + 1
        BY <1>1, <1>15, <1>4, <2>1
    <3>2. q[j] = unsent[j - n - 1] /\ q[k] = unsent[k - n - 1]
        BY <1>15, <1>4, <3>1
    <3>3. j - n - 1 \in DOMAIN unsent /\ k - n - 1 \in DOMAIN unsent /\ j - n - 1 < k - n - 1
        BY <1>15, <1>4, <2>1, <3>1
    <3>4. Before(asked, q[j], q[k])
        BY <3>2, <3>3 DEF SocketInv, Queued
    <3> QED
        BY <1>3, <3>4
  <2>2. \A i \in DOMAIN wire : i # Ws => \A j, k \in DOMAIN wire'[i] :
            j < k /\ wire'[i][j] \notin early' \cup {Uid} /\ wire'[i][k] \notin early' \cup {Uid}
                => Before(asked', wire'[i][j], wire'[i][k])
      BY <1>1, <1>3, <1>5 DEF SocketInv, Ordered
  <2> QED
      BY <1>5, <2>1, <2>2 DEF Ordered
<1>14. NoneMissing'
  <2>1. ASSUME NEW m, OnWire(wire, m) PROVE OnWire(wire', m)
    <3>1. PICK i \in DOMAIN wire : \E k \in DOMAIN wire[i] : wire[i][k] = m
        BY <2>1 DEF OnWire
    <3>2. i # Ws
        BY <1>6, <3>1
    <3> QED
        BY <1>5, <3>1, <3>2 DEF OnWire
  <2>2. ASSUME NEW m \in ToSet(sent) PROVE OnWire(wire', m)
    <3>1. n = 1 /\ m = sent[1]
        BY <1>3, <2>2 DEF ToSet, n
    <3>2. 1 \in DOMAIN q /\ q[1] = m
        BY <1>4, <3>1
    <3> QED
        BY <1>5, <3>2 DEF OnWire
  <2> QED
      BY <1>1, <1>3, <2>1, <2>2 DEF SocketInv, NoneMissing
<1> QED
    BY <1>8, <1>9, <1>10, <1>11, <1>12, <1>13, <1>14 DEF SocketInv

LEMMA SendKeeps ==
    ASSUME SocketHubAssumption, SocketInv, NEW m \in Fresh, Send(m) PROVE SocketInv'
PROOF
<1>1. /\ sockets # << >> /\ asked' = Append(asked, m) /\ m \in Message
      /\ UNCHANGED <<sockets, open, early>>
    BY DEF Send, Fresh
<1>2. /\ asked' \in Seq(Message) /\ IsInjective(asked')
      /\ ToSet(asked') = ToSet(asked) \cup {m}
      /\ \A x, y : Before(asked, x, y) => Before(asked', x, y)
      /\ \A x \in ToSet(asked) : Before(asked', x, m)
    BY <1>1, Asking DEF SocketInv, SentOnce
<1>3. m # Uid /\ ~OnWire(wire, m) /\ m \notin ToSet(unsent)
    BY FreshIsNowhere
\* it waits
<1>4. ASSUME ~open PROVE SocketInv'
  <2>1. unsent' = Append(unsent, m) /\ wire' = wire /\ dropped' = dropped
      BY <1>4 DEF Send
  <2>2. /\ unsent' \in Seq(Message) /\ DOMAIN unsent = 1..Len(unsent) /\ Len(unsent) \in Nat
        /\ DOMAIN unsent' = 1..(Len(unsent) + 1) /\ unsent'[Len(unsent) + 1] = m
        /\ \A a \in 1..Len(unsent) : unsent'[a] = unsent[a]
      BY <1>1, <2>1, AppendProperties, LenProperties DEF SocketInv, SocketTypeOK
  <2>3. ToSet(unsent') = ToSet(unsent) \cup {m}
      BY <2>2 DEF ToSet
  <2>4. SocketTypeOK' /\ FromPage'
      BY <1>1, <1>2, <2>1, <2>2, <2>3 DEF SocketInv, SocketTypeOK, FromPage
  <2>5. Following' /\ SentOnce'
      BY <1>1, <1>2, <2>1 DEF SocketInv, Following, SentOnce, Connecting, Ws
  <2>6. Queued'
    <3>1. \A a \in DOMAIN unsent : unsent[a] \in ToSet(asked)
        BY DEF SocketInv, FromPage, ToSet
    <3>2. \A a, b \in DOMAIN unsent' : a < b => Before(asked', unsent'[a], unsent'[b])
        BY <1>2, <2>2, <3>1 DEF SocketInv, Queued
    <3>3. Connecting' => \A a \in DOMAIN unsent' : ~OnWire(wire', unsent'[a])
        BY <1>1, <1>3, <2>1, <2>2 DEF SocketInv, Queued, Connecting, Ws
    <3> QED
        BY <3>2, <3>3 DEF Queued
  <2>7. UidFirst' /\ Ordered'
      BY <1>1, <1>2, <2>1 DEF SocketInv, UidFirst, Ordered
  <2>8. NoneMissing'
      BY <1>2, <2>1, <2>3 DEF SocketInv, NoneMissing
  <2> QED
      BY <2>4, <2>5, <2>6, <2>7, <2>8 DEF SocketInv
\* it goes out
<1>5. ASSUME open, sockets[Ws] = "open" PROVE SocketInv'
  <2> DEFINE old == wire[Ws]
             q == Append(old, m)
  <2>1. /\ wire' = [wire EXCEPT ![Ws] = q] /\ unsent' = unsent /\ dropped' = dropped
      BY <1>5 DEF Send
  <2>2. Ws \in DOMAIN wire /\ old \in Seq(Message \cup {Uid}) /\ old # << >>
      BY <1>1, <1>5, EmptySeq, LenProperties, ElementOfSeq
      DEF SocketInv, SocketTypeOK, Following, Ws
  <2>3. /\ q \in Seq(Message \cup {Uid}) /\ DOMAIN old = 1..Len(old) /\ Len(old) \in Nat \ {0}
        /\ DOMAIN q = 1..(Len(old) + 1) /\ q[Len(old) + 1] = m /\ q # << >>
        /\ \A k \in 1..Len(old) : q[k] = old[k]
      BY <1>1, <2>2, AppendProperties, LenProperties, EmptySeq
  <2>0. old = wire[Ws]
      OBVIOUS
  <2> HIDE DEF q, old
  <2>4. /\ wire' \in Seq(Seq(Message \cup {Uid})) /\ Len(wire') = Len(wire)
        /\ DOMAIN wire' = DOMAIN wire
        /\ wire'[Ws] = q /\ \A i \in DOMAIN wire : i # Ws => wire'[i] = wire[i]
      BY <1>1, <2>1, <2>3, Written DEF SocketInv
  <2>5. \A k \in DOMAIN old : old[k] \in ToSet(asked) \cup {Uid}
      BY <2>2, <2>0 DEF SocketInv, FromPage
  <2>6. SocketTypeOK' /\ FromPage'
    <3>1. \A k \in DOMAIN q : q[k] \in ToSet(asked') \cup {Uid}
        BY <1>2, <2>3, <2>5
    <3> QED
        BY <1>1, <1>2, <2>1, <2>4, <3>1 DEF SocketInv, SocketTypeOK, FromPage
  <2>7. Following' /\ ~Connecting'
      BY <1>1, <1>5, <2>3, <2>4 DEF SocketInv, Following, Connecting, Ws
  <2>8. SentOnce'
    <3>1. \A i \in DOMAIN wire : \A k \in DOMAIN wire[i] : wire[i][k] # m
        BY <1>3 DEF OnWire
    <3>2. \A i \in DOMAIN wire : \A k \in DOMAIN wire'[i] :
              \/ k \in DOMAIN wire[i] /\ wire'[i][k] = wire[i][k]
              \/ i = Ws /\ k = Len(old) + 1 /\ wire'[i][k] = m
      <4>1. ASSUME NEW k \in DOMAIN q
            PROVE  \/ k \in DOMAIN old /\ q[k] = old[k]
                   \/ k = Len(old) + 1 /\ q[k] = m
        <5>1. CASE k <= Len(old)
            BY <2>3, <5>1
        <5>2. CASE k = Len(old) + 1
            BY <2>3, <5>2
        <5> QED
            BY <2>3, <5>1, <5>2
      <4> QED
          BY <2>2, <2>4, <2>0, <4>1
    <3>3. \A i, j \in DOMAIN wire : \A k \in DOMAIN wire'[i], l \in DOMAIN wire'[j] :
              wire'[i][k] = wire'[j][l] /\ wire'[i][k] # Uid => i = j /\ k = l
        BY <3>1, <3>2 DEF SocketInv, SentOnce
    <3> QED
        BY <1>2, <2>4, <3>3 DEF SentOnce
  <2>9. Queued'
      BY <1>2, <2>1, <2>7 DEF SocketInv, Queued
  <2>10. UidFirst'
    <3>1. PICK u \in DOMAIN old :
              /\ old[u] = Uid /\ \A k \in DOMAIN old \ {u} : old[k] # Uid
              /\ \A k \in 1..(u - 1) : old[k] \in early
        BY <2>2, <2>0 DEF SocketInv, UidFirst
    <3>2. /\ u \in DOMAIN q /\ q[u] = Uid /\ \A k \in DOMAIN q \ {u} : q[k] # Uid
          /\ \A k \in 1..(u - 1) : q[k] \in early'
        BY <1>1, <1>3, <2>3, <3>1
    <3>3. \A i \in DOMAIN wire : i # Ws => wire'[i] = wire[i]
        BY <2>4
    <3>4. \A i \in DOMAIN wire : i # Ws /\ wire'[i] # << >> =>
              \E v \in DOMAIN wire'[i] :
                  /\ wire'[i][v] = Uid /\ \A k \in DOMAIN wire'[i] \ {v} : wire'[i][k] # Uid
                  /\ \A k \in 1..(v - 1) : wire'[i][k] \in early'
        BY <1>1, <3>3 DEF SocketInv, UidFirst
    <3> QED
        BY <2>4, <3>2, <3>4 DEF UidFirst
  <2>11. Ordered'
    <3>1. ASSUME NEW j \in DOMAIN q, NEW k \in DOMAIN q, j < k,
                 q[j] \notin early \cup {Uid}, q[k] \notin early \cup {Uid}
          PROVE  Before(asked', q[j], q[k])
      <4>1. j \in DOMAIN old /\ q[j] = old[j] /\ old[j] \in ToSet(asked)
          BY <2>3, <2>5, <3>1
      <4>2. CASE k \in DOMAIN old
          BY <1>2, <2>2, <2>3, <2>0, <3>1, <4>1, <4>2 DEF SocketInv, Ordered
      <4>3. CASE k = Len(old) + 1
          BY <1>2, <2>3, <4>1, <4>3
      <4> QED
          BY <2>3, <4>2, <4>3
    <3>2. \A i \in DOMAIN wire : i # Ws => \A j, k \in DOMAIN wire'[i] :
              j < k /\ wire'[i][j] \notin early \cup {Uid} /\ wire'[i][k] \notin early \cup {Uid}
                  => Before(asked', wire'[i][j], wire'[i][k])
        BY <1>2, <2>4 DEF SocketInv, Ordered
    <3> QED
        BY <1>1, <2>4, <3>1, <3>2 DEF Ordered
  <2>12. NoneMissing'
    <3>1. ASSUME NEW x, OnWire(wire, x) PROVE OnWire(wire', x)
      <4>1. PICK i \in DOMAIN wire : \E k \in DOMAIN wire[i] : wire[i][k] = x
          BY <3>1 DEF OnWire
      <4>2. CASE i # Ws
          BY <2>4, <4>1, <4>2 DEF OnWire
      <4>3. CASE i = Ws
        <5>1. PICK k \in DOMAIN old : old[k] = x
            BY <2>0, <4>1, <4>3
        <5>2. k \in DOMAIN q /\ q[k] = x
            BY <2>3, <5>1
        <5> QED
            BY <2>2, <2>4, <5>2 DEF OnWire
      <4> QED
          BY <4>2, <4>3
    <3>2. OnWire(wire', m)
        BY <2>2, <2>3, <2>4 DEF OnWire
    <3> QED
        BY <1>2, <2>1, <3>1, <3>2 DEF SocketInv, NoneMissing
  <2> QED
      BY <2>6, <2>7, <2>8, <2>9, <2>10, <2>11, <2>12 DEF SocketInv
\* it goes into a closing socket
<1>6. ASSUME open, sockets[Ws] # "open" PROVE SocketInv'
  <2>1. wire' = wire /\ unsent' = unsent /\ dropped' = dropped \cup {m}
      BY <1>6 DEF Send
  <2>2. SocketTypeOK' /\ FromPage' /\ SentOnce' /\ Following'
      BY <1>1, <1>2, <2>1
      DEF SocketInv, SocketTypeOK, FromPage, SentOnce, Following, Connecting, Ws
  <2>3. Queued' /\ UidFirst' /\ Ordered'
      BY <1>1, <1>2, <2>1
      DEF SocketInv, Queued, Connecting, Ws, UidFirst, Ordered
  <2>4. NoneMissing'
      BY <1>2, <2>1 DEF SocketInv, NoneMissing
  <2> QED
      BY <2>2, <2>3, <2>4 DEF SocketInv
<1> QED
    BY <1>4, <1>5, <1>6

LEMMA SocketStep ==
    ASSUME SocketHubAssumption PROVE SocketInv /\ [SocketNext]_socketVars => SocketInv'
PROOF
<1> SUFFICES ASSUME SocketInv, [SocketNext]_socketVars PROVE SocketInv'
    OBVIOUS
<1>1. CASE UNCHANGED socketVars
  <2>1. UNCHANGED <<sockets, wire, open, unsent, asked, early, dropped>>
      BY <1>1 DEF socketVars
  <2>2. SocketTypeOK' /\ Following' /\ FromPage' /\ SentOnce'
      BY <2>1 DEF SocketInv, SocketTypeOK, Following, FromPage, SentOnce, Connecting, Ws
  <2>3. Queued' /\ UidFirst' /\ Ordered' /\ NoneMissing'
      BY <2>1 DEF SocketInv, Queued, Connecting, Ws, UidFirst, Ordered, NoneMissing
  <2> QED
      BY <2>2, <2>3 DEF SocketInv
<1>2. CASE SocketConnect
    BY <1>2, ConnectKeeps
<1>3. CASE Closing \/ Closed
    BY <1>3, EndKeeps
<1>4. CASE Open(<< >>) \/ \E m \in Fresh : Open(<<m>>)
    BY <1>4, OpenKeeps
<1>5. CASE \E m \in Fresh : Send(m)
    BY <1>5, SendKeeps
<1> QED
    BY <1>1, <1>2, <1>3, <1>4, <1>5 DEF SocketNext

-----------------------------------------------------------------------------
(***************************************************************************)
(* Over any number of sockets and messages, a message is sent once,        *)
(* queued, or dropped for a known reason, and the messages of a socket     *)
(* keep their order and follow its uid, but for those of a listener (send, *)
(* sendQueuedMessages, onopen, onclose).                                   *)
(***************************************************************************)
THEOREM MessagesAreDelivered ==
    ASSUME SocketHubAssumption
    PROVE  SocketSpec => [](SocketTypeOK /\ Delivered)
PROOF
<1>1. SocketInv => SocketTypeOK /\ Delivered
  <2> SUFFICES ASSUME SocketInv PROVE SocketTypeOK /\ Delivered
      OBVIOUS
  <2>1. \A m : \A p : p \in Occurrences(m) <=>
            \E i \in DOMAIN wire : \E k \in DOMAIN wire[i] : p = <<i, k>> /\ wire[i][k] = m
      BY DEF Occurrences
  <2>2. AtMostOnce
    <3> SUFFICES ASSUME NEW m \in Message PROVE Cardinality(Occurrences(m)) <= 1
        BY DEF AtMostOnce
    <3>1. m # Uid
        BY DEF SocketHubAssumption
    <3>2. \A p, r \in Occurrences(m) : p = r
        BY <2>1, <3>1 DEF SocketInv, SentOnce
    <3>3. CASE Occurrences(m) = {}
        BY <3>3, FS_EmptySet
    <3>4. CASE \E p : Occurrences(m) = {p}
        BY <3>4, FS_Singleton
    <3> QED
        BY <3>2, <3>3, <3>4
  <2>5. InOrder
      BY DEF InOrder, AskedInOrder, SocketInv, Ordered, Before
  <2>3. Accounted
      BY <2>1 DEF Accounted, SocketInv, NoneMissing, OnWire
  <2>4. FlagFollows
      BY DEF FlagFollows, SocketInv, Following
  <2> QED
      BY <2>2, <2>3, <2>4, <2>5 DEF Delivered, SocketInv
<1>2. SocketInit => SocketInv
    BY SocketInitially
<1>3. SocketInv /\ [SocketNext]_socketVars => SocketInv'
    BY SocketStep
<1> QED
    BY <1>1, <1>2, <1>3, PTL DEF SocketSpec
=============================================================================
