------------------------------- MODULE CometHub -------------------------------
(***************************************************************************)
(* streamhub-min.js without WebSockets: a hub with a response channel, an  *)
(* iframe that streams what the server sends, and a request iframe that    *)
(* loads one request after the other.  Except in Internet Explorer both    *)
(* live in a container, a page of the server that has to load first.  The  *)
(* hub reconnects to a list of servers, and falls back to polling if the   *)
(* response channel does not come up in time.                              *)
(***************************************************************************)
EXTENDS Integers, Sequences, FiniteSets, SequencesExt

CONSTANTS
    Browser,        \* "IE", "FF3", "FF" or "WebKit"
    Type,           \* connectionType: "STREAM" or "POLL"
    Servers,        \* length of serverList
    Algorithm,      \* failoverAlgorithm: "ordered", "priority" or "random"
    MaxAttempts,    \* maxReconnectAttempts, Unlimited for none
    InitialDelay,   \* initialReconnectDelayMillis
    MaxDelay,       \* maxReconnectDelayMillis, Unlimited for none
    Multiplier,     \* backOffMultiplier; 1 without useExponentialBackOff
    MaxQueue,       \* bound on pRequestQueue
    MaxAhead,       \* where attempts stop to be counted, if they are unlimited
    Up              \* servers that answer

Unlimited == -1

\* What the constants may be
CometHubAssumption ==
    /\ Browser \in {"IE", "FF3", "FF", "WebKit"} /\ Type \in {"STREAM", "POLL"}
    /\ Servers \in Nat \ {0} /\ Algorithm \in {"ordered", "priority", "random"}
    /\ MaxAttempts \in Nat \cup {Unlimited}
    /\ InitialDelay \in Nat \ {0} /\ Multiplier \in Nat \ {0}
    /\ MaxDelay \in Nat \cup {Unlimited}
    /\ MaxDelay # Unlimited => MaxDelay >= InitialDelay
    /\ MaxQueue \in Nat /\ MaxAhead \in Nat /\ Up \subseteq 0..(Servers - 1)

VARIABLES
    type,           \* sConnectionType
    connected,      \* bIsResponseIFrameConnected
    answered,       \* bHasRequestIFrameConnected
    deliberate,     \* isDeliberateDisconnect
    index,          \* nServerIndex, counted from 0
    server,         \* the server the hub is connecting to
    attempts,       \* nReconnectAttempts
    delay,          \* nReconnectDelayMillis
    reconnector,    \* reconnectorId is running
    monitors,       \* some timeouts of startInitialConnectMonitor are running
    polling,        \* oPollingId is running
    container,      \* the container: "none", "loading" or "loaded"
    response,       \* the response iframe: "none", "loading", "open", "ended"
    watched,        \* the connection monitor runs
    queue,          \* pRequestQueue
    busy,           \* bIsRequestInProgress
    loading,        \* the request iframe is loading a request
    retry,          \* some timeouts that call processRequestQueue are running
    wedged,         \* history: a request was cut off, or could not be begun
    tried           \* history: servers tried since the loss

retries == <<index, server, attempts, delay, reconnector, tried>>
frames == <<container, response, watched>>
requests == <<queue, busy, loading, retry, wedged>>
vars == <<type, connected, answered, deliberate, monitors, polling,
          retries, frames, requests>>

Request == {"connect", "poll", "disconnect", "other"}

TypeOK ==
    /\ type \in {"STREAM", "POLL"} /\ {connected, answered, deliberate} \subseteq BOOLEAN
    /\ index \in -1..(Servers - 1) /\ server \in 0..(Servers - 1)
    /\ attempts \in Nat /\ delay \in Nat /\ {reconnector, polling, watched} \subseteq BOOLEAN
    /\ {monitors, retry} \subseteq BOOLEAN
    /\ container \in {"none", "loading", "loaded"}
    /\ response \in {"none", "loading", "open", "ended"}
    /\ queue \in Seq(Request) /\ {busy, loading, wedged} \subseteq BOOLEAN
    /\ loading => busy /\ queue # << >>
    /\ tried \subseteq 0..(Servers - 1)

-----------------------------------------------------------------------------
\* isResponseIFrameConnected: a hub that polls counts as connected
IsConnected(t, c) == c \/ t = "POLL"

InContainer == Browser # "IE"
ByOnLoad == Browser \in {"FF", "WebKit"}

\* eRequestIFrame is defined, where there is a container: window.c has run once.
\* A hub that connects again has the frame of its last connection till then.
HasRequestFrame(box) == box = "loaded" \/ response # "none"

\* setOnLoad throws, and bIsRequestInProgress stays
Throws(q, b, box) == q # << >> /\ ~b /\ ByOnLoad /\ ~HasRequestFrame(box)

(***************************************************************************)
(* processRequestQueue, of a queue q: begin the first request.  The        *)
(* browsers that tell by onload that it has been answered need the request *)
(* iframe for it, of this connection or of an earlier one, and throw       *)
(* without.  A container that has not loaded cannot request: the hub tries *)
(* again in a second.                                                      *)
(***************************************************************************)
Process(q, b, box) ==
    /\ queue' = q
    /\ IF q = << >> \/ b
       THEN busy' = b /\ UNCHANGED <<retry, wedged>>
            /\ loading' = IF q # << >> /\ b THEN loading ELSE FALSE
       ELSE IF Throws(q, b, box)
       THEN busy' = TRUE /\ loading' = FALSE /\ wedged' = TRUE /\ UNCHANGED retry
       ELSE IF ~InContainer \/ box = "loaded"
       THEN busy' = TRUE /\ loading' = TRUE /\ UNCHANGED <<retry, wedged>>
       ELSE busy' = FALSE /\ loading' = FALSE /\ retry' = TRUE /\ UNCHANGED wedged

\* request: queued, and begun if the hub is connected
Ask(r) ==
    IF IsConnected(type, connected) THEN Process(Append(queue, r), busy, container)
    ELSE queue' = Append(queue, r) /\ UNCHANGED <<busy, loading, retry, wedged>>

-----------------------------------------------------------------------------
\* Reconnecting

Counted(n) == IF MaxAttempts = Unlimited /\ n >= MaxAhead THEN n ELSE n + 1

Within(n) == MaxAttempts = Unlimited \/ n < MaxAttempts

\* Faulty: a delay that grows without end
FaultyBackOff(n, d) == IF n > 0 THEN d * Multiplier ELSE d

\* the delay before the attempt after n others
BackOff(n, d) ==
    IF n = 0 \/ Multiplier = 1 THEN d
    ELSE IF MaxDelay # Unlimited /\ d * Multiplier > MaxDelay THEN MaxDelay
    ELSE d * Multiplier

\* Faulty: a hub that reconnects after it was disconnected
FaultyReconnect(c, n) ==
    IF ~IsConnected(type, c) /\ Within(n)
    THEN reconnector' = TRUE /\ delay' = BackOff(n, delay)
    ELSE UNCHANGED <<reconnector, delay>>

\* reconnect: after n attempts
Reconnect(c, n) ==
    IF ~deliberate /\ ~IsConnected(type, c) /\ Within(n)
    THEN reconnector' = TRUE /\ delay' = BackOff(n, delay)
    ELSE UNCHANGED <<reconnector, delay>>

\* onReconnect
Reconnected ==
    /\ reconnector' = FALSE /\ attempts' = 0 /\ delay' = InitialDelay
    /\ index' = IF Algorithm = "priority" THEN -1 ELSE index
    /\ tried' = {} /\ UNCHANGED server

\* Faulty: a list of which only the first server is tried
FaultyNextServer == IF Algorithm = "random" THEN 0..(Servers - 1) ELSE {0}

\* Faulty: the list has no end
FaultyNextServerEnds == {index + 1}

\* Faulty: after the last server there is only the last
FaultyNextServerStays == {IF index + 1 < Servers THEN index + 1 ELSE index}

\* the timeout of reconnect, or doReconnection, picks the server
NextServer ==
    IF Algorithm = "random" THEN 0..(Servers - 1) ELSE {(index + 1) % Servers}

-----------------------------------------------------------------------------
\* Connecting

(***************************************************************************)
(* doConnect: preConnectCleanUp removes the frames and empties the queue,  *)
(* but leaves bIsRequestInProgress and the monitors.  Internet Explorer    *)
(* has its frames at once, the others begin to load the container.  Only a *)
(* hub that streams and has lost its connection comes here again.          *)
(***************************************************************************)
DoConnect(s) ==
    /\ server' = s
    /\ monitors' = TRUE
    /\ UNCHANGED <<retry, busy>> /\ loading' = FALSE /\ wedged' = (wedged \/ busy)
    /\ IF InContainer
       THEN /\ container' = "loading" /\ response' = IF response = "none" THEN "none" ELSE "ended"
            /\ watched' = (watched /\ Browser # "WebKit")
            /\ queue' = << >>
       ELSE /\ response' = "loading" /\ watched' = TRUE /\ UNCHANGED container
            /\ queue' = <<"connect">>

Init ==
    /\ type = Type /\ connected = FALSE /\ answered = FALSE /\ deliberate = FALSE
    /\ index = (IF Algorithm = "priority" THEN -1 ELSE 0) /\ server = 0
    /\ attempts = 0 /\ delay = InitialDelay /\ reconnector = FALSE
    /\ monitors = (Type = "STREAM") /\ polling = FALSE
    /\ container = (IF InContainer THEN "loading" ELSE "none")
    /\ response = (IF ~InContainer /\ Type = "STREAM" THEN "loading" ELSE "none")
    /\ watched = (~InContainer /\ Type = "STREAM")
    /\ queue = (IF InContainer THEN << >> ELSE <<"connect">>)
    /\ busy = (~InContainer /\ Type = "POLL") /\ loading = (~InContainer /\ Type = "POLL")
    /\ retry = FALSE /\ wedged = FALSE /\ tried = {}

\* window.c: the container has loaded and has its two frames
Connect ==
    /\ container = "loading" /\ container' = "loaded"
    /\ IF IsConnected(type, connected) THEN Process(Append(queue, "connect"), busy, "loaded")
       ELSE queue' = Append(queue, "connect") /\ UNCHANGED <<busy, loading, retry, wedged>>
    /\ IF type = "STREAM" THEN response' = "loading" /\ watched' = TRUE
                          ELSE UNCHANGED <<response, watched>>
    /\ UNCHANGED <<type, connected, answered, deliberate, monitors, polling, retries>>

\* the container's page is not the server's: it has no connect()
ConnectFails ==
    /\ container = "loading" /\ container' = "loaded" /\ type = "STREAM"
    /\ queue' = Append(queue, "connect")
    /\ Reconnect(connected, attempts)
    /\ response' = "ended"
    /\ UNCHANGED <<type, connected, answered, deliberate, monitors, polling, index,
                   server, attempts, tried, watched, busy, loading, retry, wedged>>

\* window.x("response OK")
ResponseOK ==
    /\ server \in Up /\ response = "loading" /\ response' = "open"
    /\ connected' = TRUE
    /\ Reconnected
    /\ Process(queue, busy, container)
    /\ UNCHANGED <<type, answered, deliberate, monitors, polling, container, watched>>

\* the server, or the network, ends the response
ResponseEnds ==
    /\ response \in {"loading", "open"} /\ response' = "ended"
    /\ UNCHANGED <<type, connected, answered, deliberate, monitors, polling, retries,
                   container, watched, requests>>

\* the page of the response tells, by window.l; the monitor will tell again
ResponseLost ==
    /\ Browser = "FF" /\ response = "open" /\ response' = "ended"
    /\ connected' = FALSE
    /\ Reconnect(FALSE, attempts)
    /\ UNCHANGED <<type, answered, deliberate, monitors, polling, index, server,
                   attempts, tried, container, watched, requests>>

(***************************************************************************)
(* The connection monitor finds the response iframe complete, or gone,     *)
(* once; in WebKit it is the iframe's onload.                              *)
(***************************************************************************)
ConnectionLost ==
    /\ watched /\ watched' = FALSE /\ response = "ended"
    /\ connected' = FALSE
    /\ Reconnect(FALSE, attempts)
    /\ UNCHANGED <<type, answered, deliberate, monitors, polling, index, server,
                   attempts, tried, container, response, requests>>

\* the timeout of reconnect
Reconnector ==
    /\ reconnector
    /\ IF Within(attempts) /\ ~IsConnected(type, connected)
       THEN \E s \in NextServer :
               /\ index' = s /\ tried' = tried \cup {s}
               /\ attempts' = Counted(attempts)
               /\ DoConnect(s)
               /\ IF ~deliberate /\ Within(Counted(attempts))
                  THEN reconnector' = TRUE /\ delay' = BackOff(Counted(attempts), delay)
                  ELSE reconnector' = FALSE /\ UNCHANGED delay
       ELSE /\ reconnector' = FALSE
            /\ UNCHANGED <<monitors, index, server, attempts, delay, tried, frames, requests>>
    /\ UNCHANGED <<type, connected, answered, deliberate, polling>>

(***************************************************************************)
(* startInitialConnectMonitor, two seconds later.  Without a response      *)
(* iframe it throws on its way, after it has said that it is failing over. *)
(***************************************************************************)
InitialConnectMonitor ==
    /\ monitors /\ monitors' \in BOOLEAN
    /\ IF IsConnected(type, connected) \/ answered
       THEN UNCHANGED <<type, polling, frames>>
       ELSE IF response = "none"
       THEN /\ watched' = (watched /\ Browser = "WebKit")
            /\ UNCHANGED <<type, polling, container, response>>
       ELSE /\ watched' = FALSE /\ response' = "ended" /\ UNCHANGED container
            /\ type' = "POLL" /\ polling' = TRUE
    /\ UNCHANGED <<connected, answered, deliberate, retries, requests>>

-----------------------------------------------------------------------------
\* Requests

\* subscribe, unsubscribe, publish
User ==
    /\ Len(queue) < MaxQueue
    /\ Ask("other")
    /\ UNCHANGED <<type, connected, answered, deliberate, monitors, polling, retries, frames>>

\* a poll every second, answered or not; the queue grows to its bound
Poll ==
    /\ polling
    /\ IF Len(queue) < MaxQueue THEN Ask("poll") ELSE Process(queue, busy, container)
    /\ UNCHANGED <<type, connected, answered, deliberate, monitors, polling, retries, frames>>

\* Faulty: one more try and no other
FaultyRetry ==
    /\ retry /\ retry' \in BOOLEAN
    /\ IF queue # << >> /\ ~busy /\ container = "loaded"
       THEN busy' = TRUE /\ loading' = TRUE ELSE UNCHANGED <<busy, loading>>
    /\ UNCHANGED <<queue, wedged>>
    /\ UNCHANGED <<type, connected, answered, deliberate, monitors, polling, retries, frames>>

\* the second is over; other timeouts may be running
Retry ==
    /\ retry
    /\ IF queue = << >> \/ busy \/ container = "loaded"
       THEN /\ retry' \in BOOLEAN /\ UNCHANGED <<queue, wedged>>
            /\ busy' = (busy \/ queue # << >>)
            /\ loading' = (loading \/ (queue # << >> /\ ~busy))
       ELSE UNCHANGED requests
    /\ UNCHANGED <<type, connected, answered, deliberate, monitors, polling, retries, frames>>

\* Faulty: an answer after which the next request is not begun
FaultyRequestComplete ==
    /\ loading /\ loading' = FALSE /\ queue' = Tail(queue)
    /\ UNCHANGED <<type, connected, answered, deliberate, monitors, polling, retries,
                   frames, busy, retry, wedged>>

(***************************************************************************)
(* buildOnRequestComplete: calls back and begins the next request.  What   *)
(* cannot be read is begun again.  The answer to "connect" starts polling, *)
(* if the hub polls by now, whether or not it has been disconnected.       *)
(***************************************************************************)
RequestComplete ==
    /\ loading
    /\ \/ /\ Process(Tail(queue), FALSE, container)
          /\ answered' = (answered \/ Head(queue) = "connect")
          /\ polling' = (polling \/ (Head(queue) = "connect" /\ type = "POLL"))
       \/ /\ Process(queue, FALSE, container)
          /\ UNCHANGED <<answered, polling>>
    /\ UNCHANGED <<type, connected, deliberate, monitors, retries, frames>>

\* stopPolling, the request, and isDeliberateDisconnect if that does not throw
Disconnect ==
    LET q == Append(queue, "disconnect") IN
    /\ Len(queue) < MaxQueue
    /\ Ask("disconnect") /\ polling' = FALSE
    /\ deliberate' = (deliberate \/ ~(IsConnected(type, connected) /\ Throws(q, busy, container)))
    /\ UNCHANGED <<type, connected, answered, monitors, retries, frames>>

-----------------------------------------------------------------------------
Next ==
    \/ Connect \/ ConnectFails \/ ResponseOK \/ ResponseEnds \/ ResponseLost
    \/ ConnectionLost \/ Reconnector \/ InitialConnectMonitor
    \/ User \/ Poll \/ Retry \/ RequestComplete \/ Disconnect

Spec == Init /\ [][Next]_vars

(***************************************************************************)
(* Timers go off and frames end to load.  Of the attempts to connect to a  *)
(* server that is up, one is answered before the next.                     *)
(***************************************************************************)
Fairness ==
    /\ WF_vars(ConnectionLost) /\ WF_vars(Reconnector) /\ WF_vars(InitialConnectMonitor)
    /\ WF_vars(server \notin Up /\ ResponseEnds) /\ SF_vars(ResponseOK)

FairSpec == Spec /\ Fairness

-----------------------------------------------------------------------------
(***************************************************************************)
(* A hub does not sit on its queue.  Its requests are stuck, and then for  *)
(* good, only if one was cut off by a reconnection, which leaves           *)
(* bIsRequestInProgress set, or was begun before there was any request     *)
(* iframe; else, while the hub is connected, a request is under way or a   *)
(* timeout will begin one.  A hub that fell back from streaming may leave  *)
(* that to its next poll, one that polls from the start has no response    *)
(* and does not (processRequestQueue, buildOnRequestComplete,              *)
(* startInitialConnectMonitor).                                            *)
(***************************************************************************)
Begun == loading \/ retry \/ wedged
OnlyWedged == wedged <=> busy /\ ~loading
RequestsMove ==
    /\ OnlyWedged
    /\ connected /\ queue # << >> => Begun
    /\ type = "POLL" /\ queue # << >> => Begun \/ (polling /\ response # "none")

(***************************************************************************)
(* As many attempts as there are servers reach every one of them, after    *)
(* the first connection and after a loss, in order and by priority; and    *)
(* attempts and delays stay within their limits, through losses that are   *)
(* told twice (nServerIndex, maxReconnectAttempts and                      *)
(* maxReconnectDelayMillis: reconnect, doReconnection, onReconnect).       *)
(***************************************************************************)
EachServer == Algorithm # "random" /\ attempts >= Servers => tried = 0..(Servers - 1)
Limits ==
    /\ MaxAttempts # Unlimited => attempts <= MaxAttempts
    /\ MaxDelay # Unlimited => delay \in InitialDelay..MaxDelay
TriesAll == EachServer /\ Limits

(***************************************************************************)
(* A hub that has been disconnected makes at most one more attempt to      *)
(* connect, the one whose timeout was running, and none follows it         *)
(* (isDeliberateDisconnect, which that timeout does not look at).          *)
(***************************************************************************)
LastAttempt == deliberate /\ reconnector' => reconnector /\ attempts' = attempts
NoMoreAttempts == [][LastAttempt]_vars

(***************************************************************************)
(* A hub that loses its connection has one again, or polls, if a server of *)
(* its list is up and nobody disconnects it (reconnect).                   *)
(***************************************************************************)
ConnectsAgain ==
    watched /\ response = "ended" ~> IsConnected(type, connected) \/ deliberate
=============================================================================
