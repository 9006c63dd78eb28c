-------------------------------- MODULE MCLive --------------------------------
(***************************************************************************)
(* What the browser's scripts must do in the end, in six settings:         *)
(* webmq.js on WebSockets, with long polling and with a stream, the        *)
(* sockets of web_socket.js, the callbacks of FABridge, and CometHub with  *)
(* one of three servers up.  A behaviour has one setting from beginning to *)
(* end; the variables of the others rest.  Each property assumes the       *)
(* fairness of its own component.                                          *)
(***************************************************************************)
EXTENDS Integers, TLC

VARIABLES
    setting,
    sessions, created, nextPage, subs, closed, listeners, pageId, cached,
    socks, waiting, calls, faults, sent, refused, undone,          \* SocketClient
    connected, poll, cmds, delayed, called, mishaps, adrift,       \* PollClient
    movies, tasks, timeouts, born, ready, buffered, flash, timer,  \* FlashSocket
    conns, events, heard, log,
    active, reports, bridges, instances, awaited, asked, ran,      \* BridgeIds
    reached,
    type, streaming, answered, deliberate, monitors, polling,      \* CometHub
    index, server, attempts, delay, reconnector, tried,
    container, response, watched, queue, busy, loading, retry, wedged

both == <<sessions, created, nextPage, subs, closed, listeners, pageId, cached>>
socket == <<socks, waiting, calls, faults, sent, refused, undone>>
script == <<connected, poll, cmds, delayed, called, mishaps, adrift>>
flashes == <<movies, tasks, timeouts, born, ready, buffered, flash, timer,
             conns, events, heard, log>>
ids == <<active, reports, bridges, instances, awaited, asked, ran, reached>>
comet == <<type, streaming, answered, deliberate, monitors, polling,
           index, server, attempts, delay, reconnector, tried,
           container, response, watched, queue, busy, loading, retry, wedged>>
vars == <<setting, both, socket, script, flashes, ids, comet>>

-----------------------------------------------------------------------------
Ws == INSTANCE SocketClientProperties WITH
    Dest <- {"d1"}, Flash <- FALSE, MaxCalls <- 2, MaxFaults <- 1

LongPoll == INSTANCE PollClientProperties WITH
    Dest <- {"d1", "d2"}, Streaming <- FALSE, Browser <- "ie",
    MaxUrl <- 2, MaxCalls <- 2, MaxFaults <- 1

Stream == INSTANCE PollClientProperties WITH
    Dest <- {"d1"}, Streaming <- TRUE, Browser <- "webkit",
    MaxUrl <- 1, MaxCalls <- 2, MaxFaults <- 2

Sockets == INSTANCE FlashSocketProperties WITH
    Socket <- {"s1"}, Bad <- {}, Dropped <- {"message"}, Opera <- TRUE,
    Movies <- 1, MaxSockets <- 1, MaxMessages <- 2, MaxSends <- 1

\* a movie, and two copies of another, of which the browser takes one
Embed(n) == [tag |-> "embed", name |-> n]

Ids == INSTANCE BridgeIds WITH
    Document <- <<Embed("other"), Embed("socket"), Embed("socket")>>,
    Name <- {"other", "socket"}, Longer <- [n \in {"other", "socket"} |-> {n}], Reports <- 1, Func <- {"f"},
    InitFunc <- {"g", "h"}, Width <- 2, waiting <- awaited

Comet == INSTANCE CometHub WITH
    Browser <- "IE", Type <- "STREAM", Servers <- 3, Algorithm <- "ordered",
    MaxAttempts <- -1, InitialDelay <- 1, MaxDelay <- 3, Multiplier <- 2,
    MaxQueue <- 1, MaxAhead <- 3, Up <- {0}, connected <- streaming

-----------------------------------------------------------------------------
Settings == {"socket", "longpoll", "stream", "flash", "ids", "comet"}

Init ==
    /\ setting \in Settings
    /\ Ws!Init /\ Sockets!Init /\ Ids!IdsInit /\ Comet!Init
    /\ IF setting = "stream" THEN Stream!PollInit ELSE LongPoll!PollInit

Next ==
    \/ setting = "socket" /\ Ws!Next
       /\ UNCHANGED <<setting, script, flashes, ids, comet>>
    \/ setting = "longpoll" /\ LongPoll!PollNext
       /\ UNCHANGED <<setting, socket, flashes, ids, comet>>
    \/ setting = "stream" /\ Stream!PollNext
       /\ UNCHANGED <<setting, socket, flashes, ids, comet>>
    \/ setting = "flash" /\ Sockets!Next
       /\ UNCHANGED <<setting, both, socket, script, ids, comet>>
    \/ setting = "ids" /\ Ids!IdsNext
       /\ UNCHANGED <<setting, both, socket, script, flashes, comet>>
    \/ setting = "comet" /\ Comet!Next
       /\ UNCHANGED <<setting, both, socket, script, flashes, ids>>

Spec == Init /\ [][Next]_vars

-----------------------------------------------------------------------------
SocketHeard ==
    (setting = "socket") /\ Ws!Fairness => Ws!HeardAgain /\ Ws!WaitingIsSent
PollHeard == (setting = "longpoll") /\ LongPoll!PollFairness => LongPoll!PollHeardAgain
StreamHeard == (setting = "stream") /\ Stream!PollFairness => Stream!PollHeardAgain

\* The loop of long polls does not end ("the next longpolling")
PollsOn == (setting = "longpoll") /\ LongPoll!PollFairness => LongPoll!PollsOn

\* A hub that loses its server finds the one that is up (reconnect)
ConnectsAgain == (setting = "comet") /\ Comet!Fairness => Comet!ConnectsAgain

\* Whatever happened to the connection, a listener is heard again by the next
\* socket, poll or stream, a call that waits for a socket is sent, polls go on,
\* and StreamHub finds a server that is up (onclose and send of
\* createWsConnection, longPolling, httpStreaming, reconnect)
Recovers == SocketHeard /\ PollHeard /\ StreamHeard /\ PollsOn /\ ConnectsAgain

\* What Flash has to tell is told: messages though Opera drops their events,
\* the end of a connection, and that a bridge is there (__handleMessages, the
\* close and error handlers, addInitializationCallback)
Told ==
    /\ (setting = "flash") /\ Sockets!Fairness => Sockets!Read
    /\ (setting = "flash") /\ Sockets!Fairness => Sockets!EndTold
    /\ (setting = "ids") /\ Ids!IdsFairness => Ids!CallbacksRun
=============================================================================
