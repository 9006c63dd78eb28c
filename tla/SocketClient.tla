---------------------------- MODULE SocketClient ----------------------------
(***************************************************************************)
(* webmq.js on WebSockets: createWsConnection, the public calls, and the   *)
(* server's end of each socket.                                            *)
(*                                                                         *)
(* The browser runs one handler at a time: the page's own calls, the       *)
(* events of a socket and the ticks of the intervals that wait to send.    *)
(* Each of them is one action.  Flash = TRUE stands for the WebSocket of   *)
(* web_socket.js, which reports errors and obeys close() differently from  *)
(* a browser's own.                                                        *)
(*                                                                         *)
(* A request that the server has not seen when the browser gives the       *)
(* socket up is never served; frames it sent on an open socket may still   *)
(* be, any number of them, and late.                                       *)
(***************************************************************************)
EXTENDS Webmq

CONSTANT Flash      \* TRUE: WebSocket is the one of web_socket.js

\* What the constants may be
SocketClientAssumption ==
    Flash \in BOOLEAN /\ MaxCalls \in Nat /\ MaxFaults \in Nat

VARIABLES
    socks,          \* the sockets createWebSocket made, oldest first
    waiting,        \* the calls whose setInterval still polls readyState
    calls, faults,  \* counters of the bounds
    sent,           \* history: sent[n]: times call n was put on a socket
    refused,        \* history: calls that threw
    undone          \* history: destinations whose unSubscibe reached the
                    \* server when the page listened to them again

wire == <<socks, waiting, sent>>
vars == <<server, client, wire, calls, faults, refused, undone>>

\* A command a call makes, and the socket createWebSocket makes
Cmd(n, type, dests) == [n |-> n, type |-> type, dests |-> dests]
Fresh(id, dests) ==
    [ready |-> "connecting", id |-> id, dests |-> dests,
     served |-> "no", page |-> NoId, up |-> << >>, down |-> << >>]

\* the variable ws: createWebSocket always assigns the socket it made
ws == Len(socks)

SocketsTypeOK ==
    \A s \in DOMAIN socks :
      /\ socks[s].ready \in {"connecting", "open", "closing", "closed"}
      /\ socks[s].served \in {"no", "yes", "done"}
      /\ {socks[s].id, socks[s].page} \subseteq PageId
      /\ socks[s].dests \subseteq Dest
      /\ socks[s].down \in Seq(PageId)

TypeOK ==
    /\ ServerTypeOK /\ ClientTypeOK /\ SocketsTypeOK
    /\ \A w \in waiting : w.n \in 1..calls /\ w.dests \subseteq Dest
    /\ calls \in 0..MaxCalls /\ faults \in 0..MaxFaults
    /\ sent \in [Call -> Nat] /\ refused \subseteq 1..calls /\ undone \subseteq Dest

\* the constructor opens the first socket, with a command that names nothing
Init ==
    /\ ServerInit /\ ClientInit
    /\ socks = <<Fresh(NoId, {})>>
    /\ waiting = {} /\ calls = 0 /\ faults = 0
    /\ sent = [n \in Call |-> 0] /\ refused = {} /\ undone = {}

-----------------------------------------------------------------------------
\* connection.send

Send(c) ==
    \/ /\ socks[ws].ready = "open"
       /\ socks' = [socks EXCEPT ![ws].up = Append(@, c)]
       /\ sent' = [sent EXCEPT ![c.n] = @ + 1]
       /\ UNCHANGED <<waiting, refused>>
    \/ /\ socks[ws].ready = "connecting"
       /\ waiting' = waiting \cup {c}
       /\ UNCHANGED <<socks, sent, refused>>

\* the last branch of send: it throws, and the caller does no more
Throw ==
    /\ socks[ws].ready \in {"closing", "closed"}
    /\ refused' = refused \cup {calls + 1}
    /\ UNCHANGED <<socks, waiting, sent>>

NextCall == CheckConnection /\ calls < MaxCalls /\ calls' = calls + 1

Publish ==
    /\ NextCall
    /\ Send(Cmd(calls + 1, "publish", {})) \/ Throw
    /\ UNCHANGED <<server, client, faults, undone>>

\* the listener is set before send, and stays if send throws
Subscribe(d) ==
    /\ NextCall
    /\ listeners' = listeners \cup {d}
    /\ Send(Cmd(calls + 1, "subscibe", {d})) \/ Throw
    /\ UNCHANGED <<server, closed, pageId, cached, faults, undone>>

\* the listener is deleted after send, and stays if send throws
Unsubscribe(d) ==
    /\ NextCall
    /\ \/ Send(Cmd(calls + 1, "unSubscibe", {d})) /\ listeners' = listeners \ {d}
       \/ Throw /\ UNCHANGED listeners
    /\ UNCHANGED <<server, closed, pageId, cached, faults, undone>>

(***************************************************************************)
(* close: the close command, closed = true, and ws.close().  A browser's   *)
(* socket then says goodbye; that of web_socket.js ignores close() unless  *)
(* it is open, and calls onclose itself, which finds closed set.           *)
(***************************************************************************)
Closing(s) ==
    IF ~Flash THEN [s EXCEPT !.ready = "closing"]
    ELSE IF s.ready = "open" THEN [s EXCEPT !.ready = "closed"] ELSE s

Close ==
    /\ NextCall
    /\ LET c == Cmd(calls + 1, "close", {})
           s == socks[ws]
       IN \/ /\ s.ready = "open"
             /\ socks' = [socks EXCEPT ![ws] = Closing([s EXCEPT !.up = Append(@, c)])]
             /\ sent' = [sent EXCEPT ![c.n] = @ + 1]
             /\ closed' = TRUE /\ UNCHANGED <<waiting, refused>>
          \/ /\ s.ready = "connecting"
             /\ socks' = [socks EXCEPT ![ws] = Closing(s)]
             /\ waiting' = waiting \cup {c}
             /\ closed' = TRUE /\ UNCHANGED <<sent, refused>>
          \/ Throw /\ UNCHANGED closed
    /\ UNCHANGED <<server, listeners, pageId, cached, faults, undone>>

\* Faulty: an interval that forgets clearInterval
FaultyTick(w) ==
    /\ w \in waiting /\ socks[ws].ready = "open"
    /\ sent[w.n] < 2
    /\ socks' = [socks EXCEPT ![ws].up = Append(@, w)]
    /\ sent' = [sent EXCEPT ![w.n] = @ + 1]
    /\ UNCHANGED <<server, client, waiting, calls, faults, refused, undone>>

\* Faulty: clearInterval whether or not the socket was open
FaultyTick2(w) ==
    /\ w \in waiting
    /\ waiting' = waiting \ {w}
    /\ LET open == socks[ws].ready = "open" IN
       /\ socks' = IF open THEN [socks EXCEPT ![ws].up = Append(@, w)] ELSE socks
       /\ sent' = IF open THEN [sent EXCEPT ![w.n] = @ + 1] ELSE sent
    /\ UNCHANGED <<server, client, calls, faults, refused, undone>>

(***************************************************************************)
(* One tick of the interval of a call.  It looks at ws, which may be a     *)
(* later socket than the one the call found connecting, and each call has  *)
(* its own interval: they fire in any order.                               *)
(***************************************************************************)
Tick(w) ==
    /\ w \in waiting /\ socks[ws].ready = "open"
    /\ waiting' = waiting \ {w}
    /\ socks' = [socks EXCEPT ![ws].up = Append(@, w)]
    /\ sent' = [sent EXCEPT ![w.n] = @ + 1]
    /\ UNCHANGED <<server, client, calls, faults, refused, undone>>

-----------------------------------------------------------------------------
\* The server's end

\* the upgrade request: page, login frame if the page is new, subscriptions
ServerAccepts(s) ==
    /\ socks[s].ready = "connecting" /\ socks[s].served = "no"
    /\ LET p == Lookup(socks[s].id) IN
       socks' = [socks EXCEPT ![s].served = "yes", ![s].page = p,
                              ![s].down = IF IsNew(socks[s].id) THEN <<p>> ELSE << >>]
    /\ Listen(socks[s].id, socks[s].dests)
    /\ undone' = undone \ socks[s].dests
    /\ UNCHANGED <<client, waiting, sent, calls, faults, refused>>

\* a frame: dealCommand for the page of the channel's attachment; the close
\* command closes the channel
ServerReceives(s) ==
    /\ socks[s].served = "yes" /\ socks[s].up # << >>
    /\ LET c == Head(socks[s].up) IN
       /\ Command(socks[s].page, c.type, c.dests)
       /\ socks' = [socks EXCEPT ![s].up = IF c.type = "close" THEN << >> ELSE Tail(@),
                                 ![s].served = IF c.type = "close" THEN "done" ELSE @]
       /\ undone' = IF socks[s].page # socks[ws].page THEN undone
                    ELSE CASE c.type = "unSubscibe" -> undone \cup (c.dests \cap listeners)
                           [] c.type = "subscibe"   -> undone \ c.dests
                           [] OTHER                 -> undone
    /\ UNCHANGED <<client, waiting, sent, calls, faults, refused>>

\* a page whose channel is not connected expires
PageExpires(p) ==
    /\ \A s \in DOMAIN socks :
          socks[s].page = p => socks[s].ready # "open" /\ socks[s].ready # "connecting"
    /\ Expire(p)
    /\ UNCHANGED <<client, wire, calls, faults, refused, undone>>

SessionExpires(s) == ForgetSession(s) /\ UNCHANGED <<client, wire, calls, faults, refused, undone>>

ServerRestarts ==
    /\ faults < MaxFaults /\ faults' = faults + 1
    /\ Restart
    /\ socks' = [s \in DOMAIN socks |->
                   [socks[s] EXCEPT !.served = IF @ = "yes" THEN "done" ELSE @, !.up = << >>]]
    /\ UNCHANGED <<client, waiting, sent, calls, refused, undone>>

-----------------------------------------------------------------------------
\* The browser's end: socket events

\* onopen does nothing
Opened(s) ==
    /\ socks[s].ready = "connecting" /\ socks[s].served # "no"
    /\ socks' = [socks EXCEPT ![s].ready = "open"]
    /\ UNCHANGED <<server, client, waiting, sent, calls, faults, refused, undone>>

\* onmessage with the login command
Message(s) ==
    /\ socks[s].ready = "open" /\ socks[s].down # << >>
    /\ LoggedIn(Head(socks[s].down))
    /\ socks' = [socks EXCEPT ![s].down = Tail(@)]
    /\ UNCHANGED <<server, closed, listeners, waiting, sent, calls, faults, refused, undone>>

\* A connection that breaks; the first k frames under way still arrive
Broken(s, k, ready) ==
    [socks[s] EXCEPT !.ready = ready, !.down = << >>,
       !.up = IF socks[s].served = "yes" THEN SubSeq(@, 1, k) ELSE << >>,
       !.served = IF @ = "yes" /\ k > 0 THEN "yes" ELSE "done"]

\* ... because of the network, or because the server has closed it
Breaking(s) ==
    /\ socks[s].ready \in {"connecting", "open"}
    /\ \/ socks[s].served = "done" /\ faults' = faults
       \/ socks[s].served # "done" /\ faults < MaxFaults /\ faults' = faults + 1

\* Faulty: onclose that does not ask whether the connection is closed
FaultyOnclose(list) == Append(list, Fresh(GetPageId, CollectDestinations))

\* Faulty: onclose that opens a socket without the subscriptions
FaultyOnclose2(list) == IF closed THEN list ELSE Append(list, Fresh(GetPageId, {}))

\* onclose: "reconnecting websocket"
Onclose(list) ==
    IF closed THEN list ELSE Append(list, Fresh(GetPageId, CollectDestinations))

\* Faulty: an onerror that reconnects by itself, before onclose does
FaultyBreaks(s) ==
    /\ ~Flash /\ Breaking(s)
    /\ \E k \in 0..Len(socks[s].up) :
          socks' = Onclose([socks EXCEPT ![s] = Broken(s, k, "closing")])
    /\ UNCHANGED <<server, client, waiting, sent, calls, refused, undone>>

\* A browser's own socket is seen CLOSING first; onerror, if there was an
\* error, calls close() on it, which changes nothing
Breaks(s) ==
    /\ ~Flash /\ Breaking(s)
    /\ \E k \in 0..Len(socks[s].up) :
          socks' = [socks EXCEPT ![s] = Broken(s, k, "closing")]
    /\ UNCHANGED <<server, client, waiting, sent, calls, refused, undone>>

CloseEvent(s) ==
    /\ ~Flash /\ socks[s].ready = "closing"
    /\ socks' = Onclose([socks EXCEPT ![s].ready = "closed"])
    /\ UNCHANGED <<server, client, waiting, sent, calls, faults, refused, undone>>

\* Flash reports the end of a connection, or that there is none, as "close"
FlashCloses(s) ==
    /\ Flash /\ Breaking(s)
    /\ \E k \in 0..Len(socks[s].up) :
          socks' = Onclose([socks EXCEPT ![s] = Broken(s, k, "closed")])
    /\ UNCHANGED <<server, client, waiting, sent, calls, refused, undone>>

\* Flash reports an error on an open connection as "error" and not as
\* "close"; onerror calls close(), which finds the socket closed already
FlashFails(s) ==
    /\ Flash /\ socks[s].ready = "open" /\ Breaking(s)
    /\ \E k \in 0..Len(socks[s].up) :
          socks' = [socks EXCEPT ![s] = Closing(Broken(s, k, "closed"))]
    /\ UNCHANGED <<server, client, waiting, sent, calls, refused, undone>>

-----------------------------------------------------------------------------
Calls == Publish \/ Close \/ \E d \in Dest : Subscribe(d) \/ Unsubscribe(d)

Moves(s) == ServerAccepts(s) \/ ServerReceives(s) \/ Opened(s) \/ Message(s) \/ CloseEvent(s)

Troubles(s) == Breaks(s) \/ FlashCloses(s) \/ FlashFails(s)

Next ==
    \/ Calls
    \/ \E w \in waiting : Tick(w)
    \/ \E s \in DOMAIN socks : Moves(s) \/ Troubles(s)
    \/ \E p \in DOMAIN subs : PageExpires(p)
    \/ \E s \in sessions : SessionExpires(s)
    \/ ServerRestarts

Spec == Init /\ [][Next]_vars

(***************************************************************************)
(* Handlers, intervals and frames get their turn; so does the news that a  *)
(* connection the server has closed is closed.                             *)
(***************************************************************************)
Noticed(s) == socks[s].served = "done" /\ Troubles(s)

Fairness ==
    /\ \A n \in Call : WF_vars(\E w \in waiting : w.n = n /\ Tick(w))
    /\ \A s \in 1..(MaxFaults + 1) : WF_vars(s \in DOMAIN socks /\ Moves(s))
    /\ \A s \in 1..(MaxFaults + 1) : WF_vars(s \in DOMAIN socks /\ Noticed(s))

FairSpec == Spec /\ Fairness
=============================================================================
