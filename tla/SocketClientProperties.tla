----------------------- MODULE SocketClientProperties -----------------------
(***************************************************************************)
(* What webmq.js on WebSockets should do for the page that uses it.        *)
(***************************************************************************)
EXTENDS SocketClient

\* nothing is under way or waits to be sent
Quiet ==
    /\ waiting = {}
    /\ socks[ws].ready = "open" /\ socks[ws].served = "yes"
    /\ socks[ws].down = << >>
    /\ \A s \in DOMAIN socks : socks[s].up = << >>

\* The page of the socket in use at the server
Here == socks[ws].page

(***************************************************************************)
(* Lost subscriptions, reconnections, pages that expire and servers that   *)
(* restart leave no listener deaf: once quiet, the page id the client will *)
(* name in its next request is the page it has, where the server buffers   *)
(* for it, and the server's page has every destination the page listens    *)
(* to.  The one exception is a destination whose unSubscibe overtook, or   *)
(* was overtaken by, its subscription: an interval sent it later than the  *)
(* call that followed it (send in createWsConnection, collectDestinations  *)
(* in its onclose, getPageId, commandsReceived).                           *)
(***************************************************************************)
NotDeaf ==
    Quiet /\ ~closed =>
        /\ GetPageId = Here
        /\ Here \in DOMAIN subs /\ listeners \ undone \subseteq subs[Here]

(***************************************************************************)
(* Each call is sent once, or is waiting for a socket, or has thrown,      *)
(* across any number of sockets (send in createWsConnection).              *)
(***************************************************************************)
CallsAccounted ==
    \A n \in 1..calls :
        sent[n] + Cardinality({w \in waiting : w.n = n})
                + Cardinality(refused \cap {n}) = 1

(***************************************************************************)
(* Only the newest socket can be alive, however errors, closes and         *)
(* reconnections follow each other (onclose in createWsConnection).        *)
(***************************************************************************)
OneSocket == \A s \in 1..(ws - 1) : socks[s].ready = "closed"

(***************************************************************************)
(* After close() has returned, no socket is opened and no listener changes *)
(* (close, checkConnection, onclose).                                      *)
(***************************************************************************)
Rests == closed /\ closed' => ws' = ws /\ listeners' = listeners
StaysClosed == [][Rests]_vars

(***************************************************************************)
(* A listener is heard again after whatever happened to the connection:    *)
(* the comment of onclose, "reconnecting websocket".                       *)
(***************************************************************************)
HeardAgain ==
    \A d \in Dest :
        []<>(closed \/ d \notin listeners \ undone
                    \/ (Here \in DOMAIN subs /\ d \in subs[Here] /\ socks[ws].ready = "open"))

\* A call that waits for a socket is sent at last, unless the client is closed
WaitingIsSent == \A n \in Call : (\E w \in waiting : w.n = n) ~> (closed \/ sent[n] = 1)

(***************************************************************************)
(* A socket that has closed is replaced.                                   *)
(***************************************************************************)
Reconnects == (socks[ws].ready = "closed") ~> (closed \/ socks[ws].ready = "open")
=============================================================================
