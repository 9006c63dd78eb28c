------------------------------ MODULE SocketHub ------------------------------
(***************************************************************************)
(* streamhub-min.js over WebSockets.  connect() makes a connection, which  *)
(* has a queue for what is sent before the socket opens, and a socket;     *)
(* one flag of the hub, bIsWsOpen, says that the socket is open.  Nothing  *)
(* reconnects: that is left to the page, which may connect() again when it *)
(* is told that the connection is lost, from the listener or later.        *)
(***************************************************************************)
EXTENDS Naturals, Sequences, FiniteSets, SequencesExt

CONSTANTS
    Message,        \* what the page subscribes to or publishes
    MaxSockets      \* bound on the calls of connect

Uid == "uid"        \* the message that tells the server who it is

\* What the constants may be
SocketHubAssumption == MaxSockets \in Nat \ {0} /\ Uid \notin Message

VARIABLES
    sockets,        \* states of the sockets; the last is hub.ws
    wire,           \* what was sent over each of them
    open,           \* bIsWsOpen
    unsent,         \* oConnection.pMessageQueue
    asked,          \* history: messages the page has sent, in order
    early,          \* history: those a listener sent when the socket opened
    dropped         \* history: those that went into a closing socket, or were
                    \* queued when the page connected again

socketVars == <<sockets, wire, open, unsent, asked, early, dropped>>

State == {"connecting", "open", "closing", "closed"}

SocketTypeOK ==
    /\ sockets \in Seq(State) /\ Len(sockets) <= MaxSockets
    /\ wire \in Seq(Seq(Message \cup {Uid})) /\ Len(wire) = Len(sockets)
    /\ open \in BOOLEAN /\ unsent \in Seq(Message)
    /\ asked \in Seq(Message) /\ early \cup dropped \subseteq ToSet(asked)

SocketInit ==
    /\ sockets = << >> /\ wire = << >> /\ open = FALSE /\ unsent = << >>
    /\ asked = << >> /\ early = {} /\ dropped = {}

Ws == Len(sockets)          \* hub.ws

\* Faulty: the connection, and its queue, is kept
FaultyConnect ==
    /\ Len(sockets) < MaxSockets
    /\ sockets # << >> => sockets[Ws] = "closed"
    /\ sockets' = Append(sockets, "connecting") /\ wire' = Append(wire, << >>)
    /\ UNCHANGED <<open, asked, early, unsent, dropped>>

\* connect, webSocketConnect: a new socket and a new, empty queue
SocketConnect ==
    /\ Len(sockets) < MaxSockets
    /\ sockets # << >> => sockets[Ws] = "closed"
    /\ sockets' = Append(sockets, "connecting") /\ wire' = Append(wire, << >>)
    /\ unsent' = << >> /\ dropped' = dropped \cup ToSet(unsent)
    /\ UNCHANGED <<open, asked, early>>

\* Faulty: what was queued goes before the uid
FaultyOpen(sent) ==
    /\ sockets # << >> /\ sockets[Ws] = "connecting"
    /\ sockets' = [sockets EXCEPT ![Ws] = "open"]
    /\ open' = TRUE
    /\ wire' = [wire EXCEPT ![Ws] = sent \o unsent \o <<Uid>>]
    /\ asked' = asked \o sent /\ early' = early \cup ToSet(sent)
    /\ UNCHANGED <<unsent, dropped>>

\* Faulty: the latest of the queue goes first
FaultySendQueued(sent) ==
    /\ sockets # << >> /\ sockets[Ws] = "connecting"
    /\ sockets' = [sockets EXCEPT ![Ws] = "open"]
    /\ open' = TRUE
    /\ wire' = [wire EXCEPT ![Ws] = sent \o <<Uid>> \o Reverse(unsent)]
    /\ asked' = asked \o sent /\ early' = early \cup ToSet(sent)
    /\ UNCHANGED <<unsent, dropped>>

(***************************************************************************)
(* onopen: the flag is set and the connection listeners are told, who may  *)
(* send at once; then onConnect sends the uid, and what is queued, which   *)
(* stays in the queue.                                                     *)
(***************************************************************************)
Open(sent) ==
    /\ sockets # << >> /\ sockets[Ws] = "connecting"
    /\ sockets' = [sockets EXCEPT ![Ws] = "open"]
    /\ open' = TRUE
    /\ wire' = [wire EXCEPT ![Ws] = sent \o <<Uid>> \o unsent]
    /\ asked' = asked \o sent /\ early' = early \cup ToSet(sent)
    /\ UNCHANGED <<unsent, dropped>>

\* the socket takes no more data, and the page does not know yet
Closing ==
    /\ sockets # << >> /\ sockets[Ws] = "open"
    /\ sockets' = [sockets EXCEPT ![Ws] = "closing"]
    /\ UNCHANGED <<wire, open, unsent, asked, early, dropped>>

\* Faulty: onclose that only tells the listeners
FaultyClosed ==
    /\ sockets # << >> /\ sockets[Ws] # "closed"
    /\ sockets' = [sockets EXCEPT ![Ws] = "closed"]
    /\ UNCHANGED <<wire, open, unsent, asked, early, dropped>>

\* onclose, after a connection that was lost or did not come up
Closed ==
    /\ sockets # << >> /\ sockets[Ws] # "closed"
    /\ sockets' = [sockets EXCEPT ![Ws] = "closed"]
    /\ open' = FALSE
    /\ UNCHANGED <<wire, unsent, asked, early, dropped>>

Fresh == Message \ ToSet(asked)

\* Faulty: a message that is not kept
FaultySend(m) ==
    /\ sockets # << >> /\ m \in Fresh
    /\ asked' = Append(asked, m)
    /\ wire' = IF open /\ sockets[Ws] = "open" THEN [wire EXCEPT ![Ws] = Append(@, m)] ELSE wire
    /\ dropped' = IF open /\ sockets[Ws] # "open" THEN dropped \cup {m} ELSE dropped
    /\ UNCHANGED <<sockets, open, unsent, early>>

\* send, from subscribe, unsubscribe, publish or disconnect
Send(m) ==
    /\ sockets # << >> /\ m \in Fresh
    /\ asked' = Append(asked, m)
    /\ unsent' = IF open THEN unsent ELSE Append(unsent, m)
    /\ wire' = IF open /\ sockets[Ws] = "open" THEN [wire EXCEPT ![Ws] = Append(@, m)] ELSE wire
    /\ dropped' = IF open /\ sockets[Ws] # "open" THEN dropped \cup {m} ELSE dropped
    /\ UNCHANGED <<sockets, open, early>>

SocketNext ==
    \/ SocketConnect \/ Closing \/ Closed
    \/ Open(<< >>)
    \/ \E m \in Fresh : Open(<<m>>) \/ Send(m)

SocketSpec == SocketInit /\ [][SocketNext]_socketVars

-----------------------------------------------------------------------------
\* Where a message has been sent: the socket and the place on its wire
Occurrences(m) ==
    UNION {{<<i, k>> : k \in {j \in DOMAIN wire[i] : wire[i][j] = m}} : i \in DOMAIN wire}

(***************************************************************************)
(* The server hears the uid of a socket once, and before all messages but  *)
(* those that a listener sent when it was told of the connection           *)
(* (webSocketConnect, onConnect).                                          *)
(***************************************************************************)
UidFirst ==
    \A i \in DOMAIN wire : wire[i] # << >> =>
        \E u \in DOMAIN wire[i] :
            /\ wire[i][u] = Uid
            /\ \A k \in DOMAIN wire[i] \ {u} : wire[i][k] # Uid
            /\ \A k \in 1..(u - 1) : wire[i][k] \in early

(***************************************************************************)
(* No message is sent twice, though the queue is not emptied when it has   *)
(* been sent (sendQueuedMessages): a connection opens only once, and the   *)
(* next one has a queue of its own.                                        *)
(***************************************************************************)
AtMostOnce == \A m \in Message : Cardinality(Occurrences(m)) <= 1

(***************************************************************************)
(* A message is sent, or in the queue, unless its socket was closing or    *)
(* the page connected again before it was sent (send, connect).            *)
(***************************************************************************)
Accounted ==
    \A m \in ToSet(asked) : Occurrences(m) # {} \/ m \in ToSet(unsent) \/ m \in dropped

(***************************************************************************)
(* Over one socket messages go in the order in which the page sent them,   *)
(* queued or not, but for those a listener sent when it was told           *)
(* (sendQueuedMessages).                                                   *)
(***************************************************************************)
AskedInOrder(m, n) == \E a, b \in DOMAIN asked : a < b /\ asked[a] = m /\ asked[b] = n
InOrder ==
    \A i \in DOMAIN wire : \A j, k \in DOMAIN wire[i] :
        j < k /\ {wire[i][j], wire[i][k]} \cap (early \cup {Uid}) = {}
            => AskedInOrder(wire[i][j], wire[i][k])

(***************************************************************************)
(* The flag follows the socket, from one connection to the next: while it  *)
(* is set the socket takes data or is closing (onopen, onclose).           *)
(***************************************************************************)
FlagFollows == open => sockets[Ws] \in {"open", "closing"}

(***************************************************************************)
(* Over however many sockets, a message is sent once, queued, or dropped   *)
(* for a known reason; the messages of a socket keep their order and       *)
(* follow its uid, but for those of a listener (send, sendQueuedMessages,  *)
(* onopen, onclose).                                                       *)
(***************************************************************************)
Delivered == FlagFollows /\ UidFirst /\ AtMostOnce /\ InOrder /\ Accounted
=============================================================================
