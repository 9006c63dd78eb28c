------------------------ MODULE FlashSocketProperties ------------------------
(***************************************************************************)
(* What web_socket.js promises, and one module it implements: SocketLife.  *)
(***************************************************************************)
EXTENDS FlashSocket

Life == INSTANCE SocketLife

(***************************************************************************)
(* With one movie, or no bad url, the page sees readyState move on only,   *)
(* and hears messages in their order though events come in any order: the  *)
(* comment "to make sure to keep message order" (__handleMessages, the     *)
(* event handlers of __createFlash, close).                                *)
(***************************************************************************)
ImplementsLife == Life!Spec

(***************************************************************************)
(* onopen is called at most once, and the end of a connection is told at   *)
(* most once, as a close or as an error, whoever ended it: the page, the   *)
(* server or a failure, even all three at once (close, onError).           *)
(***************************************************************************)
ToldOnce ==
    \A s \in Socket : \A i, j \in DOMAIN log[s] :
        (log[s][i] = "open" <=> log[s][j] = "open") => i = j

(***************************************************************************)
(* However many movies report, and whenever the sockets were constructed,  *)
(* each gets one connection (__addTask, the initialization callback).      *)
(***************************************************************************)
OneConnection ==
    \A c, d \in DOMAIN conns : conns[c].sock = conns[d].sock => c = d

\* a task that an earlier one's exception left behind
Stranded(s) == \E i, j \in DOMAIN tasks : i < j /\ tasks[i] \in Bad /\ tasks[j] = s

(***************************************************************************)
(* Once a movie has reported, every socket has its connection, except one  *)
(* with a bad url, and one that waited behind such a one in __tasks.       *)
(***************************************************************************)
AllCreated ==
    movies > 0 => \A s \in born \ timeouts : flash[s] # 0 \/ s \in Bad \/ Stranded(s)

(***************************************************************************)
(* A socket gets one connection, of whichever movie, unless its url is bad *)
(* or it waited behind such a one; it opens once and ends once (__addTask, *)
(* the initialization callback, close, onError).                           *)
(***************************************************************************)
CreatedOnce == ToldOnce /\ OneConnection /\ AllCreated

Unread(s) == flash[s] # 0 /\ Conn(s).queue # << >>
Ended(s) == flash[s] # 0 /\ FlashState(s) = CLOSED

(***************************************************************************)
(* A message that Flash has received is read in the end, as long as the    *)
(* connection lasts: in Opera too, by the timer that made up for a browser *)
(* "which sometimes drops events" (__handleMessages).                      *)
(***************************************************************************)
Read == \A s \in Socket : Unread(s) ~> (~Unread(s) \/ Ended(s))

\* A connection that has ended is told of in the end (the close and error handlers)
EndTold == \A s \in Socket : Ended(s) ~> \E i \in DOMAIN log[s] : log[s][i] # "open"
=============================================================================
