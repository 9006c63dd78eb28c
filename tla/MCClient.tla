------------------------------ MODULE MCClient ------------------------------
(***************************************************************************)
(* webmq.js in four settings: on the browser's WebSockets or on those of   *)
(* web_socket.js, with long polling, or streaming.  A behaviour has one    *)
(* setting from its beginning to its end, and the variables of the other   *)
(* transport rest.  Long polling has two destinations, of which a url has  *)
(* room for one; the others have one.  On sockets the page makes three     *)
(* calls and there is one fault, or there are two of both.                 *)
(***************************************************************************)
EXTENDS SocketClientProperties, PollClientProperties

CONSTANT d1

VARIABLE transport

Native == INSTANCE SocketClientProperties WITH Dest <- {d1}
Fallback == INSTANCE SocketClientProperties WITH Dest <- {d1}, Flash <- TRUE
Stream == INSTANCE PollClientProperties WITH Dest <- {d1}, Streaming <- TRUE

Sockets == {"WebSocket", "web_socket.js"}

ClientsInit ==
    /\ transport \in Sockets \cup {"longPolling", "httpStreaming"}
    /\ Init /\ PollInit

ClientsNext ==
    /\ \/ transport = "WebSocket" /\ Native!Next
       \/ transport = "web_socket.js" /\ Fallback!Next
       \/ transport = "longPolling" /\ PollNext
       \/ transport = "httpStreaming" /\ Stream!PollNext
    /\ IF transport \in Sockets
       THEN /\ calls' < MaxCalls \/ faults' < MaxFaults
            /\ UNCHANGED <<connected, poll, cmds, delayed, called, mishaps, adrift>>
       ELSE UNCHANGED <<wire, calls, faults, refused, undone>>
    /\ UNCHANGED transport

ClientsSpec == ClientsInit /\ [][ClientsNext]_<<transport, vars, pollVars>>
=============================================================================
