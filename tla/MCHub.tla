-------------------------------- MODULE MCHub --------------------------------
(***************************************************************************)
(* StreamHub: CometHub in an old Firefox, and in behaviours of their own   *)
(* CometHub in other browsers, with other limits, and SocketHub.  The      *)
(* lists of servers have the same length; the variables of the hub that a  *)
(* behaviour is not about rest.                                            *)
(***************************************************************************)
EXTENDS CometHub, SocketHub, TLC

VARIABLE setting

CometIn(s) == INSTANCE CometHub WITH
    Browser <- s.browser, Type <- s.type, Algorithm <- s.algorithm,
    MaxAttempts <- s.attempts, MaxDelay <- s.delay, MaxQueue <- s.queue

Browsers ==
    [IE |-> [browser |-> "IE", type |-> "STREAM", algorithm |-> "ordered",
             attempts |-> 3, delay |-> 3, queue |-> 3],
     WebKit |-> [browser |-> "WebKit", type |-> "STREAM", algorithm |-> "random",
                 attempts |-> 2, delay |-> 2, queue |-> 2],
     FF3 |-> [browser |-> "FF3", type |-> "POLL", algorithm |-> "ordered",
              attempts |-> 0, delay |-> 1, queue |-> 3]]
Others == DOMAIN Browsers

HubInit ==
    /\ SocketInit
    /\ \/ setting \in {"FF", "sockets"} /\ Init
       \/ \E b \in Others : setting = b /\ CometIn(Browsers[b])!Init

HubNext ==
    \/ setting = "FF" /\ Next /\ UNCHANGED <<setting, socketVars>>
    \/ \E b \in Others :
          setting = b /\ CometIn(Browsers[b])!Next /\ UNCHANGED <<setting, socketVars>>
    \/ setting = "sockets" /\ SocketNext /\ UNCHANGED <<setting, vars>>

HubSpec == HubInit /\ [][HubNext]_<<setting, vars, socketVars>>

Symmetry == Permutations(Message)
=============================================================================
