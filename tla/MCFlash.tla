------------------------------- MODULE MCFlash -------------------------------
(***************************************************************************)
(* The Flash fallback, in eight settings: the sockets of web_socket.js     *)
(* (one in Opera, two with two movies, three of which one has a bad url),  *)
(* their events, and FABridge: its calls, its callbacks and numbers, and   *)
(* its objects.  A behaviour has one setting from its beginning to its     *)
(* end; the variables of the others rest.                                  *)
(***************************************************************************)
EXTENDS FlashSocketProperties, SocketEvents, BridgeCalls, BridgeIds, BridgeObjects, TLC

VARIABLE setting

-----------------------------------------------------------------------------
\* Values of the constants; one socket in Opera is the setting of the cfg

AllEvents == EventType

TwoMovies == INSTANCE FlashSocket WITH
    Bad <- {}, Dropped <- {}, Opera <- FALSE,
    Movies <- 2, MaxSockets <- 2, MaxMessages <- 1, MaxSends <- 0

BadUrl == INSTANCE FlashSocket WITH
    Dropped <- {}, Opera <- FALSE,
    Movies <- 1, MaxSockets <- 3, MaxMessages <- 0, MaxSends <- 0

\* three movies, of which the first can be taken for the second
Object3(n) == [tag |-> "object", name |-> n]
Movies3 == <<Object3("socket2"), Object3("socket"), Object3("other")>>
LongerNames == ("socket" :> {"socket", "socket2"}) @@ [n \in {"socket2", "other"} |-> {n}]

Callbacks == INSTANCE BridgeIds WITH Func <- {"f1"}
Functions == INSTANCE BridgeIds WITH Reports <- 1, InitFunc <- {"g"}

TypesOfObjects ==
    ("root" :> "Main") @@ ("socket" :> "WebSocket") @@ ("open" :> "State")
        @@ ("close" :> "State") @@ ("message" :> "Data")

-----------------------------------------------------------------------------
Settings == {"opera", "movies", "badurl", "events", "calls", "callbacks", "functions", "objects"}

FlashInit ==
    /\ setting \in Settings
    /\ Init /\ EventsInit /\ CallsInit /\ IdsInit /\ ObjectsInit

SocketsNext ==
    /\ \/ setting = "opera" /\ Next
       \/ setting = "movies" /\ TwoMovies!Next
       \/ setting = "badurl" /\ BadUrl!Next
    /\ UNCHANGED <<setting, eventsVars, callsVars, idsVars, objectsVars>>

TargetNext ==
    /\ setting = "events" /\ EventsNext
    /\ UNCHANGED <<setting, vars, callsVars, idsVars, objectsVars>>

BridgeCallsNext ==
    /\ setting = "calls" /\ CallsNext
    /\ UNCHANGED <<setting, vars, eventsVars, idsVars, objectsVars>>

BridgeIdsNext ==
    /\ \/ setting = "callbacks" /\ Callbacks!IdsNext
       \/ setting = "functions" /\ Functions!IdsNext
    /\ UNCHANGED <<setting, vars, eventsVars, callsVars, objectsVars>>

BridgeObjectsNext ==
    /\ setting = "objects" /\ ObjectsNext
    /\ UNCHANGED <<setting, vars, eventsVars, callsVars, idsVars>>

FlashNext ==
    SocketsNext \/ TargetNext \/ BridgeCallsNext \/ BridgeIdsNext \/ BridgeObjectsNext

FlashSpec ==
    FlashInit
    /\ [][FlashNext]_<<setting, vars, eventsVars, callsVars, idsVars, objectsVars>>
=============================================================================
