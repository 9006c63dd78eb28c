-------------------------------- MODULE Webmq --------------------------------
(***************************************************************************)
(* The Webmq object of a browser window, as far as its two transports      *)
(* share it: SocketClient.tla adds WebSockets (createWsConnection) and     *)
(* PollClient.tla long polling (createUnWsConnection).                     *)
(*                                                                         *)
(* queueListeners and topicListeners are one set: a destination is a name  *)
(* together with its type, and the code treats both maps alike.            *)
(***************************************************************************)
EXTENDS PageServer, Sequences

CONSTANTS
    MaxCalls,       \* bound on the calls the page makes
    MaxFaults       \* bound on broken connections, restarts, lost pages, reloads

VARIABLES
    closed,         \* closed: set by close() and by nothing else
    listeners,      \* destinations with a listener function
    pageId,         \* pageId: from the last login, or NoId
    cached          \* the session id in the SessionCache, or NoId

Call == 1..MaxCalls

client == <<closed, listeners, pageId, cached>>

ClientTypeOK ==
    /\ closed \in BOOLEAN
    /\ listeners \subseteq Dest
    /\ pageId \in PageId
    /\ cached \in Nat \X {0}

ClientInit == closed = FALSE /\ listeners = {} /\ pageId = NoId /\ cached = NoId

\* checkConnection, at the head of every public call
CheckConnection == ~closed

GetPageId == IF pageId # NoId THEN pageId ELSE cached

\* what a new connection subscribes to
CollectDestinations == listeners

\* SessionCache.set: the session outlives the window's scripts
Remember(p) == cached' = <<p[1], 0>>

\* Faulty: a client that keeps the first page id it was given
FaultyLoggedIn(p) == Remember(p) /\ pageId' = IF pageId = NoId THEN p ELSE pageId

\* commandsReceived with a login command
LoggedIn(p) == Remember(p) /\ pageId' = p
==============================================================================
