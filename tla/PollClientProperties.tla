------------------------ MODULE PollClientProperties ------------------------
(***************************************************************************)
(* What webmq.js without WebSockets should do for the page that uses it.   *)
(***************************************************************************)
EXTENDS PollClient

\* The page of the request the server holds
HeldPage == poll.page

\* nothing is under way but the request the server holds
PollQuiet == poll.at = "held" /\ poll.login = NoId /\ cmds = {} /\ delayed = {}

(***************************************************************************)
(* Whenever the server holds a request and nothing else is under way, the  *)
(* client knows the page it is for, and names it in its commands; and that *)
(* page has exactly the destinations the client listens to.  The           *)
(* exceptions are those adrift: their command was lost, overtaken, too     *)
(* long, or made before the page id was known; or the page was lost        *)
(* between two polls, the second of which names no destination because the *)
(* first one succeeded (longPolling, sendHttpRequest, getPageId,           *)
(* commandsReceived).                                                      *)
(***************************************************************************)
Agree ==
    PollQuiet =>
        /\ GetPageId = HeldPage
        /\ ~closed =>
            /\ HeldPage \in DOMAIN subs
            /\ \A d \in Dest \ adrift : d \in listeners <=> d \in subs[HeldPage]

(***************************************************************************)
(* A closed client makes no request, from its loop, an interval or a call, *)
(* until the window is loaded again (close, longPolling, getPageId).       *)
(***************************************************************************)
AsksNothing ==
    closed /\ closed' => cmds' \subseteq cmds /\ (poll' # poll => poll'.at # "sent")
Silent == [][AsksNothing]_pollVars

(***************************************************************************)
(* The loop does not end: again and again the server has a request, as     *)
(* long as the client is connected and not closed: "the next longpolling". *)
(***************************************************************************)
PollsOn == []<>(~connected \/ closed \/ poll.at \in {"held", "answered"})

(***************************************************************************)
(* Every listener is heard, at first or again: a stream that ends is       *)
(* opened again with every destination ("auto reconnect"), a poll after    *)
(* one that failed names every destination, and a subscription made before *)
(* the page id is known is sent when it is.                                *)
(***************************************************************************)
PollHeardAgain ==
    \A d \in Dest :
        []<>(~connected \/ closed \/ d \notin listeners \ adrift
             \/ (HeldPage \in DOMAIN subs /\ d \in subs[HeldPage]))
=============================================================================
