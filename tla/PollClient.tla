----------------------------- MODULE PollClient -----------------------------
(***************************************************************************)
(* webmq.js without WebSockets: createUnWsConnection.  Messages come back  *)
(* on one /ls request at a time, a script (long polling) or an iframe      *)
(* (HTTP streaming); each call of the page is a /s request of its own, a   *)
(* script that nothing orders and nothing repeats.                         *)
(*                                                                         *)
(* A request the server has not seen when the browser gives it up is never *)
(* served.  A url is too long when it names more than MaxUrl destinations. *)
(***************************************************************************)
EXTENDS Webmq

CONSTANTS
    Streaming,      \* TRUE: same top domain, and streaming not disabled
    Browser,        \* which branch of httpStreaming and loadUrl is taken
    MaxUrl          \* destinations that fit into the 3800 characters of a url

\* What the constants may be
PollClientAssumption ==
    /\ Streaming \in BOOLEAN /\ Browser \in {"ie", "firefox", "webkit"}
    /\ MaxUrl \in Nat /\ MaxCalls \in Nat /\ MaxFaults \in Nat

VARIABLES
    connected,      \* connected: a first subscribe has been made
    poll,           \* the /ls request under way
    cmds,           \* /s requests under way
    delayed,        \* subscriptions whose setInterval waits for a page id
    called, mishaps,  \* counters of the bounds
    adrift          \* history: destinations of which the server was told
                    \* nothing, or too late, for one of the known reasons

pollVars == <<server, client, connected, poll, cmds, delayed, called, mishaps, adrift>>

PollCmd(n, type, dests) == [n |-> n, type |-> type, dests |-> dests, id |-> NoId]
TooLong(dests) == Cardinality(dests) > MaxUrl

\* A /ls request; asked is a history: the listeners when it was made
Request(dests, after) ==
    [at |-> "sent", id |-> GetPageId', dests |-> dests, after |-> after,
     page |-> NoId, login |-> NoId, asked |-> listeners']

NoPoll == [at |-> "none", id |-> NoId, dests |-> {}, after |-> "first",
           page |-> NoId, login |-> NoId, asked |-> {}]
Over == [NoPoll EXCEPT !.at = "over"]

PollTypeOK ==
    /\ ServerTypeOK /\ ClientTypeOK
    /\ connected \in BOOLEAN
    /\ poll.at \in {"none", "sent", "held", "answered", "cut", "torn", "over"}
    /\ poll.after \in {"first", "loaded", "failed"}
    /\ poll.dests \cup poll.asked \cup adrift \subseteq Dest
    /\ {poll.id, poll.page, poll.login} \subseteq PageId
    /\ \A c \in cmds : c.n \in 1..called /\ c.dests \subseteq Dest /\ c.id \in PageId
    /\ \A w \in delayed : w.n \in 1..called /\ w.type = "subscibe"
    /\ called \in 0..MaxCalls /\ mishaps \in 0..MaxFaults

PollInit ==
    /\ ServerInit /\ ClientInit
    /\ connected = FALSE /\ poll = NoPoll /\ cmds = {} /\ delayed = {}
    /\ called = 0 /\ mishaps = 0 /\ adrift = {}

Fault == mishaps < MaxFaults /\ mishaps' = mishaps + 1

-----------------------------------------------------------------------------
\* Calls of the page

\* sendHttpRequest, with the page id of this moment
SendHttpRequest(c) ==
    ~TooLong(c.dests) /\ cmds' = cmds \cup {[c EXCEPT !.id = GetPageId]}

\* loadUrl throws
Throws(c) == TooLong(c.dests) /\ UNCHANGED cmds

NextPollCall == CheckConnection /\ called < MaxCalls /\ called' = called + 1

\* a message may make the url too long
PollPublish ==
    /\ NextPollCall
    /\ SendHttpRequest(PollCmd(called + 1, "publish", {})) \/ UNCHANGED cmds
    /\ UNCHANGED <<server, client, connected, poll, delayed, mishaps, adrift>>

\* longPolling throws what loadUrl throws; an iframe takes a url of any length
Connect(dests) ==
    IF ~Streaming /\ TooLong(dests)
    THEN poll' = Over /\ adrift' = adrift \cup dests
    ELSE poll' = Request(dests, "first") /\ UNCHANGED adrift

(***************************************************************************)
(* sendSubscibeCommand: the first subscription opens the connection, later *)
(* ones are /s requests, once the page id is known.  The listeners are set *)
(* whatever becomes of it.                                                 *)
(***************************************************************************)
PollSubscribe(dests) ==
    /\ NextPollCall
    /\ listeners' = listeners \cup dests
    /\ UNCHANGED <<server, closed, pageId, cached, mishaps>>
    /\ LET c == PollCmd(called + 1, "subscibe", dests) IN
       \/ ~connected /\ Connect(dests) /\ UNCHANGED <<cmds, delayed>>
       \/ /\ connected /\ pageId # NoId
          /\ \/ SendHttpRequest(c) /\ UNCHANGED adrift
             \/ Throws(c) /\ adrift' = adrift \cup dests
          /\ UNCHANGED <<poll, delayed>>
       \/ /\ connected /\ pageId = NoId
          /\ delayed' = delayed \cup {c}
          /\ UNCHANGED <<poll, cmds, adrift>>
    /\ connected' = TRUE

\* the listeners go when the request has been made
PollUnsubscribe(dests) ==
    /\ NextPollCall
    /\ LET c == PollCmd(called + 1, "unSubscibe", dests) IN
       \/ SendHttpRequest(c) /\ listeners' = listeners \ dests
       \/ Throws(c) /\ UNCHANGED listeners
    /\ UNCHANGED <<server, closed, pageId, cached, connected, poll, delayed, mishaps, adrift>>

\* the close of this connection does nothing: the server ends the request
PollClose ==
    /\ NextPollCall
    /\ SendHttpRequest(PollCmd(called + 1, "close", {}))
    /\ closed' = TRUE
    /\ UNCHANGED <<server, listeners, pageId, cached, connected, poll, delayed, mishaps, adrift>>

\* Faulty: an interval that gives up when there is no page id yet
FaultyPollTick(w) ==
    /\ w \in delayed /\ delayed' = delayed \ {w}
    /\ cmds' = IF pageId = NoId THEN cmds ELSE cmds \cup {[w EXCEPT !.id = pageId]}
    /\ UNCHANGED <<server, client, connected, poll, called, mishaps, adrift>>

(***************************************************************************)
(* An interval that waits for the page id finds one: it clears itself,     *)
(* and sends; getPageId throws if the client was closed meanwhile.         *)
(***************************************************************************)
PollTick(w) ==
    /\ w \in delayed /\ pageId # NoId
    /\ delayed' = delayed \ {w}
    /\ \/ closed /\ UNCHANGED <<cmds, adrift>>
       \/ ~closed /\ SendHttpRequest(w) /\ UNCHANGED adrift
       \/ ~closed /\ Throws(w) /\ adrift' = adrift \cup w.dests
    /\ UNCHANGED <<server, client, connected, poll, called, mishaps>>

-----------------------------------------------------------------------------
\* The server's end

(***************************************************************************)
(* A new page's long poll is answered at once with the login; a stream     *)
(* starts with it.  The destinations left adrift: all, if the request did  *)
(* not name any because the one before it was thought to have succeeded;   *)
(* those subscribed to on the old page after the request was made; those   *)
(* it names although they have been given up.                              *)
(***************************************************************************)
ServerPoll ==
    LET new == IsNew(poll.id)
        p == Lookup(poll.id)
        missed == IF ~new THEN {}
                  ELSE IF poll.after = "loaded" THEN listeners
                  ELSE listeners \ poll.asked
        known == (poll.dests \cap listeners)
                   \cup (IF new THEN Dest \ (poll.dests \cup listeners) ELSE {})
    IN
    /\ poll.at = "sent"
    /\ Listen(poll.id, poll.dests)
    /\ poll' = [poll EXCEPT !.at = IF new /\ ~Streaming THEN "answered" ELSE "held",
                            !.page = p, !.login = IF new THEN p ELSE NoId]
    /\ adrift' = (adrift \ known) \cup missed \cup (poll.dests \ listeners)
    /\ UNCHANGED <<client, connected, cmds, delayed, called, mishaps>>

\* a message or a heartbeat ends a long poll
Answer ==
    /\ ~Streaming /\ poll.at = "held" /\ poll.page \in DOMAIN subs
    /\ poll' = [poll EXCEPT !.at = "answered"]
    /\ UNCHANGED <<server, client, connected, cmds, delayed, called, mishaps, adrift>>

\* a /s request; its answer, "ok" or "fail", is ignored
ServerCommand(c) ==
    LET same == IF c.type = "subscibe" THEN c.dests \cap listeners ELSE c.dests \ listeners
    IN
    /\ c \in cmds /\ cmds' = cmds \ {c}
    /\ Command(c.id, c.type, c.dests)
    /\ adrift' = IF c.id \in DOMAIN subs THEN (adrift \ same) \cup (c.dests \ same)
                 ELSE adrift \cup c.dests
    /\ UNCHANGED <<client, connected, poll, delayed, called, mishaps>>

\* sendHttpRequest logs the failure and does nothing about it
LoseCommand(c) ==
    /\ c \in cmds /\ cmds' = cmds \ {c}
    /\ Fault
    /\ adrift' = adrift \cup c.dests
    /\ UNCHANGED <<server, client, connected, poll, delayed, called>>

\* the timer, for a page between two polls or for one nobody knows any more
PollPageExpires(p) ==
    /\ \/ poll.at \notin {"held", "answered"} /\ p = GetPageId /\ Fault
       \/ p \notin {pageId, poll.page} /\ UNCHANGED mishaps
    /\ Expire(p)
    /\ UNCHANGED <<client, connected, poll, cmds, delayed, called, adrift>>

PollSessionExpires(s) ==
    /\ ForgetSession(s)
    /\ UNCHANGED <<client, connected, poll, cmds, delayed, called, mishaps, adrift>>

PollServerRestarts ==
    /\ Fault /\ Restart
    /\ poll' = IF poll.at = "held" THEN [poll EXCEPT !.at = "torn"] ELSE poll
    /\ UNCHANGED <<client, connected, cmds, delayed, called, adrift>>

\* the connection of the request breaks, before or after the response has
\* begun; or the server closes it with its page
Break ==
    /\ \/ poll.at \in {"sent", "held", "answered"} /\ Fault
       \/ poll.at = "held" /\ poll.page \notin DOMAIN subs /\ UNCHANGED mishaps
    /\ poll' = [poll EXCEPT !.at = IF @ = "sent" THEN "cut" ELSE "torn"]
    /\ UNCHANGED <<server, client, connected, cmds, delayed, called, adrift>>

-----------------------------------------------------------------------------
\* The browser's end: events of the script or the iframe

\* Faulty: the next poll whether or not the client is closed
FaultyNextPoll(loaded) ==
    LET dests == IF loaded THEN {} ELSE CollectDestinations IN
    poll' = IF TooLong(dests) THEN Over
            ELSE Request(dests, IF loaded THEN "loaded" ELSE "failed")

\* Faulty: a poll after a failure that forgets the subscriptions
FaultyNextPoll2(loaded) ==
    poll' = IF closed THEN Over ELSE Request({}, IF loaded THEN "loaded" ELSE "failed")

\* Faulty: a loop that ends with the first failure
FaultyNextPoll3(loaded) ==
    poll' = IF closed \/ ~loaded THEN Over ELSE Request({}, "loaded")

(***************************************************************************)
(* "the next longpolling": it subscribes again only if this one failed.  A *)
(* url that is too long throws, and there is no next one.                  *)
(***************************************************************************)
NextPoll(loaded) ==
    LET dests == IF loaded THEN {} ELSE CollectDestinations IN
    poll' = IF closed \/ TooLong(dests) THEN Over
            ELSE Request(dests, IF loaded THEN "loaded" ELSE "failed")

Login == IF poll.login = NoId THEN UNCHANGED <<pageId, cached>> ELSE LoggedIn(poll.login)

\* the script runs, its load event follows
Loaded ==
    /\ ~Streaming /\ poll.at = "answered"
    /\ Login
    /\ UNCHANGED <<server, closed, listeners, connected, cmds, delayed, called, mishaps, adrift>>
    /\ NextPoll(TRUE)

(***************************************************************************)
(* A poll that broke.  Once its response had begun, a browser other than   *)
(* IE may fire "load" for the empty script; IE looks at what has run.      *)
(***************************************************************************)
Failed ==
    /\ ~Streaming /\ poll.at \in {"cut", "torn"}
    /\ UNCHANGED <<server, client, connected, cmds, delayed, called, mishaps, adrift>>
    /\ NextPoll(FALSE) \/ (poll.at = "torn" /\ Browser # "ie" /\ NextPoll(TRUE))

\* the login script at the head of a stream
StreamLogin ==
    /\ Streaming /\ poll.at = "held" /\ poll.login # NoId
    /\ Login
    /\ poll' = [poll EXCEPT !.login = NoId]
    /\ UNCHANGED <<server, closed, listeners, connected, cmds, delayed, called, mishaps, adrift>>

\* Faulty: a stream that is opened again without the subscriptions
FaultyReopen == poll' = IF closed THEN Over ELSE Request({}, "failed")

\* "auto reconnect" of a stream: always with the subscriptions
Reopen == poll' = IF closed THEN Over ELSE Request(CollectDestinations, "failed")

\* by the load and error events, or by the interval
StreamEnded ==
    /\ Streaming /\ poll.at \in {"cut", "torn"}
    /\ UNCHANGED <<server, client, connected, cmds, delayed, called, mishaps, adrift>>
    /\ Reopen

\* by the interval of IE and Firefox, which takes a frame it cannot read for
\* complete: the request under way is given up
StreamMisjudged ==
    /\ Streaming /\ Browser # "webkit" /\ poll.at \in {"sent", "held"}
    /\ Fault
    /\ UNCHANGED <<server, client, connected, cmds, delayed, called, adrift>>
    /\ Reopen

\* beforeunload of Firefox: closed, without a word to the server, even if
\* the window stays after all
BeforeUnload ==
    /\ ~Streaming /\ Browser = "firefox" /\ connected
    /\ Fault
    /\ closed' = TRUE
    /\ UNCHANGED <<server, listeners, pageId, cached, connected, poll, cmds, delayed, called, adrift>>

\* the window is loaded again: what is left of it is the SessionCache
Reload ==
    /\ connected /\ Fault
    /\ connected' = FALSE /\ closed' = FALSE /\ listeners' = {} /\ pageId' = NoId
    /\ poll' = NoPoll /\ cmds' = {} /\ delayed' = {} /\ adrift' = {}
    /\ UNCHANGED <<server, cached, called>>

-----------------------------------------------------------------------------
PollCalls ==
    \/ PollPublish \/ PollClose
    \/ \E dests \in SUBSET Dest \ {{}} : PollSubscribe(dests) \/ PollUnsubscribe(dests)

Handlers == Loaded \/ Failed \/ StreamLogin \/ StreamEnded

PollTroubles == StreamMisjudged \/ BeforeUnload \/ Reload \/ PollServerRestarts \/ Break

PollNext ==
    \/ PollCalls \/ Handlers \/ PollTroubles
    \/ ServerPoll \/ Answer
    \/ \E w \in delayed : PollTick(w)
    \/ \E c \in cmds : ServerCommand(c) \/ LoseCommand(c)
    \/ \E p \in DOMAIN subs : PollPageExpires(p)
    \/ \E s \in sessions : PollSessionExpires(s)

PollSpec == PollInit /\ [][PollNext]_pollVars

(***************************************************************************)
(* The server serves what reaches it, the browser runs its handlers and    *)
(* intervals, and learns that the server has closed a connection.          *)
(***************************************************************************)
PollFairness ==
    /\ WF_pollVars(ServerPoll) /\ WF_pollVars(Handlers)
    /\ WF_pollVars(poll.page \notin DOMAIN subs /\ Break)
    /\ \A n \in Call : /\ WF_pollVars(\E c \in cmds : c.n = n /\ ServerCommand(c))
                       /\ WF_pollVars(\E w \in delayed : w.n = n /\ PollTick(w))

PollFairSpec == PollSpec /\ PollFairness
=============================================================================
