------------------------------- MODULE Sessions -------------------------------
(***************************************************************************)
(* How pages are found, made and forgotten: PageHandler.getPage, Session   *)
(* and SessionManagerImpl, whose timer sends heartbeats to all pages and,  *)
(* in every Multiple-th pass, removes a session that two such passes found *)
(* without pages.  A page whose channel is down for WEB_PAGE_MAX_IDLE_TIME *)
(* is invalidated by the heartbeat or the publisher that looks at it then, *)
(* though its window may still be there.  The windows of one browser share *)
(* the session id in its cookie; each makes one /ls request at a time.     *)
(* PageServer.tla has the same requests as single steps.                   *)
(***************************************************************************)
EXTENDS Naturals, FiniteSets

CONSTANTS
    Window,
    Publisher,      \* threads that publish to the pages
    Multiple,       \* multiple, 5 in the code
    MaxAsks         \* bound on requests

\* What the constants may be
SessionsAssumption == Multiple \in Nat \ {0} /\ MaxAsks \in Nat

SessionId == 1..MaxAsks     \* fresh ids, in their order
Number == 1..MaxAsks
NoId == <<0, 0>>
PageId == (SessionId \X Number) \cup {NoId}

VARIABLES
    sessions,       \* the session ids in SessionManagerImpl.sessions
    opened,         \* sessions made
    marked,         \* marked[s]: Session.critical
    last,           \* last[s]: Session.atomicInteger
    numbers,        \* numbers[s]: the numbers of the pages in Session.pages
    online,         \* windows whose channel is registered and connected
    expired,        \* pages idle for WEB_PAGE_MAX_IDLE_TIME: not isValid
    knows,          \* knows[w]: the page id w has from its last login
    step, sess, num,  \* a request: next step, its session, its page's number
    pass,           \* the timer: next step, session, sessions to visit, counter,
                    \* page, pages to visit
    looked,         \* looked[t]: the page a publisher found not isValid, and invalidates
    asks,           \* requests made
    excused         \* history: windows whose page a thread found not isValid, or
                    \* whose session was removed in the middle of the request

session == <<sessions, opened, marked, last, numbers>>
request == <<knows, step, sess, num, asks>>
idling == <<online, expired>>
sessionsVars == <<session, idling, request, pass, looked, excused>>

PassSteps == {"asleep", "next", "stillEmpty", "isEmpty", "mark", "invalidate", "remove",
              "beat", "drop"}

SessionsTypeOK ==
    /\ opened \in 0..MaxAsks /\ sessions \subseteq 1..opened
    /\ marked \in [SessionId -> BOOLEAN] /\ last \in [SessionId -> 0..MaxAsks]
    /\ numbers \in [SessionId -> SUBSET Number] /\ expired \subseteq PageId
    /\ online \subseteq Window /\ looked \in [Publisher -> PageId]
    /\ knows \in [Window -> PageId]
    /\ step \in [Window -> {"idle", "page", "reset", "put", "register"}]
    /\ sess \in [Window -> 0..MaxAsks] /\ num \in [Window -> 0..MaxAsks]
    /\ pass \in [at : PassSteps, s : 0..MaxAsks, todo : SUBSET SessionId,
                  counter : 0..(Multiple - 1), n : 0..MaxAsks, pages : SUBSET Number]
    /\ asks \in 0..MaxAsks /\ excused \subseteq Window

SessionsInit ==
    /\ sessions = {} /\ opened = 0
    /\ marked = [s \in SessionId |-> FALSE] /\ last = [s \in SessionId |-> 0]
    /\ numbers = [s \in SessionId |-> {}]
    /\ online = {} /\ expired = {} /\ looked = [t \in Publisher |-> NoId]
    /\ knows = [w \in Window |-> NoId] /\ step = [w \in Window |-> "idle"]
    /\ sess = [w \in Window |-> 0] /\ num = [w \in Window |-> 0]
    /\ pass = [at |-> "asleep", s |-> 0, todo |-> {}, counter |-> 1 % Multiple,
               n |-> 0, pages |-> {}]
    /\ asks = 0 /\ excused = {}

-----------------------------------------------------------------------------
(* getPage(request, true)                                                  *)

Proceed(w, to) == step' = [step EXCEPT ![w] = to]

\* the session of the page id, or of the cookie, which another window may
\* have set meanwhile, or none
Asked(w) ==
    IF knows[w] # NoId THEN {knows[w][1]} ELSE {knows[v][1] : v \in Window}

GetSession(w, s) ==
    /\ step[w] = "idle" /\ asks < MaxAsks /\ asks' = asks + 1
    /\ s \in Asked(w)
    /\ IF s \in sessions
       THEN sess' = [sess EXCEPT ![w] = s] /\ UNCHANGED <<sessions, opened>>
       ELSE /\ opened' = opened + 1
            /\ sessions' = sessions \cup {opened'}
            /\ sess' = [sess EXCEPT ![w] = opened']
    /\ Proceed(w, "page")
    /\ UNCHANGED <<marked, last, numbers, idling, knows, num, pass, looked, excused>>

FindPage(w) ==
    /\ step[w] = "page"
    /\ knows[w][1] = sess[w] /\ knows[w][2] \in numbers[sess[w]]
    /\ sess' = [sess EXCEPT ![w] = 0]
    /\ Proceed(w, "register")
    /\ UNCHANGED <<session, idling, knows, num, pass, looked, asks, excused>>

\* Faulty: the number is read, not incremented.
SameNumber(s) == last

NextNumber(s) == [last EXCEPT ![s] = @ + 1]

\* createPage: nextPageId
NewPage(w) ==
    LET s == sess[w] IN
    /\ step[w] = "page"
    /\ ~(knows[w][1] = s /\ knows[w][2] \in numbers[s])
    /\ last' = NextNumber(s)
    /\ num' = [num EXCEPT ![w] = last[s] + 1]
    /\ Proceed(w, "reset")
    /\ UNCHANGED <<sessions, opened, marked, numbers, idling, knows, sess, pass, looked, asks, excused>>

\* putPage, in two steps
ResetCritical(w) ==
    /\ step[w] = "reset"
    /\ marked' = [marked EXCEPT ![sess[w]] = FALSE]
    /\ Proceed(w, "put")
    /\ UNCHANGED <<sessions, opened, last, numbers, idling, knows, sess, num, pass, looked, asks, excused>>

PutPage(w) ==
    LET s == sess[w] IN
    /\ step[w] = "put"
    /\ numbers' = [numbers EXCEPT ![s] = @ \cup {num[w]}]
    /\ knows' = [knows EXCEPT ![w] = <<s, num[w]>>]
    /\ excused' = IF s \in sessions /\ ~(pass.at \in {"invalidate", "remove"} /\ pass.s = s)
                   THEN excused \ {w} ELSE excused \cup {w}
    /\ sess' = [sess EXCEPT ![w] = 0] /\ num' = [num EXCEPT ![w] = 0]
    /\ online' = online \ {w}
    /\ Proceed(w, "register")
    /\ UNCHANGED <<sessions, opened, marked, last, expired, pass, looked, asks>>

\* registerChannel and updateAccessTime, of a page that may be gone meanwhile
RegisterChannel(w) ==
    /\ step[w] = "register"
    /\ online' = online \cup {w} /\ expired' = expired \ {knows[w]}
    /\ Proceed(w, "idle")
    /\ UNCHANGED <<session, knows, sess, num, pass, looked, asks, excused>>

-----------------------------------------------------------------------------
(* Windows and their connections                                           *)

\* An answered poll, or the network, takes the channel.
Disconnects(w) ==
    /\ w \in online /\ online' = online \ {w}
    /\ UNCHANGED <<session, expired, request, pass, looked, excused>>

\* A window is closed, and its page is left alone.
Gone(w) ==
    /\ step[w] = "idle" /\ knows[w] # NoId
    /\ knows' = [knows EXCEPT ![w] = NoId] /\ online' = online \ {w}
    /\ excused' = excused \ {w}
    /\ UNCHANGED <<session, expired, step, sess, num, pass, looked, asks>>

\* The time of a page without a connected channel is over.
Expire(s, n) ==
    /\ n \in numbers[s] /\ \A w \in online : knows[w] # <<s, n>>
    /\ expired' = expired \cup {<<s, n>>}
    /\ UNCHANGED <<session, online, request, pass, looked, excused>>

\* WebPage.invalidate closes the channel, whichever it is by now, and leaves
\* the session.
InvalidateWebPage(p) ==
    /\ numbers' = [numbers EXCEPT ![p[1]] = @ \ {p[2]}]
    /\ online' = {w \in online : knows[w] # p}
    /\ expired' = expired \ {p}

\* A thread finds that the page is not isValid.
Abandons(p) == excused' = excused \cup {w \in Window : knows[w] = p}

\* messageReceived of a publisher, which tests isValid, and then invalidates
PublisherLooks(t, p) ==
    /\ looked[t] = NoId /\ p \in expired
    /\ looked' = [looked EXCEPT ![t] = p] /\ Abandons(p)
    /\ UNCHANGED <<session, idling, request, pass>>

PublisherInvalidates(t) ==
    /\ looked[t] # NoId /\ looked' = [looked EXCEPT ![t] = NoId]
    /\ InvalidateWebPage(looked[t])
    /\ UNCHANGED <<sessions, opened, marked, last, request, pass, excused>>

-----------------------------------------------------------------------------
(* The timer                                                               *)

PassGoes(to) ==
    pass' = [pass EXCEPT !.at = to, !.s = IF to = "next" THEN 0 ELSE @]

\* Session.heartbeat goes over the pages, which are these.
Beat(s, todo, pages) ==
    pass' = [pass EXCEPT !.at = IF pages = {} THEN "next" ELSE "beat", !.todo = todo,
                         !.s = IF pages = {} THEN 0 ELSE s, !.n = 0, !.pages = pages]

WakeUp ==
    /\ pass.at = "asleep"
    /\ pass' = [pass EXCEPT !.at = "next", !.todo = sessions]
    /\ UNCHANGED <<session, idling, request, looked, excused>>

IsHealthExamine == pass.counter = 0

\* Faulty: a critical session is not looked at again.
MarkIsEnough(s) == IF marked[s] THEN "invalidate" ELSE "isEmpty"

IfMarked(s) == IF marked[s] THEN "stillEmpty" ELSE "isEmpty"

VisitSession(s) ==
    /\ pass.at = "next" /\ s \in pass.todo
    /\ IF IsHealthExamine
       THEN pass' = [pass EXCEPT !.at = IfMarked(s), !.s = s, !.todo = @ \ {s}]
       ELSE Beat(s, pass.todo \ {s}, numbers[s])
    /\ UNCHANGED <<session, idling, request, looked, excused>>

TestPages ==
    /\ pass.at \in {"stillEmpty", "isEmpty"}
    /\ IF numbers[pass.s] = {}
       THEN PassGoes(IF pass.at = "stillEmpty" THEN "invalidate" ELSE "mark")
       ELSE IF pass.at = "stillEmpty" THEN PassGoes("isEmpty")
       ELSE Beat(pass.s, pass.todo, numbers[pass.s])
    /\ UNCHANGED <<session, idling, request, looked, excused>>

\* Faulty: the mark is not set.
UnmarkedSession(s) == marked

MarkedSession(s) == [marked EXCEPT ![s] = TRUE]

MarkSession ==
    /\ pass.at = "mark"
    /\ marked' = MarkedSession(pass.s)
    /\ Beat(pass.s, pass.todo, numbers[pass.s])
    /\ UNCHANGED <<sessions, opened, last, numbers, idling, request, looked, excused>>

\* Session.invalidate: every page of it leaves
InvalidateSession ==
    /\ pass.at = "invalidate"
    /\ numbers' = [numbers EXCEPT ![pass.s] = {}]
    /\ online' = {w \in online : knows[w] \notin {pass.s} \X numbers[pass.s]}
    /\ expired' = {p \in expired : p[1] # pass.s}
    /\ PassGoes("remove")
    /\ UNCHANGED <<sessions, opened, marked, last, request, looked, excused>>

RemoveSession ==
    /\ pass.at = "remove"
    /\ sessions' = sessions \ {pass.s}
    /\ PassGoes("next")
    /\ UNCHANGED <<opened, marked, last, numbers, idling, request, looked, excused>>

\* WebPage.heartbeat: isValid
VisitPage(n) ==
    LET p == <<pass.s, n>> IN
    /\ pass.at = "beat" /\ n \in pass.pages
    /\ IF p \in expired
       THEN pass' = [pass EXCEPT !.at = "drop", !.n = n, !.pages = @ \ {n}] /\ Abandons(p)
       ELSE Beat(pass.s, pass.todo, pass.pages \ {n}) /\ UNCHANGED excused
    /\ UNCHANGED <<session, idling, request, looked>>

InvalidatePage ==
    /\ pass.at = "drop"
    /\ InvalidateWebPage(<<pass.s, pass.n>>)
    /\ Beat(pass.s, pass.todo, pass.pages)
    /\ UNCHANGED <<sessions, opened, marked, last, request, looked, excused>>

\* counter++, of which only counter % multiple matters
Sleep ==
    /\ pass.at = "next" /\ pass.todo = {}
    /\ pass' = [pass EXCEPT !.at = "asleep", !.counter = (@ + 1) % Multiple]
    /\ UNCHANGED <<session, idling, request, looked, excused>>

-----------------------------------------------------------------------------
Handle(w) == FindPage(w) \/ NewPage(w) \/ ResetCritical(w) \/ PutPage(w) \/ RegisterChannel(w)

WindowStep(w) == Handle(w) \/ Disconnects(w) \/ Gone(w) \/ \E s \in 0..MaxAsks : GetSession(w, s)

SessionTimer ==
    \/ WakeUp \/ (\E s \in SessionId : VisitSession(s)) \/ TestPages \/ MarkSession
    \/ InvalidateSession \/ RemoveSession
    \/ (\E n \in Number : VisitPage(n)) \/ InvalidatePage \/ Sleep

PublisherStep(t) == PublisherInvalidates(t) \/ \E p \in PageId : PublisherLooks(t, p)

SessionsNext ==
    \/ \E w \in Window : WindowStep(w)
    \/ \E s \in SessionId, n \in Number : Expire(s, n)
    \/ SessionTimer
    \/ \E t \in Publisher : PublisherStep(t)

SessionsSpec == SessionsInit /\ [][SessionsNext]_sessionsVars

\* Requests are handled, the timer runs for ever, and the time of a page passes.
SessionsFairness ==
    /\ WF_sessionsVars(SessionTimer)
    /\ \A w \in Window : WF_sessionsVars(Handle(w))
    /\ \A s \in SessionId, n \in Number :
          WF_sessionsVars(<<s, n>> \notin expired /\ Expire(s, n))

SessionsFairSpec == SessionsSpec /\ SessionsFairness

-----------------------------------------------------------------------------
\* The page a window was given is in its session, which the manager knows
FoundAgain ==
    \A w \in Window :
        w \notin excused /\ knows[w] # NoId =>
            /\ knows[w][1] \in sessions
            /\ knows[w][2] \in numbers[knows[w][1]]

\* Windows that share a session have different pages
PagesApart == \A v, w \in Window : knows[v] = knows[w] /\ knows[v] # NoId => v = w

(***************************************************************************)
(* The page a window was given is found by its next request, unless a      *)
(* heartbeat or a publisher found that its channel had been down for       *)
(* WEB_PAGE_MAX_IDLE_TIME (isValid), or its session was removed in the     *)
(* middle of the request that made the page: getSession found it and       *)
(* createPage came too late (isValid, invalidate and remove in the timer's *)
(* run, putPage).  And it is no other window's, though windows of one      *)
(* session ask at the same time (nextPageId).                              *)
(***************************************************************************)
Found == FoundAgain /\ PagesApart

(***************************************************************************)
(* In the end the manager has only the sessions of windows that are        *)
(* connected (the timer of SessionManagerImpl, isValid).                   *)
(***************************************************************************)
SessionsForgotten == <>[](sessions \subseteq {knows[w][1] : w \in online})
=============================================================================
