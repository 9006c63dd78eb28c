--------------------------- MODULE SessionsProofs ---------------------------
(***************************************************************************)
(* Theorems about the sessions: that a window's page is found by its next  *)
(* request and is no other window's, for any number of windows that share  *)
(* one cookie, of publishers, and for any course of the timer.             *)
(***************************************************************************)
EXTENDS Sessions, FiniteSetTheorems, TLAPS

-----------------------------------------------------------------------------
(* The inductive invariant.                                                *)

Making(w) == step[w] \in {"reset", "put"}
Made(w) == <<sess[w], num[w]>>

\* A thread found that the page is not isValid, and is about to invalidate it.
Leaving(p) ==
    \/ p # NoId /\ \E t \in Publisher : looked[t] = p
    \/ pass.at = "drop" /\ p = <<pass.s, pass.n>>

Old(p) == p \in expired \/ Leaving(p)

\* The session has given out the number.
Given(p) == p[1] \in SessionId /\ p[2] \in 1..last[p[1]]

\* A request has a session; a page that is being made has a number of it.
Requests ==
    \A w \in Window :
        /\ step[w] \notin {"idle", "register"} => sess[w] \in SessionId
        /\ Making(w) => Given(Made(w))

\* No page has a number that its session has not given out.
Numbered ==
    /\ \A s \in SessionId, n \in Number : n \in numbers[s] => Given(<<s, n>>)
    /\ \A p \in PageId : Old(p) => Given(p)
    /\ \A w \in Window : knows[w] # NoId => Given(knows[w])

\* A page that is being made is nobody's, in no session, and nobody drops it.
New ==
    \A w \in Window : Making(w) =>
        /\ ~Old(Made(w)) /\ num[w] \notin numbers[sess[w]]
        /\ \A v \in Window :
              knows[v] # Made(w) /\ (v # w /\ Making(v) => Made(v) # Made(w))

\* The window of a page that is about to be invalidated is excused.
Left == \A w \in Window : Leaving(knows[w]) => w \in excused

\* The timer has a session in its hands; one that it is removing had no page
\* of a window when it looked, and what came later came late.
Doomed ==
    /\ pass.at \notin {"asleep", "next"} => pass.s \in SessionId
    /\ pass.at = "drop" => pass.n \in Number
    /\ pass.at \in {"invalidate", "remove"} =>
          \A w \in Window : knows[w] # NoId /\ knows[w][1] = pass.s => w \in excused

\* The requests that have no number yet
Numberless(s) == {w \in Window : step[w] = "page" /\ sess[w] = s}

\* A session or a number is given out once in a request.
Counted ==
    /\ opened <= asks
    /\ \A s \in SessionId :
          IsFiniteSet(Numberless(s)) /\ last[s] + Cardinality(Numberless(s)) <= asks

IInv ==
    /\ SessionsTypeOK /\ Requests /\ Numbered /\ New /\ Left
    /\ Doomed /\ Counted /\ FoundAgain /\ PagesApart

-----------------------------------------------------------------------------
(* Types                                                                   *)

TimerType ==
    [at : PassSteps, s : 0..MaxAsks, todo : SUBSET SessionId,
     counter : 0..(Multiple - 1), n : 0..MaxAsks, pages : SUBSET Number]

WindowSteps == {"idle", "page", "reset", "put", "register"}

\* A heartbeat goes on with the pages that are left, or to the next session.
LEMMA BeatGoes ==
    ASSUME pass \in TimerType, NEW s \in SessionId, NEW todo \in SUBSET SessionId,
           NEW rest \in SUBSET Number, SessionsAssumption, Beat(s, todo, rest)
    PROVE  /\ pass' \in TimerType /\ pass'.at \in {"next", "beat"}
           /\ pass'.at = "beat" => pass'.s = s
PROOF
<1>1. 0 \in 0..MaxAsks /\ s \in 0..MaxAsks
    BY DEF SessionsAssumption, SessionId
<1>2. pass' = [pass EXCEPT !.at = IF rest = {} THEN "next" ELSE "beat", !.todo = todo,
                           !.s = IF rest = {} THEN 0 ELSE s, !.n = 0, !.pages = rest]
    BY DEF Beat
<1>3. CASE rest = {}
    BY ONLY <1>1, <1>2, <1>3, pass \in TimerType, todo \in SUBSET SessionId,
       rest \in SUBSET Number DEF TimerType, PassSteps
<1>4. CASE rest # {}
    BY ONLY <1>1, <1>2, <1>4, pass \in TimerType, todo \in SUBSET SessionId,
       rest \in SUBSET Number DEF TimerType, PassSteps
<1> QED
    BY <1>3, <1>4

\* A page that leaves takes its channel and its time with it.
LEMMA InvalidateTyped ==
    ASSUME SessionsTypeOK, NEW p \in PageId, p # NoId, InvalidateWebPage(p)
    PROVE  /\ numbers' \in [SessionId -> SUBSET Number]
           /\ online' \subseteq Window /\ expired' \subseteq PageId
PROOF
    BY DEF SessionsTypeOK, InvalidateWebPage, PageId

LEMMA TypeOKStep ==
    ASSUME SessionsAssumption, SessionsTypeOK, Requests, Doomed, Counted, [SessionsNext]_sessionsVars
    PROVE  SessionsTypeOK'
PROOF
<1>0. /\ MaxAsks \in Nat /\ Multiple \in Nat \ {0}
      /\ NoId \in PageId /\ SessionsAssumption
      /\ \A s \in SessionId, n \in Number : <<s, n>> \in PageId
      /\ 0 \in 0..MaxAsks /\ \A s \in SessionId : s \in 0..MaxAsks
      /\ opened \in 0..MaxAsks /\ sessions \subseteq SessionId
      /\ numbers \in [SessionId -> SUBSET Number]
      /\ pass \in TimerType
    BY DEF SessionsAssumption, PageId, SessionsTypeOK, TimerType, SessionId
<1> USE <1>0 DEF SessionsTypeOK, SessionId, Number, session, request, idling, sessionsVars, Proceed
<1>1. ASSUME NEW w \in Window, FindPage(w)
      PROVE  SessionsTypeOK'
  <2>1. sess' \in [Window -> 0..MaxAsks] /\ step' \in [Window -> WindowSteps]
      BY <1>1 DEF FindPage, WindowSteps
  <2> QED
      BY <1>1, <2>1 DEF FindPage, WindowSteps
<1>2. ASSUME NEW w \in Window, NewPage(w)
      PROVE  SessionsTypeOK'
  <2>1. sess[w] \in SessionId
      BY <1>2 DEF NewPage, Requests
  <2>2. last[sess[w]] < MaxAsks
    <3>1. w \in Numberless(sess[w])
        BY <1>2 DEF NewPage, Numberless
    <3>2. /\ IsFiniteSet(Numberless(sess[w]))
          /\ last[sess[w]] + Cardinality(Numberless(sess[w])) <= asks
        BY <2>1 DEF Counted
    <3>3. Cardinality(Numberless(sess[w])) \in Nat \ {0}
        BY <3>1, <3>2, FS_EmptySet, FS_CardinalityType
    <3>4. last[sess[w]] \in Nat /\ asks \in Nat /\ asks <= MaxAsks
        BY <2>1
    <3> QED
        BY ONLY <1>0, <3>2, <3>3, <3>4
  <2>3. last[sess[w]] + 1 \in 0..MaxAsks
      BY <2>1, <2>2
  <2>4. last' \in [SessionId -> 0..MaxAsks] /\ num' \in [Window -> 0..MaxAsks]
      BY <1>2, <2>3 DEF NewPage, NextNumber
  <2>5. step' \in [Window -> {"idle", "page", "reset", "put", "register"}]
      BY <1>2 DEF NewPage
  <2> QED
      BY <1>2, <2>4, <2>5 DEF NewPage
<1>3. ASSUME NEW w \in Window, ResetCritical(w)
      PROVE  SessionsTypeOK'
    BY <1>3 DEF ResetCritical
<1>4. ASSUME NEW w \in Window, PutPage(w)
      PROVE  SessionsTypeOK'
  <2>1. sess[w] \in SessionId /\ num[w] \in Number
      BY <1>4 DEF PutPage, Requests, Making, Given, Made
  <2>2. knows' \in [Window -> PageId]
    <3>1. <<sess[w], num[w]>> \in PageId
        BY <2>1
    <3> QED
        BY <1>4, <3>1 DEF PutPage
  <2>3. numbers' \in [SessionId -> SUBSET Number]
      BY <1>4, <2>1 DEF PutPage
  <2>4. sess' \in [Window -> 0..MaxAsks] /\ num' \in [Window -> 0..MaxAsks]
      BY <1>4 DEF PutPage
  <2>5. step' \in [Window -> {"idle", "page", "reset", "put", "register"}]
      BY <1>4 DEF PutPage
  <2>6. online' \subseteq Window /\ excused' \subseteq Window
      BY <1>4 DEF PutPage
  <2> QED
      BY <1>4, <2>2, <2>3, <2>4, <2>5, <2>6 DEF PutPage
<1>5. ASSUME NEW w \in Window, RegisterChannel(w)
      PROVE  SessionsTypeOK'
    BY <1>5 DEF RegisterChannel
<1>6. ASSUME NEW w \in Window, Disconnects(w)
      PROVE  SessionsTypeOK'
    BY <1>6 DEF Disconnects
<1>7. ASSUME NEW w \in Window, Gone(w)
      PROVE  SessionsTypeOK'
    BY <1>7 DEF Gone
<1>8. ASSUME NEW w \in Window, NEW s \in 0..MaxAsks, GetSession(w, s)
      PROVE  SessionsTypeOK'
  <2>1. asks' \in 0..MaxAsks /\ opened + 1 \in 0..MaxAsks
      BY <1>8 DEF GetSession, Counted
  <2>2. opened' \in 0..MaxAsks /\ sessions' \subseteq 1..opened'
    <3>1. CASE s \in sessions
        BY <1>8, <3>1 DEF GetSession
    <3>2. CASE s \notin sessions
      <4>1. opened' = opened + 1 /\ sessions' = sessions \cup {opened + 1}
          BY <1>8, <3>2 DEF GetSession
      <4>2. opened \in Nat /\ sessions \subseteq 1..opened
          OBVIOUS
      <4> QED
          BY ONLY <2>1, <4>1, <4>2
    <3> QED
        BY <3>1, <3>2
  <2>3. sess' \in [Window -> 0..MaxAsks]
      BY <1>8, <2>2 DEF GetSession
  <2>4. step' \in [Window -> {"idle", "page", "reset", "put", "register"}]
      BY <1>8 DEF GetSession
  <2> QED
      BY <1>8, <2>1, <2>2, <2>3, <2>4 DEF GetSession
<1>9. ASSUME NEW s \in SessionId, NEW n \in Number, Expire(s, n)
      PROVE  SessionsTypeOK'
    BY <1>9 DEF Expire
<1>10. ASSUME WakeUp
       PROVE  SessionsTypeOK'
  <2>1. pass' \in TimerType
      BY ONLY <1>0, <1>10 DEF WakeUp, TimerType, PassSteps
  <2> QED
      BY <1>10, <2>1 DEF WakeUp, TimerType
<1>11. ASSUME NEW s \in SessionId, VisitSession(s)
       PROVE  SessionsTypeOK'
  <2>1. CASE IsHealthExamine
    <3>1. /\ pass' = [pass EXCEPT !.at = IfMarked(s), !.s = s, !.todo = @ \ {s}]
          /\ IfMarked(s) \in PassSteps
        BY <1>11, <2>1 DEF VisitSession, IfMarked, PassSteps
    <3>2. pass' \in TimerType
        BY ONLY <1>0, <3>1 DEF TimerType
    <3> QED
        BY <1>11, <3>2 DEF VisitSession, TimerType
  <2>2. CASE ~IsHealthExamine
    <3>1. pass' \in TimerType
      <4>1. Beat(s, pass.todo \ {s}, numbers[s])
          BY <1>11, <2>2 DEF VisitSession
      <4>2. pass.todo \ {s} \in SUBSET SessionId /\ numbers[s] \in SUBSET Number
          BY <1>0 DEF TimerType
      <4> QED
          BY ONLY <1>0, <4>1, <4>2, BeatGoes
    <3> QED
        BY <1>11, <3>1 DEF VisitSession, TimerType
  <2> QED
      BY <2>1, <2>2
<1>12. ASSUME TestPages
       PROVE  SessionsTypeOK'
  <2>1. pass.s \in SessionId /\ pass.todo \in SUBSET SessionId
      BY <1>0, <1>12 DEF TestPages, Doomed, TimerType
  <2>2. CASE numbers[pass.s] # {} /\ pass.at = "isEmpty"
    <3>1. Beat(pass.s, pass.todo, numbers[pass.s]) /\ numbers[pass.s] \in SUBSET Number
        BY <1>12, <2>1, <2>2 DEF TestPages
    <3>2. pass' \in TimerType
        BY ONLY <1>0, <2>1, <3>1, BeatGoes
    <3> QED
        BY <1>12, <3>2 DEF TestPages, TimerType
  <2>3. CASE ~(numbers[pass.s] # {} /\ pass.at = "isEmpty")
    <3>1. pass' \in TimerType
        BY ONLY <1>0, <1>12, <2>3 DEF TestPages, PassGoes, TimerType, PassSteps
    <3> QED
        BY <1>12, <3>1 DEF TestPages, TimerType
  <2> QED
      BY <2>2, <2>3
<1>13. ASSUME MarkSession
       PROVE  SessionsTypeOK'
  <2>1. pass.s \in SessionId /\ pass.todo \in SUBSET SessionId
      BY <1>0, <1>13 DEF MarkSession, Doomed, TimerType
  <2>2. Beat(pass.s, pass.todo, numbers[pass.s]) /\ numbers[pass.s] \in SUBSET Number
      BY <1>13, <2>1 DEF MarkSession
  <2>3. pass' \in TimerType
      BY ONLY <1>0, <2>1, <2>2, BeatGoes
  <2>4. marked' \in [SessionId -> BOOLEAN]
      BY <1>13 DEF MarkSession, MarkedSession
  <2> QED
      BY <1>13, <2>3, <2>4 DEF MarkSession, TimerType
<1>14. ASSUME InvalidateSession
       PROVE  SessionsTypeOK'
  <2>1. pass' \in TimerType
      BY ONLY <1>0, <1>14 DEF InvalidateSession, PassGoes, TimerType, PassSteps
  <2>2. numbers' \in [SessionId -> SUBSET Number]
      BY <1>14 DEF InvalidateSession
  <2> QED
      BY <1>14, <2>1, <2>2 DEF InvalidateSession, TimerType
<1>15. ASSUME RemoveSession
       PROVE  SessionsTypeOK'
  <2>1. pass' \in TimerType
    <3>1. pass' = [pass EXCEPT !.at = "next", !.s = 0]
        BY ONLY <1>15 DEF RemoveSession, PassGoes
    <3> QED
        BY ONLY <1>0, <3>1 DEF TimerType, PassSteps
  <2>2. sessions' \subseteq 1..opened'
      BY <1>15 DEF RemoveSession
  <2> QED
      BY <1>15, <2>1, <2>2 DEF RemoveSession, TimerType
<1>16. ASSUME NEW n \in Number, VisitPage(n)
       PROVE  SessionsTypeOK'
  <2>1. /\ pass.s \in SessionId /\ pass.todo \in SUBSET SessionId
        /\ pass.pages \ {n} \in SUBSET Number /\ n \in 0..MaxAsks
      BY <1>0, <1>16 DEF VisitPage, Doomed, TimerType
  <2>2. pass' \in TimerType /\ excused' \subseteq Window
    <3>1. CASE <<pass.s, n>> \in expired
      <4>1. pass' = [pass EXCEPT !.at = "drop", !.n = n, !.pages = @ \ {n}]
          BY <1>16, <3>1 DEF VisitPage
      <4>2. pass' \in TimerType
          BY ONLY <1>0, <2>1, <4>1 DEF TimerType, PassSteps
      <4> QED
          BY <1>16, <3>1, <4>2 DEF VisitPage, Abandons
    <3>2. CASE <<pass.s, n>> \notin expired
      <4>1. Beat(pass.s, pass.todo, pass.pages \ {n}) /\ UNCHANGED excused
          BY <1>16, <3>2 DEF VisitPage
      <4>2. pass' \in TimerType
          BY ONLY <1>0, <2>1, <4>1, BeatGoes
      <4>3. excused' \subseteq Window
          BY <4>1
      <4> QED
          BY <4>2, <4>3
    <3> QED
        BY <3>1, <3>2
  <2> QED
      BY <1>16, <2>2 DEF VisitPage, TimerType
<1>17. ASSUME InvalidatePage
       PROVE  SessionsTypeOK'
  <2>1. /\ pass.s \in SessionId /\ pass.n \in Number
        /\ pass.todo \in SUBSET SessionId /\ pass.pages \in SUBSET Number
      BY <1>0, <1>17 DEF InvalidatePage, Doomed, TimerType
  <2>2. pass' \in TimerType
    <3>1. Beat(pass.s, pass.todo, pass.pages)
        BY <1>17 DEF InvalidatePage
    <3> QED
        BY ONLY <1>0, <2>1, <3>1, BeatGoes
  <2>3. /\ numbers' \in [SessionId -> SUBSET Number]
        /\ online' \subseteq Window /\ expired' \subseteq PageId
    <3>1. InvalidateWebPage(<<pass.s, pass.n>>)
        BY <1>17 DEF InvalidatePage
    <3>2. <<pass.s, pass.n>> \in PageId /\ <<pass.s, pass.n>> # NoId
        BY <2>1 DEF NoId
    <3> QED
        BY <3>1, <3>2, InvalidateTyped
  <2> QED
      BY <1>17, <2>2, <2>3 DEF InvalidatePage, TimerType
<1>18. ASSUME Sleep
       PROVE  SessionsTypeOK'
  <2>1. (pass.counter + 1) % Multiple \in 0..(Multiple - 1)
    <3>1. pass.counter + 1 \in Nat
        OBVIOUS
    <3> QED
        BY <1>0, <3>1
  <2>2. pass' = [pass EXCEPT !.at = "asleep", !.counter = (@ + 1) % Multiple]
      BY <1>18 DEF Sleep
  <2>3. pass' \in TimerType
      BY ONLY <1>0, <2>1, <2>2 DEF TimerType, PassSteps
  <2> QED
      BY <1>18, <2>3 DEF Sleep, TimerType
<1>19. ASSUME NEW t \in Publisher, NEW p \in PageId, PublisherLooks(t, p)
       PROVE  SessionsTypeOK'
  <2>1. looked' \in [Publisher -> PageId] /\ excused' \subseteq Window
      BY <1>19 DEF PublisherLooks, Abandons
  <2> QED
      BY <1>19, <2>1 DEF PublisherLooks
<1>20. ASSUME NEW t \in Publisher, PublisherInvalidates(t)
       PROVE  SessionsTypeOK'
  <2>1. looked' \in [Publisher -> PageId]
      BY <1>20 DEF PublisherInvalidates
  <2>2. /\ numbers' \in [SessionId -> SUBSET Number]
        /\ online' \subseteq Window /\ expired' \subseteq PageId
      BY <1>20, InvalidateTyped DEF PublisherInvalidates
  <2> QED
      BY <1>20, <2>1, <2>2 DEF PublisherInvalidates
<1>21. ASSUME NEW w \in Window, WindowStep(w)
       PROVE  SessionsTypeOK'
    BY <1>21, <1>1, <1>2, <1>3, <1>4, <1>5, <1>6, <1>7, <1>8 DEF WindowStep,
       Handle
<1>22. ASSUME SessionTimer
       PROVE  SessionsTypeOK'
    BY <1>22, <1>10, <1>11, <1>12, <1>13, <1>14, <1>15, <1>16, <1>17, <1>18
       DEF SessionTimer
<1>23. ASSUME NEW t \in Publisher, PublisherStep(t)
       PROVE  SessionsTypeOK'
    BY <1>23, <1>19, <1>20 DEF PublisherStep
<1>24. CASE UNCHANGED sessionsVars
    BY <1>24
<1> QED
    BY <1>21, <1>22, <1>23, <1>24, <1>9 DEF SessionsNext

-----------------------------------------------------------------------------
(* Numbers                                                                 *)

\* What the timer, the publishers and time leave as it is: requests, and the
\* numbers given out.  Pages that they take hold of were in their session.
Quiet ==
    /\ UNCHANGED <<opened, last, knows, step, sess, num, asks>>
    /\ \A s \in SessionId : numbers'[s] \subseteq numbers[s]
    /\ \A p \in PageId :
          Old(p)' => Old(p) \/ (p[1] \in SessionId /\ p[2] \in numbers[p[1]])

LEMMA QuietStep ==
    ASSUME SessionsTypeOK,
           \/ \E w \in Window : Disconnects(w)
           \/ \E s \in SessionId, n \in Number : Expire(s, n)
           \/ SessionTimer \/ \E t \in Publisher : PublisherStep(t)
           \/ UNCHANGED sessionsVars
    PROVE  Quiet
PROOF
<1>0. /\ pass \in TimerType /\ numbers \in [SessionId -> SUBSET Number]
      /\ looked \in [Publisher -> PageId]
    BY DEF SessionsTypeOK, TimerType
<1> USE DEF Quiet, Old, Leaving, session, request, idling
<1>1. ASSUME NEW w \in Window, Disconnects(w)
      PROVE  Quiet
    BY <1>1 DEF Disconnects
<1>2. ASSUME NEW s \in SessionId, NEW n \in Number, Expire(s, n)
      PROVE  Quiet
  <2>1. /\ n \in numbers[s] /\ expired' = expired \cup {<<s, n>>}
        /\ UNCHANGED <<looked, pass, numbers>>
      BY <1>2 DEF Expire
  <2> QED
      BY <1>2, <2>1 DEF Expire
<1>3. ASSUME WakeUp
      PROVE  Quiet
  <2>1. pass'.at # "drop" /\ UNCHANGED <<expired, looked, numbers>>
      BY <1>0, <1>3 DEF WakeUp, TimerType
  <2> QED
      BY <1>3, <2>1 DEF WakeUp
<1>4. ASSUME NEW s \in SessionId, VisitSession(s)
      PROVE  Quiet
  <2>1. pass'.at # "drop" /\ UNCHANGED <<expired, looked, numbers>>
    <3>1. CASE IsHealthExamine
      <4>1. pass' = [pass EXCEPT !.at = IfMarked(s), !.s = s, !.todo = @ \ {s}]
          BY <1>4, <3>1 DEF VisitSession
      <4>2. pass'.at # "drop"
          BY <1>0, <4>1 DEF TimerType, IfMarked
      <4> QED
          BY <1>4, <4>2 DEF VisitSession
    <3>2. CASE ~IsHealthExamine
        BY <1>0, <1>4, <3>2 DEF VisitSession, Beat, TimerType
    <3> QED
        BY <3>1, <3>2
  <2> QED
      BY <1>4, <2>1 DEF VisitSession
<1>5. ASSUME TestPages
      PROVE  Quiet
  <2>1. pass'.at # "drop" /\ UNCHANGED <<expired, looked, numbers>>
      BY <1>0, <1>5 DEF TestPages, PassGoes, Beat, TimerType
  <2> QED
      BY <1>5, <2>1 DEF TestPages
<1>6. ASSUME MarkSession
      PROVE  Quiet
  <2>1. pass'.at # "drop" /\ UNCHANGED <<expired, looked, numbers>>
      BY <1>0, <1>6 DEF MarkSession, Beat, TimerType
  <2> QED
      BY <1>6, <2>1 DEF MarkSession
<1>7. ASSUME InvalidateSession
      PROVE  Quiet
  <2>1. pass'.at # "drop" /\ expired' \subseteq expired /\ UNCHANGED looked
      BY <1>0, <1>7 DEF InvalidateSession, PassGoes, TimerType
  <2>2. \A s \in SessionId : numbers'[s] \subseteq numbers[s]
      BY <1>0, <1>7 DEF InvalidateSession
  <2> QED
      BY <1>7, <2>1, <2>2 DEF InvalidateSession
<1>8. ASSUME RemoveSession
      PROVE  Quiet
  <2>1. pass'.at # "drop" /\ UNCHANGED <<expired, looked, numbers>>
      BY <1>0, <1>8 DEF RemoveSession, PassGoes, TimerType
  <2> QED
      BY <1>8, <2>1 DEF RemoveSession
<1>9. ASSUME NEW n \in Number, VisitPage(n)
      PROVE  Quiet
  <2>1. UNCHANGED <<expired, looked, numbers>>
      BY <1>9 DEF VisitPage
  <2>2. pass'.at = "drop" => <<pass'.s, pass'.n>> \in expired
    <3>1. CASE <<pass.s, n>> \in expired
        BY <1>0, <1>9, <3>1 DEF VisitPage, TimerType
    <3>2. CASE <<pass.s, n>> \notin expired
        BY <1>0, <1>9, <3>2 DEF VisitPage, Beat, TimerType
    <3> QED
        BY <3>1, <3>2
  <2> QED
      BY <1>9, <2>1, <2>2 DEF VisitPage
<1>10. ASSUME InvalidatePage
       PROVE  Quiet
  <2>1. pass'.at # "drop" /\ expired' \subseteq expired /\ UNCHANGED looked
      BY <1>0, <1>10 DEF InvalidatePage, InvalidateWebPage, Beat, TimerType
  <2>2. \A s \in SessionId : numbers'[s] \subseteq numbers[s]
      BY <1>0, <1>10 DEF InvalidatePage, InvalidateWebPage
  <2> QED
      BY <1>10, <2>1, <2>2 DEF InvalidatePage
<1>11. ASSUME Sleep
       PROVE  Quiet
  <2>1. pass'.at # "drop" /\ UNCHANGED <<expired, looked, numbers>>
      BY <1>0, <1>11 DEF Sleep, TimerType
  <2> QED
      BY <1>11, <2>1 DEF Sleep
<1>12. ASSUME NEW t \in Publisher, NEW p \in PageId, PublisherLooks(t, p)
       PROVE  Quiet
  <2>1. /\ p \in expired /\ UNCHANGED <<expired, pass, numbers>>
        /\ \A r \in Publisher : looked'[r] \in {looked[r], p}
      BY <1>0, <1>12 DEF PublisherLooks
  <2> QED
      BY <1>12, <2>1 DEF PublisherLooks
<1>13. ASSUME NEW t \in Publisher, PublisherInvalidates(t)
       PROVE  Quiet
  <2>1. /\ expired' \subseteq expired /\ UNCHANGED pass
        /\ \A r \in Publisher : looked'[r] \in {looked[r], NoId}
      BY <1>0, <1>13 DEF PublisherInvalidates, InvalidateWebPage
  <2>2. \A s \in SessionId : numbers'[s] \subseteq numbers[s]
      BY <1>0, <1>13 DEF PublisherInvalidates, InvalidateWebPage
  <2> QED
      BY <1>13, <2>1, <2>2 DEF PublisherInvalidates
<1>14. CASE SessionTimer
    BY <1>14, <1>3, <1>4, <1>5, <1>6, <1>7, <1>8, <1>9, <1>10, <1>11 DEF
       SessionTimer
<1>15. CASE UNCHANGED sessionsVars
    BY <1>15 DEF sessionsVars
<1> QED
    BY <1>14, <1>15, <1>1, <1>2, <1>12, <1>13 DEF PublisherStep

LEMMA RequestsStep ==
    ASSUME SessionsAssumption, SessionsTypeOK, SessionsTypeOK', Requests, Numbered,
           [SessionsNext]_sessionsVars
    PROVE  Requests' /\ Numbered'
PROOF
<1>0. /\ last \in [SessionId -> 0..MaxAsks] /\ sess \in [Window -> 0..MaxAsks]
      /\ num \in [Window -> 0..MaxAsks] /\ step \in [Window -> WindowSteps]
      /\ knows \in [Window -> PageId] /\ numbers \in [SessionId -> SUBSET Number]
      /\ sessions \subseteq SessionId /\ MaxAsks \in Nat
    BY DEF SessionsTypeOK, WindowSteps, SessionsAssumption, SessionId
<1> USE DEF session, request, idling, Proceed
<1>1. ASSUME NEW w \in Window, FindPage(w)
      PROVE  Requests' /\ Numbered'
  <2>1. /\ UNCHANGED <<last, numbers, looked, pass, knows, num>> /\ expired' \subseteq expired
        /\ \A v \in Window : step'[v] \notin {"idle", "register"} => step[v] = step'[v] /\ sess'[v] = sess[v]
      BY <1>0, <1>1 DEF FindPage
  <2>2. Requests'
      BY ONLY Requests, <2>1 DEF Requests, Given, Making, Made
  <2>3. Numbered'
      BY ONLY Numbered, <2>1 DEF Numbered, Given, Old, Leaving
  <2> QED
      BY <2>2, <2>3
<1>2. ASSUME NEW w \in Window, NewPage(w)
      PROVE  Requests' /\ Numbered'
  <2> DEFINE s == sess[w]
  <2>1. s \in SessionId /\ last[s] \in Nat
      BY <1>0, <1>2 DEF NewPage, Requests
  <2>2. last'[s] = last[s] + 1 /\ \A r \in SessionId \ {s} : last'[r] = last[r]
      BY <1>0, <1>2, <2>1 DEF NewPage, NextNumber
  <2>3. \A p : Given(p) => Given(p)'
    <3> SUFFICES ASSUME NEW p, Given(p)
                 PROVE  p[1] \in SessionId /\ p[2] \in 1..last'[p[1]]
        BY DEF Given
    <3>1. last[p[1]] \in Nat /\ last'[p[1]] \in Nat /\ last[p[1]] <= last'[p[1]]
        BY <1>0, <2>1, <2>2 DEF Given
    <3> QED
        BY <3>1 DEF Given
  <2>4. /\ num'[w] = last[s] + 1 /\ \A v \in Window \ {w} : num'[v] = num[v]
        /\ step[w] = "page" /\ step'[w] = "reset"
        /\ \A v \in Window \ {w} : step'[v] = step[v]
        /\ UNCHANGED <<sess, numbers, expired, looked, pass, knows>>
      BY <1>0, <1>2 DEF NewPage
  <2>5. Given(Made(w))'
    <3>1. num'[w] \in 1..last'[s]
        BY ONLY <2>1, <2>2, <2>4
    <3> QED
        BY <2>1, <2>4, <3>1 DEF Given, Made
  <2>6. \A v \in Window \ {w} : Made(v)' = Made(v) /\ (Making(v)' => Making(v))
      BY ONLY <2>4 DEF Made, Making
  <2>7. Requests'
    <3> HIDE DEF s
    <3>1. \A v \in Window : step'[v] \notin {"idle", "register"} => sess'[v] \in SessionId
        BY <2>1, <2>4 DEF Requests, s
    <3>2. \A v \in Window : Making(v)' => Given(Made(v))'
      <4> TAKE v \in Window
      <4> HAVE Making(v)'
      <4>1. CASE v = w
          BY ONLY <2>5, <4>1
      <4>2. CASE v # w
        <5>1. Making(v) /\ Made(v)' = Made(v) /\ Given(Made(v))
            BY <2>6, <4>2 DEF Requests
        <5>2. Given(Made(v)) => Made(v)[1] \in SessionId /\ Made(v)[2] \in 1..last'[Made(v)[1]]
            BY <2>3 DEF Given
        <5> QED
            BY ONLY <5>1, <5>2 DEF Given
      <4> QED
          BY <4>1, <4>2
    <3> QED
        BY <3>1, <3>2 DEF Requests
  <2>8. Numbered'
    <3> HIDE DEF s
    <3>1. \A p \in PageId : Old(p)' => Old(p)
        BY ONLY <2>4 DEF Old, Leaving
    <3>2. \A p : Given(p) => p[1] \in SessionId /\ p[2] \in 1..last'[p[1]]
        BY <2>3 DEF Given
    <3>3. \A p \in PageId : Old(p)' => p[1] \in SessionId /\ p[2] \in 1..last'[p[1]]
        BY ONLY Numbered, <3>1, <3>2 DEF Numbered
    <3>4. \A r \in SessionId, n \in Number : n \in numbers'[r] =>
             <<r, n>>[1] \in SessionId /\ <<r, n>>[2] \in 1..last'[<<r, n>>[1]]
        BY ONLY Numbered, <2>4, <3>2 DEF Numbered
    <3>5. \A v \in Window : knows'[v] # NoId =>
             knows'[v][1] \in SessionId /\ knows'[v][2] \in 1..last'[knows'[v][1]]
        BY ONLY Numbered, <2>4, <3>2 DEF Numbered
    <3> QED
        BY ONLY <3>3, <3>4, <3>5 DEF Numbered, Given
  <2> QED
      BY <2>7, <2>8
<1>3. ASSUME NEW w \in Window, ResetCritical(w)
      PROVE  Requests' /\ Numbered'
  <2>1. /\ UNCHANGED <<last, numbers, looked, pass, expired, knows, num, sess>>
        /\ \A v \in Window :
              /\ step'[v] \in {"idle", "register"} <=> step[v] \in {"idle", "register"}
              /\ step'[v] \in {"reset", "put"} <=> step[v] \in {"reset", "put"}
      BY <1>0, <1>3 DEF ResetCritical
  <2>2. Requests'
      BY ONLY Requests, <2>1 DEF Requests, Given, Making, Made
  <2>3. Numbered'
      BY ONLY Numbered, <2>1 DEF Numbered, Given, Old, Leaving
  <2> QED
      BY <2>2, <2>3
<1>4. ASSUME NEW w \in Window, PutPage(w)
      PROVE  Requests' /\ Numbered'
  <2>1. /\ step[w] = "put" /\ sess[w] \in SessionId /\ Given(Made(w)) /\ num[w] \in Number
        /\ knows'[w] = Made(w) /\ \A v \in Window \ {w} : knows'[v] = knows[v]
        /\ \A v \in Window \ {w} : sess'[v] = sess[v] /\ num'[v] = num[v]
        /\ step'[w] = "register" /\ \A v \in Window \ {w} : step'[v] = step[v]
        /\ UNCHANGED <<last, expired, looked, pass>>
    <3>1. Given(Made(w)) /\ sess[w] \in SessionId
        BY <1>4 DEF PutPage, Requests, Making
    <3>2. num[w] \in Number
        BY <1>0, <3>1 DEF Given, Made, Number
    <3> QED
        BY <1>0, <1>4, <3>1, <3>2 DEF PutPage, Made
  <2>2. Requests'
    <3>1. \A v \in Window \ {w} : Made(v)' = Made(v) /\ Making(v)' = Making(v)
        BY ONLY <2>1 DEF Made, Making
    <3>2. ~Making(w)'
        BY ONLY <2>1 DEF Making
    <3> QED
        BY ONLY Requests, <2>1, <3>1, <3>2 DEF Requests, Given
  <2>3. \A r \in SessionId, n \in Number : n \in numbers'[r] =>
            n \in numbers[r] \/ <<r, n>> = Made(w)
      BY <1>0, <1>4, <2>1 DEF PutPage, Made
  <2>4. Numbered'
      BY ONLY Numbered, <2>1, <2>3 DEF Numbered, Given, Old, Leaving
  <2> QED
      BY <2>2, <2>4
<1>5. ASSUME NEW w \in Window, RegisterChannel(w)
      PROVE  Requests' /\ Numbered'
  <2>1. /\ UNCHANGED <<last, numbers, looked, pass, knows, num>> /\ expired' \subseteq expired
        /\ \A v \in Window : step'[v] \notin {"idle", "register"} => step[v] = step'[v] /\ sess'[v] = sess[v]
      BY <1>0, <1>5 DEF RegisterChannel
  <2>2. Requests'
      BY ONLY Requests, <2>1 DEF Requests, Given, Making, Made
  <2>3. Numbered'
      BY ONLY Numbered, <2>1 DEF Numbered, Given, Old, Leaving
  <2> QED
      BY <2>2, <2>3
<1>6. ASSUME NEW w \in Window, Gone(w)
      PROVE  Requests' /\ Numbered'
  <2>1. /\ UNCHANGED <<last, numbers, looked, pass, num>> /\ expired' \subseteq expired
        /\ \A v \in Window : step'[v] \notin {"idle", "register"} => step[v] = step'[v] /\ sess'[v] = sess[v]
        /\ \A v \in Window : knows'[v] \in {knows[v], NoId}
      BY <1>0, <1>6 DEF Gone
  <2>2. Requests'
      BY ONLY Requests, <2>1 DEF Requests, Given, Making, Made
  <2>3. Numbered'
      BY ONLY Numbered, <2>1 DEF Numbered, Given, Old, Leaving
  <2> QED
      BY <2>2, <2>3
<1>7. ASSUME NEW w \in Window, NEW s \in 0..MaxAsks, GetSession(w, s)
      PROVE  Requests' /\ Numbered'
  <2>1. /\ UNCHANGED <<last, numbers, expired, looked, pass, knows, num>>
        /\ step'[w] = "page" /\ \A v \in Window \ {w} : step'[v] = step[v]
        /\ \A v \in Window \ {w} : sess'[v] = sess[v]
      BY <1>0, <1>7 DEF GetSession
  <2>2. sess'[w] \in SessionId
    <3>1. CASE s \in sessions
        BY <1>0, <1>7, <3>1 DEF GetSession
    <3>2. CASE s \notin sessions
      <4>1. sess'[w] = opened' /\ opened' = opened + 1
          BY <1>0, <1>7, <3>2 DEF GetSession
      <4>2. opened' \in 0..MaxAsks /\ opened \in Nat
          BY DEF SessionsTypeOK
      <4> QED
          BY ONLY <4>1, <4>2 DEF SessionId
    <3> QED
        BY <3>1, <3>2
  <2>3. Requests'
      BY ONLY Requests, <2>1, <2>2 DEF Requests, Given, Making, Made
  <2>4. Numbered'
      BY ONLY Numbered, <2>1 DEF Numbered, Given, Old, Leaving
  <2> QED
      BY <2>3, <2>4
<1>8. CASE Quiet
  <2>1. \A p \in PageId : Old(p)' => Given(p)
    <3>1. \A p \in PageId : p[1] \in SessionId => p[2] \in Number /\ p = <<p[1], p[2]>>
        BY DEF PageId, NoId, SessionId
    <3> QED
        BY ONLY <1>8, Numbered, <3>1 DEF Quiet, Numbered
  <2>2. Requests'
      BY ONLY Requests, <1>8 DEF Quiet, Requests, Given, Making, Made
  <2>3. Numbered'
      BY ONLY <1>8, <2>1, Numbered DEF Quiet, Numbered, Given
  <2> QED
      BY <2>2, <2>3
<1> QED
    BY <1>1, <1>2, <1>3, <1>4, <1>5, <1>6, <1>7, <1>8, QuietStep DEF
       SessionsNext, WindowStep, Handle

\* Where no page is begun and none is learnt, what holds of pages in the
\* making stays.
LEMMA NewKept ==
    ASSUME New, PagesApart, UNCHANGED knows,
           \A w \in Window : Making(w)' =>
               /\ Making(w) /\ UNCHANGED <<sess[w], num[w]>>
               /\ ~Old(<<sess[w], num[w]>>)'
               /\ num'[w] \notin numbers'[sess'[w]]
    PROVE  New' /\ PagesApart'
PROOF
<1>1. \A w \in Window : Making(w)' => /\ Made(w)' = Made(w) /\ Making(w)
                                      /\ Made(w)' = <<sess[w], num[w]>>
    BY DEF Made
<1>2. New'
  <2>1. ASSUME NEW w \in Window, Making(w)'
        PROVE  ~Old(Made(w))' /\ num'[w] \notin numbers'[sess'[w]]
    <3>1. sess'[w] = sess[w] /\ num'[w] = num[w] /\ ~Old(<<sess[w], num[w]>>)'
        BY <2>1
    <3> QED
        BY <2>1, <3>1 DEF Made, Old, Leaving
  <2>2. ASSUME NEW w \in Window, NEW v \in Window, Making(w)'
        PROVE  knows'[v] # Made(w)' /\ (v # w /\ Making(v)' => Made(v)' # Made(w)')
      BY <1>1, <2>2 DEF New
  <2> QED
      BY ONLY <2>1, <2>2 DEF New
<1>3. PagesApart'
    BY DEF PagesApart
<1> QED
    BY <1>2, <1>3

LEMMA NewStep ==
    ASSUME SessionsAssumption, SessionsTypeOK, SessionsTypeOK', Requests, Numbered, New,
           PagesApart, [SessionsNext]_sessionsVars
    PROVE  New' /\ PagesApart'
PROOF
<1>0. /\ last \in [SessionId -> 0..MaxAsks] /\ sess \in [Window -> 0..MaxAsks]
      /\ num \in [Window -> 0..MaxAsks] /\ step \in [Window -> WindowSteps]
      /\ knows \in [Window -> PageId] /\ numbers \in [SessionId -> SUBSET Number]
      /\ sessions \subseteq SessionId /\ MaxAsks \in Nat
    BY DEF SessionsTypeOK, WindowSteps, SessionsAssumption, SessionId
<1>x. \A w \in Window : Making(w) => Given(Made(w)) /\ sess[w] \in SessionId /\ Made(w) \in PageId
  <2> SUFFICES ASSUME NEW w \in Window, Making(w)
               PROVE  Given(Made(w)) /\ sess[w] \in SessionId /\ Made(w) \in PageId
      OBVIOUS
  <2>1. Given(Made(w)) /\ sess[w] \in SessionId
      BY DEF Requests, Given, Made
  <2>2. num[w] \in Number
      BY <1>0, <2>1 DEF Given, Made, Number
  <2> QED
      BY <2>1, <2>2 DEF Made, PageId
<1>y. \A w \in Window : Making(w) =>
          /\ sess[w] \in SessionId /\ <<sess[w], num[w]>> \in PageId
          /\ ~Old(<<sess[w], num[w]>>)
    BY <1>x DEF New, Made
<1> USE DEF session, request, idling, Proceed
<1>1. ASSUME NEW w \in Window, FindPage(w)
      PROVE  New' /\ PagesApart'
  <2>1. /\ UNCHANGED <<knows, numbers, looked, pass>> /\ expired' \subseteq expired
        /\ \A v \in Window : Making(v)' => Making(v) /\ UNCHANGED <<sess[v], num[v]>>
      BY <1>0, <1>1 DEF FindPage, Making
  <2>2. \A v \in Window : Making(v)' => ~Old(<<sess[v], num[v]>>)'
      BY ONLY <1>y, <2>1 DEF Old, Leaving
  <2>3. \A v \in Window : Making(v) => num[v] \notin numbers[sess[v]]
      BY DEF New
  <2> QED
      BY <2>1, <2>2, <2>3, NewKept
<1>2. ASSUME NEW w \in Window, NewPage(w)
      PROVE  New' /\ PagesApart'
  <2> DEFINE s == sess[w]
              p == <<s, last[s] + 1>>
  <2>1. /\ s \in SessionId /\ last[s] \in Nat
        /\ num'[w] = last[s] + 1 /\ \A v \in Window \ {w} : num'[v] = num[v]
        /\ step[w] = "page" /\ step'[w] = "reset"
        /\ \A v \in Window \ {w} : step'[v] = step[v]
        /\ UNCHANGED <<sess, numbers, expired, knows, looked, pass>>
      BY <1>0, <1>2 DEF NewPage, Requests
  <2>2. ~Given(p) /\ p \in PageId /\ last[s] + 1 \in Number
    <3>1. last'[s] \in 0..MaxAsks
        BY <2>1 DEF SessionsTypeOK
    <3>2. last'[s] = last[s] + 1
        BY <1>0, <1>2, <2>1 DEF NewPage, NextNumber
    <3> QED
        BY <1>0, <2>1, <3>1, <3>2 DEF Given, PageId, Number
  <2>3. /\ ~Old(p) /\ last[s] + 1 \notin numbers[s]
        /\ \A v \in Window : knows[v] # p
        /\ \A v \in Window : Making(v) => Made(v) # p
    <3> HIDE DEF p
    <3>1. ~Old(p) /\ \A v \in Window : Making(v) => Made(v) # p
        BY ONLY <2>2, Requests, Numbered DEF Numbered, Requests
    <3>2. p # NoId /\ p = <<s, last[s] + 1>>
        BY <2>1 DEF p, NoId, SessionId
    <3>3. \A v \in Window : knows[v] # p
        BY ONLY <2>2, <3>2, Numbered DEF Numbered
    <3>4. last[s] + 1 \notin numbers[s]
        BY ONLY <2>1, <2>2, <3>2, Numbered DEF Numbered
    <3> QED
        BY <3>1, <3>3, <3>4
  <2>4. /\ Made(w)' = p /\ ~Making(w)
        /\ \A v \in Window \ {w} : Made(v)' = Made(v) /\ Making(v)' = Making(v)
      BY <2>1 DEF Made, Making
  <2>5. New'
    <3> HIDE DEF p, s
    <3>1. ASSUME NEW v \in Window, Making(v)'
          PROVE  ~Old(Made(v))' /\ num'[v] \notin numbers'[sess'[v]]
      <4>1. CASE v = w
        <5>1. num'[w] = last[s] + 1 /\ sess'[w] = s
            BY <2>1 DEF s
        <5> QED
            BY <2>1, <2>3, <2>4, <4>1, <5>1 DEF Old, Leaving
      <4>2. CASE v # w
        <5>1. Made(v)' = Made(v) /\ Making(v) /\ num'[v] = num[v]
            BY <2>1, <2>4, <3>1, <4>2
        <5>2. ~Old(Made(v)) /\ num[v] \notin numbers[sess[v]]
            BY <5>1 DEF New
        <5> QED
            BY <2>1, <5>1, <5>2 DEF Old, Leaving
      <4> QED
          BY <4>1, <4>2
    <3>2. ASSUME NEW v \in Window, NEW u \in Window, Making(v)'
          PROVE  knows'[u] # Made(v)' /\ (u # v /\ Making(u)' => Made(u)' # Made(v)')
      <4>1. knows' = knows
          BY <2>1
      <4> QED
          BY ONLY <2>3, <2>4, <3>2, <4>1, New DEF New
    <3> QED
        BY ONLY <3>1, <3>2 DEF New
  <2>6. PagesApart'
      BY <2>1 DEF PagesApart
  <2> QED
      BY <2>5, <2>6
<1>3. ASSUME NEW w \in Window, ResetCritical(w)
      PROVE  New' /\ PagesApart'
  <2>1. /\ UNCHANGED <<knows, numbers, looked, pass>> /\ expired' \subseteq expired
        /\ \A v \in Window : Making(v)' => Making(v) /\ UNCHANGED <<sess[v], num[v]>>
      BY <1>0, <1>3 DEF ResetCritical, Making
  <2>2. \A v \in Window : Making(v)' => ~Old(<<sess[v], num[v]>>)'
      BY ONLY <1>y, <2>1 DEF Old, Leaving
  <2>3. \A v \in Window : Making(v) => num[v] \notin numbers[sess[v]]
      BY DEF New
  <2> QED
      BY <2>1, <2>2, <2>3, NewKept
<1>4. ASSUME NEW w \in Window, PutPage(w)
      PROVE  New' /\ PagesApart'
  <2>1. /\ Making(w) /\ ~Making(w)' /\ sess[w] \in SessionId
        /\ knows'[w] = Made(w) /\ \A v \in Window \ {w} : knows'[v] = knows[v]
        /\ numbers' = [numbers EXCEPT ![sess[w]] = @ \cup {num[w]}]
        /\ UNCHANGED <<expired, looked, pass>>
        /\ \A v \in Window \ {w} :
              sess'[v] = sess[v] /\ num'[v] = num[v] /\ step'[v] = step[v]
      BY <1>0, <1>x, <1>4 DEF PutPage, Making, Made
  <2>2. \A v \in Window \ {w} : Making(v)' = Making(v) /\ Made(v)' = Made(v)
      BY <2>1 DEF Making, Made
  <2>3. ASSUME NEW v \in Window, Making(v)'
        PROVE  /\ v # w /\ Making(v) /\ Made(v)' = Made(v) /\ Made(v) # Made(w)
               /\ ~Old(Made(v))' /\ num'[v] \notin numbers'[sess'[v]]
    <3>1. v # w /\ Making(v) /\ Made(v)' = Made(v)
        BY <2>1, <2>2, <2>3
    <3>2. num[v] \notin numbers[sess[v]] /\ Made(v) # Made(w) /\ ~Old(Made(v))
        BY <2>1, <3>1 DEF New
    <3>3. sess[v] \in SessionId
        BY <1>x, <3>1
    <3>4. numbers'[sess[v]] = IF sess[v] = sess[w] THEN numbers[sess[v]] \cup {num[w]}
                                                 ELSE numbers[sess[v]]
        BY <1>0, <2>1, <3>3
    <3>5. num[v] \notin numbers'[sess[v]]
        BY ONLY <3>2, <3>4 DEF Made
    <3>6. ~Old(Made(v))'
        BY ONLY <2>1, <3>1, <3>2 DEF Old, Leaving
    <3> QED
        BY <2>1, <3>1, <3>2, <3>5, <3>6
  <2>4. New'
    <3>1. ASSUME NEW v \in Window, NEW u \in Window, Making(v)'
          PROVE  knows'[u] # Made(v)' /\ (u # v /\ Making(u)' => Made(u)' # Made(v)')
        BY ONLY <2>1, <2>3, <3>1, New DEF New
    <3> QED
        BY ONLY <2>3, <3>1 DEF New
  <2>5. PagesApart'
    <3>1. \A v \in Window \ {w} : knows[v] # Made(w)
        BY <2>1 DEF New
    <3> QED
        BY ONLY <2>1, <3>1, PagesApart DEF PagesApart
  <2> QED
      BY <2>4, <2>5
<1>5. ASSUME NEW w \in Window, RegisterChannel(w)
      PROVE  New' /\ PagesApart'
  <2>1. /\ UNCHANGED <<knows, numbers, looked, pass>> /\ expired' \subseteq expired
        /\ \A v \in Window : Making(v)' => Making(v) /\ UNCHANGED <<sess[v], num[v]>>
      BY <1>0, <1>5 DEF RegisterChannel, Making
  <2>2. \A v \in Window : Making(v)' => ~Old(<<sess[v], num[v]>>)'
      BY ONLY <1>y, <2>1 DEF Old, Leaving
  <2>3. \A v \in Window : Making(v) => num[v] \notin numbers[sess[v]]
      BY DEF New
  <2> QED
      BY <2>1, <2>2, <2>3, NewKept
<1>6. ASSUME NEW w \in Window, Gone(w)
      PROVE  New' /\ PagesApart'
  <2>1. /\ knows'[w] = NoId /\ \A v \in Window \ {w} : knows'[v] = knows[v]
        /\ UNCHANGED <<numbers, expired, looked, pass, step, sess, num>>
      BY <1>0, <1>6 DEF Gone
  <2>2. \A v \in Window : Making(v) => Made(v) # NoId
    <3>1. 0 \notin SessionId
        BY <1>0 DEF SessionId
    <3> QED
        BY ONLY <1>x, <3>1 DEF NoId, Made
  <2>3. /\ \A v \in Window : Making(v)' = Making(v) /\ Made(v)' = Made(v)
        /\ \A p : Old(p)' = Old(p)
      BY <2>1 DEF Making, Made, Old, Leaving
  <2>4. New'
    <3>1. ASSUME NEW v \in Window, NEW u \in Window, Making(v)'
          PROVE  knows'[u] # Made(v)' /\ (u # v /\ Making(u)' => Made(u)' # Made(v)')
        BY ONLY <2>1, <2>2, <2>3, <3>1, New DEF New
    <3>2. ASSUME NEW v \in Window, Making(v)'
          PROVE  ~Old(Made(v))' /\ num'[v] \notin numbers'[sess'[v]]
        BY ONLY <2>1, <2>3, <3>2, New DEF New, Making, Made, Old, Leaving
    <3> QED
        BY ONLY <3>1, <3>2 DEF New
  <2>5. PagesApart'
      BY ONLY <2>1, PagesApart DEF PagesApart
  <2> QED
      BY <2>4, <2>5
<1>7. ASSUME NEW w \in Window, NEW s \in 0..MaxAsks, GetSession(w, s)
      PROVE  New' /\ PagesApart'
  <2>1. /\ UNCHANGED <<knows, numbers, looked, pass>> /\ expired' \subseteq expired
        /\ \A v \in Window : Making(v)' => Making(v) /\ UNCHANGED <<sess[v], num[v]>>
      BY <1>0, <1>7 DEF GetSession, Making
  <2>2. \A v \in Window : Making(v)' => ~Old(<<sess[v], num[v]>>)'
      BY ONLY <1>y, <2>1 DEF Old, Leaving
  <2>3. \A v \in Window : Making(v) => num[v] \notin numbers[sess[v]]
      BY DEF New
  <2> QED
      BY <2>1, <2>2, <2>3, NewKept
<1>8. CASE Quiet
  <2>1. ASSUME NEW v \in Window, Making(v)'
        PROVE  /\ Making(v) /\ UNCHANGED <<sess[v], num[v]>>
               /\ ~Old(<<sess[v], num[v]>>)' /\ num'[v] \notin numbers'[sess'[v]]
    <3> DEFINE p == <<sess[v], num[v]>>
    <3>1. Making(v) /\ UNCHANGED <<sess[v], num[v]>>
        BY <1>8, <2>1 DEF Quiet, Making
    <3>2. ~Old(p) /\ num[v] \notin numbers[sess[v]] /\ p \in PageId /\ sess[v] \in SessionId
        BY <1>0, <1>y, <3>1 DEF New, Made
    <3>3. ~Old(p)'
        BY <1>8, <3>1, <3>2 DEF Quiet, Old, Leaving
    <3> QED
        BY <1>8, <3>1, <3>2, <3>3 DEF Quiet, Old, Leaving
  <2> QED
      BY <1>8, <2>1, NewKept DEF Quiet
<1> QED
    BY <1>1, <1>2, <1>3, <1>4, <1>5, <1>6, <1>7, <1>8, QuietStep DEF
       SessionsNext, WindowStep, Handle

-----------------------------------------------------------------------------
(* Sessions and pages that are removed                                     *)

\* An invalidated page was nobody's who is not excused.
LEMMA PageLeaves ==
    ASSUME SessionsTypeOK, Left, FoundAgain, NEW p \in PageId \ {NoId}, Leaving(p),
           InvalidateWebPage(p), UNCHANGED <<knows, sessions, excused>>
    PROVE  FoundAgain'
PROOF
<1>1. SUFFICES ASSUME NEW w \in Window, w \notin excused, knows[w] # NoId
               PROVE  knows[w][2] \in numbers'[knows[w][1]]
    BY DEF FoundAgain
<1>2. /\ knows[w] = <<knows[w][1], knows[w][2]>> /\ knows[w][1] \in SessionId
      /\ p = <<p[1], p[2]>> /\ p[1] \in SessionId
      /\ numbers \in [SessionId -> SUBSET Number]
    BY <1>1 DEF SessionsTypeOK, PageId
<1>3. knows[w][2] \in numbers[knows[w][1]]
    BY <1>1 DEF FoundAgain
<1>4. knows[w] # p
    BY <1>1 DEF Left
<1>5. numbers' = [numbers EXCEPT ![p[1]] = @ \ {p[2]}]
    BY DEF InvalidateWebPage
<1> QED
    BY ONLY <1>2, <1>3, <1>4, <1>5

LEMMA FoundStep ==
    ASSUME SessionsAssumption, SessionsTypeOK, Requests, New, Left, Doomed, FoundAgain,
           [SessionsNext]_sessionsVars
    PROVE  Left' /\ Doomed' /\ FoundAgain'
PROOF
<1>0. /\ SessionsAssumption /\ pass \in TimerType /\ numbers \in [SessionId -> SUBSET Number]
      /\ looked \in [Publisher -> PageId] /\ MaxAsks \in Nat
      /\ knows \in [Window -> PageId] /\ excused \subseteq Window
      /\ \A w \in Window : knows[w] # NoId => knows[w][1] \in SessionId
    BY DEF SessionsTypeOK, TimerType, PageId, SessionsAssumption
<1> USE DEF session, request, idling
<1>1. ASSUME NEW w \in Window, FindPage(w)
      PROVE  Left' /\ Doomed' /\ FoundAgain'
  <2>1. /\ UNCHANGED <<pass, looked, numbers, knows, excused>> /\ sessions \subseteq sessions'
      BY <1>1 DEF FindPage
  <2> QED
      BY ONLY <2>1, Left, Doomed, FoundAgain DEF Left, Doomed, FoundAgain, Leaving
<1>2. ASSUME NEW w \in Window, NewPage(w)
      PROVE  Left' /\ Doomed' /\ FoundAgain'
  <2>1. /\ UNCHANGED <<pass, looked, numbers, knows, excused>> /\ sessions \subseteq sessions'
      BY <1>2 DEF NewPage
  <2> QED
      BY ONLY <2>1, Left, Doomed, FoundAgain DEF Left, Doomed, FoundAgain, Leaving
<1>3. ASSUME NEW w \in Window, ResetCritical(w)
      PROVE  Left' /\ Doomed' /\ FoundAgain'
  <2>1. /\ UNCHANGED <<pass, looked, numbers, knows, excused>> /\ sessions \subseteq sessions'
      BY <1>3 DEF ResetCritical
  <2> QED
      BY ONLY <2>1, Left, Doomed, FoundAgain DEF Left, Doomed, FoundAgain, Leaving
<1>4. ASSUME NEW w \in Window, PutPage(w)
      PROVE  Left' /\ Doomed' /\ FoundAgain'
  <2>1. /\ Making(w) /\ sess[w] \in SessionId
        /\ knows'[w] = Made(w) /\ \A v \in Window \ {w} : knows'[v] = knows[v]
        /\ numbers' = [numbers EXCEPT ![sess[w]] = @ \cup {num[w]}]
        /\ UNCHANGED <<expired, looked, pass, sessions>>
        /\ \A v \in Window \ {w} : v \in excused' <=> v \in excused
        /\ w \notin excused' => /\ sess[w] \in sessions
                               /\ ~(pass.at \in {"invalidate", "remove"} /\ pass.s = sess[w])
      BY <1>0, <1>4 DEF PutPage, Making, Made, Requests
  <2>2. \A s \in SessionId : numbers[s] \subseteq numbers'[s]
      BY <1>0, <2>1
  <2>3. Left'
    <3>1. ~Leaving(Made(w)) /\ \A p : Leaving(p)' <=> Leaving(p)
        BY <2>1 DEF New, Old, Leaving
    <3>2. \A v \in Window \ {w} : Leaving(knows[v])' => v \in excused'
        BY ONLY <2>1, Left DEF Left, Leaving
    <3>3. ~Leaving(knows[w])'
        BY ONLY <2>1, <3>1 DEF Leaving
    <3> QED
        BY ONLY <3>2, <3>3 DEF Left, Leaving
  <2>4. Doomed'
      BY ONLY <2>1, Doomed DEF Doomed, Made
  <2>5. FoundAgain'
    <3>1. num[w] \in numbers'[sess[w]]
        BY <1>0, <2>1
    <3>2. \A v \in Window : knows[v] # NoId => knows[v][1] \in SessionId
        BY <1>0
    <3> QED
        BY ONLY <2>1, <2>2, <3>1, <3>2, FoundAgain DEF FoundAgain, Made
  <2> QED
      BY <2>3, <2>4, <2>5
<1>5. ASSUME NEW w \in Window, RegisterChannel(w)
      PROVE  Left' /\ Doomed' /\ FoundAgain'
  <2>1. /\ UNCHANGED <<pass, looked, numbers, knows, excused>> /\ sessions \subseteq sessions'
      BY <1>5 DEF RegisterChannel
  <2> QED
      BY ONLY <2>1, Left, Doomed, FoundAgain DEF Left, Doomed, FoundAgain, Leaving
<1>6. ASSUME NEW w \in Window, Gone(w)
      PROVE  Left' /\ Doomed' /\ FoundAgain'
  <2>1. /\ knows'[w] = NoId /\ \A v \in Window \ {w} : knows'[v] = knows[v]
        /\ UNCHANGED <<numbers, sessions, looked, pass>>
        /\ \A v \in Window \ {w} : v \in excused' <=> v \in excused
      BY <1>0, <1>6 DEF Gone
  <2>2. ~Leaving(NoId)
    <3>1. 0 \notin SessionId
        BY <1>0 DEF SessionId
    <3> QED
        BY ONLY <3>1, Doomed DEF Leaving, Doomed, NoId
  <2> QED
      BY ONLY <2>1, <2>2, Left, Doomed, FoundAgain DEF Left, Doomed, FoundAgain, Leaving
<1>7. ASSUME NEW w \in Window, NEW s \in 0..MaxAsks, GetSession(w, s)
      PROVE  Left' /\ Doomed' /\ FoundAgain'
  <2>1. /\ UNCHANGED <<pass, looked, numbers, knows, excused>> /\ sessions \subseteq sessions'
      BY <1>7 DEF GetSession
  <2> QED
      BY ONLY <2>1, Left, Doomed, FoundAgain DEF Left, Doomed, FoundAgain, Leaving
<1>8. ASSUME NEW w \in Window, Disconnects(w)
      PROVE  Left' /\ Doomed' /\ FoundAgain'
  <2>1. /\ UNCHANGED <<pass, looked, numbers, knows, excused>> /\ sessions \subseteq sessions'
      BY <1>8 DEF Disconnects
  <2> QED
      BY ONLY <2>1, Left, Doomed, FoundAgain DEF Left, Doomed, FoundAgain, Leaving
<1>9. ASSUME NEW s \in SessionId, NEW n \in Number, Expire(s, n)
      PROVE  Left' /\ Doomed' /\ FoundAgain'
  <2>1. /\ UNCHANGED <<pass, looked, numbers, knows, excused>> /\ sessions \subseteq sessions'
      BY <1>9 DEF Expire
  <2> QED
      BY ONLY <2>1, Left, Doomed, FoundAgain DEF Left, Doomed, FoundAgain, Leaving
<1>10. ASSUME WakeUp
       PROVE  Left' /\ Doomed' /\ FoundAgain'
  <2>1. /\ UNCHANGED <<looked, numbers, knows, excused, sessions>>
        /\ pass'.at \notin {"drop", "invalidate", "remove"}
        /\ pass'.at \notin {"asleep", "next"} => pass'.s \in SessionId
      BY <1>0, <1>10 DEF WakeUp, TimerType
  <2> QED
      BY ONLY <2>1, Left, Doomed, FoundAgain DEF Left, Doomed, FoundAgain, Leaving
<1>11. ASSUME NEW s \in SessionId, VisitSession(s)
       PROVE  Left' /\ Doomed' /\ FoundAgain'
  <2>1. /\ UNCHANGED <<looked, numbers, knows, excused, sessions>>
        /\ pass'.at \notin {"drop", "invalidate", "remove"}
        /\ pass'.at \notin {"asleep", "next"} => pass'.s \in SessionId
    <3>1. CASE IsHealthExamine
      <4>1. pass' = [pass EXCEPT !.at = IfMarked(s), !.s = s, !.todo = @ \ {s}]
          BY <1>11, <3>1 DEF VisitSession
      <4>2. pass'.at \in {"stillEmpty", "isEmpty"} /\ pass'.s = s
          BY <1>0, <4>1 DEF TimerType, IfMarked
      <4> QED
          BY <1>11, <4>2 DEF VisitSession
    <3>2. CASE ~IsHealthExamine
      <4>1. /\ Beat(s, pass.todo \ {s}, numbers[s]) /\ pass.todo \ {s} \in SUBSET SessionId
            /\ numbers[s] \in SUBSET Number
          BY <1>0, <1>11, <3>2 DEF VisitSession, TimerType
      <4>2. pass'.at \in {"next", "beat"} /\ (pass'.at = "beat" => pass'.s = s)
          BY ONLY <1>0, <4>1, BeatGoes
      <4> QED
          BY <1>11, <4>2 DEF VisitSession
    <3> QED
        BY <3>1, <3>2
  <2> QED
      BY ONLY <2>1, Left, Doomed, FoundAgain DEF Left, Doomed, FoundAgain, Leaving
<1>12. ASSUME TestPages
       PROVE  Left' /\ Doomed' /\ FoundAgain'
  <2>0. pass.s \in SessionId
      BY <1>12 DEF TestPages, Doomed
  <2>1. /\ UNCHANGED <<looked, numbers, knows, excused, sessions>>
        /\ pass'.at \notin {"drop", "remove"}
        /\ pass'.at \notin {"asleep", "next"} => pass'.s = pass.s
        /\ pass'.at = "invalidate" => numbers[pass.s] = {}
    <3>1. CASE numbers[pass.s] # {} /\ pass.at = "isEmpty"
      <4>1. /\ Beat(pass.s, pass.todo, numbers[pass.s]) /\ pass.todo \in SUBSET SessionId
            /\ numbers[pass.s] \in SUBSET Number
          BY <1>0, <1>12, <2>0, <3>1 DEF TestPages, TimerType
      <4>2. pass'.at \in {"next", "beat"} /\ (pass'.at = "beat" => pass'.s = pass.s)
          BY ONLY <1>0, <2>0, <4>1, BeatGoes
      <4> QED
          BY <1>12, <4>2 DEF TestPages
    <3>2. CASE ~(numbers[pass.s] # {} /\ pass.at = "isEmpty")
        BY <1>0, <1>12, <3>2 DEF TestPages, PassGoes, TimerType
    <3> QED
        BY <3>1, <3>2
  <2>2. pass'.at = "invalidate" =>
            \A w \in Window : knows[w] # NoId /\ knows[w][1] = pass.s => w \in excused
      BY <2>1 DEF FoundAgain
  <2> QED
      BY ONLY <2>0, <2>1, <2>2, Left, Doomed, FoundAgain DEF Left, Doomed, FoundAgain, Leaving
<1>13. ASSUME MarkSession
       PROVE  Left' /\ Doomed' /\ FoundAgain'
  <2>1. /\ UNCHANGED <<looked, numbers, knows, excused, sessions>>
        /\ pass'.at \notin {"drop", "invalidate", "remove"}
        /\ pass'.at \notin {"asleep", "next"} => pass'.s \in SessionId
    <3>1. /\ pass.s \in SessionId /\ pass.todo \in SUBSET SessionId
          /\ numbers[pass.s] \in SUBSET Number
        BY <1>0, <1>13 DEF MarkSession, Doomed, TimerType
    <3>2. Beat(pass.s, pass.todo, numbers[pass.s])
        BY <1>13 DEF MarkSession
    <3>3. pass'.at \in {"next", "beat"} /\ (pass'.at = "beat" => pass'.s = pass.s)
        BY ONLY <1>0, <3>1, <3>2, BeatGoes
    <3> QED
        BY <1>13, <3>1, <3>3 DEF MarkSession
  <2> QED
      BY ONLY <2>1, Left, Doomed, FoundAgain DEF Left, Doomed, FoundAgain, Leaving
<1>14. ASSUME InvalidateSession
       PROVE  Left' /\ Doomed' /\ FoundAgain'
  <2>1. /\ UNCHANGED <<looked, knows, excused, sessions>>
        /\ pass.at = "invalidate" /\ pass'.at = "remove" /\ pass'.s = pass.s
        /\ \A s \in SessionId \ {pass.s} : numbers'[s] = numbers[s]
      BY <1>0, <1>14 DEF InvalidateSession, PassGoes, TimerType
  <2>2. \A w \in Window : knows[w] # NoId => knows[w][1] \in SessionId
      BY <1>0
  <2> QED
      BY ONLY <2>1, <2>2, Left, Doomed, FoundAgain DEF Left, Doomed, FoundAgain, Leaving
<1>15. ASSUME RemoveSession
       PROVE  Left' /\ Doomed' /\ FoundAgain'
  <2>1. /\ UNCHANGED <<looked, numbers, knows, excused>> /\ sessions' = sessions \ {pass.s}
        /\ pass.at = "remove" /\ pass'.at = "next"
      BY <1>0, <1>15 DEF RemoveSession, PassGoes, TimerType
  <2> QED
      BY ONLY <2>1, Left, Doomed, FoundAgain DEF Left, Doomed, FoundAgain, Leaving
<1>16. ASSUME NEW n \in Number, VisitPage(n)
       PROVE  Left' /\ Doomed' /\ FoundAgain'
  <2>1. UNCHANGED <<looked, numbers, knows, sessions>> /\ pass.s \in SessionId
      BY <1>16 DEF VisitPage, Doomed
  <2>2. CASE <<pass.s, n>> \in expired
    <3>1. /\ pass'.at = "drop" /\ pass'.s = pass.s /\ pass'.n = n
          /\ excused' = excused \cup {w \in Window : knows[w] = <<pass.s, n>>}
        BY <1>0, <1>16, <2>2 DEF VisitPage, Abandons, TimerType
    <3> QED
        BY ONLY <1>16, <2>1, <3>1, Left, Doomed, FoundAgain DEF Left, Doomed, FoundAgain, Leaving
  <2>3. CASE <<pass.s, n>> \notin expired
    <3>1. /\ Beat(pass.s, pass.todo, pass.pages \ {n}) /\ UNCHANGED excused
          /\ pass.todo \in SUBSET SessionId /\ pass.pages \ {n} \in SUBSET Number
        BY <1>0, <1>16, <2>3 DEF VisitPage, TimerType
    <3>2. pass'.at \in {"next", "beat"} /\ (pass'.at = "beat" => pass'.s = pass.s)
        BY ONLY <1>0, <2>1, <3>1, BeatGoes
    <3> QED
        BY ONLY <2>1, <3>1, <3>2, Left, Doomed, FoundAgain DEF Left, Doomed, FoundAgain, Leaving
  <2> QED
      BY <2>2, <2>3
<1>17. ASSUME InvalidatePage
       PROVE  Left' /\ Doomed' /\ FoundAgain'
  <2>1. /\ pass.at = "drop" /\ UNCHANGED <<looked, knows, excused, sessions>>
        /\ pass.s \in SessionId /\ pass.n \in Number
        /\ InvalidateWebPage(<<pass.s, pass.n>>) /\ Beat(pass.s, pass.todo, pass.pages)
      BY <1>17 DEF InvalidatePage, Doomed
  <2>2. pass'.at \in {"next", "beat"} /\ (pass'.at = "beat" => pass'.s = pass.s)
    <3>1. pass.todo \in SUBSET SessionId /\ pass.pages \in SUBSET Number
        BY <1>0 DEF TimerType
    <3> QED
        BY ONLY <1>0, <2>1, <3>1, BeatGoes
  <2>3. Left' /\ Doomed'
      BY ONLY <2>1, <2>2, Left, Doomed DEF Left, Doomed, Leaving
  <2>4. FoundAgain'
    <3>1. Leaving(<<pass.s, pass.n>>)
        BY <2>1 DEF Leaving
    <3>2. <<pass.s, pass.n>> \in PageId \ {NoId}
        BY <1>0, <2>1 DEF PageId, NoId, SessionId
    <3> QED
        BY <2>1, <3>1, <3>2, PageLeaves
  <2> QED
      BY <2>3, <2>4
<1>18. ASSUME Sleep
       PROVE  Left' /\ Doomed' /\ FoundAgain'
  <2>1. UNCHANGED <<looked, numbers, knows, excused, sessions>> /\ pass'.at = "asleep"
      BY <1>0, <1>18 DEF Sleep, TimerType
  <2> QED
      BY ONLY <2>1, Left, Doomed, FoundAgain DEF Left, Doomed, FoundAgain, Leaving
<1>19. ASSUME NEW t \in Publisher, NEW p \in PageId, PublisherLooks(t, p)
       PROVE  Left' /\ Doomed' /\ FoundAgain'
  <2>1. /\ UNCHANGED <<pass, numbers, knows, sessions>>
        /\ \A r \in Publisher : looked'[r] \in {looked[r], p}
        /\ excused' = excused \cup {w \in Window : knows[w] = p}
      BY <1>0, <1>19 DEF PublisherLooks, Abandons
  <2> QED
      BY ONLY <2>1, Left, Doomed, FoundAgain DEF Left, Doomed, FoundAgain, Leaving
<1>20. ASSUME NEW t \in Publisher, PublisherInvalidates(t)
       PROVE  Left' /\ Doomed' /\ FoundAgain'
  <2>1. /\ UNCHANGED <<pass, knows, sessions, excused>> /\ InvalidateWebPage(looked[t])
        /\ \A r \in Publisher : looked'[r] \in {looked[r], NoId}
        /\ looked[t] \in PageId \ {NoId}
      BY <1>0, <1>20 DEF PublisherInvalidates
  <2>2. Left' /\ Doomed'
      BY ONLY <2>1, Left, Doomed DEF Left, Doomed, Leaving
  <2>3. FoundAgain'
    <3>1. Leaving(looked[t])
        BY <2>1 DEF Leaving
    <3> QED
        BY <2>1, <3>1, PageLeaves
  <2> QED
      BY <2>2, <2>3
<1>21. ASSUME NEW w \in Window, WindowStep(w)
       PROVE  Left' /\ Doomed' /\ FoundAgain'
    BY <1>21, <1>1, <1>2, <1>3, <1>4, <1>5, <1>8, <1>6, <1>7 DEF WindowStep,
       Handle
<1>22. ASSUME SessionTimer
       PROVE  Left' /\ Doomed' /\ FoundAgain'
    BY <1>22, <1>10, <1>11, <1>12, <1>13, <1>14, <1>15, <1>16, <1>17, <1>18
       DEF SessionTimer
<1>23. ASSUME NEW t \in Publisher, PublisherStep(t)
       PROVE  Left' /\ Doomed' /\ FoundAgain'
    BY <1>23, <1>19, <1>20 DEF PublisherStep
<1>24. CASE UNCHANGED sessionsVars
    BY <1>24 DEF sessionsVars, Left, Doomed, FoundAgain, Leaving
<1> QED
    BY <1>21, <1>22, <1>23, <1>24, <1>9 DEF SessionsNext

-----------------------------------------------------------------------------
(* The bound on requests bounds sessions and numbers.                      *)

\* One request more, or one less, has no number yet.
LEMMA OneMore ==
    ASSUME NEW S, NEW T, NEW w, IsFiniteSet(S), T \subseteq S \cup {w}
    PROVE  IsFiniteSet(T) /\ Cardinality(T) <= Cardinality(S) + 1
           /\ Cardinality(T) \in Nat /\ Cardinality(S) \in Nat
PROOF
<1>1. IsFiniteSet(S \cup {w}) /\ Cardinality(S \cup {w}) <= Cardinality(S) + 1
      /\ Cardinality(S) \in Nat
  <2>1. Cardinality(S) \in Nat
      BY FS_CardinalityType
  <2>2. /\ IsFiniteSet(S \cup {w})
        /\ \/ Cardinality(S \cup {w}) = Cardinality(S)
           \/ Cardinality(S \cup {w}) = Cardinality(S) + 1
      BY FS_AddElement
  <2> QED
      BY ONLY <2>1, <2>2
<1>2. IsFiniteSet(T) /\ Cardinality(T) <= Cardinality(S \cup {w})
    BY <1>1, FS_Subset
<1>3. Cardinality(T) \in Nat /\ Cardinality(S \cup {w}) \in Nat
    BY <1>1, <1>2, FS_CardinalityType
<1> QED
    BY <1>1, <1>2, <1>3

\* Where no request starts and no number is given out, the counts stay.
LEMMA CountedKept ==
    ASSUME Counted, asks \in Nat, UNCHANGED <<opened, asks, last>>,
           \A s \in SessionId : last[s] \in Nat,
           \A s \in SessionId : Numberless(s)' \subseteq Numberless(s)
    PROVE  Counted'
PROOF
<1>1. ASSUME NEW s \in SessionId
      PROVE  IsFiniteSet(Numberless(s)') /\ last'[s] + Cardinality(Numberless(s)') <= asks'
  <2>1. IsFiniteSet(Numberless(s)) /\ last[s] + Cardinality(Numberless(s)) <= asks
      BY DEF Counted
  <2>2. IsFiniteSet(Numberless(s)') /\ Cardinality(Numberless(s)') <= Cardinality(Numberless(s))
      BY <2>1, FS_Subset
  <2>3. Cardinality(Numberless(s)) \in Nat /\ Cardinality(Numberless(s)') \in Nat
      BY <2>1, <2>2, FS_CardinalityType
  <2> QED
      BY <2>1, <2>2, <2>3
<1> QED
    BY <1>1 DEF Counted

LEMMA CountedStep ==
    ASSUME SessionsTypeOK, Requests, Counted, [SessionsNext]_sessionsVars
    PROVE  Counted'
PROOF
<1>0. asks \in Nat /\ opened \in Nat /\ \A s \in SessionId : last[s] \in Nat
    BY DEF SessionsTypeOK
<1>z. ASSUME UNCHANGED <<opened, asks, last, step, sess>>
      PROVE  Counted'
    BY <1>0, <1>z, CountedKept DEF Numberless
<1>1. ASSUME NEW w \in Window, FindPage(w)
      PROVE  Counted'
  <2>1. /\ UNCHANGED <<opened, asks, last>> /\ step'[w] # "page"
        /\ \A v \in Window \ {w} : step'[v] = step[v] /\ sess'[v] = sess[v]
      BY <1>1 DEF FindPage, session, Proceed, SessionsTypeOK
  <2>2. \A s \in SessionId : Numberless(s)' \subseteq Numberless(s)
      BY <2>1 DEF Numberless
  <2> QED
      BY <1>0, <2>1, <2>2, CountedKept
<1>2. ASSUME NEW w \in Window, NewPage(w)
      PROVE  Counted'
  <2> DEFINE r == sess[w]
  <2>1. /\ r \in SessionId /\ step[w] = "page"
        /\ last' = [last EXCEPT ![r] = @ + 1]
        /\ step' = [step EXCEPT ![w] = "reset"]
        /\ UNCHANGED <<opened, asks, sess>>
      BY <1>2 DEF NewPage, NextNumber, Proceed, Requests
  <2>2. ASSUME NEW s \in SessionId
        PROVE  IsFiniteSet(Numberless(s)') /\ last'[s] + Cardinality(Numberless(s)') <= asks'
    <3>1. IsFiniteSet(Numberless(s)) /\ last[s] + Cardinality(Numberless(s)) <= asks
        BY DEF Counted
    <3>2. CASE s = r
      <4>1. w \in Numberless(s) /\ Numberless(s)' = Numberless(s) \ {w}
          BY <2>1, <3>2 DEF Numberless, SessionsTypeOK
      <4>2. /\ IsFiniteSet(Numberless(s)')
            /\ Cardinality(Numberless(s)') = Cardinality(Numberless(s)) - 1
            /\ Cardinality(Numberless(s)) \in Nat
          BY <3>1, <4>1, FS_RemoveElement, FS_CardinalityType
      <4>3. last'[s] = last[s] + 1
          BY <2>1, <3>2 DEF SessionsTypeOK
      <4> QED
          BY ONLY <1>0, <2>1, <3>1, <4>2, <4>3
    <3>3. CASE s # r
      <4>1. Numberless(s)' = Numberless(s)
          BY <2>1, <3>3 DEF Numberless, SessionsTypeOK
      <4>2. last'[s] = last[s]
          BY <2>1, <3>3 DEF SessionsTypeOK
      <4> QED
          BY <2>1, <3>1, <4>1, <4>2
    <3> QED
        BY <3>2, <3>3
  <2> QED
      BY <2>1, <2>2 DEF Counted
<1>3. ASSUME NEW w \in Window, ResetCritical(w)
      PROVE  Counted'
  <2>1. /\ UNCHANGED <<opened, asks, last>> /\ step'[w] # "page"
        /\ \A v \in Window \ {w} : step'[v] = step[v] /\ sess'[v] = sess[v]
      BY <1>3 DEF ResetCritical, session, Proceed, SessionsTypeOK
  <2>2. \A s \in SessionId : Numberless(s)' \subseteq Numberless(s)
      BY <2>1 DEF Numberless
  <2> QED
      BY <1>0, <2>1, <2>2, CountedKept
<1>4. ASSUME NEW w \in Window, PutPage(w)
      PROVE  Counted'
  <2>1. /\ UNCHANGED <<opened, asks, last>> /\ step'[w] # "page"
        /\ \A v \in Window \ {w} : step'[v] = step[v] /\ sess'[v] = sess[v]
      BY <1>4 DEF PutPage, session, Proceed, SessionsTypeOK
  <2>2. \A s \in SessionId : Numberless(s)' \subseteq Numberless(s)
      BY <2>1 DEF Numberless
  <2> QED
      BY <1>0, <2>1, <2>2, CountedKept
<1>5. ASSUME NEW w \in Window, RegisterChannel(w)
      PROVE  Counted'
  <2>1. /\ UNCHANGED <<opened, asks, last>> /\ step'[w] # "page"
        /\ \A v \in Window \ {w} : step'[v] = step[v] /\ sess'[v] = sess[v]
      BY <1>5 DEF RegisterChannel, session, Proceed, SessionsTypeOK
  <2>2. \A s \in SessionId : Numberless(s)' \subseteq Numberless(s)
      BY <2>1 DEF Numberless
  <2> QED
      BY <1>0, <2>1, <2>2, CountedKept
<1>6. ASSUME NEW w \in Window, Gone(w)
      PROVE  Counted'
    BY <1>6, <1>z DEF Gone, session, request
<1>7. ASSUME NEW w \in Window, NEW s \in 0..MaxAsks, GetSession(w, s)
      PROVE  Counted'
  <2>1. /\ asks' = asks + 1 /\ opened' \in {opened, opened + 1}
        /\ UNCHANGED last
        /\ \A v \in Window \ {w} : step'[v] = step[v] /\ sess'[v] = sess[v]
      BY <1>7 DEF GetSession, Proceed, SessionsTypeOK
  <2>2. ASSUME NEW r \in SessionId
        PROVE  IsFiniteSet(Numberless(r)') /\ last'[r] + Cardinality(Numberless(r)') <= asks'
    <3>1. IsFiniteSet(Numberless(r)) /\ last[r] + Cardinality(Numberless(r)) <= asks
        BY DEF Counted
    <3>2. Numberless(r)' \subseteq Numberless(r) \cup {w}
        BY <2>1 DEF Numberless
    <3>3. /\ IsFiniteSet(Numberless(r)')
          /\ Cardinality(Numberless(r)') <= Cardinality(Numberless(r)) + 1
          /\ Cardinality(Numberless(r)') \in Nat /\ Cardinality(Numberless(r)) \in Nat
        BY <3>1, <3>2, OneMore
    <3> QED
        BY <1>0, <2>1, <3>1, <3>3
  <2>3. opened' <= asks'
      BY <1>0, <2>1 DEF Counted
  <2> QED
      BY <2>2, <2>3 DEF Counted
<1>8. CASE Quiet
    BY <1>8, <1>z DEF Quiet
<1> QED
    BY <1>1, <1>2, <1>3, <1>4, <1>5, <1>6, <1>7, <1>8, QuietStep DEF
       SessionsNext, WindowStep, Handle

-----------------------------------------------------------------------------

LEMMA InitIInv ==
    ASSUME SessionsAssumption, SessionsInit
    PROVE  IInv
PROOF
<1> USE DEF SessionsInit
<1>1. SessionsTypeOK
  <2>1. 1 % Multiple \in 0..(Multiple - 1) /\ 0 \in 0..MaxAsks
      BY DEF SessionsAssumption
  <2>2. pass \in TimerType
      BY <2>1 DEF TimerType, PassSteps
  <2> QED
      BY <2>1, <2>2 DEF SessionsTypeOK, TimerType, PageId
<1>2. Requests /\ Numbered /\ New /\ Left /\ Doomed
    BY DEF Requests, Numbered, New, Making, Left, Old, Leaving, Doomed
<1>3. Counted
  <2>1. \A s \in SessionId : Numberless(s) = {}
      BY DEF Numberless
  <2>2. IsFiniteSet({}) /\ Cardinality({}) = 0
      BY FS_EmptySet
  <2>3. ASSUME NEW s \in SessionId
        PROVE  IsFiniteSet(Numberless(s)) /\ last[s] + Cardinality(Numberless(s)) <= asks
    <3>1. last[s] = 0 /\ asks = 0 /\ Numberless(s) = {}
        BY <2>1
    <3> QED
        BY ONLY <2>2, <3>1
  <2>4. opened <= asks
      OBVIOUS
  <2> QED
      BY ONLY <2>3, <2>4 DEF Counted
<1>4. FoundAgain /\ PagesApart
    BY DEF FoundAgain, PagesApart
<1> QED
    BY <1>1, <1>2, <1>3, <1>4 DEF IInv

LEMMA IInvStep ==
    ASSUME SessionsAssumption, IInv, [SessionsNext]_sessionsVars
    PROVE  IInv'
PROOF
<1> USE DEF IInv
<1>1. SessionsTypeOK'
    BY TypeOKStep
<1>2. Requests' /\ Numbered'
    BY <1>1, RequestsStep
<1>3. New' /\ PagesApart'
    BY <1>1, NewStep
<1>4. Left' /\ Doomed' /\ FoundAgain'
    BY <1>1, FoundStep
<1>5. Counted'
    BY CountedStep
<1> QED
    BY <1>1, <1>2, <1>3, <1>4, <1>5

\* The inductive invariant holds in every state of the sessions.
THEOREM Invariance ==
    ASSUME SessionsAssumption
    PROVE  SessionsSpec => []IInv
PROOF
<1>1. SessionsInit => IInv
    BY InitIInv
<1>2. IInv /\ [SessionsNext]_sessionsVars => IInv'
    BY IInvStep
<1> QED
    BY <1>1, <1>2, PTL DEF SessionsSpec

\* Type correctness, for any number of windows and requests.
THEOREM Typing ==
    ASSUME SessionsAssumption
    PROVE  SessionsSpec => []SessionsTypeOK
PROOF
<1>1. IInv => SessionsTypeOK
    BY DEF IInv
<1> QED
    BY <1>1, Invariance, PTL

\* The page a window was given is found by its next request, unless a heartbeat
\* or a publisher found its channel down for too long, or its session was
\* removed in the middle of the request that made the page; and it is no other
\* window's, though they ask at the same time (getPage of PageHandler, putPage,
\* nextPageId and heartbeat of Session, isValid of WebPage, the timer of
\* SessionManagerImpl).
THEOREM PageFound ==
    ASSUME SessionsAssumption
    PROVE  SessionsSpec => []Found
PROOF
<1>1. IInv => Found
    BY DEF IInv, Found
<1> QED
    BY <1>1, Invariance, PTL

=============================================================================
