----------------------------- MODULE FlashSocket -----------------------------
(***************************************************************************)
(* web_socket.js: the WebSocket of browsers without one, made of a script  *)
(* object and a connection inside the Flash player (WebSocket.as).         *)
(*                                                                         *)
(* Scripts call Flash at once, but Flash's events reach the script later   *)
(* (EventsToCallLater) and, as the comment in __handleMessages says, not   *)
(* always in the order they were sent: events is a set.  Two equal events  *)
(* that are both under way are one: the handlers read the state of the     *)
(* connection, not of the event.                                           *)
(***************************************************************************)
EXTENDS Naturals, Sequences, FiniteSets, SequencesExt

CONSTANTS
    Socket,         \* the WebSocket objects the page constructs
    Bad,            \* those whose url Flash does not accept: create returns nothing
    Dropped,        \* types of events that get lost; {} unless in Opera
    Opera,          \* TRUE: window.opera
    Movies,         \* number of times __initialize is called
    MaxSockets,     \* bound on the sockets the page constructs
    MaxMessages,    \* bound on the messages a connection receives
    MaxSends        \* bound on the calls of send after the end

\* What the constants may be
FlashSocketAssumption ==
    /\ Bad \subseteq Socket /\ Opera \in BOOLEAN /\ (Dropped # {} => Opera)
    /\ Movies \in Nat /\ MaxSockets \in Nat /\ MaxMessages \in Nat /\ MaxSends \in Nat

VARIABLES
    movies,         \* Flash movies that have reported, via FABridge
    tasks,          \* WebSocket.__tasks
    timeouts,       \* sockets whose constructor's setTimeout is pending
    born,           \* sockets constructed
    ready,          \* readyState of each socket
    buffered,       \* bufferedAmount of each socket
    flash,          \* this.__flash of each socket: a connection, or 0
    timer,          \* sockets with a __timer
    conns,          \* Flash's connections
    events,         \* events on their way from Flash
    heard,          \* history: what onmessage was called with
    log             \* history: calls of onopen, onclose and onerror

page == <<born, ready, buffered, flash, timer, heard, log>>
vars == <<movies, tasks, timeouts, page, conns, events>>

CONNECTING == 0
OPEN == 1
CLOSED == 3

EventType == {"open", "close", "message", "error", "stateChange"}

\* The connection, and the state, of a socket that has one
Conn(s) == conns[flash[s]]
FlashState(s) == Conn(s).state

TypeOK ==
    /\ movies \in Nat
    /\ tasks \in Seq(Socket) /\ timeouts \subseteq born /\ born \subseteq Socket
    /\ ready \in [Socket -> {CONNECTING, OPEN, CLOSED}] /\ buffered \in [Socket -> Nat]
    /\ flash \in [Socket -> 0..Len(conns)] /\ timer \subseteq Socket
    /\ \A c \in DOMAIN conns :
          /\ conns[c].sock \in born /\ conns[c].state \in {CONNECTING, OPEN, CLOSED}
          /\ conns[c].queue \in Seq(1..MaxMessages)
    /\ \A ev \in events : ev.conn \in DOMAIN conns /\ ev.type \in EventType

Init ==
    /\ movies = 0 /\ tasks = << >> /\ timeouts = {} /\ born = {}
    /\ ready = [s \in Socket |-> CONNECTING] /\ buffered = [s \in Socket |-> 0]
    /\ flash = [s \in Socket |-> 0] /\ timer = {}
    /\ conns = << >> /\ events = {}
    /\ heard = [s \in Socket |-> << >>] /\ log = [s \in Socket |-> << >>]

-----------------------------------------------------------------------------
\* Creation

Construct(s) ==
    /\ s \notin born /\ Cardinality(born) < MaxSockets
    /\ born' = born \cup {s}
    /\ timeouts' = timeouts \cup {s}
    /\ UNCHANGED <<movies, tasks, ready, buffered, flash, timer, heard, log, conns, events>>

\* the tasks that are run: the first one that throws ends it
Done(list) ==
    LET b == SelectInSeq(list, LAMBDA s : s \in Bad)
    IN  IF b = 0 THEN list ELSE SubSeq(list, 1, b - 1)

\* Faulty: __createFlash that takes for created what has thrown
FaultyCreateFlash(list) ==
    LET done == Done(list) IN
    /\ conns' = conns \o [i \in DOMAIN done |->
                   [sock |-> done[i], state |-> CONNECTING, queue |-> << >>,
                    amount |-> 0, arrived |-> 0]]
    /\ flash' = [s \in Socket |->
                   IF s \in ToSet(list) THEN Len(conns) + SelectInSeq(list, LAMBDA t : t = s)
                   ELSE flash[s]]

\* __createFlash of these sockets, one after the other
CreateFlash(list) ==
    LET done == Done(list) IN
    /\ conns' = conns \o [i \in DOMAIN done |->
                   [sock |-> done[i], state |-> CONNECTING, queue |-> << >>,
                    amount |-> 0, arrived |-> 0]]
    /\ flash' = [s \in Socket |->
                   IF s \in ToSet(done) THEN Len(conns) + SelectInSeq(done, LAMBDA t : t = s)
                   ELSE flash[s]]

\* Faulty: a task that waits for a movie that has reported already
FaultyAddTask(s) ==
    /\ s \in timeouts /\ timeouts' = timeouts \ {s}
    /\ tasks' = Append(tasks, s)
    /\ UNCHANGED <<movies, page, conns, events>>

\* the timeout: __addTask runs the task if Flash is there, or keeps it
AddTask(s) ==
    /\ s \in timeouts /\ timeouts' = timeouts \ {s}
    /\ \/ movies > 0 /\ CreateFlash(<<s>>) /\ UNCHANGED tasks
       \/ movies = 0 /\ tasks' = Append(tasks, s) /\ UNCHANGED <<conns, flash>>
    /\ UNCHANGED <<movies, born, ready, buffered, timer, heard, log, events>>

\* Faulty: a movie that leaves the tasks where they are
FaultyMovieReady ==
    /\ movies < Movies /\ movies' = movies + 1
    /\ CreateFlash(tasks)
    /\ UNCHANGED <<tasks, timeouts, born, ready, buffered, timer, heard, log, events>>

\* the initialization callback of __initialize; if a task throws, the rest
\* are not run and none is forgotten
MovieReady ==
    /\ movies < Movies /\ movies' = movies + 1
    /\ CreateFlash(tasks)
    /\ tasks' = IF Done(tasks) = tasks THEN << >> ELSE tasks
    /\ UNCHANGED <<timeouts, born, ready, buffered, timer, heard, log, events>>

-----------------------------------------------------------------------------
\* Inside Flash: WebSocket.as.  A connection changes state and its events
\* set out.

Fire(c, types) ==
    events' = events \cup {[conn |-> c, type |-> t, amount |-> conns[c].amount] : t \in types}

FlashOpens(c) ==
    /\ conns[c].state = CONNECTING
    /\ conns' = [conns EXCEPT ![c].state = OPEN]
    /\ Fire(c, {"stateChange", "open"})
    /\ UNCHANGED <<movies, tasks, timeouts, page>>

\* the queue keeps the message until the script reads it
FlashReceives(c) ==
    /\ conns[c].state = OPEN /\ conns[c].arrived < MaxMessages
    /\ conns' = [conns EXCEPT ![c].arrived = @ + 1, ![c].queue = Append(@, conns[c].arrived + 1)]
    /\ Fire(c, {"message"})
    /\ UNCHANGED <<movies, tasks, timeouts, page>>

\* the server has closed the socket
FlashSocketCloses(c) ==
    /\ conns[c].state # CLOSED
    /\ conns' = [conns EXCEPT ![c].state = CLOSED]
    /\ Fire(c, {"stateChange", "close"})
    /\ UNCHANGED <<movies, tasks, timeouts, page>>

\* the server says goodbye: close() empties the queue
FlashClosing(c) ==
    /\ conns[c].state = OPEN
    /\ conns' = [conns EXCEPT ![c].state = CLOSED, ![c].queue = << >>]
    /\ Fire(c, {"stateChange", "close"})
    /\ UNCHANGED <<movies, tasks, timeouts, page>>

\* onError, which does the same, but calls it an error if it was open
FlashError(c) ==
    /\ conns[c].state # CLOSED
    /\ conns' = [conns EXCEPT ![c].state = CLOSED, ![c].queue = << >>]
    /\ Fire(c, {"stateChange", IF conns[c].state = CONNECTING THEN "close" ELSE "error"})
    /\ UNCHANGED <<movies, tasks, timeouts, page>>

-----------------------------------------------------------------------------
\* The script's handlers of Flash's events

Arrives(ev, type) == ev \in events /\ ev.type = type /\ events' = events \ {ev}
Of(ev) == conns[ev.conn].sock

Log(s, call) == log' = [log EXCEPT ![s] = Append(@, call)]

\* readyState is asked for, not carried by the event
Refresh(s) == ready' = [ready EXCEPT ![s] = FlashState(s)]

\* Faulty: the open handler without the timer for Opera
FaultyOnOpen(ev) ==
    LET s == Of(ev) IN
    /\ Arrives(ev, "open")
    /\ Refresh(s) /\ Log(s, "open")
    /\ UNCHANGED <<movies, tasks, timeouts, born, buffered, flash, timer, heard, conns>>

OnOpen(ev) ==
    LET s == Of(ev) IN
    /\ Arrives(ev, "open")
    /\ Refresh(s) /\ Log(s, "open")
    /\ timer' = IF Opera THEN timer \cup {s} ELSE timer
    /\ UNCHANGED <<movies, tasks, timeouts, born, buffered, flash, heard, conns>>

OnClose(ev) ==
    LET s == Of(ev) IN
    /\ Arrives(ev, "close")
    /\ Refresh(s) /\ Log(s, "close")
    /\ timer' = timer \ {s}
    /\ UNCHANGED <<movies, tasks, timeouts, born, buffered, flash, heard, conns>>

OnError(ev) ==
    LET s == Of(ev) IN
    /\ Arrives(ev, "error")
    /\ Log(s, "error") /\ timer' = timer \ {s}
    /\ UNCHANGED <<movies, tasks, timeouts, born, ready, buffered, flash, heard, conns>>

OnStateChange(ev) ==
    LET s == Of(ev) IN
    /\ Arrives(ev, "stateChange")
    /\ Refresh(s)
    /\ buffered' = [buffered EXCEPT ![s] = ev.amount]
    /\ UNCHANGED <<movies, tasks, timeouts, born, flash, timer, heard, log, conns>>

\* Faulty: a handler that takes the messages as their events come in
FaultyHandleMessages(s) ==
    LET q == Conn(s).queue IN
    /\ heard' = [heard EXCEPT ![s] = @ \o Reverse(q)]
    /\ conns' = [conns EXCEPT ![flash[s]].queue = << >>]

\* __handleMessages reads all there are
HandleMessages(s) ==
    /\ heard' = [heard EXCEPT ![s] = @ \o Conn(s).queue]
    /\ conns' = [conns EXCEPT ![flash[s]].queue = << >>]

OnMessage(ev) ==
    /\ Arrives(ev, "message")
    /\ HandleMessages(Of(ev))
    /\ UNCHANGED <<movies, tasks, timeouts, born, ready, buffered, flash, timer, log>>

\* every 500 ms in Opera, "which sometimes drops events"
Tick(s) ==
    /\ s \in timer /\ Conn(s).queue # << >>
    /\ HandleMessages(s)
    /\ UNCHANGED <<movies, tasks, timeouts, born, ready, buffered, flash, timer, log, events>>

Drop(ev) ==
    /\ ev \in events /\ ev.type \in Dropped
    /\ events' = events \ {ev}
    /\ UNCHANGED <<movies, tasks, timeouts, page, conns>>

-----------------------------------------------------------------------------
\* Calls of the page

\* send throws before the connection is open; after its end it counts what
\* it did not send
Send(s) ==
    /\ flash[s] # 0
    /\ Refresh(s)
    /\ \/ FlashState(s) # CLOSED /\ UNCHANGED <<buffered, conns>>
       \/ /\ FlashState(s) = CLOSED /\ Conn(s).amount < MaxSends
          /\ conns' = [conns EXCEPT ![flash[s]].amount = @ + 1]
          /\ buffered' = [buffered EXCEPT ![s] = Conn(s).amount + 1]
    /\ UNCHANGED <<movies, tasks, timeouts, born, flash, timer, heard, log, events>>

\* Faulty: close without a look at readyState
FaultyClose(s) ==
    /\ flash[s] # 0 /\ ready[s] # CLOSED
    /\ conns' = [conns EXCEPT ![flash[s]].state = CLOSED, ![flash[s]].queue = << >>]
    /\ ready' = [ready EXCEPT ![s] = CLOSED]
    /\ Log(s, "close") /\ timer' = timer \ {s}
    /\ UNCHANGED <<movies, tasks, timeouts, born, buffered, flash, heard, events>>

\* Faulty: close that leaves it to Flash to tell
FaultyClose2(s) ==
    /\ flash[s] # 0 /\ FlashState(s) = OPEN
    /\ conns' = [conns EXCEPT ![flash[s]].state = CLOSED, ![flash[s]].queue = << >>]
    /\ Refresh(s)
    /\ UNCHANGED <<movies, tasks, timeouts, born, buffered, flash, timer, heard, log, events>>

(***************************************************************************)
(* close does nothing unless the connection is open by now, and otherwise  *)
(* calls onclose itself, because Flash must not fire an event from inside  *)
(* a call.                                                                 *)
(***************************************************************************)
Close(s) ==
    /\ flash[s] # 0
    /\ \/ FlashState(s) # OPEN /\ Refresh(s) /\ UNCHANGED <<conns, log, timer>>
       \/ /\ FlashState(s) = OPEN
          /\ conns' = [conns EXCEPT ![flash[s]].state = CLOSED, ![flash[s]].queue = << >>]
          /\ ready' = [ready EXCEPT ![s] = CLOSED]
          /\ Log(s, "close") /\ timer' = timer \ {s}
    /\ UNCHANGED <<movies, tasks, timeouts, born, buffered, flash, heard, events>>

-----------------------------------------------------------------------------
Flash(c) ==
    FlashOpens(c) \/ FlashReceives(c) \/ FlashSocketCloses(c) \/ FlashClosing(c) \/ FlashError(c)

Handle(ev) == OnOpen(ev) \/ OnClose(ev) \/ OnError(ev) \/ OnStateChange(ev) \/ OnMessage(ev)

Next ==
    \/ MovieReady
    \/ \E s \in Socket : Construct(s) \/ AddTask(s) \/ Send(s) \/ Close(s) \/ Tick(s)
    \/ \E c \in DOMAIN conns : Flash(c)
    \/ \E ev \in events : Handle(ev) \/ Drop(ev)

Spec == Init /\ [][Next]_vars

(***************************************************************************)
(* Timeouts and intervals go off, the movie loads, and events arrive       *)
(* unless Opera drops them.                                                *)
(***************************************************************************)
Fairness ==
    /\ WF_vars(MovieReady)
    /\ \A s \in Socket : /\ WF_vars(AddTask(s)) /\ WF_vars(Tick(s))
                         /\ \A t \in EventType :
                              WF_vars(\E ev \in events : Of(ev) = s /\ ev.type = t /\ Handle(ev))

FairSpec == Spec /\ Fairness
=============================================================================
