----------------------------- MODULE FlashProofs -----------------------------
(***************************************************************************)
(* Theorems about the Flash fallback.  The WebSocket of web_socket.js, for *)
(* any number of sockets, movies and messages, and events that come in any *)
(* order or are dropped: it implements SocketLife, each socket gets one    *)
(* connection, and its beginning and its end are told once; all of them    *)
(* need that one movie reports, or that no url is bad: a second movie runs *)
(* tasks that an exception has left behind once more.  Then its listeners, *)
(* and FABridge: its calls, its callbacks and numbers, and its objects.    *)
(***************************************************************************)
EXTENDS FlashSocketProperties, SocketEvents, BridgeCalls, BridgeIds, BridgeObjects,
        SequenceTheorems, FiniteSetTheorems, WellFoundedInduction, TLAPS

\* No task is run twice: nothing throws, or nothing runs the tasks again.
RunOnce == Bad = {} \/ Movies <= 1

-----------------------------------------------------------------------------
(* The inductive invariant.                                                *)

States == {CONNECTING, OPEN, CLOSED}
Connection ==
    [sock : Socket, state : States, queue : Seq(1..MaxMessages),
     amount : Nat, arrived : 0..MaxMessages]

Report == [conn : Nat, type : EventType, amount : Nat]
Call == {"open", "close", "error"}

SocketsTyped ==
    /\ conns \in Seq(Connection) /\ events \subseteq Report
    /\ heard \in [Socket -> Seq(1..MaxMessages)] /\ log \in [Socket -> Seq(Call)]

\* A connection and its socket know each other.
Paired ==
    /\ \A c \in DOMAIN conns : flash[conns[c].sock] = c
    /\ \A s \in Socket : flash[s] # 0 => conns[flash[s]].sock = s
    /\ \A s \in timer : flash[s] # 0

\* What is still to be created has no connection.
Uncreated ==
    /\ \A i, j \in DOMAIN tasks : tasks[i] = tasks[j] => i = j
    /\ \A i \in DOMAIN tasks : tasks[i] \in born \ timeouts
    /\ \A s \in timeouts : flash[s] = 0
    /\ movies = 0 => /\ conns = << >>
                     /\ \A s \in born \ timeouts : \E i \in DOMAIN tasks : tasks[i] = s
    /\ movies > 0 /\ Bad = {} => tasks = << >>
    /\ AllCreated

\* The script lags behind Flash.
Behind ==
    \A s \in Socket :
        /\ flash[s] = 0 => ready[s] = CONNECTING /\ heard[s] = << >> /\ log[s] = << >>
        /\ flash[s] # 0 => ready[s] <= FlashState(s)

\* What was heard is older than what is in the queue, and both are in order.
Increasing(q) == \A i, j \in DOMAIN q : i < j => q[i] < q[j]

Ordered(h, q, arrived) ==
    /\ Increasing(h) /\ Increasing(q)
    /\ \A i \in DOMAIN h : h[i] <= arrived
    /\ \A j \in DOMAIN q : q[j] <= arrived
    /\ \A i \in DOMAIN h, j \in DOMAIN q : h[i] < q[j]

InOrder ==
    \A c \in DOMAIN conns :
        Ordered(heard[conns[c].sock], conns[c].queue, conns[c].arrived)

\* The beginning (b) of a connection, or its end (~b), is under way in one event,
\* or has been told once, and never both.
Says(call, b) == IF b THEN call = "open" ELSE call # "open"
Tells(ev, b) == IF b THEN ev.type = "open" ELSE ev.type \in {"close", "error"}
Reached(c, b) == IF b THEN conns[c].state # CONNECTING ELSE conns[c].state = CLOSED

Said(s, b) == \E i \in DOMAIN log[s] : Says(log[s][i], b)
Once(s, b) ==
    \A i, j \in DOMAIN log[s] : Says(log[s][i], b) /\ Says(log[s][j], b) => i = j

News(b) ==
    /\ \A ev \in events : Tells(ev, b) => Reached(ev.conn, b) /\ ~ Said(Of(ev), b)
    /\ \A ev, e \in events :
          Tells(ev, b) /\ Tells(e, b) /\ e.conn = ev.conn => e = ev
    /\ \A s \in Socket : Said(s, b) => flash[s] # 0 /\ Reached(flash[s], b)
    /\ \A s \in Socket : Once(s, b)

IInv ==
    /\ TypeOK /\ SocketsTyped /\ Paired /\ Uncreated /\ Behind /\ InOrder
    /\ News(TRUE) /\ News(FALSE)

-----------------------------------------------------------------------------
(* What a step does to the connections.                                    *)

\* Connection c has this state, queue and numbers after the step, and the
\* others are what they were.
Turns(c, state, queue, amount, arrived) ==
    /\ conns' \in Seq(Connection) /\ Len(conns') = Len(conns)
    /\ conns'[c] = [sock |-> conns[c].sock, state |-> state, queue |-> queue,
                    amount |-> amount, arrived |-> arrived]
    /\ \A d \in 1..Len(conns) : d # c => conns'[d] = conns[d]

\* The first n of these sockets get their connections.
Makes(todo, n) ==
    /\ conns' \in Seq(Connection) /\ Len(conns') = Len(conns) + n
    /\ \A c \in 1..Len(conns) : conns'[c] = conns[c]
    /\ \A i \in 1..n :
          /\ conns'[Len(conns) + i] =
                [sock |-> todo[i], state |-> CONNECTING, queue |-> << >>,
                 amount |-> 0, arrived |-> 0]
          /\ flash'[todo[i]] = Len(conns) + i
    /\ flash' \in [Socket -> 0..Len(conns')]
    /\ \A s \in Socket : (\A i \in 1..n : todo[i] # s) => flash'[s] = flash[s]

\* What may become of a connection: its state goes on, its queue gets the next
\* message or is emptied.
GoesOn(k, l) ==
    /\ l.sock = k.sock /\ k.state <= l.state
    /\ \/ l.arrived = k.arrived /\ (l.queue = k.queue \/ l.queue = << >>)
       \/ l.arrived = k.arrived + 1 /\ l.queue = Append(k.queue, k.arrived + 1)

\* No connection comes or goes.
Stays ==
    /\ conns' \in Seq(Connection) /\ Len(conns') = Len(conns) /\ flash' = flash
    /\ \A c \in 1..Len(conns) : GoesOn(conns[c], conns'[c])

LEMMA Connections ==
    ASSUME TypeOK, SocketsTyped
    PROVE  /\ Len(conns) \in Nat /\ DOMAIN conns = 1..Len(conns)
           /\ \A c \in 1..Len(conns) : conns[c] \in Connection
           /\ \A s \in Socket : flash[s] # 0 => flash[s] \in 1..Len(conns)
PROOF
<1>1. conns \in Seq(Connection) /\ flash \in [Socket -> 0..Len(conns)]
    BY DEF TypeOK, SocketsTyped
<1>2. /\ Len(conns) \in Nat /\ DOMAIN conns = 1..Len(conns)
      /\ \A c \in 1..Len(conns) : conns[c] \in Connection
    BY ONLY <1>1
<1>3. ASSUME NEW s \in Socket, flash[s] # 0
      PROVE  flash[s] \in 1..Len(conns)
  <2>1. flash[s] \in 0..Len(conns)
      BY <1>1
  <2> QED
      BY ONLY <2>1, <1>2, <1>3
<1> QED
    BY <1>2, <1>3

LEMMA OneTurns ==
    ASSUME TypeOK, SocketsTyped, NEW c \in 1..Len(conns), NEW state \in States,
           NEW queue \in Seq(1..MaxMessages), NEW amount \in Nat,
           NEW arrived \in 0..MaxMessages,
           NEW r, conns' = [conns EXCEPT ![c] = r],
           r = [sock |-> conns[c].sock, state |-> state, queue |-> queue,
                amount |-> amount, arrived |-> arrived]
    PROVE  Turns(c, state, queue, amount, arrived)
PROOF
<1>1. /\ conns \in Seq(Connection) /\ conns[c].sock \in Socket
      /\ c \in 1..Len(conns)
    BY Connections DEF SocketsTyped, Connection
<1>2. r \in Connection
    BY <1>1 DEF Connection
<1>3. conns' = [conns EXCEPT ![c] = r]
    OBVIOUS
<1>4. conns' \in Seq(Connection) /\ Len(conns') = Len(conns)
    BY ONLY <1>1, <1>2, <1>3, ExceptSeq
<1>5. conns'[c] = r /\ \A d \in 1..Len(conns) : d # c => conns'[d] = conns[d]
    BY ONLY <1>1, <1>3
<1> QED
    BY <1>4, <1>5 DEF Turns

\* What EXCEPT makes of a connection.
LEMMA Fields ==
    ASSUME NEW k \in Connection, NEW x
    PROVE  /\ [k EXCEPT !.state = x] =
               [sock |-> k.sock, state |-> x, queue |-> k.queue,
                amount |-> k.amount, arrived |-> k.arrived]
           /\ [k EXCEPT !.queue = x] =
               [sock |-> k.sock, state |-> k.state, queue |-> x,
                amount |-> k.amount, arrived |-> k.arrived]
           /\ [k EXCEPT !.amount = x] =
               [sock |-> k.sock, state |-> k.state, queue |-> k.queue,
                amount |-> x, arrived |-> k.arrived]
           /\ [k EXCEPT !.state = x, !.queue = << >>] =
               [sock |-> k.sock, state |-> x, queue |-> << >>,
                amount |-> k.amount, arrived |-> k.arrived]
PROOF
<1>1. [k EXCEPT !.state = x] =
           [sock |-> k.sock, state |-> x, queue |-> k.queue,
            amount |-> k.amount, arrived |-> k.arrived]
    BY DEF Connection
<1>2. [k EXCEPT !.queue = x] =
           [sock |-> k.sock, state |-> k.state, queue |-> x,
            amount |-> k.amount, arrived |-> k.arrived]
    BY DEF Connection
<1>3. [k EXCEPT !.amount = x] =
           [sock |-> k.sock, state |-> k.state, queue |-> k.queue,
            amount |-> x, arrived |-> k.arrived]
    BY DEF Connection
<1>4. [k EXCEPT !.state = x, !.queue = << >>] =
           [sock |-> k.sock, state |-> x, queue |-> << >>,
            amount |-> k.amount, arrived |-> k.arrived]
  <2> DEFINE z == [k EXCEPT !.state = x]
  <2>1. z =
           [sock |-> k.sock, state |-> x, queue |-> k.queue,
              amount |-> k.amount, arrived |-> k.arrived]
      BY DEF Connection
  <2>2. [k EXCEPT !.state = x, !.queue = << >>] = [z EXCEPT !.queue = << >>]
      OBVIOUS
  <2> HIDE DEF z
  <2>3. [z EXCEPT !.queue = << >>] =
             [sock |-> k.sock, state |-> x, queue |-> << >>,
              amount |-> k.amount, arrived |-> k.arrived]
      BY ONLY <2>1
  <2> QED
      BY ONLY <2>2, <2>3
<1> QED
    BY ONLY <1>1, <1>2, <1>3, <1>4

LEMMA TwoFields ==
    ASSUME NEW k \in Connection, NEW x, NEW y
    PROVE  [k EXCEPT !.arrived = x, !.queue = y] =
               [sock |-> k.sock, state |-> k.state, queue |-> y,
                amount |-> k.amount, arrived |-> x]
PROOF
<1> DEFINE z == [k EXCEPT !.arrived = x]
<1>1. z =
           [sock |-> k.sock, state |-> k.state, queue |-> k.queue,
            amount |-> k.amount, arrived |-> x]
    BY DEF Connection
<1>2. [k EXCEPT !.arrived = x, !.queue = y] = [z EXCEPT !.queue = y]
    OBVIOUS
<1> HIDE DEF z
<1>3. [z EXCEPT !.queue = y] =
           [sock |-> k.sock, state |-> k.state, queue |-> y,
            amount |-> k.amount, arrived |-> x]
    BY ONLY <1>1
<1> QED
    BY ONLY <1>2, <1>3

LEMMA Turning ==
    ASSUME FlashSocketAssumption, TypeOK, SocketsTyped
    PROVE  /\ \A c \in 1..Len(conns) :
                LET k == conns[c] IN
                /\ FlashOpens(c) => Turns(c, OPEN, k.queue, k.amount, k.arrived)
                /\ FlashReceives(c) =>
                     Turns(c, k.state, Append(k.queue, k.arrived + 1), k.amount,
                           k.arrived + 1)
                /\ FlashSocketCloses(c) => Turns(c, CLOSED, k.queue, k.amount, k.arrived)
                /\ FlashClosing(c) \/ FlashError(c) =>
                     Turns(c, CLOSED, << >>, k.amount, k.arrived)
           /\ \A s \in Socket : flash[s] # 0 =>
                LET k == Conn(s) IN
                /\ HandleMessages(s) =>
                     Turns(flash[s], k.state, << >>, k.amount, k.arrived)
                /\ Send(s) =>
                     \/ k.state # CLOSED /\ UNCHANGED conns
                     \/ /\ k.state = CLOSED
                        /\ Turns(flash[s], k.state, k.queue, k.amount + 1, k.arrived)
                /\ Close(s) =>
                     \/ k.state # OPEN /\ UNCHANGED <<conns, log, timer>> /\ Refresh(s)
                     \/ /\ k.state = OPEN /\ Log(s, "close") /\ timer' = timer \ {s}
                        /\ ready' = [ready EXCEPT ![s] = CLOSED]
                        /\ Turns(flash[s], CLOSED, << >>, k.amount, k.arrived)
PROOF
<1>1. ASSUME NEW c \in 1..Len(conns)
      PROVE  /\ conns[c].sock \in Socket /\ conns[c].state \in States
             /\ conns[c].queue \in Seq(1..MaxMessages) /\ conns[c].amount \in Nat
             /\ conns[c].arrived \in 0..MaxMessages
             /\ conns[c] \in Connection
    BY Connections DEF Connection
<1>2. << >> \in Seq(1..MaxMessages) /\ OPEN \in States /\ CLOSED \in States
    BY DEF States
<1>13. MaxMessages \in Nat
    BY DEF FlashSocketAssumption
<1>3. ASSUME NEW c \in 1..Len(conns), FlashOpens(c)
      PROVE  Turns(c, OPEN, conns[c].queue, conns[c].amount, conns[c].arrived)
  <2>0. conns[c] \in Connection
      BY <1>1
  <2>1. [conns[c] EXCEPT !.state = OPEN] =
          [sock |-> conns[c].sock, state |-> OPEN, queue |-> conns[c].queue,
           amount |-> conns[c].amount, arrived |-> conns[c].arrived]
      BY ONLY <2>0, Fields
  <2>7. conns' = [conns EXCEPT ![c] = [conns[c] EXCEPT !.state = OPEN]]
      BY <1>1, <1>3 DEF FlashOpens
  <2> QED
      BY <1>1, <1>2, <2>1, <2>7, OneTurns
<1>4. ASSUME NEW c \in 1..Len(conns), FlashReceives(c)
      PROVE  Turns(c, conns[c].state, Append(conns[c].queue, conns[c].arrived + 1),
                   conns[c].amount, conns[c].arrived + 1)
  <2> DEFINE q == Append(conns[c].queue, conns[c].arrived + 1)
             n == conns[c].arrived + 1
  <2>1. conns[c].arrived \in 0..MaxMessages /\ conns[c].arrived < MaxMessages
      BY <1>1, <1>4 DEF FlashReceives
  <2>2. n \in 1..MaxMessages /\ n \in 0..MaxMessages
      BY ONLY <2>1, <1>13
  <2>3. q \in Seq(1..MaxMessages)
      BY <1>1, <2>2
  <2>0. conns[c] \in Connection
      BY <1>1
  <2>4. [conns[c] EXCEPT !.arrived = n, !.queue = q] =
          [sock |-> conns[c].sock, state |-> conns[c].state, queue |-> q,
           amount |-> conns[c].amount, arrived |-> n]
      BY ONLY <2>0, TwoFields
  <2>10. conns' = [conns EXCEPT ![c] = [conns[c] EXCEPT !.arrived = n, !.queue = q]]
      BY <1>1, <1>4 DEF FlashReceives
  <2> HIDE DEF q, n
  <2>5. Turns(c, conns[c].state, q, conns[c].amount, n)
      BY <1>1, <2>2, <2>3, <2>4, <2>10, OneTurns
  <2> QED
      BY <2>5 DEF q, n
<1>5. ASSUME NEW c \in 1..Len(conns), FlashSocketCloses(c)
      PROVE  Turns(c, CLOSED, conns[c].queue, conns[c].amount, conns[c].arrived)
  <2>0. conns[c] \in Connection
      BY <1>1
  <2>1. [conns[c] EXCEPT !.state = CLOSED] =
          [sock |-> conns[c].sock, state |-> CLOSED, queue |-> conns[c].queue,
           amount |-> conns[c].amount, arrived |-> conns[c].arrived]
      BY ONLY <2>0, Fields
  <2>7. conns' = [conns EXCEPT ![c] = [conns[c] EXCEPT !.state = CLOSED]]
      BY <1>1, <1>5 DEF FlashSocketCloses
  <2> QED
      BY <1>1, <1>2, <2>1, <2>7, OneTurns
<1>6. ASSUME NEW c \in 1..Len(conns),
             conns' = [conns EXCEPT ![c].state = CLOSED, ![c].queue = << >>]
      PROVE  Turns(c, CLOSED, << >>, conns[c].amount, conns[c].arrived)
  <2>0. conns[c] \in Connection
      BY <1>1
  <2>1. [conns[c] EXCEPT !.state = CLOSED, !.queue = << >>] =
          [sock |-> conns[c].sock, state |-> CLOSED, queue |-> << >>,
           amount |-> conns[c].amount, arrived |-> conns[c].arrived]
      BY ONLY <2>0, Fields
  <2>7. conns' = [conns EXCEPT ![c] = [conns[c] EXCEPT !.state = CLOSED, !.queue = << >>]]
      BY <1>1, <1>6
  <2> QED
      BY <1>1, <1>2, <2>1, <2>7, OneTurns
<1>7. ASSUME NEW s \in Socket, flash[s] # 0
      PROVE  flash[s] \in 1..Len(conns) /\ Conn(s) = conns[flash[s]]
    BY <1>7, Connections DEF Conn
<1>8. ASSUME NEW s \in Socket, flash[s] # 0, HandleMessages(s)
      PROVE  Turns(flash[s], Conn(s).state, << >>, Conn(s).amount, Conn(s).arrived)
  <2> DEFINE c == flash[s]
  <2>1. c \in 1..Len(conns) /\ Conn(s) = conns[c]
      BY <1>7, <1>8
  <2> HIDE DEF c
  <2>0. conns[c] \in Connection
      BY <1>1, <2>1
  <2>2. [conns[c] EXCEPT !.queue = << >>] =
          [sock |-> conns[c].sock, state |-> conns[c].state, queue |-> << >>,
           amount |-> conns[c].amount, arrived |-> conns[c].arrived]
      BY ONLY <2>0, Fields
  <2>8. conns' = [conns EXCEPT ![c] = [conns[c] EXCEPT !.queue = << >>]]
      BY <1>8 DEF HandleMessages, c
  <2>3. Turns(c, conns[c].state, << >>, conns[c].amount, conns[c].arrived)
      BY <1>1, <1>2, <2>1, <2>2, <2>8, OneTurns
  <2> QED
      BY <2>1, <2>3 DEF c
<1>9. ASSUME NEW s \in Socket, flash[s] # 0,
             conns' = [conns EXCEPT ![flash[s]].amount = @ + 1]
      PROVE  Turns(flash[s], Conn(s).state, Conn(s).queue, Conn(s).amount + 1,
                   Conn(s).arrived)
  <2> DEFINE c == flash[s]
             m == conns[c].amount + 1
  <2>1. c \in 1..Len(conns) /\ Conn(s) = conns[c]
      BY <1>7, <1>9
  <2> HIDE DEF c, m
  <2>0. conns[c] \in Connection
      BY <1>1, <2>1
  <2>2. [conns[c] EXCEPT !.amount = m] =
          [sock |-> conns[c].sock, state |-> conns[c].state, queue |-> conns[c].queue,
           amount |-> m, arrived |-> conns[c].arrived]
      BY ONLY <2>0 DEF Connection
  <2>8. conns' = [conns EXCEPT ![c] = [conns[c] EXCEPT !.amount = m]]
      BY <1>9 DEF c, m
  <2>3. m \in Nat
      BY <1>1, <2>1 DEF m
  <2>4. Turns(c, conns[c].state, conns[c].queue, m, conns[c].arrived)
      BY <1>1, <2>1, <2>2, <2>3, <2>8, OneTurns
  <2> QED
      BY <2>1, <2>4 DEF c, m
<1>10. ASSUME NEW c \in 1..Len(conns), FlashClosing(c) \/ FlashError(c)
       PROVE  Turns(c, CLOSED, << >>, conns[c].amount, conns[c].arrived)
    BY <1>6, <1>10 DEF FlashClosing, FlashError
<1>11. ASSUME NEW s \in Socket, flash[s] # 0, Send(s)
       PROVE  \/ Conn(s).state # CLOSED /\ UNCHANGED conns
              \/ /\ Conn(s).state = CLOSED
                 /\ Turns(flash[s], Conn(s).state, Conn(s).queue, Conn(s).amount + 1,
                          Conn(s).arrived)
    BY <1>9, <1>11 DEF Send, FlashState
<1>12. ASSUME NEW s \in Socket, flash[s] # 0, Close(s)
       PROVE  \/ Conn(s).state # OPEN /\ UNCHANGED <<conns, log, timer>> /\ Refresh(s)
              \/ /\ Conn(s).state = OPEN /\ Log(s, "close") /\ timer' = timer \ {s}
                 /\ ready' = [ready EXCEPT ![s] = CLOSED]
                 /\ Turns(flash[s], CLOSED, << >>, Conn(s).amount, Conn(s).arrived)
  <2>1. CASE FlashState(s) # OPEN
      BY <1>12, <2>1 DEF Close, FlashState
  <2>2. CASE FlashState(s) = OPEN
    <3>1. conns' = [conns EXCEPT ![flash[s]].state = CLOSED, ![flash[s]].queue = << >>]
        BY <1>12, <2>2 DEF Close
    <3>2. Turns(flash[s], CLOSED, << >>, Conn(s).amount, Conn(s).arrived)
        BY <1>6, <1>7, <1>12, <3>1
    <3> QED
        BY <1>12, <2>2, <3>2 DEF Close, FlashState
  <2> QED
      BY <2>1, <2>2
<1> QED
    BY <1>3, <1>4, <1>5, <1>8, <1>10, <1>11, <1>12

-----------------------------------------------------------------------------
(* Creation.                                                               *)

\* A set of numbers has a least one, which Min chooses.
LEMMA LeastIsIn ==
    ASSUME NEW I \in SUBSET Nat, I # {}
    PROVE  Min(I) \in I /\ \A y \in I : Min(I) <= y
PROOF
<1>1. \E x \in I : \A y \in I : ~ (<<y, x>> \in OpToRel(<, Nat))
    BY NatLessThanWellFounded, WFMin, Zenon
<1>2. PICK x \in I : \A y \in I : ~ (<<y, x>> \in OpToRel(<, Nat))
    BY <1>1
<1>3. ASSUME NEW y \in I
      PROVE  x <= y
  <2>1. <<y, x>> \in Nat \X Nat /\ <<y, x>>[1] = y /\ <<y, x>>[2] = x
      OBVIOUS
  <2>2. y < x => <<y, x>> \in OpToRel(<, Nat)
      BY <2>1, Zenon DEF OpToRel
  <2>3. ~ (y < x)
      BY <1>2, <2>2, Zenon
  <2>4. x \in Nat /\ y \in Nat
      OBVIOUS
  <2> QED
      BY ONLY <2>3, <2>4
<1> QED
    BY <1>3 DEF Min

\* The tasks that are run are those before the first one that throws.
LEMMA DoneIsPrefix ==
    ASSUME NEW todo \in Seq(Socket)
    PROVE  /\ Done(todo) \in Seq(Socket)
           /\ Len(Done(todo)) \in 0..Len(todo)
           /\ \A i \in 1..Len(Done(todo)) : Done(todo)[i] = todo[i] /\ todo[i] \notin Bad
           /\ \/ Done(todo) = todo
              \/ /\ Len(Done(todo)) < Len(todo)
                 /\ todo[Len(Done(todo)) + 1] \in Bad
PROOF
<1> DEFINE I == {i \in 1..Len(todo) : todo[i] \in Bad}
           b == SelectInSeq(todo, LAMBDA s : s \in Bad)
<1>1. Len(todo) \in Nat /\ I \in SUBSET Nat
    OBVIOUS
<1>2. b = IF I # {} THEN Min(I) ELSE 0
    BY DEF SelectInSeq
<1>3. Done(todo) = IF b = 0 THEN todo ELSE SubSeq(todo, 1, b - 1)
    BY DEF Done
<1>4. CASE I = {}
  <2>1. Done(todo) = todo
      BY <1>2, <1>3, <1>4
  <2>2. \A i \in 1..Len(todo) : todo[i] \notin Bad
      BY <1>4
  <2> QED
      BY <1>1, <2>1, <2>2
<1>5. CASE I # {}
  <2>1. b \in I /\ \A y \in I : b <= y
      BY <1>1, <1>2, <1>5, LeastIsIn
  <2>2. b \in 1..Len(todo) /\ todo[b] \in Bad
      BY <2>1
  <2>3. \A i \in 1..Len(todo) : todo[i] \in Bad => b <= i
      BY <2>1
  <2> HIDE DEF I, b
  <2>4. Done(todo) = SubSeq(todo, 1, b - 1) /\ b - 1 \in 0..Len(todo)
      BY <1>1, <1>3, <2>2
  <2>5. /\ Done(todo) \in Seq(Socket) /\ Len(Done(todo)) = b - 1
        /\ \A i \in 1..(b - 1) : Done(todo)[i] = todo[i]
      BY <2>2, <2>4
  <2>6. \A i \in 1..(b - 1) : todo[i] \notin Bad
      BY ONLY <1>1, <2>2, <2>3
  <2>7. b - 1 < Len(todo) /\ b - 1 + 1 = b /\ b - 1 \in 0..Len(todo)
      BY ONLY <1>1, <2>2
  <2> QED
      BY <2>2, <2>5, <2>6, <2>7
<1> QED
    BY <1>4, <1>5

\* Where the first of the tasks of a socket is.
LEMMA PlaceInList ==
    ASSUME NEW todo \in Seq(Socket),
           \A i, j \in 1..Len(todo) : todo[i] = todo[j] => i = j,
           NEW i \in 1..Len(todo)
    PROVE  SelectInSeq(todo, LAMBDA t : t = todo[i]) = i
PROOF
<1> DEFINE I == {k \in 1..Len(todo) : todo[k] = todo[i]}
<1>1. I = {i}
    OBVIOUS
<1>2. I \in SUBSET Nat
    OBVIOUS
<1>3. Min(I) = i
    BY <1>1, <1>2, LeastIsIn
<1> QED
    BY <1>1, <1>3 DEF SelectInSeq

LEMMA Making ==
    ASSUME FlashSocketAssumption, TypeOK, SocketsTyped, NEW todo \in Seq(Socket),
           \A i, j \in 1..Len(todo) : todo[i] = todo[j] => i = j,
           CreateFlash(todo)
    PROVE  Makes(todo, Len(Done(todo)))
PROOF
<1> DEFINE done == Done(todo)
           n == Len(done)
           l == Len(conns)
           New(i) == [sock |-> done[i], state |-> CONNECTING, queue |-> << >>,
                      amount |-> 0, arrived |-> 0]
           news == [i \in DOMAIN done |-> New(i)]
<1>1. /\ done \in Seq(Socket) /\ n \in 0..Len(todo)
      /\ \A i \in 1..n : done[i] = todo[i]
    BY DoneIsPrefix
<1>2. Len(todo) \in Nat /\ DOMAIN done = 1..n /\ n \in Nat
    BY <1>1
<1>3. conns \in Seq(Connection) /\ l \in Nat
    BY Connections DEF SocketsTyped
<1>4. news \in Seq(Connection) /\ Len(news) = n
  <2>1. ASSUME NEW i \in 1..n
        PROVE  New(i) \in Connection
    <3>1. done[i] \in Socket
        BY <1>1
    <3>2. CONNECTING \in States /\ << >> \in Seq(1..MaxMessages) /\ 0 \in Nat
        BY DEF States
    <3>3. 0 \in 0..MaxMessages
        BY DEF FlashSocketAssumption
    <3> QED
        BY <3>1, <3>2, <3>3 DEF Connection
  <2> HIDE DEF New, n, done
  <2>2. news = [i \in 1..n |-> New(i)]
      BY <1>2
  <2> QED
      BY <1>2, <2>1, <2>2
<1>5. conns' = conns \o news
    BY DEF CreateFlash
<1>6. \A i \in 1..n : news[i] = [sock |-> todo[i], state |-> CONNECTING, queue |-> << >>,
                                 amount |-> 0, arrived |-> 0]
    BY <1>1, <1>2
<1>7. flash' = [s \in Socket |->
                  IF s \in ToSet(done) THEN l + SelectInSeq(done, LAMBDA t : t = s)
                  ELSE flash[s]]
    BY DEF CreateFlash
<1>8. ASSUME NEW i \in 1..n
      PROVE  todo[i] \in Socket /\ flash'[todo[i]] = l + i
  <2>1. \A j, k \in 1..n : done[j] = done[k] => j = k
      BY <1>1
  <2>2. todo[i] = done[i] /\ done[i] \in Socket /\ done[i] \in ToSet(done)
      BY <1>1, <1>2 DEF ToSet
  <2>3. SelectInSeq(done, LAMBDA t : t = done[i]) = i
      BY <1>1, <2>1, PlaceInList
  <2> HIDE DEF done, l, n
  <2> QED
      BY <1>7, <2>2, <2>3
<1>9. ASSUME NEW s \in Socket, \A i \in 1..n : todo[i] # s
      PROVE  flash'[s] = flash[s]
  <2>1. s \notin ToSet(done)
      BY <1>1, <1>2, <1>9 DEF ToSet
  <2> QED
      BY <1>7, <2>1
<1> HIDE DEF done, n, l, news
<1>10. /\ conns' \in Seq(Connection) /\ Len(conns') = l + n
       /\ \A c \in 1..l : conns'[c] = conns[c]
       /\ \A i \in 1..n : conns'[l + i] = news[i]
  <2>1. /\ conns \o news \in Seq(Connection) /\ Len(conns \o news) = l + n
        /\ \A i \in 1..(l + n) :
              (conns \o news)[i] = IF i <= l THEN conns[i] ELSE news[i - l]
    <3>1. conns \in Seq(Connection) /\ news \in Seq(Connection)
        BY <1>3, <1>4
    <3>2. /\ conns \o news \in Seq(Connection)
          /\ Len(conns \o news) = Len(conns) + Len(news)
          /\ \A i \in 1..(Len(conns) + Len(news)) :
                (conns \o news)[i] =
                  IF i <= Len(conns) THEN conns[i] ELSE news[i - Len(conns)]
        BY ONLY <3>1, ConcatProperties
    <3> QED
        BY <1>4, <3>2 DEF l
  <2>2. ASSUME NEW c \in 1..l
        PROVE  conns'[c] = conns[c]
    <3>1. c \in 1..(l + n) /\ c <= l
        BY <1>2, <1>3
    <3> QED
        BY <1>5, <2>1, <3>1
  <2>3. ASSUME NEW i \in 1..n
        PROVE  conns'[l + i] = news[i]
    <3> DEFINE k == l + i
    <3>1. k \in 1..(l + n) /\ ~ (k <= l) /\ k - l = i
        BY <1>2, <1>3
    <3> HIDE DEF k
    <3>2. (conns \o news)[k] = news[k - l]
        BY ONLY <2>1, <3>1
    <3> QED
        BY ONLY <1>5, <3>1, <3>2 DEF k
  <2> QED
      BY <1>5, <2>1, <2>2, <2>3
<1>11. flash' \in [Socket -> 0..Len(conns')]
  <2>1. ASSUME NEW s \in Socket
        PROVE  flash'[s] \in 0..(l + n)
    <3>1. CASE \E i \in 1..n : todo[i] = s
      <4>1. PICK i \in 1..n : todo[i] = s
          BY <3>1
      <4>2. flash'[s] = l + i
          BY <4>1, <1>8
      <4> QED
          BY <1>2, <1>3, <4>2
    <3>2. CASE ~ \E i \in 1..n : todo[i] = s
      <4>1. flash'[s] = flash[s] /\ flash[s] \in 0..l
          BY <3>2, <1>9 DEF TypeOK, l
      <4> QED
          BY <1>2, <1>3, <4>1
    <3> QED
        BY <3>1, <3>2
  <2>2. DOMAIN flash' = Socket /\ flash' = [s \in Socket |-> flash'[s]]
      BY <1>7
  <2> QED
      BY <1>10, <2>1, <2>2
<1> QED
    BY <1>6, <1>8, <1>9, <1>10, <1>11 DEF Makes, n, l, done

-----------------------------------------------------------------------------
(* What a step does to the sockets.                                        *)

\* Sockets get their first connections.
Creates ==
    /\ \E todo \in Seq(Socket), n \in Nat :
          /\ Makes(todo, n) /\ n <= Len(todo)
          /\ \A i \in 1..n : todo[i] \in born /\ flash[todo[i]] = 0
          /\ \A i, j \in 1..n : todo[i] = todo[j] => i = j
    /\ UNCHANGED <<born, ready, buffered, timer, events, heard, log>>

\* Socket s takes a state that is not behind its own, nor ahead of Flash's.
Shows(s) ==
    \E x \in States :
        /\ ready' = [ready EXCEPT ![s] = x]
        /\ ready[s] <= x /\ x <= conns'[flash[s]].state

Connected == {s \in Socket : flash[s] # 0}

LEMMA TurnsStays ==
    ASSUME TypeOK, SocketsTyped, NEW c \in 1..Len(conns), NEW x \in States,
           NEW q, NEW m, NEW a, Turns(c, x, q, m, a), UNCHANGED flash,
           conns[c].state <= x,
           \/ a = conns[c].arrived /\ (q = conns[c].queue \/ q = << >>)
           \/ a = conns[c].arrived + 1 /\ q = Append(conns[c].queue, conns[c].arrived + 1)
    PROVE  Stays /\ conns'[c].state = x
PROOF
<1>1. ASSUME NEW d \in 1..Len(conns)
      PROVE  conns[d].state <= conns[d].state
  <2>1. conns[d].state \in States
      BY Connections DEF Connection
  <2> QED
      BY ONLY <2>1 DEF States, CONNECTING, OPEN, CLOSED
<1>2. GoesOn(conns[c], conns'[c]) /\ conns'[c].state = x
    BY DEF Turns, GoesOn
<1>3. ASSUME NEW d \in 1..Len(conns), d # c
      PROVE  GoesOn(conns[d], conns'[d])
    BY <1>1, <1>3 DEF Turns, GoesOn
<1> QED
    BY <1>2, <1>3 DEF Turns, Stays

LEMMA SameStays ==
    ASSUME TypeOK, SocketsTyped, UNCHANGED <<conns, flash>>
    PROVE  Stays
PROOF
<1>1. ASSUME NEW d \in 1..Len(conns)
      PROVE  conns[d].state <= conns[d].state
  <2>1. conns[d].state \in States
      BY Connections DEF Connection
  <2> QED
      BY ONLY <2>1 DEF States, CONNECTING, OPEN, CLOSED
<1> QED
    BY <1>1 DEF Stays, GoesOn, SocketsTyped

\* The events of a connection are those of its socket.
LEMMA OfIs ==
    ASSUME TypeOK, SocketsTyped, Paired, NEW ev \in events
    PROVE  /\ ev \in Report /\ ev.conn \in 1..Len(conns) /\ Of(ev) \in Connected
           /\ flash[Of(ev)] = ev.conn /\ Conn(Of(ev)) = conns[ev.conn]
PROOF
<1>1. ev \in Report /\ ev.conn \in 1..Len(conns)
    BY Connections DEF TypeOK, SocketsTyped
<1>2. Of(ev) \in Socket /\ flash[Of(ev)] = ev.conn
    BY <1>1, Connections DEF Of, Paired, Connection
<1> QED
    BY <1>1, <1>2, Connections DEF Connected, Conn

LEMMA AddTaskCreates ==
    ASSUME FlashSocketAssumption, IInv, NEW s \in Socket, AddTask(s), movies > 0
    PROVE  /\ Makes(<<s>>, IF s \in Bad THEN 0 ELSE 1)
           /\ UNCHANGED tasks
           /\ Creates
PROOF
<1> USE DEF IInv
<1> DEFINE todo == <<s>>
           n == Len(Done(todo))
<1>1. /\ todo \in Seq(Socket) /\ Len(todo) = 1 /\ todo[1] = s
      /\ CreateFlash(todo) /\ UNCHANGED tasks
  <2>1. movies # 0
      BY DEF TypeOK
  <2> QED
      BY <2>1 DEF AddTask
<1>2. \A i, j \in 1..Len(todo) : todo[i] = todo[j] => i = j
    BY <1>1
<1>3. Makes(todo, n)
    BY <1>1, <1>2, Making
<1>4. n = IF s \in Bad THEN 0 ELSE 1
  <2>1. /\ n \in 0..1 /\ \A i \in 1..n : todo[i] \notin Bad
        /\ Done(todo) = todo \/ (n < 1 /\ todo[n + 1] \in Bad)
      BY <1>1, DoneIsPrefix
  <2> HIDE DEF n, todo
  <2>2. CASE n = 0
    <3>1. Len(todo) = 1
        BY <1>1
    <3>2. Done(todo) = todo => Len(Done(todo)) = Len(todo)
        OBVIOUS
    <3>3. Done(todo) # todo
        BY ONLY <2>2, <3>1, <3>2 DEF n
    <3> QED
        BY <1>1, <2>1, <2>2, <3>3
  <2>3. CASE n = 1
      BY <1>1, <2>1, <2>3
  <2> QED
      BY <2>1, <2>2, <2>3
<1> HIDE DEF n
<1>5. s \in born /\ flash[s] = 0
    BY DEF AddTask, TypeOK, Uncreated
<1>6. n \in Nat /\ n <= Len(todo)
    BY <1>1, <1>4
<1>7. \A i \in 1..n : todo[i] = s
    BY <1>1, <1>4
<1>8. UNCHANGED <<born, ready, buffered, timer, events, heard, log>>
    BY DEF AddTask
<1>9. Creates
  <2>1. /\ Makes(todo, n) /\ n <= Len(todo)
        /\ \A i \in 1..n : todo[i] \in born /\ flash[todo[i]] = 0
        /\ \A i, j \in 1..n : todo[i] = todo[j] => i = j
      BY <1>1, <1>2, <1>3, <1>5, <1>6, <1>7
  <2> HIDE DEF todo
  <2> QED
      BY <1>1, <1>6, <1>8, <2>1 DEF Creates
<1> QED
    BY <1>1, <1>3, <1>4, <1>9

LEMMA MovieReadyCreates ==
    ASSUME FlashSocketAssumption, RunOnce, IInv, MovieReady
    PROVE  Makes(tasks, Len(Done(tasks))) /\ Creates
PROOF
<1> USE DEF IInv
<1> DEFINE n == Len(Done(tasks))
<1>1. /\ tasks \in Seq(Socket) /\ Len(tasks) \in Nat
      /\ DOMAIN tasks = 1..Len(tasks)
    BY DEF TypeOK
<1>2. \A i, j \in 1..Len(tasks) : tasks[i] = tasks[j] => i = j
    BY <1>1 DEF Uncreated
<1>3. CreateFlash(tasks)
    BY DEF MovieReady
<1>4. Makes(tasks, n)
    BY <1>1, <1>2, <1>3, Making
<1>5. n \in 0..Len(tasks)
    BY <1>1, DoneIsPrefix
<1>6. ASSUME NEW i \in 1..Len(tasks)
      PROVE  tasks[i] \in born /\ flash[tasks[i]] = 0
  <2>1. tasks[i] \in born /\ tasks[i] \in Socket
      BY <1>1 DEF Uncreated
  <2>2. tasks # << >>
      BY <1>1
  <2>3. movies = 0
    <3>1. movies \in Nat /\ movies < Movies /\ Movies \in Nat
        BY DEF TypeOK, MovieReady, FlashSocketAssumption
    <3>2. Bad # {} => movies = 0
        BY <3>1 DEF RunOnce
    <3>3. Bad = {} => ~ (movies > 0)
        BY <2>2 DEF Uncreated
    <3> QED
        BY ONLY <3>1, <3>2, <3>3
  <2>4. flash[tasks[i]] \in 0..Len(conns) /\ Len(conns) = 0
      BY <2>1, <2>3 DEF Uncreated, TypeOK
  <2> QED
      BY ONLY <2>1, <2>4
<1>7. UNCHANGED <<born, ready, buffered, timer, events, heard, log>>
    BY DEF MovieReady
<1> HIDE DEF n
<1>8. n \in Nat /\ n <= Len(tasks) /\ \A i \in 1..n : i \in 1..Len(tasks)
    BY <1>1, <1>5
<1>9. Creates
    BY <1>1, <1>2, <1>4, <1>6, <1>7, <1>8 DEF Creates
<1> QED
    BY <1>4, <1>9 DEF n

\* A step that creates nothing: what becomes of what the page sees.
Proceeds ==
    /\ Stays /\ born \subseteq born'
    /\ UNCHANGED ready \/ \E s \in Connected : Shows(s)
    /\ UNCHANGED heard \/ \E s \in Connected : HandleMessages(s)
    /\ UNCHANGED log \/ \E s \in Connected : \E call \in Call : Log(s, call)

LEMMA FlashProceeds ==
    ASSUME FlashSocketAssumption, IInv, NEW c \in DOMAIN conns, Flash(c)
    PROVE  Proceeds
PROOF
<1> USE DEF IInv
<1> DEFINE k == conns[c]
<1>1. c \in 1..Len(conns) /\ k.state \in States
    BY Connections DEF Connection
<1>2. \A x \in States : x <= CLOSED /\ x <= x /\ CONNECTING <= x
    BY DEF States, CONNECTING, OPEN, CLOSED
<1>3. OPEN \in States /\ CLOSED \in States
    BY DEF States
<1>4. UNCHANGED <<movies, tasks, timeouts, page>>
    BY DEF Flash, FlashOpens, FlashReceives, FlashSocketCloses, FlashClosing, FlashError
<1>5. UNCHANGED <<born, ready, heard, log, flash>>
    BY <1>4 DEF page
<1>6. CASE FlashOpens(c)
  <2>1. Turns(c, OPEN, k.queue, k.amount, k.arrived) /\ k.state <= OPEN
      BY <1>1, <1>2, <1>3, <1>6, Turning DEF FlashOpens
  <2>2. Stays
      BY <1>1, <1>3, <1>5, <2>1, TurnsStays
  <2> QED
      BY <1>5, <2>2 DEF Proceeds
<1>7. CASE FlashReceives(c)
  <2>1. Turns(c, k.state, Append(k.queue, k.arrived + 1), k.amount, k.arrived + 1)
      BY <1>1, <1>7, Turning
  <2>2. Stays
      BY <1>1, <1>2, <1>5, <2>1, TurnsStays
  <2> QED
      BY <1>5, <2>2 DEF Proceeds
<1>8. CASE FlashSocketCloses(c)
  <2>1. Turns(c, CLOSED, k.queue, k.amount, k.arrived) /\ k.state <= CLOSED
      BY <1>1, <1>2, <1>8, Turning
  <2>2. Stays
      BY <1>1, <1>3, <1>5, <2>1, TurnsStays
  <2> QED
      BY <1>5, <2>2 DEF Proceeds
<1>9. CASE FlashClosing(c) \/ FlashError(c)
  <2>1. Turns(c, CLOSED, << >>, k.amount, k.arrived) /\ k.state <= CLOSED
      BY <1>1, <1>2, <1>9, Turning
  <2>2. Stays
      BY <1>1, <1>3, <1>5, <2>1, TurnsStays
  <2> QED
      BY <1>5, <2>2 DEF Proceeds
<1> QED
    BY <1>6, <1>7, <1>8, <1>9 DEF Flash

\* A state that is asked for is shown.
LEMMA RefreshShows ==
    ASSUME FlashSocketAssumption, IInv, NEW s \in Connected, Refresh(s), Stays
    PROVE  Shows(s)
PROOF
<1> USE DEF IInv
<1> DEFINE c == flash[s]
<1>1. /\ s \in Socket /\ c \in 1..Len(conns) /\ FlashState(s) = conns[c].state
      /\ conns[c].state \in States
    BY Connections DEF Connected, FlashState, Conn, Connection
<1>2. ready[s] <= FlashState(s)
    BY DEF Connected, Behind
<1>3. conns[c].state <= conns'[c].state /\ ready' = [ready EXCEPT ![s] = FlashState(s)]
    BY <1>1 DEF Stays, GoesOn, Refresh
<1> QED
    BY <1>1, <1>2, <1>3 DEF Shows

LEMMA HandleStays ==
    ASSUME FlashSocketAssumption, TypeOK, SocketsTyped, NEW s \in Connected,
           HandleMessages(s), UNCHANGED flash
    PROVE  Stays
PROOF
<1> DEFINE k == Conn(s)
           c == flash[s]
<1>1. /\ s \in Socket /\ c # 0 /\ c \in 1..Len(conns) /\ k = conns[c]
      /\ k.state \in States
    BY Connections DEF Connected, Conn, Connection
<1>2. k.state <= k.state
    BY <1>1 DEF States, CONNECTING, OPEN, CLOSED
<1>3. Turns(c, k.state, << >>, k.amount, k.arrived)
    BY <1>1, Turning
<1> QED
    BY <1>1, <1>2, <1>3, TurnsStays

LEMMA HandleProceeds ==
    ASSUME FlashSocketAssumption, IInv, NEW ev \in events, Handle(ev) \/ Drop(ev)
    PROVE  Proceeds
PROOF
<1> USE DEF IInv
<1>1. Of(ev) \in Connected
    BY OfIs
<1>2. "open" \in Call /\ "close" \in Call /\ "error" \in Call
    BY DEF Call
<1>3. CASE OnOpen(ev)
  <2>1. Stays
      BY <1>3, SameStays DEF OnOpen
  <2>2. Shows(Of(ev))
      BY <1>1, <1>3, <2>1, RefreshShows DEF OnOpen
  <2>3. Log(Of(ev), "open") /\ UNCHANGED <<born, heard>>
      BY <1>3 DEF OnOpen
  <2> QED
      BY <1>1, <1>2, <2>1, <2>2, <2>3 DEF Proceeds
<1>4. CASE OnClose(ev)
  <2>1. Stays
      BY <1>4, SameStays DEF OnClose
  <2>2. Shows(Of(ev))
      BY <1>1, <1>4, <2>1, RefreshShows DEF OnClose
  <2>3. Log(Of(ev), "close") /\ UNCHANGED <<born, heard>>
      BY <1>4 DEF OnClose
  <2> QED
      BY <1>1, <1>2, <2>1, <2>2, <2>3 DEF Proceeds
<1>5. CASE OnError(ev)
  <2>1. Stays
      BY <1>5, SameStays DEF OnError
  <2>2. Log(Of(ev), "error") /\ UNCHANGED <<born, ready, heard>>
      BY <1>5 DEF OnError
  <2> QED
      BY <1>1, <1>2, <2>1, <2>2 DEF Proceeds
<1>6. CASE OnStateChange(ev)
  <2>1. Stays
      BY <1>6, SameStays DEF OnStateChange
  <2>2. Shows(Of(ev))
      BY <1>1, <1>6, <2>1, RefreshShows DEF OnStateChange
  <2>3. UNCHANGED <<born, heard, log>>
      BY <1>6 DEF OnStateChange
  <2> QED
      BY <1>1, <2>1, <2>2, <2>3 DEF Proceeds
<1>7. CASE OnMessage(ev)
  <2>1. HandleMessages(Of(ev)) /\ UNCHANGED <<born, flash, ready, log>>
      BY <1>7 DEF OnMessage
  <2>2. Stays
      BY <1>1, <2>1, HandleStays
  <2> QED
      BY <1>1, <2>1, <2>2 DEF Proceeds
<1>8. CASE Drop(ev)
  <2>1. UNCHANGED <<born, flash, ready, heard, log, conns>>
      BY <1>8 DEF Drop, page
  <2>2. Stays
      BY <2>1, SameStays
  <2> QED
      BY <2>1, <2>2 DEF Proceeds
<1> QED
    BY <1>3, <1>4, <1>5, <1>6, <1>7, <1>8 DEF Handle

LEMMA PageProceeds ==
    ASSUME FlashSocketAssumption, IInv, NEW s \in Socket,
           Send(s) \/ Close(s) \/ Tick(s)
    PROVE  Proceeds
PROOF
<1> USE DEF IInv
<1> DEFINE k == Conn(s)
           c == flash[s]
<1>1. /\ s \in Connected /\ c # 0 /\ c \in 1..Len(conns) /\ k = conns[c]
      /\ k.state \in States /\ FlashState(s) = k.state
  <2>1. flash[s] # 0
      BY DEF Send, Close, Tick, Paired
  <2> QED
      BY <2>1, Connections DEF Connected, Conn, Connection, FlashState
<1>2. \A x \in States : x <= CLOSED /\ x <= x
    BY DEF States, CONNECTING, OPEN, CLOSED
<1>3. CLOSED \in States /\ "close" \in Call
    BY DEF States, Call
<1>4. CASE Send(s)
  <2>1. Refresh(s) /\ UNCHANGED <<born, flash, heard, log>>
      BY <1>4 DEF Send
  <2>2. UNCHANGED conns \/ Turns(c, k.state, k.queue, k.amount + 1, k.arrived)
      BY <1>1, <1>4, Turning
  <2>3. Stays
    <3>1. CASE UNCHANGED conns
        BY <2>1, <3>1, SameStays
    <3>2. CASE Turns(c, k.state, k.queue, k.amount + 1, k.arrived)
        BY <1>1, <1>2, <2>1, <3>2, TurnsStays
    <3> QED
        BY <2>2, <3>1, <3>2
  <2>4. Shows(s)
      BY <1>1, <2>1, <2>3, RefreshShows
  <2> QED
      BY <1>1, <2>1, <2>3, <2>4 DEF Proceeds
<1>5. CASE Close(s)
  <2>1. UNCHANGED <<born, flash, heard>>
      BY <1>5 DEF Close
  <2>2. CASE UNCHANGED <<conns, log, timer>> /\ Refresh(s)
    <3>1. Stays
        BY <2>1, <2>2, SameStays
    <3>2. Shows(s)
        BY <1>1, <2>2, <3>1, RefreshShows
    <3> QED
        BY <1>1, <2>1, <2>2, <3>1, <3>2 DEF Proceeds
  <2>3. CASE /\ Log(s, "close") /\ ready' = [ready EXCEPT ![s] = CLOSED]
             /\ Turns(c, CLOSED, << >>, k.amount, k.arrived)
    <3>1. Stays /\ conns'[c].state = CLOSED
        BY <1>1, <1>2, <1>3, <2>1, <2>3, TurnsStays
    <3>2. ready[s] <= CLOSED
        BY <1>2 DEF TypeOK, States
    <3>3. Shows(s)
        BY <1>2, <1>3, <2>3, <3>1, <3>2 DEF Shows
    <3> QED
        BY <1>1, <1>3, <2>1, <2>3, <3>1, <3>3 DEF Proceeds
  <2> QED
      BY <1>1, <1>5, <2>2, <2>3, Turning
<1>6. CASE Tick(s)
  <2>1. HandleMessages(s) /\ UNCHANGED <<born, flash, ready, log>>
      BY <1>6 DEF Tick
  <2>2. Stays
      BY <1>1, <2>1, HandleStays
  <2> QED
      BY <1>1, <2>1, <2>2 DEF Proceeds
<1> QED
    BY <1>4, <1>5, <1>6

\* Every step creates connections or leaves them be.
LEMMA Kinds ==
    ASSUME FlashSocketAssumption, RunOnce, IInv, [Next]_vars
    PROVE  Creates \/ Proceeds
PROOF
<1> USE DEF IInv
<1>1. ASSUME UNCHANGED <<born, conns, flash, ready, heard, log>>
      PROVE  Proceeds
    BY <1>1, SameStays DEF Proceeds
<1>2. ASSUME NEW s \in Socket, Construct(s)
      PROVE  Proceeds
  <2>1. born \subseteq born' /\ UNCHANGED <<conns, flash, ready, heard, log>>
      BY <1>2 DEF Construct
  <2> QED
      BY <2>1, SameStays DEF Proceeds
<1>3. ASSUME NEW s \in Socket, AddTask(s)
      PROVE  Creates \/ Proceeds
  <2>1. CASE movies > 0
      BY <1>3, <2>1, AddTaskCreates
  <2>2. CASE ~ (movies > 0)
      BY <1>1, <1>3, <2>2 DEF AddTask
  <2> QED
      BY <2>1, <2>2
<1>4. CASE MovieReady
    BY <1>4, MovieReadyCreates
<1>5. CASE UNCHANGED vars
    BY <1>1, <1>5 DEF vars, page
<1> QED
    BY <1>2, <1>3, <1>4, <1>5, FlashProceeds, HandleProceeds, PageProceeds DEF Next

-----------------------------------------------------------------------------
(* Types, and how connections and sockets belong together.                 *)

\* A connection as __createFlash makes it, of this socket
New(k, s) ==
    k.sock = s /\ k.state = CONNECTING /\ k.queue = << >> /\ k.arrived = 0

LEMMA Created ==
    ASSUME TypeOK, SocketsTyped, Creates
    PROVE  /\ conns' \in Seq(Connection) /\ flash' \in [Socket -> 0..Len(conns')]
           /\ Len(conns') \in Nat /\ Len(conns) <= Len(conns')
           /\ \A c \in 1..Len(conns) : conns'[c] = conns[c]
           /\ \A c \in 1..Len(conns') : c \notin 1..Len(conns) =>
                 \E s \in born : New(conns'[c], s) /\ flash[s] = 0 /\ flash'[s] = c
           /\ \A s \in Socket :
                 \/ flash'[s] = flash[s]
                 \/ /\ flash[s] = 0 /\ flash'[s] \in 1..Len(conns')
                    /\ New(conns'[flash'[s]], s)
PROOF
<1>1. PICK todo \in Seq(Socket), n \in Nat :
         /\ Makes(todo, n) /\ n <= Len(todo)
         /\ \A i \in 1..n : todo[i] \in born /\ flash[todo[i]] = 0
    BY DEF Creates
<1> DEFINE l == Len(conns)
<1>2. l \in Nat
    BY Connections
<1>3. /\ conns' \in Seq(Connection) /\ Len(conns') = l + n
      /\ flash' \in [Socket -> 0..Len(conns')]
      /\ \A c \in 1..l : conns'[c] = conns[c]
    BY <1>1 DEF Makes
<1>4. ASSUME NEW i \in 1..n
      PROVE  New(conns'[l + i], todo[i]) /\ flash'[todo[i]] = l + i
  <2>1. /\ conns'[l + i] = [sock |-> todo[i], state |-> CONNECTING, queue |-> << >>,
                            amount |-> 0, arrived |-> 0]
        /\ flash'[todo[i]] = l + i
      BY <1>1 DEF Makes
  <2> QED
      BY ONLY <2>1 DEF New
<1>5. \A s \in Socket : (\A i \in 1..n : todo[i] # s) => flash'[s] = flash[s]
    BY <1>1 DEF Makes
<1> HIDE DEF l
<1>6. ASSUME NEW c \in 1..Len(conns'), c \notin 1..l
      PROVE  \E s \in born : New(conns'[c], s) /\ flash[s] = 0 /\ flash'[s] = c
  <2> DEFINE i == c - l
  <2>1. i \in 1..n /\ l + i = c
      BY <1>2, <1>3, <1>6
  <2> HIDE DEF i
  <2>2. New(conns'[c], todo[i]) /\ flash'[todo[i]] = c
      BY <1>4, <2>1
  <2> QED
      BY <1>1, <2>1, <2>2
<1>7. ASSUME NEW s \in Socket, flash'[s] # flash[s]
      PROVE  flash[s] = 0 /\ flash'[s] \in 1..Len(conns') /\ New(conns'[flash'[s]], s)
  <2>1. PICK i \in 1..n : todo[i] = s
      BY <1>5, <1>7
  <2>2. l + i \in 1..Len(conns')
      BY <1>2, <1>3
  <2> QED
      BY <1>1, <1>4, <2>1, <2>2
<1>8. Len(conns') \in Nat /\ l <= Len(conns')
    BY <1>2, <1>3
<1> QED
    BY <1>3, <1>6, <1>7, <1>8 DEF l

\* What Flash fires is an event of its connection.
LEMMA Fired ==
    ASSUME SocketsTyped, NEW c \in 1..Len(conns), NEW T \in SUBSET EventType, Fire(c, T),
           conns[c].amount \in Nat, Len(conns) \in Nat
    PROVE  /\ events' \subseteq Report
           /\ \A ev \in events' : ev \in events \/ (ev.conn = c /\ ev.type \in T)
           /\ \A t \in T : \E ev \in events' : ev.conn = c /\ ev.type = t
PROOF
<1>1. c \in Nat
    OBVIOUS
<1>2. events' = events \cup {[conn |-> c, type |-> t, amount |-> conns[c].amount] : t \in T}
    BY DEF Fire
<1>3. ASSUME NEW t \in T
      PROVE  [conn |-> c, type |-> t, amount |-> conns[c].amount] \in Report
    BY <1>1 DEF Report
<1>4. ASSUME NEW ev \in events'
      PROVE  ev \in Report /\ (ev \in events \/ (ev.conn = c /\ ev.type \in T))
  <2>1. CASE ev \in events
      BY <2>1 DEF SocketsTyped
  <2>2. CASE \E t \in T : ev = [conn |-> c, type |-> t, amount |-> conns[c].amount]
      BY <1>3, <2>2
  <2> QED
      BY <1>2, <2>1, <2>2
<1>5. ASSUME NEW t \in T
      PROVE  \E ev \in events' : ev.conn = c /\ ev.type = t
  <2>1. [conn |-> c, type |-> t, amount |-> conns[c].amount] \in events'
      BY <1>2
  <2> QED
      BY <2>1
<1> QED
    BY <1>4, <1>5

LEMMA EventsStep ==
    ASSUME FlashSocketAssumption, IInv, [Next]_vars
    PROVE  /\ events' \subseteq Report
           /\ \A ev \in events' : ev \in events \/ ev.conn \in 1..Len(conns)
PROOF
<1> USE DEF IInv
<1>1. ASSUME events' \subseteq events
      PROVE  /\ events' \subseteq Report
             /\ \A ev \in events' : ev \in events \/ ev.conn \in 1..Len(conns)
    BY <1>1 DEF SocketsTyped
<1>2. ASSUME NEW c \in DOMAIN conns, Flash(c)
      PROVE  /\ events' \subseteq Report
             /\ \A ev \in events' : ev \in events \/ ev.conn \in 1..Len(conns)
  <2>1. c \in 1..Len(conns) /\ conns[c].amount \in Nat /\ Len(conns) \in Nat
      BY Connections DEF Connection
  <2>2. \E T \in SUBSET EventType : Fire(c, T)
      BY <1>2 DEF Flash, FlashOpens, FlashReceives, FlashSocketCloses, FlashClosing,
                  FlashError, EventType
  <2> QED
      BY <2>1, <2>2, Fired
<1>3. ASSUME NEW ev \in events, Handle(ev) \/ Drop(ev)
      PROVE  events' \subseteq events
    BY <1>3 DEF Handle, Drop, OnOpen, OnClose, OnError, OnStateChange, OnMessage, Arrives
<1>4. ASSUME NEW s \in Socket,
             Construct(s) \/ AddTask(s) \/ Send(s) \/ Close(s) \/ Tick(s)
      PROVE  events' \subseteq events
    BY <1>4 DEF Construct, AddTask, Send, Close, Tick
<1>5. CASE MovieReady
    BY <1>1, <1>5 DEF MovieReady
<1>6. CASE UNCHANGED vars
    BY <1>1, <1>6 DEF vars
<1> QED
    BY <1>1, <1>2, <1>3, <1>4, <1>5, <1>6 DEF Next

LEMMA TypesStep ==
    ASSUME FlashSocketAssumption, RunOnce, IInv, [Next]_vars
    PROVE  TypeOK' /\ SocketsTyped'
PROOF
<1> USE DEF IInv
<1>1. /\ conns' \in Seq(Connection) /\ flash' \in [Socket -> 0..Len(conns')]
      /\ \A c \in 1..Len(conns') : conns'[c].sock \in born'
      /\ 1..Len(conns) \subseteq 1..Len(conns')
  <2>1. \A c \in 1..Len(conns) : conns[c].sock \in born
      BY Connections DEF TypeOK
  <2>2. Len(conns) \in Nat
      BY Connections
  <2>3. CASE Creates
    <3>1. born' = born
        BY <2>3 DEF Creates
    <3>2. /\ conns' \in Seq(Connection) /\ flash' \in [Socket -> 0..Len(conns')]
          /\ \A c \in 1..Len(conns) : conns'[c] = conns[c]
          /\ \A c \in 1..Len(conns') :
                c \notin 1..Len(conns) => \E s \in born : New(conns'[c], s)
          /\ Len(conns') \in Nat /\ Len(conns) <= Len(conns')
        BY <2>3, Created
    <3>3. \A c \in 1..Len(conns') : conns'[c].sock \in born
        BY <2>1, <3>2 DEF New
    <3> QED
        BY <2>2, <3>1, <3>2, <3>3
  <2>4. CASE Proceeds
    <3>1. Stays /\ born \subseteq born'
        BY <2>4 DEF Proceeds
    <3>2. /\ conns' \in Seq(Connection) /\ Len(conns') = Len(conns) /\ flash' = flash
          /\ \A c \in 1..Len(conns) : conns'[c].sock = conns[c].sock
        BY <3>1 DEF Stays, GoesOn
    <3> QED
        BY <2>1, <3>1, <3>2 DEF TypeOK
  <2> QED
      BY <2>3, <2>4, Kinds
<1>2. \A c \in DOMAIN conns' :
         /\ conns'[c].sock \in born' /\ conns'[c].state \in {CONNECTING, OPEN, CLOSED}
         /\ conns'[c].queue \in Seq(1..MaxMessages)
  <2>1. DOMAIN conns' = 1..Len(conns') /\ \A c \in 1..Len(conns') : conns'[c] \in Connection
      BY <1>1
  <2> QED
      BY <1>1, <2>1 DEF Connection, States
<1>3. /\ events' \subseteq Report
      /\ \A ev \in events' : ev.conn \in DOMAIN conns' /\ ev.type \in EventType
  <2>1. /\ events' \subseteq Report
        /\ \A ev \in events' : ev \in events \/ ev.conn \in 1..Len(conns)
      BY EventsStep
  <2>2. \A ev \in events : ev.conn \in 1..Len(conns)
      BY OfIs
  <2>3. DOMAIN conns' = 1..Len(conns')
      BY <1>1
  <2> QED
      BY <1>1, <2>1, <2>2, <2>3 DEF Report
<1>4. ready' \in [Socket -> {CONNECTING, OPEN, CLOSED}]
  <2>1. UNCHANGED ready \/ \E s \in Socket, x \in States : ready' = [ready EXCEPT ![s] = x]
      BY Kinds DEF Creates, Proceeds, Shows, Connected
  <2> QED
      BY <2>1 DEF TypeOK, States
<1>5. heard' \in [Socket -> Seq(1..MaxMessages)]
  <2>1. UNCHANGED heard \/ \E s \in Connected : HandleMessages(s)
      BY Kinds DEF Creates, Proceeds
  <2>2. ASSUME NEW s \in Connected, HandleMessages(s)
        PROVE  heard' \in [Socket -> Seq(1..MaxMessages)]
    <3>1. s \in Socket /\ Conn(s).queue \in Seq(1..MaxMessages)
        BY Connections DEF Connected, Conn, Connection
    <3>2. heard[s] \in Seq(1..MaxMessages)
        BY <3>1 DEF SocketsTyped
    <3>3. heard[s] \o Conn(s).queue \in Seq(1..MaxMessages)
        BY ONLY <3>1, <3>2, ConcatProperties
    <3>4. heard' = [heard EXCEPT ![s] = heard[s] \o Conn(s).queue]
        BY <2>2 DEF HandleMessages
    <3> QED
        BY <3>3, <3>4 DEF SocketsTyped
  <2> QED
      BY <2>1, <2>2 DEF SocketsTyped
<1>6. log' \in [Socket -> Seq(Call)]
  <2>1. UNCHANGED log \/ \E s \in Connected : \E call \in Call : Log(s, call)
      BY Kinds DEF Creates, Proceeds
  <2>2. ASSUME NEW s \in Connected, NEW call \in Call, Log(s, call)
        PROVE  log' \in [Socket -> Seq(Call)]
    <3>1. s \in Socket /\ log[s] \in Seq(Call)
        BY DEF Connected, SocketsTyped
    <3>2. Append(log[s], call) \in Seq(Call)
        BY ONLY <3>1, AppendProperties, <2>2
    <3>3. log' = [log EXCEPT ![s] = Append(log[s], call)]
        BY <2>2 DEF Log
    <3> QED
        BY <3>2, <3>3 DEF SocketsTyped
  <2> QED
      BY <2>1, <2>2 DEF SocketsTyped
<1>7. buffered' \in [Socket -> Nat]
  <2>1. ASSUME NEW ev \in events, OnStateChange(ev)
        PROVE  buffered' \in [Socket -> Nat]
    <3>1. ev.amount \in Nat
        BY DEF SocketsTyped, Report
    <3> QED
        BY <2>1, <3>1 DEF OnStateChange, TypeOK
  <2>2. ASSUME NEW s \in Socket, Send(s)
        PROVE  buffered' \in [Socket -> Nat]
    <3>1. Conn(s).amount + 1 \in Nat
        BY <2>2, Connections DEF Send, Conn, Connection
    <3> QED
        BY <2>2, <3>1 DEF Send, TypeOK
  <2>3. ASSUME UNCHANGED buffered
        PROVE  buffered' \in [Socket -> Nat]
      BY <2>3 DEF TypeOK
  <2>4. ASSUME NEW ev \in events, Handle(ev) \/ Drop(ev)
        PROVE  buffered' \in [Socket -> Nat]
      BY <2>1, <2>3, <2>4 DEF Handle, OnOpen, OnClose, OnError, OnMessage, Drop, page
  <2>5. ASSUME NEW c \in DOMAIN conns, Flash(c)
        PROVE  UNCHANGED buffered
      BY <2>5 DEF Flash, FlashOpens, FlashReceives, FlashSocketCloses, FlashClosing,
                  FlashError, page
  <2> QED
      BY <2>2, <2>3, <2>4, <2>5 DEF Next, MovieReady, Construct, AddTask, Close, Tick,
                                    vars, page
<1>8. timer' \subseteq Socket
  <2>1. ASSUME NEW ev \in events, Handle(ev) \/ Drop(ev)
        PROVE  timer' \subseteq timer \cup {Of(ev)}
      BY <2>1 DEF Handle, OnOpen, OnClose, OnError, OnStateChange, OnMessage, Drop, page
  <2>2. ASSUME NEW c \in DOMAIN conns, Flash(c)
        PROVE  UNCHANGED timer
      BY <2>2 DEF Flash, FlashOpens, FlashReceives, FlashSocketCloses, FlashClosing,
                  FlashError, page
  <2>3. ASSUME NEW s \in Socket,
               Construct(s) \/ AddTask(s) \/ Send(s) \/ Close(s) \/ Tick(s)
        PROVE  timer' \subseteq timer
      BY <2>3 DEF Construct, AddTask, Send, Close, Tick
  <2>4. \A ev \in events : Of(ev) \in Socket
      BY OfIs DEF Connected
  <2> QED
      BY <2>1, <2>2, <2>3, <2>4 DEF Next, MovieReady, vars, page, TypeOK
<1>9. /\ movies' \in Nat /\ tasks' \in Seq(Socket)
      /\ timeouts' \subseteq born' /\ born' \subseteq Socket
  <2>1. ASSUME UNCHANGED <<movies, tasks, timeouts, born>>
        PROVE  /\ movies' \in Nat /\ tasks' \in Seq(Socket)
               /\ timeouts' \subseteq born' /\ born' \subseteq Socket
      BY <2>1 DEF TypeOK
  <2>2. ASSUME NEW c \in DOMAIN conns, Flash(c)
        PROVE  UNCHANGED <<movies, tasks, timeouts, born>>
      BY <2>2 DEF Flash, FlashOpens, FlashReceives, FlashSocketCloses, FlashClosing,
                  FlashError, page
  <2>3. ASSUME NEW ev \in events, Handle(ev) \/ Drop(ev)
        PROVE  UNCHANGED <<movies, tasks, timeouts, born>>
      BY <2>3 DEF Handle, OnOpen, OnClose, OnError, OnStateChange, OnMessage, Drop, page
  <2>4. ASSUME NEW s \in Socket, Send(s) \/ Close(s) \/ Tick(s)
        PROVE  UNCHANGED <<movies, tasks, timeouts, born>>
      BY <2>4 DEF Send, Close, Tick
  <2>5. ASSUME NEW s \in Socket, Construct(s)
        PROVE  /\ movies' \in Nat /\ tasks' \in Seq(Socket)
               /\ timeouts' \subseteq born' /\ born' \subseteq Socket
      BY <2>5 DEF Construct, TypeOK
  <2>6. ASSUME NEW s \in Socket, AddTask(s)
        PROVE  /\ movies' \in Nat /\ tasks' \in Seq(Socket)
               /\ timeouts' \subseteq born' /\ born' \subseteq Socket
    <3>1. UNCHANGED <<movies, born>> /\ timeouts' \subseteq timeouts
          /\ (tasks' = tasks \/ tasks' = Append(tasks, s))
        BY <2>6 DEF AddTask
    <3>2. Append(tasks, s) \in Seq(Socket)
        BY DEF TypeOK
    <3> QED
        BY <3>1, <3>2 DEF TypeOK
  <2>7. CASE MovieReady
    <3>1. movies' \in Nat
      <4>1. movies \in Nat /\ movies' = movies + 1
          BY <2>7 DEF MovieReady, TypeOK
      <4> QED
          BY ONLY <4>1
    <3>2. tasks' = << >> \/ tasks' = tasks
        BY <2>7 DEF MovieReady
    <3>3. UNCHANGED <<timeouts, born>>
        BY <2>7 DEF MovieReady
    <3>4. tasks' \in Seq(Socket)
      <4>1. << >> \in Seq(Socket)
          OBVIOUS
      <4>2. tasks \in Seq(Socket)
          BY DEF TypeOK
      <4> QED
          BY ONLY <3>2, <4>1, <4>2
    <3> QED
        BY <3>1, <3>3, <3>4 DEF TypeOK
  <2>8. CASE UNCHANGED vars
      BY <2>1, <2>8 DEF vars, page
  <2> QED
      BY <2>1, <2>2, <2>3, <2>4, <2>5, <2>6, <2>7, <2>8 DEF Next
<1> QED
    BY <1>1, <1>2, <1>3, <1>4, <1>5, <1>6, <1>7, <1>8, <1>9 DEF TypeOK, SocketsTyped

LEMMA PairedStep ==
    ASSUME FlashSocketAssumption, RunOnce, IInv, [Next]_vars
    PROVE  Paired'
PROOF
<1> USE DEF IInv
<1>1. /\ Len(conns) \in Nat /\ DOMAIN conns = 1..Len(conns)
      /\ \A c \in 1..Len(conns) : conns[c].sock \in Socket
      /\ \A s \in Socket : flash[s] # 0 => flash[s] \in 1..Len(conns)
    BY Connections DEF Connection
<1>2. /\ conns' \in Seq(Connection) /\ Len(conns') \in Nat
      /\ DOMAIN conns' = 1..Len(conns')
  <2>1. conns' \in Seq(Connection)
      BY TypesStep DEF SocketsTyped
  <2> QED
      BY ONLY <2>1
<1>3. \A s \in Socket : flash[s] # 0 => flash'[s] = flash[s]
  <2>1. CASE Creates
      BY <2>1, Created
  <2>2. CASE Proceeds
      BY <2>2 DEF Proceeds, Stays
  <2> QED
      BY <2>1, <2>2, Kinds
<1>4. \A s \in timer' : s \in Socket /\ flash'[s] # 0
  <2>1. ASSUME NEW ev \in events, Handle(ev) \/ Drop(ev)
        PROVE  timer' \subseteq timer \cup {Of(ev)}
      BY <2>1 DEF Handle, OnOpen, OnClose, OnError, OnStateChange, OnMessage, Drop, page
  <2>2. ASSUME NEW c \in DOMAIN conns, Flash(c)
        PROVE  UNCHANGED timer
      BY <2>2 DEF Flash, FlashOpens, FlashReceives, FlashSocketCloses, FlashClosing,
                  FlashError, page
  <2>3. ASSUME NEW s \in Socket,
               Construct(s) \/ AddTask(s) \/ Send(s) \/ Close(s) \/ Tick(s)
        PROVE  timer' \subseteq timer
      BY <2>3 DEF Construct, AddTask, Send, Close, Tick
  <2>4. \A ev \in events : Of(ev) \in Socket /\ flash[Of(ev)] # 0
      BY OfIs DEF Connected
  <2>5. \A s \in timer : s \in Socket /\ flash[s] # 0
      BY DEF TypeOK, Paired
  <2>6. \A s \in timer' : s \in Socket /\ flash[s] # 0
      BY <2>1, <2>2, <2>3, <2>4, <2>5 DEF Next, MovieReady, vars, page
  <2> QED
      BY <1>3, <2>6
<1>5. CASE Creates
  <2>1. /\ \A c \in 1..Len(conns) : conns'[c] = conns[c]
        /\ \A c \in 1..Len(conns') : c \notin 1..Len(conns) =>
              \E s \in born : New(conns'[c], s) /\ flash'[s] = c
        /\ \A s \in Socket :
              \/ flash'[s] = flash[s]
              \/ New(conns'[flash'[s]], s)
      BY <1>5, Created
  <2>2. ASSUME NEW c \in 1..Len(conns')
        PROVE  flash'[conns'[c].sock] = c
    <3>1. CASE c \in 1..Len(conns)
      <4>1. conns[c].sock \in Socket /\ flash[conns[c].sock] = c /\ c # 0
          BY <1>1, <3>1 DEF Paired
      <4> QED
          BY <1>3, <2>1, <3>1, <4>1
    <3>2. CASE c \notin 1..Len(conns)
        BY <2>1, <3>2 DEF New
    <3> QED
        BY <3>1, <3>2
  <2>3. ASSUME NEW s \in Socket, flash'[s] # 0
        PROVE  conns'[flash'[s]].sock = s
    <3>1. CASE flash'[s] = flash[s]
      <4>1. flash[s] # 0
          BY <2>3, <3>1
      <4>2. conns[flash[s]].sock = s /\ flash[s] \in 1..Len(conns)
          BY <1>1, <4>1 DEF Paired
      <4> QED
          BY <2>1, <3>1, <4>2
    <3>2. CASE flash'[s] # flash[s]
        BY <2>1, <3>2 DEF New
    <3> QED
        BY <3>1, <3>2
  <2> QED
      BY <1>2, <1>4, <2>2, <2>3 DEF Paired
<1>6. CASE Proceeds
  <2>1. /\ Len(conns') = Len(conns) /\ flash' = flash
        /\ \A c \in 1..Len(conns) : conns'[c].sock = conns[c].sock
      BY <1>6 DEF Proceeds, Stays, GoesOn
  <2>2. \A c \in 1..Len(conns) : flash[conns[c].sock] = c
      BY <1>1 DEF Paired
  <2>3. ASSUME NEW s \in Socket, flash[s] # 0
        PROVE  flash[s] \in 1..Len(conns) /\ conns[flash[s]].sock = s
    <3>1. flash[s] \in 1..Len(conns)
        BY <1>1, <2>3
    <3>2. conns[flash[s]].sock = s
        BY <2>3 DEF Paired
    <3> QED
        BY <3>1, <3>2
  <2> QED
      BY <1>2, <1>4, <2>1, <2>2, <2>3 DEF Paired
<1> QED
    BY <1>5, <1>6, Kinds

\* Once a movie has reported, every socket that waits no more has its connection.
LEMMA UncreatedStep ==
    ASSUME FlashSocketAssumption, RunOnce, IInv, [Next]_vars
    PROVE  Uncreated'
PROOF
<1> USE DEF IInv
<1>0. /\ tasks \in Seq(Socket) /\ Len(tasks) \in Nat /\ DOMAIN tasks = 1..Len(tasks)
      /\ movies \in Nat
    BY DEF TypeOK
<1>1. ASSUME UNCHANGED <<tasks, timeouts, born, movies>>,
             \A s \in Socket : flash'[s] = flash[s], Len(conns') = Len(conns),
             conns' \in Seq(Connection)
      PROVE  Uncreated'
  <2>1. \A s \in timeouts \cup born : s \in Socket
      BY DEF TypeOK
  <2>2. conns = << >> => conns' = << >>
      BY <1>1, EmptySeq DEF SocketsTyped
  <2>3. AllCreated'
      BY <1>1, <2>1 DEF Uncreated, AllCreated, Stranded
  <2> QED
      BY <1>1, <2>1, <2>2, <2>3 DEF Uncreated
<1>2. ASSUME Proceeds, UNCHANGED <<tasks, timeouts, born, movies>>
      PROVE  Uncreated'
    BY <1>1, <1>2 DEF Proceeds, Stays
<1>3. ASSUME NEW s \in Socket, Construct(s)
      PROVE  Uncreated'
  <2>1. /\ s \notin born /\ born' = born \cup {s} /\ timeouts' = timeouts \cup {s}
        /\ UNCHANGED <<movies, tasks, flash, conns>>
      BY <1>3 DEF Construct
  <2>2. flash[s] = 0
    <3>1. ASSUME flash[s] # 0
          PROVE  s \in born
        BY <3>1, Connections, SMTT(30) DEF Paired, TypeOK
    <3> QED
        BY <2>1, <3>1
  <2>3. born' \ timeouts' \subseteq born \ timeouts
      BY <2>1
  <2>4. \A i \in DOMAIN tasks : tasks[i] \in born' \ timeouts'
      BY <2>1 DEF Uncreated
  <2>5. AllCreated'
      BY <2>1, <2>3 DEF Uncreated, AllCreated, Stranded
  <2> QED
      BY <2>1, <2>2, <2>3, <2>4, <2>5 DEF Uncreated
<1>4. ASSUME NEW s \in Socket, AddTask(s), movies > 0
      PROVE  Uncreated'
  <2> DEFINE n == IF s \in Bad THEN 0 ELSE 1
  <2>1. Makes(<<s>>, n) /\ UNCHANGED tasks
      BY <1>4, AddTaskCreates
  <2>2. s \in timeouts /\ timeouts' = timeouts \ {s} /\ UNCHANGED <<movies, born>>
      BY <1>4 DEF AddTask
  <2>3. \A t \in Socket : t # s => flash'[t] = flash[t]
      BY <2>1 DEF Makes
  <2>4. s \notin Bad => flash'[s] # 0
    <3>1. ASSUME s \notin Bad
          PROVE  flash'[s] = Len(conns) + 1
      <4>1. n = 1
          BY <3>1
      <4>2. <<s>>[1] = s /\ 1 \in 1..1
          OBVIOUS
      <4> QED
          BY <2>1, <4>1, <4>2 DEF Makes
    <3>2. Len(conns) \in Nat
        BY Connections
    <3> QED
        BY <3>1, <3>2
  <2>5. \A t \in timeouts \cup born : t \in Socket
      BY DEF TypeOK
  <2>6. \A t \in timeouts' : flash'[t] = 0
      BY <2>2, <2>3, <2>5 DEF Uncreated
  <2>7. \A i \in DOMAIN tasks' : tasks'[i] \in born' \ timeouts'
      BY <2>1, <2>2 DEF Uncreated
  <2>8. AllCreated'
    <3>1. ASSUME NEW t \in born' \ timeouts'
          PROVE  flash'[t] # 0 \/ t \in Bad \/ Stranded(t)'
      <4>1. CASE t = s
          BY <2>4, <4>1
      <4>2. CASE t # s
        <5>1. t \in born \ timeouts /\ t \in Socket
            BY <2>2, <2>5, <4>2
        <5>2. flash[t] # 0 \/ t \in Bad \/ Stranded(t)
            BY <1>4, <5>1 DEF Uncreated, AllCreated
        <5>3. Stranded(t) => Stranded(t)'
            BY <2>1 DEF Stranded
        <5> QED
            BY <2>3, <4>2, <5>1, <5>2, <5>3
      <4> QED
          BY <4>1, <4>2
    <3> QED
        BY <3>1 DEF AllCreated
  <2>9. movies' # 0 /\ movies' = movies /\ tasks' = tasks
      BY <1>4, <2>1, <2>2
  <2> QED
      BY <2>6, <2>7, <2>8, <2>9 DEF Uncreated
<1>5. ASSUME NEW s \in Socket, AddTask(s), ~ (movies > 0)
      PROVE  Uncreated'
  <2>1. /\ s \in timeouts /\ timeouts' = timeouts \ {s} /\ tasks' = Append(tasks, s)
        /\ UNCHANGED <<movies, born, flash, conns>>
      BY <1>5 DEF AddTask
  <2>2. movies = 0
      BY <1>0, <1>5
  <2>3. /\ DOMAIN tasks' = 1..(Len(tasks) + 1) /\ tasks'[Len(tasks) + 1] = s
        /\ \A i \in 1..Len(tasks) : tasks'[i] = tasks[i]
      BY <1>0, <2>1
  <2>4. \A i \in 1..Len(tasks) : tasks[i] \in born \ timeouts /\ tasks[i] # s
      BY <1>0, <2>1 DEF Uncreated
  <2>5. \A i \in 1..(Len(tasks) + 1) : i \in 1..Len(tasks) \/ i = Len(tasks) + 1
      BY <1>0
  <2>6. 1..Len(tasks) \subseteq 1..(Len(tasks) + 1)
        /\ Len(tasks) + 1 \in 1..(Len(tasks) + 1)
      BY <1>0
  <2>7. \A i, j \in DOMAIN tasks' : tasks'[i] = tasks'[j] => i = j
      BY <1>0, <2>3, <2>4, <2>5 DEF Uncreated
  <2>8. \A i \in DOMAIN tasks' : tasks'[i] \in born' \ timeouts'
      BY <2>1, <2>3, <2>4, <2>5 DEF TypeOK
  <2>9. \A t \in born' \ timeouts' : \E i \in DOMAIN tasks' : tasks'[i] = t
    <3>1. ASSUME NEW t \in born' \ timeouts', t # s
          PROVE  \E i \in DOMAIN tasks' : tasks'[i] = t
      <4>1. t \in born \ timeouts
          BY <2>1, <3>1
      <4>2. PICK i \in 1..Len(tasks) : tasks[i] = t
          BY <1>0, <2>2, <4>1 DEF Uncreated
      <4> QED
          BY <2>3, <2>6, <4>2
    <3> QED
        BY <2>3, <2>6, <3>1
  <2>10. \A t \in timeouts' : flash'[t] = 0
      BY <2>1 DEF Uncreated
  <2>11. movies' = 0 /\ conns' = << >>
      BY <2>1, <2>2 DEF Uncreated
  <2>12. AllCreated'
      BY <2>11 DEF AllCreated
  <2>13. ~ (movies' > 0)
      BY <2>11
  <2> QED
      BY <2>7, <2>8, <2>9, <2>10, <2>11, <2>12, <2>13 DEF Uncreated
<1>6. CASE MovieReady
  <2> DEFINE n == Len(Done(tasks))
  <2>1. /\ Makes(tasks, n) /\ n \in 0..Len(tasks)
        /\ \/ Done(tasks) = tasks
           \/ n < Len(tasks) /\ tasks[n + 1] \in Bad
      BY <1>0, <1>6, MovieReadyCreates, DoneIsPrefix
  <2>2. \A i \in 1..n : Done(tasks)[i] = tasks[i] /\ tasks[i] \notin Bad
      BY <1>0, DoneIsPrefix
  <2>3. /\ movies' = movies + 1 /\ UNCHANGED <<timeouts, born>>
        /\ tasks' = IF Done(tasks) = tasks THEN << >> ELSE tasks
      BY <1>6 DEF MovieReady
  <2>4. movies' > 0 /\ movies' # 0
      BY <1>0, <2>3
  <2>5. \A i \in 1..n : i \in 1..Len(tasks)
      BY <1>0, <2>1
  <2> HIDE DEF n
  <2>6. \A s \in Socket : (\A i \in 1..n : tasks[i] # s) => flash'[s] = flash[s]
      BY <2>1 DEF Makes
  <2>7. ASSUME NEW i \in 1..n
        PROVE  flash'[tasks[i]] # 0
    <3>1. flash'[tasks[i]] = Len(conns) + i /\ Len(conns) \in Nat
        BY <2>1, Connections DEF Makes
    <3> QED
        BY <3>1
  <2>8. \A i \in DOMAIN tasks : tasks[i] \notin timeouts
      BY DEF Uncreated
  <2>9. \A s \in timeouts' : flash'[s] = 0
    <3>1. ASSUME NEW s \in timeouts
          PROVE  flash'[s] = 0
      <4>1. s \in Socket /\ flash[s] = 0
          BY DEF TypeOK, Uncreated
      <4>2. \A i \in 1..n : tasks[i] # s
          BY <1>0, <2>5, <2>8
      <4> QED
          BY <2>6, <4>1, <4>2
    <3> QED
        BY <2>3, <3>1
  <2>10. /\ \A i, j \in DOMAIN tasks' : tasks'[i] = tasks'[j] => i = j
         /\ \A i \in DOMAIN tasks' : tasks'[i] \in born' \ timeouts'
      BY <2>3 DEF Uncreated
  <2>11. Bad = {} => tasks' = << >>
      BY <2>1, <2>3
  <2>12. AllCreated'
    <3>1. ASSUME NEW s \in born \ timeouts
          PROVE  flash'[s] # 0 \/ s \in Bad \/ Stranded(s)'
      <4>1. s \in Socket
          BY DEF TypeOK
      <4>2. CASE movies = 0
        <5>1. PICK i \in 1..Len(tasks) : tasks[i] = s
            BY <1>0, <4>2 DEF Uncreated
        <5>2. CASE i \in 1..n
            BY <2>7, <5>1, <5>2
        <5>3. CASE i \notin 1..n
          <6>1. i > n /\ n \in Nat
              BY <1>0, <2>1, <5>3
          <6>2. Done(tasks) # tasks
            <7>1. Done(tasks) = tasks => n = Len(tasks)
                BY DEF n
            <7>2. i <= Len(tasks) /\ i \in Nat /\ Len(tasks) \in Nat
                BY <1>0, <5>1
            <7>3. n # Len(tasks)
                BY ONLY <6>1, <7>2
            <7> QED
                BY <7>1, <7>3
          <6>3. tasks' = tasks /\ tasks[n + 1] \in Bad /\ n + 1 \in 1..Len(tasks)
              BY <1>0, <2>1, <2>3, <6>2
          <6>4. CASE i = n + 1
              BY <5>1, <6>3, <6>4
          <6>5. CASE i # n + 1
            <7>1. n + 1 < i
                BY <6>1, <6>5
            <7> QED
                BY <1>0, <5>1, <6>3, <7>1 DEF Stranded
          <6> QED
              BY <6>4, <6>5
        <5> QED
            BY <5>2, <5>3
      <4>3. CASE movies # 0
        <5>1. Bad = {} /\ movies > 0
          <6>1. movies < Movies /\ Movies \in Nat /\ movies > 0
              BY <1>0, <1>6, <4>3 DEF MovieReady, FlashSocketAssumption
          <6> QED
              BY <1>0, <6>1 DEF RunOnce
        <5>2. tasks = << >>
            BY <5>1 DEF Uncreated
        <5>3. n = 0
            BY <1>0, <2>1, <5>2
        <5>4. flash'[s] = flash[s]
            BY <2>6, <4>1, <5>3
        <5>5. flash[s] # 0
            BY <5>1, <5>2 DEF Uncreated, AllCreated, Stranded
        <5> QED
            BY <5>4, <5>5
      <4> QED
          BY <4>2, <4>3
    <3> QED
        BY <2>3, <3>1 DEF AllCreated
  <2> QED
      BY <2>4, <2>9, <2>10, <2>11, <2>12 DEF Uncreated
<1>7. ASSUME NEW c \in DOMAIN conns, Flash(c)
      PROVE  Uncreated'
  <2>1. UNCHANGED <<tasks, timeouts, born, movies>>
      BY <1>7 DEF Flash, FlashOpens, FlashReceives, FlashSocketCloses, FlashClosing,
                  FlashError, page
  <2> QED
      BY <1>2, <1>7, <2>1, FlashProceeds
<1>8. ASSUME NEW ev \in events, Handle(ev) \/ Drop(ev)
      PROVE  Uncreated'
  <2>1. UNCHANGED <<tasks, timeouts, born, movies>>
      BY <1>8 DEF Handle, OnOpen, OnClose, OnError, OnStateChange, OnMessage, Drop, page
  <2> QED
      BY <1>2, <1>8, <2>1, HandleProceeds
<1>9. ASSUME NEW s \in Socket, Send(s) \/ Close(s) \/ Tick(s)
      PROVE  Uncreated'
  <2>1. UNCHANGED <<tasks, timeouts, born, movies>>
      BY <1>9 DEF Send, Close, Tick
  <2> QED
      BY <1>2, <1>9, <2>1, PageProceeds
<1>10. CASE UNCHANGED vars
    BY <1>1, <1>10 DEF vars, page, SocketsTyped
<1> QED
    BY <1>3, <1>4, <1>5, <1>6, <1>7, <1>8, <1>9, <1>10 DEF Next

-----------------------------------------------------------------------------
(* The script lags behind Flash, and messages stay in order.               *)

LEMMA BehindStep ==
    ASSUME FlashSocketAssumption, RunOnce, IInv, [Next]_vars
    PROVE  Behind'
PROOF
<1> USE DEF IInv
<1>1. ASSUME NEW s \in Socket, Creates
      PROVE  /\ flash'[s] = 0 =>
                  ready'[s] = CONNECTING /\ heard'[s] = << >> /\ log'[s] = << >>
             /\ flash'[s] # 0 => ready'[s] <= conns'[flash'[s]].state
  <2>1. UNCHANGED <<ready, heard, log>>
      BY <1>1 DEF Creates
  <2>2. CASE flash[s] = 0
    <3>1. ready'[s] = CONNECTING /\ heard'[s] = << >> /\ log'[s] = << >>
        BY <2>1, <2>2 DEF Behind
    <3>2. flash'[s] # 0 => conns'[flash'[s]].state = CONNECTING
        BY <1>1, <2>2, Created DEF New
    <3> QED
        BY <3>1, <3>2 DEF CONNECTING
  <2>3. CASE flash[s] # 0
    <3>1. flash'[s] = flash[s] /\ conns'[flash[s]] = conns[flash[s]]
        BY <1>1, <2>3, Created, Connections
    <3>2. ready[s] <= conns[flash[s]].state
        BY <2>3 DEF Behind, FlashState, Conn
    <3> QED
        BY <2>1, <2>3, <3>1, <3>2
  <2> QED
      BY <2>2, <2>3
<1>2. ASSUME NEW s \in Socket, Proceeds
      PROVE  /\ flash'[s] = 0 =>
                  ready'[s] = CONNECTING /\ heard'[s] = << >> /\ log'[s] = << >>
             /\ flash'[s] # 0 => ready'[s] <= conns'[flash'[s]].state
  <2>1. Stays
      BY <1>2 DEF Proceeds
  <2>2. flash' = flash
      BY <2>1 DEF Stays
  <2>3. CASE flash[s] = 0
    <3>1. \A t \in Connected : t # s
        BY <2>3 DEF Connected
    <3>2. UNCHANGED ready \/ \E t \in Connected : Shows(t)
        BY <1>2 DEF Proceeds
    <3>3. UNCHANGED heard \/ \E t \in Connected : HandleMessages(t)
        BY <1>2 DEF Proceeds
    <3>4. UNCHANGED log \/ \E t \in Connected : \E call \in Call : Log(t, call)
        BY <1>2 DEF Proceeds
    <3>5. ready'[s] = ready[s]
        BY <3>1, <3>2 DEF Shows, TypeOK
    <3>6. heard'[s] = heard[s]
        BY <3>1, <3>3 DEF HandleMessages, SocketsTyped
    <3>7. log'[s] = log[s]
        BY <3>1, <3>4 DEF Log, SocketsTyped
    <3> QED
        BY <2>2, <2>3, <3>5, <3>6, <3>7 DEF Behind
  <2>4. CASE flash[s] # 0
    <3> DEFINE c == flash[s]
    <3>1. c \in 1..Len(conns)
        BY <2>4, Connections
    <3>2. /\ conns[c].state <= conns'[c].state
          /\ conns[c].state \in States /\ conns'[c].state \in States
      <4>1. conns[c].state <= conns'[c].state
          BY <2>1, <3>1 DEF Stays, GoesOn
      <4>2. conns[c] \in Connection /\ conns'[c] \in Connection
          BY <2>1, <3>1, Connections DEF Stays
      <4> QED
          BY <4>1, <4>2 DEF Connection
    <3>3. ready[s] <= conns[c].state /\ ready[s] \in States
        BY <2>4 DEF Behind, FlashState, Conn, TypeOK, States
    <3>4. ready[s] <= conns'[c].state
      <4>1. \A x \in States : x \in Nat
          BY DEF States, CONNECTING, OPEN, CLOSED
      <4> HIDE DEF c
      <4> QED
          BY <3>2, <3>3, <4>1
    <3>5. ready'[s] = ready[s] \/ ready'[s] <= conns'[c].state
      <4>1. UNCHANGED ready \/ \E t \in Connected : Shows(t)
          BY <1>2 DEF Proceeds
      <4>2. ASSUME NEW t \in Connected, Shows(t)
            PROVE  ready'[s] = ready[s] \/ ready'[s] <= conns'[c].state
          BY <4>2 DEF Shows, TypeOK
      <4> QED
          BY <4>1, <4>2
    <3> QED
        BY <2>2, <2>4, <3>4, <3>5
  <2> QED
      BY <2>3, <2>4
<1>3. ASSUME NEW s \in Socket
      PROVE  /\ flash'[s] = 0 =>
                  ready'[s] = CONNECTING /\ heard'[s] = << >> /\ log'[s] = << >>
             /\ flash'[s] # 0 => ready'[s] <= conns'[flash'[s]].state
    BY <1>1, <1>2, Kinds
<1> QED
    BY <1>3 DEF Behind, FlashState, Conn

\* The queue gets the next message.
LEMMA OrderedAppend ==
    ASSUME NEW h \in Seq(Nat), NEW q \in Seq(Nat), NEW a \in Nat, Ordered(h, q, a)
    PROVE  Ordered(h, Append(q, a + 1), a + 1)
PROOF
<1> DEFINE r == Append(q, a + 1)
<1>1. /\ Len(q) \in Nat /\ DOMAIN q = 1..Len(q) /\ DOMAIN r = 1..(Len(q) + 1)
      /\ r[Len(q) + 1] = a + 1
      /\ \A i \in 1..Len(q) : r[i] = q[i] /\ q[i] \in Nat
      /\ \A i \in DOMAIN h : h[i] \in Nat
    OBVIOUS
<1> HIDE DEF r
<1>2. \A i \in 1..(Len(q) + 1) : i \in 1..Len(q) \/ i = Len(q) + 1
    BY ONLY <1>1
<1>3. /\ \A i, j \in 1..Len(q) : i < j => q[i] < q[j]
      /\ \A i \in 1..Len(q) : q[i] <= a
      /\ \A i \in DOMAIN h : h[i] <= a
      /\ \A i \in DOMAIN h, j \in 1..Len(q) : h[i] < q[j]
      /\ Increasing(h)
    BY <1>1 DEF Ordered, Increasing
<1>4. ASSUME NEW i \in 1..(Len(q) + 1), NEW j \in 1..(Len(q) + 1), i < j
      PROVE  r[i] < r[j]
  <2>1. i \in 1..Len(q)
      BY <1>1, <1>4
  <2>2. CASE j \in 1..Len(q)
      BY <1>1, <1>3, <1>4, <2>1, <2>2
  <2>3. CASE j = Len(q) + 1
    <3>1. q[i] <= a /\ q[i] \in Nat /\ r[i] = q[i] /\ r[j] = a + 1
        BY <1>1, <1>3, <2>1, <2>3
    <3> QED
        BY <3>1
  <2> QED
      BY <1>2, <2>2, <2>3
<1>5. ASSUME NEW j \in 1..(Len(q) + 1)
      PROVE  r[j] <= a + 1 /\ \A i \in DOMAIN h : h[i] < r[j]
  <2>1. CASE j \in 1..Len(q)
    <3>1. r[j] = q[j] /\ q[j] <= a /\ q[j] \in Nat /\ \A i \in DOMAIN h : h[i] < q[j]
        BY <1>1, <1>3, <2>1
    <3>2. q[j] <= a + 1
        BY <3>1
    <3> QED
        BY <3>1, <3>2
  <2>2. CASE j = Len(q) + 1
    <3>1. r[j] = a + 1
        BY <1>1, <2>2
    <3>2. \A i \in DOMAIN h : h[i] < a + 1
        BY <1>1, <1>3
    <3> QED
        BY <3>1, <3>2
  <2> QED
      BY <1>2, <2>1, <2>2
<1>6. \A i \in DOMAIN h : h[i] <= a + 1
    BY <1>1, <1>3
<1>7. Increasing(r)
    BY <1>1, <1>4 DEF Increasing
<1>8. \A i \in DOMAIN h, j \in DOMAIN r : h[i] < r[j]
    BY <1>1, <1>5
<1>9. \A j \in DOMAIN r : r[j] <= a + 1
    BY <1>1, <1>5
<1> QED
    BY <1>3, <1>6, <1>7, <1>8, <1>9 DEF Ordered, r

\* The queue is read, and empty then.
LEMMA OrderedConcat ==
    ASSUME NEW h \in Seq(Nat), NEW q \in Seq(Nat), NEW a \in Nat, Ordered(h, q, a)
    PROVE  Ordered(h \o q, << >>, a) /\ Ordered(h, << >>, a)
PROOF
<1> DEFINE r == h \o q
           m == Len(h)
           n == Len(q)
<1>1. /\ m \in Nat /\ n \in Nat /\ DOMAIN h = 1..m /\ DOMAIN q = 1..n
      /\ DOMAIN r = 1..(m + n)
      /\ \A i \in 1..m : h[i] \in Nat
      /\ \A i \in 1..n : q[i] \in Nat
    OBVIOUS
<1>2. \A i \in 1..(m + n) : r[i] = IF i <= m THEN h[i] ELSE q[i - m]
    BY ConcatProperties
<1> HIDE DEF r, m, n
<1>3. /\ \A i, j \in 1..m : i < j => h[i] < h[j]
      /\ \A i, j \in 1..n : i < j => q[i] < q[j]
      /\ \A i \in 1..m : h[i] <= a
      /\ \A i \in 1..n : q[i] <= a
      /\ \A i \in 1..m, j \in 1..n : h[i] < q[j]
    BY <1>1 DEF Ordered, Increasing
<1>4. ASSUME NEW i \in 1..(m + n)
      PROVE  \/ i \in 1..m /\ r[i] = h[i]
             \/ i \notin 1..m /\ i - m \in 1..n /\ r[i] = q[i - m]
    BY <1>1, <1>2
<1>5. ASSUME NEW i \in 1..(m + n), NEW j \in 1..(m + n), i < j
      PROVE  r[i] < r[j]
  <2>1. CASE i \in 1..m /\ j \in 1..m
      BY <1>3, <1>4, <1>5, <2>1
  <2>2. CASE i \in 1..m /\ j \notin 1..m
      BY <1>3, <1>4, <2>2
  <2>3. CASE i \notin 1..m
    <3>1. j \notin 1..m
        BY <1>1, <1>5, <2>3
    <3>2. i - m \in 1..n /\ j - m \in 1..n /\ i - m < j - m
        BY <1>1, <1>4, <1>5, <2>3, <3>1
    <3> QED
        BY <1>3, <1>4, <2>3, <3>1, <3>2
  <2> QED
      BY <2>1, <2>2, <2>3
<1>6. \A i \in 1..(m + n) : r[i] <= a
    BY <1>3, <1>4
<1>7. DOMAIN << >> = {}
    OBVIOUS
<1>8. Increasing(r) /\ Increasing(<< >>) /\ Increasing(h)
    BY <1>1, <1>3, <1>5, <1>7 DEF Increasing
<1> QED
    BY <1>1, <1>3, <1>6, <1>7, <1>8 DEF Ordered, r

LEMMA OrderedEmpty ==
    ASSUME NEW a
    PROVE  Ordered(<< >>, << >>, a)
PROOF
<1>1. DOMAIN << >> = {}
    OBVIOUS
<1> QED
    BY <1>1 DEF Ordered, Increasing

LEMMA InOrderStep ==
    ASSUME FlashSocketAssumption, RunOnce, IInv, [Next]_vars
    PROVE  InOrder'
PROOF
<1> USE DEF IInv
<1>1. /\ conns' \in Seq(Connection) /\ DOMAIN conns' = 1..Len(conns')
      /\ DOMAIN conns = 1..Len(conns)
  <2>1. conns' \in Seq(Connection)
      BY TypesStep DEF SocketsTyped
  <2> QED
      BY <2>1, Connections
<1>2. ASSUME NEW c \in 1..Len(conns)
      PROVE  /\ Ordered(heard[conns[c].sock], conns[c].queue, conns[c].arrived)
             /\ conns[c].sock \in Socket /\ flash[conns[c].sock] = c
             /\ heard[conns[c].sock] \in Seq(Nat) /\ conns[c].queue \in Seq(Nat)
             /\ conns[c].arrived \in Nat
  <2>1. conns[c] \in Connection
      BY Connections
  <2>2. /\ conns[c].sock \in Socket /\ conns[c].queue \in Seq(1..MaxMessages)
        /\ conns[c].arrived \in 0..MaxMessages
      BY <2>1 DEF Connection
  <2>3. heard[conns[c].sock] \in Seq(1..MaxMessages)
      BY <2>2 DEF SocketsTyped
  <2>4. \A q \in Seq(1..MaxMessages) : q \in Seq(Nat)
    <3>1. 1..MaxMessages \subseteq Nat
        OBVIOUS
    <3> QED
        BY ONLY <3>1, SeqMonotonic
  <2>5. conns[c].arrived \in Nat
      BY <2>2
  <2> QED
      BY <1>1, <2>2, <2>3, <2>4, <2>5 DEF InOrder, Paired
<1>3. ASSUME NEW c \in 1..Len(conns'), Creates
      PROVE  Ordered(heard'[conns'[c].sock], conns'[c].queue, conns'[c].arrived)
  <2>1. heard' = heard
      BY <1>3 DEF Creates
  <2>2. CASE c \in 1..Len(conns)
      BY <1>2, <1>3, <2>1, <2>2, Created
  <2>3. CASE c \notin 1..Len(conns)
    <3>1. PICK s \in born : New(conns'[c], s) /\ flash[s] = 0
        BY <1>3, <2>3, Created
    <3>2. s \in Socket
        BY DEF TypeOK
    <3>3. heard[s] = << >>
        BY <3>1, <3>2 DEF Behind
    <3> QED
        BY <2>1, <3>1, <3>3, OrderedEmpty DEF New
  <2> QED
      BY <2>2, <2>3
<1>4. ASSUME NEW c \in 1..Len(conns), Proceeds
      PROVE  Ordered(heard'[conns'[c].sock], conns'[c].queue, conns'[c].arrived)
  <2> DEFINE t == conns[c].sock
             q == conns[c].queue
             a == conns[c].arrived
  <2>1. /\ conns'[c].sock = t
        /\ \/ conns'[c].arrived = a /\ (conns'[c].queue = q \/ conns'[c].queue = << >>)
           \/ conns'[c].arrived = a + 1 /\ conns'[c].queue = Append(q, a + 1)
      BY <1>4 DEF Proceeds, Stays, GoesOn
  <2>2. \/ heard'[t] = heard[t]
        \/ /\ heard'[t] = heard[t] \o q
           /\ conns'[c].queue = << >> /\ conns'[c].arrived = a
    <3>1. UNCHANGED heard \/ \E s \in Connected : HandleMessages(s)
        BY <1>4 DEF Proceeds
    <3>2. ASSUME NEW s \in Connected, HandleMessages(s), s # t
          PROVE  heard'[t] = heard[t]
        BY <3>2, <1>2 DEF HandleMessages, SocketsTyped
    <3>3. ASSUME t \in Connected, HandleMessages(t)
          PROVE  /\ heard'[t] = heard[t] \o q
                 /\ conns'[c].queue = << >> /\ conns'[c].arrived = a
      <4>1. t \in Socket /\ flash[t] = c /\ c # 0 /\ Conn(t) = conns[c]
          BY <1>2 DEF Conn
      <4>2. heard'[t] = heard[t] \o q
          BY <3>3, <4>1 DEF HandleMessages, SocketsTyped
      <4>3. Turns(c, conns[c].state, << >>, conns[c].amount, a)
          BY <3>3, <4>1, Turning
      <4> QED
          BY <4>2, <4>3 DEF Turns
    <3> QED
        BY <3>1, <3>2, <3>3
  <2>3. /\ Ordered(heard[t], q, a) /\ heard[t] \in Seq(Nat) /\ q \in Seq(Nat) /\ a \in Nat
      BY <1>2
  <2> HIDE DEF t, q, a
  <2>4. /\ Ordered(heard[t], Append(q, a + 1), a + 1)
        /\ Ordered(heard[t] \o q, << >>, a) /\ Ordered(heard[t], << >>, a)
      BY ONLY <2>3, OrderedAppend, OrderedConcat
  <2> QED
      BY <2>1, <2>2, <2>3, <2>4
<1>5. ASSUME NEW c \in 1..Len(conns')
      PROVE  Ordered(heard'[conns'[c].sock], conns'[c].queue, conns'[c].arrived)
  <2>1. Proceeds => Len(conns') = Len(conns)
      BY DEF Proceeds, Stays
  <2> QED
      BY <1>3, <1>4, <2>1, Kinds
<1> QED
    BY <1>1, <1>5 DEF InOrder, Ordered, Increasing

-----------------------------------------------------------------------------
(* The beginning and the end of a connection are told once.                *)

\* What a call appended to the log of a socket adds.
LEMMA Logged ==
    ASSUME SocketsTyped, NEW s \in Socket, NEW call, Log(s, call), NEW b \in BOOLEAN
    PROVE  /\ \A t \in Socket : t # s => log'[t] = log[t]
           /\ Said(s, b)' => Said(s, b) \/ Says(call, b)
           /\ Once(s, b) /\ (Said(s, b) => ~ Says(call, b)) => Once(s, b)'
PROOF
<1> DEFINE l == log[s]
           m == log'[s]
           n == Len(l)
<1>1. l \in Seq(Call) /\ m = Append(l, call)
    BY DEF SocketsTyped, Log
<1>2. /\ n \in Nat /\ DOMAIN l = 1..n /\ DOMAIN m = 1..(n + 1)
      /\ m[n + 1] = call /\ \A i \in 1..n : m[i] = l[i]
    BY <1>1
<1>3. \A t \in Socket : t # s => log'[t] = log[t]
    BY DEF SocketsTyped, Log
<1>4. \A i \in 1..(n + 1) : i \in 1..n \/ i = n + 1
    BY <1>2
<1>5. Said(s, b) <=> \E i \in 1..n : Says(l[i], b)
    BY <1>2 DEF Said
<1>6. Said(s, b)' <=> \E i \in 1..(n + 1) : Says(m[i], b)
    BY <1>2 DEF Said, Says
<1>7. Once(s, b) <=> \A i, j \in 1..n : Says(l[i], b) /\ Says(l[j], b) => i = j
    BY <1>2 DEF Once
<1>8. Once(s, b)' <=> \A i, j \in 1..(n + 1) : Says(m[i], b) /\ Says(m[j], b) => i = j
    BY <1>2 DEF Once, Says
<1> HIDE DEF l, m, n
<1>9. Said(s, b)' => Said(s, b) \/ Says(call, b)
    BY <1>2, <1>4, <1>5, <1>6
<1>10. ASSUME Once(s, b), Said(s, b) => ~ Says(call, b)
       PROVE  Once(s, b)'
  <2>1. ASSUME NEW i \in 1..(n + 1), NEW j \in 1..(n + 1), Says(m[i], b), Says(m[j], b)
        PROVE  i = j
    <3>1. CASE i \in 1..n /\ j \in 1..n
        BY <1>2, <1>7, <1>10, <2>1, <3>1
    <3>2. CASE i \in 1..n /\ j = n + 1
        BY <1>2, <1>5, <1>10, <2>1, <3>2
    <3>3. CASE i = n + 1 /\ j \in 1..n
        BY <1>2, <1>5, <1>10, <2>1, <3>3
    <3> QED
        BY <1>4, <3>1, <3>2, <3>3
  <2> QED
      BY <1>8, <2>1
<1> QED
    BY <1>3, <1>9, <1>10

LEMMA SameLog ==
    ASSUME NEW s, log'[s] = log[s], NEW b
    PROVE  (Said(s, b)' <=> Said(s, b)) /\ (Once(s, b)' <=> Once(s, b))
PROOF
    BY DEF Said, Once, Says

\* Connections keep their sockets, and do not go back.
LEMMA Remains ==
    ASSUME FlashSocketAssumption, RunOnce, IInv, [Next]_vars, NEW b \in BOOLEAN
    PROVE  /\ \A c \in 1..Len(conns) :
                 conns'[c].sock = conns[c].sock /\ (Reached(c, b) => Reached(c, b)')
           /\ \A s \in Socket : flash[s] # 0 => flash'[s] = flash[s]
PROOF
<1> USE DEF IInv
<1>1. CASE Creates
  <2>1. /\ \A c \in 1..Len(conns) : conns'[c] = conns[c]
        /\ \A s \in Socket : flash[s] # 0 => flash'[s] = flash[s]
      BY <1>1, Created
  <2> QED
      BY <2>1 DEF Reached
<1>2. CASE Proceeds
  <2>1. Stays
      BY <1>2 DEF Proceeds
  <2>2. ASSUME NEW c \in 1..Len(conns), Reached(c, b)
        PROVE  Reached(c, b)'
    <3> DEFINE x == conns[c].state
               y == conns'[c].state
    <3>1. x <= y
        BY <2>1 DEF Stays, GoesOn
    <3>2. x \in States /\ y \in States
      <4>1. conns[c] \in Connection /\ conns'[c] \in Connection
          BY <2>1, Connections DEF Stays
      <4> QED
          BY <4>1 DEF Connection
    <3>3. IF b THEN x # CONNECTING ELSE x = CLOSED
        BY <2>2 DEF Reached
    <3> HIDE DEF x, y
    <3>4. IF b THEN y # CONNECTING ELSE y = CLOSED
        BY ONLY <3>1, <3>2, <3>3 DEF States, CONNECTING, OPEN, CLOSED
    <3> QED
        BY <3>4 DEF Reached, y
  <2>3. \A c \in 1..Len(conns) : conns'[c].sock = conns[c].sock
      BY <2>1 DEF Stays, GoesOn
  <2> QED
      BY <2>1, <2>2, <2>3 DEF Stays
<1> QED
    BY <1>1, <1>2, Kinds

\* Nothing new is under way, or told.
LEMMA NewsQuiet ==
    ASSUME FlashSocketAssumption, RunOnce, IInv, [Next]_vars, NEW b \in BOOLEAN, News(b),
           \A ev \in events' : Tells(ev, b) => ev \in events,
           \A s \in Socket : (Said(s, b)' => Said(s, b)) /\ Once(s, b)'
    PROVE  News(b)'
PROOF
<1> USE DEF IInv
<1>1. /\ \A c \in 1..Len(conns) :
            conns'[c].sock = conns[c].sock /\ (Reached(c, b) => Reached(c, b)')
      /\ \A s \in Socket : flash[s] # 0 => flash'[s] = flash[s]
    BY Remains
<1>2. ASSUME NEW ev \in events
      PROVE  /\ ev.conn \in 1..Len(conns) /\ Of(ev)' = Of(ev) /\ Of(ev) \in Socket
  <2>1. ev.conn \in 1..Len(conns) /\ Of(ev) \in Socket
      BY OfIs DEF Connected
  <2> QED
      BY <1>1, <2>1 DEF Of
<1>3. ASSUME NEW ev \in events', Tells(ev, b)
      PROVE  Reached(ev.conn, b)' /\ ~ Said(Of(ev), b)'
  <2>1. ev \in events /\ Reached(ev.conn, b) /\ ~ Said(Of(ev), b)
      BY <1>3 DEF News
  <2>2. Reached(ev.conn, b)'
      BY <1>1, <1>2, <2>1
  <2>3. ~ Said(Of(ev), b)'
    <3>1. Of(ev)' = Of(ev) /\ Of(ev) \in Socket
        BY <1>2, <2>1
    <3>2. ~ (\E i \in DOMAIN log'[Of(ev)] : Says(log'[Of(ev)][i], b))
        BY <2>1, <3>1 DEF Said
    <3> QED
        BY <3>1, <3>2 DEF Said
  <2> QED
      BY <2>2, <2>3
<1>4. ASSUME NEW s \in Socket, Said(s, b)'
      PROVE  flash'[s] # 0 /\ Reached(flash[s], b)' /\ flash'[s] = flash[s]
  <2>1. flash[s] # 0 /\ Reached(flash[s], b)
      BY <1>4 DEF News
  <2>2. flash[s] \in 1..Len(conns)
      BY <2>1, Connections
  <2> QED
      BY <1>1, <2>1, <2>2
<1>5. ASSUME NEW ev \in events', NEW e \in events', Tells(ev, b), Tells(e, b),
             e.conn = ev.conn
      PROVE  e = ev
    BY <1>5 DEF News
<1> QED
    BY <1>3, <1>4, <1>5 DEF News, Tells, Reached

\* The beginning, or the end, of connection c sets out: b is reached now.
LEMMA NewsSetsOut ==
    ASSUME FlashSocketAssumption, RunOnce, IInv, [Next]_vars, NEW b \in BOOLEAN, News(b),
           NEW c \in 1..Len(conns), ~ Reached(c, b), Reached(c, b)', UNCHANGED log,
           \A ev \in events' : Tells(ev, b) => ev \in events \/ ev.conn = c,
           \A ev, e \in events' :
              ev \notin events /\ e \notin events /\ Tells(ev, b) /\ Tells(e, b) => e = ev
    PROVE  News(b)'
PROOF
<1> USE DEF IInv
<1>1. /\ \A d \in 1..Len(conns) :
            conns'[d].sock = conns[d].sock /\ (Reached(d, b) => Reached(d, b)')
      /\ \A s \in Socket : flash[s] # 0 => flash'[s] = flash[s]
    BY Remains
<1>2. ASSUME NEW ev \in events, Tells(ev, b)
      PROVE  /\ ev.conn \in 1..Len(conns) /\ ev.conn # c
             /\ Reached(ev.conn, b) /\ ~ Said(Of(ev), b)
    BY <1>2, OfIs DEF News
<1>3. conns[c].sock \in Socket /\ flash[conns[c].sock] = c
    BY Connections DEF Paired, Connection
<1>4. \A s \in Socket : (Said(s, b)' <=> Said(s, b)) /\ (Once(s, b)' <=> Once(s, b))
    BY SameLog
<1>5. ~ Said(conns[c].sock, b)
    BY <1>3 DEF News
<1>6. ASSUME NEW ev \in events', Tells(ev, b)
      PROVE  Reached(ev.conn, b)' /\ ~ Said(Of(ev), b)'
  <2>1. CASE ev \in events
    <3>1. /\ ev.conn \in 1..Len(conns) /\ Of(ev) \in Socket
          /\ Reached(ev.conn, b) /\ ~ Said(Of(ev), b)
        BY <1>2, <1>6, <2>1, OfIs DEF Connected
    <3>2. Reached(ev.conn, b)' /\ conns'[ev.conn].sock = conns[ev.conn].sock
        BY <1>1, <3>1
    <3>3. Of(ev)' = Of(ev)
        BY <3>2 DEF Of
    <3>4. ~ (\E i \in DOMAIN log[Of(ev)] : Says(log[Of(ev)][i], b))
        BY <3>1 DEF Said
    <3> QED
        BY <3>2, <3>3, <3>4 DEF Said
  <2>2. CASE ev.conn = c
    <3>1. conns'[c].sock = conns[c].sock
        BY <1>1
    <3>2. Of(ev)' = conns[c].sock
        BY <2>2, <3>1 DEF Of
    <3>3. ~ (\E i \in DOMAIN log[conns[c].sock] : Says(log[conns[c].sock][i], b))
        BY <1>5 DEF Said
    <3> QED
        BY <2>2, <3>2, <3>3 DEF Said
  <2> QED
      BY <1>6, <2>1, <2>2
<1>7. ASSUME NEW s \in Socket, Said(s, b)'
      PROVE  flash'[s] = flash[s] /\ flash[s] # 0 /\ Reached(flash[s], b)'
  <2>1. flash[s] # 0 /\ Reached(flash[s], b)
      BY <1>4, <1>7 DEF News
  <2>2. flash[s] \in 1..Len(conns)
      BY <2>1, Connections
  <2> QED
      BY <1>1, <2>1, <2>2
<1>8. ASSUME NEW ev \in events', NEW e \in events', Tells(ev, b), Tells(e, b),
             e.conn = ev.conn
      PROVE  e = ev
  <2>1. CASE ev \in events /\ e \in events
      BY <1>8, <2>1 DEF News
  <2>2. CASE ev \in events /\ e \notin events
      BY <1>2, <1>8, <2>2
  <2>3. CASE ev \notin events /\ e \in events
      BY <1>2, <1>8, <2>3
  <2>4. CASE ev \notin events /\ e \notin events
      BY <1>8, <2>4
  <2> QED
      BY <2>1, <2>2, <2>3, <2>4
<1>9. \A s \in Socket : Once(s, b)'
    BY <1>4 DEF News
<1> QED
    BY <1>6, <1>7, <1>8, <1>9 DEF News, Tells, Reached

\* It arrives: the handler calls the page.
LEMMA NewsArrives ==
    ASSUME FlashSocketAssumption, RunOnce, IInv, [Next]_vars, NEW b \in BOOLEAN, News(b),
           NEW ev \in events, Tells(ev, b), events' = events \ {ev},
           UNCHANGED <<conns, flash>>, NEW call, Log(Of(ev), call)
    PROVE  News(b)'
PROOF
<1> USE DEF IInv
<1>0. Of(ev) \in Socket
    BY OfIs DEF Connected
<1>9. PICK s \in Socket : s = Of(ev)
    BY <1>0
<1>1. /\ s \in Socket /\ flash[s] = ev.conn /\ flash[s] # 0
      /\ Reached(ev.conn, b) /\ ~ Said(s, b) /\ Once(s, b)
    BY <1>9, OfIs DEF News, Connected
<1>2. /\ \A t \in Socket : t # s => log'[t] = log[t]
      /\ Once(s, b)'
    BY <1>1, <1>9, Logged
<1>3. \A t \in Socket : t # s => (Said(t, b)' <=> Said(t, b)) /\ (Once(t, b)' <=> Once(t, b))
    BY <1>2, SameLog
<1>4. \A t \in Socket : Once(t, b)'
    BY <1>2, <1>3 DEF News
<1>5. \A c : Reached(c, b)' <=> Reached(c, b)
    BY DEF Reached
<1>6. \A t \in Socket : Said(t, b)' => flash'[t] # 0 /\ Reached(flash[t], b)'
    BY <1>1, <1>3, <1>5 DEF News
<1>7. ASSUME NEW e \in events', Tells(e, b)
      PROVE  Reached(e.conn, b)' /\ ~ Said(Of(e), b)'
  <2>1. e \in events /\ e # ev /\ e.conn # ev.conn
      BY <1>7 DEF News
  <2>2. Of(e) \in Socket /\ flash[Of(e)] = e.conn /\ Reached(e.conn, b) /\ ~ Said(Of(e), b)
      BY <1>7, <2>1, OfIs DEF News, Connected
  <2>3. Of(e) # s
      BY <1>1, <2>1, <2>2
  <2>4. ~ (\E i \in DOMAIN log'[Of(e)] : Says(log'[Of(e)][i], b))
      BY <1>2, <2>2, <2>3 DEF Said
  <2>5. Of(e)' = Of(e)
      BY DEF Of
  <2> QED
      BY <1>5, <2>2, <2>4, <2>5 DEF Said
<1>8. \A e, f \in events' : Tells(e, b) /\ Tells(f, b) /\ f.conn = e.conn => f = e
    BY DEF News
<1> QED
    BY <1>4, <1>6, <1>7, <1>8 DEF News, Tells, Reached

\* The page ends the connection, and is told at once.
LEMMA NewsAtOnce ==
    ASSUME FlashSocketAssumption, RunOnce, IInv, [Next]_vars, NEW b \in BOOLEAN, News(b),
           NEW s \in Connected, ~ Reached(flash[s], b), Reached(flash[s], b)',
           UNCHANGED <<events, flash>>, NEW call, Log(s, call)
    PROVE  News(b)'
PROOF
<1> USE DEF IInv
<1>1. s \in Socket /\ flash[s] # 0 /\ ~ Said(s, b) /\ Once(s, b)
    BY DEF News, Connected
<1>2. /\ \A t \in Socket : t # s => log'[t] = log[t]
      /\ Once(s, b)'
    BY <1>1, Logged
<1>3. \A t \in Socket : t # s => (Said(t, b)' <=> Said(t, b)) /\ (Once(t, b)' <=> Once(t, b))
    BY <1>2, SameLog
<1>4. \A t \in Socket : Once(t, b)'
    BY <1>2, <1>3 DEF News
<1>5. \A c \in 1..Len(conns) :
         conns'[c].sock = conns[c].sock /\ (Reached(c, b) => Reached(c, b)')
    BY Remains
<1>6. ASSUME NEW t \in Socket, Said(t, b)'
      PROVE  flash[t] # 0 /\ Reached(flash[t], b)'
  <2>1. CASE t = s
      BY <1>1, <2>1
  <2>2. CASE t # s
    <3>1. flash[t] # 0 /\ Reached(flash[t], b)
        BY <1>3, <1>6, <2>2 DEF News
    <3>2. flash[t] \in 1..Len(conns)
        BY <3>1, Connections
    <3> QED
        BY <1>5, <3>1, <3>2
  <2> QED
      BY <2>1, <2>2
<1>7. ASSUME NEW e \in events, Tells(e, b)
      PROVE  Reached(e.conn, b)' /\ ~ Said(Of(e), b)'
  <2>1. /\ Of(e) \in Socket /\ flash[Of(e)] = e.conn /\ e.conn \in 1..Len(conns)
        /\ Reached(e.conn, b) /\ ~ Said(Of(e), b)
      BY <1>7, OfIs DEF News, Connected
  <2>2. Of(e) # s
      BY <2>1
  <2>3. ~ (\E i \in DOMAIN log'[Of(e)] : Says(log'[Of(e)][i], b))
      BY <1>2, <2>1, <2>2 DEF Said
  <2>4. Of(e)' = Of(e)
      BY <1>5, <2>1 DEF Of
  <2> QED
      BY <1>5, <2>1, <2>3, <2>4 DEF Said
<1>8. \A e, f \in events : Tells(e, b) /\ Tells(f, b) /\ f.conn = e.conn => f = e
    BY DEF News
<1> QED
    BY <1>4, <1>6, <1>7, <1>8 DEF News, Tells, Reached

LEMMA FlashNews ==
    ASSUME FlashSocketAssumption, RunOnce, IInv, NEW b \in BOOLEAN, News(b),
           NEW c \in DOMAIN conns, Flash(c)
    PROVE  News(b)'
PROOF
<1> USE DEF IInv
<1>1. c \in 1..Len(conns) /\ conns[c].amount \in Nat /\ Len(conns) \in Nat
    BY Connections DEF Connection
<1>2. [Next]_vars
    BY DEF Next
<1>3. UNCHANGED log
    BY DEF Flash, FlashOpens, FlashReceives, FlashSocketCloses, FlashClosing, FlashError,
           page
<1>4. ASSUME NEW T \in SUBSET EventType, Fire(c, T),
             \A ev \in Report : ev.type \in T => ~ Tells(ev, b)
      PROVE  News(b)'
  <2>1. /\ events' \subseteq Report
        /\ \A ev \in events' : ev \in events \/ ev.type \in T
      BY <1>1, <1>4, Fired
  <2>2. \A ev \in events' : Tells(ev, b) => ev \in events
      BY <1>4, <2>1
  <2>3. \A s \in Socket : (Said(s, b)' => Said(s, b)) /\ Once(s, b)'
      BY <1>3, SameLog DEF News
  <2> QED
      BY <1>2, <2>2, <2>3, NewsQuiet
<1>5. ASSUME NEW t \in EventType, Fire(c, {"stateChange", t}),
             ~ Reached(c, b), Reached(c, b)'
      PROVE  News(b)'
  <2>1. \A ev \in events' : ev \in events \/ ev.conn = c
    <3>1. {"stateChange", t} \in SUBSET EventType
        BY DEF EventType
    <3> QED
        BY <1>1, <1>5, <3>1, Fired
  <2>2. ASSUME NEW ev \in events', ev \notin events, Tells(ev, b)
        PROVE  ev = [conn |-> c, type |-> t, amount |-> conns[c].amount]
    <3>1. PICK u \in {"stateChange", t} :
             ev = [conn |-> c, type |-> u, amount |-> conns[c].amount]
        BY <1>5, <2>2 DEF Fire
    <3>2. u # "stateChange"
        BY <2>2, <3>1 DEF Tells
    <3> QED
        BY <3>1, <3>2
  <2>3. \A ev, e \in events' :
           ev \notin events /\ e \notin events /\ Tells(ev, b) /\ Tells(e, b) => e = ev
      BY <2>2
  <2> QED
      BY <1>1, <1>2, <1>3, <1>5, <2>1, <2>3, NewsSetsOut
<1>6. /\ "open" \in EventType /\ "close" \in EventType /\ "error" \in EventType
      /\ "message" \in EventType /\ "stateChange" \in EventType
    BY DEF EventType
<1>7. CASE FlashOpens(c)
  <2>1. /\ conns[c].state = CONNECTING /\ conns'[c].state = OPEN
        /\ Fire(c, {"stateChange", "open"})
    <3>1. conns[c].state = CONNECTING /\ Fire(c, {"stateChange", "open"})
        BY <1>7 DEF FlashOpens
    <3>2. PICK q, m, a : Turns(c, OPEN, q, m, a)
        BY <1>1, <1>7, Turning
    <3>3. conns'[c].state = OPEN
        BY <3>2 DEF Turns
    <3> QED
        BY <3>1, <3>3
  <2>2. CASE b
    <3>1. ~ Reached(c, b) /\ Reached(c, b)'
        BY <2>1, <2>2 DEF Reached, CONNECTING, OPEN
    <3> QED
        BY <1>5, <1>6, <2>1, <3>1
  <2>3. CASE ~ b
      BY <1>4, <1>6, <2>1, <2>3 DEF Tells
  <2> QED
      BY <2>2, <2>3
<1>8. CASE FlashReceives(c)
  <2>1. Fire(c, {"message"})
      BY <1>8 DEF FlashReceives
  <2>2. \A ev \in Report : ev.type \in {"message"} => ~ Tells(ev, b)
      BY DEF Tells
  <2> QED
      BY <1>4, <1>6, <2>1, <2>2
<1>9. CASE FlashSocketCloses(c) \/ FlashClosing(c) \/ FlashError(c)
  <2>1. conns[c].state # CLOSED /\ conns'[c].state = CLOSED
    <3>1. conns[c].state # CLOSED
        BY <1>9 DEF FlashSocketCloses, FlashClosing, FlashError, OPEN, CLOSED
    <3>2. PICK q, m, a : Turns(c, CLOSED, q, m, a)
        BY <1>1, <1>9, Turning
    <3> QED
        BY <3>1, <3>2 DEF Turns
  <2>2. PICK t \in {"close", "error"} : Fire(c, {"stateChange", t})
      BY <1>9 DEF FlashSocketCloses, FlashClosing, FlashError
  <2>3. CASE b
    <3>1. \A ev \in Report : ev.type \in {"stateChange", t} => ~ Tells(ev, b)
        BY <2>3 DEF Tells
    <3> QED
        BY <1>4, <1>6, <2>2, <3>1
  <2>4. CASE ~ b
    <3>1. ~ Reached(c, b) /\ Reached(c, b)'
        BY <2>1, <2>4 DEF Reached
    <3> QED
        BY <1>5, <1>6, <2>2, <3>1
  <2> QED
      BY <2>3, <2>4
<1> QED
    BY <1>7, <1>8, <1>9 DEF Flash

LEMMA HandleNews ==
    ASSUME FlashSocketAssumption, RunOnce, IInv, NEW b \in BOOLEAN, News(b),
           NEW ev \in events, Handle(ev) \/ Drop(ev)
    PROVE  News(b)'
PROOF
<1> USE DEF IInv
<1>1. [Next]_vars
    BY DEF Next
<1>2. events' = events \ {ev}
    BY DEF Handle, Drop, OnOpen, OnClose, OnError, OnStateChange, OnMessage, Arrives
<1>3. ASSUME UNCHANGED log
      PROVE  News(b)'
  <2>1. \A s \in Socket : (Said(s, b)' => Said(s, b)) /\ Once(s, b)'
      BY <1>3, SameLog DEF News
  <2> QED
      BY <1>1, <1>2, <2>1, NewsQuiet
<1>4. ASSUME NEW call, Log(Of(ev), call), UNCHANGED <<conns, flash>>,
             Says(call, b) <=> Tells(ev, b)
      PROVE  News(b)'
  <2>1. CASE Tells(ev, b)
      BY <1>1, <1>2, <1>4, <2>1, NewsArrives
  <2>2. CASE ~ Tells(ev, b)
    <3>1. Of(ev) \in Socket
        BY OfIs DEF Connected
    <3>2. PICK s \in Socket : s = Of(ev)
        BY <3>1
    <3>3. /\ \A t \in Socket : t # s => log'[t] = log[t]
          /\ Said(s, b)' => Said(s, b)
          /\ Once(s, b)'
        BY <1>4, <2>2, <3>2, Logged DEF News
    <3>4. \A t \in Socket : (Said(t, b)' => Said(t, b)) /\ Once(t, b)'
        BY <3>3, SameLog DEF News
    <3> QED
        BY <1>1, <1>2, <3>4, NewsQuiet
  <2> QED
      BY <2>1, <2>2
<1>5. CASE OnOpen(ev)
  <2>1. ev.type = "open" /\ Log(Of(ev), "open") /\ UNCHANGED <<conns, flash>>
      BY <1>5 DEF OnOpen, Arrives
  <2>2. Says("open", b) <=> Tells(ev, b)
      BY <2>1 DEF Says, Tells
  <2> QED
      BY <1>4, <2>1, <2>2
<1>6. CASE OnClose(ev)
  <2>1. ev.type = "close" /\ Log(Of(ev), "close") /\ UNCHANGED <<conns, flash>>
      BY <1>6 DEF OnClose, Arrives
  <2>2. Says("close", b) <=> Tells(ev, b)
      BY <2>1 DEF Says, Tells
  <2> QED
      BY <1>4, <2>1, <2>2
<1>7. CASE OnError(ev)
  <2>1. ev.type = "error" /\ Log(Of(ev), "error") /\ UNCHANGED <<conns, flash>>
      BY <1>7 DEF OnError, Arrives
  <2>2. Says("error", b) <=> Tells(ev, b)
      BY <2>1 DEF Says, Tells
  <2> QED
      BY <1>4, <2>1, <2>2
<1>8. CASE OnStateChange(ev) \/ OnMessage(ev) \/ Drop(ev)
    BY <1>3, <1>8 DEF OnStateChange, OnMessage, Drop, page
<1> QED
    BY <1>5, <1>6, <1>7, <1>8 DEF Handle

LEMMA NewsStep ==
    ASSUME FlashSocketAssumption, RunOnce, IInv, [Next]_vars, NEW b \in BOOLEAN, News(b)
    PROVE  News(b)'
PROOF
<1> USE DEF IInv
<1>1. ASSUME UNCHANGED <<events, log>>
      PROVE  News(b)'
  <2>1. \A s \in Socket : (Said(s, b)' => Said(s, b)) /\ Once(s, b)'
      BY <1>1, SameLog DEF News
  <2> QED
      BY <1>1, <2>1, NewsQuiet
<1>2. ASSUME NEW s \in Socket, Tick(s)
      PROVE  News(b)'
    BY <1>1, <1>2 DEF Tick
<1>3. ASSUME NEW s \in Socket, Close(s)
      PROVE  News(b)'
  <2>1. /\ flash[s] # 0 /\ s \in Connected /\ UNCHANGED <<events, flash>>
        /\ Conn(s) = conns[flash[s]]
      BY <1>3 DEF Close, Connected, Conn
  <2>2. CASE UNCHANGED log
      BY <1>1, <2>1, <2>2
  <2>3. CASE /\ Conn(s).state = OPEN /\ Log(s, "close")
             /\ Turns(flash[s], CLOSED, << >>, Conn(s).amount, Conn(s).arrived)
    <3>1. conns'[flash[s]].state = CLOSED /\ conns[flash[s]].state = OPEN
        BY <2>1, <2>3 DEF Turns
    <3>2. CASE b
      <4>1. ~ Says("close", b)
          BY <3>2 DEF Says
      <4>2. /\ \A t \in Socket : t # s => log'[t] = log[t]
            /\ (Said(s, b)' => Said(s, b)) /\ Once(s, b)'
          BY <2>3, <4>1, Logged DEF News
      <4>3. \A t \in Socket : (Said(t, b)' => Said(t, b)) /\ Once(t, b)'
          BY <4>2, SameLog DEF News
      <4> QED
          BY <2>1, <4>3, NewsQuiet
    <3>3. CASE ~ b
      <4>1. ~ Reached(flash[s], b) /\ Reached(flash[s], b)'
          BY <2>1, <3>1, <3>3 DEF Reached, OPEN, CLOSED
      <4> QED
          BY <2>1, <2>3, <4>1, NewsAtOnce
    <3> QED
        BY <3>2, <3>3
  <2> QED
      BY <1>3, <2>1, <2>2, <2>3, Turning
<1>4. ASSUME NEW s \in Socket, Construct(s) \/ AddTask(s) \/ Send(s)
      PROVE  News(b)'
    BY <1>1, <1>4 DEF Construct, AddTask, Send
<1>5. CASE MovieReady
    BY <1>1, <1>5 DEF MovieReady
<1>6. CASE UNCHANGED vars
    BY <1>1, <1>6 DEF vars, page
<1> QED
    BY <1>2, <1>3, <1>4, <1>5, <1>6, FlashNews, HandleNews DEF Next

-----------------------------------------------------------------------------

LEMMA InitIInv ==
    ASSUME FlashSocketAssumption, Init
    PROVE  IInv
PROOF
<1> USE DEF Init
<1>1. /\ Len(conns) = 0 /\ DOMAIN conns = {} /\ conns = << >> /\ events = {}
      /\ \A s \in Socket : flash[s] = 0 /\ ready[s] = CONNECTING
      /\ \A s \in Socket : heard[s] = << >> /\ log[s] = << >>
    OBVIOUS
<1>2. TypeOK
  <2>1. movies \in Nat /\ tasks \in Seq(Socket)
      OBVIOUS
  <2>2. ready \in [Socket -> {CONNECTING, OPEN, CLOSED}] /\ buffered \in [Socket -> Nat]
      OBVIOUS
  <2>3. flash \in [Socket -> 0..Len(conns)]
      BY <1>1
  <2>4. timeouts \subseteq born /\ born \subseteq Socket /\ timer \subseteq Socket
      OBVIOUS
  <2> QED
      BY <1>1, <2>1, <2>2, <2>3, <2>4 DEF TypeOK
<1>3. SocketsTyped
  <2>1. conns \in Seq(Connection)
      OBVIOUS
  <2>2. heard \in [Socket -> Seq(1..MaxMessages)] /\ log \in [Socket -> Seq(Call)]
      OBVIOUS
  <2> QED
      BY <1>1, <2>1, <2>2 DEF SocketsTyped
<1>4. Paired
    BY <1>1 DEF Paired
<1>5. Uncreated
    BY <1>1 DEF Uncreated, AllCreated
<1>6. Behind
    BY <1>1 DEF Behind
<1>7. InOrder
    BY <1>1 DEF InOrder
<1>8. ASSUME NEW b \in BOOLEAN
      PROVE  News(b)
  <2>1. \A s \in Socket : DOMAIN log[s] = {}
      BY <1>1
  <2> QED
      BY <1>1, <2>1 DEF News, Said, Once
<1> QED
    BY <1>2, <1>3, <1>4, <1>5, <1>6, <1>7, <1>8 DEF IInv

LEMMA IInvStep ==
    ASSUME FlashSocketAssumption, RunOnce, IInv, [Next]_vars
    PROVE  IInv'
PROOF
<1>1. TypeOK' /\ SocketsTyped'
    BY TypesStep
<1>2. Paired' /\ Uncreated' /\ Behind' /\ InOrder'
    BY PairedStep, UncreatedStep, BehindStep, InOrderStep
<1>3. News(TRUE)' /\ News(FALSE)'
    BY NewsStep DEF IInv
<1> QED
    BY <1>1, <1>2, <1>3 DEF IInv

\* The inductive invariant holds in every state of the sockets.
THEOREM Invariance ==
    ASSUME FlashSocketAssumption, RunOnce
    PROVE  Spec => []IInv
PROOF
<1>1. Init => IInv
    BY InitIInv
<1>2. IInv /\ [Next]_vars => IInv'
    BY IInvStep
<1> QED
    BY <1>1, <1>2, PTL DEF Spec

\* Type correctness, for any number of sockets, movies and messages.
THEOREM Typing ==
    ASSUME FlashSocketAssumption, RunOnce
    PROVE  Spec => []TypeOK
PROOF
<1>1. IInv => TypeOK
    BY DEF IInv
<1> QED
    BY <1>1, Invariance, PTL

\* The page is told of the beginning of a connection at most once, and of its end
\* at most once, in whatever order Flash's events come and whoever ends it; each
\* socket gets one connection, if no url is bad or one movie reports, and once one
\* has, none is left out but those with a bad url and those that waited behind one
\* (the event handlers of __createFlash, close, __addTask, the initialization
\* callback).
THEOREM OneConnectionEach ==
    ASSUME FlashSocketAssumption, RunOnce
    PROVE  Spec => []CreatedOnce
PROOF
<1>1. IInv => ToldOnce
  <2> SUFFICES ASSUME IInv, NEW s \in Socket,
                      NEW i \in DOMAIN log[s], NEW j \in DOMAIN log[s],
                      log[s][i] = "open" <=> log[s][j] = "open"
               PROVE  i = j
      BY DEF ToldOnce
  <2>1. Once(s, TRUE) /\ Once(s, FALSE)
      BY DEF IInv, News
  <2> QED
      BY <2>1 DEF Once, Says
<1>2. IInv => OneConnection
    BY DEF IInv, Paired, OneConnection
<1>3. IInv => AllCreated
    BY DEF IInv, Uncreated
<1> QED
    BY <1>1, <1>2, <1>3, Invariance, PTL DEF CreatedOnce

-----------------------------------------------------------------------------
(* The refinement of SocketLife.                                           *)

LEMMA LifeMovesOn ==
    ASSUME FlashSocketAssumption, RunOnce, IInv, [Next]_vars
    PROVE  Life!MoveOn
PROOF
<1>1. ready' \in [Socket -> 0..3]
  <2>1. ready' \in [Socket -> {CONNECTING, OPEN, CLOSED}]
      BY TypesStep DEF TypeOK
  <2> QED
      BY <2>1 DEF CONNECTING, OPEN, CLOSED
<1>2. ready \in [Socket -> 0..3]
    BY DEF IInv, TypeOK, CONNECTING, OPEN, CLOSED
<1>3. UNCHANGED ready \/ \E s \in Connected : Shows(s)
    BY Kinds DEF Creates, Proceeds
<1>4. ASSUME NEW s \in Socket
      PROVE  ready[s] <= ready'[s]
  <2>1. ready[s] <= ready[s]
      BY <1>2
  <2>2. ASSUME NEW t \in Connected, Shows(t)
        PROVE  ready[s] <= ready'[s]
    <3>1. CASE t = s
        BY <1>2, <2>2, <3>1 DEF Shows
    <3>2. CASE t # s
        BY <1>2, <2>1, <2>2, <3>2 DEF Shows
    <3> QED
        BY <3>1, <3>2
  <2> QED
      BY <1>3, <2>1, <2>2
<1> QED
    BY <1>1, <1>4 DEF Life!MoveOn

LEMMA LifeHears ==
    ASSUME FlashSocketAssumption, RunOnce, IInv, [Next]_vars
    PROVE  Life!Hear
PROOF
<1>1. UNCHANGED heard \/ \E s \in Connected : HandleMessages(s)
    BY Kinds DEF Creates, Proceeds
<1>2. ASSUME NEW s \in Socket
      PROVE  IsPrefix(heard[s], heard'[s])
  <2>1. heard[s] \in Seq(1..MaxMessages)
      BY DEF IInv, SocketsTyped
  <2>2. IsPrefix(heard[s], heard[s])
      BY <2>1 DEF IsPrefix
  <2>3. ASSUME NEW t \in Connected, HandleMessages(t)
        PROVE  IsPrefix(heard[s], heard'[s])
    <3>1. CASE t = s
      <4> DEFINE h == heard[s]
                 q == Conn(s).queue
      <4>1. heard'[s] = h \o q
          BY <2>3, <3>1 DEF HandleMessages, IInv, SocketsTyped
      <4>2. q \in Seq(1..MaxMessages) /\ h \in Seq(1..MaxMessages)
          BY <2>1, <3>1, Connections DEF IInv, Connected, Conn, Connection
      <4> HIDE DEF h, q
      <4>3. Len(h) <= Len(h \o q) /\ SubSeq(h, 1, Len(h)) = SubSeq(h \o q, 1, Len(h))
          BY ONLY <4>2
      <4> QED
          BY <4>1, <4>3 DEF IsPrefix, h
    <3>2. CASE t # s
      <4>1. heard'[s] = heard[s]
          BY <2>3, <3>2 DEF HandleMessages, IInv, SocketsTyped
      <4> QED
          BY <2>2, <4>1
    <3> QED
        BY <3>1, <3>2
  <2> QED
      BY <1>1, <2>2, <2>3
<1>3. ASSUME NEW s \in Socket
      PROVE  \A i, j \in DOMAIN heard'[s] : i < j => heard'[s][i] < heard'[s][j]
  <2>1. TypeOK' /\ SocketsTyped' /\ Paired' /\ Behind' /\ InOrder'
      BY IInvStep DEF IInv
  <2>2. CASE flash'[s] = 0
    <3>1. heard'[s] = << >>
        BY <2>1, <2>2 DEF Behind
    <3> QED
        BY <3>1
  <2>3. CASE flash'[s] # 0
    <3>1. conns'[flash'[s]].sock = s
        BY <2>1, <2>3 DEF Paired
    <3>2. flash'[s] \in DOMAIN conns'
      <4>1. conns' \in Seq(Connection) /\ flash'[s] \in 0..Len(conns')
          BY <2>1 DEF TypeOK, SocketsTyped
      <4> QED
          BY ONLY <2>3, <4>1
    <3> QED
        BY <2>1, <3>1, <3>2 DEF InOrder, Ordered, Increasing
  <2> QED
      BY <2>2, <2>3
<1> QED
    BY <1>2, <1>3 DEF Life!Hear, IsPrefix, Life!IsPrefix

\* web_socket.js keeps the promise of SocketLife: readyState moves on only, and
\* messages are heard in their order, though Flash's events come in any order and
\* some are dropped (__handleMessages, the event handlers of __createFlash, close).
THEOREM Implementation ==
    ASSUME FlashSocketAssumption, RunOnce
    PROVE  Spec => ImplementsLife
PROOF
<1>1. Init => Life!Init
    BY DEF Init, Life!Init, CONNECTING
<1>2. IInv /\ [Next]_vars => [Life!MoveOn /\ Life!Hear]_Life!lifeVars
    BY LifeMovesOn, LifeHears
<1> QED
    BY <1>1, <1>2, Invariance, PTL DEF Spec, ImplementsLife, Life!Spec

-----------------------------------------------------------------------------
(* Event listeners.                                                        *)

(***************************************************************************)
(* The listeners that run are the first of the list.                       *)
(***************************************************************************)
LEMMA RanOfList ==
    ASSUME NEW l \in Seq(Listener)
    PROVE  Ran(l) \in Seq(Listener)
PROOF
<1> DEFINE I == {i \in 1..Len(l) : l[i] \in Stopping}
           k == SelectInSeq(l, LAMBDA x : x \in Stopping)
<1>1. k = IF I = {} THEN 0 ELSE Min(I)
    BY DEF SelectInSeq
<1>2. I # {} => Min(I) \in 1..Len(l)
  <2> HAVE I # {}
  <2>1. I \in SUBSET Nat
      OBVIOUS
  <2> QED
      BY <2>1, LeastIsIn
<1>3. k \in 0..Len(l)
    BY <1>1, <1>2
<1>4. Ran(l) = IF k = 0 THEN l ELSE SubSeq(l, 1, k)
    BY DEF Ran
<1> HIDE DEF k
<1> QED
    BY <1>3, <1>4

LEMMA RangeOfConcat ==
    ASSUME NEW S, NEW l \in Seq(S), NEW x \in S
    PROVE  /\ ToSet(l \o <<x>>) = ToSet(l) \cup {x}
           /\ Last(l \o <<x>>) = x
PROOF
<1>1. l \o <<x>> \in Seq(S) /\ Len(l \o <<x>>) = Len(l) + 1
    OBVIOUS
<1>2. \A i \in 1..Len(l) : (l \o <<x>>)[i] = l[i]
    OBVIOUS
<1>3. (l \o <<x>>)[Len(l) + 1] = x
    OBVIOUS
<1> QED
    BY <1>1, <1>2, <1>3 DEF ToSet, Last

(***************************************************************************)
(* What an event calls: the listeners that run and, unless one of them     *)
(* prevents it, the handler after them.                                    *)
(***************************************************************************)
LEMMA DispatchOrder ==
    ASSUME SocketEventsAssumption, EventsTypeOK
    PROVE  LET d == Dispatched(list) IN
           /\ ~(ToSet(d) \cap Preventing # {} /\ ToSet(d) \cap Handler # {})
           /\ default # "none" =>
                 Last(d) \in Handler \/ ToSet(d) \cap Preventing # {}
PROOF
<1> DEFINE run == Ran(list)
<1>1. run \in Seq(Listener)
    BY RanOfList DEF EventsTypeOK
<1>2. ToSet(run) \subseteq Listener
    BY <1>1 DEF ToSet
<1>3. CASE IsPrevented(run)
  <2>1. Dispatched(list) = run
      BY <1>1, <1>3 DEF Dispatched
  <2>2. ToSet(run) \cap Preventing # {}
      BY <1>3 DEF IsPrevented
  <2> QED
      BY <1>2, <2>1, <2>2 DEF SocketEventsAssumption
<1>4. CASE ~IsPrevented(run) /\ default = "none"
  <2>1. Dispatched(list) = run
      BY <1>1, <1>4 DEF Dispatched
  <2>2. ToSet(run) \cap Preventing = {}
      BY <1>4 DEF IsPrevented
  <2> QED
      BY <1>4, <2>1, <2>2
<1>5. CASE ~IsPrevented(run) /\ default # "none"
  <2>1. default \in Handler
      BY <1>5 DEF EventsTypeOK
  <2>2. Dispatched(list) = run \o <<default>>
      BY <1>5 DEF Dispatched
  <2>3. ToSet(run) \cap Preventing = {}
      BY <1>5 DEF IsPrevented
  <2>4. run \in Seq(Listener \cup Handler) /\ default \in Listener \cup Handler
      BY <1>1, <2>1
  <2> HIDE DEF run
  <2>5. ToSet(run \o <<default>>) = ToSet(run) \cup {default} /\ Last(run \o <<default>>) = default
      BY <2>4, RangeOfConcat
  <2>6. default \notin Preventing
      BY <2>1 DEF SocketEventsAssumption
  <2> QED
      BY <2>1, <2>2, <2>3, <2>5, <2>6
<1> QED
    BY <1>3, <1>4, <1>5

(***************************************************************************)
(* The variables of one type of event keep their types: the dispatcher is  *)
(* never there without the handler it took the place of.                   *)
(***************************************************************************)
THEOREM EventTyping ==
    ASSUME SocketEventsAssumption PROVE EventsSpec => []EventsTypeOK
PROOF
<1>1. EventsInit => EventsTypeOK
  <2> SUFFICES ASSUME EventsInit PROVE EventsTypeOK
      OBVIOUS
  <2>1. list = << >> /\ listed = FALSE
      BY DEF EventsInit
  <2>2. on = "none" /\ default = "none"
      BY DEF EventsInit
  <2>3. listed \in BOOLEAN
      BY <2>1
  <2>4. list \in Seq(Listener) /\ on # "dispatcher"
      BY <2>1, <2>2
  <2> QED
      BY <2>2, <2>3, <2>4 DEF EventsTypeOK
<1>2. EventsTypeOK /\ [EventsNext]_eventsVars => EventsTypeOK'
  <2> SUFFICES ASSUME EventsTypeOK, [EventsNext]_eventsVars PROVE EventsTypeOK'
      OBVIOUS
  <2>1. ASSUME NEW h \in Handler \cup {"none"}, Assign(h) PROVE EventsTypeOK'
      BY <2>1 DEF Assign, EventsTypeOK, SocketEventsAssumption
  <2>2. ASSUME NEW l \in Listener, AddEventListener(l) PROVE EventsTypeOK'
    <3>1. list' \in Seq(Listener) /\ listed' = TRUE
        BY <2>2 DEF AddEventListener, EventsTypeOK
    <3>2. CASE ~listed /\ on \in Handler
        BY <2>2, <3>1, <3>2 DEF AddEventListener, EventsTypeOK, SocketEventsAssumption
    <3>3. CASE ~(~listed /\ on \in Handler)
        BY <2>2, <3>1, <3>3 DEF AddEventListener, EventsTypeOK
    <3> QED
        BY <3>2, <3>3
  <2>3. CASE EventFires \/ DispatchEvent
      BY <2>3 DEF EventFires, DispatchEvent, EventsTypeOK
  <2>4. CASE UNCHANGED eventsVars
      BY <2>4 DEF eventsVars, EventsTypeOK
  <2> QED
      BY <2>1, <2>2, <2>3, <2>4 DEF EventsNext, RemoveEventListener
<1> QED
    BY <1>1, <1>2, PTL DEF EventsSpec

(***************************************************************************)
(* Added listeners do not silence a handler, and a prevented event does    *)
(* not reach it (addEventListener, __createEventHandler, dispatchEvent).   *)
(***************************************************************************)
THEOREM HandlersAreKept ==
    ASSUME SocketEventsAssumption PROVE EventsSpec => HandlerKept
PROOF
<1>1. EventsTypeOK /\ [EventsNext]_eventsVars => [Keeps /\ Prevents]_eventsVars
  <2> SUFFICES ASSUME EventsTypeOK, EventsNext PROVE Keeps /\ Prevents
      OBVIOUS
  <2>1. Keeps
    <3> SUFFICES ASSUME EventFires, on # "none"
                 PROVE  \/ \E h \in Handler : Last(called') = h
                        \/ ToSet(called') \cap Preventing # {}
        BY DEF Keeps
    <3>1. CASE on = "dispatcher"
      <4>1. called' = Dispatched(list) /\ default # "none"
          BY <3>1 DEF EventFires, EventsTypeOK
      <4> QED
          BY <4>1, DispatchOrder
    <3>2. CASE on # "dispatcher"
      <4>1. called' = <<on>> /\ on \in Handler
          BY <3>2 DEF EventFires, EventsTypeOK
      <4>2. Last(<<on>>) = on
          BY DEF Last
      <4> QED
          BY <4>1, <4>2
    <3> QED
        BY <3>1, <3>2
  <2>2. Prevents
    <3> SUFFICES ASSUME called' # called
                 PROVE  ~(ToSet(called') \cap Preventing # {} /\ ToSet(called') \cap Handler # {})
        BY DEF Prevents
    <3>1. called' \in {<< >>, Dispatched(list), <<on>>} /\ (called' = <<on>> => on \in Handler \/ called' = Dispatched(list))
      <4>1. CASE EventFires
          BY <4>1 DEF EventFires, EventsTypeOK
      <4>2. CASE DispatchEvent
          BY <4>2 DEF DispatchEvent
      <4> QED
          BY <4>1, <4>2 DEF EventsNext, Assign, AddEventListener, RemoveEventListener, eventsVars
    <3>2. ToSet(<< >>) = {} /\ ToSet(<<on>>) = {on}
        BY DEF ToSet
    <3>3. CASE called' = Dispatched(list)
        BY <3>3, DispatchOrder
    <3>4. CASE called' = << >>
        BY <3>2, <3>4
    <3>5. CASE called' = <<on>> /\ on \in Handler
        BY <3>2, <3>5 DEF SocketEventsAssumption
    <3> QED
        BY <3>1, <3>3, <3>4, <3>5
  <2> QED
      BY <2>1, <2>2
<1> QED
    BY <1>1, EventTyping, PTL DEF EventsSpec, HandlerKept

-----------------------------------------------------------------------------
(* Calls of the bridge.                                                    *)

(***************************************************************************)
(* The inductive invariant.  As long as the count is not below the number  *)
(* of calls under way, a call goes through only if there is none; a movie  *)
(* that is gone leaves the count too high, never too low.                  *)
(***************************************************************************)
CallsInv ==
    /\ CallsTypeOK /\ refCount \in Nat
    /\ Cardinality(CallsUnderWay) <= 1
    /\ refCount >= Cardinality(CallsUnderWay)
    /\ gone = {} => refCount = Cardinality(CallsUnderWay)

\* Calls under way of a stack, which is a state function, as an operator
UnderWayIn(s) == {i \in DOMAIN s : s[i].kind = "counted"}

\* Their number is finite, and a frame adds one if it is counted.
LEMMA CountOfPush ==
    ASSUME NEW s \in Seq(Frame), NEW f \in Frame
    PROVE  /\ IsFiniteSet(UnderWayIn(s)) /\ Cardinality(UnderWayIn(s)) \in Nat
           /\ Cardinality(UnderWayIn(Append(s, f))) =
                 Cardinality(UnderWayIn(s)) + (IF f.kind = "counted" THEN 1 ELSE 0)
PROOF
<1> DEFINE n == Len(s)
           t == Append(s, f)
<1>1. n \in Nat /\ DOMAIN s = 1..n
    OBVIOUS
<1>2. IsFiniteSet(1..n)
    BY <1>1, FS_Interval
<1>3. UnderWayIn(s) \subseteq 1..n
    BY <1>1 DEF UnderWayIn
<1>4. IsFiniteSet(UnderWayIn(s)) /\ Cardinality(UnderWayIn(s)) \in Nat
    BY <1>2, <1>3, FS_Subset, FS_CardinalityType
<1>5. DOMAIN t = 1..(n + 1) /\ t[n + 1] = f /\ \A i \in 1..n : t[i] = s[i]
    OBVIOUS
<1> HIDE DEF t, n
<1>6. CASE f.kind = "counted"
  <2>1. UnderWayIn(t) = UnderWayIn(s) \cup {n + 1} /\ n + 1 \notin UnderWayIn(s)
      BY <1>1, <1>5, <1>6 DEF UnderWayIn
  <2>2. Cardinality(UnderWayIn(t)) = Cardinality(UnderWayIn(s)) + 1
      BY <1>4, <2>1, FS_AddElement
  <2> QED
      BY <1>4, <1>6, <2>2 DEF t
<1>7. CASE f.kind # "counted"
  <2>1. UnderWayIn(t) = UnderWayIn(s)
      BY <1>1, <1>5, <1>7 DEF UnderWayIn
  <2> QED
      BY <1>4, <1>7, <2>1 DEF t
<1> QED
    BY <1>6, <1>7

\* A frame that ends takes one away if it is counted.
LEMMA CountOfPop ==
    ASSUME NEW s \in Seq(Frame), s # << >>
    PROVE  /\ Front(s) \in Seq(Frame) /\ Last(s) \in Frame
           /\ Cardinality(UnderWayIn(Front(s))) \in Nat
           /\ Cardinality(UnderWayIn(s)) =
                 Cardinality(UnderWayIn(Front(s))) + (IF Last(s).kind = "counted" THEN 1 ELSE 0)
PROOF
<1>1. Front(s) \in Seq(Frame) /\ Last(s) \in Frame
    BY DEF Front, Last
<1>2. s = Append(Front(s), Last(s))
    BY DEF Front, Last
<1> QED
    BY <1>1, <1>2, CountOfPush

(***************************************************************************)
(* Every step keeps the invariant, as long as only counted calls answer    *)
(* with errors.                                                            *)
(***************************************************************************)
LEMMA CallsInvStep ==
    ASSUME BridgeCallsAssumption, ~RootFails, CallsInv, [CallsNext]_callsVars
    PROVE  CallsInv'
PROOF
<1> DEFINE n == Cardinality(CallsUnderWay)
<1>1. n = Cardinality(UnderWayIn(stack)) /\ n' = Cardinality(UnderWayIn(stack'))
    BY DEF CallsUnderWay, UnderWayIn
<1>2. stack \in Seq(Frame) /\ gone \subseteq Removable /\ refCount \in Nat
    BY DEF CallsInv, CallsTypeOK
<1>3. SUFFICES /\ stack' \in Seq(Frame) /\ gone' \subseteq Removable /\ refCount' \in Nat
               /\ n' <= 1 /\ refCount' >= n' /\ (gone' = {} => refCount' = n')
    BY DEF CallsInv, CallsTypeOK
<1>4. n \in Nat /\ n <= 1 /\ refCount >= n /\ (gone = {} => refCount = n)
  <2>1. Cardinality(UnderWayIn(stack)) \in Nat
    <3>1. CASE stack = << >>
      <4>1. UnderWayIn(stack) = {}
          BY <3>1 DEF UnderWayIn
      <4> QED
          BY <4>1, FS_EmptySet
    <3>2. CASE stack # << >>
      <4>1. stack[1] \in Frame
          BY <1>2, <3>2
      <4> QED
          BY <1>2, <4>1, CountOfPush
    <3> QED
        BY <3>1, <3>2
  <2> QED
      BY <1>1, <2>1 DEF CallsInv
<1> HIDE DEF n
<1>5. ASSUME NEW kind \in {"counted", "uncounted", "handler"}, NEW b \in Bridge, Push(kind, b)
      PROVE  stack' \in Seq(Frame) /\ n' = n + (IF kind = "counted" THEN 1 ELSE 0)
  <2>1. [kind |-> kind, bridge |-> b] \in Frame
      BY DEF Frame
  <2>2. stack' = Append(stack, [kind |-> kind, bridge |-> b])
      BY <1>5 DEF Push
  <2> QED
      BY <1>1, <1>2, <2>1, <2>2, CountOfPush
<1>6. ASSUME stack # << >>, Pop
      PROVE  /\ stack' \in Seq(Frame) /\ n' \in Nat
             /\ n = n' + (IF Last(stack).kind = "counted" THEN 1 ELSE 0)
    BY <1>1, <1>2, <1>6, CountOfPop DEF Pop
<1>7. ASSUME NEW b \in Bridge, CallFlash(b) PROVE <1>3!1
  <2>1. refCount = 0 /\ refCount' = 1 /\ gone' = gone /\ n = 0
      BY <1>2, <1>4, <1>7 DEF CallFlash, Refuses
  <2>2. CASE b \in gone
    <3>1. stack' = stack /\ gone # {}
        BY <1>7, <2>2 DEF CallFlash
    <3>2. n' = 0
        BY <1>1, <2>1, <3>1
    <3> QED
        BY <1>2, <2>1, <3>1, <3>2
  <2>3. CASE b \notin gone
    <3>1. Push("counted", b)
        BY <1>7, <2>3 DEF CallFlash
    <3>2. stack' \in Seq(Frame) /\ n' = 1
        BY <1>5, <2>1, <3>1
    <3> QED
        BY <1>2, <2>1, <3>2
  <2> QED
      BY <2>2, <2>3
<1>8. ASSUME NEW b \in Bridge, CallUncounted(b) \/ InvokeJSFunction(b) PROVE <1>3!1
  <2>1. (Push("uncounted", b) \/ Push("handler", b)) /\ UNCHANGED <<refCount, gone>>
      BY <1>8 DEF CallUncounted, InvokeJSFunction
  <2>2. stack' \in Seq(Frame) /\ n' = n
      BY <1>4, <1>5, <2>1
  <2> QED
      BY <1>2, <1>4, <2>1, <2>2
<1>9. ASSUME NEW b \in Bridge, RemoveMovie(b) PROVE <1>3!1
  <2>1. stack' = stack /\ refCount' = refCount /\ gone' = gone \cup {b} /\ b \in Removable
      BY <1>9 DEF RemoveMovie
  <2> QED
      BY <1>1, <1>2, <1>4, <2>1
<1>10. InFlash => stack # << >>
    BY DEF InFlash, InScript
<1>11. CASE FlashReturns
  <2>1. stack # << >> /\ Pop /\ gone' = gone
      BY <1>10, <1>11 DEF FlashReturns
  <2>2. refCount' = IF Last(stack).kind = "counted" THEN refCount - 1 ELSE refCount
      BY <1>11 DEF FlashReturns
  <2> QED
      BY <1>2, <1>4, <1>6, <2>1, <2>2
<1>12. CASE HandleError
  <2>1. stack # << >> /\ Pop /\ gone' = gone /\ Last(stack).kind = "counted"
      BY <1>10, <1>12 DEF HandleError
  <2>2. refCount' = IF refCount > 0 THEN refCount - 1 ELSE refCount
      BY <1>12 DEF HandleError, Refuses
  <2> QED
      BY <1>2, <1>4, <1>6, <2>1, <2>2
<1>13. CASE HandlerReturns
  <2>1. stack # << >> /\ Pop /\ UNCHANGED <<refCount, gone>> /\ Last(stack).kind = "handler"
      BY <1>13 DEF HandlerReturns, InScript
  <2> QED
      BY <1>2, <1>4, <1>6, <2>1
<1>14. CASE UNCHANGED callsVars
    BY <1>1, <1>2, <1>4, <1>14 DEF callsVars
<1> QED
    BY <1>7, <1>8, <1>9, <1>11, <1>12, <1>13, <1>14 DEF CallsNext

(***************************************************************************)
(* No counted call is made within another, over all movies and through any *)
(* number of callbacks, and as long as no movie has left the count is that *)
(* of the calls under way (refCount, handleError): unless root or create   *)
(* answer with an error, which uncounts the call around them.              *)
(***************************************************************************)
THEOREM CallsDoNotNest ==
    ASSUME BridgeCallsAssumption, ~RootFails
    PROVE  CallsSpec => [](CallsTypeOK /\ NoRecursion)
PROOF
<1>1. CallsInit => CallsInv
  <2> SUFFICES ASSUME CallsInit PROVE CallsInv
      OBVIOUS
  <2>1. stack = << >> /\ refCount = 0 /\ gone = {}
      BY DEF CallsInit
  <2>2. CallsUnderWay = {}
      BY <2>1 DEF CallsUnderWay
  <2>3. Cardinality(CallsUnderWay) = 0
      BY <2>2, FS_EmptySet
  <2>4. stack \in Seq(Frame)
      BY <2>1
  <2> QED
      BY <2>1, <2>3, <2>4 DEF CallsInv, CallsTypeOK
<1>2. CallsInv /\ [CallsNext]_callsVars => CallsInv'
    BY CallsInvStep
<1>3. CallsInv => CallsTypeOK /\ NoRecursion
    BY DEF CallsInv, NoRecursion
<1> QED
    BY <1>1, <1>2, <1>3, PTL DEF CallsSpec

-----------------------------------------------------------------------------
(* Callbacks and functions of the bridge.                                  *)

\* The movies of the page are all objects, or all embeds.
OneTag == \A i, j \in Movie : Document[i].tag = Document[j].tag

BridgeRecord == [target : Movie, name : Name, local : Seq(Func)]

\* A callback waits while there is no bridge of its name, and has run after.
Asks ==
    /\ \A c, d \in asked : c[1] = d[1] => c = d
    /\ IsInjective(ran)
    /\ \A n \in Name : IsInjective(waiting[n])
    /\ \A f \in InitFunc : f \in ToSet(ran) <=> \E c \in asked : c[1] = f /\ instances[c[2]] # NoBridge
    /\ \A f \in InitFunc, n \in Name :
          f \in ToSet(waiting[n]) <=> <<f, n>> \in asked /\ instances[n] = NoBridge

\* A function has one number, of one bridge.
OneNumber ==
    \A b, c \in DOMAIN bridges : \A i \in DOMAIN bridges[b].local, j \in DOMAIN bridges[c].local :
        bridges[b].local[i] = bridges[c].local[j] => b = c /\ i = j

IdsInv == IdsTypeOK /\ Asks /\ OneNumber /\ (OneTag => RightMovie)

-----------------------------------------------------------------------------
LEMMA JoinOnce ==
    ASSUME NEW S, NEW s \in Seq(S), NEW t \in Seq(S)
    PROVE  /\ ToSet(s \o t) = ToSet(s) \cup ToSet(t)
           /\ IsInjective(s) /\ IsInjective(t) /\ ToSet(s) \cap ToSet(t) = {} => IsInjective(s \o t)
PROOF
<1> DEFINE u == s \o t
<1>1. /\ u \in Seq(S) /\ Len(s) \in Nat /\ Len(t) \in Nat /\ Len(u) = Len(s) + Len(t)
      /\ DOMAIN s = 1..Len(s) /\ DOMAIN t = 1..Len(t) /\ DOMAIN u = 1..(Len(s) + Len(t))
    OBVIOUS
<1>2. /\ \A i \in 1..Len(s) : u[i] = s[i]
      /\ \A i \in 1..Len(t) : u[Len(s) + i] = t[i]
    OBVIOUS
<1> HIDE DEF u
<1>3. \A i \in DOMAIN u : \/ i \in DOMAIN s /\ u[i] = s[i]
                          \/ i - Len(s) \in DOMAIN t /\ u[i] = t[i - Len(s)]
  <2> TAKE i \in DOMAIN u
  <2>1. i \notin DOMAIN s => i - Len(s) \in 1..Len(t) /\ i = Len(s) + (i - Len(s))
      BY <1>1
  <2> QED
      BY <1>1, <1>2, <2>1
<1>4. ToSet(u) = ToSet(s) \cup ToSet(t)
  <2>1. ASSUME NEW x \in ToSet(s) PROVE x \in ToSet(u)
    <3>1. PICK i \in DOMAIN s : s[i] = x
        BY DEF ToSet
    <3>2. i \in DOMAIN u /\ u[i] = x
        BY <1>1, <1>2, <3>1
    <3> QED
        BY <3>2 DEF ToSet
  <2>2. ASSUME NEW x \in ToSet(t) PROVE x \in ToSet(u)
    <3>1. PICK i \in DOMAIN t : t[i] = x
        BY DEF ToSet
    <3>2. Len(s) + i \in DOMAIN u /\ u[Len(s) + i] = x
        BY <1>1, <1>2, <3>1
    <3> QED
        BY <3>2 DEF ToSet
  <2>3. ASSUME NEW x \in ToSet(u) PROVE x \in ToSet(s) \cup ToSet(t)
      BY <1>3 DEF ToSet
  <2> QED
      BY <2>1, <2>2, <2>3
<1>5. ASSUME IsInjective(s), IsInjective(t), ToSet(s) \cap ToSet(t) = {}
      PROVE  IsInjective(u)
  <2> SUFFICES ASSUME NEW i \in DOMAIN u, NEW j \in DOMAIN u, u[i] = u[j] PROVE i = j
      BY DEF IsInjective
  <2>1. CASE i \in DOMAIN s /\ u[i] = s[i] /\ j \in DOMAIN s /\ u[j] = s[j]
      BY <1>5, <2>1 DEF IsInjective
  <2>2. CASE /\ i - Len(s) \in DOMAIN t /\ u[i] = t[i - Len(s)]
             /\ j - Len(s) \in DOMAIN t /\ u[j] = t[j - Len(s)]
    <3>1. i - Len(s) = j - Len(s)
        BY <1>5, <2>2 DEF IsInjective
    <3> QED
        BY <1>1, <3>1
  <2>3. \A k \in DOMAIN s, l \in DOMAIN t : s[k] # t[l]
      BY <1>5 DEF ToSet
  <2> QED
      BY <1>3, <2>1, <2>2, <2>3
<1> QED
    BY <1>4, <1>5 DEF u

LEMMA AppendOnce ==
    ASSUME NEW S, NEW s \in Seq(S), NEW x \in S
    PROVE  /\ ToSet(Append(s, x)) = ToSet(s) \cup {x}
           /\ IsInjective(s) /\ x \notin ToSet(s) => IsInjective(Append(s, x))
PROOF
<1>1. <<x>> \in Seq(S) /\ Append(s, x) = s \o <<x>>
    OBVIOUS
<1>2. ToSet(<<x>>) = {x} /\ IsInjective(<<x>>)
    BY DEF ToSet, IsInjective
<1> DEFINE t == <<x>>
<1>3. t \in Seq(S) /\ Append(s, x) = s \o t /\ ToSet(t) = {x} /\ IsInjective(t)
    BY <1>1, <1>2
<1> HIDE DEF t
<1>4. /\ ToSet(s \o t) = ToSet(s) \cup ToSet(t)
      /\ IsInjective(s) /\ IsInjective(t) /\ ToSet(s) \cap ToSet(t) = {} => IsInjective(s \o t)
    BY <1>3, JoinOnce
<1> QED
    BY <1>3, <1>4

LEMMA NoneOnce == ToSet(<< >>) = {} /\ IsInjective(<< >>)
PROOF
    BY DEF ToSet, IsInjective

(***************************************************************************)
(* The movie that FABridge__bridgeInitialized takes is the one that has    *)
(* reported, or can be taken for it: that one is among the candidates, and *)
(* the first of them is taken.                                             *)
(***************************************************************************)
LEMMA RightCandidate ==
    ASSUME BridgeIdsAssumption, IdsInv, NEW i \in active, Candidates(Document[i].name) # {}
    PROVE  LET m == Min(Candidates(Document[i].name)) IN
           m \in Movie /\ (OneTag => TakenFor(m, Document[i].name))
PROOF
<1> DEFINE n == Document[i].name
           objects == ActiveOf("object")
           embeds == ActiveOf("embed")
<1>1. /\ Movie = 1..Len(Document) /\ Len(Document) \in Nat
      /\ \A j \in Movie : Document[j].tag \in {"object", "embed"}
      /\ active \subseteq Movie /\ n \in Longer[n]
  <2> DEFINE R == [tag : {"object", "embed"}, name : Name]
  <2>1. Document \in Seq(R)
      BY DEF BridgeIdsAssumption
  <2> HIDE DEF R
  <2>2. Movie = 1..Len(Document) /\ Len(Document) \in Nat
      BY <2>1 DEF Movie
  <2>3. \A j \in Movie : Document[j] \in R
      BY <2>1, <2>2
  <2>4. \A j \in Movie : Document[j].tag \in {"object", "embed"} /\ Document[j].name \in Name
      BY <2>3 DEF R
  <2>5. active \subseteq Movie
      BY DEF IdsInv, IdsTypeOK
  <2>6. n \in Longer[n]
      BY <2>4, <2>5 DEF BridgeIdsAssumption
  <2> QED
      BY <2>2, <2>4, <2>5, <2>6
<1>2. /\ objects \subseteq Movie /\ embeds \subseteq Movie
      /\ \A j \in objects : Document[j].tag = "object"
      /\ \A j \in embeds : Document[j].tag = "embed"
      /\ i \in objects \/ i \in embeds
    BY <1>1 DEF ActiveOf
<1>3. IsFiniteSet(objects) /\ IsFiniteSet(embeds)
  <2>1. Len(Document) \in Int /\ IsFiniteSet(1..Len(Document))
    <3>1. Len(Document) \in Nat
        BY <1>1
    <3>2. \A k \in Int : IsFiniteSet(1..k)
        BY FS_Interval
    <3> QED
        BY <3>1, <3>2
  <2>2. IsFiniteSet(Movie)
      BY <1>1, <2>1
  <2> QED
      BY <1>2, <2>2, FS_Subset
<1>4. OneTag => objects = {} \/ embeds = {}
  <2>1. ASSUME OneTag, NEW j \in objects, NEW k \in embeds PROVE FALSE
    <3>1. Document[j].tag = Document[k].tag
        BY <1>2, <2>1 DEF OneTag
    <3>2. Document[j].tag = "object" /\ Document[k].tag = "embed"
        BY <1>2
    <3> QED
        BY <3>1, <3>2
  <2> QED
      BY <2>1
<1>5. \A S : (S = objects \/ S = embeds) /\ Cardinality(S) = 1 /\ i \in S => S = {i}
    BY <1>3, FS_Singleton
<1>6. /\ Candidates(n) \subseteq Movie
      /\ OneTag => i \in Candidates(n) /\ \A j \in Candidates(n) : j = i \/ Document[j].name \in Longer[n]
  <2> HIDE DEF objects, embeds
  <2>1. Candidates(n) = IF Cardinality(objects) = 1 /\ Cardinality(embeds) <= 1 THEN objects
                        ELSE IF objects = {} /\ Cardinality(embeds) = 1 THEN embeds
                        ELSE IF Named(objects, n) # {} THEN Named(objects, n)
                        ELSE Named(embeds, n)
      BY DEF Candidates, objects, embeds
  <2>2. /\ Named(objects, n) \subseteq objects /\ Named(embeds, n) \subseteq embeds
        /\ \A j \in Named(objects, n) \cup Named(embeds, n) : Document[j].name \in Longer[n]
        /\ Named(objects, n) # {} /\ i \in objects => i \in Named(objects, n)
        /\ Named(embeds, n) # {} /\ i \in embeds => i \in Named(embeds, n)
      BY <1>1 DEF Named
  <2>3. CASE Cardinality(objects) = 1 /\ Cardinality(embeds) <= 1
    <3>1. objects # {}
        BY <2>3, FS_EmptySet
    <3>2. OneTag => i \in objects
        BY <1>2, <1>4, <3>1
    <3>3. Candidates(n) = objects /\ (OneTag => Candidates(n) = {i})
        BY <1>5, <2>1, <2>3, <3>2
    <3> QED
        BY <1>1, <1>2, <3>3
  <2>4. CASE ~(Cardinality(objects) = 1 /\ Cardinality(embeds) <= 1) /\ objects = {} /\ Cardinality(embeds) = 1
    <3>1. i \in embeds
        BY <1>2, <2>4
    <3>2. Candidates(n) = {i}
        BY <1>5, <2>1, <2>4, <3>1
    <3> QED
        BY <1>1, <3>2
  <2>5. CASE ~(Cardinality(objects) = 1 /\ Cardinality(embeds) <= 1) /\ ~(objects = {} /\ Cardinality(embeds) = 1)
    <3>1. \/ Candidates(n) = Named(objects, n) /\ Named(objects, n) # {}
          \/ Candidates(n) = Named(embeds, n) /\ Named(embeds, n) # {}
        BY <2>1, <2>5
    <3>2. /\ OneTag /\ objects # {} => i \in objects
          /\ OneTag /\ embeds # {} => i \in embeds
        BY <1>2, <1>4
    <3>3. Candidates(n) \subseteq Movie
        BY <1>2, <2>2, <3>1
    <3>4. OneTag => i \in Candidates(n)
        BY <2>2, <3>1, <3>2
    <3> QED
        BY <2>2, <3>1, <3>3, <3>4
  <2> QED
      BY <2>3, <2>4, <2>5
<1>7. Candidates(n) \in SUBSET Nat
    BY <1>1, <1>6
<1> HIDE DEF n
<1>8. Min(Candidates(n)) \in Candidates(n) /\ \A j \in Candidates(n) : Min(Candidates(n)) <= j
    BY <1>7, LeastIsIn DEF n
<1>9. ASSUME OneTag PROVE TakenFor(Min(Candidates(n)), n)
  <2>1. CASE Min(Candidates(n)) = i
      BY <2>1 DEF TakenFor, Bears, n
  <2>2. CASE Min(Candidates(n)) # i
    <3>1. Min(Candidates(n)) <= i /\ Min(Candidates(n)) \in Nat /\ i \in Nat /\ i \in Movie
        BY <1>1, <1>6, <1>7, <1>8, <1>9
    <3>2. Document[Min(Candidates(n))].name \in Longer[n]
        BY <1>6, <1>8, <1>9, <2>2
    <3>3. Min(Candidates(n)) < i
        BY <2>2, <3>1
    <3> QED
        BY <3>1, <3>2, <3>3 DEF TakenFor, Mistakable, Bears, n
  <2> QED
      BY <2>1, <2>2
<1> QED
    BY <1>6, <1>8, <1>9 DEF n
-----------------------------------------------------------------------------
(* Callbacks.                                                              *)

(***************************************************************************)
(* A bridge that is attached runs the callbacks that wait for its name,    *)
(* and leaves none waiting.                                                *)
(***************************************************************************)
LEMMA AttachAsks ==
    ASSUME IdsInv, NEW i, NEW n \in Name, AttachBridge(i, n), asked' = asked
    PROVE  Asks' /\ ran' \in Seq(InitFunc) /\ waiting' \in [Name -> Seq(InitFunc)]
PROOF
<1>1. /\ ran \in Seq(InitFunc) /\ waiting \in [Name -> Seq(InitFunc)]
      /\ instances \in [Name -> 0..Len(bridges)] /\ Len(bridges) \in Nat
      /\ asked \subseteq InitFunc \X Name
    BY DEF IdsInv, IdsTypeOK
<1>2. /\ ran' = ran \o waiting[n] /\ waiting' = [waiting EXCEPT ![n] = << >>]
      /\ instances' = [instances EXCEPT ![n] = Len(bridges) + 1]
    BY DEF AttachBridge
<1>3. waiting[n] \in Seq(InitFunc)
    BY <1>1
<1>4. /\ instances' \in [Name -> Nat] /\ instances'[n] # NoBridge
      /\ \A m \in Name : m # n => instances'[m] = instances[m]
      /\ waiting' \in [Name -> Seq(InitFunc)] /\ waiting'[n] = << >>
      /\ \A m \in Name : m # n => waiting'[m] = waiting[m]
    BY <1>1, <1>2 DEF NoBridge
<1>5. /\ \A c, d \in asked : c[1] = d[1] => c = d
      /\ \A f \in InitFunc : f \in ToSet(ran) <=> \E c \in asked : c[1] = f /\ instances[c[2]] # NoBridge
      /\ \A f \in InitFunc, m \in Name :
            f \in ToSet(waiting[m]) <=> <<f, m>> \in asked /\ instances[m] = NoBridge
      /\ IsInjective(ran) /\ \A m \in Name : IsInjective(waiting[m])
    BY DEF IdsInv, Asks
<1>6. \A s \in Seq(InitFunc) : ToSet(s) \subseteq InitFunc
    BY DEF ToSet
<1>7. \A c \in asked : c = <<c[1], c[2]>> /\ c[1] \in InitFunc /\ c[2] \in Name
    BY <1>1
<1>8. ToSet(ran) \cap ToSet(waiting[n]) = {}
  <2> SUFFICES ASSUME NEW f \in ToSet(ran), f \in ToSet(waiting[n]) PROVE FALSE
      OBVIOUS
  <2>1. f \in InitFunc
      BY <1>1, <1>6
  <2>2. PICK c \in asked : c[1] = f /\ instances[c[2]] # NoBridge
      BY <1>5, <2>1
  <2>3. <<f, n>> \in asked /\ instances[n] = NoBridge
      BY <1>5, <2>1
  <2>4. c = <<f, n>>
      BY <1>5, <2>2, <2>3
  <2> QED
      BY <2>2, <2>3, <2>4
<1>9. ran' \in Seq(InitFunc) /\ IsInjective(ran') /\ ToSet(ran') = ToSet(ran) \cup ToSet(waiting[n])
    BY <1>1, <1>2, <1>3, <1>5, <1>8, JoinOnce
<1>10. ASSUME NEW f \in InitFunc
       PROVE  f \in ToSet(ran') <=> \E c \in asked : c[1] = f /\ instances'[c[2]] # NoBridge
  <2>1. ASSUME f \in ToSet(ran') PROVE \E c \in asked : c[1] = f /\ instances'[c[2]] # NoBridge
    <3>1. CASE f \in ToSet(ran)
      <4>1. PICK c \in asked : c[1] = f /\ instances[c[2]] # NoBridge
          BY <1>5, <3>1
      <4>2. instances'[c[2]] # NoBridge
          BY <1>4, <1>7, <4>1
      <4> QED
          BY <4>1, <4>2
    <3>2. CASE f \in ToSet(waiting[n])
      <4>1. <<f, n>> \in asked
          BY <1>5, <3>2
      <4> QED
          BY <1>4, <4>1
    <3> QED
        BY <1>9, <2>1, <3>1, <3>2
  <2>2. ASSUME NEW c \in asked, c[1] = f, instances'[c[2]] # NoBridge PROVE f \in ToSet(ran')
    <3>1. CASE instances[c[2]] # NoBridge
        BY <1>5, <1>9, <2>2, <3>1
    <3>2. CASE instances[c[2]] = NoBridge
      <4>1. c[2] = n
          BY <1>4, <1>7, <2>2, <3>2
      <4>2. <<f, n>> \in asked
          BY <1>7, <2>2, <4>1
      <4>3. f \in ToSet(waiting[n])
          BY <1>5, <3>2, <4>1, <4>2
      <4> QED
          BY <1>9, <4>3
    <3> QED
        BY <3>1, <3>2
  <2> QED
      BY <2>1, <2>2
<1>11. \A m \in Name : IsInjective(waiting'[m])
    BY <1>4, <1>5, NoneOnce
<1>12. \A f \in InitFunc, m \in Name :
          f \in ToSet(waiting'[m]) <=> <<f, m>> \in asked /\ instances'[m] = NoBridge
  <2> TAKE f \in InitFunc, m \in Name
  <2>1. CASE m = n
      BY <1>4, <2>1, NoneOnce
  <2>2. CASE m # n
      BY <1>4, <1>5, <2>2
  <2> QED
      BY <2>1, <2>2
<1> QED
    BY <1>4, <1>5, <1>9, <1>10, <1>11, <1>12 DEF Asks

(***************************************************************************)
(* A callback that is added runs at once, or waits for its bridge.         *)
(***************************************************************************)
LEMMA AddAsks ==
    ASSUME IdsInv, NEW f \in InitFunc, NEW n \in Name, AddInitializationCallback(f, n)
    PROVE  /\ Asks' /\ ran' \in Seq(InitFunc) /\ waiting' \in [Name -> Seq(InitFunc)]
           /\ asked' \subseteq InitFunc \X Name
PROOF
<1>1. /\ ran \in Seq(InitFunc) /\ waiting \in [Name -> Seq(InitFunc)]
      /\ asked \subseteq InitFunc \X Name
    BY DEF IdsInv, IdsTypeOK
<1>2. /\ \A c \in asked : c[1] # f
      /\ asked' = asked \cup {<<f, n>>} /\ UNCHANGED instances
    BY DEF AddInitializationCallback
<1>3. /\ \A c, d \in asked : c[1] = d[1] => c = d
      /\ \A g \in InitFunc : g \in ToSet(ran) <=> \E c \in asked : c[1] = g /\ instances[c[2]] # NoBridge
      /\ \A g \in InitFunc, m \in Name :
            g \in ToSet(waiting[m]) <=> <<g, m>> \in asked /\ instances[m] = NoBridge
      /\ IsInjective(ran) /\ \A m \in Name : IsInjective(waiting[m])
    BY DEF IdsInv, Asks
<1>4. /\ asked' \subseteq InitFunc \X Name
      /\ \A c, d \in asked' : c[1] = d[1] => c = d
  <2>1. <<f, n>>[1] = f
      OBVIOUS
  <2> QED
      BY <1>1, <1>2, <1>3, <2>1
<1>5. f \notin ToSet(ran) /\ \A m \in Name : f \notin ToSet(waiting[m])
  <2>1. f \notin ToSet(ran)
      BY <1>2, <1>3
  <2>2. ASSUME NEW m \in Name, f \in ToSet(waiting[m]) PROVE FALSE
    <3>1. <<f, m>> \in asked
        BY <1>3, <2>2
    <3>2. <<f, m>>[1] = f
        OBVIOUS
    <3> QED
        BY <1>2, <3>1, <3>2
  <2> QED
      BY <2>1, <2>2
<1>6. <<f, n>>[1] = f /\ <<f, n>>[2] = n /\ \A g, m : <<g, m>> = <<f, n>> <=> g = f /\ m = n
    OBVIOUS
<1>7. CASE instances[n] # NoBridge
  <2>1. ran' = Append(ran, f) /\ UNCHANGED waiting
      BY <1>7 DEF AddInitializationCallback
  <2>2. ran' \in Seq(InitFunc) /\ IsInjective(ran') /\ ToSet(ran') = ToSet(ran) \cup {f}
      BY <1>1, <1>3, <1>5, <2>1, AppendOnce
  <2>3. \A g \in InitFunc : g \in ToSet(ran') <=> \E c \in asked' : c[1] = g /\ instances'[c[2]] # NoBridge
      BY <1>2, <1>3, <1>6, <1>7, <2>2, ZenonT(40)
  <2>4. \A g \in InitFunc, m \in Name :
            g \in ToSet(waiting'[m]) <=> <<g, m>> \in asked' /\ instances'[m] = NoBridge
      BY <1>2, <1>3, <1>6, <1>7, <2>1
  <2> QED
      BY <1>1, <1>3, <1>4, <2>1, <2>2, <2>3, <2>4 DEF Asks
<1>8. CASE instances[n] = NoBridge
  <2>1. waiting' = [waiting EXCEPT ![n] = Append(waiting[n], f)] /\ UNCHANGED ran
      BY <1>8 DEF AddInitializationCallback
  <2>2. waiting[n] \in Seq(InitFunc)
      BY <1>1
  <2>3. Append(waiting[n], f) \in Seq(InitFunc)
      BY <2>2
  <2>4. /\ IsInjective(Append(waiting[n], f))
        /\ ToSet(Append(waiting[n], f)) = ToSet(waiting[n]) \cup {f}
      BY <1>3, <1>5, <2>2, AppendOnce
  <2>5. /\ waiting' \in [Name -> Seq(InitFunc)] /\ waiting'[n] = Append(waiting[n], f)
        /\ \A m \in Name : m # n => waiting'[m] = waiting[m]
      BY <1>1, <2>1, <2>3
  <2>6. ASSUME NEW m \in Name PROVE IsInjective(waiting'[m])
    <3>1. CASE m = n
        BY <2>4, <2>5, <3>1
    <3>2. CASE m # n
        BY <1>3, <2>5, <3>2
    <3> QED
        BY <3>1, <3>2
  <2>7. \A g \in InitFunc, m \in Name :
            g \in ToSet(waiting'[m]) <=> <<g, m>> \in asked' /\ instances'[m] = NoBridge
    <3> TAKE g \in InitFunc, m \in Name
    <3>1. CASE m = n
        BY <1>2, <1>3, <1>6, <1>8, <2>4, <2>5, <3>1, ZenonT(40)
    <3>2. CASE m # n
        BY <1>2, <1>3, <1>6, <2>5, <3>2
    <3> QED
        BY <3>1, <3>2
  <2>8. \A g \in InitFunc : g \in ToSet(ran') <=> \E c \in asked' : c[1] = g /\ instances'[c[2]] # NoBridge
      BY <1>2, <1>3, <1>6, <1>8, <2>1
  <2> QED
      BY <1>1, <1>3, <1>4, <2>1, <2>5, <2>6, <2>7, <2>8 DEF Asks
<1> QED
    BY <1>7, <1>8

-----------------------------------------------------------------------------
(* Every step keeps the invariant.                                         *)

\* An attached bridge has no functions yet.
LEMMA AttachKeeps ==
    ASSUME IdsInv, NEW i \in Movie, NEW n \in Name, OneTag => TakenFor(i, n),
           AttachBridge(i, n), UNCHANGED <<active, asked, reached>>,
           reports' \in [Movie -> 0..Reports]
    PROVE  IdsInv'
PROOF
<1> DEFINE b0 == [target |-> i, name |-> n, local |-> << >>]
           l == Len(bridges)
<1>1. /\ bridges \in Seq(BridgeRecord) /\ instances \in [Name -> 0..l] /\ l \in Nat
      /\ active \subseteq Movie /\ asked \subseteq InitFunc \X Name /\ reached \in Func \cup {Nobody}
      /\ \A b \in DOMAIN bridges : IsInjective(bridges[b].local)
    BY DEF IdsInv, IdsTypeOK, BridgeRecord
<1>2. b0 \in BridgeRecord /\ b0.target = i /\ b0.name = n /\ b0.local = << >>
  <2>1. << >> \in Seq(Func)
      OBVIOUS
  <2> QED
      BY <2>1 DEF BridgeRecord
<1>3. bridges' = Append(bridges, b0) /\ instances' = [instances EXCEPT ![n] = l + 1]
    BY DEF AttachBridge
<1> HIDE DEF b0
<1>4. /\ bridges' \in Seq(BridgeRecord) /\ Len(bridges') = l + 1
      /\ DOMAIN bridges = 1..l /\ DOMAIN bridges' = 1..(l + 1)
      /\ bridges'[l + 1] = b0 /\ \A b \in 1..l : bridges'[b] = bridges[b]
    BY <1>1, <1>2, <1>3
<1>5. \A b \in DOMAIN bridges' : b \in DOMAIN bridges \/ b = l + 1
    BY <1>1, <1>4
<1>6. instances' \in [Name -> 0..Len(bridges')]
    BY <1>1, <1>3, <1>4
<1>7. \A b \in DOMAIN bridges' : IsInjective(bridges'[b].local)
    BY <1>1, <1>2, <1>4, <1>5, NoneOnce
<1>8. Asks' /\ ran' \in Seq(InitFunc) /\ waiting' \in [Name -> Seq(InitFunc)]
    BY AttachAsks
<1>9. OneNumber'
  <2>1. \A b \in DOMAIN bridges' : DOMAIN bridges'[b].local # {} => b \in DOMAIN bridges /\ bridges'[b] = bridges[b]
    <3>1. DOMAIN << >> = {}
        OBVIOUS
    <3> QED
        BY <1>2, <1>4, <1>5, <3>1
  <2>2. OneNumber
      BY DEF IdsInv
  <2> QED
      BY <2>1, <2>2 DEF OneNumber
<1>10. OneTag => RightMovie'
    BY <1>2, <1>4, <1>5 DEF RightMovie, IdsInv
<1> QED
    BY <1>1, <1>4, <1>6, <1>7, <1>8, <1>9, <1>10 DEF IdsInv, IdsTypeOK, BridgeRecord

\* A function that gets a number had none before.
LEMMA NumberKeeps ==
    ASSUME IdsInv, NEW b \in DOMAIN bridges, NEW f \in Func, GetFunctionID(b, f)
    PROVE  IdsInv'
PROOF
<1> DEFINE l == Len(bridges)
           L == Append(bridges[b].local, f)
<1>1. /\ bridges \in Seq(BridgeRecord) /\ l \in Nat /\ DOMAIN bridges = 1..l
      /\ \A c \in DOMAIN bridges : IsInjective(bridges[c].local)
    BY SMTT(30) DEF IdsInv, IdsTypeOK, BridgeRecord
<1>2. \A c \in DOMAIN bridges : bridges[c] \in BridgeRecord
    BY <1>1
<1>3. bridges[b].local \in Seq(Func)
    BY <1>2 DEF BridgeRecord
<1>4. \A c \in DOMAIN bridges : f \notin ToSet(bridges[c].local)
    BY DEF GetFunctionID, Given
<1>5. L \in Seq(Func) /\ IsInjective(L)
    BY <1>1, <1>3, <1>4, AppendOnce
<1>6. bridges' = [bridges EXCEPT ![b].local = L]
    BY DEF GetFunctionID
<1>7. /\ DOMAIN L = 1..(Len(bridges[b].local) + 1) /\ L[Len(bridges[b].local) + 1] = f
      /\ \A i \in 1..Len(bridges[b].local) : L[i] = bridges[b].local[i]
      /\ DOMAIN bridges[b].local = 1..Len(bridges[b].local) /\ Len(bridges[b].local) \in Nat
    BY <1>3
<1> HIDE DEF L, l
<1>8. /\ Len(bridges') = l /\ DOMAIN bridges' = 1..l
      /\ bridges'[b] = [target |-> bridges[b].target, name |-> bridges[b].name, local |-> L]
      /\ \A c \in DOMAIN bridges : c # b => bridges'[c] = bridges[c]
  <2>1. bridges[b] \in [target : Movie, name : Name, local : Seq(Func)]
      BY <1>2 DEF BridgeRecord
  <2>2. bridges'[b] = [bridges[b] EXCEPT !.local = L]
      BY <1>1, <1>6
  <2>3. bridges'[b] = [target |-> bridges[b].target, name |-> bridges[b].name, local |-> L]
      BY <2>1, <2>2
  <2> QED
      BY <1>1, <1>6, <2>3 DEF l
<1>9. bridges'[b] \in BridgeRecord
    BY <1>2, <1>5, <1>8 DEF BridgeRecord
<1>10. bridges' \in Seq(BridgeRecord)
  <2>1. \A c \in 1..l : bridges'[c] \in BridgeRecord
      BY <1>1, <1>2, <1>8, <1>9
  <2>2. bridges' = [c \in 1..l |-> bridges'[c]]
      BY <1>1, <1>6
  <2> QED
      BY <1>1, <2>1, <2>2, SeqDef
<1>11. \A c \in DOMAIN bridges' : IsInjective(bridges'[c].local)
    BY <1>1, <1>5, <1>8
<1>12. \A c \in DOMAIN bridges' :
          /\ bridges'[c].target = bridges[c].target /\ bridges'[c].name = bridges[c].name
          /\ c # b => bridges'[c].local = bridges[c].local
    BY <1>1, <1>8
<1>13. OneTag => RightMovie'
    BY <1>1, <1>8, <1>12 DEF RightMovie, IdsInv
<1>14. \A i \in DOMAIN L : \/ i \in DOMAIN bridges[b].local /\ L[i] = bridges[b].local[i]
                           \/ L[i] = f
    BY <1>7
<1>15. \A c \in DOMAIN bridges : \A i \in DOMAIN bridges[c].local : bridges[c].local[i] # f
    BY <1>4 DEF ToSet
<1>16. OneNumber'
  <2> SUFFICES ASSUME NEW c \in DOMAIN bridges, NEW d \in DOMAIN bridges,
                      NEW i \in DOMAIN bridges'[c].local, NEW j \in DOMAIN bridges'[d].local,
                      bridges'[c].local[i] = bridges'[d].local[j]
               PROVE  c = d /\ i = j
      BY <1>1, <1>8 DEF OneNumber
  <2>1. OneNumber
      BY DEF IdsInv
  <2>2. bridges'[b].local = L
      BY <1>8
  <2>3. CASE c = b /\ d = b
      BY <1>5, <2>2, <2>3 DEF IsInjective
  <2>4. CASE c # b /\ d # b
      BY <1>1, <1>8, <1>12, <2>1, <2>4 DEF OneNumber
  <2>5. CASE c = b /\ d # b
      BY <1>1, <1>8, <1>12, <1>14, <1>15, <2>1, <2>2, <2>5 DEF OneNumber
  <2>6. CASE c # b /\ d = b
      BY <1>1, <1>8, <1>12, <1>14, <1>15, <2>1, <2>2, <2>6 DEF OneNumber
  <2> QED
      BY <2>3, <2>4, <2>5, <2>6
<1>17. UNCHANGED <<active, reports, instances, waiting, asked, ran, reached>>
    BY DEF GetFunctionID
<1>18. Asks'
    BY <1>17 DEF Asks, IdsInv
<1> QED
    BY <1>8, <1>10, <1>11, <1>13, <1>16, <1>17, <1>18 DEF IdsInv, IdsTypeOK, BridgeRecord, l

\* Nothing else that the invariant is about.
LEMMA RestKeeps ==
    ASSUME IdsInv, active' \subseteq Movie, reports' \in [Movie -> 0..Reports],
           UNCHANGED <<bridges, instances, waiting, asked, ran>>,
           reached' = reached \/ reached' \in Func \cup {Nobody}
    PROVE  IdsInv'
PROOF
<1>1. Asks'
    BY DEF IdsInv, Asks
<1>2. OneNumber' /\ (OneTag => RightMovie')
    BY DEF IdsInv, OneNumber, RightMovie
<1>3. IdsTypeOK'
    BY DEF IdsInv, IdsTypeOK
<1> QED
    BY <1>1, <1>2, <1>3 DEF IdsInv

LEMMA IdsInvStep ==
    ASSUME BridgeIdsAssumption, IdsInv, [IdsNext]_idsVars
    PROVE  IdsInv'
PROOF
<1>1. /\ active \subseteq Movie /\ reports \in [Movie -> 0..Reports] /\ Reports \in Nat
      /\ bridges \in Seq(BridgeRecord)
    BY DEF IdsInv, IdsTypeOK, BridgeRecord, BridgeIdsAssumption
<1>2. \A i \in Movie : Document[i].name \in Name
  <2> DEFINE R == [tag : {"object", "embed"}, name : Name]
  <2>1. Document \in Seq(R)
      BY DEF BridgeIdsAssumption
  <2> HIDE DEF R
  <2>2. \A j \in Movie : Document[j] \in R
      BY <2>1 DEF Movie
  <2> QED
      BY <2>2 DEF R
<1>3. ASSUME NEW i \in Movie, Load(i) PROVE IdsInv'
  <2>1. active' \subseteq Movie /\ UNCHANGED <<reports, bridges, instances, waiting, asked, ran, reached>>
      BY <1>1, <1>3 DEF Load
  <2> QED
      BY <1>1, <2>1, RestKeeps
<1>4. ASSUME NEW i \in Movie, BridgeInitialized(i) PROVE IdsInv'
  <2> DEFINE n == Document[i].name
             m == Min(Candidates(n))
  <2>1. /\ i \in active /\ reports' = [reports EXCEPT ![i] = @ + 1] /\ reports[i] < Reports
        /\ UNCHANGED <<active, asked, reached>>
      BY <1>4 DEF BridgeInitialized
  <2>2. reports' \in [Movie -> 0..Reports]
      BY <1>1, <2>1
  <2>3. CASE Candidates(n) # {}
    <3>1. AttachBridge(m, n)
        BY <1>4, <2>3 DEF BridgeInitialized
    <3>2. m \in Movie /\ (OneTag => TakenFor(m, n)) /\ n \in Name
        BY <1>2, <1>1, <2>1, <2>3, RightCandidate
    <3> HIDE DEF n, m
    <3> QED
        BY <2>1, <2>2, <3>1, <3>2, AttachKeeps
  <2>4. CASE Candidates(n) = {}
    <3>1. UNCHANGED <<bridges, instances, waiting, ran>>
        BY <1>4, <2>4 DEF BridgeInitialized
    <3> QED
        BY <1>1, <2>1, <2>2, <3>1, RestKeeps
  <2> QED
      BY <2>3, <2>4
<1>5. ASSUME NEW f \in InitFunc, NEW n \in Name, AddInitializationCallback(f, n) PROVE IdsInv'
  <2>1. /\ Asks' /\ ran' \in Seq(InitFunc) /\ waiting' \in [Name -> Seq(InitFunc)]
        /\ asked' \subseteq InitFunc \X Name
      BY <1>5, AddAsks
  <2>2. UNCHANGED <<active, reports, bridges, instances, reached>>
      BY <1>5 DEF AddInitializationCallback
  <2> QED
      BY <2>1, <2>2 DEF IdsInv, IdsTypeOK, OneNumber, RightMovie
<1>6. ASSUME NEW b \in DOMAIN bridges, NEW f \in Func, GetFunctionID(b, f) PROVE IdsInv'
    BY <1>6, NumberKeeps
<1>7. ASSUME NEW id, InvokeLocalFunction(id) PROVE IdsInv'
  <2>1. UNCHANGED <<active, reports, bridges, instances, waiting, asked, ran>>
      BY <1>7 DEF InvokeLocalFunction
  <2>2. \A b \in DOMAIN bridges : bridges[b].local \in Seq(Func)
    <3>1. \A b \in DOMAIN bridges : bridges[b] \in BridgeRecord
        BY <1>1
    <3> QED
        BY <3>1 DEF BridgeRecord
  <2>3. \A b \in DOMAIN bridges : Found(b, id) \in Func \cup {Nobody}
    <3> TAKE b \in DOMAIN bridges
    <3> DEFINE Has(t) == MakeID(b, t - 1) = id
    <3>1. CASE \E t \in DOMAIN bridges[b].local : Has(t)
      <4>1. PICK t \in DOMAIN bridges[b].local : t = CHOOSE u \in DOMAIN bridges[b].local : Has(u)
          BY <3>1
      <4>2. Found(b, id) = bridges[b].local[t]
          BY <3>1, <4>1 DEF Found
      <4>3. bridges[b].local[t] \in Func
          BY <2>2
      <4> QED
          BY <4>2, <4>3
    <3>2. CASE ~\E t \in DOMAIN bridges[b].local : Has(t)
        BY <3>2 DEF Found
    <3> QED
        BY <3>1, <3>2
  <2>4. reached' \in Func \cup {Nobody}
      BY <1>7, <2>3 DEF InvokeLocalFunction
  <2> QED
      BY <1>1, <2>1, <2>4, RestKeeps
<1>8. CASE UNCHANGED idsVars
    BY <1>1, <1>8, RestKeeps DEF idsVars
<1> QED
    BY <1>3, <1>4, <1>5, <1>6, <1>7, <1>8 DEF IdsNext

LEMMA IdsInvInit ==
    ASSUME BridgeIdsAssumption, IdsInit PROVE IdsInv
PROOF
<1>1. /\ active = {} /\ reports = [i \in Movie |-> 0] /\ bridges = << >>
      /\ instances = [n \in Name |-> NoBridge] /\ waiting = [n \in Name |-> << >>]
      /\ asked = {} /\ ran = << >> /\ reached = Nobody
    BY DEF IdsInit
<1>2. bridges \in Seq(BridgeRecord) /\ Len(bridges) = 0 /\ DOMAIN bridges = {}
    BY <1>1
<1>3. waiting \in [Name -> Seq(InitFunc)] /\ ran \in Seq(InitFunc)
    BY <1>1
<1>4. instances \in [Name -> 0..Len(bridges)] /\ reports \in [Movie -> 0..Reports]
    BY <1>1, <1>2 DEF NoBridge, BridgeIdsAssumption
<1>5. Asks
  <2>1. \A n \in Name : waiting[n] = << >>
      BY <1>1
  <2>2. \A n \in Name : IsInjective(waiting[n]) /\ ToSet(waiting[n]) = {}
      BY <2>1, NoneOnce
  <2>3. IsInjective(ran) /\ ToSet(ran) = {}
      BY <1>1, NoneOnce
  <2> QED
      BY <1>1, <2>2, <2>3 DEF Asks
<1> QED
    BY <1>1, <1>2, <1>3, <1>4, <1>5 DEF IdsInv, IdsTypeOK, OneNumber, RightMovie, BridgeRecord

(***************************************************************************)
(* Callbacks run once, when there is a bridge of their name, and bridges   *)
(* are attached to movies of their names, or to movies of longer names     *)
(* that stand before those, however many movies there are and in whatever  *)
(* order they load, report and are asked for: as long as they are all      *)
(* objects or all embeds (FABridge__bridgeInitialized, attachBridge,       *)
(* addInitializationCallback).                                             *)
(***************************************************************************)
THEOREM BridgesAreAttached ==
    ASSUME BridgeIdsAssumption, OneTag PROVE IdsSpec => [](IdsTypeOK /\ Attached)
PROOF
<1>1. IdsInit => IdsInv
    BY IdsInvInit
<1>2. IdsInv /\ [IdsNext]_idsVars => IdsInv'
    BY IdsInvStep
<1>3. IdsInv => IdsTypeOK /\ Attached
  <2> SUFFICES ASSUME IdsInv PROVE Attached
      BY DEF IdsInv
  <2>1. asked \subseteq InitFunc \X Name
      BY DEF IdsInv, IdsTypeOK
  <2>2. \A c \in asked : c[1] \in ToSet(ran) <=> instances[c[2]] # NoBridge
      BY <2>1 DEF IdsInv, Asks
  <2> QED
      BY <2>2 DEF Attached, CallbackOnce, IdsInv, Asks
<1> QED
    BY <1>1, <1>2, <1>3, PTL DEF IdsSpec

-----------------------------------------------------------------------------
(* Numbers of functions.                                                   *)

LEMMA TimesMonotone ==
    ASSUME NEW a \in Int, NEW b \in Int, NEW w \in Nat, a <= b
    PROVE  a * w <= b * w
PROOF
    OBVIOUS

\* A number is taken apart as it was put together.
LEMMA TakenApart ==
    ASSUME NEW w \in Nat \ {0}, NEW k \in Nat, NEW t \in 0..(w - 1)
    PROVE  (k * w + t) \div w = k
PROOF
<1> DEFINE q == (k * w + t) \div w
<1>1. k * w \in Int /\ k * w + t \in Int /\ q \in Int
    OBVIOUS
<1>2. q * w <= k * w + t /\ k * w + t < q * w + w
    OBVIOUS
<1> HIDE DEF q
<1>3. q * w \in Int /\ (q + 1) * w = q * w + w /\ (k + 1) * w = k * w + w
    BY <1>1
<1>4. ~(q <= k - 1)
  <2> SUFFICES ASSUME q + 1 <= k PROVE FALSE
      BY <1>1
  <2>1. (q + 1) * w <= k * w
      BY <1>1, TimesMonotone
  <2> QED
      BY <1>1, <1>2, <1>3, <2>1
<1>5. ~(k + 1 <= q)
  <2> SUFFICES ASSUME k + 1 <= q PROVE FALSE
      OBVIOUS
  <2>1. (k + 1) * w <= q * w
      BY <1>1, TimesMonotone
  <2> QED
      BY <1>1, <1>2, <1>3, <2>1
<1> QED
    BY <1>1, <1>4, <1>5 DEF q

\* No more functions than a bridge has numbers for.
FewFunctions == IsFiniteSet(Func) /\ Cardinality(Func) <= Width

(***************************************************************************)
(* The number of a function leads to its bridge and there to the function. *)
(***************************************************************************)
LEMMA NumberFound ==
    ASSUME BridgeIdsAssumption, FewFunctions, IdsInv, NEW f \in Given
    PROVE  /\ ExtractBridge(IdOf(f)) \in DOMAIN bridges
           /\ Found(ExtractBridge(IdOf(f)), IdOf(f)) = f
PROOF
<1> DEFINE b == CHOOSE c \in DOMAIN bridges : f \in ToSet(bridges[c].local)
           L == bridges[b].local
           I == {i \in 1..Len(L) : L[i] = f}
           t == SelectInSeq(L, LAMBDA g : g = f)
           id == MakeID(b, t - 1)
<1>1. bridges \in Seq(BridgeRecord) /\ Width \in Nat \ {0}
    BY DEF IdsInv, IdsTypeOK, BridgeRecord, BridgeIdsAssumption
<1>2. \E c \in DOMAIN bridges : f \in ToSet(bridges[c].local)
    BY DEF Given
<1>3. b \in DOMAIN bridges /\ f \in ToSet(L)
    BY <1>2
<1>4. L \in Seq(Func) /\ IsInjective(L) /\ b \in Nat \ {0}
  <2>1. bridges[b] \in BridgeRecord /\ b \in Nat \ {0}
      BY <1>1, <1>3
  <2> QED
      BY <1>3, <2>1 DEF BridgeRecord, IdsInv, IdsTypeOK
<1>5. IdOf(f) = id
    BY DEF IdOf
<1> HIDE DEF b
<1> HIDE DEF L
<1>6. t = IF I # {} THEN Min(I) ELSE 0
    BY DEF SelectInSeq
<1>7. t \in 1..Len(L) /\ L[t] = f
  <2>1. I \in SUBSET Nat
      OBVIOUS
  <2>2. I # {}
    <3>1. PICK i \in DOMAIN L : L[i] = f
        BY <1>3 DEF ToSet
    <3> QED
        BY <1>4, <3>1
  <2>3. t \in I
      BY <1>6, <2>1, <2>2, LeastIsIn
  <2> QED
      BY <2>3
<1> HIDE DEF t, I
<1>8. Len(L) \in Nat /\ Len(L) <= Width
  <2>1. Len(L) \in Nat /\ L \in [1..Len(L) -> Func]
      BY <1>4
  <2>2. L \in Injection(1..Len(L), Func)
      BY <1>4, <2>1 DEF Injection
  <2>3. Cardinality(1..Len(L)) <= Cardinality(Func)
      BY <2>2, FS_Injection DEF FewFunctions
  <2>4. Cardinality(1..Len(L)) = Len(L)
      BY <2>1, FS_Interval, SMTT(30)
  <2>5. Cardinality(Func) \in Nat
      BY FS_CardinalityType DEF FewFunctions
  <2> QED
      BY <1>1, <2>1, <2>3, <2>4, <2>5 DEF FewFunctions
<1>9. id = (b - 1) * Width + (t - 1)
    BY DEF MakeID
<1>10. ExtractBridge(id) = b
  <2>1. b - 1 \in Nat /\ t - 1 \in 0..(Width - 1)
      BY <1>1, <1>4, <1>7, <1>8
  <2>2. ((b - 1) * Width + (t - 1)) \div Width = b - 1
      BY <1>1, <2>1, TakenApart
  <2> QED
      BY <1>4, <1>9, <2>2 DEF ExtractBridge
<1>11. \A u \in 1..Len(L) : MakeID(b, u - 1) = id => u = t
  <2> SUFFICES ASSUME NEW u \in 1..Len(L), (b - 1) * Width + (u - 1) = (b - 1) * Width + (t - 1) PROVE u = t
      BY <1>9 DEF MakeID
  <2>1. (b - 1) * Width \in Int
      BY <1>1, <1>4
  <2> QED
      BY <1>7, <2>1
<1> HIDE DEF id
<1>12. MakeID(b, t - 1) = id
    BY DEF id
<1>13. Found(b, id) = f
  <2>1. DOMAIN L = 1..Len(L) /\ DOMAIN bridges[b].local = DOMAIN L /\ bridges[b].local = L
      BY <1>4 DEF L
  <2>2. (CHOOSE u \in DOMAIN L : MakeID(b, u - 1) = id) = t
      BY <1>7, <1>11, <1>12, <2>1
  <2>3. \E u \in DOMAIN L : MakeID(b, u - 1) = id
      BY <1>7, <1>12, <2>1
  <2>4. Found(b, id) = L[CHOOSE u \in DOMAIN L : MakeID(b, u - 1) = id]
      BY <2>1, <2>3 DEF Found
  <2> QED
      BY <1>7, <2>2, <2>4
<1> QED
    BY <1>3, <1>5, <1>10, <1>13

(***************************************************************************)
(* A call from Flash reaches the function whose number was given away, for *)
(* any number of bridges, unless there are more functions than a bridge    *)
(* has numbers for (makeID, extractBridgeFromID, invokeLocalFunction).     *)
(***************************************************************************)
THEOREM CallsReachFunctions ==
    ASSUME BridgeIdsAssumption, FewFunctions PROVE IdsSpec => CallReaches
PROOF
<1>1. IdsInit => IdsInv
    BY IdsInvInit
<1>2. IdsInv /\ [IdsNext]_idsVars => IdsInv'
    BY IdsInvStep
<1>3. IdsInv => Reaches
  <2> SUFFICES ASSUME IdsInv, NEW f \in Given, InvokeLocalFunction(IdOf(f)) PROVE reached' = f
      BY DEF Reaches
  <2>1. ExtractBridge(IdOf(f)) \in DOMAIN bridges /\ Found(ExtractBridge(IdOf(f)), IdOf(f)) = f
      BY NumberFound
  <2> QED
      BY <2>1 DEF InvokeLocalFunction
<1>4. IdsInv /\ [IdsNext]_idsVars => [Reaches]_idsVars
    BY <1>3
<1> QED
    BY <1>1, <1>2, <1>4, PTL DEF IdsSpec, CallReaches

-----------------------------------------------------------------------------
(* Objects of the bridge.                                                  *)

Waits(o) == \E i \in DOMAIN pending : pending[i].obj = o

\* A description that Flash has sent is known to the page, on its way with an
\* event of its type or an earlier one, or was missed.
Descriptions ==
    /\ described \subseteq known \cup overtaken \cup UnderWay(DOMAIN pending)
    /\ \A i \in DOMAIN pending : TypeOf[pending[i].obj] \in described
    /\ \A i, j \in DOMAIN pending : i < j => TypeOf[pending[i].obj] \notin pending[j].types
    /\ Typed

One(b) == IF b THEN 1 ELSE 0

\* Flash's count is that of the page's references, of the event to be delivered
\* and of what the page never knew of.
Counted ==
    /\ \A i, j \in DOMAIN pending : pending[i].obj = pending[j].obj => i = j
    /\ \A o \in Object : refs[o] = owned[o] + One(Waits(o)) + One(o \in leaked)
    /\ \A o \in Object : o \in alive <=> refs[o] > 0
    /\ \A o \in Event \ sent : owned[o] = 0

ObjInv == ObjectsTypeOK /\ Descriptions /\ Counted

Message(S, T) == [obj : S, types : SUBSET T]

-----------------------------------------------------------------------------
LEMMA ObjectFacts ==
    ASSUME BridgeObjectsAssumption, ObjInv
    PROVE  /\ Event \subseteq Object /\ TypeOf \in [Object -> Type]
           /\ described \subseteq Type /\ alive \subseteq Object /\ sent \subseteq Event
           /\ refs \in [Object -> Nat] /\ owned \in [Object -> Nat]
           /\ known \subseteq described /\ proxy \in [Object -> Type \cup {None, Bare}]
           /\ pending \in Seq(Message(sent, described))
           /\ overtaken \subseteq described /\ leaked \subseteq Object \ Event
           /\ Len(pending) \in Nat /\ DOMAIN pending = 1..Len(pending)
           /\ \A i \in DOMAIN pending :
                 pending[i].obj \in sent /\ pending[i].types \subseteq described
           /\ \A o \in Object : Waits(o) => o \in sent
PROOF
<1>1. pending \in Seq(Message(sent, described)) /\ sent \subseteq Event /\ Event \subseteq Object
    BY DEF ObjInv, ObjectsTypeOK, Message, BridgeObjectsAssumption
<1>2. Len(pending) \in Nat /\ DOMAIN pending = 1..Len(pending)
    BY <1>1
<1>3. \A i \in DOMAIN pending : pending[i] \in Message(sent, described)
    BY <1>1, <1>2
<1>4. \A i \in DOMAIN pending :
         pending[i].obj \in sent /\ pending[i].types \subseteq described
    BY <1>3 DEF Message
<1> QED
    BY <1>1, <1>2, <1>4 DEF ObjInv, ObjectsTypeOK, BridgeObjectsAssumption, Waits

\* A queue of messages stays one if more has been sent and described.
LEMMA MoreSent ==
    ASSUME NEW S, NEW T, NEW U, NEW V, S \subseteq U, T \subseteq V, NEW q \in Seq(Message(S, T))
    PROVE  q \in Seq(Message(U, V))
PROOF
<1>1. Message(S, T) \subseteq Message(U, V)
    BY DEF Message
<1> QED
    BY <1>1, SeqMonotonic

(***************************************************************************)
(* An object that is passed from Flash with a result.                      *)
(***************************************************************************)
LEMMA ReturnKeeps ==
    ASSUME BridgeObjectsAssumption, ObjInv, NEW o \in Object, Return(o)
    PROVE  ObjInv'
PROOF
<1> DEFINE t == TypeOf[o]
<1>1. /\ TypeOf \in [Object -> Type] /\ t \in Type
      /\ described \subseteq Type /\ alive \subseteq Object /\ sent \subseteq Event
      /\ refs \in [Object -> Nat] /\ owned \in [Object -> Nat]
      /\ known \subseteq described /\ proxy \in [Object -> Type \cup {None, Bare}]
      /\ pending \in Seq(Message(sent, described))
      /\ overtaken \subseteq described /\ leaked \subseteq Object \ Event
      /\ \A i \in DOMAIN pending :
            pending[i].obj \in sent /\ pending[i].types \subseteq described
      /\ None \notin Type /\ Bare \notin Type
    BY ObjectFacts DEF BridgeObjectsAssumption
<1>2. /\ o \notin Event
      /\ described' = described \cup {t}
      /\ alive' = alive \cup {o}
      /\ refs' = IF o \in alive THEN refs ELSE [refs EXCEPT ![o] = @ + 1]
      /\ known' = known \cup ({t} \ described)
      /\ proxy' = [proxy EXCEPT ![o] = IF t \in known' THEN t ELSE Bare]
      /\ owned' = [owned EXCEPT ![o] = IF o \in alive THEN @ ELSE 1]
      /\ overtaken' = overtaken \cup UnderWay(DOMAIN pending)
      /\ pending' = pending /\ sent' = sent /\ leaked' = leaked
    BY DEF Return, Describe, KeepRefs, Unpack, NewTypes
<1>3. UnderWay(DOMAIN pending) \subseteq described
    BY <1>1 DEF UnderWay
<1>4. ObjectsTypeOK'
  <2>1. pending' \in Seq(Message(sent', described'))
    <3>1. described \subseteq described' /\ sent \subseteq sent'
        BY <1>2
    <3> QED
        BY <1>1, <1>2, <3>1, MoreSent, SMTT(30)
  <2>2. refs' \in [Object -> Nat] /\ owned' \in [Object -> Nat]
      BY <1>1, <1>2
  <2>3. proxy' \in [Object -> Type \cup {None, Bare}]
      BY <1>1, <1>2
  <2> QED
      BY <1>1, <1>2, <1>3, <2>1, <2>2, <2>3 DEF ObjectsTypeOK, Message
<1>5. Descriptions'
  <2>1. described \subseteq known \cup overtaken \cup UnderWay(DOMAIN pending) /\ Typed
      BY DEF ObjInv, Descriptions
  <2>2. UnderWay(DOMAIN pending)' = UnderWay(DOMAIN pending)
      BY <1>2 DEF UnderWay
  <2>3. described' \subseteq known' \cup overtaken'
      BY <1>2, <2>1
  <2>4. Typed'
    <3> SUFFICES ASSUME NEW p \in Object, proxy'[p] = Bare PROVE TypeOf[p] \in overtaken'
        BY DEF Typed
    <3>1. CASE p = o
      <4>1. t \notin known'
          BY <1>1, <1>2, <3>1
      <4> QED
          BY <1>2, <2>3, <3>1, <4>1
    <3>2. CASE p # o
        BY <1>1, <1>2, <2>1, <3>2 DEF Typed
    <3> QED
        BY <3>1, <3>2
  <2> QED
      BY <1>2, <2>2, <2>3, <2>4 DEF Descriptions, ObjInv
<1>6. Counted'
  <2>1. /\ \A p \in Object : refs[p] = owned[p] + One(Waits(p)) + One(p \in leaked)
        /\ \A p \in Object : p \in alive <=> refs[p] > 0
      BY DEF ObjInv, Counted
  <2>2. \A p : Waits(p)' = Waits(p)
      BY <1>2 DEF Waits
  <2>3. \A b : One(b) \in {0, 1}
      BY DEF One
  <2>4. \A p \in Object : refs'[p] = owned'[p] + One(Waits(p)) + One(p \in leaked)
    <3> TAKE p \in Object
    <3>1. CASE p # o \/ o \in alive
        BY <1>1, <1>2, <2>1, <3>1
    <3>2. CASE p = o /\ o \notin alive
      <4>1. refs[o] = 0 /\ refs'[o] = 1 /\ owned'[o] = 1
          BY <1>1, <1>2, <2>1, <3>2
      <4>2. One(Waits(o)) = 0 /\ One(o \in leaked) = 0
          BY <1>1, <2>1, <2>3, <4>1
      <4> QED
          BY <3>2, <4>1, <4>2
    <3> QED
        BY <3>1, <3>2
  <2>5. \A p \in Object : p \in alive' <=> refs'[p] > 0
      BY <1>1, <1>2, <2>1
  <2>6. \A p \in Event \ sent' : owned'[p] = 0
      BY <1>1, <1>2 DEF ObjInv, Counted, BridgeObjectsAssumption
  <2> QED
      BY <1>2, <2>2, <2>4, <2>5, <2>6 DEF Counted, ObjInv
<1> QED
    BY <1>4, <1>5, <1>6 DEF ObjInv

(***************************************************************************)
(* The same, thrown away by the page.                                      *)
(***************************************************************************)
LEMMA DiscardKeeps ==
    ASSUME BridgeObjectsAssumption, ObjInv, NEW o \in Object, ReturnDiscarded(o)
    PROVE  ObjInv'
PROOF
<1> DEFINE t == TypeOf[o]
<1>1. /\ t \in Type
      /\ described \subseteq Type /\ alive \subseteq Object /\ sent \subseteq Event
      /\ refs \in [Object -> Nat] /\ owned \in [Object -> Nat]
      /\ known \subseteq described /\ proxy \in [Object -> Type \cup {None, Bare}]
      /\ pending \in Seq(Message(sent, described))
      /\ overtaken \subseteq described /\ leaked \subseteq Object \ Event
    BY ObjectFacts
<1>2. /\ o \notin Event
      /\ described' = described \cup {t}
      /\ alive' = alive \cup {o}
      /\ refs' = IF o \in alive THEN refs ELSE [refs EXCEPT ![o] = @ + 1]
      /\ overtaken' = overtaken \cup ({t} \ described)
      /\ leaked' = leaked \cup ({o} \ alive)
      /\ UNCHANGED <<pending, sent, known, proxy, owned>>
    BY DEF ReturnDiscarded, Describe, KeepRefs, NewTypes, inPage
<1>3. ObjectsTypeOK'
  <2>1. described \subseteq described' /\ sent \subseteq sent'
      BY <1>2
  <2>2. pending' \in Seq(Message(sent', described'))
      BY <1>1, <1>2, <2>1, MoreSent
  <2>3. refs' \in [Object -> Nat]
      BY <1>1, <1>2
  <2> QED
      BY <1>1, <1>2, <2>2, <2>3 DEF ObjectsTypeOK, Message
<1>4. Descriptions'
  <2>1. described \subseteq known \cup overtaken \cup UnderWay(DOMAIN pending) /\ Typed
      BY DEF ObjInv, Descriptions
  <2>2. UnderWay(DOMAIN pending)' = UnderWay(DOMAIN pending)
      BY <1>2 DEF UnderWay
  <2>3. Typed'
      BY <1>2, <2>1 DEF Typed
  <2>4. described' \subseteq known' \cup overtaken' \cup UnderWay(DOMAIN pending)'
      BY <1>2, <2>1, <2>2
  <2> QED
      BY <1>2, <2>3, <2>4 DEF Descriptions, ObjInv
<1>5. Counted'
  <2>1. /\ \A p \in Object : refs[p] = owned[p] + One(Waits(p)) + One(p \in leaked)
        /\ \A p \in Object : p \in alive <=> refs[p] > 0
      BY DEF ObjInv, Counted
  <2>2. \A p : Waits(p)' = Waits(p)
      BY <1>2 DEF Waits
  <2>3. /\ \A b : One(b) \in {0, 1}
        /\ \A p \in Object : p \in leaked => One(p \in leaked) = 1
        /\ One(TRUE) = 1
      BY DEF One
  <2>4. \A p \in Object : refs'[p] = owned'[p] + One(Waits(p)) + One(p \in leaked')
    <3> TAKE p \in Object
    <3>1. CASE p # o \/ o \in alive
      <4>1. refs'[p] = refs[p] /\ (p \in leaked' <=> p \in leaked)
          BY <1>1, <1>2, <3>1
      <4>2. One(p \in leaked') = One(p \in leaked)
          BY <4>1 DEF One
      <4> QED
          BY <1>2, <2>1, <4>1, <4>2
    <3>2. CASE p = o /\ o \notin alive
      <4>1. refs[o] = 0 /\ refs'[o] = 1
          BY <1>1, <1>2, <2>1, <3>2
      <4>2. owned[o] = 0 /\ One(Waits(o)) = 0
        <5>1. One(Waits(o)) \in {0, 1} /\ One(o \in leaked) \in {0, 1}
            BY DEF One
        <5>2. 0 = owned[o] + One(Waits(o)) + One(o \in leaked) /\ owned[o] \in Nat
            BY <1>1, <2>1, <4>1
        <5> QED
            BY <5>1, <5>2
      <4>3. One(o \in leaked') = 1
          BY <1>2, <3>2 DEF One
      <4> QED
          BY <1>2, <3>2, <4>1, <4>2, <4>3
    <3> QED
        BY <3>1, <3>2
  <2>5. \A p \in Object : p \in alive' <=> refs'[p] > 0
      BY <1>1, <1>2, <2>1
  <2> QED
      BY <1>2, <2>2, <2>4, <2>5 DEF Counted, ObjInv
<1> QED
    BY <1>3, <1>4, <1>5 DEF ObjInv

(***************************************************************************)
(* An event that is packed for its one listener.                           *)
(***************************************************************************)
LEMMA DispatchKeeps ==
    ASSUME BridgeObjectsAssumption, Listeners = 1, ObjInv, NEW o \in Object, Dispatch(o)
    PROVE  ObjInv'
PROOF
<1> DEFINE t == TypeOf[o]
           m == [obj |-> o, types |-> {t} \ described]
           l == Len(pending)
<1>1. /\ Event \subseteq Object /\ t \in Type
      /\ described \subseteq Type /\ alive \subseteq Object /\ sent \subseteq Event
      /\ refs \in [Object -> Nat] /\ owned \in [Object -> Nat]
      /\ known \subseteq described /\ proxy \in [Object -> Type \cup {None, Bare}]
      /\ pending \in Seq(Message(sent, described)) /\ l \in Nat /\ DOMAIN pending = 1..l
      /\ overtaken \subseteq described /\ leaked \subseteq Object \ Event
      /\ \A i \in DOMAIN pending : pending[i].obj \in sent
    BY ObjectFacts DEF BridgeObjectsAssumption
<1>2. /\ o \in Event /\ o \notin sent
      /\ sent' = sent \cup {o}
      /\ described' = described \cup {t}
      /\ alive' = alive \cup {o}
      /\ refs' = IF o \in alive THEN refs ELSE [refs EXCEPT ![o] = @ + 1]
      /\ UNCHANGED <<known, proxy, owned, overtaken, leaked>>
    BY DEF Dispatch, Describe, KeepRefs, inPage, thrown
<1>3. pending' = Append(pending, m)
  <2> DEFINE none == [i \in 1..(Listeners - 1) |-> [obj |-> o, types |-> {}]]
             q == Append(pending, m)
  <2>1. none = << >>
      OBVIOUS
  <2>2. pending' = q \o none
      BY DEF Dispatch, NewTypes
  <2>3. m \in Message(sent', described')
      BY <1>2 DEF Message
  <2>4. pending \in Seq(Message(sent', described'))
    <3>1. described \subseteq described' /\ sent \subseteq sent'
        BY <1>2
    <3> QED
        BY <1>1, <3>1, MoreSent
  <2>5. q \in Seq(Message(sent', described'))
      BY <2>3, <2>4
  <2> HIDE DEF q, none
  <2>6. q \o << >> = q
      BY <2>5
  <2> QED
      BY <2>1, <2>2, <2>6 DEF q
<1> HIDE DEF m
<1>4. m.obj = o /\ m.types = {t} \ described /\ m \in Message(sent', described')
    BY <1>2 DEF m, Message
<1>5. pending \in Seq(Message(sent', described'))
  <2>1. described \subseteq described' /\ sent \subseteq sent'
      BY <1>2
  <2> QED
      BY <1>1, <2>1, MoreSent
<1>6. /\ pending' \in Seq(Message(sent', described')) /\ DOMAIN pending' = 1..(l + 1)
      /\ pending'[l + 1] = m /\ \A i \in 1..l : pending'[i] = pending[i]
    BY <1>1, <1>3, <1>4, <1>5
<1>7. ObjectsTypeOK'
  <2>1. refs' \in [Object -> Nat]
      BY <1>1, <1>2
  <2> QED
      BY <1>1, <1>2, <1>6, <2>1 DEF ObjectsTypeOK, Message
<1>8. \A i \in DOMAIN pending' : \/ i \in DOMAIN pending /\ pending'[i] = pending[i]
                                 \/ i = l + 1 /\ pending'[i] = m
    BY <1>1, <1>6
<1>9. Descriptions'
  <2>1. /\ described \subseteq known \cup overtaken \cup UnderWay(DOMAIN pending) /\ Typed
        /\ \A i \in DOMAIN pending : TypeOf[pending[i].obj] \in described
        /\ \A i, j \in DOMAIN pending : i < j => TypeOf[pending[i].obj] \notin pending[j].types
      BY DEF ObjInv, Descriptions
  <2>2. UnderWay(DOMAIN pending)' = UnderWay(DOMAIN pending) \cup ({t} \ described)
    <3>1. \A x : x \in UnderWay(DOMAIN pending) <=> \E i \in DOMAIN pending : x \in pending[i].types
        BY DEF UnderWay
    <3>2. \A x : x \in UnderWay(DOMAIN pending)' <=> \E i \in DOMAIN pending' : x \in pending'[i].types
        BY DEF UnderWay
    <3>3. ASSUME NEW x, NEW i \in DOMAIN pending', x \in pending'[i].types
          PROVE  x \in UnderWay(DOMAIN pending) \cup ({t} \ described)
        BY <1>4, <1>8, <3>1, <3>3
    <3>4. ASSUME NEW x, x \in UnderWay(DOMAIN pending) \cup ({t} \ described)
          PROVE  \E i \in DOMAIN pending' : x \in pending'[i].types
      <4>1. CASE x \in UnderWay(DOMAIN pending)
        <5>1. PICK i \in DOMAIN pending : x \in pending[i].types
            BY <3>1, <4>1
        <5>2. i \in DOMAIN pending' /\ pending'[i] = pending[i]
            BY <1>1, <1>6
        <5> QED
            BY <5>1, <5>2
      <4>2. CASE x \in {t} \ described
        <5>1. l + 1 \in DOMAIN pending' /\ x \in pending'[l + 1].types
            BY <1>1, <1>4, <1>6, <4>2
        <5> QED
            BY <5>1
      <4> QED
          BY <3>4, <4>1, <4>2
    <3> QED
        BY <3>2, <3>3, <3>4
  <2>3. Typed'
      BY <1>2, <2>1 DEF Typed
  <2>4. described' \subseteq known' \cup overtaken' \cup UnderWay(DOMAIN pending)'
      BY <1>2, <2>1, <2>2
  <2>5. \A i \in DOMAIN pending' : TypeOf[pending'[i].obj] \in described'
      BY <1>2, <1>4, <1>8, <2>1
  <2>6. \A i, j \in DOMAIN pending' : i < j => TypeOf[pending'[i].obj] \notin pending'[j].types
    <3> SUFFICES ASSUME NEW i \in DOMAIN pending', NEW j \in DOMAIN pending', i < j
                 PROVE  TypeOf[pending'[i].obj] \notin pending'[j].types
        OBVIOUS
    <3>1. i \in DOMAIN pending /\ pending'[i] = pending[i]
        BY <1>1, <1>6
    <3>2. CASE j \in DOMAIN pending /\ pending'[j] = pending[j]
        BY <2>1, <3>1, <3>2
    <3>3. CASE pending'[j] = m
        BY <1>4, <2>1, <3>1, <3>3
    <3> QED
        BY <1>8, <3>2, <3>3
  <2> QED
      BY <2>3, <2>4, <2>5, <2>6 DEF Descriptions
<1>10. Counted'
  <2>1. /\ \A p \in Object : refs[p] = owned[p] + One(Waits(p)) + One(p \in leaked)
        /\ \A p \in Object : p \in alive <=> refs[p] > 0
        /\ \A i, j \in DOMAIN pending : pending[i].obj = pending[j].obj => i = j
        /\ \A p \in Event \ sent : owned[p] = 0
      BY DEF ObjInv, Counted
  <2>2. ~Waits(o)
      BY <1>1, <1>2 DEF Waits
  <2>3. Waits(o)' /\ \A p : p # o => (Waits(p)' <=> Waits(p))
    <3>1. l + 1 \in DOMAIN pending' /\ pending'[l + 1].obj = o
        BY <1>1, <1>4, <1>6
    <3>2. Waits(o)'
        BY <3>1 DEF Waits
    <3>3. ASSUME NEW p, p # o, NEW i \in DOMAIN pending', pending'[i].obj = p
          PROVE  Waits(p)
        BY <1>4, <1>8, <3>3 DEF Waits
    <3>4. ASSUME NEW p, NEW i \in DOMAIN pending, pending[i].obj = p
          PROVE  Waits(p)'
      <4>1. i \in DOMAIN pending' /\ pending'[i] = pending[i]
          BY <1>1, <1>6
      <4> QED
          BY <3>4, <4>1 DEF Waits
    <3> QED
        BY <3>2, <3>3, <3>4 DEF Waits
  <2>4. owned[o] = 0 /\ o \notin leaked
      BY <1>1, <1>2, <2>1
  <2>5. refs[o] = 0 /\ o \notin alive /\ One(o \in leaked) = 0
      BY <1>1, <2>1, <2>2, <2>4 DEF One
  <2>6. \A p \in Object : refs'[p] = owned'[p] + One(Waits(p)') + One(p \in leaked')
    <3> TAKE p \in Object
    <3>1. CASE p = o
      <4>1. refs'[o] = 1 /\ owned'[o] = 0
          BY <1>1, <1>2, <2>4, <2>5
      <4>2. One(Waits(o)') = 1 /\ One(o \in leaked') = 0
          BY <1>2, <2>3, <2>4 DEF One
      <4> QED
          BY <3>1, <4>1, <4>2
    <3>2. CASE p # o
      <4>1. refs'[p] = refs[p] /\ owned'[p] = owned[p] /\ leaked' = leaked
          BY <1>1, <1>2, <3>2
      <4>2. One(Waits(p)') = One(Waits(p))
          BY <2>3, <3>2 DEF One
      <4> QED
          BY <2>1, <4>1, <4>2
    <3> QED
        BY <3>1, <3>2
  <2>7. \A p \in Object : p \in alive' <=> refs'[p] > 0
      BY <1>1, <1>2, <2>1
  <2>8. \A p \in Event \ sent' : owned'[p] = 0
      BY <1>2, <2>1
  <2>9. \A i, j \in DOMAIN pending' : pending'[i].obj = pending'[j].obj => i = j
      BY <1>1, <1>2, <1>4, <1>8, <2>1
  <2> QED
      BY <2>6, <2>7, <2>8, <2>9 DEF Counted
<1> QED
    BY <1>7, <1>9, <1>10 DEF ObjInv

(***************************************************************************)
(* Two sequences put one after the other.                                  *)
(***************************************************************************)
LEMMA Joined ==
    ASSUME NEW S, NEW a \in Seq(S), NEW b \in Seq(S)
    PROVE  /\ a \o b \in Seq(S)
           /\ Len(a \o b) = Len(a) + Len(b)
           /\ \A j \in 1..Len(a) : (a \o b)[j] = a[j]
           /\ \A j \in 1..Len(b) : (a \o b)[Len(a) + j] = b[j]
OBVIOUS

(***************************************************************************)
(* What is left after a message is taken out of the queue.                 *)
(***************************************************************************)
LEMMA TakenOut ==
    ASSUME NEW S, NEW q \in Seq(S), NEW i \in DOMAIN q
    PROVE  /\ RemoveAt(q, i) \in Seq(S)
           /\ DOMAIN RemoveAt(q, i) = 1..(Len(q) - 1)
           /\ \A j \in 1..(Len(q) - 1) : RemoveAt(q, i)[j] = IF j < i THEN q[j] ELSE q[j + 1]
PROOF
<1> DEFINE a == SubSeq(q, 1, i - 1)
           b == SubSeq(q, i + 1, Len(q))
<1>1. Len(q) \in Nat /\ i \in 1..Len(q)
    OBVIOUS
<1>2. a \in Seq(S) /\ Len(a) = i - 1 /\ \A j \in 1..(i - 1) : a[j] = q[j]
    BY <1>1
<1>3. b \in Seq(S) /\ Len(b) = Len(q) - i /\ \A j \in 1..(Len(q) - i) : b[j] = q[i + j]
    BY <1>1
<1>4. RemoveAt(q, i) = a \o b
    BY DEF RemoveAt
<1> HIDE DEF a, b
<1>5. /\ a \o b \in Seq(S) /\ Len(a \o b) = Len(q) - 1 /\ DOMAIN (a \o b) = 1..(Len(q) - 1)
      /\ \A j \in 1..(i - 1) : (a \o b)[j] = a[j]
      /\ \A j \in 1..(Len(q) - i) : (a \o b)[(i - 1) + j] = b[j]
  <2>1. a \in Seq(S) /\ b \in Seq(S)
      BY <1>2, <1>3
  <2>2. /\ a \o b \in Seq(S) /\ Len(a \o b) = Len(a) + Len(b)
        /\ \A j \in 1..Len(a) : (a \o b)[j] = a[j]
        /\ \A j \in 1..Len(b) : (a \o b)[Len(a) + j] = b[j]
    <3>1. \A x \in Seq(S), y \in Seq(S) :
              /\ x \o y \in Seq(S) /\ Len(x \o y) = Len(x) + Len(y)
              /\ \A j \in 1..Len(x) : (x \o y)[j] = x[j]
              /\ \A j \in 1..Len(y) : (x \o y)[Len(x) + j] = y[j]
        BY Joined
    <3> QED
        BY <2>1, <3>1
  <2>3. Len(a) + Len(b) = Len(q) - 1
      BY <1>1, <1>2, <1>3
  <2>4. DOMAIN (a \o b) = 1..Len(a \o b)
      BY <2>2
  <2> QED
      BY <1>2, <1>3, <2>2, <2>3, <2>4
<1>6. ASSUME NEW j \in 1..(Len(q) - 1)
      PROVE  (a \o b)[j] = IF j < i THEN q[j] ELSE q[j + 1]
  <2>1. CASE j < i
    <3>1. j \in 1..(i - 1)
        BY <1>1, <2>1
    <3> QED
        BY <1>2, <1>5, <2>1, <3>1
  <2>2. CASE ~(j < i)
    <3>1. j - i + 1 \in 1..(Len(q) - i) /\ (i - 1) + (j - i + 1) = j /\ i + (j - i + 1) = j + 1
        BY <1>1, <2>2
    <3>2. (a \o b)[j] = b[j - i + 1]
        BY <1>5, <3>1
    <3>3. b[j - i + 1] = q[j + 1]
        BY <1>3, <3>1
    <3> QED
        BY <2>2, <3>2, <3>3
  <2> QED
      BY <2>1, <2>2
<1> QED
    BY <1>4, <1>5, <1>6

(***************************************************************************)
(* An event that is delivered: what it overtakes are the earlier ones.     *)
(***************************************************************************)
LEMMA DeliverKeeps ==
    ASSUME BridgeObjectsAssumption, ObjInv, NEW k \in DOMAIN pending, NEW keep \in BOOLEAN,
           Deliver(k, keep)
    PROVE  ObjInv'
PROOF
<1> DEFINE l == Len(pending)
<1>0. PICK o : o = pending[k].obj
    OBVIOUS
<1> DEFINE t == TypeOf[o]
<1>1. /\ Event \subseteq Object /\ TypeOf \in [Object -> Type]
      /\ described \subseteq Type /\ alive \subseteq Object /\ sent \subseteq Event
      /\ refs \in [Object -> Nat] /\ owned \in [Object -> Nat]
      /\ known \subseteq described /\ proxy \in [Object -> Type \cup {None, Bare}]
      /\ pending \in Seq(Message(sent, described)) /\ l \in Nat /\ DOMAIN pending = 1..l
      /\ overtaken \subseteq described /\ leaked \subseteq Object \ Event
      /\ \A i \in DOMAIN pending : pending[i].obj \in sent /\ pending[i].types \subseteq described
      /\ None \notin Type /\ Bare \notin Type
    BY ObjectFacts DEF BridgeObjectsAssumption
<1>2. o \in sent /\ o \in Object /\ o \in Event /\ t \in Type /\ k \in 1..l
    BY <1>0, <1>1
<1>3. /\ pending' = RemoveAt(pending, k)
      /\ overtaken' = overtaken \cup UnderWay(1..(k - 1))
      /\ known' = known \cup pending[k].types
      /\ proxy' = [proxy EXCEPT ![o] = IF t \in known' THEN t ELSE Bare]
      /\ \/ owned' = [owned EXCEPT ![o] = @ + 1] /\ refs' = refs /\ alive' = alive
         \/ /\ owned' = owned
            /\ refs' = [refs EXCEPT ![o] = IF @ = 0 THEN 0 ELSE @ - 1]
            /\ alive' = IF refs[o] = 1 THEN alive \ {o} ELSE alive
      /\ UNCHANGED <<described, sent, leaked>>
  <2>1. keep \/ ~keep
      OBVIOUS
  <2> QED
      BY <1>0, <2>1 DEF Deliver, Unpack, Released
<1>4. /\ pending' \in Seq(Message(sent, described))
      /\ DOMAIN pending' = 1..(l - 1)
      /\ \A j \in 1..(l - 1) : pending'[j] = IF j < k THEN pending[j] ELSE pending[j + 1]
    BY <1>1, <1>3, TakenOut
<1> HIDE DEF t, l
\* every message that is left was there before, in the same order
<1>5. \A j \in DOMAIN pending' : LET i == IF j < k THEN j ELSE j + 1
                                 IN  i \in DOMAIN pending /\ i # k /\ pending'[j] = pending[i]
    BY <1>1, <1>2, <1>4
<1>6. \A i \in DOMAIN pending : i # k =>
          LET j == IF i < k THEN i ELSE i - 1
          IN  j \in DOMAIN pending' /\ pending'[j] = pending[i]
  <2> TAKE i \in DOMAIN pending
  <2> HAVE i # k
  <2>1. CASE i < k
      BY <1>1, <1>2, <1>4, <2>1
  <2>2. CASE i > k
    <3>1. i - 1 \in 1..(l - 1) /\ ~(i - 1 < k) /\ (i - 1) + 1 = i
        BY <1>1, <1>2, <2>2
    <3> QED
        BY <1>1, <1>2, <1>4, <2>2, <3>1
  <2> QED
      BY <1>1, <1>2, <2>1, <2>2
<1>7. 1..(k - 1) \subseteq DOMAIN pending
    BY <1>1, <1>2
<1>8. \A x : x \in UnderWay(1..(k - 1)) <=> \E i \in 1..(k - 1) : x \in pending[i].types
    BY DEF UnderWay
<1>9. ObjectsTypeOK'
  <2>1. UnderWay(1..(k - 1)) \subseteq described
      BY <1>1, <1>7, <1>8
  <2>2. known' \subseteq described /\ overtaken' \subseteq described
      BY <1>1, <1>3, <2>1
  <2>3. proxy' \in [Object -> Type \cup {None, Bare}]
      BY <1>1, <1>2, <1>3
  <2>4. refs' \in [Object -> Nat] /\ owned' \in [Object -> Nat] /\ alive' \subseteq Object
    <3>1. refs[o] \in Nat /\ owned[o] \in Nat
        BY <1>1, <1>2
    <3>2. (IF refs[o] = 0 THEN 0 ELSE refs[o] - 1) \in Nat /\ owned[o] + 1 \in Nat
        BY <3>1
    <3>3. owned' \in [Object -> Nat]
        BY <1>1, <1>2, <1>3, <3>2
    <3>4. alive' \subseteq Object
        BY <1>1, <1>3
    <3>5. refs' \in [Object -> Nat]
      <4>1. refs' = refs \/ refs' = [refs EXCEPT ![o] = IF refs[o] = 0 THEN 0 ELSE refs[o] - 1]
          BY <1>3
      <4> DEFINE r == IF refs[o] = 0 THEN 0 ELSE refs[o] - 1
      <4>2. r \in Nat /\ (refs' = refs \/ refs' = [refs EXCEPT ![o] = r])
          BY <3>2, <4>1
      <4> HIDE DEF r
      <4>3. refs \in [Object -> Nat]
          BY <1>1
      <4> QED
          BY <4>2, <4>3
    <3> QED
        BY <3>3, <3>4, <3>5
  <2> QED
      BY <1>1, <1>3, <1>4, <2>2, <2>3, <2>4 DEF ObjectsTypeOK, Message
<1>10. Descriptions'
  <2>1. /\ described \subseteq known \cup overtaken \cup UnderWay(DOMAIN pending) /\ Typed
        /\ \A i \in DOMAIN pending : TypeOf[pending[i].obj] \in described
        /\ \A i, j \in DOMAIN pending : i < j => TypeOf[pending[i].obj] \notin pending[j].types
      BY DEF ObjInv, Descriptions
  <2>2. \A x \in described : \/ x \in known \/ x \in overtaken
                             \/ \E i \in DOMAIN pending : x \in pending[i].types
      BY <2>1 DEF UnderWay
  <2>3. ASSUME NEW x \in described, x \notin known', x \notin overtaken'
        PROVE  x \in UnderWay(DOMAIN pending)'
    <3>1. PICK i \in DOMAIN pending : x \in pending[i].types
        BY <1>3, <2>2, <2>3
    <3>2. i # k
        BY <1>3, <2>3, <3>1
    <3>3. PICK j \in DOMAIN pending' : pending'[j] = pending[i]
        BY <1>6, <3>2
    <3> QED
        BY <3>1, <3>3 DEF UnderWay
  <2>4. ASSUME t \notin known' PROVE t \in overtaken'
    <3>1. t \in described
        BY <1>0, <2>1 DEF t
    <3>2. CASE t \in overtaken
        BY <1>3, <3>2
    <3>3. CASE t \notin overtaken
      <4>1. PICK i \in DOMAIN pending : t \in pending[i].types
          BY <1>3, <2>2, <2>4, <3>1, <3>3
      <4>2. i # k
          BY <1>3, <2>4, <4>1
      <4>3. ~(k < i)
          BY <1>0, <2>1, <4>1 DEF t
      <4>4. i \in 1..(k - 1)
          BY <1>1, <1>2, <4>2, <4>3
      <4> QED
          BY <1>3, <1>8, <4>1, <4>4
    <3> QED
        BY <3>2, <3>3
  <2>5. Typed'
    <3> SUFFICES ASSUME NEW p \in Object, proxy'[p] = Bare PROVE TypeOf[p] \in overtaken'
        BY DEF Typed
    <3>1. CASE p = o
      <4>1. t \notin known'
          BY <1>1, <1>2, <1>3, <3>1
      <4> QED
          BY <2>4, <3>1, <4>1 DEF t
    <3>2. CASE p # o
        BY <1>1, <1>2, <1>3, <2>1, <3>2 DEF Typed
    <3> QED
        BY <3>1, <3>2
  <2>6. \A j \in DOMAIN pending' : TypeOf[pending'[j].obj] \in described'
      BY <1>3, <1>5, <2>1
  <2>7. \A i, j \in DOMAIN pending' : i < j => TypeOf[pending'[i].obj] \notin pending'[j].types
    <3> SUFFICES ASSUME NEW i \in DOMAIN pending', NEW j \in DOMAIN pending', i < j
                 PROVE  TypeOf[pending'[i].obj] \notin pending'[j].types
        OBVIOUS
    <3> DEFINE c == IF i < k THEN i ELSE i + 1
               d == IF j < k THEN j ELSE j + 1
    <3>1. c \in DOMAIN pending /\ d \in DOMAIN pending /\ pending'[i] = pending[c] /\ pending'[j] = pending[d]
        BY <1>5
    <3>2. c < d
      <4>1. i \in Int /\ j \in Int /\ k \in Int
          BY <1>2, <1>1, <1>4
      <4> QED
          BY <4>1
    <3> HIDE DEF c, d
    <3> QED
        BY <2>1, <3>1, <3>2
  <2> QED
      BY <1>3, <2>3, <2>5, <2>6, <2>7 DEF Descriptions
<1>11. Counted'
  <2>1. /\ \A p \in Object : refs[p] = owned[p] + One(Waits(p)) + One(p \in leaked)
        /\ \A p \in Object : p \in alive <=> refs[p] > 0
        /\ \A i, j \in DOMAIN pending : pending[i].obj = pending[j].obj => i = j
        /\ \A p \in Event \ sent : owned[p] = 0
      BY DEF ObjInv, Counted
  <2>2. Waits(o)
      BY <1>0 DEF Waits
  <2>3. ~Waits(o)'
    <3> SUFFICES ASSUME NEW j \in DOMAIN pending', pending'[j].obj = o PROVE FALSE
        BY DEF Waits
    <3>1. PICK i \in DOMAIN pending : i # k /\ pending'[j] = pending[i]
        BY <1>5
    <3> QED
        BY <1>0, <2>1, <3>1
  <2>4. ASSUME NEW p, p # o PROVE Waits(p)' <=> Waits(p)
    <3>1. Waits(p)' => Waits(p)
        BY <1>5 DEF Waits
    <3>2. ASSUME NEW i \in DOMAIN pending, pending[i].obj = p PROVE Waits(p)'
      <4>1. i # k
          BY <1>0, <2>4, <3>2
      <4>2. PICK j \in DOMAIN pending' : pending'[j] = pending[i]
          BY <1>6, <4>1
      <4> QED
          BY <3>2, <4>2 DEF Waits
    <3> QED
        BY <3>1, <3>2 DEF Waits
  <2>5. /\ One(Waits(o)) = 1 /\ One(Waits(o)') = 0 /\ One(o \in leaked) = 0
        /\ One(o \in leaked') = 0
      BY <1>1, <1>2, <1>3, <2>2, <2>3 DEF One
  <2>6. refs[o] = owned[o] + 1 /\ owned[o] \in Nat /\ refs[o] \in Nat
      BY <1>1, <1>2, <2>1, <2>5
  <2>7. refs'[o] = owned'[o] /\ (o \in alive' <=> refs'[o] > 0)
    <3>1. CASE owned' = [owned EXCEPT ![o] = @ + 1] /\ refs' = refs /\ alive' = alive
        BY <1>1, <1>2, <2>1, <2>6, <3>1
    <3>2. CASE /\ owned' = owned
               /\ refs' = [refs EXCEPT ![o] = IF @ = 0 THEN 0 ELSE @ - 1]
               /\ alive' = IF refs[o] = 1 THEN alive \ {o} ELSE alive
      <4>1. refs'[o] = refs[o] - 1 /\ owned'[o] = owned[o]
          BY <1>1, <1>2, <2>6, <3>2
      <4>2. o \in alive' <=> refs[o] > 1
          BY <1>1, <1>2, <2>1, <2>6, <3>2
      <4> QED
          BY <2>6, <4>1, <4>2
    <3> QED
        BY <1>3, <3>1, <3>2
  <2>8. \A p \in Object : p # o => refs'[p] = refs[p] /\ owned'[p] = owned[p] /\ (p \in alive' <=> p \in alive)
      BY <1>1, <1>2, <1>3
  <2>9. \A p \in Object : refs'[p] = owned'[p] + One(Waits(p)') + One(p \in leaked')
    <3> TAKE p \in Object
    <3>1. CASE p = o
      <4>1. owned'[o] \in Nat
          BY <1>1, <1>2, <1>3
      <4> QED
        <5>1. refs'[o] = owned'[o] + One(Waits(o)') + One(o \in leaked')
            BY <2>5, <2>7, <4>1
        <5> QED
            BY <3>1, <5>1
    <3>2. CASE p # o
      <4>1. One(Waits(p)') = One(Waits(p)) /\ leaked' = leaked
          BY <1>3, <2>4, <3>2 DEF One
      <4> QED
          BY <2>1, <2>8, <3>2, <4>1
    <3> QED
        BY <3>1, <3>2
  <2>10. \A p \in Object : p \in alive' <=> refs'[p] > 0
      BY <2>1, <2>7, <2>8
  <2>11. \A p \in Event \ sent' : owned'[p] = 0
      BY <1>1, <1>2, <1>3, <2>1, <2>8
  <2>12. \A i, j \in DOMAIN pending' : pending'[i].obj = pending'[j].obj => i = j
    <3> SUFFICES ASSUME NEW i \in DOMAIN pending', NEW j \in DOMAIN pending',
                        pending'[i].obj = pending'[j].obj
                 PROVE  i = j
        OBVIOUS
    <3> DEFINE c == IF i < k THEN i ELSE i + 1
               d == IF j < k THEN j ELSE j + 1
    <3>1. c \in DOMAIN pending /\ d \in DOMAIN pending /\ pending'[i] = pending[c] /\ pending'[j] = pending[d]
        BY <1>5
    <3>2. c = d => i = j
      <4>1. i \in Int /\ j \in Int /\ k \in Int
          BY <1>2, <1>1, <1>4
      <4> QED
          BY <4>1
    <3> HIDE DEF c, d
    <3> QED
        BY <2>1, <3>1, <3>2
  <2> QED
      BY <2>9, <2>10, <2>11, <2>12 DEF Counted
<1> QED
    BY <1>9, <1>10, <1>11 DEF ObjInv

(***************************************************************************)
(* References that the page takes, gives back or uses.                     *)
(***************************************************************************)
LEMMA ReferenceKeeps ==
    ASSUME BridgeObjectsAssumption, ObjInv, NEW o \in Object, AddRef(o) \/ Release(o) \/ Use(o)
    PROVE  ObjInv'
PROOF
<1>1. /\ Event \subseteq Object
      /\ described \subseteq Type /\ alive \subseteq Object /\ sent \subseteq Event
      /\ refs \in [Object -> Nat] /\ owned \in [Object -> Nat] /\ MaxRefs \in Nat
    BY ObjectFacts DEF BridgeObjectsAssumption
<1>2. UNCHANGED <<described, pending, sent, known, proxy, overtaken, leaked>>
    BY DEF AddRef, Release, Use, Released, inPage, thrown
<1>3. /\ \A p \in Object : refs[p] = owned[p] + One(Waits(p)) + One(p \in leaked)
      /\ \A p \in Object : p \in alive <=> refs[p] > 0
      /\ \A p \in Event \ sent : owned[p] = 0
    BY DEF ObjInv, Counted
<1>4. \A p : Waits(p)' = Waits(p)
    BY <1>2 DEF Waits
<1>5. \A p \in Object : One(Waits(p)) \in {0, 1} /\ One(p \in leaked) \in {0, 1}
    BY DEF One
<1>6. refs[o] >= owned[o] /\ refs[o] \in Nat /\ owned[o] \in Nat
    BY <1>1, <1>3, <1>5
<1>7. /\ refs' \in [Object -> Nat] /\ owned' \in [Object -> Nat] /\ alive' \subseteq Object
      /\ refs'[o] - owned'[o] = refs[o] - owned[o]
      /\ \A p \in Object : p # o => refs'[p] = refs[p] /\ owned'[p] = owned[p]
      /\ \A p \in Object : p \in alive' <=> refs'[p] > 0
      /\ owned'[o] > 0 => owned[o] > 0
  <2>1. CASE AddRef(o)
    <3>1. /\ owned[o] > 0
          /\ refs' = [refs EXCEPT ![o] = @ + 1] /\ owned' = [owned EXCEPT ![o] = @ + 1] /\ alive' = alive
        BY <1>1, <2>1 DEF AddRef
    <3> QED
        BY <1>1, <1>3, <1>6, <3>1
  <2>2. CASE Release(o)
    <3>1. /\ owned[o] > 0 /\ owned' = [owned EXCEPT ![o] = @ - 1]
          /\ refs' = [refs EXCEPT ![o] = IF @ = 0 THEN 0 ELSE @ - 1]
          /\ alive' = IF refs[o] = 1 THEN alive \ {o} ELSE alive
        BY <2>2 DEF Release, Released
    <3> QED
        BY <1>1, <1>3, <1>6, <3>1
  <2>3. CASE Use(o)
    <3>1. refs' = refs /\ owned' = owned /\ alive' = IF refs[o] = 0 THEN alive \ {o} ELSE alive
        BY <2>3 DEF Use, inPage
    <3>2. alive' = alive
        BY <1>1, <1>3, <3>1
    <3> QED
        BY <1>1, <1>3, <3>1, <3>2
  <2> QED
      BY <2>1, <2>2, <2>3
<1>8. ObjectsTypeOK'
    BY <1>2, <1>7 DEF ObjectsTypeOK, ObjInv
<1>9. Descriptions'
    BY <1>2 DEF Descriptions, ObjInv, UnderWay, Typed
<1>10. Counted'
  <2>1. \A p \in Object : refs'[p] = owned'[p] + One(Waits(p)) + One(p \in leaked)
    <3> TAKE p \in Object
    <3>1. CASE p = o
      <4>1. refs'[o] \in Nat /\ owned'[o] \in Nat
          BY <1>7
      <4> QED
          BY <1>3, <1>5, <1>6, <1>7, <3>1, <4>1
    <3>2. CASE p # o
        BY <1>3, <1>7, <3>2
    <3> QED
        BY <3>1, <3>2
  <2>2. \A p \in Event \ sent' : owned'[p] = 0
    <3> TAKE p \in Event \ sent'
    <3>1. owned[p] = 0 /\ p \in Object /\ owned'[p] \in Nat
        BY <1>1, <1>2, <1>3, <1>7
    <3> QED
        BY <1>7, <3>1
  <2> QED
      BY <1>2, <1>4, <1>7, <2>1, <2>2 DEF Counted, ObjInv
<1> QED
    BY <1>8, <1>9, <1>10 DEF ObjInv

LEMMA ObjInvInit ==
    ASSUME BridgeObjectsAssumption, ObjectsInit PROVE ObjInv
PROOF
<1>1. /\ described = {} /\ alive = {} /\ pending = << >> /\ sent = {}
      /\ refs = [o \in Object |-> 0] /\ known = {} /\ proxy = [o \in Object |-> None]
      /\ owned = [o \in Object |-> 0] /\ overtaken = {} /\ leaked = {}
    BY DEF ObjectsInit
<1>2. pending \in Seq([obj : sent, types : SUBSET described]) /\ DOMAIN pending = {}
    BY <1>1
<1>3. \A o : One(Waits(o)) = 0 /\ One(o \in leaked) = 0
    BY <1>1, <1>2 DEF One, Waits
<1>4. \A o \in Object : proxy[o] # Bare
    BY <1>1 DEF None, Bare
<1>5. ObjectsTypeOK
    BY <1>1, <1>2 DEF ObjectsTypeOK
<1>6. Descriptions
    BY <1>1, <1>2, <1>4 DEF Descriptions, Typed
<1>7. Counted
    BY <1>1, <1>2, <1>3, BridgeObjectsAssumption DEF Counted, BridgeObjectsAssumption
<1> QED
    BY <1>5, <1>6, <1>7 DEF ObjInv

LEMMA ObjInvStep ==
    ASSUME BridgeObjectsAssumption, Listeners = 1, ObjInv, [ObjectsNext]_objectsVars
    PROVE  ObjInv'
PROOF
<1>1. CASE UNCHANGED objectsVars
  <2>1. UNCHANGED <<described, alive, refs, pending, sent, known, proxy, owned, overtaken, leaked>>
      BY <1>1 DEF objectsVars, inFlash, inPage, thrown
  <2>2. ObjectsTypeOK'
      BY <2>1 DEF ObjectsTypeOK, ObjInv
  <2>3. Descriptions'
      BY <2>1 DEF Descriptions, ObjInv, UnderWay, Typed
  <2>4. Counted'
      BY <2>1 DEF Counted, ObjInv, Waits
  <2> QED
      BY <2>2, <2>3, <2>4 DEF ObjInv
<1> QED
    BY <1>1, ReturnKeeps, DiscardKeeps, DispatchKeeps, DeliverKeeps, ReferenceKeeps DEF ObjectsNext

(***************************************************************************)
(* Proxies have the methods of their type unless its description was       *)
(* thrown away or overtaken, what is used or still to be delivered is not  *)
(* freed, and what nobody refers to is: for any objects, types and orders  *)
(* of delivery, if an event has one listener, as web_socket.js adds it     *)
(* (serialize, incRef, releaseRef).                                        *)
(***************************************************************************)
THEOREM ObjectsAreKept ==
    ASSUME BridgeObjectsAssumption, Listeners = 1
    PROVE  ObjectsSpec => [](ObjectsTypeOK /\ ObjectsKept)
PROOF
<1>1. ObjectsInit => ObjInv
    BY ObjInvInit
<1>2. ObjInv /\ [ObjectsNext]_objectsVars => ObjInv'
    BY ObjInvStep
<1>3. ObjInv => ObjectsTypeOK /\ ObjectsKept
  <2> SUFFICES ASSUME ObjInv PROVE ObjectsTypeOK /\ ObjectsKept
      OBVIOUS
  <2>1. /\ refs \in [Object -> Nat] /\ owned \in [Object -> Nat]
        /\ \A o \in Object : refs[o] = owned[o] + One(Waits(o)) + One(o \in leaked)
        /\ \A o \in Object : o \in alive <=> refs[o] > 0
      BY DEF ObjInv, ObjectsTypeOK, Counted
  <2>2. \A o : /\ One(Waits(o)) = IF Waits(o) THEN 1 ELSE 0
               /\ One(o \in leaked) = IF o \in leaked THEN 1 ELSE 0
      BY DEF One
  <2>3. \A o \in Object : Referred(o) <=> owned[o] > 0 \/ Waits(o)
      BY DEF Referred, Waits
  <2>4. InUse /\ NoLeak
      BY <2>1, <2>2, <2>3 DEF InUse, NoLeak
  <2> QED
      BY <2>4 DEF ObjInv, Descriptions, ObjectsKept
<1> QED
    BY <1>1, <1>2, <1>3, PTL DEF ObjectsSpec
=============================================================================
