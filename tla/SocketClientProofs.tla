------------------------- MODULE SocketClientProofs -------------------------
(***************************************************************************)
(* Theorems about webmq.js on WebSockets, for any number of calls, faults  *)
(* and destinations, and for both kinds of WebSocket: that each call is    *)
(* accounted for, that one socket at most is alive, that no listener is    *)
(* deaf once the client is quiet, and that a closed client rests.          *)
(***************************************************************************)
EXTENDS SocketClientProperties, SequenceTheorems, FiniteSetTheorems, TLAPS

-----------------------------------------------------------------------------
(* The inductive invariant.                                                *)

Command_ == [n : Call, type : {"publish", "subscibe", "unSubscibe", "close"},
             dests : SUBSET Dest]

Socket == [ready : {"connecting", "open", "closing", "closed"}, id : PageId,
           dests : SUBSET Dest, served : {"no", "yes", "done"}, page : PageId,
           up : Seq(Command_), down : Seq(PageId)]

\* There is always a socket, and what is sent on it is a command.
Sockets ==
    /\ socks \in Seq(Socket) /\ socks # << >>
    /\ waiting \subseteq Command_

\* A socket the server has not seen has no page and nothing under way; one that
\* it serves has a page.
Proper(r) ==
    /\ r.served = "no" =>
          r.page = NoId /\ r.up = << >> /\ r.down = << >> /\ r.ready # "open"
    /\ r.served = "yes" => r.page # NoId

\* The close command is sent by close(), which sets closed.
Tame(r, c) == \A i \in DOMAIN r.up : r.up[i].type = "close" => c

Orderly ==
    /\ \A s \in DOMAIN socks : Proper(socks[s]) /\ Tame(socks[s], closed)
    /\ \A w \in waiting : w.type = "close" => closed

\* Each call is on a socket, or waits in one interval, or has thrown.
Waits(n) == {w \in waiting : w.n = n}

OneFate(n) ==
    \/ sent[n] = 1 /\ Waits(n) = {} /\ n \notin refused
    \/ sent[n] = 0 /\ (\E w \in waiting : Waits(n) = {w}) /\ n \notin refused
    \/ sent[n] = 0 /\ Waits(n) = {} /\ n \in refused

Fates ==
    /\ \A n \in 1..calls : OneFate(n)
    /\ \A n \in Call : n > calls => sent[n] = 0
    /\ \A w \in waiting : w.n <= calls

\* The socket in use, if the client is not closed nor the socket lost
Latest == socks[ws]
Alive == ~closed /\ Latest.ready \in {"connecting", "open"}

\* The page id the client has is that of its socket, or on its way.
Known ==
    Alive =>
      /\ Latest.served = "no" => Latest.id = GetPageId
      /\ Latest.served = "yes" =>
            /\ Here \in DOMAIN subs
            /\ \/ Latest.down = <<Here>>
               \/ Latest.down = << >> /\ GetPageId = Here

\* How the server has been told, or will be, of a destination
Asks(c, d) == c.type = "subscibe" /\ d \in c.dests

Told(d) ==
    \/ Latest.served = "no" /\ d \in Latest.dests
    \/ \E w \in waiting : Asks(w, d)
    \/ /\ Latest.served = "yes"
       /\ \/ \E i \in DOMAIN Latest.up : Asks(Latest.up[i], d)
          \/ Here \in DOMAIN subs /\ d \in subs[Here]

Heard ==
    Alive /\ Latest.served # "done" => \A d \in listeners \ undone : Told(d)

IInv ==
    /\ TypeOK /\ Sockets /\ OneSocket /\ Orderly /\ Fates /\ Known /\ Heard

-----------------------------------------------------------------------------
(* What a step does to the sockets.                                        *)

\* Socket s is r after the step, and the others are what they were.
Only(s, r) ==
    /\ socks' \in Seq(Socket) /\ ws' = ws
    /\ socks'[s] = r
    /\ \A t \in 1..ws : t # s => socks'[t] = socks[t]

\* The last socket is r after the step, and a fresh one follows it.
Another(r) ==
    /\ socks' \in Seq(Socket) /\ ws' = ws + 1
    /\ socks'[ws] = r
    /\ socks'[ws + 1] = Fresh(GetPageId, CollectDestinations)
    /\ \A t \in 1..ws : t # ws => socks'[t] = socks[t]

LEMMA Numbers ==
    ASSUME Sockets
    PROVE  ws \in Nat \ {0} /\ DOMAIN socks = 1..ws /\ Latest \in Socket
           /\ \A s \in 1..ws : socks[s] \in Socket
PROOF
<1>1. socks \in Seq(Socket) /\ socks # << >>
    BY DEF Sockets
<1>2. Len(socks) \in Nat /\ DOMAIN socks = 1..Len(socks)
      /\ \A s \in 1..Len(socks) : socks[s] \in Socket
    BY ONLY <1>1
<1>3. Len(socks) # 0
    BY ONLY <1>1, EmptySeq
<1> QED
    BY <1>2, <1>3 DEF ws, Latest

LEMMA SetSocket ==
    ASSUME Sockets, NEW s \in 1..ws, NEW r \in Socket,
           socks' = [socks EXCEPT ![s] = r]
    PROVE  Only(s, r)
PROOF
<1>1. socks \in Seq(Socket) /\ s \in 1..Len(socks)
    BY DEF Sockets, ws
<1>2. [socks EXCEPT ![s] = r] \in Seq(Socket)
      /\ Len([socks EXCEPT ![s] = r]) = Len(socks)
    BY <1>1, ExceptSeq
<1> QED
    BY <1>1, <1>2 DEF Only, ws

LEMMA AddSocket ==
    ASSUME Sockets, NEW r \in Socket, Fresh(GetPageId, CollectDestinations) \in Socket,
           socks' = Append([socks EXCEPT ![ws] = r], Fresh(GetPageId, CollectDestinations))
    PROVE  Another(r)
PROOF
<1> DEFINE f == Fresh(GetPageId, CollectDestinations)
           l == [socks EXCEPT ![ws] = r]
<1>1. socks \in Seq(Socket) /\ ws \in 1..Len(socks) /\ ws \in Nat
    BY Numbers DEF Sockets, ws
<1>2. l \in Seq(Socket) /\ Len(l) = ws
    BY <1>1, ExceptSeq DEF ws
<1>3. l[ws] = r /\ \A t \in 1..ws : t # ws => l[t] = socks[t]
    BY <1>1
<1>4. f \in Socket /\ socks' = Append(l, f)
    OBVIOUS
<1> HIDE DEF l, f
<1>5. /\ Append(l, f) \in Seq(Socket) /\ Len(Append(l, f)) = ws + 1
      /\ \A t \in 1..ws : Append(l, f)[t] = l[t]
      /\ Append(l, f)[ws + 1] = f
    BY <1>1, <1>2, <1>4, AppendProperties
<1>6. ws' = ws + 1
    BY <1>4, <1>5 DEF ws
<1> QED
    BY <1>1, <1>3, <1>4, <1>5, <1>6 DEF Another, f

\* The kinds of change.
LEMMA SocketFields ==
    ASSUME NEW r \in Socket
    PROVE  /\ \A x \in {"connecting", "open", "closing", "closed"} :
                [r EXCEPT !.ready = x] \in Socket
           /\ \A x \in Seq(Command_) : [r EXCEPT !.up = x] \in Socket
           /\ \A x \in Seq(PageId) : [r EXCEPT !.down = x] \in Socket
           /\ \A x \in {"no", "yes", "done"} : [r EXCEPT !.served = x] \in Socket
           /\ \A x \in PageId : [r EXCEPT !.page = x] \in Socket
PROOF
    BY DEF Socket

LEMMA FreshIsSocket ==
    ASSUME NEW i \in PageId, NEW D \in SUBSET Dest
    PROVE  Fresh(i, D) \in Socket
PROOF
<1>1. NoId \in PageId
    BY DEF NoId, PageId
<1>2. << >> \in Seq(Command_) /\ << >> \in Seq(PageId)
    OBVIOUS
<1> QED
    BY <1>1, <1>2 DEF Fresh, Socket

LEMMA SetUp ==
    ASSUME Sockets, NEW s \in 1..ws, NEW u \in Seq(Command_),
           socks' = [socks EXCEPT ![s].up = u]
    PROVE  Only(s, [socks[s] EXCEPT !.up = u])
PROOF
<1>1. [socks[s] EXCEPT !.up = u] \in Socket
    BY Numbers, SocketFields
<1>2. socks' = [socks EXCEPT ![s] = [socks[s] EXCEPT !.up = u]]
    OBVIOUS
<1> QED
    BY <1>1, <1>2, SetSocket

LEMMA SetReady ==
    ASSUME Sockets, NEW s \in 1..ws,
           NEW x \in {"connecting", "open", "closing", "closed"},
           socks' = [socks EXCEPT ![s].ready = x]
    PROVE  Only(s, [socks[s] EXCEPT !.ready = x])
PROOF
<1>1. [socks[s] EXCEPT !.ready = x] \in Socket
    BY Numbers, SocketFields
<1>2. socks' = [socks EXCEPT ![s] = [socks[s] EXCEPT !.ready = x]]
    OBVIOUS
<1> QED
    BY <1>1, <1>2, SetSocket

LEMMA SetDown ==
    ASSUME Sockets, NEW s \in 1..ws, NEW u \in Seq(PageId),
           socks' = [socks EXCEPT ![s].down = u]
    PROVE  Only(s, [socks[s] EXCEPT !.down = u])
PROOF
<1>1. [socks[s] EXCEPT !.down = u] \in Socket
    BY Numbers, SocketFields
<1>2. socks' = [socks EXCEPT ![s] = [socks[s] EXCEPT !.down = u]]
    OBVIOUS
<1> QED
    BY <1>1, <1>2, SetSocket

\* Put(c): connection.send on an open socket.
Put(c) == [Latest EXCEPT !.up = Append(@, c)]

LEMMA PutSocket ==
    ASSUME Sockets, NEW c \in Command_
    PROVE  /\ Put(c) \in Socket
           /\ Put(c).ready = Latest.ready /\ Put(c).served = Latest.served
           /\ Put(c).id = Latest.id /\ Put(c).page = Latest.page
           /\ Put(c).dests = Latest.dests /\ Put(c).down = Latest.down
           /\ DOMAIN Put(c).up = 1..(Len(Latest.up) + 1)
           /\ DOMAIN Latest.up = 1..Len(Latest.up) /\ Len(Latest.up) \in Nat
           /\ \A i \in DOMAIN Latest.up : Put(c).up[i] = Latest.up[i]
           /\ Put(c).up[Len(Latest.up) + 1] = c
PROOF
<1> DEFINE u == Append(Latest.up, c)
<1>1. Latest \in Socket /\ Latest.up \in Seq(Command_)
    BY Numbers DEF Socket
<1>2. /\ u \in Seq(Command_) /\ Len(u) = Len(Latest.up) + 1
      /\ \A i \in 1..Len(Latest.up) : u[i] = Latest.up[i]
      /\ u[Len(Latest.up) + 1] = c
    BY <1>1, AppendProperties
<1>3. Put(c) = [Latest EXCEPT !.up = u]
    BY DEF Put
<1>4. DOMAIN Latest.up = 1..Len(Latest.up) /\ Len(Latest.up) \in Nat
    BY <1>1
<1> HIDE DEF u
<1>5. Put(c) \in Socket
  <2>1. \A x \in Seq(Command_) : [Latest EXCEPT !.up = x] \in Socket
      BY ONLY <1>1, SocketFields
  <2> QED
      BY ONLY <1>2, <1>3, <2>1
<1>6. /\ Put(c).ready = Latest.ready /\ Put(c).served = Latest.served
      /\ Put(c).id = Latest.id /\ Put(c).page = Latest.page
      /\ Put(c).dests = Latest.dests /\ Put(c).down = Latest.down
      /\ Put(c).up = u
    BY <1>1, <1>3 DEF Socket
<1>7. DOMAIN u = 1..(Len(Latest.up) + 1)
    BY <1>2
<1> QED
    BY <1>2, <1>4, <1>5, <1>6, <1>7

LEMMA PutEffect ==
    ASSUME Sockets, NEW c \in Command_, socks' = [socks EXCEPT ![ws].up = Append(@, c)]
    PROVE  Only(ws, Put(c))
PROOF
<1>1. ws \in 1..ws /\ Put(c) \in Socket
    BY Numbers, PutSocket
<1>2. socks' = [socks EXCEPT ![ws] = Put(c)]
    BY DEF Put, Latest
<1> QED
    BY <1>1, <1>2, SetSocket

\* Accepted(s), Received(s): socket s when the server has upgraded it, and when
\* the server has read a frame of it.
Accepted(s) ==
    [socks[s] EXCEPT !.served = "yes", !.page = Lookup(socks[s].id),
        !.down = IF IsNew(socks[s].id) THEN <<Lookup(socks[s].id)>> ELSE << >>]

Received(s) ==
    [socks[s] EXCEPT
        !.up = IF Head(@).type = "close" THEN << >> ELSE Tail(@),
        !.served = IF Head(socks[s].up).type = "close" THEN "done" ELSE @]

LEMMA AcceptedEffect ==
    ASSUME Sockets, NEW s \in 1..ws, ServerAccepts(s), Lookup(socks[s].id) \in PageId
    PROVE  /\ Only(s, Accepted(s))
           /\ Accepted(s).ready = socks[s].ready /\ Accepted(s).served = "yes"
           /\ Accepted(s).page = Lookup(socks[s].id)
           /\ Accepted(s).up = socks[s].up
           /\ Accepted(s).down = IF IsNew(socks[s].id) THEN <<Lookup(socks[s].id)>>
                                                       ELSE << >>
PROOF
<1> DEFINE p == Lookup(socks[s].id)
           l == IF IsNew(socks[s].id) THEN <<p>> ELSE << >>
<1>1. socks[s] \in Socket /\ l \in Seq(PageId) /\ p \in PageId
    BY Numbers
<1>2. socks' = [socks EXCEPT ![s] = Accepted(s)]
    BY DEF ServerAccepts, Accepted
<1>3. Accepted(s) = [socks[s] EXCEPT !.served = "yes", !.page = p, !.down = l]
    BY DEF Accepted
<1> HIDE DEF p, l
<1>4. /\ Accepted(s) \in Socket
      /\ Accepted(s).ready = socks[s].ready /\ Accepted(s).served = "yes"
      /\ Accepted(s).page = p /\ Accepted(s).up = socks[s].up /\ Accepted(s).down = l
    BY ONLY <1>1, <1>3 DEF Socket
<1>5. Only(s, Accepted(s))
    BY <1>2, <1>4, SetSocket
<1> QED
    BY ONLY <1>4, <1>5 DEF p, l

LEMMA ReceivedEffect ==
    ASSUME Sockets, NEW s \in 1..ws, ServerReceives(s)
    PROVE  /\ Only(s, Received(s))
           /\ socks[s].up \in Seq(Command_) /\ Head(socks[s].up) \in Command_
           /\ Head(socks[s].up) = socks[s].up[1] /\ 1 \in DOMAIN socks[s].up
           /\ Received(s).ready = socks[s].ready
           /\ Received(s).page = socks[s].page
           /\ Received(s).down = socks[s].down
           /\ Head(socks[s].up).type = "close" =>
                 Received(s).up = << >> /\ Received(s).served = "done"
           /\ Head(socks[s].up).type # "close" =>
                 /\ Received(s).served = socks[s].served
                 /\ \A i \in DOMAIN Received(s).up :
                       i + 1 \in DOMAIN socks[s].up
                       /\ Received(s).up[i] = socks[s].up[i + 1]
                 /\ \A i \in DOMAIN socks[s].up :
                       i # 1 => \E j \in DOMAIN Received(s).up :
                                   Received(s).up[j] = socks[s].up[i]
PROOF
<1> DEFINE q == socks[s].up
           c == Head(q)
           u == IF c.type = "close" THEN << >> ELSE Tail(q)
           v == IF c.type = "close" THEN "done" ELSE socks[s].served
<1>1. /\ socks[s] \in Socket /\ q \in Seq(Command_) /\ q # << >>
      /\ socks[s].served \in {"no", "yes", "done"}
    BY Numbers DEF ServerReceives, Socket
<1>2. /\ c \in Command_ /\ c = q[1] /\ 1 \in DOMAIN q
      /\ Len(q) \in Nat /\ DOMAIN q = 1..Len(q)
    BY ONLY <1>1
<1>3. /\ Tail(q) \in Seq(Command_) /\ Len(Tail(q)) = Len(q) - 1
      /\ \A i \in 1..Len(Tail(q)) : Tail(q)[i] = q[i + 1]
    BY ONLY <1>1, HeadTailProperties
<1>4. DOMAIN Tail(q) = 1..(Len(q) - 1)
    BY ONLY <1>3
<1>5. socks' = [socks EXCEPT ![s] = Received(s)]
    BY DEF ServerReceives, Received
<1>6. Received(s) = [socks[s] EXCEPT !.up = u, !.served = v]
    BY DEF Received
<1>7. u \in Seq(Command_) /\ v \in {"no", "yes", "done"}
    BY ONLY <1>1, <1>3
<1>8. c.type # "close" =>
         /\ \A i \in DOMAIN u : i + 1 \in DOMAIN q /\ u[i] = q[i + 1]
         /\ \A i \in DOMAIN q : i # 1 => \E j \in DOMAIN u : u[j] = q[i]
  <2> SUFFICES ASSUME c.type # "close"
               PROVE  /\ \A i \in DOMAIN u : i + 1 \in DOMAIN q /\ u[i] = q[i + 1]
                      /\ \A i \in DOMAIN q : i # 1 => \E j \in DOMAIN u : u[j] = q[i]
      OBVIOUS
  <2>1. u = Tail(q)
      OBVIOUS
  <2> HIDE DEF u, c
  <2>2. \A i \in DOMAIN u : i + 1 \in DOMAIN q /\ u[i] = q[i + 1]
      BY ONLY <1>2, <1>3, <1>4, <2>1
  <2>3. ASSUME NEW i \in DOMAIN q, i # 1
        PROVE  \E j \in DOMAIN u : u[j] = q[i]
    <3>1. i - 1 \in DOMAIN u /\ (i - 1) + 1 = i
        BY ONLY <1>2, <1>4, <2>1, <2>3
    <3>2. u[i - 1] = q[i]
        BY ONLY <2>2, <3>1
    <3> QED
        BY ONLY <3>1, <3>2
  <2> QED
      BY ONLY <2>2, <2>3
<1>9. c.type = "close" => u = << >> /\ v = "done"
    OBVIOUS
<1>10. c.type # "close" => v = socks[s].served
    OBVIOUS
<1> HIDE DEF u, v, c
<1>11. /\ Received(s) \in Socket
       /\ Received(s).ready = socks[s].ready /\ Received(s).page = socks[s].page
       /\ Received(s).down = socks[s].down
       /\ Received(s).up = u /\ Received(s).served = v
    BY ONLY <1>1, <1>6, <1>7 DEF Socket
<1>12. Only(s, Received(s))
    BY <1>5, <1>11, SetSocket
<1> QED
    BY ONLY <1>1, <1>2, <1>8, <1>9, <1>10, <1>11, <1>12 DEF c

LEMMA BrokenSocket ==
    ASSUME Sockets, NEW s \in 1..ws, NEW k \in 0..Len(socks[s].up),
           NEW x \in {"closing", "closed"}
    PROVE  /\ Broken(s, k, x) \in Socket
           /\ Broken(s, k, x).ready = x /\ Broken(s, k, x).down = << >>
           /\ Broken(s, k, x).page = socks[s].page
           /\ \/ Broken(s, k, x).served = "done"
              \/ Broken(s, k, x).served = "yes" /\ socks[s].served = "yes"
           /\ \A i \in DOMAIN Broken(s, k, x).up :
                 i \in DOMAIN socks[s].up /\ Broken(s, k, x).up[i] = socks[s].up[i]
PROOF
<1> DEFINE q == socks[s].up
           u == IF socks[s].served = "yes" THEN SubSeq(q, 1, k) ELSE << >>
           v == IF socks[s].served = "yes" /\ k > 0 THEN "yes" ELSE "done"
           r == Broken(s, k, x)
<1>1. socks[s] \in Socket /\ q \in Seq(Command_)
    BY Numbers DEF Socket
<1>2. Len(q) \in Nat /\ DOMAIN q = 1..Len(q) /\ k \in Nat /\ k <= Len(q)
    BY ONLY <1>1, k \in 0..Len(q)
<1>3. /\ SubSeq(q, 1, k) \in Seq(Command_)
      /\ Len(SubSeq(q, 1, k)) = k
      /\ \A i \in 1..k : SubSeq(q, 1, k)[i] = q[i]
  <2>1. \A i \in 1..k : q[i] \in Command_
      BY ONLY <1>1, <1>2
  <2>2. /\ SubSeq(q, 1, k) \in Seq(Command_)
        /\ Len(SubSeq(q, 1, k)) = IF 1 <= k THEN k - 1 + 1 ELSE 0
        /\ \A i \in 1..(k - 1 + 1) : SubSeq(q, 1, k)[i] = q[1 + i - 1]
      BY ONLY <1>2, <2>1, SubSeqProperties
  <2> QED
      BY ONLY <1>2, <2>2
<1>4. DOMAIN SubSeq(q, 1, k) = 1..k
    BY ONLY <1>3
<1>5. /\ u \in Seq(Command_)
      /\ \A i \in DOMAIN u : i \in DOMAIN q /\ u[i] = q[i]
  <2>1. CASE socks[s].served = "yes"
      BY ONLY <1>2, <1>3, <1>4, <2>1
  <2>2. CASE socks[s].served # "yes"
      BY ONLY <2>2
  <2> QED
      BY ONLY <2>1, <2>2
<1>6. v = "done" \/ (v = "yes" /\ socks[s].served = "yes")
    OBVIOUS
<1>7. r = [socks[s] EXCEPT !.ready = x, !.down = << >>, !.up = u, !.served = v]
    BY DEF Broken
<1>8. << >> \in Seq(PageId) /\ x \in {"connecting", "open", "closing", "closed"}
    OBVIOUS
<1> HIDE DEF u, v, r
<1>9. r \in Socket /\ r.ready = x /\ r.down = << >> /\ r.up = u /\ r.served = v
      /\ r.page = socks[s].page
    BY ONLY <1>1, <1>5, <1>6, <1>7, <1>8 DEF Socket
<1> QED
    BY ONLY <1>5, <1>6, <1>9 DEF r

-----------------------------------------------------------------------------
(* The server: what Listen, Command and the expiries do to its pages.      *)

LEMMA FoundPage ==
    ASSUME ServerTypeOK, NEW i \in PageId
    PROVE  /\ Lookup(i) \in PageId /\ Lookup(i) # NoId
           /\ ~IsNew(i) => Lookup(i) = i /\ Lookup(i) \in DOMAIN subs
                           /\ Lookup(i)[1] \in sessions
           /\ IsNew(i) => Lookup(i) \notin DOMAIN subs
           /\ Lookup(i)[1] \in sessions \/ Lookup(i)[1] = created + 1
           /\ IsNew(i) => Lookup(i)[2] =
                 IF i[1] \in sessions THEN nextPage[Lookup(i)[1]] + 1 ELSE 1
PROOF
<1> DEFINE p == Lookup(i)
<1>1. /\ created \in Nat /\ sessions \subseteq 1..created
      /\ \A t \in sessions : nextPage[t] \in Nat
    BY DEF ServerTypeOK
<1>2. \A q \in DOMAIN subs : q \in PageId /\ q[1] \in sessions /\ q[2] \in 1..nextPage[q[1]]
    BY DEF ServerTypeOK
<1>3. CASE ~IsNew(i)
  <2>1. p = i /\ i \in DOMAIN subs
      BY <1>3 DEF IsNew, Lookup
  <2>2. i[2] # 0 /\ i[1] \in sessions
      BY ONLY <1>1, <1>2, <2>1
  <2>3. i # NoId
      BY ONLY <2>2 DEF NoId
  <2> QED
      BY <1>3, <2>1, <2>2, <2>3
<1>4. CASE IsNew(i)
  <2> DEFINE n == IF i[1] \in sessions THEN nextPage[i[1]] + 1 ELSE 1
  <2>1. p = <<Session(i), n>>
      BY <1>4 DEF IsNew, Lookup
  <2>2. n \in Nat \ {0}
    <3>1. CASE i[1] \in sessions
      <4>1. nextPage[i[1]] \in Nat /\ n = nextPage[i[1]] + 1
          BY ONLY <1>1, <3>1
      <4> QED
          BY ONLY <4>1
    <3>2. CASE i[1] \notin sessions
      <4>1. n = 1
          BY ONLY <3>2
      <4> QED
          BY ONLY <4>1
    <3> QED
        BY ONLY <3>1, <3>2
  <2>3. Session(i) \in Nat /\ (Session(i) \in sessions \/ Session(i) = created + 1)
    <3>1. Session(i) \in sessions \/ Session(i) = created + 1
        BY ONLY TRUE DEF Session
    <3>2. \A t \in sessions : t \in Nat
        BY ONLY <1>1
    <3>3. created + 1 \in Nat
        BY ONLY <1>1
    <3> QED
        BY ONLY <3>1, <3>2, <3>3
  <2>4. p[1] = Session(i) /\ p[2] = n
      BY ONLY <2>1
  <2>5. i[1] \in sessions => Session(i) = i[1]
      BY ONLY TRUE DEF Session
  <2>6. p \notin DOMAIN subs
    <3>1. CASE i[1] \in sessions
      <4>1. nextPage[i[1]] \in Nat /\ p[1] = i[1] /\ p[2] = nextPage[i[1]] + 1
          BY ONLY <1>1, <2>4, <2>5, <3>1
      <4>2. p[2] \notin 1..nextPage[p[1]]
          BY ONLY <4>1
      <4> QED
          BY ONLY <1>2, <4>2
    <3>2. CASE i[1] \notin sessions
      <4>1. p[1] = created + 1
          BY ONLY <2>4, <3>2 DEF Session
      <4>2. p[1] \notin sessions
          BY ONLY <1>1, <4>1
      <4> QED
          BY ONLY <1>2, <4>2
    <3> QED
        BY ONLY <3>1, <3>2
  <2>7. p \in PageId /\ p # NoId
    <3>1. p \in PageId
        BY ONLY <2>1, <2>2, <2>3 DEF PageId
    <3>2. p # NoId
        BY ONLY <2>2, <2>4 DEF NoId
    <3> QED
        BY <3>1, <3>2
  <2> QED
      BY ONLY <1>4, <2>2, <2>3, <2>4, <2>5, <2>6, <2>7
<1> QED
    BY <1>3, <1>4

LEMMA ListenPages ==
    ASSUME ServerTypeOK, NEW i \in PageId, NEW D \in SUBSET Dest, Listen(i, D)
    PROVE  /\ DOMAIN subs' = DOMAIN subs \cup {Lookup(i)}
           /\ D \subseteq subs'[Lookup(i)]
           /\ \A q \in DOMAIN subs : subs[q] \subseteq subs'[q]
           /\ \A q \in DOMAIN subs' : subs'[q] \subseteq Dest
PROOF
<1> DEFINE p == Lookup(i)
<1>1. subs' = [q \in DOMAIN subs \cup {p} |->
                 IF q = p THEN D \cup (IF IsNew(i) THEN {} ELSE subs[p]) ELSE subs[q]]
    BY DEF Listen
<1>2. IsNew(i) => p \notin DOMAIN subs
    BY FoundPage
<1>3. \A q \in DOMAIN subs : subs[q] \subseteq Dest
    BY DEF ServerTypeOK
<1>4. ~IsNew(i) => p \in DOMAIN subs
    BY FoundPage
<1> HIDE DEF p
<1>5. DOMAIN subs' = DOMAIN subs \cup {p}
    BY ONLY <1>1
<1>6. subs'[p] = D \cup (IF IsNew(i) THEN {} ELSE subs[p])
    BY ONLY <1>1
<1>7. \A q \in DOMAIN subs : q # p => subs'[q] = subs[q]
    BY ONLY <1>1
<1> QED
    BY <1>2, <1>3, <1>4, <1>5, <1>6, <1>7 DEF p

LEMMA ListenType ==
    ASSUME ServerTypeOK, NEW i \in PageId, NEW D \in SUBSET Dest, Listen(i, D)
    PROVE  ServerTypeOK'
PROOF
<1> DEFINE p == Lookup(i)
<1>1. /\ created \in Nat /\ sessions \subseteq 1..created
      /\ nextPage \in [1..created -> Nat]
      /\ DOMAIN subs \subseteq PageId
      /\ \A q \in DOMAIN subs : q[1] \in sessions /\ q[2] \in 1..nextPage[q[1]]
    BY DEF ServerTypeOK
<1>2. /\ p \in PageId /\ (p[1] \in sessions \/ p[1] = created + 1)
      /\ ~IsNew(i) => p \in DOMAIN subs
      /\ IsNew(i) => p[2] = IF i[1] \in sessions THEN nextPage[p[1]] + 1 ELSE 1
    BY FoundPage
<1>3. IsNew(i) /\ i[1] \notin sessions => p[1] = created + 1
    BY DEF Lookup, Session, IsNew
<1>4. /\ sessions' = sessions \cup {p[1]}
      /\ created' = IF p[1] > created THEN p[1] ELSE created
      /\ nextPage' = [t \in 1..created' |-> IF t = p[1] /\ IsNew(i) THEN p[2] ELSE nextPage[t]]
    BY DEF Listen
<1>5. DOMAIN subs' = DOMAIN subs \cup {p} /\ \A q \in DOMAIN subs' : subs'[q] \subseteq Dest
    BY ListenPages
<1>12. IsNew(i) /\ i[1] \in sessions => p[1] = i[1]
    BY DEF Lookup, Session, IsNew
<1>11. p[1] \in Nat /\ p[2] \in Nat
    BY ONLY <1>2 DEF PageId
<1> HIDE DEF p
<1>6. created' \in Nat /\ sessions' \subseteq 1..created' /\ created <= created'
      /\ (p[1] = created + 1 => created' = created + 1)
      /\ (p[1] \in sessions => created' = created)
  <2>1. CASE p[1] \in sessions
    <3>1. p[1] \in 1..created
        BY ONLY <1>1, <2>1
    <3>2. created' = created /\ p[1] # created + 1
        BY ONLY <1>1, <1>4, <3>1
    <3> QED
      <4>1. sessions' = sessions
          BY ONLY <1>4, <2>1
      <4>2. created <= created'
          BY ONLY <1>1, <3>2
      <4> QED
          BY ONLY <1>1, <3>2, <4>1, <4>2
  <2>2. CASE p[1] = created + 1
    <3>1. created' = created + 1 /\ p[1] \notin sessions
        BY ONLY <1>1, <1>4, <2>2
    <3>2. \A t \in sessions : t \in 1..(created + 1)
        BY ONLY <1>1
    <3> QED
        BY ONLY <1>1, <1>4, <2>2, <3>1, <3>2
  <2> QED
      BY ONLY <1>2, <2>1, <2>2
<1>7. p[1] \in sessions \/ (p[1] = created + 1 /\ IsNew(i))
    BY ONLY <1>1, <1>2
<1>8. nextPage' \in [1..created' -> Nat]
  <2>1. \A t \in 1..created' : ~(t = p[1] /\ IsNew(i)) => nextPage[t] \in Nat
    <3>1. \A t \in 1..created' : t = created + 1 \/ t \in 1..created
        BY ONLY <1>1, <1>6, <1>7
    <3>2. p[1] \in sessions => created' = created
        BY ONLY <1>6
    <3> QED
        BY ONLY <1>1, <1>7, <3>1, <3>2
  <2> QED
      BY ONLY <1>4, <1>11, <2>1
<1>9. \A q \in DOMAIN subs' : q[1] \in sessions' /\ q[2] \in 1..nextPage'[q[1]]
  <2>1. \A t \in 1..created : nextPage'[t] \in Nat /\ nextPage[t] \in Nat
           /\ nextPage[t] <= nextPage'[t]
    <3>1. \A t \in 1..created : t \in 1..created'
        BY ONLY <1>1, <1>6
    <3>2. \A t \in 1..created : nextPage[t] \in Nat
        BY ONLY <1>1
    <3>3. \A t \in 1..created : t = p[1] /\ IsNew(i) => p[2] = nextPage[t] + 1
      <4>1. i[1] \notin sessions /\ IsNew(i) => p[1] \notin 1..created
          BY ONLY <1>1, <1>3
      <4> QED
          BY ONLY <1>2, <4>1
    <3> QED
        BY ONLY <1>4, <3>1, <3>2, <3>3
  <2>2. \A q \in DOMAIN subs : q[1] \in 1..created /\ q[2] \in 1..nextPage[q[1]]
      BY ONLY <1>1
  <2>3. \A q \in DOMAIN subs : q[2] \in 1..nextPage'[q[1]]
      BY ONLY <2>1, <2>2
  <2>4. IsNew(i) => p[2] \in 1..nextPage'[p[1]]
    <3>1. p[1] \in 1..created'
      <4>1. p[1] \in sessions'
          BY ONLY <1>4
      <4> QED
          BY ONLY <1>6, <4>1
    <3>2. IsNew(i) => nextPage'[p[1]] = p[2]
        BY ONLY <1>4, <3>1
    <3>3. IsNew(i) => p[2] \in Nat /\ p[2] >= 1
      <4>1. CASE IsNew(i) /\ i[1] \notin sessions
          BY ONLY <1>2, <4>1
      <4>2. CASE IsNew(i) /\ i[1] \in sessions
        <5>1. p[2] = nextPage[p[1]] + 1 /\ p[1] \in 1..created
            BY ONLY <1>1, <1>2, <1>12, <4>2
        <5> QED
            BY ONLY <1>1, <5>1
      <4> QED
          BY ONLY <4>1, <4>2
    <3> QED
        BY ONLY <3>2, <3>3
  <2>5. \A q \in DOMAIN subs : q[1] \in sessions
      BY ONLY <1>1
  <2> QED
      BY ONLY <1>2, <1>4, <1>5, <2>3, <2>4, <2>5
<1> QED
    BY ONLY <1>1, <1>2, <1>5, <1>6, <1>8, <1>9 DEF ServerTypeOK

LEMMA CommandPages ==
    ASSUME ServerTypeOK, NEW p, NEW c \in Command_, Command(p, c.type, c.dests)
    PROVE  /\ ServerTypeOK' /\ DOMAIN subs' \subseteq DOMAIN subs
           /\ \A q \in DOMAIN subs : q # p => q \in DOMAIN subs' /\ subs'[q] = subs[q]
           /\ c.type # "close" /\ p \in DOMAIN subs =>
                 /\ p \in DOMAIN subs'
                 /\ c.type = "subscibe" => subs'[p] = subs[p] \cup c.dests
                 /\ c.type = "unSubscibe" => subs'[p] = subs[p] \ c.dests
                 /\ c.type = "publish" => subs'[p] = subs[p]
PROOF
<1>1. /\ c.type \in {"publish", "subscibe", "unSubscibe", "close"} /\ c.dests \subseteq Dest
      /\ UNCHANGED <<sessions, created, nextPage>>
    BY DEF Command_, Command
<1>2. /\ created \in Nat /\ sessions \subseteq 1..created
      /\ nextPage \in [1..created -> Nat] /\ DOMAIN subs \subseteq PageId
    BY DEF ServerTypeOK
<1>3. \A q \in DOMAIN subs :
         q[1] \in sessions /\ q[2] \in 1..nextPage[q[1]] /\ subs[q] \subseteq Dest
    BY DEF ServerTypeOK
<1>4. CASE p \notin DOMAIN subs
  <2>1. subs' = subs
      BY <1>4 DEF Command
  <2> QED
      BY ONLY <1>1, <1>2, <1>3, <1>4, <2>1 DEF ServerTypeOK
<1>5. CASE p \in DOMAIN subs /\ c.type = "subscibe"
  <2>1. subs' = [subs EXCEPT ![p] = @ \cup c.dests]
      BY <1>5 DEF Command
  <2>2. /\ DOMAIN subs' = DOMAIN subs /\ subs'[p] = subs[p] \cup c.dests
        /\ \A q \in DOMAIN subs : q # p => subs'[q] = subs[q]
      BY ONLY <1>5, <2>1
  <2>3. \A q \in DOMAIN subs' : subs'[q] \subseteq Dest
      BY ONLY <1>1, <1>3, <2>2
  <2>4. ServerTypeOK'
      BY ONLY <1>1, <1>2, <1>3, <2>2, <2>3 DEF ServerTypeOK
  <2> QED
      BY ONLY <1>5, <2>2, <2>4
<1>6. CASE p \in DOMAIN subs /\ c.type = "unSubscibe"
  <2>1. subs' = [subs EXCEPT ![p] = @ \ c.dests]
      BY <1>6 DEF Command
  <2>2. /\ DOMAIN subs' = DOMAIN subs /\ subs'[p] = subs[p] \ c.dests
        /\ \A q \in DOMAIN subs : q # p => subs'[q] = subs[q]
      BY ONLY <1>6, <2>1
  <2>3. \A q \in DOMAIN subs' : subs'[q] \subseteq Dest
      BY ONLY <1>1, <1>3, <2>2
  <2>4. ServerTypeOK'
      BY ONLY <1>1, <1>2, <1>3, <2>2, <2>3 DEF ServerTypeOK
  <2> QED
      BY ONLY <1>6, <2>2, <2>4
<1>7. CASE p \in DOMAIN subs /\ c.type = "close"
  <2>1. subs' = Restrict(subs, DOMAIN subs \ {p})
      BY <1>7 DEF Command
  <2>2. /\ DOMAIN subs' = DOMAIN subs \ {p}
        /\ \A q \in DOMAIN subs : q # p => subs'[q] = subs[q]
      BY ONLY <2>1 DEF Restrict
  <2>3. ServerTypeOK'
      BY ONLY <1>1, <1>2, <1>3, <2>2 DEF ServerTypeOK
  <2> QED
      BY ONLY <1>7, <2>2, <2>3
<1>8. CASE p \in DOMAIN subs /\ c.type = "publish"
  <2>1. subs' = subs
      BY <1>8 DEF Command
  <2> QED
      BY ONLY <1>1, <1>2, <1>3, <1>8, <2>1 DEF ServerTypeOK
<1> QED
    BY ONLY <1>1, <1>4, <1>5, <1>6, <1>7, <1>8

LEMMA ServerLoses ==
    ASSUME ServerTypeOK
    PROVE  /\ \A p \in DOMAIN subs : Expire(p) =>
                 /\ ServerTypeOK' /\ DOMAIN subs' = DOMAIN subs \ {p}
                 /\ \A q \in DOMAIN subs' : subs'[q] = subs[q]
           /\ \A t \in sessions : ForgetSession(t) => ServerTypeOK' /\ subs' = subs
           /\ Restart => ServerTypeOK' /\ subs' = << >>
PROOF
<1>1. /\ created \in Nat /\ sessions \subseteq 1..created
      /\ nextPage \in [1..created -> Nat] /\ DOMAIN subs \subseteq PageId
      /\ \A q \in DOMAIN subs :
            q[1] \in sessions /\ q[2] \in 1..nextPage[q[1]] /\ subs[q] \subseteq Dest
    BY DEF ServerTypeOK
<1>2. ASSUME NEW p \in DOMAIN subs, Expire(p)
      PROVE  /\ ServerTypeOK' /\ DOMAIN subs' = DOMAIN subs \ {p}
             /\ \A q \in DOMAIN subs' : subs'[q] = subs[q]
  <2>1. /\ subs' = Restrict(subs, DOMAIN subs \ {p})
        /\ UNCHANGED <<sessions, created, nextPage>>
      BY <1>2 DEF Expire
  <2>2. /\ DOMAIN subs' = DOMAIN subs \ {p}
        /\ \A q \in DOMAIN subs' : subs'[q] = subs[q]
      BY ONLY <2>1 DEF Restrict
  <2> QED
      BY ONLY <1>1, <2>1, <2>2 DEF ServerTypeOK
<1>3. ASSUME NEW t \in sessions, ForgetSession(t)
      PROVE  ServerTypeOK' /\ subs' = subs
    BY ONLY <1>1, <1>3 DEF ForgetSession, ServerTypeOK
<1>4. ASSUME Restart
      PROVE  ServerTypeOK' /\ subs' = << >>
  <2>1. sessions' = {} /\ subs' = << >> /\ UNCHANGED <<created, nextPage>>
      BY <1>4 DEF Restart
  <2>2. DOMAIN subs' = {}
      BY ONLY <2>1
  <2> QED
      BY ONLY <1>1, <2>1, <2>2 DEF ServerTypeOK
<1> QED
    BY <1>2, <1>3, <1>4

-----------------------------------------------------------------------------
(* What a call does: the command goes on the open socket, or waits for the *)
(* connecting one, or the call throws.                                     *)

Goes(c) ==
    \/ Latest.ready = "open" /\ Only(ws, Put(c)) /\ waiting' = waiting
    \/ Latest.ready = "connecting" /\ socks' = socks /\ waiting' = waiting \cup {c}
    \/ Latest.ready \in {"closing", "closed"} /\ socks' = socks /\ waiting' = waiting

Fate(c) ==
    \/ sent' = [sent EXCEPT ![c.n] = @ + 1] /\ UNCHANGED <<waiting, refused>>
    \/ waiting' = waiting \cup {c} /\ UNCHANGED <<sent, refused>>
    \/ refused' = refused \cup {c.n} /\ UNCHANGED <<waiting, sent>>

LEMMA CommandType ==
    ASSUME SocketClientAssumption, TypeOK, NextCall, NEW D \in SUBSET Dest,
           NEW t \in {"publish", "subscibe", "unSubscibe", "close"}
    PROVE  /\ Cmd(calls + 1, t, D) \in Command_
           /\ Cmd(calls + 1, t, D).n = calls + 1
           /\ Cmd(calls + 1, t, D).type = t /\ Cmd(calls + 1, t, D).dests = D
PROOF
<1>1. calls \in Nat /\ MaxCalls \in Nat /\ calls < MaxCalls
    BY DEF SocketClientAssumption, TypeOK, NextCall
<1>2. calls + 1 \in Call
    BY ONLY <1>1 DEF Call
<1> QED
    BY ONLY <1>2, D \in SUBSET Dest,
         t \in {"publish", "subscibe", "unSubscibe", "close"} DEF Cmd, Command_

LEMMA SendGoes ==
    ASSUME Sockets, NEW c \in Command_, c.n = calls + 1, Send(c) \/ Throw
    PROVE  Goes(c) /\ Fate(c)
PROOF
<1>1. CASE socks[ws].ready = "open" /\ Send(c)
  <2>1. /\ socks' = [socks EXCEPT ![ws].up = Append(@, c)]
        /\ sent' = [sent EXCEPT ![c.n] = @ + 1] /\ UNCHANGED <<waiting, refused>>
      BY <1>1 DEF Send
  <2>2. Only(ws, Put(c))
      BY <2>1, PutEffect
  <2> QED
      BY ONLY <1>1, <2>1, <2>2 DEF Goes, Fate, Latest
<1>2. CASE socks[ws].ready # "open" /\ Send(c)
    BY <1>2 DEF Send, Goes, Fate, Latest
<1>3. CASE Throw
    BY <1>3 DEF Throw, Goes, Fate, Latest
<1> QED
    BY <1>1, <1>2, <1>3

LEMMA CallTypes ==
    ASSUME SocketClientAssumption, TypeOK, Sockets, NextCall,
           NEW c \in Command_, c.n = calls + 1, Fate(c)
    PROVE  /\ waiting' \subseteq Command_
           /\ \A w \in waiting' : w.n \in 1..calls' /\ w.dests \subseteq Dest
           /\ calls' \in 0..MaxCalls /\ sent' \in [Call -> Nat]
           /\ refused' \subseteq 1..calls'
PROOF
<1>1. /\ calls \in Nat /\ MaxCalls \in Nat /\ calls < MaxCalls /\ calls' = calls + 1
      /\ sent \in [Call -> Nat] /\ refused \subseteq 1..calls
      /\ \A w \in waiting : w.n \in 1..calls /\ w.dests \subseteq Dest
      /\ waiting \subseteq Command_
    BY DEF SocketClientAssumption, TypeOK, NextCall, Sockets
<1>2. \A i \in 1..calls : i \in 1..calls'
    BY ONLY <1>1
<1>3. c.n \in 1..calls' /\ c.n \in Call /\ c.dests \subseteq Dest /\ calls' \in 0..MaxCalls
    BY <1>1 DEF Command_, Call
<1>4. \/ sent' = [sent EXCEPT ![c.n] = @ + 1] /\ UNCHANGED <<waiting, refused>>
      \/ waiting' = waiting \cup {c} /\ UNCHANGED <<sent, refused>>
      \/ refused' = refused \cup {c.n} /\ UNCHANGED <<waiting, sent>>
    BY DEF Fate
<1>5. sent' \in [Call -> Nat]
    BY ONLY <1>1, <1>3, <1>4
<1>6. refused' \subseteq 1..calls'
    BY ONLY <1>1, <1>2, <1>3, <1>4
<1>7. waiting' \subseteq waiting \cup {c}
    BY ONLY <1>4
<1> QED
    BY <1>1, <1>2, <1>3, <1>5, <1>6, <1>7

LEMMA CallFates ==
    ASSUME SocketClientAssumption, TypeOK, Sockets, Fates, NextCall,
           NEW c \in Command_, c.n = calls + 1, Fate(c)
    PROVE  Fates'
PROOF
<1>1. /\ calls \in Nat /\ MaxCalls \in Nat /\ calls < MaxCalls /\ calls' = calls + 1
      /\ sent \in [Call -> Nat] /\ refused \subseteq 1..calls
      /\ \A w \in waiting : w.n \in 1..calls
    BY DEF SocketClientAssumption, TypeOK, NextCall
<1>2. /\ \A n \in 1..calls : OneFate(n)
      /\ \A n \in Call : n > calls => sent[n] = 0
    BY DEF Fates
<1>3. c.n \in Call /\ c.n > calls /\ c.n \notin 1..calls
    BY <1>1 DEF Command_, Call
<1>4. sent[c.n] = 0 /\ Waits(c.n) = {} /\ c.n \notin refused
    BY ONLY <1>1, <1>2, <1>3 DEF Waits
<1>5. /\ \A n \in Call \ {c.n} : sent'[n] = sent[n]
      /\ \A n : n # c.n => Waits(n)' = Waits(n) /\ (n \in refused' <=> n \in refused)
    BY <1>1, <1>3 DEF Fate, Waits
<1>6. \A n \in 1..calls : OneFate(n)'
  <2> TAKE n \in 1..calls
  <2>1. n \in Call /\ n # c.n /\ OneFate(n)
      BY ONLY <1>1, <1>2, <1>3 DEF Call
  <2>2. sent'[n] = sent[n] /\ Waits(n)' = Waits(n) /\ (n \in refused' <=> n \in refused)
      BY ONLY <1>5, <2>1
  <2>3. (\E w \in waiting : Waits(n) = {w}) => \E w \in waiting' : Waits(n)' = {w}
    <3>1. waiting \subseteq waiting'
        BY DEF Fate
    <3> QED
        BY ONLY <2>2, <3>1
  <2> QED
      BY ONLY <2>1, <2>2, <2>3 DEF OneFate
<1>7. OneFate(c.n)'
  <2>1. CASE sent' = [sent EXCEPT ![c.n] = @ + 1] /\ UNCHANGED <<waiting, refused>>
    <3>1. sent'[c.n] = 1
        BY ONLY <1>1, <1>3, <1>4, <2>1
    <3> QED
        BY ONLY <1>4, <2>1, <3>1 DEF OneFate, Waits
  <2>2. CASE waiting' = waiting \cup {c} /\ UNCHANGED <<sent, refused>>
    <3>1. Waits(c.n)' = {c} /\ c \in waiting'
        BY ONLY <1>4, <2>2 DEF Waits
    <3> QED
        BY ONLY <1>4, <2>2, <3>1 DEF OneFate
  <2>3. CASE refused' = refused \cup {c.n} /\ UNCHANGED <<waiting, sent>>
      BY ONLY <1>4, <2>3 DEF OneFate, Waits
  <2> QED
      BY <2>1, <2>2, <2>3 DEF Fate
<1>8. \A n \in 1..calls' : n \in 1..calls \/ n = c.n
    BY <1>1
<1>9. \A n \in Call : n > calls' => sent'[n] = 0
  <2>1. \A n \in Call : n > calls' => n > calls /\ n # c.n
      BY <1>1 DEF Call
  <2> QED
      BY ONLY <1>2, <1>5, <2>1
<1>10. \A w \in waiting' : w.n <= calls'
  <2>1. \A w \in waiting' : w \in waiting \/ w = c
      BY DEF Fate
  <2> QED
      BY <1>1, <2>1
<1> QED
    BY ONLY <1>6, <1>7, <1>8, <1>9, <1>10 DEF Fates

-----------------------------------------------------------------------------
(* What keeps the invariant of the sockets.                                *)

LEMMA SocketsKept ==
    ASSUME Sockets, waiting' \subseteq Command_,
           \/ socks' = socks
           \/ \E s, r : Only(s, r)
           \/ \E r : Another(r)
    PROVE  Sockets' /\ SocketsTypeOK'
PROOF
<1>1. socks' \in Seq(Socket) /\ Len(socks') \in Nat /\ Len(socks') # 0
  <2>1. socks' \in Seq(Socket) /\ (ws' = ws \/ ws' = ws + 1) /\ ws \in Nat \ {0}
      BY Numbers DEF Sockets, Only, Another, ws
  <2> QED
      BY ONLY <2>1 DEF ws
<1>2. socks' # << >>
    BY ONLY <1>1
<1>3. Sockets'
    BY <1>1, <1>2 DEF Sockets
<1>4. \A s \in DOMAIN socks' : socks'[s] \in Socket
    BY ONLY <1>1
<1>5. SocketsTypeOK'
    BY ONLY <1>4 DEF SocketsTypeOK, Socket
<1> QED
    BY <1>3, <1>5

LEMMA OneSocketKept ==
    ASSUME Sockets, OneSocket, NEW s \in 1..ws, NEW r, Only(s, r),
           s = ws \/ r.ready = socks[s].ready
    PROVE  OneSocket'
PROOF
<1>1. ws \in Nat \ {0} /\ ws' = ws /\ socks'[s] = r
      /\ \A t \in 1..ws : t # s => socks'[t] = socks[t]
    BY Numbers DEF Only
<1>2. \A t \in 1..(ws - 1) : socks'[t].ready = "closed"
    BY <1>1 DEF OneSocket
<1> QED
    BY ONLY <1>1, <1>2 DEF OneSocket

LEMMA OneSocketMore ==
    ASSUME Sockets, OneSocket, NEW r, Another(r), r.ready = "closed"
    PROVE  OneSocket'
PROOF
<1>1. ws \in Nat \ {0} /\ ws' = ws + 1 /\ socks'[ws] = r
      /\ \A t \in 1..ws : t # ws => socks'[t] = socks[t]
    BY Numbers DEF Another
<1>2. \A t \in 1..(ws' - 1) : socks'[t].ready = "closed"
    BY <1>1 DEF OneSocket
<1> QED
    BY ONLY <1>2 DEF OneSocket

\* Every socket but the last is closed: what is not closed is the last.
LEMMA Last ==
    ASSUME Sockets, OneSocket, NEW s \in 1..ws, socks[s].ready # "closed"
    PROVE  s = ws /\ socks[s] = Latest
PROOF
<1>1. ws \in Nat \ {0}
    BY Numbers
<1>2. s \notin 1..(ws - 1)
    BY DEF OneSocket
<1> QED
    BY ONLY <1>1, <1>2, s \in 1..ws DEF Latest

LEMMA OrderlyKept ==
    ASSUME Sockets, Orderly, closed => closed', NEW s \in 1..ws, NEW r, Only(s, r),
           Proper(r), Tame(r, closed'),
           \A w \in waiting' : w \in waiting \/ (w.type = "close" => closed')
    PROVE  Orderly'
PROOF
<1>1. /\ ws \in Nat \ {0} /\ DOMAIN socks = 1..ws /\ ws' = ws /\ socks'[s] = r
      /\ \A t \in 1..ws : t # s => socks'[t] = socks[t]
      /\ socks' \in Seq(Socket)
    BY Numbers DEF Only
<1>2. DOMAIN socks' = 1..ws
    BY ONLY <1>1 DEF ws
<1>3. \A t \in 1..ws : Proper(socks[t]) /\ Tame(socks[t], closed')
    BY <1>1 DEF Orderly, Tame
<1>4. \A t \in 1..ws : Proper(socks'[t]) /\ Tame(socks'[t], closed')
    BY <1>1, <1>3
<1>5. \A w \in waiting' : w.type = "close" => closed'
    BY DEF Orderly
<1> QED
    BY ONLY <1>2, <1>4, <1>5 DEF Orderly

LEMMA OrderlyMore ==
    ASSUME Sockets, Orderly, UNCHANGED <<closed, waiting>>, NEW r, Another(r),
           Proper(r), Tame(r, closed)
    PROVE  Orderly'
PROOF
<1> DEFINE f == Fresh(GetPageId, CollectDestinations)
<1>1. /\ ws \in Nat \ {0} /\ DOMAIN socks = 1..ws /\ ws' = ws + 1 /\ socks'[ws] = r
      /\ \A t \in 1..ws : t # ws => socks'[t] = socks[t]
      /\ socks' \in Seq(Socket) /\ socks'[ws + 1] = f
    BY Numbers DEF Another
<1>2. Proper(f) /\ Tame(f, closed)
  <2>1. /\ f.served = "no" /\ f.page = NoId /\ f.up = << >> /\ f.down = << >>
        /\ f.ready = "connecting"
      BY DEF Fresh
  <2> HIDE DEF f
  <2> QED
      BY ONLY <2>1 DEF Proper, Tame
<1> HIDE DEF f
<1>3. DOMAIN socks' = 1..(ws + 1)
  <2>1. DOMAIN socks' = 1..Len(socks')
      BY ONLY <1>1
  <2>2. Len(socks') = ws'
      BY DEF ws
  <2> QED
      BY ONLY <1>1, <2>1, <2>2
<1>4. \A t \in 1..ws : Proper(socks[t]) /\ Tame(socks[t], closed)
    BY <1>1 DEF Orderly
<1>5. \A t \in 1..(ws + 1) : t = ws + 1 \/ t = ws \/ (t \in 1..ws /\ t # ws)
    BY ONLY <1>1
<1>6. \A t \in 1..(ws + 1) : Proper(socks'[t]) /\ Tame(socks'[t], closed)
    BY <1>1, <1>2, <1>4, <1>5
<1> QED
    BY <1>3, <1>6 DEF Orderly

-----------------------------------------------------------------------------
(* The effect of each step that is not a call.                             *)

\* Shuts(c): close() on a socket that is not closed yet.
Shuts(c, r) ==
    /\ Only(ws, r) /\ r.ready # "open" /\ closed'
    /\ r.served = Latest.served /\ r.page = Latest.page /\ r.down = Latest.down
    /\ r.up = Latest.up \/ Latest.ready = "open"

LEMMA CloseEffect ==
    ASSUME SocketClientAssumption, Sockets, NEW c \in Command_,
           c = Cmd(calls + 1, "close", {}), Close, c.n = calls + 1
    PROVE  /\ Fate(c)
           /\ \/ \E r : Shuts(c, r) /\ waiting' \subseteq waiting \cup {c}
              \/ Goes(c) /\ UNCHANGED <<closed, waiting>> /\ ~Alive
PROOF
<1>1. CASE Throw /\ closed' = closed
  <2>1. Goes(c) /\ Fate(c)
      BY <1>1, SendGoes
  <2>2. waiting' = waiting /\ ~Alive
      BY <1>1 DEF Throw, Alive, Latest
  <2> QED
      BY <1>1, <2>1, <2>2
<1>2. ASSUME Latest.ready = "open",
             socks' = [socks EXCEPT ![ws] = Closing(Put(c))],
             sent' = [sent EXCEPT ![c.n] = @ + 1],
             closed' = TRUE, UNCHANGED <<waiting, refused>>
      PROVE  Fate(c) /\ \E r : Shuts(c, r) /\ waiting' \subseteq waiting \cup {c}
  <2> DEFINE r == Closing(Put(c))
             x == IF Flash THEN "closed" ELSE "closing"
  <2>1. r = [Put(c) EXCEPT !.ready = x]
      BY <1>2, PutSocket DEF Closing
  <2>2. x \in {"connecting", "open", "closing", "closed"} /\ x # "open"
      OBVIOUS
  <2>3. socks' = [socks EXCEPT ![ws] = r]
      BY <1>2
  <2>4. /\ Put(c) \in Socket /\ Put(c).served = Latest.served
        /\ Put(c).page = Latest.page /\ Put(c).down = Latest.down
      BY PutSocket
  <2> HIDE DEF r, x
  <2>5. /\ r \in Socket /\ r.ready = x /\ r.served = Latest.served
        /\ r.page = Latest.page /\ r.down = Latest.down
      BY ONLY <2>1, <2>2, <2>4 DEF Socket
  <2>6. Only(ws, r)
    <3>1. ws \in 1..ws
        BY Numbers
    <3> QED
        BY <2>3, <2>5, <3>1, SetSocket
  <2>7. Shuts(c, r)
      BY <1>2, <2>2, <2>5, <2>6 DEF Shuts
  <2> QED
      BY <1>2, <2>7 DEF Fate
<1>3. ASSUME Latest.ready = "connecting", socks' = [socks EXCEPT ![ws] = Closing(Latest)],
             waiting' = waiting \cup {c}, closed' = TRUE, UNCHANGED <<sent, refused>>
      PROVE  Fate(c) /\ \E r : Shuts(c, r) /\ waiting' \subseteq waiting \cup {c}
  <2> DEFINE r == Closing(Latest)
  <2>1. Latest \in Socket /\ ws \in 1..ws
      BY Numbers
  <2>2. /\ r \in Socket /\ r.ready # "open" /\ r.served = Latest.served
        /\ r.page = Latest.page /\ r.down = Latest.down /\ r.up = Latest.up
    <3>1. CASE Flash
        BY ONLY <1>3, <2>1, <3>1 DEF Closing
    <3>2. CASE ~Flash
      <4>1. r = [Latest EXCEPT !.ready = "closing"]
          BY <3>2 DEF Closing
      <4> HIDE DEF r
      <4> QED
          BY ONLY <2>1, <4>1 DEF Socket
    <3> QED
        BY <3>1, <3>2
  <2>3. socks' = [socks EXCEPT ![ws] = r]
      BY <1>3
  <2> HIDE DEF r
  <2>4. Only(ws, r)
      BY <2>1, <2>2, <2>3, SetSocket
  <2>5. Shuts(c, r)
      BY <1>3, <2>2, <2>4 DEF Shuts
  <2> QED
      BY <1>3, <2>5 DEF Fate
<1>4. [socks[ws] EXCEPT !.up = Append(@, c)] = Put(c) /\ socks[ws] = Latest
    BY DEF Put, Latest
<1> QED
    BY <1>1, <1>2, <1>3, <1>4 DEF Close

LEMMA TickEffect ==
    ASSUME Sockets, NEW w \in waiting, Tick(w)
    PROVE  /\ Only(ws, Put(w)) /\ Latest.ready = "open" /\ waiting' = waiting \ {w}
           /\ sent' = [sent EXCEPT ![w.n] = @ + 1]
PROOF
<1>1. w \in Command_
    BY DEF Sockets
<1>2. Only(ws, Put(w))
    BY <1>1, PutEffect DEF Tick
<1> QED
    BY <1>2 DEF Tick, Latest

LEMMA AcceptEffect ==
    ASSUME TypeOK, Sockets, OneSocket, NEW s \in 1..ws, ServerAccepts(s)
    PROVE  /\ s = ws /\ socks[s] = Latest
           /\ Latest.ready = "connecting" /\ Latest.served = "no"
           /\ Latest \in Socket /\ Listen(Latest.id, Latest.dests) /\ ServerTypeOK'
           /\ Only(ws, Accepted(ws))
           /\ Accepted(ws).ready = Latest.ready /\ Accepted(ws).served = "yes"
           /\ Accepted(ws).page = Lookup(Latest.id) /\ Lookup(Latest.id) # NoId
           /\ Accepted(ws).up = Latest.up
           /\ Accepted(ws).down = IF IsNew(Latest.id) THEN <<Lookup(Latest.id)>>
                                                      ELSE << >>
PROOF
<1>1. socks[s].ready = "connecting" /\ socks[s].served = "no"
    BY DEF ServerAccepts
<1>2. s = ws /\ socks[s] = Latest
    BY <1>1, Last
<1>3. Latest \in Socket
    BY Numbers
<1>4. Latest.id \in PageId /\ Latest.dests \in SUBSET Dest
    BY ONLY <1>3 DEF Socket
<1>5. Listen(Latest.id, Latest.dests)
    BY <1>2 DEF ServerAccepts
<1>6. ServerTypeOK' /\ Lookup(Latest.id) \in PageId /\ Lookup(Latest.id) # NoId
    BY <1>4, <1>5, ListenType, FoundPage DEF TypeOK
<1> QED
    BY <1>1, <1>2, <1>3, <1>5, <1>6, AcceptedEffect

LEMMA OpenedEffect ==
    ASSUME Sockets, OneSocket, NEW s \in 1..ws, Opened(s)
    PROVE  /\ s = ws /\ Latest.ready = "connecting" /\ Latest.served # "no"
           /\ Latest \in Socket
           /\ Only(ws, [Latest EXCEPT !.ready = "open"])
PROOF
<1>1. socks[s].ready = "connecting" /\ socks[s].served # "no"
    BY DEF Opened
<1>2. s = ws /\ socks[s] = Latest
    BY <1>1, Last
<1>3. Only(s, [socks[s] EXCEPT !.ready = "open"])
    BY SetReady DEF Opened
<1> QED
    BY <1>1, <1>2, <1>3, Numbers

LEMMA MessageEffect ==
    ASSUME Sockets, OneSocket, NEW s \in 1..ws, Message(s)
    PROVE  /\ s = ws /\ Latest.ready = "open" /\ Latest.down # << >>
           /\ Latest \in Socket /\ Head(Latest.down) \in PageId
           /\ LoggedIn(Head(Latest.down))
           /\ Only(ws, [Latest EXCEPT !.down = Tail(Latest.down)])
PROOF
<1>1. socks[s].ready = "open" /\ socks[s].down # << >> /\ LoggedIn(Head(socks[s].down))
    BY DEF Message
<1>2. s = ws /\ socks[s] = Latest
    BY <1>1, Last
<1>3. Latest \in Socket /\ Latest.down \in Seq(PageId)
    BY Numbers DEF Socket
<1>4. Head(Latest.down) \in PageId /\ Tail(Latest.down) \in Seq(PageId)
    BY ONLY <1>1, <1>2, <1>3
<1>5. socks' = [socks EXCEPT ![s].down = Tail(Latest.down)]
    BY <1>2 DEF Message
<1>6. Only(s, [socks[s] EXCEPT !.down = Tail(Latest.down)])
    BY <1>4, <1>5, SetDown
<1> QED
    BY <1>1, <1>2, <1>3, <1>4, <1>6

\* Ends(r): a socket that breaks or closes, with the frames that still arrive.
Ends(r) ==
    /\ r \in Socket /\ r.ready \in {"closing", "closed"} /\ Proper(r) /\ Tame(r, closed)
    /\ Only(ws, r) \/ (Another(r) /\ r.ready = "closed" /\ ~closed)

LEMMA AgainEffect ==
    ASSUME TypeOK, Sockets, NEW r \in Socket, r.ready = "closed", Proper(r), Tame(r, closed),
           socks' = Onclose([socks EXCEPT ![ws] = r])
    PROVE  Ends(r)
PROOF
<1>1. GetPageId \in PageId
    BY DEF TypeOK, ClientTypeOK, GetPageId, PageId
<1>2. Fresh(GetPageId, CollectDestinations) \in Socket
    BY <1>1, FreshIsSocket DEF TypeOK, ClientTypeOK, CollectDestinations
<1>3. CASE closed
  <2>1. socks' = [socks EXCEPT ![ws] = r] /\ ws \in 1..ws
      BY <1>3, Numbers DEF Onclose
  <2> QED
      BY <2>1, SetSocket DEF Ends
<1>4. CASE ~closed
  <2>1. socks' = Append([socks EXCEPT ![ws] = r], Fresh(GetPageId, CollectDestinations))
      BY <1>4 DEF Onclose
  <2> QED
      BY <1>2, <1>4, <2>1, AddSocket DEF Ends
<1> QED
    BY <1>3, <1>4

LEMMA BrokenEnds ==
    ASSUME Sockets, Orderly, NEW k \in 0..Len(Latest.up), NEW x \in {"closing", "closed"}
    PROVE  /\ Broken(ws, k, x) \in Socket /\ Broken(ws, k, x).ready = x
           /\ Proper(Broken(ws, k, x)) /\ Tame(Broken(ws, k, x), closed)
PROOF
<1> DEFINE r == Broken(ws, k, x)
<1>1. ws \in 1..ws /\ k \in 0..Len(socks[ws].up) /\ ws \in DOMAIN socks
    BY Numbers DEF Latest
<1>2. /\ r \in Socket /\ r.ready = x /\ r.page = socks[ws].page
      /\ r.served = "done" \/ (r.served = "yes" /\ socks[ws].served = "yes")
      /\ \A i \in DOMAIN r.up : i \in DOMAIN socks[ws].up /\ r.up[i] = socks[ws].up[i]
    BY <1>1, BrokenSocket
<1>3. Proper(socks[ws]) /\ Tame(socks[ws], closed)
    BY <1>1 DEF Orderly
<1> HIDE DEF r
<1>4. Proper(r)
    BY ONLY <1>2, <1>3 DEF Proper
<1>5. Tame(r, closed)
    BY ONLY <1>2, <1>3 DEF Tame
<1> QED
    BY ONLY <1>2, <1>4, <1>5 DEF r

LEMMA EndEffect ==
    ASSUME TypeOK, Sockets, OneSocket, Orderly, NEW s \in 1..ws,
           Breaks(s) \/ CloseEvent(s) \/ FlashCloses(s) \/ FlashFails(s)
    PROVE  s = ws /\ \E r : Ends(r)
PROOF
<1>1. socks[s].ready \in {"connecting", "open", "closing"}
    BY DEF Breaks, CloseEvent, FlashCloses, FlashFails, Breaking
<1>2. s = ws /\ socks[s] = Latest /\ s \in 1..ws
    BY <1>1, Last
<1>3. CASE Breaks(s)
  <2>1. PICK k \in 0..Len(Latest.up) : socks' = [socks EXCEPT ![ws] = Broken(ws, k, "closing")]
      BY <1>2, <1>3 DEF Breaks
  <2>2. Only(ws, Broken(ws, k, "closing"))
      BY <1>2, <2>1, BrokenEnds, SetSocket
  <2> QED
      BY <1>2, <2>2, BrokenEnds DEF Ends
<1>4. CASE CloseEvent(s)
  <2> DEFINE r == [Latest EXCEPT !.ready = "closed"]
  <2>1. Latest \in Socket /\ Proper(Latest) /\ Tame(Latest, closed)
      BY <1>2, Numbers DEF Orderly
  <2>2. /\ r \in Socket /\ r.ready = "closed" /\ r.up = Latest.up
        /\ r.served = Latest.served /\ r.page = Latest.page /\ r.down = Latest.down
      BY ONLY <2>1 DEF Socket
  <2>3. socks' = Onclose([socks EXCEPT ![ws] = r])
      BY <1>2, <1>4 DEF CloseEvent
  <2> HIDE DEF r
  <2>4. Proper(r) /\ Tame(r, closed)
      BY ONLY <2>1, <2>2 DEF Proper, Tame
  <2>5. Ends(r)
      BY <2>2, <2>3, <2>4, AgainEffect
  <2> QED
      BY <1>2, <2>5
<1>5. CASE FlashCloses(s)
  <2>1. PICK k \in 0..Len(Latest.up) :
           socks' = Onclose([socks EXCEPT ![ws] = Broken(ws, k, "closed")])
      BY <1>2, <1>5 DEF FlashCloses
  <2>2. Ends(Broken(ws, k, "closed"))
      BY <2>1, BrokenEnds, AgainEffect
  <2> QED
      BY <1>2, <2>2
<1>6. CASE FlashFails(s)
  <2>1. PICK k \in 0..Len(Latest.up) :
           Flash /\ socks' = [socks EXCEPT ![ws] = Closing(Broken(ws, k, "closed"))]
      BY <1>2, <1>6 DEF FlashFails
  <2>2. Closing(Broken(ws, k, "closed")) = Broken(ws, k, "closed")
      BY <2>1, BrokenEnds DEF Closing
  <2>3. Only(ws, Broken(ws, k, "closed"))
      BY <1>2, <2>1, <2>2, BrokenEnds, SetSocket
  <2> QED
      BY <1>2, <2>3, BrokenEnds DEF Ends
<1> QED
    BY <1>3, <1>4, <1>5, <1>6

\* ServerRestarts: what was served is over, and what was under way is lost.
Restarted(r, q) ==
    /\ r.ready = q.ready /\ r.id = q.id /\ r.dests = q.dests /\ r.page = q.page
    /\ r.down = q.down /\ r.up = << >>
    /\ r.served = IF q.served = "yes" THEN "done" ELSE q.served

LEMMA RestartEffect ==
    ASSUME Sockets, ServerRestarts
    PROVE  /\ socks' \in Seq(Socket) /\ ws' = ws
           /\ \A s \in 1..ws : Restarted(socks'[s], socks[s])
PROOF
<1> DEFINE r(s) == [socks[s] EXCEPT !.served = IF @ = "yes" THEN "done" ELSE @, !.up = << >>]
<1>1. ws \in Nat /\ DOMAIN socks = 1..ws
    BY Numbers
<1>2. ASSUME NEW s \in 1..ws
      PROVE  r(s) \in Socket /\ Restarted(r(s), socks[s])
  <2> DEFINE v == IF socks[s].served = "yes" THEN "done" ELSE socks[s].served
  <2>1. socks[s] \in Socket /\ r(s) = [socks[s] EXCEPT !.served = v, !.up = << >>]
      BY Numbers
  <2>2. v \in {"no", "yes", "done"} /\ << >> \in Seq(Command_)
      BY ONLY <2>1 DEF Socket
  <2>3. v = IF socks[s].served = "yes" THEN "done" ELSE socks[s].served
      OBVIOUS
  <2> HIDE DEF v
  <2> QED
      BY ONLY <2>1, <2>2, <2>3 DEF Socket, Restarted
<1>3. socks' = [s \in 1..ws |-> r(s)]
    BY <1>1 DEF ServerRestarts
<1>4. [s \in 1..ws |-> r(s)] \in Seq(Socket) /\ Len([s \in 1..ws |-> r(s)]) = ws
  <2>1. \A s \in 1..ws : r(s) \in Socket
      BY <1>2
  <2> HIDE DEF r
  <2> QED
      BY ONLY <1>1, <2>1
<1>5. \A s \in 1..ws : socks'[s] = r(s)
    BY <1>3
<1> QED
    BY <1>2, <1>3, <1>4, <1>5 DEF ws

\* Publish, Subscribe and Unsubscribe: one command is made, and no close.
Issues(c) ==
    /\ c \in Command_ /\ c.n = calls + 1 /\ c.type # "close"
    /\ NextCall /\ Goes(c) /\ Fate(c)

LEMMA IssueEffect ==
    ASSUME SocketClientAssumption, TypeOK, Sockets
    PROVE  /\ Publish => \E c : Issues(c)
           /\ \A d \in Dest : Subscribe(d) => \E c : Issues(c) /\ Asks(c, d)
           /\ \A d \in Dest : Unsubscribe(d) =>
                 \E c : Issues(c) /\ (listeners' = listeners \ {d} \/ ~Alive)
PROOF
<1>1. ASSUME Publish
      PROVE  \E c : Issues(c)
  <2> DEFINE c == Cmd(calls + 1, "publish", {})
  <2>1. NextCall /\ (Send(c) \/ Throw)
      BY <1>1 DEF Publish
  <2>2. c \in Command_ /\ c.n = calls + 1 /\ c.type # "close"
      BY <2>1, CommandType
  <2> HIDE DEF c
  <2>3. Goes(c) /\ Fate(c)
      BY <2>1, <2>2, SendGoes
  <2> QED
      BY <2>1, <2>2, <2>3 DEF Issues
<1>2. ASSUME NEW d \in Dest, Subscribe(d)
      PROVE  \E c : Issues(c) /\ Asks(c, d)
  <2> DEFINE c == Cmd(calls + 1, "subscibe", {d})
  <2>1. NextCall /\ (Send(c) \/ Throw)
      BY <1>2 DEF Subscribe
  <2>2. {d} \in SUBSET Dest
      OBVIOUS
  <2>3. c \in Command_ /\ c.n = calls + 1 /\ c.type = "subscibe" /\ c.dests = {d}
      BY <2>1, <2>2, CommandType
  <2> HIDE DEF c
  <2>4. Goes(c) /\ Fate(c)
      BY <2>1, <2>3, SendGoes
  <2> QED
      BY <2>1, <2>3, <2>4 DEF Issues, Asks
<1>3. ASSUME NEW d \in Dest, Unsubscribe(d)
      PROVE  \E c : Issues(c) /\ (listeners' = listeners \ {d} \/ ~Alive)
  <2> DEFINE c == Cmd(calls + 1, "unSubscibe", {d})
  <2>1. NextCall /\ (Send(c) \/ Throw) /\ (listeners' = listeners \ {d} \/ Throw)
      BY <1>3 DEF Unsubscribe
  <2>2. {d} \in SUBSET Dest
      OBVIOUS
  <2>3. c \in Command_ /\ c.n = calls + 1 /\ c.type # "close"
      BY <2>1, <2>2, CommandType
  <2> HIDE DEF c
  <2>4. Goes(c) /\ Fate(c)
      BY <2>1, <2>3, SendGoes
  <2>5. Throw => ~Alive
      BY DEF Throw, Alive, Latest
  <2> QED
      BY <2>1, <2>3, <2>4, <2>5 DEF Issues
<1> QED
    BY <1>1, <1>2, <1>3

-----------------------------------------------------------------------------
(* Types                                                                   *)

LEMMA TypesStep ==
    ASSUME SocketClientAssumption, TypeOK, Sockets, OneSocket, Orderly, [Next]_vars
    PROVE  TypeOK' /\ Sockets'
PROOF
<1>1. ASSUME Publish
      PROVE  TypeOK' /\ Sockets'
  <2>1. PICK c : Issues(c)
      BY <1>1, IssueEffect
  <2>2. /\ waiting' \subseteq Command_
        /\ \A w \in waiting' : w.n \in 1..calls' /\ w.dests \subseteq Dest
        /\ calls' \in 0..MaxCalls /\ sent' \in [Call -> Nat] /\ refused' \subseteq 1..calls'
      BY <2>1, CallTypes DEF Issues
  <2>3. Sockets' /\ SocketsTypeOK'
    <3>1. socks' = socks \/ Only(ws, Put(c))
        BY <2>1 DEF Issues, Goes
    <3> QED
        BY <2>2, <3>1, SocketsKept
  <2>4. ServerTypeOK' /\ ClientTypeOK' /\ faults' \in 0..MaxFaults /\ undone' \subseteq Dest
      BY <1>1 DEF Publish, TypeOK, ServerTypeOK, ClientTypeOK, server, client
  <2> QED
      BY <2>2, <2>3, <2>4 DEF TypeOK
<1>2. ASSUME NEW d \in Dest, Subscribe(d)
      PROVE  TypeOK' /\ Sockets'
  <2>1. PICK c : Issues(c)
      BY <1>2, IssueEffect
  <2>2. /\ waiting' \subseteq Command_
        /\ \A w \in waiting' : w.n \in 1..calls' /\ w.dests \subseteq Dest
        /\ calls' \in 0..MaxCalls /\ sent' \in [Call -> Nat] /\ refused' \subseteq 1..calls'
      BY <2>1, CallTypes DEF Issues
  <2>3. Sockets' /\ SocketsTypeOK'
    <3>1. socks' = socks \/ Only(ws, Put(c))
        BY <2>1 DEF Issues, Goes
    <3> QED
        BY <2>2, <3>1, SocketsKept
  <2>4. ServerTypeOK' /\ ClientTypeOK' /\ faults' \in 0..MaxFaults /\ undone' \subseteq Dest
      BY <1>2 DEF Subscribe, TypeOK, ServerTypeOK, ClientTypeOK, server, client
  <2> QED
      BY <2>2, <2>3, <2>4 DEF TypeOK
<1>3. ASSUME NEW d \in Dest, Unsubscribe(d)
      PROVE  TypeOK' /\ Sockets'
  <2>1. PICK c : Issues(c)
      BY <1>3, IssueEffect
  <2>2. /\ waiting' \subseteq Command_
        /\ \A w \in waiting' : w.n \in 1..calls' /\ w.dests \subseteq Dest
        /\ calls' \in 0..MaxCalls /\ sent' \in [Call -> Nat] /\ refused' \subseteq 1..calls'
      BY <2>1, CallTypes DEF Issues
  <2>3. Sockets' /\ SocketsTypeOK'
    <3>1. socks' = socks \/ Only(ws, Put(c))
        BY <2>1 DEF Issues, Goes
    <3> QED
        BY <2>2, <3>1, SocketsKept
  <2>4. ServerTypeOK' /\ ClientTypeOK' /\ faults' \in 0..MaxFaults /\ undone' \subseteq Dest
      BY <1>3 DEF Unsubscribe, TypeOK, ServerTypeOK, ClientTypeOK, server, client
  <2> QED
      BY <2>2, <2>3, <2>4 DEF TypeOK
<1>4. ASSUME Close
      PROVE  TypeOK' /\ Sockets'
  <2> DEFINE c == Cmd(calls + 1, "close", {})
  <2>1. NextCall /\ c \in Command_ /\ c.n = calls + 1
      BY <1>4, CommandType DEF Close
  <2>2. /\ Fate(c)
        /\ \/ \E r : Shuts(c, r) /\ waiting' \subseteq waiting \cup {c}
           \/ Goes(c) /\ UNCHANGED <<closed, waiting>> /\ ~Alive
      BY <1>4, <2>1, CloseEffect
  <2> HIDE DEF c
  <2>3. /\ waiting' \subseteq Command_
        /\ \A w \in waiting' : w.n \in 1..calls' /\ w.dests \subseteq Dest
        /\ calls' \in 0..MaxCalls /\ sent' \in [Call -> Nat] /\ refused' \subseteq 1..calls'
      BY <2>1, <2>2, CallTypes
  <2>4. Sockets' /\ SocketsTypeOK'
    <3>1. socks' = socks \/ \E s, r : Only(s, r)
        BY <2>2 DEF Shuts, Goes
    <3> QED
        BY <2>3, <3>1, SocketsKept
  <2>5. closed' \in BOOLEAN
    <3>1. closed' = TRUE \/ closed' = closed
        BY <1>4 DEF Close
    <3>2. closed \in BOOLEAN
        BY DEF TypeOK, ClientTypeOK
    <3> QED
        BY ONLY <3>1, <3>2
  <2>6. ServerTypeOK' /\ faults' \in 0..MaxFaults /\ undone' \subseteq Dest
        /\ UNCHANGED <<listeners, pageId, cached>>
      BY <1>4 DEF Close, TypeOK, ServerTypeOK, server
  <2>7. ClientTypeOK'
      BY <2>5, <2>6 DEF TypeOK, ClientTypeOK
  <2> QED
      BY <2>3, <2>4, <2>6, <2>7 DEF TypeOK
<1>5. ASSUME NEW w \in waiting, Tick(w)
      PROVE  TypeOK' /\ Sockets'
  <2>1. /\ Only(ws, Put(w)) /\ waiting' = waiting \ {w}
        /\ sent' = [sent EXCEPT ![w.n] = @ + 1]
      BY <1>5, TickEffect
  <2>2. Sockets' /\ SocketsTypeOK'
    <3>1. waiting' \subseteq Command_
        BY <2>1 DEF Sockets
    <3> QED
        BY <2>1, <3>1, SocketsKept
  <2>3. sent' \in [Call -> Nat]
    <3>1. sent \in [Call -> Nat]
        BY DEF TypeOK
    <3>2. \A n \in Call : sent[n] + 1 \in Nat
        BY ONLY <3>1
    <3> QED
        BY ONLY <2>1, <3>1, <3>2
  <2>4. UNCHANGED <<server, client, calls, faults, refused, undone>>
      BY <1>5 DEF Tick
  <2>5. \A v \in waiting' : v.n \in 1..calls' /\ v.dests \subseteq Dest
      BY <2>1, <2>4 DEF TypeOK
  <2> QED
      BY <2>2, <2>3, <2>4, <2>5 DEF TypeOK, ServerTypeOK, ClientTypeOK, server, client
<1>6. ASSUME NEW s \in 1..ws, ServerAccepts(s)
      PROVE  TypeOK' /\ Sockets'
  <2>1. Only(ws, Accepted(ws)) /\ ServerTypeOK'
      BY <1>6, AcceptEffect
  <2>2. UNCHANGED <<client, waiting, sent, calls, faults, refused>> /\ undone' \subseteq undone
      BY <1>6 DEF ServerAccepts
  <2>3. Sockets' /\ SocketsTypeOK'
      BY <2>1, <2>2, SocketsKept DEF Sockets
  <2> QED
      BY <2>1, <2>2, <2>3 DEF TypeOK, ClientTypeOK, client
<1>7. ASSUME NEW s \in 1..ws, ServerReceives(s)
      PROVE  TypeOK' /\ Sockets'
  <2> DEFINE c == Head(socks[s].up)
  <2>1. Only(s, Received(s)) /\ c \in Command_
      BY <1>7, ReceivedEffect
  <2>2. ServerTypeOK'
    <3>1. Command(socks[s].page, c.type, c.dests)
        BY <1>7 DEF ServerReceives
    <3> QED
        BY <2>1, <3>1, CommandPages DEF TypeOK
  <2>3. UNCHANGED <<client, waiting, sent, calls, faults, refused>>
        /\ undone' \subseteq undone \cup c.dests
      BY <1>7 DEF ServerReceives
  <2>4. undone' \subseteq Dest
    <3>1. c.dests \subseteq Dest
        BY <2>1 DEF Command_
    <3> QED
        BY <2>3, <3>1 DEF TypeOK
  <2>5. Sockets' /\ SocketsTypeOK'
      BY <2>1, <2>3, SocketsKept DEF Sockets
  <2> QED
      BY <2>2, <2>3, <2>4, <2>5 DEF TypeOK, ClientTypeOK, client
<1>8. ASSUME NEW p \in DOMAIN subs, PageExpires(p)
      PROVE  TypeOK' /\ Sockets'
  <2>1. ServerTypeOK'
      BY <1>8, ServerLoses DEF PageExpires, TypeOK
  <2>2. UNCHANGED <<client, wire, calls, faults, refused, undone>>
      BY <1>8 DEF PageExpires
  <2>3. Sockets' /\ SocketsTypeOK'
      BY <2>2, SocketsKept DEF Sockets, wire
  <2> QED
      BY <2>1, <2>2, <2>3 DEF TypeOK, ClientTypeOK, client, wire
<1>9. ASSUME NEW t \in sessions, SessionExpires(t)
      PROVE  TypeOK' /\ Sockets'
  <2>1. ServerTypeOK'
      BY <1>9, ServerLoses DEF SessionExpires, TypeOK
  <2>2. UNCHANGED <<client, wire, calls, faults, refused, undone>>
      BY <1>9 DEF SessionExpires
  <2>3. Sockets' /\ SocketsTypeOK'
      BY <2>2, SocketsKept DEF Sockets, wire
  <2> QED
      BY <2>1, <2>2, <2>3 DEF TypeOK, ClientTypeOK, client, wire
<1>10. ASSUME ServerRestarts
       PROVE  TypeOK' /\ Sockets'
  <2>1. ServerTypeOK'
      BY <1>10, ServerLoses DEF ServerRestarts, TypeOK
  <2>2. UNCHANGED <<client, waiting, sent, calls, refused, undone>> /\ faults' \in 0..MaxFaults
    <3>1. UNCHANGED <<client, waiting, sent, calls, refused, undone>>
          /\ faults < MaxFaults /\ faults' = faults + 1
        BY <1>10 DEF ServerRestarts
    <3>2. faults \in 0..MaxFaults /\ MaxFaults \in Nat
        BY DEF TypeOK, SocketClientAssumption
    <3> QED
        BY ONLY <3>1, <3>2
  <2>3. Sockets' /\ SocketsTypeOK'
    <3>1. socks' \in Seq(Socket) /\ ws' = ws
        BY <1>10, RestartEffect
    <3>2. socks' # << >>
        BY <3>1, Numbers DEF ws
    <3>3. Sockets'
        BY <2>2, <3>1, <3>2 DEF Sockets
    <3>4. \A s \in DOMAIN socks' : socks'[s] \in Socket
        BY ONLY <3>1
    <3> QED
        BY ONLY <3>3, <3>4 DEF SocketsTypeOK, Socket
  <2> QED
      BY <2>1, <2>2, <2>3 DEF TypeOK, ClientTypeOK, client
<1>11. ASSUME NEW s \in 1..ws, Opened(s)
       PROVE  TypeOK' /\ Sockets'
  <2>1. Only(ws, [Latest EXCEPT !.ready = "open"])
      BY <1>11, OpenedEffect
  <2>2. UNCHANGED <<server, client, waiting, sent, calls, faults, refused, undone>>
      BY <1>11 DEF Opened
  <2>3. Sockets' /\ SocketsTypeOK'
      BY <2>1, <2>2, SocketsKept DEF Sockets
  <2> QED
      BY <2>2, <2>3 DEF TypeOK, ServerTypeOK, ClientTypeOK, server, client
<1>12. ASSUME NEW s \in 1..ws, Message(s)
       PROVE  TypeOK' /\ Sockets'
  <2> DEFINE m == Head(Latest.down)
  <2>1. /\ Only(ws, [Latest EXCEPT !.down = Tail(Latest.down)])
        /\ m \in PageId /\ LoggedIn(m)
      BY <1>12, MessageEffect
  <2>2. UNCHANGED <<server, closed, listeners, waiting, sent, calls, faults, refused, undone>>
      BY <1>12 DEF Message
  <2>3. Sockets' /\ SocketsTypeOK'
      BY <2>1, <2>2, SocketsKept DEF Sockets
  <2>4. pageId' \in PageId /\ cached' \in Nat \X {0}
    <3>1. pageId' = m /\ cached' = <<m[1], 0>> /\ m[1] \in Nat
        BY <2>1 DEF LoggedIn, Remember, PageId
    <3> QED
        BY <2>1, <3>1
  <2> QED
      BY <2>2, <2>3, <2>4 DEF TypeOK, ServerTypeOK, ClientTypeOK, server
<1>13. ASSUME NEW s \in 1..ws, Breaks(s) \/ CloseEvent(s) \/ FlashCloses(s) \/ FlashFails(s)
       PROVE  TypeOK' /\ Sockets'
  <2>1. PICK r : Ends(r)
      BY <1>13, EndEffect
  <2>2. UNCHANGED <<server, client, waiting, sent, calls, refused, undone>>
      BY <1>13 DEF Breaks, CloseEvent, FlashCloses, FlashFails
  <2>3. faults' \in 0..MaxFaults
    <3>1. \/ faults' = faults
          \/ faults < MaxFaults /\ faults' = faults + 1
        BY <1>13 DEF Breaks, CloseEvent, FlashCloses, FlashFails, Breaking
    <3>2. faults \in 0..MaxFaults /\ MaxFaults \in Nat
        BY DEF TypeOK, SocketClientAssumption
    <3> QED
        BY ONLY <3>1, <3>2
  <2>4. Sockets' /\ SocketsTypeOK'
      BY <2>1, <2>2, SocketsKept DEF Sockets, Ends
  <2> QED
      BY <2>2, <2>3, <2>4 DEF TypeOK, ServerTypeOK, ClientTypeOK, server, client
<1>14. CASE UNCHANGED vars
  <2>1. UNCHANGED <<server, client, wire, calls, faults, refused, undone>>
      BY <1>14 DEF vars
  <2>2. Sockets' /\ SocketsTypeOK'
      BY <2>1, SocketsKept DEF Sockets, wire
  <2> QED
      BY <2>1, <2>2 DEF TypeOK, ServerTypeOK, ClientTypeOK, server, client, wire
<1> QED
    BY <1>1, <1>2, <1>3, <1>4, <1>5, <1>6, <1>7, <1>8, <1>9, <1>10, <1>11,
       <1>12, <1>13, <1>14, Numbers DEF Next, Calls, Moves, Troubles

-----------------------------------------------------------------------------
(* One socket                                                              *)

LEMMA PutOrderly ==
    ASSUME Sockets, Orderly, NEW c \in Command_, Latest.ready = "open",
           c.type = "close" => closed
    PROVE  Proper(Put(c)) /\ Tame(Put(c), closed) /\ Latest.served # "no"
PROOF
<1>1. Proper(Latest) /\ Tame(Latest, closed)
    BY Numbers DEF Orderly, Latest
<1>2. /\ Put(c).ready = Latest.ready /\ Put(c).served = Latest.served
      /\ Put(c).page = Latest.page
      /\ DOMAIN Put(c).up = 1..(Len(Latest.up) + 1)
      /\ DOMAIN Latest.up = 1..Len(Latest.up) /\ Len(Latest.up) \in Nat
      /\ \A i \in DOMAIN Latest.up : Put(c).up[i] = Latest.up[i]
      /\ Put(c).up[Len(Latest.up) + 1] = c
    BY PutSocket
<1>3. Latest.served # "no"
    BY <1>1 DEF Proper
<1>4. Proper(Put(c))
    BY ONLY <1>1, <1>2, <1>3 DEF Proper
<1>5. \A i \in DOMAIN Put(c).up : i = Len(Latest.up) + 1 \/ i \in DOMAIN Latest.up
    BY ONLY <1>2
<1>6. \A i \in DOMAIN Put(c).up : Put(c).up[i].type = "close" => closed
    BY <1>1, <1>2, <1>5 DEF Tame
<1> QED
    BY <1>3, <1>4, <1>6 DEF Tame

LEMMA IssueOrderly ==
    ASSUME Sockets, OneSocket, Orderly, closed' = closed, NEW c, Issues(c)
    PROVE  OneSocket' /\ Orderly'
PROOF
<1>1. c \in Command_ /\ c.type # "close" /\ ws \in 1..ws /\ ws \in DOMAIN socks
    BY Numbers DEF Issues
<1>2. waiting' \subseteq waiting \cup {c}
    BY DEF Issues, Goes
<1>3. CASE Latest.ready = "open" /\ Only(ws, Put(c))
  <2>1. Proper(Put(c)) /\ Tame(Put(c), closed)
      BY <1>1, <1>3, PutOrderly
  <2> QED
      BY <1>1, <1>2, <1>3, <2>1, OneSocketKept, OrderlyKept
<1>4. CASE socks' = socks
    BY <1>1, <1>2, <1>4 DEF OneSocket, Orderly, Tame, ws
<1> QED
    BY <1>3, <1>4 DEF Issues, Goes

LEMMA OrderlyStep ==
    ASSUME SocketClientAssumption, TypeOK, Sockets, OneSocket, Orderly, [Next]_vars
    PROVE  OneSocket' /\ Orderly'
PROOF
<1>1. ASSUME Publish
      PROVE  OneSocket' /\ Orderly'
  <2>1. PICK c : Issues(c)
      BY <1>1, IssueEffect
  <2>2. closed' = closed
      BY <1>1 DEF Publish, client
  <2> QED
      BY <2>1, <2>2, IssueOrderly
<1>2. ASSUME NEW d \in Dest, Subscribe(d)
      PROVE  OneSocket' /\ Orderly'
  <2>1. PICK c : Issues(c)
      BY <1>2, IssueEffect
  <2>2. closed' = closed
      BY <1>2 DEF Subscribe, client
  <2> QED
      BY <2>1, <2>2, IssueOrderly
<1>3. ASSUME NEW d \in Dest, Unsubscribe(d)
      PROVE  OneSocket' /\ Orderly'
  <2>1. PICK c : Issues(c)
      BY <1>3, IssueEffect
  <2>2. closed' = closed
      BY <1>3 DEF Unsubscribe, client
  <2> QED
      BY <2>1, <2>2, IssueOrderly
<1>4. ASSUME Close
      PROVE  OneSocket' /\ Orderly'
  <2> DEFINE c == Cmd(calls + 1, "close", {})
  <2>1. NextCall /\ c \in Command_ /\ c.n = calls + 1
      BY <1>4, CommandType DEF Close
  <2>2. \/ \E r : Shuts(c, r) /\ waiting' \subseteq waiting \cup {c}
        \/ Goes(c) /\ UNCHANGED <<closed, waiting>> /\ ~Alive
      BY <1>4, <2>1, CloseEffect
  <2>3. ~closed
      BY <2>1 DEF NextCall, CheckConnection
  <2> HIDE DEF c
  <2>4. ASSUME NEW r, Shuts(c, r), waiting' \subseteq waiting \cup {c}
        PROVE  OneSocket' /\ Orderly'
    <3>1. Proper(Latest)
        BY Numbers DEF Orderly, Latest
    <3>2. Proper(r) /\ Tame(r, closed') /\ Only(ws, r) /\ closed'
        BY <2>4, <3>1 DEF Shuts, Proper, Tame
    <3>3. ws \in 1..ws /\ \A w \in waiting' : w \in waiting \/ (w.type = "close" => closed')
        BY <2>4, <3>2, Numbers
    <3> QED
        BY <3>2, <3>3, OneSocketKept, OrderlyKept
  <2>5. ASSUME Goes(c), UNCHANGED <<closed, waiting>>, ~Alive
        PROVE  OneSocket' /\ Orderly'
    <3>1. socks' = socks
        BY <2>3, <2>5 DEF Goes, Alive
    <3> QED
        BY <2>5, <3>1 DEF OneSocket, Orderly, Tame, ws
  <2> QED
      BY <2>2, <2>4, <2>5
<1>5. ASSUME NEW w \in waiting, Tick(w)
      PROVE  OneSocket' /\ Orderly'
  <2>1. Only(ws, Put(w)) /\ Latest.ready = "open" /\ waiting' = waiting \ {w}
      BY <1>5, TickEffect
  <2>2. closed' = closed /\ w \in Command_ /\ (w.type = "close" => closed)
      BY <1>5 DEF Tick, client, Sockets, Orderly
  <2>3. Proper(Put(w)) /\ Tame(Put(w), closed)
      BY <2>1, <2>2, PutOrderly
  <2>4. ws \in 1..ws
      BY Numbers
  <2> QED
      BY <2>1, <2>2, <2>3, <2>4, OneSocketKept, OrderlyKept
<1>6. ASSUME NEW s \in 1..ws, ServerAccepts(s)
      PROVE  OneSocket' /\ Orderly'
  <2>1. /\ Only(ws, Accepted(ws)) /\ s = ws
        /\ Latest.ready = "connecting" /\ Accepted(ws).ready = Latest.ready
        /\ Accepted(ws).served = "yes" /\ Accepted(ws).up = Latest.up
        /\ Accepted(ws).page # NoId
      BY <1>6, AcceptEffect
  <2>2. closed' = closed /\ waiting' = waiting
      BY <1>6 DEF ServerAccepts, client
  <2>3. Proper(Latest) /\ Tame(Latest, closed) /\ ws \in 1..ws
      BY Numbers DEF Orderly, Latest
  <2>4. Proper(Accepted(ws)) /\ Tame(Accepted(ws), closed)
      BY ONLY <2>1, <2>3 DEF Proper, Tame
  <2> QED
      BY <2>1, <2>2, <2>3, <2>4, OneSocketKept, OrderlyKept
<1>7. ASSUME NEW s \in 1..ws, ServerReceives(s)
      PROVE  OneSocket' /\ Orderly'
  <2> DEFINE r == Received(s)
           c == Head(socks[s].up)
  <2>1. /\ Only(s, r) /\ r.ready = socks[s].ready /\ r.page = socks[s].page
        /\ r.down = socks[s].down
        /\ c.type = "close" => r.up = << >> /\ r.served = "done"
        /\ c.type # "close" =>
              /\ r.served = socks[s].served
              /\ \A i \in DOMAIN r.up :
                    i + 1 \in DOMAIN socks[s].up /\ r.up[i] = socks[s].up[i + 1]
      BY <1>7, ReceivedEffect
  <2>2. closed' = closed /\ waiting' = waiting /\ socks[s].served = "yes"
      BY <1>7 DEF ServerReceives, client
  <2>3. Proper(socks[s]) /\ Tame(socks[s], closed)
      BY Numbers DEF Orderly
  <2> HIDE DEF r, c
  <2>4. Proper(r)
      BY ONLY <2>1, <2>2, <2>3 DEF Proper
  <2>5. Tame(r, closed)
      BY ONLY <2>1, <2>3 DEF Tame
  <2> QED
      BY <2>1, <2>2, <2>4, <2>5, OneSocketKept, OrderlyKept
<1>8. ASSUME NEW p \in DOMAIN subs, PageExpires(p)
      PROVE  OneSocket' /\ Orderly'
    BY <1>8 DEF PageExpires, OneSocket, Orderly, Tame, ws, wire, client
<1>9. ASSUME NEW t \in sessions, SessionExpires(t)
      PROVE  OneSocket' /\ Orderly'
    BY <1>9 DEF SessionExpires, OneSocket, Orderly, Tame, ws, wire, client
<1>10. ASSUME ServerRestarts
       PROVE  OneSocket' /\ Orderly'
  <2>1. /\ socks' \in Seq(Socket) /\ ws' = ws
        /\ \A s \in 1..ws : Restarted(socks'[s], socks[s])
      BY <1>10, RestartEffect
  <2>2. closed' = closed /\ waiting' = waiting
      BY <1>10 DEF ServerRestarts, client
  <2>3. /\ ws \in Nat \ {0} /\ DOMAIN socks = 1..ws
      BY Numbers
  <2>4. DOMAIN socks' = 1..ws
      BY ONLY <2>1 DEF ws
  <2>5. \A s \in 1..ws : socks'[s].ready = socks[s].ready
      BY <2>1 DEF Restarted
  <2>6. OneSocket'
      BY <2>1, <2>3, <2>5 DEF OneSocket
  <2>7. ASSUME NEW s \in 1..ws
        PROVE  Proper(socks'[s]) /\ Tame(socks'[s], closed)
    <3>1. Proper(socks[s]) /\ Restarted(socks'[s], socks[s])
        BY <2>1, <2>3 DEF Orderly
    <3> QED
        BY ONLY <3>1 DEF Proper, Tame, Restarted
  <2>8. \A w \in waiting : w.type = "close" => closed
      BY DEF Orderly
  <2>9. Orderly'
      BY ONLY <2>2, <2>4, <2>7, <2>8 DEF Orderly
  <2> QED
      BY <2>6, <2>9
<1>11. ASSUME NEW s \in 1..ws, Opened(s)
       PROVE  OneSocket' /\ Orderly'
  <2> DEFINE r == [Latest EXCEPT !.ready = "open"]
  <2>1. Only(ws, r) /\ Latest.served # "no" /\ Latest \in Socket
      BY <1>11, OpenedEffect
  <2>2. closed' = closed /\ waiting' = waiting
      BY <1>11 DEF Opened, client
  <2>3. Proper(Latest) /\ Tame(Latest, closed) /\ ws \in 1..ws
      BY Numbers DEF Orderly, Latest
  <2>4. r.served = Latest.served /\ r.page = Latest.page /\ r.up = Latest.up
      BY ONLY <2>1 DEF Socket
  <2> HIDE DEF r
  <2>5. Proper(r) /\ Tame(r, closed)
      BY ONLY <2>1, <2>3, <2>4 DEF Proper, Tame
  <2> QED
      BY <2>1, <2>2, <2>3, <2>5, OneSocketKept, OrderlyKept
<1>12. ASSUME NEW s \in 1..ws, Message(s)
       PROVE  OneSocket' /\ Orderly'
  <2> DEFINE r == [Latest EXCEPT !.down = Tail(Latest.down)]
  <2>1. Only(ws, r) /\ Latest.down # << >> /\ Latest \in Socket
      BY <1>12, MessageEffect
  <2>2. closed' = closed /\ waiting' = waiting
      BY <1>12 DEF Message
  <2>3. Proper(Latest) /\ Tame(Latest, closed) /\ ws \in 1..ws
      BY Numbers DEF Orderly, Latest
  <2>4. r.served = Latest.served /\ r.page = Latest.page /\ r.up = Latest.up
      BY ONLY <2>1 DEF Socket
  <2> HIDE DEF r
  <2>5. Proper(r) /\ Tame(r, closed)
      BY ONLY <2>1, <2>3, <2>4 DEF Proper, Tame
  <2> QED
      BY <2>1, <2>2, <2>3, <2>5, OneSocketKept, OrderlyKept
<1>13. ASSUME NEW s \in 1..ws, Breaks(s) \/ CloseEvent(s) \/ FlashCloses(s) \/ FlashFails(s)
       PROVE  OneSocket' /\ Orderly'
  <2>1. PICK r : Ends(r)
      BY <1>13, EndEffect
  <2>2. UNCHANGED <<closed, waiting>>
      BY <1>13 DEF Breaks, CloseEvent, FlashCloses, FlashFails, client
  <2>3. ws \in 1..ws
      BY Numbers
  <2>4. CASE Only(ws, r)
      BY <2>1, <2>2, <2>3, <2>4, OneSocketKept, OrderlyKept DEF Ends
  <2>5. CASE Another(r) /\ r.ready = "closed" /\ ~closed
      BY <2>1, <2>2, <2>5, OneSocketMore, OrderlyMore DEF Ends
  <2> QED
      BY <2>1, <2>4, <2>5 DEF Ends
<1>14. CASE UNCHANGED vars
    BY <1>14 DEF vars, wire, client, OneSocket, Orderly, Tame, ws
<1> QED
    BY <1>1, <1>2, <1>3, <1>4, <1>5, <1>6, <1>7, <1>8, <1>9, <1>10, <1>11,
       <1>12, <1>13, <1>14, Numbers DEF Next, Calls, Moves, Troubles

-----------------------------------------------------------------------------
(* The fate of each call                                                   *)

LEMMA FatesKept ==
    ASSUME Fates, UNCHANGED <<calls, sent, waiting, refused>>
    PROVE  Fates'
PROOF
    BY DEF Fates, OneFate, Waits

LEMMA FatesStep ==
    ASSUME SocketClientAssumption, TypeOK, Sockets, Fates, [Next]_vars
    PROVE  Fates'
PROOF
<1>1. ASSUME Publish
      PROVE  Fates'
  <2>1. PICK c : Issues(c)
      BY <1>1, IssueEffect
  <2> QED
      BY <2>1, CallFates DEF Issues
<1>2. ASSUME NEW d \in Dest, Subscribe(d)
      PROVE  Fates'
  <2>1. PICK c : Issues(c)
      BY <1>2, IssueEffect
  <2> QED
      BY <2>1, CallFates DEF Issues
<1>3. ASSUME NEW d \in Dest, Unsubscribe(d)
      PROVE  Fates'
  <2>1. PICK c : Issues(c)
      BY <1>3, IssueEffect
  <2> QED
      BY <2>1, CallFates DEF Issues
<1>4. ASSUME Close
      PROVE  Fates'
  <2> DEFINE c == Cmd(calls + 1, "close", {})
  <2>1. NextCall /\ c \in Command_ /\ c.n = calls + 1
      BY <1>4, CommandType DEF Close
  <2>2. Fate(c)
      BY <1>4, <2>1, CloseEffect
  <2> HIDE DEF c
  <2> QED
      BY <2>1, <2>2, CallFates
<1>5. ASSUME NEW w \in waiting, Tick(w)
      PROVE  Fates'
  <2>1. waiting' = waiting \ {w} /\ sent' = [sent EXCEPT ![w.n] = @ + 1]
      BY <1>5, TickEffect
  <2>2. calls' = calls /\ refused' = refused
      BY <1>5 DEF Tick
  <2>3. sent \in [Call -> Nat] /\ w.n \in 1..calls /\ w.n \in Call
        /\ \A n \in 1..calls : n \in Call
    <3>1. sent \in [Call -> Nat] /\ w.n \in 1..calls /\ calls \in 0..MaxCalls
        BY DEF TypeOK
    <3>2. \A n \in 1..calls : n \in Call
        BY ONLY <3>1, SocketClientAssumption DEF SocketClientAssumption, Call
    <3> QED
        BY ONLY <3>1, <3>2
  <2>4. \A n \in 1..calls : OneFate(n)
      BY DEF Fates
  <2>5. w \in Waits(w.n)
      BY DEF Waits
  <2>6. sent[w.n] = 0 /\ Waits(w.n) = {w} /\ w.n \notin refused
    <3>1. OneFate(w.n)
        BY <2>3, <2>4
    <3> QED
        BY ONLY <2>5, <3>1 DEF OneFate
  <2>7. sent'[w.n] = 1 /\ \A n \in Call \ {w.n} : sent'[n] = sent[n]
      BY ONLY <2>1, <2>3, <2>6
  <2>8. Waits(w.n)' = {} /\ \A n : n # w.n => Waits(n)' = Waits(n)
      BY ONLY <2>1, <2>6 DEF Waits
  <2>9. ASSUME NEW n \in 1..calls
        PROVE  OneFate(n)'
    <3>1. CASE n = w.n
        BY ONLY <2>2, <2>6, <2>7, <2>8, <3>1 DEF OneFate
    <3>2. CASE n # w.n
      <4>1. sent'[n] = sent[n] /\ Waits(n)' = Waits(n)
          BY ONLY <2>3, <2>7, <2>8, <3>2, n \in 1..calls
      <4>2. (\E v \in waiting : Waits(n) = {v}) => \E v \in waiting' : Waits(n) = {v}
          BY ONLY <2>1, <3>2 DEF Waits
      <4> QED
          BY ONLY <2>2, <2>4, <4>1, <4>2, n \in 1..calls DEF OneFate
    <3> QED
        BY <3>1, <3>2
  <2>10. \A n \in Call : n > calls => sent'[n] = 0
    <3>1. \A n \in Call : n > calls => n # w.n
        BY <2>3 DEF Call, TypeOK
    <3> QED
        BY <2>7, <3>1 DEF Fates
  <2> QED
      BY <2>1, <2>2, <2>9, <2>10 DEF Fates
<1>6. ASSUME NEW s \in 1..ws, ServerAccepts(s)
      PROVE  Fates'
    BY <1>6, FatesKept DEF ServerAccepts
<1>7. ASSUME NEW s \in 1..ws, ServerReceives(s)
      PROVE  Fates'
    BY <1>7, FatesKept DEF ServerReceives
<1>8. ASSUME NEW p \in DOMAIN subs, PageExpires(p)
      PROVE  Fates'
    BY <1>8, FatesKept DEF PageExpires, wire
<1>9. ASSUME NEW t \in sessions, SessionExpires(t)
      PROVE  Fates'
    BY <1>9, FatesKept DEF SessionExpires, wire
<1>10. ASSUME ServerRestarts
       PROVE  Fates'
    BY <1>10, FatesKept DEF ServerRestarts
<1>11. ASSUME NEW s \in 1..ws, Opened(s)
       PROVE  Fates'
    BY <1>11, FatesKept DEF Opened
<1>12. ASSUME NEW s \in 1..ws, Message(s)
       PROVE  Fates'
    BY <1>12, FatesKept DEF Message
<1>13. ASSUME NEW s \in 1..ws, Breaks(s) \/ CloseEvent(s) \/ FlashCloses(s) \/ FlashFails(s)
       PROVE  Fates'
    BY <1>13, FatesKept DEF Breaks, CloseEvent, FlashCloses, FlashFails
<1>14. CASE UNCHANGED vars
    BY <1>14, FatesKept DEF vars, wire
<1> QED
    BY <1>1, <1>2, <1>3, <1>4, <1>5, <1>6, <1>7, <1>8, <1>9, <1>10, <1>11,
       <1>12, <1>13, <1>14, Numbers DEF Next, Calls, Moves, Troubles

\* One of three numbers is 1 and the others are 0.
LEMMA FatesAccounted ==
    ASSUME Fates
    PROVE  CallsAccounted
PROOF
<1>1. ASSUME NEW n \in 1..calls
      PROVE  sent[n] + Cardinality({w \in waiting : w.n = n})
                     + Cardinality(refused \cap {n}) = 1
  <2>1. OneFate(n)
      BY DEF Fates
  <2>2. Cardinality({}) = 0
      BY FS_EmptySet
  <2>3. \A x : Cardinality({x}) = 1
      BY FS_Singleton
  <2>4. refused \cap {n} = IF n \in refused THEN {n} ELSE {}
      OBVIOUS
  <2>5. CASE sent[n] = 1 /\ Waits(n) = {} /\ n \notin refused
    <3>1. {w \in waiting : w.n = n} = {} /\ refused \cap {n} = {} /\ sent[n] = 1
        BY ONLY <2>4, <2>5 DEF Waits
    <3>2. Cardinality({v \in waiting : v.n = n}) = 0
        BY ONLY <2>2, <3>1
    <3>3. Cardinality(refused \cap {n}) = 0
        BY ONLY <2>2, <3>1
    <3> QED
        BY ONLY <3>1, <3>2, <3>3
  <2>6. CASE /\ sent[n] = 0 /\ n \notin refused
             /\ \E w \in waiting : Waits(n) = {w}
    <3>1. PICK w \in waiting : {v \in waiting : v.n = n} = {w}
        BY ONLY <2>6 DEF Waits
    <3>2. refused \cap {n} = {} /\ sent[n] = 0
        BY ONLY <2>4, <2>6
    <3>3. Cardinality({v \in waiting : v.n = n}) = 1
        BY ONLY <2>3, <3>1
    <3>4. Cardinality(refused \cap {n}) = 0
        BY ONLY <2>2, <3>2
    <3> QED
        BY ONLY <3>2, <3>3, <3>4
  <2>7. CASE sent[n] = 0 /\ Waits(n) = {} /\ n \in refused
    <3>1. {w \in waiting : w.n = n} = {} /\ refused \cap {n} = {n} /\ sent[n] = 0
        BY ONLY <2>4, <2>7 DEF Waits
    <3>2. Cardinality({v \in waiting : v.n = n}) = 0
        BY ONLY <2>2, <3>1
    <3>3. Cardinality(refused \cap {n}) = 1
        BY ONLY <2>3, <3>1
    <3> QED
        BY ONLY <3>1, <3>2, <3>3
  <2> QED
      BY <2>1, <2>5, <2>6, <2>7 DEF OneFate
<1> QED
    BY <1>1 DEF CallsAccounted

-----------------------------------------------------------------------------
(* The page id the client has                                              *)

\* The last socket is what it was, but for what goes up on it.
AsBefore ==
    /\ Latest'.served = Latest.served /\ Latest'.page = Latest.page
    /\ Latest'.down = Latest.down /\ Latest'.id = Latest.id
    /\ Latest'.ready \in {"connecting", "open"} =>
          Latest.ready \in {"connecting", "open"}

LEMMA PutAsBefore ==
    ASSUME Sockets, NEW c \in Command_, Only(ws, Put(c))
    PROVE  AsBefore /\ Latest' = Put(c)
PROOF
<1>1. Latest' = Put(c)
    BY Numbers DEF Only, Latest
<1> QED
    BY <1>1, PutSocket DEF AsBefore

LEMMA KnownKept ==
    ASSUME Known, AsBefore, UNCHANGED <<closed, pageId, cached, subs>>
    PROVE  Known'
PROOF
<1>1. Alive' => Alive
    BY DEF Alive, AsBefore
<1>2. Here' = Here /\ GetPageId' = GetPageId
    BY DEF AsBefore, Here, Latest, GetPageId
<1> QED
    BY <1>1, <1>2 DEF Known, AsBefore

LEMMA EndedNotAlive ==
    ASSUME Sockets, NEW r, Only(ws, r), r.ready \in {"closing", "closed"}
    PROVE  ~Alive'
PROOF
<1>1. Latest' = r
    BY Numbers DEF Only, Latest
<1> QED
    BY <1>1 DEF Alive

LEMMA AnotherLatest ==
    ASSUME Sockets, NEW r, Another(r)
    PROVE  /\ Latest'.served = "no" /\ Latest'.id = GetPageId
           /\ Latest'.dests = listeners
PROOF
<1>1. Latest' = Fresh(GetPageId, CollectDestinations)
    BY DEF Another, Latest
<1> QED
    BY <1>1 DEF Fresh, CollectDestinations

LEMMA KnownStep ==
    ASSUME SocketClientAssumption, TypeOK, Sockets, OneSocket, Orderly, Known, [Next]_vars
    PROVE  Known'
PROOF
<1>1. ASSUME Publish
      PROVE  Known'
  <2>1. PICK c : Issues(c)
      BY <1>1, IssueEffect
  <2>2. UNCHANGED <<closed, pageId, cached, subs>>
      BY <1>1 DEF Publish, client, server
  <2>3. AsBefore
    <3>1. CASE socks' = socks
        BY <3>1 DEF AsBefore, Latest, ws
    <3>2. CASE Only(ws, Put(c))
        BY <2>1, <3>2, PutAsBefore DEF Issues
    <3> QED
        BY <2>1, <3>1, <3>2 DEF Issues, Goes
  <2> QED
      BY <2>2, <2>3, KnownKept
<1>2. ASSUME NEW d \in Dest, Subscribe(d)
      PROVE  Known'
  <2>1. PICK c : Issues(c)
      BY <1>2, IssueEffect
  <2>2. UNCHANGED <<closed, pageId, cached, subs>>
      BY <1>2 DEF Subscribe, client, server
  <2>3. AsBefore
    <3>1. CASE socks' = socks
        BY <3>1 DEF AsBefore, Latest, ws
    <3>2. CASE Only(ws, Put(c))
        BY <2>1, <3>2, PutAsBefore DEF Issues
    <3> QED
        BY <2>1, <3>1, <3>2 DEF Issues, Goes
  <2> QED
      BY <2>2, <2>3, KnownKept
<1>3. ASSUME NEW d \in Dest, Unsubscribe(d)
      PROVE  Known'
  <2>1. PICK c : Issues(c)
      BY <1>3, IssueEffect
  <2>2. UNCHANGED <<closed, pageId, cached, subs>>
      BY <1>3 DEF Unsubscribe, client, server
  <2>3. AsBefore
    <3>1. CASE socks' = socks
        BY <3>1 DEF AsBefore, Latest, ws
    <3>2. CASE Only(ws, Put(c))
        BY <2>1, <3>2, PutAsBefore DEF Issues
    <3> QED
        BY <2>1, <3>1, <3>2 DEF Issues, Goes
  <2> QED
      BY <2>2, <2>3, KnownKept
<1>4. ASSUME Close
      PROVE  Known'
  <2> DEFINE c == Cmd(calls + 1, "close", {})
  <2>1. NextCall /\ c \in Command_ /\ c.n = calls + 1
      BY <1>4, CommandType DEF Close
  <2>2. \/ \E r : Shuts(c, r) /\ waiting' \subseteq waiting \cup {c}
        \/ Goes(c) /\ UNCHANGED <<closed, waiting>> /\ ~Alive
      BY <1>4, <2>1, CloseEffect
  <2>3. CASE closed'
      BY <2>3 DEF Known, Alive
  <2>4. CASE Goes(c) /\ closed' = closed /\ ~Alive
    <3>1. socks' = socks
        BY <2>1, <2>4 DEF Goes, Alive, NextCall, CheckConnection
    <3> QED
        BY <2>4, <3>1 DEF Known, Alive, Latest, ws
  <2> QED
      BY <2>2, <2>3, <2>4 DEF Shuts
<1>5. ASSUME NEW w \in waiting, Tick(w)
      PROVE  Known'
  <2>1. Only(ws, Put(w)) /\ w \in Command_
      BY <1>5, TickEffect DEF Sockets
  <2>2. UNCHANGED <<closed, pageId, cached, subs>>
      BY <1>5 DEF Tick, client, server
  <2> QED
      BY <2>1, <2>2, PutAsBefore, KnownKept
<1>6. ASSUME NEW s \in 1..ws, ServerAccepts(s)
      PROVE  Known'
  <2> DEFINE r == Accepted(ws)
  <2>1. /\ Only(ws, r) /\ Latest.ready = "connecting" /\ Latest.served = "no"
        /\ Latest \in Socket /\ Listen(Latest.id, Latest.dests)
        /\ r.ready = Latest.ready /\ r.served = "yes"
        /\ r.page = Lookup(Latest.id)
        /\ r.down = IF IsNew(Latest.id) THEN <<Lookup(Latest.id)>> ELSE << >>
      BY <1>6, AcceptEffect
  <2>2. UNCHANGED <<closed, pageId, cached>>
      BY <1>6 DEF ServerAccepts, client
  <2>3. Latest' = r
      BY <2>1, Numbers DEF Only, Latest
  <2> HIDE DEF r
  <2>4. Here' = Lookup(Latest.id)
      BY <2>1, <2>3 DEF Here, Latest
  <2>5. Lookup(Latest.id) \in DOMAIN subs'
    <3>1. Latest.id \in PageId /\ Latest.dests \in SUBSET Dest
        BY ONLY <2>1 DEF Socket
    <3> QED
        BY <2>1, <3>1, ListenPages DEF TypeOK
  <2>6. ~IsNew(Latest.id) => Lookup(Latest.id) = Latest.id
      BY DEF IsNew, Lookup
  <2>7. Alive' => Latest.id = GetPageId'
      BY <2>1, <2>2, <2>3 DEF Known, Alive, GetPageId
  <2>8. r.served # "no"
      BY <2>1
  <2> QED
      BY ONLY <2>1, <2>3, <2>4, <2>5, <2>6, <2>7, <2>8 DEF Known
<1>7. ASSUME NEW s \in 1..ws, ServerReceives(s)
      PROVE  Known'
  <2> DEFINE r == Received(s)
           c == Head(socks[s].up)
  <2>1. /\ Only(s, r) /\ r.ready = socks[s].ready /\ r.page = socks[s].page
        /\ r.down = socks[s].down /\ c \in Command_
        /\ c = socks[s].up[1] /\ 1 \in DOMAIN socks[s].up
        /\ c.type # "close" => r.served = socks[s].served
      BY <1>7, ReceivedEffect
  <2>2. UNCHANGED <<closed, pageId, cached>> /\ socks[s].served = "yes"
        /\ Command(socks[s].page, c.type, c.dests)
      BY <1>7 DEF ServerReceives, client
  <2>3. CASE c.type = "close"
    <3>1. closed
        BY <2>1, <2>3, Numbers DEF Orderly, Tame
    <3> QED
        BY <2>2, <3>1 DEF Known, Alive
  <2>4. CASE c.type # "close"
    <3>1. DOMAIN subs' = DOMAIN subs
        BY <2>1, <2>2, <2>4, CommandPages DEF TypeOK
    <3>2. /\ Latest'.ready = Latest.ready /\ Latest'.served = Latest.served
          /\ Latest'.page = Latest.page /\ Latest'.down = Latest.down
          /\ s # ws => Latest' = Latest
        BY <2>1, <2>4, Numbers DEF Only, Latest
    <3>3. Latest'.served # "no" \/ Latest' = Latest
        BY <2>2, <3>2 DEF Latest
    <3> HIDE DEF r, c
    <3>4. Alive' = Alive /\ GetPageId' = GetPageId /\ Here' = Here
        BY ONLY <2>2, <3>2 DEF Alive, GetPageId, Here, Latest
    <3> QED
        BY ONLY <3>1, <3>2, <3>3, <3>4, Known DEF Known
  <2> QED
      BY <2>3, <2>4
<1>8. ASSUME NEW p \in DOMAIN subs, PageExpires(p)
      PROVE  Known'
  <2>1. UNCHANGED <<closed, pageId, cached, socks>>
      BY <1>8 DEF PageExpires, client, wire
  <2>2. DOMAIN subs' = DOMAIN subs \ {p}
      BY <1>8, ServerLoses DEF PageExpires, TypeOK
  <2>3. Alive => Here # p
      BY <1>8, Numbers DEF PageExpires, Alive, Here, Latest
  <2> QED
      BY <2>1, <2>2, <2>3 DEF Known, Alive, Latest, Here, GetPageId, ws
<1>9. ASSUME NEW t \in sessions, SessionExpires(t)
      PROVE  Known'
  <2>1. UNCHANGED <<closed, pageId, cached, socks>>
      BY <1>9 DEF SessionExpires, client, wire
  <2>2. subs' = subs
      BY <1>9, ServerLoses DEF SessionExpires, TypeOK
  <2> QED
      BY <2>1, <2>2 DEF Known, Alive, Latest, Here, GetPageId, ws
<1>10. ASSUME ServerRestarts
       PROVE  Known'
  <2>1. Restarted(Latest', Latest)
      BY <1>10, RestartEffect, Numbers DEF Latest
  <2>2. UNCHANGED <<closed, pageId, cached>>
      BY <1>10 DEF ServerRestarts, client
  <2>3. Latest'.served # "yes" /\ Latest'.ready = Latest.ready /\ Latest'.id = Latest.id
        /\ (Latest'.served = "no" => Latest.served = "no")
      BY ONLY <2>1 DEF Restarted
  <2> QED
      BY ONLY <2>2, <2>3, Known DEF Known, Alive, GetPageId
<1>11. ASSUME NEW s \in 1..ws, Opened(s)
       PROVE  Known'
  <2> DEFINE r == [Latest EXCEPT !.ready = "open"]
  <2>1. Only(ws, r) /\ Latest.ready = "connecting" /\ Latest.served # "no" /\ Latest \in Socket
      BY <1>11, OpenedEffect
  <2>2. UNCHANGED <<closed, pageId, cached, subs>>
      BY <1>11 DEF Opened, client, server
  <2>3. /\ r.served = Latest.served /\ r.page = Latest.page /\ r.down = Latest.down
        /\ r.id = Latest.id
      BY ONLY <2>1 DEF Socket
  <2>4. Latest' = r
      BY <2>1, Numbers DEF Only, Latest
  <2> HIDE DEF r
  <2>5. AsBefore
      BY <2>1, <2>3, <2>4 DEF AsBefore
  <2> QED
      BY <2>2, <2>5, KnownKept
<1>12. ASSUME NEW s \in 1..ws, Message(s)
       PROVE  Known'
  <2> DEFINE m == Head(Latest.down)
           r == [Latest EXCEPT !.down = Tail(Latest.down)]
  <2>1. /\ Only(ws, r) /\ Latest.ready = "open" /\ Latest.down # << >>
        /\ Latest \in Socket /\ LoggedIn(m)
      BY <1>12, MessageEffect
  <2>2. closed' = closed /\ subs' = subs /\ pageId' = m
      BY <1>12, <2>1 DEF Message, server, LoggedIn
  <2>3. /\ r.served = Latest.served /\ r.page = Latest.page /\ r.ready = Latest.ready
        /\ r.down = Tail(Latest.down)
      BY ONLY <2>1 DEF Socket
  <2>4. Latest' = r
      BY <2>1, Numbers DEF Only, Latest
  <2>5. Proper(Latest)
      BY Numbers DEF Orderly, Latest
  <2> HIDE DEF r, m
  <2>6. Latest.served # "no" /\ Alive' = Alive /\ Here' = Here
      BY <2>1, <2>2, <2>3, <2>4, <2>5 DEF Proper, Alive, Here, Latest
  <2>7. ASSUME Alive, Latest.served = "yes"
        PROVE  Here \in DOMAIN subs' /\ Latest'.down = << >> /\ GetPageId' = Here
    <3>1. Latest.down = <<Here>> /\ Here \in DOMAIN subs /\ Here # NoId
        BY <2>1, <2>5, <2>7 DEF Known, Proper, Here, Latest
    <3>2. Tail(Latest.down) = << >> /\ m = Here
        BY ONLY <3>1 DEF m
    <3> QED
        BY <2>2, <2>3, <2>4, <3>1, <3>2 DEF GetPageId
  <2> QED
      BY <2>3, <2>4, <2>6, <2>7 DEF Known
<1>13. ASSUME NEW s \in 1..ws, Breaks(s) \/ CloseEvent(s) \/ FlashCloses(s) \/ FlashFails(s)
       PROVE  Known'
  <2>1. PICK r : Ends(r)
      BY <1>13, EndEffect
  <2>2. CASE Only(ws, r)
    <3>1. ~Alive'
        BY <2>1, <2>2, EndedNotAlive DEF Ends
    <3> QED
        BY <3>1 DEF Known
  <2>3. CASE Another(r)
    <3>1. /\ Latest'.served = "no" /\ Latest'.id = GetPageId
        BY <2>3, AnotherLatest
    <3>2. GetPageId' = GetPageId
        BY <1>13 DEF Breaks, CloseEvent, FlashCloses, FlashFails, client, GetPageId
    <3> QED
        BY <3>1, <3>2 DEF Known
  <2> QED
      BY <2>1, <2>2, <2>3 DEF Ends
<1>14. CASE UNCHANGED vars
  <2>1. UNCHANGED <<closed, pageId, cached, socks, subs>>
      BY <1>14 DEF vars, wire, client, server
  <2> QED
      BY <2>1 DEF Known, Alive, Latest, Here, GetPageId, ws
<1> QED
    BY <1>1, <1>2, <1>3, <1>4, <1>5, <1>6, <1>7, <1>8, <1>9, <1>10, <1>11,
       <1>12, <1>13, <1>14, Numbers DEF Next, Calls, Moves, Troubles

-----------------------------------------------------------------------------
(* The listeners the server knows of                                       *)

LEMMA HeardSame ==
    ASSUME Heard, UNCHANGED <<closed, listeners, undone, socks, waiting, subs>>
    PROVE  Heard'
PROOF
    BY DEF Heard, Told, Alive, Latest, Here, ws

\* A call forgets nothing the server has been told or will be.
LEMMA IssueTold ==
    ASSUME Sockets, Orderly, UNCHANGED <<closed, subs>>, NEW c, Issues(c),
           Alive', Latest'.served # "done", NEW e
    PROVE  Alive /\ Latest.served # "done" /\ (Told(e) \/ Asks(c, e) => Told(e)')
PROOF
<1>1. c \in Command_ /\ c.type # "close" /\ Goes(c)
    BY DEF Issues
<1>2. CASE Latest.ready = "open" /\ Only(ws, Put(c)) /\ waiting' = waiting
  <2>1. AsBefore /\ Latest' = Put(c) /\ Latest.served # "no"
      BY <1>1, <1>2, PutAsBefore, PutOrderly
  <2>2. Alive /\ Latest.served # "done" /\ Here' = Here
      BY <1>2, <2>1 DEF Alive, AsBefore, Here, Latest
  <2>3. Latest.served = "yes" /\ Latest'.served = "yes"
    <3>1. Latest \in Socket
        BY Numbers
    <3>2. Latest.served = "yes"
        BY ONLY <2>1, <2>2, <3>1 DEF Socket
    <3> QED
        BY <2>1, <3>2 DEF AsBefore
  <2>4. /\ \A i \in DOMAIN Latest.up : i \in DOMAIN Latest'.up /\ Latest'.up[i] = Latest.up[i]
        /\ \E i \in DOMAIN Latest'.up : Latest'.up[i] = c
    <3>1. /\ DOMAIN Put(c).up = 1..(Len(Latest.up) + 1) /\ Len(Latest.up) \in Nat
          /\ DOMAIN Latest.up = 1..Len(Latest.up)
          /\ \A i \in DOMAIN Latest.up : Put(c).up[i] = Latest.up[i]
          /\ Put(c).up[Len(Latest.up) + 1] = c
        BY <1>1, PutSocket
    <3> QED
        BY ONLY <2>1, <3>1
  <2>5. CASE Asks(c, e)
      BY <2>2, <2>3, <2>4, <2>5 DEF Told
  <2>6. CASE \E i \in DOMAIN Latest.up : Asks(Latest.up[i], e)
    <3>1. \E i \in DOMAIN Latest'.up : Asks(Latest'.up[i], e)
        BY ONLY <2>4, <2>6 DEF Asks
    <3> QED
        BY <2>2, <2>3, <3>1 DEF Told
  <2>7. CASE (\E w \in waiting : Asks(w, e)) \/ (Here \in DOMAIN subs /\ e \in subs[Here])
      BY <1>2, <2>2, <2>3, <2>7 DEF Told
  <2> QED
      BY <2>2, <2>3, <2>5, <2>6, <2>7 DEF Told
<1>3. CASE socks' = socks /\ waiting' = waiting \cup {c}
  <2>1. Latest' = Latest /\ Alive' = Alive /\ Here' = Here
      BY <1>3 DEF Latest, Alive, Here, ws
  <2> QED
      BY <1>3, <2>1 DEF Told
<1>4. CASE socks' = socks /\ Latest.ready \in {"closing", "closed"}
  <2>1. ~Alive'
      BY <1>4 DEF Latest, Alive, ws
  <2> QED
      BY <2>1
<1> QED
    BY <1>1, <1>2, <1>3, <1>4 DEF Goes

LEMMA HeardStep ==
    ASSUME SocketClientAssumption, TypeOK, Sockets, OneSocket, Orderly, Known, Heard,
           [Next]_vars
    PROVE  Heard'
PROOF
<1>1. ASSUME Publish
      PROVE  Heard'
  <2>1. PICK c : Issues(c)
      BY <1>1, IssueEffect
  <2>2. UNCHANGED <<closed, subs, undone>> /\ listeners' = listeners
      BY <1>1 DEF Publish, client, server
  <2> SUFFICES ASSUME Alive', Latest'.served # "done", NEW e \in listeners' \ undone'
               PROVE  Told(e)'
      BY DEF Heard
  <2>3. Alive /\ Latest.served # "done" /\ (Told(e) \/ Asks(c, e) => Told(e)')
      BY <2>1, <2>2, IssueTold
  <2>4. e \in listeners
      BY <2>1, <2>2, <2>3
  <2> QED
      BY <2>2, <2>3, <2>4 DEF Heard
<1>2. ASSUME NEW d \in Dest, Subscribe(d)
      PROVE  Heard'
  <2>1. PICK c : Issues(c) /\ Asks(c, d)
      BY <1>2, IssueEffect
  <2>2. UNCHANGED <<closed, subs, undone>> /\ listeners' = listeners \cup {d}
      BY <1>2 DEF Subscribe, client, server
  <2> SUFFICES ASSUME Alive', Latest'.served # "done", NEW e \in listeners' \ undone'
               PROVE  Told(e)'
      BY DEF Heard
  <2>3. Alive /\ Latest.served # "done" /\ (Told(e) \/ Asks(c, e) => Told(e)')
      BY <2>1, <2>2, IssueTold
  <2>4. e \in listeners \/ (e = d /\ Asks(c, e))
      BY <2>1, <2>2, <2>3
  <2> QED
      BY <2>2, <2>3, <2>4 DEF Heard
<1>3. ASSUME NEW d \in Dest, Unsubscribe(d)
      PROVE  Heard'
  <2>1. PICK c : Issues(c) /\ (listeners' = listeners \ {d} \/ ~Alive)
      BY <1>3, IssueEffect
  <2>2. UNCHANGED <<closed, subs, undone>>
      BY <1>3 DEF Unsubscribe, client, server
  <2> SUFFICES ASSUME Alive', Latest'.served # "done", NEW e \in listeners' \ undone'
               PROVE  Told(e)'
      BY DEF Heard
  <2>3. Alive /\ Latest.served # "done" /\ (Told(e) \/ Asks(c, e) => Told(e)')
      BY <2>1, <2>2, IssueTold
  <2>4. e \in listeners
      BY <2>1, <2>2, <2>3
  <2> QED
      BY <2>2, <2>3, <2>4 DEF Heard
<1>4. ASSUME Close
      PROVE  Heard'
  <2> DEFINE c == Cmd(calls + 1, "close", {})
  <2>1. NextCall /\ c \in Command_ /\ c.n = calls + 1
      BY <1>4, CommandType DEF Close
  <2>2. \/ \E r : Shuts(c, r) /\ waiting' \subseteq waiting \cup {c}
        \/ Goes(c) /\ UNCHANGED <<closed, waiting>> /\ ~Alive
      BY <1>4, <2>1, CloseEffect
  <2>3. CASE closed'
      BY <2>3 DEF Heard, Alive
  <2>4. CASE Goes(c) /\ closed' = closed /\ ~Alive
    <3>1. socks' = socks
        BY <2>1, <2>4 DEF Goes, Alive, NextCall, CheckConnection
    <3> QED
        BY <2>4, <3>1 DEF Heard, Alive, Latest, ws
  <2> QED
      BY <2>2, <2>3, <2>4 DEF Shuts
<1>5. ASSUME NEW w \in waiting, Tick(w)
      PROVE  Heard'
  <2>1. /\ Only(ws, Put(w)) /\ Latest.ready = "open" /\ w \in Command_
        /\ waiting' = waiting \ {w} /\ (w.type = "close" => closed)
      BY <1>5, TickEffect DEF Sockets, Orderly
  <2>2. UNCHANGED <<closed, subs, undone, listeners>>
      BY <1>5 DEF Tick, client, server
  <2>3. AsBefore /\ Latest' = Put(w) /\ Latest.served # "no"
      BY <2>1, PutAsBefore, PutOrderly
  <2> SUFFICES ASSUME Alive', Latest'.served # "done", NEW e \in listeners' \ undone'
               PROVE  Told(e)'
      BY DEF Heard
  <2>4. Alive /\ Latest.served # "done" /\ Told(e)
      BY <2>2, <2>3 DEF Alive, AsBefore, Heard
  <2>5. Latest.served = "yes" /\ Latest'.served = "yes" /\ Here' = Here
    <3>1. Latest \in Socket
        BY Numbers
    <3>2. Latest.served = "yes"
        BY ONLY <2>3, <2>4, <3>1 DEF Socket
    <3> QED
        BY <2>3, <3>2 DEF AsBefore, Here, Latest
  <2>6. \A i \in DOMAIN Latest.up : i \in DOMAIN Latest'.up /\ Latest'.up[i] = Latest.up[i]
    <3>1. /\ DOMAIN Put(w).up = 1..(Len(Latest.up) + 1) /\ Len(Latest.up) \in Nat
          /\ DOMAIN Latest.up = 1..Len(Latest.up)
          /\ \A i \in DOMAIN Latest.up : Put(w).up[i] = Latest.up[i]
        BY <2>1, PutSocket
    <3> QED
        BY ONLY <2>3, <3>1
  <2>7. \E i \in DOMAIN Latest'.up : Latest'.up[i] = w
    <3>1. /\ DOMAIN Put(w).up = 1..(Len(Latest.up) + 1) /\ Len(Latest.up) \in Nat
          /\ Put(w).up[Len(Latest.up) + 1] = w
        BY <2>1, PutSocket
    <3> QED
        BY ONLY <2>3, <3>1
  <2>8. CASE \E v \in waiting : Asks(v, e)
    <3>1. CASE Asks(w, e)
        BY <2>5, <2>7, <3>1 DEF Told
    <3>2. CASE ~Asks(w, e)
        BY <2>1, <2>8, <3>2 DEF Told
    <3> QED
        BY <3>1, <3>2
  <2>9. CASE \E i \in DOMAIN Latest.up : Asks(Latest.up[i], e)
    <3>1. \E i \in DOMAIN Latest'.up : Asks(Latest'.up[i], e)
        BY ONLY <2>6, <2>9 DEF Asks
    <3> QED
        BY <2>5, <3>1 DEF Told
  <2>10. CASE Here \in DOMAIN subs /\ e \in subs[Here]
      BY <2>2, <2>5, <2>10 DEF Told
  <2> QED
      BY <2>4, <2>5, <2>8, <2>9, <2>10 DEF Told
<1>6. ASSUME NEW s \in 1..ws, ServerAccepts(s)
      PROVE  Heard'
  <2> DEFINE r == Accepted(ws)
  <2>1. /\ s = ws /\ socks[s] = Latest
        /\ Only(ws, r) /\ Latest.ready = "connecting" /\ Latest.served = "no"
        /\ Latest \in Socket /\ Listen(Latest.id, Latest.dests)
        /\ r.ready = Latest.ready /\ r.served = "yes" /\ r.page = Lookup(Latest.id)
      BY <1>6, AcceptEffect
  <2>2. UNCHANGED <<closed, listeners, waiting>> /\ undone' = undone \ Latest.dests
      BY <1>6, <2>1 DEF ServerAccepts, client
  <2>3. Latest' = r
      BY <2>1, Numbers DEF Only, Latest
  <2> HIDE DEF r
  <2>4. Here' = Lookup(Latest.id)
      BY <2>1, <2>3 DEF Here, Latest
  <2>5. Here' \in DOMAIN subs' /\ Latest.dests \subseteq subs'[Here']
    <3>1. Latest.id \in PageId /\ Latest.dests \in SUBSET Dest
        BY ONLY <2>1 DEF Socket
    <3> QED
        BY <2>1, <2>4, <3>1, ListenPages DEF TypeOK
  <2> SUFFICES ASSUME Alive', NEW e \in listeners' \ undone'
               PROVE  Told(e)'
      BY DEF Heard
  <2>6. e \in Latest.dests \/ Told(e)
      BY <2>1, <2>2, <2>3 DEF Heard, Alive
  <2>7. e \in Latest.dests \/ \E w \in waiting : Asks(w, e)
      BY <2>1, <2>6 DEF Told
  <2>8. CASE e \in Latest.dests
      BY <2>1, <2>3, <2>5, <2>8 DEF Told
  <2>9. CASE \E w \in waiting : Asks(w, e)
      BY <2>2, <2>9 DEF Told
  <2> QED
      BY <2>7, <2>8, <2>9
<1>7. ASSUME NEW s \in 1..ws, ServerReceives(s)
      PROVE  Heard'
  <2> DEFINE r == Received(s)
           q == socks[s].up
           c == Head(q)
           P == socks[s].page
  <2>1. /\ Only(s, r) /\ r.ready = socks[s].ready /\ r.page = socks[s].page /\ c \in Command_
        /\ c = q[1] /\ 1 \in DOMAIN q
      BY <1>7, ReceivedEffect
  <2>2. c.type # "close" =>
           /\ r.served = socks[s].served
           /\ \A i \in DOMAIN q : i # 1 => \E j \in DOMAIN r.up : r.up[j] = q[i]
      BY <1>7, ReceivedEffect
  <2>3. /\ UNCHANGED <<closed, listeners, waiting>> /\ socks[s].served = "yes"
        /\ Command(P, c.type, c.dests)
      BY <1>7 DEF ServerReceives, client
  <2>4. undone' = IF P # Here THEN undone
                  ELSE CASE c.type = "unSubscibe" -> undone \cup (c.dests \cap listeners)
                         [] c.type = "subscibe"   -> undone \ c.dests
                         [] OTHER                 -> undone
      BY <1>7 DEF ServerReceives, Here
  <2>5. /\ s # ws => Latest' = Latest
        /\ s = ws => Latest' = r /\ Latest = socks[s]
      BY <2>1, Numbers DEF Only, Latest
  <2>6. CASE c.type = "close"
    <3>1. closed
        BY <2>1, <2>6, Numbers DEF Orderly, Tame
    <3> QED
        BY <2>3, <3>1 DEF Heard, Alive
  <2>7. CASE c.type # "close"
    <3>1. /\ DOMAIN subs' = DOMAIN subs
          /\ \A p \in DOMAIN subs : p # P => subs'[p] = subs[p]
          /\ P \in DOMAIN subs =>
                /\ c.type = "subscibe" => subs'[P] = subs[P] \cup c.dests
                /\ c.type = "unSubscibe" => subs'[P] = subs[P] \ c.dests
                /\ c.type = "publish" => subs'[P] = subs[P]
      <4>1. ServerTypeOK /\ c \in Command_ /\ Command(P, c.type, c.dests)
          BY <2>1, <2>3 DEF TypeOK
      <4> HIDE DEF c, P
      <4>2. DOMAIN subs' \subseteq DOMAIN subs
            /\ \A p \in DOMAIN subs : p # P => p \in DOMAIN subs' /\ subs'[p] = subs[p]
          BY ONLY <4>1, CommandPages
      <4>3. P \in DOMAIN subs =>
                /\ P \in DOMAIN subs'
                /\ c.type = "subscibe" => subs'[P] = subs[P] \cup c.dests
                /\ c.type = "unSubscibe" => subs'[P] = subs[P] \ c.dests
                /\ c.type = "publish" => subs'[P] = subs[P]
          BY ONLY <2>7, <4>1, CommandPages
      <4> QED
          BY ONLY <4>2, <4>3
    <3>2. c.type \in {"publish", "subscibe", "unSubscibe"}
        BY ONLY <2>1, <2>7 DEF Command_
    <3>3. Proper(socks[s]) /\ Proper(Latest)
        BY Numbers DEF Orderly, Latest
    <3> HIDE DEF r, c
    <3>4. /\ Latest'.ready = Latest.ready /\ Latest'.served = Latest.served
          /\ Latest'.page = Latest.page
        BY ONLY <2>1, <2>2, <2>5, <2>7
    <3> SUFFICES ASSUME Alive', Latest'.served # "done", NEW e \in listeners' \ undone'
                 PROVE  Told(e)'
        BY DEF Heard
    <3>5. Alive /\ Latest.served # "done" /\ Here' = Here
        BY <2>3, <3>4 DEF Alive, Here, Latest
    <3>6. e \in undone => Latest.served = "yes" /\ P = Here /\ c.type = "subscibe" /\ e \in c.dests
      <4>1. e \in undone => P = Here /\ c.type = "subscibe" /\ e \in c.dests
          BY ONLY <2>4, e \in listeners' \ undone'
      <4>2. P # NoId
          BY ONLY <2>3, <3>3 DEF Proper
      <4>3. P = Here => Latest.served # "no"
          BY ONLY <3>3, <4>2 DEF Proper, Here, Latest
      <4>4. Latest \in Socket
          BY Numbers
      <4>5. P = Here => Latest.served = "yes"
          BY ONLY <3>5, <4>3, <4>4 DEF Socket
      <4> QED
          BY ONLY <4>1, <4>5
    <3>7. CASE Latest.served = "yes" /\ P = Here /\ c.type = "subscibe" /\ e \in c.dests
      <4>1. Here \in DOMAIN subs
          BY <3>5, <3>7 DEF Known
      <4>2. Here' \in DOMAIN subs' /\ e \in subs'[Here']
          BY ONLY <3>1, <3>5, <3>7, <4>1
      <4> QED
          BY <3>4, <3>7, <4>2 DEF Told
    <3>8. CASE /\ ~(Latest.served = "yes" /\ P = Here /\ c.type = "subscibe" /\ e \in c.dests)
               /\ Told(e)
      <4>1. CASE Latest.served = "no"
        <5>1. s # ws /\ Latest' = Latest
            BY <2>3, <2>5, <4>1
        <5> QED
            BY <2>3, <3>8, <4>1, <5>1 DEF Told
      <4>2. CASE \E w \in waiting : Asks(w, e)
          BY <2>3, <4>2 DEF Told
      <4>3. CASE Latest.served = "yes" /\ Here \in DOMAIN subs /\ e \in subs[Here]
        <5>1. P = Here /\ c.type = "unSubscibe" => e \notin c.dests
            BY <2>3, <2>4
        <5>2. Here' \in DOMAIN subs' /\ e \in subs'[Here']
            BY ONLY <3>1, <3>2, <3>5, <4>3, <5>1
        <5> QED
            BY <3>4, <4>3, <5>2 DEF Told
      <4>4. CASE Latest.served = "yes" /\ \E i \in DOMAIN Latest.up : Asks(Latest.up[i], e)
        <5>1. CASE s # ws
          <6>1. Latest' = Latest
              BY <2>5, <5>1
          <6> QED
              BY <4>4, <6>1 DEF Told
        <5>2. CASE s = ws
          <6>1. PICK i \in DOMAIN Latest.up : Asks(Latest.up[i], e)
              BY <4>4
          <6>2. Latest.up = q /\ P = Here /\ Latest' = r
              BY <2>5, <5>2 DEF Here, Latest
          <6>3. i # 1
              BY ONLY <2>1, <3>8, <4>4, <6>1, <6>2 DEF Asks
          <6>4. \E j \in DOMAIN r.up : r.up[j] = Latest.up[i]
              BY ONLY <2>2, <2>7, <6>1, <6>2, <6>3
          <6>5. \E j \in DOMAIN Latest'.up : Asks(Latest'.up[j], e)
              BY ONLY <6>1, <6>2, <6>4
          <6> QED
              BY <3>4, <4>4, <6>5 DEF Told
        <5> QED
            BY <5>1, <5>2
      <4> QED
          BY <3>8, <4>1, <4>2, <4>3, <4>4 DEF Told
    <3> QED
        BY <2>3, <3>5, <3>6, <3>7, <3>8 DEF Heard
  <2> QED
      BY <2>6, <2>7
<1>8. ASSUME NEW p \in DOMAIN subs, PageExpires(p)
      PROVE  Heard'
  <2>1. UNCHANGED <<closed, listeners, undone, socks, waiting>>
      BY <1>8 DEF PageExpires, client, wire
  <2>2. DOMAIN subs' = DOMAIN subs \ {p} /\ \A q \in DOMAIN subs' : subs'[q] = subs[q]
      BY <1>8, ServerLoses DEF PageExpires, TypeOK
  <2>3. Alive => Here # p
      BY <1>8, Numbers DEF PageExpires, Alive, Here, Latest
  <2>4. Latest' = Latest /\ Here' = Here /\ Alive' = Alive
      BY <2>1 DEF Latest, Here, Alive, ws
  <2>5. ASSUME Alive, NEW e, Told(e)
        PROVE  Told(e)'
      BY <2>1, <2>2, <2>3, <2>4, <2>5 DEF Told
  <2> QED
      BY <2>1, <2>4, <2>5 DEF Heard
<1>9. ASSUME NEW t \in sessions, SessionExpires(t)
      PROVE  Heard'
  <2>1. UNCHANGED <<closed, listeners, undone, socks, waiting>>
      BY <1>9 DEF SessionExpires, client, wire
  <2>2. subs' = subs
      BY <1>9, ServerLoses DEF SessionExpires, TypeOK
  <2> QED
      BY <2>1, <2>2, HeardSame
<1>10. ASSUME ServerRestarts
       PROVE  Heard'
  <2>1. Restarted(Latest', Latest)
      BY <1>10, RestartEffect, Numbers DEF Latest
  <2>2. UNCHANGED <<closed, listeners, undone, waiting>>
      BY <1>10 DEF ServerRestarts, client
  <2>3. Latest \in Socket
      BY Numbers
  <2>4. /\ Latest'.ready = Latest.ready /\ Latest'.dests = Latest.dests
        /\ Latest'.served # "done" => Latest.served = "no" /\ Latest'.served = "no"
      BY ONLY <2>1, <2>3 DEF Restarted, Socket
  <2> SUFFICES ASSUME Alive', Latest'.served # "done", NEW e \in listeners' \ undone'
               PROVE  Told(e)'
      BY DEF Heard
  <2>5. Latest.served = "no" /\ Told(e)
      BY <2>2, <2>4 DEF Heard, Alive
  <2> QED
      BY <2>2, <2>4, <2>5 DEF Told
<1>11. ASSUME NEW s \in 1..ws, Opened(s)
       PROVE  Heard'
  <2> DEFINE r == [Latest EXCEPT !.ready = "open"]
  <2>1. Only(ws, r) /\ Latest.ready = "connecting" /\ Latest \in Socket
      BY <1>11, OpenedEffect
  <2>2. UNCHANGED <<closed, listeners, undone, waiting, subs>>
      BY <1>11 DEF Opened, client, server
  <2>3. /\ r.served = Latest.served /\ r.page = Latest.page /\ r.up = Latest.up
        /\ r.dests = Latest.dests
      BY ONLY <2>1 DEF Socket
  <2>4. Latest' = r
      BY <2>1, Numbers DEF Only, Latest
  <2> HIDE DEF r
  <2>5. Here' = Here /\ (Alive' => Alive) /\ Latest'.served = Latest.served
      BY <2>1, <2>2, <2>3, <2>4 DEF Here, Latest, Alive
  <2>6. ASSUME NEW e, Told(e)
        PROVE  Told(e)'
      BY <2>2, <2>3, <2>4, <2>5, <2>6 DEF Told
  <2> QED
      BY <2>2, <2>5, <2>6 DEF Heard
<1>12. ASSUME NEW s \in 1..ws, Message(s)
       PROVE  Heard'
  <2> DEFINE r == [Latest EXCEPT !.down = Tail(Latest.down)]
  <2>1. Only(ws, r) /\ Latest.ready = "open" /\ Latest \in Socket
      BY <1>12, MessageEffect
  <2>2. UNCHANGED <<closed, listeners, undone, waiting, subs>>
      BY <1>12 DEF Message, client, server
  <2>3. /\ r.served = Latest.served /\ r.page = Latest.page /\ r.up = Latest.up
        /\ r.dests = Latest.dests
      BY ONLY <2>1 DEF Socket
  <2>4. Latest' = r
      BY <2>1, Numbers DEF Only, Latest
  <2> HIDE DEF r
  <2>5. Here' = Here /\ (Alive' => Alive) /\ Latest'.served = Latest.served
      BY <2>1, <2>2, <2>3, <2>4 DEF Here, Latest, Alive
  <2>6. ASSUME NEW e, Told(e)
        PROVE  Told(e)'
      BY <2>2, <2>3, <2>4, <2>5, <2>6 DEF Told
  <2> QED
      BY <2>2, <2>5, <2>6 DEF Heard
<1>13. ASSUME NEW s \in 1..ws, Breaks(s) \/ CloseEvent(s) \/ FlashCloses(s) \/ FlashFails(s)
       PROVE  Heard'
  <2>1. PICK r : Ends(r)
      BY <1>13, EndEffect
  <2>2. CASE Only(ws, r)
    <3>1. ~Alive'
        BY <2>1, <2>2, EndedNotAlive DEF Ends
    <3> QED
        BY <3>1 DEF Heard
  <2>3. CASE Another(r)
    <3>1. /\ Latest'.served = "no" /\ Latest'.dests = listeners
        BY <2>3, AnotherLatest
    <3>2. listeners' = listeners
        BY <1>13 DEF Breaks, CloseEvent, FlashCloses, FlashFails, client
    <3> QED
        BY <3>1, <3>2 DEF Heard, Told
  <2> QED
      BY <2>1, <2>2, <2>3 DEF Ends
<1>14. CASE UNCHANGED vars
  <2>1. UNCHANGED <<closed, listeners, undone, socks, waiting, subs>>
      BY <1>14 DEF vars, wire, client, server
  <2> QED
      BY <2>1, HeardSame
<1> QED
    BY <1>1, <1>2, <1>3, <1>4, <1>5, <1>6, <1>7, <1>8, <1>9, <1>10, <1>11,
       <1>12, <1>13, <1>14, Numbers DEF Next, Calls, Moves, Troubles

-----------------------------------------------------------------------------
(* After close() has returned, no step opens a socket or changes a         *)
(* listener.                                                               *)

LEMMA RestsStep ==
    ASSUME SocketClientAssumption, TypeOK, Sockets, OneSocket, Orderly, [Next]_vars
    PROVE  Rests
PROOF
<1>1. ASSUME Publish
      PROVE  Rests
    BY <1>1 DEF Publish, NextCall, CheckConnection, Rests
<1>2. ASSUME NEW d \in Dest, Subscribe(d)
      PROVE  Rests
    BY <1>2 DEF Subscribe, NextCall, CheckConnection, Rests
<1>3. ASSUME NEW d \in Dest, Unsubscribe(d)
      PROVE  Rests
    BY <1>3 DEF Unsubscribe, NextCall, CheckConnection, Rests
<1>4. ASSUME Close
      PROVE  Rests
    BY <1>4 DEF Close, NextCall, CheckConnection, Rests
<1>5. ASSUME NEW w \in waiting, Tick(w)
      PROVE  Rests
    BY <1>5, TickEffect DEF Tick, client, Rests, Only
<1>6. ASSUME NEW s \in 1..ws, ServerAccepts(s)
      PROVE  Rests
    BY <1>6, AcceptEffect DEF ServerAccepts, client, Rests, Only
<1>7. ASSUME NEW s \in 1..ws, ServerReceives(s)
      PROVE  Rests
    BY <1>7, ReceivedEffect DEF ServerReceives, client, Rests, Only
<1>8. ASSUME NEW p \in DOMAIN subs, PageExpires(p)
      PROVE  Rests
    BY <1>8 DEF PageExpires, client, wire, Rests, ws
<1>9. ASSUME NEW t \in sessions, SessionExpires(t)
      PROVE  Rests
    BY <1>9 DEF SessionExpires, client, wire, Rests, ws
<1>10. ASSUME ServerRestarts
       PROVE  Rests
    BY <1>10, RestartEffect DEF ServerRestarts, client, Rests
<1>11. ASSUME NEW s \in 1..ws, Opened(s)
       PROVE  Rests
    BY <1>11, OpenedEffect DEF Opened, client, Rests, Only
<1>12. ASSUME NEW s \in 1..ws, Message(s)
       PROVE  Rests
    BY <1>12, MessageEffect DEF Message, Rests, Only
<1>13. ASSUME NEW s \in 1..ws, Breaks(s) \/ CloseEvent(s) \/ FlashCloses(s) \/ FlashFails(s)
       PROVE  Rests
  <2>1. PICK r : Ends(r)
      BY <1>13, EndEffect
  <2>2. UNCHANGED <<closed, listeners>>
      BY <1>13 DEF Breaks, CloseEvent, FlashCloses, FlashFails, client
  <2>3. closed => ws' = ws
      BY <2>1 DEF Ends, Only
  <2> QED
      BY ONLY <2>2, <2>3 DEF Rests
<1>14. CASE UNCHANGED vars
    BY <1>14 DEF vars, client, wire, Rests, ws
<1> QED
    BY <1>1, <1>2, <1>3, <1>4, <1>5, <1>6, <1>7, <1>8, <1>9, <1>10, <1>11,
       <1>12, <1>13, <1>14, Numbers DEF Next, Calls, Moves, Troubles

-----------------------------------------------------------------------------
(* The theorems                                                            *)

LEMMA Started ==
    ASSUME SocketClientAssumption, Init
    PROVE  IInv
PROOF
<1> DEFINE f == Fresh(NoId, {})
<1>1. /\ socks = <<f>> /\ waiting = {} /\ calls = 0 /\ faults = 0
      /\ sent = [n \in Call |-> 0] /\ refused = {} /\ undone = {}
      /\ closed = FALSE /\ listeners = {} /\ pageId = NoId /\ cached = NoId
      /\ sessions = {} /\ created = 0 /\ nextPage = << >> /\ subs = << >>
    BY DEF Init, ServerInit, ClientInit
<1>2. f \in Socket
    BY FreshIsSocket DEF NoId, PageId
<1>3. /\ f.ready = "connecting" /\ f.served = "no" /\ f.page = NoId /\ f.up = << >>
      /\ f.down = << >> /\ f.id = NoId
    BY DEF Fresh
<1> HIDE DEF f
<1>4. socks \in Seq(Socket) /\ ws = 1 /\ socks[1] = f /\ DOMAIN socks = 1..1
      /\ socks # << >>
    BY ONLY <1>1, <1>2 DEF ws
<1>5. Sockets /\ OneSocket
  <2>1. 1..(ws - 1) = {}
      BY ONLY <1>4
  <2> QED
      BY ONLY <1>1, <1>4, <2>1 DEF Sockets, OneSocket
<1>6. Orderly
  <2>1. Proper(f) /\ Tame(f, closed)
      BY ONLY <1>3 DEF Proper, Tame
  <2> QED
      BY ONLY <1>1, <1>4, <2>1 DEF Orderly
<1>7. SocketsTypeOK
    BY ONLY <1>2, <1>4 DEF SocketsTypeOK, Socket
<1>8. ServerTypeOK
    BY ONLY <1>1 DEF ServerTypeOK
<1>9. ClientTypeOK
    BY ONLY <1>1 DEF ClientTypeOK, NoId, PageId
<1>10. TypeOK
  <2>1. MaxCalls \in Nat /\ MaxFaults \in Nat
      BY DEF SocketClientAssumption
  <2>2. calls \in 0..MaxCalls /\ faults \in 0..MaxFaults
      BY ONLY <1>1, <2>1
  <2>3. sent \in [Call -> Nat]
      BY ONLY <1>1
  <2> QED
      BY ONLY <1>1, <1>7, <1>8, <1>9, <2>2, <2>3 DEF TypeOK
<1>11. Fates
  <2>1. 1..calls = {}
      BY ONLY <1>1
  <2> QED
      BY ONLY <1>1, <2>1 DEF Fates
<1>12. Latest = f
    BY ONLY <1>4 DEF Latest
<1>13. Known
    BY ONLY <1>1, <1>3, <1>12 DEF Known, GetPageId
<1>14. Heard
    BY ONLY <1>1 DEF Heard
<1> QED
    BY <1>5, <1>6, <1>10, <1>11, <1>13, <1>14 DEF IInv

\* The inductive invariant holds of every reachable state.
THEOREM Invariance ==
    ASSUME SocketClientAssumption
    PROVE  Spec => []IInv
PROOF
<1>1. Init => IInv
    BY Started
<1>2. IInv /\ [Next]_vars => IInv'
    BY TypesStep, OrderlyStep, FatesStep, KnownStep, HeardStep DEF IInv
<1> QED
    BY <1>1, <1>2, PTL DEF Spec

\* Every variable has its type, and what a socket, an interval or a command
\* names exists: whatever the order of calls, events, ticks and faults.
THEOREM Typing ==
    ASSUME SocketClientAssumption
    PROVE  Spec => []TypeOK
PROOF
<1>1. IInv => TypeOK
    BY DEF IInv
<1> QED
    BY <1>1, Invariance, PTL

\* No call of the page is sent twice, nor forgotten by its interval when the
\* socket it waited for was replaced (send in createWsConnection).
THEOREM CallsHaveOneFate ==
    ASSUME SocketClientAssumption
    PROVE  Spec => []CallsAccounted
PROOF
<1>1. IInv => CallsAccounted
    BY FatesAccounted DEF IInv
<1> QED
    BY <1>1, Invariance, PTL

\* However errors, closes and reconnections follow each other, the variable ws
\* holds the only socket that is not closed (onclose in createWsConnection).
THEOREM OneAlive ==
    ASSUME SocketClientAssumption
    PROVE  Spec => []OneSocket
PROOF
<1>1. IInv => OneSocket
    BY DEF IInv
<1> QED
    BY <1>1, Invariance, PTL

\* A quiet client is alive, and its socket is served.
LEMMA QuietIsAlive ==
    ASSUME Sockets, Quiet, ~closed
    PROVE  Alive /\ Latest.served = "yes" /\ Latest.up = << >> /\ Latest.down = << >>
           /\ waiting = {}
PROOF
<1>1. /\ socks[ws].ready = "open" /\ socks[ws].served = "yes" /\ socks[ws].down = << >>
      /\ waiting = {} /\ \A s \in DOMAIN socks : socks[s].up = << >>
    BY DEF Quiet
<1> QED
    BY <1>1, Numbers DEF Alive, Latest

\* Once quiet, the page id the client will name is the page it has, and the
\* server delivers to it every destination the page listens to, but for one
\* whose unSubscibe an interval sent too late (getPageId, commandsReceived,
\* collectDestinations and onclose in createWsConnection).
THEOREM NoneIsDeaf ==
    ASSUME SocketClientAssumption
    PROVE  Spec => []NotDeaf
PROOF
<1>1. ASSUME IInv
      PROVE  NotDeaf
  <2> SUFFICES ASSUME Quiet, ~closed
               PROVE  /\ GetPageId = Here
                      /\ Here \in DOMAIN subs /\ listeners \ undone \subseteq subs[Here]
      BY DEF NotDeaf
  <2>1. /\ Alive /\ Latest.served = "yes" /\ Latest.down = << >>
        /\ waiting = {} /\ ws \in DOMAIN socks
      BY <1>1, QuietIsAlive, Numbers DEF IInv
  <2>2. DOMAIN Latest.up = {}
    <3>1. Latest.up = << >>
        BY <1>1, QuietIsAlive DEF IInv
    <3> QED
        BY ONLY <3>1
  <2>3. Here \in DOMAIN subs /\ GetPageId = Here
      BY <1>1, <2>1 DEF IInv, Known
  <2>4. \A d \in listeners \ undone : Told(d)
      BY <1>1, <2>1 DEF IInv, Heard
  <2>5. \A d \in listeners \ undone : d \in subs[Here]
      BY ONLY <2>1, <2>2, <2>4 DEF Told
  <2> QED
      BY <2>3, <2>5
<1> QED
    BY <1>1, Invariance, PTL

\* A closed client opens no socket, and its listeners stay as they are: the
\* events that are still to come find closed set (close, checkConnection,
\* onclose).
THEOREM ClosedRests ==
    ASSUME SocketClientAssumption
    PROVE  Spec => StaysClosed
PROOF
<1>1. IInv /\ [Next]_vars => [Rests]_vars
    BY RestsStep DEF IInv
<1> QED
    BY <1>1, Invariance, PTL DEF Spec, StaysClosed

=============================================================================
